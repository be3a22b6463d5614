------------------------------ MODULE SpscLen -------------------------------
(***************************************************************************)
(* riaps-core/src/spsc.rs: SpscRing::len and capacity_left, called while   *)
(* the two sides work.  len loads tail and then head, two separate loads   *)
(* between which the ring moves on.  Both take &self and the ring is Sync, *)
(* so any thread may call them: the producer (EventBus::emit does), the    *)
(* consumer, or a monitoring thread that owns neither side.                *)
(***************************************************************************)
EXTENDS SpscRing

CONSTANT Callers  \* the threads that call len

ASSUME CallersAssumption == Callers \subseteq {"producer", "consumer", "monitor"}

VARIABLES
  caller,   \* the thread inside len, or "nobody"
  ltail,    \* len's local copy of tail
  seen      \* the thread that made the last finished call, what len and
            \* capacity_left returned to it; NoView once that thread pushed

lenVars == <<caller, ltail, seen>>

NoView == [by |-> "nobody", len |-> 0, left |-> 0]

LenInit ==
  /\ Init
  /\ caller = "nobody"
  /\ ltail = 0
  /\ seen = NoView

\* The two owners are one thread each: they are not inside another call.
LenLoadTail(c) ==
  /\ alive
  /\ caller = "nobody"
  /\ c = "producer" => ppc = "idle"
  /\ c = "consumer" => cpc = "idle"
  /\ caller' = c
  /\ ltail' = tail
  /\ UNCHANGED <<vars, seen>>

\* min(len, N), subtracted from N.
CapacityLeft(len) == IF len < N THEN N - len ELSE 0

\* Mutant: one slot too many is reported as free.
LenLoadHead_SpareSlot ==
  /\ caller # "nobody"
  /\ LET len == WrappingSub(ltail, head)
     IN  seen' = [by |-> caller, len |-> len, left |-> CapacityLeft(len) + 1]
  /\ caller' = "nobody"
  /\ UNCHANGED <<vars, ltail>>

LenLoadHead ==
  /\ caller # "nobody"
  /\ LET len == WrappingSub(ltail, head)
     IN  seen' = [by |-> caller, len |-> len, left |-> CapacityLeft(len)]
  /\ caller' = "nobody"
  /\ UNCHANGED <<vars, ltail>>

\* The producer is not inside len when it calls push.  Having pushed, it no
\* longer relies on what it saw before.
ProducerMoves ==
  /\ caller # "producer"
  /\ \/ (\E v \in Values : PushLoadTail(v)) /\ UNCHANGED seen
     \/ (PushRejected \/ PushAdmitted \/ PushWrite) /\ UNCHANGED seen
     \/ PushPublish /\ seen' = NoView
  /\ UNCHANGED <<caller, ltail>>

ConsumerMoves ==
  /\ caller # "consumer"
  /\ PopLoadHead \/ SliceLoadHead \/ ConsumerStep
  /\ UNCHANGED lenVars

LenNext ==
  \/ \E c \in Callers : LenLoadTail(c)
  \/ LenLoadHead
  \/ ProducerMoves
  \/ ConsumerMoves
  \/ caller = "nobody" /\ Drop /\ UNCHANGED lenVars

LenSpec == LenInit /\ [][LenNext]_<<vars, lenVars>>

-----------------------------------------------------------------------------
(* Properties                                                              *)

(***************************************************************************)
(* The room capacity_left reports to the producer can only grow until that *)
(* producer pushes: emit's decision to use a slot is safe although it is   *)
(* made before the push.                                                   *)
(***************************************************************************)
RoomSeenByProducerIsThere ==
  seen.by = "producer" => seen.left <= N - Count

=============================================================================
