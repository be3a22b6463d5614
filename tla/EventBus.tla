------------------------------ MODULE EventBus ------------------------------
(***************************************************************************)
(* riaps-dsp/src/event_bus.rs: one shard of the kernel event bus.  The     *)
(* real-time side calls emit, the monitoring side calls drain.  emit       *)
(* decides on a reading of the free space taken before its push, and the   *)
(* monitoring side may drain in between, so the two are separate actions.  *)
(* The ring is the abstract queue that SpscRing is proved to implement.    *)
(***************************************************************************)
EXTENDS Integers, Sequences

CONSTANTS
  N,               \* capacity (const generic N)
  RESERVED_SLOTS,  \* slots kept for fatal events
  Events,          \* the kinds of KernelEvent emitted
  CounterModulus   \* number of values of the u32 overflow counter

ASSUME BusAssumption ==
  /\ N \in Nat /\ RESERVED_SLOTS \in Nat /\ N > RESERVED_SLOTS
  /\ CounterModulus \in Nat \ {0, 1}

VARIABLES
  q, pushRes, popRes, dropped, alive,  \* the ring
  overflow_counter,
  epc,        \* "idle" or "push": emit has decided to push
  event,      \* the event emit was called with
  draining,   \* the consumer is in drain's loop
  emitted,    \* ghost: finished and running calls of emit  (mod CounterModulus)
  delivered   \* ghost: events handed to drain's sink       (mod CounterModulus)

ringVars == <<q, pushRes, popRes, dropped, alive>>
vars == <<ringVars, overflow_counter, epc, event, draining, emitted, delivered>>

\* pop_slice_copy is not used by the bus: the batch length plays no part.
Ring == INSTANCE BoundedQueue WITH Values <- Events, M <- 1

is_fatal(e) ==
  e \in {"AudioThreadStopped", "HostAdapterBlockSizeChanged", "SpscOverflow"}

\* fetch_add on an atomic word wraps.
Increment(counter) == (counter + 1) % CounterModulus

\* capacity_left as the producer sees it: SpscLen!RoomSeenByProducerIsThere.
capacity_left == N - Len(q)

NoEvent == "NoEvent"

Init ==
  /\ Ring!Init
  /\ overflow_counter = 0
  /\ epc = "idle" /\ event = NoEvent
  /\ draining = FALSE
  /\ emitted = 0 /\ delivered = 0

-----------------------------------------------------------------------------
(* emit                                                                    *)

\* Mutant: a discarded event is not counted.
EmitDiscard_Uncounted(e) ==
  /\ alive /\ epc = "idle"
  /\ capacity_left <= RESERVED_SLOTS /\ ~is_fatal(e)
  /\ emitted' = Increment(emitted)
  /\ UNCHANGED <<ringVars, overflow_counter, epc, event, draining, delivered>>

\* Only reserved slots are left and the event is not fatal.
EmitDiscard(e) ==
  /\ alive /\ epc = "idle"
  /\ capacity_left <= RESERVED_SLOTS /\ ~is_fatal(e)
  /\ overflow_counter' = Increment(overflow_counter)
  /\ emitted' = Increment(emitted)
  /\ UNCHANGED <<ringVars, epc, event, draining, delivered>>

\* Mutant: no slot is reserved.
EmitAdmit_NoReserve(e) ==
  /\ alive /\ epc = "idle"
  /\ capacity_left > 0 \/ is_fatal(e)
  /\ epc' = "push" /\ event' = e
  /\ emitted' = Increment(emitted)
  /\ UNCHANGED <<ringVars, overflow_counter, draining, delivered>>

\* Mutant: an ordinary event may take the first reserved slot.
EmitAdmit_OffByOne(e) ==
  /\ alive /\ epc = "idle"
  /\ capacity_left >= RESERVED_SLOTS \/ is_fatal(e)
  /\ epc' = "push" /\ event' = e
  /\ emitted' = Increment(emitted)
  /\ UNCHANGED <<ringVars, overflow_counter, draining, delivered>>

EmitAdmit(e) ==
  /\ alive /\ epc = "idle"
  /\ capacity_left > RESERVED_SLOTS \/ is_fatal(e)
  /\ epc' = "push" /\ event' = e
  /\ emitted' = Increment(emitted)
  /\ UNCHANGED <<ringVars, overflow_counter, draining, delivered>>

EmitPush ==
  /\ epc = "push"
  /\ Ring!PushOk(event)
  /\ epc' = "idle" /\ event' = NoEvent
  /\ UNCHANGED <<overflow_counter, draining, emitted, delivered>>

\* The push fails: the new event is lost and counted.
EmitFull ==
  /\ epc = "push"
  /\ Ring!PushFull(event)
  /\ overflow_counter' = Increment(overflow_counter)
  /\ epc' = "idle" /\ event' = NoEvent
  /\ UNCHANGED <<draining, emitted, delivered>>

-----------------------------------------------------------------------------
(* drain: pop until the ring is empty                                      *)

DrainStart ==
  /\ alive /\ ~draining
  /\ draining' = TRUE
  /\ UNCHANGED <<ringVars, overflow_counter, epc, event, emitted, delivered>>

DrainPop ==
  /\ draining
  /\ Ring!PopSome
  /\ delivered' = Increment(delivered)
  /\ UNCHANGED <<overflow_counter, epc, event, draining, emitted>>

\* Mutant: drain returns although the ring is not empty.
DrainEnd_Early ==
  /\ draining
  /\ draining' = FALSE
  /\ UNCHANGED <<ringVars, overflow_counter, epc, event, emitted, delivered>>

DrainEnd ==
  /\ draining
  /\ Ring!PopNone
  /\ draining' = FALSE
  /\ UNCHANGED <<overflow_counter, epc, event, emitted, delivered>>

\* The bus is dropped when neither side uses it.
DropBus ==
  /\ epc = "idle" /\ ~draining
  /\ Ring!DropQueue
  /\ UNCHANGED <<overflow_counter, epc, event, draining, emitted, delivered>>

EmitStep == EmitPush \/ EmitFull
DrainStep == DrainStart \/ DrainPop \/ DrainEnd

Next ==
  \/ \E e \in Events : EmitDiscard(e) \/ EmitAdmit(e)
  \/ EmitStep
  \/ DrainStep
  \/ DropBus

Spec == Init /\ [][Next]_vars

\* A running emit is scheduled again, and the consumer polls the shard for as
\* long as it exists.
FairSpec == Spec /\ WF_vars(EmitStep) /\ WF_vars(DrainStep)

-----------------------------------------------------------------------------
(* Properties                                                              *)

TypeOK ==
  /\ q \in Seq(Events) /\ Len(q) <= N
  /\ alive \in BOOLEAN
  /\ overflow_counter \in 0 .. (CounterModulus - 1)
  /\ epc \in {"idle", "push"}
  /\ event \in (IF epc = "push" THEN Events ELSE {NoEvent})
  /\ draining \in BOOLEAN
  /\ emitted \in 0 .. (CounterModulus - 1)
  /\ delivered \in 0 .. (CounterModulus - 1)

(***************************************************************************)
(* "The last RESERVED_SLOTS slots are for fatal events only": whatever     *)
(* stands in them is fatal, also when drain ran between emit's reading of  *)
(* the free space and its push.                                            *)
(***************************************************************************)
ReservedForFatal ==
  \A i \in 1 .. Len(q) : i > N - RESERVED_SLOTS => is_fatal(q[i])

(***************************************************************************)
(* A push that finds the ring full is always that of a fatal event, and it *)
(* is lost only behind at least RESERVED_SLOTS queued fatal events: a      *)
(* flood of ordinary events cannot push out a fatal one.                   *)
(***************************************************************************)
FatalLostOnlyBehindFatal ==
  [][epc = "push" /\ overflow_counter' # overflow_counter
       => /\ is_fatal(event)
          /\ Len(q) = N
          /\ \A i \in (N - RESERVED_SLOTS + 1) .. N : is_fatal(q[i])]_vars

(***************************************************************************)
(* Every emitted event is accounted for exactly once: delivered, queued,   *)
(* destroyed with the bus, still in emit, or counted as an overflow.  The  *)
(* counters are machine words, so the balance is modulo their range and    *)
(* survives the counter wrapping around.                                   *)
(***************************************************************************)
NothingUnaccounted ==
  (delivered + overflow_counter + Len(q) + Len(dropped)
     + (IF epc = "push" THEN 1 ELSE 0)) % CounterModulus = emitted

(***************************************************************************)
(* An event that got into the ring reaches the sink, however many others   *)
(* are emitted, as long as the consumer polls the bus and it is not        *)
(* dropped.                                                                *)
(***************************************************************************)
QueuedIsDelivered ==
  \A e \in Events :
    (\E i \in 1 .. Len(q) : q[i] = e)
      ~> (~alive \/ popRes = Ring!Result("Some", <<e>>))

=============================================================================
