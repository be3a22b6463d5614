---------------------------- MODULE BoundedQueue ----------------------------
(***************************************************************************)
(* What riaps-core's SPSC ring promises to its two owners: a FIFO queue of *)
(* at most N elements, on which every call takes effect in one indivisible *)
(* step.  Nothing of the implementation (indices, slots, the separate      *)
(* loads and stores of a call) is visible here.  SpscRing is shown to      *)
(* implement this module, and the users of the ring (EventBus and the      *)
(* others) are built on top of it.                                         *)
(***************************************************************************)
EXTENDS Naturals, Sequences

CONSTANTS
  N,        \* capacity of the queue
  M,        \* number of elements a batch pop asks for
  Values    \* the elements

VARIABLES
  q,        \* the elements in the queue, oldest first
  pushRes,  \* what the last finished push returned
  popRes,   \* what the last finished pop or batch pop returned
  dropped,  \* the elements destroyed with the queue
  alive     \* FALSE once the queue itself has been dropped

vars == <<q, pushRes, popRes, dropped, alive>>

(***************************************************************************)
(* A call's result: which way it returned and the elements it handed back. *)
(***************************************************************************)
Result(tag, elements) == [tag |-> tag, elements |-> elements]

NoResult == Result("none", <<>>)

Init ==
  /\ q = <<>>
  /\ pushRes = NoResult
  /\ popRes = NoResult
  /\ dropped = <<>>
  /\ alive = TRUE

PushOk(v) ==
  /\ alive
  /\ Len(q) < N
  /\ q' = Append(q, v)
  /\ pushRes' = Result("Ok", <<>>)
  /\ UNCHANGED <<popRes, dropped, alive>>

PushFull(v) ==
  /\ alive
  /\ Len(q) = N
  /\ pushRes' = Result("Err", <<v>>)
  /\ UNCHANGED <<q, popRes, dropped, alive>>

PopSome ==
  /\ alive
  /\ q # <<>>
  /\ popRes' = Result("Some", <<Head(q)>>)
  /\ q' = Tail(q)
  /\ UNCHANGED <<pushRes, dropped, alive>>

PopNone ==
  /\ alive
  /\ q = <<>>
  /\ popRes' = Result("None", <<>>)
  /\ UNCHANGED <<q, pushRes, dropped, alive>>

PopSliceOk ==
  /\ alive
  /\ Len(q) >= M
  /\ popRes' = Result("Slice", SubSeq(q, 1, M))
  /\ q' = SubSeq(q, M + 1, Len(q))
  /\ UNCHANGED <<pushRes, dropped, alive>>

PopSliceShort ==
  /\ alive
  /\ Len(q) < M
  /\ popRes' = Result("InsufficientData", <<>>)
  /\ UNCHANGED <<q, pushRes, dropped, alive>>

DropQueue ==
  /\ alive
  /\ dropped' = q
  /\ q' = <<>>
  /\ alive' = FALSE
  /\ UNCHANGED <<pushRes, popRes>>

Next ==
  \/ \E v \in Values : PushOk(v) \/ PushFull(v)
  \/ PopSome \/ PopNone \/ PopSliceOk \/ PopSliceShort
  \/ DropQueue

Spec == Init /\ [][Next]_vars

=============================================================================
