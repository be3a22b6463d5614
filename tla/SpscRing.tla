------------------------------ MODULE SpscRing ------------------------------
(***************************************************************************)
(* riaps-core/src/spsc.rs: the single-producer single-consumer ring.       *)
(*                                                                         *)
(* One producer thread and one consumer thread work on the two indices and *)
(* the slots without a lock.  Every load or store of shared memory is an   *)
(* action of its own, so all interleavings of the two threads are covered. *)
(* The indices are machine words: they count modulo W (2^64 or 2^32 in a   *)
(* build), and a slot is an index modulo N.                                *)
(***************************************************************************)
EXTENDS Integers, Sequences

CONSTANTS
  N,        \* capacity (const generic N)
  W,        \* number of values of a usize
  M,        \* length of the array given to pop_slice_copy (const generic M)
  Values,   \* the elements
  Uninit    \* the content of a slot that was never written

ASSUME RingAssumption ==
  /\ N \in Nat \ {0}
  /\ W \in Nat
  /\ N < W
  /\ M \in Nat
  /\ Uninit \notin Values

VARIABLES
  head,     \* consumer index, written by the consumer only
  tail,     \* producer index, written by the producer only
  buf,      \* the slots
  ppc,      \* where the producer is inside push
  ptail,    \* push's local copy of tail
  pval,     \* the element push was called with
  cpc,      \* where the consumer is inside pop or pop_slice_copy
  chead,    \* the consumer's local copy of head
  cgot,     \* the elements read out of the slots so far
  pushRes,  \* result of the last finished push
  popRes,   \* result of the last finished pop or pop_slice_copy
  dropped,  \* elements destroyed by the ring's Drop
  alive     \* FALSE after Drop

prodVars == <<ppc, ptail, pval, pushRes>>
consVars == <<cpc, chead, cgot, popRes>>
dropVars == <<dropped, alive>>
vars == <<head, tail, buf, prodVars, consVars, dropVars>>

-----------------------------------------------------------------------------
(* Index arithmetic.                                                       *)

Indices == 0 .. (W - 1)

WrappingAdd(i, k) == (i + k) % W

WrappingSub(i, j) == (i - j) % W

Slot(i) == i % N

Result(tag, elements) == [tag |-> tag, elements |-> elements]

Init ==
  /\ head = 0
  /\ tail = 0
  /\ buf = [s \in 0 .. (N - 1) |-> Uninit]
  /\ ppc = "idle" /\ ptail = 0 /\ pval = Uninit
  /\ cpc = "idle" /\ chead = 0 /\ cgot = <<>>
  /\ pushRes = Result("none", <<>>)
  /\ popRes = Result("none", <<>>)
  /\ dropped = <<>>
  /\ alive = TRUE

-----------------------------------------------------------------------------
(* Producer::push                                                          *)

PushLoadTail(v) ==
  /\ alive
  /\ ppc = "idle"
  /\ ptail' = tail
  /\ pval' = v
  /\ ppc' = "loadHead"
  /\ UNCHANGED <<head, tail, buf, pushRes, consVars, dropVars>>

\* Mutant: a push on a full ring waits for room instead of giving up.
PushRejected_Spin ==
  /\ ppc = "loadHead"
  /\ WrappingSub(ptail, head) = N
  /\ UNCHANGED vars

\* The load of head finds the ring full: the element goes back to the caller.
PushRejected ==
  /\ ppc = "loadHead"
  /\ WrappingSub(ptail, head) = N
  /\ pushRes' = Result("Err", <<pval>>)
  /\ ppc' = "idle"
  /\ UNCHANGED <<head, tail, buf, ptail, pval, consVars, dropVars>>

\* Mutant: the full test is off by one.
PushAdmitted_OffByOne ==
  /\ ppc = "loadHead"
  /\ WrappingSub(ptail, head) # N + 1
  /\ ppc' = "write"
  /\ UNCHANGED <<head, tail, buf, ptail, pval, pushRes, consVars, dropVars>>

PushAdmitted ==
  /\ ppc = "loadHead"
  /\ WrappingSub(ptail, head) # N
  /\ ppc' = "write"
  /\ UNCHANGED <<head, tail, buf, ptail, pval, pushRes, consVars, dropVars>>

PushWrite ==
  /\ ppc = "write"
  /\ buf' = [buf EXCEPT ![Slot(ptail)] = pval]
  /\ ppc' = "publish"
  /\ UNCHANGED <<head, tail, ptail, pval, pushRes, consVars, dropVars>>

PushPublish ==
  /\ ppc = "publish"
  /\ tail' = WrappingAdd(ptail, 1)
  /\ pushRes' = Result("Ok", <<>>)
  /\ ppc' = "idle"
  /\ UNCHANGED <<head, buf, ptail, pval, consVars, dropVars>>

-----------------------------------------------------------------------------
(* Consumer::pop                                                           *)

PopLoadHead ==
  /\ alive
  /\ cpc = "idle"
  /\ chead' = head
  /\ cpc' = "popLoadTail"
  /\ UNCHANGED <<head, tail, buf, cgot, popRes, prodVars, dropVars>>

PopEmpty ==
  /\ cpc = "popLoadTail"
  /\ tail = chead
  /\ popRes' = Result("None", <<>>)
  /\ cpc' = "idle"
  /\ UNCHANGED <<head, tail, buf, chead, cgot, prodVars, dropVars>>

\* Mutant: the slot is released before its element is read.
PopAvailable_EarlyRelease ==
  /\ cpc = "popLoadTail"
  /\ tail # chead
  /\ head' = WrappingAdd(chead, 1)
  /\ cpc' = "popRead"
  /\ UNCHANGED <<tail, buf, chead, cgot, popRes, prodVars, dropVars>>

PopAvailable ==
  /\ cpc = "popLoadTail"
  /\ tail # chead
  /\ cpc' = "popRead"
  /\ UNCHANGED <<head, tail, buf, chead, cgot, popRes, prodVars, dropVars>>

PopRead ==
  /\ cpc = "popRead"
  /\ cgot' = <<buf[Slot(chead)]>>
  /\ cpc' = "popStore"
  /\ UNCHANGED <<head, tail, buf, chead, popRes, prodVars, dropVars>>

PopStore ==
  /\ cpc = "popStore"
  /\ head' = WrappingAdd(chead, 1)
  /\ popRes' = Result("Some", cgot)
  /\ cgot' = <<>>
  /\ cpc' = "idle"
  /\ UNCHANGED <<tail, buf, chead, prodVars, dropVars>>

-----------------------------------------------------------------------------
(* Consumer::pop_slice_copy: M elements or none, read slot by slot.        *)

SliceLoadHead ==
  /\ alive
  /\ cpc = "idle"
  /\ chead' = head
  /\ cpc' = "sliceLoadTail"
  /\ UNCHANGED <<head, tail, buf, cgot, popRes, prodVars, dropVars>>

SliceShort ==
  /\ cpc = "sliceLoadTail"
  /\ WrappingSub(tail, chead) < M
  /\ popRes' = Result("InsufficientData", <<>>)
  /\ cpc' = "idle"
  /\ UNCHANGED <<head, tail, buf, chead, cgot, prodVars, dropVars>>

SliceAvailable ==
  /\ cpc = "sliceLoadTail"
  /\ WrappingSub(tail, chead) >= M
  /\ cpc' = "sliceRead"
  /\ UNCHANGED <<head, tail, buf, chead, cgot, popRes, prodVars, dropVars>>

SliceRead ==
  /\ cpc = "sliceRead"
  /\ Len(cgot) < M
  /\ cgot' = Append(cgot, buf[Slot(WrappingAdd(chead, Len(cgot)))])
  /\ UNCHANGED <<head, tail, buf, cpc, chead, popRes, prodVars, dropVars>>

\* Mutant: the batch is released as if it were a single element.
SliceStore_ByOne ==
  /\ cpc = "sliceRead"
  /\ Len(cgot) = M
  /\ head' = WrappingAdd(chead, 1)
  /\ popRes' = Result("Slice", cgot)
  /\ cgot' = <<>>
  /\ cpc' = "idle"
  /\ UNCHANGED <<tail, buf, chead, prodVars, dropVars>>

SliceStore ==
  /\ cpc = "sliceRead"
  /\ Len(cgot) = M
  /\ head' = WrappingAdd(chead, M)
  /\ popRes' = Result("Slice", cgot)
  /\ cgot' = <<>>
  /\ cpc' = "idle"
  /\ UNCHANGED <<tail, buf, chead, prodVars, dropVars>>

-----------------------------------------------------------------------------
(* Drop has the ring to itself (&mut self): neither side is in a call.  It *)
(* destroys the elements from head up to tail.                             *)

Count == WrappingSub(tail, head)

Contents == [k \in 1 .. Count |-> buf[Slot(WrappingAdd(head, k - 1))]]

Drop ==
  /\ alive
  /\ ppc = "idle"
  /\ cpc = "idle"
  /\ dropped' = Contents
  /\ alive' = FALSE
  /\ UNCHANGED <<head, tail, buf, prodVars, consVars>>

-----------------------------------------------------------------------------

ProducerStep == PushRejected \/ PushAdmitted \/ PushWrite \/ PushPublish

ConsumerStep ==
  \/ PopEmpty \/ PopAvailable \/ PopRead \/ PopStore
  \/ SliceShort \/ SliceAvailable \/ SliceRead \/ SliceStore

Next ==
  \/ \E v \in Values : PushLoadTail(v)
  \/ ProducerStep
  \/ PopLoadHead \/ SliceLoadHead
  \/ ConsumerStep
  \/ Drop

Spec == Init /\ [][Next]_vars

-----------------------------------------------------------------------------
(* Properties                                                              *)

TypeOK ==
  /\ head \in Indices
  /\ tail \in Indices
  /\ buf \in [0 .. (N - 1) -> Values \cup {Uninit}]
  /\ ppc \in {"idle", "loadHead", "write", "publish"}
  /\ ptail \in Indices
  /\ pval \in Values \cup {Uninit}
  /\ cpc \in {"idle", "popLoadTail", "popRead", "popStore",
              "sliceLoadTail", "sliceRead"}
  /\ chead \in Indices
  /\ cgot \in Seq(Values \cup {Uninit})
  /\ pushRes \in [tag : {"none", "Ok", "Err"}, elements : Seq(Values \cup {Uninit})]
  /\ popRes \in [tag : {"none", "Some", "None", "Slice", "InsufficientData"},
                 elements : Seq(Values \cup {Uninit})]
  /\ dropped \in Seq(Values \cup {Uninit})
  /\ alive \in BOOLEAN

\* The slots a side is about to access without synchronisation.
WritingSlots == IF ppc = "write" THEN {Slot(ptail)} ELSE {}

ReadingSlots ==
  CASE cpc = "popRead" -> {Slot(chead)}
    [] cpc = "sliceRead" ->
         {Slot(WrappingAdd(chead, k)) : k \in Len(cgot) .. (M - 1)}
    [] OTHER -> {}

(***************************************************************************)
(* "Each slot is accessed by only one side at any time" (the argument of   *)
(* `unsafe impl Sync for SpscRing`): while push is about to write a slot,  *)
(* the consumer is not reading, nor still going to read in its current     *)
(* call, that slot.                                                        *)
(***************************************************************************)
NoDataRace == WritingSlots \cap ReadingSlots = {}

(***************************************************************************)
(* The SAFETY comments of pop, pop_slice_copy and Drop: every slot from    *)
(* head up to tail is initialised, so none of them reads an uninitialised  *)
(* element, and there are never more than N of them.                       *)
(***************************************************************************)
WindowInitialised ==
  /\ Count <= N
  /\ \A k \in 1 .. Count : Contents[k] # Uninit

(***************************************************************************)
(* Linearisability: push, pop, pop_slice_copy and Drop behave as the       *)
(* indivisible operations of a bounded FIFO queue.  Elements come out in   *)
(* the order they went in, none lost, duplicated or invented, and a call   *)
(* fails only if the queue really was full, empty or too short at a moment *)
(* during the call.                                                        *)
(***************************************************************************)
Queue == INSTANCE BoundedQueue WITH q <- IF alive THEN Contents ELSE <<>>

ImplementsQueue == Queue!Spec

(***************************************************************************)
(* "Wait-free": a push returns as long as its own thread is scheduled,     *)
(* whatever the consumer does, even if the consumer has stopped for good   *)
(* in the middle of a call; and so do pop and pop_slice_copy, whatever the *)
(* producer does.                                                          *)
(***************************************************************************)
WaitFree ==
  /\ WF_vars(ProducerStep) => ((ppc # "idle") ~> (ppc = "idle"))
  /\ WF_vars(ConsumerStep) => ((cpc # "idle") ~> (cpc = "idle"))

=============================================================================
