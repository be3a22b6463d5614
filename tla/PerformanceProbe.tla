-------------------------- MODULE PerformanceProbe --------------------------
(***************************************************************************)
(* riaps-sys/src/probe.rs: the lock-free performance probe.  The audio     *)
(* thread wraps closures in measure, and a closure may call measure again; *)
(* any thread may switch the probe on and off at any moment, also while    *)
(* measurements are running; the monitoring thread drains the records.     *)
(* The ring is the abstract queue that SpscRing is proved to implement.    *)
(***************************************************************************)
EXTENDS Integers, Sequences, FiniteSets

CONSTANTS
  N,               \* PROBE_RING_CAP
  M,               \* batch length of drain_batch
  NodeIds,
  MaxDepth,        \* bound on nested calls of measure
  CounterModulus   \* number of values of the u32 counters

ASSUME ProbeAssumption ==
  /\ N \in Nat \ {0} /\ M \in Nat
  /\ MaxDepth \in Nat /\ CounterModulus \in Nat /\ MaxDepth < CounterModulus

VARIABLES
  q, pushRes, popRes, dropped, alive,  \* the ring
  enabled, nesting_depth, overflow_counter,
  frames,     \* the running calls of measure, outermost first
  draining,   \* the monitoring thread is in drain's loop
  measured,   \* ghost: outermost measurements begun   (mod CounterModulus)
  delivered   \* ghost: records handed to the monitor  (mod CounterModulus)

ringVars == <<q, pushRes, popRes, dropped, alive>>
atomics == <<enabled, nesting_depth, overflow_counter>>
vars == <<ringVars, atomics, frames, draining, measured, delivered>>

Ring == INSTANCE BoundedQueue WITH Values <- NodeIds

Plus(counter, k) == (counter + k) % CounterModulus

Init ==
  /\ Ring!Init
  /\ enabled = FALSE /\ nesting_depth = 0 /\ overflow_counter = 0
  /\ frames = <<>>
  /\ draining = FALSE
  /\ measured = 0 /\ delivered = 0

SetEnabled(on) ==
  /\ alive
  /\ enabled' = on
  /\ UNCHANGED <<ringVars, nesting_depth, overflow_counter, frames, draining,
                 measured, delivered>>

-----------------------------------------------------------------------------
(* measure: how a call goes on after f() was decided when it began.        *)

Enter(path, id) ==
  /\ alive
  /\ Len(frames) < MaxDepth
  /\ frames' = Append(frames, [path |-> path, id |-> id])
  /\ UNCHANGED <<ringVars, enabled, overflow_counter, draining, delivered>>

EnterDisabled(id) ==
  /\ ~enabled
  /\ Enter("direct", id)
  /\ UNCHANGED <<nesting_depth, measured>>

\* Nested in a measurement: counted, but not measured.
EnterNested(id) ==
  /\ enabled /\ nesting_depth > 0
  /\ Enter("nested", id)
  /\ nesting_depth' = Plus(nesting_depth, 1)
  /\ UNCHANGED measured

\* Mutant: the second level is measured too.
EnterOutermost_Deep(id) ==
  /\ enabled /\ nesting_depth < 2
  /\ Enter("outermost", id)
  /\ nesting_depth' = Plus(nesting_depth, 1)
  /\ measured' = Plus(measured, 1)

EnterOutermost(id) ==
  /\ enabled /\ nesting_depth = 0
  /\ Enter("outermost", id)
  /\ nesting_depth' = Plus(nesting_depth, 1)
  /\ measured' = Plus(measured, 1)

Innermost == frames[Len(frames)]

\* The closure of the innermost call returns on the path it came in by.
Returns(path) ==
  /\ frames # <<>>
  /\ Innermost.path = path
  /\ frames' = SubSeq(frames, 1, Len(frames) - 1)
  /\ UNCHANGED <<enabled, draining, measured, delivered>>

LeaveDisabled ==
  /\ Returns("direct")
  /\ UNCHANGED <<ringVars, nesting_depth, overflow_counter>>

\* Mutant: a call that finds the probe switched off forgets its decrement.
LeaveNested_LooksAgain ==
  /\ Returns("nested")
  /\ nesting_depth' = IF enabled THEN Plus(nesting_depth, -1) ELSE nesting_depth
  /\ UNCHANGED <<ringVars, overflow_counter>>

LeaveNested ==
  /\ Returns("nested")
  /\ nesting_depth' = Plus(nesting_depth, -1)
  /\ UNCHANGED <<ringVars, overflow_counter>>

LeaveRecorded ==
  /\ Returns("outermost")
  /\ Ring!PushOk(Innermost.id)
  /\ nesting_depth' = Plus(nesting_depth, -1)
  /\ UNCHANGED overflow_counter

\* Mutant: a record that does not fit is not counted.
LeaveOverflow_Uncounted ==
  /\ Returns("outermost")
  /\ Ring!PushFull(Innermost.id)
  /\ nesting_depth' = Plus(nesting_depth, -1)
  /\ UNCHANGED overflow_counter

\* The ring is full: the record is dropped and counted.
LeaveOverflow ==
  /\ Returns("outermost")
  /\ Ring!PushFull(Innermost.id)
  /\ overflow_counter' = Plus(overflow_counter, 1)
  /\ nesting_depth' = Plus(nesting_depth, -1)

-----------------------------------------------------------------------------
(* drain and drain_batch                                                   *)

DrainStart ==
  /\ alive /\ ~draining
  /\ draining' = TRUE
  /\ UNCHANGED <<ringVars, atomics, frames, measured, delivered>>

DrainPop ==
  /\ draining
  /\ Ring!PopSome
  /\ delivered' = Plus(delivered, 1)
  /\ UNCHANGED <<atomics, frames, draining, measured>>

DrainEnd ==
  /\ draining
  /\ Ring!PopNone
  /\ draining' = FALSE
  /\ UNCHANGED <<atomics, frames, measured, delivered>>

DrainBatch ==
  /\ ~draining
  /\ Ring!PopSliceOk
  /\ delivered' = Plus(delivered, M)
  /\ UNCHANGED <<atomics, frames, draining, measured>>

DrainBatchShort ==
  /\ ~draining
  /\ Ring!PopSliceShort
  /\ UNCHANGED <<atomics, frames, draining, measured, delivered>>

\* The probe is dropped when nobody uses it.
DropProbe ==
  /\ frames = <<>> /\ ~draining
  /\ Ring!DropQueue
  /\ UNCHANGED <<atomics, frames, draining, measured, delivered>>

-----------------------------------------------------------------------------

Next ==
  \/ \E on \in BOOLEAN : SetEnabled(on)
  \/ \E id \in NodeIds : EnterDisabled(id) \/ EnterNested(id) \/ EnterOutermost(id)
  \/ LeaveDisabled \/ LeaveNested \/ LeaveRecorded \/ LeaveOverflow
  \/ DrainStart \/ DrainPop \/ DrainEnd \/ DrainBatch \/ DrainBatchShort
  \/ DropProbe

Spec == Init /\ [][Next]_vars

-----------------------------------------------------------------------------
(* Properties                                                              *)

Open(path) == {i \in 1 .. Len(frames) : frames[i].path = path}

(***************************************************************************)
(* Invariant #20, "nested measurements are guarded against": however often *)
(* the probe is switched on and off between the calls, nesting_depth is    *)
(* the number of running calls that have counted themselves, so it is zero *)
(* again when measure has returned and the next call is measured.          *)
(***************************************************************************)
DepthBalanced ==
  nesting_depth = Cardinality(Open("nested") \cup Open("outermost"))

(***************************************************************************)
(* "Only the outermost call is measured": two measurements never overlap,  *)
(* and every call nested in the one being measured goes straight through.  *)
(***************************************************************************)
OneMeasurement ==
  \A i \in Open("outermost") :
    /\ \A j \in 1 .. (i - 1) : frames[j].path = "direct"
    /\ \A j \in (i + 1) .. Len(frames) : frames[j].path # "outermost"

(***************************************************************************)
(* Every measurement leaves exactly one trace: it is running, queued,      *)
(* handed to the monitor, destroyed with the probe or counted as overflow. *)
(***************************************************************************)
RecordsAccounted ==
  Plus(Cardinality(Open("outermost")) + Len(q) + Len(dropped),
       delivered + overflow_counter) = measured

=============================================================================
