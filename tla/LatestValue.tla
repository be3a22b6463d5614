---------------------------- MODULE LatestValue -----------------------------
(***************************************************************************)
(* What a parameter queue promises: it behaves as one register.  A change  *)
(* that is accepted replaces the one before, and each block takes what is  *)
(* the newest at one moment during the block.  Nothing of the queue, its   *)
(* length or the loop that drains it is visible.                           *)
(***************************************************************************)

CONSTANT Values

VARIABLES
  newest,    \* the last value accepted
  applied    \* the value the last block was processed with

vars == <<newest, applied>>

Init == newest \in Values /\ applied = newest

Accept(v) ==
  /\ newest' = v
  /\ UNCHANGED applied

Apply ==
  /\ applied' = newest
  /\ UNCHANGED newest

Next == Apply \/ \E v \in Values : Accept(v)

Spec == Init /\ [][Next]_vars

=============================================================================
