---------------------------- MODULE AdapterBuffer ---------------------------
(***************************************************************************)
(* riaps-host/src/adapter_buf.rs: the adapter between the host's blocks    *)
(* and the fixed block of the DSP graph.  It is called by the audio thread *)
(* only, one call at a time, so a call is one action; what is hard is the  *)
(* arithmetic of the two FIFOs over long sequences of calls.               *)
(*                                                                         *)
(* Samples go through the FIFOs in order; which samples they are plays no  *)
(* part, so a FIFO is its length (AdapterStream, which implements this     *)
(* module, has the samples).  A host block of n samples is the number n.   *)
(***************************************************************************)
EXTENDS Integers

CONSTANTS
  BlockSizes,   \* the DSP block sizes the adapter is built for
  Capacities,   \* the FIFO capacities it is built with
  HostBlocks    \* the lengths of the host's buffers

ASSUME AdapterAssumption ==
  /\ BlockSizes \subseteq Nat /\ Capacities \subseteq Nat /\ HostBlocks \subseteq Nat

VARIABLES
  target_block_size, capacity,   \* fixed by new
  input_fifo, output_fifo,       \* lengths
  host_quantum,                  \* None or the last non-empty output length
  latency_samples,
  report                         \* of the last callback

config == <<target_block_size, capacity>>
fifos == <<input_fifo, output_fifo>>
vars == <<config, fifos, host_quantum, latency_samples, report>>

None == 0   \* 0 is never stored as a quantum

MinOf(a, b) == IF a < b THEN a ELSE b
MaxOf(a, b) == IF a < b THEN b ELSE a

(***************************************************************************)
(* SampleFifo: push_slice and push_zeros return how many samples fit, pop  *)
(* finds a sample or not.                                                  *)
(***************************************************************************)
Accepted(len, n) == MinOf(n, capacity - len)

\* n calls of pop: how many find a sample.
Popped(len, n) == MinOf(n, len)

\* The loop of greatest_common_divisor: a turn replaces (left, right) by
\* (right, left % right).
Euclid[right \in Nat] ==
  [left \in Nat |-> IF right = 0 THEN left ELSE Euclid[left % right][right]]

greatest_common_divisor(left, right) == Euclid[right][left]

NoReport ==
  [accepted_input |-> 0, dropped_input |-> 0, dsp_blocks |-> 0,
   dropped_output |-> 0, underrun |-> 0, latency_added |-> 0]

\* The two assertions of new.
NewGuard(d, c) == d > 0 /\ c >= 2 * d

Init ==
  /\ target_block_size \in BlockSizes
  /\ capacity \in Capacities
  /\ NewGuard(target_block_size, capacity)
  /\ input_fifo = 0 /\ output_fifo = 0
  /\ host_quantum = None
  /\ latency_samples = 0
  /\ report = NoReport

-----------------------------------------------------------------------------
(* prime_for_quantum                                                       *)

\* Mutant: every callback primes.
Primes_Always(n) == n # 0

Primes(n) == n # 0 /\ n # host_quantum

\* Mutant: only the first quantum gets a reserve.
RequiredReserve_FirstOnly(n) ==
  IF host_quantum = None
  THEN target_block_size - greatest_common_divisor(n, target_block_size)
  ELSE 0

\* Mutant: the conservative reserve is used from the start.
RequiredReserve_Conservative(n) == target_block_size - 1

RequiredReserve(n) ==
  IF host_quantum = None
  THEN target_block_size - greatest_common_divisor(n, target_block_size)
  ELSE target_block_size - 1

\* Mutant: what is already in the FIFO is not taken into account.
Inserted_Whole(n) ==
  IF Primes(n) THEN Accepted(output_fifo, RequiredReserve(n)) ELSE 0

\* The silence put into the output FIFO.
Inserted(n) ==
  IF Primes(n)
  THEN Accepted(output_fifo, MaxOf(0, RequiredReserve(n) - output_fifo))
  ELSE 0

-----------------------------------------------------------------------------
(* drain_complete_blocks: D samples in, D samples out, until less than a   *)
(* block is left.                                                          *)

\* Mutant: at most one block is processed per callback.
Blocks_One(total) == IF total >= target_block_size THEN 1 ELSE 0

Blocks(total) == total \div target_block_size

DroppedOutput(available, fitted) == available - fitted

(***************************************************************************)
(* process_host_block: prime, push the input, run the DSP callback on each *)
(* complete block, fill the output, with silence where it runs short.      *)
(***************************************************************************)
ProcessHostBlock(nIn, nOut) ==
  LET accepted == Accepted(input_fifo, nIn)
      blocks == Blocks(input_fifo + accepted)
      primed == output_fifo + Inserted(nOut)
      produced == blocks * target_block_size
      filled == primed + Accepted(primed, produced)
      taken == Popped(filled, nOut)
      droppedOut == DroppedOutput(primed + produced, filled)
  IN  /\ input_fifo' = (input_fifo + accepted) - produced
      /\ output_fifo' = filled - taken
      /\ host_quantum' = IF Primes(nOut) THEN nOut ELSE host_quantum
      /\ latency_samples' = IF Primes(nOut)
                            THEN MaxOf(latency_samples, RequiredReserve(nOut))
                            ELSE latency_samples
      /\ report' = [accepted_input |-> accepted,
                    dropped_input |-> nIn - accepted,
                    dsp_blocks |-> blocks,
                    dropped_output |-> droppedOut,
                    underrun |-> nOut - taken,
                    latency_added |-> Inserted(nOut)]
      /\ UNCHANGED config

(***************************************************************************)
(* flush: the remainder of the input is processed as a padded block, its   *)
(* part of the result pushed (without looking how much fitted), and the    *)
(* output FIFO emptied into the returned vector.                           *)
(***************************************************************************)
Flush ==
  /\ input_fifo' = 0
  /\ output_fifo' = 0
  /\ UNCHANGED <<config, host_quantum, latency_samples, report>>

Next ==
  \/ \E nIn, nOut \in HostBlocks : ProcessHostBlock(nIn, nOut)
  \/ Flush

Spec == Init /\ [][Next]_vars

=============================================================================
