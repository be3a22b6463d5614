---------------------------- MODULE AdapterStream ---------------------------
(***************************************************************************)
(* riaps-host/src/adapter_buf.rs with the samples it carries: the FIFOs    *)
(* are the rings of SampleFifo, and a call of process_host_block is one    *)
(* action for its start, one for each DSP block and one for its end, so    *)
(* that what holds between the blocks is seen.  AdapterBuffer, where a     *)
(* FIFO is a length and a call one step, is what this module implements.   *)
(*                                                                         *)
(* The DSP callback copies its input, as in the repository's tests.  The   *)
(* samples of the host are numbered from 1.                                *)
(***************************************************************************)
EXTENDS SampleFifo

CONSTANTS
  BlockSizes, Capacities, HostBlocks,   \* as in AdapterBuffer
  MaxSamples    \* a bound: the samples the host gives in a run

ASSUME StreamAssumption ==
  /\ BlockSizes \subseteq Nat /\ Capacities \subseteq Nat /\ HostBlocks \subseteq Nat
  /\ MaxSamples \in Nat

VARIABLES
  target_block_size, capacity,
  input_fifo, output_fifo,
  host_quantum, latency_samples, report,
  call,        \* Idle, or the call the audio thread is in
  given,       \* history: the samples the host has given
  delivered,   \* history: the last of them that has left the adapter
  lost         \* history: samples were dropped since the adapter was empty

vars == <<target_block_size, capacity, input_fifo, output_fifo, host_quantum,
          latency_samples, report, call, given, delivered, lost>>

Idle == [in |-> "nothing", outputs |-> 0]
Flushing == [in |-> "flush", outputs |-> 0]
Processing(n) == [in |-> "process", outputs |-> n]

(***************************************************************************)
(* AdapterBuffer sees a call happen when it starts, as what it will have   *)
(* come to when it returns: the blocks that are still to be processed, the *)
(* output that is still to be filled.                                      *)
(***************************************************************************)
Due == IF call.in = "process"
       THEN (input_fifo.len \div target_block_size) * target_block_size
       ELSE 0

Filled == Min({capacity, output_fifo.len + Due})

Adapter == INSTANCE AdapterBuffer WITH
  input_fifo <- input_fifo.len - Due,
  output_fifo <- IF call.in = "flush" THEN 0 ELSE Max({0, Filled - call.outputs}),
  report <- IF call.in = "process"
            THEN [report EXCEPT !.dsp_blocks = @ + Due \div target_block_size,
                                !.dropped_output = @ + (output_fifo.len + Due - Filled),
                                !.underrun = Max({0, call.outputs - Filled})]
            ELSE report

Init ==
  /\ target_block_size \in BlockSizes
  /\ capacity \in Capacities
  /\ Adapter!NewGuard(target_block_size, capacity)
  /\ input_fifo = new(capacity) /\ output_fifo = new(capacity)
  /\ host_quantum = Adapter!None
  /\ latency_samples = 0
  /\ report = Adapter!NoReport
  /\ call = Idle
  /\ given = 0 /\ delivered = 0 /\ lost = FALSE

-----------------------------------------------------------------------------
(* process_host_block                                                      *)

\* prime_for_quantum and the push of the host's input.
Start(nIn, nOut) ==
  LET block == [k \in 1 .. nIn |-> given + k]
      needed == IF Adapter!Primes(nOut)
                THEN Max({0, Adapter!RequiredReserve(nOut) - output_fifo.len})
                ELSE 0
      primed == push_zeros(output_fifo, needed)
      pushed == push_slice(input_fifo, block)
  IN  /\ call = Idle
      /\ given + nIn <= MaxSamples
      /\ output_fifo' = primed.fifo
      /\ input_fifo' = pushed.fifo
      /\ report' = [Adapter!NoReport EXCEPT !.latency_added = primed.accepted,
                                           !.accepted_input = pushed.accepted,
                                           !.dropped_input = nIn - pushed.accepted]
      /\ call' = Processing(nOut)
      /\ IF Adapter!Primes(nOut)
         THEN /\ host_quantum' = nOut
              /\ latency_samples' = Max({latency_samples, Adapter!RequiredReserve(nOut)})
         ELSE UNCHANGED <<host_quantum, latency_samples>>
      /\ given' = given + nIn
      /\ lost' = (lost \/ pushed.accepted < nIn)
      /\ UNCHANGED <<target_block_size, capacity, delivered>>

\* Mutant: what a block drops replaces what the blocks before it dropped.
Dropping_Last(dropped) ==
  [report EXCEPT !.dsp_blocks = @ + 1, !.dropped_output = dropped]

Dropping(dropped) ==
  [report EXCEPT !.dsp_blocks = @ + 1, !.dropped_output = @ + dropped]

\* One turn of drain_complete_blocks.
DspBlock ==
  LET popped == PopUpTo(input_fifo, target_block_size)
      pushed == push_slice(output_fifo, popped.got)
      dropped == target_block_size - pushed.accepted
  IN  /\ call.in = "process"
      /\ input_fifo.len >= target_block_size
      /\ input_fifo' = popped.fifo
      /\ output_fifo' = pushed.fifo
      /\ report' = Dropping(dropped)
      /\ lost' = (lost \/ dropped > 0)
      /\ UNCHANGED <<target_block_size, capacity, host_quantum, latency_samples,
                     call, given, delivered>>

\* Where the samples are that are not silence.
Real(samples) == {k \in DOMAIN samples : samples[k] # Silence}

LastOf(samples) ==
  IF Real(samples) = {} THEN delivered ELSE samples[Max(Real(samples))]

\* The host's output is filled, and the call returns its report.
Return ==
  LET popped == PopUpTo(output_fifo, call.outputs)
  IN  /\ call.in = "process"
      /\ input_fifo.len < target_block_size
      /\ output_fifo' = popped.fifo
      /\ report' = [report EXCEPT !.underrun = call.outputs - Len(popped.got)]
      /\ delivered' = LastOf(popped.got)
      /\ call' = Idle
      /\ UNCHANGED <<target_block_size, capacity, input_fifo, host_quantum,
                     latency_samples, given, lost>>

-----------------------------------------------------------------------------
(* flush: the remainder is processed, then the output FIFO is emptied.     *)

FlushRemainder ==
  LET popped == PopUpTo(input_fifo, input_fifo.len)
      pushed == push_slice(output_fifo, popped.got)
  IN  /\ call = Idle
      /\ input_fifo' = popped.fifo
      /\ output_fifo' = pushed.fifo
      /\ call' = Flushing
      /\ lost' = (lost \/ pushed.accepted < Len(popped.got))
      /\ UNCHANGED <<target_block_size, capacity, host_quantum, latency_samples,
                     report, given, delivered>>

FlushReturn ==
  LET popped == PopUpTo(output_fifo, output_fifo.len)
  IN  /\ call.in = "flush"
      /\ output_fifo' = popped.fifo
      /\ delivered' = IF lost THEN given ELSE LastOf(popped.got)
      /\ lost' = FALSE
      /\ call' = Idle
      /\ UNCHANGED <<target_block_size, capacity, input_fifo, host_quantum,
                     latency_samples, report, given>>

Next ==
  \/ \E nIn, nOut \in HostBlocks : Start(nIn, nOut)
  \/ DspBlock
  \/ Return
  \/ FlushRemainder
  \/ FlushReturn

Spec == Init /\ [][Next]_vars

-----------------------------------------------------------------------------
(* Properties                                                              *)

(***************************************************************************)
(* "Mismatched blocks preserve the complete stream", for every sequence of *)
(* host blocks and changes of the quantum, and also between two DSP blocks *)
(* of one call: the samples inside the adapter are ones the host has given *)
(* and not yet got back, each one once and in their order, with nothing    *)
(* but silence between them; and all of those, unless some were dropped.   *)
(***************************************************************************)
StreamIntact ==
  LET inside == Contents(output_fifo) \o Contents(input_fifo)
  IN  /\ Real(Contents(input_fifo)) = DOMAIN Contents(input_fifo)
      /\ \A k \in Real(inside) : delivered < inside[k] /\ inside[k] <= given
      /\ \A j, k \in Real(inside) : j < k => inside[j] < inside[k]
      /\ ~lost => \A s \in (delivered + 1) .. given : \E k \in Real(inside) : inside[k] = s

(***************************************************************************)
(* process_host_block and flush on the two rings, block by block, do what  *)
(* AdapterBuffer computes from the lengths in one step, reports included.  *)
(***************************************************************************)
ImplementsAdapter == Adapter!Spec

=============================================================================
