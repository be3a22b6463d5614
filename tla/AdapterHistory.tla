--------------------------- MODULE AdapterHistory ---------------------------
(***************************************************************************)
(* AdapterBuffer together with what has happened to the stream so far, and *)
(* the properties that speak about it.  The history is read by no guard.   *)
(***************************************************************************)
EXTENDS AdapterBuffer

VARIABLES
  renegotiated,   \* the quantum has changed
  disturbed,      \* samples were dropped, the input was not as long as the
                  \* output, or the reserve was flushed
  unreported,     \* samples the last flush lost
  tick            \* flips with every call, so that a host that goes on calling
                  \* is told from one that has stopped

historyVars == <<vars, renegotiated, disturbed, unreported, tick>>

HistoryInit ==
  /\ Init
  /\ renegotiated = FALSE /\ disturbed = FALSE
  /\ unreported = 0
  /\ tick = FALSE

Callback(nIn, nOut) ==
  /\ ProcessHostBlock(nIn, nOut)
  /\ renegotiated' = (renegotiated \/ (nOut # 0 /\ host_quantum \notin {None, nOut}))
  /\ disturbed' = (disturbed \/ nIn # nOut \/ report'.dropped_input # 0
                             \/ report'.dropped_output # 0)
  /\ unreported' = 0
  /\ tick' = ~tick

FlushCall ==
  /\ Flush
  /\ unreported' = input_fifo - Accepted(output_fifo, input_fifo)
  /\ disturbed' = TRUE
  /\ tick' = ~tick
  /\ UNCHANGED renegotiated

\* A duplex stream: as many samples out as in.
Duplex(n) == Callback(n, n)

HistoryNext ==
  \/ \E nIn, nOut \in HostBlocks : Callback(nIn, nOut)
  \/ FlushCall

\* The host goes on calling.
HistorySpec == HistoryInit /\ [][HistoryNext]_historyVars /\ WF_historyVars(HistoryNext)

-----------------------------------------------------------------------------
(* Properties                                                              *)

(***************************************************************************)
(* "Priming prevents periodic output underruns", for every host block and  *)
(* DSP block, from the first callback on and across changes of the         *)
(* quantum: a stream from which nothing was dropped never underruns.       *)
(***************************************************************************)
NoUnderrun == ~disturbed => report.underrun = 0

(***************************************************************************)
(* With a fixed quantum latency_samples is the delay of the stream: a      *)
(* sample pushed next comes out after exactly that many others.            *)
(***************************************************************************)
SteadyLatencyExact ==
  ~disturbed /\ ~renegotiated => input_fifo + output_fifo = latency_samples

(***************************************************************************)
(* "This is the minimum reserve": with a fixed quantum the output FIFO runs *)
(* completely empty again and again for as long as the host calls, so with *)
(* one sample less the stream would underrun.                              *)
(***************************************************************************)
ReserveIsMinimal ==
  /\ [](~disturbed /\ ~renegotiated)
  /\ []<><<\E n \in HostBlocks \ {0} : Duplex(n)>>_historyVars
  => []<>(output_fifo = 0)

(***************************************************************************)
(* Changes of the quantum do not add up: the samples inside the adapter    *)
(* stay below two DSP blocks, however often the host renegotiates.         *)
(***************************************************************************)
DelayBounded ==
  ~disturbed => input_fifo + output_fifo <= 2 * (target_block_size - 1)

(***************************************************************************)
(* The adapter recovers by itself: after drops, starved callbacks, odd     *)
(* block lengths and flushes, once the host keeps to one quantum that the  *)
(* input FIFO can take on top of a remainder, underruns stop for good.     *)
(***************************************************************************)
Recovers ==
  <>[][\E n \in HostBlocks \ {0} :
         /\ host_quantum = n
         /\ target_block_size - 1 + n <= capacity
         /\ Duplex(n)]_historyVars
    => <>[](report.underrun = 0)

(***************************************************************************)
(* flush "returns the output corresponding to real input": all of it.      *)
(***************************************************************************)
FlushReturnsEverything == unreported = 0

=============================================================================
