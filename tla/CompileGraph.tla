---------------------------- MODULE CompileGraph ----------------------------
(***************************************************************************)
(* riaps-dsp/src/graph.rs: DynamicGraphBuilder and DspGraphInner.  The UI  *)
(* thread builds a graph edge by edge and compiles it: Kahn's algorithm    *)
(* fixes the processing order, a second pass the latency.  The audio       *)
(* thread then processes blocks in that order through buffers allocated    *)
(* once.  Each of these runs alone, so a loop iteration is an action.      *)
(*                                                                         *)
(* Node k of the model is NodeId(k - 1).  A node copies its input to its   *)
(* output, so a sample is an integer and a wrong or stale buffer shows.    *)
(***************************************************************************)
EXTENDS Integers, Sequences, FiniteSets, FiniteSetsExt

CONSTANTS
  MaxNodes,    \* bound on the nodes added
  Latencies,   \* what DspNode::latency_samples returns
  MaxBlocks,   \* the values of max_block
  BlockLens,   \* the lengths of the slices given to process
  Inputs,      \* the first sample of a block
  WordMax      \* usize::MAX

ASSUME CompileAssumption ==
  /\ MaxNodes \in Nat /\ WordMax \in Nat
  /\ Latencies \subseteq 0 .. WordMax
  /\ MaxBlocks \subseteq Nat \ {0} /\ BlockLens \subseteq Nat /\ Inputs \subseteq Nat

VARIABLES
  nodes,          \* the latency of each node
  connections,    \* the edges
  max_block,
  phase,          \* "build", "kahn", "latency", "ready", "process" or an error
  indegree, queue, order,   \* Kahn's algorithm
  path_latency, total_latency,
  pos,            \* next position of the loop over order
  node_outputs,   \* n * max_block samples, numbered from 0
  block,          \* the block of the last process: first sample, lengths, count
  output          \* the host's buffer, numbered from 0

builderVars == <<nodes, connections, max_block>>
kahnVars == <<indegree, queue, order>>
latencyVars == <<path_latency, total_latency>>
audioVars == <<node_outputs, block, output>>
vars == <<builderVars, phase, kahnVars, latencyVars, pos, audioVars>>

n == Len(nodes)
Nodes == 1 .. n

adjacency(u) == {v \in Nodes : <<u, v>> \in connections}
predecessors(v) == {u \in Nodes : <<u, v>> \in connections}
sinks == {u \in Nodes : adjacency(u) = {}}

Errors == {"Empty", "CycleDetected", "BufferSizeOverflow"}
Compiled == phase \in {"ready", "process"}

NoBlock == [first |-> 0, inLen |-> 0, outLen |-> 0, sample_count |-> 0]

Init ==
  /\ nodes = <<>>
  /\ connections = {}
  /\ max_block \in MaxBlocks
  /\ phase = "build"
  /\ indegree = <<>> /\ queue = <<>> /\ order = <<>>
  /\ path_latency = <<>> /\ total_latency = 0
  /\ pos = 1
  /\ node_outputs = <<>> /\ block = NoBlock /\ output = <<>>

-----------------------------------------------------------------------------
(* DynamicGraphBuilder                                                     *)

AddNode(latency) ==
  /\ phase = "build"
  /\ n < MaxNodes
  /\ nodes' = Append(nodes, latency)
  /\ UNCHANGED <<connections, max_block, phase, kahnVars, latencyVars, pos, audioVars>>

Connect(from, to) ==
  /\ phase = "build"
  /\ from <= n /\ to <= n
  /\ <<from, to>> \notin connections
  /\ connections' = connections \cup {<<from, to>>}
  /\ UNCHANGED <<nodes, max_block, phase, kahnVars, latencyVars, pos, audioVars>>

\* InvalidNode or DuplicateEdge: the builder is left as it was.
ConnectRefused(from, to) ==
  /\ phase = "build"
  /\ from > n \/ to > n \/ <<from, to>> \in connections
  /\ UNCHANGED vars

Disconnect(from, to) ==
  /\ phase = "build"
  /\ connections' = connections \ {<<from, to>>}
  /\ UNCHANGED <<nodes, max_block, phase, kahnVars, latencyVars, pos, audioVars>>

-----------------------------------------------------------------------------
(* compile                                                                 *)

CompileEmpty ==
  /\ phase = "build" /\ n = 0
  /\ phase' = "Empty"
  /\ UNCHANGED <<builderVars, kahnVars, latencyVars, pos, audioVars>>

Indegree(v) == Cardinality(predecessors(v))

\* The elements of a finite set one after the other, in any order.
Orderings(S) ==
  {s \in [1 .. Cardinality(S) -> S] : \A i, j \in DOMAIN s : s[i] = s[j] => i = j}

\* The roots enter the queue in the order of their numbers.
CompileStart ==
  /\ phase = "build" /\ n > 0
  /\ phase' = "kahn"
  /\ indegree' = [v \in Nodes |-> Indegree(v)]
  /\ \E roots \in Orderings({v \in Nodes : Indegree(v) = 0}) :
       /\ \A i, j \in DOMAIN roots : i < j => roots[i] < roots[j]
       /\ queue' = roots
  /\ UNCHANGED <<builderVars, order, latencyVars, pos, audioVars>>

\* Mutant: a node is queued when its first predecessor is done.
Freed_Any(u) == {v \in adjacency(u) : indegree[v] >= 1}

\* The nodes whose last predecessor is u.
Freed(u) == {v \in adjacency(u) : indegree[v] = 1}

\* They are queued in the order their edges were added, which is any order.
KahnPop ==
  /\ phase = "kahn" /\ queue # <<>>
  /\ LET u == Head(queue)
     IN  /\ order' = Append(order, u)
         /\ indegree' = [v \in Nodes |-> IF v \in adjacency(u) THEN indegree[v] - 1
                                                               ELSE indegree[v]]
         /\ \E freed \in Orderings(Freed(u)) : queue' = Tail(queue) \o freed
  /\ UNCHANGED <<builderVars, phase, latencyVars, pos, audioVars>>

\* Mutant: a graph is accepted as soon as some of it can be ordered.
AllOrdered_Some == order # <<>>

AllOrdered == Len(order) = n

KahnEnd ==
  /\ phase = "kahn" /\ queue = <<>>
  /\ \/ /\ ~AllOrdered
        /\ phase' = "CycleDetected"
        /\ UNCHANGED path_latency
     \/ /\ AllOrdered
        /\ phase' = "latency"
        /\ path_latency' = [v \in Nodes |-> 0]
  /\ UNCHANGED <<builderVars, kahnVars, total_latency, pos, audioVars>>

SaturatingAdd(a, b) == IF a + b > WordMax THEN WordMax ELSE a + b

MaxOrZero(S) == IF S = {} THEN 0 ELSE Max(S)

LatencyStep ==
  /\ phase = "latency" /\ pos <= n
  /\ LET v == order[pos]
         input_latency == MaxOrZero({path_latency[u] : u \in predecessors(v)})
     IN  path_latency' = [path_latency EXCEPT ![v] = SaturatingAdd(input_latency, nodes[v])]
  /\ pos' = pos + 1
  /\ UNCHANGED <<builderVars, phase, kahnVars, total_latency, audioVars>>

\* Mutant: the node processed last is taken for the only output.
TotalLatency_Last == path_latency[order[n]]

TotalLatency == MaxOrZero({path_latency[u] : u \in sinks})

CompileEnd ==
  /\ phase = "latency" /\ pos > n
  /\ total_latency' = TotalLatency
  /\ \/ /\ n * max_block > WordMax
        /\ phase' = "BufferSizeOverflow"
        /\ UNCHANGED node_outputs
     \/ /\ n * max_block <= WordMax
        /\ phase' = "ready"
        /\ node_outputs' = [k \in 0 .. (n * max_block - 1) |-> 0]
  /\ UNCHANGED <<builderVars, kahnVars, path_latency, pos, block, output>>

-----------------------------------------------------------------------------
(* DspGraphInner::process                                                  *)

\* Mutant: the buffers are not a block apart.
BufferStart_NoStride(v) == v - 1

BufferStart(v) == (v - 1) * max_block

SampleCount(inLen, outLen) == Min({inLen, outLen, max_block})

ProcessStart(first, inLen, outLen) ==
  /\ phase = "ready"
  /\ block' = [first |-> first, inLen |-> inLen, outLen |-> outLen,
               sample_count |-> SampleCount(inLen, outLen)]
  /\ pos' = 1
  /\ phase' = "process"
  /\ UNCHANGED <<builderVars, kahnVars, latencyVars, node_outputs, output>>

Sum(buffers, k) == MapThenSumSet(LAMBDA u : node_outputs[BufferStart(u) + k], buffers)

\* Sample k of mix_buffer when node v is processed.
Mixed(v, k) ==
  IF predecessors(v) = {} THEN block.first + k ELSE Sum(predecessors(v), k)

ProcessNode ==
  /\ phase = "process" /\ pos <= n
  /\ LET v == order[pos]
         start == BufferStart(v)
     IN  node_outputs' = [j \in DOMAIN node_outputs |->
                            IF j \in start .. (start + block.sample_count - 1)
                            THEN Mixed(v, j - start) ELSE node_outputs[j]]
  /\ pos' = pos + 1
  /\ UNCHANGED <<builderVars, phase, kahnVars, latencyVars, block, output>>

\* The sinks are mixed; what is beyond sample_count is silence.
ProcessEnd ==
  /\ phase = "process" /\ pos > n
  /\ output' = [k \in 0 .. (block.outLen - 1) |->
                  IF k < block.sample_count THEN Sum(sinks, k) ELSE 0]
  /\ phase' = "ready"
  /\ UNCHANGED <<builderVars, kahnVars, latencyVars, pos, node_outputs, block>>

-----------------------------------------------------------------------------

Next ==
  \/ \E l \in Latencies : AddNode(l)
  \/ \E from, to \in 1 .. MaxNodes :
       Connect(from, to) \/ ConnectRefused(from, to) \/ Disconnect(from, to)
  \/ CompileEmpty \/ CompileStart \/ KahnPop \/ KahnEnd \/ LatencyStep \/ CompileEnd
  \/ \E first \in Inputs, inLen, outLen \in BlockLens : ProcessStart(first, inLen, outLen)
  \/ ProcessNode \/ ProcessEnd

Spec == Init /\ [][Next]_vars

-----------------------------------------------------------------------------
(* Properties                                                              *)

(***************************************************************************)
(* "Processed in topological order": a node enters the order once, and     *)
(* after all its predecessors, whatever edges were added and removed.      *)
(***************************************************************************)
OrderRespectsEdges ==
  /\ \A i, j \in 1 .. Len(order) : order[i] = order[j] => i = j
  /\ \A j \in 1 .. Len(order) : \A u \in predecessors(order[j]) :
       \E i \in 1 .. (j - 1) : order[i] = u

\* A finite graph has a cycle iff some nodes all have predecessors among
\* themselves.
HasCycle ==
  \E S \in (SUBSET Nodes) \ {{}} : \A v \in S : predecessors(v) \cap S # {}

(***************************************************************************)
(* compile returns CycleDetected for a graph with a cycle, self-loops      *)
(* included, and for no other.                                             *)
(***************************************************************************)
CycleFoundExactly ==
  /\ phase = "CycleDetected" => HasCycle
  /\ phase \in {"latency", "ready", "process", "BufferSizeOverflow"} => ~HasCycle

\* The paths of an acyclic graph visit no node twice.
Paths ==
  {p \in UNION {[1 .. k -> Nodes] : k \in Nodes} :
     \A i \in 1 .. (Len(p) - 1) : <<p[i], p[i + 1]>> \in connections}

\* The latencies of the first i nodes of path p add up to Accumulated(_, p)[i].
Accumulated(latencies, p) ==
  LET sum[i \in 0 .. Len(p)] == IF i = 0 THEN 0 ELSE sum[i - 1] + latencies[p[i]]
  IN  sum

PathLatency(p) == Accumulated(nodes, p)[Len(p)]

(***************************************************************************)
(* "The total latency is the largest accumulated latency of all paths from *)
(* an input to an output", cut off at the largest machine word.            *)
(***************************************************************************)
LatencyIsLongestPath ==
  Compiled => total_latency = Min({WordMax, Max({PathLatency(p) : p \in Paths})})

(***************************************************************************)
(* A finished block solves the graph's equations: each node's buffer is    *)
(* what its predecessors' buffers, or the host's input, add up to in this  *)
(* block, and the output is the sum of the sinks.  No stale sample of an   *)
(* earlier block and no sample of a neighbouring buffer gets in, and what  *)
(* the host's buffer has room for beyond max_block or the input is silent. *)
(***************************************************************************)
BlockSolvesGraph ==
  phase = "ready" =>
    /\ \A k \in 0 .. (block.sample_count - 1) :
         /\ \A v \in Nodes : node_outputs[BufferStart(v) + k] = Mixed(v, k)
         /\ output[k] = Sum(sinks, k)
    /\ \A k \in block.sample_count .. (block.outLen - 1) : output[k] = 0

=============================================================================
