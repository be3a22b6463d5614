------------------------- MODULE CompileGraphProofs -------------------------
(***************************************************************************)
(* Proofs about the graph compiler and the processor, for every number of  *)
(* nodes, every set of edges and every block length.                       *)
(***************************************************************************)
EXTENDS CompileGraph, FiniteSetTheorems, SequenceTheorems, WellFoundedInduction, TLAPS

-----------------------------------------------------------------------------
(* Sequences                                                               *)

Distinct(s) == \A i, j \in 1 .. Len(s) : s[i] = s[j] => i = j

Elements(s) == {s[i] : i \in 1 .. Len(s)}

\* A sequence without repetitions is as long as it has elements.
LEMMA DistinctCount ==
  ASSUME NEW S, NEW s \in Seq(S), Distinct(s)
  PROVE  IsFiniteSet(Elements(s)) /\ Cardinality(Elements(s)) = Len(s)
<1>1. Len(s) \in Nat /\ DOMAIN s = 1 .. Len(s)
  OBVIOUS
<1>2. s \in [1 .. Len(s) -> Elements(s)]
  BY <1>1 DEF Elements
<1>3. s \in Bijection(1 .. Len(s), Elements(s))
  BY <1>2, Zenon DEF Bijection, Injection, Surjection, IsInjective, Distinct, Elements
<1>4. ExistsBijection(1 .. Len(s), Elements(s))
  BY <1>3 DEF ExistsBijection
<1>5. IsFiniteSet(1 .. Len(s)) /\ Cardinality(1 .. Len(s)) = Len(s)
  <2>1. IsFiniteSet(1 .. Len(s)) /\ Cardinality(1 .. Len(s)) = IF 1 > Len(s) THEN 0 ELSE Len(s) - 1 + 1
    BY <1>1, FS_Interval
  <2> QED BY <1>1, <2>1
<1> QED BY <1>4, <1>5, FS_Bijection

LEMMA Appended ==
  ASSUME NEW S, NEW s \in Seq(S), NEW e \in S
  PROVE  LET t == Append(s, e)
         IN  /\ t \in Seq(S) /\ Len(t) = Len(s) + 1 /\ Len(s) \in Nat
             /\ \A k \in 1 .. Len(s) : t[k] = s[k]
             /\ t[Len(s) + 1] = e
             /\ Elements(t) = Elements(s) \cup {e}
<1> DEFINE t == Append(s, e)
<1>1. /\ t \in Seq(S) /\ Len(t) = Len(s) + 1 /\ Len(s) \in Nat
      /\ \A k \in 1 .. Len(s) : t[k] = s[k]
      /\ t[Len(s) + 1] = e
  OBVIOUS
<1> HIDE DEF t
<1>2. 1 .. Len(t) = (1 .. Len(s)) \cup {Len(s) + 1}
  BY <1>1
<1>3. Elements(t) = Elements(s) \cup {e}
  BY <1>1, <1>2 DEF Elements
<1> QED BY <1>1, <1>3 DEF t

LEMMA Split ==
  ASSUME NEW S, NEW s \in Seq(S), s # <<>>, Distinct(s)
  PROVE  /\ Head(s) \in S /\ Tail(s) \in Seq(S) /\ Distinct(Tail(s))
         /\ Elements(s) = {Head(s)} \cup Elements(Tail(s))
         /\ Head(s) \notin Elements(Tail(s))
<1> DEFINE t == Tail(s)
<1>1. /\ Head(s) \in S /\ t \in Seq(S) /\ Len(t) = Len(s) - 1 /\ Head(s) = s[1]
      /\ \A k \in 1 .. Len(t) : t[k] = s[k + 1]
  OBVIOUS
<1>2. Len(s) \in Nat /\ Len(s) >= 1
  BY EmptySeq
<1> HIDE DEF t
<1>3. Distinct(t)
  <2> SUFFICES ASSUME NEW i \in 1 .. Len(t), NEW j \in 1 .. Len(t), t[i] = t[j]
               PROVE  i = j
    BY DEF Distinct
  <2>1. i + 1 \in 1 .. Len(s) /\ j + 1 \in 1 .. Len(s)
    BY <1>1, <1>2
  <2>2. i + 1 = j + 1
    BY <1>1, <2>1 DEF Distinct
  <2> QED BY <2>2
<1>4. Elements(s) = {s[1]} \cup Elements(t)
  <2>1. ASSUME NEW x \in Elements(s) PROVE x \in {s[1]} \cup Elements(t)
    <3>1. PICK i \in 1 .. Len(s) : x = s[i]
      BY DEF Elements
    <3>2. CASE i # 1
      <4>1. i - 1 \in 1 .. Len(t) /\ (i - 1) + 1 = i
        BY <1>1, <1>2, <3>2
      <4> QED BY <1>1, <3>1, <4>1 DEF Elements
    <3> QED BY <3>1, <3>2
  <2>2. ASSUME NEW x \in Elements(t) PROVE x \in Elements(s)
    <3>1. PICK i \in 1 .. Len(t) : x = t[i]
      BY DEF Elements
    <3>2. i + 1 \in 1 .. Len(s)
      BY <1>1, <1>2
    <3> QED BY <1>1, <3>1, <3>2 DEF Elements
  <2>3. s[1] \in Elements(s)
    BY <1>2 DEF Elements
  <2> QED BY <2>1, <2>2, <2>3
<1>5. s[1] \notin Elements(t)
  <2> SUFFICES ASSUME NEW i \in 1 .. Len(t), s[1] = t[i] PROVE FALSE
    BY DEF Elements
  <2>1. 1 \in 1 .. Len(s) /\ i + 1 \in 1 .. Len(s) /\ 1 # i + 1
    BY <1>1, <1>2
  <2> QED BY <1>1, <2>1 DEF Distinct
<1> QED BY <1>1, <1>3, <1>4, <1>5 DEF t

LEMMA Joined ==
  ASSUME NEW S, NEW s \in Seq(S), NEW t \in Seq(S), Distinct(s), Distinct(t),
         Elements(s) \cap Elements(t) = {}
  PROVE  /\ s \o t \in Seq(S) /\ Distinct(s \o t)
         /\ Elements(s \o t) = Elements(s) \cup Elements(t)
<1> DEFINE r == s \o t
<1>1. /\ r \in Seq(S) /\ Len(r) = Len(s) + Len(t) /\ Len(s) \in Nat /\ Len(t) \in Nat
      /\ \A i \in 1 .. Len(r) : r[i] = IF i <= Len(s) THEN s[i] ELSE t[i - Len(s)]
  BY ConcatProperties
<1> HIDE DEF r
<1>2. \A i \in 1 .. Len(r) : i <= Len(s) => i \in 1 .. Len(s) /\ r[i] = s[i]
  BY <1>1
<1>3. \A i \in 1 .. Len(r) : ~(i <= Len(s)) => i - Len(s) \in 1 .. Len(t) /\ r[i] = t[i - Len(s)]
  BY <1>1
<1>4. Distinct(r)
  <2> SUFFICES ASSUME NEW i \in 1 .. Len(r), NEW j \in 1 .. Len(r), r[i] = r[j]
               PROVE  i = j
    BY DEF Distinct
  <2>1. CASE i <= Len(s) /\ j <= Len(s)
    BY <1>2, <2>1 DEF Distinct
  <2>2. CASE ~(i <= Len(s)) /\ ~(j <= Len(s))
    <3>1. i - Len(s) = j - Len(s)
      BY <1>3, <2>2 DEF Distinct
    <3> QED BY <1>1, <3>1
  <2>a. \A k \in 1 .. Len(r) : k <= Len(s) => r[k] \in Elements(s)
    BY <1>2 DEF Elements
  <2>b. \A k \in 1 .. Len(r) : ~(k <= Len(s)) => r[k] \in Elements(t)
    BY <1>3 DEF Elements
  <2>3. CASE i <= Len(s) /\ ~(j <= Len(s))
    BY <2>a, <2>b, <2>3
  <2>4. CASE ~(i <= Len(s)) /\ j <= Len(s)
    BY <2>a, <2>b, <2>4
  <2> QED BY <2>1, <2>2, <2>3, <2>4
<1>5. Elements(r) = Elements(s) \cup Elements(t)
  <2>1. ASSUME NEW x \in Elements(r) PROVE x \in Elements(s) \cup Elements(t)
    <3>1. PICK i \in 1 .. Len(r) : x = r[i]
      BY DEF Elements
    <3> QED BY <1>2, <1>3, <3>1 DEF Elements
  <2>2. ASSUME NEW x \in Elements(s) PROVE x \in Elements(r)
    <3>1. PICK i \in 1 .. Len(s) : x = s[i]
      BY DEF Elements
    <3>2. i \in 1 .. Len(r) /\ i <= Len(s)
      BY <1>1
    <3> QED BY <1>2, <3>1, <3>2 DEF Elements
  <2>3. ASSUME NEW x \in Elements(t) PROVE x \in Elements(r)
    <3>1. PICK i \in 1 .. Len(t) : x = t[i]
      BY DEF Elements
    <3>2. i + Len(s) \in 1 .. Len(r) /\ ~(i + Len(s) <= Len(s)) /\ (i + Len(s)) - Len(s) = i
      BY <1>1
    <3> QED BY <1>3, <3>1, <3>2 DEF Elements
  <2> QED BY <2>1, <2>2, <2>3
<1> QED BY <1>1, <1>4, <1>5 DEF r

\* An ordering of a finite set has exactly its elements, each one once.
LEMMA OrderingOf ==
  ASSUME NEW S, IsFiniteSet(S), NEW r \in Orderings(S)
  PROVE  r \in Seq(S) /\ Distinct(r) /\ Elements(r) = S
<1>1. Cardinality(S) \in Nat /\ r \in [1 .. Cardinality(S) -> S]
  BY FS_CardinalityType DEF Orderings
<1>2. r \in Seq(S) /\ Len(r) = Cardinality(S) /\ DOMAIN r = 1 .. Len(r)
  BY <1>1
<1>3. Distinct(r)
  BY <1>2 DEF Orderings, Distinct
<1>4. Elements(r) \in SUBSET S
  BY <1>2 DEF Elements
<1>5. Cardinality(Elements(r)) = Cardinality(S)
  BY <1>2, <1>3, DistinctCount
<1>6. Elements(r) = S
  BY <1>4, <1>5, FS_Subset
<1> QED BY <1>2, <1>3, <1>6

Less == {pair \in Nat \X Nat : pair[1] < pair[2]}

\* A set of natural numbers that is not empty has a least element.
LEMMA LeastElement ==
  ASSUME NEW T \in SUBSET Nat, T # {}
  PROVE  \E x \in T : \A y \in T : x <= y
<1>1. IsWellFoundedOn(Less, Nat)
  BY NatLessThanWellFounded, Zenon DEF OpToRel, Less
<1>2. PICK x \in T : \A y \in T : ~(<<y, x>> \in Less)
  BY <1>1, WFMin
<1>3. ASSUME NEW y \in T PROVE x <= y
  <2>1. <<y, x>> \notin Less /\ x \in Nat /\ y \in Nat
    BY <1>2
  <2>2. <<y, x>> \in Nat \X Nat /\ <<y, x>>[1] = y /\ <<y, x>>[2] = x
    BY <2>1
  <2>3. ~(y < x)
    BY <2>1, <2>2, Zenon DEF Less
  <2> QED BY <2>1, <2>3
<1> QED BY <1>3

-----------------------------------------------------------------------------
(* The inductive invariant                                                 *)

\* In the loop of Kahn's algorithm indegree counts the predecessors that are
\* not ordered yet, and the queue holds the nodes that have none left.
Kahn ==
  /\ queue \in Seq(Nodes) /\ Distinct(queue)
  /\ Elements(order) \cap Elements(queue) = {}
  /\ \A v \in Nodes : indegree[v] = Cardinality(predecessors(v) \ Elements(order))
  /\ \A v \in Nodes : indegree[v] = 0 <=> v \in Elements(order) \cup Elements(queue)

Accepted == phase \in {"latency", "ready", "process", "BufferSizeOverflow"}

CompileInv ==
  /\ nodes \in Seq(Latencies)
  /\ order \in Seq(Nodes) /\ OrderRespectsEdges
  /\ phase \in {"build", "Empty"} => order = <<>>
  /\ phase = "kahn" => Kahn
  /\ phase = "CycleDetected" => HasCycle
  /\ Accepted => Len(order) = n /\ Elements(order) = Nodes

Solved(v) ==
  \A k \in 0 .. (block.sample_count - 1) : node_outputs[BufferStart(v) + k] = Mixed(v, k)

\* In the loop of process the nodes that were processed in this block have
\* what they compute from their predecessors in their buffers.
ProcessInv ==
  /\ max_block \in Nat \ {0}
  /\ Compiled =>
       /\ DOMAIN node_outputs = 0 .. (n * max_block - 1)
       /\ block.sample_count \in Nat /\ block.outLen \in Nat
       /\ block.sample_count <= max_block /\ block.sample_count <= block.outLen
  /\ phase \notin {"ready", "process"} => block = NoBlock
  /\ phase = "process" =>
       /\ pos \in Nat \ {0}
       /\ \A i \in 1 .. (pos - 1) : i <= n => Solved(order[i])
  /\ phase = "ready" =>
       /\ \A v \in Nodes : Solved(v)
       /\ \A k \in 0 .. (block.sample_count - 1) : output[k] = Sum(sinks, k)
       /\ \A k \in block.sample_count .. (block.outLen - 1) : output[k] = 0

GInv == CompileInv /\ ProcessInv

-----------------------------------------------------------------------------
(* Kahn's algorithm                                                        *)

LEMMA GraphFinite ==
  ASSUME nodes \in Seq(Latencies)
  PROVE  /\ n \in Nat /\ IsFiniteSet(Nodes) /\ Cardinality(Nodes) = n
         /\ \A S \in SUBSET Nodes : IsFiniteSet(S) /\ Cardinality(S) \in Nat
<1>1. n \in Nat
  BY DEF n
<1>2. IsFiniteSet(Nodes) /\ Cardinality(Nodes) = n
  <2>1. IsFiniteSet(1 .. n) /\ Cardinality(1 .. n) = IF 1 > n THEN 0 ELSE n - 1 + 1
    BY <1>1, FS_Interval
  <2> QED BY <1>1, <2>1 DEF Nodes
<1>3. ASSUME NEW S \in SUBSET Nodes PROVE IsFiniteSet(S) /\ Cardinality(S) \in Nat
  BY <1>2, FS_Subset, FS_CardinalityType
<1> QED BY <1>1, <1>2, <1>3

LEMMA GraphStays ==
  ASSUME UNCHANGED <<nodes, connections>>
  PROVE  /\ n' = n /\ Nodes' = Nodes /\ sinks' = sinks /\ HasCycle' = HasCycle
         /\ \A v : predecessors(v)' = predecessors(v)
BY DEF n, Nodes, sinks, adjacency, predecessors, HasCycle

LEMMA OrderStays ==
  ASSUME OrderRespectsEdges, UNCHANGED <<nodes, connections, order>>
  PROVE  OrderRespectsEdges'
BY DEF OrderRespectsEdges, predecessors, Nodes, n

\* Nothing is ordered as long as the graph is built.
LEMMA BuildStays ==
  ASSUME nodes' \in Seq(Latencies), order' = <<>>, phase' \in {"build", "Empty"}
  PROVE  CompileInv'
<1>1. order' \in Seq(Nodes') /\ Len(order') = 0
  OBVIOUS
<1>2. OrderRespectsEdges'
  BY <1>1 DEF OrderRespectsEdges
<1> QED BY <1>1, <1>2 DEF CompileInv, Accepted

\* Nothing is ordered any more once the order is accepted.
LEMMA AcceptedStays ==
  ASSUME CompileInv, Accepted, Accepted', UNCHANGED <<nodes, connections, order>>
  PROVE  CompileInv'
<1>1. phase' \notin {"build", "Empty", "kahn", "CycleDetected"}
  BY DEF Accepted
<1>2. OrderRespectsEdges'
  BY OrderStays DEF CompileInv
<1> QED BY <1>1, <1>2, GraphStays DEF CompileInv, Elements

LEMMA StartStep ==
  ASSUME CompileInv, CompileStart
  PROVE  CompileInv'
<1> DEFINE Roots == {v \in Nodes : Indegree(v) = 0}
<1>1. /\ phase = "build" /\ phase' = "kahn"
      /\ indegree' = [v \in Nodes |-> Indegree(v)]
      /\ UNCHANGED <<nodes, connections, order>>
      /\ queue' \in Orderings(Roots)
  BY DEF CompileStart, builderVars
<1>2. order = <<>> /\ nodes \in Seq(Latencies)
  BY <1>1 DEF CompileInv
<1>3. order' \in Seq(Nodes') /\ Len(order') = 0
  BY <1>1, <1>2
<1>4. OrderRespectsEdges'
  BY <1>3 DEF OrderRespectsEdges
<1>5. Elements(order') = {}
  BY <1>3 DEF Elements
<1>6. Nodes' = Nodes /\ \A v : predecessors(v)' = predecessors(v)
  BY <1>1, GraphStays
<1>7. queue' \in Seq(Roots) /\ Distinct(queue') /\ Elements(queue') = Roots
  <2>1. IsFiniteSet(Roots)
    BY <1>2, GraphFinite
  <2> HIDE DEF Roots
  <2> QED BY <1>1, <2>1, OrderingOf
<1>8. queue' \in Seq(Nodes')
  BY <1>6, <1>7, SeqMonotonic
<1>9. Kahn'
  <2>1. \A v \in Nodes : indegree'[v] = Cardinality(predecessors(v) \ Elements(order'))
    BY <1>1, <1>5 DEF Indegree
  <2>2. \A v \in Nodes : indegree'[v] = 0 <=> v \in Elements(order') \cup Elements(queue')
    BY <1>1, <1>5, <1>7
  <2> QED BY <1>5, <1>6, <1>7, <1>8, <2>1, <2>2 DEF Kahn
<1> QED BY <1>1, <1>2, <1>3, <1>4, <1>9 DEF CompileInv, Accepted

LEMMA PopStep ==
  ASSUME CompileInv, KahnPop
  PROVE  CompileInv'
<1> DEFINE u == Head(queue)
           Done == Elements(order)
<1>1. /\ phase = "kahn" /\ phase' = "kahn" /\ queue # <<>>
      /\ order' = Append(order, u)
      /\ indegree' = [v \in Nodes |-> IF v \in adjacency(u) THEN indegree[v] - 1 ELSE indegree[v]]
      /\ UNCHANGED <<nodes, connections>>
  BY DEF KahnPop, builderVars
<1>2. PICK freed \in Orderings(Freed(u)) : queue' = Tail(queue) \o freed
  BY DEF KahnPop
<1>3. Kahn /\ nodes \in Seq(Latencies) /\ order \in Seq(Nodes) /\ OrderRespectsEdges
  BY <1>1 DEF CompileInv
<1>4. Nodes' = Nodes /\ \A v : predecessors(v)' = predecessors(v)
  BY <1>1, GraphStays
<1>5. /\ u \in Nodes /\ Tail(queue) \in Seq(Nodes) /\ Distinct(Tail(queue))
      /\ Elements(queue) = {u} \cup Elements(Tail(queue))
      /\ u \notin Elements(Tail(queue))
  BY <1>1, <1>3, Split DEF Kahn
<1> HIDE DEF u
<1>6. u \notin Done
  BY <1>3, <1>5 DEF Kahn
<1>7. /\ order' \in Seq(Nodes) /\ Len(order') = Len(order) + 1 /\ Len(order) \in Nat
      /\ \A k \in 1 .. Len(order) : order'[k] = order[k]
      /\ order'[Len(order) + 1] = u
      /\ Elements(order') = Done \cup {u}
  BY <1>1, <1>3, <1>5, Appended
<1>8. \A v \in Nodes : v \in adjacency(u) <=> u \in predecessors(v)
  BY <1>5 DEF adjacency, predecessors
<1>9. predecessors(u) \subseteq Done
  <2>1. indegree[u] = 0
    BY <1>3, <1>5 DEF Kahn
  <2>2. Cardinality(predecessors(u) \ Done) = 0
    BY <1>3, <1>5, <2>1 DEF Kahn
  <2>3. IsFiniteSet(predecessors(u) \ Done)
    <3>1. predecessors(u) \ Done \in SUBSET Nodes
      BY DEF predecessors
    <3> QED BY <1>3, <3>1, GraphFinite
  <2>4. predecessors(u) \ Done = {}
    BY <2>2, <2>3, FS_EmptySet
  <2> QED BY <2>4
<1>10. OrderRespectsEdges'
  <2>1. ASSUME NEW i \in 1 .. Len(order'), NEW j \in 1 .. Len(order'), order'[i] = order'[j]
        PROVE  i = j
    <3>1. \A k \in 1 .. Len(order) : order[k] # u
      BY <1>6 DEF Elements
    <3>2. /\ i \in 1 .. Len(order) \/ i = Len(order) + 1
          /\ j \in 1 .. Len(order) \/ j = Len(order) + 1
      BY <1>7
    <3> QED BY <1>3, <1>7, <2>1, <3>1, <3>2 DEF OrderRespectsEdges
  <2>2. ASSUME NEW j \in 1 .. Len(order'), NEW w \in predecessors(order'[j])
        PROVE  \E i \in 1 .. (j - 1) : order'[i] = w
    <3>1. CASE j \in 1 .. Len(order)
      <4>1. PICK i \in 1 .. (j - 1) : order[i] = w
        BY <1>3, <1>7, <2>2, <3>1 DEF OrderRespectsEdges
      <4>2. i \in 1 .. Len(order)
        BY <1>7, <3>1, <4>1
      <4> QED BY <1>7, <4>1, <4>2
    <3>2. CASE j = Len(order) + 1
      <4>1. w \in Done
        BY <1>7, <1>9, <2>2, <3>2
      <4>2. PICK i \in 1 .. Len(order) : order[i] = w
        BY <4>1 DEF Elements
      <4>3. i \in 1 .. (j - 1)
        BY <1>7, <3>2, <4>2
      <4> QED BY <1>7, <4>2, <4>3
    <3> QED BY <1>7, <3>1, <3>2
  <2> HIDE DEF Done
  <2> QED BY <1>4, <2>1, <2>2 DEF OrderRespectsEdges
<1>11. Freed(u) \in SUBSET Nodes /\ IsFiniteSet(Freed(u))
  <2>1. Freed(u) \in SUBSET Nodes
    BY DEF Freed, adjacency
  <2> QED BY <1>3, <2>1, GraphFinite
<1>12. freed \in Seq(Nodes) /\ Distinct(freed) /\ Elements(freed) = Freed(u)
  <2>1. freed \in Seq(Freed(u)) /\ Distinct(freed) /\ Elements(freed) = Freed(u)
    BY <1>2, <1>11, OrderingOf
  <2> QED BY <1>11, <2>1, SeqMonotonic
<1>13. Freed(u) \cap (Done \cup Elements(queue)) = {}
  <2> SUFFICES ASSUME NEW v \in Freed(u) PROVE v \notin Done \cup Elements(queue)
    OBVIOUS
  <2>1. v \in Nodes /\ indegree[v] = 1
    BY <1>11 DEF Freed
  <2> QED BY <1>3, <2>1 DEF Kahn
<1>14. /\ queue' \in Seq(Nodes) /\ Distinct(queue')
       /\ Elements(queue') = Elements(Tail(queue)) \cup Freed(u)
  <2>1. Elements(Tail(queue)) \cap Elements(freed) = {}
    BY <1>5, <1>12, <1>13
  <2> DEFINE rest == Tail(queue)
  <2>2. rest \in Seq(Nodes) /\ Distinct(rest) /\ Elements(rest) \cap Elements(freed) = {}
    BY <1>5, <2>1
  <2>3. queue' = rest \o freed
    BY <1>2
  <2> HIDE DEF rest
  <2>4. queue' \in Seq(Nodes) /\ Distinct(queue')
        /\ Elements(queue') = Elements(rest) \cup Elements(freed)
    BY <1>12, <2>2, <2>3, Joined
  <2> QED BY <1>12, <2>4 DEF rest
<1>15. Elements(order') \cap Elements(queue') = {}
  <2>1. Done \cap Elements(queue) = {} /\ u \notin Freed(u)
    BY <1>3, <1>5, <1>13 DEF Kahn
  <2> HIDE DEF Done
  <2> QED BY <1>5, <1>7, <1>13, <1>14, <2>1
<1>16. ASSUME NEW v \in Nodes
       PROVE  /\ indegree'[v] = Cardinality(predecessors(v) \ Elements(order'))
              /\ indegree'[v] = 0 <=> v \in Elements(order') \cup Elements(queue')
  <2> DEFINE Left == predecessors(v) \ Done
  <2>1. /\ indegree[v] = Cardinality(Left)
        /\ indegree[v] = 0 <=> v \in Done \cup Elements(queue)
    BY <1>3 DEF Kahn
  <2>2. IsFiniteSet(Left) /\ Cardinality(Left) \in Nat
    <3>1. Left \in SUBSET Nodes
      BY DEF predecessors
    <3> QED BY <1>3, <3>1, GraphFinite
  <2>3. predecessors(v) \ Elements(order') = Left \ {u}
    BY <1>7
  <2>4. u \in Left <=> v \in adjacency(u)
    BY <1>6, <1>8
  <2> HIDE DEF Left, Done
  <2>5. Cardinality(Left \ {u}) = IF u \in Left THEN Cardinality(Left) - 1 ELSE Cardinality(Left)
    BY <2>2, FS_RemoveElement
  <2>6. indegree'[v] = IF u \in Left THEN indegree[v] - 1 ELSE indegree[v]
    BY <1>1, <2>4
  <2>7. indegree'[v] = Cardinality(predecessors(v) \ Elements(order'))
    BY <2>1, <2>3, <2>5, <2>6
  <2>8. u \in Left => Cardinality(Left) # 0
    BY <2>2, FS_EmptySet
  <2>9. v \in Freed(u) <=> u \in Left /\ indegree[v] = 1
    BY <2>4 DEF Freed
  <2>10. indegree'[v] = 0 <=> v \in Done \cup Elements(queue) \/ v \in Freed(u)
    BY <2>1, <2>2, <2>6, <2>8, <2>9
  <2>11. v \in Elements(order') \cup Elements(queue')
           <=> v \in Done \cup Elements(queue) \/ v \in Freed(u)
    BY <1>5, <1>7, <1>14
  <2> QED BY <2>7, <2>10, <2>11
<1>17. Kahn'
  BY <1>4, <1>14, <1>15, <1>16 DEF Kahn
<1> QED BY <1>1, <1>3, <1>4, <1>7, <1>10, <1>17 DEF CompileInv, Accepted

LEMMA EndStep ==
  ASSUME CompileInv, KahnEnd
  PROVE  CompileInv'
<1>1. /\ phase = "kahn" /\ queue = <<>>
      /\ UNCHANGED <<nodes, connections, order>>
      /\ \/ Len(order) # n /\ phase' = "CycleDetected"
         \/ Len(order) = n /\ phase' = "latency"
  BY DEF KahnEnd, AllOrdered, builderVars, kahnVars
<1>2. Kahn /\ nodes \in Seq(Latencies) /\ order \in Seq(Nodes) /\ OrderRespectsEdges
  BY <1>1 DEF CompileInv
<1>3. OrderRespectsEdges' /\ order' \in Seq(Nodes') /\ nodes' \in Seq(Latencies)
  BY <1>1, <1>2, OrderStays, GraphStays
<1>4. IsFiniteSet(Elements(order)) /\ Cardinality(Elements(order)) = Len(order)
  <2>1. Distinct(order)
    BY <1>2 DEF OrderRespectsEdges, Distinct
  <2> QED BY <1>2, <2>1, DistinctCount
<1>5. Elements(order) \in SUBSET Nodes
  BY <1>2 DEF Elements
<1>6. IsFiniteSet(Nodes) /\ Cardinality(Nodes) = n
  BY <1>2, GraphFinite
<1>7. CASE Len(order) # n /\ phase' = "CycleDetected"
  <2> DEFINE S == Nodes \ Elements(order)
  <2>1. S \in (SUBSET Nodes) \ {{}}
    <3>1. Elements(order) # Nodes
      BY <1>4, <1>6, <1>7
    <3> QED BY <1>5, <3>1
  <2>2. Elements(queue) = {}
    BY <1>1 DEF Elements
  <2>3. ASSUME NEW v \in S PROVE predecessors(v) \cap S # {}
    <3>1. indegree[v] # 0
      BY <1>2, <2>2 DEF Kahn
    <3>2. Cardinality(predecessors(v) \ Elements(order)) # 0
      BY <1>2, <3>1 DEF Kahn
    <3>3. predecessors(v) \ Elements(order) # {}
      BY <3>2, FS_EmptySet
    <3> QED BY <3>3 DEF predecessors
  <2>4. HasCycle
    BY <2>1, <2>3 DEF HasCycle
  <2>5. HasCycle'
    BY <1>1, <2>4, GraphStays
  <2> QED BY <1>3, <1>7, <2>5 DEF CompileInv, Accepted
<1>8. CASE Len(order) = n /\ phase' = "latency"
  <2>1. Elements(order) = Nodes
    BY <1>4, <1>5, <1>6, <1>8, FS_Subset
  <2>2. Len(order') = n' /\ Elements(order') = Nodes'
    BY <1>1, <1>8, <2>1, GraphStays
  <2> QED BY <1>3, <1>8, <2>2 DEF CompileInv, Accepted
<1> QED BY <1>1, <1>7, <1>8

\* Of the nodes of a cycle the one ordered first would come after another.
LEMMA OrderedHasNoCycle ==
  ASSUME CompileInv, Accepted
  PROVE  ~HasCycle
<1> SUFFICES ASSUME NEW S \in SUBSET Nodes, S # {}, \A v \in S : predecessors(v) \cap S # {}
             PROVE  FALSE
  BY DEF HasCycle
<1> DEFINE T == {i \in 1 .. Len(order) : order[i] \in S}
<1>1. OrderRespectsEdges /\ Elements(order) = Nodes /\ Len(order) \in Nat
  BY DEF CompileInv
<1>2. T \in SUBSET Nat /\ T # {}
  BY <1>1 DEF Elements
<1>3. PICK i \in T : \A j \in T : i <= j
  <2> HIDE DEF T
  <2> QED BY <1>2, LeastElement
<1>4. PICK w \in S : w \in predecessors(order[i])
  BY <1>3
<1>5. PICK j \in 1 .. (i - 1) : order[j] = w
  BY <1>1, <1>3, <1>4 DEF OrderRespectsEdges
<1>6. j \in T /\ ~(i <= j)
  BY <1>1, <1>3, <1>4, <1>5
<1> QED BY <1>3, <1>6

-----------------------------------------------------------------------------
(* The buffers and their sums                                              *)

\* The buffers of two nodes have no sample in common.
LEMMA BuffersApart ==
  ASSUME NEW m \in Nat \ {0}, NEW u \in Int, NEW v \in Int,
         NEW k \in 0 .. (m - 1), NEW l \in 0 .. (m - 1),
         (u - 1) * m + k = (v - 1) * m + l
  PROVE  u = v
<1>1. (u - v) * m = l - k
  OBVIOUS
<1>2. ~(u - v >= 1)
  <2>1. u - v >= 1 => (u - v) * m >= m
    OBVIOUS
  <2> QED BY <1>1, <2>1
<1>3. ~(u - v <= -1)
  <2>1. u - v <= -1 => (u - v) * m <= -m
    OBVIOUS
  <2> QED BY <1>1, <2>1
<1> QED BY <1>2, <1>3

\* Each buffer is inside of the allocation.
LEMMA BufferInside ==
  ASSUME NEW m \in Nat \ {0}, NEW size \in Nat, NEW v \in 1 .. size, NEW k \in 0 .. (m - 1)
  PROVE  (v - 1) * m + k \in 0 .. (size * m - 1)
<1>1. (v - 1) * m >= 0 /\ (v - 1) * m \in Int
  OBVIOUS
<1>2. (size - v) * m >= 0
  OBVIOUS
<1>3. (v - 1) * m + m = v * m /\ v * m <= size * m
  BY <1>2
<1> QED BY <1>1, <1>3

\* A sum changes only if one of its terms does.
LEMMA SumStays ==
  ASSUME NEW B, NEW k,
         \A u \in B : node_outputs'[BufferStart(u)' + k] = node_outputs[BufferStart(u) + k]
  PROVE  Sum(B, k)' = Sum(B, k)
<1> DEFINE
      Terms(it) == [s \in SUBSET B |->
        IF s = {} THEN 0
        ELSE node_outputs[BufferStart(CHOOSE x \in s : TRUE) + k]
               + it[s \ {CHOOSE x \in s : TRUE}]]
      TermsThen(it) == [s \in SUBSET B |->
        IF s = {} THEN 0
        ELSE node_outputs'[BufferStart(CHOOSE x \in s : TRUE)' + k]
               + it[s \ {CHOOSE x \in s : TRUE}]]
<1>1. Sum(B, k) = (CHOOSE it : it = Terms(it))[B]
  BY Zenon DEF Sum, MapThenSumSet, MapThenFoldSet
<1>2. Sum(B, k)' = (CHOOSE it : it = TermsThen(it))[B]
  BY Zenon DEF Sum, MapThenSumSet, MapThenFoldSet
<1>3. \A s \in SUBSET B : s # {} => (CHOOSE x \in s : TRUE) \in B
  OBVIOUS
<1>4. ASSUME NEW it PROVE (it = Terms(it)) <=> (it = TermsThen(it))
  BY <1>3
<1> HIDE DEF Terms, TermsThen
<1>5. (CHOOSE it : it = Terms(it)) = (CHOOSE it : it = TermsThen(it))
  BY <1>4, Zenon
<1> QED BY <1>1, <1>2, <1>5, Zenon

\* What a node computes changes only if a buffer it reads does.
LEMMA MixedStays ==
  ASSUME NEW v, NEW k, UNCHANGED <<nodes, connections, max_block, block>>,
         \A u \in predecessors(v) :
           node_outputs'[BufferStart(u) + k] = node_outputs[BufferStart(u) + k]
  PROVE  Mixed(v, k)' = Mixed(v, k)
<1> DEFINE B == predecessors(v)
<1>1. B' = B
  BY GraphStays
<1>2. \A u : BufferStart(u)' = BufferStart(u)
  BY DEF BufferStart
<1>3. Sum(B, k)' = Sum(B, k)
  <2> SUFFICES ASSUME NEW P, P = B PROVE Sum(P, k)' = Sum(P, k)
    BY <1>1
  <2> QED BY <1>2, SumStays
<1> QED BY <1>1, <1>3 DEF Mixed

-----------------------------------------------------------------------------
(* Processing                                                              *)

LEMMA MinOfThree ==
  ASSUME NEW a \in Nat, NEW b \in Nat, NEW c \in Nat
  PROVE  /\ Min({a, b, c}) \in Nat
         /\ Min({a, b, c}) <= a /\ Min({a, b, c}) <= b /\ Min({a, b, c}) <= c
<1>1. \E x \in {a, b, c} : \A y \in {a, b, c} : x =< y
  OBVIOUS
<1>2. /\ Min({a, b, c}) \in {a, b, c}
      /\ \A y \in {a, b, c} : Min({a, b, c}) =< y
  BY <1>1 DEF Min
<1> QED BY <1>2

\* The samples of a node are where no other node's are.
LEMMA BufferFacts ==
  ASSUME GInv, Compiled
  PROVE  /\ \A v \in Nodes, k \in 0 .. (block.sample_count - 1) :
              BufferStart(v) + k \in DOMAIN node_outputs /\ BufferStart(v) \in Int
         /\ \A u, v \in Nodes, k, l \in 0 .. (block.sample_count - 1) :
              BufferStart(u) + k = BufferStart(v) + l => u = v
<1>1. /\ max_block \in Nat \ {0} /\ DOMAIN node_outputs = 0 .. (n * max_block - 1)
      /\ block.sample_count \in Nat /\ block.sample_count <= max_block
  BY DEF GInv, ProcessInv
<1>2. n \in Nat
  BY GraphFinite DEF GInv, CompileInv
<1>3. \A k \in 0 .. (block.sample_count - 1) : k \in 0 .. (max_block - 1)
  BY <1>1
<1>4. ASSUME NEW v \in Nodes, NEW k \in 0 .. (block.sample_count - 1)
      PROVE  BufferStart(v) + k \in DOMAIN node_outputs /\ BufferStart(v) \in Int
  <2>1. v \in 1 .. n /\ v \in Int
    BY <1>2 DEF Nodes
  <2>2. (v - 1) * max_block + k \in 0 .. (n * max_block - 1)
    BY <1>1, <1>2, <1>3, <2>1, BufferInside
  <2>3. (v - 1) * max_block \in Int
    BY <1>1, <2>1
  <2> QED BY <1>1, <2>2, <2>3 DEF BufferStart
<1>5. ASSUME NEW u \in Nodes, NEW v \in Nodes,
             NEW k \in 0 .. (block.sample_count - 1), NEW l \in 0 .. (block.sample_count - 1),
             BufferStart(u) + k = BufferStart(v) + l
      PROVE  u = v
  <2>1. u \in Int /\ v \in Int
    BY <1>2 DEF Nodes
  <2>2. (u - 1) * max_block + k = (v - 1) * max_block + l
    BY <1>5 DEF BufferStart
  <2> QED BY <1>1, <1>3, <2>1, <2>2, BuffersApart
<1> QED BY <1>4, <1>5

\* Nothing that a block reads or writes changes.
LEMMA SolvedStays ==
  ASSUME NEW v, UNCHANGED <<nodes, connections, max_block, block, node_outputs>>
  PROVE  Solved(v)' <=> Solved(v)
<1>1. \A u : BufferStart(u)' = BufferStart(u)
  BY DEF BufferStart
<1>2. \A k : Mixed(v, k)' = Mixed(v, k)
  BY <1>1, MixedStays
<1> QED BY <1>1, <1>2 DEF Solved

\* As long as the graph is not compiled.
LEMMA NotCompiled ==
  ASSUME ProcessInv, ~Compiled, ~Compiled', UNCHANGED <<max_block, block>>
  PROVE  ProcessInv'
BY DEF ProcessInv, Compiled

LEMMA AllocateStep ==
  ASSUME GInv, CompileEnd
  PROVE  ProcessInv'
<1>1. /\ phase = "latency" /\ UNCHANGED <<nodes, connections, max_block, block>>
      /\ \/ phase' = "BufferSizeOverflow"
         \/ phase' = "ready" /\ node_outputs' = [k \in 0 .. (n * max_block - 1) |-> 0]
  BY DEF CompileEnd, builderVars
<1>2. max_block \in Nat \ {0} /\ block = NoBlock
  BY <1>1 DEF GInv, ProcessInv
<1>3. CASE phase' = "BufferSizeOverflow"
  BY <1>1, <1>2, <1>3 DEF ProcessInv, Compiled
<1>4. CASE phase' = "ready" /\ node_outputs' = [k \in 0 .. (n * max_block - 1) |-> 0]
  <2>1. block'.sample_count = 0 /\ block'.outLen = 0
    BY <1>1, <1>2 DEF NoBlock
  <2>2. DOMAIN node_outputs' = 0 .. (n' * max_block' - 1)
    BY <1>1, <1>4, GraphStays
  <2>3. 0 .. (block'.sample_count - 1) = {} /\ block'.sample_count .. (block'.outLen - 1) = {}
    BY <2>1
  <2>4. /\ \A v \in Nodes' : Solved(v)'
        /\ \A k \in 0 .. (block'.sample_count - 1) : output'[k] = Sum(sinks, k)'
        /\ \A k \in block'.sample_count .. (block'.outLen - 1) : output'[k] = 0
    BY <2>3 DEF Solved
  <2> QED BY <1>1, <1>2, <1>4, <2>1, <2>2, <2>4 DEF ProcessInv, Compiled
<1> QED BY <1>1, <1>3, <1>4

LEMMA StartBlockStep ==
  ASSUME GInv, NEW first \in Inputs, NEW inLen \in BlockLens, NEW outLen \in BlockLens,
         ProcessStart(first, inLen, outLen)
  PROVE  ProcessInv'
<1>1. /\ phase = "ready" /\ phase' = "process" /\ pos' = 1
      /\ UNCHANGED <<nodes, connections, max_block, node_outputs>>
      /\ block'.outLen = outLen
      /\ block'.sample_count = Min({inLen, outLen, max_block})
  BY DEF ProcessStart, builderVars, SampleCount
<1>2. max_block \in Nat \ {0} /\ DOMAIN node_outputs = 0 .. (n * max_block - 1)
  BY <1>1 DEF GInv, ProcessInv, Compiled
<1>3. inLen \in Nat /\ outLen \in Nat
  BY CompileAssumption
<1>4. /\ block'.sample_count \in Nat /\ block'.outLen \in Nat
      /\ block'.sample_count <= max_block' /\ block'.sample_count <= block'.outLen
  BY <1>1, <1>2, <1>3, MinOfThree
<1>5. DOMAIN node_outputs' = 0 .. (n' * max_block' - 1)
  BY <1>1, <1>2, GraphStays
<1>6. 1 .. (pos' - 1) = {}
  BY <1>1
<1> QED BY <1>1, <1>2, <1>4, <1>5, <1>6 DEF ProcessInv, Compiled

LEMMA NodeStep ==
  ASSUME GInv, ProcessNode
  PROVE  ProcessInv'
<1> DEFINE v == order[pos]
           start == BufferStart(v)
           count == block.sample_count
<1>1. /\ phase = "process" /\ phase' = "process" /\ pos <= n /\ pos' = pos + 1
      /\ node_outputs' = [j \in DOMAIN node_outputs |->
                            IF j \in start .. (start + count - 1)
                            THEN Mixed(v, j - start) ELSE node_outputs[j]]
      /\ UNCHANGED <<nodes, connections, max_block, order, block>>
  BY DEF ProcessNode, builderVars, kahnVars
<1>2. /\ max_block \in Nat \ {0} /\ DOMAIN node_outputs = 0 .. (n * max_block - 1)
      /\ count \in Nat /\ block.outLen \in Nat
      /\ count <= max_block /\ count <= block.outLen
      /\ pos \in Nat \ {0}
      /\ \A i \in 1 .. (pos - 1) : i <= n => Solved(order[i])
  BY <1>1 DEF GInv, ProcessInv, Compiled
<1>3. /\ Len(order) = n /\ n \in Nat /\ order \in Seq(Nodes) /\ OrderRespectsEdges
  BY <1>1, GraphFinite DEF GInv, CompileInv, Accepted
<1>4. pos \in 1 .. Len(order) /\ v \in Nodes
  BY <1>1, <1>2, <1>3
<1>5. ASSUME NEW i \in 1 .. pos PROVE v \notin predecessors(order[i])
  <2> SUFFICES ASSUME v \in predecessors(order[i]) PROVE FALSE
    OBVIOUS
  <2>1. i \in 1 .. Len(order)
    BY <1>2, <1>4
  <2>2. PICK j \in 1 .. (i - 1) : order[j] = v
    BY <1>3, <2>1 DEF OrderRespectsEdges
  <2>3. j \in 1 .. Len(order) /\ j # pos
    BY <1>2, <1>4, <2>1, <2>2
  <2> QED BY <1>3, <1>4, <2>2, <2>3 DEF OrderRespectsEdges
<1>6. Compiled
  BY <1>1 DEF Compiled
<1> HIDE DEF v
<1>7. ASSUME NEW u \in Nodes, u # v, NEW k \in 0 .. (count - 1)
      PROVE  node_outputs'[BufferStart(u) + k] = node_outputs[BufferStart(u) + k]
  <2>1. BufferStart(u) + k \in DOMAIN node_outputs /\ start \in Int /\ BufferStart(u) \in Int
    BY <1>4, <1>6, BufferFacts
  <2>2. BufferStart(u) + k \notin start .. (start + count - 1)
    <3> SUFFICES ASSUME BufferStart(u) + k \in start .. (start + count - 1) PROVE FALSE
      OBVIOUS
    <3> DEFINE l == BufferStart(u) + k - start
    <3>1. l \in 0 .. (count - 1) /\ BufferStart(u) + k = start + l
      BY <1>2, <2>1
    <3> HIDE DEF l
    <3> QED BY <1>4, <1>6, <1>7, <3>1, BufferFacts
  <2> QED BY <1>1, <2>1, <2>2
<1>8. ASSUME NEW k \in 0 .. (count - 1) PROVE node_outputs'[start + k] = Mixed(v, k)
  <2>1. start + k \in DOMAIN node_outputs /\ start \in Int
    BY <1>4, <1>6, BufferFacts
  <2>2. start + k \in start .. (start + count - 1) /\ (start + k) - start = k
    BY <1>2, <2>1
  <2> QED BY <1>1, <2>1, <2>2
<1>9. ASSUME NEW w \in Nodes, v \notin predecessors(w), NEW k \in 0 .. (count - 1)
      PROVE  Mixed(w, k)' = Mixed(w, k)
  <2>1. \A u \in predecessors(w) : u \in Nodes /\ u # v
    BY <1>9 DEF predecessors
  <2>2. \A u \in predecessors(w) :
          node_outputs'[BufferStart(u) + k] = node_outputs[BufferStart(u) + k]
    BY <1>7, <2>1
  <2> QED BY <1>1, <2>2, MixedStays
<1>10. ASSUME NEW i \in 1 .. (pos' - 1) PROVE Solved(order[i])'
  <2>1. i \in 1 .. pos /\ i \in 1 .. Len(order)
    BY <1>1, <1>2, <1>4
  <2>2. PICK w \in Nodes : w = order[i] /\ order'[i] = w /\ v \notin predecessors(w)
    BY <1>1, <1>3, <1>5, <2>1
  <2>3. ASSUME NEW k \in 0 .. (count - 1)
        PROVE  node_outputs'[BufferStart(w) + k] = Mixed(w, k)'
    <3>1. CASE w = v
      BY <1>8, <1>9, <2>2, <3>1
    <3>2. CASE w # v
      <4>1. i \in 1 .. (pos - 1) /\ i <= n
        BY <1>2, <1>3, <2>1, <2>2, <3>2 DEF v
      <4>2. Solved(w)
        BY <1>2, <2>2, <4>1
      <4>3. node_outputs[BufferStart(w) + k] = Mixed(w, k)
        BY <4>2 DEF Solved
      <4> QED BY <1>7, <1>9, <2>2, <3>2, <4>3
    <3> QED BY <3>1, <3>2
  <2>4. BufferStart(w)' = BufferStart(w)
    BY <1>1 DEF BufferStart
  <2>5. \A k \in 0 .. (block'.sample_count - 1) :
          node_outputs'[BufferStart(w)' + k] = Mixed(w, k)'
    BY <1>1, <2>3, <2>4
  <2> QED BY <2>2, <2>5 DEF Solved
<1>11. DOMAIN node_outputs' = 0 .. (n' * max_block' - 1)
  BY <1>1, <1>2, GraphStays
<1>12. /\ block' = block /\ max_block' = max_block
       /\ pos' \in Nat \ {0} /\ phase' = "process"
  BY <1>1, <1>2
<1> HIDE DEF start
<1> QED BY <1>2, <1>10, <1>11, <1>12 DEF ProcessInv, Compiled

LEMMA EndBlockStep ==
  ASSUME GInv, ProcessEnd
  PROVE  ProcessInv'
<1>1. /\ phase = "process" /\ phase' = "ready" /\ pos > n
      /\ output' = [k \in 0 .. (block.outLen - 1) |->
                      IF k < block.sample_count THEN Sum(sinks, k) ELSE 0]
      /\ UNCHANGED <<nodes, connections, max_block, node_outputs, block>>
  BY DEF ProcessEnd, builderVars
<1>2. /\ max_block \in Nat \ {0} /\ DOMAIN node_outputs = 0 .. (n * max_block - 1)
      /\ block.sample_count \in Nat /\ block.outLen \in Nat
      /\ block.sample_count <= max_block /\ block.sample_count <= block.outLen
      /\ pos \in Nat \ {0}
      /\ \A i \in 1 .. (pos - 1) : i <= n => Solved(order[i])
  BY <1>1 DEF GInv, ProcessInv, Compiled
<1>3. Len(order) = n /\ n \in Nat /\ Elements(order) = Nodes
  BY <1>1, GraphFinite DEF GInv, CompileInv, Accepted
<1>4. Nodes' = Nodes /\ sinks' = sinks /\ n' = n
  BY <1>1, GraphStays
<1>5. ASSUME NEW v \in Nodes PROVE Solved(v)'
  <2>1. PICK i \in 1 .. Len(order) : v = order[i]
    BY <1>3 DEF Elements
  <2>2. i \in 1 .. (pos - 1) /\ i <= n
    BY <1>1, <1>2, <1>3
  <2>3. Solved(v)
    BY <1>2, <2>1, <2>2
  <2> QED BY <1>1, <2>3, SolvedStays
<1>6. ASSUME NEW k \in 0 .. (block.sample_count - 1) PROVE output'[k] = Sum(sinks, k)'
  <2>1. k \in 0 .. (block.outLen - 1) /\ k < block.sample_count
    BY <1>2
  <2>2. output'[k] = Sum(sinks, k)
    BY <1>1, <2>1
  <2>3. ASSUME NEW P, P = sinks PROVE Sum(P, k)' = Sum(P, k)
    <3>1. \A u : BufferStart(u)' = BufferStart(u)
      BY <1>1 DEF BufferStart
    <3> QED BY <1>1, <3>1, SumStays
  <2> QED BY <1>4, <2>2, <2>3
<1>7. ASSUME NEW k \in block.sample_count .. (block.outLen - 1) PROVE output'[k] = 0
  <2>1. k \in 0 .. (block.outLen - 1) /\ ~(k < block.sample_count)
    BY <1>2
  <2> QED BY <1>1, <2>1
<1> QED BY <1>1, <1>2, <1>4, <1>5, <1>6, <1>7 DEF ProcessInv, Compiled

-----------------------------------------------------------------------------
(* Every step keeps the invariant                                          *)

LEMMA Initially == Init => GInv
<1> SUFFICES ASSUME Init PROVE GInv
  OBVIOUS
<1>1. nodes = <<>> /\ order = <<>> /\ phase = "build" /\ max_block \in MaxBlocks /\ block = NoBlock
  BY DEF Init
<1>2. order \in Seq(Nodes) /\ Len(order) = 0 /\ nodes \in Seq(Latencies)
  BY <1>1
<1>3. OrderRespectsEdges
  BY <1>2 DEF OrderRespectsEdges
<1>4. CompileInv
  BY <1>1, <1>2, <1>3 DEF CompileInv, Accepted
<1>5. ProcessInv
  BY <1>1, CompileAssumption DEF ProcessInv, Compiled
<1> QED BY <1>4, <1>5 DEF GInv

LEMMA Inductive == GInv /\ [Next]_vars => GInv'
<1> SUFFICES ASSUME GInv, [Next]_vars PROVE GInv'
  OBVIOUS
<1>0. CompileInv /\ ProcessInv
  BY DEF GInv
<1>1. ASSUME NEW l \in Latencies, AddNode(l) PROVE GInv'
  <2>1. phase = "build" /\ phase' = "build" /\ nodes' = Append(nodes, l)
        /\ UNCHANGED <<order, max_block, block>>
    BY <1>1 DEF AddNode, kahnVars, audioVars
  <2>2. nodes' \in Seq(Latencies) /\ order' = <<>>
    BY <1>0, <2>1 DEF CompileInv
  <2> QED BY <1>0, <2>1, <2>2, BuildStays, NotCompiled DEF GInv, Compiled
<1>2. ASSUME NEW from \in 1 .. MaxNodes, NEW to \in 1 .. MaxNodes,
             Connect(from, to) \/ Disconnect(from, to)
      PROVE  GInv'
  <2>1. phase = "build" /\ phase' = "build" /\ UNCHANGED <<nodes, order, max_block, block>>
    BY <1>2 DEF Connect, Disconnect, kahnVars, audioVars
  <2>2. nodes' \in Seq(Latencies) /\ order' = <<>>
    BY <1>0, <2>1 DEF CompileInv
  <2> QED BY <1>0, <2>1, <2>2, BuildStays, NotCompiled DEF GInv, Compiled
<1>3. CASE CompileEmpty
  <2>1. phase = "build" /\ phase' = "Empty" /\ UNCHANGED <<nodes, order, max_block, block>>
    BY <1>3 DEF CompileEmpty, builderVars, kahnVars, audioVars
  <2>2. nodes' \in Seq(Latencies) /\ order' = <<>>
    BY <1>0, <2>1 DEF CompileInv
  <2> QED BY <1>0, <2>1, <2>2, BuildStays, NotCompiled DEF GInv, Compiled
<1>4. CASE CompileStart
  <2>1. ProcessInv'
    BY <1>0, <1>4, NotCompiled DEF CompileStart, Compiled, builderVars, audioVars
  <2> QED BY <1>0, <1>4, <2>1, StartStep DEF GInv
<1>5. CASE KahnPop
  <2>1. ProcessInv'
    BY <1>0, <1>5, NotCompiled DEF KahnPop, Compiled, builderVars, audioVars
  <2> QED BY <1>0, <1>5, <2>1, PopStep DEF GInv
<1>6. CASE KahnEnd
  <2>1. ProcessInv'
    BY <1>0, <1>6, NotCompiled DEF KahnEnd, Compiled, builderVars, audioVars
  <2> QED BY <1>0, <1>6, <2>1, EndStep DEF GInv
<1>7. CASE LatencyStep
  <2>1. phase = "latency" /\ phase' = "latency"
        /\ UNCHANGED <<nodes, connections, order, max_block, block>>
    BY <1>7 DEF LatencyStep, builderVars, kahnVars, audioVars
  <2> QED BY <1>0, <2>1, AcceptedStays, NotCompiled DEF GInv, Accepted, Compiled
<1>8. CASE CompileEnd
  <2>1. phase = "latency" /\ phase' \in {"BufferSizeOverflow", "ready"}
        /\ UNCHANGED <<nodes, connections, order>>
    BY <1>8 DEF CompileEnd, builderVars, kahnVars
  <2> QED BY <1>0, <1>8, <2>1, AcceptedStays, AllocateStep DEF GInv, Accepted
<1>9. ASSUME NEW first \in Inputs, NEW inLen \in BlockLens, NEW outLen \in BlockLens,
             ProcessStart(first, inLen, outLen)
      PROVE  GInv'
  <2>1. phase = "ready" /\ phase' = "process" /\ UNCHANGED <<nodes, connections, order>>
    BY <1>9 DEF ProcessStart, builderVars, kahnVars
  <2> QED BY <1>0, <1>9, <2>1, AcceptedStays, StartBlockStep DEF GInv, Accepted
<1>10. CASE ProcessNode
  <2>1. phase = "process" /\ phase' = "process" /\ UNCHANGED <<nodes, connections, order>>
    BY <1>10 DEF ProcessNode, builderVars, kahnVars
  <2> QED BY <1>0, <1>10, <2>1, AcceptedStays, NodeStep DEF GInv, Accepted
<1>11. CASE ProcessEnd
  <2>1. phase = "process" /\ phase' = "ready" /\ UNCHANGED <<nodes, connections, order>>
    BY <1>11 DEF ProcessEnd, builderVars, kahnVars
  <2> QED BY <1>0, <1>11, <2>1, AcceptedStays, EndBlockStep DEF GInv, Accepted
<1>12. CASE UNCHANGED vars
  <2>1. UNCHANGED <<nodes, connections, max_block, phase, indegree, queue, order, pos,
                    node_outputs, block, output>>
    BY <1>12 DEF vars, builderVars, kahnVars, audioVars
  <2>2. CompileInv'
    <3>1. OrderRespectsEdges' /\ Nodes' = Nodes /\ n' = n /\ HasCycle' = HasCycle
      BY <1>0, <2>1, OrderStays, GraphStays DEF CompileInv
    <3>2. Kahn' <=> Kahn
      BY <2>1 DEF Kahn, Elements, predecessors, Nodes, n
    <3> QED BY <1>0, <2>1, <3>1, <3>2 DEF CompileInv, Accepted
  <2>3. ProcessInv'
    <3>1. Nodes' = Nodes /\ n' = n /\ sinks' = sinks
      BY <2>1, GraphStays
    <3>2. \A v : Solved(v)' <=> Solved(v)
      BY <2>1, SolvedStays
    <3>3. ASSUME NEW P, NEW k PROVE Sum(P, k)' = Sum(P, k)
      <4>1. \A u : BufferStart(u)' = BufferStart(u)
        BY <2>1 DEF BufferStart
      <4> QED BY <2>1, <4>1, SumStays
    <3>4. \A k : Sum(sinks, k)' = Sum(sinks, k)
      BY <3>1, <3>3
    <3>5. \A i : Solved(order[i])' <=> Solved(order[i])
      BY <2>1, <3>2
    <3> QED BY <1>0, <2>1, <3>1, <3>2, <3>4, <3>5 DEF ProcessInv, Compiled
  <2> QED BY <2>2, <2>3 DEF GInv
<1>13. ASSUME NEW from \in 1 .. MaxNodes, NEW to \in 1 .. MaxNodes, ConnectRefused(from, to)
       PROVE  GInv'
  BY <1>12, <1>13 DEF ConnectRefused
<1> QED BY <1>1, <1>2, <1>3, <1>4, <1>5, <1>6, <1>7, <1>8, <1>9, <1>10, <1>11, <1>12, <1>13 DEF Next

LEMMA Invariance == Spec => []GInv
BY Initially, Inductive, PTL DEF Spec

-----------------------------------------------------------------------------

(***************************************************************************)
(* compile's order is a topological one: every node enters it once, after  *)
(* all its predecessors.                                                   *)
(***************************************************************************)
THEOREM OrderIsTopological == Spec => []OrderRespectsEdges
<1>1. GInv => OrderRespectsEdges
  BY DEF GInv, CompileInv
<1> QED BY <1>1, Invariance, PTL

(***************************************************************************)
(* compile returns CycleDetected for the graphs that have a cycle and for  *)
(* no others, however many nodes and edges they have.                      *)
(***************************************************************************)
THEOREM CyclesAreDetected == Spec => []CycleFoundExactly
<1>1. GInv => CycleFoundExactly
  BY OrderedHasNoCycle DEF GInv, CompileInv, CycleFoundExactly, Accepted
<1> QED BY <1>1, Invariance, PTL

(***************************************************************************)
(* A finished block solves the graph's equations, for every graph, block   *)
(* length and max_block: process reads no stale and no foreign sample, and *)
(* the rest of the host's buffer is silent.                                *)
(***************************************************************************)
THEOREM BlocksAreCorrect == Spec => []BlockSolvesGraph
<1>1. GInv => BlockSolvesGraph
  BY DEF GInv, ProcessInv, BlockSolvesGraph, Solved
<1> QED BY <1>1, Invariance, PTL

-----------------------------------------------------------------------------
(* The latency of a graph.  Accumulated is a recursive function; that it   *)
(* has the values its equation says is shown by the least counterexample.  *)

Summable(latencies, p) ==
  Len(p) \in Nat /\ \A i \in 1 .. Len(p) : latencies[p[i]] \in Nat

\* f has the sums along the first m nodes of p.
SumsUp(latencies, p, m, f) ==
  /\ f[0] = 0
  /\ \A i \in 1 .. m : f[i] = f[i - 1] + latencies[p[i]]

HasSums(latencies, p, m) == \E f \in [0 .. m -> Nat] : SumsUp(latencies, p, m, f)

\* The recursion of Accumulated has a solution.
LEMMA AccumulatedExists ==
  ASSUME NEW latencies, NEW p, Summable(latencies, p), NEW m \in 0 .. Len(p)
  PROVE  HasSums(latencies, p, m)
<1> DEFINE Bad == {k \in 0 .. Len(p) : ~HasSums(latencies, p, k)}
<1>0. Len(p) \in Nat /\ Bad \in SUBSET Nat
  BY DEF Summable
<1>1. HasSums(latencies, p, 0)
  <2> DEFINE f == [i \in 0 .. 0 |-> 0]
  <2>1. f \in [0 .. 0 -> Nat] /\ f[0] = 0
    OBVIOUS
  <2> HIDE DEF f
  <2> QED BY <2>1 DEF HasSums, SumsUp
<1>2. ASSUME NEW k \in 1 .. Len(p), HasSums(latencies, p, k - 1) PROVE HasSums(latencies, p, k)
  <2>1. PICK f \in [0 .. (k - 1) -> Nat] : SumsUp(latencies, p, k - 1, f)
    BY <1>2 DEF HasSums
  <2>2. latencies[p[k]] \in Nat /\ k \in Nat /\ k - 1 \in 0 .. (k - 1) /\ f[k - 1] \in Nat
    BY <1>0 DEF Summable
  <2> DEFINE g == [i \in 0 .. k |-> IF i = k THEN f[k - 1] + latencies[p[k]] ELSE f[i]]
  <2>3. ASSUME NEW i \in 0 .. k PROVE g[i] = (IF i = k THEN f[k - 1] + latencies[p[k]] ELSE f[i]) /\ g[i] \in Nat
    BY <2>2
  <2>4. g \in [0 .. k -> Nat]
    BY <2>3
  <2> HIDE DEF g
  <2>5. ASSUME NEW i \in 1 .. k PROVE g[i] = g[i - 1] + latencies[p[i]]
    <3>1. i \in 0 .. k /\ i - 1 \in 0 .. k /\ i - 1 # k
      BY <2>2
    <3>2. CASE i = k
      BY <2>2, <2>3, <3>1, <3>2
    <3>3. CASE i # k
      <4>1. i \in 1 .. (k - 1)
        BY <2>2, <3>1, <3>3
      <4> QED BY <2>1, <2>3, <3>1, <3>3, <4>1 DEF SumsUp
    <3> QED BY <3>2, <3>3
  <2>6. g[0] = 0
    BY <2>1, <2>2, <2>3 DEF SumsUp
  <2> QED BY <2>4, <2>5, <2>6 DEF HasSums, SumsUp
<1>3. Bad = {}
  <2> SUFFICES ASSUME Bad # {} PROVE FALSE
    OBVIOUS
  <2>1. PICK k \in Bad : \A j \in Bad : k <= j
    <3> HIDE DEF Bad
    <3> QED BY <1>0, LeastElement
  <2>2. k \in 0 .. Len(p) /\ ~HasSums(latencies, p, k)
    OBVIOUS
  <2>3. k # 0
    BY <1>1, <2>2
  <2>4. k - 1 \in 0 .. Len(p) /\ k \in 1 .. Len(p)
    BY <1>0, <2>2, <2>3
  <2>5. HasSums(latencies, p, k - 1)
    BY <2>1, <2>4
  <2> QED BY <1>2, <2>2, <2>4, <2>5
<1> QED BY <1>3

LEMMA AccumulatedEquations ==
  ASSUME NEW latencies, NEW p, Summable(latencies, p)
  PROVE  LET f == Accumulated(latencies, p)
         IN  /\ f \in [0 .. Len(p) -> Nat] /\ f[0] = 0
             /\ \A i \in 1 .. Len(p) : f[i] = f[i - 1] + latencies[p[i]]
<1>0. Len(p) \in Nat
  BY DEF Summable
<1>1. PICK g \in [0 .. Len(p) -> Nat] : SumsUp(latencies, p, Len(p), g)
  BY <1>0, AccumulatedExists DEF HasSums
<1>2. g = [i \in 0 .. Len(p) |-> IF i = 0 THEN 0 ELSE g[i - 1] + latencies[p[i]]]
  <2>1. ASSUME NEW i \in 0 .. Len(p)
        PROVE g[i] = IF i = 0 THEN 0 ELSE g[i - 1] + latencies[p[i]]
    BY <1>0, <1>1 DEF SumsUp
  <2> QED BY <1>1, <2>1
<1> DEFINE f == Accumulated(latencies, p)
<1>3. f = [i \in 0 .. Len(p) |-> IF i = 0 THEN 0 ELSE f[i - 1] + latencies[p[i]]]
  BY <1>2, Zenon DEF Accumulated
<1> HIDE DEF f
<1>a. ASSUME NEW i \in 0 .. Len(p)
      PROVE  f[i] = IF i = 0 THEN 0 ELSE f[i - 1] + latencies[p[i]]
  BY <1>3, Zenon
<1>4. f[0] = 0 /\ \A i \in 1 .. Len(p) : f[i] = f[i - 1] + latencies[p[i]]
  <2>1. 0 \in 0 .. Len(p) /\ \A i \in 1 .. Len(p) : i \in 0 .. Len(p) /\ i # 0
    BY <1>0
  <2> QED BY <1>a, <2>1
<1>5. ASSUME NEW i \in 0 .. Len(p) PROVE f[i] = g[i]
  <2> DEFINE Bad == {k \in 0 .. Len(p) : f[k] # g[k]}
  <2> SUFFICES ASSUME Bad # {} PROVE FALSE
    OBVIOUS
  <2>1. PICK k \in Bad : \A j \in Bad : k <= j
    <3>1. Bad \in SUBSET Nat
      OBVIOUS
    <3> HIDE DEF Bad
    <3> QED BY <3>1, LeastElement
  <2>2. k # 0 /\ k \in 0 .. Len(p) /\ f[k] # g[k]
    BY <1>1, <1>4 DEF SumsUp
  <2>3. k - 1 \in 0 .. Len(p) /\ k \in 1 .. Len(p) /\ k - 1 < k
    BY <1>0, <2>2
  <2>4. f[k - 1] = g[k - 1]
    BY <2>1, <2>3
  <2> QED BY <1>1, <1>4, <2>2, <2>3, <2>4 DEF SumsUp
<1>6. f \in [0 .. Len(p) -> Nat]
  <2>1. f = [i \in 0 .. Len(p) |-> g[i]]
    BY <1>3, <1>a, <1>5, Zenon
  <2> QED BY <1>1, <2>1
<1> QED BY <1>4, <1>6 DEF f

\* What has accumulated depends on the nodes up to there only.
LEMMA AccumulatedPrefix ==
  ASSUME NEW latencies, NEW p, NEW q, Summable(latencies, p), Summable(latencies, q),
         Len(q) <= Len(p), \A i \in 1 .. Len(q) : q[i] = p[i], NEW m \in 0 .. Len(q)
  PROVE  Accumulated(latencies, q)[m] = Accumulated(latencies, p)[m]
<1> DEFINE f == Accumulated(latencies, p)
           g == Accumulated(latencies, q)
           Bad == {k \in 0 .. Len(q) : f[k] # g[k]}
<1>1. /\ f[0] = 0 /\ \A i \in 1 .. Len(p) : f[i] = f[i - 1] + latencies[p[i]]
      /\ g[0] = 0 /\ \A i \in 1 .. Len(q) : g[i] = g[i - 1] + latencies[q[i]]
  BY AccumulatedEquations
<1>2. Len(p) \in Nat /\ Len(q) \in Nat
  BY DEF Summable
<1> HIDE DEF f, g
<1> SUFFICES ASSUME Bad # {} PROVE FALSE
  BY DEF f, g
<1>3. PICK k \in Bad : \A j \in Bad : k <= j
  <2>1. Bad \in SUBSET Nat
    OBVIOUS
  <2> HIDE DEF Bad
  <2> QED BY <2>1, LeastElement
<1>4. k # 0 /\ k \in 0 .. Len(q) /\ f[k] # g[k]
  BY <1>1
<1>5. k - 1 \in 0 .. Len(q) /\ k \in 1 .. Len(q) /\ k \in 1 .. Len(p) /\ k - 1 < k
  BY <1>2, <1>4
<1>6. f[k - 1] = g[k - 1]
  BY <1>3, <1>5
<1> QED BY <1>1, <1>4, <1>5, <1>6

-----------------------------------------------------------------------------
(* Paths                                                                   *)

IsPath(p) ==
  /\ p \in Seq(Nodes) /\ Len(p) \in 1 .. n
  /\ \A i \in 1 .. (Len(p) - 1) : <<p[i], p[i + 1]>> \in connections

LEMMA PathFacts ==
  ASSUME nodes \in Seq(Latencies)
  PROVE  /\ \A p : p \in Paths <=> IsPath(p)
         /\ \A p : IsPath(p) => /\ Summable(nodes, p) /\ PathLatency(p) \in Nat
                                /\ p[Len(p)] \in Nodes
         /\ \A v \in Nodes : nodes[v] \in 0 .. WordMax
<1>1. n \in Nat /\ Nodes = 1 .. n
  BY GraphFinite DEF Nodes
<1>2. ASSUME NEW v \in Nodes PROVE nodes[v] \in 0 .. WordMax
  <2>1. v \in 1 .. Len(nodes)
    BY <1>1 DEF n
  <2>2. nodes[v] \in Latencies
    BY <2>1
  <2> QED BY <2>2, CompileAssumption
<1>3. ASSUME NEW p, p \in Paths PROVE IsPath(p)
  <2>1. PICK k \in Nodes : p \in [1 .. k -> Nodes]
    BY <1>3 DEF Paths
  <2>2. k \in Nat /\ k \in 1 .. n
    BY <1>1
  <2>3. p \in Seq(Nodes) /\ Len(p) = k
    BY <2>1, <2>2
  <2> QED BY <1>3, <2>2, <2>3 DEF Paths, IsPath
<1>4. ASSUME NEW p, IsPath(p) PROVE p \in Paths
  <2>1. p \in [1 .. Len(p) -> Nodes] /\ Len(p) \in Nodes
    BY <1>1, <1>4 DEF IsPath
  <2> QED BY <1>4, <2>1 DEF Paths, IsPath
<1>5. ASSUME NEW p, IsPath(p)
      PROVE  Summable(nodes, p) /\ PathLatency(p) \in Nat /\ p[Len(p)] \in Nodes
  <2>1. Len(p) \in Nat /\ Len(p) \in 1 .. Len(p) /\ Len(p) \in 0 .. Len(p)
    BY <1>1, <1>5 DEF IsPath
  <2>2. \A i \in 1 .. Len(p) : p[i] \in Nodes
    BY <1>5, <2>1 DEF IsPath
  <2>3. \A i \in 1 .. Len(p) : nodes[p[i]] \in Nat
    BY <1>2, <2>2, CompileAssumption
  <2>4. Summable(nodes, p)
    BY <2>1, <2>3 DEF Summable
  <2>5. Accumulated(nodes, p) \in [0 .. Len(p) -> Nat]
    BY <2>4, AccumulatedEquations
  <2> QED BY <2>1, <2>2, <2>4, <2>5 DEF PathLatency
<1> QED BY <1>2, <1>3, <1>4, <1>5

\* A path of one node.
LEMMA PathStarts ==
  ASSUME nodes \in Seq(Latencies), NEW v \in Nodes
  PROVE  /\ IsPath(<<v>>) /\ PathLatency(<<v>>) = nodes[v]
         /\ Len(<<v>>) = 1 /\ <<v>>[Len(<<v>>)] = v
<1>1. n \in Nat /\ Nodes = 1 .. n
  BY GraphFinite DEF Nodes
<1> DEFINE p == <<v>>
<1>2. p \in Seq(Nodes) /\ Len(p) = 1 /\ p[1] = v
  OBVIOUS
<1> HIDE DEF p
<1>3. IsPath(p)
  BY <1>1, <1>2 DEF IsPath
<1>4. Summable(nodes, p) /\ nodes[v] \in Nat
  BY <1>3, PathFacts, CompileAssumption
<1>5. 1 \in 1 .. Len(p) /\ 1 - 1 = 0
  BY <1>2
<1> DEFINE f == Accumulated(nodes, p)
<1>6. f[0] = 0 /\ \A i \in 1 .. Len(p) : f[i] = f[i - 1] + nodes[p[i]]
  BY <1>4, AccumulatedEquations
<1> HIDE DEF f
<1>7. f[1] = nodes[v]
  BY <1>2, <1>4, <1>5, <1>6
<1>8. PathLatency(p) = nodes[v]
  BY <1>2, <1>7 DEF PathLatency, f
<1> QED BY <1>2, <1>3, <1>8 DEF p

\* p is q and one node more.
LEMMA PathLatencyStep ==
  ASSUME nodes \in Seq(Latencies), NEW p, NEW q, IsPath(p), IsPath(q),
         Len(p) = Len(q) + 1, \A i \in 1 .. Len(q) : q[i] = p[i]
  PROVE  PathLatency(p) = PathLatency(q) + nodes[p[Len(p)]]
<1>1. Summable(nodes, p) /\ Summable(nodes, q)
  BY PathFacts
<1>2. /\ Len(p) \in Nat /\ Len(q) \in Nat /\ Len(p) \in 1 .. Len(p)
      /\ Len(p) - 1 = Len(q) /\ Len(q) \in 0 .. Len(q) /\ Len(q) <= Len(p)
  BY <1>1 DEF Summable, IsPath
<1>3. Accumulated(nodes, q)[Len(q)] = Accumulated(nodes, p)[Len(q)]
  BY <1>1, <1>2, AccumulatedPrefix
<1>4. Accumulated(nodes, p)[Len(p)] = Accumulated(nodes, p)[Len(q)] + nodes[p[Len(p)]]
  BY <1>1, <1>2, AccumulatedEquations
<1> QED BY <1>3, <1>4 DEF PathLatency

LEMMA PathExtended ==
  ASSUME nodes \in Seq(Latencies), NEW q, IsPath(q), Len(q) < n, NEW v \in Nodes,
         <<q[Len(q)], v>> \in connections
  PROVE  \E p : /\ IsPath(p) /\ Len(p) = Len(q) + 1 /\ p[Len(p)] = v
                /\ PathLatency(p) = PathLatency(q) + nodes[v]
<1> DEFINE p == Append(q, v)
<1>1. /\ p \in Seq(Nodes) /\ Len(p) = Len(q) + 1 /\ p[Len(p)] = v
      /\ \A i \in 1 .. Len(q) : p[i] = q[i]
  BY Appended DEF IsPath
<1>2. n \in Nat /\ Len(q) \in Nat /\ Len(q) \in 1 .. n
  BY GraphFinite DEF IsPath
<1> HIDE DEF p
<1>3. ASSUME NEW i \in 1 .. (Len(p) - 1) PROVE <<p[i], p[i + 1]>> \in connections
  <2>1. CASE i = Len(q)
    BY <1>1, <1>2, <2>1
  <2>2. CASE i # Len(q)
    <3>1. i \in 1 .. (Len(q) - 1) /\ i \in 1 .. Len(q) /\ i + 1 \in 1 .. Len(q)
      BY <1>1, <1>2, <2>2
    <3> QED BY <1>1, <3>1 DEF IsPath
  <2> QED BY <2>1, <2>2
<1>4. IsPath(p)
  BY <1>1, <1>2, <1>3 DEF IsPath
<1> QED BY <1>1, <1>4, PathLatencyStep

LEMMA PathShortened ==
  ASSUME nodes \in Seq(Latencies), NEW p, IsPath(p), Len(p) # 1
  PROVE  \E q : /\ IsPath(q) /\ <<q[Len(q)], p[Len(p)]>> \in connections
                /\ PathLatency(p) = PathLatency(q) + nodes[p[Len(p)]]
<1> DEFINE m == Len(p) - 1
           q == [i \in 1 .. m |-> p[i]]
<1>1. n \in Nat /\ Len(p) \in Nat /\ m \in Nat /\ m \in 1 .. n /\ m + 1 = Len(p)
      /\ m \in 1 .. (Len(p) - 1)
  <2>1. n \in Nat /\ Len(p) \in 1 .. n
    BY GraphFinite DEF IsPath
  <2>2. ASSUME NEW l \in 1 .. n, l # 1
        PROVE  l \in Nat /\ l - 1 \in Nat /\ l - 1 \in 1 .. n /\ (l - 1) + 1 = l /\ l - 1 \in 1 .. (l - 1)
    BY <2>1, <2>2
  <2> QED BY <2>1, <2>2, Zenon
<1>2. \A i \in 1 .. m : p[i] \in Nodes
  BY <1>1 DEF IsPath
<1>3. q \in Seq(Nodes) /\ Len(q) = m /\ \A i \in 1 .. m : q[i] = p[i]
  BY <1>1, <1>2
<1> HIDE DEF q
<1>4. ASSUME NEW i \in 1 .. (Len(q) - 1) PROVE <<q[i], q[i + 1]>> \in connections
  <2>1. i \in 1 .. m /\ i + 1 \in 1 .. m /\ i \in 1 .. (Len(p) - 1)
    BY <1>1, <1>3
  <2> QED BY <1>3, <2>1 DEF IsPath
<1>5. IsPath(q)
  BY <1>1, <1>3, <1>4 DEF IsPath
<1>6. <<p[m], p[m + 1]>> \in connections
  BY <1>1 DEF IsPath
<1>7. q[Len(q)] = p[m]
  BY <1>1, <1>3
<1>8. PathLatency(p) = PathLatency(q) + nodes[p[Len(p)]]
  BY <1>1, <1>3, <1>5, PathLatencyStep
<1> QED BY <1>1, <1>5, <1>6, <1>7, <1>8

\* Each node adds a machine word at most.
LEMMA PathBounded ==
  ASSUME nodes \in Seq(Latencies), NEW p, IsPath(p)
  PROVE  PathLatency(p) <= n * WordMax
<1> DEFINE f == Accumulated(nodes, p)
           Bad == {k \in 0 .. Len(p) : ~(f[k] <= k * WordMax)}
<1>1. Summable(nodes, p) /\ \A v \in Nodes : nodes[v] \in 0 .. WordMax
  BY PathFacts
<1>2. /\ f \in [0 .. Len(p) -> Nat] /\ f[0] = 0
      /\ \A i \in 1 .. Len(p) : f[i] = f[i - 1] + nodes[p[i]]
  BY <1>1, AccumulatedEquations
<1>3. n \in Nat /\ Len(p) \in Nat /\ Len(p) <= n /\ WordMax \in Nat
  BY GraphFinite, CompileAssumption DEF IsPath
<1> HIDE DEF f
<1>4. Bad = {}
  <2> SUFFICES ASSUME Bad # {} PROVE FALSE
    OBVIOUS
  <2>1. PICK k \in Bad : \A j \in Bad : k <= j
    <3>1. Bad \in SUBSET Nat
      OBVIOUS
    <3> HIDE DEF Bad
    <3> QED BY <3>1, LeastElement
  <2>2. k \in 0 .. Len(p) /\ ~(f[k] <= k * WordMax)
    OBVIOUS
  <2>3. k # 0
    BY <1>2, <1>3, <2>2
  <2>4. k - 1 \in 0 .. Len(p) /\ k \in 1 .. Len(p) /\ k - 1 < k /\ k \in Nat
    BY <1>3, <2>2, <2>3
  <2>5. f[k - 1] <= (k - 1) * WordMax
    BY <2>1, <2>4
  <2>6. p[k] \in Nodes
    BY <2>4 DEF IsPath
  <2>7. nodes[p[k]] \in Nat /\ nodes[p[k]] <= WordMax /\ f[k] = f[k - 1] + nodes[p[k]]
    BY <1>1, <1>2, <1>3, <2>4, <2>6
  <2> DEFINE a == (k - 1) * WordMax
             c == k * WordMax
  <2>8. a + WordMax = c /\ a \in Int /\ c \in Int /\ f[k - 1] \in Nat
    BY <1>2, <1>3, <2>4
  <2>9. f[k - 1] <= a /\ ~(f[k] <= c)
    BY <2>2, <2>5
  <2> HIDE DEF a, c, Bad
  <2> QED BY <1>3, <2>7, <2>8, <2>9
<1>5. f[Len(p)] <= Len(p) * WordMax /\ f[Len(p)] \in Nat
  <2>1. Len(p) \in 0 .. Len(p)
    BY <1>3
  <2> QED BY <1>2, <1>4, <2>1
<1>6. Len(p) * WordMax <= n * WordMax /\ Len(p) * WordMax \in Nat /\ n * WordMax \in Nat
  <2>1. (n - Len(p)) * WordMax >= 0
    BY <1>3
  <2>2. (n - Len(p)) * WordMax = n * WordMax - Len(p) * WordMax
    BY <1>3
  <2> QED BY <1>3, <2>1, <2>2
<1> QED BY <1>5, <1>6 DEF f, PathLatency

-----------------------------------------------------------------------------
(* Maxima and saturation                                                   *)

\* Max of numbers that have a bound.
LEMMA MaxFacts ==
  ASSUME NEW S \in SUBSET Nat, S # {}, NEW b \in Nat, \A x \in S : x <= b
  PROVE  Max(S) \in S /\ \A y \in S : y <= Max(S)
<1> DEFINE Above == {c \in Nat : \A x \in S : x <= c}
<1>1. PICK c \in Above : \A d \in Above : c <= d
  <2>1. Above \in SUBSET Nat /\ b \in Above
    OBVIOUS
  <2> HIDE DEF Above
  <2> QED BY <2>1, LeastElement
<1>2. c \in S
  <2> SUFFICES ASSUME c \notin S PROVE FALSE
    OBVIOUS
  <2>1. PICK x \in S : TRUE
    OBVIOUS
  <2>2. \A y \in S : y <= c - 1
    BY <1>1
  <2>3. c - 1 \in Nat
    BY <1>1, <2>1, <2>2
  <2> QED BY <1>1, <2>2, <2>3
<1>3. \E x \in S : \A y \in S : x >= y
  BY <1>1, <1>2
<1>4. Max(S) \in S /\ \A y \in S : Max(S) >= y
  BY <1>3, Zenon DEF Max
<1> QED BY <1>4

Cut(x) == Min({WordMax, x})

LEMMA CutFacts ==
  ASSUME NEW x \in Nat
  PROVE  Cut(x) = IF x <= WordMax THEN x ELSE WordMax
<1>1. \E y \in {WordMax, x} : \A z \in {WordMax, x} : y =< z
  BY CompileAssumption
<1>2. Cut(x) \in {WordMax, x} /\ \A z \in {WordMax, x} : Cut(x) =< z
  BY <1>1 DEF Min, Cut
<1> QED BY <1>2, CompileAssumption

-----------------------------------------------------------------------------
(* The loop of compile over the order, and the sinks                       *)

\* The loop over the order has found the latency of the longest path to its
\* i-th node, up to saturation; there is one of i nodes at most.
Longest(i) ==
  LET v == order[i]
  IN  /\ \A p \in Paths : p[Len(p)] = v => Cut(PathLatency(p)) <= path_latency[v]
      /\ \E p \in Paths :
           p[Len(p)] = v /\ Len(p) <= i /\ Cut(PathLatency(p)) = path_latency[v]

LatencyInv ==
  /\ phase \in {"build", "kahn"} => pos = 1
  /\ phase \notin {"build", "Empty"} => n > 0
  /\ phase = "latency" =>
       /\ pos \in Nat \ {0}
       /\ path_latency \in [Nodes -> 0 .. WordMax]
       /\ \A i \in 1 .. (pos - 1) : i <= n => Longest(i)
  /\ LatencyIsLongestPath

LEMMA PathsStay ==
  ASSUME UNCHANGED <<nodes, connections>>
  PROVE  /\ Paths' = Paths /\ Nodes' = Nodes /\ n' = n
         /\ \A p : PathLatency(p)' = PathLatency(p)
<1>1. Nodes' = Nodes /\ n' = n
  BY GraphStays
<1>2. Paths' = Paths
  BY <1>1 DEF Paths
<1>3. ASSUME NEW p PROVE PathLatency(p)' = PathLatency(p)
  BY DEF PathLatency
<1> QED BY <1>1, <1>2, <1>3

MaxOver(f, I) == MaxOrZero({f[u] : u \in I})

\* Max of machine words, 0 of none.
LEMMA MaxOrZeroFacts ==
  ASSUME NEW I, NEW f, \A u \in I : f[u] \in 0 .. WordMax
  PROVE  /\ MaxOver(f, I) \in 0 .. WordMax
         /\ \A u \in I : f[u] <= MaxOver(f, I)
         /\ IF I = {} THEN MaxOver(f, I) = 0 ELSE \E u \in I : f[u] = MaxOver(f, I)
<1> DEFINE S == {f[u] : u \in I}
<1>1. S \in SUBSET Nat /\ \A x \in S : x <= WordMax
  BY CompileAssumption
<1>2. CASE I = {}
  <2>1. MaxOver(f, I) = 0
    BY <1>2 DEF MaxOrZero, MaxOver
  <2> QED BY <1>2, <2>1, CompileAssumption
<1>3. CASE I # {}
  <2>1. S # {}
    BY <1>3
  <2> HIDE DEF S
  <2>2. Max(S) \in S /\ \A y \in S : y <= Max(S)
    BY <1>1, <2>1, MaxFacts, CompileAssumption
  <2>3. MaxOver(f, I) = Max(S)
    BY <2>1 DEF MaxOrZero, MaxOver, S
  <2> QED BY <1>3, <2>2, <2>3 DEF S
<1> QED BY <1>2, <1>3

LEMMA SaturatingFacts ==
  ASSUME NEW a \in Nat, NEW b \in 0 .. WordMax
  PROVE  /\ SaturatingAdd(Cut(a), b) = Cut(a + b)
         /\ SaturatingAdd(Cut(a), b) \in 0 .. WordMax
         /\ SaturatingAdd(0, b) = Cut(b)
         /\ \A c \in 0 .. WordMax : Cut(a) <= c => Cut(a + b) <= SaturatingAdd(c, b)
         /\ \A c \in 0 .. WordMax : Cut(b) <= SaturatingAdd(c, b) /\ SaturatingAdd(c, b) \in 0 .. WordMax
<1>1. WordMax \in Nat /\ a + b \in Nat /\ b \in Nat
  BY CompileAssumption
<1>2. /\ Cut(a) = IF a <= WordMax THEN a ELSE WordMax
      /\ Cut(a + b) = IF a + b <= WordMax THEN a + b ELSE WordMax
      /\ Cut(b) = IF b <= WordMax THEN b ELSE WordMax
  BY <1>1, CutFacts
<1> QED BY <1>1, <1>2 DEF SaturatingAdd

LEMMA LatencyNodeStep ==
  ASSUME CompileInv, LatencyInv, LatencyStep
  PROVE  LatencyInv'
<1> DEFINE v == order[pos]
           input == MaxOver(path_latency, predecessors(v))
<1>1. /\ phase = "latency" /\ phase' = "latency" /\ pos <= n /\ pos' = pos + 1
      /\ path_latency' = [path_latency EXCEPT ![v] = SaturatingAdd(input, nodes[v])]
      /\ UNCHANGED <<nodes, connections, order>>
  BY DEF LatencyStep, builderVars, kahnVars, MaxOver
<1>2. /\ nodes \in Seq(Latencies) /\ n \in Nat /\ Nodes = 1 .. n
      /\ Len(order) = n /\ order \in Seq(Nodes) /\ OrderRespectsEdges
  BY <1>1, GraphFinite DEF CompileInv, Accepted, Nodes
<1>3. /\ pos \in Nat \ {0} /\ path_latency \in [Nodes -> 0 .. WordMax]
      /\ \A i \in 1 .. (pos - 1) : Longest(i)
      /\ n > 0
  BY <1>1, <1>2 DEF LatencyInv
<1>4. pos \in 1 .. Len(order) /\ v \in Nodes
  BY <1>1, <1>2, <1>3
<1> HIDE DEF v
<1>5. nodes[v] \in 0 .. WordMax
  BY <1>2, <1>4, PathFacts
<1>6. ASSUME NEW u \in predecessors(v)
      PROVE  /\ u \in Nodes /\ <<u, v>> \in connections
             /\ \E i \in 1 .. (pos - 1) : order[i] = u
  BY <1>2, <1>4 DEF OrderRespectsEdges, predecessors, v
<1>7. /\ input \in 0 .. WordMax
      /\ \A u \in predecessors(v) : path_latency[u] <= input
      /\ IF predecessors(v) = {} THEN input = 0
                                 ELSE \E u \in predecessors(v) : path_latency[u] = input
  <2>1. \A u \in predecessors(v) : path_latency[u] \in 0 .. WordMax
    BY <1>3, <1>6
  <2> QED BY <2>1, MaxOrZeroFacts
<1> HIDE DEF input
<1>8. /\ path_latency'[v] = SaturatingAdd(input, nodes[v])
      /\ path_latency' \in [Nodes -> 0 .. WordMax]
      /\ \A u \in Nodes : u # v => path_latency'[u] = path_latency[u]
  <2>1. SaturatingAdd(input, nodes[v]) \in 0 .. WordMax
    BY <1>5, <1>7, SaturatingFacts
  <2> QED BY <1>1, <1>3, <1>4, <2>1
<1>9. ASSUME NEW p \in Paths, p[Len(p)] = v PROVE Cut(PathLatency(p)) <= path_latency'[v]
  <2>1. IsPath(p)
    BY <1>2, PathFacts
  <2>2. CASE Len(p) = 1
    <3>1. p = <<v>>
      BY <1>9, <2>1, <2>2 DEF IsPath
    <3>2. PathLatency(p) = nodes[v]
      BY <1>2, <1>4, <3>1, PathStarts
    <3> QED BY <1>5, <1>7, <1>8, <3>2, SaturatingFacts
  <2>3. CASE Len(p) # 1
    <3>1. PICK q : /\ IsPath(q) /\ <<q[Len(q)], v>> \in connections
                   /\ PathLatency(p) = PathLatency(q) + nodes[v]
      BY <1>2, <1>9, <2>1, <2>3, PathShortened
    <3>2. q \in Paths /\ PathLatency(q) \in Nat /\ q[Len(q)] \in Nodes
      BY <1>2, <3>1, PathFacts
    <3>3. q[Len(q)] \in predecessors(v)
      BY <3>1, <3>2 DEF predecessors
    <3>4. PICK i \in 1 .. (pos - 1) : order[i] = q[Len(q)]
      BY <1>6, <3>3
    <3>5. Cut(PathLatency(q)) <= path_latency[q[Len(q)]]
      BY <1>3, <3>2, <3>4 DEF Longest
    <3>6. path_latency[q[Len(q)]] <= input /\ path_latency[q[Len(q)]] \in 0 .. WordMax
      BY <1>3, <1>7, <3>2, <3>3
    <3>7. Cut(PathLatency(q)) <= input
      <4>1. Cut(PathLatency(q)) \in Int
        BY <3>2, CutFacts, CompileAssumption
      <4> QED BY <1>7, <3>5, <3>6, <4>1
    <3> QED BY <1>5, <1>7, <1>8, <3>1, <3>2, <3>7, SaturatingFacts
  <2> QED BY <2>2, <2>3
<1>10. \E p \in Paths : p[Len(p)] = v /\ Len(p) <= pos /\ Cut(PathLatency(p)) = path_latency'[v]
  <2>1. CASE predecessors(v) = {}
    <3>1. /\ IsPath(<<v>>) /\ PathLatency(<<v>>) = nodes[v]
          /\ Len(<<v>>) = 1 /\ <<v>>[Len(<<v>>)] = v
      BY <1>2, <1>4, PathStarts
    <3>2. Cut(nodes[v]) = path_latency'[v]
      BY <1>5, <1>7, <1>8, <2>1, SaturatingFacts
    <3>3. <<v>> \in Paths /\ Len(<<v>>) <= pos
      BY <1>2, <1>3, <3>1, PathFacts
    <3> QED BY <3>1, <3>2, <3>3
  <2>2. CASE predecessors(v) # {}
    <3>1. PICK u \in predecessors(v) : path_latency[u] = input
      BY <1>7, <2>2
    <3>2. PICK i \in 1 .. (pos - 1) : order[i] = u
      BY <1>6
    <3>3. PICK q \in Paths : q[Len(q)] = u /\ Len(q) <= i /\ Cut(PathLatency(q)) = input
      BY <1>3, <3>1, <3>2 DEF Longest
    <3>4. IsPath(q) /\ PathLatency(q) \in Nat
      BY <1>2, PathFacts
    <3>5. Len(q) < n /\ Len(q) + 1 <= pos
      <4>1. Len(q) \in Int
        BY <1>2, <3>4 DEF IsPath
      <4> QED BY <1>1, <1>2, <1>3, <3>2, <3>3, <4>1
    <3>6. <<q[Len(q)], v>> \in connections
      BY <1>6, <3>3
    <3>7. PICK p : /\ IsPath(p) /\ Len(p) = Len(q) + 1 /\ p[Len(p)] = v
                   /\ PathLatency(p) = PathLatency(q) + nodes[v]
      BY <1>2, <1>4, <3>4, <3>5, <3>6, PathExtended
    <3>8. Cut(PathLatency(p)) = path_latency'[v]
      BY <1>5, <1>8, <3>3, <3>4, <3>7, SaturatingFacts
    <3>9. p \in Paths
      BY <1>2, <3>7, PathFacts
    <3> QED BY <3>5, <3>7, <3>8, <3>9
  <2> QED BY <2>1, <2>2
<1>11. Paths' = Paths /\ Nodes' = Nodes /\ n' = n /\ \A p : PathLatency(p)' = PathLatency(p)
  BY <1>1, PathsStay
<1>12. ASSUME NEW i \in 1 .. (pos' - 1) PROVE Longest(i)'
  <2>1. i \in 1 .. pos /\ i \in 1 .. Len(order)
    BY <1>1, <1>3, <1>4
  <2>2. CASE i = pos
    BY <1>1, <1>9, <1>10, <1>11, <2>2 DEF Longest, v
  <2>3. CASE i # pos
    <3>1. i \in 1 .. (pos - 1) /\ order[i] \in Nodes
      BY <1>2, <1>3, <2>1, <2>3
    <3>2. order[i] # v
      BY <1>2, <1>4, <2>1, <2>3 DEF OrderRespectsEdges, v
    <3>3. Longest(i) /\ path_latency'[order[i]] = path_latency[order[i]]
      BY <1>3, <1>8, <3>1, <3>2
    <3> QED BY <1>1, <1>11, <3>3 DEF Longest
  <2> QED BY <2>2, <2>3
<1>13. LatencyIsLongestPath'
  BY <1>1 DEF LatencyIsLongestPath, Compiled
<1>14. pos' \in Nat \ {0} /\ path_latency' \in [Nodes' -> 0 .. WordMax]
  BY <1>1, <1>3, <1>8, <1>11
<1> QED BY <1>1, <1>3, <1>11, <1>12, <1>13, <1>14 DEF LatencyInv

\* When the loop over the order has ended.
LoopEnded ==
  /\ nodes \in Seq(Latencies) /\ n > 0
  /\ order \in Seq(Nodes) /\ Len(order) = n /\ Elements(order) = Nodes /\ OrderRespectsEdges
  /\ path_latency \in [Nodes -> 0 .. WordMax]
  /\ \A i \in 1 .. n : Longest(i)

\* Latency does not decrease along an edge.
LEMMA SuccessorAbove ==
  ASSUME LoopEnded, NEW i \in 1 .. n, NEW w \in adjacency(order[i])
  PROVE  \E j \in (i + 1) .. n : order[j] = w /\ path_latency[order[i]] <= path_latency[w]
<1>1. n \in Nat /\ Nodes = 1 .. n /\ nodes \in Seq(Latencies) /\ Len(order) = n
  BY GraphFinite DEF LoopEnded, Nodes
<1>2. w \in Nodes /\ <<order[i], w>> \in connections /\ order[i] \in Nodes
  BY <1>1 DEF adjacency, LoopEnded
<1>3. PICK j \in 1 .. n : order[j] = w
  BY <1>1, <1>2 DEF LoopEnded, Elements
<1>4. order[i] \in predecessors(order[j])
  BY <1>2, <1>3 DEF predecessors
<1>5. PICK k \in 1 .. (j - 1) : order[k] = order[i]
  BY <1>1, <1>4 DEF LoopEnded, OrderRespectsEdges
<1>6. k = i
  <2>1. k \in 1 .. Len(order) /\ i \in 1 .. Len(order)
    BY <1>1, <1>5
  <2> QED BY <1>5, <2>1 DEF LoopEnded, OrderRespectsEdges
<1>7. j \in (i + 1) .. n /\ i < n
  BY <1>1, <1>5, <1>6
<1>8. PICK q \in Paths : q[Len(q)] = order[i] /\ Len(q) <= i
                         /\ Cut(PathLatency(q)) = path_latency[order[i]]
  BY DEF LoopEnded, Longest
<1>9. IsPath(q) /\ PathLatency(q) \in Nat /\ nodes[w] \in 0 .. WordMax
  BY <1>1, <1>2, PathFacts
<1>10. Len(q) < n
  <2>1. Len(q) \in Int
    BY <1>1, <1>9 DEF IsPath
  <2> QED BY <1>1, <1>7, <1>8, <2>1
<1>11. PICK p : IsPath(p) /\ p[Len(p)] = w /\ PathLatency(p) = PathLatency(q) + nodes[w]
  BY <1>1, <1>2, <1>8, <1>9, <1>10, PathExtended
<1>12. Cut(PathLatency(p)) <= path_latency[w]
  <2>1. p \in Paths
    BY <1>1, <1>11, PathFacts
  <2> QED BY <1>3, <1>11, <2>1 DEF LoopEnded, Longest
<1>13. path_latency[order[i]] <= path_latency[w]
  <2>1. PathLatency(q) + nodes[w] \in Nat /\ nodes[w] \in Nat /\ WordMax \in Nat
    BY <1>9, CompileAssumption
  <2>2. /\ Cut(PathLatency(q)) \in Nat /\ Cut(PathLatency(p)) \in Nat
        /\ Cut(PathLatency(q)) <= Cut(PathLatency(p))
    BY <1>9, <1>11, <2>1, CutFacts
  <2>3. path_latency[w] \in Int
    BY <1>2, CompileAssumption DEF LoopEnded
  <2> QED BY <1>8, <1>12, <2>2, <2>3
<1> QED BY <1>3, <1>7, <1>13

\* Every node leads to a sink, whose latency is at least as large.
LEMMA SinkAbove ==
  ASSUME LoopEnded, NEW i \in 1 .. n
  PROVE  \E s \in sinks : path_latency[order[i]] <= path_latency[s]
<1> DEFINE Below(j) == \E s \in sinks : path_latency[order[j]] <= path_latency[s]
           Bad == {k \in 0 .. (n - 1) : ~Below(n - k)}
<1>1. n \in Nat /\ Nodes = 1 .. n /\ nodes \in Seq(Latencies) /\ Len(order) = n
  BY GraphFinite DEF LoopEnded, Nodes
<1>2. \A j \in 1 .. n : order[j] \in Nodes /\ path_latency[order[j]] \in Int
  BY <1>1, CompileAssumption DEF LoopEnded
<1>3. sinks \subseteq Nodes /\ \A s \in sinks : path_latency[s] \in Int
  BY CompileAssumption DEF sinks, LoopEnded
<1> HIDE DEF Below
<1>4. Bad = {}
  <2> SUFFICES ASSUME Bad # {} PROVE FALSE
    OBVIOUS
  <2>1. PICK k \in Bad : \A l \in Bad : k <= l
    <3>1. Bad \in SUBSET Nat
      BY <1>1
    <3> HIDE DEF Bad
    <3> QED BY <3>1, LeastElement
  <2>2. k \in 0 .. (n - 1) /\ ~Below(n - k) /\ n - k \in 1 .. n
    BY <1>1
  <2>3. order[n - k] \notin sinks
    <3> SUFFICES ASSUME order[n - k] \in sinks PROVE Below(n - k)
      BY <2>2
    <3> QED BY <1>2, <2>2 DEF Below
  <2>4. PICK w \in adjacency(order[n - k]) : TRUE
    BY <1>2, <2>2, <2>3 DEF sinks
  <2>5. PICK j \in ((n - k) + 1) .. n :
          order[j] = w /\ path_latency[order[n - k]] <= path_latency[w]
    BY <2>2, SuccessorAbove
  <2>6. n - j \in 0 .. (n - 1) /\ n - (n - j) = j /\ n - j < k /\ j \in 1 .. n
    BY <1>1, <2>2
  <2>7. Below(j)
    BY <2>1, <2>2, <2>6
  <2>8. Below(n - k)
    BY <1>2, <1>3, <2>2, <2>5, <2>6, <2>7 DEF Below
  <2> QED BY <2>2, <2>8
<1>5. n - i \in 0 .. (n - 1) /\ n - (n - i) = i
  BY <1>1
<1>6. Below(i)
  BY <1>4, <1>5
<1> QED BY <1>6 DEF Below

LEMMA LatencyEndStep ==
  ASSUME CompileInv, LatencyInv, CompileEnd
  PROVE  LatencyInv'
<1> DEFINE Sums == {PathLatency(p) : p \in Paths}
           total == MaxOver(path_latency, sinks)
<1>1. /\ phase = "latency" /\ phase' \in {"BufferSizeOverflow", "ready"} /\ pos > n
      /\ total_latency' = total
      /\ UNCHANGED <<nodes, connections>>
  BY DEF CompileEnd, builderVars, TotalLatency, MaxOver
<1>2. nodes \in Seq(Latencies) /\ n \in Nat /\ n > 0 /\ pos \in Nat
  BY <1>1, GraphFinite DEF CompileInv, LatencyInv
<1>3. LoopEnded
  <2>1. \A i \in 1 .. n : i \in 1 .. (pos - 1) /\ i <= n
    BY <1>1, <1>2
  <2> QED BY <1>1, <1>2, <2>1 DEF LoopEnded, CompileInv, Accepted, LatencyInv
<1>4. \A v \in Nodes : path_latency[v] \in 0 .. WordMax
  BY <1>3 DEF LoopEnded
<1>5. \A v \in Nodes : \E i \in 1 .. n : order[i] = v
  BY <1>3 DEF LoopEnded, Elements
<1>6. sinks \subseteq Nodes /\ sinks # {}
  <2>1. 1 \in 1 .. n
    BY <1>2
  <2> QED BY <1>3, <2>1, SinkAbove DEF sinks
<1>7. /\ total \in 0 .. WordMax
      /\ \A s \in sinks : path_latency[s] <= total
      /\ \E s \in sinks : path_latency[s] = total
  <2>1. \A s \in sinks : path_latency[s] \in 0 .. WordMax
    BY <1>4, <1>6
  <2> QED BY <1>6, <2>1, MaxOrZeroFacts
<1> HIDE DEF total
<1>8. \A p \in Paths : PathLatency(p) \in Nat /\ IsPath(p) /\ PathLatency(p) <= n * WordMax
  BY <1>2, PathFacts, PathBounded
<1>9. PICK q \in Paths : Cut(PathLatency(q)) = total
  <2>1. PICK s \in sinks : path_latency[s] = total
    BY <1>7
  <2>2. PICK i \in 1 .. n : order[i] = s
    BY <1>5, <1>6
  <2> QED BY <1>3, <2>1, <2>2 DEF LoopEnded, Longest
<1>10. ASSUME NEW p \in Paths PROVE Cut(PathLatency(p)) <= total
  <2>1. p[Len(p)] \in Nodes
    BY <1>2, <1>8, PathFacts
  <2>2. PICK i \in 1 .. n : order[i] = p[Len(p)]
    BY <1>5, <2>1
  <2>3. Cut(PathLatency(p)) <= path_latency[order[i]]
    BY <1>3, <2>2 DEF LoopEnded, Longest
  <2>4. PICK s \in sinks : path_latency[order[i]] <= path_latency[s]
    BY <1>3, SinkAbove
  <2>5. path_latency[s] <= total /\ path_latency[s] \in Int /\ total \in Int
    BY <1>4, <1>6, <1>7, CompileAssumption
  <2>6. Cut(PathLatency(p)) \in Int /\ path_latency[order[i]] \in Int
    BY <1>4, <1>8, <2>1, <2>2, CutFacts, CompileAssumption
  <2> QED BY <2>3, <2>4, <2>5, <2>6
<1>11. Max(Sums) \in Sums /\ \A y \in Sums : y <= Max(Sums)
  <2>1. Sums \in SUBSET Nat /\ PathLatency(q) \in Sums /\ \A y \in Sums : y <= n * WordMax
    BY <1>8
  <2>2. n * WordMax \in Nat
    BY <1>2, CompileAssumption
  <2> HIDE DEF Sums
  <2> QED BY <2>1, <2>2, MaxFacts
<1>12. PICK p \in Paths : Max(Sums) = PathLatency(p)
  BY <1>11
<1>13. PathLatency(q) <= PathLatency(p)
  BY <1>11, <1>12
<1>14. total = Cut(PathLatency(p))
  <2>1. PathLatency(p) \in Nat /\ PathLatency(q) \in Nat /\ WordMax \in Nat
    BY <1>8, CompileAssumption
  <2> DEFINE a == PathLatency(p)
             b == PathLatency(q)
  <2>2. /\ Cut(a) = IF a <= WordMax THEN a ELSE WordMax
        /\ Cut(b) = IF b <= WordMax THEN b ELSE WordMax
    BY <2>1, CutFacts
  <2>3. Cut(a) <= total /\ Cut(b) = total /\ b <= a /\ total \in Int
    BY <1>7, <1>9, <1>10, <1>13
  <2> HIDE DEF a, b
  <2>4. a \in Nat /\ b \in Nat
    BY <2>1 DEF a, b
  <2> QED BY <2>1, <2>2, <2>3, <2>4 DEF a
<1>15. total = Min({WordMax, Max(Sums)})
  BY <1>12, <1>14 DEF Cut
<1>16. Paths' = Paths /\ n' = n /\ \A r : PathLatency(r)' = PathLatency(r)
  BY <1>1, PathsStay
<1>17. {PathLatency(r)' : r \in Paths'} = Sums
  BY <1>16
<1>18. LatencyIsLongestPath'
  <2> HIDE DEF Sums
  <2> QED BY <1>1, <1>15, <1>17 DEF LatencyIsLongestPath
<1> QED BY <1>1, <1>2, <1>16, <1>18 DEF LatencyInv

-----------------------------------------------------------------------------
(* Every step keeps the invariant of the latency                           *)

\* Before the graph is compiled there is no latency to speak of.
LEMMA LatencyBuild ==
  ASSUME phase' \in {"build", "Empty"}, phase' = "build" => pos' = 1
  PROVE  LatencyInv'
BY DEF LatencyInv, LatencyIsLongestPath, Compiled

\* Nothing that the latency depends on changes any more.
LEMMA LatencyStays ==
  ASSUME LatencyInv, Compiled, Compiled', UNCHANGED <<nodes, connections, total_latency>>
  PROVE  LatencyInv'
<1>1. n' = n /\ Paths' = Paths /\ \A p : PathLatency(p)' = PathLatency(p)
  BY PathsStay
<1>2. {PathLatency(p)' : p \in Paths'} = {PathLatency(p) : p \in Paths}
  BY <1>1
<1>3. LatencyIsLongestPath'
  BY <1>2 DEF LatencyInv, LatencyIsLongestPath
<1> QED BY <1>1, <1>3 DEF LatencyInv, Compiled

LEMMA LatencyNext ==
  ASSUME GInv, LatencyInv, [Next]_vars
  PROVE  LatencyInv'
<1>0. CompileInv
  BY DEF GInv
<1>1. ASSUME NEW l \in Latencies, AddNode(l) PROVE LatencyInv'
  <2>1. phase' = "build" /\ pos' = 1
    BY <1>1 DEF AddNode, LatencyInv
  <2> QED BY <2>1, LatencyBuild
<1>2. ASSUME NEW from \in 1 .. MaxNodes, NEW to \in 1 .. MaxNodes,
             Connect(from, to) \/ Disconnect(from, to)
      PROVE  LatencyInv'
  <2>1. phase' = "build" /\ pos' = 1
    BY <1>2 DEF Connect, Disconnect, LatencyInv
  <2> QED BY <2>1, LatencyBuild
<1>3. CASE CompileEmpty
  BY <1>3, LatencyBuild DEF CompileEmpty
<1>4. CASE CompileStart
  <2>1. phase = "build" /\ phase' = "kahn" /\ n > 0 /\ UNCHANGED <<nodes, connections, pos>>
    BY <1>4 DEF CompileStart, builderVars
  <2> QED BY <2>1, GraphStays DEF LatencyInv, LatencyIsLongestPath, Compiled
<1>5. CASE KahnPop
  <2>1. phase = "kahn" /\ phase' = "kahn" /\ UNCHANGED <<nodes, connections, pos>>
    BY <1>5 DEF KahnPop, builderVars
  <2> QED BY <2>1, GraphStays DEF LatencyInv, LatencyIsLongestPath, Compiled
<1>6. CASE KahnEnd
  <2>1. /\ phase = "kahn" /\ UNCHANGED <<nodes, connections, pos>>
        /\ \/ phase' = "CycleDetected"
           \/ phase' = "latency" /\ path_latency' = [v \in Nodes |-> 0]
    BY <1>6 DEF KahnEnd, builderVars
  <2>2. Nodes' = Nodes /\ n' = n /\ pos' = 1 /\ n > 0 /\ 1 .. (1 - 1) = {}
    BY <2>1, GraphStays DEF LatencyInv
  <2>3. [v \in Nodes |-> 0] \in [Nodes -> 0 .. WordMax]
    BY CompileAssumption
  <2> QED BY <2>1, <2>2, <2>3 DEF LatencyInv, LatencyIsLongestPath, Compiled
<1>7. CASE LatencyStep
  BY <1>0, <1>7, LatencyNodeStep
<1>8. CASE CompileEnd
  BY <1>0, <1>8, LatencyEndStep
<1>9. ASSUME NEW first \in Inputs, NEW inLen \in BlockLens, NEW outLen \in BlockLens,
             ProcessStart(first, inLen, outLen)
      PROVE  LatencyInv'
  BY <1>9, LatencyStays DEF ProcessStart, Compiled, builderVars, latencyVars
<1>10. CASE ProcessNode
  BY <1>10, LatencyStays DEF ProcessNode, Compiled, builderVars, latencyVars
<1>11. CASE ProcessEnd
  BY <1>11, LatencyStays DEF ProcessEnd, Compiled, builderVars, latencyVars
<1>12. CASE UNCHANGED vars
  <2>1. UNCHANGED <<nodes, connections, phase, order, path_latency, total_latency, pos>>
    BY <1>12 DEF vars, builderVars, kahnVars, latencyVars
  <2>2. CASE Compiled
    BY <2>1, <2>2, LatencyStays DEF Compiled
  <2>3. CASE ~Compiled
    <3>1. n' = n /\ Nodes' = Nodes /\ Paths' = Paths /\ \A p : PathLatency(p)' = PathLatency(p)
      BY <2>1, PathsStay
    <3>2. \A i : Longest(i)' <=> Longest(i)
      BY <2>1, <3>1 DEF Longest
    <3>3. LatencyIsLongestPath'
      BY <2>1, <2>3 DEF LatencyIsLongestPath, Compiled
    <3> QED BY <2>1, <3>1, <3>2, <3>3 DEF LatencyInv
  <2> QED BY <2>2, <2>3
<1>13. ASSUME NEW from \in 1 .. MaxNodes, NEW to \in 1 .. MaxNodes, ConnectRefused(from, to)
       PROVE  LatencyInv'
  BY <1>12, <1>13 DEF ConnectRefused
<1> QED BY <1>1, <1>2, <1>3, <1>4, <1>5, <1>6, <1>7, <1>8, <1>9, <1>10, <1>11, <1>12, <1>13 DEF Next

(***************************************************************************)
(* compile's total_latency is the latency of the longest path of the       *)
(* graph, cut off at the largest machine word, for every graph: saturation *)
(* on the way loses nothing, and it is enough to look at the sinks.        *)
(***************************************************************************)
THEOREM LatencyIsThatOfLongestPath == Spec => []LatencyIsLongestPath
<1>1. Init => LatencyInv
  BY DEF Init, LatencyInv, LatencyIsLongestPath, Compiled
<1>2. GInv /\ LatencyInv /\ [Next]_vars => LatencyInv'
  BY LatencyNext
<1>3. LatencyInv => LatencyIsLongestPath
  BY DEF LatencyInv
<1> QED BY <1>1, <1>2, <1>3, Invariance, PTL DEF Spec

=============================================================================
