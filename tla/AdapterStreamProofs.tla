------------------------- MODULE AdapterStreamProofs ------------------------
(***************************************************************************)
(* Proofs about the samples inside the host adapter, for every DSP block   *)
(* size, FIFO capacity and sequence of host blocks.                        *)
(***************************************************************************)
EXTENDS AdapterStream, FiniteSetTheorems, SequenceTheorems, TLAPS

(***************************************************************************)
(* The arithmetic of AdapterProofs, which speaks about no variable: the    *)
(* ones it leaves open here can be given any value.                        *)
(***************************************************************************)
Arithmetic == INSTANCE AdapterProofs WITH
  input_fifo <- 0, output_fifo <- 0, host_quantum <- 0, latency_samples <- 0,
  report <- 0, target_block_size <- 0, capacity <- 0,
  renegotiated <- FALSE, disturbed <- FALSE, unreported <- 0, tick <- FALSE

-----------------------------------------------------------------------------
(* Numbers                                                                 *)

LEMMA LeastElement ==
  ASSUME NEW T \in SUBSET Nat, T # {}
  PROVE  \E x \in T : \A y \in T : x <= y
BY Arithmetic!LeastElement, StreamAssumption

\* A set with 0 in it and, up to m, with every number its successor.
LEMMA UpTo ==
  ASSUME NEW m \in Nat, NEW T, 0 \in T, \A k \in 1 .. m : k - 1 \in T => k \in T
  PROVE  \A k \in 0 .. m : k \in T
<1> DEFINE Bad == {k \in 0 .. m : k \notin T}
<1> SUFFICES ASSUME Bad # {} PROVE FALSE
  OBVIOUS
<1>1. Bad \in SUBSET Nat
  OBVIOUS
<1>2. PICK k \in Bad : \A j \in Bad : k <= j
  <2> HIDE DEF Bad
  <2> QED BY <1>1, LeastElement
<1>3. k \in 0 .. m /\ k \notin T /\ k # 0
  OBVIOUS
<1>4. k \in 1 .. m /\ k - 1 \in 0 .. m
  BY <1>3
<1>5. k - 1 \in T
  BY <1>2, <1>4
<1> QED BY <1>3, <1>4, <1>5

LEMMA MinOfTwo ==
  ASSUME NEW a \in Int, NEW b \in Int
  PROVE  Min({a, b}) = IF a < b THEN a ELSE b
<1> DEFINE m == IF a < b THEN a ELSE b
<1>1. m \in {a, b} /\ \A y \in {a, b} : m <= y
  OBVIOUS
<1>2. \A x \in {a, b} : (\A y \in {a, b} : x <= y) => x = m
  OBVIOUS
<1> HIDE DEF m
<1>3. Min({a, b}) = m
  BY <1>1, <1>2, Zenon DEF Min
<1> QED BY <1>3 DEF m

LEMMA MaxOfTwo ==
  ASSUME NEW a \in Int, NEW b \in Int
  PROVE  Max({a, b}) = IF a < b THEN b ELSE a
<1> DEFINE m == IF a < b THEN b ELSE a
<1>1. m \in {a, b} /\ \A y \in {a, b} : m >= y
  OBVIOUS
<1>2. \A x \in {a, b} : (\A y \in {a, b} : x >= y) => x = m
  OBVIOUS
<1> HIDE DEF m
<1>3. Max({a, b}) = m
  BY <1>1, <1>2, Zenon DEF Max
<1> QED BY <1>3 DEF m

LEMMA MaxFacts ==
  ASSUME NEW b \in Nat, NEW S \in SUBSET (1 .. b), S # {}
  PROVE  Max(S) \in S /\ \A y \in S : y <= Max(S)
<1> DEFINE Above == {c \in Nat : \A x \in S : x <= c}
<1>1. PICK c \in Above : \A d \in Above : c <= d
  <2>1. Above \in SUBSET Nat /\ b \in Above
    OBVIOUS
  <2> HIDE DEF Above
  <2> QED BY <2>1, LeastElement
<1>2. c \in S
  <2> SUFFICES ASSUME c \notin S PROVE FALSE
    OBVIOUS
  <2>1. PICK x \in S : TRUE
    OBVIOUS
  <2>2. \A y \in S : y <= c - 1
    BY <1>1
  <2>3. c - 1 \in Nat
    BY <1>1, <2>1, <2>2
  <2> QED BY <1>1, <2>2, <2>3
<1>3. \E x \in S : \A y \in S : x >= y
  BY <1>1, <1>2
<1>4. Max(S) \in S /\ \A y \in S : Max(S) >= y
  BY <1>3, Zenon DEF Max
<1> QED BY <1>4

\* An index below twice the capacity wraps around once at most.
LEMMA Wraps ==
  ASSUME NEW c \in Nat \ {0}, NEW a \in 0 .. (2 * c - 1)
  PROVE  a % c = IF a < c THEN a ELSE a - c
<1> DEFINE q == a \div c
           r == a % c
<1>1. r \in 0 .. (c - 1) /\ q \in Nat /\ a = c * q + r
  <2>1. a \in Nat
    OBVIOUS
  <2>2. /\ a % c \in 0 .. (c - 1)
        /\ a \div c \in Nat
        /\ a = c * (a \div c) + (a % c)
    BY <2>1, Arithmetic!DivisionFacts, StreamAssumption
  <2> QED BY <2>2
<1> HIDE DEF q, r
<1>2. q >= 2 => c * q >= 2 * c
  BY <1>1
<1>3. q = 0 \/ q = 1
  BY <1>1, <1>2
<1>4. r = IF a < c THEN a ELSE a - c
  BY <1>1, <1>3
<1> QED BY <1>4 DEF r

-----------------------------------------------------------------------------
(* Loops.  A loop of m turns from start, where turn k takes x to step[k][x]: *)
(* the states it goes through.                                             *)

Runs(start, step, m, t) == t[0] = start /\ \A k \in 1 .. m : t[k] = step[k][t[k - 1]]

LEMMA LoopRuns ==
  ASSUME NEW S, NEW start \in S, NEW m \in Nat, NEW step \in [1 .. m -> [S -> S]]
  PROVE  \E t \in [0 .. m -> S] : Runs(start, step, m, t)
<1> DEFINE T == {k \in 0 .. m : \E t \in [0 .. k -> S] : Runs(start, step, k, t)}
<1>1. 0 \in T
  <2> DEFINE t == [k \in 0 .. 0 |-> start]
  <2>1. t \in [0 .. 0 -> S] /\ t[0] = start
    OBVIOUS
  <2> HIDE DEF t
  <2> QED BY <2>1 DEF Runs
<1>2. ASSUME NEW k \in 1 .. m, k - 1 \in T PROVE k \in T
  <2>1. PICK t \in [0 .. (k - 1) -> S] : Runs(start, step, k - 1, t)
    BY <1>2
  <2>2. k \in Nat /\ k - 1 \in 0 .. (k - 1) /\ t[k - 1] \in S /\ step[k] \in [S -> S]
    OBVIOUS
  <2> DEFINE u == [i \in 0 .. k |-> IF i = k THEN step[k][t[k - 1]] ELSE t[i]]
  <2>3. ASSUME NEW i \in 0 .. k
        PROVE  u[i] = (IF i = k THEN step[k][t[k - 1]] ELSE t[i]) /\ u[i] \in S
    BY <2>2
  <2>4. u \in [0 .. k -> S]
    BY <2>3
  <2> HIDE DEF u
  <2>5. ASSUME NEW i \in 1 .. k PROVE u[i] = step[i][u[i - 1]]
    <3>1. i \in 0 .. k /\ i - 1 \in 0 .. k /\ i - 1 # k
      BY <2>2
    <3>2. CASE i = k
      BY <2>3, <3>1, <3>2
    <3>3. CASE i # k
      <4>1. i \in 1 .. (k - 1)
        BY <2>2, <3>3
      <4> QED BY <2>1, <2>3, <3>1, <3>3, <4>1 DEF Runs
    <3> QED BY <3>2, <3>3
  <2>6. u[0] = start
    BY <2>1, <2>2, <2>3 DEF Runs
  <2>7. Runs(start, step, k, u)
    BY <2>5, <2>6 DEF Runs
  <2> QED BY <2>4, <2>7
<1>3. \A k \in 0 .. m : k \in T
  <2> HIDE DEF T
  <2> QED BY <1>1, <1>2, UpTo
<1> QED BY <1>3

-----------------------------------------------------------------------------
(* The ring.  A ring of c slots, and one whose indices and length agree.   *)

Rings(c) ==
  [storage : [0 .. (c - 1) -> Nat], read : 0 .. (c - 1), write : 0 .. (c - 1), len : Nat]

\* The slot k places after i.
Slot(c, i, k) == IF i + k < c THEN i + k ELSE i + k - c

RingOK(f, c) == f \in Rings(c) /\ f.len <= c /\ f.write = Slot(c, f.read, f.len)

LEMMA SlotSums ==
  ASSUME NEW c \in Nat \ {0}, NEW i \in 0 .. (c - 1), NEW k \in 0 .. (c - 1)
  PROVE  /\ Slot(c, Slot(c, i, k), 1) = Slot(c, i, k + 1)
         /\ Slot(c, Slot(c, i, 1), k) = Slot(c, i, k + 1)
         /\ Slot(c, i, k) \in 0 .. (c - 1)
BY DEF Slot

LEMMA CapacityIs ==
  ASSUME NEW c \in Nat \ {0}, NEW f \in Rings(c)
  PROVE  Capacity(f) = c
<1>1. DOMAIN f.storage = 0 .. (c - 1)
  BY DEF Rings
<1>2. Cardinality(0 .. (c - 1)) = c
  <2>1. 0 \in Int /\ c - 1 \in Int /\ ~(0 > c - 1) /\ (c - 1) - 0 + 1 = c
    OBVIOUS
  <2> QED BY <2>1, FS_Interval
<1> QED BY <1>1, <1>2 DEF Capacity

LEMMA AdvanceIs ==
  ASSUME NEW c \in Nat \ {0}, NEW f \in Rings(c), NEW i \in 0 .. (c - 1)
  PROVE  Advance(f, i) = Slot(c, i, 1) /\ Advance(f, i) \in 0 .. (c - 1)
<1>1. Capacity(f) = c
  BY CapacityIs
<1> QED BY <1>1 DEF Advance, Slot

\* Contents, without the remainder.
LEMMA ContentsOf ==
  ASSUME NEW c \in Nat \ {0}, NEW f, RingOK(f, c)
  PROVE  /\ Contents(f) \in [1 .. f.len -> Nat]
         /\ \A k \in 1 .. f.len : Contents(f)[k] = f.storage[Slot(c, f.read, k - 1)]
         /\ \A k \in 1 .. f.len : Slot(c, f.read, k - 1) \in 0 .. (c - 1)
<1>1. /\ f \in Rings(c) /\ f.len \in Nat /\ f.len <= c /\ f.read \in 0 .. (c - 1)
      /\ f.storage \in [0 .. (c - 1) -> Nat]
  BY DEF RingOK, Rings
<1>2. Capacity(f) = c
  BY <1>1, CapacityIs
<1>3. ASSUME NEW k \in 1 .. f.len
      PROVE  (f.read + k - 1) % Capacity(f) = Slot(c, f.read, k - 1)
  <2> DEFINE a == f.read + k - 1
  <2>1. a \in 0 .. (2 * c - 1) /\ f.read + (k - 1) = a
    BY <1>1
  <2> HIDE DEF a
  <2>2. a % c = IF a < c THEN a ELSE a - c
    BY <2>1, Wraps
  <2>3. Slot(c, f.read, k - 1) = IF a < c THEN a ELSE a - c
    BY <1>1, <2>1 DEF Slot
  <2>4. a % c = Slot(c, f.read, k - 1)
    BY <2>1, <2>2, <2>3, SMT
  <2> QED BY <1>2, <2>4, Zenon DEF a
<1>4. \A k \in 1 .. f.len : Slot(c, f.read, k - 1) \in 0 .. (c - 1)
  BY <1>1 DEF Slot
<1>5. \A k \in 1 .. f.len : Contents(f)[k] = f.storage[Slot(c, f.read, k - 1)]
  BY <1>3 DEF Contents
<1>6. Contents(f) = [k \in 1 .. f.len |-> Contents(f)[k]]
  BY DEF Contents
<1>7. \A k \in 1 .. f.len : Contents(f)[k] \in Nat
  <2> HIDE DEF Contents, Slot
  <2> QED BY <1>1, <1>4, <1>5
<1> QED BY <1>4, <1>5, <1>6, <1>7, Zenon

\* A new FIFO is empty.
LEMMA NewRing ==
  ASSUME NEW c \in Nat \ {0}
  PROVE  RingOK(new(c), c) /\ new(c).len = 0
BY DEF RingOK, Rings, new, Slot, Silence

LEMMA StoreRing ==
  ASSUME NEW c \in Nat \ {0}, NEW f \in Rings(c), NEW s \in Nat
  PROVE  /\ Store(f, s) \in Rings(c)
         /\ Store(f, s).storage = [f.storage EXCEPT ![f.write] = s]
         /\ Store(f, s).read = f.read
         /\ Store(f, s).write = Slot(c, f.write, 1)
         /\ Store(f, s).len = f.len + 1
<1>1. f.write \in 0 .. (c - 1)
  BY DEF Rings
<1>2. Advance(f, f.write) = Slot(c, f.write, 1) /\ Advance(f, f.write) \in 0 .. (c - 1)
  BY <1>1, AdvanceIs
<1> HIDE DEF Advance, Slot
<1>3. Store(f, s) = [storage |-> [f.storage EXCEPT ![f.write] = s], read |-> f.read,
                     write |-> Advance(f, f.write), len |-> f.len + 1]
  BY DEF Store
<1>4. [f.storage EXCEPT ![f.write] = s] \in [0 .. (c - 1) -> Nat]
  BY DEF Rings
<1> QED BY <1>2, <1>3, <1>4 DEF Rings

\* A turn of the push loop puts the sample after the ones that are there.
LEMMA StoreAppends ==
  ASSUME NEW c \in Nat \ {0}, NEW f, RingOK(f, c), f.len < c, NEW s \in Nat
  PROVE  /\ RingOK(Store(f, s), c)
         /\ Store(f, s).len = f.len + 1
         /\ Contents(Store(f, s))[f.len + 1] = s
         /\ \A k \in 1 .. f.len : Contents(Store(f, s))[k] = Contents(f)[k]
<1> DEFINE g == Store(f, s)
<1>1. /\ f \in Rings(c) /\ f.len \in Nat /\ f.read \in 0 .. (c - 1)
      /\ f.storage \in [0 .. (c - 1) -> Nat]
      /\ f.write = Slot(c, f.read, f.len) /\ f.write \in 0 .. (c - 1)
  BY DEF RingOK, Rings
<1>2. /\ g \in Rings(c)
      /\ g.storage = [f.storage EXCEPT ![f.write] = s]
      /\ g.read = f.read
      /\ g.write = Slot(c, f.write, 1)
      /\ g.len = f.len + 1
  BY <1>1, StoreRing
<1> HIDE DEF g
<1>3. Slot(c, f.write, 1) = Slot(c, f.read, f.len + 1)
  <2> DEFINE i == f.read
             n == f.len
  <2>1. n \in 0 .. (c - 1) /\ i \in 0 .. (c - 1) /\ f.write = Slot(c, i, n)
    BY <1>1
  <2> HIDE DEF i, n
  <2>2. Slot(c, Slot(c, i, n), 1) = Slot(c, i, n + 1)
    BY <2>1 DEF Slot
  <2> QED BY <2>1, <2>2, Zenon DEF i, n
<1>4. RingOK(g, c)
  BY <1>1, <1>2, <1>3 DEF RingOK
<1>5. \A k \in 1 .. (f.len + 1) : Contents(g)[k] = g.storage[Slot(c, f.read, k - 1)]
  <2>1. \A k \in 1 .. g.len : Contents(g)[k] = g.storage[Slot(c, g.read, k - 1)]
    BY <1>4, ContentsOf
  <2> QED BY <1>2, <2>1, Zenon
<1>6. Contents(g)[f.len + 1] = s
  <2>1. f.len + 1 \in 1 .. (f.len + 1) /\ (f.len + 1) - 1 = f.len
    BY <1>1
  <2>2. Contents(g)[f.len + 1] = g.storage[f.write]
    BY <1>1, <1>5, <2>1
  <2> QED BY <1>1, <1>2, <2>2
<1>7. ASSUME NEW k \in 1 .. f.len PROVE Contents(g)[k] = Contents(f)[k]
  <2>1. Contents(f)[k] = f.storage[Slot(c, f.read, k - 1)] /\ Slot(c, f.read, k - 1) \in 0 .. (c - 1)
    BY ContentsOf
  <2>2. Slot(c, f.read, k - 1) # f.write
    <3> DEFINE i == f.read
               n == f.len
    <3>1. /\ n \in Nat /\ n < c /\ i \in 0 .. (c - 1) /\ f.write = Slot(c, i, n)
          /\ k \in 1 .. n
      BY <1>1
    <3> HIDE DEF i, n
    <3>2. Slot(c, i, k - 1) # Slot(c, i, n)
      BY <3>1 DEF Slot
    <3> QED BY <3>1, <3>2, Zenon DEF i
  <2>3. k \in 1 .. (f.len + 1)
    BY <1>1
  <2>4. Contents(g)[k] = g.storage[Slot(c, f.read, k - 1)]
    BY <1>5, <2>3
  <2> HIDE DEF Slot
  <2> QED BY <1>1, <1>2, <2>1, <2>2, <2>4
<1> QED BY <1>2, <1>4, <1>6, <1>7 DEF g

-----------------------------------------------------------------------------
(* The loops over the ring                                                 *)

\* The recursion of Stored has a solution, and this is what Stored is.
LEMMA StoredEquations ==
  ASSUME NEW c \in Nat \ {0}, NEW f \in Rings(c), NEW samples \in Seq(Nat)
  PROVE  /\ Stored(f, samples)[0] = f
         /\ \A k \in 1 .. Len(samples) :
              Stored(f, samples)[k] = Store(Stored(f, samples)[k - 1], samples[k])
<1> DEFINE m == Len(samples)
           step == [k \in 1 .. m |-> [x \in Rings(c) |-> Store(x, samples[k])]]
<1>1. m \in Nat /\ \A k \in 1 .. m : samples[k] \in Nat
  OBVIOUS
<1>2. \A k \in 1 .. m : \A x \in Rings(c) : Store(x, samples[k]) \in Rings(c)
  BY <1>1, StoreRing
<1> HIDE DEF m
<1>3. step \in [1 .. m -> [Rings(c) -> Rings(c)]]
  <2>1. ASSUME NEW k \in 1 .. m PROVE [x \in Rings(c) |-> Store(x, samples[k])] \in [Rings(c) -> Rings(c)]
    BY <1>2, Zenon
  <2> QED BY <2>1, Zenon
<1>4. \A k \in 1 .. m : \A x \in Rings(c) : step[k][x] = Store(x, samples[k])
  BY Zenon
<1> HIDE DEF step
<1>5. PICK t \in [0 .. m -> Rings(c)] : Runs(f, step, m, t)
  BY <1>1, <1>3, LoopRuns
<1>6. ASSUME NEW k \in 0 .. m
      PROVE  t[k] = IF k = 0 THEN f ELSE Store(t[k - 1], samples[k])
  <2>1. CASE k = 0
    BY <1>5, <2>1 DEF Runs
  <2>2. CASE k # 0
    <3>1. k \in 1 .. m /\ k - 1 \in 0 .. m
      BY <1>1, <2>2
    <3>2. t[k - 1] \in Rings(c)
      BY <1>5, <3>1
    <3>3. t[k] = step[k][t[k - 1]]
      BY <1>5, <3>1 DEF Runs
    <3> QED BY <1>4, <2>2, <3>1, <3>2, <3>3
  <2> QED BY <2>1, <2>2
<1>7. t = [k \in 0 .. m |-> IF k = 0 THEN f ELSE Store(t[k - 1], samples[k])]
  BY <1>5, <1>6
<1> DEFINE u == Stored(f, samples)
<1>8. u = [k \in 0 .. m |-> IF k = 0 THEN f ELSE Store(u[k - 1], samples[k])]
  BY <1>7, Zenon DEF Stored, m
<1> HIDE DEF u
<1>9. \A k \in 0 .. m : u[k] = IF k = 0 THEN f ELSE Store(u[k - 1], samples[k])
  BY <1>8, Zenon
<1>10. 0 \in 0 .. m /\ \A k \in 1 .. m : k \in 0 .. m /\ k # 0
  BY <1>1
<1>11. u[0] = f /\ \A k \in 1 .. m : u[k] = Store(u[k - 1], samples[k])
  BY <1>9, <1>10
<1> QED BY <1>11 DEF u, m

\* p has the samples of f and then the first of the others, as many as fit.
Appended(f, c, samples, p) ==
  /\ p.accepted \in Nat
  /\ p.accepted = IF Len(samples) < c - f.len THEN Len(samples) ELSE c - f.len
  /\ RingOK(p.fifo, c)
  /\ p.fifo.len = f.len + p.accepted
  /\ \A k \in 1 .. f.len : Contents(p.fifo)[k] = Contents(f)[k]
  /\ \A k \in 1 .. p.accepted : Contents(p.fifo)[f.len + k] = samples[k]

(***************************************************************************)
(* push_slice appends what it accepts, which is all that there is room for *)
(* and no more, and leaves the samples that are there alone.               *)
(***************************************************************************)
LEMMA PushAppends ==
  ASSUME NEW c \in Nat \ {0}, NEW f, RingOK(f, c), NEW samples \in Seq(Nat)
  PROVE  Appended(f, c, samples, push_slice(f, samples))
<1> DEFINE m == Len(samples)
           a == IF m < c - f.len THEN m ELSE c - f.len
           t == Stored(f, samples)
           Good == {i \in 0 .. a :
                      /\ RingOK(t[i], c) /\ t[i].len = f.len + i
                      /\ \A k \in 1 .. f.len : Contents(t[i])[k] = Contents(f)[k]
                      /\ \A k \in 1 .. i : Contents(t[i])[f.len + k] = samples[k]}
<1>1. f \in Rings(c) /\ f.len \in 0 .. c /\ m \in Nat /\ \A k \in 1 .. m : samples[k] \in Nat
  <2>1. f \in Rings(c) /\ f.len \in 0 .. c
    BY DEF RingOK, Rings
  <2>2. m \in Nat /\ \A k \in 1 .. m : samples[k] \in Nat
    OBVIOUS
  <2> QED BY <2>1, <2>2
<1>2. a \in Nat /\ a <= m /\ f.len + a <= c
  BY <1>1
<1>3. push_slice(f, samples) = [fifo |-> t[a], accepted |-> a]
  <2>1. Room(f) = c - f.len /\ Room(f) \in Int
    BY <1>1, CapacityIs DEF Room
  <2>2. Min({m, Room(f)}) = IF m < Room(f) THEN m ELSE Room(f)
    <3>1. m \in Int
      BY <1>1
    <3> HIDE DEF m
    <3> QED BY <2>1, <3>1, MinOfTwo
  <2>3. Min({m, Room(f)}) = a
    BY <2>1, <2>2
  <2> HIDE DEF a
  <2> QED BY <2>3, Zenon DEF push_slice
<1>4. t[0] = f /\ \A k \in 1 .. m : t[k] = Store(t[k - 1], samples[k])
  BY <1>1, StoredEquations
<1> HIDE DEF t, a, m
<1>5. 0 \in Good
  BY <1>1, <1>2, <1>4
<1>6. ASSUME NEW i \in 1 .. a, i - 1 \in Good PROVE i \in Good
  <2> DEFINE g == t[i - 1]
  <2>1. /\ RingOK(g, c) /\ g.len = f.len + (i - 1)
        /\ \A k \in 1 .. f.len : Contents(g)[k] = Contents(f)[k]
        /\ \A k \in 1 .. (i - 1) : Contents(g)[f.len + k] = samples[k]
    BY <1>6
  <2>2. i \in 1 .. m /\ t[i] = Store(g, samples[i]) /\ samples[i] \in Nat
    BY <1>1, <1>2, <1>4
  <2> HIDE DEF g
  <2>3. g.len < c /\ g.len + 1 = f.len + i
    BY <1>1, <1>2, <2>1
  <2>4. /\ RingOK(t[i], c) /\ t[i].len = g.len + 1
        /\ Contents(t[i])[g.len + 1] = samples[i]
        /\ \A k \in 1 .. g.len : Contents(t[i])[k] = Contents(g)[k]
    BY <2>1, <2>2, <2>3, StoreAppends
  <2>5. ASSUME NEW k \in 1 .. f.len PROVE Contents(t[i])[k] = Contents(f)[k]
    <3>1. k \in 1 .. g.len
      BY <1>1, <2>1
    <3> QED BY <2>1, <2>4, <3>1
  <2>6. ASSUME NEW k \in 1 .. i PROVE Contents(t[i])[f.len + k] = samples[k]
    <3>1. CASE k = i
      BY <2>3, <2>4, <3>1
    <3>2. CASE k # i
      <4>1. k \in 1 .. (i - 1) /\ f.len + k \in 1 .. g.len
        BY <1>1, <1>2, <2>1, <3>2
      <4> QED BY <2>1, <2>4, <4>1
    <3> QED BY <3>1, <3>2
  <2>7. i \in 0 .. a /\ t[i].len = f.len + i
    BY <1>2, <2>3, <2>4
  <2> QED BY <2>4, <2>5, <2>6, <2>7
<1>7. a \in Good
  <2> HIDE DEF Good
  <2>1. \A i \in 0 .. a : i \in Good
    BY <1>2, <1>5, <1>6, UpTo
  <2> QED BY <1>2, <2>1
<1>8. /\ RingOK(t[a], c) /\ t[a].len = f.len + a
      /\ \A k \in 1 .. f.len : Contents(t[a])[k] = Contents(f)[k]
      /\ \A k \in 1 .. a : Contents(t[a])[f.len + k] = samples[k]
  BY <1>7
<1>9. a = IF Len(samples) < c - f.len THEN Len(samples) ELSE c - f.len
  BY DEF a, m
<1> DEFINE p == push_slice(f, samples)
<1>10. p.fifo = t[a] /\ p.accepted = a
  BY <1>3
<1> HIDE DEF p
<1>11. Appended(f, c, samples, p)
  BY <1>2, <1>8, <1>9, <1>10, Zenon DEF Appended
<1> QED BY <1>11 DEF p

\* What a loop of calls of pop has left and got.
Pops(c) == [fifo : Rings(c), got : Seq(Nat)]

LEMMA PopStays ==
  ASSUME NEW c \in Nat \ {0}, NEW x \in Pops(c)
  PROVE  pop(x) \in Pops(c)
<1> DEFINE f == x.fifo
<1>1. /\ f \in Rings(c) /\ x.got \in Seq(Nat) /\ f.len \in Nat
      /\ f.read \in 0 .. (c - 1) /\ f.write \in 0 .. (c - 1)
      /\ f.storage \in [0 .. (c - 1) -> Nat]
  BY DEF Pops, Rings
<1> HIDE DEF f
<1>2. Advance(f, f.read) \in 0 .. (c - 1)
  BY <1>1, AdvanceIs
<1>3. CASE f.len = 0
  BY <1>3 DEF pop, f
<1>4. CASE f.len # 0
  <2> DEFINE g == [storage |-> f.storage, read |-> Advance(f, f.read),
                   write |-> f.write, len |-> f.len - 1]
             s == Append(x.got, f.storage[f.read])
  <2>1. g \in Rings(c)
    <3>1. f.len - 1 \in Nat
      BY <1>1, <1>4
    <3> QED BY <1>1, <1>2, <3>1 DEF Rings
  <2>2. s \in Seq(Nat)
    <3>1. f.storage[f.read] \in Nat
      BY <1>1
    <3> QED BY <1>1, <3>1
  <2>3. pop(x) = [fifo |-> g, got |-> s]
    BY <1>4, Zenon DEF pop, f
  <2> HIDE DEF g, s
  <2> QED BY <2>1, <2>2, <2>3 DEF Pops
<1> QED BY <1>3, <1>4

\* pop takes the oldest sample.
LEMMA PopTakes ==
  ASSUME NEW c \in Nat \ {0}, NEW x, x.got \in Seq(Nat), RingOK(x.fifo, c), x.fifo.len # 0
  PROVE  /\ RingOK(pop(x).fifo, c)
         /\ pop(x).fifo.len = x.fifo.len - 1
         /\ \A k \in 1 .. (x.fifo.len - 1) : Contents(pop(x).fifo)[k] = Contents(x.fifo)[k + 1]
         /\ pop(x).got = Append(x.got, Contents(x.fifo)[1])
         /\ Contents(x.fifo)[1] \in Nat
<1> DEFINE f == x.fifo
           g == [storage |-> f.storage, read |-> Advance(f, f.read),
                 write |-> f.write, len |-> f.len - 1]
<1>1. /\ RingOK(f, c) /\ f \in Rings(c) /\ f.len \in 1 .. c
      /\ f.read \in 0 .. (c - 1) /\ f.write \in 0 .. (c - 1)
      /\ f.write = Slot(c, f.read, f.len) /\ f.storage \in [0 .. (c - 1) -> Nat]
  BY DEF RingOK, Rings
<1>2. f.len # 0
  OBVIOUS
<1>3. pop(x) = [fifo |-> g, got |-> Append(x.got, f.storage[f.read])]
  BY <1>2, Zenon DEF pop
<1> HIDE DEF f
<1>4. Advance(f, f.read) = Slot(c, f.read, 1) /\ Advance(f, f.read) \in 0 .. (c - 1)
  BY <1>1, AdvanceIs
<1>5. g.storage = f.storage /\ g.read = Slot(c, f.read, 1) /\ g.write = f.write /\ g.len = f.len - 1
  BY <1>4
<1>6. g \in Rings(c)
  <2>1. f.len - 1 \in Nat
    BY <1>1
  <2> QED BY <1>1, <1>4, <2>1 DEF Rings
<1> HIDE DEF g
<1>7. \A k \in 0 .. (c - 1) : Slot(c, Slot(c, f.read, 1), k) = Slot(c, f.read, k + 1)
  BY <1>1, SlotSums
<1>8. RingOK(g, c)
  <2>1. f.len - 1 \in 0 .. (c - 1) /\ (f.len - 1) + 1 = f.len
    BY <1>1
  <2>2. g.write = Slot(c, g.read, g.len)
    BY <1>1, <1>5, <1>7, <2>1
  <2> QED BY <1>5, <1>6, <2>1, <2>2 DEF RingOK
<1>9. ASSUME NEW k \in 1 .. (f.len - 1) PROVE Contents(g)[k] = Contents(f)[k + 1]
  <2>1. /\ k \in 1 .. g.len /\ k + 1 \in 1 .. f.len /\ k - 1 \in 0 .. (c - 1)
        /\ (k - 1) + 1 = k /\ (k + 1) - 1 = k
    <3> DEFINE n == f.len
    <3>1. n \in 1 .. c /\ g.len = n - 1 /\ k \in 1 .. (n - 1)
      BY <1>1, <1>5
    <3> HIDE DEF n
    <3>2. /\ k \in 1 .. (n - 1) /\ k + 1 \in 1 .. n /\ k - 1 \in 0 .. (c - 1)
          /\ (k - 1) + 1 = k /\ (k + 1) - 1 = k
      BY <3>1
    <3> QED BY <3>1, <3>2, Zenon DEF n
  <2>2. Contents(g)[k] = g.storage[Slot(c, g.read, k - 1)]
    BY <1>8, <2>1, ContentsOf
  <2>3. Contents(f)[k + 1] = f.storage[Slot(c, f.read, (k + 1) - 1)]
    <3>1. \A j \in 1 .. f.len : Contents(f)[j] = f.storage[Slot(c, f.read, j - 1)]
      BY <1>1, ContentsOf
    <3> QED BY <2>1, <3>1, Zenon
  <2>4. Slot(c, g.read, k - 1) = Slot(c, f.read, k)
    BY <1>5, <1>7, <2>1
  <2> QED BY <1>5, <2>1, <2>2, <2>3, <2>4
<1>10. Contents(f)[1] = f.storage[f.read] /\ Contents(f)[1] \in Nat
  <2>1. 1 \in 1 .. f.len /\ 1 - 1 = 0 /\ Slot(c, f.read, 0) = f.read
    BY <1>1 DEF Slot
  <2>2. Contents(f)[1] = f.storage[Slot(c, f.read, 1 - 1)]
    BY <1>1, <2>1, ContentsOf
  <2> QED BY <1>1, <2>1, <2>2
<1>11. pop(x).fifo = g /\ pop(x).got = Append(x.got, f.storage[f.read])
  BY <1>3
<1> QED BY <1>5, <1>8, <1>9, <1>10, <1>11 DEF f

\* The states that PopUpTo goes through.
LEMMA PopUpToRuns ==
  ASSUME NEW c \in Nat \ {0}, NEW f \in Rings(c), NEW n \in Nat
  PROVE  \E t : /\ t[0] = [fifo |-> f, got |-> <<>>]
                /\ \A k \in 1 .. n : t[k] = pop(t[k - 1])
                /\ PopUpTo(f, n) = t[n]
<1> DEFINE start == [fifo |-> f, got |-> <<>>]
           step == [k \in 1 .. n |-> [x \in Pops(c) |-> pop(x)]]
<1>1. start \in Pops(c)
  BY DEF Pops
<1>2. \A x \in Pops(c) : pop(x) \in Pops(c)
  BY PopStays
<1>3. step \in [1 .. n -> [Pops(c) -> Pops(c)]]
  <2>1. [x \in Pops(c) |-> pop(x)] \in [Pops(c) -> Pops(c)]
    BY <1>2, Zenon
  <2> QED BY <2>1, Zenon
<1>4. \A k \in 1 .. n : \A x \in Pops(c) : step[k][x] = pop(x)
  BY Zenon
<1> HIDE DEF step, start
<1>5. PICK t \in [0 .. n -> Pops(c)] : Runs(start, step, n, t)
  BY <1>1, <1>3, LoopRuns
<1>6. ASSUME NEW k \in 0 .. n
      PROVE  t[k] = IF k = 0 THEN start ELSE pop(t[k - 1])
  <2>1. CASE k = 0
    BY <1>5, <2>1 DEF Runs
  <2>2. CASE k # 0
    <3>1. k \in 1 .. n /\ k - 1 \in 0 .. n
      BY <2>2
    <3>2. t[k - 1] \in Pops(c)
      BY <1>5, <3>1
    <3>3. t[k] = step[k][t[k - 1]]
      BY <1>5, <3>1 DEF Runs
    <3> QED BY <1>4, <2>2, <3>1, <3>2, <3>3
  <2> QED BY <2>1, <2>2
<1>7. t = [k \in 0 .. n |-> IF k = 0 THEN start ELSE pop(t[k - 1])]
  BY <1>5, <1>6
<1> DEFINE u == CHOOSE v : v = [k \in 0 .. n |-> IF k = 0 THEN start ELSE pop(v[k - 1])]
<1>8. u = [k \in 0 .. n |-> IF k = 0 THEN start ELSE pop(u[k - 1])]
  BY <1>7, Zenon
<1>9. PopUpTo(f, n) = u[n]
  BY Zenon DEF PopUpTo, start
<1> HIDE DEF u
<1>10. \A k \in 0 .. n : u[k] = IF k = 0 THEN start ELSE pop(u[k - 1])
  BY <1>8, Zenon
<1>11. 0 \in 0 .. n /\ \A k \in 1 .. n : k \in 0 .. n /\ k # 0
  OBVIOUS
<1>12. u[0] = start /\ \A k \in 1 .. n : u[k] = pop(u[k - 1])
  BY <1>10, <1>11
<1> QED BY <1>9, <1>12, Zenon DEF start

\* p has got the first n samples of f, or all, and its FIFO has the others.
Taken(f, c, n, p) ==
  /\ p.got \in Seq(Nat)
  /\ Len(p.got) = IF n < f.len THEN n ELSE f.len
  /\ RingOK(p.fifo, c)
  /\ p.fifo.len = f.len - Len(p.got)
  /\ \A k \in 1 .. Len(p.got) : p.got[k] = Contents(f)[k]
  /\ \A k \in 1 .. p.fifo.len : Contents(p.fifo)[k] = Contents(f)[Len(p.got) + k]

(***************************************************************************)
(* n calls of pop get the n oldest samples, or all if there are fewer, and *)
(* leave the others.                                                       *)
(***************************************************************************)
LEMMA PopUpToTakes ==
  ASSUME NEW c \in Nat \ {0}, NEW f, RingOK(f, c), NEW n \in Nat
  PROVE  Taken(f, c, n, PopUpTo(f, n))
<1>1. f \in Rings(c) /\ f.len \in Nat
  BY DEF RingOK, Rings
<1>2. PICK t : /\ t[0] = [fifo |-> f, got |-> <<>>]
               /\ \A k \in 1 .. n : t[k] = pop(t[k - 1])
               /\ PopUpTo(f, n) = t[n]
  BY <1>1, PopUpToRuns
<1> DEFINE Good == {i \in 0 .. n : Taken(f, c, i, t[i])}
<1>3. 0 \in Good
  <2>1. t[0].fifo = f /\ t[0].got = <<>> /\ Len(<<>>) = 0 /\ <<>> \in Seq(Nat)
    BY <1>2
  <2>2. Taken(f, c, 0, t[0])
    BY <1>1, <2>1 DEF Taken
  <2> QED BY <2>2
<1>4. ASSUME NEW i \in 1 .. n, i - 1 \in Good PROVE i \in Good
  <2> DEFINE x == t[i - 1]
  <2>1. Taken(f, c, i - 1, x) /\ t[i] = pop(x)
    BY <1>2, <1>4
  <2> HIDE DEF x
  <2>2. CASE x.fifo.len = 0
    <3>1. t[i] = x
      BY <2>1, <2>2 DEF pop
    <3>2. Len(x.got) = IF i < f.len THEN i ELSE f.len
      BY <1>1, <2>1, <2>2 DEF Taken
    <3> QED BY <2>1, <3>1, <3>2 DEF Taken
  <2>3. CASE x.fifo.len # 0
    <3>1. /\ RingOK(t[i].fifo, c)
          /\ t[i].fifo.len = x.fifo.len - 1
          /\ \A k \in 1 .. (x.fifo.len - 1) : Contents(t[i].fifo)[k] = Contents(x.fifo)[k + 1]
          /\ t[i].got = Append(x.got, Contents(x.fifo)[1])
          /\ Contents(x.fifo)[1] \in Nat
      BY <2>1, <2>3, PopTakes DEF Taken
    <3> DEFINE l == Len(x.got)
    <3>2. l \in Nat /\ x.fifo.len = f.len - l /\ l < f.len /\ l = i - 1 /\ i <= f.len
      BY <1>1, <2>1, <2>3 DEF Taken
    <3>3. Contents(x.fifo)[1] = Contents(f)[l + 1]
      <4>1. 1 \in 1 .. x.fifo.len
        BY <1>1, <3>2
      <4> QED BY <2>1, <4>1 DEF Taken
    <3>4. /\ t[i].got \in Seq(Nat) /\ Len(t[i].got) = l + 1
          /\ t[i].got[l + 1] = Contents(f)[l + 1]
          /\ \A k \in 1 .. l : t[i].got[k] = x.got[k]
      BY <2>1, <3>1, <3>3 DEF Taken
    <3> HIDE DEF l
    <3>5. Len(t[i].got) = IF i < f.len THEN i ELSE f.len
      BY <1>1, <3>2, <3>4
    <3>6. t[i].fifo.len = f.len - Len(t[i].got)
      BY <1>1, <3>1, <3>2, <3>4
    <3>7. ASSUME NEW k \in 1 .. Len(t[i].got) PROVE t[i].got[k] = Contents(f)[k]
      <4>1. k \in 1 .. l \/ k = l + 1
        BY <3>2, <3>4
      <4> QED BY <2>1, <3>4, <4>1 DEF Taken, l
    <3>8. ASSUME NEW k \in 1 .. t[i].fifo.len
          PROVE  Contents(t[i].fifo)[k] = Contents(f)[Len(t[i].got) + k]
      <4>1. /\ k \in 1 .. (x.fifo.len - 1) /\ k + 1 \in 1 .. x.fifo.len
            /\ l + (k + 1) = Len(t[i].got) + k
        BY <1>1, <3>1, <3>2, <3>4
      <4>2. Contents(x.fifo)[k + 1] = Contents(f)[l + (k + 1)]
        BY <2>1, <4>1 DEF Taken, l
      <4> QED BY <3>1, <4>1, <4>2
    <3>9. Taken(f, c, i, t[i])
      BY <3>1, <3>4, <3>5, <3>6, <3>7, <3>8 DEF Taken
    <3> QED BY <3>9
  <2> QED BY <2>2, <2>3
<1>5. n \in Good
  <2> HIDE DEF Good
  <2>1. \A i \in 0 .. n : i \in Good
    BY <1>3, <1>4, UpTo
  <2> QED BY <2>1
<1> QED BY <1>2, <1>5

-----------------------------------------------------------------------------
(* The stream.  StreamIntact said of the two FIFOs one by one: a is what   *)
(* the output FIFO holds in its m places, b what the input FIFO holds in n. *)

Intact(a, m, b, n, d, g) ==
  /\ \A k \in 1 .. n : b[k] # Silence /\ d < b[k] /\ b[k] <= g
  /\ \A k \in 1 .. m : a[k] # Silence => d < a[k] /\ a[k] <= g
  /\ \A j, k \in 1 .. n : j < k => b[j] < b[k]
  /\ \A j, k \in 1 .. m : j < k /\ a[j] # Silence /\ a[k] # Silence => a[j] < a[k]
  /\ \A j \in 1 .. m, k \in 1 .. n : a[j] # Silence => a[j] < b[k]

Complete(a, m, b, n, d, g) ==
  \A s \in (d + 1) .. g : (\E k \in 1 .. m : a[k] = s) \/ (\E k \in 1 .. n : b[k] = s)

Numbers(a, m) == m \in Nat /\ a \in [1 .. m -> Nat]

\* Silence at the end of the output, and the first of the samples that the host
\* gives at the end of the input.
Given(a, m, b, n, g, a2, m2, b2, n2, g2) ==
  /\ Numbers(a, m) /\ Numbers(b, n) /\ Numbers(a2, m2) /\ Numbers(b2, n2)
  /\ m <= m2 /\ n <= n2 /\ g \in Nat /\ g2 \in Nat /\ n2 - n <= g2 - g
  /\ \A k \in 1 .. m : a2[k] = a[k]
  /\ \A k \in (m + 1) .. m2 : a2[k] = Silence
  /\ \A k \in 1 .. n : b2[k] = b[k]
  /\ \A k \in (n + 1) .. n2 : b2[k] = g + (k - n)

LEMMA GivenIntact ==
  ASSUME NEW a, NEW m, NEW b, NEW n, NEW g, NEW a2, NEW m2, NEW b2, NEW n2, NEW g2,
         Given(a, m, b, n, g, a2, m2, b2, n2, g2),
         NEW d \in Nat, d <= g, Intact(a, m, b, n, d, g)
  PROVE  /\ Intact(a2, m2, b2, n2, d, g2)
         /\ n2 - n = g2 - g /\ Complete(a, m, b, n, d, g) => Complete(a2, m2, b2, n2, d, g2)
<1> USE DEF Given, Numbers
<1>1. ASSUME NEW k \in 1 .. m2
      PROVE  (k \in 1 .. m /\ a2[k] = a[k]) \/ (k > m /\ a2[k] = Silence)
  OBVIOUS
<1>2. ASSUME NEW k \in 1 .. n2
      PROVE  (k \in 1 .. n /\ b2[k] = b[k]) \/ (k > n /\ b2[k] = g + (k - n))
  OBVIOUS
<1>3. ASSUME NEW k \in 1 .. n2
      PROVE  b2[k] # Silence /\ d < b2[k] /\ b2[k] <= g2
  <2>1. CASE k <= n
    <3>1. k \in 1 .. n /\ b2[k] = b[k] /\ b[k] \in Nat /\ g <= g2
      BY <2>1
    <3> QED BY <3>1 DEF Intact
  <2>2. CASE k > n
    <3>1. b2[k] = g + (k - n) /\ g + (k - n) > d /\ g + (k - n) <= g2
      BY <1>2, <2>2
    <3> QED BY <3>1 DEF Silence
  <2> QED BY <2>1, <2>2
<1>4. ASSUME NEW k \in 1 .. m2, a2[k] # Silence
      PROVE  d < a2[k] /\ a2[k] <= g2
  BY <1>1, <1>4 DEF Intact
<1>5. ASSUME NEW j \in 1 .. n2, NEW k \in 1 .. n2, j < k
      PROVE  b2[j] < b2[k]
  <2>1. CASE k <= n
    <3>1. j \in 1 .. n /\ k \in 1 .. n
      BY <1>5, <2>1
    <3> QED BY <1>5, <3>1 DEF Intact
  <2>2. CASE j <= n /\ k > n
    <3>1. j \in 1 .. n /\ b2[k] = g + (k - n)
      BY <1>2, <2>2
    <3>2. b2[j] = b[j] /\ b[j] <= g /\ b[j] \in Nat
      BY <3>1 DEF Intact
    <3> QED BY <2>2, <3>1, <3>2
  <2>3. CASE j > n
    <3>1. b2[j] = g + (j - n)
      BY <1>2, <2>3
    <3>2. b2[k] = g + (k - n)
      BY <1>2, <1>5, <2>3
    <3> QED BY <1>5, <3>1, <3>2
  <2> QED BY <2>1, <2>2, <2>3
<1>6. ASSUME NEW j \in 1 .. m2, NEW k \in 1 .. m2, j < k,
             a2[j] # Silence, a2[k] # Silence
      PROVE  a2[j] < a2[k]
  BY <1>1, <1>6 DEF Intact
<1>7. ASSUME NEW j \in 1 .. m2, NEW k \in 1 .. n2, a2[j] # Silence
      PROVE  a2[j] < b2[k]
  <2>1. j \in 1 .. m /\ a2[j] = a[j] /\ a[j] <= g
    BY <1>1, <1>7 DEF Intact
  <2>2. CASE k <= n
    <3>1. k \in 1 .. n
      BY <2>2
    <3> QED BY <1>7, <2>1, <3>1 DEF Intact
  <2>3. CASE k > n
    <3>1. b2[k] = g + (k - n)
      BY <1>2, <2>3
    <3>2. a[j] \in Nat
      BY <2>1
    <3> QED BY <2>1, <2>3, <3>1, <3>2
  <2> QED BY <2>2, <2>3
<1>8. ASSUME n2 - n = g2 - g, Complete(a, m, b, n, d, g), NEW s \in (d + 1) .. g2
      PROVE  (\E k \in 1 .. m2 : a2[k] = s) \/ (\E k \in 1 .. n2 : b2[k] = s)
  <2>1. CASE s <= g
    <3>1. s \in (d + 1) .. g
      BY <2>1
    <3>2. CASE \E k \in 1 .. m : a[k] = s
      <4>1. PICK k \in 1 .. m : a[k] = s
        BY <3>2
      <4>2. k \in 1 .. m2 /\ a2[k] = s
        BY <4>1
      <4> QED BY <4>2
    <3>3. CASE \E k \in 1 .. n : b[k] = s
      <4>1. PICK k \in 1 .. n : b[k] = s
        BY <3>3
      <4>2. k \in 1 .. n2 /\ b2[k] = s
        BY <4>1
      <4> QED BY <4>2
    <3> QED BY <1>8, <3>1, <3>2, <3>3 DEF Complete
  <2>2. CASE s > g
    <3> DEFINE k == n + (s - g)
    <3>1. k \in 1 .. n2 /\ k \in (n + 1) .. n2 /\ g + (k - n) = s
      BY <1>8, <2>2
    <3> HIDE DEF k
    <3>2. b2[k] = s
      BY <3>1
    <3> QED BY <3>1, <3>2
  <2> QED BY <2>1, <2>2
<1> QED BY <1>3, <1>4, <1>5, <1>6, <1>7, <1>8 DEF Intact, Complete

\* The first samples of the input leave it, and the first of them come to the
\* end of the output.
Moved(a, m, b, n, a2, m2, b2, n2) ==
  /\ Numbers(a, m) /\ Numbers(b, n) /\ Numbers(a2, m2) /\ Numbers(b2, n2)
  /\ m <= m2 /\ n2 <= n /\ m2 - m <= n - n2
  /\ \A k \in 1 .. m : a2[k] = a[k]
  /\ \A k \in (m + 1) .. m2 : a2[k] = b[k - m]
  /\ \A k \in 1 .. n2 : b2[k] = b[(n - n2) + k]

LEMMA MovedIntact ==
  ASSUME NEW a, NEW m, NEW b, NEW n, NEW a2, NEW m2, NEW b2, NEW n2,
         Moved(a, m, b, n, a2, m2, b2, n2),
         NEW d \in Nat, NEW g \in Nat, Intact(a, m, b, n, d, g)
  PROVE  /\ Intact(a2, m2, b2, n2, d, g)
         /\ m2 - m = n - n2 /\ Complete(a, m, b, n, d, g) => Complete(a2, m2, b2, n2, d, g)
<1> USE DEF Moved, Numbers
<1> DEFINE t == n - n2
<1>0. t \in 0 .. n /\ n2 = n - t /\ \A k \in 1 .. n2 : b2[k] = b[t + k]
  OBVIOUS
<1> HIDE DEF t
<1>1. ASSUME NEW k \in 1 .. m2
      PROVE  \/ k \in 1 .. m /\ a2[k] = a[k]
             \/ k > m /\ k - m \in 1 .. n /\ k - m <= t /\ a2[k] = b[k - m]
  BY <1>0
<1>2. ASSUME NEW k \in 1 .. n2
      PROVE  t + k \in 1 .. n /\ b2[k] = b[t + k]
  BY <1>0
<1>3. ASSUME NEW k \in 1 .. n2 PROVE b2[k] # Silence /\ d < b2[k] /\ b2[k] <= g
  BY <1>2 DEF Intact
<1>4. ASSUME NEW k \in 1 .. m2, a2[k] # Silence PROVE d < a2[k] /\ a2[k] <= g
  BY <1>1, <1>4 DEF Intact
<1>5. ASSUME NEW j \in 1 .. n2, NEW k \in 1 .. n2, j < k PROVE b2[j] < b2[k]
  BY <1>2, <1>5 DEF Intact
<1>6. ASSUME NEW j \in 1 .. m2, NEW k \in 1 .. m2, j < k,
             a2[j] # Silence, a2[k] # Silence
      PROVE  a2[j] < a2[k]
  <2>1. CASE k <= m
    <3>1. j \in 1 .. m /\ k \in 1 .. m
      BY <1>6, <2>1
    <3> QED BY <1>6, <3>1 DEF Intact
  <2>2. CASE j <= m /\ k > m
    <3>1. j \in 1 .. m /\ k - m \in 1 .. n /\ a2[k] = b[k - m]
      BY <1>1, <2>2
    <3>2. a2[j] = a[j]
      BY <3>1
    <3> QED BY <1>6, <3>1, <3>2 DEF Intact
  <2>3. CASE j > m
    <3>1. j - m \in 1 .. n /\ a2[j] = b[j - m]
      BY <1>1, <2>3
    <3>2. k - m \in 1 .. n /\ a2[k] = b[k - m] /\ j - m < k - m
      BY <1>1, <1>6, <2>3
    <3> QED BY <3>1, <3>2 DEF Intact
  <2> QED BY <2>1, <2>2, <2>3
<1>7. ASSUME NEW j \in 1 .. m2, NEW k \in 1 .. n2, a2[j] # Silence
      PROVE  a2[j] < b2[k]
  <2>1. t + k \in 1 .. n /\ b2[k] = b[t + k]
    BY <1>2
  <2>2. CASE j <= m
    <3>1. j \in 1 .. m /\ a2[j] = a[j]
      BY <2>2
    <3> QED BY <1>7, <2>1, <3>1 DEF Intact
  <2>3. CASE j > m
    <3>1. j - m \in 1 .. n /\ a2[j] = b[j - m] /\ j - m < t + k
      BY <1>0, <1>1, <2>3
    <3> QED BY <2>1, <3>1 DEF Intact
  <2> QED BY <2>2, <2>3
<1>8. ASSUME m2 - m = n - n2, Complete(a, m, b, n, d, g), NEW s \in (d + 1) .. g
      PROVE  (\E k \in 1 .. m2 : a2[k] = s) \/ (\E k \in 1 .. n2 : b2[k] = s)
  <2>1. CASE \E k \in 1 .. m : a[k] = s
    <3>1. PICK k \in 1 .. m : a[k] = s
      BY <2>1
    <3>2. k \in 1 .. m2 /\ a2[k] = s
      BY <3>1
    <3> QED BY <3>2
  <2>2. CASE \E k \in 1 .. n : b[k] = s
    <3>1. PICK k \in 1 .. n : b[k] = s
      BY <2>2
    <3>2. CASE k <= t
      <4> DEFINE i == m + k
      <4>1. i \in 1 .. m2 /\ i \in (m + 1) .. m2 /\ i - m = k
        BY <1>0, <1>8, <3>2
      <4> HIDE DEF i
      <4>2. a2[i] = s
        BY <3>1, <4>1
      <4> QED BY <4>1, <4>2
    <3>3. CASE k > t
      <4> DEFINE i == k - t
      <4>1. i \in 1 .. n2 /\ t + i = k
        BY <1>0, <3>3
      <4> HIDE DEF i
      <4>2. b2[i] = s
        BY <1>2, <3>1, <4>1
      <4> QED BY <4>1, <4>2
    <3> QED BY <1>0, <3>2, <3>3
  <2> QED BY <1>8, <2>1, <2>2 DEF Complete
<1> QED BY <1>3, <1>4, <1>5, <1>6, <1>7, <1>8 DEF Intact, Complete

\* d2 is the last sample of the stream in the first t places of a, or d.
IsLast(a, t, d, d2) ==
  \/ d2 = d /\ \A k \in 1 .. t : a[k] = Silence
  \/ \E j \in 1 .. t : /\ a[j] # Silence /\ d2 = a[j]
                       /\ \A k \in 1 .. t : a[k] # Silence => k <= j

\* The first samples of the output are delivered.
Delivered(a, m, d, a2, m2, d2) ==
  /\ Numbers(a, m) /\ Numbers(a2, m2) /\ m2 <= m
  /\ \A k \in 1 .. m2 : a2[k] = a[(m - m2) + k]
  /\ IsLast(a, m - m2, d, d2)

LEMMA DeliveredIntact ==
  ASSUME NEW a, NEW m, NEW b, NEW n, Numbers(b, n), NEW d \in Nat, NEW g \in Nat, d <= g,
         Intact(a, m, b, n, d, g),
         NEW a2, NEW m2, NEW d2, Delivered(a, m, d, a2, m2, d2)
  PROVE  /\ Intact(a2, m2, b, n, d2, g)
         /\ Complete(a, m, b, n, d, g) => Complete(a2, m2, b, n, d2, g)
         /\ d2 \in Nat /\ d <= d2 /\ d2 <= g
<1> USE DEF Delivered, Numbers
<1> DEFINE t == m - m2
<1>t. t \in 0 .. m /\ m2 = m - t /\ IsLast(a, t, d, d2) /\ \A k \in 1 .. m2 : a2[k] = a[t + k]
  OBVIOUS
<1> HIDE DEF t
<1>0. d2 \in Nat /\ d <= d2 /\ d2 <= g
  BY <1>t DEF IsLast, Intact
<1>1. ASSUME NEW k \in 1 .. m2
      PROVE  t + k \in 1 .. m /\ a2[k] = a[t + k]
  BY <1>t
<1>2. ASSUME NEW k \in 1 .. m, k > t, a[k] # Silence PROVE d2 < a[k]
  BY <1>t, <1>2 DEF IsLast, Intact
<1>3. ASSUME NEW k \in 1 .. n PROVE b[k] # Silence /\ d2 < b[k] /\ b[k] <= g
  BY <1>t DEF IsLast, Intact
<1>4. ASSUME NEW k \in 1 .. m2, a2[k] # Silence PROVE d2 < a2[k] /\ a2[k] <= g
  <2>1. t + k \in 1 .. m /\ t + k > t /\ a[t + k] = a2[k]
    BY <1>t, <1>1
  <2> QED BY <1>2, <1>4, <2>1 DEF Intact
<1>5. ASSUME NEW j \in 1 .. n, NEW k \in 1 .. n, j < k PROVE b[j] < b[k]
  BY <1>5 DEF Intact
<1>6. ASSUME NEW j \in 1 .. m2, NEW k \in 1 .. m2, j < k,
             a2[j] # Silence, a2[k] # Silence
      PROVE  a2[j] < a2[k]
  BY <1>1, <1>6 DEF Intact
<1>7. ASSUME NEW j \in 1 .. m2, NEW k \in 1 .. n, a2[j] # Silence
      PROVE  a2[j] < b[k]
  BY <1>1, <1>7 DEF Intact
<1>8. ASSUME Complete(a, m, b, n, d, g), NEW s \in (d2 + 1) .. g
      PROVE  (\E k \in 1 .. m2 : a2[k] = s) \/ (\E k \in 1 .. n : b[k] = s)
  <2>1. s \in (d + 1) .. g
    BY <1>0
  <2>2. CASE \E k \in 1 .. m : a[k] = s
    <3>1. PICK k \in 1 .. m : a[k] = s
      BY <2>2
    <3>2. a[k] # Silence /\ a[k] > d2
      BY <1>0, <3>1 DEF Silence
    <3>3. k > t
      <4> SUFFICES ASSUME k \in 1 .. t PROVE FALSE
        BY <1>t
      <4>1. PICK j \in 1 .. t : /\ a[j] # Silence /\ d2 = a[j]
                                /\ \A i \in 1 .. t : a[i] # Silence => i <= j
        BY <1>t, <3>2 DEF IsLast
      <4>2. k <= j /\ k # j /\ j \in 1 .. m
        BY <1>t, <3>2, <4>1
      <4>3. a[k] < a[j]
        BY <3>2, <4>1, <4>2 DEF Intact
      <4> QED BY <1>0, <3>2, <4>1, <4>3
    <3>4. k - t \in 1 .. m2 /\ t + (k - t) = k
      BY <1>t, <3>3
    <3>5. a2[k - t] = s
      BY <1>t, <3>1, <3>4
    <3> QED BY <3>4, <3>5
  <2> QED BY <1>8, <2>1, <2>2 DEF Complete
<1> QED BY <1>0, <1>3, <1>4, <1>5, <1>6, <1>7, <1>8 DEF Intact, Complete

-----------------------------------------------------------------------------
(* The inductive invariant                                                 *)

AdapterBuilt ==
  /\ target_block_size \in Nat \ {0}
  /\ capacity \in Nat \ {0} /\ capacity >= 2 * target_block_size
  /\ RingOK(input_fifo, capacity) /\ RingOK(output_fifo, capacity)
  /\ host_quantum \in Nat /\ latency_samples \in Nat

\* Complete blocks are in the input FIFO only while a call processes them.
CallInv ==
  /\ call \in [in : {"nothing", "flush", "process"}, outputs : Nat]
  /\ call.in # "process" => call.outputs = 0 /\ input_fifo.len < target_block_size
  /\ call.in = "flush" => input_fifo.len = 0

\* The counters of the report; underrun is set when the call returns.
ReportInv ==
  /\ report \in [accepted_input : Nat, dropped_input : Nat, dsp_blocks : Nat,
                 dropped_output : Nat, underrun : Nat, latency_added : Nat]
  /\ call.in = "process" => report.underrun = 0

IntactNow ==
  /\ given \in Nat /\ delivered \in Nat /\ delivered <= given /\ lost \in BOOLEAN
  /\ Intact(Contents(output_fifo), output_fifo.len, Contents(input_fifo), input_fifo.len,
            delivered, given)
  /\ ~lost => Complete(Contents(output_fifo), output_fifo.len,
                       Contents(input_fifo), input_fifo.len, delivered, given)

StreamInv == AdapterBuilt /\ CallInv /\ ReportInv /\ IntactNow

LEMMA IntactIsEnough == AdapterBuilt /\ IntactNow => StreamIntact
<1> SUFFICES ASSUME AdapterBuilt, IntactNow PROVE StreamIntact
  OBVIOUS
<1> DEFINE a == Contents(output_fifo)
           b == Contents(input_fifo)
           m == output_fifo.len
           n == input_fifo.len
           inside == a \o b
<1>1. m \in Nat /\ n \in Nat /\ a \in [1 .. m -> Nat] /\ b \in [1 .. n -> Nat]
  <2>1. capacity \in Nat \ {0} /\ RingOK(output_fifo, capacity) /\ RingOK(input_fifo, capacity)
    BY DEF AdapterBuilt
  <2>2. m \in Nat /\ n \in Nat
    BY <2>1 DEF RingOK, Rings
  <2> QED BY <2>1, <2>2, ContentsOf
<1>2. /\ Intact(a, m, b, n, delivered, given) /\ delivered \in Nat /\ given \in Nat
      /\ ~lost => Complete(a, m, b, n, delivered, given)
  BY DEF IntactNow
<1> HIDE DEF a, b, m, n
<1>3. /\ Len(a) = m /\ Len(b) = n /\ DOMAIN inside = 1 .. (m + n) /\ DOMAIN b = 1 .. n
      /\ \A k \in 1 .. (m + n) : inside[k] = IF k <= m THEN a[k] ELSE b[k - m]
  <2>1. a \in Seq(Nat) /\ b \in Seq(Nat) /\ Len(a) = m /\ Len(b) = n /\ DOMAIN b = 1 .. n
    BY <1>1
  <2>2. /\ inside \in Seq(Nat) /\ Len(inside) = Len(a) + Len(b)
        /\ \A k \in 1 .. Len(inside) : inside[k] = IF k <= Len(a) THEN a[k] ELSE b[k - Len(a)]
    BY <2>1, ConcatProperties
  <2> HIDE DEF inside
  <2> QED BY <2>1, <2>2
<1> HIDE DEF inside
<1>4. ASSUME NEW k \in Real(inside)
      PROVE  /\ k \in 1 .. (m + n)
             /\ \/ k \in 1 .. m /\ inside[k] = a[k] /\ a[k] # Silence
                \/ k > m /\ k - m \in 1 .. n /\ inside[k] = b[k - m]
  BY <1>1, <1>3 DEF Real
<1>5. Real(b) = DOMAIN b
  BY <1>2, <1>3 DEF Real, Intact
<1>6. ASSUME NEW k \in Real(inside) PROVE delivered < inside[k] /\ inside[k] <= given
  BY <1>2, <1>4 DEF Intact
<1>7. ASSUME NEW j \in Real(inside), NEW k \in Real(inside), j < k
      PROVE  inside[j] < inside[k]
  <2>1. CASE k \in 1 .. m
    <3>1. j \in 1 .. m /\ inside[j] = a[j] /\ a[j] # Silence
      BY <1>1, <1>4, <1>7, <2>1
    <3>2. inside[k] = a[k] /\ a[k] # Silence
      BY <1>1, <1>4, <2>1
    <3> QED BY <1>2, <1>7, <2>1, <3>1, <3>2 DEF Intact
  <2>2. CASE k \notin 1 .. m
    <3>1. k - m \in 1 .. n /\ inside[k] = b[k - m]
      BY <1>4, <2>2
    <3>2. CASE j \in 1 .. m
      <4>1. inside[j] = a[j] /\ a[j] # Silence
        BY <1>1, <1>4, <3>2
      <4> QED BY <1>2, <3>1, <3>2, <4>1 DEF Intact
    <3>3. CASE j \notin 1 .. m
      <4>1. j - m \in 1 .. n /\ inside[j] = b[j - m]
        BY <1>4, <3>3
      <4>2. j - m < k - m
        BY <1>1, <1>4, <1>7
      <4> QED BY <1>2, <3>1, <4>1, <4>2 DEF Intact
    <3> QED BY <3>2, <3>3
  <2> QED BY <2>1, <2>2
<1>8. ASSUME ~lost, NEW s \in (delivered + 1) .. given
      PROVE  \E k \in Real(inside) : inside[k] = s
  <2>1. s # Silence
    BY <1>2 DEF Silence
  <2>2. CASE \E k \in 1 .. m : a[k] = s
    <3>1. PICK k \in 1 .. m : a[k] = s
      BY <2>2
    <3>2. k \in 1 .. (m + n) /\ inside[k] = s
      BY <1>1, <1>3, <3>1
    <3> QED BY <1>3, <2>1, <3>2 DEF Real
  <2>3. CASE \E k \in 1 .. n : b[k] = s
    <3>1. PICK k \in 1 .. n : b[k] = s
      BY <2>3
    <3>2. m + k \in 1 .. (m + n) /\ ~(m + k <= m) /\ (m + k) - m = k
      BY <1>1
    <3>3. inside[m + k] = s
      BY <1>3, <3>1, <3>2
    <3> QED BY <1>3, <2>1, <3>2, <3>3 DEF Real
  <2> QED BY <1>2, <1>8, <2>2, <2>3 DEF Complete
<1> QED BY <1>5, <1>6, <1>7, <1>8 DEF StreamIntact, a, b, inside

-----------------------------------------------------------------------------
(* Start                                                                   *)

\* The lengths of the two FIFOs, and what they hold.
LEMMA FifoFacts ==
  ASSUME AdapterBuilt
  PROVE  /\ input_fifo.len \in 0 .. capacity /\ output_fifo.len \in 0 .. capacity
         /\ Contents(input_fifo) \in [1 .. input_fifo.len -> Nat]
         /\ Contents(output_fifo) \in [1 .. output_fifo.len -> Nat]
<1>1. capacity \in Nat \ {0} /\ RingOK(output_fifo, capacity) /\ RingOK(input_fifo, capacity)
  BY DEF AdapterBuilt
<1>2. input_fifo.len \in 0 .. capacity /\ output_fifo.len \in 0 .. capacity
  BY <1>1 DEF RingOK, Rings
<1> QED BY <1>1, <1>2, ContentsOf

\* The reserve is less than a block.
LEMMA ReserveRange ==
  ASSUME AdapterBuilt, NEW n \in Nat
  PROVE  Adapter!RequiredReserve(n) \in 0 .. (target_block_size - 1)
<1> DEFINE D == target_block_size
           gcd == Adapter!greatest_common_divisor(n, D)
<1>1. D \in Nat \ {0}
  BY DEF AdapterBuilt
<1>2. gcd = Arithmetic!greatest_common_divisor(n, D)
  <2>1. Adapter!Euclid = Arithmetic!Euclid
    BY DEF Adapter!Euclid, Arithmetic!Euclid
  <2> QED BY <2>1 DEF Adapter!greatest_common_divisor, Arithmetic!greatest_common_divisor
<1> HIDE DEF gcd, D
<1>3. gcd \in Arithmetic!CommonDivisors(n, D)
  BY <1>1, <1>2, Arithmetic!EuclidDivides, StreamAssumption
<1>4. gcd \in Nat \ {0} /\ Arithmetic!Divides(gcd, D)
  BY <1>3 DEF Arithmetic!CommonDivisors
<1>5. gcd <= D
  BY <1>1, <1>4, Arithmetic!DivisorIsLess, StreamAssumption
<1>6. Adapter!RequiredReserve(n) = D - gcd \/ Adapter!RequiredReserve(n) = D - 1
  BY DEF Adapter!RequiredReserve, gcd, D
<1>7. Adapter!RequiredReserve(n) \in 0 .. (D - 1)
  BY <1>1, <1>4, <1>5, <1>6
<1> QED BY <1>7 DEF D

\* The silence that prime_for_quantum wants to insert, and the host's block.
Needed(n) ==
  IF Adapter!Primes(n) THEN Max({0, Adapter!RequiredReserve(n) - output_fifo.len}) ELSE 0

Block(n) == [k \in 1 .. n |-> given + k]

\* There is always room for it.
LEMMA NeededFits ==
  ASSUME AdapterBuilt, NEW n \in Nat
  PROVE  /\ Needed(n) \in Nat /\ Needed(n) <= capacity - output_fifo.len
         /\ Needed(n) = IF Adapter!Primes(n) /\ Adapter!RequiredReserve(n) > output_fifo.len
                        THEN Adapter!RequiredReserve(n) - output_fifo.len ELSE 0
<1> DEFINE r == Adapter!RequiredReserve(n)
<1>1. /\ r \in 0 .. (target_block_size - 1) /\ output_fifo.len \in 0 .. capacity
      /\ target_block_size \in Nat /\ capacity \in Nat /\ capacity >= 2 * target_block_size
  BY ReserveRange, FifoFacts DEF AdapterBuilt
<1> HIDE DEF r
<1>2. r - output_fifo.len \in Int
  BY <1>1
<1>3. \A x \in Int : Max({0, x}) = IF 0 < x THEN x ELSE 0
  BY MaxOfTwo
<1>4. Max({0, r - output_fifo.len})
        = IF 0 < r - output_fifo.len THEN r - output_fifo.len ELSE 0
  BY <1>2, <1>3
<1>5. Needed(n) = IF Adapter!Primes(n) /\ r > output_fifo.len THEN r - output_fifo.len ELSE 0
  BY <1>1, <1>4 DEF Needed, r
<1> QED BY <1>1, <1>5 DEF r

(***************************************************************************)
(* What Start does: the silence goes to the end of the output, all of it;  *)
(* what there is room for of the host's block goes to the end of the input. *)
(***************************************************************************)
LEMMA StartEffect ==
  ASSUME StreamInv, NEW nIn \in Nat, NEW nOut \in Nat, Start(nIn, nOut)
  PROVE  /\ AdapterBuilt' /\ IntactNow'
         /\ output_fifo'.len = output_fifo.len + Needed(nOut)
         /\ \E accepted \in Nat :
              /\ accepted = IF nIn < capacity - input_fifo.len
                            THEN nIn ELSE capacity - input_fifo.len
              /\ input_fifo'.len = input_fifo.len + accepted
              /\ report' = [accepted_input |-> accepted, dropped_input |-> nIn - accepted,
                            dsp_blocks |-> 0, dropped_output |-> 0, underrun |-> 0,
                            latency_added |-> Needed(nOut)]
<1> DEFINE z == Needed(nOut)
           zeros == [k \in 1 .. z |-> Silence]
           primed == push_slice(output_fifo, zeros)
           pushed == push_slice(input_fifo, Block(nIn))
           m == output_fifo.len
           n == input_fifo.len
           w == pushed.accepted
<1>1. /\ capacity \in Nat \ {0} /\ target_block_size \in Nat \ {0}
      /\ RingOK(input_fifo, capacity) /\ RingOK(output_fifo, capacity)
      /\ AdapterBuilt /\ given \in Nat /\ delivered \in Nat /\ delivered <= given
      /\ lost \in BOOLEAN /\ host_quantum \in Nat /\ latency_samples \in Nat
      /\ Intact(Contents(output_fifo), m, Contents(input_fifo), n, delivered, given)
      /\ ~lost => Complete(Contents(output_fifo), m, Contents(input_fifo), n, delivered, given)
  BY DEF StreamInv, AdapterBuilt, IntactNow
<1>2. /\ m \in 0 .. capacity /\ n \in 0 .. capacity
      /\ Contents(input_fifo) \in [1 .. n -> Nat]
      /\ Contents(output_fifo) \in [1 .. m -> Nat]
  BY <1>1, FifoFacts
<1>3. z \in Nat /\ z <= capacity - m
  BY <1>1, NeededFits
<1>4. /\ output_fifo' = primed.fifo /\ input_fifo' = pushed.fifo
      /\ report' = [Adapter!NoReport EXCEPT !.latency_added = primed.accepted,
                                           !.accepted_input = pushed.accepted,
                                           !.dropped_input = nIn - pushed.accepted]
      /\ given' = given + nIn /\ delivered' = delivered
      /\ lost' = (lost \/ pushed.accepted < nIn)
      /\ UNCHANGED <<target_block_size, capacity>>
  BY Zenon DEF Start, Needed, Block, push_zeros
<1>5. host_quantum' \in Nat /\ latency_samples' \in Nat
  <2> DEFINE r == Adapter!RequiredReserve(nOut)
  <2>1. r \in Nat
    BY <1>1, ReserveRange
  <2>2. \/ host_quantum' = nOut /\ latency_samples' = Max({latency_samples, r})
        \/ host_quantum' = host_quantum /\ latency_samples' = latency_samples
    BY DEF Start
  <2> HIDE DEF r
  <2>3. latency_samples \in Int /\ r \in Int
    BY <1>1, <2>1
  <2>4. Max({latency_samples, r}) = IF latency_samples < r THEN r ELSE latency_samples
    BY <2>3, MaxOfTwo
  <2>5. Max({latency_samples, r}) \in Nat
    BY <1>1, <2>1, <2>4
  <2> QED BY <1>1, <2>2, <2>5
<1> HIDE DEF z
<1>6. /\ zeros \in Seq(Nat) /\ Len(zeros) = z /\ \A k \in 1 .. z : zeros[k] = Silence
      /\ Block(nIn) \in Seq(Nat) /\ Len(Block(nIn)) = nIn
      /\ \A k \in 1 .. nIn : Block(nIn)[k] = given + k
  <2>1. zeros \in [1 .. z -> Nat] /\ Block(nIn) \in [1 .. nIn -> Nat]
    BY <1>1 DEF Block, Silence
  <2> QED BY <1>3, <2>1 DEF Block
<1> HIDE DEF zeros
<1>7. /\ primed.accepted \in Nat
      /\ primed.accepted = IF Len(zeros) < capacity - m THEN Len(zeros) ELSE capacity - m
      /\ RingOK(primed.fifo, capacity)
      /\ primed.fifo.len = m + primed.accepted
      /\ \A k \in 1 .. m : Contents(primed.fifo)[k] = Contents(output_fifo)[k]
      /\ \A k \in 1 .. primed.accepted : Contents(primed.fifo)[m + k] = zeros[k]
  <2>1. Appended(output_fifo, capacity, zeros, primed)
    BY <1>1, <1>6, PushAppends
  <2> QED BY <2>1, Zenon DEF Appended
<1>8. /\ w \in Nat
      /\ w = IF Len(Block(nIn)) < capacity - n THEN Len(Block(nIn)) ELSE capacity - n
      /\ RingOK(pushed.fifo, capacity)
      /\ pushed.fifo.len = n + w
      /\ \A k \in 1 .. n : Contents(pushed.fifo)[k] = Contents(input_fifo)[k]
      /\ \A k \in 1 .. w : Contents(pushed.fifo)[n + k] = Block(nIn)[k]
  <2>1. Appended(input_fifo, capacity, Block(nIn), pushed)
    BY <1>1, <1>6, PushAppends
  <2> QED BY <2>1, Zenon DEF Appended
<1> HIDE DEF primed, pushed, m, n, w
<1>9. primed.accepted = z
  BY <1>2, <1>3, <1>6, <1>7
<1>10. w \in 0 .. nIn /\ w = IF nIn < capacity - n THEN nIn ELSE capacity - n
  BY <1>1, <1>2, <1>6, <1>8
<1>11. AdapterBuilt'
  BY <1>1, <1>4, <1>5, <1>7, <1>8 DEF AdapterBuilt
<1>12. /\ Contents(primed.fifo) \in [1 .. (m + z) -> Nat]
       /\ Contents(pushed.fifo) \in [1 .. (n + w) -> Nat]
  <2>1. Contents(primed.fifo) \in [1 .. primed.fifo.len -> Nat]
    BY <1>1, <1>7, ContentsOf
  <2>2. Contents(pushed.fifo) \in [1 .. pushed.fifo.len -> Nat]
    BY <1>1, <1>8, ContentsOf
  <2> QED BY <1>7, <1>8, <1>9, <2>1, <2>2
<1>13. /\ Intact(Contents(primed.fifo), m + z, Contents(pushed.fifo), n + w,
                 delivered, given + nIn)
       /\ ~lost /\ ~(w < nIn)
            => Complete(Contents(primed.fifo), m + z, Contents(pushed.fifo), n + w,
                        delivered, given + nIn)
  <2>1. m \in Nat /\ n \in Nat
    BY <1>1, <1>2
  <2> DEFINE a == Contents(output_fifo)
             b == Contents(input_fifo)
             a2 == Contents(primed.fifo)
             b2 == Contents(pushed.fifo)
             m2 == m + z
             n2 == n + w
             g2 == given + nIn
  <2>2. ASSUME NEW k \in (m + 1) .. m2 PROVE a2[k] = Silence
    <3>1. k - m \in 1 .. z /\ m + (k - m) = k
      BY <1>3, <2>1
    <3> QED BY <1>6, <1>7, <1>9, <3>1
  <2>3. ASSUME NEW k \in (n + 1) .. n2 PROVE b2[k] = given + (k - n)
    <3>1. k - n \in 1 .. w /\ k - n \in 1 .. nIn /\ n + (k - n) = k
      BY <1>10, <2>1
    <3> QED BY <1>6, <1>8, <3>1
  <2>4. /\ a \in [1 .. m -> Nat] /\ b \in [1 .. n -> Nat]
        /\ a2 \in [1 .. m2 -> Nat] /\ b2 \in [1 .. n2 -> Nat]
        /\ \A k \in 1 .. m : a2[k] = a[k]
        /\ \A k \in 1 .. n : b2[k] = b[k]
        /\ Intact(a, m, b, n, delivered, given)
        /\ ~lost => Complete(a, m, b, n, delivered, given)
    BY <1>1, <1>2, <1>7, <1>8, <1>12
  <2>5. /\ m2 \in Nat /\ n2 \in Nat /\ m <= m2 /\ n <= n2 /\ g2 \in Nat /\ n2 - n <= g2 - given
        /\ ~(w < nIn) => n2 - n = g2 - given
    BY <1>1, <1>3, <1>10, <2>1
  <2> HIDE DEF a, b, a2, b2, m2, n2, g2
  <2>6. Given(a, m, b, n, given, a2, m2, b2, n2, g2)
    BY <1>1, <2>1, <2>2, <2>3, <2>4, <2>5 DEF Given, Numbers
  <2>7. /\ Intact(a2, m2, b2, n2, delivered, g2)
        /\ n2 - n = g2 - given /\ Complete(a, m, b, n, delivered, given)
             => Complete(a2, m2, b2, n2, delivered, g2)
    BY <1>1, <2>4, <2>6, GivenIntact
  <2> QED BY <2>4, <2>5, <2>7, Zenon DEF a2, b2, m2, n2, g2
<1>14. IntactNow'
  <2>1. given' \in Nat /\ delivered' \in Nat /\ delivered' <= given' /\ lost' \in BOOLEAN
    BY <1>1, <1>4
  <2>2. /\ Intact(Contents(output_fifo'), output_fifo'.len,
                  Contents(input_fifo'), input_fifo'.len, delivered', given')
        /\ ~lost' => Complete(Contents(output_fifo'), output_fifo'.len,
                              Contents(input_fifo'), input_fifo'.len, delivered', given')
    BY <1>4, <1>7, <1>8, <1>9, <1>13 DEF w
  <2> QED BY <2>1, <2>2 DEF IntactNow
<1>15. report' = [accepted_input |-> w, dropped_input |-> nIn - w,
                  dsp_blocks |-> 0, dropped_output |-> 0, underrun |-> 0,
                  latency_added |-> z]
  BY <1>4, <1>9 DEF Adapter!NoReport, w
<1> QED BY <1>4, <1>7, <1>8, <1>9, <1>10, <1>11, <1>14, <1>15 DEF z, m, n

-----------------------------------------------------------------------------
(* DspBlock and FlushRemainder move samples from the input to the output,  *)
(* Return and FlushReturn take them out.                                   *)

LEMMA MoveEffect ==
  ASSUME StreamInv, NEW t \in 0 .. input_fifo.len,
         NEW popped, popped = PopUpTo(input_fifo, t),
         NEW pushed, pushed = push_slice(output_fifo, popped.got)
  PROVE  /\ RingOK(popped.fifo, capacity) /\ RingOK(pushed.fifo, capacity)
         /\ Len(popped.got) = t /\ popped.fifo.len = input_fifo.len - t
         /\ pushed.accepted \in Nat
         /\ pushed.accepted = IF t < capacity - output_fifo.len
                              THEN t ELSE capacity - output_fifo.len
         /\ pushed.fifo.len = output_fifo.len + pushed.accepted
         /\ Intact(Contents(pushed.fifo), pushed.fifo.len,
                   Contents(popped.fifo), popped.fifo.len, delivered, given)
         /\ ~lost /\ pushed.accepted = t
              => Complete(Contents(pushed.fifo), pushed.fifo.len,
                          Contents(popped.fifo), popped.fifo.len, delivered, given)
<1> DEFINE m == output_fifo.len
           n == input_fifo.len
           a == Contents(output_fifo)
           b == Contents(input_fifo)
           w == pushed.accepted
<1>1. /\ capacity \in Nat \ {0} /\ AdapterBuilt
      /\ RingOK(input_fifo, capacity) /\ RingOK(output_fifo, capacity)
      /\ given \in Nat /\ delivered \in Nat
      /\ Intact(a, m, b, n, delivered, given)
      /\ ~lost => Complete(a, m, b, n, delivered, given)
  BY DEF StreamInv, AdapterBuilt, IntactNow
<1>2. /\ m \in 0 .. capacity /\ n \in 0 .. capacity
      /\ b \in [1 .. n -> Nat] /\ a \in [1 .. m -> Nat]
  BY <1>1, FifoFacts
<1>3. t \in Nat /\ t <= n
  BY <1>2
<1>4. Taken(input_fifo, capacity, t, popped)
  BY <1>1, <1>3, PopUpToTakes
<1>5. Appended(output_fifo, capacity, popped.got, pushed)
  <2>1. popped.got \in Seq(Nat)
    BY <1>4 DEF Taken
  <2> QED BY <1>1, <2>1, PushAppends
<1> HIDE DEF m, n, a, b, w
<1>6. /\ Len(popped.got) = t /\ RingOK(popped.fifo, capacity) /\ popped.fifo.len = n - t
      /\ \A k \in 1 .. t : popped.got[k] = b[k]
      /\ \A k \in 1 .. popped.fifo.len : Contents(popped.fifo)[k] = b[t + k]
  <2>1. Len(popped.got) = IF t < n THEN t ELSE n
    BY <1>4 DEF Taken, n
  <2>2. Len(popped.got) = t
    BY <1>2, <1>3, <2>1
  <2> QED BY <1>4, <2>2 DEF Taken, n, b
<1>7. /\ w \in Nat /\ w = IF t < capacity - m THEN t ELSE capacity - m
      /\ RingOK(pushed.fifo, capacity) /\ pushed.fifo.len = m + w
      /\ \A k \in 1 .. m : Contents(pushed.fifo)[k] = a[k]
      /\ \A k \in 1 .. w : Contents(pushed.fifo)[m + k] = popped.got[k]
  BY <1>5, <1>6, Zenon DEF Appended, m, a, w
<1> DEFINE a2 == Contents(pushed.fifo)
           b2 == Contents(popped.fifo)
           m2 == pushed.fifo.len
           n2 == popped.fifo.len
<1>8. a2 \in [1 .. m2 -> Nat] /\ b2 \in [1 .. n2 -> Nat]
  BY <1>1, <1>6, <1>7, ContentsOf
<1>9. /\ m2 \in Nat /\ n2 \in Nat /\ m \in Nat /\ n \in Nat /\ w \in 0 .. t
      /\ m2 = m + w /\ n - n2 = t /\ n2 <= n
  BY <1>1, <1>2, <1>3, <1>6, <1>7
<1>10. ASSUME NEW k \in (m + 1) .. m2 PROVE a2[k] = b[k - m]
  <2>1. k - m \in 1 .. w /\ k - m \in 1 .. t /\ m + (k - m) = k
    BY <1>9
  <2>2. \A i \in 1 .. w : i \in 1 .. t => a2[m + i] = b[i]
    BY <1>6, <1>7
  <2> HIDE DEF a2
  <2> QED BY <2>1, <2>2
<1>11. /\ \A k \in 1 .. m : a2[k] = a[k]
       /\ \A k \in 1 .. n2 : b2[k] = b[t + k]
  BY <1>6, <1>7
<1> HIDE DEF a2, b2, m2, n2
<1>12. Moved(a, m, b, n, a2, m2, b2, n2)
  <2>1. \A k \in 1 .. n2 : b2[k] = b[(n - n2) + k]
    BY <1>9, <1>11
  <2>2. m <= m2 /\ n2 <= n /\ m2 - m <= n - n2
    BY <1>9
  <2>3. Numbers(a, m) /\ Numbers(b, n) /\ Numbers(a2, m2) /\ Numbers(b2, n2)
    BY <1>2, <1>8, <1>9, Zenon DEF Numbers
  <2> QED BY <1>10, <1>11, <2>1, <2>2, <2>3, Zenon DEF Moved
<1>13. /\ Intact(a2, m2, b2, n2, delivered, given)
       /\ m2 - m = n - n2 /\ Complete(a, m, b, n, delivered, given)
            => Complete(a2, m2, b2, n2, delivered, given)
  BY <1>1, <1>12, MovedIntact
<1>14. w = t => m2 - m = n - n2
  BY <1>9
<1>15. ~lost /\ w = t => Complete(a2, m2, b2, n2, delivered, given)
  BY <1>1, <1>13, <1>14
<1> QED BY <1>6, <1>7, <1>13, <1>15 DEF a2, b2, m2, n2, m, n, w

LEMMA LastOfIs ==
  ASSUME NEW got \in Seq(Nat), NEW a, \A k \in 1 .. Len(got) : got[k] = a[k]
  PROVE  IsLast(a, Len(got), delivered, LastOf(got))
<1> DEFINE t == Len(got)
           S == Real(got)
<1>1. t \in Nat /\ S \in SUBSET (1 .. t) /\ \A k \in 1 .. t : k \in S <=> a[k] # Silence
  BY DEF Real
<1>2. CASE S = {}
  <2>1. LastOf(got) = delivered
    BY <1>2 DEF LastOf
  <2>2. \A k \in 1 .. t : a[k] = Silence
    BY <1>1, <1>2
  <2> QED BY <2>1, <2>2 DEF IsLast
<1>3. CASE S # {}
  <2> DEFINE j == Max(S)
  <2>1. LastOf(got) = got[j]
    BY <1>3 DEF LastOf
  <2> HIDE DEF S
  <2>2. j \in S /\ \A y \in S : y <= j
    BY <1>1, <1>3, MaxFacts
  <2> HIDE DEF j
  <2>3. j \in 1 .. t /\ a[j] # Silence /\ LastOf(got) = a[j]
    BY <1>1, <2>1, <2>2
  <2>4. \A k \in 1 .. t : a[k] # Silence => k <= j
    BY <1>1, <2>2
  <2> QED BY <2>3, <2>4 DEF IsLast
<1> QED BY <1>2, <1>3

LEMMA TakeEffect ==
  ASSUME StreamInv, NEW t \in Nat, NEW popped, popped = PopUpTo(output_fifo, t)
  PROVE  /\ RingOK(popped.fifo, capacity)
         /\ Len(popped.got) = IF t < output_fifo.len THEN t ELSE output_fifo.len
         /\ popped.fifo.len = output_fifo.len - Len(popped.got)
         /\ LastOf(popped.got) \in Nat /\ LastOf(popped.got) <= given
         /\ Intact(Contents(popped.fifo), popped.fifo.len,
                   Contents(input_fifo), input_fifo.len, LastOf(popped.got), given)
         /\ ~lost => Complete(Contents(popped.fifo), popped.fifo.len,
                              Contents(input_fifo), input_fifo.len,
                              LastOf(popped.got), given)
<1> DEFINE m == output_fifo.len
           n == input_fifo.len
           a == Contents(output_fifo)
           b == Contents(input_fifo)
<1>1. /\ capacity \in Nat \ {0} /\ AdapterBuilt /\ RingOK(output_fifo, capacity)
      /\ given \in Nat /\ delivered \in Nat /\ delivered <= given
      /\ Intact(a, m, b, n, delivered, given)
      /\ ~lost => Complete(a, m, b, n, delivered, given)
  BY DEF StreamInv, AdapterBuilt, IntactNow
<1>2. /\ m \in 0 .. capacity /\ n \in 0 .. capacity
      /\ b \in [1 .. n -> Nat] /\ a \in [1 .. m -> Nat]
  BY <1>1, FifoFacts
<1>3. Taken(output_fifo, capacity, t, popped)
  BY <1>1, PopUpToTakes
<1> HIDE DEF m, n, a, b
<1> DEFINE a2 == Contents(popped.fifo)
           m2 == popped.fifo.len
           d2 == LastOf(popped.got)
<1>4. /\ popped.got \in Seq(Nat) /\ Len(popped.got) = IF t < m THEN t ELSE m
      /\ RingOK(popped.fifo, capacity) /\ m2 = m - Len(popped.got)
      /\ \A k \in 1 .. Len(popped.got) : popped.got[k] = a[k]
      /\ \A k \in 1 .. m2 : a2[k] = a[Len(popped.got) + k]
  BY <1>3 DEF Taken, m, a
<1>5. IsLast(a, Len(popped.got), delivered, d2)
  BY <1>4, LastOfIs
<1>6. /\ m \in Nat /\ n \in Nat /\ m2 \in Nat /\ m2 <= m /\ m - m2 = Len(popped.got)
  BY <1>1, <1>2, <1>4
<1>7. a2 \in [1 .. m2 -> Nat]
  BY <1>1, <1>4, ContentsOf
<1> HIDE DEF a2, m2, d2
<1>8. Delivered(a, m, delivered, a2, m2, d2)
  BY <1>2, <1>4, <1>5, <1>6, <1>7 DEF Delivered, Numbers
<1>9. Numbers(b, n)
  BY <1>2, <1>6 DEF Numbers
<1>10. /\ Intact(a2, m2, b, n, d2, given)
       /\ Complete(a, m, b, n, delivered, given) => Complete(a2, m2, b, n, d2, given)
       /\ d2 \in Nat /\ delivered <= d2 /\ d2 <= given
  BY <1>1, <1>8, <1>9, DeliveredIntact
<1>11. ~lost => Complete(a2, m2, b, n, d2, given)
  BY <1>1, <1>10
<1> QED BY <1>4, <1>10, <1>11 DEF a2, m2, d2, b, n, m

-----------------------------------------------------------------------------
(* The invariant holds                                                     *)

LEMMA Initially == Init => StreamInv
<1> SUFFICES ASSUME Init PROVE StreamInv
  OBVIOUS
<1>1. /\ target_block_size \in Nat \ {0}
      /\ capacity \in Nat \ {0} /\ capacity >= 2 * target_block_size
  BY StreamAssumption DEF Init, Adapter!NewGuard
<1>2. /\ RingOK(input_fifo, capacity) /\ RingOK(output_fifo, capacity)
      /\ input_fifo.len = 0 /\ output_fifo.len = 0
  BY <1>1, NewRing DEF Init
<1>3. AdapterBuilt
  BY <1>1, <1>2 DEF AdapterBuilt, Init, Adapter!None
<1>4. CallInv
  BY <1>1, <1>2 DEF CallInv, Init, Idle
<1>5. ReportInv
  BY DEF ReportInv, Init, Idle, Adapter!NoReport
<1>6. IntactNow
  <2>1. given = 0 /\ delivered = 0 /\ lost = FALSE
    BY DEF Init
  <2>2. /\ Intact(Contents(output_fifo), 0, Contents(input_fifo), 0, 0, 0)
        /\ Complete(Contents(output_fifo), 0, Contents(input_fifo), 0, 0, 0)
    BY DEF Intact, Complete
  <2>3. /\ Intact(Contents(output_fifo), output_fifo.len,
                  Contents(input_fifo), input_fifo.len, delivered, given)
        /\ Complete(Contents(output_fifo), output_fifo.len,
                    Contents(input_fifo), input_fifo.len, delivered, given)
    BY <1>2, <2>1, <2>2, Zenon
  <2>4. given \in Nat /\ delivered \in Nat /\ delivered <= given
    BY <2>1
  <2>5. lost \in BOOLEAN
    BY <2>1, Zenon
  <2> QED BY <2>3, <2>4, <2>5, Zenon DEF IntactNow
<1> QED BY <1>3, <1>4, <1>5, <1>6 DEF StreamInv

LEMMA StartStep ==
  ASSUME StreamInv, NEW nIn \in Nat, NEW nOut \in Nat, Start(nIn, nOut)
  PROVE  StreamInv'
<1>1. AdapterBuilt' /\ IntactNow'
  BY StartEffect
<1>2. call' = [in |-> "process", outputs |-> nOut]
  BY DEF Start, Processing
<1>3. CallInv'
  BY <1>2 DEF CallInv
<1>4. ReportInv'
  <2>1. PICK accepted \in Nat :
          /\ accepted = IF nIn < capacity - input_fifo.len
                        THEN nIn ELSE capacity - input_fifo.len
          /\ report' = [accepted_input |-> accepted, dropped_input |-> nIn - accepted,
                        dsp_blocks |-> 0, dropped_output |-> 0, underrun |-> 0,
                        latency_added |-> Needed(nOut)]
    BY StartEffect
  <2>2. Needed(nOut) \in Nat
    BY NeededFits DEF StreamInv
  <2>3. nIn - accepted \in Nat
    <3>1. capacity \in Nat /\ input_fifo.len \in Nat
      BY FifoFacts DEF StreamInv, AdapterBuilt
    <3> QED BY <2>1, <3>1
  <2> QED BY <2>1, <2>2, <2>3 DEF ReportInv
<1> QED BY <1>1, <1>3, <1>4 DEF StreamInv

LEMMA DspBlockStep == StreamInv /\ DspBlock => StreamInv'
<1> SUFFICES ASSUME StreamInv, DspBlock PROVE StreamInv'
  OBVIOUS
<1> DEFINE popped == PopUpTo(input_fifo, target_block_size)
           pushed == push_slice(output_fifo, popped.got)
           D == target_block_size
<1>1. /\ call.in = "process" /\ input_fifo.len >= D
      /\ input_fifo' = popped.fifo /\ output_fifo' = pushed.fifo
      /\ report' = Dropping(D - pushed.accepted)
      /\ lost' = (lost \/ D - pushed.accepted > 0)
      /\ UNCHANGED <<target_block_size, capacity, host_quantum, latency_samples,
                     call, given, delivered>>
  BY DEF DspBlock
<1>2. /\ AdapterBuilt /\ CallInv /\ ReportInv /\ IntactNow /\ D \in Nat \ {0}
      /\ input_fifo.len \in Nat /\ output_fifo.len \in 0 .. capacity /\ capacity \in Nat
  BY FifoFacts DEF StreamInv, AdapterBuilt
<1> HIDE DEF popped, pushed
<1>3. /\ RingOK(popped.fifo, capacity) /\ RingOK(pushed.fifo, capacity)
      /\ pushed.accepted \in Nat
      /\ pushed.accepted = IF D < capacity - output_fifo.len
                           THEN D ELSE capacity - output_fifo.len
      /\ Intact(Contents(pushed.fifo), pushed.fifo.len,
                Contents(popped.fifo), popped.fifo.len, delivered, given)
      /\ ~lost /\ pushed.accepted = D
           => Complete(Contents(pushed.fifo), pushed.fifo.len,
                       Contents(popped.fifo), popped.fifo.len, delivered, given)
  <2>1. D \in 0 .. input_fifo.len
    BY <1>1, <1>2
  <2>2. popped = PopUpTo(input_fifo, D) /\ pushed = push_slice(output_fifo, popped.got)
    BY DEF popped, pushed
  <2> HIDE DEF D
  <2> QED BY <2>1, <2>2, MoveEffect
<1>4. AdapterBuilt'
  BY <1>1, <1>2, <1>3 DEF AdapterBuilt
<1>5. CallInv'
  BY <1>1, <1>2 DEF CallInv
<1>6. D - pushed.accepted \in Nat
  BY <1>2, <1>3
<1>7. ReportInv'
  <2>1. /\ report \in [accepted_input : Nat, dropped_input : Nat, dsp_blocks : Nat,
                       dropped_output : Nat, underrun : Nat, latency_added : Nat]
        /\ report.underrun = 0
    BY <1>1, <1>2 DEF ReportInv
  <2> DEFINE dropped == D - pushed.accepted
  <2>2. dropped \in Nat
    BY <1>6
  <2> DEFINE x == report.dsp_blocks + 1
             y == report.dropped_output + dropped
  <2>3. /\ x \in Nat /\ y \in Nat
        /\ Dropping(dropped) = [report EXCEPT !.dsp_blocks = x, !.dropped_output = y]
    BY <2>1, <2>2 DEF Dropping
  <2> HIDE DEF dropped, x, y
  <2>4. /\ Dropping(dropped) \in [accepted_input : Nat, dropped_input : Nat, dsp_blocks : Nat,
                                  dropped_output : Nat, underrun : Nat, latency_added : Nat]
        /\ Dropping(dropped).underrun = 0
    BY <2>1, <2>3
  <2> QED BY <1>1, <2>4 DEF ReportInv, dropped
<1>8. IntactNow'
  <2>1. ~lost' => ~lost /\ pushed.accepted = D
    <3>1. ~lost' => ~lost /\ ~(D - pushed.accepted > 0)
      BY <1>1, Zenon
    <3>2. ~(D - pushed.accepted > 0) => pushed.accepted = D
      BY <1>2, <1>3, <1>6
    <3> QED BY <3>1, <3>2, Zenon
  <2>2. lost' \in BOOLEAN
    BY <1>1
  <2> QED BY <1>1, <1>2, <1>3, <2>1, <2>2 DEF IntactNow
<1> QED BY <1>4, <1>5, <1>7, <1>8 DEF StreamInv

LEMMA ReturnStep == StreamInv /\ Return => StreamInv'
<1> SUFFICES ASSUME StreamInv, Return PROVE StreamInv'
  OBVIOUS
<1> DEFINE popped == PopUpTo(output_fifo, call.outputs)
<1>1. /\ call.in = "process" /\ input_fifo.len < target_block_size
      /\ output_fifo' = popped.fifo
      /\ report' = [report EXCEPT !.underrun = call.outputs - Len(popped.got)]
      /\ delivered' = LastOf(popped.got)
      /\ call' = Idle
      /\ UNCHANGED <<target_block_size, capacity, input_fifo, host_quantum,
                     latency_samples, given, lost>>
  BY DEF Return
<1>2. /\ AdapterBuilt /\ CallInv /\ ReportInv /\ IntactNow /\ call.outputs \in Nat
      /\ output_fifo.len \in Nat
  BY FifoFacts DEF StreamInv, AdapterBuilt, CallInv
<1>3. /\ RingOK(popped.fifo, capacity)
      /\ Len(popped.got) = IF call.outputs < output_fifo.len
                           THEN call.outputs ELSE output_fifo.len
      /\ LastOf(popped.got) \in Nat /\ LastOf(popped.got) <= given
      /\ Intact(Contents(popped.fifo), popped.fifo.len,
                Contents(input_fifo), input_fifo.len, LastOf(popped.got), given)
      /\ ~lost => Complete(Contents(popped.fifo), popped.fifo.len,
                           Contents(input_fifo), input_fifo.len,
                           LastOf(popped.got), given)
  BY <1>2, TakeEffect
<1> HIDE DEF popped
<1>4. AdapterBuilt'
  BY <1>1, <1>2, <1>3 DEF AdapterBuilt
<1>5. CallInv'
  BY <1>1, <1>2 DEF CallInv, Idle
<1>6. ReportInv'
  <2>1. call.outputs - Len(popped.got) \in Nat
    BY <1>2, <1>3
  <2> QED BY <1>1, <1>2, <2>1 DEF ReportInv, Idle
<1>7. IntactNow'
  BY <1>1, <1>2, <1>3 DEF IntactNow
<1> QED BY <1>4, <1>5, <1>6, <1>7 DEF StreamInv

LEMMA FlushRemainderStep == StreamInv /\ FlushRemainder => StreamInv'
<1> SUFFICES ASSUME StreamInv, FlushRemainder PROVE StreamInv'
  OBVIOUS
<1> DEFINE n == input_fifo.len
           popped == PopUpTo(input_fifo, n)
           pushed == push_slice(output_fifo, popped.got)
<1>1. /\ call = Idle /\ input_fifo' = popped.fifo /\ output_fifo' = pushed.fifo
      /\ call' = Flushing
      /\ lost' = (lost \/ pushed.accepted < Len(popped.got))
      /\ UNCHANGED <<target_block_size, capacity, host_quantum, latency_samples,
                     report, given, delivered>>
  BY DEF FlushRemainder
<1>2. /\ AdapterBuilt /\ CallInv /\ ReportInv /\ IntactNow /\ target_block_size \in Nat \ {0}
      /\ n \in Nat /\ output_fifo.len \in 0 .. capacity /\ capacity \in Nat
  BY FifoFacts DEF StreamInv, AdapterBuilt
<1> HIDE DEF popped, pushed
<1>3. /\ RingOK(popped.fifo, capacity) /\ RingOK(pushed.fifo, capacity)
      /\ Len(popped.got) = n /\ popped.fifo.len = n - n
      /\ pushed.accepted \in Nat
      /\ pushed.accepted = IF n < capacity - output_fifo.len
                           THEN n ELSE capacity - output_fifo.len
      /\ Intact(Contents(pushed.fifo), pushed.fifo.len,
                Contents(popped.fifo), popped.fifo.len, delivered, given)
      /\ ~lost /\ pushed.accepted = n
           => Complete(Contents(pushed.fifo), pushed.fifo.len,
                       Contents(popped.fifo), popped.fifo.len, delivered, given)
  <2>1. n \in 0 .. input_fifo.len
    BY <1>2
  <2>2. popped = PopUpTo(input_fifo, n) /\ pushed = push_slice(output_fifo, popped.got)
    BY DEF popped, pushed
  <2> QED BY <2>1, <2>2, MoveEffect
<1>4. AdapterBuilt'
  BY <1>1, <1>2, <1>3 DEF AdapterBuilt
<1>5. CallInv'
  <2>1. input_fifo'.len = 0
    BY <1>1, <1>2, <1>3
  <2> QED BY <1>1, <1>2, <2>1 DEF CallInv, Flushing
<1>6. ReportInv'
  BY <1>1, <1>2 DEF ReportInv, Flushing
<1>7. IntactNow'
  <2>1. ~lost' => ~lost /\ pushed.accepted = n
    <3>1. ~lost' => ~lost /\ ~(pushed.accepted < Len(popped.got))
      BY <1>1, Zenon
    <3>2. ~(pushed.accepted < Len(popped.got)) => pushed.accepted = n
      BY <1>2, <1>3
    <3> QED BY <3>1, <3>2, Zenon
  <2>2. lost' \in BOOLEAN
    BY <1>1
  <2> QED BY <1>1, <1>2, <1>3, <2>1, <2>2 DEF IntactNow
<1> QED BY <1>4, <1>5, <1>6, <1>7 DEF StreamInv

\* flush leaves nothing inside, so everything that was given is behind us.
LEMMA FlushReturnStep == StreamInv /\ FlushReturn => StreamInv'
<1> SUFFICES ASSUME StreamInv, FlushReturn PROVE StreamInv'
  OBVIOUS
<1> DEFINE m == output_fifo.len
           popped == PopUpTo(output_fifo, m)
<1>1. /\ call.in = "flush" /\ output_fifo' = popped.fifo
      /\ delivered' = IF lost THEN given ELSE LastOf(popped.got)
      /\ lost' = FALSE /\ call' = Idle
      /\ UNCHANGED <<target_block_size, capacity, input_fifo, host_quantum,
                     latency_samples, report, given>>
  BY DEF FlushReturn
<1>2. /\ AdapterBuilt /\ CallInv /\ ReportInv /\ IntactNow /\ m \in Nat
      /\ input_fifo.len = 0 /\ target_block_size \in Nat \ {0}
      /\ given \in Nat /\ lost \in BOOLEAN
  BY <1>1, FifoFacts DEF StreamInv, AdapterBuilt, CallInv, IntactNow
<1>3. /\ RingOK(popped.fifo, capacity)
      /\ Len(popped.got) = IF m < output_fifo.len THEN m ELSE output_fifo.len
      /\ popped.fifo.len = output_fifo.len - Len(popped.got)
      /\ LastOf(popped.got) \in Nat /\ LastOf(popped.got) <= given
      /\ ~lost => Complete(Contents(popped.fifo), popped.fifo.len,
                           Contents(input_fifo), input_fifo.len,
                           LastOf(popped.got), given)
  BY <1>2, TakeEffect
<1> HIDE DEF popped
<1>4. popped.fifo.len = 0
  BY <1>2, <1>3
<1>5. delivered' = given
  <2>1. CASE lost
    BY <1>1, <2>1
  <2>2. CASE ~lost
    <3> DEFINE d2 == LastOf(popped.got)
    <3>1. Complete(Contents(popped.fifo), 0, Contents(input_fifo), 0, d2, given)
      BY <1>2, <1>3, <1>4, <2>2
    <3>2. d2 \in Nat /\ d2 <= given
      BY <1>3
    <3> HIDE DEF d2
    <3>3. ~(given \in (d2 + 1) .. given)
      BY <3>1 DEF Complete
    <3>4. d2 = given
      BY <1>2, <3>2, <3>3
    <3> QED BY <1>1, <2>2, <3>4 DEF d2
  <2> QED BY <1>2, <2>1, <2>2
<1>6. AdapterBuilt'
  BY <1>1, <1>2, <1>3 DEF AdapterBuilt
<1>7. CallInv'
  BY <1>1, <1>2 DEF CallInv, Idle
<1>8. ReportInv'
  BY <1>1, <1>2 DEF ReportInv, Idle
<1>9. IntactNow'
  <2>1. /\ Intact(Contents(output_fifo'), 0, Contents(input_fifo'), 0, given, given)
        /\ Complete(Contents(output_fifo'), 0, Contents(input_fifo'), 0, given, given)
    BY <1>2 DEF Intact, Complete
  <2>2. /\ Intact(Contents(output_fifo'), output_fifo'.len,
                  Contents(input_fifo'), input_fifo'.len, delivered', given')
        /\ Complete(Contents(output_fifo'), output_fifo'.len,
                    Contents(input_fifo'), input_fifo'.len, delivered', given')
    BY <1>1, <1>2, <1>4, <1>5, <2>1
  <2>3. given' \in Nat /\ delivered' \in Nat /\ delivered' <= given'
    BY <1>1, <1>2, <1>5
  <2>4. lost' \in BOOLEAN
    BY <1>1, Zenon
  <2> QED BY <2>2, <2>3, <2>4, Zenon DEF IntactNow
<1> QED BY <1>6, <1>7, <1>8, <1>9 DEF StreamInv

LEMMA Inductive == StreamInv /\ [Next]_vars => StreamInv'
<1> SUFFICES ASSUME StreamInv, [Next]_vars PROVE StreamInv'
  OBVIOUS
<1>1. CASE \E nIn, nOut \in HostBlocks : Start(nIn, nOut)
  BY <1>1, StreamAssumption, StartStep
<1>2. CASE DspBlock
  BY <1>2, DspBlockStep
<1>3. CASE Return
  BY <1>3, ReturnStep
<1>4. CASE FlushRemainder
  BY <1>4, FlushRemainderStep
<1>5. CASE FlushReturn
  BY <1>5, FlushReturnStep
<1>6. CASE UNCHANGED vars
  BY <1>6 DEF vars, StreamInv, AdapterBuilt, CallInv, ReportInv, IntactNow
<1> QED BY <1>1, <1>2, <1>3, <1>4, <1>5, <1>6 DEF Next

LEMMA Invariance == Spec => []StreamInv
<1>1. StreamInv /\ [Next]_vars => StreamInv'
  BY Inductive
<1> QED BY <1>1, Initially, PTL DEF Spec

(***************************************************************************)
(* "Mismatched blocks preserve the complete stream": for every DSP block   *)
(* size, capacity and sequence of calls of process_host_block and flush,   *)
(* at every moment, also between the DSP blocks of a call, the two rings   *)
(* hold the samples the host has given and not got back, each one once and *)
(* in order, and all of them unless some were dropped.                     *)
(***************************************************************************)
THEOREM StreamIsPreserved == Spec => []StreamIntact
<1>1. StreamInv => StreamIntact
  BY IntactIsEnough DEF StreamInv
<1> QED BY <1>1, Invariance, PTL

-----------------------------------------------------------------------------
(* The refinement.  The mapping of AdapterStream, said of values instead   *)
(* of variables so that it can be used before and after a step: cl is the  *)
(* call, n and m are the lengths of the input and output FIFO.             *)

DueOf(cl, n, D) == IF cl.in = "process" THEN (n \div D) * D ELSE 0

FilledOf(cl, n, m, c, D) == Min({c, m + DueOf(cl, n, D)})

OutputOf(cl, n, m, c, D) ==
  IF cl.in = "flush" THEN 0 ELSE Max({0, FilledOf(cl, n, m, c, D) - cl.outputs})

ReportOf(cl, n, m, c, D, r) ==
  IF cl.in = "process"
  THEN [r EXCEPT !.dsp_blocks = @ + DueOf(cl, n, D) \div D,
                 !.dropped_output = @ + (m + DueOf(cl, n, D) - FilledOf(cl, n, m, c, D)),
                 !.underrun = Max({0, cl.outputs - FilledOf(cl, n, m, c, D)})]
  ELSE r

Reports == [accepted_input : Nat, dropped_input : Nat, dsp_blocks : Nat,
            dropped_output : Nat, underrun : Nat, latency_added : Nat]

\* What AdapterBuffer sees of the two FIFOs and the report.
SeenInput == input_fifo.len - DueOf(call, input_fifo.len, target_block_size)

SeenOutput == OutputOf(call, input_fifo.len, output_fifo.len, capacity, target_block_size)

SeenReport == ReportOf(call, input_fifo.len, output_fifo.len, capacity, target_block_size, report)

LEMMA BlocksOf ==
  ASSUME NEW D \in Nat \ {0}, NEW q \in Nat
  PROVE  (q * D) \div D = q
<1> DEFINE x == q * D
           k == x \div D
           rest == x % D
<1>1. x \in Nat
  OBVIOUS
<1>2. rest \in 0 .. (D - 1) /\ k \in Nat /\ x = D * k + rest
  <2> HIDE DEF x
  <2>1. /\ x % D \in 0 .. (D - 1) /\ x \div D \in Nat /\ x = D * (x \div D) + (x % D)
    BY <1>1, Arithmetic!DivisionFacts, StreamAssumption
  <2> QED BY <2>1
<1>3. (q - k) * D = rest
  <2> HIDE DEF k, rest
  <2> QED BY <1>2
<1> HIDE DEF x, k, rest
<1>4. q - k >= 1 => (q - k) * D >= D
  BY <1>2
<1>5. q - k <= -1 => (q - k) * D <= -D
  BY <1>2
<1>6. q = k
  BY <1>2, <1>3, <1>4, <1>5
<1> QED BY <1>6 DEF k, x

\* One block less.
LEMMA BlocksLess ==
  ASSUME NEW D \in Nat \ {0}, NEW n \in Nat, n >= D
  PROVE  (n - D) \div D = (n \div D) - 1
<1> DEFINE q == n \div D
           r == n % D
           x == n - D
           k == x \div D
           s == x % D
<1>1. x \in Nat
  OBVIOUS
<1>2. r \in 0 .. (D - 1) /\ q \in Nat /\ n = D * q + r
  <2>1. /\ n % D \in 0 .. (D - 1) /\ n \div D \in Nat /\ n = D * (n \div D) + (n % D)
    BY Arithmetic!DivisionFacts, StreamAssumption
  <2> QED BY <2>1
<1>3. s \in 0 .. (D - 1) /\ k \in Nat /\ x = D * k + s
  <2> HIDE DEF x
  <2>1. /\ x % D \in 0 .. (D - 1) /\ x \div D \in Nat /\ x = D * (x \div D) + (x % D)
    BY <1>1, Arithmetic!DivisionFacts, StreamAssumption
  <2> QED BY <2>1
<1>4. x = n - D
  OBVIOUS
<1> HIDE DEF q, r, x, k, s
<1> DEFINE e == q - k - 1
<1>5. D * e = s - r /\ e \in Int
  BY <1>2, <1>3, <1>4
<1> HIDE DEF e
<1>6. e >= 1 => D * e >= D
  BY <1>5
<1>7. e <= -1 => D * e <= -D
  BY <1>5
<1>8. e = 0
  BY <1>2, <1>3, <1>5, <1>6, <1>7
<1>9. k = q - 1
  BY <1>2, <1>3, <1>8 DEF e
<1> QED BY <1>9 DEF k, q, x

LEMMA SameReport ==
  ASSUME NEW s \in Reports, NEW t \in Reports,
         s.accepted_input = t.accepted_input, s.dropped_input = t.dropped_input,
         s.dsp_blocks = t.dsp_blocks, s.dropped_output = t.dropped_output,
         s.underrun = t.underrun, s.latency_added = t.latency_added
  PROVE  s = t
BY DEF Reports

\* The mapping during a call without Min, Max and division.
Fitted(c, x) == IF c < x THEN c ELSE x

Mapped(cl, n, m, c, D, r, produced, filled) ==
  /\ produced \in Nat /\ filled \in Nat
  /\ DueOf(cl, n, D) = produced
  /\ OutputOf(cl, n, m, c, D) = IF filled < cl.outputs THEN 0 ELSE filled - cl.outputs
  /\ ReportOf(cl, n, m, c, D, r)
       = [accepted_input |-> r.accepted_input, dropped_input |-> r.dropped_input,
          dsp_blocks |-> r.dsp_blocks + (n \div D),
          dropped_output |-> r.dropped_output + (m + produced - filled),
          underrun |-> IF filled < cl.outputs THEN cl.outputs - filled ELSE 0,
          latency_added |-> r.latency_added]

LEMMA MappedProcess ==
  ASSUME NEW cl, cl.in = "process", cl.outputs \in Nat, NEW D \in Nat \ {0},
         NEW n \in Nat, NEW c \in Nat, NEW m \in 0 .. c, NEW r \in Reports
  PROVE  Mapped(cl, n, m, c, D, r, (n \div D) * D, Fitted(c, m + (n \div D) * D))
<1> DEFINE produced == (n \div D) * D
           filled == Fitted(c, m + produced)
<1>1. n \div D \in Nat
  BY Arithmetic!DivisionFacts, StreamAssumption
<1>2. produced \in Nat /\ filled \in Nat /\ filled <= m + produced
  BY <1>1 DEF Fitted
<1>3. DueOf(cl, n, D) = produced
  BY DEF DueOf
<1>4. FilledOf(cl, n, m, c, D) = filled
  <2> DEFINE x == m + produced
  <2>1. x \in Int /\ c \in Int
    BY <1>2
  <2> HIDE DEF x
  <2>2. Min({c, x}) = IF c < x THEN c ELSE x
    BY <2>1, MinOfTwo
  <2> QED BY <1>3, <2>2 DEF FilledOf, Fitted, x
<1> HIDE DEF filled
<1>5. \A x \in Int : Max({0, x}) = IF 0 < x THEN x ELSE 0
  BY MaxOfTwo
<1>6. Max({0, filled - cl.outputs}) = IF filled < cl.outputs THEN 0 ELSE filled - cl.outputs
  <2> DEFINE x == filled - cl.outputs
  <2>1. x \in Int /\ (0 < x => ~(filled < cl.outputs)) /\ (~(0 < x) => filled < cl.outputs \/ x = 0)
    BY <1>2
  <2>2. Max({0, x}) = IF 0 < x THEN x ELSE 0
    <3> HIDE DEF x
    <3> QED BY <1>5, <2>1
  <2> QED BY <1>2, <2>1, <2>2
<1>7. Max({0, cl.outputs - filled}) = IF filled < cl.outputs THEN cl.outputs - filled ELSE 0
  <2> DEFINE x == cl.outputs - filled
  <2>1. x \in Int /\ (0 < x <=> filled < cl.outputs)
    BY <1>2
  <2>2. Max({0, x}) = IF 0 < x THEN x ELSE 0
    <3> HIDE DEF x
    <3> QED BY <1>5, <2>1
  <2> QED BY <2>1, <2>2
<1>8. OutputOf(cl, n, m, c, D) = IF filled < cl.outputs THEN 0 ELSE filled - cl.outputs
  BY <1>4, <1>6 DEF OutputOf
<1>9. produced \div D = n \div D
  BY <1>1, BlocksOf
<1> DEFINE x == r.dsp_blocks + (n \div D)
           y == r.dropped_output + (m + produced - filled)
           z == IF filled < cl.outputs THEN cl.outputs - filled ELSE 0
<1>10. ReportOf(cl, n, m, c, D, r)
         = [r EXCEPT !.dsp_blocks = x, !.dropped_output = y, !.underrun = z]
  BY <1>3, <1>4, <1>7, <1>9, Zenon DEF ReportOf
<1>11. x \in Nat /\ y \in Nat /\ z \in Nat
  BY <1>1, <1>2 DEF Reports
<1> HIDE DEF x, y, z
<1>12. [r EXCEPT !.dsp_blocks = x, !.dropped_output = y, !.underrun = z]
         = [accepted_input |-> r.accepted_input, dropped_input |-> r.dropped_input,
            dsp_blocks |-> x, dropped_output |-> y, underrun |-> z,
            latency_added |-> r.latency_added]
  <2> DEFINE s == [r EXCEPT !.dsp_blocks = x, !.dropped_output = y, !.underrun = z]
             t == [accepted_input |-> r.accepted_input, dropped_input |-> r.dropped_input,
                   dsp_blocks |-> x, dropped_output |-> y, underrun |-> z,
                   latency_added |-> r.latency_added]
  <2>1. /\ s \in Reports /\ s.dsp_blocks = x /\ s.dropped_output = y /\ s.underrun = z
        /\ s.accepted_input = r.accepted_input /\ s.dropped_input = r.dropped_input
        /\ s.latency_added = r.latency_added
    BY <1>11 DEF Reports
  <2>2. /\ t \in Reports /\ t.dsp_blocks = x /\ t.dropped_output = y /\ t.underrun = z
        /\ t.accepted_input = r.accepted_input /\ t.dropped_input = r.dropped_input
        /\ t.latency_added = r.latency_added
    BY <1>11 DEF Reports
  <2> HIDE DEF s, t
  <2>3. s = t
    BY <2>1, <2>2, SameReport
  <2> QED BY <2>3 DEF s, t
<1>13. Mapped(cl, n, m, c, D, r, produced, filled)
  <2> HIDE DEF produced
  <2> QED BY <1>2, <1>3, <1>8, <1>10, <1>12 DEF Mapped, x, y, z
<1> QED BY <1>13 DEF produced, filled

LEMMA MappedOther ==
  ASSUME NEW cl, cl.in # "process", cl.outputs = 0, NEW D \in Nat \ {0},
         NEW n \in Nat, NEW c \in Nat, NEW m \in 0 .. c, NEW r
  PROVE  /\ DueOf(cl, n, D) = 0
         /\ OutputOf(cl, n, m, c, D) = IF cl.in = "flush" THEN 0 ELSE m
         /\ ReportOf(cl, n, m, c, D, r) = r
<1>1. DueOf(cl, n, D) = 0 /\ ReportOf(cl, n, m, c, D, r) = r
  BY DEF DueOf, ReportOf
<1>2. FilledOf(cl, n, m, c, D) = m
  <2>1. Min({c, m}) = IF c < m THEN c ELSE m
    BY MinOfTwo
  <2>2. m + 0 = m /\ (c < m => c = m)
    OBVIOUS
  <2> QED BY <1>1, <2>1, <2>2 DEF FilledOf
<1>3. Max({0, m}) = m
  <2>1. Max({0, m}) = IF 0 < m THEN m ELSE 0
    BY MaxOfTwo
  <2> QED BY <2>1
<1>4. m - cl.outputs = m
  OBVIOUS
<1> QED BY <1>1, <1>2, <1>3, <1>4 DEF OutputOf

\* This is the mapping of AdapterStream.
LEMMA SeenIs ==
  /\ SeenInput = input_fifo.len - Due
  /\ SeenOutput = IF call.in = "flush" THEN 0 ELSE Max({0, Filled - call.outputs})
  /\ SeenReport = IF call.in = "process"
                  THEN [report EXCEPT !.dsp_blocks = @ + Due \div target_block_size,
                                      !.dropped_output = @ + (output_fifo.len + Due - Filled),
                                      !.underrun = Max({0, call.outputs - Filled})]
                  ELSE report
<1>1. /\ Due = DueOf(call, input_fifo.len, target_block_size)
      /\ Filled = FilledOf(call, input_fifo.len, output_fifo.len, capacity, target_block_size)
  BY DEF Due, Filled, DueOf, FilledOf
<1> QED BY <1>1, Zenon DEF SeenInput, SeenOutput, SeenReport, OutputOf, ReportOf

LEMMA SeenAfter ==
  /\ SeenInput' = (input_fifo.len - Due)'
  /\ SeenOutput' = (IF call.in = "flush" THEN 0 ELSE Max({0, Filled - call.outputs}))'
  /\ SeenReport' = (IF call.in = "process"
                    THEN [report EXCEPT !.dsp_blocks = @ + Due \div target_block_size,
                                        !.dropped_output = @ + (output_fifo.len + Due - Filled),
                                        !.underrun = Max({0, call.outputs - Filled})]
                    ELSE report)'
<1>1. /\ Due' = DueOf(call', input_fifo'.len, target_block_size')
      /\ Filled' = FilledOf(call', input_fifo'.len, output_fifo'.len, capacity', target_block_size')
  BY DEF Due, Filled, DueOf, FilledOf
<1> QED BY <1>1, Zenon DEF SeenInput, SeenOutput, SeenReport, OutputOf, ReportOf

\* A step that changes nothing that AdapterBuffer sees.
LEMMA Stutters ==
  ASSUME SeenInput' = SeenInput, SeenOutput' = SeenOutput, SeenReport' = SeenReport,
         UNCHANGED <<target_block_size, capacity, host_quantum, latency_samples>>
  PROVE  UNCHANGED (Adapter!vars)
BY SeenIs, SeenAfter DEF Adapter!vars, Adapter!config, Adapter!fifos

\* When no call is processing AdapterBuffer sees the lengths.
LEMMA SeenOther ==
  ASSUME StreamInv, call.in # "process"
  PROVE  /\ SeenInput = input_fifo.len
         /\ SeenOutput = IF call.in = "flush" THEN 0 ELSE output_fifo.len
         /\ SeenReport = report
<1> DEFINE n == input_fifo.len
           m == output_fifo.len
<1>1. /\ call.outputs = 0 /\ capacity \in Nat /\ target_block_size \in Nat \ {0}
      /\ n \in Nat /\ m \in 0 .. capacity
  BY FifoFacts DEF StreamInv, AdapterBuilt, CallInv
<1> HIDE DEF n, m
<1>2. /\ DueOf(call, n, target_block_size) = 0
      /\ OutputOf(call, n, m, capacity, target_block_size) = IF call.in = "flush" THEN 0 ELSE m
      /\ ReportOf(call, n, m, capacity, target_block_size, report) = report
  BY <1>1, MappedOther
<1> QED BY <1>1, <1>2 DEF SeenInput, SeenOutput, SeenReport, n, m

LEMMA RefineInit == Init => Adapter!Init
<1> SUFFICES ASSUME Init PROVE Adapter!Init
  OBVIOUS
<1>1. StreamInv
  BY Initially
<1>2. /\ input_fifo.len = 0 /\ output_fifo.len = 0 /\ call.in = "nothing" /\ call.outputs = 0
      /\ capacity \in Nat /\ target_block_size \in Nat \ {0}
  BY <1>1 DEF Init, new, Idle, StreamInv, AdapterBuilt
<1>3. SeenInput = 0 /\ SeenOutput = 0 /\ SeenReport = report
  BY <1>1, <1>2, SeenOther
<1> QED BY <1>3, SeenIs DEF Init, Adapter!Init

\* What a step of the refinement knows of the state before it and after it.
LEMMA Types ==
  ASSUME StreamInv
  PROVE  /\ target_block_size \in Nat \ {0} /\ capacity \in Nat
         /\ input_fifo.len \in Nat /\ output_fifo.len \in 0 .. capacity
         /\ call.outputs \in Nat /\ report \in Reports
<1>1. AdapterBuilt /\ CallInv /\ ReportInv
  BY DEF StreamInv
<1>2. input_fifo.len \in 0 .. capacity /\ output_fifo.len \in 0 .. capacity
  BY <1>1, FifoFacts
<1>3. target_block_size \in Nat \ {0} /\ capacity \in Nat
  BY <1>1 DEF AdapterBuilt
<1>4. call.outputs \in Nat
  BY <1>1 DEF CallInv
<1>5. report \in Reports
  BY <1>1 DEF ReportInv, Reports
<1> QED BY <1>2, <1>3, <1>4, <1>5

LEMMA TypesAfter ==
  ASSUME StreamInv'
  PROVE  /\ target_block_size' \in Nat \ {0} /\ capacity' \in Nat
         /\ input_fifo'.len \in Nat /\ output_fifo'.len \in 0 .. capacity'
         /\ call'.outputs \in Nat /\ report' \in Reports
<1>1. AdapterBuilt' /\ CallInv' /\ ReportInv'
  BY DEF StreamInv
<1>2. /\ target_block_size' \in Nat \ {0} /\ capacity' \in Nat
      /\ RingOK(input_fifo', capacity') /\ RingOK(output_fifo', capacity')
  BY <1>1 DEF AdapterBuilt
<1>3. input_fifo'.len \in 0 .. capacity' /\ output_fifo'.len \in 0 .. capacity'
  BY <1>2 DEF RingOK, Rings
<1>4. call'.outputs \in Nat
  BY <1>1 DEF CallInv
<1>5. report' \in Reports
  BY <1>1 DEF ReportInv, Reports
<1> QED BY <1>2, <1>3, <1>4, <1>5

LEMMA SeenOtherAfter ==
  ASSUME StreamInv', call'.in # "process", call'.outputs = 0
  PROVE  /\ SeenInput' = input_fifo'.len
         /\ SeenOutput' = IF call'.in = "flush" THEN 0 ELSE output_fifo'.len
         /\ SeenReport' = report'
<1> DEFINE n == input_fifo'.len
           m == output_fifo'.len
           c == capacity'
           D == target_block_size'
           cl == call'
           r == report'
<1>1. /\ c \in Nat /\ D \in Nat \ {0} /\ n \in Nat /\ m \in 0 .. c
      /\ cl.in # "process" /\ cl.outputs = 0
  BY TypesAfter
<1>2. /\ SeenInput' = n - DueOf(cl, n, D) /\ SeenOutput' = OutputOf(cl, n, m, c, D)
      /\ SeenReport' = ReportOf(cl, n, m, c, D, r)
  BY Zenon DEF SeenInput, SeenOutput, SeenReport
<1>3. n - 0 = n
  BY <1>1
<1> HIDE DEF n, m, c, D, cl, r
<1>4. /\ DueOf(cl, n, D) = 0
      /\ OutputOf(cl, n, m, c, D) = IF cl.in = "flush" THEN 0 ELSE m
      /\ ReportOf(cl, n, m, c, D, r) = r
  BY <1>1, MappedOther
<1>5. SeenInput' = n /\ SeenOutput' = (IF cl.in = "flush" THEN 0 ELSE m) /\ SeenReport' = r
  BY <1>2, <1>3, <1>4, Zenon
<1> QED BY <1>5, Zenon DEF n, m, cl, r

\* AdapterBuffer sees the whole call when it starts.
LEMMA StartRefines ==
  ASSUME StreamInv, StreamInv', NEW nIn \in Nat, NEW nOut \in Nat, Start(nIn, nOut)
  PROVE  Adapter!ProcessHostBlock(nIn, nOut)
<1> DEFINE n == input_fifo.len
           m == output_fifo.len
           D == target_block_size
           c == capacity
           z == Needed(nOut)
<1>1. /\ D \in Nat \ {0} /\ c \in Nat /\ n \in 0 .. c /\ m \in 0 .. c /\ AdapterBuilt
      /\ latency_samples \in Nat
  BY FifoFacts DEF StreamInv, AdapterBuilt
<1>2. /\ call = Idle /\ call' = Processing(nOut) /\ UNCHANGED <<target_block_size, capacity>>
      /\ IF Adapter!Primes(nOut)
         THEN /\ host_quantum' = nOut
              /\ latency_samples' = Max({latency_samples, Adapter!RequiredReserve(nOut)})
         ELSE UNCHANGED <<host_quantum, latency_samples>>
  BY Zenon DEF Start
<1>3. SeenInput = n /\ SeenOutput = m
  <2>1. call.in # "process" /\ call.in # "flush"
    BY <1>2 DEF Idle
  <2> QED BY <2>1, SeenOther
<1>4. PICK w \in Nat :
        /\ w = IF nIn < c - n THEN nIn ELSE c - n
        /\ input_fifo'.len = n + w
        /\ report' = [accepted_input |-> w, dropped_input |-> nIn - w,
                      dsp_blocks |-> 0, dropped_output |-> 0, underrun |-> 0,
                      latency_added |-> z]
  BY StartEffect
<1>5. output_fifo'.len = m + z
  BY StartEffect
<1>6. /\ z \in Nat /\ z <= c - m
      /\ z = IF Adapter!Primes(nOut) /\ Adapter!RequiredReserve(nOut) > m
             THEN Adapter!RequiredReserve(nOut) - m ELSE 0
  BY <1>1, NeededFits
<1>7. Adapter!RequiredReserve(nOut) \in 0 .. (D - 1)
  BY <1>1, ReserveRange
<1> HIDE DEF n, m, D, c, z
<1> DEFINE produced == ((n + w) \div D) * D
           filled == Fitted(c, (m + z) + produced)
<1>8. /\ produced \in Nat /\ filled \in Nat
      /\ DueOf(call', n + w, D) = produced
      /\ OutputOf(call', n + w, m + z, c, D)
           = IF filled < nOut THEN 0 ELSE filled - nOut
      /\ ReportOf(call', n + w, m + z, c, D, report')
           = [accepted_input |-> w, dropped_input |-> nIn - w,
              dsp_blocks |-> (n + w) \div D,
              dropped_output |-> (m + z) + produced - filled,
              underrun |-> IF filled < nOut THEN nOut - filled ELSE 0,
              latency_added |-> z]
  <2> DEFINE n2 == n + w
             m2 == m + z
             r == report'
             cl == call'
  <2>1. n2 \in Nat /\ m2 \in 0 .. c /\ nIn - w \in Nat
    BY <1>1, <1>4, <1>6
  <2>2. /\ r \in Reports /\ r.accepted_input = w /\ r.dropped_input = nIn - w
        /\ r.dsp_blocks = 0 /\ r.dropped_output = 0 /\ r.latency_added = z
    BY <1>4, <1>6, <2>1 DEF Reports
  <2>3. cl.in = "process" /\ cl.outputs = nOut
    BY <1>2 DEF Processing
  <2>4. n2 \div D \in Nat
    <3> HIDE DEF n2
    <3> QED BY <1>1, <2>1, Arithmetic!DivisionFacts, StreamAssumption
  <2> HIDE DEF n2, m2, r, cl
  <2> DEFINE p2 == (n2 \div D) * D
             f2 == Fitted(c, m2 + p2)
  <2>5. Mapped(cl, n2, m2, c, D, r, p2, f2)
    BY <1>1, <2>1, <2>2, <2>3, MappedProcess
  <2>6. r.dsp_blocks + (n2 \div D) = n2 \div D
    BY <2>2, <2>4
  <2>7. p2 = produced /\ f2 = filled
    BY Zenon DEF n2, m2
  <2>8. r.dropped_output + (m2 + p2 - f2) = m2 + p2 - f2
    <3> HIDE DEF p2, f2
    <3> QED BY <2>1, <2>2, <2>5 DEF Mapped
  <2> HIDE DEF p2, f2, produced, filled
  <2>9. /\ produced \in Nat /\ filled \in Nat
        /\ DueOf(cl, n2, D) = produced
        /\ OutputOf(cl, n2, m2, c, D) = IF filled < nOut THEN 0 ELSE filled - nOut
        /\ ReportOf(cl, n2, m2, c, D, r)
           = [accepted_input |-> w, dropped_input |-> nIn - w,
              dsp_blocks |-> n2 \div D,
              dropped_output |-> m2 + produced - filled,
              underrun |-> IF filled < nOut THEN nOut - filled ELSE 0,
              latency_added |-> z]
    BY <2>2, <2>3, <2>5, <2>6, <2>7, <2>8 DEF Mapped
  <2> QED BY <2>9, Zenon DEF n2, m2, r, cl
<1>9. /\ SeenInput' = (n + w) - produced
      /\ SeenOutput' = IF filled < nOut THEN 0 ELSE filled - nOut
      /\ SeenReport' = [accepted_input |-> w, dropped_input |-> nIn - w,
                        dsp_blocks |-> (n + w) \div D,
                        dropped_output |-> (m + z) + produced - filled,
                        underrun |-> IF filled < nOut THEN nOut - filled ELSE 0,
                        latency_added |-> z]
  <2>1. target_block_size' = D /\ capacity' = c
    BY <1>2 DEF D, c
  <2> HIDE DEF produced, filled
  <2> QED BY <1>4, <1>5, <1>8, <2>1, Zenon DEF SeenInput, SeenOutput, SeenReport
\* The definitions of AdapterBuffer.
<1>10. Adapter!Accepted(n, nIn) = w
  BY <1>4 DEF Adapter!Accepted, Adapter!MinOf, c
<1>11. Adapter!Inserted(nOut) = z
  <2> DEFINE r == Adapter!RequiredReserve(nOut)
  <2>1. Adapter!Inserted(nOut)
          = IF Adapter!Primes(nOut)
            THEN Adapter!Accepted(m, Adapter!MaxOf(0, r - m)) ELSE 0
    BY <1>3, SeenIs DEF Adapter!Inserted
  <2>2. Adapter!MaxOf(0, r - m) = IF r > m THEN r - m ELSE 0
    BY <1>1, <1>7 DEF Adapter!MaxOf
  <2>3. \A x \in Nat : x <= c - m => Adapter!Accepted(m, x) = x
    BY <1>1 DEF Adapter!Accepted, Adapter!MinOf, c
  <2> HIDE DEF r
  <2>4. CASE Adapter!Primes(nOut)
    <3>1. z = IF r > m THEN r - m ELSE 0
      BY <1>6, <2>4 DEF r
    <3> QED BY <1>6, <2>1, <2>2, <2>3, <2>4, <3>1
  <2>5. CASE ~Adapter!Primes(nOut)
    BY <1>6, <2>1, <2>5
  <2> QED BY <2>4, <2>5
<1>12. Adapter!Blocks(n + w) = (n + w) \div D
  BY DEF Adapter!Blocks, D
<1> HIDE DEF produced, filled
<1>13. (m + z) + Adapter!Accepted(m + z, produced) = filled
  BY <1>1, <1>6, <1>8 DEF Adapter!Accepted, Adapter!MinOf, filled, Fitted, c
<1>14. /\ filled - Adapter!Popped(filled, nOut) = IF filled < nOut THEN 0 ELSE filled - nOut
       /\ nOut - Adapter!Popped(filled, nOut) = IF filled < nOut THEN nOut - filled ELSE 0
  BY <1>8 DEF Adapter!Popped, Adapter!MinOf
<1>15. Max({latency_samples, Adapter!RequiredReserve(nOut)})
         = Adapter!MaxOf(latency_samples, Adapter!RequiredReserve(nOut))
  <2> DEFINE r == Adapter!RequiredReserve(nOut)
  <2>1. latency_samples \in Int /\ r \in Int
    BY <1>1, <1>7
  <2> HIDE DEF r
  <2>2. Max({latency_samples, r}) = IF latency_samples < r THEN r ELSE latency_samples
    BY <2>1, MaxOfTwo
  <2> QED BY <2>2 DEF Adapter!MaxOf, r
<1>16. /\ SeenInput' = (SeenInput + w) - produced
       /\ SeenOutput' = filled - Adapter!Popped(filled, nOut)
       /\ host_quantum' = IF Adapter!Primes(nOut) THEN nOut ELSE host_quantum
       /\ latency_samples' = IF Adapter!Primes(nOut)
                             THEN Adapter!MaxOf(latency_samples, Adapter!RequiredReserve(nOut))
                             ELSE latency_samples
       /\ SeenReport' = [accepted_input |-> w, dropped_input |-> nIn - w,
                         dsp_blocks |-> (n + w) \div D,
                         dropped_output |-> Adapter!DroppedOutput((m + z) + produced, filled),
                         underrun |-> nOut - Adapter!Popped(filled, nOut),
                         latency_added |-> z]
       /\ UNCHANGED Adapter!config
  <2>1. UNCHANGED Adapter!config
    BY <1>2 DEF Adapter!config
  <2>2. Adapter!DroppedOutput((m + z) + produced, filled) = (m + z) + produced - filled
    BY <1>1, <1>6, <1>8 DEF Adapter!DroppedOutput
  <2>3. /\ host_quantum' = IF Adapter!Primes(nOut) THEN nOut ELSE host_quantum
        /\ latency_samples' = IF Adapter!Primes(nOut)
                              THEN Adapter!MaxOf(latency_samples, Adapter!RequiredReserve(nOut))
                              ELSE latency_samples
    BY <1>2, <1>15
  <2> QED BY <1>3, <1>9, <1>14, <2>1, <2>2, <2>3, Zenon
<1> QED BY <1>3, <1>10, <1>11, <1>12, <1>13, <1>16, SeenIs, SeenAfter, Zenon
        DEF Adapter!ProcessHostBlock, produced, D

\* Then it sees nothing until the call has returned: a block moves what is due
\* to what is done.
LEMMA DspBlockRefines ==
  ASSUME StreamInv, StreamInv', DspBlock
  PROVE  UNCHANGED (Adapter!vars)
<1> DEFINE n == input_fifo.len
           m == output_fifo.len
           D == target_block_size
           c == capacity
           popped == PopUpTo(input_fifo, D)
           pushed == push_slice(output_fifo, popped.got)
           w == pushed.accepted
           n2 == n - D
           m2 == m + w
           r2 == Dropping(D - w)
<1>1. /\ call.in = "process" /\ n >= D
      /\ input_fifo' = popped.fifo /\ output_fifo' = pushed.fifo
      /\ report' = r2
      /\ UNCHANGED <<target_block_size, capacity, host_quantum, latency_samples, call>>
  BY DEF DspBlock
<1>2. /\ D \in Nat \ {0} /\ c \in Nat /\ n \in Nat /\ m \in 0 .. c
      /\ call.outputs \in Nat /\ report \in Reports /\ report' \in Reports
  BY Types, TypesAfter
<1>3. /\ w \in Nat /\ w = IF D < c - m THEN D ELSE c - m
      /\ popped.fifo.len = n2 /\ pushed.fifo.len = m2
  <2>1. D \in 0 .. input_fifo.len
    BY <1>1, <1>2
  <2> HIDE DEF popped, D
  <2>2. popped = PopUpTo(input_fifo, D) /\ pushed = push_slice(output_fifo, popped.got)
    BY DEF popped
  <2> HIDE DEF pushed
  <2> QED BY <2>1, <2>2, MoveEffect
<1>4. /\ input_fifo'.len = n2 /\ output_fifo'.len = m2 /\ target_block_size' = D
      /\ capacity' = c /\ call' = call
  BY <1>1, <1>3
<1> HIDE DEF popped, pushed, n, m, D, c, w
<1> DEFINE q == n \div D
           p == q * D
           f == Fitted(c, m + p)
           q2 == n2 \div D
           p2 == q2 * D
           f2 == Fitted(c, m2 + p2)
<1>5. q \in Nat /\ q2 = q - 1 /\ q2 \in Nat
  <2>1. n2 \in Nat
    BY <1>1, <1>2
  <2>2. q \in Nat
    BY <1>2, Arithmetic!DivisionFacts, StreamAssumption
  <2>3. q2 \in Nat
    <3> HIDE DEF n2
    <3> QED BY <1>2, <2>1, Arithmetic!DivisionFacts, StreamAssumption
  <2>4. (n - D) \div D = (n \div D) - 1
    BY <1>1, <1>2, BlocksLess
  <2> QED BY <2>2, <2>3, <2>4
<1>6. Mapped(call, n, m, c, D, report, p, f)
  BY <1>1, <1>2, MappedProcess
<1>7. Mapped(call, n2, m2, c, D, report', p2, f2)
  <2>1. n2 \in Nat /\ m2 \in 0 .. c
    BY <1>1, <1>2, <1>3
  <2> DEFINE r == report'
  <2>2. r \in Reports
    BY <1>2
  <2> HIDE DEF n2, m2, r
  <2>3. Mapped(call, n2, m2, c, D, r, p2, f2)
    BY <1>1, <1>2, <2>1, <2>2, MappedProcess
  <2> QED BY <2>3 DEF r
<1>8. p \in Nat /\ p2 \in Nat /\ p2 = p - D /\ m2 + p2 = (m + w) + (p - D)
  <2>1. p2 = (q - 1) * D
    BY <1>5, Zenon
  <2>2. q * D \in Nat /\ (q - 1) * D = q * D - D
    <3> HIDE DEF q
    <3> QED BY <1>2, <1>5
  <2>3. p2 \in Nat
    <3> HIDE DEF q2
    <3> QED BY <1>2, <1>5
  <2> QED BY <2>1, <2>2, <2>3
<1> HIDE DEF q, q2, p, p2
<1>9. f2 = f /\ f \in Nat
  <2>1. p - D \in Nat
    BY <1>8
  <2> QED BY <1>2, <1>3, <1>8, <2>1 DEF Fitted
<1> HIDE DEF f, f2
<1>10. n2 - p2 = n - p
  BY <1>2, <1>8
<1>11. /\ r2.dsp_blocks = report.dsp_blocks + 1
       /\ r2.dropped_output = report.dropped_output + (D - w)
       /\ r2.accepted_input = report.accepted_input /\ r2.dropped_input = report.dropped_input
       /\ r2.latency_added = report.latency_added
  BY <1>2 DEF Dropping, Reports
<1> HIDE DEF r2
<1>12. /\ r2.dsp_blocks + q2 = report.dsp_blocks + q
       /\ r2.dropped_output + (m2 + p2 - f2) = report.dropped_output + (m + p - f)
  <2>1. report.dsp_blocks \in Nat /\ report.dropped_output \in Nat
    BY <1>2 DEF Reports
  <2>2. r2.dsp_blocks + q2 = report.dsp_blocks + q
    BY <1>5, <1>11, <2>1
  <2>3. r2.dropped_output + (m2 + p2 - f2) = report.dropped_output + (m + p - f)
    BY <1>2, <1>3, <1>8, <1>9, <1>11, <2>1
  <2> QED BY <2>2, <2>3
<1> HIDE DEF n2, m2
<1>13. /\ DueOf(call, n2, D) = p2 /\ DueOf(call, n, D) = p
       /\ OutputOf(call, n2, m2, c, D) = OutputOf(call, n, m, c, D)
  BY <1>6, <1>7, <1>9 DEF Mapped
<1>14. ReportOf(call, n2, m2, c, D, report') = ReportOf(call, n, m, c, D, report)
  <2>1. n \div D = q /\ n2 \div D = q2
    BY DEF q, q2
  <2>2. ReportOf(call, n, m, c, D, report)
       = [accepted_input |-> report.accepted_input, dropped_input |-> report.dropped_input,
          dsp_blocks |-> report.dsp_blocks + q,
          dropped_output |-> report.dropped_output + (m + p - f),
          underrun |-> IF f < call.outputs THEN call.outputs - f ELSE 0,
          latency_added |-> report.latency_added]
    BY <1>6, <2>1, Zenon DEF Mapped
  <2>3. ReportOf(call, n2, m2, c, D, report')
       = [accepted_input |-> r2.accepted_input, dropped_input |-> r2.dropped_input,
          dsp_blocks |-> r2.dsp_blocks + q2,
          dropped_output |-> r2.dropped_output + (m2 + p2 - f2),
          underrun |-> IF f2 < call.outputs THEN call.outputs - f2 ELSE 0,
          latency_added |-> r2.latency_added]
    BY <1>1, <1>7, <2>1, Zenon DEF Mapped
  <2> QED BY <1>9, <1>11, <1>12, <2>2, <2>3, Zenon
<1>15. /\ SeenInput' = SeenInput /\ SeenOutput' = SeenOutput /\ SeenReport' = SeenReport
  <2>1. /\ SeenInput' = n2 - DueOf(call, n2, D) /\ SeenInput = n - DueOf(call, n, D)
        /\ SeenOutput' = OutputOf(call, n2, m2, c, D) /\ SeenOutput = OutputOf(call, n, m, c, D)
        /\ SeenReport' = ReportOf(call, n2, m2, c, D, report')
        /\ SeenReport = ReportOf(call, n, m, c, D, report)
    BY <1>4, Zenon DEF SeenInput, SeenOutput, SeenReport, n, m, c, D
  <2> QED BY <1>10, <1>13, <1>14, <2>1, Zenon
<1> QED BY <1>1, <1>15, Stutters

LEMMA ReturnRefines ==
  ASSUME StreamInv, StreamInv', Return
  PROVE  UNCHANGED (Adapter!vars)
<1> DEFINE n == input_fifo.len
           m == output_fifo.len
           D == target_block_size
           c == capacity
           k == call.outputs
           popped == PopUpTo(output_fifo, k)
           l == Len(popped.got)
<1>1. /\ call.in = "process" /\ n < D
      /\ output_fifo' = popped.fifo
      /\ report' = [report EXCEPT !.underrun = k - l]
      /\ call' = Idle
      /\ UNCHANGED <<target_block_size, capacity, input_fifo, host_quantum, latency_samples>>
  BY DEF Return
<1>2. /\ D \in Nat \ {0} /\ c \in Nat /\ n \in Nat /\ m \in 0 .. c
      /\ k \in Nat /\ report \in Reports
  BY Types
<1>3. l = (IF k < m THEN k ELSE m) /\ popped.fifo.len = m - l
  BY <1>2, TakeEffect
<1>4. SeenInput' = n /\ SeenOutput' = m - l /\ SeenReport' = report'
  <2>1. call'.in # "process" /\ call'.in # "flush" /\ call'.outputs = 0
    BY <1>1 DEF Idle
  <2>2. /\ SeenInput' = input_fifo'.len /\ SeenReport' = report'
        /\ SeenOutput' = output_fifo'.len
    BY <2>1, SeenOtherAfter
  <2> QED BY <1>1, <1>3, <2>2
<1> HIDE DEF n, m, D, c, k, l, popped
<1>5. n \div D = 0
  <2>1. /\ n % D \in 0 .. (D - 1) /\ n \div D \in Nat /\ n = D * (n \div D) + (n % D)
    BY <1>2, Arithmetic!DivisionFacts, StreamAssumption
  <2> DEFINE q == n \div D
             s == n % D
  <2>2. q \in Nat /\ s \in 0 .. (D - 1) /\ n = D * q + s
    BY <2>1
  <2> HIDE DEF q, s
  <2>3. q >= 1 => D * q >= D
    BY <1>2, <2>2
  <2>4. q = 0
    BY <1>1, <1>2, <2>2, <2>3
  <2> QED BY <2>4 DEF q
<1>6. Mapped(call, n, m, c, D, report, 0, m)
  <2>1. Mapped(call, n, m, c, D, report, (n \div D) * D, Fitted(c, m + (n \div D) * D))
    BY <1>1, <1>2, MappedProcess DEF k
  <2>2. (n \div D) * D = 0 /\ m + 0 = m /\ Fitted(c, m) = m
    BY <1>2, <1>5 DEF Fitted
  <2> QED BY <2>1, <2>2
<1>7. SeenInput = n /\ SeenOutput = m - l
  <2>1. SeenInput = n - DueOf(call, n, D) /\ SeenOutput = OutputOf(call, n, m, c, D)
    BY Zenon DEF SeenInput, SeenOutput, n, m, c, D
  <2> QED BY <1>2, <1>3, <1>6, <2>1 DEF Mapped, k
<1>8. SeenReport = report'
  <2> DEFINE z == k - l
  <2>1. z \in Nat /\ z = IF m < k THEN k - m ELSE 0
    BY <1>2, <1>3
  <2>2. /\ report.dsp_blocks + (n \div D) = report.dsp_blocks
        /\ report.dropped_output + (m + 0 - m) = report.dropped_output
    BY <1>2, <1>5 DEF Reports
  <2>3. SeenReport = ReportOf(call, n, m, c, D, report)
    BY Zenon DEF SeenReport, n, m, c, D
  <2>4. SeenReport
       = [accepted_input |-> report.accepted_input, dropped_input |-> report.dropped_input,
          dsp_blocks |-> report.dsp_blocks, dropped_output |-> report.dropped_output,
          underrun |-> z, latency_added |-> report.latency_added]
    <3>1. SeenReport
           = [accepted_input |-> report.accepted_input, dropped_input |-> report.dropped_input,
              dsp_blocks |-> report.dsp_blocks + (n \div D),
              dropped_output |-> report.dropped_output + (m + 0 - m),
              underrun |-> IF m < call.outputs THEN call.outputs - m ELSE 0,
              latency_added |-> report.latency_added]
      BY <1>6, <2>3, Zenon DEF Mapped
    <3>2. (IF m < call.outputs THEN call.outputs - m ELSE 0) = z
      BY <2>1, Zenon DEF k
    <3> HIDE DEF z
    <3> QED BY <2>2, <3>1, <3>2, Zenon
  <2> HIDE DEF z
  <2>5. [report EXCEPT !.underrun = z]
       = [accepted_input |-> report.accepted_input, dropped_input |-> report.dropped_input,
          dsp_blocks |-> report.dsp_blocks, dropped_output |-> report.dropped_output,
          underrun |-> z, latency_added |-> report.latency_added]
    BY <1>2, <2>1 DEF Reports
  <2> QED BY <1>1, <2>4, <2>5 DEF z
<1>9. SeenInput' = SeenInput /\ SeenOutput' = SeenOutput /\ SeenReport' = SeenReport
  BY <1>4, <1>7, <1>8, Zenon
<1> QED BY <1>1, <1>9, Stutters

\* A flush is seen when it starts: both FIFOs are as good as empty.
LEMMA FlushRemainderRefines ==
  ASSUME StreamInv, StreamInv', FlushRemainder
  PROVE  Adapter!Flush
<1>1. /\ call = Idle /\ call' = Flushing
      /\ UNCHANGED <<target_block_size, capacity, host_quantum, latency_samples, report>>
  BY DEF FlushRemainder
<1>2. SeenReport = report
  <2>1. call.in # "process"
    BY <1>1 DEF Idle
  <2> QED BY <2>1, SeenOther
<1>3. call'.in = "flush" /\ call'.in # "process" /\ call'.outputs = 0
  BY <1>1 DEF Flushing
<1>4. SeenInput' = input_fifo'.len /\ SeenOutput' = 0 /\ SeenReport' = report'
  BY <1>3, SeenOtherAfter
<1>5. input_fifo'.len = 0
  BY <1>3 DEF StreamInv, CallInv
<1>6. SeenInput' = 0 /\ SeenOutput' = 0 /\ SeenReport' = SeenReport
  BY <1>1, <1>2, <1>4, <1>5, Zenon
<1> QED BY <1>1, <1>6, SeenIs, SeenAfter DEF Adapter!Flush, Adapter!config

LEMMA FlushReturnRefines ==
  ASSUME StreamInv, StreamInv', FlushReturn
  PROVE  UNCHANGED (Adapter!vars)
<1> DEFINE m == output_fifo.len
           popped == PopUpTo(output_fifo, m)
<1>1. /\ call.in = "flush" /\ output_fifo' = popped.fifo /\ call' = Idle
      /\ UNCHANGED <<target_block_size, capacity, input_fifo, host_quantum,
                     latency_samples, report>>
  BY DEF FlushReturn
<1>2. m \in Nat
  BY Types
<1>3. popped.fifo.len = m - m
  <2>1. /\ Len(popped.got) = IF m < output_fifo.len THEN m ELSE output_fifo.len
        /\ popped.fifo.len = output_fifo.len - Len(popped.got)
    BY <1>2, TakeEffect
  <2> QED BY <1>2, <2>1
<1>4. output_fifo'.len = 0
  <2> HIDE DEF popped
  <2> QED BY <1>1, <1>2, <1>3
<1>5. SeenInput = input_fifo.len /\ SeenOutput = 0 /\ SeenReport = report
  BY <1>1, SeenOther
<1>6. call'.in # "process" /\ call'.in # "flush" /\ call'.outputs = 0
  BY <1>1 DEF Idle
<1>7. SeenInput' = input_fifo'.len /\ SeenOutput' = output_fifo'.len /\ SeenReport' = report'
  BY <1>6, SeenOtherAfter
<1>8. SeenInput' = SeenInput /\ SeenOutput' = SeenOutput /\ SeenReport' = SeenReport
  BY <1>1, <1>4, <1>5, <1>7, Zenon
<1> QED BY <1>1, <1>8, Stutters

LEMMA RefineNext ==
  StreamInv /\ StreamInv' /\ [Next]_vars => [Adapter!Next]_(Adapter!vars)
<1> SUFFICES ASSUME StreamInv, StreamInv', [Next]_vars
             PROVE  [Adapter!Next]_(Adapter!vars)
  OBVIOUS
<1>1. CASE \E nIn, nOut \in HostBlocks : Start(nIn, nOut)
  <2>1. PICK nIn \in HostBlocks, nOut \in HostBlocks : Start(nIn, nOut)
    BY <1>1
  <2>2. nIn \in Nat /\ nOut \in Nat
    BY StreamAssumption
  <2>3. Adapter!ProcessHostBlock(nIn, nOut)
    BY <2>1, <2>2, StartRefines
  <2> QED BY <2>3, Zenon DEF Adapter!Next
<1>2. CASE DspBlock
  BY <1>2, DspBlockRefines, Zenon
<1>3. CASE Return
  BY <1>3, ReturnRefines, Zenon
<1>4. CASE FlushRemainder
  BY <1>4, FlushRemainderRefines, Zenon DEF Adapter!Next
<1>5. CASE FlushReturn
  BY <1>5, FlushReturnRefines, Zenon
<1>6. CASE UNCHANGED vars
  <2>1. UNCHANGED <<target_block_size, capacity, input_fifo, output_fifo, host_quantum,
                    latency_samples, report, call>>
    BY <1>6 DEF vars
  <2>2. SeenInput' = SeenInput /\ SeenOutput' = SeenOutput /\ SeenReport' = SeenReport
    BY <2>1 DEF SeenInput, SeenOutput, SeenReport
  <2> QED BY <2>1, <2>2, Stutters, Zenon
<1> QED BY <1>1, <1>2, <1>3, <1>4, <1>5, <1>6, Zenon DEF Next

(***************************************************************************)
(* process_host_block and flush on the two rings, one DSP block at a time, *)
(* do what AdapterBuffer computes from the lengths in one step, the counts *)
(* of the report included: for every block size, capacity and sequence of  *)
(* host blocks.  What AdapterProofs proves of AdapterBuffer holds of this  *)
(* module too.                                                             *)
(***************************************************************************)
THEOREM StreamImplementsAdapter == Spec => ImplementsAdapter
<1>1. Init => Adapter!Init
  BY RefineInit
<1>2. StreamInv /\ StreamInv' /\ [Next]_vars => [Adapter!Next]_(Adapter!vars)
  BY RefineNext
<1>3. Spec => []StreamInv
  BY Invariance
<1> QED BY <1>1, <1>2, <1>3, PTL DEF Spec, ImplementsAdapter, Adapter!Spec

=============================================================================
