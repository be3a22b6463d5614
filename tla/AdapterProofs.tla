---------------------------- MODULE AdapterProofs ---------------------------
(***************************************************************************)
(* Proofs about the host adapter, for every DSP block size, FIFO capacity  *)
(* and sequence of host blocks.                                            *)
(***************************************************************************)
EXTENDS AdapterHistory, WellFoundedInduction, TLAPS

-----------------------------------------------------------------------------
(* Divisibility and Euclid's algorithm.  What the loop computes is shown   *)
(* by the least counterexample, not by an induction rule.                  *)

Less == {pair \in Nat \X Nat : pair[1] < pair[2]}

\* A set of natural numbers that is not empty has a least element.
LEMMA LeastElement ==
  ASSUME NEW T \in SUBSET Nat, T # {}
  PROVE  \E x \in T : \A y \in T : x <= y
<1>1. IsWellFoundedOn(Less, Nat)
  BY NatLessThanWellFounded, Zenon DEF OpToRel, Less
<1>2. PICK x \in T : \A y \in T : ~(<<y, x>> \in Less)
  BY <1>1, WFMin
<1>3. ASSUME NEW y \in T PROVE x <= y
  <2>1. <<y, x>> \notin Less /\ x \in Nat /\ y \in Nat
    BY <1>2
  <2>2. <<y, x>> \in Nat \X Nat /\ <<y, x>>[1] = y /\ <<y, x>>[2] = x
    BY <2>1
  <2>3. ~(y < x)
    BY <2>1, <2>2, Zenon DEF Less
  <2> QED BY <2>1, <2>3
<1> QED BY <1>3

Divides(d, a) == \E k \in Int : a = d * k

CommonDivisors(a, b) == {d \in Nat \ {0} : Divides(d, a) /\ Divides(d, b)}

LEMMA DivisionFacts ==
  ASSUME NEW a \in Nat, NEW b \in Nat \ {0}
  PROVE  /\ a % b \in 0 .. (b - 1)
         /\ a \div b \in Nat
         /\ a = b * (a \div b) + (a % b)
<1> DEFINE q == a \div b
           r == a % b
<1>1. r \in 0 .. (b - 1) /\ q \in Int /\ a = b * q + r
  OBVIOUS
<1> HIDE DEF q, r
<1>2. q <= -1 => b * q <= -b
  BY <1>1
<1>3. q \in Nat
  BY <1>1, <1>2
<1> QED BY <1>1, <1>3 DEF q, r

\* Sums and multiples of multiples of d are multiples of d.
LEMMA DividesCombination ==
  ASSUME NEW d \in Int, NEW a \in Int, NEW b \in Int, NEW q \in Int,
         Divides(d, a), Divides(d, b)
  PROVE  Divides(d, a + b * q)
<1>1. PICK k \in Int : a = d * k
  BY DEF Divides
<1>2. PICK l \in Int : b = d * l
  BY DEF Divides
<1>3. a + b * q = d * (k + l * q) /\ k + l * q \in Int
  BY <1>1, <1>2
<1> QED BY <1>3 DEF Divides

\* A positive number is not less than its divisors.
LEMMA DivisorIsLess ==
  ASSUME NEW d \in Nat \ {0}, NEW a \in Nat \ {0}, Divides(d, a)
  PROVE  d <= a
<1>1. PICK k \in Int : a = d * k
  BY DEF Divides
<1>2. k >= 1
  <2>1. k <= 0 => d * k <= 0
    BY <1>1
  <2> QED BY <1>1, <2>1
<1>3. d * (k - 1) >= 0
  BY <1>1, <1>2
<1> QED BY <1>1, <1>3

LEMMA SameDivisors ==
  ASSUME NEW a \in Nat, NEW b \in Nat \ {0}
  PROVE  CommonDivisors(a, b) = CommonDivisors(b, a % b)
<1> DEFINE r == a % b
           q == a \div b
<1>1. r \in Nat /\ q \in Int /\ -q \in Int /\ a = b * q + r
  <2>1. q \in Nat /\ r \in 0 .. (b - 1) /\ a = b * q + r
    BY DivisionFacts
  <2> QED BY <2>1
<1> HIDE DEF r, q
<1>2. ASSUME NEW d \in Nat \ {0}, Divides(d, a), Divides(d, b) PROVE Divides(d, r)
  <2>1. Divides(d, a + b * (-q))
    <3>1. d \in Int /\ a \in Int /\ b \in Int
      OBVIOUS
    <3> QED BY <1>1, <1>2, <3>1, DividesCombination
  <2>2. r = a + b * (-q)
    BY <1>1
  <2> QED BY <2>1, <2>2
<1>3. ASSUME NEW d \in Nat \ {0}, Divides(d, b), Divides(d, r) PROVE Divides(d, a)
  <2>1. Divides(d, r + b * q)
    <3>1. d \in Int /\ r \in Int /\ b \in Int
      BY <1>1
    <3> QED BY <1>1, <1>3, <3>1, DividesCombination
  <2>2. a = r + b * q
    BY <1>1
  <2> QED BY <2>1, <2>2
<1> QED BY <1>2, <1>3 DEF CommonDivisors, r

(***************************************************************************)
(* That the recursive definition of Euclid has a solution is shown with    *)
(* the greatest common divisor itself, which satisfies the equation.       *)
(***************************************************************************)
GreatestOf(S) == CHOOSE d \in S : \A e \in S : e <= d

Greatest(a, b) == IF a = 0 /\ b = 0 THEN 0 ELSE GreatestOf(CommonDivisors(a, b))

LEMMA GreatestBase ==
  ASSUME NEW a \in Nat
  PROVE  Greatest(a, 0) = a
<1>1. CASE a = 0
  BY <1>1 DEF Greatest
<1>2. CASE a # 0
  <2> DEFINE S == CommonDivisors(a, 0)
  <2>1. a \in S
    <3>1. a = a * 1 /\ 0 = a * 0
      OBVIOUS
    <3> QED BY <1>2, <3>1 DEF CommonDivisors, Divides
  <2>2. S \subseteq Nat /\ \A e \in S : e <= a
    BY <1>2, DivisorIsLess DEF CommonDivisors
  <2> HIDE DEF S
  <2>3. \A d \in S : (\A e \in S : e <= d) => d = a
    BY <2>1, <2>2
  <2>4. GreatestOf(S) = a
    BY <2>1, <2>2, <2>3, Zenon DEF GreatestOf
  <2> QED BY <1>2, <2>4 DEF Greatest, S
<1> QED BY <1>1, <1>2

LEMMA GreatestStep ==
  ASSUME NEW a \in Nat, NEW b \in Nat \ {0}
  PROVE  Greatest(a, b) = Greatest(b, a % b)
<1>1. CommonDivisors(a, b) = CommonDivisors(b, a % b)
  BY SameDivisors
<1> QED BY <1>1, Zenon DEF Greatest

LEMMA EuclidEquation ==
  Euclid = [right \in Nat |->
              [left \in Nat |->
                 IF right = 0 THEN left ELSE Euclid[left % right][right]]]
<1> DEFINE f == [right \in Nat |-> [left \in Nat |-> Greatest(left, right)]]
<1>1. ASSUME NEW right \in Nat, NEW left \in Nat
      PROVE  Greatest(left, right) = IF right = 0 THEN left ELSE f[left % right][right]
  <2>1. CASE right = 0
    BY <2>1, GreatestBase
  <2>2. CASE right # 0
    <3>1. left % right \in Nat
      BY <2>2
    <3> QED BY <2>2, <3>1, GreatestStep
  <2> QED BY <2>1, <2>2
<1> HIDE DEF f
<1>2. ASSUME NEW right \in Nat
      PROVE  [left \in Nat |-> Greatest(left, right)]
               = [left \in Nat |->
                    IF right = 0 THEN left ELSE f[left % right][right]]
  BY <1>1, Zenon
<1>3. f = [right \in Nat |->
             [left \in Nat |-> IF right = 0 THEN left ELSE f[left % right][right]]]
  BY <1>2, Zenon DEF f
<1> QED BY <1>3, Zenon DEF Euclid

\* greatest_common_divisor returns a common divisor of its arguments.
LEMMA EuclidDivides ==
  ASSUME NEW left \in Nat, NEW right \in Nat \ {0}
  PROVE  greatest_common_divisor(left, right) \in CommonDivisors(left, right)
<1> DEFINE Right(b) == \A a \in Nat :
             a # 0 \/ b # 0 => Euclid[b][a] \in CommonDivisors(a, b)
           Wrong == {b \in Nat : ~Right(b)}
<1>1. \A a \in Nat : Euclid[0][a] = a
  BY EuclidEquation
<1>2. ASSUME NEW b \in Nat \ {0}, NEW a \in Nat
      PROVE  Euclid[b][a] = Euclid[a % b][b]
  <2>1. Euclid[b] = [l \in Nat |-> IF b = 0 THEN l ELSE Euclid[l % b][b]]
    BY EuclidEquation
  <2> QED BY <2>1
<1>3. Right(0)
  <2>1. ASSUME NEW a \in Nat, a # 0 PROVE a \in CommonDivisors(a, 0)
    <3>1. a = a * 1 /\ 0 = a * 0
      OBVIOUS
    <3> QED BY <2>1, <3>1 DEF CommonDivisors, Divides
  <2> QED BY <1>1, <2>1
<1>4. ASSUME NEW b \in Nat \ {0}, \A c \in 0 .. (b - 1) : Right(c) PROVE Right(b)
  <2>1. ASSUME NEW a \in Nat PROVE Euclid[b][a] \in CommonDivisors(a, b)
    <3>1. a % b \in 0 .. (b - 1)
      BY DivisionFacts
    <3>2. Euclid[a % b][b] \in CommonDivisors(b, a % b)
      BY <1>4, <3>1
    <3> QED BY <1>2, <3>2, SameDivisors
  <2> QED BY <2>1
<1>5. Wrong = {}
  <2> SUFFICES ASSUME Wrong # {} PROVE FALSE
    OBVIOUS
  <2>1. Wrong \in SUBSET Nat
    OBVIOUS
  <2>2. PICK b \in Wrong : \A c \in Wrong : b <= c
    <3> HIDE DEF Wrong
    <3> QED BY <2>1, LeastElement
  <2>3. \A c \in 0 .. (b - 1) : Right(c)
    <3> HIDE DEF Right
    <3> QED BY <2>2
  <2>4. b \in Nat /\ ~Right(b)
    <3> HIDE DEF Right
    <3> QED OBVIOUS
  <2> HIDE DEF Right
  <2> QED BY <1>3, <1>4, <2>3, <2>4
<1>6. Right(right)
  <2> HIDE DEF Right
  <2> QED BY <1>5
<1> QED BY <1>6 DEF greatest_common_divisor

-----------------------------------------------------------------------------
(* The inductive invariant                                                 *)

Gcd == greatest_common_divisor(host_quantum, target_block_size)

Inside == input_fifo + output_fifo

AdapterType ==
  /\ target_block_size \in Nat \ {0}
  /\ capacity \in Nat /\ capacity >= 2 * target_block_size
  /\ input_fifo \in 0 .. (target_block_size - 1)
  /\ output_fifo \in 0 .. capacity
  /\ host_quantum \in Nat
  /\ latency_samples \in Nat

\* Nothing has gone through yet.
Untouched ==
  input_fifo = 0 /\ output_fifo = 0 /\ latency_samples = 0 /\ ~renegotiated

\* With the first quantum the samples inside are exactly the reserve, and the
\* input FIFO holds a multiple of the greatest common divisor.
Steady ==
  /\ Inside = target_block_size - Gcd
  /\ latency_samples = target_block_size - Gcd
  /\ Divides(Gcd, input_fifo)

\* Once the quantum has changed, a block less one sample is inside at least.
Renegotiated ==
  target_block_size - 1 <= Inside /\ Inside <= 2 * (target_block_size - 1)

Stream ==
  ~disturbed =>
    /\ report.underrun = 0
    /\ host_quantum = None => Untouched
    /\ host_quantum # None /\ ~renegotiated => Steady
    /\ host_quantum # None /\ renegotiated => Renegotiated

AInv == AdapterType /\ Stream

LEMMA GcdFacts ==
  ASSUME AdapterType, NEW n \in Nat
  PROVE  LET g == greatest_common_divisor(n, target_block_size)
         IN  /\ g \in 1 .. target_block_size
             /\ Divides(g, n) /\ Divides(g, target_block_size)
<1>1. target_block_size \in Nat \ {0}
  BY DEF AdapterType
<1>2. greatest_common_divisor(n, target_block_size) \in CommonDivisors(n, target_block_size)
  BY <1>1, EuclidDivides
<1> HIDE DEF greatest_common_divisor
<1> QED BY <1>1, <1>2, DivisorIsLess DEF CommonDivisors

\* A multiple of g below D is at most D - g, if g divides D.
LEMMA MultipleBelow ==
  ASSUME NEW D \in Nat \ {0}, NEW g \in 1 .. D, NEW i \in 0 .. (D - 1),
         Divides(g, D), Divides(g, i)
  PROVE  i <= D - g
<1>1. g \in Int /\ D \in Int /\ i \in Int /\ -1 \in Int
  OBVIOUS
<1>2. Divides(g, D + i * (-1))
  BY <1>1, DividesCombination
<1>3. D + i * (-1) = D - i /\ D - i \in Nat \ {0} /\ g \in Nat \ {0}
  OBVIOUS
<1>4. g <= D - i
  BY <1>2, <1>3, DivisorIsLess
<1> QED BY <1>1, <1>4

\* The silence that prime_for_quantum inserts always fits.
LEMMA InsertedFacts ==
  ASSUME AdapterType, NEW n \in Nat
  PROVE  /\ RequiredReserve(n) \in 0 .. (target_block_size - 1)
         /\ Inserted(n) = IF Primes(n) /\ RequiredReserve(n) > output_fifo
                          THEN RequiredReserve(n) - output_fifo ELSE 0
         /\ Inserted(n) \in Nat
         /\ output_fifo + Inserted(n) <= capacity
<1>1. greatest_common_divisor(n, target_block_size) \in 1 .. target_block_size
  BY GcdFacts
<1> HIDE DEF greatest_common_divisor
<1>2. RequiredReserve(n) \in 0 .. (target_block_size - 1)
  BY <1>1 DEF RequiredReserve, AdapterType
<1> HIDE DEF RequiredReserve, Primes
<1>3. Inserted(n) = IF Primes(n) /\ RequiredReserve(n) > output_fifo
                    THEN RequiredReserve(n) - output_fifo ELSE 0
  BY <1>2 DEF Inserted, Accepted, MinOf, MaxOf, AdapterType
<1> QED BY <1>2, <1>3 DEF AdapterType

(***************************************************************************)
(* One call of process_host_block.  On a duplex call that drops nothing,   *)
(* what is inside changes by the inserted silence only, and the output is  *)
(* filled unless the new remainder of the input is more than all of it.    *)
(***************************************************************************)
LEMMA CallEffect ==
  ASSUME AdapterType, NEW nIn \in Nat, NEW nOut \in Nat, ProcessHostBlock(nIn, nOut)
  PROVE  /\ AdapterType'
         /\ nIn = nOut /\ report'.dropped_input = 0 /\ report'.dropped_output = 0
              => /\ \E b \in Nat : input_fifo' = input_fifo + nIn + target_block_size * (-b)
                 /\ input_fifo' <= Inside + Inserted(nOut)
                      => report'.underrun = 0 /\ Inside' = Inside + Inserted(nOut)
<1> DEFINE D == target_block_size
           accepted == Accepted(input_fifo, nIn)
           blocks == Blocks(input_fifo + accepted)
           primed == output_fifo + Inserted(nOut)
           produced == blocks * D
           filled == primed + Accepted(primed, produced)
           taken == Popped(filled, nOut)
<1>1. /\ input_fifo' = (input_fifo + accepted) - produced
      /\ output_fifo' = filled - taken
      /\ report'.dropped_input = nIn - accepted
      /\ report'.dropped_output = (primed + produced) - filled
      /\ report'.underrun = nOut - taken
      /\ UNCHANGED config
  BY DEF ProcessHostBlock, DroppedOutput
<1>2. /\ D \in Nat \ {0} /\ capacity \in Nat /\ capacity >= 2 * D
      /\ input_fifo \in 0 .. (D - 1) /\ output_fifo \in 0 .. capacity
  BY DEF AdapterType
<1>3. primed \in 0 .. capacity /\ primed = output_fifo + Inserted(nOut)
  BY <1>2, InsertedFacts
<1>4. accepted \in 0 .. nIn
  BY <1>2 DEF Accepted, MinOf
<1> HIDE DEF accepted, primed
<1>5. /\ blocks \in Nat
      /\ (input_fifo + accepted) - D * blocks \in 0 .. (D - 1)
  <2>1. input_fifo + accepted \in Nat
    BY <1>2, <1>4
  <2>2. blocks = (input_fifo + accepted) \div D
    BY DEF Blocks
  <2>3. blocks \in Nat
    BY <1>2, <2>1, <2>2, DivisionFacts
  <2>4. /\ input_fifo + accepted = D * blocks + ((input_fifo + accepted) % D)
        /\ (input_fifo + accepted) % D \in 0 .. (D - 1)
    BY <1>2, <2>1, <2>2, DivisionFacts
  <2> HIDE DEF blocks
  <2>5. D * blocks \in Int
    BY <1>2, <2>3
  <2> QED BY <2>1, <2>3, <2>4, <2>5
<1> HIDE DEF blocks
<1>6. produced = D * blocks /\ produced \in Nat
  BY <1>2, <1>5
<1> HIDE DEF produced
<1>7. /\ filled \in 0 .. capacity
      /\ filled <= primed + produced
  BY <1>2, <1>3, <1>6 DEF Accepted, MinOf
<1> HIDE DEF filled
<1>8. taken \in 0 .. filled /\ taken = IF nOut < filled THEN nOut ELSE filled
  BY <1>7 DEF Popped, MinOf
<1> HIDE DEF taken
<1>9. AdapterType'
  <2>1. input_fifo' \in 0 .. (D - 1)
    BY <1>1, <1>5, <1>6
  <2>2. output_fifo' \in 0 .. capacity
    BY <1>1, <1>2, <1>7, <1>8
  <2>3. host_quantum' \in Nat /\ latency_samples' \in Nat
    BY InsertedFacts DEF ProcessHostBlock, AdapterType, MaxOf
  <2> QED BY <1>1, <1>2, <2>1, <2>2, <2>3 DEF AdapterType, config
<1>10. ASSUME nIn = nOut, report'.dropped_input = 0, report'.dropped_output = 0
       PROVE  /\ \E b \in Nat : input_fifo' = input_fifo + nIn + D * (-b)
              /\ input_fifo' <= Inside + Inserted(nOut)
                   => report'.underrun = 0 /\ Inside' = Inside + Inserted(nOut)
  <2>1. accepted = nIn /\ filled = primed + produced
    BY <1>1, <1>3, <1>4, <1>6, <1>7, <1>10
  <2>2. input_fifo' = input_fifo + nIn + D * (-blocks)
    BY <1>1, <1>2, <1>5, <1>6, <2>1
  <2>3. filled = Inside + Inserted(nOut) + nIn - input_fifo'
    BY <1>1, <1>2, <1>3, <1>6, <2>1, InsertedFacts DEF Inside
  <2>4. ASSUME input_fifo' <= Inside + Inserted(nOut)
        PROVE  report'.underrun = 0 /\ Inside' = Inside + Inserted(nOut)
    <3>1. /\ Inside \in Int /\ Inserted(nOut) \in Int /\ input_fifo' \in Int
          /\ filled \in Int
      BY <1>2, <1>7, <1>9, InsertedFacts DEF Inside, AdapterType
    <3>2. taken = nOut
      BY <1>8, <1>10, <2>3, <2>4, <3>1
    <3> QED BY <1>1, <1>10, <2>3, <3>1, <3>2 DEF Inside
  <2> QED BY <1>5, <2>2, <2>4
<1> QED BY <1>9, <1>10

LEMMA InvInit == HistoryInit => AInv
<1> SUFFICES ASSUME HistoryInit PROVE AInv
  OBVIOUS
<1>1. AdapterType
  BY AdapterAssumption DEF HistoryInit, Init, NewGuard, AdapterType, None
<1>2. Stream
  BY DEF HistoryInit, Init, Stream, Untouched, NoReport
<1> QED BY <1>1, <1>2 DEF AInv

(***************************************************************************)
(* A duplex call on an undisturbed stream, by what it does to the quantum. *)
(***************************************************************************)
LEMMA DuplexCall ==
  ASSUME AInv, NEW n \in Nat, Callback(n, n), ~disturbed'
  PROVE  Stream'
<1> DEFINE D == target_block_size
<1> USE DEF None
<1>0. /\ AdapterType /\ Stream /\ ~disturbed
      /\ ProcessHostBlock(n, n)
      /\ report'.dropped_input = 0 /\ report'.dropped_output = 0
  BY DEF AInv, Callback
<1>1. /\ D \in Nat \ {0} /\ D' = D
      /\ capacity \in Nat /\ capacity >= 2 * D
      /\ input_fifo \in 0 .. (D - 1) /\ output_fifo \in Nat
      /\ host_quantum \in Nat /\ latency_samples \in Nat
  BY <1>0 DEF AdapterType, ProcessHostBlock, config
<1>2. /\ AdapterType'
      /\ \E b \in Nat : input_fifo' = input_fifo + n + D * (-b)
      /\ input_fifo' <= Inside + Inserted(n)
           => report'.underrun = 0 /\ Inside' = Inside + Inserted(n)
  BY <1>0, CallEffect
<1>3. input_fifo' \in 0 .. (D - 1)
  BY <1>1, <1>2 DEF AdapterType
<1>4. /\ host_quantum' = IF Primes(n) THEN n ELSE host_quantum
      /\ latency_samples' = IF Primes(n) THEN MaxOf(latency_samples, RequiredReserve(n))
                                         ELSE latency_samples
      /\ renegotiated' = (renegotiated \/ (n # 0 /\ host_quantum \notin {0, n}))
  BY <1>0 DEF ProcessHostBlock, Callback
<1>5. /\ Inserted(n) = IF Primes(n) /\ RequiredReserve(n) > output_fifo
                       THEN RequiredReserve(n) - output_fifo ELSE 0
      /\ RequiredReserve(n) \in 0 .. (D - 1)
  BY <1>0, InsertedFacts
\* The remainder of the input stays a multiple of a common divisor.
<1>a. ASSUME NEW g \in 1 .. D, Divides(g, input_fifo), Divides(g, n), Divides(g, D)
      PROVE  Divides(g, input_fifo') /\ input_fifo' <= D - g
  <2>1. PICK b \in Nat : input_fifo' = input_fifo + n + D * (-b)
    BY <1>2
  <2>2. /\ g \in Int /\ input_fifo \in Int /\ n \in Int /\ D \in Int /\ -b \in Int
        /\ input_fifo + n \in Int /\ 1 \in Int
    BY <1>1, <2>1
  <2>3. Divides(g, input_fifo + n * 1)
    BY <1>a, <2>2, DividesCombination
  <2>4. Divides(g, input_fifo + n)
    BY <2>2, <2>3
  <2>5. Divides(g, input_fifo + n + D * (-b))
    BY <1>a, <2>2, <2>4, DividesCombination
  <2>6. Divides(g, input_fifo')
    BY <2>1, <2>5
  <2> QED BY <1>1, <1>3, <1>a, <2>6, MultipleBelow
<1>6. CASE host_quantum = 0 /\ n = 0
  <2>1. Untouched /\ Inserted(n) = 0 /\ ~Primes(n)
    BY <1>0, <1>5, <1>6 DEF Stream, Primes
  <2>2. PICK b \in Nat : input_fifo' = D * (-b)
    BY <1>1, <1>2, <1>6, <2>1 DEF Untouched
  <2>3. b >= 1 => D * (-b) <= -D
    BY <1>1, <2>2
  <2>4. input_fifo' = 0
    BY <1>1, <1>3, <2>2, <2>3
  <2>5. report'.underrun = 0 /\ Inside' = 0
    BY <1>2, <2>1, <2>4 DEF Untouched, Inside
  <2>6. output_fifo' = 0
    BY <1>2, <2>4, <2>5 DEF Inside, AdapterType
  <2> QED BY <1>4, <1>6, <2>1, <2>4, <2>5, <2>6 DEF Stream, Untouched
<1>7. CASE host_quantum = 0 /\ n # 0
  <2> DEFINE g == greatest_common_divisor(n, D)
  <2>1. Untouched /\ Primes(n) /\ RequiredReserve(n) = D - g
    BY <1>0, <1>7 DEF Stream, Primes, RequiredReserve
  <2>2. g \in 1 .. D /\ Divides(g, n) /\ Divides(g, D)
    BY <1>0, GcdFacts
  <2> HIDE DEF g
  <2>3. Divides(g, input_fifo)
    <3>1. 0 = g * 0
      BY <2>2
    <3> QED BY <2>1, <3>1 DEF Untouched, Divides
  <2>4. Divides(g, input_fifo') /\ input_fifo' <= D - g
    BY <1>a, <2>2, <2>3
  <2>5. Inserted(n) = D - g /\ Inside = 0
    BY <1>1, <1>5, <2>1, <2>2 DEF Untouched, Inside
  <2>6. report'.underrun = 0 /\ Inside' = D - g
    BY <1>1, <1>2, <2>2, <2>4, <2>5
  <2>7. host_quantum' = n /\ latency_samples' = D - g /\ ~renegotiated'
    <3>1. host_quantum' = n /\ latency_samples' = MaxOf(0, D - g)
      BY <1>4, <2>1 DEF Untouched
    <3>2. MaxOf(0, D - g) = D - g
      BY <1>1, <2>2 DEF MaxOf
    <3>3. ~renegotiated'
      BY <1>4, <1>7, <2>1 DEF Untouched
    <3> QED BY <3>1, <3>2, <3>3
  <2>8. Gcd' = g
    BY <1>1, <2>7 DEF Gcd, g
  <2> QED BY <1>1, <1>7, <2>4, <2>6, <2>7, <2>8 DEF Stream, Steady
<1>8. CASE host_quantum # 0 /\ n \in {0, host_quantum} /\ ~renegotiated
  <2>1. Steady /\ ~Primes(n) /\ Inserted(n) = 0
    BY <1>0, <1>5, <1>8 DEF Stream, Primes
  <2>2. Gcd \in 1 .. D /\ Divides(Gcd, host_quantum) /\ Divides(Gcd, D)
    BY <1>0, <1>1, GcdFacts DEF Gcd
  <2>3. host_quantum' = host_quantum /\ latency_samples' = latency_samples
        /\ ~renegotiated'
    BY <1>4, <1>8, <2>1
  <2>4. Gcd' = Gcd
    BY <1>1, <2>3 DEF Gcd
  <2> HIDE DEF Gcd
  <2>5. Divides(Gcd, n)
    <3>1. 0 = Gcd * 0
      BY <2>2
    <3> QED BY <1>8, <2>2, <3>1 DEF Divides
  <2>6. Divides(Gcd, input_fifo') /\ input_fifo' <= D - Gcd
    BY <1>a, <2>1, <2>2, <2>5 DEF Steady
  <2>7. report'.underrun = 0 /\ Inside' = Inside
    BY <1>1, <1>2, <2>1, <2>2, <2>6 DEF Steady
  <2> QED BY <1>1, <1>8, <2>1, <2>3, <2>4, <2>6, <2>7 DEF Stream, Steady
<1>9. CASE host_quantum # 0 /\ n \in {0, host_quantum} /\ renegotiated
  <2>1. Renegotiated /\ ~Primes(n) /\ Inserted(n) = 0
    BY <1>0, <1>5, <1>9 DEF Stream, Primes
  <2>2. report'.underrun = 0 /\ Inside' = Inside
    BY <1>1, <1>2, <1>3, <2>1 DEF Renegotiated, Inside
  <2> QED BY <1>1, <1>4, <1>9, <2>1, <2>2 DEF Stream, Renegotiated
<1>10. CASE host_quantum # 0 /\ n # 0 /\ n # host_quantum
  <2>1. Primes(n) /\ RequiredReserve(n) = D - 1
    BY <1>10 DEF Primes, RequiredReserve
  <2>2. Inside <= 2 * (D - 1)
    <3>1. CASE renegotiated
      BY <1>0, <1>10, <3>1 DEF Stream, Renegotiated
    <3>2. CASE ~renegotiated
      <4>1. Inside = D - Gcd /\ Gcd \in 1 .. D
        BY <1>0, <1>1, <1>10, <3>2, GcdFacts DEF Stream, Steady, Gcd
      <4> QED BY <1>1, <4>1
    <3> QED BY <3>1, <3>2
  <2>3. /\ Inside + Inserted(n) >= D - 1
        /\ Inside + Inserted(n) <= 2 * (D - 1)
    BY <1>1, <1>5, <2>1, <2>2 DEF Inside
  <2>4. Inside + Inserted(n) \in Int
    BY <1>1, <1>5 DEF Inside
  <2>5. report'.underrun = 0 /\ Inside' = Inside + Inserted(n)
    BY <1>1, <1>2, <1>3, <2>3, <2>4
  <2>6. host_quantum' = n /\ renegotiated'
    BY <1>4, <1>10, <2>1
  <2> QED BY <1>1, <1>10, <2>3, <2>5, <2>6 DEF Stream, Renegotiated
<1> QED BY <1>6, <1>7, <1>8, <1>9, <1>10

LEMMA InvNext == AInv /\ [HistoryNext]_historyVars => AInv'
<1> SUFFICES ASSUME AInv, [HistoryNext]_historyVars PROVE AInv'
  OBVIOUS
<1>0. AdapterType /\ Stream
  BY DEF AInv
<1>1. ASSUME NEW nIn \in HostBlocks, NEW nOut \in HostBlocks, Callback(nIn, nOut)
      PROVE  AInv'
  <2>1. nIn \in Nat /\ nOut \in Nat
    BY AdapterAssumption
  <2>2. AdapterType'
    BY <1>0, <1>1, <2>1, CallEffect DEF Callback
  <2>3. ASSUME ~disturbed' PROVE Stream'
    <3>1. nIn = nOut
      BY <1>1, <2>3 DEF Callback
    <3> QED BY <1>1, <2>1, <2>3, <3>1, DuplexCall
  <2>4. Stream'
    BY <2>3 DEF Stream
  <2> QED BY <2>2, <2>4 DEF AInv
<1>2. CASE FlushCall
  <2>1. AdapterType'
    BY <1>0, <1>2 DEF FlushCall, Flush, AdapterType, config
  <2>2. Stream'
    BY <1>2 DEF FlushCall, Stream
  <2> QED BY <2>1, <2>2 DEF AInv
<1>3. CASE UNCHANGED historyVars
  <2>1. AdapterType'
    BY <1>0, <1>3 DEF historyVars, vars, config, fifos, AdapterType
  <2>2. Stream'
    BY <1>0, <1>3 DEF historyVars, vars, config, fifos, Stream, Untouched, Steady,
                      Renegotiated, Inside, Gcd
  <2> QED BY <2>1, <2>2 DEF AInv
<1> QED BY <1>1, <1>2, <1>3 DEF HistoryNext

LEMMA Invariance == HistorySpec => []AInv
BY InvInit, InvNext, PTL DEF HistorySpec

(***************************************************************************)
(* "Priming prevents periodic output underruns", for every size of the DSP *)
(* block, every capacity new accepts and every sequence of host blocks: a  *)
(* duplex stream from which nothing was dropped never runs short, with a   *)
(* fixed quantum and across changes of it.                                 *)
(***************************************************************************)
THEOREM PrimingPreventsUnderruns == HistorySpec => []NoUnderrun
<1>1. AInv => NoUnderrun
  BY DEF AInv, Stream, NoUnderrun
<1> QED BY <1>1, Invariance, PTL

(***************************************************************************)
(* As long as the quantum stays the same, latency_samples is the number of *)
(* samples inside the adapter and so the delay of the stream.              *)
(***************************************************************************)
THEOREM LatencyIsExact == HistorySpec => []SteadyLatencyExact
<1>1. AInv => SteadyLatencyExact
  BY DEF AInv, Stream, SteadyLatencyExact, Untouched, Steady, Inside, AdapterType
<1> QED BY <1>1, Invariance, PTL

(***************************************************************************)
(* However often the host renegotiates its block size, less than two DSP   *)
(* blocks are inside the adapter.                                          *)
(***************************************************************************)
THEOREM DelayStaysBounded == HistorySpec => []DelayBounded
<1>1. AInv => DelayBounded
  <2> SUFFICES ASSUME AInv, ~disturbed
               PROVE  Inside <= 2 * (target_block_size - 1)
    BY DEF DelayBounded, Inside
  <2>0. AdapterType /\ Stream /\ target_block_size \in Nat \ {0} /\ host_quantum \in Nat
    BY DEF AInv, AdapterType
  <2>1. CASE host_quantum = None
    BY <2>0, <2>1 DEF Stream, Untouched, Inside
  <2>2. CASE host_quantum # None /\ ~renegotiated
    <3>1. Inside = target_block_size - Gcd /\ Gcd \in 1 .. target_block_size
      BY <2>0, <2>2, GcdFacts DEF Stream, Steady, Gcd
    <3> QED BY <2>0, <3>1
  <2>3. CASE host_quantum # None /\ renegotiated
    BY <2>0, <2>3 DEF Stream, Renegotiated
  <2> QED BY <2>1, <2>2, <2>3
<1> QED BY <1>1, Invariance, PTL

=============================================================================
