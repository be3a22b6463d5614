--------------------------- MODULE SpscRingProofs ---------------------------
(***************************************************************************)
(* Proofs about SpscRing for every capacity N, word size W, batch length M *)
(* and set of elements.  What depends on slots being reused in turn needs  *)
(* N to divide W: on a machine word, that N is a power of two.             *)
(***************************************************************************)
EXTENDS SpscLen, SequenceTheorems, TLAPS

-----------------------------------------------------------------------------
(* Integer division                                                        *)

\* What % and \div mean.
LEMMA DivMod ==
  ASSUME NEW n \in Nat \ {0}, NEW a \in Int
  PROVE  /\ a % n \in 0 .. (n - 1)
         /\ a \div n \in Int
         /\ a = n * (a \div n) + (a % n)
  OBVIOUS

LEMMA MultipleAtLeast ==
  ASSUME NEW n \in Nat \ {0}, NEW k \in Int, k >= 1
  PROVE  n * k >= n
  OBVIOUS

\* A remainder is unique.
LEMMA ModUnique ==
  ASSUME NEW n \in Nat \ {0}, NEW a \in Int, NEW k \in Int,
         NEW r \in 0 .. (n - 1), a = n * k + r
  PROVE  a % n = r
<1> DEFINE d == a \div n
<1>1. /\ a = n * d + (a % n)
      /\ a % n \in 0 .. (n - 1)
      /\ d \in Int
  BY DivMod
<1> HIDE DEF d
<1>2. CASE k > d
  <2>1. n * (k - d) >= n
    BY <1>1, <1>2, MultipleAtLeast
  <2>2. n * (k - d) = n * k - n * d
    BY <1>1
  <2> QED BY <1>1, <2>1, <2>2
<1>3. CASE k < d
  <2>1. n * (d - k) >= n
    BY <1>1, <1>3, MultipleAtLeast
  <2>2. n * (d - k) = n * d - n * k
    BY <1>1
  <2> QED BY <1>1, <2>1, <2>2
<1>4. CASE k = d
  BY <1>1, <1>4
<1> QED BY <1>1, <1>2, <1>3, <1>4

\* Adding a multiple of n does not change the remainder.
LEMMA ModShift ==
  ASSUME NEW n \in Nat \ {0}, NEW a \in Int, NEW k \in Int
  PROVE  (a + n * k) % n = a % n
<1> DEFINE d == a \div n
           r == a % n
<1>1. a = n * d + r /\ r \in 0 .. (n - 1) /\ d \in Int
  BY DivMod
<1> HIDE DEF d, r
<1>2. a + n * k = n * (d + k) + r
  BY <1>1
<1>3. (a + n * k) % n = r
  BY <1>1, <1>2, ModUnique
<1> QED BY <1>3 DEF r

\* Numbers less than n apart have different remainders.
LEMMA ModDistinct ==
  ASSUME NEW n \in Nat \ {0}, NEW a \in Int, NEW b \in Int,
         a < b, b - a < n
  PROVE  a % n # b % n
<1> DEFINE d == a \div n
           r == a % n
<1> SUFFICES ASSUME b % n = r PROVE FALSE
  OBVIOUS
<1>1. a = n * d + r /\ r \in 0 .. (n - 1) /\ d \in Int
  BY DivMod
<1>2. b = n * (b \div n) + r /\ b \div n \in Int
  BY DivMod
<1> HIDE DEF d, r
<1>3. n * ((b \div n) - d) = b - a
  BY <1>1, <1>2
<1>4. CASE (b \div n) - d >= 1
  BY <1>1, <1>2, <1>3, <1>4, MultipleAtLeast
<1>5. CASE (b \div n) - d <= 0
  <2>1. n * (d - (b \div n)) >= 0
    BY <1>1, <1>2, <1>5
  <2>2. n * (d - (b \div n)) = -(n * ((b \div n) - d))
    BY <1>1, <1>2
  <2> QED BY <2>1, <2>2, <1>3
<1> QED BY <1>1, <1>2, <1>4, <1>5

-----------------------------------------------------------------------------
(* Index arithmetic of the ring                                            *)

\* wrapping_sub, as a case distinction.
LEMMA SubCases ==
  ASSUME NEW i \in Indices, NEW j \in Indices
  PROVE  WrappingSub(j, i) = IF j >= i THEN j - i ELSE j - i + W
<1> USE RingAssumption DEF Indices, WrappingSub
<1>1. CASE j >= i
  <2>1. j - i = W * 0 + (j - i)
    OBVIOUS
  <2> QED BY <1>1, <2>1, ModUnique
<1>2. CASE j < i
  <2>1. j - i = W * (-1) + (j - i + W)
    OBVIOUS
  <2>2. j - i + W \in 0 .. (W - 1) /\ -1 \in Int /\ j - i \in Int
    BY <1>2
  <2> QED BY <1>2, <2>1, <2>2, ModUnique
<1> QED BY <1>1, <1>2

\* wrapping_add of less than a whole turn, as a case distinction.
LEMMA AddCases ==
  ASSUME NEW i \in Indices, NEW k \in 0 .. W
  PROVE  WrappingAdd(i, k) = IF i + k < W THEN i + k ELSE i + k - W
<1> USE RingAssumption DEF Indices, WrappingAdd
<1>1. CASE i + k < W
  <2>1. i + k = W * 0 + (i + k)
    OBVIOUS
  <2> QED BY <1>1, <2>1, ModUnique
<1>2. CASE i + k >= W
  <2>1. i + k = W * 1 + (i + k - W)
    OBVIOUS
  <2>2. i + k - W \in 0 .. (W - 1)
    BY <1>2
  <2> QED BY <1>2, <2>1, <2>2, ModUnique
<1> QED BY <1>1, <1>2

\* The facts about the indices that the rest of the proof uses: i is head,
\* j is tail.
LEMMA IndexFacts ==
  ASSUME NEW i \in Indices, NEW j \in Indices
  PROVE  /\ WrappingSub(j, i) \in 0 .. (W - 1)
         /\ WrappingAdd(i, WrappingSub(j, i)) = j
         /\ WrappingSub(j, i) = 0 <=> i = j
         /\ \A k \in 0 .. W : WrappingAdd(i, k) \in Indices
         /\ WrappingSub(j, i) < W - 1
              => WrappingSub(WrappingAdd(j, 1), i) = WrappingSub(j, i) + 1
         /\ \A k \in 0 .. WrappingSub(j, i) :
              /\ WrappingSub(j, WrappingAdd(i, k)) = WrappingSub(j, i) - k
              /\ \A l \in 0 .. (WrappingSub(j, i) - k) :
                   WrappingAdd(WrappingAdd(i, k), l) = WrappingAdd(i, k + l)
<1> USE RingAssumption DEF Indices
<1>1. WrappingSub(j, i) = IF j >= i THEN j - i ELSE j - i + W
  BY SubCases
<1>2. \A k \in 0 .. W :
        WrappingAdd(i, k) = IF i + k < W THEN i + k ELSE i + k - W
  BY AddCases
<1>3. \A k \in 0 .. W : WrappingAdd(i, k) \in Indices
  BY <1>2
<1>4. WrappingAdd(i, WrappingSub(j, i)) = j
  BY <1>1, <1>2
<1>5. WrappingSub(j, i) < W - 1
        => WrappingSub(WrappingAdd(j, 1), i) = WrappingSub(j, i) + 1
  <2>1. WrappingAdd(j, 1) = IF j + 1 < W THEN j + 1 ELSE j + 1 - W
    BY AddCases
  <2>2. WrappingSub(WrappingAdd(j, 1), i)
          = IF WrappingAdd(j, 1) >= i THEN WrappingAdd(j, 1) - i
                                      ELSE WrappingAdd(j, 1) - i + W
    BY <2>1, SubCases
  <2> QED BY <1>1, <2>1, <2>2
<1>6. ASSUME NEW k \in 0 .. WrappingSub(j, i)
      PROVE  /\ WrappingSub(j, WrappingAdd(i, k)) = WrappingSub(j, i) - k
             /\ \A l \in 0 .. (WrappingSub(j, i) - k) :
                  WrappingAdd(WrappingAdd(i, k), l) = WrappingAdd(i, k + l)
  <2>1. k \in 0 .. W /\ WrappingAdd(i, k) \in Indices
    BY <1>1, <1>3
  <2>2. WrappingAdd(i, k) = IF i + k < W THEN i + k ELSE i + k - W
    BY <1>2, <2>1
  <2>3. WrappingSub(j, WrappingAdd(i, k))
          = IF j >= WrappingAdd(i, k) THEN j - WrappingAdd(i, k)
                                      ELSE j - WrappingAdd(i, k) + W
    BY <2>1, SubCases
  <2>4. WrappingSub(j, WrappingAdd(i, k)) = WrappingSub(j, i) - k
    BY <1>1, <2>1, <2>2, <2>3
  <2>5. ASSUME NEW l \in 0 .. (WrappingSub(j, i) - k)
        PROVE  WrappingAdd(WrappingAdd(i, k), l) = WrappingAdd(i, k + l)
    <3>1. l \in 0 .. W /\ k + l \in 0 .. W
      BY <1>1
    <3>2. WrappingAdd(WrappingAdd(i, k), l)
            = IF WrappingAdd(i, k) + l < W THEN WrappingAdd(i, k) + l
                                           ELSE WrappingAdd(i, k) + l - W
      BY <2>1, <3>1, AddCases
    <3>3. WrappingAdd(i, k + l)
            = IF i + (k + l) < W THEN i + (k + l) ELSE i + (k + l) - W
      BY <1>2, <3>1
    <3> QED BY <1>1, <2>1, <2>2, <3>1, <3>2, <3>3
  <2> QED BY <2>4, <2>5
<1> QED BY <1>1, <1>3, <1>4, <1>5, <1>6

\* An index names a slot.
LEMMA SlotRange ==
  ASSUME NEW i \in Indices
  PROVE  Slot(i) \in 0 .. (N - 1)
BY RingAssumption, DivMod DEF Slot, Indices

\* N indices in a row name N different slots, across the wrap too, if N
\* divides W.
LEMMA SlotsDistinct ==
  ASSUME W % N = 0, NEW i \in Indices,
         NEW k \in 0 .. (N - 1), NEW l \in 0 .. (N - 1), k # l
  PROVE  Slot(WrappingAdd(i, k)) # Slot(WrappingAdd(i, l))
<1> USE RingAssumption DEF Indices
<1>1. PICK d \in Int : W = N * d
  <2>1. W \in Int /\ N \in Nat \ {0}
    OBVIOUS
  <2>2. W = N * (W \div N) + (W % N) /\ W \div N \in Int
    BY <2>1, DivMod
  <2>3. W = N * (W \div N)
    BY <2>1, <2>2
  <2> QED BY <2>2, <2>3
<1>2. ASSUME NEW m \in 0 .. (N - 1)
      PROVE  Slot(WrappingAdd(i, m)) = (i + m) % N
  <2>1. WrappingAdd(i, m) = IF i + m < W THEN i + m ELSE i + m - W
    BY AddCases
  <2>2. CASE i + m < W
    BY <2>1, <2>2 DEF Slot
  <2>3. CASE i + m >= W
    <3>1. -d \in Int /\ i + m \in Int /\ i + m - W = (i + m) + N * (-d)
      BY <1>1
    <3>2. ((i + m) + N * (-d)) % N = (i + m) % N
      BY <3>1, ModShift
    <3> QED BY <2>1, <2>3, <3>1, <3>2 DEF Slot
  <2> QED BY <2>2, <2>3
<1>3. CASE k < l
  <2>1. /\ i + k \in Int /\ i + l \in Int
        /\ i + k < i + l /\ (i + l) - (i + k) < N
    BY <1>3
  <2>2. (i + k) % N # (i + l) % N
    BY <2>1, ModDistinct
  <2> QED BY <1>2, <2>2
<1>4. CASE l < k
  <2>1. /\ i + l \in Int /\ i + k \in Int
        /\ i + l < i + k /\ (i + k) - (i + l) < N
    BY <1>4
  <2>2. (i + l) % N # (i + k) % N
    BY <2>1, ModDistinct
  <2> QED BY <1>2, <2>2
<1> QED BY <1>3, <1>4

-----------------------------------------------------------------------------
(* Types                                                                   *)

LEMMA TypeInit == Init => TypeOK
BY RingAssumption DEF Init, TypeOK, Indices, Result

LEMMA TypeNext == TypeOK /\ [Next]_vars => TypeOK'
<1> SUFFICES ASSUME TypeOK, [Next]_vars PROVE TypeOK'
  OBVIOUS
<1> USE RingAssumption
<1>a. \A i \in Indices : Slot(i) \in 0 .. (N - 1)
  BY SlotRange
<1>b. ASSUME NEW i \in Indices, NEW k \in Nat PROVE WrappingAdd(i, k) \in Indices
  BY DivMod DEF WrappingAdd, Indices
<1>1. ASSUME NEW v \in Values, PushLoadTail(v) PROVE TypeOK'
  BY <1>1 DEF TypeOK, PushLoadTail, consVars, dropVars
<1>2. CASE PushRejected
  BY <1>2 DEF TypeOK, PushRejected, Result, consVars, dropVars
<1>3. CASE PushAdmitted
  BY <1>3 DEF TypeOK, PushAdmitted, consVars, dropVars
<1>4. CASE PushWrite
  BY <1>4, <1>a DEF TypeOK, PushWrite, consVars, dropVars
<1>5. CASE PushPublish
  BY <1>5, <1>b DEF TypeOK, PushPublish, Result, consVars, dropVars
<1>6. CASE PopLoadHead
  BY <1>6 DEF TypeOK, PopLoadHead, prodVars, dropVars
<1>7. CASE PopEmpty
  BY <1>7 DEF TypeOK, PopEmpty, Result, prodVars, dropVars
<1>8. CASE PopAvailable
  BY <1>8 DEF TypeOK, PopAvailable, prodVars, dropVars
<1>9. CASE PopRead
  BY <1>9, <1>a DEF TypeOK, PopRead, prodVars, dropVars
<1>10. CASE PopStore
  BY <1>10, <1>b DEF TypeOK, PopStore, Result, prodVars, dropVars
<1>11. CASE SliceLoadHead
  BY <1>11 DEF TypeOK, SliceLoadHead, prodVars, dropVars
<1>12. CASE SliceShort
  BY <1>12 DEF TypeOK, SliceShort, Result, prodVars, dropVars
<1>13. CASE SliceAvailable
  BY <1>13 DEF TypeOK, SliceAvailable, prodVars, dropVars
<1>14. CASE SliceRead
  <2>1. Len(cgot) \in Nat
    BY DEF TypeOK
  <2>2. WrappingAdd(chead, Len(cgot)) \in Indices
    BY <2>1, <1>b DEF TypeOK
  <2> QED BY <1>14, <1>a, <2>2 DEF TypeOK, SliceRead, prodVars, dropVars
<1>15. CASE SliceStore
  BY <1>15, <1>b DEF TypeOK, SliceStore, Result, prodVars, dropVars
<1>16. CASE Drop
  <2>1. Count \in Nat
    BY DivMod DEF Count, WrappingSub, TypeOK, Indices
  <2>2. \A k \in 1 .. Count :
          buf[Slot(WrappingAdd(head, k - 1))] \in Values \cup {Uninit}
    <3> TAKE k \in 1 .. Count
    <3>1. k - 1 \in Nat
      BY <2>1
    <3>2. WrappingAdd(head, k - 1) \in Indices
      BY <3>1, <1>b DEF TypeOK
    <3> QED BY <1>a, <3>2 DEF TypeOK
  <2>3. Contents \in Seq(Values \cup {Uninit})
    BY <2>1, <2>2 DEF Contents
  <2> QED BY <1>16, <2>3 DEF TypeOK, Drop, prodVars, consVars
<1>17. CASE UNCHANGED vars
  BY <1>17 DEF TypeOK, vars, prodVars, consVars, dropVars
<1> QED
  BY <1>1, <1>2, <1>3, <1>4, <1>5, <1>6, <1>7, <1>8, <1>9, <1>10, <1>11,
     <1>12, <1>13, <1>14, <1>15, <1>16, <1>17
     DEF Next, ProducerStep, ConsumerStep

(***************************************************************************)
(* Indices stay machine words, slots hold elements or were never written,  *)
(* and both threads are always at one of the points the code has.          *)
(***************************************************************************)
THEOREM TypeCorrectness == Spec => []TypeOK
BY TypeInit, TypeNext, PTL DEF Spec

-----------------------------------------------------------------------------
(* The inductive invariant                                                 *)

Element(k) == buf[Slot(WrappingAdd(head, k))]

\* At most N elements, all of them written.
WindowInv ==
  /\ Count <= N
  /\ \A k \in 0 .. (Count - 1) : Element(k) \in Values

\* What push may rely on between its steps: its copy of tail is exact, the
\* room it saw is still there, and after the write the element is in place.
ProducerInv ==
  /\ ppc # "idle" => alive /\ ptail = tail /\ pval \in Values
  /\ ppc \in {"write", "publish"} => Count < N
  /\ ppc = "publish" => buf[Slot(tail)] = pval

\* What pop and pop_slice_copy may rely on: their copy of head is exact, the
\* elements they saw are still there, and what they read is what is there.
ConsumerInv ==
  /\ cpc # "idle" => alive /\ chead = head
  /\ cpc \in {"popRead", "popStore"} => Count >= 1
  /\ cpc = "popStore" => cgot = <<Element(0)>>
  /\ cpc = "sliceRead" => /\ Count >= M
                          /\ Len(cgot) <= M
                          /\ \A k \in 1 .. Len(cgot) : cgot[k] = Element(k - 1)
  /\ cpc \notin {"popStore", "sliceRead"} => cgot = <<>>

IInv == TypeOK /\ WindowInv /\ ProducerInv /\ ConsumerInv

LEMMA InvInit == Init => IInv
<1> SUFFICES ASSUME Init PROVE IInv
  OBVIOUS
<1>1. TypeOK
  BY TypeInit
<1>2. Count = 0
  BY <1>1, RingAssumption, IndexFacts DEF Init, TypeOK, Count
<1> QED BY <1>1, <1>2, RingAssumption
     DEF Init, IInv, WindowInv, ProducerInv, ConsumerInv

\* The facts about head, tail and the slots between them used below.
LEMMA CountFacts ==
  ASSUME TypeOK
  PROVE  /\ Count \in 0 .. (W - 1)
         /\ WrappingAdd(head, Count) = tail
         /\ WrappingAdd(head, 0) = head
         /\ \A k \in 0 .. Count : WrappingAdd(head, k) \in Indices
         /\ \A k \in 0 .. Count : Slot(WrappingAdd(head, k)) \in 0 .. (N - 1)
<1> USE RingAssumption DEF TypeOK
<1>1. /\ Count \in 0 .. (W - 1)
      /\ WrappingAdd(head, Count) = tail
      /\ \A k \in 0 .. W : WrappingAdd(head, k) \in Indices
  BY IndexFacts DEF Count
<1>2. WrappingAdd(head, 0) = head
  BY AddCases DEF Indices
<1>3. \A k \in 0 .. Count : WrappingAdd(head, k) \in Indices
  BY <1>1
<1> QED BY <1>1, <1>2, <1>3, SlotRange

\* A step that leaves head, tail and buf alone leaves the window alone.
LEMMA SameWindow ==
  ASSUME UNCHANGED <<head, tail, buf>>
  PROVE  /\ Count' = Count
         /\ \A k : Element(k)' = Element(k)
         /\ WindowInv => WindowInv'
BY DEF Count, Element, WindowInv

\* Popping k elements: the window slides by k.
LEMMA WindowSlides ==
  ASSUME TypeOK, NEW k \in 0 .. Count,
         head' = WrappingAdd(head, k), UNCHANGED <<tail, buf>>
  PROVE  /\ Count' = Count - k
         /\ \A l \in 0 .. (Count - k) : Element(l)' = Element(k + l)
         /\ WindowInv => WindowInv'
<1> USE RingAssumption
<1>1. Count \in 0 .. (W - 1)
  BY CountFacts
<1>2. /\ WrappingSub(tail, WrappingAdd(head, k)) = Count - k
      /\ \A l \in 0 .. (Count - k) :
           WrappingAdd(WrappingAdd(head, k), l) = WrappingAdd(head, k + l)
  <2>1. head \in Indices /\ tail \in Indices
    BY DEF TypeOK
  <2>2. k \in 0 .. WrappingSub(tail, head)
    BY DEF Count
  <2>3. \A m \in 0 .. WrappingSub(tail, head) :
          /\ WrappingSub(tail, WrappingAdd(head, m)) = WrappingSub(tail, head) - m
          /\ \A l \in 0 .. (WrappingSub(tail, head) - m) :
               WrappingAdd(WrappingAdd(head, m), l) = WrappingAdd(head, m + l)
    BY <2>1, IndexFacts
  <2> QED BY <2>2, <2>3 DEF Count
<1>3. Count' = Count - k
  BY <1>2 DEF Count
<1>4. \A l \in 0 .. (Count - k) : Element(l)' = Element(k + l)
  BY <1>2 DEF Element
<1>5. ASSUME WindowInv PROVE WindowInv'
  <2>1. ASSUME NEW l \in 0 .. (Count' - 1) PROVE Element(l)' \in Values
    <3>1. l \in 0 .. (Count - k) /\ k + l \in 0 .. (Count - 1)
      BY <1>1, <1>3
    <3> QED BY <1>4, <1>5, <3>1 DEF WindowInv
  <2> QED BY <1>1, <1>3, <1>5, <2>1 DEF WindowInv
<1> QED BY <1>3, <1>4, <1>5

\* Writing the slot of tail while there is room disturbs no element.
LEMMA WriteIsOutsideWindow ==
  ASSUME W % N = 0, TypeOK, WindowInv, Count < N, NEW v \in Values,
         buf' = [buf EXCEPT ![Slot(tail)] = v], UNCHANGED <<head, tail>>
  PROVE  /\ Count' = Count
         /\ \A k \in 0 .. (Count - 1) : Element(k)' = Element(k)
         /\ buf'[Slot(tail)] = v
         /\ WindowInv'
<1> USE RingAssumption
<1>1. /\ Count \in 0 .. (W - 1)
      /\ WrappingAdd(head, Count) = tail
      /\ \A k \in 0 .. Count : Slot(WrappingAdd(head, k)) \in 0 .. (N - 1)
  BY CountFacts
<1>2. Count' = Count
  BY DEF Count
<1>3. ASSUME NEW k \in 0 .. (Count - 1) PROVE Element(k)' = Element(k)
  <2>1. Slot(WrappingAdd(head, k)) # Slot(WrappingAdd(head, Count))
    <3>1. k \in 0 .. (N - 1) /\ Count \in 0 .. (N - 1) /\ k # Count
      BY <1>1
    <3> QED BY <3>1, SlotsDistinct DEF TypeOK
  <2>2. Slot(WrappingAdd(head, k)) \in 0 .. (N - 1)
    BY <1>1
  <2> QED BY <1>1, <2>1, <2>2 DEF Element, TypeOK
<1>4. buf'[Slot(tail)] = v
  <2>1. Slot(tail) \in 0 .. (N - 1)
    BY <1>1
  <2> QED BY <2>1 DEF TypeOK
<1>5. WindowInv'
  BY <1>1, <1>2, <1>3 DEF WindowInv
<1> QED BY <1>2, <1>3, <1>4, <1>5

\* Publishing one element, while there is room, makes the window one longer.
LEMMA CountGrows ==
  ASSUME TypeOK, Count < N, tail' = WrappingAdd(tail, 1), UNCHANGED head
  PROVE  Count' = Count + 1
<1>1. head \in Indices /\ tail \in Indices
  BY DEF TypeOK
<1>2. WrappingSub(tail, head) < W - 1
  BY CountFacts, RingAssumption DEF Count
<1>3. WrappingSub(WrappingAdd(tail, 1), head) = WrappingSub(tail, head) + 1
  BY <1>1, <1>2, IndexFacts
<1> QED BY <1>3 DEF Count

LEMMA InvNext ==
  ASSUME W % N = 0
  PROVE  IInv /\ [Next]_vars => IInv'
<1> SUFFICES ASSUME IInv, [Next]_vars PROVE WindowInv' /\ ProducerInv' /\ ConsumerInv'
  BY TypeNext DEF IInv
<1> USE RingAssumption
<1>0. TypeOK /\ WindowInv /\ ProducerInv /\ ConsumerInv
  BY DEF IInv
<1>a. /\ Count \in 0 .. (W - 1)
      /\ WrappingAdd(head, Count) = tail
      /\ WrappingAdd(head, 0) = head
  BY <1>0, CountFacts
<1>b. Len(cgot) \in Nat
  BY <1>0 DEF TypeOK
<1>1. ASSUME NEW v \in Values, PushLoadTail(v)
      PROVE  WindowInv' /\ ProducerInv' /\ ConsumerInv'
  BY <1>0, <1>1, SameWindow DEF PushLoadTail, ProducerInv, ConsumerInv, consVars, dropVars
<1>2. CASE PushRejected
  BY <1>0, <1>2, SameWindow DEF PushRejected, ProducerInv, ConsumerInv, consVars, dropVars
<1>3. CASE PushAdmitted
  <2>1. Count # N
    BY <1>0, <1>3 DEF PushAdmitted, ProducerInv, Count
  <2>2. Count < N
    BY <1>0, <1>a, <2>1 DEF WindowInv
  <2> QED BY <1>0, <1>3, <2>2, SameWindow
          DEF PushAdmitted, ProducerInv, ConsumerInv, consVars, dropVars
<1>4. CASE PushWrite
  <2>1. /\ Count < N /\ ptail = tail /\ pval \in Values
        /\ buf' = [buf EXCEPT ![Slot(tail)] = pval]
        /\ UNCHANGED <<head, tail, pval, ptail, consVars, dropVars>>
    BY <1>0, <1>4 DEF PushWrite, ProducerInv
  <2>2. /\ Count' = Count
        /\ \A k \in 0 .. (Count - 1) : Element(k)' = Element(k)
        /\ buf'[Slot(tail)] = pval
        /\ WindowInv'
    BY <1>0, <2>1, WriteIsOutsideWindow
  <2>3. ProducerInv'
    BY <1>0, <1>4, <2>1, <2>2 DEF PushWrite, ProducerInv, dropVars
  <2>4. ConsumerInv'
    BY <1>0, <1>a, <1>b, <2>1, <2>2 DEF ConsumerInv, consVars, dropVars
  <2> QED BY <2>2, <2>3, <2>4
<1>5. CASE PushPublish
  <2>1. /\ Count < N /\ tail' = WrappingAdd(tail, 1) /\ ppc' = "idle"
        /\ buf[Slot(tail)] \in Values
        /\ UNCHANGED <<head, buf, consVars, dropVars>>
    BY <1>0, <1>5 DEF PushPublish, ProducerInv
  <2>2. Count' = Count + 1
    BY <1>0, <2>1, CountGrows
  <2>3. \A k : Element(k)' = Element(k)
    BY <2>1 DEF Element
  <2>4. Element(Count) \in Values
    BY <1>a, <2>1 DEF Element
  <2>5. WindowInv'
    <3>1. ASSUME NEW k \in 0 .. (Count' - 1) PROVE Element(k)' \in Values
      <4>1. k \in 0 .. (Count - 1) \/ k = Count
        BY <1>a, <2>2
      <4> QED BY <1>0, <2>3, <2>4, <4>1 DEF WindowInv
    <3> QED BY <1>a, <2>1, <2>2, <3>1 DEF WindowInv
  <2>6. ProducerInv' /\ ConsumerInv'
    BY <1>0, <1>a, <2>1, <2>2, <2>3 DEF ProducerInv, ConsumerInv, consVars, dropVars
  <2> QED BY <2>5, <2>6
<1>6. CASE PopLoadHead
  BY <1>0, <1>6, SameWindow DEF PopLoadHead, ProducerInv, ConsumerInv, prodVars, dropVars
<1>7. CASE PopEmpty
  BY <1>0, <1>7, SameWindow DEF PopEmpty, ProducerInv, ConsumerInv, prodVars, dropVars
<1>8. CASE PopAvailable
  <2>1. Count >= 1
    <3>1. Count # 0
      BY <1>0, <1>8, IndexFacts DEF PopAvailable, ConsumerInv, TypeOK, Count
    <3> QED BY <1>a, <3>1
  <2> QED BY <1>0, <1>8, <2>1, SameWindow
          DEF PopAvailable, ProducerInv, ConsumerInv, prodVars, dropVars
<1>9. CASE PopRead
  <2>1. cgot' = <<Element(0)>>
    BY <1>0, <1>9, <1>a DEF PopRead, ConsumerInv, Element
  <2> QED BY <1>0, <1>9, <2>1, SameWindow
          DEF PopRead, ProducerInv, ConsumerInv, prodVars, dropVars
<1>10. CASE PopStore
  <2>1. /\ 1 \in 0 .. Count /\ head' = WrappingAdd(head, 1)
        /\ UNCHANGED <<tail, buf, prodVars, dropVars>>
        /\ cpc' = "idle" /\ cgot' = <<>>
    BY <1>0, <1>10, <1>a DEF PopStore, ConsumerInv
  <2>2. Count' = Count - 1 /\ WindowInv'
    BY <1>0, <2>1, WindowSlides
  <2> QED BY <1>0, <1>a, <2>1, <2>2 DEF ProducerInv, ConsumerInv, prodVars, dropVars
<1>11. CASE SliceLoadHead
  BY <1>0, <1>11, SameWindow DEF SliceLoadHead, ProducerInv, ConsumerInv, prodVars, dropVars
<1>12. CASE SliceShort
  BY <1>0, <1>12, SameWindow DEF SliceShort, ProducerInv, ConsumerInv, prodVars, dropVars
<1>13. CASE SliceAvailable
  <2>1. Count >= M /\ cgot = <<>>
    BY <1>0, <1>13 DEF SliceAvailable, ConsumerInv, Count
  <2> QED BY <1>0, <1>13, <2>1, SameWindow
          DEF SliceAvailable, ProducerInv, ConsumerInv, prodVars, dropVars
<1>14. CASE SliceRead
  <2>1. /\ cgot' = Append(cgot, Element(Len(cgot))) /\ Len(cgot) < M
        /\ cpc = "sliceRead"
        /\ UNCHANGED <<head, tail, buf, cpc, chead, prodVars, dropVars>>
    BY <1>0, <1>14 DEF SliceRead, ConsumerInv, Element
  <2>2. /\ Len(cgot') = Len(cgot) + 1
        /\ \A k \in 1 .. Len(cgot') :
             cgot'[k] = IF k = Len(cgot) + 1 THEN Element(Len(cgot)) ELSE cgot[k]
    <3>1. cgot \in Seq(Values \cup {Uninit})
      BY <1>0 DEF TypeOK
    <3> QED BY <2>1, <3>1
  <2>3. \A k \in 1 .. Len(cgot') : cgot'[k] = Element(k - 1)
    BY <1>0, <1>b, <2>1, <2>2 DEF ConsumerInv
  <2> QED BY <1>0, <1>b, <2>1, <2>2, <2>3, SameWindow
          DEF ProducerInv, ConsumerInv, prodVars, dropVars
<1>15. CASE SliceStore
  <2>1. /\ M \in 0 .. Count /\ head' = WrappingAdd(head, M)
        /\ UNCHANGED <<tail, buf, prodVars, dropVars>>
        /\ cpc' = "idle" /\ cgot' = <<>>
    BY <1>0, <1>15, <1>a DEF SliceStore, ConsumerInv
  <2>2. Count' = Count - M /\ WindowInv'
    BY <1>0, <2>1, WindowSlides
  <2> QED BY <1>0, <1>a, <2>1, <2>2 DEF ProducerInv, ConsumerInv, prodVars, dropVars
<1>16. CASE Drop
  BY <1>0, <1>16, SameWindow DEF Drop, ProducerInv, ConsumerInv, prodVars, consVars
<1>17. CASE UNCHANGED vars
  BY <1>0, <1>17, SameWindow
     DEF vars, ProducerInv, ConsumerInv, prodVars, consVars, dropVars
<1> QED
  BY <1>1, <1>2, <1>3, <1>4, <1>5, <1>6, <1>7, <1>8, <1>9, <1>10, <1>11,
     <1>12, <1>13, <1>14, <1>15, <1>16, <1>17
     DEF Next, ProducerStep, ConsumerStep

-----------------------------------------------------------------------------
LEMMA Invariance == ASSUME W % N = 0 PROVE Spec => []IInv
BY InvInit, InvNext, PTL DEF Spec

\* The invariant speaks of the slots the two sides are about to access.
LEMMA InvImpliesSafety ==
  ASSUME W % N = 0
  PROVE  IInv => NoDataRace /\ WindowInitialised
<1> SUFFICES ASSUME IInv PROVE NoDataRace /\ WindowInitialised
  OBVIOUS
<1> USE RingAssumption
<1>0. TypeOK /\ WindowInv /\ ProducerInv /\ ConsumerInv
  BY DEF IInv
<1>1. /\ Count \in 0 .. (W - 1)
      /\ WrappingAdd(head, Count) = tail
      /\ WrappingAdd(head, 0) = head
  BY <1>0, CountFacts
<1>2. WindowInitialised
  <2>1. ASSUME NEW k \in 1 .. Count PROVE Contents[k] # Uninit
    <3>1. k - 1 \in 0 .. (Count - 1)
      BY <1>1
    <3>2. Element(k - 1) \in Values
      BY <1>0, <3>1 DEF WindowInv
    <3> QED BY <3>2 DEF Contents, Element
  <2> QED BY <1>0, <2>1 DEF WindowInv, WindowInitialised
<1>3. NoDataRace
  <2> SUFFICES ASSUME ppc = "write", cpc \in {"popRead", "sliceRead"}
               PROVE  Slot(ptail) \notin ReadingSlots
    BY DEF NoDataRace, WritingSlots, ReadingSlots
  <2>1. ptail = tail /\ chead = head /\ Count < N
    BY <1>0 DEF ProducerInv, ConsumerInv
  <2>2. ASSUME NEW k \in 0 .. (Count - 1)
        PROVE  Slot(WrappingAdd(head, k)) # Slot(tail)
    <3>1. k \in 0 .. (N - 1) /\ Count \in 0 .. (N - 1) /\ k # Count
      BY <1>1, <2>1
    <3>2. Slot(WrappingAdd(head, k)) # Slot(WrappingAdd(head, Count))
      BY <1>0, <3>1, SlotsDistinct DEF TypeOK
    <3> QED BY <1>1, <3>2
  <2>3. CASE cpc = "popRead"
    <3>1. 0 \in 0 .. (Count - 1)
      BY <1>0, <1>1, <2>3 DEF ConsumerInv
    <3> QED BY <1>1, <2>1, <2>2, <2>3, <3>1 DEF ReadingSlots
  <2>4. CASE cpc = "sliceRead"
    <3>1. Count >= M /\ Len(cgot) \in Nat
      BY <1>0, <2>4 DEF ConsumerInv, TypeOK
    <3>2. \A k \in Len(cgot) .. (M - 1) : k \in 0 .. (Count - 1)
      BY <1>1, <3>1
    <3> QED BY <2>1, <2>2, <2>4, <3>2 DEF ReadingSlots
  <2> QED BY <2>3, <2>4
<1> QED BY <1>2, <1>3

(***************************************************************************)
(* On a machine whose word size is a multiple of the capacity (every power *)
(* of two), whatever the interleaving, the producer never writes a slot    *)
(* the consumer is reading.  spsc.rs does not require this of N: with N = 3 *)
(* and W = 8 TLC finds the two sides at one slot.                          *)
(***************************************************************************)
THEOREM RingNoDataRace == ASSUME W % N = 0 PROVE Spec => []NoDataRace
BY Invariance, InvImpliesSafety, PTL

(***************************************************************************)
(* Under the same condition, the window between head and tail never holds  *)
(* more than N elements and all of them have been written.                 *)
(***************************************************************************)
THEOREM RingWindowInitialised ==
  ASSUME W % N = 0 PROVE Spec => []WindowInitialised
BY Invariance, InvImpliesSafety, PTL

-----------------------------------------------------------------------------
(* The ring implements the abstract queue                                  *)

LEMMA ContentsFacts ==
  ASSUME TypeOK
  PROVE  /\ Contents \in Seq(Values \cup {Uninit})
         /\ Len(Contents) = Count
         /\ \A k \in 1 .. Count : Contents[k] = Element(k - 1)
<1>1. Count \in Nat
  BY CountFacts
<1>2. ASSUME NEW k \in 1 .. Count
      PROVE  buf[Slot(WrappingAdd(head, k - 1))] \in Values \cup {Uninit}
  <2>1. k - 1 \in 0 .. Count
    BY <1>1
  <2>2. Slot(WrappingAdd(head, k - 1)) \in 0 .. (N - 1)
    BY <2>1, CountFacts
  <2> QED BY <2>2 DEF TypeOK
<1>3. Contents \in [1 .. Count -> Values \cup {Uninit}]
  BY <1>2 DEF Contents
<1> QED BY <1>1, <1>3 DEF Contents, Element

\* A step that moves neither index nor a slot in the window, nor the results,
\* is a stuttering step of the queue.
LEMMA SameQueue ==
  ASSUME TypeOK, Count' = Count,
         \A k \in 0 .. (Count - 1) : Element(k)' = Element(k),
         UNCHANGED <<pushRes, popRes, dropped, alive>>
  PROVE  UNCHANGED Queue!vars
<1>1. Count \in Nat
  BY CountFacts
<1>2. Contents' = Contents
  <2>1. ASSUME NEW k \in 1 .. Count
        PROVE  (buf[Slot(WrappingAdd(head, k - 1))])'
                 = buf[Slot(WrappingAdd(head, k - 1))]
    <3>1. k - 1 \in 0 .. (Count - 1)
      BY <1>1
    <3> QED BY <3>1 DEF Element
  <2> QED BY <2>1 DEF Contents
<1> QED BY <1>2 DEF Queue!vars

\* Popping k elements removes the first k of the contents.
LEMMA ContentsSlide ==
  ASSUME TypeOK, NEW k \in 0 .. Count,
         head' = WrappingAdd(head, k), UNCHANGED <<tail, buf>>
  PROVE  Contents' = SubSeq(Contents, k + 1, Len(Contents))
<1>1. Count \in Nat
  BY CountFacts
<1>2. /\ Count' = Count - k
      /\ \A l \in 0 .. (Count - k) : Element(l)' = Element(k + l)
  BY WindowSlides
<1>3. /\ Contents \in Seq(Values \cup {Uninit})
      /\ Len(Contents) = Count
      /\ \A l \in 1 .. Count : Contents[l] = Element(l - 1)
  BY ContentsFacts
<1>4. Contents' = [l \in 1 .. (Count - k) |-> Element(l - 1)']
  BY <1>2 DEF Contents, Element
<1>5. ASSUME NEW l \in 1 .. (Count - k) PROVE Element(l - 1)' = Contents[k + l]
  <2>1. l - 1 \in 0 .. (Count - k) /\ k + l \in 1 .. Count
    BY <1>1
  <2>2. Element(l - 1)' = Element(k + (l - 1))
    BY <1>2, <2>1
  <2>3. Contents[k + l] = Element((k + l) - 1)
    BY <1>3, <2>1
  <2>4. k + (l - 1) = (k + l) - 1
    BY <1>1
  <2> QED BY <2>2, <2>3, <2>4
<1>6. Contents' = [l \in 1 .. (Count - k) |-> Contents[k + l]]
  BY <1>4, <1>5
<1>7. ASSUME NEW s \in Seq(Values \cup {Uninit}), Len(s) = Count
      PROVE  SubSeq(s, k + 1, Len(s)) = [l \in 1 .. (Count - k) |-> s[k + l]]
  <2> DEFINE t == SubSeq(s, k + 1, Len(s))
             u == [l \in 1 .. (Count - k) |-> s[k + l]]
  <2>1. /\ t \in Seq(Values \cup {Uninit})
        /\ Len(t) = Count - k
        /\ \A l \in 1 .. (Count - k) : t[l] = s[k + l]
    BY <1>1, <1>7, SubSeqProperties
  <2>2. /\ u \in Seq(Values \cup {Uninit})
        /\ Len(u) = Count - k
        /\ \A l \in 1 .. (Count - k) : u[l] = s[k + l]
    BY <1>1, <1>7
  <2> QED BY <2>1, <2>2, SeqEqual
<1> QED BY <1>3, <1>6, <1>7

\* Publishing the element written at tail appends it to the contents.
LEMMA ContentsGrow ==
  ASSUME TypeOK, Count < N, tail' = WrappingAdd(tail, 1), UNCHANGED <<head, buf>>
  PROVE  /\ Count' = Count + 1
         /\ Contents' = Append(Contents, buf[Slot(tail)])
<1> USE RingAssumption
<1>1. /\ Count \in 0 .. (W - 1)
      /\ WrappingAdd(head, Count) = tail
      /\ Slot(tail) \in 0 .. (N - 1)
  BY CountFacts
<1>2. Count' = Count + 1
  BY CountGrows
<1>3. /\ Contents \in Seq(Values \cup {Uninit})
      /\ Len(Contents) = Count
      /\ \A l \in 1 .. Count : Contents[l] = Element(l - 1)
  BY ContentsFacts
<1>4. Contents' = [l \in 1 .. (Count + 1) |-> Element(l - 1)]
  BY <1>2 DEF Contents, Element
<1> DEFINE last == buf[Slot(tail)]
           grown == Append(Contents, last)
<1>5. last \in Values \cup {Uninit}
  BY <1>1 DEF TypeOK
<1>6. Element(Count) = last
  BY <1>1 DEF Element
<1> HIDE DEF last
<1>7. /\ grown \in Seq(Values \cup {Uninit})
      /\ Len(grown) = Count + 1
      /\ \A l \in 1 .. (Count + 1) :
           grown[l] = IF l = Count + 1 THEN last ELSE Contents[l]
  BY <1>1, <1>3, <1>5
<1>8. ASSUME NEW l \in 1 .. (Count + 1) PROVE grown[l] = Element(l - 1)
  <2>1. CASE l = Count + 1
    BY <1>1, <1>6, <1>7, <2>1
  <2>2. CASE l # Count + 1
    <3>1. l \in 1 .. Count
      BY <1>1, <2>2
    <3> QED BY <1>3, <1>7, <2>2, <3>1
  <2> QED BY <2>1, <2>2
<1> HIDE DEF grown
<1>9. ASSUME NEW l \in 1 .. (Count + 1) PROVE Element(l - 1) \in Values \cup {Uninit}
  <2>1. grown[l] \in Values \cup {Uninit}
    BY <1>1, <1>7
  <2> QED BY <1>8, <2>1
<1> DEFINE u == [l \in 1 .. (Count + 1) |-> Element(l - 1)]
<1>10. /\ u \in Seq(Values \cup {Uninit})
       /\ Len(u) = Count + 1
       /\ \A l \in 1 .. (Count + 1) : u[l] = Element(l - 1)
  BY <1>1, <1>9
<1> HIDE DEF u
<1>11. u = grown
  BY <1>1, <1>7, <1>8, <1>10, SeqEqual
<1> QED BY <1>2, <1>4, <1>11 DEF u, grown, last

LEMMA RefineInit == Init => Queue!Init
<1> SUFFICES ASSUME Init PROVE Queue!Init
  OBVIOUS
<1>1. Count = 0
  BY InvInit, CountFacts, IndexFacts, RingAssumption DEF IInv, TypeOK, Init, Count
<1>2. Contents = <<>>
  BY <1>1 DEF Contents
<1> QED BY <1>2 DEF Init, Queue!Init, Queue!NoResult, Queue!Result, Result

\* Which step of the queue each step of the ring is.
LEMMA RefineNext ==
  ASSUME W % N = 0
  PROVE  IInv /\ [Next]_vars => [Queue!Next]_(Queue!vars)
<1> SUFFICES ASSUME IInv, [Next]_vars PROVE [Queue!Next]_(Queue!vars)
  OBVIOUS
<1> USE RingAssumption
<1>0. TypeOK /\ WindowInv /\ ProducerInv /\ ConsumerInv
  BY DEF IInv
<1>a. Count \in 0 .. (W - 1) /\ Count <= N
  BY <1>0, CountFacts DEF WindowInv
<1>b. /\ Contents \in Seq(Values \cup {Uninit})
      /\ Len(Contents) = Count
      /\ \A k \in 1 .. Count : Contents[k] = Element(k - 1)
  BY <1>0, ContentsFacts
<1>c. ASSUME UNCHANGED <<head, tail, buf, pushRes, popRes, dropVars>>
      PROVE  UNCHANGED Queue!vars
  BY <1>c DEF Queue!vars, Contents, Count, dropVars
<1>1. ASSUME NEW v \in Values, PushLoadTail(v) PROVE UNCHANGED Queue!vars
  BY <1>1, <1>c DEF PushLoadTail, consVars
<1>2. CASE PushRejected
  <2>1. alive /\ Len(Contents) = N /\ pval \in Values
    BY <1>0, <1>2, <1>b DEF PushRejected, ProducerInv, Count
  <2>2. UNCHANGED <<Contents, popRes, dropped, alive>>
    BY <1>2 DEF PushRejected, Contents, Count, consVars, dropVars
  <2>3. Queue!PushFull(pval)
    BY <1>2, <2>1, <2>2 DEF PushRejected, Queue!PushFull, Queue!Result, Result
  <2> QED BY <2>1, <2>3 DEF Queue!Next
<1>3. CASE PushAdmitted
  BY <1>3, <1>c DEF PushAdmitted, consVars
<1>4. CASE PushWrite
  <2>1. /\ Count < N /\ ptail = tail /\ pval \in Values
        /\ buf' = [buf EXCEPT ![Slot(tail)] = pval]
        /\ UNCHANGED <<head, tail, pushRes, popRes, dropped, alive>>
    BY <1>0, <1>4 DEF PushWrite, ProducerInv, consVars, dropVars
  <2>2. /\ Count' = Count
        /\ \A k \in 0 .. (Count - 1) : Element(k)' = Element(k)
    BY <1>0, <2>1, WriteIsOutsideWindow
  <2> QED BY <1>0, <2>1, <2>2, SameQueue
<1>5. CASE PushPublish
  <2>1. /\ alive /\ Count < N /\ pval \in Values
        /\ tail' = WrappingAdd(tail, 1) /\ buf[Slot(tail)] = pval
        /\ pushRes' = Result("Ok", <<>>)
        /\ UNCHANGED <<head, buf, popRes, dropped, alive>>
    BY <1>0, <1>5 DEF PushPublish, ProducerInv, consVars, dropVars
  <2>2. Contents' = Append(Contents, pval)
    BY <1>0, <2>1, ContentsGrow
  <2>3. Queue!PushOk(pval)
    BY <1>b, <2>1, <2>2 DEF Queue!PushOk, Queue!Result, Result
  <2> QED BY <2>1, <2>3 DEF Queue!Next
<1>6. CASE PopLoadHead
  BY <1>6, <1>c DEF PopLoadHead, prodVars
<1>7. CASE PopEmpty
  <2>1. alive /\ Count = 0
    BY <1>0, <1>7, IndexFacts DEF PopEmpty, ConsumerInv, Count, TypeOK
  <2>2. Contents = <<>>
    BY <2>1 DEF Contents
  <2>3. UNCHANGED <<Contents, pushRes, dropped, alive>>
    BY <1>7 DEF PopEmpty, Contents, Count, prodVars, dropVars
  <2>4. Queue!PopNone
    BY <1>7, <2>1, <2>2, <2>3 DEF PopEmpty, Queue!PopNone, Queue!Result, Result
  <2> QED BY <2>4 DEF Queue!Next
<1>8. CASE PopAvailable
  BY <1>8, <1>c DEF PopAvailable, prodVars
<1>9. CASE PopRead
  BY <1>9, <1>c DEF PopRead, prodVars
<1>10. CASE PopStore
  <2>1. /\ alive /\ 1 \in 0 .. Count /\ head' = WrappingAdd(head, 1)
        /\ popRes' = Result("Some", <<Element(0)>>)
        /\ UNCHANGED <<tail, buf, pushRes, dropped, alive>>
    BY <1>0, <1>10, <1>a DEF PopStore, ConsumerInv, prodVars, dropVars
  <2>2. Contents' = SubSeq(Contents, 2, Len(Contents))
    BY <1>0, <2>1, ContentsSlide
  <2>3. Contents # <<>> /\ Head(Contents) = Element(0)
    BY <1>a, <1>b, <2>1
  <2>4. Tail(Contents) = SubSeq(Contents, 2, Len(Contents))
    BY <1>b, <2>3, HeadTailProperties
  <2>5. Queue!PopSome
    BY <2>1, <2>2, <2>3, <2>4 DEF Queue!PopSome, Queue!Result, Result
  <2> QED BY <2>5 DEF Queue!Next
<1>11. CASE SliceLoadHead
  BY <1>11, <1>c DEF SliceLoadHead, prodVars
<1>12. CASE SliceShort
  <2>1. alive /\ Len(Contents) < M
    BY <1>0, <1>12, <1>b DEF SliceShort, ConsumerInv, Count
  <2>2. UNCHANGED <<Contents, pushRes, dropped, alive>>
    BY <1>12 DEF SliceShort, Contents, Count, prodVars, dropVars
  <2>3. Queue!PopSliceShort
    BY <1>12, <2>1, <2>2 DEF SliceShort, Queue!PopSliceShort, Queue!Result, Result
  <2> QED BY <2>3 DEF Queue!Next
<1>13. CASE SliceAvailable
  BY <1>13, <1>c DEF SliceAvailable, prodVars
<1>14. CASE SliceRead
  BY <1>14, <1>c DEF SliceRead, prodVars
<1>15. CASE SliceStore
  <2>1. /\ alive /\ M \in 0 .. Count /\ head' = WrappingAdd(head, M)
        /\ Len(cgot) = M /\ \A k \in 1 .. M : cgot[k] = Element(k - 1)
        /\ popRes' = Result("Slice", cgot)
        /\ UNCHANGED <<tail, buf, pushRes, dropped, alive>>
    BY <1>0, <1>15, <1>a DEF SliceStore, ConsumerInv, prodVars, dropVars
  <2>2. Contents' = SubSeq(Contents, M + 1, Len(Contents))
    BY <1>0, <2>1, ContentsSlide
  <2>3. cgot = SubSeq(Contents, 1, M)
    <3>1. cgot \in Seq(Values \cup {Uninit})
      BY <1>0 DEF TypeOK
    <3>2. /\ SubSeq(Contents, 1, M) \in Seq(Values \cup {Uninit})
          /\ Len(SubSeq(Contents, 1, M)) = M
          /\ \A k \in 1 .. M : SubSeq(Contents, 1, M)[k] = Contents[k]
      BY <1>a, <1>b, <2>1
    <3>3. \A k \in 1 .. M : cgot[k] = Contents[k]
      BY <1>a, <1>b, <2>1
    <3> QED BY <2>1, <3>1, <3>2, <3>3, SeqEqual
  <2>4. Queue!PopSliceOk
    BY <1>a, <1>b, <2>1, <2>2, <2>3 DEF Queue!PopSliceOk, Queue!Result, Result
  <2> QED BY <2>4 DEF Queue!Next
<1>16. CASE Drop
  BY <1>16 DEF Drop, Queue!Next, Queue!DropQueue, prodVars, consVars
<1>17. CASE UNCHANGED vars
  BY <1>17, <1>c DEF vars, prodVars, consVars, dropVars
<1> QED
  BY <1>1, <1>2, <1>3, <1>4, <1>5, <1>6, <1>7, <1>8, <1>9, <1>10, <1>11,
     <1>12, <1>13, <1>14, <1>15, <1>16, <1>17
     DEF Next, ProducerStep, ConsumerStep

(***************************************************************************)
(* On such a machine the ring implements the bounded FIFO queue: push      *)
(* takes effect at its store of tail or, rejected, at its load of head;    *)
(* pop and pop_slice_copy at their store of head or, failing, at their     *)
(* load of tail.                                                           *)
(***************************************************************************)
THEOREM RingImplementsQueue == ASSUME W % N = 0 PROVE Spec => ImplementsQueue
<1>1. Init => Queue!Init
  BY RefineInit
<1>2. IInv /\ [Next]_vars => [Queue!Next]_(Queue!vars)
  BY RefineNext
<1> QED BY <1>1, <1>2, Invariance, PTL DEF Spec, ImplementsQueue, Queue!Spec

-----------------------------------------------------------------------------
(* The indices on their own.  What concerns only head and tail, and not    *)
(* the slots, holds for every capacity, a power of two or not.             *)

IndexInv ==
  /\ TypeOK
  /\ Count <= N
  /\ ppc # "idle" => ptail = tail
  /\ ppc \in {"write", "publish"} => Count < N
  /\ cpc # "idle" => chead = head
  /\ cpc \in {"popRead", "popStore"} => Count >= 1
  /\ cpc = "sliceRead" => Count >= M

LEMMA IndexInit == Init => IndexInv
<1> SUFFICES ASSUME Init PROVE IndexInv
  OBVIOUS
<1>1. TypeOK
  BY TypeInit
<1>2. Count = 0
  BY <1>1, RingAssumption, IndexFacts DEF Init, TypeOK, Count
<1> QED BY <1>1, <1>2, RingAssumption DEF Init, IndexInv

\* The consumer's steps release elements and never add one.
LEMMA ConsumerReleases ==
  ASSUME IndexInv, PopLoadHead \/ SliceLoadHead \/ ConsumerStep
  PROVE  /\ Count' \in 0 .. Count
         /\ UNCHANGED <<tail, ppc, ptail>>
         /\ IndexInv'
<1> USE RingAssumption
<1>0. /\ TypeOK /\ TypeOK'
      /\ Count \in 0 .. (W - 1)
  BY TypeNext, CountFacts DEF IndexInv, Next
<1>a. UNCHANGED <<tail, ppc, ptail>>
  BY DEF ConsumerStep, PopLoadHead, PopEmpty, PopAvailable, PopRead, PopStore,
         SliceLoadHead, SliceShort, SliceAvailable, SliceRead, SliceStore, prodVars
<1>1. CASE PopLoadHead \/ SliceLoadHead
  BY <1>0, <1>1, <1>a DEF PopLoadHead, SliceLoadHead, IndexInv, Count
<1>2. CASE PopEmpty \/ SliceShort
  BY <1>0, <1>2, <1>a DEF PopEmpty, SliceShort, IndexInv, Count
<1>3. CASE PopAvailable
  <2>1. Count # 0
    BY <1>0, <1>3, IndexFacts DEF PopAvailable, IndexInv, TypeOK, Count
  <2>2. Count' = Count /\ Count >= 1
    BY <1>0, <1>3, <2>1 DEF PopAvailable, Count
  <2> QED BY <1>0, <1>3, <1>a, <2>2 DEF PopAvailable, IndexInv
<1>4. CASE PopRead \/ SliceRead
  BY <1>0, <1>4, <1>a DEF PopRead, SliceRead, IndexInv, Count
<1>5. CASE SliceAvailable
  BY <1>0, <1>5, <1>a DEF SliceAvailable, IndexInv, Count
<1>6. ASSUME NEW k \in 0 .. Count, head' = WrappingAdd(head, k), buf' = buf, cpc' = "idle"
      PROVE  Count' \in 0 .. Count /\ IndexInv'
  <2>1. Count' = Count - k
    BY <1>0, <1>6, <1>a, WindowSlides
  <2> QED BY <1>0, <1>6, <1>a, <2>1 DEF IndexInv
<1>7. CASE PopStore
  <2>1. 1 \in 0 .. Count /\ head' = WrappingAdd(head, 1) /\ buf' = buf /\ cpc' = "idle"
    BY <1>0, <1>7 DEF PopStore, IndexInv
  <2> QED BY <1>6, <1>a, <2>1
<1>8. CASE SliceStore
  <2>1. M \in 0 .. Count /\ head' = WrappingAdd(head, M) /\ buf' = buf /\ cpc' = "idle"
    BY <1>0, <1>8 DEF SliceStore, IndexInv
  <2> QED BY <1>6, <1>a, <2>1
<1> QED BY <1>1, <1>2, <1>3, <1>4, <1>5, <1>7, <1>8, <1>a DEF ConsumerStep

\* The producer's steps before the last one leave the indices alone.
LEMMA ProducerPrepares ==
  ASSUME IndexInv,
         \/ \E v \in Values : PushLoadTail(v)
         \/ PushRejected \/ PushAdmitted \/ PushWrite
  PROVE  Count' = Count /\ IndexInv'
<1> USE RingAssumption
<1>0. TypeOK /\ TypeOK' /\ Count \in 0 .. (W - 1)
  BY TypeNext, CountFacts DEF IndexInv, Next, ProducerStep
<1>1. UNCHANGED <<head, tail, cpc, chead>>
  BY DEF PushLoadTail, PushRejected, PushAdmitted, PushWrite, consVars
<1>2. Count' = Count
  BY <1>1 DEF Count
<1>3. CASE PushAdmitted
  <2>1. Count # N
    BY <1>3 DEF PushAdmitted, IndexInv, Count
  <2> QED BY <1>0, <1>1, <1>2, <1>3, <2>1 DEF PushAdmitted, IndexInv
<1>4. CASE (\E v \in Values : PushLoadTail(v)) \/ PushRejected \/ PushWrite
  BY <1>0, <1>1, <1>2, <1>4 DEF PushLoadTail, PushRejected, PushWrite, IndexInv
<1> QED BY <1>2, <1>3, <1>4

LEMMA PublishGrows ==
  ASSUME IndexInv, PushPublish
  PROVE  Count' = Count + 1 /\ IndexInv'
<1> USE RingAssumption
<1>0. TypeOK /\ TypeOK' /\ Count \in 0 .. (W - 1) /\ Count < N
  BY TypeNext, CountFacts DEF IndexInv, PushPublish, Next, ProducerStep
<1>1. tail' = WrappingAdd(tail, 1) /\ ppc' = "idle" /\ UNCHANGED <<head, cpc, chead>>
  BY DEF PushPublish, IndexInv, consVars
<1>2. Count' = Count + 1
  BY <1>0, <1>1, CountGrows
<1> QED BY <1>0, <1>1, <1>2 DEF IndexInv

-----------------------------------------------------------------------------
(* len and capacity_left: what the producer was told stays true until it   *)
(* pushes, because nobody else moves tail and the consumer only makes      *)
(* room.  While the producer is inside len its copy of tail is exact.      *)

LenInv ==
  /\ IndexInv
  /\ ltail \in Indices
  /\ caller = "producer" => ppc = "idle" /\ ltail = tail
  /\ seen.left \in Int
  /\ RoomSeenByProducerIsThere

LEMMA LenInvInit == LenInit => LenInv
BY IndexInit, RingAssumption
   DEF LenInit, LenInv, Init, Indices, NoView, RoomSeenByProducerIsThere

LEMMA LenInvNext == LenInv /\ [LenNext]_<<vars, lenVars>> => LenInv'
<1> SUFFICES ASSUME LenInv, [LenNext]_<<vars, lenVars>> PROVE LenInv'
  OBVIOUS
<1> USE RingAssumption DEF RoomSeenByProducerIsThere
<1>0. IndexInv /\ Count \in 0 .. (W - 1) /\ Count <= N
  BY CountFacts DEF LenInv, IndexInv
<1>a. ASSUME UNCHANGED vars PROVE IndexInv' /\ Count' = Count
  BY <1>0, <1>a DEF IndexInv, TypeOK, Count, vars, prodVars, consVars, dropVars
<1>1. ASSUME NEW c \in Callers, LenLoadTail(c) PROVE LenInv'
  <2>1. IndexInv' /\ Count' = Count
    BY <1>1, <1>a DEF LenLoadTail
  <2>2. tail \in Indices
    BY <1>0 DEF IndexInv, TypeOK
  <2> QED BY <1>1, <2>1, <2>2 DEF LenLoadTail, LenInv, vars, prodVars
<1>2. CASE LenLoadHead
  <2>1. IndexInv' /\ Count' = Count /\ caller' = "nobody"
    BY <1>2, <1>a DEF LenLoadHead
  <2>2. seen' = [by |-> caller, len |-> WrappingSub(ltail, head),
                 left |-> CapacityLeft(WrappingSub(ltail, head))]
    BY <1>2 DEF LenLoadHead
  <2>3. seen'.left \in Int
    <3>1. WrappingSub(ltail, head) \in Int
      BY IndexFacts DEF LenInv, IndexInv, TypeOK
    <3> QED BY <2>2, <3>1 DEF CapacityLeft
  <2>4. ASSUME caller = "producer" PROVE seen'.left = N - Count
    BY <1>0, <2>2, <2>4 DEF LenInv, Count, CapacityLeft
  <2>5. seen'.by = caller /\ ltail' = ltail
    BY <1>2, <2>2 DEF LenLoadHead
  <2> QED BY <1>0, <2>1, <2>3, <2>4, <2>5 DEF LenInv
<1>3. CASE ProducerMoves
  <2>1. caller # "producer" /\ UNCHANGED <<caller, ltail>>
    BY <1>3 DEF ProducerMoves
  <2>2. CASE PushPublish /\ seen' = NoView
    BY <1>0, <2>1, <2>2, PublishGrows DEF LenInv, NoView
  <2>3. CASE /\ \/ \E v \in Values : PushLoadTail(v)
                \/ PushRejected \/ PushAdmitted \/ PushWrite
             /\ UNCHANGED seen
    <3>1. IndexInv' /\ Count' = Count
      BY <1>0, <2>3, ProducerPrepares
    <3> QED BY <2>1, <2>3, <3>1 DEF LenInv
  <2> QED BY <1>3, <2>2, <2>3 DEF ProducerMoves
<1>4. CASE ConsumerMoves
  <2>1. UNCHANGED <<caller, ltail, seen>>
    BY <1>4 DEF ConsumerMoves, lenVars
  <2>2. Count' \in 0 .. Count /\ UNCHANGED <<tail, ppc>> /\ IndexInv'
    BY <1>0, <1>4, ConsumerReleases DEF ConsumerMoves
  <2>3. seen.by = "producer" => seen.left <= N - Count'
    BY <1>0, <2>2 DEF LenInv
  <2> QED BY <2>1, <2>2, <2>3 DEF LenInv
<1>5. CASE caller = "nobody" /\ Drop /\ UNCHANGED lenVars
  <2>1. IndexInv' /\ Count' = Count
    <3>1. TypeOK'
      BY <1>0, <1>5, TypeNext DEF IndexInv, Next
    <3> QED BY <1>0, <1>5, <3>1 DEF Drop, IndexInv, Count, prodVars, consVars
  <2> QED BY <1>5, <2>1 DEF LenInv, lenVars
<1>6. CASE UNCHANGED <<vars, lenVars>>
  <2>1. IndexInv' /\ Count' = Count
    BY <1>6, <1>a
  <2> QED BY <1>6, <2>1 DEF LenInv, lenVars, vars, prodVars
<1> QED BY <1>1, <1>2, <1>3, <1>4, <1>5, <1>6 DEF LenNext

(***************************************************************************)
(* For every capacity and word size: the room that capacity_left reports   *)
(* to the producer is there until that producer pushes, although len reads *)
(* its two indices one after the other and the consumer moves in between.  *)
(***************************************************************************)
THEOREM ReportedRoomIsThere == LenSpec => []RoomSeenByProducerIsThere
<1>1. LenInv => RoomSeenByProducerIsThere
  BY DEF LenInv
<1> QED BY <1>1, LenInvInit, LenInvNext, PTL DEF LenSpec

=============================================================================
