------------------------ MODULE EmergencySlotProofs -------------------------
(***************************************************************************)
(* Proofs about the emergency slot, for any objects and types.             *)
(***************************************************************************)
EXTENDS EmergencySlot, FiniteSetTheorems, TLAPS

(***************************************************************************)
(* The inductive invariant.  The slot is handed back and forth: push works *)
(* on it only while ptr is null, drain only while ptr is its own object.   *)
(***************************************************************************)
WriterInv ==
  apc # "idle" => ptr = Null /\ life[aobj] = "pushing"

PublishedInv ==
  ptr # Null => /\ life[ptr] = "slot"
                /\ vtable = type[ptr]
                /\ gpc # "clearPtr" => vtable_ready

\* After the last store the drained object is the GC thread's alone.
DrainInv ==
  /\ gpc \in {"loadReady", "readVtable", "clear", "clearPtr"} => ptr = gobj
  /\ gpc \in {"clear", "clearPtr", "dealloc"} => gvt = type[gobj]
  /\ gpc = "dealloc" => ptr # gobj /\ life[gobj] = "slot"

\* Between the two plain stores of push the cell holds the right vtable, and
\* before the pointer is published the flag is set.
ReadyInv ==
  /\ apc \in {"setReady", "publish"} => vtable = type[aobj]
  /\ apc = "publish" => vtable_ready

IInv == TypeOK /\ WriterInv /\ PublishedInv /\ DrainInv /\ ReadyInv

LEMMA InvInit == Init => IInv
<1> SUFFICES ASSUME Init PROVE IInv
  OBVIOUS
<1>1. vtable_ready \in BOOLEAN
  BY Zenon DEF Init
<1> QED BY <1>1, SlotAssumption
        DEF Init, IInv, TypeOK, WriterInv, PublishedInv, DrainInv, ReadyInv

LEMMA TypeNext == IInv /\ [Next]_vars => TypeOK'
<1> SUFFICES ASSUME IInv, [Next]_vars PROVE TypeOK'
  OBVIOUS
<1> USE SlotAssumption DEF slotVars, heapVars, audioVars, gcVars, countVars
<1>0. TypeOK
  BY DEF IInv
<1>a. ASSUME NEW c \in 0 .. (CounterModulus - 1)
      PROVE  Increment(c) \in 0 .. (CounterModulus - 1)
  BY DEF Increment
<1>1. ASSUME NEW o \in Objects, NEW t \in Types, Allocate(o, t) PROVE TypeOK'
  BY <1>0, <1>1, <1>a DEF Allocate, TypeOK
<1>2. ASSUME NEW o \in Objects, PushVacant(o) \/ PushOccupied(o) \/ DestroyRefused(o)
      PROVE  TypeOK'
  BY <1>0, <1>2, <1>a DEF PushVacant, PushOccupied, DestroyRefused, TypeOK
<1>3. CASE PushStep
  <2>1. vtable_ready' \in BOOLEAN
    BY <1>0, <1>3, Zenon DEF PushStep, PushWriteVtable, PushSetReady, PushPublish, TypeOK
  <2>2. aobj \in Objects
    BY <1>0, <1>3 DEF PushStep, PushWriteVtable, PushSetReady, PushPublish, TypeOK
  <2> QED BY <1>0, <1>3, <2>1, <2>2
          DEF PushStep, PushWriteVtable, PushSetReady, PushPublish, TypeOK
<1>4. CASE DrainStep
  <2>1. vtable_ready' \in BOOLEAN
    BY <1>0, <1>4, Zenon DEF DrainStep, DrainLoadPtr, DrainLoadReady, DrainReadVtable,
                             DrainClear, DropAndDealloc, TypeOK
  <2> QED BY <1>0, <1>4, <1>a, <2>1 DEF DrainStep, DrainLoadPtr, DrainLoadReady,
                             DrainReadVtable, DrainClear, DropAndDealloc, TypeOK
<1>5. CASE DrainNone \/ UNCHANGED vars
  BY <1>0, <1>5 DEF DrainNone, vars, TypeOK
<1> QED BY <1>1, <1>2, <1>3, <1>4, <1>5 DEF Next

LEMMA InvNext == IInv /\ [Next]_vars => IInv'
<1> SUFFICES ASSUME IInv, [Next]_vars
             PROVE  WriterInv' /\ PublishedInv' /\ DrainInv' /\ ReadyInv'
  BY TypeNext DEF IInv
<1> USE SlotAssumption DEF slotVars, heapVars, audioVars, gcVars, countVars,
        WriterInv, PublishedInv, DrainInv, ReadyInv
<1>0. TypeOK /\ WriterInv /\ PublishedInv /\ DrainInv /\ ReadyInv
  BY DEF IInv
<1>a. /\ life \in [Objects -> {"free", "owned", "pushing", "slot", "refused"}]
      /\ type \in [Objects -> Types]
      /\ ptr \in Objects \cup {Null}
      /\ apc # "idle" => aobj \in Objects
      /\ gpc # "idle" => gobj \in Objects
  BY <1>0 DEF TypeOK
<1>1. ASSUME NEW o \in Objects, NEW t \in Types, Allocate(o, t)
      PROVE  WriterInv' /\ PublishedInv' /\ DrainInv' /\ ReadyInv'
  <2>1. \A p \in Objects : life[p] # "free" => life'[p] = life[p] /\ type'[p] = type[p]
    BY <1>1, <1>a DEF Allocate
  <2>2. UNCHANGED <<slotVars, audioVars, gcVars>>
    BY <1>1 DEF Allocate
  <2>3. gpc \in {"loadReady", "readVtable", "clear", "clearPtr", "dealloc"}
          => life[gobj] = "slot"
    BY <1>0, <1>a
  <2> QED BY <1>0, <1>a, <2>1, <2>2, <2>3
<1>2. ASSUME NEW o \in Objects, PushVacant(o)
      PROVE  WriterInv' /\ PublishedInv' /\ DrainInv' /\ ReadyInv'
  BY <1>0, <1>2, <1>a DEF PushVacant
<1>3. ASSUME NEW o \in Objects, PushOccupied(o)
      PROVE  WriterInv' /\ PublishedInv' /\ DrainInv' /\ ReadyInv'
  BY <1>0, <1>3, <1>a DEF PushOccupied
<1>4. ASSUME NEW o \in Objects, DestroyRefused(o)
      PROVE  WriterInv' /\ PublishedInv' /\ DrainInv' /\ ReadyInv'
  BY <1>0, <1>4, <1>a DEF DestroyRefused
<1>5. CASE PushWriteVtable
  BY <1>0, <1>5, <1>a DEF PushWriteVtable
<1>6. CASE PushSetReady
  BY <1>0, <1>6, <1>a DEF PushSetReady
<1>7. CASE PushPublish
  BY <1>0, <1>7, <1>a DEF PushPublish
<1>8. CASE DrainLoadPtr
  BY <1>0, <1>8, <1>a DEF DrainLoadPtr
<1>9. CASE DrainLoadReady
  BY <1>0, <1>9, <1>a DEF DrainLoadReady
<1>10. CASE DrainReadVtable
  BY <1>0, <1>10, <1>a DEF DrainReadVtable
<1>11. CASE DrainClear
  BY <1>0, <1>11, <1>a DEF DrainClear
<1>12. CASE DropAndDealloc
  BY <1>0, <1>12, <1>a DEF DropAndDealloc
<1>13. CASE DrainNone \/ UNCHANGED vars
  BY <1>0, <1>13 DEF DrainNone, vars
<1> QED BY <1>1, <1>2, <1>3, <1>4, <1>5, <1>6, <1>7, <1>8, <1>9, <1>10, <1>11,
           <1>12, <1>13 DEF Next, PushStep, DrainStep

LEMMA Invariance == Spec => []IInv
BY InvInit, InvNext, PTL DEF Spec

(***************************************************************************)
(* Type correctness of the slot, the heap and both threads' program        *)
(* counters: in particular neither thread holds a null object in a call.   *)
(***************************************************************************)
THEOREM TypeCorrectness == Spec => []TypeOK
<1>1. IInv => TypeOK
  BY DEF IInv
<1> QED BY <1>1, Invariance, PTL

(***************************************************************************)
(* The pointer and the vtable that drain returns belong together, and the  *)
(* object has not been freed: drop_and_dealloc's contract is met.          *)
(***************************************************************************)
THEOREM DrainedPair == Spec => []DrainedPairMatches
<1>1. IInv => DrainedPairMatches
  BY DEF IInv, PublishedInv, DrainInv, TypeOK, DrainedPairMatches
<1> QED BY <1>1, Invariance, PTL

(***************************************************************************)
(* The vtable cell is never written and read at the same time.             *)
(***************************************************************************)
THEOREM VtableCellIsExclusive == Spec => []NoVtableRace
<1>1. IInv => NoVtableRace
  BY DEF IInv, WriterInv, DrainInv, TypeOK, NoVtableRace
<1> QED BY <1>1, Invariance, PTL

(***************************************************************************)
(* Whenever drain finds a pointer the flag is set.                         *)
(***************************************************************************)
THEOREM PublicationIsComplete == Spec => []PublishedIsReady
<1>1. IInv => PublishedIsReady
  BY DEF IInv, PublishedInv, DrainInv, TypeOK, PublishedIsReady
<1> QED BY <1>1, Invariance, PTL

-----------------------------------------------------------------------------
(* Exactly once.  The balance is one of words, and the boxes that exist    *)
(* are finitely many whatever the set of addresses: each was deferred by a *)
(* step of its own.                                                        *)

Allocated == {o \in Objects : life[o] # "free"}

Balanced ==
  /\ IsFiniteSet(Allocated)
  /\ \E k \in Int : reclaimed + Cardinality(Allocated) = deferred + k * CounterModulus

BInv == IInv /\ Balanced

\* A word is the remainder of all the integers it stands for.
LEMMA WordOf ==
  ASSUME NEW w \in 0 .. (CounterModulus - 1), NEW k \in Int
  PROVE  (w + k * CounterModulus) % CounterModulus = w
<1> USE SlotAssumption
<1> DEFINE a == w + k * CounterModulus
           d == a \div CounterModulus
           r == a % CounterModulus
<1>1. /\ d \in Int /\ r \in 0 .. (CounterModulus - 1)
      /\ w + k * CounterModulus = CounterModulus * d + r
  OBVIOUS
<1> HIDE DEF d, r
<1>2. w - r = CounterModulus * (d - k)
  BY <1>1
<1>3. ~(d - k >= 1)
  <2>1. d - k >= 1 => CounterModulus * (d - k) >= CounterModulus
    BY <1>1
  <2> QED BY <1>1, <1>2, <2>1
<1>4. ~(d - k <= -1)
  <2>1. d - k <= -1 => CounterModulus * (d - k) <= -CounterModulus
    BY <1>1
  <2> QED BY <1>1, <1>2, <2>1
<1>5. d - k = 0
  BY <1>1, <1>3, <1>4
<1> QED BY <1>1, <1>2, <1>5 DEF r

\* fetch_add adds one, up to a wraparound.
LEMMA IncrementWraps ==
  ASSUME NEW c \in 0 .. (CounterModulus - 1)
  PROVE  \E j \in {0, 1} : Increment(c) = c + 1 - j * CounterModulus
<1> USE SlotAssumption
<1>1. CASE c + 1 < CounterModulus
  BY <1>1 DEF Increment
<1>2. CASE c + 1 = CounterModulus
  BY <1>2 DEF Increment
<1> QED BY <1>1, <1>2

\* The three steps that change the number of boxes also count.
LEMMA DeferCounts ==
  ASSUME BInv, NEW o \in Objects, o \notin Allocated, Allocated' = Allocated \cup {o},
         deferred' = Increment(deferred), reclaimed' = reclaimed
  PROVE  Balanced'
<1> USE SlotAssumption
<1>0. /\ IsFiniteSet(Allocated) /\ Cardinality(Allocated) \in Nat
      /\ reclaimed \in 0 .. (CounterModulus - 1) /\ deferred \in 0 .. (CounterModulus - 1)
  BY FS_CardinalityType DEF BInv, Balanced, IInv, TypeOK
<1>1. PICK k \in Int : reclaimed + Cardinality(Allocated) = deferred + k * CounterModulus
  BY DEF BInv, Balanced
<1>2. PICK j \in {0, 1} : deferred' = deferred + 1 - j * CounterModulus
  BY <1>0, IncrementWraps
<1>3. IsFiniteSet(Allocated') /\ Cardinality(Allocated') = Cardinality(Allocated) + 1
  BY <1>0, FS_AddElement
<1>4. (k + j) * CounterModulus = k * CounterModulus + j * CounterModulus
  BY <1>1, <1>2
<1>5. /\ k + j \in Int
      /\ reclaimed' + Cardinality(Allocated') = deferred' + (k + j) * CounterModulus
  BY <1>0, <1>1, <1>2, <1>3, <1>4
<1> QED BY <1>3, <1>5 DEF Balanced

LEMMA FreeCounts ==
  ASSUME BInv, NEW o \in Objects, o \in Allocated, Allocated' = Allocated \ {o},
         reclaimed' = Increment(reclaimed), deferred' = deferred
  PROVE  Balanced'
<1> USE SlotAssumption
<1>0. /\ IsFiniteSet(Allocated) /\ Cardinality(Allocated) \in Nat
      /\ reclaimed \in 0 .. (CounterModulus - 1) /\ deferred \in 0 .. (CounterModulus - 1)
  BY FS_CardinalityType DEF BInv, Balanced, IInv, TypeOK
<1>1. PICK k \in Int : reclaimed + Cardinality(Allocated) = deferred + k * CounterModulus
  BY DEF BInv, Balanced
<1>2. PICK j \in {0, 1} : reclaimed' = reclaimed + 1 - j * CounterModulus
  BY <1>0, IncrementWraps
<1>3. IsFiniteSet(Allocated') /\ Cardinality(Allocated') = Cardinality(Allocated) - 1
  BY <1>0, FS_RemoveElement
<1>4. (k - j) * CounterModulus = k * CounterModulus - j * CounterModulus
  BY <1>1, <1>2
<1>5. /\ k - j \in Int
      /\ reclaimed' + Cardinality(Allocated') = deferred' + (k - j) * CounterModulus
  BY <1>0, <1>1, <1>2, <1>3, <1>4
<1> QED BY <1>3, <1>5 DEF Balanced

LEMMA BalanceInit == Init => BInv
<1> SUFFICES ASSUME Init PROVE Balanced
  BY InvInit DEF BInv
<1> USE SlotAssumption
<1>1. Allocated = {}
  BY DEF Init, Allocated
<1>2. IsFiniteSet(Allocated) /\ Cardinality(Allocated) = 0
  BY <1>1, FS_EmptySet
<1>3. reclaimed + Cardinality(Allocated) = deferred + 0 * CounterModulus /\ 0 \in Int
  BY <1>2 DEF Init
<1> QED BY <1>2, <1>3 DEF Balanced

LEMMA BalanceNext == BInv /\ [Next]_vars => BInv'
<1> SUFFICES ASSUME BInv, [Next]_vars PROVE Balanced'
  BY InvNext DEF BInv
<1> USE DEF slotVars, heapVars, audioVars, gcVars, countVars
<1>0. TypeOK /\ WriterInv /\ PublishedInv /\ DrainInv
  BY DEF BInv, IInv
<1>a. ASSUME UNCHANGED <<countVars, Allocated>> PROVE Balanced'
  BY <1>a DEF BInv, Balanced
<1>b. /\ life \in [Objects -> {"free", "owned", "pushing", "slot", "refused"}]
      /\ apc # "idle" => aobj \in Objects
      /\ gpc # "idle" => gobj \in Objects
  BY <1>0 DEF TypeOK
<1>1. ASSUME NEW o \in Objects, NEW t \in Types, Allocate(o, t) PROVE Balanced'
  <2>1. o \notin Allocated /\ Allocated' = Allocated \cup {o}
    BY <1>1, <1>b DEF Allocate, Allocated
  <2> QED BY <1>1, <2>1, DeferCounts DEF Allocate
<1>2. ASSUME NEW o \in Objects, PushVacant(o) \/ PushOccupied(o) PROVE Balanced'
  <2>1. Allocated' = Allocated
    BY <1>2, <1>b DEF PushVacant, PushOccupied, Allocated
  <2> QED BY <1>a, <1>2, <2>1 DEF PushVacant, PushOccupied
<1>3. ASSUME NEW o \in Objects, DestroyRefused(o) PROVE Balanced'
  <2>1. o \in Allocated /\ Allocated' = Allocated \ {o}
    BY <1>3, <1>b DEF DestroyRefused, Allocated
  <2> QED BY <1>3, <2>1, FreeCounts DEF DestroyRefused
<1>4. CASE PushStep
  <2>1. Allocated' = Allocated
    <3>1. CASE PushPublish
      <4>1. life[aobj] = "pushing" /\ aobj \in Objects
        BY <1>0, <1>b, <3>1 DEF PushPublish, WriterInv
      <4> QED BY <1>b, <3>1, <4>1 DEF PushPublish, Allocated
    <3>2. CASE PushWriteVtable \/ PushSetReady
      BY <3>2 DEF PushWriteVtable, PushSetReady, Allocated
    <3> QED BY <1>4, <3>1, <3>2 DEF PushStep
  <2> QED BY <1>a, <1>4, <2>1 DEF PushStep, PushWriteVtable, PushSetReady, PushPublish
<1>5. CASE DrainLoadPtr \/ DrainLoadReady \/ DrainReadVtable \/ DrainClear
  <2>1. Allocated' = Allocated
    BY <1>5 DEF DrainLoadPtr, DrainLoadReady, DrainReadVtable, DrainClear, Allocated
  <2> QED BY <1>a, <1>5, <2>1 DEF DrainLoadPtr, DrainLoadReady, DrainReadVtable, DrainClear
<1>6. CASE DropAndDealloc
  <2>1. gobj \in Objects /\ life[gobj] = "slot"
    BY <1>0, <1>b, <1>6 DEF DropAndDealloc, DrainInv
  <2>2. gobj \in Allocated /\ Allocated' = Allocated \ {gobj}
    BY <1>b, <1>6, <2>1 DEF DropAndDealloc, Allocated
  <2> QED BY <1>6, <2>1, <2>2, FreeCounts DEF DropAndDealloc
<1>7. CASE DrainNone \/ UNCHANGED vars
  <2>1. Allocated' = Allocated
    BY <1>7 DEF DrainNone, vars, Allocated
  <2> QED BY <1>a, <1>7, <2>1 DEF DrainNone, vars
<1> QED BY <1>1, <1>2, <1>3, <1>4, <1>5, <1>6, <1>7 DEF Next, DrainStep

(***************************************************************************)
(* Every deferred box is reclaimed at most once and none is lost: the      *)
(* counter and the boxes still allocated add up to the boxes deferred, for *)
(* any set of addresses and however often the counters wrap.               *)
(***************************************************************************)
THEOREM ReclamationIsExact == Spec => []ReclaimedOnce
<1>1. BInv => ReclaimedOnce
  <2> SUFFICES ASSUME BInv PROVE ReclaimedOnce
    OBVIOUS
  <2>1. PICK k \in Int :
          reclaimed + Cardinality(Allocated) = deferred + k * CounterModulus
    BY DEF BInv, Balanced
  <2>2. deferred \in 0 .. (CounterModulus - 1)
    BY DEF BInv, IInv, TypeOK
  <2>3. (reclaimed + Cardinality(Allocated)) % CounterModulus = deferred
    BY <2>1, <2>2, WordOf
  <2> QED BY <2>3 DEF ReclaimedOnce, Allocated
<1> QED BY <1>1, BalanceInit, BalanceNext, PTL DEF Spec

=============================================================================
