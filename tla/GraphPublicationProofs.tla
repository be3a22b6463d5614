----------------------- MODULE GraphPublicationProofs -----------------------
(***************************************************************************)
(* Proofs about the hazard-pointer cell, for any number of graphs, readers *)
(* and writers.                                                            *)
(***************************************************************************)
EXTENDS GraphPublication, FiniteSetTheorems, TLAPS

LEMMA BumpRange ==
  ASSUME NEW v \in 0 .. (VersionModulus - 1)
  PROVE  Bump(v) \in 0 .. (VersionModulus - 1)
<1> USE PublicationAssumption
<1>1. CASE v + 1 < VersionModulus
  BY <1>1 DEF Bump
<1>2. CASE v + 1 = VersionModulus
  BY <1>2 DEF Bump
<1> QED BY <1>1, <1>2

LEMMA TypeInit == Init => TypeOK
<1> SUFFICES ASSUME Init PROVE TypeOK
  OBVIOUS
<1>1. pin_active \in BOOLEAN
  BY Zenon DEF Init
<1>2. version \in 0 .. (VersionModulus - 1)
  BY PublicationAssumption DEF Init
<1> QED BY <1>1, <1>2, PublicationAssumption DEF Init, TypeOK, Owners, Pointers

LEMMA TypeNext == TypeOK /\ [Next]_vars => TypeOK'
<1> SUFFICES ASSUME TypeOK, [Next]_vars PROVE TypeOK'
  OBVIOUS
<1> USE DEF TypeOK, Pointers, stateVars, readVars, writeVars
<1>1. ASSUME NEW r \in Readers, PinAcquire(r) PROVE TypeOK'
  <2>1. pin_active' \in BOOLEAN
    BY <1>1, Zenon DEF PinAcquire
  <2> QED BY <1>1, <2>1 DEF PinAcquire
<1>2. ASSUME NEW r \in Readers, PinRefused(r) PROVE TypeOK'
  BY <1>2 DEF PinRefused
<1>3. ASSUME NEW r \in Readers, LoadCurrent(r) PROVE TypeOK'
  BY <1>3 DEF LoadCurrent
<1>4. ASSUME NEW r \in Readers, StoreHazard(r) PROVE TypeOK'
  BY <1>4 DEF StoreHazard
<1>5. ASSUME NEW r \in Readers, ValidateOk(r) PROVE TypeOK'
  BY <1>5 DEF ValidateOk
<1>6. ASSUME NEW r \in Readers, ValidateRetry(r) PROVE TypeOK'
  BY <1>6 DEF ValidateRetry
<1>7. ASSUME NEW r \in Readers, DropGuard(r) PROVE TypeOK'
  <2>1. pin_active' \in BOOLEAN
    BY <1>7, Zenon DEF DropGuard
  <2>2. hazard' \in Graphs \cup {Null} /\ rptr' \in [Readers -> Graphs \cup {Null}]
    BY <1>7 DEF DropGuard
  <2> QED BY <1>7, <2>1, <2>2 DEF DropGuard
<1>8. ASSUME NEW g \in Graphs, Allocate(g) PROVE TypeOK'
  BY <1>8 DEF Allocate, Owners
<1>9. ASSUME NEW w \in Writers, NEW g \in Graphs, SwapPointer(w, g) PROVE TypeOK'
  BY <1>9, BumpRange DEF SwapPointer, Owners
<1>10. ASSUME NEW w \in Writers, SwapVersion(w) PROVE TypeOK'
  BY <1>10, BumpRange DEF SwapVersion, Owners
<1>11. ASSUME NEW g \in Graphs,
              ReclaimCheck(g) \/ ReclaimRefused(g) \/ IntoBox(g) \/ ReclaimDrop(g)
                \/ DropToken(g)
       PROVE  TypeOK'
  BY <1>11 DEF ReclaimCheck, ReclaimRefused, IntoBox, ReclaimDrop, DropToken, Owners,
               vars
<1>12. CASE DropHandle
  BY <1>12 DEF DropHandle
<1>13. CASE DropState
  BY <1>13 DEF DropState, Owners
<1>14. CASE UNCHANGED vars
  BY <1>14 DEF vars
<1> QED BY <1>1, <1>2, <1>3, <1>4, <1>5, <1>6, <1>7, <1>8, <1>9, <1>10, <1>11,
           <1>12, <1>13, <1>14 DEF Next, PinStep, SwapPointerStep

(***************************************************************************)
(* The shared words, the locals of every thread and the owner of every     *)
(* graph stay what the code can make them.                                 *)
(***************************************************************************)
THEOREM TypeCorrectness == Spec => []TypeOK
BY TypeInit, TypeNext, PTL DEF Spec

-----------------------------------------------------------------------------
(* The inductive invariant                                                 *)

\* From the exchange in try_pin to the last store of the guard's drop.
HoldsPin(r) == rpc[r] \in {"load", "hazard", "validate", "pinned", "release"}

\* pin_active is a lock: it is held by at most one reader, who borrows the
\* handle.
PinInv ==
  /\ \A r \in Readers : HoldsPin(r) => pin_active /\ handle = "alive"
  /\ \A r, s \in Readers : HoldsPin(r) /\ HoldsPin(s) => r = s

\* So nobody else moves the hazard, and what it protects is not let go.
Protected == {"current", "inflight", "token", "leaked"}

HazardInv ==
  \A r \in Readers :
    /\ rpc[r] \in {"hazard", "validate", "pinned"} => rptr[r] \in Graphs
    /\ rpc[r] \in {"validate", "pinned"} => hazard = rptr[r]
    /\ rpc[r] = "pinned" => owner[rptr[r]] \in Protected

\* The cell owns exactly one graph, and every writer one of its own.
OwnerInv ==
  /\ handle # "gone" => owner[current] = "current"
  /\ \A g \in Graphs : owner[g] = "current" => g = current
  /\ \A w \in Writers :
       wpc[w] = "bump" => /\ handle = "alive"
                          /\ wold[w] \in Graphs
                          /\ owner[wold[w]] = "inflight"
  /\ \A v, w \in Writers :
       wpc[v] = "bump" /\ wpc[w] = "bump" /\ v # w => wold[v] # wold[w]

IInv == TypeOK /\ PinInv /\ HazardInv /\ OwnerInv

LEMMA InvInit == Init => IInv
<1> SUFFICES ASSUME Init PROVE PinInv /\ HazardInv /\ OwnerInv
  BY TypeInit DEF IInv
<1> QED BY DEF Init, PinInv, HazardInv, OwnerInv, HoldsPin

\* Changing the owner of one graph g that is neither current nor in a writer's
\* hands before or after, and does not become unprotected while it is the hazard.
LEMMA OwnerStep ==
  ASSUME IInv, NEW g \in Graphs, NEW o \in Owners,
         owner[g] \notin {"current", "inflight"}, o \notin {"current", "inflight"},
         owner[g] \in Protected /\ o \notin Protected => hazard # g,
         owner' = [owner EXCEPT ![g] = o],
         UNCHANGED <<stateVars, handle, readVars, writeVars>>
  PROVE  PinInv' /\ HazardInv' /\ OwnerInv'
<1> USE DEF stateVars, readVars, writeVars
<1>0. TypeOK /\ PinInv /\ HazardInv /\ OwnerInv
  BY DEF IInv
<1>1. \A h \in Graphs : owner'[h] = IF h = g THEN o ELSE owner[h]
  BY <1>0 DEF TypeOK
<1>2. PinInv'
  BY <1>0 DEF PinInv, HoldsPin
<1>3. HazardInv'
  BY <1>0, <1>1 DEF HazardInv
<1>4. OwnerInv'
  BY <1>0, <1>1 DEF OwnerInv, TypeOK
<1> QED BY <1>2, <1>3, <1>4

\* A step of one reader that holds the pin, or takes it while it is free,
\* leaves the other readers outside.
LEMMA PinStepKeepsOthersOut ==
  ASSUME IInv, NEW r \in Readers, HoldsPin(r) \/ ~pin_active
  PROVE  \A s \in Readers : s # r => ~HoldsPin(s)
BY DEF IInv, PinInv

LEMMA InvNext == IInv /\ [Next]_vars => IInv'
<1> SUFFICES ASSUME IInv, [Next]_vars PROVE PinInv' /\ HazardInv' /\ OwnerInv'
  BY TypeNext DEF IInv
<1> USE DEF stateVars, readVars, writeVars
<1>0. TypeOK /\ PinInv /\ HazardInv /\ OwnerInv
  BY DEF IInv
<1>a. ASSUME UNCHANGED <<current, handle, owner, writeVars>> PROVE OwnerInv'
  BY <1>0, <1>a DEF OwnerInv
<1>1. ASSUME NEW r \in Readers, PinAcquire(r) PROVE PinInv' /\ HazardInv' /\ OwnerInv'
  <2>1. \A s \in Readers : s # r => ~HoldsPin(s)
    BY <1>1, PinStepKeepsOthersOut DEF PinAcquire
  <2>2. PinInv' /\ HazardInv'
    BY <1>0, <1>1, <2>1 DEF PinAcquire, PinInv, HazardInv, HoldsPin, TypeOK
  <2> QED BY <1>1, <1>a, <2>2 DEF PinAcquire
<1>2. ASSUME NEW r \in Readers, PinRefused(r) PROVE PinInv' /\ HazardInv' /\ OwnerInv'
  <2>1. PinInv' /\ HazardInv'
    BY <1>0, <1>2 DEF PinRefused, PinInv, HazardInv, HoldsPin, CanCall, TypeOK
  <2> QED BY <1>2, <1>a, <2>1 DEF PinRefused
<1>3. ASSUME NEW r \in Readers, PinStep(r) \/ DropGuard(r)
      PROVE  PinInv' /\ HazardInv' /\ OwnerInv'
  <2>1. HoldsPin(r)
    BY <1>3 DEF PinStep, LoadCurrent, StoreHazard, ValidateOk, ValidateRetry, DropGuard,
                HoldsPin
  <2>2. \A s \in Readers : s # r => ~HoldsPin(s)
    BY <2>1, PinStepKeepsOthersOut
  <2>3. UNCHANGED <<current, handle, owner, writeVars>>
    BY <1>3 DEF PinStep, LoadCurrent, StoreHazard, ValidateOk, ValidateRetry, DropGuard
  <2>4. \A s \in Readers : s # r => rpc'[s] = rpc[s] /\ rptr'[s] = rptr[s]
    BY <1>0, <1>3 DEF PinStep, LoadCurrent, StoreHazard, ValidateOk, ValidateRetry,
                      DropGuard, TypeOK
  <2>5. HoldsPin(r)' => pin_active'
    BY <1>0, <1>3, <2>1 DEF PinStep, LoadCurrent, StoreHazard, ValidateOk,
             ValidateRetry, DropGuard, HoldsPin, PinInv, TypeOK
  <2>6. PinInv'
    BY <1>0, <2>1, <2>2, <2>3, <2>4, <2>5 DEF PinInv, HoldsPin
  <2>7. /\ rpc'[r] \in {"hazard", "validate", "pinned"} => rptr'[r] \in Graphs
        /\ rpc'[r] \in {"validate", "pinned"} => hazard' = rptr'[r]
        /\ rpc'[r] = "pinned" => owner'[rptr'[r]] \in Protected
    <3>1. CASE LoadCurrent(r)
      BY <1>0, <3>1 DEF LoadCurrent, TypeOK
    <3>2. CASE StoreHazard(r)
      BY <1>0, <3>2 DEF StoreHazard, HazardInv, TypeOK
    <3>3. CASE ValidateOk(r)
      <4>1. owner[current] = "current"
        BY <1>0, <2>1 DEF OwnerInv, PinInv
      <4> QED BY <1>0, <3>3, <4>1 DEF ValidateOk, HazardInv, TypeOK, Protected
    <3>4. CASE ValidateRetry(r)
      BY <1>0, <3>4 DEF ValidateRetry, TypeOK
    <3>5. CASE DropGuard(r)
      BY <1>0, <3>5 DEF DropGuard, TypeOK
    <3> QED BY <1>3, <3>1, <3>2, <3>3, <3>4, <3>5 DEF PinStep
  <2>8. HazardInv'
    BY <2>2, <2>4, <2>7 DEF HazardInv, HoldsPin
  <2> QED BY <1>a, <2>3, <2>6, <2>8
<1>4. ASSUME NEW w \in Writers, NEW g \in Graphs, SwapPointer(w, g)
      PROVE  PinInv' /\ HazardInv' /\ OwnerInv'
  <2>1. owner[current] = "current" /\ owner[g] = "box" /\ g # current /\ current \in Graphs
    BY <1>0, <1>4 DEF SwapPointer, OwnerInv, TypeOK
  <2>2. \A h \in Graphs :
          owner'[h] = IF h = current THEN "inflight"
                      ELSE IF h = g THEN "current" ELSE owner[h]
    BY <1>0, <1>4, <2>1 DEF SwapPointer, TypeOK
  <2>3. PinInv'
    BY <1>0, <1>4 DEF SwapPointer, PinInv, HoldsPin
  <2>4. HazardInv'
    <3>1. \A h \in Graphs : owner[h] \in Protected => owner'[h] \in Protected
      BY <2>1, <2>2 DEF Protected
    <3>2. UNCHANGED <<rpc, rptr, hazard>>
      BY <1>4 DEF SwapPointer
    <3> QED BY <1>0, <3>1, <3>2 DEF HazardInv
  <2>5. \A v \in Writers :
          /\ wpc'[v] = IF v = w THEN "bump" ELSE wpc[v]
          /\ wold'[v] = IF v = w THEN current ELSE wold[v]
    BY <1>0, <1>4 DEF SwapPointer, TypeOK
  <2>6. \A v \in Writers : wpc[v] = "bump" => wold[v] # current /\ wold[v] # g
    BY <1>0, <2>1 DEF OwnerInv
  <2>7. OwnerInv'
    <3>1. handle = "alive" /\ handle' = handle /\ current' = g
      BY <1>4 DEF SwapPointer
    <3>2. owner'[current'] = "current"
      BY <2>1, <2>2, <3>1
    <3>3. \A h \in Graphs : owner'[h] = "current" => h = current'
      BY <1>0, <2>2, <3>1 DEF OwnerInv
    <3>4. ASSUME NEW v \in Writers, wpc'[v] = "bump"
          PROVE  wold'[v] \in Graphs /\ owner'[wold'[v]] = "inflight"
      <4>1. CASE v = w
        BY <2>1, <2>2, <2>5, <4>1
      <4>2. CASE v # w
        <5>1. wpc[v] = "bump" /\ wold'[v] = wold[v]
          BY <2>5, <3>4, <4>2
        <5>2. wold[v] \in Graphs /\ owner[wold[v]] = "inflight"
          BY <1>0, <5>1 DEF OwnerInv
        <5> QED BY <2>2, <2>6, <5>1, <5>2
      <4> QED BY <4>1, <4>2
    <3>5. ASSUME NEW u \in Writers, NEW v \in Writers, u # v,
                 wpc'[u] = "bump", wpc'[v] = "bump"
          PROVE  wold'[u] # wold'[v]
      BY <1>0, <2>5, <2>6, <3>5 DEF OwnerInv
    <3> QED BY <3>1, <3>2, <3>3, <3>4, <3>5 DEF OwnerInv
  <2> QED BY <2>3, <2>4, <2>7
<1>5. ASSUME NEW w \in Writers, SwapVersion(w) PROVE PinInv' /\ HazardInv' /\ OwnerInv'
  <2>1. wold[w] \in Graphs /\ owner[wold[w]] = "inflight"
    BY <1>0, <1>5 DEF SwapVersion, OwnerInv
  <2>2. \A h \in Graphs : owner'[h] = IF h = wold[w] THEN "token" ELSE owner[h]
    BY <1>0, <1>5, <2>1 DEF SwapVersion, TypeOK
  <2>3. \A v \in Writers :
          /\ wpc'[v] = IF v = w THEN "idle" ELSE wpc[v]
          /\ v # w => wold'[v] = wold[v]
    BY <1>0, <1>5 DEF SwapVersion, TypeOK
  <2>4. PinInv' /\ HazardInv'
    BY <1>0, <1>5, <2>2 DEF SwapVersion, PinInv, HazardInv, HoldsPin, Protected
  <2>5. OwnerInv'
    BY <1>0, <1>5, <2>1, <2>2, <2>3 DEF SwapVersion, OwnerInv, TypeOK
  <2> QED BY <2>4, <2>5
<1>6. ASSUME NEW g \in Graphs, Allocate(g) PROVE PinInv' /\ HazardInv' /\ OwnerInv'
  BY <1>6, OwnerStep DEF Allocate, Owners, Protected
<1>7. ASSUME NEW g \in Graphs, ReclaimCheck(g) PROVE PinInv' /\ HazardInv' /\ OwnerInv'
  BY <1>7, OwnerStep DEF ReclaimCheck, Owners
<1>8. ASSUME NEW g \in Graphs, IntoBox(g) \/ ReclaimDrop(g) \/ DropToken(g)
      PROVE  PinInv' /\ HazardInv' /\ OwnerInv'
  BY <1>8, OwnerStep DEF IntoBox, ReclaimDrop, DropToken, Owners, Protected
<1>9. ASSUME NEW g \in Graphs, ReclaimRefused(g) PROVE UNCHANGED vars
  BY <1>9 DEF ReclaimRefused
<1>10. CASE DropHandle
  <2>1. PinInv' /\ HazardInv'
    BY <1>0, <1>10 DEF DropHandle, PinInv, HazardInv, HoldsPin, CanCall
  <2>2. OwnerInv'
    BY <1>0, <1>10 DEF DropHandle, OwnerInv
  <2> QED BY <2>1, <2>2
<1>11. CASE DropState
  <2>1. \A r \in Readers : ~HoldsPin(r)
    BY <1>0, <1>11 DEF DropState, PinInv
  <2>2. PinInv' /\ HazardInv'
    BY <1>0, <1>11, <2>1 DEF DropState, PinInv, HazardInv, HoldsPin
  <2>3. \A h \in Graphs : owner'[h] = IF h = current THEN "free" ELSE owner[h]
    BY <1>0, <1>11 DEF DropState, TypeOK
  <2>4. OwnerInv'
    BY <1>0, <1>11, <2>3 DEF DropState, OwnerInv
  <2> QED BY <2>2, <2>4
<1>12. CASE UNCHANGED vars
  BY <1>0, <1>12 DEF vars, PinInv, HazardInv, OwnerInv, HoldsPin
<1> QED BY <1>1, <1>2, <1>3, <1>4, <1>5, <1>6, <1>7, <1>8, <1>9, <1>10, <1>11, <1>12
        DEF Next, SwapPointerStep

LEMMA Invariance == Spec => []IInv
BY InvInit, InvNext, PTL DEF Spec

(***************************************************************************)
(* With any number of readers, writers and reused addresses, the graph of  *)
(* a live guard is never freed nor handed back.  The argument: pin_active  *)
(* lets one reader move the hazard (PinInv); a validated hazard names a    *)
(* graph the cell still owned at that moment (OwnerInv), and from then on  *)
(* try_into_box refuses it (HazardInv).                                    *)
(***************************************************************************)
THEOREM PinnedGraphIsAlive == Spec => []NoUseAfterFree
<1>1. IInv => NoUseAfterFree
  BY DEF IInv, HazardInv, Protected, NoUseAfterFree
<1> QED BY <1>1, Invariance, PTL

(***************************************************************************)
(* At most one guard is live, so process has the graph to itself.          *)
(***************************************************************************)
THEOREM GuardIsExclusive == Spec => []OneLiveGuard
<1>1. IInv => OneLiveGuard
  BY DEF IInv, PinInv, HoldsPin, OneLiveGuard
<1> QED BY <1>1, Invariance, PTL

-----------------------------------------------------------------------------
(* The handle implements the indivisible cell                              *)

\* The only pinned reader is the one PinnedGraph chooses.
LEMMA TheReader ==
  ASSUME NEW pc, NEW ptr, NEW r \in Readers, pc[r] = "pinned",
         \A s \in Readers : pc[s] = "pinned" => s = r
  PROVE  (IF \E s \in Readers : pc[s] = "pinned"
          THEN ptr[CHOOSE s \in Readers : pc[s] = "pinned"] ELSE Null) = ptr[r]
<1>1. (CHOOSE s \in Readers : pc[s] = "pinned") = r
  OBVIOUS
<1> QED BY <1>1

LEMMA PinnedIs ==
  ASSUME IInv, NEW r \in Readers, rpc[r] = "pinned"
  PROVE  PinnedGraph = rptr[r] /\ hazard = rptr[r] /\ rptr[r] \in Graphs
<1>1. \A s \in Readers : rpc[s] = "pinned" => s = r
  BY DEF IInv, PinInv, HoldsPin
<1>2. PinnedGraph = rptr[r]
  BY <1>1, TheReader DEF PinnedGraph
<1> QED BY <1>2 DEF IInv, HazardInv

LEMMA NonePinned ==
  ASSUME \A s \in Readers : rpc[s] # "pinned"
  PROVE  PinnedGraph = Null
BY DEF PinnedGraph

LEMMA SamePinned ==
  ASSUME IInv,
         \A s \in Readers : rpc'[s] = "pinned" <=> rpc[s] = "pinned",
         \A s \in Readers : rpc[s] = "pinned" => rptr'[s] = rptr[s]
  PROVE  PinnedGraph' = PinnedGraph
<1>1. CASE \A s \in Readers : rpc[s] # "pinned"
  BY <1>1 DEF PinnedGraph
<1>2. ASSUME NEW r \in Readers, rpc[r] = "pinned" PROVE PinnedGraph' = PinnedGraph
  <2>1. \A s \in Readers : rpc'[s] = "pinned" => s = r
    BY <1>2 DEF IInv, PinInv, HoldsPin
  <2>2. PinnedGraph' = rptr'[r]
    BY <1>2, <2>1, TheReader DEF PinnedGraph
  <2> QED BY <1>2, <2>2, PinnedIs
<1> QED BY <1>1, <1>2

LEMMA RefineInit == Init => Cell!Init
<1> SUFFICES ASSUME Init PROVE Cell!Init
  OBVIOUS
<1>1. PinnedGraph = Null
  BY NonePinned DEF Init
<1>2. \A g \in Graphs : owner[g] = IF g = current THEN "current" ELSE "free"
  BY DEF Init
<1> QED BY <1>1, <1>2 DEF Init, Cell!Init

LEMMA RefineNext == IInv /\ [Next]_vars => [Cell!Next]_(Cell!vars)
<1> SUFFICES ASSUME IInv, [Next]_vars PROVE [Cell!Next]_(Cell!vars)
  OBVIOUS
<1> USE DEF stateVars, readVars, writeVars
<1>0. TypeOK /\ PinInv /\ HazardInv /\ OwnerInv
  BY DEF IInv
<1>a. ASSUME UNCHANGED <<rpc, rptr>> PROVE PinnedGraph' = PinnedGraph
  BY <1>a DEF PinnedGraph
<1>b. ASSUME UNCHANGED <<current, handle, owner>>, PinnedGraph' = PinnedGraph
      PROVE  UNCHANGED Cell!vars
  BY <1>b DEF Cell!vars
<1>1. ASSUME NEW r \in Readers,
             PinAcquire(r) \/ PinRefused(r) \/ LoadCurrent(r) \/ StoreHazard(r)
               \/ ValidateRetry(r)
      PROVE  UNCHANGED Cell!vars
  <2>1. /\ \A s \in Readers : rpc'[s] = "pinned" <=> rpc[s] = "pinned"
        /\ \A s \in Readers : rpc[s] = "pinned" => rptr'[s] = rptr[s]
        /\ UNCHANGED <<current, handle, owner>>
    BY <1>0, <1>1 DEF PinAcquire, PinRefused, LoadCurrent, StoreHazard, ValidateRetry,
                      CanCall, TypeOK
  <2>2. PinnedGraph' = PinnedGraph
    BY <2>1, SamePinned
  <2> QED BY <1>b, <2>1, <2>2
<1>2. ASSUME NEW r \in Readers, ValidateOk(r) PROVE Cell!Pin
  <2>1. \A s \in Readers : s # r => rpc[s] # "pinned"
    BY <1>0, <1>2 DEF ValidateOk, PinInv, HoldsPin
  <2>2. PinnedGraph = Null
    BY <1>2, <2>1, NonePinned DEF ValidateOk
  <2>3. rpc'[r] = "pinned" /\ \A s \in Readers : rpc'[s] = "pinned" => s = r
    BY <1>0, <1>2, <2>1 DEF ValidateOk, TypeOK
  <2>4. PinnedGraph' = rptr'[r]
    BY <2>3, TheReader DEF PinnedGraph
  <2>5. /\ rptr'[r] = current /\ current \in Graphs /\ handle = "alive"
        /\ UNCHANGED <<current, handle, owner>>
    BY <1>0, <1>2 DEF ValidateOk, PinInv, HoldsPin, TypeOK
  <2> QED BY <2>2, <2>4, <2>5, PublicationAssumption DEF Cell!Pin
<1>3. ASSUME NEW r \in Readers, DropGuard(r) PROVE Cell!Unpin \/ UNCHANGED Cell!vars
  <2>1. UNCHANGED <<current, handle, owner>>
    BY <1>3 DEF DropGuard
  <2>2. CASE rpc[r] = "pinned"
    <3>1. PinnedGraph \in Graphs
      BY <2>2, PinnedIs
    <3>2. \A s \in Readers : rpc'[s] # "pinned"
      BY <1>0, <1>3, <2>2 DEF DropGuard, PinInv, HoldsPin, TypeOK
    <3>3. PinnedGraph' = Null
      BY <3>2 DEF PinnedGraph
    <3> QED BY <2>1, <3>1, <3>3, PublicationAssumption DEF Cell!Unpin
  <2>3. CASE rpc[r] = "release"
    <3>1. /\ \A s \in Readers : rpc'[s] = "pinned" <=> rpc[s] = "pinned"
          /\ \A s \in Readers : rpc[s] = "pinned" => rptr'[s] = rptr[s]
      BY <1>0, <1>3, <2>3 DEF DropGuard, TypeOK
    <3> QED BY <1>b, <2>1, <3>1, SamePinned
  <2> QED BY <1>3, <2>2, <2>3 DEF DropGuard
<1>4. ASSUME NEW w \in Writers, NEW g \in Graphs, SwapPointer(w, g) PROVE Cell!Publish(g)
  <2>1. owner[current] = "current" /\ owner[g] = "box" /\ g # current /\ current \in Graphs
    BY <1>0, <1>4 DEF SwapPointer, OwnerInv, TypeOK
  <2>2. \A h \in Graphs :
          owner'[h] = IF h = current THEN "inflight"
                      ELSE IF h = g THEN "current" ELSE owner[h]
    BY <1>0, <1>4, <2>1 DEF SwapPointer, TypeOK
  <2>3. PinnedGraph' = PinnedGraph
    BY <1>4, <1>a DEF SwapPointer
  <2>4. handle = "alive" /\ handle' = handle /\ current' = g
    BY <1>4 DEF SwapPointer
  <2> QED BY <2>1, <2>2, <2>3, <2>4, PublicationAssumption DEF Cell!Publish
<1>5. ASSUME NEW w \in Writers, SwapVersion(w) PROVE UNCHANGED Cell!vars
  <2>1. wold[w] \in Graphs /\ owner[wold[w]] = "inflight"
    BY <1>0, <1>5 DEF SwapVersion, OwnerInv
  <2>2. \A h \in Graphs : owner'[h] = IF h = wold[w] THEN "token" ELSE owner[h]
    BY <1>0, <1>5, <2>1 DEF SwapVersion, TypeOK
  <2>3. PinnedGraph' = PinnedGraph
    BY <1>5, <1>a DEF SwapVersion
  <2> QED BY <1>5, <2>1, <2>2, <2>3 DEF SwapVersion, Cell!vars
<1>6. ASSUME NEW g \in Graphs, ReclaimCheck(g) PROVE Cell!Reclaim(g)
  <2>1. g # PinnedGraph
    <3>1. CASE \A s \in Readers : rpc[s] # "pinned"
      BY <3>1, NonePinned, PublicationAssumption
    <3>2. ASSUME NEW r \in Readers, rpc[r] = "pinned" PROVE g # PinnedGraph
      BY <1>6, <3>2, PinnedIs DEF ReclaimCheck
    <3> QED BY <3>1, <3>2
  <2>2. \A h \in Graphs : owner'[h] = IF h = g THEN "checked" ELSE owner[h]
    BY <1>0, <1>6 DEF ReclaimCheck, TypeOK
  <2>3. PinnedGraph' = PinnedGraph
    BY <1>6, <1>a DEF ReclaimCheck
  <2> QED BY <1>6, <2>1, <2>2, <2>3 DEF ReclaimCheck, Cell!Reclaim
<1>7. ASSUME NEW g \in Graphs,
             Allocate(g) \/ IntoBox(g) \/ ReclaimDrop(g) \/ DropToken(g)
      PROVE  UNCHANGED Cell!vars
  <2>1. PinnedGraph' = PinnedGraph
    BY <1>7, <1>a DEF Allocate, IntoBox, ReclaimDrop, DropToken
  <2>2. /\ \A h \in Graphs : h # g => owner'[h] = owner[h]
        /\ owner[g] \in {"inflight", "token", "leaked"}
             <=> owner'[g] \in {"inflight", "token", "leaked"}
        /\ owner[g] \in {"free", "box", "checked"}
             <=> owner'[g] \in {"free", "box", "checked"}
    BY <1>0, <1>7 DEF Allocate, IntoBox, ReclaimDrop, DropToken, TypeOK
  <2> QED BY <1>7, <2>1, <2>2
          DEF Allocate, IntoBox, ReclaimDrop, DropToken, Cell!vars
<1>8. ASSUME NEW g \in Graphs, ReclaimRefused(g) PROVE UNCHANGED vars
  BY <1>8 DEF ReclaimRefused
<1>9. CASE DropHandle
  BY <1>9, <1>a DEF DropHandle, Cell!vars
<1>10. CASE DropState
  <2>1. /\ owner[current] = "current" /\ current \in Graphs
        /\ handle = "dropped" /\ handle' = "gone"
    BY <1>0, <1>10 DEF DropState, OwnerInv, TypeOK
  <2>2. \A h \in Graphs : owner'[h] = IF h = current THEN "free" ELSE owner[h]
    BY <1>0, <1>10 DEF DropState, TypeOK
  <2>3. \A s \in Readers : rpc[s] # "pinned"
    BY <1>0, <2>1 DEF PinInv, HoldsPin
  <2>4. PinnedGraph = Null /\ PinnedGraph' = PinnedGraph
    BY <1>10, <1>a, <2>3, NonePinned DEF DropState
  <2> QED BY <1>10, <2>1, <2>2, <2>4, PublicationAssumption DEF Cell!Destroy, Cell!Next
<1>11. CASE UNCHANGED vars
  BY <1>11, <1>a, <1>b DEF vars
<1> QED BY <1>1, <1>2, <1>3, <1>4, <1>5, <1>6, <1>7, <1>8, <1>9, <1>10, <1>11
        DEF Next, PinStep, SwapPointerStep, Cell!Next

(***************************************************************************)
(* Every step of the handle is a step of the abstract cell or invisible    *)
(* to it: pins are of the published graph, and reclamation is atomic with  *)
(* respect to them.                                                        *)
(***************************************************************************)
THEOREM HandleImplementsCell == Spec => ImplementsCell
<1>1. Init => Cell!Init
  BY RefineInit
<1>2. IInv /\ [Next]_vars => [Cell!Next]_(Cell!vars)
  BY RefineNext
<1> QED BY <1>1, <1>2, Invariance, PTL DEF Spec, ImplementsCell, Cell!Spec

-----------------------------------------------------------------------------
(* The version.  It is compared with the number of swaps as words are, and *)
(* the writers between their two atomic operations have to be finitely     *)
(* many, which needs no bound on the number of writers: each of them got   *)
(* there by a step of its own.                                             *)

Bumping == {w \in Writers : wpc[w] = "bump"}

Lag ==
  /\ IsFiniteSet(Bumping)
  /\ \E k \in Int : version + Cardinality(Bumping) = 1 + swaps + k * VersionModulus

VInv == TypeOK /\ Lag

\* A word is the remainder of all the integers it stands for.
LEMMA WordOf ==
  ASSUME NEW w \in 0 .. (VersionModulus - 1), NEW k \in Int
  PROVE  (w + k * VersionModulus) % VersionModulus = w
<1> USE PublicationAssumption
<1> DEFINE a == w + k * VersionModulus
           d == a \div VersionModulus
           r == a % VersionModulus
<1>1. /\ d \in Int /\ r \in 0 .. (VersionModulus - 1)
      /\ w + k * VersionModulus = VersionModulus * d + r
  OBVIOUS
<1> HIDE DEF d, r
<1>2. w - r = VersionModulus * (d - k)
  BY <1>1
<1>3. ~(d - k >= 1)
  <2>1. d - k >= 1 => VersionModulus * (d - k) >= VersionModulus
    BY <1>1
  <2> QED BY <1>1, <1>2, <2>1
<1>4. ~(d - k <= -1)
  <2>1. d - k <= -1 => VersionModulus * (d - k) <= -VersionModulus
    BY <1>1
  <2> QED BY <1>1, <1>2, <2>1
<1>5. d - k = 0
  BY <1>1, <1>3, <1>4
<1> QED BY <1>1, <1>2, <1>5 DEF r

\* Integers that are some number of wraparounds apart are the same word.
LEMMA SameWord ==
  ASSUME NEW a \in Int, NEW k \in Int
  PROVE  (a + k * VersionModulus) % VersionModulus = a % VersionModulus
<1> USE PublicationAssumption
<1> DEFINE d == a \div VersionModulus
           r == a % VersionModulus
<1>1. d \in Int /\ r \in 0 .. (VersionModulus - 1) /\ a = VersionModulus * d + r
  OBVIOUS
<1> HIDE DEF d, r
<1>2. a + k * VersionModulus = r + (d + k) * VersionModulus /\ d + k \in Int
  BY <1>1
<1>3. (r + (d + k) * VersionModulus) % VersionModulus = r
  BY <1>1, <1>2, WordOf
<1> QED BY <1>2, <1>3 DEF r

\* fetch_add adds one, up to a wraparound.
LEMMA BumpWraps ==
  ASSUME NEW v \in 0 .. (VersionModulus - 1)
  PROVE  \E j \in {0, 1} : Bump(v) = v + 1 - j * VersionModulus
<1> USE PublicationAssumption
<1>1. CASE v + 1 < VersionModulus
  BY <1>1 DEF Bump
<1>2. CASE v + 1 = VersionModulus
  BY <1>2 DEF Bump
<1> QED BY <1>1, <1>2

LEMMA LagInit == Init => VInv
<1> SUFFICES ASSUME Init PROVE VInv
  OBVIOUS
<1> USE PublicationAssumption
<1>1. Bumping = {}
  BY DEF Init, Bumping
<1>2. IsFiniteSet(Bumping) /\ Cardinality(Bumping) = 0
  BY <1>1, FS_EmptySet
<1>3. version = 1 /\ swaps = 0
  BY DEF Init
<1>4. version + Cardinality(Bumping) = 1 + swaps + 0 * VersionModulus /\ 0 \in Int
  BY <1>2, <1>3
<1> QED BY <1>2, <1>4, TypeInit DEF VInv, Lag

LEMMA LagNext == VInv /\ [Next]_vars => VInv'
<1> SUFFICES ASSUME VInv, [Next]_vars PROVE Lag'
  BY TypeNext DEF VInv
<1> USE PublicationAssumption
<1>0. /\ TypeOK /\ IsFiniteSet(Bumping) /\ Cardinality(Bumping) \in Nat
      /\ version \in 0 .. (VersionModulus - 1) /\ swaps \in 0 .. (VersionModulus - 1)
  BY FS_CardinalityType DEF VInv, Lag, TypeOK
<1>k. PICK k \in Int :
        version + Cardinality(Bumping) = 1 + swaps + k * VersionModulus
  BY DEF VInv, Lag
<1>a. ASSUME UNCHANGED <<version, swaps, wpc>> PROVE Lag'
  BY <1>a DEF VInv, Lag, Bumping
<1>1. ASSUME NEW w \in Writers, NEW g \in Graphs, SwapPointer(w, g) PROVE Lag'
  <2>1. w \notin Bumping /\ Bumping' = Bumping \cup {w}
    BY <1>0, <1>1 DEF SwapPointer, Bumping, TypeOK
  <2>2. IsFiniteSet(Bumping') /\ Cardinality(Bumping') = Cardinality(Bumping) + 1
    BY <1>0, <2>1, FS_AddElement
  <2>3. PICK j \in {0, 1} : swaps' = swaps + 1 - j * VersionModulus
    BY <1>0, <1>1, BumpWraps DEF SwapPointer
  <2>4. version' = version
    BY <1>1 DEF SwapPointer
  <2>5. (k + j) * VersionModulus = k * VersionModulus + j * VersionModulus
    BY <1>k, <2>3
  <2>6. /\ k + j \in Int
        /\ version' + Cardinality(Bumping') = 1 + swaps' + (k + j) * VersionModulus
    BY <1>0, <1>k, <2>2, <2>3, <2>4, <2>5
  <2> QED BY <2>2, <2>6 DEF Lag
<1>2. ASSUME NEW w \in Writers, SwapVersion(w) PROVE Lag'
  <2>1. w \in Bumping /\ Bumping' = Bumping \ {w}
    BY <1>0, <1>2 DEF SwapVersion, Bumping, TypeOK
  <2>2. IsFiniteSet(Bumping') /\ Cardinality(Bumping') = Cardinality(Bumping) - 1
    BY <1>0, <2>1, FS_RemoveElement
  <2>3. PICK j \in {0, 1} : version' = version + 1 - j * VersionModulus
    BY <1>0, <1>2, BumpWraps DEF SwapVersion
  <2>4. swaps' = swaps
    BY <1>2 DEF SwapVersion
  <2>5. (k - j) * VersionModulus = k * VersionModulus - j * VersionModulus
    BY <1>k, <2>3
  <2>6. /\ k - j \in Int
        /\ version' + Cardinality(Bumping') = 1 + swaps' + (k - j) * VersionModulus
    BY <1>0, <1>k, <2>2, <2>3, <2>4, <2>5
  <2> QED BY <2>2, <2>6 DEF Lag
<1>3. ASSUME NEW r \in Readers,
             PinAcquire(r) \/ PinRefused(r) \/ PinStep(r) \/ DropGuard(r)
      PROVE  UNCHANGED <<version, swaps, wpc>>
  BY <1>3 DEF PinAcquire, PinRefused, PinStep, LoadCurrent, StoreHazard, ValidateOk,
              ValidateRetry, DropGuard, stateVars, writeVars
<1>4. ASSUME NEW g \in Graphs,
             \/ Allocate(g)
             \/ ReclaimCheck(g) \/ ReclaimRefused(g) \/ IntoBox(g) \/ ReclaimDrop(g)
             \/ DropToken(g)
      PROVE  UNCHANGED <<version, swaps, wpc>>
  BY <1>4 DEF Allocate, ReclaimCheck, ReclaimRefused, IntoBox, ReclaimDrop, DropToken,
              vars, stateVars, writeVars
<1>5. ASSUME DropHandle \/ DropState \/ UNCHANGED vars
      PROVE  UNCHANGED <<version, swaps, wpc>>
  BY <1>5 DEF DropHandle, DropState, vars, stateVars, writeVars
<1> QED BY <1>a, <1>1, <1>2, <1>3, <1>4, <1>5 DEF Next, SwapPointerStep

(***************************************************************************)
(* Whoever reads a version finds the pointer at least as new: version lags *)
(* behind the pointer by exactly the running swaps, for any number of      *)
(* writers and also when the words wrap around.                            *)
(***************************************************************************)
THEOREM VersionFollowsPointer == Spec => []VersionNeverAhead
<1>1. VInv => VersionNeverAhead
  <2> SUFFICES ASSUME VInv PROVE VersionNeverAhead
    OBVIOUS
  <2>1. PICK k \in Int :
          version + Cardinality(Bumping) = 1 + swaps + k * VersionModulus
    BY DEF VInv, Lag
  <2>2. 1 + swaps \in Int
    BY PublicationAssumption DEF VInv, TypeOK
  <2>3. (version + Cardinality(Bumping)) % VersionModulus = (1 + swaps) % VersionModulus
    BY <2>1, <2>2, SameWord
  <2> QED BY <2>3 DEF VersionNeverAhead, Bumping
<1> QED BY <1>1, LagInit, LagNext, PTL DEF Spec

=============================================================================
