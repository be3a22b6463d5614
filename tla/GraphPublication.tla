-------------------------- MODULE GraphPublication --------------------------
(***************************************************************************)
(* riaps-dsp/src/graph.rs: DspGraphHandle, the hazard-pointer cell through *)
(* which the control plane replaces the processing graph while the audio   *)
(* thread uses it.                                                         *)
(*                                                                         *)
(* Readers call try_pin and drop the guard, writers call swap, and the     *)
(* retired tokens are reclaimed, turned back into boxes or leaked.  Every  *)
(* access to the shared atomics is an action.  A graph is an address: once *)
(* freed it may be allocated again, so the compare of pointers may meet a  *)
(* new graph at an old address.                                            *)
(***************************************************************************)
EXTENDS Integers, FiniteSets

CONSTANTS
  Graphs,          \* addresses of DspGraphInner boxes
  Null,            \* the null pointer
  Readers,         \* threads that pin
  Writers,         \* threads that swap
  VersionModulus   \* number of values of the u64 version

ASSUME PublicationAssumption ==
  /\ Null \notin Graphs
  /\ VersionModulus \in Nat \ {0, 1}

VARIABLES
  current, version, hazard, pin_active,  \* PublicationState
  handle,    \* "alive"; "dropped"; "gone": PublicationState dropped too
  owner,     \* who owns each graph, see Owners
  rpc,       \* where each reader is in try_pin or in the guard's life
  rptr,      \* try_pin's local pointer, then the guard's
  wpc,       \* where each writer is in swap
  wold,      \* the pointer a writer took out
  swaps      \* ghost: pointer swaps so far (mod VersionModulus)

stateVars == <<current, version, hazard, pin_active>>
readVars == <<rpc, rptr>>
writeVars == <<wpc, wold>>
vars == <<stateVars, handle, owner, readVars, writeVars, swaps>>

(***************************************************************************)
(* free: unallocated; box: a Box somebody may use or drop; current: the    *)
(* published one; inflight: taken out by swap, the token not built yet;    *)
(* token: in a RetiredDspGraph; checked: its try_into_box has seen a       *)
(* hazard elsewhere and goes on to rebuild the Box; leaked: token dropped. *)
(***************************************************************************)
Owners == {"free", "box", "current", "inflight", "token", "checked", "leaked"}

\* fetch_add wraps.
Bump(v) == (v + 1) % VersionModulus

\* DspGraphHandle::new
Init ==
  /\ current \in Graphs
  /\ version = 1 % VersionModulus
  /\ hazard = Null
  /\ pin_active = FALSE
  /\ handle = "alive"
  /\ owner = [g \in Graphs |-> IF g = current THEN "current" ELSE "free"]
  /\ rpc = [r \in Readers |-> "idle"]
  /\ rptr = [r \in Readers |-> Null]
  /\ wpc = [w \in Writers |-> "idle"]
  /\ wold = [w \in Writers |-> Null]
  /\ swaps = 0

-----------------------------------------------------------------------------
(* try_pin                                                                 *)

CanCall(r) == rpc[r] \in {"idle", "refused"}

\* Mutant: the exchange succeeds although a guard exists.
PinAcquire_NoCompare(r) ==
  /\ handle = "alive"
  /\ CanCall(r)
  /\ pin_active' = TRUE
  /\ rpc' = [rpc EXCEPT ![r] = "load"]
  /\ UNCHANGED <<current, version, hazard, handle, owner, rptr, writeVars, swaps>>

PinAcquire(r) ==
  /\ handle = "alive"
  /\ CanCall(r)
  /\ ~pin_active
  /\ pin_active' = TRUE
  /\ rpc' = [rpc EXCEPT ![r] = "load"]
  /\ UNCHANGED <<current, version, hazard, handle, owner, rptr, writeVars, swaps>>

PinRefused(r) ==
  /\ handle = "alive"
  /\ CanCall(r)
  /\ pin_active
  /\ rpc' = [rpc EXCEPT ![r] = "refused"]
  /\ UNCHANGED <<stateVars, handle, owner, rptr, writeVars, swaps>>

LoadCurrent(r) ==
  /\ rpc[r] = "load"
  /\ rptr' = [rptr EXCEPT ![r] = current]
  /\ rpc' = [rpc EXCEPT ![r] = "hazard"]
  /\ UNCHANGED <<stateVars, handle, owner, writeVars, swaps>>

StoreHazard(r) ==
  /\ rpc[r] = "hazard"
  /\ hazard' = rptr[r]
  /\ rpc' = [rpc EXCEPT ![r] = "validate"]
  /\ UNCHANGED <<current, version, pin_active, handle, owner, rptr, writeVars, swaps>>

\* Mutant: the pointer is used without the second look.
ValidateOk_Unchecked(r) ==
  /\ rpc[r] = "validate"
  /\ rpc' = [rpc EXCEPT ![r] = "pinned"]
  /\ UNCHANGED <<stateVars, handle, owner, rptr, writeVars, swaps>>

ValidateOk(r) ==
  /\ rpc[r] = "validate"
  /\ current = rptr[r]
  /\ rpc' = [rpc EXCEPT ![r] = "pinned"]
  /\ UNCHANGED <<stateVars, handle, owner, rptr, writeVars, swaps>>

\* Mutant: the loop does not load the pointer again.
ValidateRetry_Stale(r) ==
  /\ rpc[r] = "validate"
  /\ current # rptr[r]
  /\ rpc' = [rpc EXCEPT ![r] = "hazard"]
  /\ UNCHANGED <<stateVars, handle, owner, rptr, writeVars, swaps>>

ValidateRetry(r) ==
  /\ rpc[r] = "validate"
  /\ current # rptr[r]
  /\ rpc' = [rpc EXCEPT ![r] = "load"]
  /\ UNCHANGED <<stateVars, handle, owner, rptr, writeVars, swaps>>

-----------------------------------------------------------------------------
(* DspGraphReadGuard::drop: hazard first, then pin_active                  *)

\* Mutant: the two stores are swapped.
DropGuard_Swapped(r) ==
  /\ \/ /\ rpc[r] = "pinned"
        /\ pin_active' = FALSE
        /\ rpc' = [rpc EXCEPT ![r] = "release"]
        /\ UNCHANGED <<hazard, rptr>>
     \/ /\ rpc[r] = "release"
        /\ hazard' = Null
        /\ rpc' = [rpc EXCEPT ![r] = "idle"]
        /\ rptr' = [rptr EXCEPT ![r] = Null]
        /\ UNCHANGED pin_active
  /\ UNCHANGED <<current, version, handle, owner, writeVars, swaps>>

\* Mutant: the hazard is left behind.
DropGuard_HazardStays(r) ==
  /\ \/ /\ rpc[r] = "pinned"
        /\ rpc' = [rpc EXCEPT ![r] = "release"]
        /\ UNCHANGED <<hazard, pin_active, rptr>>
     \/ /\ rpc[r] = "release"
        /\ pin_active' = FALSE
        /\ rpc' = [rpc EXCEPT ![r] = "idle"]
        /\ rptr' = [rptr EXCEPT ![r] = Null]
        /\ UNCHANGED hazard
  /\ UNCHANGED <<current, version, handle, owner, writeVars, swaps>>

DropGuard(r) ==
  /\ \/ /\ rpc[r] = "pinned"
        /\ hazard' = Null
        /\ rpc' = [rpc EXCEPT ![r] = "release"]
        /\ UNCHANGED <<pin_active, rptr>>
     \/ /\ rpc[r] = "release"
        /\ pin_active' = FALSE
        /\ rpc' = [rpc EXCEPT ![r] = "idle"]
        /\ rptr' = [rptr EXCEPT ![r] = Null]
        /\ UNCHANGED hazard
  /\ UNCHANGED <<current, version, handle, owner, writeVars, swaps>>

-----------------------------------------------------------------------------
(* swap                                                                    *)

\* A new graph is compiled into a Box (at an address that is free).
Allocate(g) ==
  /\ handle = "alive"
  /\ owner[g] = "free"
  /\ owner' = [owner EXCEPT ![g] = "box"]
  /\ UNCHANGED <<stateVars, handle, readVars, writeVars, swaps>>

SwapPointer(w, g) ==
  /\ handle = "alive"
  /\ wpc[w] = "idle"
  /\ owner[g] = "box"
  /\ current' = g
  /\ wold' = [wold EXCEPT ![w] = current]
  /\ owner' = [owner EXCEPT ![g] = "current", ![current] = "inflight"]
  /\ wpc' = [wpc EXCEPT ![w] = "bump"]
  /\ swaps' = Bump(swaps)
  /\ UNCHANGED <<version, hazard, pin_active, handle, readVars>>

\* Mutant: the version is not advanced.
SwapVersion_NoBump(w) ==
  /\ wpc[w] = "bump"
  /\ owner' = [owner EXCEPT ![wold[w]] = "token"]
  /\ wold' = [wold EXCEPT ![w] = Null]
  /\ wpc' = [wpc EXCEPT ![w] = "idle"]
  /\ UNCHANGED <<current, version, hazard, pin_active, handle, readVars, swaps>>

\* fetch_add, then the token is returned.
SwapVersion(w) ==
  /\ wpc[w] = "bump"
  /\ version' = Bump(version)
  /\ owner' = [owner EXCEPT ![wold[w]] = "token"]
  /\ wold' = [wold EXCEPT ![w] = Null]
  /\ wpc' = [wpc EXCEPT ![w] = "idle"]
  /\ UNCHANGED <<current, hazard, pin_active, handle, readVars, swaps>>

-----------------------------------------------------------------------------
(* RetiredDspGraph: a token is owned by one thread at a time               *)

\* try_into_box loads the hazard and finds another pointer.
ReclaimCheck(g) ==
  /\ owner[g] = "token"
  /\ hazard # g
  /\ owner' = [owner EXCEPT ![g] = "checked"]
  /\ UNCHANGED <<stateVars, handle, readVars, writeVars, swaps>>

\* It finds this graph: the token is handed back unchanged.
ReclaimRefused(g) ==
  /\ owner[g] = "token"
  /\ hazard = g
  /\ UNCHANGED vars

\* try_into_box returns the Box ...
IntoBox(g) ==
  /\ owner[g] = "checked"
  /\ owner' = [owner EXCEPT ![g] = "box"]
  /\ UNCHANGED <<stateVars, handle, readVars, writeVars, swaps>>

\* ... which try_reclaim drops.
ReclaimDrop(g) ==
  /\ owner[g] = "checked"
  /\ owner' = [owner EXCEPT ![g] = "free"]
  /\ UNCHANGED <<stateVars, handle, readVars, writeVars, swaps>>

\* A token dropped without reclaiming leaks its graph.
DropToken(g) ==
  /\ owner[g] = "token"
  /\ owner' = [owner EXCEPT ![g] = "leaked"]
  /\ UNCHANGED <<stateVars, handle, readVars, writeVars, swaps>>

-----------------------------------------------------------------------------
(* Dropping the handle and, with the last Arc, the PublicationState.       *)

\* Guards and running calls borrow the handle.
DropHandle ==
  /\ handle = "alive"
  /\ \A r \in Readers : CanCall(r)
  /\ \A w \in Writers : wpc[w] = "idle"
  /\ handle' = "dropped"
  /\ UNCHANGED <<stateVars, owner, readVars, writeVars, swaps>>

DropState ==
  /\ handle = "dropped"
  /\ \A g \in Graphs : owner[g] \notin {"token", "checked"}
  /\ handle' = "gone"
  /\ owner' = [owner EXCEPT ![current] = "free"]
  /\ UNCHANGED <<stateVars, readVars, writeVars, swaps>>

-----------------------------------------------------------------------------

PinStep(r) ==
  LoadCurrent(r) \/ StoreHazard(r) \/ ValidateOk(r) \/ ValidateRetry(r)

SwapPointerStep == \E w \in Writers, g \in Graphs : SwapPointer(w, g)

Next ==
  \/ \E r \in Readers : PinAcquire(r) \/ PinRefused(r) \/ PinStep(r) \/ DropGuard(r)
  \/ SwapPointerStep
  \/ \E w \in Writers : SwapVersion(w)
  \/ \E g \in Graphs :
       \/ Allocate(g)
       \/ ReclaimCheck(g) \/ ReclaimRefused(g) \/ IntoBox(g) \/ ReclaimDrop(g)
       \/ DropToken(g)
  \/ DropHandle
  \/ DropState

Spec == Init /\ [][Next]_vars

\* A thread inside try_pin is scheduled again, an audio callback ends and
\* drops its guard, and the collector keeps trying to reclaim each token.
\* Nothing obliges anybody to pin or to swap.
FairSpec ==
  /\ Spec
  /\ \A r \in Readers : WF_vars(PinStep(r)) /\ WF_vars(DropGuard(r))
  /\ \A g \in Graphs : WF_vars(ReclaimCheck(g))

-----------------------------------------------------------------------------
(* Properties                                                              *)

Pointers == Graphs \cup {Null}

TypeOK ==
  /\ current \in Graphs
  /\ version \in 0 .. (VersionModulus - 1)
  /\ hazard \in Pointers
  /\ pin_active \in BOOLEAN
  /\ handle \in {"alive", "dropped", "gone"}
  /\ owner \in [Graphs -> Owners]
  /\ rpc \in [Readers -> {"idle", "refused", "load", "hazard", "validate",
                          "pinned", "release"}]
  /\ rptr \in [Readers -> Pointers]
  /\ wpc \in [Writers -> {"idle", "bump"}]
  /\ wold \in [Writers -> Pointers]
  /\ swaps \in 0 .. (VersionModulus - 1)

(***************************************************************************)
(* "The published hazard protects this pointer until Drop": the graph of a *)
(* live guard is neither freed, nor handed back as a Box, nor already past *)
(* the check that leads to either, even if its address was retired, freed  *)
(* and published again while the reader was between its loads.             *)
(***************************************************************************)
NoUseAfterFree ==
  \A r \in Readers :
    rpc[r] = "pinned" => owner[rptr[r]] \in {"current", "inflight", "token", "leaked"}

(***************************************************************************)
(* "pin_active permits one live guard, so mutable graph access is          *)
(* exclusive": two readers never process the graph at the same time.       *)
(***************************************************************************)
OneLiveGuard ==
  \A r, s \in Readers : rpc[r] = "pinned" /\ rpc[s] = "pinned" => r = s

(***************************************************************************)
(* The version lags behind the pointer by exactly the swaps whose writer   *)
(* is between its two atomic operations: who sees a version also sees the  *)
(* publications it counts.                                                 *)
(***************************************************************************)
VersionNeverAhead ==
  (version + Cardinality({w \in Writers : wpc[w] = "bump"})) % VersionModulus
    = (1 + swaps) % VersionModulus

(***************************************************************************)
(* The handle behaves as the indivisible cell of module GraphCell.  A pin  *)
(* takes effect when it is validated, a reclamation when it has seen the   *)
(* hazard.                                                                 *)
(***************************************************************************)
PinnedGraph ==
  IF \E r \in Readers : rpc[r] = "pinned"
  THEN rptr[CHOOSE r \in Readers : rpc[r] = "pinned"]
  ELSE Null

Cell == INSTANCE GraphCell WITH
  published <- IF handle = "gone" THEN Null ELSE current,
  pinned <- PinnedGraph,
  retired <- {g \in Graphs : owner[g] \in {"inflight", "token", "leaked"}},
  outside <- {g \in Graphs : owner[g] \in {"free", "box", "checked"}}

ImplementsCell == Cell!Spec

(***************************************************************************)
(* try_pin's loop ends unless graphs are swapped in for ever: a reader can *)
(* only be held up by publications, never by a reclamation or by another   *)
(* reader.                                                                 *)
(***************************************************************************)
PinCompletes ==
  \/ []<><<SwapPointerStep>>_vars
  \/ \A r \in Readers : (rpc[r] = "load") ~> (rpc[r] = "pinned")

(***************************************************************************)
(* A retired graph that the collector keeps trying to reclaim is           *)
(* eventually let go, whatever the readers and writers do: hazards on a    *)
(* retired graph do not come back for ever.                                *)
(***************************************************************************)
RetiredIsReclaimed ==
  \A g \in Graphs : (owner[g] = "token") ~> (owner[g] # "token")

=============================================================================
