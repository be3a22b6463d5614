---------------------------- MODULE EmergencySlot ---------------------------
(***************************************************************************)
(* riaps-core/src/memory.rs: an emergency slot, through which the audio    *)
(* thread hands an object it must not destroy to the GC or watchdog        *)
(* thread, and the physical drop that thread performs.  One writer and one *)
(* reader (the contract of push and drain); every access to the slot is an *)
(* action.  Objects are addresses: once freed, an address may be allocated *)
(* again for an object of another type.                                    *)
(***************************************************************************)
EXTENDS Integers, FiniteSets

CONSTANTS
  Objects,  \* addresses of boxes
  Types,    \* what a DropVTable is made for
  Null,     \* the null pointer
  Uninit,   \* the content of a vtable cell never written
  CounterModulus  \* number of values of the u64 counter

ASSUME SlotAssumption ==
  /\ Null \notin Objects /\ Uninit \notin Types
  /\ CounterModulus \in Nat \ {0, 1}

VARIABLES
  ptr, vtable, vtable_ready,  \* EmergencySlot
  life,     \* per object: "free"; "owned" by the audio thread; "pushing";
            \* "slot": in the slot; "refused": push returned false
  type,     \* per object: the type it was allocated as
  apc,      \* where the audio thread is in push
  aobj,     \* push's argument
  gpc,      \* where the GC thread is in drain or drop_and_dealloc
  gobj,     \* drain's local pointer
  gvt,      \* the vtable drain read
  reclaimed,  \* GcContext
  deferred    \* ghost: boxes given to defer_box so far (mod CounterModulus)

slotVars == <<ptr, vtable, vtable_ready>>
heapVars == <<life, type>>
audioVars == <<apc, aobj>>
gcVars == <<gpc, gobj, gvt>>
countVars == <<reclaimed, deferred>>
vars == <<slotVars, heapVars, audioVars, gcVars, countVars>>

Increment(counter) == (counter + 1) % CounterModulus

\* EmergencySlot::new and GcContext::new
Init ==
  /\ ptr = Null /\ vtable = Uninit /\ vtable_ready = FALSE
  /\ life = [o \in Objects |-> "free"]
  /\ type \in [Objects -> Types]
  /\ apc = "idle" /\ aobj = Null
  /\ gpc = "idle" /\ gobj = Null /\ gvt = Uninit
  /\ reclaimed = 0 /\ deferred = 0

\* defer_box: the audio thread owns a raw Box of type t at the address o.
Allocate(o, t) ==
  /\ life[o] = "free"
  /\ life' = [life EXCEPT ![o] = "owned"]
  /\ type' = [type EXCEPT ![o] = t]
  /\ deferred' = Increment(deferred)
  /\ UNCHANGED <<slotVars, audioVars, gcVars, reclaimed>>

-----------------------------------------------------------------------------
(* push(obj, vtable), with the pair defer_box made                         *)

\* Mutant: the slot is taken without looking.
PushVacant_Unchecked(o) ==
  /\ apc = "idle" /\ life[o] = "owned"
  /\ life' = [life EXCEPT ![o] = "pushing"]
  /\ apc' = "writeVtable" /\ aobj' = o
  /\ UNCHANGED <<slotVars, type, gcVars, countVars>>

PushVacant(o) ==
  /\ apc = "idle" /\ life[o] = "owned"
  /\ ptr = Null
  /\ life' = [life EXCEPT ![o] = "pushing"]
  /\ apc' = "writeVtable" /\ aobj' = o
  /\ UNCHANGED <<slotVars, type, gcVars, countVars>>

\* push returns false and the caller still owns the object.
PushOccupied(o) ==
  /\ apc = "idle" /\ life[o] = "owned"
  /\ ptr # Null
  /\ life' = [life EXCEPT ![o] = "refused"]
  /\ UNCHANGED <<slotVars, type, audioVars, gcVars, countVars>>

PushWriteVtable ==
  /\ apc = "writeVtable"
  /\ vtable' = type[aobj]
  /\ apc' = "setReady"
  /\ UNCHANGED <<ptr, vtable_ready, heapVars, aobj, gcVars, countVars>>

PushSetReady ==
  /\ apc = "setReady"
  /\ vtable_ready' = TRUE
  /\ apc' = "publish"
  /\ UNCHANGED <<ptr, vtable, heapVars, aobj, gcVars, countVars>>

PushPublish ==
  /\ apc = "publish"
  /\ ptr' = aobj
  /\ life' = [life EXCEPT ![aobj] = "slot"]
  /\ apc' = "idle" /\ aobj' = Null
  /\ UNCHANGED <<vtable, vtable_ready, type, gcVars, countVars>>

\* The caller's choice for a refused object: drop_and_dealloc it
\* elsewhere (as the test does).  Never doing so is the leak the code allows.
DestroyRefused(o) ==
  /\ life[o] = "refused"
  /\ life' = [life EXCEPT ![o] = "free"]
  /\ reclaimed' = Increment(reclaimed)
  /\ UNCHANGED <<slotVars, type, audioVars, gcVars, deferred>>

-----------------------------------------------------------------------------
(* drain, then drop_and_dealloc                                            *)

DrainNone ==
  /\ gpc = "idle"
  /\ ptr = Null
  /\ UNCHANGED vars

DrainLoadPtr ==
  /\ gpc = "idle"
  /\ ptr # Null
  /\ gobj' = ptr
  /\ gpc' = "loadReady"
  /\ UNCHANGED <<slotVars, heapVars, audioVars, gvt, countVars>>

\* Mutant: the slot is given back before the vtable is read.
DrainLoadReady_EarlyRelease ==
  /\ gpc = "loadReady"
  /\ ptr' = Null
  /\ gpc' = IF vtable_ready THEN "readVtable" ELSE "idle"
  /\ UNCHANGED <<vtable, vtable_ready, heapVars, audioVars, gobj, gvt, countVars>>

\* "The writer has not finished, come back in the next scan."
DrainLoadReady ==
  /\ gpc = "loadReady"
  /\ gpc' = IF vtable_ready THEN "readVtable" ELSE "idle"
  /\ UNCHANGED <<slotVars, heapVars, audioVars, gobj, gvt, countVars>>

DrainReadVtable ==
  /\ gpc = "readVtable"
  /\ gvt' = vtable
  /\ gpc' = "clear"
  /\ UNCHANGED <<slotVars, heapVars, audioVars, gobj, countVars>>

\* Mutant: the pointer is cleared before the flag.
DrainClear_Swapped ==
  /\ \/ /\ gpc = "clear"
        /\ ptr' = Null
        /\ gpc' = "clearPtr"
        /\ UNCHANGED vtable_ready
     \/ /\ gpc = "clearPtr"
        /\ vtable_ready' = FALSE
        /\ gpc' = "dealloc"
        /\ UNCHANGED ptr
  /\ UNCHANGED <<vtable, heapVars, audioVars, gobj, gvt, countVars>>

\* Mutant: the slot is not given back, so its object is drained again.
DrainClear_PtrStays ==
  /\ gpc = "clear"
  /\ gpc' = "dealloc"
  /\ UNCHANGED <<ptr, vtable, vtable_ready, heapVars, audioVars, gobj, gvt, countVars>>

\* The flag first, the pointer last: only then may push use the slot again.
DrainClear ==
  /\ \/ /\ gpc = "clear"
        /\ vtable_ready' = FALSE
        /\ gpc' = "clearPtr"
        /\ UNCHANGED ptr
     \/ /\ gpc = "clearPtr"
        /\ ptr' = Null
        /\ gpc' = "dealloc"
        /\ UNCHANGED vtable_ready
  /\ UNCHANGED <<vtable, heapVars, audioVars, gobj, gvt, countVars>>

\* Drop and dealloc the drained object with the layout of its vtable.
DropAndDealloc ==
  /\ gpc = "dealloc"
  /\ life' = [life EXCEPT ![gobj] = "free"]
  /\ reclaimed' = Increment(reclaimed)
  /\ gobj' = Null /\ gvt' = Uninit
  /\ gpc' = "idle"
  /\ UNCHANGED <<slotVars, type, audioVars, deferred>>

-----------------------------------------------------------------------------

PushStep == PushWriteVtable \/ PushSetReady \/ PushPublish

DrainStep ==
  DrainLoadPtr \/ DrainLoadReady \/ DrainReadVtable \/ DrainClear \/ DropAndDealloc

Next ==
  \/ \E o \in Objects :
       \/ \E t \in Types : Allocate(o, t)
       \/ PushVacant(o) \/ PushOccupied(o) \/ DestroyRefused(o)
  \/ PushStep
  \/ DrainNone
  \/ DrainStep

Spec == Init /\ [][Next]_vars

\* The audio thread finishes a push it has begun; the GC or watchdog thread
\* scans the slot again and again.
FairSpec == Spec /\ WF_vars(PushStep) /\ WF_vars(DrainStep)

-----------------------------------------------------------------------------
(* Properties                                                              *)

TypeOK ==
  /\ ptr \in Objects \cup {Null}
  /\ vtable \in Types \cup {Uninit}
  /\ vtable_ready \in BOOLEAN
  /\ life \in [Objects -> {"free", "owned", "pushing", "slot", "refused"}]
  /\ type \in [Objects -> Types]
  /\ apc \in {"idle", "writeVtable", "setReady", "publish"}
  /\ aobj \in Objects \cup {Null}
  /\ gpc \in {"idle", "loadReady", "readVtable", "clear", "clearPtr", "dealloc"}
  /\ gobj \in Objects \cup {Null}
  /\ gvt \in Types \cup {Uninit}
  /\ reclaimed \in 0 .. (CounterModulus - 1)
  /\ deferred \in 0 .. (CounterModulus - 1)
  /\ apc # "idle" => aobj # Null
  /\ gpc # "idle" => gobj # Null

(***************************************************************************)
(* Invariant #10 and the contract of drop_and_dealloc: the object the GC   *)
(* thread is about to free is one it was handed and has not freed yet, and *)
(* the vtable in hand is the one of the type it was allocated as, although *)
(* pointer and vtable travelled through the slot separately.               *)
(***************************************************************************)
DrainedPairMatches ==
  gpc \in {"clear", "clearPtr", "dealloc"}
    => life[gobj] = "slot" /\ gvt = type[gobj]

(***************************************************************************)
(* The argument of `unsafe impl Sync`: the plain write of the vtable cell  *)
(* and the plain read of it are never both in progress.                    *)
(***************************************************************************)
NoVtableRace == ~(apc = "writeVtable" /\ gpc = "readVtable")

(***************************************************************************)
(* What push publishes is complete: a drain that finds a pointer finds the *)
(* flag set too, so the branch for an unfinished writer is a safety net    *)
(* that no interleaving of one writer and one reader reaches.              *)
(***************************************************************************)
PublishedIsReady == gpc = "loadReady" => vtable_ready

(***************************************************************************)
(* Exactly once: the reclaimed counter and the boxes still allocated add   *)
(* up to the boxes deferred, so no object is freed twice by two drains and *)
(* none disappears between push, drain and a refused push.                 *)
(***************************************************************************)
ReclaimedOnce ==
  (reclaimed + Cardinality({o \in Objects : life[o] # "free"})) % CounterModulus
    = deferred

(***************************************************************************)
(* Nothing stays in the slot: an object push has accepted is freed.        *)
(***************************************************************************)
PushedIsFreed ==
  \A o \in Objects : (life[o] \in {"pushing", "slot"}) ~> (life[o] = "free")

=============================================================================
