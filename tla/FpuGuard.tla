------------------------------ MODULE FpuGuard ------------------------------
(***************************************************************************)
(* riaps-sys/src/fpu.rs: a guard switches the flushing of subnormal        *)
(* numbers on in the floating-point control register and puts the register *)
(* back when it is dropped.  Guards nest, and may be dropped in any order. *)
(* The register is the set of its bits that are set; arithmetic between    *)
(* the calls sets the sticky exception flag, which on x86-64 lives in the  *)
(* same register.                                                          *)
(***************************************************************************)
EXTENDS Integers, Sequences

CONSTANTS
  Guards,          \* those that can exist at the same time
  Architectures    \* the values of target_arch

VARIABLES
  target_arch,
  register,    \* MXCSR or FPCR of the thread
  old,         \* the field of each guard
  scopes,      \* ghost: the guards that exist, in the order of creation
  own,         \* ghost: the control bits the thread had set itself
  misnested    \* ghost: a guard was dropped before one created after it

vars == <<target_arch, register, old, scopes, own, misnested>>

MXCSR_BITS == {"FTZ", "DAZ"}
FPCR_BITS == {"FZ"}
CONTROL_BITS == MXCSR_BITS \cup FPCR_BITS
FLAG == "PE"

\* What new sets; nothing on the architectures with the no-op guard.
FlushBits(arch) ==
  CASE arch = "x86_64" -> MXCSR_BITS
    [] arch = "aarch64" -> FPCR_BITS
    [] OTHER -> {}

Exists(g) == \E i \in DOMAIN scopes : scopes[i] = g

\* The thread may already run with some of the bits set.
Init ==
  /\ target_arch \in Architectures
  /\ register \in SUBSET FlushBits(target_arch)
  /\ old = [g \in Guards |-> {}]
  /\ scopes = <<>>
  /\ own = register
  /\ misnested = FALSE

\* Mutant: the register is saved after it was changed.
new_SavesLate(g) ==
  /\ ~Exists(g)
  /\ register' = register \cup FlushBits(target_arch)
  /\ old' = [old EXCEPT ![g] = register']
  /\ scopes' = Append(scopes, g)
  /\ UNCHANGED <<target_arch, own, misnested>>

new(g) ==
  /\ ~Exists(g)
  /\ old' = [old EXCEPT ![g] = register]
  /\ register' = register \cup FlushBits(target_arch)
  /\ scopes' = Append(scopes, g)
  /\ UNCHANGED <<target_arch, own, misnested>>

\* Mutant: the bits are cleared, also those that were set before.
Restored_Clear(g) == register \ FlushBits(target_arch)

\* Drop writes the whole register; the no-op guard has no Drop.
Restored(g) == IF FlushBits(target_arch) = {} THEN register ELSE old[g]

Drop(g) ==
  \E i \in DOMAIN scopes :
    /\ scopes[i] = g
    /\ register' = Restored(g)
    /\ old' = [old EXCEPT ![g] = {}]
    /\ scopes' = SubSeq(scopes, 1, i - 1) \o SubSeq(scopes, i + 1, Len(scopes))
    /\ misnested' = (misnested \/ i # Len(scopes))
    /\ UNCHANGED <<target_arch, own>>

\* An inexact operation raises the flag.
Arithmetic ==
  /\ target_arch = "x86_64"
  /\ register' = register \cup {FLAG}
  /\ UNCHANGED <<target_arch, old, scopes, own, misnested>>

Next ==
  \/ \E g \in Guards : new(g) \/ Drop(g)
  \/ Arithmetic

Spec == Init /\ [][Next]_vars

-----------------------------------------------------------------------------
(* Properties                                                              *)

(***************************************************************************)
(* "Drop restores the original state": when nested guards are gone the     *)
(* thread has exactly the control bits it had, those that were set before  *)
(* the first guard included.                                               *)
(***************************************************************************)
RegisterRestored ==
  ~misnested /\ scopes = <<>> => register \cap CONTROL_BITS = own

(***************************************************************************)
(* Within every guard's scope subnormals are flushed, also after an inner  *)
(* guard has been dropped.                                                 *)
(***************************************************************************)
SubnormalsFlushed ==
  ~misnested /\ scopes # <<>> => FlushBits(target_arch) \subseteq register

=============================================================================
