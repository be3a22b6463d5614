----------------------------- MODULE AudioThread ----------------------------
(***************************************************************************)
(* The settings of one audio thread that riaps-sys changes and gives back: *)
(* its schedule (ThreadProvisioner) and its floating-point control         *)
(* register (FpuGuard).  The thread may use both in any order, guards      *)
(* being created and dropped while provisioners come and go.               *)
(***************************************************************************)
EXTENDS Integers, TLC

CONSTANTS Provisioners, Targets, OwnPriorities, Platforms, Guards, Architectures

ASSUME ThreadAssumption ==
  /\ Targets \subseteq Int
  /\ OwnPriorities \subseteq 0 .. 99
  /\ Platforms \subseteq {"linux", "macos", "other"}
  /\ Architectures \subseteq {"x86_64", "aarch64", "other"}

VARIABLES
  target_os, schedule, privileged, observable, prov, base, grants, tangled, refused,
  target_arch, register, old, scopes, own, misnested

Thread == INSTANCE ThreadProvisioner
Fpu == INSTANCE FpuGuard

threadVars ==
  <<target_os, schedule, privileged, observable, prov, base, grants, tangled, refused>>
fpuVars == <<target_arch, register, old, scopes, own, misnested>>
audioVars == <<threadVars, fpuVars>>

AudioInit == Thread!Init /\ Fpu!Init

AudioNext ==
  \/ Thread!Next /\ UNCHANGED fpuVars
  \/ Fpu!Next /\ UNCHANGED threadVars

AudioSpec == AudioInit /\ [][AudioNext]_audioVars

\* Neither provisioners nor guards are told apart by anything but their state.
Symmetry == Permutations(Provisioners) \cup Permutations(Guards)

-----------------------------------------------------------------------------
(* Properties                                                              *)

\* On Linux, provisioners granted once each and dropped in reverse order leave the
\* thread with its own schedule (Drop of ThreadProvisioner) or, only if a restore
\* was refused, a real-time thread with a lower priority than its own.
ScheduleRestored == Thread!ScheduleRestored

\* Who reports Direct and a priority (strategy, granted_prio) holds a grant, and
\* the thread runs with that priority unless a later grant covers it, or with a
\* lower one if a restore was refused.
ReportHonest == Thread!ReportHonest

\* Nested guards give back exactly the control bits that were set before
\* (Drop of FpuGuard), also those that flushing would have set anyway.
RegisterRestored == Fpu!RegisterRestored

\* Inside a guard subnormals are flushed, also once an inner guard is dropped.
SubnormalsFlushed == Fpu!SubnormalsFlushed

=============================================================================
