------------------------- MODULE ThreadProvisioner --------------------------
(***************************************************************************)
(* riaps-sys/src/thread.rs: a provisioner asks the system for real-time    *)
(* scheduling of the thread it lives on (it is !Send) and, on Linux, puts  *)
(* the thread's schedule back when it is dropped.  It may be asked again   *)
(* and again, and several of them may live on the thread at a time.  The   *)
(* system may refuse, and the process may lose its privilege at any time.  *)
(***************************************************************************)
EXTENDS Integers, Sequences

CONSTANTS
  Provisioners,   \* those that can exist at the same time
  Targets,        \* the priorities asked for
  OwnPriorities,  \* the thread's own priority, 0 if it is not a real-time thread
  Platforms       \* the values of target_os

VARIABLES
  target_os,
  schedule,      \* of the thread
  privileged,    \* may the process raise its priority?
  observable,    \* do the calls that read the schedule succeed?
  prov,          \* the provisioners' fields
  base,          \* ghost: the thread's own schedule
  grants,        \* ghost: who holds a grant, in the order they were given
  tangled,       \* ghost: a second grant to one provisioner, or a drop out of order
  refused        \* ghost: the system refused a Drop the schedule it asked for

system == <<target_os, observable, base>>
vars == <<system, schedule, privileged, prov, grants, tangled, refused>>

Ordinary == [policy |-> "SCHED_OTHER", prio |-> 0]
FIFO(prio) == [policy |-> "SCHED_FIFO", prio |-> prio]
QOS == [policy |-> "QOS_CLASS_USER_INTERACTIVE", prio |-> 0]

Unset == [policy |-> "None", prio |-> 0]

Fields(strategy, granted, fallback, original) ==
  [strategy |-> strategy, granted_prio |-> granted, fallback_active |-> fallback,
   original_linux_schedule |-> original]

Absent == Fields("absent", 0, FALSE, Unset)

Alive(p) == prov[p] # Absent

Init ==
  /\ target_os \in Platforms
  /\ schedule \in {IF k = 0 THEN Ordinary ELSE FIFO(k) : k \in OwnPriorities}
  /\ privileged \in BOOLEAN
  /\ observable \in BOOLEAN
  /\ prov = [p \in Provisioners |-> Absent]
  /\ base = schedule
  /\ grants = <<>>
  /\ tangled = FALSE
  /\ refused = FALSE

-----------------------------------------------------------------------------
(* The system: sched_setscheduler lets an unprivileged thread keep or      *)
(* lower its priority and leave the real-time class, and no more.          *)

Permitted(wish) ==
  \/ privileged
  \/ wish = Ordinary
  \/ schedule.policy = "SCHED_FIFO" /\ wish.prio <= schedule.prio

LosePrivilege ==
  /\ privileged
  /\ privileged' = FALSE
  /\ UNCHANGED <<system, schedule, prov, grants, tangled, refused>>

-----------------------------------------------------------------------------

new(p) ==
  /\ ~Alive(p)
  /\ prov' = [prov EXCEPT ![p] = Fields("Unprovisioned", 0, FALSE, Unset)]
  /\ UNCHANGED <<system, schedule, privileged, grants, tangled, refused>>

Clamp(target) == IF target < 1 THEN 1 ELSE IF target > 99 THEN 99 ELSE target

\* A grant: try_direct's changes and provision's.
Granted(p, strategy, granted, target, original, changed) ==
  /\ prov' = [prov EXCEPT ![p] = Fields(strategy, granted, granted < target, original)]
  /\ schedule' = changed
  /\ UNCHANGED <<system, privileged, refused>>

HoldsGrant(p) == \E i \in DOMAIN grants : grants[i] = p

\* Mutant: the priority asked for is reported, not the one that was set.
ProvisionLinux_AsAsked(p, target) ==
  /\ Alive(p)
  /\ target_os = "linux" /\ observable
  /\ Permitted(FIFO(Clamp(target)))
  /\ Granted(p, "Direct", target, target, schedule, FIFO(Clamp(target)))
  /\ grants' = IF HoldsGrant(p) THEN grants ELSE Append(grants, p)
  /\ tangled' = (tangled \/ HoldsGrant(p))

\* Linux: sched_setscheduler(0, SCHED_FIFO, prio.clamp(1, 99)) returns 0.
ProvisionLinux(p, target) ==
  /\ Alive(p)
  /\ target_os = "linux" /\ observable
  /\ Permitted(FIFO(Clamp(target)))
  /\ Granted(p, "Direct", Clamp(target), target, schedule, FIFO(Clamp(target)))
  /\ grants' = IF HoldsGrant(p) THEN grants ELSE Append(grants, p)
  /\ tangled' = (tangled \/ HoldsGrant(p))

\* macOS: the QoS class is set; nothing is saved and any priority reported.
ProvisionMacos(p, target) ==
  /\ Alive(p)
  /\ target_os = "macos"
  /\ Granted(p, "MacOsPolicy", target, target, Unset, QOS)
  /\ UNCHANGED <<grants, tangled>>

\* try_direct fails: the platform has nothing to ask for, the schedule cannot
\* be read, or the system refuses.
DirectFails(target) ==
  target_os = "linux" => ~observable \/ ~Permitted(FIFO(Clamp(target)))

\* BestEffort: the downgrade is reported; an earlier grant stays in force.
ProvisionFallback(p, target) ==
  /\ Alive(p)
  /\ DirectFails(target)
  /\ prov' = [prov EXCEPT ![p] = Fields("Fallback", 0, TRUE,
                                        prov[p].original_linux_schedule)]
  /\ UNCHANGED <<system, schedule, privileged, grants, tangled, refused>>

\* Strict, with either StrictAction: StrictModeRefused, and nothing changes.
ProvisionRefused(p, target) ==
  /\ Alive(p)
  /\ DirectFails(target)
  /\ UNCHANGED vars

-----------------------------------------------------------------------------
(* Drop: the schedule saved last is put back; nobody looks whether the     *)
(* system agreed.                                                          *)

\* Mutant: the thread is always made an ordinary one.
Restore_Other(original) == IF Permitted(Ordinary) THEN Ordinary ELSE schedule

Restore(original) == IF Permitted(original) THEN original ELSE schedule

Drop(p) ==
  /\ Alive(p)
  /\ prov' = [prov EXCEPT ![p] = Absent]
  /\ LET original == prov[p].original_linux_schedule
     IN  IF original = Unset
         THEN UNCHANGED <<schedule, grants, tangled, refused>>
         ELSE /\ schedule' = Restore(original)
              /\ refused' = (refused \/ ~Permitted(original))
              /\ \E i \in DOMAIN grants :
                   /\ grants[i] = p
                   /\ grants' = SubSeq(grants, 1, i - 1) \o SubSeq(grants, i + 1, Len(grants))
                   /\ tangled' = (tangled \/ i # Len(grants))
  /\ UNCHANGED <<system, privileged>>

Next ==
  \/ LosePrivilege
  \/ \E p \in Provisioners :
       \/ new(p)
       \/ Drop(p)
       \/ \E target \in Targets :
            \/ ProvisionLinux(p, target) \/ ProvisionMacos(p, target)
            \/ ProvisionFallback(p, target) \/ ProvisionRefused(p, target)

Spec == Init /\ [][Next]_vars

-----------------------------------------------------------------------------
(* Properties                                                              *)

\* The schedule s stands for the wish: it is the wish itself or, after a refused
\* restore, the same class with a lower priority.
Kept(s, wish) ==
  \/ s = wish
  \/ /\ refused
     /\ s.policy = "SCHED_FIFO" /\ wish.policy = "SCHED_FIFO"
     /\ s.prio < wish.prio

(***************************************************************************)
(* Invariant #19, what was acquired is given back in Drop, as far as the   *)
(* code keeps it.  On Linux, provisioners that are granted a priority once *)
(* each and dropped in the reverse order leave the thread with its own     *)
(* schedule, whatever requests failed in between and in which mode.  A     *)
(* refused restore, whose result Drop ignores, costs a real-time thread    *)
(* part of its own priority and no more: it is never left above it, and a  *)
(* thread that was not real-time always gets its schedule back, whenever   *)
(* the privilege was lost.  Nothing is said of macOS, where no Drop gives  *)
(* the QoS class back.                                                     *)
(***************************************************************************)
ScheduleRestored ==
  target_os = "linux" /\ ~tangled /\ grants = <<>> => Kept(schedule, base)

\* What the thread will run with once the grants after the i-th are given back.
Beneath(i) ==
  IF i = Len(grants) THEN schedule ELSE prov[grants[i + 1]].original_linux_schedule

(***************************************************************************)
(* strategy and granted_prio tell the truth: a provisioner reports Direct  *)
(* only while it holds a grant, and the thread runs with the priority it   *)
(* reports, or will again once the provisioners granted later are gone;    *)
(* with a lower one only after the system refused one of them its restore. *)
(* Of MacOsPolicy and Fallback, which report the priority asked for and 0  *)
(* whatever the thread runs with, it says nothing.                         *)
(***************************************************************************)
ReportHonest ==
  ~tangled =>
    \A p \in Provisioners : prov[p].strategy = "Direct" =>
      \E i \in DOMAIN grants :
        grants[i] = p /\ Kept(Beneath(i), FIFO(prov[p].granted_prio))

(***************************************************************************)
(* The SAFETY comment of Drop: the policy it restores "was captured before *)
(* SCHED_FIFO was applied", so an ordinary thread is an ordinary thread    *)
(* again when its provisioner is gone.                                     *)
(***************************************************************************)
DropRestores == grants = <<>> => schedule = base

=============================================================================
