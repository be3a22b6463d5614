------------------------------ MODULE SysProofs -----------------------------
(***************************************************************************)
(* Proofs about riaps-sys: what an audio thread gets back from its         *)
(* provisioners and floating-point guards, for any number of them, and     *)
(* what the performance probe counts, for every capacity of its ring,      *)
(* batch length, nesting depth and width of its counters.                  *)
(***************************************************************************)
EXTENDS AudioThread, PerformanceProbe, FiniteSetTheorems, SequenceTheorems, TLAPS

-----------------------------------------------------------------------------
(* Stacks                                                                  *)

Distinct(s) == \A i, j \in 1 .. Len(s) : s[i] = s[j] => i = j

Removed(s, i) == SubSeq(s, 1, i - 1) \o SubSeq(s, i + 1, Len(s))

\* Removing the last element.
LEMMA LastRemoved ==
  ASSUME NEW S, NEW s \in Seq(S), s # <<>>
  PROVE  LET t == Removed(s, Len(s))
         IN  /\ t \in Seq(S)
             /\ Len(t) = Len(s) - 1
             /\ \A k \in 1 .. Len(t) : t[k] = s[k]
<1> DEFINE front == SubSeq(s, 1, Len(s) - 1)
           back == SubSeq(s, Len(s) + 1, Len(s))
<1>1. Len(s) \in Nat /\ Len(s) >= 1
  BY EmptySeq
<1>2. /\ front \in Seq(S) /\ Len(front) = Len(s) - 1
      /\ \A k \in 1 .. Len(front) : front[k] = s[k]
  <2>1. \A k \in 1 .. (Len(s) - 1) : s[k] \in S
    BY <1>1
  <2>2. 1 \in Int /\ Len(s) - 1 \in Int
    BY <1>1
  <2>3. /\ front \in Seq(S)
        /\ Len(front) = IF 1 <= Len(s) - 1 THEN (Len(s) - 1) - 1 + 1 ELSE 0
        /\ \A k \in 1 .. ((Len(s) - 1) - 1 + 1) : front[k] = s[1 + k - 1]
    BY <2>1, <2>2, SubSeqProperties
  <2> HIDE DEF front
  <2>4. Len(front) = Len(s) - 1
    <3>1. CASE Len(s) = 1
      BY <2>3, <3>1
    <3>2. CASE Len(s) # 1
      <4>0. \A n \in Nat : n >= 1 /\ n # 1 => 1 <= n - 1 /\ (n - 1) - 1 + 1 = n - 1
        OBVIOUS
      <4>1. 1 <= Len(s) - 1 /\ (Len(s) - 1) - 1 + 1 = Len(s) - 1
        BY <1>1, <3>2, <4>0, Zenon
      <4> QED BY <2>3, <4>1
    <3> QED BY <3>1, <3>2
  <2>5. ASSUME NEW k \in 1 .. Len(front) PROVE front[k] = s[k]
    <3>1. k \in 1 .. ((Len(s) - 1) - 1 + 1) /\ 1 + k - 1 = k
      BY <1>1, <2>4
    <3> QED BY <2>3, <3>1
  <2> QED BY <2>3, <2>4, <2>5
<1>3. back = <<>>
  BY <1>1
<1> HIDE DEF front, back
<1>4. front \o back = front
  BY <1>2, <1>3, ConcatEmptySeq
<1> QED BY <1>2, <1>4 DEF Removed, front, back

\* Adding an element that is not there yet.
LEMMA Appended ==
  ASSUME NEW S, NEW s \in Seq(S), NEW e \in S
  PROVE  LET t == Append(s, e)
         IN  /\ t \in Seq(S)
             /\ Len(t) = Len(s) + 1
             /\ \A k \in 1 .. Len(t) : t[k] = IF k = Len(t) THEN e ELSE s[k]
OBVIOUS

-----------------------------------------------------------------------------
(* Guards.  Each guard but the outermost has saved a register in which the *)
(* subnormals were flushed already, the outermost the thread's own bits.   *)

Flush == Fpu!FlushBits(target_arch)

Outermost(bits) == bits \cap Fpu!CONTROL_BITS = own

GuardStack ==
  /\ scopes \in Seq(Guards)
  /\ Distinct(scopes)
  /\ scopes = <<>> => Outermost(register)
  /\ scopes # <<>> => Flush \subseteq register /\ Outermost(old[scopes[1]])
  /\ \A i \in 2 .. Len(scopes) : Flush \subseteq old[scopes[i]]

GuardInv ==
  /\ DOMAIN old = Guards
  /\ Flush = {} => Outermost(register)
  /\ ~misnested => GuardStack

-----------------------------------------------------------------------------
(* Provisioners.  Each grant's provisioner has saved what the thread ran   *)
(* with under the grant before it, a real-time schedule.  That is why only *)
(* a real-time schedule can be refused to a Drop, and why the thread then  *)
(* stays below what it was refused.                                        *)

Schedules == {Thread!Ordinary} \cup {Thread!FIFO(k) : k \in Int}

Saved(p) == prov[p].original_linux_schedule

Honest(i) ==
  /\ Thread!Beneath(i).policy = "SCHED_FIFO"
  /\ prov[grants[i]].strategy = "Direct" =>
       /\ prov[grants[i]].granted_prio \in Int
       /\ Thread!Kept(Thread!Beneath(i), Thread!FIFO(prov[grants[i]].granted_prio))

Lowest == IF grants = <<>> THEN schedule ELSE Saved(grants[1])

GrantStack ==
  /\ grants \in Seq(Provisioners)
  /\ Distinct(grants)
  /\ \A p \in Provisioners : Saved(p) # Thread!Unset <=> Thread!HoldsGrant(p)
  /\ \A p \in Provisioners : prov[p].strategy = "Direct" => Thread!HoldsGrant(p)
  /\ grants # <<>> => target_os = "linux"
  /\ target_os = "linux" => Thread!Kept(Lowest, base)
  /\ \A i \in 1 .. Len(grants) : Honest(i)

ProvisionerInv ==
  /\ DOMAIN prov = Provisioners
  /\ schedule # Thread!Unset
  /\ target_os = "linux" =>
       /\ schedule \in Schedules /\ base \in Schedules
       /\ \A p \in Provisioners : Saved(p) \in Schedules \cup {Thread!Unset}
  /\ ~tangled => GrantStack

TInv == GuardInv /\ ProvisionerInv

-----------------------------------------------------------------------------
(* The guards' steps                                                       *)

LEMMA FlushFacts ==
  /\ Flush \subseteq Fpu!CONTROL_BITS
  /\ Fpu!FLAG \notin Fpu!CONTROL_BITS
  /\ target_arch = "x86_64" => Flush # {}
BY DEF Flush, Fpu!FlushBits, Fpu!CONTROL_BITS, Fpu!MXCSR_BITS, Fpu!FPCR_BITS, Fpu!FLAG

LEMMA GuardInit == Fpu!Init => GuardInv
<1> SUFFICES ASSUME Fpu!Init PROVE GuardInv
  OBVIOUS
<1>1. Outermost(register)
  BY FlushFacts DEF Fpu!Init, Outermost, Flush
<1>2. scopes = <<>> /\ DOMAIN old = Guards
  BY DEF Fpu!Init
<1>3. scopes \in Seq(Guards) /\ Len(scopes) = 0
  BY <1>2
<1> QED BY <1>1, <1>2, <1>3 DEF GuardInv, GuardStack, Distinct

LEMMA GuardNew ==
  ASSUME GuardInv, NEW g \in Guards, Fpu!new(g)
  PROVE  GuardInv'
<1>1. /\ ~Fpu!Exists(g)
      /\ old' = [old EXCEPT ![g] = register]
      /\ register' = register \cup Flush
      /\ scopes' = Append(scopes, g)
      /\ UNCHANGED <<target_arch, own, misnested, Flush>>
  BY DEF Fpu!new, Flush
<1>2. DOMAIN old' = Guards
  BY <1>1 DEF GuardInv
<1>3. Flush' = {} => Outermost(register)'
  BY <1>1 DEF GuardInv, Outermost
<1>4. ASSUME ~misnested PROVE GuardStack'
  <2>1. GuardStack
    BY <1>4 DEF GuardInv
  <2>2. /\ scopes' \in Seq(Guards) /\ Len(scopes') = Len(scopes) + 1 /\ Len(scopes) \in Nat
        /\ \A k \in 1 .. Len(scopes') : scopes'[k] = IF k = Len(scopes') THEN g ELSE scopes[k]
    BY <1>1, <2>1, Appended DEF GuardStack
  <2>3. \A k \in 1 .. Len(scopes) : scopes[k] \in Guards /\ scopes[k] # g
    <3>1. \A k \in 1 .. Len(scopes) : scopes[k] \in Guards /\ k \in DOMAIN scopes
      BY <2>1 DEF GuardStack
    <3> QED BY <1>1, <3>1 DEF Fpu!Exists
  <2>4. \A k \in 1 .. Len(scopes') :
          old'[scopes'[k]] = IF k = Len(scopes') THEN register ELSE old[scopes[k]]
    BY <1>1, <2>2, <2>3 DEF GuardInv
  <2>5. Distinct(scopes')
    BY <2>1, <2>2, <2>3 DEF GuardStack, Distinct
  <2>6. scopes' # <<>> /\ Flush' \subseteq register'
    BY <1>1, <2>2
  <2>7. Outermost(old[scopes[1]])'
    <3>1. CASE Len(scopes) = 0
      <4>1. scopes = <<>>
        BY <2>1, <3>1, EmptySeq DEF GuardStack
      <4> QED BY <1>1, <2>1, <2>2, <2>4, <3>1, <4>1 DEF GuardStack, Outermost
    <3>2. CASE Len(scopes) # 0
      <4>1. scopes # <<>> /\ 1 \in 1 .. Len(scopes') /\ 1 # Len(scopes')
        BY <2>2, <3>2
      <4> QED BY <1>1, <2>1, <2>4, <4>1 DEF GuardStack, Outermost
    <3> QED BY <3>1, <3>2
  <2>8. ASSUME NEW i \in 2 .. Len(scopes') PROVE Flush \subseteq old'[scopes'[i]]
    <3>1. i \in 1 .. Len(scopes') /\ Len(scopes) # 0
      BY <2>2
    <3>2. CASE i = Len(scopes')
      BY <2>1, <2>4, <3>1, <3>2 DEF GuardStack
    <3>3. CASE i # Len(scopes')
      <4>1. i \in 2 .. Len(scopes)
        BY <2>2, <3>3
      <4> QED BY <2>1, <2>4, <3>1, <3>3, <4>1 DEF GuardStack
    <3> QED BY <3>2, <3>3
  <2> QED BY <1>1, <2>2, <2>5, <2>6, <2>7, <2>8 DEF GuardStack
<1> QED BY <1>1, <1>2, <1>3, <1>4 DEF GuardInv

LEMMA GuardDrop ==
  ASSUME GuardInv, NEW g \in Guards, Fpu!Drop(g)
  PROVE  GuardInv'
<1>1. PICK i \in DOMAIN scopes :
        /\ scopes[i] = g
        /\ register' = IF Flush = {} THEN register ELSE old[g]
        /\ old' = [old EXCEPT ![g] = {}]
        /\ scopes' = Removed(scopes, i)
        /\ misnested' = (misnested \/ i # Len(scopes))
        /\ UNCHANGED <<target_arch, own, Flush>>
  BY DEF Fpu!Drop, Fpu!Restored, Flush, Removed
<1>2. DOMAIN old' = Guards
  BY <1>1 DEF GuardInv
<1>3. Flush' = {} => Outermost(register)'
  BY <1>1 DEF GuardInv, Outermost
<1>4. ASSUME ~misnested' PROVE GuardStack'
  <2>1. GuardStack /\ i = Len(scopes) /\ scopes # <<>>
    <3>1. scopes \in Seq(Guards) => scopes # <<>>
      BY <1>1
    <3> QED BY <1>1, <1>4, <3>1 DEF GuardInv, GuardStack
  <2>2. /\ scopes' \in Seq(Guards) /\ Len(scopes') = Len(scopes) - 1
        /\ \A k \in 1 .. Len(scopes') : scopes'[k] = scopes[k]
        /\ Len(scopes) \in Nat /\ Len(scopes) >= 1
    BY <1>1, <2>1, LastRemoved, EmptySeq DEF GuardStack
  <2>3. Distinct(scopes')
    BY <2>1, <2>2 DEF GuardStack, Distinct
  <2>4. \A k \in 1 .. Len(scopes') : scopes[k] \in Guards /\ old'[scopes'[k]] = old[scopes[k]]
    <3>1. \A k \in 1 .. Len(scopes) : scopes[k] \in Guards
      BY <2>1 DEF GuardStack
    <3>2. \A k \in 1 .. Len(scopes') : scopes[k] # g
      BY <1>1, <2>1, <2>2 DEF GuardStack, Distinct
    <3> QED BY <1>1, <2>2, <3>1, <3>2 DEF GuardInv
  <2>5. CASE Len(scopes) = 1
    <3>1. scopes' = <<>> /\ Len(scopes') = 0
      BY <2>2, <2>5, EmptySeq
    <3>2. Outermost(register)'
      BY <1>1, <1>3, <2>1, <2>5 DEF GuardStack, Outermost
    <3>3. \A k \in 2 .. Len(scopes') : Flush' \subseteq old'[scopes'[k]]
      BY <3>1
    <3>4. /\ scopes' = <<>> => Outermost(register)'
          /\ scopes' # <<>> => (Flush \subseteq register /\ Outermost(old[scopes[1]]))'
      BY <3>1, <3>2
    <3> QED BY <2>2, <2>3, <3>3, <3>4 DEF GuardStack
  <2>6. CASE Len(scopes) # 1
    <3>1. i \in 2 .. Len(scopes) /\ 1 \in 1 .. Len(scopes') /\ scopes' # <<>>
      BY <2>1, <2>2, <2>6
    <3>2. Flush \subseteq register'
      BY <1>1, <2>1, <3>1 DEF GuardStack
    <3>3. Outermost(old[scopes[1]])'
      BY <1>1, <2>1, <2>4, <3>1 DEF GuardStack, Outermost
    <3>4. ASSUME NEW k \in 2 .. Len(scopes') PROVE Flush \subseteq old'[scopes'[k]]
      <4>1. k \in 1 .. Len(scopes') /\ k \in 2 .. Len(scopes)
        BY <2>2
      <4> QED BY <2>1, <2>4, <4>1 DEF GuardStack
    <3> QED BY <1>1, <2>2, <2>3, <3>1, <3>2, <3>3, <3>4 DEF GuardStack
  <2> QED BY <2>5, <2>6
<1> QED BY <1>1, <1>2, <1>3, <1>4 DEF GuardInv

LEMMA GuardArithmetic ==
  ASSUME GuardInv, Fpu!Arithmetic
  PROVE  GuardInv'
<1>1. /\ target_arch = "x86_64"
      /\ register' = register \cup {Fpu!FLAG}
      /\ UNCHANGED <<target_arch, old, scopes, own, misnested, Flush>>
  BY DEF Fpu!Arithmetic, Flush
<1>2. register' \cap Fpu!CONTROL_BITS = register \cap Fpu!CONTROL_BITS
  BY <1>1, FlushFacts
<1> HIDE DEF Fpu!CONTROL_BITS
<1> QED BY <1>1, <1>2 DEF GuardInv, GuardStack, Outermost

LEMMA GuardStays ==
  ASSUME GuardInv, UNCHANGED fpuVars
  PROVE  GuardInv'
BY DEF fpuVars, GuardInv, GuardStack, Outermost, Flush

-----------------------------------------------------------------------------
(* The provisioners' steps                                                 *)

LEMMA ScheduleFacts ==
  /\ Thread!Ordinary # Thread!Unset /\ Thread!QOS # Thread!Unset
  /\ \A k : Thread!FIFO(k) # Thread!Unset
BY DEF Thread!Ordinary, Thread!QOS, Thread!FIFO, Thread!Unset

\* A Drop on a thread with SCHED_FIFO: what stood for a wish before stands for it
\* still, restored or refused.
LEMMA Lowered ==
  ASSUME NEW s \in Schedules, NEW wish \in Schedules,
         schedule \in Schedules, schedule.policy = "SCHED_FIFO",
         Thread!Kept(s, wish),
         schedule' = Thread!Restore(s),
         refused' = (refused \/ ~Thread!Permitted(s))
  PROVE  \/ schedule' = wish
         \/ /\ refused'
            /\ schedule'.policy = "SCHED_FIFO" /\ wish.policy = "SCHED_FIFO"
            /\ schedule'.prio < wish.prio
<1>1. CASE Thread!Permitted(s)
  BY <1>1 DEF Thread!Kept, Thread!Restore
<1>2. CASE ~Thread!Permitted(s)
  <2>1. schedule' = schedule /\ refused'
    BY <1>2 DEF Thread!Restore
  <2>2. PICK j \in Int : schedule = Thread!FIFO(j)
    BY DEF Schedules, Thread!Ordinary
  <2>3. PICK m \in Int : s = Thread!FIFO(m)
    BY <1>2 DEF Schedules, Thread!Permitted
  <2>4. j < m
    BY <1>2, <2>2, <2>3 DEF Thread!Permitted, Thread!FIFO
  <2>5. CASE s = wish
    BY <2>1, <2>2, <2>3, <2>4, <2>5 DEF Thread!FIFO
  <2>6. CASE wish.policy = "SCHED_FIFO" /\ s.prio < wish.prio
    <3>1. PICK w \in Int : wish = Thread!FIFO(w)
      BY <2>6 DEF Schedules, Thread!Ordinary
    <3> QED BY <2>1, <2>2, <2>3, <2>4, <2>6, <3>1 DEF Thread!FIFO
  <2> QED BY <2>5, <2>6 DEF Thread!Kept
<1> QED BY <1>1, <1>2

LEMMA ProvisionerInit == Thread!Init => ProvisionerInv
<1> SUFFICES ASSUME Thread!Init PROVE ProvisionerInv
  OBVIOUS
<1>1. /\ prov = [p \in Provisioners |-> Thread!Absent]
      /\ grants = <<>> /\ base = schedule
  BY DEF Thread!Init
<1>2. schedule # Thread!Unset /\ schedule \in Schedules
  <2>1. PICK k \in OwnPriorities : schedule = IF k = 0 THEN Thread!Ordinary ELSE Thread!FIFO(k)
    BY DEF Thread!Init
  <2>2. k \in Int
    BY ThreadAssumption
  <2> QED BY <2>1, <2>2, ScheduleFacts DEF Schedules
<1>3. \A p \in Provisioners : Saved(p) = Thread!Unset /\ prov[p].strategy # "Direct"
  BY <1>1 DEF Saved, Thread!Absent, Thread!Fields, Thread!Unset
<1>4. grants \in Seq(Provisioners) /\ Len(grants) = 0
  BY <1>1
<1>5. \A p \in Provisioners : ~Thread!HoldsGrant(p)
  BY <1>4 DEF Thread!HoldsGrant
<1>6. Thread!Kept(Lowest, base)
  BY <1>1 DEF Lowest, Thread!Kept
<1>7. GrantStack
  BY <1>1, <1>3, <1>4, <1>5, <1>6 DEF GrantStack, Distinct
<1> QED BY <1>1, <1>2, <1>3, <1>7 DEF ProvisionerInv

LEMMA ProvisionerStays ==
  ASSUME ProvisionerInv,
         UNCHANGED <<target_os, schedule, prov, base, grants, tangled, refused>>
  PROVE  ProvisionerInv'
BY DEF ProvisionerInv, GrantStack, Saved, Honest, Lowest, Thread!HoldsGrant, Thread!Beneath,
       Thread!Kept

\* A provisioner changes without touching the thread or what it has saved, and
\* does not come to report Direct.
LEMMA ReportWithdrawn ==
  ASSUME ProvisionerInv, NEW p \in Provisioners, NEW fields,
         fields.strategy # "Direct",
         fields.original_linux_schedule = Saved(p) \/ (~tangled => ~Thread!HoldsGrant(p)),
         fields.original_linux_schedule = Saved(p)
           \/ fields.original_linux_schedule = Thread!Unset,
         prov' = [prov EXCEPT ![p] = fields],
         schedule' # Thread!Unset,
         schedule' = schedule \/ (target_os # "linux"),
         UNCHANGED <<target_os, base, grants, tangled, refused>>
  PROVE  ProvisionerInv'
<1>1. DOMAIN prov' = Provisioners
  BY DEF ProvisionerInv
<1>2. ASSUME ~tangled PROVE GrantStack'
  <2>1. GrantStack
    BY <1>2 DEF ProvisionerInv
  <2>2. \A r \in Provisioners : Thread!HoldsGrant(r)' <=> Thread!HoldsGrant(r)
    BY DEF Thread!HoldsGrant
  <2>3. \A r \in Provisioners : prov'[r] = IF r = p THEN fields ELSE prov[r]
    BY DEF ProvisionerInv
  <2>4. \A r \in Provisioners : Saved(r)' = Saved(r)
    <3>1. Saved(p)' = Saved(p)
      BY <1>2, <2>1, <2>3 DEF GrantStack, Saved
    <3> QED BY <2>3, <3>1 DEF Saved
  <2>5. \A k \in 1 .. Len(grants) : grants[k] \in Provisioners
    BY <2>1 DEF GrantStack
  <2>6. grants' \in Seq(Provisioners) /\ Distinct(grants')
        /\ (grants' # <<>> => target_os' = "linux")
    BY <2>1 DEF GrantStack
  <2>7. ASSUME NEW r \in Provisioners
        PROVE  /\ Saved(r)' # Thread!Unset <=> Thread!HoldsGrant(r)'
               /\ prov'[r].strategy = "Direct" => Thread!HoldsGrant(r)'
    <3>1. prov'[r].strategy = "Direct" => prov[r].strategy = "Direct"
      BY <2>3
    <3> QED BY <2>1, <2>2, <2>4, <3>1 DEF GrantStack
  <2>8. (target_os = "linux" => Thread!Kept(Lowest, base))'
    <3>1. grants # <<>> => grants[1] \in Provisioners
      BY <2>1, <2>5, EmptySeq DEF GrantStack
    <3>2. target_os = "linux" => Lowest' = Lowest
      BY <2>4, <3>1 DEF Lowest
    <3> QED BY <2>1, <3>2 DEF GrantStack, Thread!Kept
  <2>9. ASSUME NEW i \in 1 .. Len(grants) PROVE Honest(i)'
    <3>1. grants # <<>> /\ Len(grants) \in Nat /\ schedule' = schedule
      BY <2>1 DEF GrantStack
    <3>2. i # Len(grants) => i + 1 \in 1 .. Len(grants)
      BY <3>1
    <3>3. Thread!Beneath(i)' = Thread!Beneath(i)
      BY <2>4, <2>5, <3>1, <3>2 DEF Thread!Beneath, Saved
    <3>4. Honest(i) /\ grants[i] \in Provisioners
      BY <2>1, <2>5 DEF GrantStack
    <3>5. /\ prov'[grants'[i]].strategy = "Direct" => prov'[grants'[i]] = prov[grants[i]]
          /\ UNCHANGED refused
      BY <2>3, <3>4
    <3> QED BY <3>3, <3>4, <3>5 DEF Honest, Thread!Kept
  <2> QED BY <2>6, <2>7, <2>8, <2>9 DEF GrantStack
<1>3. ASSUME target_os' = "linux"
      PROVE  /\ schedule' \in Schedules /\ base' \in Schedules
             /\ \A r \in Provisioners : Saved(r)' \in Schedules \cup {Thread!Unset}
  <2>1. \A r \in Provisioners : prov'[r] = IF r = p THEN fields ELSE prov[r]
    BY DEF ProvisionerInv
  <2> QED BY <1>3, <2>1 DEF ProvisionerInv, Saved
<1> QED BY <1>1, <1>2, <1>3 DEF ProvisionerInv

LEMMA ProvisionerNew ==
  ASSUME ProvisionerInv, NEW p \in Provisioners, Thread!new(p)
  PROVE  ProvisionerInv'
<1> DEFINE fields == Thread!Fields("Unprovisioned", 0, FALSE, Thread!Unset)
<1>1. /\ prov[p] = Thread!Absent
      /\ prov' = [prov EXCEPT ![p] = fields]
      /\ UNCHANGED <<target_os, schedule, base, grants, tangled, refused>>
  BY DEF Thread!new, Thread!Alive, Thread!system
<1>2. /\ Saved(p) = Thread!Unset
      /\ fields.strategy # "Direct"
      /\ fields.original_linux_schedule = Thread!Unset
  BY <1>1 DEF Saved, Thread!Absent, Thread!Fields, Thread!Unset
<1>3. schedule' # Thread!Unset
  BY <1>1 DEF ProvisionerInv
<1> HIDE DEF fields
<1> QED BY <1>1, <1>2, <1>3, ReportWithdrawn

LEMMA ProvisionerMacos ==
  ASSUME ProvisionerInv, NEW p \in Provisioners, NEW target \in Targets,
         Thread!ProvisionMacos(p, target)
  PROVE  ProvisionerInv'
<1> DEFINE fields == Thread!Fields("MacOsPolicy", target, target < target, Thread!Unset)
<1>1. /\ prov' = [prov EXCEPT ![p] = fields]
      /\ schedule' = Thread!QOS /\ target_os = "macos"
      /\ UNCHANGED <<target_os, base, grants, tangled, refused>>
  BY DEF Thread!ProvisionMacos, Thread!Granted, Thread!system
<1>2. /\ fields.strategy # "Direct"
      /\ fields.original_linux_schedule = Thread!Unset
  BY DEF Thread!Fields
<1>3. schedule' # Thread!Unset /\ target_os # "linux"
  BY <1>1, ScheduleFacts
<1>4. ASSUME ~tangled PROVE ~Thread!HoldsGrant(p)
  <2>1. grants = <<>>
    BY <1>3, <1>4 DEF ProvisionerInv, GrantStack
  <2> QED BY <2>1 DEF Thread!HoldsGrant
<1> HIDE DEF fields
<1> QED BY <1>1, <1>2, <1>3, <1>4, ReportWithdrawn

LEMMA ProvisionerFallback ==
  ASSUME ProvisionerInv, NEW p \in Provisioners, NEW target \in Targets,
         Thread!ProvisionFallback(p, target)
  PROVE  ProvisionerInv'
<1> DEFINE fields == Thread!Fields("Fallback", 0, TRUE, Saved(p))
<1>1. /\ prov' = [prov EXCEPT ![p] = fields]
      /\ UNCHANGED <<target_os, schedule, base, grants, tangled, refused>>
  BY DEF Thread!ProvisionFallback, Thread!system, Saved
<1>2. /\ fields.strategy # "Direct"
      /\ fields.original_linux_schedule = Saved(p)
  BY DEF Thread!Fields
<1>3. schedule' # Thread!Unset
  BY <1>1 DEF ProvisionerInv
<1> HIDE DEF fields
<1> QED BY <1>1, <1>2, <1>3, ReportWithdrawn

LEMMA ProvisionerLinux ==
  ASSUME ProvisionerInv, NEW p \in Provisioners, NEW target \in Targets,
         Thread!ProvisionLinux(p, target)
  PROVE  ProvisionerInv'
<1> DEFINE prio == Thread!Clamp(target)
           fields == Thread!Fields("Direct", prio, prio < target, schedule)
<1>1. /\ prov' = [prov EXCEPT ![p] = fields]
      /\ schedule' = Thread!FIFO(prio) /\ target_os = "linux"
      /\ grants' = IF Thread!HoldsGrant(p) THEN grants ELSE Append(grants, p)
      /\ tangled' = (tangled \/ Thread!HoldsGrant(p))
      /\ UNCHANGED <<target_os, base, refused>>
  BY DEF Thread!ProvisionLinux, Thread!Granted, Thread!system
<1>2. /\ fields.strategy = "Direct" /\ fields.granted_prio = prio
      /\ fields.original_linux_schedule = schedule
  BY DEF Thread!Fields
<1>a. prio \in Int
  BY ThreadAssumption DEF Thread!Clamp
<1> HIDE DEF fields, prio
<1>3. DOMAIN prov' = Provisioners /\ schedule' # Thread!Unset
  BY <1>1, ScheduleFacts DEF ProvisionerInv
<1>b. /\ schedule' \in Schedules /\ base' \in Schedules
      /\ \A r \in Provisioners : Saved(r)' \in Schedules \cup {Thread!Unset}
  <2>1. \A r \in Provisioners : prov'[r] = IF r = p THEN fields ELSE prov[r]
    BY <1>1 DEF ProvisionerInv
  <2>2. schedule' \in Schedules
    BY <1>1, <1>a DEF Schedules
  <2> QED BY <1>1, <1>2, <2>1, <2>2 DEF ProvisionerInv, Saved
<1>4. ASSUME ~tangled' PROVE GrantStack'
  <2>1. GrantStack /\ ~Thread!HoldsGrant(p) /\ grants' = Append(grants, p)
    BY <1>1, <1>4 DEF ProvisionerInv
  <2>2. /\ grants' \in Seq(Provisioners) /\ Len(grants') = Len(grants) + 1 /\ Len(grants) \in Nat
        /\ \A k \in 1 .. Len(grants') : grants'[k] = IF k = Len(grants') THEN p ELSE grants[k]
    BY <2>1, Appended DEF GrantStack
  <2>3. \A k \in 1 .. Len(grants) : grants[k] \in Provisioners /\ grants[k] # p
    <3>1. \A k \in 1 .. Len(grants) : grants[k] \in Provisioners /\ k \in DOMAIN grants
      BY <2>1 DEF GrantStack
    <3> QED BY <2>1, <3>1 DEF Thread!HoldsGrant
  <2>4. \A r \in Provisioners : prov'[r] = IF r = p THEN fields ELSE prov[r]
    BY <1>1 DEF ProvisionerInv
  <2>5. Distinct(grants')
    BY <2>1, <2>2, <2>3 DEF GrantStack, Distinct
  <2>6. ASSUME NEW r \in Provisioners
        PROVE  Thread!HoldsGrant(r)' <=> r = p \/ Thread!HoldsGrant(r)
    <3>1. DOMAIN grants = 1 .. Len(grants) /\ DOMAIN grants' = 1 .. Len(grants')
      BY <2>1, <2>2 DEF GrantStack
    <3>2. Len(grants') \in 1 .. Len(grants') /\ 1 .. Len(grants) \subseteq 1 .. Len(grants')
      BY <2>2
    <3>3. ASSUME r = p PROVE Thread!HoldsGrant(r)'
      BY <2>2, <3>1, <3>2, <3>3 DEF Thread!HoldsGrant
    <3>4. ASSUME Thread!HoldsGrant(r) PROVE Thread!HoldsGrant(r)'
      <4>1. PICK i \in 1 .. Len(grants) : grants[i] = r
        BY <3>1, <3>4 DEF Thread!HoldsGrant
      <4>2. i \in 1 .. Len(grants') /\ i # Len(grants')
        BY <2>2, <4>1
      <4> QED BY <2>2, <3>1, <4>1, <4>2 DEF Thread!HoldsGrant
    <3>5. ASSUME Thread!HoldsGrant(r)' PROVE r = p \/ Thread!HoldsGrant(r)
      <4>1. PICK i \in 1 .. Len(grants') : grants'[i] = r
        BY <3>1, <3>5 DEF Thread!HoldsGrant
      <4>2. i = Len(grants') \/ i \in 1 .. Len(grants)
        BY <2>2, <4>1
      <4> QED BY <2>2, <3>1, <4>1, <4>2 DEF Thread!HoldsGrant
    <3> QED BY <3>3, <3>4, <3>5
  <2>7. ASSUME NEW r \in Provisioners
        PROVE  /\ Saved(r)' # Thread!Unset <=> Thread!HoldsGrant(r)'
               /\ prov'[r].strategy = "Direct" => Thread!HoldsGrant(r)'
    <3>1. schedule # Thread!Unset
      BY DEF ProvisionerInv
    <3>2. CASE r = p
      <4>1. prov'[r] = fields
        BY <2>4, <3>2
      <4> QED BY <1>2, <2>6, <3>1, <3>2, <4>1 DEF Saved
    <3>3. CASE r # p
      <4>1. prov'[r] = prov[r]
        BY <2>4, <3>3
      <4> QED BY <2>1, <2>6, <3>3, <4>1 DEF GrantStack, Saved
    <3> QED BY <3>2, <3>3
  <2>8. grants' # <<>> /\ Thread!Kept(Lowest, base)'
    <3>0. grants' # <<>> /\ Lowest' = prov'[grants'[1]].original_linux_schedule
      BY <2>2 DEF Lowest, Saved
    <3>1. Lowest' = Lowest
      <4>1. CASE Len(grants) = 0
        <5>1. grants = <<>> /\ grants'[1] = p
          BY <2>1, <2>2, <4>1, EmptySeq DEF GrantStack
        <5> QED BY <1>2, <2>4, <3>0, <5>1 DEF Lowest
      <4>2. CASE Len(grants) # 0
        <5>1. grants # <<>> /\ 1 \in 1 .. Len(grants') /\ 1 # Len(grants') /\ 1 \in 1 .. Len(grants)
          BY <2>2, <4>2
        <5>2. grants'[1] = grants[1] /\ prov'[grants[1]] = prov[grants[1]]
          BY <2>2, <2>3, <2>4, <5>1
        <5> QED BY <3>0, <5>1, <5>2 DEF Lowest, Saved
      <4> QED BY <4>1, <4>2
    <3> QED BY <1>1, <2>1, <3>0, <3>1 DEF GrantStack, Thread!Kept
  <2>9. ASSUME NEW i \in 1 .. Len(grants') PROVE Honest(i)'
    <3>1. CASE i = Len(grants')
      <4>1. grants'[i] = p /\ prov'[p] = fields
        BY <2>2, <2>4, <3>1
      <4>2. Thread!Beneath(i)' = Thread!FIFO(prio)
        BY <1>1, <3>1 DEF Thread!Beneath
      <4>3. Thread!FIFO(prio).policy = "SCHED_FIFO"
        BY DEF Thread!FIFO
      <4> QED BY <1>2, <1>a, <4>1, <4>2, <4>3 DEF Honest, Thread!Kept
    <3>2. CASE i # Len(grants')
      <4>1. i \in 1 .. Len(grants) /\ grants'[i] = grants[i]
        BY <2>2, <3>2
      <4>2. prov'[grants'[i]] = prov[grants[i]]
        BY <2>3, <2>4, <4>1
      <4>3. Thread!Beneath(i)' = Thread!Beneath(i)
        <5>1. Thread!Beneath(i)' = prov'[grants'[i + 1]].original_linux_schedule
          BY <3>2 DEF Thread!Beneath
        <5>2. CASE i = Len(grants)
          <6>1. i + 1 = Len(grants') /\ i + 1 \in 1 .. Len(grants')
            BY <2>2, <5>2
          <6> QED BY <1>2, <2>2, <2>4, <5>1, <5>2, <6>1 DEF Thread!Beneath
        <5>3. CASE i # Len(grants)
          <6>1. i + 1 \in 1 .. Len(grants) /\ i + 1 # Len(grants') /\ i + 1 \in 1 .. Len(grants')
            BY <2>2, <4>1, <5>3
          <6>2. prov'[grants'[i + 1]] = prov[grants[i + 1]]
            BY <2>2, <2>3, <2>4, <6>1
          <6> QED BY <5>1, <5>3, <6>2 DEF Thread!Beneath
        <5> QED BY <5>2, <5>3
      <4>4. Honest(i) /\ UNCHANGED refused
        BY <1>1, <2>1, <4>1 DEF GrantStack
      <4> QED BY <4>2, <4>3, <4>4 DEF Honest, Thread!Kept
    <3> QED BY <3>1, <3>2
  <2> QED BY <1>1, <2>2, <2>5, <2>7, <2>8, <2>9 DEF GrantStack
<1> QED BY <1>3, <1>b, <1>4 DEF ProvisionerInv

LEMMA ProvisionerDrop ==
  ASSUME ProvisionerInv, NEW p \in Provisioners, Thread!Drop(p)
  PROVE  ProvisionerInv'
<1>1. prov' = [prov EXCEPT ![p] = Thread!Absent] /\ UNCHANGED <<target_os, base>>
  BY DEF Thread!Drop, Thread!system
<1>2. Thread!Absent.strategy # "Direct" /\ Thread!Absent.original_linux_schedule = Thread!Unset
  BY DEF Thread!Absent, Thread!Fields, Thread!Unset
<1>3. CASE Saved(p) = Thread!Unset
  <2>1. UNCHANGED <<schedule, grants, tangled, refused>>
    BY <1>3 DEF Thread!Drop, Saved
  <2>2. schedule' # Thread!Unset
    BY <2>1 DEF ProvisionerInv
  <2> QED BY <1>1, <1>2, <1>3, <2>1, <2>2, ReportWithdrawn
<1>4. CASE Saved(p) # Thread!Unset
  <2>1. PICK i \in DOMAIN grants :
          /\ grants[i] = p
          /\ schedule' = Thread!Restore(Saved(p))
          /\ grants' = Removed(grants, i)
          /\ tangled' = (tangled \/ i # Len(grants))
          /\ refused' = (refused \/ ~Thread!Permitted(Saved(p)))
    BY <1>4 DEF Thread!Drop, Saved, Removed
  <2>2. DOMAIN prov' = Provisioners /\ schedule' # Thread!Unset
    BY <1>1, <1>4, <2>1 DEF ProvisionerInv, Thread!Restore
  <2>a. ASSUME target_os' = "linux"
        PROVE  /\ schedule' \in Schedules /\ base' \in Schedules
               /\ \A r \in Provisioners : Saved(r)' \in Schedules \cup {Thread!Unset}
    <3>1. \A r \in Provisioners : prov'[r] = IF r = p THEN Thread!Absent ELSE prov[r]
      BY <1>1 DEF ProvisionerInv
    <3>2. schedule' \in Schedules
      BY <1>1, <1>4, <2>1, <2>a DEF ProvisionerInv, Thread!Restore
    <3> QED BY <1>1, <1>2, <2>a, <3>1, <3>2 DEF ProvisionerInv, Saved
  <2>3. ASSUME ~tangled' PROVE GrantStack'
    <3>1. GrantStack /\ i = Len(grants) /\ target_os = "linux" /\ grants # <<>>
      <4>1. grants # <<>>
        BY <2>1
      <4> QED BY <2>1, <2>3, <4>1 DEF ProvisionerInv, GrantStack
    <3>a. /\ Saved(p) \in Schedules /\ base \in Schedules /\ schedule \in Schedules
          /\ schedule.policy = "SCHED_FIFO"
      <4>1. Honest(i)
        BY <2>1, <3>1 DEF GrantStack
      <4> QED BY <1>4, <3>1, <4>1 DEF ProvisionerInv, Honest, Thread!Beneath
    <3>2. /\ grants' \in Seq(Provisioners) /\ Len(grants') = Len(grants) - 1
          /\ \A k \in 1 .. Len(grants') : grants'[k] = grants[k]
          /\ Len(grants) \in Nat /\ Len(grants) >= 1
      BY <2>1, <3>1, LastRemoved, EmptySeq DEF GrantStack
    <3>3. Distinct(grants')
      BY <3>1, <3>2 DEF GrantStack, Distinct
    <3>4. \A r \in Provisioners : prov'[r] = IF r = p THEN Thread!Absent ELSE prov[r]
      BY <1>1 DEF ProvisionerInv
    <3>5. \A k \in 1 .. Len(grants') : grants[k] \in Provisioners /\ grants[k] # p
                                       /\ prov'[grants'[k]] = prov[grants[k]]
      <4>1. \A k \in 1 .. Len(grants) : grants[k] \in Provisioners
        BY <3>1 DEF GrantStack
      <4>2. \A k \in 1 .. Len(grants') : grants[k] # p
        BY <2>1, <3>1, <3>2 DEF GrantStack, Distinct
      <4> QED BY <3>2, <3>4, <4>1, <4>2
    <3>6. ASSUME NEW r \in Provisioners
          PROVE  Thread!HoldsGrant(r)' <=> r # p /\ Thread!HoldsGrant(r)
      <4>1. DOMAIN grants = 1 .. Len(grants) /\ DOMAIN grants' = 1 .. Len(grants')
        BY <3>1, <3>2 DEF GrantStack
      <4>2. ASSUME r # p, Thread!HoldsGrant(r) PROVE Thread!HoldsGrant(r)'
        <5>1. PICK k \in 1 .. Len(grants) : grants[k] = r
          BY <4>1, <4>2 DEF Thread!HoldsGrant
        <5>2. k \in 1 .. Len(grants')
          BY <2>1, <3>1, <3>2, <4>2, <5>1
        <5> QED BY <3>2, <4>1, <5>1, <5>2 DEF Thread!HoldsGrant
      <4>3. ASSUME Thread!HoldsGrant(r)' PROVE r # p /\ Thread!HoldsGrant(r)
        <5>1. PICK k \in 1 .. Len(grants') : grants'[k] = r
          BY <4>1, <4>3 DEF Thread!HoldsGrant
        <5>2. k \in 1 .. Len(grants)
          BY <3>2, <5>1
        <5> QED BY <3>2, <3>5, <4>1, <5>1, <5>2 DEF Thread!HoldsGrant
      <4> QED BY <4>2, <4>3
    <3>7. ASSUME NEW r \in Provisioners
          PROVE  /\ Saved(r)' # Thread!Unset <=> Thread!HoldsGrant(r)'
                 /\ prov'[r].strategy = "Direct" => Thread!HoldsGrant(r)'
      <4>1. CASE r = p
        <5>1. prov'[r] = Thread!Absent
          BY <3>4, <4>1
        <5> QED BY <1>2, <3>6, <4>1, <5>1 DEF Saved
      <4>2. CASE r # p
        <5>1. prov'[r] = prov[r]
          BY <3>4, <4>2
        <5> QED BY <3>1, <3>6, <4>2, <5>1 DEF GrantStack, Saved
      <4> QED BY <4>1, <4>2
    <3>8. Thread!Kept(Lowest, base)'
      <4>1. CASE Len(grants) = 1
        <5>1. grants' = <<>>
          BY <3>2, <4>1, EmptySeq
        <5>2. grants[1] = p
          BY <2>1, <3>1, <4>1
        <5>3. Thread!Kept(Saved(p), base) /\ Lowest' = schedule'
          BY <3>1, <5>1, <5>2 DEF GrantStack, Lowest
        <5>4. \/ schedule' = base
              \/ /\ refused'
                 /\ schedule'.policy = "SCHED_FIFO" /\ base.policy = "SCHED_FIFO"
                 /\ schedule'.prio < base.prio
          BY <2>1, <3>a, <5>3, Lowered
        <5> QED BY <1>1, <5>3, <5>4 DEF Thread!Kept
      <4>2. CASE Len(grants) # 1
        <5>1. 1 \in 1 .. Len(grants') /\ grants' # <<>>
          BY <3>2, <4>2
        <5>2. prov'[grants'[1]] = prov[grants[1]]
          BY <3>5, <5>1
        <5>3. Lowest' = Lowest /\ (refused => refused')
          BY <2>1, <3>1, <5>1, <5>2 DEF Lowest, Saved
        <5> QED BY <1>1, <3>1, <5>3 DEF GrantStack, Thread!Kept
      <4> QED BY <4>1, <4>2
    <3>9. ASSUME NEW k \in 1 .. Len(grants') PROVE Honest(k)'
      <4>1. k \in 1 .. Len(grants) /\ k # Len(grants)
        BY <3>2
      <4>2. Thread!Beneath(k) = prov[grants[k + 1]].original_linux_schedule
        BY <4>1 DEF Thread!Beneath
      <4>3. Honest(k) /\ prov'[grants'[k]] = prov[grants[k]] /\ (refused => refused')
        BY <2>1, <3>1, <3>5, <4>1 DEF GrantStack
      <4>4. CASE k = Len(grants')
        <5>1. Thread!Beneath(k) = Saved(p) /\ Thread!Beneath(k)' = schedule'
          <6>1. k + 1 = i
            BY <3>1, <3>2, <4>4
          <6> QED BY <2>1, <4>2, <4>4, <6>1 DEF Thread!Beneath, Saved
        <5>2. schedule'.policy = "SCHED_FIFO"
          BY <2>1, <3>a, <4>3, <5>1 DEF Honest, Thread!Restore
        <5>3. ASSUME prov[grants[k]].strategy = "Direct"
              PROVE  Thread!Kept(Thread!Beneath(k), Thread!FIFO(prov[grants[k]].granted_prio))'
          <6> DEFINE wish == Thread!FIFO(prov[grants[k]].granted_prio)
          <6>1. wish \in Schedules /\ Thread!Kept(Saved(p), wish)
            BY <4>3, <5>1, <5>3 DEF Honest, Schedules
          <6>2. wish' = wish
            BY <4>3
          <6> HIDE DEF wish
          <6>3. \/ schedule' = wish
                \/ /\ refused'
                   /\ schedule'.policy = "SCHED_FIFO" /\ wish.policy = "SCHED_FIFO"
                   /\ schedule'.prio < wish.prio
            BY <2>1, <3>a, <6>1, Lowered
          <6>4. Thread!Kept(Thread!Beneath(k), wish)'
            BY <5>1, <6>2, <6>3 DEF Thread!Kept
          <6> QED BY <6>4 DEF wish
        <5> QED BY <4>3, <5>1, <5>2, <5>3 DEF Honest
      <4>5. CASE k # Len(grants')
        <5>1. k + 1 \in 1 .. Len(grants')
          BY <3>2, <4>5
        <5>2. Thread!Beneath(k)' = Thread!Beneath(k)
          BY <3>5, <4>2, <4>5, <5>1 DEF Thread!Beneath
        <5> QED BY <4>3, <5>2 DEF Honest, Thread!Kept
      <4> QED BY <4>4, <4>5
    <3> QED BY <1>1, <3>1, <3>2, <3>3, <3>7, <3>8, <3>9 DEF GrantStack
  <2> QED BY <2>2, <2>a, <2>3 DEF ProvisionerInv
<1> QED BY <1>3, <1>4

-----------------------------------------------------------------------------
(* Both together                                                           *)

LEMMA ThreadInitially == AudioInit => TInv
BY GuardInit, ProvisionerInit DEF AudioInit, TInv

LEMMA ThreadInductive == TInv /\ [AudioNext]_audioVars => TInv'
<1> SUFFICES ASSUME TInv, [AudioNext]_audioVars PROVE TInv'
  OBVIOUS
<1>1. CASE Thread!Next /\ UNCHANGED fpuVars
  <2>1. GuardInv'
    BY <1>1, GuardStays DEF TInv
  <2>2. CASE Thread!LosePrivilege
    BY <2>1, <2>2, ProvisionerStays DEF TInv, Thread!LosePrivilege, Thread!system
  <2>3. ASSUME NEW p \in Provisioners, Thread!new(p) PROVE TInv'
    BY <2>1, <2>3, ProvisionerNew DEF TInv
  <2>4. ASSUME NEW p \in Provisioners, Thread!Drop(p) PROVE TInv'
    BY <2>1, <2>4, ProvisionerDrop DEF TInv
  <2>5. ASSUME NEW p \in Provisioners, NEW t \in Targets, Thread!ProvisionLinux(p, t) PROVE TInv'
    BY <2>1, <2>5, ProvisionerLinux DEF TInv
  <2>6. ASSUME NEW p \in Provisioners, NEW t \in Targets, Thread!ProvisionMacos(p, t) PROVE TInv'
    BY <2>1, <2>6, ProvisionerMacos DEF TInv
  <2>7. ASSUME NEW p \in Provisioners, NEW t \in Targets, Thread!ProvisionFallback(p, t) PROVE TInv'
    BY <2>1, <2>7, ProvisionerFallback DEF TInv
  <2>8. ASSUME NEW p \in Provisioners, NEW t \in Targets, Thread!ProvisionRefused(p, t) PROVE TInv'
    BY <2>1, <2>8, ProvisionerStays DEF TInv, Thread!ProvisionRefused, Thread!vars, Thread!system
  <2> QED BY <1>1, <2>2, <2>3, <2>4, <2>5, <2>6, <2>7, <2>8 DEF Thread!Next
<1>2. CASE Fpu!Next /\ UNCHANGED threadVars
  <2>1. ProvisionerInv'
    BY <1>2, ProvisionerStays DEF TInv, threadVars
  <2>2. ASSUME NEW g \in Guards, Fpu!new(g) PROVE TInv'
    BY <2>1, <2>2, GuardNew DEF TInv
  <2>3. ASSUME NEW g \in Guards, Fpu!Drop(g) PROVE TInv'
    BY <2>1, <2>3, GuardDrop DEF TInv
  <2>4. CASE Fpu!Arithmetic
    BY <2>1, <2>4, GuardArithmetic DEF TInv
  <2> QED BY <1>2, <2>2, <2>3, <2>4 DEF Fpu!Next
<1>3. CASE UNCHANGED audioVars
  BY <1>3, GuardStays, ProvisionerStays DEF TInv, audioVars, threadVars
<1> QED BY <1>1, <1>2, <1>3 DEF AudioNext

LEMMA ThreadInvariance == AudioSpec => []TInv
BY ThreadInitially, ThreadInductive, PTL DEF AudioSpec

-----------------------------------------------------------------------------

(***************************************************************************)
(* On Linux, provisioners granted a priority once each and dropped in      *)
(* reverse order leave the thread with its own schedule (Drop of           *)
(* ThreadProvisioner), however many there are and whatever was asked of    *)
(* them in between; if the system refused one of them its restore, a       *)
(* real-time thread may be left with less than its own priority, and any   *)
(* other thread still has its own schedule.                                *)
(***************************************************************************)
THEOREM OwnScheduleComesBack == AudioSpec => []ScheduleRestored
<1>1. TInv => ScheduleRestored
  BY DEF TInv, ProvisionerInv, GrantStack, Lowest, ScheduleRestored, Thread!ScheduleRestored
<1> QED BY <1>1, ThreadInvariance, PTL

(***************************************************************************)
(* The strategy and the priority a provisioner reports are true: who       *)
(* reports Direct holds a grant, and the thread runs with the priority it  *)
(* reports or will again when the later grants are given back; with less   *)
(* only if the system refused to give one of them back.                    *)
(***************************************************************************)
THEOREM ReportsAreHonest == AudioSpec => []ReportHonest
<1>1. ASSUME TInv PROVE ReportHonest
  <2>1. SUFFICES ASSUME ~tangled, NEW p \in Provisioners, prov[p].strategy = "Direct"
                 PROVE  \E i \in DOMAIN grants :
                          grants[i] = p /\ Thread!Kept(Thread!Beneath(i), Thread!FIFO(prov[p].granted_prio))
    BY DEF ReportHonest, Thread!ReportHonest
  <2>2. GrantStack
    BY <1>1, <2>1 DEF TInv, ProvisionerInv
  <2>3. PICK i \in DOMAIN grants : grants[i] = p
    BY <2>1, <2>2 DEF GrantStack, Thread!HoldsGrant
  <2>4. i \in 1 .. Len(grants)
    BY <2>2, <2>3 DEF GrantStack
  <2>5. Honest(i)
    BY <2>2, <2>4 DEF GrantStack
  <2> QED BY <2>1, <2>3, <2>5 DEF Honest
<1> QED BY <1>1, ThreadInvariance, PTL

(***************************************************************************)
(* Guards dropped in reverse order give back exactly the control bits that *)
(* were set before the first one (Drop of FpuGuard), at any nesting depth. *)
(***************************************************************************)
THEOREM OwnBitsComeBack == AudioSpec => []RegisterRestored
<1>1. TInv => RegisterRestored
  BY DEF TInv, GuardInv, GuardStack, Outermost, RegisterRestored, Fpu!RegisterRestored
<1> QED BY <1>1, ThreadInvariance, PTL

(***************************************************************************)
(* Subnormals are flushed within every guard, however many inner guards    *)
(* have come and gone.                                                     *)
(***************************************************************************)
THEOREM FlushedInsideGuards == AudioSpec => []SubnormalsFlushed
<1>1. TInv => SubnormalsFlushed
  BY DEF TInv, GuardInv, GuardStack, Flush, SubnormalsFlushed, Fpu!SubnormalsFlushed
<1> QED BY <1>1, ThreadInvariance, PTL

-----------------------------------------------------------------------------
(* Words                                                                   *)

LEMMA ModulusPositive == CounterModulus \in Nat /\ CounterModulus >= 1
BY ProbeAssumption

\* A sum is reduced by some number of wraparounds.
LEMMA PlusWraps ==
  ASSUME NEW c \in Int, NEW d \in Int
  PROVE  /\ Plus(c, d) \in 0 .. (CounterModulus - 1)
         /\ \E j \in Int : Plus(c, d) = c + d - j * CounterModulus
<1> USE ModulusPositive
<1> DEFINE a == c + d
           j == a \div CounterModulus
           r == a % CounterModulus
<1>1. a \in Int
  OBVIOUS
<1> HIDE DEF a
<1>2. /\ j \in Int /\ r \in 0 .. (CounterModulus - 1)
      /\ a = CounterModulus * j + r
  BY <1>1
<1> HIDE DEF j, r
<1>3. r = a - j * CounterModulus
  BY <1>1, <1>2
<1>4. Plus(c, d) = r
  BY DEF Plus, a, r
<1> QED BY <1>2, <1>3, <1>4 DEF a

\* A word is the remainder of all the integers it stands for.
LEMMA WordOf ==
  ASSUME NEW w \in 0 .. (CounterModulus - 1), NEW k \in Int,
         NEW c \in Int, NEW d \in Int, c + d = w + k * CounterModulus
  PROVE  Plus(c, d) = w
<1> USE ModulusPositive
<1>1. PICK j \in Int : Plus(c, d) = c + d - j * CounterModulus
  BY PlusWraps
<1> DEFINE r == Plus(c, d)
<1>2. r \in 0 .. (CounterModulus - 1)
  BY PlusWraps
<1>3. r - w = k * CounterModulus - j * CounterModulus
  BY <1>1
<1> HIDE DEF r
<1>4. r - w = CounterModulus * (k - j)
  BY <1>1, <1>2, <1>3
<1>5. ~(k - j >= 1)
  <2>1. k - j >= 1 => CounterModulus * (k - j) >= CounterModulus
    BY <1>1
  <2> QED BY <1>2, <1>4, <2>1
<1>6. ~(k - j <= -1)
  <2>1. k - j <= -1 => CounterModulus * (k - j) <= -CounterModulus
    BY <1>1
  <2> QED BY <1>2, <1>4, <2>1
<1>7. k - j = 0
  BY <1>1, <1>5, <1>6
<1> QED BY <1>2, <1>4, <1>7 DEF r

\* A sum that is in range is not reduced.
LEMMA NoWrap ==
  ASSUME NEW c \in Int, NEW d \in Int, c + d \in 0 .. (CounterModulus - 1)
  PROVE  Plus(c, d) = c + d
<1>1. c + d = (c + d) + 0 * CounterModulus
  BY ModulusPositive
<1> QED BY <1>1, WordOf

-----------------------------------------------------------------------------
(* How many of the running calls came in by one of some paths              *)

Paths == {"direct", "nested", "outermost"}

Frame == [path : Paths, id : NodeIds]

Marked(s, P) == {i \in 1 .. Len(s) : s[i].path \in P}

LEMMA MarkedFinite ==
  ASSUME NEW s \in Seq(Frame), NEW P
  PROVE  /\ IsFiniteSet(Marked(s, P))
         /\ Cardinality(Marked(s, P)) \in 0 .. Len(s)
<1>1. Len(s) \in Nat /\ Marked(s, P) \in SUBSET (1 .. Len(s))
  BY DEF Marked
<1>2. IsFiniteSet(1 .. Len(s)) /\ Cardinality(1 .. Len(s)) = Len(s)
  <2>1. IsFiniteSet(1 .. Len(s)) /\ Cardinality(1 .. Len(s)) = IF 1 > Len(s) THEN 0 ELSE Len(s) - 1 + 1
    BY <1>1, FS_Interval
  <2> QED BY <1>1, <2>1
<1>3. IsFiniteSet(Marked(s, P)) /\ Cardinality(Marked(s, P)) <= Len(s)
  BY <1>1, <1>2, FS_Subset
<1> QED BY <1>1, <1>3, FS_CardinalityType

LEMMA MarkedEntered ==
  ASSUME NEW s \in Seq(Frame), NEW e \in Frame, NEW P
  PROVE  Cardinality(Marked(Append(s, e), P))
           = Cardinality(Marked(s, P)) + (IF e.path \in P THEN 1 ELSE 0)
<1> DEFINE t == Append(s, e)
<1>1. /\ Len(s) \in Nat /\ Len(t) = Len(s) + 1
      /\ \A k \in 1 .. Len(s) : t[k] = s[k]
      /\ t[Len(s) + 1] = e
  OBVIOUS
<1> HIDE DEF t
<1>2. Len(s) + 1 \notin Marked(s, P)
  BY <1>1 DEF Marked
<1>3. 1 .. Len(t) = (1 .. Len(s)) \cup {Len(s) + 1}
  BY <1>1
<1>4. CASE e.path \in P
  <2>1. Marked(t, P) = Marked(s, P) \cup {Len(s) + 1}
    BY <1>1, <1>3, <1>4 DEF Marked
  <2>2. IsFiniteSet(Marked(s, P))
    BY MarkedFinite
  <2>3. Cardinality(Marked(t, P)) = Cardinality(Marked(s, P)) + 1
    BY <1>2, <2>1, <2>2, FS_AddElement
  <2> QED BY <1>4, <2>3 DEF t
<1>5. CASE e.path \notin P
  <2>1. Marked(t, P) = Marked(s, P)
    BY <1>1, <1>3, <1>5 DEF Marked
  <2>2. Cardinality(Marked(s, P)) \in Nat
    BY MarkedFinite
  <2> QED BY <1>5, <2>1, <2>2 DEF t
<1> QED BY <1>4, <1>5

\* Dropping the last element.
LEMMA FrontOf ==
  ASSUME NEW s \in Seq(Frame), s # <<>>
  PROVE  LET t == SubSeq(s, 1, Len(s) - 1)
         IN  /\ t \in Seq(Frame)
             /\ Len(t) = Len(s) - 1
             /\ \A k \in 1 .. Len(t) : t[k] = s[k]
<1> DEFINE n == Len(s)
           t == SubSeq(s, 1, n - 1)
<1>1. n \in Nat /\ n >= 1
  BY EmptySeq
<1>2. \A k \in 1 .. (n - 1) : s[k] \in Frame
  OBVIOUS
<1> HIDE DEF n
<1>3. n - 1 \in Int /\ 1 \in Int
  BY <1>1
<1>4. /\ t \in Seq(Frame)
      /\ Len(t) = IF 1 <= n - 1 THEN (n - 1) - 1 + 1 ELSE 0
      /\ \A k \in 1 .. ((n - 1) - 1 + 1) : t[k] = s[1 + k - 1]
  BY <1>2, <1>3, SubSeqProperties
<1> HIDE DEF t
<1>5. Len(t) = n - 1 /\ (n - 1) - 1 + 1 = n - 1
  BY <1>1, <1>4
<1>6. ASSUME NEW k \in 1 .. Len(t) PROVE t[k] = s[k]
  <2>1. 1 + k - 1 = k
    BY <1>1, <1>5
  <2> QED BY <1>4, <1>5, <2>1
<1> QED BY <1>4, <1>5, <1>6 DEF t, n

LEMMA MarkedLeft ==
  ASSUME NEW s \in Seq(Frame), s # <<>>, NEW P
  PROVE  Cardinality(Marked(SubSeq(s, 1, Len(s) - 1), P))
           = Cardinality(Marked(s, P)) - (IF s[Len(s)].path \in P THEN 1 ELSE 0)
<1> DEFINE t == SubSeq(s, 1, Len(s) - 1)
<1>1. /\ Len(t) = Len(s) - 1
      /\ \A k \in 1 .. Len(t) : t[k] = s[k]
  BY FrontOf
<1>2. Len(s) \in Nat /\ Len(s) >= 1
  BY EmptySeq
<1> HIDE DEF t
<1>3. 1 .. Len(t) = (1 .. Len(s)) \ {Len(s)}
  BY <1>1, <1>2
<1>4. Marked(t, P) = Marked(s, P) \ {Len(s)}
  BY <1>1, <1>3 DEF Marked
<1>5. Len(s) \in Marked(s, P) <=> s[Len(s)].path \in P
  BY <1>2 DEF Marked
<1>6. IsFiniteSet(Marked(s, P)) /\ Cardinality(Marked(s, P)) \in Nat
  BY MarkedFinite
<1>7. Cardinality(Marked(t, P)) = IF Len(s) \in Marked(s, P)
                                  THEN Cardinality(Marked(s, P)) - 1
                                  ELSE Cardinality(Marked(s, P))
  BY <1>4, <1>6, FS_RemoveElement
<1> QED BY <1>5, <1>6, <1>7 DEF t

-----------------------------------------------------------------------------
(* The inductive invariant                                                 *)

Words == 0 .. (CounterModulus - 1)

TypeOK ==
  /\ frames \in Seq(Frame) /\ Len(frames) <= MaxDepth
  /\ q \in Seq(NodeIds) /\ dropped \in Seq(NodeIds)
  /\ alive => dropped = <<>>
  /\ overflow_counter \in Words /\ measured \in Words /\ delivered \in Words

Counted == Cardinality(Marked(frames, {"nested", "outermost"}))

Running == Cardinality(Marked(frames, {"outermost"}))

\* At most one of the calls is measured, and it is not inside a counted one.
Single ==
  \A i \in 1 .. Len(frames) : frames[i].path = "outermost" =>
    /\ \A j \in 1 .. (i - 1) : frames[j].path = "direct"
    /\ \A j \in (i + 1) .. Len(frames) : frames[j].path # "outermost"

Traces == Running + Len(q) + Len(dropped) + delivered + overflow_counter

\* The counters wrap around on their own, so the sum is the number of
\* measurements up to some number of wraparounds.
Balanced == \E k \in Int : Traces = measured + k * CounterModulus

PInv == TypeOK /\ nesting_depth = Counted /\ Single /\ Balanced

LEMMA Numbers ==
  ASSUME TypeOK
  PROVE  /\ Running \in Nat /\ Counted \in 0 .. Len(frames)
         /\ Len(q) \in Nat /\ Len(dropped) \in Nat /\ Len(frames) \in Nat
         /\ overflow_counter \in Int /\ measured \in Int /\ delivered \in Int
         /\ Traces \in Int
<1> USE ModulusPositive
<1>1. Running \in Nat /\ Counted \in 0 .. Len(frames)
  BY MarkedFinite DEF TypeOK, Running, Counted
<1> HIDE DEF Running, Counted
<1> QED BY <1>1 DEF TypeOK, Words, Traces

LEMMA BalanceKept ==
  ASSUME TypeOK, TypeOK', Balanced, NEW d \in Int,
         NEW j \in Int, Traces' = Traces + d - j * CounterModulus,
         NEW i \in Int, measured' = measured + d - i * CounterModulus
  PROVE  Balanced'
<1> USE ModulusPositive
<1>1. PICK k \in Int : Traces = measured + k * CounterModulus
  BY DEF Balanced
<1>2. measured \in Int /\ measured' \in Int /\ k - j + i \in Int
  BY <1>1 DEF TypeOK, Words
<1>3. Traces' = measured' + (k - j + i) * CounterModulus
  <2>1. (k - j + i) * CounterModulus
          = k * CounterModulus - j * CounterModulus + i * CounterModulus
    BY <1>1
  <2> QED BY <1>1, <1>2, <2>1
<1> QED BY <1>2, <1>3 DEF Balanced

-----------------------------------------------------------------------------
(* Entering and leaving a call                                             *)

LEMMA Entered ==
  ASSUME TypeOK, Single, NEW path \in Paths, NEW id \in NodeIds, Enter(path, id),
         path = "outermost" => Counted = 0
  PROVE  /\ frames' \in Seq(Frame) /\ Len(frames') <= MaxDepth
         /\ Len(frames) < MaxDepth
         /\ Counted' = Counted + (IF path = "direct" THEN 0 ELSE 1)
         /\ Running' = Running + (IF path = "outermost" THEN 1 ELSE 0)
         /\ Single'
<1> DEFINE e == [path |-> path, id |-> id]
<1>1. /\ frames \in Seq(Frame) /\ e \in Frame /\ e.path = path
      /\ frames' = Append(frames, e) /\ Len(frames) < MaxDepth
  BY DEF TypeOK, Enter, Frame
<1> HIDE DEF e
<1>2. /\ frames' \in Seq(Frame) /\ Len(frames') = Len(frames) + 1 /\ Len(frames) \in Nat
      /\ \A k \in 1 .. Len(frames) : frames'[k] = frames[k]
      /\ frames'[Len(frames) + 1] = e
  BY <1>1
<1>3. Len(frames') <= MaxDepth
  BY <1>1, <1>2, ProbeAssumption
<1>4. Counted' = Counted + (IF path = "direct" THEN 0 ELSE 1)
  <2>1. Counted' = Counted + (IF e.path \in {"nested", "outermost"} THEN 1 ELSE 0)
    BY <1>1, MarkedEntered DEF Counted
  <2> QED BY <1>1, <2>1 DEF Paths
<1>5. Running' = Running + (IF path = "outermost" THEN 1 ELSE 0)
  <2>1. Running' = Running + (IF e.path \in {"outermost"} THEN 1 ELSE 0)
    BY <1>1, MarkedEntered DEF Running
  <2> QED BY <1>1, <2>1
<1>6. Single'
  <2> SUFFICES ASSUME NEW i \in 1 .. Len(frames'), frames'[i].path = "outermost"
               PROVE  /\ \A j \in 1 .. (i - 1) : frames'[j].path = "direct"
                      /\ \A j \in (i + 1) .. Len(frames') : frames'[j].path # "outermost"
    BY DEF Single
  <2>1. CASE i = Len(frames')
    <3>1. path = "outermost" /\ Counted = 0
      BY <1>1, <1>2, <2>1
    <3>2. Marked(frames, {"nested", "outermost"}) = {}
      BY <1>1, <3>1, MarkedFinite, FS_EmptySet DEF Counted
    <3>3. ASSUME NEW j \in 1 .. (i - 1) PROVE frames'[j].path = "direct"
      <4>1. j \in 1 .. Len(frames) /\ frames'[j] = frames[j]
        BY <1>2, <2>1
      <4>2. frames[j].path \in Paths
        <5>1. frames[j] \in Frame
          BY <1>1, <4>1
        <5> QED BY <5>1 DEF Frame
      <4> QED BY <3>2, <4>1, <4>2 DEF Marked, Paths
    <3>4. (i + 1) .. Len(frames') = {}
      BY <1>2, <2>1
    <3> QED BY <3>3, <3>4
  <2>2. CASE i # Len(frames')
    <3>1. i \in 1 .. Len(frames) /\ frames'[i] = frames[i]
      BY <1>2, <2>2
    <3>2. /\ \A j \in 1 .. (i - 1) : frames[j].path = "direct"
          /\ \A j \in (i + 1) .. Len(frames) : frames[j].path # "outermost"
      BY <3>1 DEF Single
    <3>3. \A j \in 1 .. (i - 1) : j \in 1 .. Len(frames)
      BY <1>2, <3>1
    <3>4. path # "outermost"
      <4>1. i \in Marked(frames, {"nested", "outermost"})
        BY <3>1 DEF Marked
      <4>2. Counted # 0
        BY <1>1, <4>1, MarkedFinite, FS_EmptySet DEF Counted
      <4> QED BY <4>2
    <3>5. ASSUME NEW j \in (i + 1) .. Len(frames') PROVE frames'[j].path # "outermost"
      <4>1. j = Len(frames) + 1 \/ (j \in (i + 1) .. Len(frames) /\ j \in 1 .. Len(frames))
        BY <1>2, <3>1
      <4> QED BY <1>1, <1>2, <3>2, <3>4, <4>1
    <3> QED BY <1>2, <3>2, <3>3, <3>5
  <2> QED BY <2>1, <2>2
<1> QED BY <1>1, <1>2, <1>3, <1>4, <1>5, <1>6

LEMMA Left ==
  ASSUME TypeOK, Single, NEW path \in Paths, Returns(path)
  PROVE  /\ frames' \in Seq(Frame) /\ Len(frames') <= MaxDepth
         /\ Counted' = Counted - (IF path = "direct" THEN 0 ELSE 1)
         /\ Running' = Running - (IF path = "outermost" THEN 1 ELSE 0)
         /\ Single'
         /\ Innermost.id \in NodeIds
<1>1. /\ frames \in Seq(Frame) /\ frames # <<>>
      /\ frames' = SubSeq(frames, 1, Len(frames) - 1)
      /\ frames[Len(frames)].path = path
  BY DEF TypeOK, Returns, Innermost
<1>2. /\ frames' \in Seq(Frame) /\ Len(frames') = Len(frames) - 1
      /\ \A k \in 1 .. Len(frames') : frames'[k] = frames[k]
  BY <1>1, FrontOf
<1>3. Len(frames) \in Nat /\ Len(frames) >= 1
  BY <1>1, EmptySeq
<1>4. Len(frames') <= MaxDepth
  BY <1>2, <1>3, ProbeAssumption DEF TypeOK
<1>5. Counted' = Counted - (IF path = "direct" THEN 0 ELSE 1)
  <2>1. Counted' = Counted - (IF path \in {"nested", "outermost"} THEN 1 ELSE 0)
    BY <1>1, MarkedLeft DEF Counted
  <2> QED BY <2>1 DEF Paths
<1>6. Running' = Running - (IF path = "outermost" THEN 1 ELSE 0)
  <2>1. Running' = Running - (IF path \in {"outermost"} THEN 1 ELSE 0)
    BY <1>1, MarkedLeft DEF Running
  <2> QED BY <2>1
<1>7. Single'
  <2> SUFFICES ASSUME NEW i \in 1 .. Len(frames'), frames'[i].path = "outermost"
               PROVE  /\ \A j \in 1 .. (i - 1) : frames'[j].path = "direct"
                      /\ \A j \in (i + 1) .. Len(frames') : frames'[j].path # "outermost"
    BY DEF Single
  <2>1. i \in 1 .. Len(frames) /\ frames'[i] = frames[i]
    BY <1>2, <1>3
  <2>2. /\ \A j \in 1 .. (i - 1) : frames[j].path = "direct"
        /\ \A j \in (i + 1) .. Len(frames) : frames[j].path # "outermost"
    BY <2>1 DEF Single
  <2>3. /\ \A j \in 1 .. (i - 1) : j \in 1 .. Len(frames')
        /\ \A j \in (i + 1) .. Len(frames') : j \in 1 .. Len(frames') /\ j \in (i + 1) .. Len(frames)
    BY <1>2, <1>3, <2>1
  <2> QED BY <1>2, <2>2, <2>3
<1>8. Innermost.id \in NodeIds
  <2>1. frames[Len(frames)] \in Frame
    BY <1>1, <1>3
  <2> QED BY <2>1 DEF Innermost, Frame
<1> QED BY <1>2, <1>4, <1>5, <1>6, <1>7, <1>8

-----------------------------------------------------------------------------
(* Every step keeps the invariant                                          *)

LEMMA Initially == Init => PInv
<1> SUFFICES ASSUME Init PROVE PInv
  OBVIOUS
<1> USE ModulusPositive
<1>1. /\ q = <<>> /\ dropped = <<>> /\ frames = <<>> /\ nesting_depth = 0
      /\ overflow_counter = 0 /\ measured = 0 /\ delivered = 0
  BY DEF Init, Ring!Init
<1>2. /\ q \in Seq(NodeIds) /\ dropped \in Seq(NodeIds) /\ frames \in Seq(Frame)
      /\ Len(frames) = 0 /\ Len(q) = 0 /\ Len(dropped) = 0
  BY <1>1
<1>3. TypeOK
  BY <1>1, <1>2, ProbeAssumption DEF TypeOK, Words
<1>4. Counted = 0 /\ Running = 0
  <2>1. Marked(frames, {"nested", "outermost"}) = {} /\ Marked(frames, {"outermost"}) = {}
    BY <1>2 DEF Marked
  <2> QED BY <2>1, FS_EmptySet DEF Counted, Running
<1>5. Single
  BY <1>2 DEF Single
<1> HIDE DEF Running, Counted
<1>6. Traces = measured + 0 * CounterModulus
  BY <1>1, <1>2, <1>4 DEF Traces
<1> QED BY <1>1, <1>3, <1>4, <1>5, <1>6 DEF PInv, Balanced

\* A step that leaves the calls alone.
LEMMA CallsStay ==
  ASSUME PInv, UNCHANGED <<frames, nesting_depth>>
  PROVE  /\ nesting_depth' = Counted' /\ Running' = Running /\ Single'
         /\ frames' \in Seq(Frame) /\ Len(frames') <= MaxDepth
BY DEF PInv, TypeOK, Single, Counted, Running

\* A step that only moves records about.
LEMMA RecordsMove ==
  ASSUME PInv, UNCHANGED <<frames, nesting_depth, measured>>,
         q' \in Seq(NodeIds), dropped' \in Seq(NodeIds), alive' => dropped' = <<>>,
         overflow_counter' = overflow_counter,
         delivered' \in Words, NEW j \in Int,
         Len(q') + Len(dropped') + delivered'
           = Len(q) + Len(dropped) + delivered - j * CounterModulus
  PROVE  PInv'
<1> USE ModulusPositive
<1>1. TypeOK /\ Balanced
  BY DEF PInv
<1>2. /\ nesting_depth' = Counted' /\ Running' = Running /\ Single'
      /\ frames' \in Seq(Frame) /\ Len(frames') <= MaxDepth
  BY CallsStay
<1>3. TypeOK'
  BY <1>1, <1>2 DEF TypeOK, Words
<1> HIDE DEF Running, Counted, Single
<1>4. Traces' = Traces + 0 - j * CounterModulus
  <2>1. /\ Running \in Int /\ Len(q) \in Int /\ Len(dropped) \in Int
        /\ delivered \in Int /\ overflow_counter \in Int /\ j * CounterModulus \in Int
    BY <1>1, Numbers
  <2>2. /\ Len(q') \in Int /\ Len(dropped') \in Int /\ delivered' \in Int
    BY DEF Words
  <2> QED BY <1>2, <2>1, <2>2 DEF Traces
<1>5. measured' = measured + 0 - 0 * CounterModulus
  BY <1>1, Numbers
<1>6. Balanced'
  <2>1. 0 \in Int
    OBVIOUS
  <2> QED BY <1>1, <1>3, <1>4, <1>5, <2>1, BalanceKept
<1> QED BY <1>2, <1>3, <1>6 DEF PInv

LEMMA EnterSteps ==
  ASSUME PInv, NEW id \in NodeIds,
         EnterDisabled(id) \/ EnterNested(id) \/ EnterOutermost(id)
  PROVE  PInv'
<1> USE ModulusPositive
<1>1. TypeOK /\ Single /\ Balanced /\ nesting_depth = Counted
  BY DEF PInv
<1>2. PICK path \in Paths :
        /\ Enter(path, id)
        /\ nesting_depth' = IF path = "direct" THEN nesting_depth ELSE Plus(nesting_depth, 1)
        /\ measured' = IF path = "outermost" THEN Plus(measured, 1) ELSE measured
        /\ path = "outermost" => nesting_depth = 0
  <2>1. CASE EnterDisabled(id)
    BY <2>1 DEF EnterDisabled, Paths
  <2>2. CASE EnterNested(id)
    BY <2>2 DEF EnterNested, Paths
  <2>3. CASE EnterOutermost(id)
    BY <2>3 DEF EnterOutermost, Paths
  <2> QED BY <2>1, <2>2, <2>3
<1>3. /\ frames' \in Seq(Frame) /\ Len(frames') <= MaxDepth
      /\ Len(frames) < MaxDepth
      /\ Counted' = Counted + (IF path = "direct" THEN 0 ELSE 1)
      /\ Running' = Running + (IF path = "outermost" THEN 1 ELSE 0)
      /\ Single'
  BY <1>1, <1>2, Entered
<1>4. UNCHANGED <<q, dropped, alive, overflow_counter, delivered>>
  BY <1>2 DEF Enter, ringVars
<1>5. TypeOK'
  <2>1. measured' \in Words
    <3>1. measured \in Int /\ 1 \in Int /\ measured \in Words
      BY <1>1, Numbers DEF TypeOK
    <3>2. Plus(measured, 1) \in Words
      BY <3>1, PlusWraps DEF Words
    <3> QED BY <1>2, <3>1, <3>2
  <2> QED BY <1>1, <1>3, <1>4, <2>1 DEF TypeOK
<1> HIDE DEF Running, Counted, Single
<1>6. nesting_depth' = Counted'
  <2>1. Counted + 1 \in 0 .. (CounterModulus - 1)
    BY <1>1, <1>3, Numbers, ProbeAssumption
  <2>2. Plus(Counted, 1) = Counted + 1 /\ Counted \in Int
    BY <1>1, <2>1, NoWrap, Numbers
  <2> QED BY <1>1, <1>2, <1>3, <2>2
<1>7. Balanced'
  <2>1. CASE path = "outermost"
    <3>0. measured \in Int /\ 0 \in Int /\ 1 \in Int
      BY <1>1, Numbers
    <3>1. PICK i \in Int : Plus(measured, 1) = measured + 1 - i * CounterModulus
      BY <3>0, PlusWraps
    <3>2. measured' = measured + 1 - i * CounterModulus
      BY <1>2, <2>1, <3>1
    <3>3. Traces' = Traces + 1 - 0 * CounterModulus
      <4>1. Running' = Running + 1
        BY <1>3, <2>1
      <4>2. /\ Running \in Int /\ Len(q) \in Int /\ Len(dropped) \in Int
            /\ delivered \in Int /\ overflow_counter \in Int
        BY <1>1, Numbers
      <4>3. 0 * CounterModulus = 0
        OBVIOUS
      <4> QED BY <1>4, <4>1, <4>2, <4>3 DEF Traces
    <3> QED BY <1>1, <1>5, <3>0, <3>2, <3>3, BalanceKept
  <2>2. CASE path # "outermost"
    <3>1. measured' = measured + 0 - 0 * CounterModulus
      BY <1>1, <1>2, <2>2, Numbers
    <3>2. Traces' = Traces + 0 - 0 * CounterModulus
      <4>1. Running' = Running + 0
        BY <1>3, <2>2
      <4> QED BY <1>1, <1>4, <4>1, Numbers DEF Traces
    <3>3. 0 \in Int
      OBVIOUS
    <3> QED BY <1>1, <1>5, <3>1, <3>2, <3>3, BalanceKept
  <2> QED BY <2>1, <2>2
<1> QED BY <1>3, <1>5, <1>6, <1>7 DEF PInv

LEMMA LeaveSteps ==
  ASSUME PInv, LeaveDisabled \/ LeaveNested \/ LeaveRecorded \/ LeaveOverflow
  PROVE  PInv'
<1> USE ModulusPositive
<1>1. TypeOK /\ Single /\ Balanced /\ nesting_depth = Counted
  BY DEF PInv
<1>2. PICK path \in Paths :
        /\ Returns(path)
        /\ nesting_depth' = IF path = "direct" THEN nesting_depth ELSE Plus(nesting_depth, -1)
        /\ \/ path # "outermost" /\ UNCHANGED <<ringVars, overflow_counter>>
           \/ path = "outermost" /\ Ring!PushOk(Innermost.id) /\ UNCHANGED overflow_counter
           \/ /\ path = "outermost" /\ Ring!PushFull(Innermost.id)
              /\ overflow_counter' = Plus(overflow_counter, 1)
  <2>1. CASE LeaveDisabled
    BY <2>1 DEF LeaveDisabled, Paths
  <2>2. CASE LeaveNested
    BY <2>2 DEF LeaveNested, Paths
  <2>3. CASE LeaveRecorded
    BY <2>3 DEF LeaveRecorded, Paths
  <2>4. CASE LeaveOverflow
    BY <2>4 DEF LeaveOverflow, Paths
  <2> QED BY <2>1, <2>2, <2>3, <2>4
<1>3. /\ frames' \in Seq(Frame) /\ Len(frames') <= MaxDepth
      /\ Counted' = Counted - (IF path = "direct" THEN 0 ELSE 1)
      /\ Running' = Running - (IF path = "outermost" THEN 1 ELSE 0)
      /\ Single'
      /\ Innermost.id \in NodeIds
  BY <1>1, <1>2, Left
<1>4. UNCHANGED <<measured, delivered>>
  BY <1>2 DEF Returns
<1> DEFINE id == Innermost.id
<1> HIDE DEF id
<1>5. /\ q' \in Seq(NodeIds) /\ UNCHANGED <<dropped, alive>>
      /\ overflow_counter' \in Words
      /\ \E j \in Int : Len(q') + overflow_counter' = Len(q) + overflow_counter
                          + (IF path = "outermost" THEN 1 ELSE 0) - j * CounterModulus
  <2>0. q \in Seq(NodeIds) /\ Len(q) \in Nat /\ overflow_counter \in Int /\ id \in NodeIds
    BY <1>1, <1>3, Numbers DEF TypeOK, id
  <2>1. CASE path # "outermost" /\ UNCHANGED <<ringVars, overflow_counter>>
    <3>1. Len(q') + overflow_counter' = Len(q) + overflow_counter + 0 - 0 * CounterModulus
      BY <2>0, <2>1 DEF ringVars
    <3>2. 0 \in Int /\ (IF path = "outermost" THEN 1 ELSE 0) = 0
      BY <2>1
    <3>3. /\ UNCHANGED <<q, dropped, alive>> /\ overflow_counter' \in Words
      BY <1>1, <2>1 DEF ringVars, TypeOK
    <3> QED BY <2>0, <3>1, <3>2, <3>3
  <2>2. CASE path = "outermost" /\ Ring!PushOk(id) /\ UNCHANGED overflow_counter
    <3>1. q' = Append(q, id) /\ UNCHANGED <<dropped, alive>>
      BY <2>2 DEF Ring!PushOk
    <3>2. q' \in Seq(NodeIds) /\ Len(q') = Len(q) + 1
      BY <2>0, <3>1
    <3>3. Len(q') + overflow_counter' = Len(q) + overflow_counter + 1 - 0 * CounterModulus
      BY <2>0, <2>2, <3>2
    <3>4. 0 \in Int /\ (IF path = "outermost" THEN 1 ELSE 0) = 1
      BY <2>2
    <3>5. overflow_counter' \in Words
      BY <1>1, <2>2 DEF TypeOK
    <3> QED BY <3>1, <3>2, <3>3, <3>4, <3>5
  <2>3. CASE path = "outermost" /\ Ring!PushFull(id) /\ overflow_counter' = Plus(overflow_counter, 1)
    <3>1. UNCHANGED <<q, dropped, alive>>
      BY <2>3 DEF Ring!PushFull
    <3>a. 1 \in Int
      OBVIOUS
    <3>2. PICK j \in Int : Plus(overflow_counter, 1) = overflow_counter + 1 - j * CounterModulus
      BY <2>0, <3>a, PlusWraps
    <3>3. overflow_counter' \in Words
      BY <2>0, <2>3, <3>a, PlusWraps DEF Words
    <3>4. Len(q') + overflow_counter' = Len(q) + overflow_counter + 1 - j * CounterModulus
      BY <2>0, <2>3, <3>1, <3>2
    <3> QED BY <2>0, <2>3, <3>1, <3>3, <3>4
  <2> QED BY <1>2, <2>1, <2>2, <2>3 DEF id
<1>6. TypeOK'
  BY <1>1, <1>3, <1>4, <1>5 DEF TypeOK
<1> HIDE DEF Running, Counted, Single
<1>7. nesting_depth' = Counted'
  <2>1. CASE path = "direct"
    BY <1>1, <1>2, <1>3, <2>1, Numbers
  <2>2. CASE path # "direct"
    <3>1. Counted \in Int /\ Counted + (-1) = Counted' /\ -1 \in Int
      BY <1>1, <1>3, <2>2, Numbers
    <3>2. Counted' \in 0 .. Len(frames')
      BY <1>6, MarkedFinite DEF TypeOK, Counted
    <3>3. Len(frames') \in Nat /\ Len(frames') <= MaxDepth
      BY <1>3
    <3>4. Counted + (-1) \in 0 .. (CounterModulus - 1)
      BY <3>1, <3>2, <3>3, ProbeAssumption
    <3>5. Plus(Counted, -1) = Counted + (-1)
      BY <3>1, <3>4, NoWrap
    <3> QED BY <1>1, <1>2, <2>2, <3>1, <3>5
  <2> QED BY <2>1, <2>2
<1>8. Balanced'
  <2>1. PICK j \in Int : Len(q') + overflow_counter' = Len(q) + overflow_counter
                           + (IF path = "outermost" THEN 1 ELSE 0) - j * CounterModulus
    BY <1>5
  <2>2. Len(q') \in Nat /\ overflow_counter' \in Int
    BY <1>5 DEF Words
  <2>3. Traces' = Traces + 0 - j * CounterModulus
    <3>1. /\ Running \in Int /\ Len(q) \in Int /\ Len(dropped) \in Int
          /\ delivered \in Int /\ overflow_counter \in Int /\ j * CounterModulus \in Int
      BY <1>1, Numbers
    <3>2. CASE path = "outermost"
      <4>1. /\ Running' = Running - 1
            /\ Len(q') + overflow_counter' = Len(q) + overflow_counter + 1 - j * CounterModulus
        BY <1>3, <2>1, <3>2
      <4> QED BY <1>4, <1>5, <2>2, <3>1, <4>1 DEF Traces
    <3>3. CASE path # "outermost"
      <4>1. /\ Running' = Running - 0
            /\ Len(q') + overflow_counter' = Len(q) + overflow_counter + 0 - j * CounterModulus
        BY <1>3, <2>1, <3>3
      <4> QED BY <1>4, <1>5, <2>2, <3>1, <4>1 DEF Traces
    <3> QED BY <3>2, <3>3
  <2>4. measured' = measured + 0 - 0 * CounterModulus
    BY <1>1, <1>4, Numbers
  <2>5. 0 \in Int
    OBVIOUS
  <2> QED BY <1>1, <1>6, <2>3, <2>4, <2>5, BalanceKept
<1> QED BY <1>3, <1>6, <1>7, <1>8 DEF PInv

\* Neither the calls nor the records change.
LEMMA NothingMoves ==
  ASSUME PInv, UNCHANGED <<frames, nesting_depth, measured, q, dropped, alive,
                           overflow_counter, delivered>>
  PROVE  PInv'
BY DEF PInv, TypeOK, Single, Balanced, Traces, Counted, Running

LEMMA DrainSteps ==
  ASSUME PInv, DrainPop \/ DrainBatch \/ DropProbe
  PROVE  PInv'
<1> USE ModulusPositive
<1>1. /\ q \in Seq(NodeIds) /\ Len(q) \in Nat /\ delivered \in Int
      /\ dropped \in Seq(NodeIds) /\ (alive => dropped = <<>>) /\ delivered \in Words
      /\ Len(dropped) \in Nat
  BY Numbers DEF PInv, TypeOK
<1>2. CASE DrainPop
  <2>1. /\ q # <<>> /\ q' = Tail(q) /\ delivered' = Plus(delivered, 1)
        /\ UNCHANGED <<frames, nesting_depth, measured, dropped, alive, overflow_counter>>
    BY <1>2 DEF DrainPop, Ring!PopSome, atomics
  <2>2. q' \in Seq(NodeIds) /\ Len(q') = Len(q) - 1
    BY <1>1, <2>1, HeadTailProperties
  <2>a. 1 \in Int
    OBVIOUS
  <2>3. PICK j \in Int : Plus(delivered, 1) = delivered + 1 - j * CounterModulus
    BY <1>1, <2>a, PlusWraps
  <2>4. delivered' \in Words
    BY <1>1, <2>1, <2>a, PlusWraps DEF Words
  <2>5. Len(q') + Len(dropped') + delivered'
          = Len(q) + Len(dropped) + delivered - j * CounterModulus
    BY <1>1, <2>1, <2>2, <2>3
  <2> QED BY <1>1, <2>1, <2>2, <2>4, <2>5, RecordsMove
<1>3. CASE DrainBatch
  <2>1. /\ Len(q) >= M /\ q' = SubSeq(q, M + 1, Len(q)) /\ delivered' = Plus(delivered, M)
        /\ UNCHANGED <<frames, nesting_depth, measured, dropped, alive, overflow_counter>>
    BY <1>3 DEF DrainBatch, Ring!PopSliceOk, atomics
  <2>2. M \in Int
    BY ProbeAssumption
  <2>3. q' \in Seq(NodeIds) /\ Len(q') = Len(q) - M
    <3>1. \A k \in (M + 1) .. Len(q) : q[k] \in NodeIds
      BY <1>1, ProbeAssumption
    <3>2. /\ q' \in Seq(NodeIds)
          /\ Len(q') = IF M + 1 <= Len(q) THEN Len(q) - (M + 1) + 1 ELSE 0
      BY <1>1, <2>1, <2>2, <3>1, SubSeqProperties
    <3> QED BY <1>1, <2>1, <2>2, <3>2
  <2>4. PICK j \in Int : Plus(delivered, M) = delivered + M - j * CounterModulus
    BY <1>1, <2>2, PlusWraps
  <2>5. delivered' \in Words
    BY <1>1, <2>1, <2>2, PlusWraps DEF Words
  <2>6. Len(q') + Len(dropped') + delivered'
          = Len(q) + Len(dropped) + delivered - j * CounterModulus
    <3>1. j * CounterModulus \in Int /\ Len(dropped') = Len(dropped)
      BY <2>1, <2>4
    <3>2. Len(q') = Len(q) - M /\ delivered' = delivered + M - j * CounterModulus
      BY <2>1, <2>3, <2>4
    <3> QED BY <1>1, <2>2, <3>1, <3>2
  <2> QED BY <1>1, <2>1, <2>3, <2>5, <2>6, RecordsMove
<1>4. CASE DropProbe
  <2>1. /\ alive /\ dropped' = q /\ q' = <<>> /\ alive' = FALSE
        /\ UNCHANGED <<frames, nesting_depth, measured, delivered, overflow_counter>>
    BY <1>4 DEF DropProbe, Ring!DropQueue, atomics
  <2>2. /\ q' \in Seq(NodeIds) /\ Len(q') = 0 /\ Len(dropped) = 0
    BY <1>1, <2>1
  <2>3. Len(q') + Len(dropped') + delivered'
          = Len(q) + Len(dropped) + delivered - 0 * CounterModulus
    BY <1>1, <2>1, <2>2
  <2> QED BY <1>1, <2>1, <2>2, <2>3, RecordsMove
<1> QED BY <1>2, <1>3, <1>4

LEMMA Inductive == PInv /\ [Next]_vars => PInv'
<1> SUFFICES ASSUME PInv, [Next]_vars PROVE PInv'
  OBVIOUS
<1>1. ASSUME NEW on \in BOOLEAN, SetEnabled(on) PROVE PInv'
  BY <1>1, NothingMoves DEF SetEnabled, ringVars
<1>2. CASE DrainStart
  BY <1>2, NothingMoves DEF DrainStart, ringVars, atomics
<1>3. CASE DrainEnd
  BY <1>3, NothingMoves DEF DrainEnd, Ring!PopNone, atomics
<1>4. CASE DrainBatchShort
  BY <1>4, NothingMoves DEF DrainBatchShort, Ring!PopSliceShort, atomics
<1>5. CASE UNCHANGED vars
  BY <1>5, NothingMoves DEF vars, ringVars, atomics
<1> QED BY <1>1, <1>2, <1>3, <1>4, <1>5, EnterSteps, LeaveSteps, DrainSteps DEF Next

LEMMA Invariance == Spec => []PInv
BY Initially, Inductive, PTL DEF Spec

-----------------------------------------------------------------------------

(***************************************************************************)
(* nesting_depth is the number of running calls of measure that counted    *)
(* themselves, however often the probe was switched in between.            *)
(***************************************************************************)
THEOREM NestingDepthIsExact == Spec => []DepthBalanced
<1>1. Open("nested") \cup Open("outermost") = Marked(frames, {"nested", "outermost"})
  BY DEF Open, Marked
<1>2. PInv => DepthBalanced
  BY <1>1 DEF PInv, Counted, DepthBalanced
<1> QED BY <1>2, Invariance, PTL

(***************************************************************************)
(* Only the outermost call of measure is measured.                         *)
(***************************************************************************)
THEOREM MeasurementsNeverOverlap == Spec => []OneMeasurement
<1>1. PInv => OneMeasurement
  BY DEF PInv, Single, OneMeasurement, Open
<1> QED BY <1>1, Invariance, PTL

(***************************************************************************)
(* Every measurement leaves exactly one trace: no record is lost without   *)
(* overflow_counter saying so, also after the counters wrapped around.     *)
(***************************************************************************)
THEOREM MeasurementsAccounted == Spec => []RecordsAccounted
<1>1. ASSUME PInv PROVE RecordsAccounted
  <2>1. TypeOK /\ measured \in 0 .. (CounterModulus - 1)
    BY <1>1 DEF PInv, TypeOK, Words
  <2>2. PICK k \in Int : Traces = measured + k * CounterModulus
    BY <1>1 DEF PInv, Balanced
  <2>3. Cardinality(Open("outermost")) = Running
    <3>1. Open("outermost") = Marked(frames, {"outermost"})
      BY DEF Open, Marked
    <3> QED BY <3>1 DEF Running
  <2> HIDE DEF Running
  <2>4. /\ Running + Len(q) + Len(dropped) \in Int /\ delivered + overflow_counter \in Int
        /\ (Running + Len(q) + Len(dropped)) + (delivered + overflow_counter) = Traces
    BY <2>1, Numbers DEF Traces
  <2>5. Plus(Running + Len(q) + Len(dropped), delivered + overflow_counter) = measured
    BY <2>1, <2>2, <2>4, WordOf
  <2> QED BY <2>3, <2>5 DEF RecordsAccounted
<1> QED BY <1>1, Invariance, PTL

=============================================================================
