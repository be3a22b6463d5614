--------------------------- MODULE EventBusProofs ---------------------------
(***************************************************************************)
(* Proofs about the event bus, for every capacity, number of reserved      *)
(* slots, set of events and width of the counters, and, at the end, about  *)
(* the other user of the ring in riaps-dsp, the gain node.                 *)
(***************************************************************************)
EXTENDS EventBus, SequenceTheorems, TLAPS

LEMMA CounterRange ==
  ASSUME NEW c \in 0 .. (CounterModulus - 1)
  PROVE  Increment(c) \in 0 .. (CounterModulus - 1) /\ Increment(c) # c
<1> USE BusAssumption
<1>1. CASE c + 1 < CounterModulus
  BY <1>1 DEF Increment
<1>2. CASE c + 1 = CounterModulus
  BY <1>2 DEF Increment
<1> QED BY <1>1, <1>2

\* What the queue's actions do to q, whatever else is in the state.
LEMMA PushEffect ==
  ASSUME NEW e \in Events, TypeOK, Ring!PushOk(e)
  PROVE  /\ Len(q) < N /\ alive /\ alive' = alive
         /\ q' \in Seq(Events)
         /\ Len(q') = Len(q) + 1
         /\ \A i \in 1 .. Len(q') : q'[i] = IF i = Len(q) + 1 THEN e ELSE q[i]
BY DEF Ring!PushOk, TypeOK

LEMMA PopEffect ==
  ASSUME TypeOK, Ring!PopSome
  PROVE  /\ alive' = alive
         /\ q' \in Seq(Events)
         /\ Len(q') = Len(q) - 1
         /\ Len(q) > 0
         /\ \A i \in 1 .. Len(q') : q'[i] = q[i + 1]
BY DEF Ring!PopSome, TypeOK

LEMMA TypeInit == Init => TypeOK
<1> SUFFICES ASSUME Init PROVE TypeOK
  OBVIOUS
<1>1. alive \in BOOLEAN /\ draining \in BOOLEAN
  BY Zenon DEF Init, Ring!Init
<1>2. q \in Seq(Events) /\ Len(q) <= N
  BY BusAssumption DEF Init, Ring!Init
<1> QED BY <1>1, <1>2, BusAssumption DEF Init, TypeOK

LEMMA TypeNext == TypeOK /\ [Next]_vars => TypeOK'
<1> SUFFICES ASSUME TypeOK, [Next]_vars PROVE TypeOK'
  OBVIOUS
<1> USE BusAssumption
<1>1. ASSUME NEW e \in Events, EmitDiscard(e) PROVE TypeOK'
  BY <1>1, CounterRange DEF EmitDiscard, TypeOK, ringVars
<1>2. ASSUME NEW e \in Events, EmitAdmit(e) PROVE TypeOK'
  BY <1>2, CounterRange DEF EmitAdmit, TypeOK, ringVars
<1>3. CASE EmitPush
  <2>1. event \in Events
    BY <1>3 DEF EmitPush, TypeOK
  <2>2. q' \in Seq(Events) /\ Len(q') <= N /\ alive' = alive
    BY <1>3, <2>1, PushEffect DEF EmitPush, TypeOK
  <2> QED BY <1>3, <2>2 DEF EmitPush, TypeOK
<1>4. CASE EmitFull
  BY <1>4, CounterRange DEF EmitFull, Ring!PushFull, TypeOK
<1>5. CASE DrainStart
  BY <1>5 DEF DrainStart, TypeOK, ringVars
<1>6. CASE DrainPop
  <2>1. q' \in Seq(Events) /\ Len(q') <= N /\ alive' = alive
    BY <1>6, PopEffect DEF DrainPop, TypeOK
  <2> QED BY <1>6, <2>1, CounterRange DEF DrainPop, TypeOK
<1>7. CASE DrainEnd
  BY <1>7 DEF DrainEnd, Ring!PopNone, TypeOK
<1>8. CASE DropBus
  <2>1. alive' \in BOOLEAN
    BY <1>8, Zenon DEF DropBus, Ring!DropQueue
  <2>2. q' \in Seq(Events) /\ Len(q') <= N
    BY <1>8 DEF DropBus, Ring!DropQueue
  <2> QED BY <1>8, <2>1, <2>2 DEF DropBus, TypeOK
<1>9. CASE UNCHANGED vars
  BY <1>9 DEF vars, ringVars, TypeOK
<1> QED BY <1>1, <1>2, <1>3, <1>4, <1>5, <1>6, <1>7, <1>8, <1>9
        DEF Next, EmitStep, DrainStep

(***************************************************************************)
(* The ring never holds more than N events and the counters stay words.    *)
(***************************************************************************)
THEOREM TypeCorrectness == Spec => []TypeOK
BY TypeInit, TypeNext, PTL DEF Spec

-----------------------------------------------------------------------------
(* Reserved slots.  ReservedForFatal alone is not inductive: it has to be  *)
(* known that an ordinary event admitted by emit still finds a free slot   *)
(* outside the reserved ones, however long its push takes.                 *)

AdmittedHasRoom ==
  epc = "push" /\ ~is_fatal(event) => Len(q) < N - RESERVED_SLOTS

IInv == TypeOK /\ ReservedForFatal /\ AdmittedHasRoom

LEMMA InvInit == Init => IInv
BY TypeInit DEF Init, Ring!Init, IInv, ReservedForFatal, AdmittedHasRoom

LEMMA InvNext == IInv /\ [Next]_vars => IInv'
<1> SUFFICES ASSUME IInv, [Next]_vars PROVE ReservedForFatal' /\ AdmittedHasRoom'
  BY TypeNext DEF IInv
<1> USE BusAssumption
<1>0. TypeOK /\ ReservedForFatal /\ AdmittedHasRoom
  BY DEF IInv
<1>a. Len(q) \in Nat
  BY <1>0 DEF TypeOK
<1>b. ASSUME UNCHANGED q PROVE ReservedForFatal'
  BY <1>0, <1>b DEF ReservedForFatal
<1>1. ASSUME NEW e \in Events, EmitDiscard(e) PROVE AdmittedHasRoom' /\ UNCHANGED q
  BY <1>0, <1>1 DEF EmitDiscard, AdmittedHasRoom, ringVars
<1>2. ASSUME NEW e \in Events, EmitAdmit(e) PROVE AdmittedHasRoom' /\ UNCHANGED q
  BY <1>a, <1>2 DEF EmitAdmit, AdmittedHasRoom, capacity_left, ringVars
<1>3. CASE EmitPush
  <2>1. AdmittedHasRoom'
    BY <1>3 DEF EmitPush, AdmittedHasRoom
  <2>2. event \in Events
    BY <1>0, <1>3 DEF EmitPush, TypeOK
  <2>3. /\ Len(q') = Len(q) + 1
        /\ \A i \in 1 .. Len(q') : q'[i] = IF i = Len(q) + 1 THEN event ELSE q[i]
    BY <1>0, <1>3, <2>2, PushEffect DEF EmitPush
  <2>4. ASSUME NEW i \in 1 .. Len(q'), i > N - RESERVED_SLOTS PROVE is_fatal(q'[i])
    <3>1. CASE i = Len(q) + 1
      <4>1. ~(Len(q) < N - RESERVED_SLOTS)
        BY <1>a, <2>4, <3>1
      <4>2. is_fatal(event)
        BY <1>0, <1>3, <4>1 DEF EmitPush, AdmittedHasRoom
      <4> QED BY <2>3, <3>1, <4>2
    <3>2. CASE i # Len(q) + 1
      <4>1. i \in 1 .. Len(q)
        BY <1>a, <2>3, <3>2
      <4> QED BY <1>0, <2>3, <2>4, <3>2, <4>1 DEF ReservedForFatal
    <3> QED BY <3>1, <3>2
  <2> QED BY <2>1, <2>4 DEF ReservedForFatal
<1>4. CASE EmitFull
  BY <1>b, <1>4 DEF EmitFull, Ring!PushFull, AdmittedHasRoom
<1>5. CASE DrainStart
  BY <1>0, <1>b, <1>5 DEF DrainStart, AdmittedHasRoom, ringVars
<1>6. CASE DrainPop
  <2>1. /\ Len(q') = Len(q) - 1 /\ Len(q) > 0
        /\ \A i \in 1 .. Len(q') : q'[i] = q[i + 1]
    BY <1>0, <1>6, PopEffect DEF DrainPop
  <2>2. AdmittedHasRoom'
    BY <1>0, <1>a, <1>6, <2>1 DEF DrainPop, AdmittedHasRoom
  <2>3. ASSUME NEW i \in 1 .. Len(q'), i > N - RESERVED_SLOTS PROVE is_fatal(q'[i])
    <3>1. i + 1 \in 1 .. Len(q) /\ i + 1 > N - RESERVED_SLOTS
      BY <1>a, <2>1, <2>3
    <3> QED BY <1>0, <2>1, <3>1 DEF ReservedForFatal
  <2> QED BY <2>2, <2>3 DEF ReservedForFatal
<1>7. CASE DrainEnd
  BY <1>0, <1>b, <1>7 DEF DrainEnd, Ring!PopNone, AdmittedHasRoom
<1>8. CASE DropBus
  BY <1>8 DEF DropBus, Ring!DropQueue, AdmittedHasRoom, ReservedForFatal
<1>9. CASE UNCHANGED vars
  BY <1>0, <1>b, <1>9 DEF vars, ringVars, AdmittedHasRoom
<1> QED BY <1>b, <1>1, <1>2, <1>3, <1>4, <1>5, <1>6, <1>7, <1>8, <1>9
        DEF Next, EmitStep, DrainStep

LEMMA Invariance == Spec => []IInv
BY InvInit, InvNext, PTL DEF Spec

(***************************************************************************)
(* The last RESERVED_SLOTS places of the bus only ever hold fatal events,  *)
(* although emit decides before it pushes and drain runs in between.       *)
(***************************************************************************)
THEOREM ReservedSlots == Spec => []ReservedForFatal
BY Invariance, PTL DEF IInv

(***************************************************************************)
(* A push fails only for a fatal event and only when every reserved slot   *)
(* already holds a fatal event.                                            *)
(***************************************************************************)
THEOREM FatalEventsSurviveFloods == Spec => FatalLostOnlyBehindFatal
<1> DEFINE Lost == epc = "push" /\ overflow_counter' # overflow_counter
           Behind == /\ is_fatal(event)
                     /\ Len(q) = N
                     /\ \A i \in (N - RESERVED_SLOTS + 1) .. N : is_fatal(q[i])
<1>1. IInv /\ [Next]_vars => [Lost => Behind]_vars
  <2> SUFFICES ASSUME IInv, Next, Lost PROVE Behind
    OBVIOUS
  <2> USE BusAssumption
  <2>1. EmitFull
    BY DEF Next, EmitStep, DrainStep, EmitDiscard, EmitAdmit, EmitPush, DrainStart,
           DrainPop, DrainEnd, DropBus
  <2>2. Len(q) = N
    BY <2>1 DEF EmitFull, Ring!PushFull
  <2>3. is_fatal(event)
    BY <2>1, <2>2 DEF EmitFull, IInv, AdmittedHasRoom
  <2>4. \A i \in (N - RESERVED_SLOTS + 1) .. N : is_fatal(q[i])
    <3>1. \A i \in (N - RESERVED_SLOTS + 1) .. N :
            i \in 1 .. Len(q) /\ i > N - RESERVED_SLOTS
      BY <2>2
    <3> QED BY <3>1 DEF IInv, ReservedForFatal
  <2> QED BY <2>2, <2>3, <2>4
<1> QED BY <1>1, Invariance, PTL DEF Spec, FatalLostOnlyBehindFatal

-----------------------------------------------------------------------------
(* The balance of events.  The counters are words, so what is invariant is *)
(* that the two sides of the balance are some number of wraparounds apart. *)

\* What has become of the emitted events, each of them counted once.
Traces ==
  delivered + overflow_counter + Len(q) + Len(dropped)
    + (IF epc = "push" THEN 1 ELSE 0)

Balanced == \E k \in Int : Traces = emitted + k * CounterModulus

\* Nothing is destroyed with the ring before the ring itself is.
NoneDestroyedYet == dropped \in Seq(Events) /\ (alive => dropped = <<>>)

BInv == TypeOK /\ NoneDestroyedYet /\ Balanced

\* A word is the remainder of all the integers it stands for.
LEMMA WordOf ==
  ASSUME NEW w \in 0 .. (CounterModulus - 1), NEW k \in Int
  PROVE  (w + k * CounterModulus) % CounterModulus = w
<1> USE BusAssumption
<1> DEFINE a == w + k * CounterModulus
           d == a \div CounterModulus
           r == a % CounterModulus
<1>1. /\ d \in Int /\ r \in 0 .. (CounterModulus - 1)
      /\ w + k * CounterModulus = CounterModulus * d + r
  OBVIOUS
<1> HIDE DEF d, r
<1>2. w - r = CounterModulus * (d - k)
  BY <1>1
<1>3. ~(d - k >= 1)
  <2>1. d - k >= 1 => CounterModulus * (d - k) >= CounterModulus
    BY <1>1
  <2> QED BY <1>1, <1>2, <2>1
<1>4. ~(d - k <= -1)
  <2>1. d - k <= -1 => CounterModulus * (d - k) <= -CounterModulus
    BY <1>1
  <2> QED BY <1>1, <1>2, <2>1
<1>5. d - k = 0
  BY <1>1, <1>3, <1>4
<1> QED BY <1>1, <1>2, <1>5 DEF r

\* fetch_add adds one, up to a wraparound.
LEMMA IncrementWraps ==
  ASSUME NEW c \in 0 .. (CounterModulus - 1)
  PROVE  \E j \in {0, 1} : Increment(c) = c + 1 - j * CounterModulus
<1> USE BusAssumption
<1>1. CASE c + 1 < CounterModulus
  BY <1>1 DEF Increment
<1>2. CASE c + 1 = CounterModulus
  BY <1>2 DEF Increment
<1> QED BY <1>1, <1>2

\* The balance survives a step that moves both sides by the same amount, up
\* to wraparounds.
LEMMA BalanceKept ==
  ASSUME TypeOK, TypeOK', Balanced, Traces \in Int, NEW j \in {0, 1}, NEW d \in {0, 1},
         Traces' = Traces + d - j * CounterModulus,
         NEW i \in {0, 1}, emitted' = emitted + d - i * CounterModulus
  PROVE  Balanced'
<1> USE BusAssumption
<1>1. PICK k \in Int : Traces = emitted + k * CounterModulus
  BY DEF Balanced
<1>2. Traces' = emitted' + (k - j + i) * CounterModulus
  <2>1. emitted \in Int /\ emitted' \in Int
    BY DEF TypeOK
  <2>2. (k - j + i) * CounterModulus
          = k * CounterModulus - j * CounterModulus + i * CounterModulus
    BY <1>1
  <2> QED BY <1>1, <2>1, <2>2
<1>3. k - j + i \in Int
  BY <1>1
<1> QED BY <1>2, <1>3 DEF Balanced

LEMMA BalanceInit == Init => BInv
<1> SUFFICES ASSUME Init PROVE BInv
  OBVIOUS
<1> USE BusAssumption
<1>1. dropped = <<>> /\ q = <<>> /\ emitted = 0 /\ Traces = 0
  BY DEF Init, Ring!Init, Traces
<1>2. NoneDestroyedYet
  BY <1>1 DEF NoneDestroyedYet
<1>3. Traces = emitted + 0 * CounterModulus /\ 0 \in Int
  BY <1>1
<1> QED BY <1>2, <1>3, TypeInit DEF BInv, Balanced

LEMMA BalanceNext == BInv /\ [Next]_vars => BInv'
<1> SUFFICES ASSUME BInv, [Next]_vars PROVE NoneDestroyedYet' /\ Balanced'
  BY TypeNext DEF BInv
<1> USE BusAssumption
<1>0. TypeOK /\ TypeOK' /\ NoneDestroyedYet /\ Balanced
  BY TypeNext DEF BInv
<1>a. /\ Len(q) \in Nat /\ Len(dropped) \in Nat /\ Traces \in Int
      /\ delivered \in Int /\ overflow_counter \in Int /\ emitted \in Int
  BY <1>0 DEF TypeOK, NoneDestroyedYet, Traces
<1>b. ASSUME UNCHANGED <<dropped, alive>> PROVE NoneDestroyedYet'
  BY <1>0, <1>b DEF NoneDestroyedYet
<1>c. ASSUME Traces' = Traces, UNCHANGED emitted PROVE Balanced'
  <2>1. Traces' = Traces + 0 - 0 * CounterModulus
    BY <1>a, <1>c
  <2>2. emitted' = emitted + 0 - 0 * CounterModulus
    BY <1>a, <1>c
  <2> QED BY <1>0, <1>a, <2>1, <2>2, BalanceKept
<1>1. ASSUME NEW e \in Events, EmitDiscard(e) PROVE NoneDestroyedYet' /\ Balanced'
  <2>1. PICK j \in {0, 1} : overflow_counter' = overflow_counter + 1 - j * CounterModulus
    BY <1>0, <1>1, IncrementWraps DEF EmitDiscard, TypeOK
  <2>2. PICK i \in {0, 1} : emitted' = emitted + 1 - i * CounterModulus
    BY <1>0, <1>1, IncrementWraps DEF EmitDiscard, TypeOK
  <2>3. Traces' = Traces + 1 - j * CounterModulus
    BY <1>a, <1>1, <2>1 DEF EmitDiscard, Traces, ringVars
  <2>4. emitted' = emitted + 1 - i * CounterModulus
    BY <1>a, <2>2
  <2>5. Balanced'
    BY <1>0, <1>a, <2>3, <2>4, BalanceKept
  <2> QED BY <1>b, <1>1, <2>5 DEF EmitDiscard, ringVars
<1>2. ASSUME NEW e \in Events, EmitAdmit(e) PROVE NoneDestroyedYet' /\ Balanced'
  <2>1. PICK i \in {0, 1} : emitted' = emitted + 1 - i * CounterModulus
    BY <1>0, <1>2, IncrementWraps DEF EmitAdmit, TypeOK
  <2>2. Traces' = Traces + 1 - 0 * CounterModulus
    BY <1>a, <1>2 DEF EmitAdmit, Traces, ringVars
  <2>3. emitted' = emitted + 1 - i * CounterModulus
    BY <1>a, <2>1
  <2>4. Balanced'
    BY <1>0, <1>a, <2>2, <2>3, BalanceKept
  <2> QED BY <1>b, <1>2, <2>4 DEF EmitAdmit, ringVars
<1>3. CASE EmitPush
  <2>1. event \in Events
    BY <1>0, <1>3 DEF EmitPush, TypeOK
  <2>2. Len(q') = Len(q) + 1 /\ UNCHANGED <<dropped, alive>>
    BY <1>0, <1>3, <2>1, PushEffect DEF EmitPush, Ring!PushOk
  <2>3. Traces' = Traces /\ UNCHANGED emitted
    BY <1>a, <1>3, <2>2 DEF EmitPush, Traces
  <2> QED BY <1>b, <1>c, <2>2, <2>3
<1>4. CASE EmitFull
  <2>1. PICK j \in {0, 1} : overflow_counter' = overflow_counter + 1 - j * CounterModulus
    BY <1>0, <1>4, IncrementWraps DEF EmitFull, TypeOK
  <2>2. UNCHANGED <<q, dropped, alive>>
    BY <1>4 DEF EmitFull, Ring!PushFull
  <2>3. Traces' = Traces + 0 - j * CounterModulus
    BY <1>a, <1>4, <2>1, <2>2 DEF EmitFull, Traces
  <2>4. emitted' = emitted + 0 - 0 * CounterModulus
    BY <1>a, <1>4 DEF EmitFull
  <2>5. Balanced'
    BY <1>0, <1>a, <2>3, <2>4, BalanceKept
  <2> QED BY <1>b, <2>2, <2>5
<1>5. CASE DrainStart
  <2>1. Traces' = Traces /\ UNCHANGED emitted
    BY <1>5 DEF DrainStart, Traces, ringVars
  <2> QED BY <1>b, <1>c, <1>5, <2>1 DEF DrainStart, ringVars
<1>6. CASE DrainPop
  <2>1. PICK j \in {0, 1} : delivered' = delivered + 1 - j * CounterModulus
    BY <1>0, <1>6, IncrementWraps DEF DrainPop, TypeOK
  <2>2. Len(q') = Len(q) - 1 /\ UNCHANGED <<dropped, alive>>
    BY <1>0, <1>6, PopEffect DEF DrainPop, Ring!PopSome
  <2>3. Traces' = Traces + 0 - j * CounterModulus
    BY <1>a, <1>6, <2>1, <2>2 DEF DrainPop, Traces
  <2>4. emitted' = emitted + 0 - 0 * CounterModulus
    BY <1>a, <1>6 DEF DrainPop
  <2>5. Balanced'
    BY <1>0, <1>a, <2>3, <2>4, BalanceKept
  <2> QED BY <1>b, <2>2, <2>5
<1>7. CASE DrainEnd
  <2>1. UNCHANGED <<q, dropped, alive>>
    BY <1>7 DEF DrainEnd, Ring!PopNone
  <2>2. Traces' = Traces /\ UNCHANGED emitted
    BY <1>7, <2>1 DEF DrainEnd, Traces
  <2> QED BY <1>b, <1>c, <2>1, <2>2
<1>8. CASE DropBus
  <2>1. dropped = <<>> /\ dropped' = q /\ q' = <<>> /\ ~alive'
    BY <1>0, <1>8 DEF DropBus, Ring!DropQueue, NoneDestroyedYet
  <2>2. Len(dropped) = 0 /\ Len(q') = 0 /\ Len(dropped') = Len(q)
    BY <2>1
  <2>3. Traces' = Traces /\ UNCHANGED emitted
    BY <1>a, <1>8, <2>2 DEF DropBus, Traces
  <2>4. NoneDestroyedYet'
    BY <1>0, <2>1 DEF NoneDestroyedYet, TypeOK
  <2> QED BY <1>c, <2>3, <2>4
<1>9. CASE UNCHANGED vars
  <2>1. Traces' = Traces /\ UNCHANGED emitted
    BY <1>9 DEF vars, ringVars, Traces
  <2> QED BY <1>b, <1>c, <1>9, <2>1 DEF vars, ringVars
<1> QED BY <1>1, <1>2, <1>3, <1>4, <1>5, <1>6, <1>7, <1>8, <1>9
        DEF Next, EmitStep, DrainStep

(***************************************************************************)
(* No event vanishes uncounted and none is counted twice, for every width  *)
(* of the counters and however often they have wrapped: what was emitted   *)
(* is what was delivered, is queued, was destroyed with the bus, is still  *)
(* in emit, or was counted by overflow_counter.                            *)
(***************************************************************************)
THEOREM EventsAccounted == Spec => []NothingUnaccounted
<1>1. BInv => NothingUnaccounted
  <2> SUFFICES ASSUME BInv PROVE NothingUnaccounted
    OBVIOUS
  <2>1. PICK k \in Int : Traces = emitted + k * CounterModulus
    BY DEF BInv, Balanced
  <2>2. emitted \in 0 .. (CounterModulus - 1)
    BY DEF BInv, TypeOK
  <2>3. Traces % CounterModulus = emitted
    BY <2>1, <2>2, WordOf
  <2> QED BY <2>3 DEF NothingUnaccounted, Traces
<1> QED BY <1>1, BalanceInit, BalanceNext, PTL DEF Spec

-----------------------------------------------------------------------------
(* The parameter queue of a gain node is the other bounded queue of        *)
(* riaps-dsp.  GainNode is instantiated with a queue of the same name, and *)
(* variables of its own for the node and the UI thread.                    *)

CONSTANT Gains

VARIABLES gain_db, gain_lin, apc, db, updated, output, wanted, pending, accepted

Gain == INSTANCE GainNode

(***************************************************************************)
(* The change accepted last is the last one queued, or, when the queue is  *)
(* empty, what process has popped or has taken over already.               *)
(***************************************************************************)
Newest ==
  IF q # <<>> THEN q[Len(q)]
  ELSE IF apc = "drain" /\ updated THEN db ELSE gain_db

GainInv ==
  /\ q \in Seq(Gains)
  /\ gain_lin = Gain!db_to_linear(gain_db)
  /\ alive => accepted = Newest

LEMMA GainInit == Gain!Init => GainInv /\ Gain!Register!Init
<1> SUFFICES ASSUME Gain!Init PROVE GainInv /\ Gain!Register!Init
  OBVIOUS
<1>1. /\ q = <<>> /\ gain_db \in Gains /\ gain_lin = Gain!db_to_linear(gain_db)
      /\ apc = "idle" /\ output = gain_lin /\ accepted = gain_db
  BY DEF Gain!Init, Gain!Ring!Init
<1>2. q \in Seq(Gains)
  BY <1>1
<1> QED BY <1>1, <1>2 DEF GainInv, Newest, Gain!Register!Init

\* Each step keeps the invariant, and is a step of the register or none.
LEMMA GainNext ==
  ASSUME GainInv, [Gain!Next]_Gain!vars
  PROVE  GainInv' /\ [Gain!Register!Next]_Gain!Register!vars
<1> DEFINE Stutters == UNCHANGED <<accepted, output>>
<1>0. ASSUME Stutters PROVE [Gain!Register!Next]_Gain!Register!vars
  BY <1>0 DEF Gain!Register!vars, Gain!db_to_linear
<1>1. ASSUME NEW v \in Gains, Gain!TryPushOk(v)
      PROVE  GainInv' /\ [Gain!Register!Next]_Gain!Register!vars
  <2>1. /\ q' = Append(q, v) /\ accepted' = v
        /\ UNCHANGED <<gain_db, gain_lin, apc, db, updated, output>>
    BY <1>1 DEF Gain!TryPushOk, Gain!Ring!PushOk, Gain!nodeVars
  <2>2. q' \in Seq(Gains) /\ q' # <<>> /\ q'[Len(q')] = v
    BY <2>1 DEF GainInv
  <2>3. GainInv'
    BY <2>1, <2>2 DEF GainInv, Newest, Gain!db_to_linear
  <2>4. Gain!Register!Accept(Gain!db_to_linear(v))
    BY <2>1 DEF Gain!Register!Accept, Gain!db_to_linear
  <2> QED BY <2>3, <2>4 DEF Gain!Register!Next
<1>2. ASSUME NEW v \in Gains, Gain!TryPushRefused(v)
      PROVE  GainInv' /\ [Gain!Register!Next]_Gain!Register!vars
  <2>1. UNCHANGED <<q, alive, gain_db, gain_lin, apc, db, updated, output, accepted>>
    BY <1>2 DEF Gain!TryPushRefused, Gain!Ring!PushFull, Gain!nodeVars
  <2>2. GainInv'
    BY <2>1 DEF GainInv, Newest, Gain!db_to_linear
  <2> QED BY <1>0, <2>1, <2>2
<1>3. CASE Gain!ProcessStart
  <2>1. /\ apc = "idle" /\ updated' = FALSE
        /\ UNCHANGED <<q, alive, gain_db, gain_lin, output, accepted>>
    BY <1>3 DEF Gain!ProcessStart, Gain!ringVars, Gain!uiVars
  <2>2. GainInv'
    BY <2>1 DEF GainInv, Newest, Gain!db_to_linear
  <2> QED BY <1>0, <2>1, <2>2
<1>4. CASE Gain!DrainPop
  <2>1. /\ alive /\ alive' = alive /\ q # <<>> /\ q' = Tail(q) /\ apc = "drain"
        /\ db' = Head(q) /\ updated' = TRUE
        /\ UNCHANGED <<gain_db, gain_lin, apc, output, accepted>>
    BY <1>4 DEF Gain!DrainPop, Gain!Ring!PopSome, Gain!uiVars
  <2>2. q \in Seq(Gains) /\ accepted = q[Len(q)]
    BY <2>1 DEF GainInv, Newest
  <2>3. q' \in Seq(Gains) /\ Len(q') = Len(q) - 1 /\ Len(q) \in Nat \ {0}
    BY <2>1, <2>2, HeadTailProperties, EmptySeq
  <2>4. accepted' = Newest'
    <3>1. CASE q' = <<>>
      <4>1. Len(q) = 1
        BY <2>3, <3>1, EmptySeq
      <4> QED BY <2>1, <2>2, <3>1, <4>1 DEF Newest
    <3>2. CASE q' # <<>>
      <4>1. Len(q') \in Nat \ {0}
        BY <2>3, <3>2, EmptySeq
      <4>2. q'[Len(q')] = q[Len(q)]
        BY <2>1, <2>2, <2>3, <4>1
      <4> QED BY <2>1, <2>2, <3>2, <4>2 DEF Newest
    <3> QED BY <3>1, <3>2
  <2>5. GainInv'
    BY <2>1, <2>3, <2>4 DEF GainInv, Gain!db_to_linear
  <2> QED BY <1>0, <2>1, <2>5
<1>5. CASE Gain!ProcessEnd
  <2>1. /\ alive /\ q = <<>> /\ apc = "drain" /\ apc' = "idle"
        /\ output' = gain_lin'
        /\ UNCHANGED <<q, alive, accepted>>
        /\ IF updated THEN gain_db' = db /\ gain_lin' = Gain!db_to_linear(db)
                      ELSE UNCHANGED <<gain_db, gain_lin>>
    BY <1>5 DEF Gain!ProcessEnd, Gain!Ring!PopNone, Gain!uiVars
  <2>2. gain_db' = accepted /\ gain_lin' = Gain!db_to_linear(gain_db')
    BY <2>1 DEF GainInv, Newest
  <2>3. GainInv'
    BY <2>1, <2>2 DEF GainInv, Newest, Gain!db_to_linear
  <2>4. Gain!Register!Apply
    BY <2>1, <2>2 DEF Gain!Register!Apply, Gain!db_to_linear
  <2> QED BY <2>3, <2>4 DEF Gain!Register!Next
<1>6. CASE Gain!DropNode
  <2>1. q' = <<>> /\ alive' = FALSE /\ UNCHANGED <<gain_db, gain_lin, output, accepted>>
    BY <1>6 DEF Gain!DropNode, Gain!Ring!DropQueue, Gain!nodeVars, Gain!uiVars
  <2>2. GainInv'
    BY <2>1 DEF GainInv, Gain!db_to_linear
  <2> QED BY <1>0, <2>1, <2>2
<1>7. CASE UNCHANGED Gain!vars
  <2>1. UNCHANGED <<q, alive, gain_db, gain_lin, apc, db, updated, output, accepted>>
    BY <1>7 DEF Gain!vars, Gain!ringVars, Gain!nodeVars, Gain!uiVars
  <2>2. GainInv'
    BY <2>1 DEF GainInv, Newest, Gain!db_to_linear
  <2> QED BY <1>0, <2>1, <2>2
<1> QED BY <1>1, <1>2, <1>3, <1>4, <1>5, <1>6, <1>7
       DEF Gain!Next, Gain!TryPush, Gain!AudioStep

(***************************************************************************)
(* try_push, the queue, drain_to's loop and the two copies of the gain are *)
(* together one register (process of GainNode), for every capacity of the  *)
(* queue and every set of gains: each block is processed with the value    *)
(* that is the newest accepted when its draining loop ends.                *)
(***************************************************************************)
THEOREM GainNodeIsARegister == Gain!Spec => Gain!ImplementsRegister
<1>1. Gain!Spec => []GainInv
  BY GainInit, GainNext, PTL DEF Gain!Spec
<1>2. Gain!Spec => Gain!Register!Spec
  BY <1>1, GainInit, GainNext, PTL DEF Gain!Spec, Gain!Register!Spec
<1> QED BY <1>2 DEF Gain!ImplementsRegister

=============================================================================
