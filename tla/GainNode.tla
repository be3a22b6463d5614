------------------------------ MODULE GainNode ------------------------------
(***************************************************************************)
(* riaps-dsp/src/node.rs: a node's parameter queue and the gain node that  *)
(* uses it.  The UI thread pushes changes while the audio thread, at the   *)
(* start of a block, pops until the queue is empty and keeps the last      *)
(* value.  The ring is the abstract queue that SpscRing is proved to       *)
(* implement.                                                              *)
(*                                                                         *)
(* Decibels are counted in steps of 20 dB, where the conversion is exact.  *)
(***************************************************************************)
EXTENDS Integers, Sequences

CONSTANTS
  N,      \* capacity of the parameter queue
  Gains   \* the gains the UI sets, in steps of 20 dB

ASSUME GainAssumption == N \in Nat \ {0} /\ Gains \subseteq Nat

VARIABLES
  q, pushRes, popRes, dropped, alive,   \* the ring
  gain_db, gain_lin,                    \* the node
  apc,        \* audio thread: "idle" or "drain"
  db,         \* process's local copy of the gain
  updated,    \* drain_to's local flag
  output,     \* what the last block made of a sample of 1
  wanted,     \* the gain the UI shows
  pending,    \* the UI knows that wanted was refused
  accepted    \* ghost: the last change that try_push took

ringVars == <<q, pushRes, popRes, dropped, alive>>
nodeVars == <<gain_db, gain_lin, apc, db, updated, output>>
uiVars == <<wanted, pending, accepted>>
vars == <<ringVars, nodeVars, uiVars>>

Ring == INSTANCE BoundedQueue WITH Values <- Gains, M <- 0

db_to_linear(steps) == 10 ^ steps

Init ==
  /\ Ring!Init
  /\ gain_db \in Gains
  /\ gain_lin = db_to_linear(gain_db)
  /\ apc = "idle"
  /\ db = gain_db
  /\ updated = FALSE
  /\ output = gain_lin
  /\ wanted = gain_db
  /\ pending = FALSE
  /\ accepted = gain_db

-----------------------------------------------------------------------------
(* The UI thread                                                           *)

TryPushOk(v) ==
  /\ Ring!PushOk(v)
  /\ wanted' = v
  /\ pending' = FALSE
  /\ accepted' = v
  /\ UNCHANGED nodeVars

\* Mutant: try_push reports success whatever the ring says.
TryPushRefused_Silent(v) ==
  /\ Ring!PushFull(v)
  /\ wanted' = v
  /\ pending' = FALSE
  /\ UNCHANGED <<nodeVars, accepted>>

\* The queue is full: the update is dropped, and the UI told so.
TryPushRefused(v) ==
  /\ Ring!PushFull(v)
  /\ wanted' = v
  /\ pending' = TRUE
  /\ UNCHANGED <<nodeVars, accepted>>

TryPush(v) == TryPushOk(v) \/ TryPushRefused(v)

\* "The UI can retry later": with the value it shows by then.
Retry == pending /\ TryPush(wanted)

-----------------------------------------------------------------------------
(* The audio thread: GainNode::process                                     *)

ProcessStart ==
  /\ alive /\ apc = "idle"
  /\ apc' = "drain"
  /\ db' = gain_db
  /\ updated' = FALSE
  /\ UNCHANGED <<ringVars, gain_db, gain_lin, output, uiVars>>

\* Mutant: the first value popped is kept.
DrainPop_First ==
  /\ apc = "drain"
  /\ Ring!PopSome
  /\ db' = IF updated THEN db ELSE Head(q)
  /\ updated' = TRUE
  /\ UNCHANGED <<gain_db, gain_lin, apc, output, uiVars>>

\* One turn of drain_to's loop.
DrainPop ==
  /\ apc = "drain"
  /\ Ring!PopSome
  /\ db' = Head(q)
  /\ updated' = TRUE
  /\ UNCHANGED <<gain_db, gain_lin, apc, output, uiVars>>

\* Mutant: the block waits for a parameter.
ProcessEnd_Waits ==
  /\ apc = "drain" /\ updated
  /\ Ring!PopNone
  /\ gain_db' = db
  /\ gain_lin' = db_to_linear(db)
  /\ output' = gain_lin'
  /\ apc' = "idle"
  /\ UNCHANGED <<db, updated, uiVars>>

\* The queue is empty: the new gain is taken over and the block multiplied.
ProcessEnd ==
  /\ apc = "drain"
  /\ Ring!PopNone
  /\ IF updated
     THEN gain_db' = db /\ gain_lin' = db_to_linear(db)
     ELSE UNCHANGED <<gain_db, gain_lin>>
  /\ output' = gain_lin'
  /\ apc' = "idle"
  /\ UNCHANGED <<db, updated, uiVars>>

\* The graph that owns the node is dropped, by nobody who still uses it.
DropNode ==
  /\ apc = "idle"
  /\ Ring!DropQueue
  /\ UNCHANGED <<nodeVars, uiVars>>

AudioStep == ProcessStart \/ DrainPop \/ ProcessEnd

Next ==
  \/ \E v \in Gains : TryPush(v)
  \/ AudioStep
  \/ DropNode

Spec == Init /\ [][Next]_vars

\* The callback of a running stream is called again and again, and the UI
\* retries what was refused.  Nothing is assumed of new changes.
FairSpec == Spec /\ WF_vars(AudioStep) /\ WF_vars(Retry)

-----------------------------------------------------------------------------
(* Properties                                                              *)

Register == INSTANCE LatestValue
  WITH Values <- {db_to_linear(g) : g \in Gains},
       newest <- db_to_linear(accepted),
       applied <- output

(***************************************************************************)
(* "Drains the queue and keeps only the newest value": queue, loop and the *)
(* two copies of the gain together are one register.  A block is processed *)
(* with a value that was the newest accepted at some moment during the     *)
(* block, and a refused or overtaken value never comes back.               *)
(***************************************************************************)
ImplementsRegister == Register!Spec

(***************************************************************************)
(* process contains a loop without a bound: it ends, unless the UI pushes  *)
(* for ever.                                                               *)
(***************************************************************************)
BlockCompletes ==
  \/ []<><<Len(q') > Len(q)>>_vars
  \/ (apc = "drain") ~> (apc = "idle")

\* The user leaves the control alone: only a refused change is pushed.
Quiet ==
  /\ wanted' = wanted
  /\ pending' => pending
  /\ Len(q') > Len(q) => pending

(***************************************************************************)
(* A full queue drops the newest change and keeps older ones.  All the     *)
(* same the stream settles on what the UI shows once the user leaves the   *)
(* control alone, because try_push reports the refusal and it is retried.  *)
(***************************************************************************)
Settles ==
  [](alive) /\ <>[][Quiet]_vars => <>[](output = db_to_linear(wanted))

=============================================================================
