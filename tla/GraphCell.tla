----------------------------- MODULE GraphCell ------------------------------
(***************************************************************************)
(* What riaps-dsp's DspGraphHandle promises: a cell that always holds one  *)
(* published graph.  Pinning, publishing and reclaiming are indivisible, a *)
(* pin is always of the published graph, and a graph leaves the cell for   *)
(* good (is destroyed or handed back as a Box) only when nobody pins it.   *)
(* GraphPublication is shown to implement this module.                     *)
(***************************************************************************)
CONSTANTS
  Graphs,
  Null     \* no graph

VARIABLES
  published,  \* the graph new pins get, Null once the cell is gone
  pinned,     \* the graph the audio thread is using, or Null
  retired,    \* replaced graphs that are still allocated for the cell's sake
  outside     \* graphs that are free memory or owned by somebody as a Box

vars == <<published, pinned, retired, outside>>

Init ==
  /\ published \in Graphs
  /\ pinned = Null
  /\ retired = {}
  /\ outside = Graphs \ {published}

Pin ==
  /\ pinned = Null
  /\ published # Null
  /\ pinned' = published
  /\ UNCHANGED <<published, retired, outside>>

Unpin ==
  /\ pinned # Null
  /\ pinned' = Null
  /\ UNCHANGED <<published, retired, outside>>

Publish(g) ==
  /\ g \in outside
  /\ published # Null
  /\ published' = g
  /\ retired' = retired \cup {published}
  /\ outside' = outside \ {g}
  /\ UNCHANGED pinned

Reclaim(g) ==
  /\ g \in retired
  /\ g # pinned
  /\ retired' = retired \ {g}
  /\ outside' = outside \cup {g}
  /\ UNCHANGED <<published, pinned>>

Destroy ==
  /\ published # Null
  /\ pinned = Null
  /\ outside' = outside \cup {published}
  /\ published' = Null
  /\ UNCHANGED <<pinned, retired>>

Next ==
  \/ Pin \/ Unpin
  \/ \E g \in Graphs : Publish(g) \/ Reclaim(g)
  \/ Destroy

Spec == Init /\ [][Next]_vars

=============================================================================
