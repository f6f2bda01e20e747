-------------------------- MODULE MCSessionManager --------------------------
(* SessionManager on small sets of identifiers. *)
EXTENDS SessionManager, TLC

CONSTANT MaxSpawning   \* bound: spawn_drain_task calls in flight at once

Identifiers == Permutations(PaneIds) \cup Permutations(TabIds) \cup Permutations(WorkspaceIds)

(* The events are an output: no guard reads them, so two states that differ *)
(* in `sent` alone have the same successors.                                *)
Observed == <<panes, pane_order, layout, byte_logs, log_files, drain, dups>>

FewSpawning ==
  Cardinality({p \in PaneIds : drain[p] \in {"spawned", "opened", "ready"}}) <= MaxSpawning

(* For the runs about the layout alone: the drain tasks do not move. *)
DrainsWait == \A p \in PaneIds : drain[p] \in {"unborn", "spawned"}
=============================================================================
