----------------------------- MODULE MCServices -----------------------------
(* The daemon's background tasks and connections, for TLC: the tasks that    *)
(* spawn_drain_task starts, the disk appenders, the processes of one session *)
(* and their connections, and the feed of layout events to a window.  A      *)
(* behaviour is one of one of them, chosen at its start, while the others    *)
(* stay in their initial states; so one run asks of all of them whether what *)
(* was begun comes to its end.                                               *)
EXTENDS ByteLog, RpcHandlers, Connections

VARIABLE part

(* A tab another client makes, output, an event the window does not know,    *)
(* and a focus that is cleared                                               *)
Event(kind) == [kind |-> kind, nulls |-> {}]
SomeNews == {Event("TabCreated"), Event("PtyOutput"), Event("WorkspaceCreated"),
             [kind |-> "ActivePaneChanged", nulls |-> {"pane_id"}]}

servicesVars == <<part, logVars, handlerVars, attachVars, feedVars>>

(* SessionManager's events are an output no guard reads.                     *)
Observed ==
  <<part, logVars, panes, pane_order, layout, byte_logs, log_files, drain, dups, request,
    attachVars, feedVars>>

ServicesInit ==
  /\ part \in {"log", "manager", "handlers", "attach", "feed"}
  /\ LogInit /\ HandlersInit /\ workspaces = <<CHOOSE w \in WorkspaceIds : TRUE>>
  /\ AttachInit /\ FeedInit

LogMoves == part = "log" /\ LogNext /\ UNCHANGED <<part, handlerVars, attachVars, feedVars>>
ManagerMoves ==
  part = "manager" /\ Next /\ UNCHANGED <<part, logVars, request, attachVars, feedVars>>
(* The handlers have the manager to themselves and other clients: drain tasks *)
(* do not move.                                                              *)
HandlersMove ==
  /\ part = "handlers" /\ HandlersNext /\ UNCHANGED <<part, logVars, attachVars, feedVars>>
  /\ \A p \in PaneIds : drain'[p] \in {"unborn", "spawned"}
AttachMoves == part = "attach" /\ AttachNext /\ UNCHANGED <<part, logVars, handlerVars, feedVars>>
FeedMoves == part = "feed" /\ FeedNext /\ UNCHANGED <<part, logVars, handlerVars, attachVars>>

ServicesNext == LogMoves \/ ManagerMoves \/ HandlersMove \/ AttachMoves \/ FeedMoves

(* The fairness of each part, for the behaviours that are its own.           *)
ServicesFairness ==
  /\ WF_logVars(part = "log" /\ disk_appender_task) /\ SF_logVars(part = "log" /\ FlushSent)
  /\ \A p \in PaneIds : WF_handlerVars(part = "manager" /\ SpawnDrainTask(p) /\ UNCHANGED request)
  /\ \A w \in 1 .. MaxLaunches : /\ WF_attachVars(part = "attach" /\ ServerStep(w))
                                 /\ WF_attachVars(part = "attach" /\ ClientStep(w))
  /\ WF_feedVars(part = "feed" /\ Relay) /\ WF_feedVars(part = "feed" /\ Drain)
  /\ WF_feedVars(part = "feed" /\ subscribe_layout_task)
  /\ WF_feedVars(part = "feed" /\ TimedOut)

ServicesSpec == ServicesInit /\ [][ServicesNext]_servicesVars /\ ServicesFairness

(* Every created pane gets its drain task or is closed.                      *)
DrainTasksStart == part = "handlers" \/ DrainStarts
=============================================================================
