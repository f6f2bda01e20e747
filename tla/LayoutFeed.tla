----------------------------- MODULE LayoutFeed -----------------------------
(* How a window hears of the layout it mirrors: get_layout once, then the    *)
(* subscribe_layout stream (forgetty-socket/src/server.rs), the task that    *)
(* parses it (forgetty-gtk/src/daemon_client.rs) and the timer that applies  *)
(* it; and rpc, the blocking call by which the window changes the layout     *)
(* itself and whose answer it waits for half a second.                       *)
(*                                                                           *)
(* The daemon's events are numbered as they are broadcast.  Only what a      *)
(* window does with TabCreated is followed: WindowMirror has the rest.       *)
EXTENDS Naturals, Sequences, FiniteSets, SequencesExt

CONSTANTS
  News,        \* events the daemon broadcasts unasked: kind, fields that are null
  EventCap,    \* BROADCAST_CAPACITY: events a receiver may be behind
  MaxNews      \* bound: events in all

(* Of what the window needs of an event, only the pane of ActivePaneChanged  *)
(* may be null: the cleared focus.                                           *)
ASSUME FeedAssumption ==
  /\ EventCap \in Nat
  /\ \A e \in News : e.nulls \subseteq {"color"} \cup
                       (IF e.kind = "ActivePaneChanged" THEN {"pane_id"} ELSE {})

VARIABLES
  log,         \* the events the daemon has broadcast
  up,          \* the daemon runs
  rx,          \* the stream's next event; 0 before it has subscribed
  since,       \* history: the first event the stream's receiver was to get
  lost,        \* history: events the receiver lagged behind
  wire,        \* notifications on the socket
  inbox,       \* LayoutEvents in the mpsc channel
  heard,       \* history: events handle_layout_event was given
  stage,       \* how far the window's construction is
  call,        \* the window's new_tab: how far it is, and its event once served
  shown        \* the window's tabs, by their TabCreated events, in order of appearance

feedVars == <<log, up, rx, since, lost, wire, inbox, heard, stage, call, shown>>

NoCall == <<"none", 0>>
FeedInit ==
  /\ log = <<>> /\ up = TRUE /\ rx = 0 /\ since = 0 /\ lost = {}
  /\ wire = <<>> /\ inbox = <<>> /\ heard = <<>>
  /\ stage = "starting" /\ call = NoCall /\ shown = <<>>

-----------------------------------------------------------------------------
(* The layout events of SessionEvent as the stream writes them.  PtyOutput,  *)
(* PaneCreated, PaneClosed and Notification go through the same channel and  *)
(* are not written.                                                          *)
TabNotifications ==
  [TabCreated |-> {"workspace_idx", "tab_id", "pane_id"},
   TabClosed |-> {"workspace_idx", "tab_id"},
   PaneSplit |-> {"tab_id", "parent_pane_id", "new_pane_id", "direction"},
   TabMoved |-> {"workspace_idx", "tab_id", "new_index"},
   ActiveTabChanged |-> {"workspace_idx", "tab_idx"}]
WorkspaceNotifications ==
  [ActiveWorkspaceChanged |-> {"workspace_idx"},
   WorkspaceCreated |-> {"workspace_idx", "workspace_id", "name"},
   WorkspaceRenamed |-> {"workspace_idx", "workspace_id", "name"},
   WorkspaceDeleted |-> {"workspace_idx", "workspace_id"},
   WorkspaceColorChanged |-> {"workspace_idx", "workspace_id", "color"},
   WorkspacesReordered |-> {"from_idx", "to_idx", "from_workspace_id", "to_workspace_id"},
   ActivePaneChanged |-> {"workspace_idx", "tab_id", "pane_id"}]
Carried ==
  [k \in DOMAIN TabNotifications \cup DOMAIN WorkspaceNotifications |->
     IF k \in DOMAIN TabNotifications THEN TabNotifications[k] ELSE WorkspaceNotifications[k]]
Forwarded(e) == e.kind \in DOMAIN Carried

(* The identifiers without which the client's task drops a notification; it  *)
(* does not know the other two kinds, and anything else has a default.       *)
Required ==
  [TabCreated |-> {"tab_id", "pane_id"}, TabClosed |-> {"tab_id"},
   PaneSplit |-> {"tab_id", "parent_pane_id", "new_pane_id"},
   TabMoved |-> {"tab_id"}, ActiveTabChanged |-> {},
   WorkspaceRenamed |-> {"workspace_id"}, WorkspaceDeleted |-> {"workspace_id"},
   WorkspaceColorChanged |-> {"workspace_id"},
   WorkspacesReordered |-> {"from_workspace_id", "to_workspace_id"},
   ActivePaneChanged |-> {"tab_id"}]
SlipFocusOfSome(e) ==
  /\ e.kind \in DOMAIN Required
  /\ Required[e.kind] \cup (IF e.kind = "ActivePaneChanged" THEN {"pane_id"} ELSE {})
       \subseteq Carried[e.kind] \ e.nulls
Understood(e) ==
  /\ e.kind \in DOMAIN Required
  /\ Required[e.kind] \subseteq Carried[e.kind] \ e.nulls

(* What the window is to know of the layout                                  *)
OfWindow(e) == e.kind \in DOMAIN Required
TabEvents(I) == {i \in I : log[i].kind = "TabCreated"}

-----------------------------------------------------------------------------
(* The daemon broadcasts, to the stream and to everyone else.                *)
Emit(e) == log' = Append(log, e)
DaemonEmits(e) ==
  /\ up /\ Len(log) < MaxNews
  /\ Emit(e)
  /\ UNCHANGED <<up, rx, since, lost, wire, inbox, heard, stage, call, shown>>

(* The process is gone; what it wrote can still be read.                     *)
DaemonGone ==
  /\ up /\ up' = FALSE
  /\ call' = IF call[1] = "late" THEN NoCall ELSE call
  /\ UNCHANGED <<log, rx, since, lost, wire, inbox, heard, stage, shown>>

(* subscribe_layout: the receiver gets what is broadcast from now on.        *)
Subscribe ==
  /\ up /\ stage = "subscribing" /\ since = 0
  /\ rx' = Len(log) + 1 /\ since' = rx'
  /\ UNCHANGED <<log, up, lost, wire, inbox, heard, stage, call, shown>>

(* A receiver that fell behind goes on with the oldest event kept.           *)
Oldest == IF Len(log) > EventCap THEN Len(log) - EventCap + 1 ELSE 1
SlipLagEnds == rx' = 0 /\ UNCHANGED <<up, lost>>
Lagged ==
  /\ lost' = lost \cup (rx .. Oldest - 1)
  /\ rx' = Oldest
  /\ UNCHANGED up
Relay ==
  /\ up /\ rx # 0 /\ rx <= Len(log)
  /\ IF rx < Oldest THEN Lagged /\ UNCHANGED wire
     ELSE /\ wire' = IF Forwarded(log[rx]) THEN Append(wire, rx) ELSE wire
          /\ rx' = rx + 1
          /\ UNCHANGED <<up, lost>>
  /\ UNCHANGED <<log, since, inbox, heard, stage, call, shown>>

(* subscribe_layout_task parses the next line.                               *)
subscribe_layout_task ==
  /\ wire # <<>>
  /\ wire' = Tail(wire)
  /\ inbox' = IF Understood(log[Head(wire)]) THEN Append(inbox, Head(wire)) ELSE inbox
  /\ UNCHANGED <<log, up, rx, since, lost, heard, stage, call, shown>>

-----------------------------------------------------------------------------
(* A tab the window has is not built again.                                  *)
SlipBuildAll(i, seen) == Append(seen, i)
TabCreated(i, seen) == IF i \in ToSet(seen) THEN seen ELSE Append(seen, i)
Handled(i, seen) == IF log[i].kind = "TabCreated" THEN TabCreated(i, seen) ELSE seen
Applied(seen, is) ==
  LET upto[k \in 0 .. Len(is)] == IF k = 0 THEN seen ELSE Handled(is[k], upto[k - 1]) IN upto[Len(is)]

(* The GTK thread.  build_ui shows what get_layout answers, or nothing, and  *)
(* subscribes when everything is built.                                      *)
GetLayout ==
  /\ stage = "starting" /\ stage' = "building"
  /\ shown' \in {<<>>} \cup (IF up THEN {Applied(<<>>, [i \in DOMAIN log |-> i])} ELSE {})
  /\ UNCHANGED <<log, up, rx, since, lost, wire, inbox, heard, call>>
Built ==
  /\ stage = "building" /\ stage' = "subscribing"
  /\ UNCHANGED <<log, up, rx, since, lost, wire, inbox, heard, call, shown>>

(* The timer hands over everything in the channel.                           *)
Waiting == call[1] \in {"sent", "served"}
Drain ==
  /\ stage = "subscribing" /\ ~ Waiting /\ inbox # <<>>
  /\ heard' = heard \o inbox /\ inbox' = <<>>
  /\ shown' = Applied(shown, inbox)
  /\ UNCHANGED <<log, up, rx, since, lost, wire, stage, call>>

(* add_new_tab by rpc: the thread waits.  A request that is not answered in  *)
(* time has failed for the window, and may yet be served.                    *)
NewTab ==
  /\ stage # "starting" /\ call = NoCall /\ up /\ Len(log) < MaxNews
  /\ call' = <<"sent", 0>>
  /\ UNCHANGED <<log, up, rx, since, lost, wire, inbox, heard, stage, shown>>
Serve ==
  /\ up /\ call[1] \in {"sent", "late"} /\ Len(log) < MaxNews
  /\ Emit([kind |-> "TabCreated", nulls |-> {}])
  /\ call' = IF call[1] = "sent" THEN <<"served", Len(log')>> ELSE NoCall
  /\ UNCHANGED <<up, rx, since, lost, wire, inbox, heard, stage, shown>>
CallAnswered ==
  /\ call[1] = "served"
  /\ shown' = Append(shown, call[2]) /\ call' = NoCall
  /\ UNCHANGED <<log, up, rx, since, lost, wire, inbox, heard, stage>>
TimedOut ==
  /\ Waiting
  /\ call' = IF up /\ call[1] = "sent" THEN <<"late", 0>> ELSE NoCall
  /\ UNCHANGED <<log, up, rx, since, lost, wire, inbox, heard, stage, shown>>

-----------------------------------------------------------------------------
FeedNext ==
  \/ \E e \in News : DaemonEmits(e)
  \/ DaemonGone \/ Subscribe \/ Relay \/ subscribe_layout_task
  \/ GetLayout \/ Built \/ Drain \/ NewTab \/ Serve \/ CallAnswered \/ TimedOut

(* The daemon's task, the client's task and the timer run, and a call does   *)
(* not block the GTK thread for longer than its timeout.                     *)
FeedFairness ==
  WF_feedVars(Relay) /\ WF_feedVars(subscribe_layout_task) /\ WF_feedVars(Drain) /\ WF_feedVars(TimedOut)

FeedSpec == FeedInit /\ [][FeedNext]_feedVars /\ FeedFairness

-----------------------------------------------------------------------------
Relayed == IF since = 0 THEN {} ELSE since .. rx - 1
Underway == ToSet(wire) \cup ToSet(inbox)

(* The window is given every layout event it is to know of once, in order,   *)
(* from its subscription on, but for what the receiver lagged behind.        *)
HeardInOrder ==
  /\ \A j \in 1 .. Len(heard) - 1 : heard[j] < heard[j + 1]
  /\ \A i \in Relayed \ lost : OfWindow(log[i]) => i \in ToSet(heard) \cup Underway

(* A tab has one widget, whether it was in get_layout's answer, came with    *)
(* the answer of the window's own call, or was made by a call the window had *)
(* given up; and none is missing but those made between get_layout and the   *)
(* subscription, and those the receiver lagged behind.                       *)
TabsAreShown ==
  /\ IsInjective(shown)
  /\ TabEvents(Relayed \ lost) \subseteq ToSet(shown) \cup Underway

FeedSafe == HeardInOrder /\ TabsAreShown

(* While the daemon runs, what it broadcasts reaches the window: falling     *)
(* behind does not end the stream.                                           *)
Behind ==
  /\ up /\ since # 0
  /\ \E i \in since .. Len(log) : OfWindow(log[i]) /\ i \notin lost \cup ToSet(heard)
FeedIsHeard == Behind ~> ~ Behind
=============================================================================
