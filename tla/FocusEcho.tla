----------------------------- MODULE FocusEcho -----------------------------
(* The focused pane of a split tab, as GTK has it and as the daemon saves   *)
(* it (FIX-005B in app.rs).  A pane that gets the focus is announced to the *)
(* daemon by an RPC; the daemon broadcasts the change, and the window must  *)
(* tell the echo of its own RPC from a change by another client.  For that  *)
(* it keeps a queue of what it has sent.  The tab is the selected one and   *)
(* stays so; a widget that has the focus gets no second focus-enter.        *)
EXTENDS Naturals, Sequences

CONSTANTS
  Leaves,     \* the panes of the tab
  FirstLeaf,  \* the first of them in the tree
  MaxFocus    \* bound: focus changes by the user or another client in flight

\* No pane is called as what stands for the lack of one.
ASSUME FocusAssumption ==
  /\ FirstLeaf \in Leaves
  /\ "nothing" \notin Leaves /\ "none" \notin Leaves

VARIABLES
  saved,      \* the tab's active_pane_id, in the daemon
  focused,    \* the DrawingArea that has the focus
  pending_active_pane,  \* RPCs whose echo is awaited
  changes,    \* ActivePaneChanged events not handled yet
  subscribed, \* the daemon sends the window its layout events
  deferred,   \* panes that grab the focus when they are mapped
  deaf        \* history: the newest change has not reached the other side

focusVars == <<saved, focused, pending_active_pane, changes, subscribed, deferred, deaf>>

(* The window is built from the daemon's layout.  Two grabs are left for    *)
(* the time the panes are mapped: the restored pane's and the first leaf's. *)
FocusInit ==
  /\ saved \in Leaves \cup {"none"}
  /\ deferred = {FirstLeaf, IF saved \in Leaves THEN saved ELSE FirstLeaf}
  /\ focused = "nothing" /\ pending_active_pane = <<>>
  /\ changes = <<>> /\ subscribed = FALSE /\ deaf = TRUE

(* SessionManager::set_active_pane: setting what is set emits no event.     *)
(* `by` is nobody's data: it tells whose change this was.                   *)
set_active_pane(p, queue, by) ==
  /\ saved' = p
  /\ changes' = IF p = saved \/ ~ subscribed THEN queue ELSE Append(queue, [pane |-> p, by |-> by])

(* wire_focus_tracking, on focus-enter: an entry for the echo unless the    *)
(* workspace manager is borrowed, then the RPC, whose failure is logged.    *)
SlipAwaitNoRpc(p, queue, borrowed) ==
  /\ focused' = p
  /\ pending_active_pane' = IF borrowed THEN pending_active_pane ELSE Append(pending_active_pane, p)
  /\ deaf' = FALSE
  /\ IF borrowed THEN changes' = queue /\ UNCHANGED saved ELSE set_active_pane(p, queue, "window")

connect_enter(p, queue, borrowed) ==
  /\ focused' = p
  /\ pending_active_pane' = IF borrowed THEN pending_active_pane ELSE Append(pending_active_pane, p)
  /\ \/ set_active_pane(p, queue, "window") /\ deaf' = FALSE
     \/ changes' = queue /\ deaf' = TRUE /\ UNCHANGED saved

grab_focus(p, queue, borrowed) ==
  IF p # focused THEN connect_enter(p, queue, borrowed)
  ELSE changes' = queue /\ UNCHANGED <<saved, focused, pending_active_pane, deaf>>

InFlight == Len(changes) + Len(pending_active_pane)

(* Either pane of the two may be the last to grab: each has a handler for   *)
(* `map` and one for idle time.                                             *)
focus_when_mapped(p) ==
  /\ p \in deferred /\ deferred' = deferred \ {p}
  /\ grab_focus(p, changes, FALSE)
  /\ UNCHANGED subscribed

(* From here on the daemon's changes reach the window.                      *)
subscribe_layout ==
  /\ ~ subscribed /\ subscribed' = TRUE
  /\ UNCHANGED <<saved, focused, pending_active_pane, changes, deferred, deaf>>

UserFocuses(p) ==
  /\ deferred = {} /\ p # focused /\ InFlight < MaxFocus
  /\ grab_focus(p, changes, FALSE)
  /\ UNCHANGED <<subscribed, deferred>>

(* Another client may also clear the pointer: no pane is the active one.    *)
OtherFocuses(p) ==
  /\ p # saved /\ InFlight < MaxFocus
  /\ set_active_pane(p, changes, "other")
  /\ deaf' = ~ subscribed
  /\ UNCHANGED <<focused, pending_active_pane, subscribed, deferred>>

(* The ActivePaneChanged arm, once the window is mapped: an event that is   *)
(* the head of the queue is an echo; any other one moves the focus, with    *)
(* the workspace manager borrowed: no entry is made for that RPC.           *)
consume_active_pane_self_echo(p) == pending_active_pane # <<>> /\ Head(pending_active_pane) = p

Echo(e, rest) ==
  /\ consume_active_pane_self_echo(e.pane)
  /\ pending_active_pane' = Tail(pending_active_pane) /\ changes' = rest
  /\ deaf' = (deaf \/ (e.by = "other" /\ rest = <<>>))
  /\ UNCHANGED <<saved, focused>>

Apply(e, rest) ==
  /\ ~ consume_active_pane_self_echo(e.pane)
  /\ IF e.pane # "none" THEN grab_focus(e.pane, rest, TRUE)
     ELSE changes' = rest /\ UNCHANGED <<saved, focused, pending_active_pane, deaf>>

ActivePaneChanged ==
  /\ deferred = {} /\ changes # <<>>
  /\ Echo(Head(changes), Tail(changes)) \/ Apply(Head(changes), Tail(changes))
  /\ UNCHANGED <<subscribed, deferred>>

FocusNext ==
  \/ subscribe_layout \/ ActivePaneChanged
  \/ \E p \in Leaves : focus_when_mapped(p) \/ UserFocuses(p)
  \/ \E p \in Leaves \cup {"none"} : OtherFocuses(p)

FocusSpec == FocusInit /\ [][FocusNext]_focusVars

(* What the window and the daemon take for the active pane is the same      *)
(* whenever no event is on its way, whoever moved the focus and in whatever *)
(* order the echoes and other clients' changes were handled; while the      *)
(* window's own change is the last one on its way, already.  The exceptions *)
(* are those of the code: the RPC of the newest change failed, another      *)
(* client's newest change came before the subscription or was taken for an  *)
(* echo (a restored pane's RPC changes nothing and leaves its entry in the  *)
(* queue), or another client has cleared the pointer.                       *)
FocusSettles ==
  (~ deaf /\ (changes = <<>> \/ changes[Len(changes)].by = "window")) => saved \in {focused, "none"}

(* app.rs: "a head-of-queue match identifies a self-echo and we skip the    *)
(* apply": the window's own change, coming back, does not move the focus.   *)
EchoesAreSkipped ==
  [][(ActivePaneChanged /\ Head(changes).by = "window") => focused' = focused]_focusVars
=============================================================================
