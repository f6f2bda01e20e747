---------------------------- MODULE RpcHandlers ----------------------------
(* The socket handlers that take the manager's mutex twice: they look       *)
(* something up in a copy of the layout, or create a workspace, and act on   *)
(* it once others may have had the mutex (socket/src/handlers.rs).  One      *)
(* client's calls are followed; what others do, in however many steps, is    *)
(* any sequence of the manager's operations.                                 *)
EXTENDS SessionManager

VARIABLE request   \* the followed call, between its two critical sections

handlerVars == <<vars, request>>

NoRequest == [op |-> "none"]

HandlersInit == Init /\ request = NoRequest

(* The first half changes nothing but what the handler knows; a call that is *)
(* answered with an error ends likewise.                                     *)
Knows(r) ==
  /\ request' = r /\ sent' = <<>>
  /\ UNCHANGED <<panes, pane_order, layout, byte_logs, log_files, drain, dups>>
Refused == Knows(NoRequest)
Answered == request' = NoRequest

(* Where a tab is, and which tabs have a pane as a leaf                       *)
Positions == {x \in Indexes(workspaces) \X (0 .. Cardinality(TabIds) - 1) : x[2] < Len(tabs[WorkspaceAt(x[1])])}
TabAt(x) == tabs[WorkspaceAt(x[1])][x[2] + 1]
find_tab_for_pane(p) == {t \in LiveTabs : p \in Leaves(t)}

(* handle_focus_tab                                                          *)
LookForTab(x) ==
  /\ request = NoRequest /\ x \in Positions
  /\ Knows([op |-> "focus_tab", tab |-> TabAt(x), at |-> x])

SetActiveTab ==
  /\ request.op = "focus_tab"
  /\ IF request.at \in Positions THEN set_active_tab(request.at[1], request.at[2]) /\ Answered ELSE Refused

(* handle_close_pane closes the tab of a pane that is its only leaf, and     *)
(* handle_close_tab, given a pane, in any case.  Their fallback for a pane in *)
(* no tab is never needed (RegisteredPaneHasLeaf).                           *)
SlipFirstLeaf(t, p) == pane_tree[t][1] = p
is_sole_in_tab(t, p) == Cardinality(Leaves(t)) <= 1

LookForPane(p) ==
  /\ request = NoRequest /\ p \in panes
  /\ \E t \in find_tab_for_pane(p), whole_tab \in BOOLEAN :
       Knows([op |-> IF whole_tab \/ is_sole_in_tab(t, p) THEN "close_tab" ELSE "close_pane",
              pane |-> p, tab |-> t, spared |-> IF whole_tab THEN {} ELSE Leaves(t) \ {p}])

CloseTab ==
  /\ request.op = "close_tab"
  /\ IF request.tab \in LiveTabs
     THEN \E w \in Live : \E i \in DOMAIN tabs[w] : tabs[w][i] = request.tab /\ close_tab(w, i) /\ Answered
     ELSE Refused

CloseLeaf ==
  /\ request.op = "close_pane"
  /\ IF request.pane \in panes THEN close_pane(request.pane) /\ Answered ELSE Refused

(* handle_create_workspace: the tab is made by index, or not at all          *)
CreateWorkspace(w) ==
  /\ request = NoRequest /\ create_workspace(w)
  /\ request' = [op |-> "seed", workspace |-> w, at |-> Len(workspaces)]

SeedTab ==
  /\ request.op = "seed"
  /\ \/ Refused
     \/ \E t \in TabIds, p \in PaneIds : create_tab(request.at, t, p) /\ Answered

HandlerStep ==
  \/ \E x \in Positions : LookForTab(x)
  \/ \E p \in PaneIds : LookForPane(p)
  \/ \E w \in WorkspaceIds : CreateWorkspace(w)
  \/ SetActiveTab \/ CloseTab \/ CloseLeaf \/ SeedTab

(* Everyone else.  An id the handler knows is not made anew.                  *)
Known == IF "tab" \in DOMAIN request THEN {request.tab} ELSE {}
OthersCall == Next /\ UNCHANGED request /\ Known \cap (LiveTabs' \ LiveTabs) = {}

HandlersNext == HandlerStep \/ OthersCall

HandlersSpec == HandlersInit /\ [][HandlersNext]_handlerVars

-----------------------------------------------------------------------------

(* Whatever others do between its two halves - close the tab, split the pane, *)
(* close a sibling, delete the workspace - a call that closes a pane ends     *)
(* with the pane unregistered, has touched no pane of another tab, and        *)
(* close_pane has kept the siblings it saw.  A sibling that came after the    *)
(* look is lost with the tab.                                                *)
ClosesAreExact ==
  [][request # NoRequest /\ request' = NoRequest /\ "pane" \in DOMAIN request =>
       /\ request.pane \notin panes'
       /\ panes \ panes' \subseteq Leaves(request.tab) \ request.spared]_handlerVars
=============================================================================
