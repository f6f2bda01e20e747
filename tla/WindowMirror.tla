---------------------------- MODULE WindowMirror ----------------------------
(***************************************************************************)
(* A window and its daemon.  The GTK process (crates/forgetty-gtk/app.rs)  *)
(* keeps a copy of the layout in widgets: workspaces, their tab pages and  *)
(* the panes of each page.  What the user does is an RPC answered while    *)
(* the main loop waits, followed by the same change to the widgets; what   *)
(* anybody else does arrives later, in layout events drained by a timer    *)
(* and in the end of a pane's output stream.                               *)
(*                                                                         *)
(* The daemon's layout is the one of SessionManager without what the       *)
(* window does not look at; one action here is a user's gesture, a         *)
(* handler another client calls, a shell that exits, or one callback of    *)
(* the main loop.  Of the events only those are queued that a handler arm  *)
(* acts on.  Uuid::new_v4 is some unused id: which one makes no            *)
(* difference.                                                             *)
(***************************************************************************)
EXTENDS Integers, Sequences, FiniteSets, SequencesExt

CONSTANTS
  Panes, Spaces,        \* pane and workspace UUIDs
  NoTab,                \* a page whose tab the window does not know
  MaxQueue,             \* bound: layout events on their way to the window
  MaxTorn               \* bound: windows torn off

VARIABLES
  served,     \* the daemon: its workspaces, active_workspace, registered panes
  views,      \* WorkspaceManagerInner.workspaces: ids and pages
  front,      \* WorkspaceManagerInner.active_index
  listed,     \* widgets, as <<tab, pane>>, with an entry in tab_states
  torn,       \* pages dragged out into windows of their own
  events,     \* layout events not handled yet, oldest first
  echoes,     \* WorkspaceManagerInner.pending_reorders
  open,       \* the window is open
  unseen,     \* history: panes and workspaces of the daemon's the window was
              \* never told of or has forgotten
  strayed     \* history: window and daemon mean different workspaces by an
              \* index, see Stray

mirrorVars == <<served, views, front, listed, torn, events, echoes, open, unseen, strayed>>

PanesIn(pages) == UNION {pages[k].panes : k \in DOMAIN pages}
AllPanes(v) == UNION {PanesIn(v[i].pages) : i \in DOMAIN v}
WidgetsOf(page) == {page.tab} \X page.panes
WidgetsIn(pages) == UNION {WidgetsOf(pages[k]) : k \in DOMAIN pages}
AllWidgets(v) == UNION {WidgetsIn(v[i].pages) : i \in DOMAIN v}
Pos(s) == 0 .. Len(s) - 1

TreePanes == AllPanes(served.spaces)
ShownPanes == AllPanes(views) \cup UNION {g.panes : g \in torn}

(* Ids that nothing refers to any more.  A tab goes by the pane it was       *)
(* created with.                                                             *)
TabsIn(v) == UNION {{v[i].pages[k].tab : k \in DOMAIN v[i].pages} : i \in DOMAIN v}
Heard == {e[3] : e \in {x \in ToSet(events) : x[1] = "TabCreated"}}
UnusedPanes == Panes \ (served.live \cup TreePanes \cup ShownPanes \cup Heard
                          \cup TabsIn(served.spaces) \cup TabsIn(views) \cup {g.tab : g \in torn})
SpacesIn(d) == {d.spaces[i].id : i \in DOMAIN d.spaces}
UnusedSpaces == Spaces \ (SpacesIn(served)
                           \cup {views[i].id : i \in DOMAIN views}
                           \cup {e[2] : e \in {x \in ToSet(events) : x[1] = "WorkspaceDeleted"}})
NewPane == CHOOSE p \in UnusedPanes : TRUE
NewSpace == CHOOSE w \in UnusedSpaces : TRUE
CanCreate == UnusedPanes # {}

Page(t, ps) == [tab |-> t, panes |-> ps]
NewPage(p) == Page(p, {p})
TabCreated(idx, p) == <<"TabCreated", idx, p>>

MirrorInit ==
  \E p \in Panes, w \in Spaces :
    LET one == <<[id |-> w, pages |-> <<NewPage(p)>>]>>
    IN /\ p = CHOOSE x \in Panes : TRUE
       /\ w = CHOOSE x \in Spaces : TRUE
       /\ served = [spaces |-> one, active |-> 0, live |-> {p}]
       /\ views = one /\ front = 0 /\ listed = AllWidgets(one)
       /\ torn = {} /\ events = <<>> /\ echoes = <<>>
       /\ open = TRUE /\ unseen = {} /\ strayed = FALSE

-----------------------------------------------------------------------------
(* The daemon.  An outcome of a handler is its new state and its events; of  *)
(* what it made, `new` is nothing the window hears of.                       *)

Outcome(d, log) == [daemon |-> d, log |-> log]
AnswerUnseen(o, new) ==
  /\ served' = o.daemon /\ events' = events \o o.log
  /\ unseen' = (unseen \cup new) \cap (o.daemon.live \cup SpacesIn(o.daemon))
Answer(o) == AnswerUnseen(o, {})

(* PushTab: the tab goes to the workspace at this index, whichever it is.    *)
WithTab(idx, p) ==
  Outcome([served EXCEPT !.spaces[idx + 1].pages = Append(@, NewPage(p)),
                         !.live = @ \cup {p}],
          <<TabCreated(idx, p)>>)

(* A removal that empties a workspace which is not the only one seeds it     *)
(* with a fresh tab, unless the spawn fails: here, when no id is left.       *)
WithoutTab(i, k) ==
  LET pages == served.spaces[i].pages
      d == [served EXCEPT !.spaces[i].pages = RemoveAt(pages, k),
                          !.live = @ \ pages[k].panes]
  IN IF Len(pages) > 1 \/ Len(served.spaces) = 1 \/ ~ CanCreate THEN Outcome(d, <<>>)
     ELSE Outcome([d EXCEPT !.spaces[i].pages = <<NewPage(NewPane)>>,
                            !.live = @ \cup {NewPane}],
                  <<TabCreated(i - 1, NewPane)>>)

(* Where find_tab_for_pane finds the pane, as <<workspace, tab>>.            *)
Places(p) ==
  UNION {{<<i, k>> : k \in {n \in DOMAIN served.spaces[i].pages : p \in served.spaces[i].pages[n].panes}}
           : i \in DOMAIN served.spaces}

Tree(ik) == served.spaces[ik[1]].pages[ik[2]].panes

(* handle_close_tab by pane: refused if the pane is not registered.          *)
CloseTabOf(p) ==
  IF p \notin served.live THEN Outcome(served, <<>>)
  ELSE LET ik == CHOOSE x \in Places(p) : TRUE IN WithoutTab(ik[1], ik[2])

(* SessionManager::close_pane: the tab goes only if the pane is all of its   *)
(* tree; a leaf of a split stays in the tree of a pane no longer registered. *)
DropPane(p) ==
  LET ik == CHOOSE x \in Places(p) : TRUE
  IN IF Tree(ik) = {p} THEN WithoutTab(ik[1], ik[2])
     ELSE Outcome([served EXCEPT !.live = @ \ {p}], <<>>)

(* split_pane: a leaf more in the tree of p.                                 *)
WithLeaf(p, q) ==
  LET ik == CHOOSE x \in Places(p) : TRUE
  IN Outcome([served EXCEPT !.spaces[ik[1]].pages[ik[2]].panes = @ \cup {q}, !.live = @ \cup {q}], <<>>)

(* handle_close_pane                                                         *)
ClosePaneOf(p) == IF p \notin served.live THEN Outcome(served, <<>>) ELSE DropPane(p)

Swap(s, i, j) == [s EXCEPT ![i] = s[j], ![j] = s[i]]
Follow(active, i, j) == CASE active = i -> j [] active = j -> i [] OTHER -> active
AfterRemoval(active, i, n) == IF active > i THEN active - 1 ELSE IF active >= n THEN n - 1 ELSE active

MovedSpaces(i, j) ==
  Outcome([served EXCEPT !.spaces = Swap(@, i + 1, j + 1), !.active = Follow(@, i, j)],
          <<<<"WorkspacesReordered", i, j>>>>)

(* create_workspace appends it, with a tab.                                  *)
NewView(w, p) == [id |-> w, pages |-> <<NewPage(p)>>]
WithSpace(w, p) ==
  Outcome([served EXCEPT !.spaces = Append(@, NewView(w, p)), !.live = @ \cup {p}],
          <<TabCreated(Len(served.spaces), p)>>)

(* duplicate_workspace: a copy with as many tabs right after the source; it  *)
(* becomes the active one.                                                   *)
CopyOf(i, w, ps) ==
  [id |-> w, pages |-> [k \in DOMAIN served.spaces[i + 1].pages |-> NewPage(ps[k])]]
WithCopy(i, w, ps) ==
  LET new == CopyOf(i, w, ps)
  IN Outcome([spaces |-> InsertAt(served.spaces, i + 2, new), active |-> i + 1,
              live |-> served.live \cup PanesIn(new.pages)],
             [k \in DOMAIN new.pages |-> TabCreated(i + 1, ps[k])])
CanCopy(i) == UnusedSpaces # {} /\ Cardinality(UnusedPanes) >= Len(served.spaces[i + 1].pages)

DeletedSpace(i) ==
  LET rest == RemoveAt(served.spaces, i + 1)
  IN Outcome([spaces |-> rest,
              active |-> AfterRemoval(served.active, i, Len(rest)),
              live |-> served.live \ PanesIn(served.spaces[i + 1].pages)],
             <<<<"WorkspaceDeleted", served.spaces[i + 1].id>>>>)

-----------------------------------------------------------------------------
(* What the user does.  An index the window sends means another workspace to *)
(* the daemon if an event that shifts indices is still on its way, or if the *)
(* daemon has a workspace the window does not know of before or between the  *)
(* others; an index in an event means another workspace to the window if a   *)
(* gesture has shifted its own meanwhile.  From there nothing brings them    *)
(* together again, and what happens then is not modelled.                    *)
Reorders == {k \in DOMAIN events : events[k][1] = "WorkspacesReordered"}
ForeignShift ==
  \/ Cardinality(Reorders) > Len(echoes)
  \/ \E e \in ToSet(events), i \in DOMAIN views : e = <<"WorkspaceDeleted", views[i].id>>
TabOnItsWay == \E e \in ToSet(events) : e[1] = "TabCreated"
Stray(also) == strayed' = (strayed \/ ForeignShift \/ also)

Room == open /\ ~ strayed /\ Len(events) < MaxQueue

(* new_tab, then the page.  subscribe_output may fail: the tab's own event   *)
(* builds the page then.                                                     *)
add_new_tab ==
  LET p == NewPane
  IN /\ Room /\ CanCreate /\ front \in Pos(served.spaces)
     /\ Answer(WithTab(front, p))
     /\ \/ /\ views' = [views EXCEPT ![front + 1].pages = Append(@, NewPage(p))]
           /\ listed' = listed \cup WidgetsOf(NewPage(p))
        \/ UNCHANGED <<views, listed>>
     /\ Stray(FALSE)
     /\ UNCHANGED <<front, torn, echoes, open>>

(* The duplicate is entered in a tab_id_map nobody else reads, so that its   *)
(* own TabCreated builds a second page for it.                               *)
duplicate_tab ==
  LET p == NewPane
      page == Page(NoTab, {p})
  IN /\ Room /\ CanCreate /\ front \in Pos(served.spaces)
     /\ views[front + 1].pages # <<>>
     /\ Answer(WithTab(front, p))
     /\ views' = [views EXCEPT ![front + 1].pages = Append(@, page)]
     /\ listed' = listed \cup WidgetsOf(page)
     /\ Stray(FALSE)
     /\ UNCHANGED <<front, torn, echoes, open>>

(* The new leaf next to the focused one, in the daemon's tree and in the     *)
(* page.  If the stream cannot be had the daemon keeps the pane.             *)
split_pane(k, p) ==
  LET page == views[front + 1].pages[k]
      q == NewPane
  IN /\ Room /\ CanCreate
     /\ p \in page.panes \cap served.live
     /\ \/ /\ Answer(WithLeaf(p, q))
           /\ views' = [views EXCEPT ![front + 1].pages[k].panes = @ \cup {q}]
           /\ listed' = listed \cup {<<page.tab, q>>}
        \/ AnswerUnseen(WithLeaf(p, q), {q}) /\ UNCHANGED <<views, listed>>
     /\ Stray(FALSE)
     /\ UNCHANGED <<front, torn, echoes, open>>


RemovePage(i, k) ==
  IF Len(views[i].pages) = 1
  THEN /\ IF i - 1 # front THEN UNCHANGED <<views, open>>
          ELSE IF Len(views) = 1 THEN open' = FALSE /\ UNCHANGED views
          ELSE views' = [views EXCEPT ![i].pages = <<>>] /\ UNCHANGED open
  ELSE views' = [views EXCEPT ![i].pages = RemoveAt(@, k)] /\ UNCHANGED open

close_pane_by_name(i, k, p) ==
  LET page == views[i].pages[k]
  IN /\ <<page.tab, p>> \in WidgetsOf(page) \cap listed
     /\ listed' = listed \ {<<page.tab, p>>}
     /\ IF page.panes = {p}
        THEN Answer(CloseTabOf(p)) /\ RemovePage(i, k)
        ELSE /\ Answer(ClosePaneOf(p))
             /\ views' = [views EXCEPT ![i].pages[k].panes = @ \ {p}]
             /\ UNCHANGED open
     /\ UNCHANGED <<front, torn, echoes>>

close_focused_pane ==
  /\ Room
  /\ \E k \in DOMAIN views[front + 1].pages :
       \E p \in views[front + 1].pages[k].panes \cap served.live :
         close_pane_by_name(front + 1, k, p)
  /\ Stray(FALSE)

(* The end of a pane's output stream reaches its widget.                     *)
on_exit(p) ==
  /\ open /\ ~ strayed
  /\ p \notin served.live
  /\ \E i \in DOMAIN views : \E k \in DOMAIN views[i].pages : close_pane_by_name(i, k, p)
  /\ UNCHANGED strayed

(* The close button of a tab: close_tab for every pane of the page, of which *)
(* the first still registered closes the tab.                                *)
close_page(k) ==
  LET pages == views[front + 1].pages
      mine == {p \in pages[k].panes \cap served.live : <<pages[k].tab, p>> \in listed}
  IN /\ Room /\ k \in DOMAIN pages
     /\ IF mine = {} THEN UNCHANGED <<served, events, unseen>>
        ELSE Answer(CloseTabOf(CHOOSE p \in mine : TRUE))
     /\ listed' = listed \ WidgetsOf(pages[k])
     /\ open' = (Len(pages) > 1 \/ Len(views) > 1)
     /\ views' = [views EXCEPT ![front + 1].pages = RemoveAt(@, k)]
     /\ Stray(FALSE)
     /\ UNCHANGED <<front, torn, echoes>>

-----------------------------------------------------------------------------
(* Workspaces *)

switch_workspace(i) ==
  /\ Room /\ i \in Pos(views) /\ i # front
  /\ front' = i
  /\ served' = IF i \in Pos(served.spaces) THEN [served EXCEPT !.active = i] ELSE served
  /\ Stray(FALSE)
  /\ UNCHANGED <<views, listed, torn, events, echoes, open, unseen>>

(* The daemon appends the workspace with a tab, then the window does; the    *)
(* daemon is not told which workspace is in front.  Without its stream the   *)
(* workspace is never shown.                                                 *)
create_and_switch_to_new_workspace ==
  LET w == NewSpace
      p == NewPane
  IN /\ Room /\ CanCreate /\ UnusedSpaces # {}
     /\ \/ /\ Answer(WithSpace(w, p))
           /\ views' = Append(views, NewView(w, p))
           /\ front' = Len(views)
           /\ listed' = listed \cup WidgetsOf(NewPage(p))
           /\ Stray(Len(served.spaces) # Len(views))
        \/ /\ AnswerUnseen(WithSpace(w, p), {w})
           /\ UNCHANGED <<views, front, listed>> /\ Stray(FALSE)
     /\ UNCHANGED <<torn, echoes, open>>

(* In front at once.                                                         *)
duplicate_workspace(i) ==
  LET w == NewSpace
      ps == SetToSeq(UnusedPanes)
      at == IF i + 1 < Len(views) THEN i + 1 ELSE Len(views)
  IN /\ Room /\ i \in Pos(views) /\ i \in Pos(served.spaces) /\ CanCopy(i)
     /\ Answer(WithCopy(i, w, ps))
     /\ views' = InsertAt(views, at + 1, CopyOf(i, w, ps))
     /\ front' = at
     /\ listed' = listed \cup WidgetsIn(CopyOf(i, w, ps).pages)
     /\ Stray(TabOnItsWay)
     /\ UNCHANGED <<torn, echoes, open>>

(* move_workspace_up and move_workspace_down                                 *)
SlipNoEcho(i, j) == UNCHANGED echoes
AwaitEcho(i, j) == echoes' = Append(echoes, <<i, j>>)

move_workspace(i, j) ==
  /\ Room /\ {i, j} \subseteq Pos(views) \cap Pos(served.spaces) /\ (j = i - 1 \/ j = i + 1)
  /\ Answer(MovedSpaces(i, j))
  /\ views' = Swap(views, i + 1, j + 1)
  /\ front' = Follow(front, i, j)
  /\ AwaitEcho(i, j)
  /\ Stray(TabOnItsWay)
  /\ UNCHANGED <<listed, torn, open>>

(* do_delete_workspace_at_index: refused by either side if it is the last.   *)
FrontAfter(i) == AfterRemoval(front, i, Len(views) - 1)

do_delete_workspace_at_index(i) ==
  /\ Room /\ i \in Pos(views) /\ Len(views) > 1
  /\ i \in Pos(served.spaces) /\ Len(served.spaces) > 1
  /\ Answer(DeletedSpace(i))
  /\ views' = RemoveAt(views, i + 1)
  /\ front' = FrontAfter(i)
  /\ listed' = listed \ WidgetsIn(views[i + 1].pages)
  /\ Stray(TabOnItsWay \/ echoes # <<>>)
  /\ UNCHANGED <<torn, echoes, open>>

(* The action "delete-workspace" closes the tab of every pane that has an    *)
(* entry, torn off or not, and takes the workspace out of the window; the    *)
(* daemon keeps it, with the tab it seeds.                                   *)
delete_current_workspace ==
  LET pages == served.spaces[front + 1].pages
      mine == {p \in PanesIn(pages) \cap served.live :
                 \E g \in ToSet(views[front + 1].pages) \cup torn : <<g.tab, p>> \in WidgetsOf(g) \cap listed}
      rest == SelectSeq(pages, LAMBDA g : g.panes \cap mine = {})
      closed == PanesIn(SelectSeq(pages, LAMBDA g : g.panes \cap mine # {}))
  IN /\ Room /\ CanCreate /\ Len(views) > 1 /\ front \in Pos(served.spaces)
     /\ LET seeds == rest = <<>> /\ mine # {}
        IN AnswerUnseen(
             Outcome([served EXCEPT
                        !.spaces[front + 1].pages = IF seeds THEN <<NewPage(NewPane)>> ELSE rest,
                        !.live = (@ \ closed) \cup IF seeds THEN {NewPane} ELSE {}],
                     IF seeds THEN <<TabCreated(front, NewPane)>> ELSE <<>>),
             {views[front + 1].id})
     /\ views' = RemoveAt(views, front + 1)
     /\ front' = FrontAfter(front)
     /\ listed' = listed \ WidgetsIn(views[front + 1].pages)
     /\ Stray(front + 1 < Len(views) \/ TabOnItsWay \/ echoes # <<>>)
     /\ UNCHANGED <<torn, echoes, open>>

-----------------------------------------------------------------------------
(* Windows *)

(* A page dragged out of the tab bar; its panes stay in tab_states and its   *)
(* callbacks keep the TabView it came from.                                  *)
create_window(k) ==
  /\ Room /\ Cardinality(torn) < MaxTorn /\ k \in DOMAIN views[front + 1].pages
  /\ torn' = torn \cup {views[front + 1].pages[k]}
  /\ views' = [views EXCEPT ![front + 1].pages = RemoveAt(@, k)]
  /\ UNCHANGED <<served, front, listed, events, echoes, open, unseen, strayed>>

(* Closing that window tells the daemon nothing: its shells run on, unseen.  *)
(* The entries they leave in tab_states are read by nothing any more.        *)
(* (Not modelled: a duplicate closed so before its own TabCreated.)          *)
CloseDetached(g) ==
  /\ Room /\ g \in torn /\ (g.tab = NoTab => g.panes \cap Heard = {})
  /\ torn' = torn \ {g}
  /\ listed' = listed \ WidgetsOf(g)
  /\ unseen' = unseen \cup ((g.panes \cap served.live) \ AllPanes(views))
  /\ Stray(FALSE)
  /\ UNCHANGED <<served, views, front, events, echoes, open>>

(* A later window of the same session: its daemon has spawned a shell for    *)
(* every leaf of the saved layout, and the window builds a page for every    *)
(* tab.  A workspace without tabs is left out, which shifts the indices of   *)
(* those after it; a layout without tabs gets a fresh one.                   *)
build_widgets_from_layout ==
  LET kept == SelectSeq(served.spaces, LAMBDA x : x.pages # <<>>)
      fresh == <<[served.spaces[1] EXCEPT !.pages = <<NewPage(NewPane)>>]>>
      built == IF kept = <<>> THEN fresh ELSE kept
      all == IF kept = <<>> THEN fresh \o Tail(served.spaces) ELSE served.spaces
  IN /\ ~ open /\ ~ strayed /\ CanCreate
     /\ served' = [served EXCEPT !.spaces = all, !.live = AllPanes(all)]
     /\ views' = built
     /\ front' = IF served.active < Len(built) THEN served.active ELSE 0
     /\ listed' = AllWidgets(built)
     /\ torn' = {} /\ events' = <<>> /\ echoes' = <<>> /\ unseen' = {}
     /\ open' = TRUE
     /\ strayed' = (Len(built) < Len(all))

-----------------------------------------------------------------------------
(* handle_layout_event, one event of the queue *)

Handled(kind) == open /\ ~ strayed /\ events # <<>> /\ Head(events)[1] = kind /\ events' = Tail(events)

(* TabCreated: skipped if the workspace already has the tab, which stays in  *)
(* tab_id_map when its page goes; otherwise build_auto_spawned_tab_widget,   *)
(* which needs the pane to be there still.                                   *)
Knows(i, t) == t \in unseen \/ \E g \in ToSet(views[i].pages) \cup torn : g.tab = t

TabArrives ==
  LET idx == Head(events)[2]
      p == Head(events)[3]
  IN /\ Handled("TabCreated")
     /\ IF idx \in Pos(views) /\ ~ Knows(idx + 1, p) /\ p \in served.live
        THEN /\ views' = [views EXCEPT ![idx + 1].pages = Append(@, NewPage(p))]
             /\ listed' = listed \cup WidgetsOf(NewPage(p))
        ELSE UNCHANGED <<views, listed>>
     /\ UNCHANGED <<served, front, torn, echoes, open, unseen, strayed>>

(* WorkspaceDeleted, by id.  A window whose last workspace goes has none: it  *)
(* is not followed further.                                                  *)
WorkspaceDeleted ==
  /\ Handled("WorkspaceDeleted")
  /\ LET at == SelectInSeq(views, LAMBDA x : x.id = Head(events)[2])
     IN /\ strayed' = (at # 0 /\ Len(views) = 1)
        /\ IF at = 0 THEN UNCHANGED <<views, front, listed>>
           ELSE /\ views' = RemoveAt(views, at)
                /\ front' = AfterRemoval(front, at - 1, Len(views) - 1)
                /\ listed' = listed \ WidgetsIn(views[at].pages)
  /\ UNCHANGED <<served, torn, echoes, open, unseen>>

(* An index out of range ends the arm before the echo is consumed.           *)
IsEcho(i, j) == echoes # <<>> /\ Head(echoes) \in {<<i, j>>, <<j, i>>}

WorkspacesReordered ==
  LET i == Head(events)[2]
      j == Head(events)[3]
  IN /\ Handled("WorkspacesReordered")
     /\ IF ~ ({i, j} \subseteq Pos(views)) THEN UNCHANGED <<views, front, echoes>>
        ELSE IF IsEcho(i, j) THEN echoes' = Tail(echoes) /\ UNCHANGED <<views, front>>
        ELSE /\ views' = Swap(views, i + 1, j + 1)
             /\ front' = Follow(front, i, j)
             /\ UNCHANGED echoes
     /\ UNCHANGED <<served, listed, torn, open, unseen, strayed>>

handle_layout_event == TabArrives \/ WorkspaceDeleted \/ WorkspacesReordered

-----------------------------------------------------------------------------
(* Everybody else *)

ShellExits(p) ==
  /\ Room /\ p \in served.live
  /\ Answer(DropPane(p))
  /\ UNCHANGED <<views, front, listed, torn, echoes, open, strayed>>

(* Another client of the socket.  Of a pane it splits off and of a workspace *)
(* it creates the window hears nothing it acts on.                           *)
Hidden(i) == served.spaces[i + 1].id \in unseen

OtherSpaces ==
  \/ \E i, j \in Pos(served.spaces) :
       i # j /\ Answer(MovedSpaces(i, j)) /\ strayed' = (Hidden(i) # Hidden(j))
  \/ \E i \in Pos(served.spaces) :
       Len(served.spaces) > 1 /\ Answer(DeletedSpace(i)) /\ UNCHANGED strayed
  \/ /\ CanCreate /\ UnusedSpaces # {}
     /\ AnswerUnseen(WithSpace(NewSpace, NewPane), {NewSpace}) /\ UNCHANGED strayed
  \/ \E i \in Pos(served.spaces) :
       /\ CanCopy(i)
       /\ AnswerUnseen(WithCopy(i, NewSpace, SetToSeq(UnusedPanes)), {NewSpace})
       /\ strayed' = \E j \in i + 1 .. Len(served.spaces) - 1 : ~ Hidden(j)

OtherPanes ==
  \/ CanCreate /\ \E i \in Pos(served.spaces) : Answer(WithTab(i, NewPane))
  \/ \E p \in served.live : Answer(CloseTabOf(p)) \/ Answer(ClosePaneOf(p))
  \/ CanCreate /\ \E p \in served.live : AnswerUnseen(WithLeaf(p, NewPane), {NewPane})

Elsewhere ==
  /\ Room
  /\ OtherSpaces \/ (OtherPanes /\ UNCHANGED strayed)
  /\ UNCHANGED <<views, front, listed, torn, echoes, open>>

Gesture ==
  \/ add_new_tab \/ duplicate_tab \/ close_focused_pane
  \/ \E k \in DOMAIN views[front + 1].pages :
       close_page(k) \/ create_window(k) \/ \E p \in Panes : split_pane(k, p)
  \/ \E i \in Pos(views) :
       \/ switch_workspace(i) \/ duplicate_workspace(i) \/ do_delete_workspace_at_index(i)
       \/ \E j \in Pos(views) : move_workspace(i, j)
  \/ create_and_switch_to_new_workspace \/ delete_current_workspace
  \/ \E g \in torn : CloseDetached(g)

MirrorNext ==
  \/ (Room /\ Gesture) \/ build_widgets_from_layout
  \/ handle_layout_event \/ Elsewhere
  \/ \E p \in Panes : on_exit(p) \/ ShellExits(p)

MirrorSpec == MirrorInit /\ [][MirrorNext]_mirrorVars

(***************************************************************************)
(* Properties                                                              *)
(***************************************************************************)
MirrorTypeOK ==
  /\ served.live \subseteq Panes /\ unseen \subseteq served.live \cup SpacesIn(served)
  /\ \A x \in listed : x[1] \in Panes \cup {NoTab} /\ x[2] \in Panes
  /\ served.active \in Pos(served.spaces) /\ (front \in Pos(views) \/ (views = <<>> /\ strayed))
  /\ Len(events) <= MaxQueue + Cardinality(Panes)
  /\ open \in BOOLEAN /\ strayed \in BOOLEAN

TornPanes == UNION {g.panes : g \in torn}

(* Nothing is on its way: no event, and no end of a stream to a widget that  *)
(* waits for it.                                                             *)
Settled ==
  /\ open /\ events = <<>>
  /\ \A w \in AllWidgets(views) \cap listed : w[2] \in served.live

(* Whatever the user, other clients and the shells did in whatever order,    *)
(* once the events are handled the window's workspaces are the daemon's, in  *)
(* the daemon's order, and each has widgets for exactly the shells that run  *)
(* in it.  The code makes these exceptions.  Not shown are the panes other   *)
(* clients split off or whose stream the window could not get, and those     *)
(* torn off or closed with the window they were torn into; nor are           *)
(* workspaces other clients made or the user took away by "delete-workspace" *)
(* (which the daemon keeps), as long as all of them come after the window's. *)
(* Nothing is claimed once the two mean different workspaces by an index     *)
(* (`strayed`): a workspace of that kind comes before one of the window's; a *)
(* gesture shifts indices, or sends one, while an event that names or shifts *)
(* one is on its way; the window was built without a workspace that has no   *)
(* tabs; or it has lost its last workspace.  A tab made by duplicate_tab has *)
(* two pages until one of them is closed, and a page that ended in a         *)
(* workspace not in front may stay there with a pane that does not run.      *)
WindowShowsDaemon ==
  (Settled /\ ~ strayed) =>
    /\ Len(views) <= Len(served.spaces)
    /\ \A i \in DOMAIN views :
         /\ views[i].id = served.spaces[i].id
         /\ (PanesIn(views[i].pages) \cap served.live) \ TornPanes
              = (PanesIn(served.spaces[i].pages) \cap served.live) \ (TornPanes \cup unseen)
    /\ \A i \in DOMAIN served.spaces \ DOMAIN views : served.spaces[i].id \in unseen

(* The window closes by itself only when no shell is left that it shows or   *)
(* will show: one that runs on is in a window of its own, its tab is still   *)
(* on its way, or it is one of those WindowShowsDaemon excepts: in a pane or *)
(* in a workspace the window was never told of or has forgotten.             *)
Overlooked ==
  unseen \cup UNION {PanesIn(served.spaces[i].pages) : i \in {n \in DOMAIN served.spaces : Hidden(n - 1)}}
=============================================================================
