------------------------------ MODULE Sidebar ------------------------------
(* The workspace sidebar of a window (crates/forgetty-gtk/src/app.rs): names *)
(* and colours of the workspaces, which the daemon owns, the window copies   *)
(* and the rows of the list show.  The rows are widgets: refresh_workspace_- *)
(* sidebar builds them anew, everything else patches single labels and CSS   *)
(* classes.  A row's menu and the rename dialogs keep the index they were    *)
(* opened with while events of other clients go on changing the order.       *)
EXTENDS Integers, Sequences, FiniteSets, SequencesExt

CONSTANTS
  Ids,          \* workspace UUIDs
  Names,        \* workspace names
  Colors,       \* accent colours, without "none"
  MaxNews       \* bound: layout events on their way to the window

VARIABLES
  daemon,           \* the daemon's workspaces
  ws,               \* WorkspaceManagerInner.workspaces
  active_index,
  pending_reorders, \* moves of our own whose event is still to come
  rows,             \* the rows of the ListBox
  revealed,         \* the sidebar is open
  recolor,          \* idle callbacks that reapply colour classes
  menu,             \* the index the open row menu has captured
  dialog,           \* the open rename dialog: from where, and for which index
  window_title,     \* the workspace part of the window title
  news,             \* layout events not handled yet
  touched,          \* history: what has patched the rows since they were built
  unlisted,         \* history: workspaces at the daemon's end the window does not list
  parted            \* history: window and daemon have parted, see Part

sideVars == <<daemon, ws, active_index, pending_reorders, rows, revealed, recolor, menu, dialog,
              window_title, news, touched, unlisted, parted>>
apart == <<unlisted, parted>>
bar == <<rows, revealed, recolor, touched>>
popups == <<menu, dialog>>

None == -1
NoDialog == [from |-> "nowhere", at |-> None]
Space(id, name) == [id |-> id, name |-> name, color |-> "none"]
Positions(s) == 0 .. Len(s) - 1
Exchange(s, i, j) == [s EXCEPT ![i + 1] = s[j + 1], ![j + 1] = s[i + 1]]
Followed(i, j) == CASE active_index = i -> j [] active_index = j -> i [] OTHER -> active_index
WithoutIndex(s, i) == RemoveAt(s, i + 1)
AfterDelete(i) ==
  LET n == Len(ws) - 1
  IN IF active_index > i THEN active_index - 1 ELSE IF active_index >= n THEN n - 1 ELSE active_index

(* Two workspaces of one name, one of them coloured.                         *)
SideInit ==
  \E a, b \in Ids, c \in Colors :
    LET name == CHOOSE x \in Names : TRUE
    IN /\ a # b /\ ws = <<Space(a, name), [Space(b, name) EXCEPT !.color = c]>>
       /\ daemon = ws /\ active_index = 0 /\ pending_reorders = <<>>
       /\ rows = <<>> /\ revealed = FALSE /\ recolor = FALSE
       /\ menu = None /\ dialog = NoDialog /\ window_title = name
       /\ news = <<>> /\ touched = {} /\ unlisted = 0 /\ parted = FALSE

-----------------------------------------------------------------------------
(* The daemon: its new workspaces and the event; no event if nothing changed. *)
Told(d, event) == daemon' = d /\ news' = IF d = daemon THEN news ELSE Append(news, event)
Quiet(d) == daemon' = d /\ UNCHANGED news

rename_workspace(i, name) ==
  Told([daemon EXCEPT ![i + 1].name = name], [kind |-> "renamed", at |-> i, name |-> name])
set_workspace_color(i, c) ==
  Told([daemon EXCEPT ![i + 1].color = c], [kind |-> "color", id |-> daemon[i + 1].id, color |-> c])
reorder(i, j) == Told(Exchange(daemon, i, j), [kind |-> "reordered", from |-> i, to |-> j])
handle_delete_workspace(i) == Told(WithoutIndex(daemon, i), [kind |-> "deleted", id |-> daemon[i + 1].id])

-----------------------------------------------------------------------------
(* The rows *)

ClassesOf(w) == IF w.color = "none" THEN {} ELSE {w.id}
RowsOf(spaces, active) ==
  [k \in DOMAIN spaces |->
     [number |-> k, name |-> spaces[k].name, classes |-> ClassesOf(spaces[k]),
      marked |-> k - 1 = active, idx |-> k - 1]]

(* Opening the sidebar builds the rows anew, so those nobody sees are left    *)
(* out.                                                                       *)
refresh_workspace_sidebar ==
  rows' = (IF revealed' THEN RowsOf(ws', active_index') ELSE <<>>) /\ touched' = {}

(* Only the class of the workspace that now has the row is touched.          *)
Recolored(row, w) == [row EXCEPT !.classes = (@ \ {w.id}) \cup ClassesOf(w)]
rebuild_sidebar_rows_for_color(spaces) ==
  [k \in DOMAIN rows |-> IF k \in DOMAIN spaces THEN Recolored(rows[k], spaces[k]) ELSE rows[k]]
Relabelled(some, spaces) ==
  [k \in DOMAIN some |-> IF k \in DOMAIN spaces THEN [some[k] EXCEPT !.name = spaces[k].name] ELSE some[k]]
refresh_sidebar_row_labels(spaces) ==
  [k \in DOMAIN rows |->
     IF k \in DOMAIN spaces
     THEN [Recolored(rows[k], spaces[k]) EXCEPT !.number = k, !.name = spaces[k].name]
     ELSE rows[k]]

(* Workspaces are named in the title when there is more than one.            *)
update_window_title == window_title' = IF Len(ws') > 1 THEN ws'[active_index' + 1].name ELSE "none"

-----------------------------------------------------------------------------
(* Gestures.  The daemon and the window call a workspace by its place in     *)
(* their own list.  An index sent while an event that shifts places is under *)
(* way means another workspace to the daemon, and a gesture that shifts      *)
(* places gives the events under way another meaning: window and daemon      *)
(* part, and the code never brings them together again.  They part as well   *)
(* when one of them gains or loses a workspace that the other is not told    *)
(* of, unless it is the last one: then the places of the others still agree. *)
ForeignShifts ==
  \/ Cardinality({k \in DOMAIN news : news[k].kind = "reordered"}) > Len(pending_reorders)
  \/ \E e \in ToSet(news) : e.kind = "deleted" /\ \E k \in DOMAIN ws : ws[k].id = e.id
ByIndexOnItsWay(kinds) == \E e \in ToSet(news) : e.kind \in kinds
Part(also) == parted' = (parted \/ ForeignShifts \/ also) /\ UNCHANGED unlisted
InSight == Len(daemon) - unlisted

HasRoom == ~ parted /\ Len(news) < MaxNews
AtDesk == HasRoom /\ menu = None /\ dialog = NoDialog
Both(i) == i \in Positions(ws) \cap Positions(daemon)
Unused == Ids \ ({w.id : w \in ToSet(ws) \cup ToSet(daemon)}
                   \cup {e.id : e \in {x \in ToSet(news) : x.kind = "deleted"}})

toggle_workspace_sidebar ==
  /\ AtDesk
  /\ revealed' = ~ revealed
  /\ UNCHANGED <<daemon, ws, active_index, news, pending_reorders, recolor, popups, window_title, apart>>
  /\ refresh_workspace_sidebar

(* Alt+1..9, next and previous, and a click on a row.                        *)
switch_to(i) ==
  /\ AtDesk /\ i \in Positions(ws)
  /\ active_index' = i
  /\ UNCHANGED <<daemon, ws, news, pending_reorders, revealed, recolor, popups, apart>>
  /\ refresh_workspace_sidebar /\ update_window_title

(* The new workspace goes to the end, on both sides, and is in front; the    *)
(* daemon's end is another place when there are workspaces there the window  *)
(* does not list.                                                            *)
show_new_workspace_dialog(name) ==
  /\ AtDesk
  /\ \E id \in Unused :
       /\ ws' = Append(ws, Space(id, name))
       /\ Quiet(Append(daemon, Space(id, name)))
  /\ active_index' = Len(ws)
  /\ parted' = (unlisted # 0)
  /\ UNCHANGED <<pending_reorders, revealed, recolor, popups, unlisted>>
  /\ refresh_workspace_sidebar /\ update_window_title

(* The window's menu: the workspace in front.  Its panes are closed and it    *)
(* leaves the window, but the daemon is not asked to delete it, and neither   *)
(* are the rows built anew.                                                  *)
delete_current_workspace ==
  /\ AtDesk /\ Len(ws) > 1
  /\ ws' = WithoutIndex(ws, active_index) /\ active_index' = AfterDelete(active_index)
  /\ touched' = touched \cup {"list"}
  /\ unlisted' = unlisted + 1
  /\ parted' = (news # <<>> \/ active_index # Len(ws) - 1)
  /\ UNCHANGED <<daemon, news, pending_reorders, rows, revealed, recolor, popups>>
  /\ update_window_title

(* A row's menu captures the index the row was built with.                   *)
show_workspace_context_menu(k) ==
  /\ AtDesk /\ revealed /\ k \in DOMAIN rows
  /\ menu' = rows[k].idx
  /\ UNCHANGED <<daemon, ws, active_index, news, pending_reorders, bar, dialog, window_title, apart>>

Dismissed == menu' = None /\ UNCHANGED dialog
Dismiss ==
  /\ menu # None /\ Dismissed
  /\ UNCHANGED <<daemon, ws, active_index, news, pending_reorders, bar, window_title, apart>>

Chosen == HasRoom /\ menu # None /\ Both(menu)

(* The daemon first; then the window.  The popover stays open.               *)
apply_workspace_color(c) ==
  /\ Chosen
  /\ set_workspace_color(menu, c)
  /\ ws' = [ws EXCEPT ![menu + 1].color = c]
  /\ recolor' = TRUE
  /\ Part(FALSE)
  /\ UNCHANGED <<active_index, pending_reorders, rows, revealed, touched, popups, window_title>>

(* A copy after the source, without its colour, in front at once.            *)
duplicate_workspace(name) ==
  /\ Chosen /\ Dismissed
  /\ \E id \in Unused :
       /\ ws' = InsertAt(ws, menu + 2, Space(id, name))
       /\ Quiet(InsertAt(daemon, menu + 2, Space(id, name)))
  /\ active_index' = menu + 1
  /\ Part(ByIndexOnItsWay({"renamed", "reordered"}))
  /\ UNCHANGED <<pending_reorders, revealed, recolor>>
  /\ refresh_workspace_sidebar /\ update_window_title

move_workspace(j) ==
  /\ Chosen /\ Dismissed /\ (j = menu - 1 \/ j = menu + 1) /\ Both(j)
  /\ reorder(menu, j)
  /\ ws' = Exchange(ws, menu, j) /\ active_index' = Followed(menu, j)
  /\ pending_reorders' = Append(pending_reorders, <<menu, j>>)
  /\ Part(ByIndexOnItsWay({"renamed"}))
  /\ UNCHANGED <<revealed, recolor, window_title>>
  /\ refresh_workspace_sidebar

delete_workspace_at_index ==
  /\ Chosen /\ Dismissed /\ Len(ws) > 1 /\ Len(daemon) > 1
  /\ handle_delete_workspace(menu)
  /\ ws' = WithoutIndex(ws, menu) /\ active_index' = AfterDelete(menu)
  /\ Part(ByIndexOnItsWay({"renamed", "reordered"}))
  /\ UNCHANGED <<pending_reorders, revealed, recolor>>
  /\ refresh_workspace_sidebar /\ update_window_title

(* Rename, from the row's menu for its index or from the window's menu for   *)
(* the workspace in front.  Only the former touches the rows.                *)
show_rename_workspace_dialog ==
  /\ \/ AtDesk /\ dialog' = [from |-> "window", at |-> active_index] /\ UNCHANGED menu
     \/ /\ menu # None /\ menu \in Positions(ws)
        /\ dialog' = [from |-> "row", at |-> menu] /\ menu' = None
  /\ UNCHANGED <<daemon, ws, active_index, news, pending_reorders, bar, window_title, apart>>

Renamed(name) ==
  LET i == dialog.at
  IN /\ HasRoom /\ dialog # NoDialog /\ Both(i)
     /\ dialog' = NoDialog
     /\ rename_workspace(i, name)
     /\ ws' = [ws EXCEPT ![i + 1].name = name]
     /\ IF dialog.from = "row"
        THEN rows' = Relabelled(rebuild_sidebar_rows_for_color(ws'), ws') /\ UNCHANGED touched
        ELSE touched' = touched \cup {"name"} /\ UNCHANGED rows
     /\ Part(FALSE)
     /\ UNCHANGED <<active_index, pending_reorders, revealed, recolor, menu>>
     /\ update_window_title

Cancel ==
  /\ dialog # NoDialog /\ dialog' = NoDialog
  /\ UNCHANGED <<daemon, ws, active_index, news, pending_reorders, bar, menu, window_title, apart>>

RecolorIdle ==
  /\ recolor /\ recolor' = FALSE
  /\ rows' = rebuild_sidebar_rows_for_color(ws)
  /\ UNCHANGED <<daemon, ws, active_index, news, pending_reorders, revealed, touched, popups, window_title,
                 apart>>

-----------------------------------------------------------------------------
(* handle_layout_event *)

Handles(kind) ==
  /\ ~ parted /\ news # <<>> /\ Head(news).kind = kind /\ news' = Tail(news)
  /\ UNCHANGED <<daemon, revealed, popups, apart>>

(* By index; nothing is done if the name is already there.                   *)
WorkspaceRenamed ==
  LET i == Head(news).at
      name == Head(news).name
  IN /\ Handles("renamed")
     /\ IF i \notin Positions(ws) \/ ws[i + 1].name = name THEN UNCHANGED <<ws, rows, window_title>>
        ELSE /\ ws' = [ws EXCEPT ![i + 1].name = name]
             /\ rows' = IF i + 1 \in DOMAIN rows THEN [rows EXCEPT ![i + 1].name = name] ELSE rows
             /\ IF i = active_index THEN window_title' = IF Len(ws) > 1 THEN name ELSE "none"
                ELSE UNCHANGED window_title
     /\ UNCHANGED <<active_index, pending_reorders, recolor, touched>>

SlipFirstColored(id) == SelectInSeq(ws, LAMBDA w : w.color # "none")
Local(id) == SelectInSeq(ws, LAMBDA w : w.id = id)

WorkspaceColorChanged ==
  LET at == Local(Head(news).id)
      c == Head(news).color
  IN /\ Handles("color")
     /\ IF at = 0 \/ ws[at].color = c THEN UNCHANGED <<ws, recolor>>
        ELSE ws' = [ws EXCEPT ![at].color = c] /\ recolor' = TRUE
     /\ UNCHANGED <<active_index, pending_reorders, rows, touched, window_title>>

(* The row goes; the ones below keep their number and the index they have    *)
(* captured.                                                                 *)
WorkspaceDeleted ==
  LET at == Local(Head(news).id)
  IN /\ Handles("deleted")
     /\ IF at = 0 THEN UNCHANGED <<ws, active_index, rows, touched, window_title>>
        ELSE /\ ws' = RemoveAt(ws, at) /\ active_index' = AfterDelete(at - 1)
             /\ rows' = IF at \in DOMAIN rows THEN RemoveAt(rows, at) ELSE rows
             /\ touched' = touched \cup {"index"}
             /\ update_window_title
     /\ UNCHANGED <<pending_reorders, recolor>>

(* Another client's move patches labels and classes; marks stay, and so does *)
(* the class of the workspace that had the row.                              *)
WorkspacesReordered ==
  LET i == Head(news).from
      j == Head(news).to
  IN /\ Handles("reordered")
     /\ IF ~ ({i, j} \subseteq Positions(ws)) THEN UNCHANGED <<ws, active_index, pending_reorders, rows, touched>>
        ELSE IF pending_reorders # <<>> /\ Head(pending_reorders) \in {<<i, j>>, <<j, i>>}
        THEN pending_reorders' = Tail(pending_reorders) /\ UNCHANGED <<ws, active_index, rows, touched>>
        ELSE /\ ws' = Exchange(ws, i, j) /\ active_index' = Followed(i, j)
             /\ rows' = refresh_sidebar_row_labels(ws')
             /\ touched' = (touched \ {"name"}) \cup {"mark"}
             /\ UNCHANGED pending_reorders
     /\ UNCHANGED <<recolor, window_title>>

-----------------------------------------------------------------------------
(* The daemon serves any client.  Of these calls it tells the window, which   *)
(* has no place for a workspace it does not list.                            *)
OtherChange ==
  \E i, j \in Positions(daemon) :
    /\ \/ i = j /\ \E name \in Names : rename_workspace(i, name)
       \/ i = j /\ \E c \in Colors \cup {"none"} : set_workspace_color(i, c)
       \/ i = j /\ Len(daemon) > 1 /\ handle_delete_workspace(i)
       \/ i # j /\ reorder(i, j)
    /\ parted' = (i >= InSight \/ j >= InSight \/ (InSight = 1 /\ Len(daemon') < Len(daemon)))
    /\ UNCHANGED unlisted

(* create_workspace and duplicate_workspace: the event there is for the new   *)
(* panes and tabs only, and the window shows no workspace for them.          *)
OtherSpace ==
  \E id \in Unused, name \in Names :
    /\ \/ Quiet(Append(daemon, Space(id, name))) /\ parted' = FALSE
       \/ \E i \in Positions(daemon) :
            Quiet(InsertAt(daemon, i + 2, Space(id, name))) /\ parted' = (i + 1 < InSight)
    /\ unlisted' = unlisted + 1

OtherClient ==
  /\ HasRoom /\ (OtherChange \/ OtherSpace)
  /\ UNCHANGED <<ws, active_index, pending_reorders, bar, popups, window_title>>

SideNext ==
  \/ toggle_workspace_sidebar \/ Dismiss \/ Cancel
  \/ delete_workspace_at_index \/ delete_current_workspace \/ show_rename_workspace_dialog
  \/ \E i \in Positions(ws) : switch_to(i) \/ move_workspace(i)
  \/ \E k \in DOMAIN rows : show_workspace_context_menu(k)
  \/ \E c \in Colors \cup {"none"} : apply_workspace_color(c)
  \/ \E name \in Names :
       show_new_workspace_dialog(name) \/ duplicate_workspace(name) \/ Renamed(name)
  \/ RecolorIdle \/ OtherClient
  \/ WorkspaceRenamed \/ WorkspaceColorChanged \/ WorkspaceDeleted \/ WorkspacesReordered

SideSpec == SideInit /\ [][SideNext]_sideVars

(***************************************************************************)
(* Properties                                                              *)
(***************************************************************************)
SideTypeOK ==
  /\ active_index \in Positions(ws) /\ Len(news) <= MaxNews
  /\ menu \in -1 .. Cardinality(Ids) - 1 /\ dialog.at \in -1 .. Cardinality(Ids) - 1
  /\ touched \subseteq {"name", "index", "mark", "list"}
  /\ unlisted \in 0 .. Cardinality(Ids)

(* Names, colours and order are the daemon's, whoever changed them, once the *)
(* events are handled: of the workspaces the window lists, which are all but *)
(* the last `unlisted'.  Those were created, or duplicated at the end, by    *)
(* another client, or deleted with delete_current_workspace here.  Nothing   *)
(* is said once they have parted: after an index has met a list it was not   *)
(* meant for (Part), another client's duplicate of a workspace with others   *)
(* after it, its call about a workspace that is not listed or its deletion   *)
(* of the last one that is, a deletion with delete_current_workspace of any  *)
(* but the last workspace or with events on their way, and a workspace of    *)
(* our own created while the daemon's end is out of sight.                   *)
NamesAgree == (news = <<>> /\ ~ parted) => ws = SubSeq(daemon, 1, InSight)

(* What the rows say: the name, number and accent of each workspace, the one *)
(* in front, and the index that the row's menu acts on, from when they are   *)
(* built and through patches of names and colours.  Another client's move    *)
(* leaves the mark and the accent of the neighbour where they were, against  *)
(* what refresh_sidebar_row_labels says of the accent, and names, numbers    *)
(* and indices right.  Until the rows are built again nothing is said of     *)
(* them after a rename from the window's menu (the name stays), another      *)
(* client's deletion (numbers and indices stay) and delete_current_workspace *)
(* (the row stays).                                                          *)
RowsAreRight ==
  (revealed /\ ~ recolor) =>
    /\ touched = {} => rows = RowsOf(ws, active_index)
    /\ touched \subseteq {"mark"} =>
         \A k \in DOMAIN rows : rows[k].name = ws[k].name /\ rows[k].number = k /\ rows[k].idx = k - 1

(* The window title names the workspace in front.                            *)
TitleNamesFront == window_title = IF Len(ws) > 1 THEN ws[active_index + 1].name ELSE "none"

SidebarShowsDaemon == NamesAgree /\ RowsAreRight /\ TitleNamesFront
=============================================================================
