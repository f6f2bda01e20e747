------------------------------ MODULE TabPages ------------------------------
(* The pages of the tab bar (crates/forgetty-gtk/src/app.rs): titles that a  *)
(* timer of each page polls, titles the user gives, the tab menu that keeps  *)
(* the page it was opened for, and maps keyed by a page's address, which are *)
(* not cleaned when the page goes.  Two workspaces share the window title.   *)
EXTENDS Integers, Sequences, FiniteSets, SequencesExt, Vectors

CONSTANTS
  Keys,        \* addresses of the pages' containers, page_identity_key
  MaxPanes     \* bound: panes ever started

VARIABLES
  views,         \* per workspace: the pages of its TabView, in order
  selected,      \* per workspace: the selected page's position, 0 for none
  front,         \* the workspace whose TabView has a parent
  several,       \* there is a second workspace
  focus_tracker, \* per workspace: the pane last focused
  custom_titles, \* per workspace: keys of pages the timers leave alone
  tab_id_map,    \* per workspace: key to the daemon's tab, 0 for none
  title,         \* the window title: what precedes the dash, and the pane
  dashing,       \* the pane whose own title has a dash in it, 0 for none
  tabMenu,       \* the page the open tab menu was built for
  tabDialog,     \* the page the open title dialog was built for
  tab_order,     \* the daemon's order of the tabs of the first workspace
  untold,        \* history: the daemon could not be told of a page's new place
  home,          \* history: the workspace each pane was started in
  spoiled        \* history: a menu's close took a page it was to keep

tabVars == <<views, selected, front, several, focus_tracker, custom_titles, tab_id_map, title,
             dashing, tabMenu, tabDialog, tab_order, untold, home, spoiled>>
popped == <<tabMenu, tabDialog>>
desk == <<front, several>>
order == <<tab_order, untold>>

Workspaces == {1, 2}
NoPage == [tab |-> 0, key |-> "none"]
Ref(v, page) == [tab |-> page.tab, key |-> page.key, view |-> v]

(* A page's tab is named by its first pane; named: the user's title stands.   *)
Page(key, pane) ==
  [key |-> key, tab |-> pane, panes |-> <<pane>>, title |-> "auto", named |-> FALSE,
   by |-> "daemon", inherits |-> FALSE]
PanesIn(v) == UNION {ToSet(page.panes) : page \in ToSet(views[v])}
InStates(pane) == \E v \in Workspaces : pane \in PanesIn(v)
Next_ == Len(home) + 1
Position(ref) == SelectInSeq(views[ref.view], LAMBDA page : page.tab = ref.tab)

(* An address is used again only after the page and all that hold it are gone. *)
FreeKeys ==
  Keys \ ({page.key : page \in ToSet(views[1] \o views[2])} \cup {tabMenu.key, tabDialog.key})

TabsInit ==
  /\ \E key \in Keys :
       /\ views = <<<<Page(key, 1)>>, <<>>>>
       /\ tab_id_map = [v \in Workspaces |-> [k \in Keys |-> IF v = 1 /\ k = key THEN 1 ELSE 0]]
  /\ selected = <<1, 0>> /\ front = 1 /\ several = FALSE
  /\ focus_tracker = <<1, 0>> /\ custom_titles = <<{}, {}>>
  /\ title = [prefix |-> "none", pane |-> 1] /\ dashing = 0
  /\ tabMenu = NoPage /\ tabDialog = NoPage
  /\ tab_order = <<1>> /\ untold = FALSE
  /\ home = <<1>> /\ spoiled = FALSE

-----------------------------------------------------------------------------
(* The window title *)

(* update_window_title_with_workspace: anew, from the workspace in front.     *)
update_window_title_with_workspace ==
  title' = [prefix |-> IF several' THEN "workspace" ELSE "none",
            pane |-> LET pane == focus_tracker'[front']
                     IN IF \E page \in ToSet(views'[front']) : pane \in ToSet(page.panes) THEN pane ELSE 0]

(* What precedes the first dash stays, whoever wrote it there.               *)
set_window_title_preserving_workspace(pane) ==
  title' = [prefix |-> IF title.prefix = "none" /\ title.pane = dashing /\ dashing # 0
                       THEN "rest of a title" ELSE title.prefix,
            pane |-> pane]

(* The timer of page i of workspace v.  A page with a title of its own is     *)
(* left alone, the window title follows the pane in focus all the same.      *)
SlipNoParent(v) == TRUE
Parented(v) == front = v

ShownPane(v, page) ==
  IF page.key \in custom_titles[v] THEN IF InStates(focus_tracker[v]) THEN focus_tracker[v] ELSE 0
  ELSE IF focus_tracker[v] \in ToSet(page.panes) THEN focus_tracker[v] ELSE page.panes[1]

TitleTimer(v) ==
  /\ selected[v] # 0
  /\ LET page == views[v][selected[v]]
         pane == ShownPane(v, page)
     IN /\ views' = [views EXCEPT ![v][selected[v]].title =
                       IF page.key \in custom_titles[v] THEN @ ELSE "auto"]
        /\ IF pane # 0 /\ Parented(v) THEN set_window_title_preserving_workspace(pane)
           ELSE UNCHANGED title
  /\ UNCHANGED <<selected, desk, focus_tracker, custom_titles, tab_id_map, dashing, popped, order, home, spoiled>>

(* A program sets a title of its own, which may have a dash.                 *)
OscTitle(pane) ==
  /\ InStates(pane) /\ dashing' = (IF dashing = pane THEN 0 ELSE pane)
  /\ UNCHANGED <<views, selected, desk, focus_tracker, custom_titles, tab_id_map, title, popped, order, home, spoiled>>

-----------------------------------------------------------------------------
(* Pages come and go *)

Started(v) == home' = Append(home, v)

(* The map entry is written over unless the page comes from duplicate_tab,   *)
(* which passes a map of its own.                                            *)
SlipKeepEntry(v, key, tab) == tab_id_map
Identified(v, key, tab) == [tab_id_map EXCEPT ![v][key] = tab]

NewPage(v, by) ==
  /\ Len(home) < MaxPanes
  /\ \E key \in FreeKeys :
       /\ views' = [views EXCEPT ![v] = Append(@, [Page(key, Next_) EXCEPT
                      !.by = by, !.inherits = key \in custom_titles[v]])]
       /\ tab_id_map' = IF by = "duplicate" THEN tab_id_map ELSE Identified(v, key, Next_)
  /\ Started(v)
  /\ tab_order' = (IF v = 1 THEN Append(tab_order, Next_) ELSE tab_order) /\ UNCHANGED untold

add_new_tab(by) ==
  /\ NewPage(front, by)
  /\ selected' = [selected EXCEPT ![front] = Len(views[front]) + 1]
  /\ focus_tracker' = [focus_tracker EXCEPT ![front] = Next_]
  /\ UNCHANGED <<desk, custom_titles, title, dashing, tabDialog, spoiled>>

(* Another client's tab, or the one the daemon seeds an empty workspace with. *)
TabArrives(v) ==
  /\ v = 1 \/ several
  /\ NewPage(v, "daemon")
  /\ selected' = [selected EXCEPT ![v] = IF @ = 0 THEN 1 ELSE @]
  /\ focus_tracker' = [focus_tracker EXCEPT ![v] = IF selected[v] = 0 THEN Next_ ELSE @]
  /\ UNCHANGED <<desk, custom_titles, title, dashing, popped, spoiled>>

(* The pane last focused on the page, as the daemon remembers it.            *)
Focuses(v, i) ==
  IF i = 0 THEN UNCHANGED focus_tracker
  ELSE \E k \in DOMAIN views'[v][i].panes : focus_tracker' = [focus_tracker EXCEPT ![v] = views'[v][i].panes[k]]

select_page(v, i) ==
  /\ v = front /\ i \in DOMAIN views[v] /\ i # selected[v]
  /\ selected' = [selected EXCEPT ![v] = i]
  /\ UNCHANGED <<views, desk, custom_titles, tab_id_map, title, dashing, popped, order, home, spoiled>>
  /\ Focuses(v, i)

(* libadwaita selects the next page, or else the one before.                 *)
Closed(v, gone) ==
  LET keep == Retain(views[v], {page \in ToSet(views[v]) : page.tab \notin gone})
      old == selected[v]
      after == Cardinality({i \in 1 .. old - 1 : views[v][i].tab \notin gone})
      now == IF keep = <<>> THEN 0
             ELSE IF after + 1 <= Len(keep) THEN after + 1 ELSE Len(keep)
  IN /\ views' = [views EXCEPT ![v] = keep]
     /\ selected' = [selected EXCEPT ![v] = now]
     /\ IF now # 0 /\ keep[now].tab = views[v][old].tab THEN UNCHANGED focus_tracker
        ELSE Focuses(v, now)
     /\ tab_order' = Retain(tab_order, ToSet(tab_order) \ gone)
     /\ UNCHANGED <<desk, custom_titles, tab_id_map, title, dashing, tabDialog, untold, home>>

(* The window goes with the last page of the last workspace: nothing more to  *)
(* say of it.                                                                *)
MayClose(v, gone) == several \/ \E page \in ToSet(views[v]) : page.tab \notin gone

close_page(v, i) ==
  /\ i \in DOMAIN views[v] /\ MayClose(v, {views[v][i].tab})
  /\ Closed(v, {views[v][i].tab})
  /\ UNCHANGED <<tabMenu, spoiled>>

split_pane ==
  /\ Len(home) < MaxPanes /\ selected[front] # 0
  /\ views' = [views EXCEPT ![front][selected[front]].panes = Append(@, Next_)]
  /\ focus_tracker' = [focus_tracker EXCEPT ![front] = Next_]
  /\ Started(front)
  /\ UNCHANGED <<selected, desk, custom_titles, tab_id_map, title, dashing, popped, order, spoiled>>

ShellExits(v, i) ==
  /\ i \in DOMAIN views[v] /\ Len(views[v][i].panes) > 1
  /\ \E k \in DOMAIN views[v][i].panes :
       /\ views' = [views EXCEPT ![v][i].panes = RemoveAt(@, k)]
       /\ IF focus_tracker[v] = views[v][i].panes[k] THEN Focuses(v, i) ELSE UNCHANGED focus_tracker
  /\ UNCHANGED <<selected, desk, custom_titles, tab_id_map, title, dashing, popped, order, home, spoiled>>

-----------------------------------------------------------------------------
(* The tab menu: it keeps the page; positions are asked for at the click.     *)

show_tab_context_menu(i) ==
  /\ tabMenu = NoPage /\ tabDialog = NoPage /\ i \in DOMAIN views[front]
  /\ tabMenu' = Ref(front, views[front][i])
  /\ UNCHANGED <<views, selected, desk, focus_tracker, custom_titles, tab_id_map, title, dashing,
                 tabDialog, order, home, spoiled>>

Clicked == tabMenu # NoPage /\ tabMenu' = NoPage

SlipFromClicked(at, n) == at .. n
ToTheRight(at, n) == at + 1 .. n
Others(at, n) == 1 .. n \ {at}

(* Closed from the right.  A page that is no longer there has position -1,    *)
(* left of every other.                                                      *)
CloseMany(positions(_, _), keeps(_, _)) ==
  LET v == tabMenu.view
      at == Position(tabMenu)
      n == Len(views[v])
      gone == {views[v][i].tab : i \in positions(at, n) \cap 1 .. n}
  IN /\ Clicked /\ MayClose(v, gone)
     /\ Closed(v, gone)
     /\ spoiled' = (spoiled \/ (at # 0 /\ \E i \in keeps(at, n) : views[v][i].tab \in gone))

UpTo(at, n) == 1 .. at
Only(at, n) == {at}
close_tabs_to_the_right == CloseMany(ToTheRight, UpTo)
close_other_tabs == CloseMany(Others, Only)
CloseThis(at, n) == {at}
Rest(at, n) == 1 .. n \ {at}
close_tab == CloseMany(CloseThis, Rest)

(* A new window is started with its directory, and the page is closed.       *)
move_tab_to_new_window == close_tab

(* A page is moved, from the menu or by dragging it.  Only the view that      *)
(* the window started with tells the daemon, and for pages whose tab it knows. *)
SlipByOldPlace(tab, to) == LET at == SelectInSeq(tab_order, LAMBDA x : x = tab) IN InsertAt(RemoveAt(tab_order, at), at, tab)
move_tab(tab, to) == InsertAt(Retain(tab_order, ToSet(tab_order) \ {tab}), to, tab)

page_reordered(v, page, to) ==
  LET tab == tab_id_map[v][page.key]
  IN IF v = 1 /\ tab \in ToSet(tab_order)
     THEN tab_order' = move_tab(tab, to) /\ untold' = (untold \/ tab # page.tab)
     ELSE untold' = (untold \/ v = 1) /\ UNCHANGED tab_order

Moved(v, at, to) ==
  /\ views' = [views EXCEPT ![v][at] = views[v][to], ![v][to] = views[v][at]]
  /\ selected' = [selected EXCEPT ![v] = IF @ = at THEN to ELSE IF @ = to THEN at ELSE @]
  /\ page_reordered(v, views[v][at], to)

move_page(by) ==
  LET at == Position(tabMenu)
      to == at + by
  IN /\ Clicked
     /\ IF at = 0 \/ to \notin DOMAIN views[tabMenu.view] THEN UNCHANGED <<views, selected, order>>
        ELSE Moved(tabMenu.view, at, to)
     /\ UNCHANGED <<desk, focus_tracker, custom_titles, tab_id_map, title, dashing, tabDialog, home, spoiled>>

drag_page(at, to) ==
  /\ {at, to} \subseteq DOMAIN views[front] /\ (to = at - 1 \/ to = at + 1)
  /\ Moved(front, at, to)
  /\ UNCHANGED <<desk, focus_tracker, custom_titles, tab_id_map, title, dashing, popped, home, spoiled>>

duplicate_tab == Clicked /\ add_new_tab("duplicate")

show_change_tab_title_dialog ==
  /\ Clicked /\ tabDialog' = tabMenu
  /\ UNCHANGED <<views, selected, desk, focus_tracker, custom_titles, tab_id_map, title, dashing, order, home, spoiled>>

(* An empty title lets the timer go on.                                      *)
ChangeTitle(text) ==
  LET v == tabDialog.view
      at == Position(tabDialog)
  IN /\ tabDialog # NoPage /\ tabDialog' = NoPage
     /\ custom_titles' = [custom_titles EXCEPT ![v] =
                            IF text = "" THEN @ \ {tabDialog.key} ELSE @ \cup {tabDialog.key}]
     /\ views' = IF at = 0 THEN views
                 ELSE [views EXCEPT ![v][at].title = IF text = "" THEN @ ELSE "user",
                                    ![v][at].named = text # "",
                                    ![v][at].inherits = FALSE]
     /\ UNCHANGED <<selected, desk, focus_tracker, tab_id_map, title, dashing, tabMenu, order, home, spoiled>>

DismissTab ==
  /\ tabMenu' = NoPage /\ tabDialog' = NoPage /\ popped' # popped
  /\ UNCHANGED <<views, selected, desk, focus_tracker, custom_titles, tab_id_map, title, dashing, order, home, spoiled>>

-----------------------------------------------------------------------------
(* Workspaces.  The focus may stay where it was, the view is not mapped yet.  *)

GoesTo(v) ==
  /\ front' = v
  /\ \/ UNCHANGED focus_tracker
     \/ selected'[v] # 0 /\ focus_tracker' = [focus_tracker EXCEPT ![v] = views'[v][selected'[v]].panes[1]]

switch_workspace ==
  /\ several
  /\ UNCHANGED <<views, selected, several, custom_titles, tab_id_map, dashing, tabMenu, tabDialog, order, home, spoiled>>
  /\ GoesTo(3 - front) /\ update_window_title_with_workspace

create_workspace ==
  /\ ~ several /\ several' = TRUE /\ front' = 2
  /\ NewPage(2, "daemon")
  /\ selected' = [selected EXCEPT ![2] = 1] /\ focus_tracker' = [focus_tracker EXCEPT ![2] = Next_]
  /\ UNCHANGED <<custom_titles, dashing, popped, spoiled>>
  /\ update_window_title_with_workspace

(* By the user or another client: its view goes with all its maps.           *)
delete_workspace ==
  /\ several /\ views[1] # <<>> /\ tabMenu.tab \notin PanesIn(2) /\ tabDialog.tab \notin PanesIn(2)
  /\ several' = FALSE
  /\ views' = [views EXCEPT ![2] = <<>>] /\ selected' = [selected EXCEPT ![2] = 0]
  /\ custom_titles' = [custom_titles EXCEPT ![2] = {}]
  /\ tab_id_map' = [tab_id_map EXCEPT ![2] = [k \in Keys |-> 0]]
  /\ UNCHANGED <<dashing, popped, order, home, spoiled>>
  /\ GoesTo(1) /\ update_window_title_with_workspace

TabsNext ==
  \/ \E v \in Workspaces : TitleTimer(v) \/ TabArrives(v)
  \/ \E v \in Workspaces, i \in 1 .. MaxPanes : select_page(v, i) \/ close_page(v, i) \/ ShellExits(v, i)
  \/ \E i \in 1 .. MaxPanes : show_tab_context_menu(i) \/ OscTitle(i)
  \/ add_new_tab("user") /\ UNCHANGED tabMenu
  \/ split_pane \/ duplicate_tab
  \/ close_tabs_to_the_right \/ close_other_tabs \/ move_tab_to_new_window
  \/ \E by \in {-1, 1} : move_page(by)
  \/ \E at, to \in 1 .. MaxPanes : drag_page(at, to)
  \/ show_change_tab_title_dialog \/ (\E text \in {"", "user"} : ChangeTitle(text)) \/ DismissTab
  \/ switch_workspace \/ create_workspace \/ delete_workspace

TabsSpec == TabsInit /\ [][TabsNext]_tabVars

(***************************************************************************)
(* Properties                                                              *)
(***************************************************************************)
TabsTypeOK ==
  /\ \A v \in Workspaces : selected[v] \in 0 .. Len(views[v]) /\ custom_titles[v] \subseteq Keys
  /\ front = 1 \/ several
  /\ Len(home) <= MaxPanes

(* The window title is of the workspace in front, with its name if there are *)
(* several, although the timers of all pages of all workspaces write it; but *)
(* a program's title with a dash may leave its first half.                   *)
TitleIsOfFront ==
  /\ title.pane # 0 => home[title.pane] = front
  /\ IF several THEN title.prefix = "workspace" ELSE title.prefix \in {"none", "rest of a title"}

(* A page keeps the title the user gave it, and every other page has its own *)
(* polled, unless it stands where one with a title stood.                    *)
TitlesAreTheUsers ==
  \A v \in Workspaces : \A page \in ToSet(views[v]) :
    /\ page.named => page.key \in custom_titles[v] /\ page.title = "user"
    /\ page.key \in custom_titles[v] => page.named \/ page.inherits

(* focus_tab names the page's own tab, or none, but for a duplicate that     *)
(* stands where another page stood.                                          *)
TabIdsAreOwn ==
  \A v \in Workspaces : \A page \in ToSet(views[v]) :
    tab_id_map[v][page.key] \in {page.tab} \/ page.by = "duplicate"

(* Close Other Tabs and Close Tabs to the Right keep what they say they keep, *)
(* whatever came and went since the menu was opened.                         *)
MenuSpares == ~ spoiled

(* The daemon's order of the tabs is the one on the screen.                  *)
OrderIsDaemons ==
  untold \/ tab_order = [i \in DOMAIN views[1] |-> views[1][i].tab]

(* All five, of pages and maps that are keyed by an address.                 *)
TabPagesSafe == OrderIsDaemons /\ TitleIsOfFront /\ TitlesAreTheUsers /\ TabIdsAreOwn /\ MenuSpares
=============================================================================
