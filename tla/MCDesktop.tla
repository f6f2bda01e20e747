----------------------------- MODULE MCDesktop -----------------------------
(* What goes on around one window, for TLC: a behaviour is one of one part,  *)
(* chosen at its start, while the others stay in their initial states.  The  *)
(* parts share no state in the program either, so one run on one instance    *)
(* asks all their questions.                                                 *)
EXTENDS FocusEcho, TerminalView, Pairing, Settings, Sidebar, TabPages, TLC

CONSTANTS Panes, Spaces, NoTab, MaxQueue, MaxTorn

VARIABLES served, mirrored, in_front, listed, torn, events, echoes, open, unseen, strayed

Window == INSTANCE WindowMirror WITH views <- mirrored, front <- in_front

mirrorVars == <<served, mirrored, in_front, listed, torn, events, echoes, open, unseen, strayed>>

VARIABLE part

desktopVars ==
  <<part, mirrorVars, focusVars, viewVars, pairVars, settingsVars, sideVars, tabVars>>

(* Parts with identifiers are not there while another part runs, so that the  *)
(* identifiers stay interchangeable in that part.                            *)
NoMirror ==
  /\ served = [spaces |-> <<>>, active |-> 0, live |-> {}] /\ mirrored = <<>> /\ in_front = 0
  /\ listed = {} /\ torn = {} /\ events = <<>> /\ echoes = <<>> /\ open = FALSE
  /\ unseen = {} /\ strayed = FALSE

NoSidebar ==
  /\ daemon = <<>> /\ ws = <<>> /\ active_index = 0 /\ pending_reorders = <<>> /\ rows = <<>>
  /\ revealed = FALSE /\ recolor = FALSE /\ menu = None /\ dialog = NoDialog /\ window_title = "none"
  /\ news = <<>> /\ touched = {} /\ unlisted = 0 /\ parted = FALSE

NoTabs ==
  /\ views = <<<<>>, <<>>>> /\ selected = <<0, 0>> /\ front = 1 /\ several = FALSE
  /\ focus_tracker = <<0, 0>> /\ custom_titles = <<{}, {}>>
  /\ tab_id_map = [v \in Workspaces |-> [k \in Keys |-> 0]]
  /\ title = [prefix |-> "none", pane |-> 0] /\ dashing = 0
  /\ tabMenu = NoPage /\ tabDialog = NoPage
  /\ tab_order = <<>> /\ untold = FALSE /\ home = <<>> /\ spoiled = FALSE

DesktopInit ==
  /\ part \in {"mirror", "focus", "search", "select", "pairing", "settings", "sidebar", "tabs"}
  /\ IF part = "mirror" THEN Window!MirrorInit ELSE NoMirror
  /\ FocusInit /\ (part # "focus" => saved = "none")
  /\ ViewInit /\ (part # "search" => len = 2)
  /\ PairInit
  /\ SettingsInit /\ (part # "settings" => toml = Absent)
  /\ IF part = "sidebar" THEN SideInit ELSE NoSidebar
  /\ IF part = "tabs" THEN TabsInit ELSE NoTabs

(* What the steps of one part leave alone.                                   *)
Mirror ==
  /\ part = "mirror" /\ Window!MirrorNext
  /\ UNCHANGED <<part, focusVars, viewVars, pairVars, settingsVars, sideVars, tabVars>>
Focus ==
  /\ part = "focus" /\ FocusNext
  /\ UNCHANGED <<part, mirrorVars, viewVars, pairVars, settingsVars, sideVars, tabVars>>
Searches ==
  /\ part = "search" /\ (ScrollNext \/ SearchNext)
  /\ UNCHANGED <<part, mirrorVars, focusVars, pairVars, settingsVars, sideVars, tabVars>>
Selects ==
  /\ part = "select" /\ (ScrollNext \/ SelectNext)
  /\ UNCHANGED <<part, mirrorVars, focusVars, pairVars, settingsVars, sideVars, tabVars>>
Pairs ==
  /\ part = "pairing" /\ PairNext
  /\ UNCHANGED <<part, mirrorVars, focusVars, viewVars, settingsVars, sideVars, tabVars>>
Prefs ==
  /\ part = "settings" /\ SettingsNext
  /\ UNCHANGED <<part, mirrorVars, focusVars, viewVars, pairVars, sideVars, tabVars>>
SidebarSteps ==
  /\ part = "sidebar" /\ SideNext
  /\ UNCHANGED <<part, mirrorVars, focusVars, viewVars, pairVars, settingsVars, tabVars>>
TabSteps ==
  /\ part = "tabs" /\ TabsNext
  /\ UNCHANGED <<part, mirrorVars, focusVars, viewVars, pairVars, settingsVars, sideVars>>

DesktopNext == Mirror \/ Focus \/ Searches \/ Selects \/ Pairs \/ Prefs \/ SidebarSteps \/ TabSteps

DesktopSpec == DesktopInit /\ [][DesktopNext]_desktopVars

(* Ids are interchangeable: the code compares them for equality only.  Keys   *)
(* and Ids are the same set as Panes.                                        *)
Identifiers == Permutations(Panes) \cup Permutations(Windows)

(* Smaller bounds where selections multiply the states: a copy still takes   *)
(* more than one page.                                                       *)
ShortScrollback == part = "select" => Len(text) <= 3 /\ len = 2

(* Timers at one of the daemons: a second may outlive the first.             *)
TimersOfOne == part = "pairing" => \A k \in Daemons \ {Watched} : timers[k] = 0

(* What two windows write over each other differs in one shortcut and in the  *)
(* number of profiles; shortcuts that collide are of one window's user.      *)
OneShortcut == part = "settings" =>
  /\ (\A w \in Windows : win[w].phase # "off") =>
       \A c \in {toml.config, own.config} :
         c.keybindings["paste"] = Unset /\ c.keybindings["copy"] # "C" /\ Len(c.profiles) # 1
  /\ (\E w \in Windows : win[w].phase = "loaded") => tries <= 1

(* A tab torn off, a duplicated one with its two pages, panes and workspaces   *)
(* the window does not know of: one of these at a time, the first two with an *)
(* event on its way only while there is one workspace; nothing is asked of a  *)
(* window that has strayed from the daemon.                                   *)
TornInPeace == part = "mirror" =>
  /\ ~ strayed
  /\ torn # {} => unseen = {}
  /\ NoTab \in Window!TabsIn(mirrored) => unseen = {} /\ torn = {}
  /\ torn # {} \/ NoTab \in Window!TabsIn(mirrored) =>
       events = <<>> \/ (Len(events) = 1 /\ Len(mirrored) = 1)

(* Enough of the sidebar: while rows are patched, classes to be reapplied or   *)
(* two events on their way nothing is opened and no third workspace is listed. *)
FewNews == part = "sidebar" =>
  /\ ~ parted
  /\ Cardinality(touched) <= 1 /\ (recolor \/ touched # {} => Len(news) < 2)
  /\ touched # {} \/ recolor \/ Len(news) = 2 =>
       Len(ws) <= 2 /\ Len(daemon) <= 2 + unlisted /\ menu = None /\ dialog = NoDialog
  /\ Len(daemon) + Len(ws) > 5 => menu = None /\ dialog = NoDialog

(* The tab menu, moved pages and titles with a dash, but not one on top of     *)
(* the other; two workspaces with none of them.  One title is given.          *)
OneAtATime == part = "tabs" =>
  /\ tabMenu # NoPage \/ tabDialog # NoPage =>
       ~ several /\ dashing = 0 /\ ~ untold /\ title.prefix = "none"
  /\ several \/ dashing # 0 => ~ untold
  /\ dashing # 0 \/ untold => Len(home) < 3
  /\ dashing # 0 => custom_titles = <<{}, {}>>
  /\ custom_titles # <<{}, {}>> =>
       /\ ~ untold
       /\ Cardinality(custom_titles[1] \cup custom_titles[2]) <= 1
       /\ (tabMenu = NoPage /\ tabDialog = NoPage) \/ Len(home) < 3

(* The types of every part.                                                  *)
DesktopTypeOK ==
  /\ part \in {"search", "select"} => ViewTypeOK
  /\ part = "pairing" => PairTypeOK
  /\ part = "mirror" => Window!MirrorTypeOK
  /\ part = "settings" => SettingsTypeOK
  /\ part = "sidebar" => SideTypeOK
  /\ part = "tabs" => TabsTypeOK

(* A window at rest mirrors the daemon's layout (WindowMirror).              *)
WindowShowsDaemon == Window!WindowShowsDaemon

=============================================================================
