------------------------------ MODULE Settings ------------------------------
(* The settings of several windows, each a process of its own, and the one  *)
(* config.toml they share: what a window holds in memory, what its panes    *)
(* and shortcuts were told of it, and the saves, which go through one       *)
(* config.toml.tmp for all windows.  A window's callbacks run one at a time *)
(* on its main loop; the system calls of its saves interleave with those of *)
(* other windows.  The settings view is opened once per window.             *)
EXTENDS Naturals, Sequences, FiniteSets

CONSTANTS
  Windows,     \* the processes
  MaxChanges,  \* bound: changes by users, in the windows or with an editor
  MaxRebinds   \* bound: changes by the user of the only window there is

(* ACTION_DEFS: two actions with their default shortcuts, the first of which *)
(* is the one shown                                                         *)
Actions == {"copy", "paste"}
default_accels == [copy |-> <<"C">>, paste |-> <<"V", "X">>]
Accels == {"C", "V"}
Members(s) == {s[i] : i \in DOMAIN s}
Defaults(a) == Members(default_accels[a])

(* What is in `keybindings`: an accelerator, "" for none at all, or no entry *)
Unset == "unset"

(* A setting panes are told of at once (fonts, theme), one they see after a  *)
(* reload only (bell, notifications), and the profiles                       *)
Profiles == {<<>>, <<"zsh">>, <<"ssh", "zsh">>}
Config == [look : 0 .. 1, bell : 0 .. 1, keybindings : [Actions -> Accels \cup {"", Unset}], profiles : Profiles]
DefaultConfig == [look |-> 0, bell |-> 0, keybindings |-> [a \in Actions |-> Unset], profiles |-> <<>>]

(* What a file holds.  An empty file is a configuration without entries.     *)
Absent == [state |-> "absent", config |-> DefaultConfig]
Empty == [state |-> "empty", config |-> DefaultConfig]
Torn == [state |-> "torn", config |-> DefaultConfig]
Whole(c) == [state |-> "whole", config |-> c]

Parses(f) == f.state # "torn"
load_config(f) == f.config

VARIABLES
  toml, tmp,  \* config.toml and config.toml.tmp
  held,       \* which of the two the file a window is writing to is by now
  win,        \* the windows
  tries,      \* how many changes there have been
  own         \* history: who has made all changes, what they come to, and
              \* whether a callback has come between a change and its save

settingsVars == <<toml, tmp, held, win, tries, own>>

NotSaving == [step |-> "none", config |-> DefaultConfig, json |-> FALSE]

Off == [phase |-> "off", config |-> DefaultConfig,          \* shared_config
        looks |-> <<0, 0>>,                                 \* panes, see apply_to_all_panes
        accels |-> [a \in Actions |-> Defaults(a)],
        actions |-> <<>>, dropdown |-> <<>>,                \* the profiles' actions, the menu
        warned |-> {},                                      \* rows that show a conflict
        watching |-> FALSE, dirty |-> FALSE,                \* ConfigWatcher, events it has
        idles |-> <<>>, saving |-> NotSaving, text |-> Absent,   \* idle callbacks, a save, the raw editor
        late |-> FALSE, dropped |-> {}, stale |-> FALSE]    \* history, see AtRest and SettingsShown

SettingsInit ==
  /\ toml \in {Absent, Whole(DefaultConfig)} /\ tmp = Absent
  /\ held = [w \in Windows |-> "none"]
  /\ win = [w \in Windows |-> Off]
  /\ tries = 0
  /\ own = [by |-> {}, config |-> DefaultConfig, spoiled |-> FALSE]

(* The main loop is at rest: no callback of the window is running.           *)
Resting(w) == win[w].phase = "up" /\ win[w].saving = NotSaving

(* The raw editor lies over the other settings.                              *)
AtSettings(w) == Resting(w) /\ win[w].text = Absent
OnlyOne(w) == own.by \subseteq {w} /\ ~ own.spoiled /\ \A v \in Windows \ {w} : win[v].phase = "off"
MayRebind(w) == AtSettings(w) /\ (tries < MaxChanges \/ (OnlyOne(w) /\ tries < MaxRebinds))

Looks(c) == <<c.look, c.bell>>

(* What apply_keybinding_overrides makes of the shortcuts there are: entries *)
(* that are not there change nothing.                                       *)
SlipFirstOnly(accels, keybindings) ==
  [a \in Actions |-> IF keybindings[a] \in {Unset, ""} THEN accels[a] ELSE {keybindings[a]}]

apply_keybinding_overrides(accels, keybindings) ==
  [a \in Actions |-> CASE keybindings[a] = Unset -> accels[a]
                       [] keybindings[a] = "" -> {}
                       [] OTHER -> {keybindings[a]}]

(* The win.open-profile-... actions, and the menu's buttons, which are bound to *)
(* an action by its number                                                  *)
register_profile_actions(c) == c.profiles
build_dropdown_popover(c) == [i \in DOMAIN c.profiles |-> [label |-> c.profiles[i], action |-> i]]

(* main: a file that does not parse counts as none.                          *)
StartUp(w) ==
  /\ win[w].phase = "off"
  /\ win' = [win EXCEPT ![w].phase = "loaded", ![w].config = load_config(toml)]
  /\ UNCHANGED <<toml, tmp, held, tries, own>>

(* build_ui: the watcher comes after everything else has been built, and     *)
(* only if there is a directory to watch.                                   *)
build_ui(w) ==
  LET c == win[w].config
  IN /\ win[w].phase = "loaded"
     /\ win' = [win EXCEPT ![w] = [@ EXCEPT
          !.phase = "up", !.looks = Looks(c),
          !.accels = apply_keybinding_overrides(win[w].accels, c.keybindings),
          !.actions = register_profile_actions(c), !.dropdown = build_dropdown_popover(c),
          !.watching = toml # Absent \/ tmp # Absent,
          !.late = Parses(toml) /\ load_config(toml) # c]]
     /\ UNCHANGED <<toml, tmp, held, tries, own>>

(* Everyone who watches the directory gets an event for config.toml.         *)
Notified(ws) == [w \in Windows |-> [ws[w] EXCEPT !.dirty = ws[w].watching]]

(* History: what all changes come to, as long as they are of one window and  *)
(* each is saved before another callback runs.                              *)
Note(w, c, piled) ==
  own' = [by |-> own.by \cup {w}, config |-> c,
          spoiled |-> own.spoiled \/ own.by \notin {{}, {w}} \/ piled]

(* A pane is told by way of its widget, which is in the window only while its *)
(* workspace is the one shown: `looks` is how the panes look of the workspace *)
(* that was shown at the last reload.  The others are missed.                *)
apply_to_all_panes(c) == Looks(c)

\* The connect_... callbacks of dropdowns, spin buttons and entries ----------

(* A change starts from the configuration the window has now and is saved    *)
(* when the main loop is idle, as it is then.                               *)
SlipFromFile(w, c, field, v) == [load_config(toml) EXCEPT ![field] = v]
updated(w, c, field, v) == [c EXCEPT ![field] = v]

(* The appearance sidebar tells the panes of the first workspace, if that is  *)
(* shown.                                                                    *)
ChangeLook(w, v, shown) ==
  LET c == updated(w, win[w].config, "look", v)
      looks == IF shown THEN apply_to_all_panes(c) ELSE win[w].looks
  IN /\ AtSettings(w) /\ tries < MaxChanges /\ win[w].config.look # v
     /\ win' = [win EXCEPT ![w] = [@ EXCEPT
           !.config = c, !.looks = looks, !.idles = Append(win[w].idles, c)]]
     /\ tries' = tries + 1
     /\ Note(w, [own.config EXCEPT !.look = v], FALSE)
     /\ UNCHANGED <<toml, tmp, held>>

(* The sections of the settings view leave the panes to the reload.          *)
ChangeSetting(w, v) ==
  LET c == updated(w, win[w].config, "bell", v)
  IN /\ AtSettings(w) /\ tries < MaxChanges /\ win[w].config.bell # v
     /\ win' = [win EXCEPT ![w] = [@ EXCEPT !.config = c, !.idles = Append(win[w].idles, c)]]
     /\ tries' = tries + 1
     /\ Note(w, [own.config EXCEPT !.bell = v], FALSE)
     /\ UNCHANGED <<toml, tmp, held>>

(* save_in_background: glib::idle_add_local_once                              *)
SaveWhenIdle(w) ==
  /\ Resting(w) /\ win[w].idles # <<>>
  /\ win' = [win EXCEPT ![w] = [@ EXCEPT
       !.idles = Tail(win[w].idles),
       !.saving = [step |-> "open", config |-> Head(win[w].idles), json |-> FALSE]]]
  /\ UNCHANGED <<toml, tmp, held, tries, own>>

\* The keybindings editor ---------------------------------------------------

(* find_conflict: actions whose effective shortcut, or one of whose defaults *)
(* even if another is in effect, is the new one                             *)
SlipEffectiveOnly(accel, skip, keybindings) ==
  {a \in Actions \ {skip} : accel = (IF keybindings[a] # Unset THEN keybindings[a] ELSE Head(default_accels[a]))}

find_conflict(accel, skip, keybindings) ==
  {a \in Actions \ {skip} : accel = keybindings[a] \/ accel \in Defaults(a)}

(* An edit saves at once, in the key-press callback.                         *)
Bind(w, a, accel) ==
  LET c == [win[w].config EXCEPT !.keybindings[a] = accel]
  IN /\ MayRebind(w)
     /\ win' = [win EXCEPT ![w] = [@ EXCEPT
          !.config = c, !.saving = [step |-> "open", config |-> c, json |-> FALSE],
          !.accels[a] = {accel}, !.dropped = win[w].dropped \ {a},
          !.warned = IF find_conflict(accel, a, c.keybindings) # {} THEN win[w].warned \cup {a}
                     ELSE win[w].warned \ {a}]]
     /\ tries' = tries + 1
     /\ Note(w, [own.config EXCEPT !.keybindings[a] = accel], win[w].idles # <<>>)
     /\ UNCHANGED <<toml, tmp, held>>

(* Reset of one row; ResetAll comes after a dialog.                              *)
Reset(w, actions) ==
  LET c == [win[w].config EXCEPT !.keybindings = [a \in Actions |-> IF a \in actions THEN Unset ELSE @[a]]]
  IN /\ MayRebind(w) /\ win[w].config.keybindings # c.keybindings
     /\ win' = [win EXCEPT ![w] = [@ EXCEPT
          !.config = c, !.saving = [step |-> "open", config |-> c, json |-> FALSE],
          !.accels = [a \in Actions |-> IF a \in actions THEN Defaults(a) ELSE win[w].accels[a]],
          !.dropped = win[w].dropped \ actions, !.warned = win[w].warned \ actions]]
     /\ tries' = tries + 1
     /\ Note(w, [own.config EXCEPT !.keybindings = [a \in Actions |-> IF a \in actions THEN Unset ELSE @[a]]],
             win[w].idles # <<>>)
     /\ UNCHANGED <<toml, tmp, held>>

ResetAll(w) == Reset(w, Actions)

\* The raw editor and editors outside ---------------------------------------

(* What a user may turn a text into: another profile list, a setting, or an  *)
(* entry of the keybindings removed or emptied                              *)
Edits(c) ==
  {[c EXCEPT !.profiles = p] : p \in Profiles \ {c.profiles}} \cup {[c EXCEPT !.bell = 1 - @]} \cup
  ({[c EXCEPT !.keybindings[a] = k] : a \in Actions, k \in {Unset, ""}} \ {c})

(* View JSON: load_config_as_text.  A text that does not parse is left to     *)
(* editors outside.                                                          *)
ViewJson(w) ==
  /\ AtSettings(w) /\ tries < MaxChanges /\ Parses(toml)
  /\ win' = [win EXCEPT ![w].text = Whole(load_config(toml))]
  /\ own' = [own EXCEPT !.spoiled = @ \/ win[w].idles # <<>>]
  /\ UNCHANGED <<toml, tmp, held, tries>>

CancelJson(w) ==
  /\ Resting(w) /\ win[w].text # Absent
  /\ win' = [win EXCEPT ![w].text = Absent]
  /\ UNCHANGED <<toml, tmp, held, tries, own>>

(* Save: a text that does not parse is refused, and then nothing happens.    *)
SaveJson(w) ==
  \E c \in Edits(win[w].text.config) :
    /\ Resting(w) /\ tries < MaxChanges /\ win[w].text # Absent
    /\ win' = [win EXCEPT ![w] = [@ EXCEPT
         !.text = Whole(c), !.saving = [step |-> "open", config |-> c, json |-> TRUE]]]
    /\ tries' = tries + 1
    /\ Note(w, c, win[w].idles # <<>>)
    /\ UNCHANGED <<toml, tmp, held>>

(* An editor replaces the file, maybe by a text that does not parse.         *)
EditOutside ==
  /\ tries < MaxChanges
  /\ toml' \in {Whole(c) : c \in Edits(load_config(toml))} \cup {Torn}
  /\ held' = [w \in Windows |-> IF held[w] = "toml" THEN "gone" ELSE held[w]]
  /\ win' = Notified(win)
  /\ tries' = tries + 1
  /\ own' = [own EXCEPT !.spoiled = TRUE]
  /\ UNCHANGED tmp

\* save_config, one system call at a time -----------------------------------

OpenTmp(w) ==
  /\ win[w].saving.step = "open"
  /\ tmp' = Empty
  /\ held' = [held EXCEPT ![w] = "tmp"]
  /\ win' = [win EXCEPT ![w].saving.step = "write"]
  /\ UNCHANGED <<toml, tries, own>>

(* What is there when one writer's text goes over another's                   *)
Over(f, c) == IF f.state = "empty" \/ f = Whole(c) THEN {Whole(c)} ELSE {Whole(c), Torn}

WriteTmp(w) ==
  LET c == win[w].saving.config
      next == [win EXCEPT ![w].saving.step = "rename"]
  IN /\ win[w].saving.step = "write"
     /\ CASE held[w] = "tmp" -> tmp' \in Over(tmp, c) /\ win' = next /\ UNCHANGED toml
          [] held[w] = "toml" -> toml' \in Over(toml, c) /\ win' = Notified(next) /\ UNCHANGED tmp
          [] OTHER -> win' = next /\ UNCHANGED <<toml, tmp>>
     /\ held' = [held EXCEPT ![w] = "none"]
     /\ UNCHANGED <<tries, own>>

(* The rename fails when another window has taken the file away.  The raw     *)
(* editor shows that as an error; everyone else goes on.                     *)
RenameTmp(w) ==
  LET s == win[w].saving
      saved == s.json /\ tmp # Absent
      done == [win EXCEPT ![w] = [@ EXCEPT !.saving = NotSaving,
                 !.config = IF saved THEN s.config ELSE win[w].config,
                 !.text = IF saved THEN Absent ELSE win[w].text]]
  IN /\ s.step = "rename"
     /\ IF tmp = Absent THEN win' = done /\ UNCHANGED <<toml, tmp, held>>
        ELSE /\ toml' = tmp /\ tmp' = Absent
             /\ held' = [v \in Windows |-> CASE held[v] = "tmp" -> "toml"
                                             [] held[v] = "toml" -> "gone"
                                             [] OTHER -> held[v]]
             /\ win' = Notified(done)
     /\ UNCHANGED <<tries, own>>

\* Reloading ----------------------------------------------------------------

(* What the window makes of a file that parses: shared_config, the profiles'  *)
(* actions, the menu unless it is open, the shortcuts and the panes shown     *)
Reloaded(r, c, is_active) ==
  [r EXCEPT !.config = c, !.looks = apply_to_all_panes(c),
            !.actions = register_profile_actions(c),
            !.dropdown = IF is_active THEN @ ELSE build_dropdown_popover(c),
            !.stale = is_active /\ (r.stale \/ r.dropdown # build_dropdown_popover(c)),
            !.accels = apply_keybinding_overrides(@, c.keybindings),
            !.dropped = {a \in Actions : c.keybindings[a] = Unset /\ r.accels[a] # Defaults(a)}]

(* The hot reload timer: ConfigWatcher::poll takes all events there are.      *)
Poll(w) ==
  \E is_active \in BOOLEAN :
    /\ Resting(w) /\ win[w].dirty
    /\ win' = [win EXCEPT ![w] =
         IF Parses(toml) THEN [Reloaded(@, load_config(toml), is_active) EXCEPT !.dirty = FALSE, !.late = FALSE]
         ELSE [@ EXCEPT !.dirty = FALSE]]
    /\ own' = [own EXCEPT !.spoiled = @ \/ win[w].idles # <<>>]
    /\ UNCHANGED <<toml, tmp, held, tries>>

(* The menu's Reload Configuration: not the profiles, not the shortcuts       *)
reload_config_all_workspaces(w) ==
  /\ Resting(w) /\ Parses(toml)
  /\ win' = [win EXCEPT ![w] = [@ EXCEPT
       !.config = load_config(toml), !.looks = apply_to_all_panes(load_config(toml))]]
  /\ own' = [own EXCEPT !.spoiled = @ \/ win[w].idles # <<>>]
  /\ UNCHANGED <<toml, tmp, held, tries>>

WindowStep(w) ==
  \/ StartUp(w) \/ build_ui(w) \/ SaveWhenIdle(w) \/ OpenTmp(w) \/ WriteTmp(w) \/ RenameTmp(w)
  \/ Poll(w) \/ reload_config_all_workspaces(w) \/ ViewJson(w) \/ CancelJson(w) \/ SaveJson(w)
  \/ \E v \in 0 .. 1 : ChangeSetting(w, v) \/ \E shown \in BOOLEAN : ChangeLook(w, v, shown)
  \/ \E a \in Actions : Reset(w, {a}) \/ \E accel \in Accels : Bind(w, a, accel)
  \/ ResetAll(w)

SettingsNext == EditOutside \/ \E w \in Windows : WindowStep(w)

SettingsSpec == SettingsInit /\ [][SettingsNext]_settingsVars

-----------------------------------------------------------------------------

SettingsTypeOK ==
  /\ \A f \in {toml, tmp} : f.state \in {"absent", "empty", "torn", "whole"} /\ f.config \in Config
  /\ \A w \in Windows : /\ win[w].config \in Config /\ win[w].saving.config \in Config
                        /\ \A a \in Actions : win[w].accels[a] \subseteq Accels \cup {"X"}
                        /\ win[w].saving.step \in {"none", "open", "write", "rename"}
                        /\ held[w] \in {"none", "tmp", "toml", "gone"}
                        /\ held[w] # "none" => win[w].saving.step = "write"

(* Nothing is under way in the window, and it has not missed a change of the *)
(* file between its load and its watcher.                                   *)
AtRest(w) ==
  /\ Resting(w) /\ win[w].idles = <<>>
  /\ win[w].watching /\ ~ win[w].dirty /\ ~ win[w].late

(* The watcher's promise (README "changes apply instantly to all panes"):    *)
(* whoever wrote the file, and in whatever order the windows' saves went     *)
(* through the one temporary file, a window at rest has what is in a file    *)
(* that parses, in memory, in the panes of the workspace that was shown, in  *)
(* its shortcuts and its profiles - but for shortcuts whose entry vanished   *)
(* under it and a menu that was open.  Panes of other workspaces are missed. *)
SettingsShown ==
  \A w \in Windows : AtRest(w) /\ Parses(toml) =>
    LET c == load_config(toml) r == win[w]
    IN /\ r.config = c /\ r.looks = Looks(c)
       /\ r.actions = c.profiles
       /\ r.stale \/ (/\ Len(r.dropdown) = Len(r.actions)
                      /\ \A i \in DOMAIN r.dropdown : r.actions[r.dropdown[i].action] = r.dropdown[i].label)
       /\ \A a \in Actions \ r.dropped :
            r.accels[a] = CASE c.keybindings[a] = Unset -> Defaults(a)
                            [] c.keybindings[a] = "" -> {}
                            [] OTHER -> {c.keybindings[a]}

Alone(w) ==
  /\ own.by = {w} /\ ~ own.spoiled
  /\ \A v \in Windows \ {w} : win[v].saving = NotSaving /\ win[v].idles = <<>>

(* A window that is the only one to change anything, and whose callbacks are  *)
(* not overtaken by others, loses none of its changes: its saves, which each  *)
(* write the whole configuration, add up.                                    *)
OwnChangesAreKept ==
  \A w \in Windows : Alone(w) /\ Resting(w) /\ win[w].idles = <<>> => toml = Whole(own.config)

(* Then, too, two actions with one shortcut are seen to be in conflict: one   *)
(* of their rows says so, whatever was edited and reset since.               *)
CollisionsAreWarned ==
  \A w \in Windows : Alone(w) /\ win[w].dropped = {} =>
    \A a, b \in Actions : a # b /\ win[w].accels[a] \cap win[w].accels[b] # {} => win[w].warned \cap {a, b} # {}

SettingsSafe == SettingsShown /\ OwnChangesAreKept /\ CollisionsAreWarned
=============================================================================
