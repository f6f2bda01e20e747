----------------------- MODULE SettingsSidebar_proofs -----------------------
(* What the widgets around the terminals show, proved: the preferences dialog *)
(* and the settings sheet show the configuration that is saved, the sidebar   *)
(* shows the workspaces of the daemon.                                       *)
EXTENDS Settings, Sidebar, SequenceLemmas

-----------------------------------------------------------------------------
(* Types                                                                     *)

File == [state : {"absent", "empty", "torn", "whole"}, config : Config]
Save == [step : {"none", "open", "write", "rename"}, config : Config, json : BOOLEAN]
Menu == {build_dropdown_popover(c) : c \in Config} \cup {<<>>}

Window ==
  [phase : {"off", "loaded", "up"}, config : Config, looks : (0 .. 1) \X (0 .. 1),
   accels : [Actions -> SUBSET (Accels \cup {"X"})], actions : Profiles, dropdown : Menu,
   warned : SUBSET Actions, watching : BOOLEAN, dirty : BOOLEAN, idles : Seq(Config),
   saving : Save, text : File, late : BOOLEAN, dropped : SUBSET Actions, stale : BOOLEAN]

Types ==
  /\ toml \in File /\ tmp \in File
  /\ held \in [Windows -> {"none", "tmp", "toml", "gone"}]
  /\ win \in [Windows -> Window]
  /\ own \in [by : SUBSET Windows, config : Config, spoiled : BOOLEAN]

(* A window that is not up has done nothing yet.                             *)
Fresh(r) ==
  r = [Off EXCEPT !.phase = r.phase, !.config = r.config]

FreshInv == \A w \in Windows : win[w].phase # "up" => Fresh(win[w])

(* Only what is being written is held.                                       *)
HeldInv == \A w \in Windows : held[w] # "none" => win[w].saving.step = "write"

-----------------------------------------------------------------------------
(* SettingsShown                                                             *)

(* A save whose temporary file is gone leaves its window an event.           *)
EventLeft(w) ==
  win[w].watching /\ win[w].saving.step \in {"write", "rename"} /\ tmp = Absent => win[w].dirty

(* The menu has the actions' profiles unless it was left as it was.          *)
MenuFits(w) ==
  win[w].phase = "up" =>
    win[w].stale \/ win[w].dropdown = build_dropdown_popover([profiles |-> win[w].actions])

Shown(w) ==
  LET c == load_config(toml) r == win[w]
  IN /\ r.config = c /\ r.looks = Looks(c)
     /\ r.actions = c.profiles
     /\ \A a \in Actions \ r.dropped :
          r.accels[a] = CASE c.keybindings[a] = Unset -> Defaults(a)
                          [] c.keybindings[a] = "" -> {}
                          [] OTHER -> {c.keybindings[a]}

ShownInv == \A w \in Windows : EventLeft(w) /\ MenuFits(w) /\ (AtRest(w) /\ Parses(toml) => Shown(w))

-----------------------------------------------------------------------------
(* OwnChangesAreKept and CollisionsAreWarned                                 *)

(* Whoever has something to save has made a change, and is up.               *)
SaversChanged == \A w \in Windows :
  /\ win[w].saving # NotSaving \/ win[w].idles # <<>> => w \in own.by
  /\ w \in own.by => win[w].phase = "up"

Sole(w) == own.by \subseteq {w} /\ ~ own.spoiled

(* What all changes come to is in memory, and where the next save takes it   *)
(* from.                                                                     *)
Chains(r, c) ==
  /\ r.phase # "off" /\ ~ r.saving.json => r.config = c
  /\ r.saving.json => r.idles = <<>>
  /\ r.idles # <<>> => r.idles[Len(r.idles)] = c
  /\ r.idles = <<>> /\ r.saving # NotSaving => r.saving.config = c

(* From there it goes to the one file and to the other.                      *)
Files(w) ==
  LET r == win[w] IN
  /\ r.saving.step = "write" => held[w] = "tmp" /\ tmp = Empty
  /\ r.saving.step = "rename" => tmp = Whole(r.saving.config)
  /\ r.idles = <<>> /\ r.saving = NotSaving =>
       IF w \in own.by THEN toml = Whole(own.config) ELSE Parses(toml) /\ load_config(toml) = own.config

(* The shortcuts of all changes are set in the window, and one that could    *)
(* collide has its warning.                                                  *)
Warns(r, c) ==
  /\ r.text # Absent => r.text.config = c
  /\ r.phase = "up" => \A a \in Actions : c.keybindings[a] \in Accels => r.accels[a] = {c.keybindings[a]}
  /\ \A a \in Actions : r.accels[a] \in {Defaults(a), {}, {"C"}, {"V"}}
  /\ r.accels["copy"] = {"V"} => "copy" \in r.warned
  /\ r.accels["paste"] = {"C"} => "paste" \in r.warned

OwnInv ==
  /\ SaversChanged
  /\ own.by = {} => own.config = DefaultConfig
  /\ \A w \in Windows : Sole(w) => Chains(win[w], own.config) /\ Files(w) /\ Warns(win[w], own.config)

IInv == Types /\ FreshInv /\ HeldInv /\ ShownInv /\ OwnInv

-----------------------------------------------------------------------------
(* What the steps do to a window, and to what they share                     *)

LEMMA DefaultAccels == Defaults("copy") = {"C"} /\ Defaults("paste") = {"V", "X"}
BY DEF Defaults, default_accels, Members

LEMMA DefaultIsConfig == DefaultConfig \in Config
BY DEF DefaultConfig, Config, Profiles, Unset

LEMMA FilesTyped ==
  /\ Absent \in File /\ Empty \in File /\ Torn \in File
  /\ \A c \in Config : Whole(c) \in File
BY DefaultIsConfig DEF Absent, Empty, Torn, Whole, File

LEMMA LooksTyped == \A c \in Config : Looks(c) \in (0 .. 1) \X (0 .. 1)
BY DEF Looks, Config

LEMMA NotSavingIsSave == NotSaving \in Save
BY DefaultIsConfig DEF NotSaving, Save

LEMMA MenuTyped == \A c \in Config : build_dropdown_popover(c) \in Menu
BY DEF Menu

LEMMA OffIsWindow == Off \in Window
<1>1. [a \in Actions |-> Defaults(a)] \in [Actions -> SUBSET (Accels \cup {"X"})]
  BY DefaultAccels DEF Actions, Accels
<1>2. <<0, 0>> \in (0 .. 1) \X (0 .. 1)
  OBVIOUS
<1> QED
  BY <1>1, <1>2, DefaultIsConfig, FilesTyped, NotSavingIsSave DEF Off, Window, Profiles, Menu

LEMMA OverridesTyped ==
  ASSUME NEW accels \in [Actions -> SUBSET (Accels \cup {"X"})], NEW c \in Config
  PROVE  apply_keybinding_overrides(accels, c.keybindings) \in [Actions -> SUBSET (Accels \cup {"X"})]
<1>1. c.keybindings \in [Actions -> Accels \cup {"", Unset}]
  BY DEF Config
<1> QED
  BY <1>1 DEF apply_keybinding_overrides, Accels, Unset

LEMMA NotifiedTyped ==
  ASSUME NEW ww \in [Windows -> Window]
  PROVE  Notified(ww) \in [Windows -> Window]
<1>1. ASSUME NEW w \in Windows
      PROVE  [ww[w] EXCEPT !.dirty = ww[w].watching] \in Window
  <2>1. ww[w] \in Window /\ ww[w].watching \in BOOLEAN
    BY DEF Window
  <2> QED
    BY <2>1 DEF Window
<1> QED
  BY <1>1 DEF Notified

LEMMA ConfigUpdates ==
  ASSUME NEW c \in Config, NEW v \in 0 .. 1
  PROVE  /\ [c EXCEPT !.look = v] \in Config
         /\ [c EXCEPT !.bell = v] \in Config
BY DEF Config

LEMMA BindingUpdates ==
  ASSUME NEW c \in Config, NEW a \in Actions, NEW accel \in Accels
  PROVE  [c EXCEPT !.keybindings[a] = accel] \in Config
<1>1. c.keybindings \in [Actions -> Accels \cup {"", Unset}]
  BY DEF Config
<1>2. [c.keybindings EXCEPT ![a] = accel] \in [Actions -> Accels \cup {"", Unset}]
  BY <1>1
<1> QED
  BY <1>2 DEF Config

LEMMA BindingResets ==
  ASSUME NEW c \in Config, NEW actions \in SUBSET Actions
  PROVE  [c EXCEPT !.keybindings = [x \in Actions |-> IF x \in actions THEN Unset ELSE c.keybindings[x]]] \in Config
<1>1. c.keybindings \in [Actions -> Accels \cup {"", Unset}]
  BY DEF Config
<1>2. [x \in Actions |-> IF x \in actions THEN Unset ELSE c.keybindings[x]] \in [Actions -> Accels \cup {"", Unset}]
  BY <1>1
<1> QED
  BY <1>2 DEF Config

(* The three kinds of edits                                                  *)
NewProfiles(c) == {[c EXCEPT !.profiles = p] : p \in Profiles \ {c.profiles}}
OtherBell(c) == [c EXCEPT !.bell = 1 - @]
Rebound(c, keys) == {[c EXCEPT !.keybindings[a] = k] : a \in Actions, k \in keys}

LEMMA EditKinds ==
  ASSUME NEW c
  PROVE  Edits(c) = NewProfiles(c) \cup {OtherBell(c)} \cup (Rebound(c, {Unset, ""}) \ {c})
BY DEF Edits, NewProfiles, OtherBell, Rebound

LEMMA EditCases ==
  ASSUME NEW c, NEW d \in Edits(c)
  PROVE  \/ \E p \in Profiles : d = [c EXCEPT !.profiles = p]
         \/ d = [c EXCEPT !.bell = 1 - c.bell]
         \/ \E a \in Actions, k \in {Unset, ""} : d = [c EXCEPT !.keybindings[a] = k]
<1>1. Edits(c) = NewProfiles(c) \cup {OtherBell(c)} \cup (Rebound(c, {Unset, ""}) \ {c})
  BY EditKinds
<1>2. PICK keys : keys = {Unset, ""}
  OBVIOUS
<1>3. d \in NewProfiles(c) \/ d = OtherBell(c) \/ d \in Rebound(c, keys)
  BY <1>1, <1>2
<1>4. CASE d \in NewProfiles(c)
  BY <1>4 DEF NewProfiles
<1>5. CASE d = OtherBell(c)
  BY <1>5 DEF OtherBell
<1>6. CASE d \in Rebound(c, keys)
  <2>1. \E a \in Actions, k \in keys : d = [c EXCEPT !.keybindings[a] = k]
    BY <1>6 DEF Rebound
  <2> QED
    BY <2>1, <1>2
<1> QED
  BY <1>3, <1>4, <1>5, <1>6

LEMMA EditsTyped == \A c \in Config : Edits(c) \subseteq Config
<1> SUFFICES ASSUME NEW c \in Config, NEW d \in Edits(c)
             PROVE  d \in Config
  OBVIOUS
<1>1. c.keybindings \in [Actions -> Accels \cup {"", Unset}] /\ c.bell \in 0 .. 1
  BY DEF Config
<1>2. CASE \E p \in Profiles : d = [c EXCEPT !.profiles = p]
  BY <1>2 DEF Config
<1>3. CASE d = [c EXCEPT !.bell = 1 - c.bell]
  <2>1. ASSUME NEW x \in 0 .. 1
        PROVE  1 - x \in 0 .. 1
    OBVIOUS
  <2>2. 1 - c.bell \in 0 .. 1
    BY <1>1, <2>1
  <2> QED
    BY <1>3, <2>2 DEF Config
<1>4. CASE \E a \in Actions, k \in {Unset, ""} : d = [c EXCEPT !.keybindings[a] = k]
  <2>1. PICK a \in Actions, k \in {Unset, ""} : d = [c EXCEPT !.keybindings[a] = k]
    BY <1>4
  <2>2. [c.keybindings EXCEPT ![a] = k] \in [Actions -> Accels \cup {"", Unset}]
    BY <1>1
  <2> QED
    BY <2>1, <2>2 DEF Config
<1> QED
  BY <1>2, <1>3, <1>4, EditCases

LEMMA OverTyped ==
  ASSUME NEW f \in File, NEW c \in Config
  PROVE  Over(f, c) \subseteq File
BY FilesTyped DEF Over

LEMMA NoteTyped ==
  ASSUME Types, NEW w \in Windows, NEW c \in Config, NEW piled \in BOOLEAN, Note(w, c, piled)
  PROVE  own' \in [by : SUBSET Windows, config : Config, spoiled : BOOLEAN]
BY DEF Types, Note

(* Only this window is changed, or the others but for an event.              *)
OneChanged(w) ==
  /\ win' \in [Windows -> Window]
  /\ \A v \in Windows \ {w} : win'[v] = win[v]

Shared == <<toml, tmp, held, own>>

LEMMA OneTyped ==
  ASSUME Types, NEW w \in Windows, win'[w] \in Window, win' = [win EXCEPT ![w] = win'[w]]
  PROVE  OneChanged(w)
BY DEF OneChanged, Types

LEMMA WindowTyped ==
  ASSUME Types, NEW w \in Windows
  PROVE  /\ win[w] \in Window
         /\ win[w].config \in Config /\ win[w].saving \in Save /\ win[w].text \in File
         /\ win[w].idles \in Seq(Config)
         /\ win[w].accels \in [Actions -> SUBSET (Accels \cup {"X"})]
BY DEF Types, Window

LEMMA ConfigTyped ==
  ASSUME NEW c \in Config
  PROVE  /\ c.look \in 0 .. 1 /\ c.bell \in 0 .. 1 /\ c.profiles \in Profiles
         /\ c.keybindings \in [Actions -> Accels \cup {"", Unset}]
BY DEF Config

LEMMA FileTyped ==
  ASSUME Types
  PROVE  toml \in File /\ tmp \in File /\ load_config(toml) \in Config /\ load_config(tmp) \in Config
BY DEF Types, File, load_config

LEMMA StartUpDoes ==
  ASSUME Types, NEW w \in Windows, StartUp(w)
  PROVE  /\ OneChanged(w) /\ UNCHANGED Shared
         /\ win[w].phase = "off"
         /\ win'[w] = [win[w] EXCEPT !.phase = "loaded", !.config = load_config(toml)]
<1>1. win'[w] = [win[w] EXCEPT !.phase = "loaded", !.config = load_config(toml)]
  BY DEF StartUp, Types
<1>2. win'[w] \in Window
  BY <1>1, WindowTyped, FileTyped DEF Window
<1>3. win' = [win EXCEPT ![w] = win'[w]]
  BY DEF StartUp, Types
<1> QED
  BY <1>1, <1>2, <1>3, OneTyped DEF StartUp, Shared

LEMMA BuiltTyped ==
  ASSUME NEW r \in Window, NEW q, q.looks \in (0 .. 1) \X (0 .. 1),
         q.accels \in [Actions -> SUBSET (Accels \cup {"X"})],
         q.actions \in Profiles, q.dropdown \in Menu, q.watching \in BOOLEAN, q.late \in BOOLEAN,
         q = [r EXCEPT !.phase = "up", !.looks = q.looks, !.accels = q.accels, !.actions = q.actions,
                       !.dropdown = q.dropdown, !.watching = q.watching, !.late = q.late]
  PROVE  q \in Window
BY DEF Window

LEMMA BuildUiDoes ==
  ASSUME Types, NEW w \in Windows, build_ui(w)
  PROVE  /\ OneChanged(w) /\ UNCHANGED Shared
         /\ win[w].phase = "loaded"
         /\ win'[w] = [win[w] EXCEPT !.phase = "up", !.looks = win'[w].looks, !.accels = win'[w].accels,
                                     !.actions = win'[w].actions, !.dropdown = win'[w].dropdown,
                                     !.watching = win'[w].watching, !.late = win'[w].late]
         /\ win'[w].looks = Looks(win[w].config)
         /\ win'[w].accels = apply_keybinding_overrides(win[w].accels, win[w].config.keybindings)
         /\ win'[w].actions = win[w].config.profiles
         /\ win'[w].dropdown = build_dropdown_popover(win[w].config)
         /\ win'[w].late <=> Parses(toml) /\ load_config(toml) # win[w].config
<1>1. win'[w] = [win[w] EXCEPT !.phase = "up", !.looks = win'[w].looks, !.accels = win'[w].accels,
                               !.actions = win'[w].actions, !.dropdown = win'[w].dropdown,
                               !.watching = win'[w].watching, !.late = win'[w].late]
  BY DEF build_ui, Types, Window
<1>2. /\ win'[w].looks = Looks(win[w].config)
      /\ win'[w].accels = apply_keybinding_overrides(win[w].accels, win[w].config.keybindings)
  BY DEF build_ui, Types, Window
<1>3. /\ win'[w].actions = win[w].config.profiles
      /\ win'[w].dropdown = build_dropdown_popover(win[w].config)
  BY DEF build_ui, Types, Window, register_profile_actions
<1>4. win'[w].late <=> Parses(toml) /\ load_config(toml) # win[w].config
  BY ZenonT(60) DEF build_ui, Types, Window
<1>5. win'[w].watching \in BOOLEAN /\ win'[w].late \in BOOLEAN
  BY DEF build_ui, Types, Window
<1>6. win'[w] \in Window
  <2>1. PICK q : q = win'[w]
    OBVIOUS
  <2>2. q.looks \in (0 .. 1) \X (0 .. 1) /\ q.actions \in Profiles /\ q.dropdown \in Menu
    BY <1>2, <1>3, <2>1, WindowTyped, ConfigTyped, LooksTyped, MenuTyped
  <2>3. q.accels \in [Actions -> SUBSET (Accels \cup {"X"})]
    BY <1>2, <2>1, WindowTyped, OverridesTyped
  <2>4. win[w] \in Window
    BY WindowTyped
  <2> QED
    BY <1>1, <1>5, <2>1, <2>2, <2>3, <2>4, BuiltTyped, Zenon
<1>7. win' = [win EXCEPT ![w] = win'[w]]
  BY DEF build_ui, Types
<1> QED
  BY <1>1, <1>2, <1>3, <1>4, <1>6, <1>7, OneTyped DEF build_ui, Shared

LEMMA NoteDoes ==
  ASSUME Types, NEW w \in Windows, NEW c \in Config, NEW piled \in BOOLEAN, Note(w, c, piled)
  PROVE  /\ own' \in [by : SUBSET Windows, config : Config, spoiled : BOOLEAN]
         /\ own'.by = own.by \cup {w} /\ own'.config = c
         /\ ~ own'.spoiled => ~ own.spoiled /\ own.by \subseteq {w} /\ ~ piled
<1>1. own' = [by |-> own.by \cup {w}, config |-> c, spoiled |-> own'.spoiled]
  BY DEF Note
<1>2. own'.spoiled <=> (own.spoiled \/ own.by \notin {{}, {w}} \/ piled)
  BY DEF Note
<1>3. own'.spoiled \in BOOLEAN
  BY DEF Note, Types
<1> QED
  BY <1>1, <1>2, <1>3 DEF Types

(* A change of a setting.                                                    *)
Changed(w, c, d) ==
  /\ AtSettings(w)
  /\ win'[w] = [win[w] EXCEPT !.config = c, !.looks = win'[w].looks, !.idles = Append(win[w].idles, c)]
  /\ Note(w, d, FALSE)
  /\ UNCHANGED <<toml, tmp, held>>

LEMMA ChangeLookDoes ==
  ASSUME Types, NEW w \in Windows, NEW v \in 0 .. 1, NEW shown \in BOOLEAN, ChangeLook(w, v, shown)
  PROVE  /\ OneChanged(w)
         /\ Changed(w, [win[w].config EXCEPT !.look = v], [own.config EXCEPT !.look = v])
<1> DEFINE c == [win[w].config EXCEPT !.look = v]
<1>1. c \in Config
  BY WindowTyped, ConfigUpdates
<1>2. updated(w, win[w].config, "look", v) = c
  BY DEF updated
<1>3. win'[w] = [win[w] EXCEPT !.config = c, !.looks = win'[w].looks, !.idles = Append(win[w].idles, c)]
  BY <1>2 DEF ChangeLook, Types, Window
<1>4. win'[w].looks \in (0 .. 1) \X (0 .. 1)
  BY <1>1, <1>2, WindowTyped, LooksTyped DEF ChangeLook, Types, Window, apply_to_all_panes
<1>5. win' = [win EXCEPT ![w] = win'[w]]
  BY DEF ChangeLook, Types
<1>6. win'[w] \in Window
  <2>1. PICK q : q = win'[w]
    OBVIOUS
  <2>2. Append(win[w].idles, c) \in Seq(Config)
    BY <1>1, WindowTyped
  <2> HIDE DEF c
  <2> QED
    BY <1>1, <1>3, <1>4, <2>1, <2>2, WindowTyped, ZenonT(60) DEF Window
<1> QED
  BY <1>3, <1>5, <1>6, OneTyped DEF ChangeLook, Changed

LEMMA ChangeSettingDoes ==
  ASSUME Types, NEW w \in Windows, NEW v \in 0 .. 1, ChangeSetting(w, v)
  PROVE  /\ OneChanged(w)
         /\ Changed(w, [win[w].config EXCEPT !.bell = v], [own.config EXCEPT !.bell = v])
<1> DEFINE c == [win[w].config EXCEPT !.bell = v]
<1>1. c \in Config
  BY WindowTyped, ConfigUpdates
<1>2. updated(w, win[w].config, "bell", v) = c
  BY DEF updated
<1>3. win'[w] = [win[w] EXCEPT !.config = c, !.looks = win'[w].looks, !.idles = Append(win[w].idles, c)]
  BY <1>2 DEF ChangeSetting, Types, Window
<1>4. win'[w].looks \in (0 .. 1) \X (0 .. 1)
  BY WindowTyped DEF ChangeSetting, Types, Window
<1>5. win' = [win EXCEPT ![w] = win'[w]]
  BY DEF ChangeSetting, Types
<1>6. win'[w] \in Window
  <2>1. PICK q : q = win'[w]
    OBVIOUS
  <2>2. Append(win[w].idles, c) \in Seq(Config)
    BY <1>1, WindowTyped
  <2> HIDE DEF c
  <2> QED
    BY <1>1, <1>3, <1>4, <2>1, <2>2, WindowTyped DEF Window
<1> QED
  BY <1>3, <1>5, <1>6, OneTyped DEF ChangeSetting, Changed

LEMMA SaveWhenIdleDoes ==
  ASSUME Types, NEW w \in Windows, SaveWhenIdle(w)
  PROVE  /\ OneChanged(w) /\ UNCHANGED Shared
         /\ Resting(w) /\ win[w].idles # <<>>
         /\ win'[w] = [win[w] EXCEPT !.idles = Tail(win[w].idles),
                         !.saving = [step |-> "open", config |-> Head(win[w].idles), json |-> FALSE]]
<1>1. win'[w] = [win[w] EXCEPT !.idles = Tail(win[w].idles),
                   !.saving = [step |-> "open", config |-> Head(win[w].idles), json |-> FALSE]]
  BY DEF SaveWhenIdle, Types
<1>2. win' = [win EXCEPT ![w] = win'[w]]
  BY DEF SaveWhenIdle, Types
<1>3. Tail(win[w].idles) \in Seq(Config) /\ Head(win[w].idles) \in Config
  BY WindowTyped DEF SaveWhenIdle
<1>4. [step |-> "open", config |-> Head(win[w].idles), json |-> FALSE] \in Save
  BY <1>3 DEF Save
<1>5. win'[w] \in Window
  BY <1>1, <1>3, <1>4, WindowTyped DEF Window
<1> QED
  BY <1>1, <1>2, <1>5, OneTyped DEF SaveWhenIdle, Shared

(* What saves at once: an edit of the shortcuts, and the raw editor.         *)
Saving(c, json) == [step |-> "open", config |-> c, json |-> json]

LEMMA SavingTyped ==
  ASSUME NEW c \in Config, NEW json \in BOOLEAN
  PROVE  Saving(c, json) \in Save
BY DEF Saving, Save

LEMMA EditTyped ==
  ASSUME NEW r \in Window, NEW q, NEW c \in Config, NEW s \in Save,
         NEW accels \in [Actions -> SUBSET (Accels \cup {"X"})],
         NEW dropped \in SUBSET Actions, NEW warned \in SUBSET Actions,
         q = [r EXCEPT !.config = c, !.saving = s, !.accels = accels, !.dropped = dropped, !.warned = warned]
  PROVE  q \in Window
BY DEF Window

Bound(r, a, accel, warned) ==
  LET c == [r.config EXCEPT !.keybindings[a] = accel]
  IN [r EXCEPT !.config = c, !.saving = Saving(c, FALSE), !.accels = [r.accels EXCEPT ![a] = {accel}],
               !.dropped = r.dropped \ {a}, !.warned = warned]

LEMMA BindDoes ==
  ASSUME Types, NEW w \in Windows, NEW a \in Actions, NEW accel \in Accels, Bind(w, a, accel)
  PROVE  /\ OneChanged(w) /\ UNCHANGED <<toml, tmp, held>>
         /\ AtSettings(w)
         /\ Note(w, [own.config EXCEPT !.keybindings[a] = accel], win[w].idles # <<>>)
         /\ \E warned \in SUBSET Actions :
              /\ win'[w] = Bound(win[w], a, accel, warned)
              /\ warned \ {a} = win[w].warned \ {a}
              /\ (\E b \in Actions \ {a} : accel \in Defaults(b)) => a \in warned
<1> DEFINE c == [win[w].config EXCEPT !.keybindings[a] = accel]
           warned == IF find_conflict(accel, a, c.keybindings) # {} THEN win[w].warned \cup {a}
                     ELSE win[w].warned \ {a}
<1>1. c \in Config
  BY WindowTyped, BindingUpdates
<1>2. win' = [win EXCEPT ![w] = [win[w] EXCEPT !.config = c, !.saving = Saving(c, FALSE),
                            !.accels = [win[w].accels EXCEPT ![a] = {accel}],
                                   !.dropped = win[w].dropped \ {a}, !.warned = warned]]
  BY DEF Bind, Saving
<1>3. win'[w] = [win[w] EXCEPT !.config = c, !.saving = Saving(c, FALSE),
                            !.accels = [win[w].accels EXCEPT ![a] = {accel}],
                   !.dropped = win[w].dropped \ {a}, !.warned = warned]
  BY <1>2 DEF Types
<1>4. [win[w].accels EXCEPT ![a] = {accel}] \in [Actions -> SUBSET (Accels \cup {"X"})]
  BY WindowTyped
<1>5. warned \in SUBSET Actions /\ win[w].dropped \ {a} \in SUBSET Actions
  BY WindowTyped DEF Window
<1>6. win'[w] \in Window
  <2> HIDE DEF c, warned
  <2>1. PICK s \in Save : s = Saving(c, FALSE)
    BY <1>1, SavingTyped
  <2>2. PICK q : q = win'[w]
    OBVIOUS
  <2>3. win[w] \in Window
    BY WindowTyped
  <2> QED
    BY <1>1, <1>3, <1>4, <1>5, <2>1, <2>2, <2>3, EditTyped, Zenon, SMTT(30)
<1>7. win' = [win EXCEPT ![w] = win'[w]]
  BY <1>2, <1>3
<1>8. win'[w] = Bound(win[w], a, accel, warned)
  BY <1>3 DEF Bound
<1>9. warned \ {a} = win[w].warned \ {a}
  OBVIOUS
<1>10. (\E b \in Actions \ {a} : accel \in Defaults(b)) => a \in warned
  BY DEF find_conflict
<1>11. OneChanged(w)
  BY <1>6, <1>7, OneTyped
<1> HIDE DEF c, warned
<1> QED
  BY <1>5, <1>8, <1>9, <1>10, <1>11 DEF Bind, MayRebind

ResetConfig(c, actions) ==
  [c EXCEPT !.keybindings = [a \in Actions |-> IF a \in actions THEN Unset ELSE c.keybindings[a]]]

Unbound(r, actions) ==
  [r EXCEPT !.config = ResetConfig(r.config, actions), !.saving = Saving(ResetConfig(r.config, actions), FALSE),
            !.accels = [a \in Actions |-> IF a \in actions THEN Defaults(a) ELSE r.accels[a]],
            !.dropped = r.dropped \ actions, !.warned = r.warned \ actions]

LEMMA ResetDoes ==
  ASSUME Types, NEW w \in Windows, NEW actions \in SUBSET Actions, Reset(w, actions)
  PROVE  /\ OneChanged(w) /\ UNCHANGED <<toml, tmp, held>>
         /\ AtSettings(w)
         /\ win'[w] = Unbound(win[w], actions)
         /\ Note(w, ResetConfig(own.config, actions), win[w].idles # <<>>)
<1> DEFINE c == [win[w].config EXCEPT
                   !.keybindings = [a \in Actions |-> IF a \in actions THEN Unset ELSE win[w].config.keybindings[a]]]
           shortcut == [a \in Actions |-> IF a \in actions THEN Defaults(a) ELSE win[w].accels[a]]
<1>1. c \in Config
  BY WindowTyped, BindingResets
<1>2. win' = [win EXCEPT ![w] = [win[w] EXCEPT !.config = c, !.saving = Saving(c, FALSE), !.accels = shortcut,
                                   !.dropped = win[w].dropped \ actions, !.warned = win[w].warned \ actions]]
  BY DEF Reset, Saving
<1>3. win'[w] = [win[w] EXCEPT !.config = c, !.saving = Saving(c, FALSE), !.accels = shortcut,
                   !.dropped = win[w].dropped \ actions, !.warned = win[w].warned \ actions]
  BY <1>2 DEF Types
<1>4. shortcut \in [Actions -> SUBSET (Accels \cup {"X"})]
  BY WindowTyped, DefaultAccels DEF Actions, Accels
<1>5. win[w].warned \ actions \in SUBSET Actions /\ win[w].dropped \ actions \in SUBSET Actions
  BY WindowTyped DEF Window
<1>6. win'[w] \in Window
  <2> HIDE DEF c, shortcut
  <2>1. PICK s \in Save : s = Saving(c, FALSE)
    BY <1>1, SavingTyped
  <2>2. PICK q : q = win'[w]
    OBVIOUS
  <2>3. PICK r \in Window : r = win[w]
    BY WindowTyped
  <2>4. PICK shortcuts \in [Actions -> SUBSET (Accels \cup {"X"})] : shortcuts = shortcut
    BY <1>4
  <2>5. PICK dropped \in SUBSET Actions, warned \in SUBSET Actions :
          dropped = win[w].dropped \ actions /\ warned = win[w].warned \ actions
    BY <1>5
  <2>6. PICK d \in Config : d = c
    BY <1>1
  <2>7. q = [r EXCEPT !.config = d, !.saving = s, !.accels = shortcuts, !.dropped = dropped, !.warned = warned]
    BY <1>3, <2>1, <2>2, <2>3, <2>4, <2>5, <2>6
  <2>8. q \in Window
    BY <2>7, EditTyped, Zenon
  <2> QED
    BY <2>2, <2>8
<1>7. win' = [win EXCEPT ![w] = win'[w]]
  BY <1>2, <1>3
<1>8. win'[w] = Unbound(win[w], actions)
  BY <1>3 DEF Unbound, ResetConfig
<1>9. OneChanged(w)
  BY <1>6, <1>7, OneTyped
<1> HIDE DEF c, shortcut
<1> QED
  BY <1>8, <1>9 DEF Reset, MayRebind, ResetConfig

LEMMA ViewJsonDoes ==
  ASSUME Types, NEW w \in Windows, ViewJson(w)
  PROVE  /\ OneChanged(w) /\ UNCHANGED <<toml, tmp, held>>
         /\ AtSettings(w) /\ Parses(toml)
         /\ win'[w] = [win[w] EXCEPT !.text = Whole(load_config(toml))]
         /\ own' = [own EXCEPT !.spoiled = own.spoiled \/ win[w].idles # <<>>]
<1>1. win'[w] = [win[w] EXCEPT !.text = Whole(load_config(toml))]
  BY DEF ViewJson, Types
<1>2. win'[w] \in Window
  BY <1>1, WindowTyped, FileTyped, FilesTyped DEF Window
<1>3. win' = [win EXCEPT ![w] = win'[w]]
  BY DEF ViewJson, Types
<1> QED
  BY <1>1, <1>2, <1>3, OneTyped DEF ViewJson

LEMMA CancelJsonDoes ==
  ASSUME Types, NEW w \in Windows, CancelJson(w)
  PROVE  /\ OneChanged(w) /\ UNCHANGED Shared
         /\ Resting(w)
         /\ win'[w] = [win[w] EXCEPT !.text = Absent]
<1>1. win'[w] = [win[w] EXCEPT !.text = Absent]
  BY DEF CancelJson, Types
<1>2. win'[w] \in Window
  BY <1>1, WindowTyped, FilesTyped DEF Window
<1>3. win' = [win EXCEPT ![w] = win'[w]]
  BY DEF CancelJson, Types
<1> QED
  BY <1>1, <1>2, <1>3, OneTyped DEF CancelJson, Shared

LEMMA SaveJsonDoes ==
  ASSUME Types, NEW w \in Windows, SaveJson(w)
  PROVE  \E c \in Config :
           /\ c \in Edits(win[w].text.config)
           /\ OneChanged(w) /\ UNCHANGED <<toml, tmp, held>>
           /\ Resting(w) /\ win[w].text # Absent
           /\ win'[w] = [win[w] EXCEPT !.text = Whole(c), !.saving = Saving(c, TRUE)]
           /\ Note(w, c, win[w].idles # <<>>)
<1>1. PICK c \in Edits(win[w].text.config) :
        /\ Resting(w) /\ win[w].text # Absent
        /\ win' = [win EXCEPT ![w] = [win[w] EXCEPT !.text = Whole(c), !.saving = Saving(c, TRUE)]]
        /\ Note(w, c, win[w].idles # <<>>)
        /\ UNCHANGED <<toml, tmp, held>>
  BY DEF SaveJson, Saving
<1>2. c \in Config
  BY <1>1, WindowTyped, EditsTyped DEF File
<1>3. win'[w] = [win[w] EXCEPT !.text = Whole(c), !.saving = Saving(c, TRUE)]
  BY <1>1 DEF Types
<1>4. win'[w] \in Window
  <2>1. PICK s \in Save : s = Saving(c, TRUE)
    BY <1>2, SavingTyped
  <2>2. PICK f \in File : f = Whole(c)
    BY <1>2, FilesTyped
  <2>3. win[w] \in Window
    BY WindowTyped
  <2> QED
    BY <1>3, <2>1, <2>2, <2>3 DEF Window
<1>5. win' = [win EXCEPT ![w] = win'[w]]
  BY <1>1, <1>3
<1> QED
  BY <1>1, <1>2, <1>3, <1>4, <1>5, OneTyped

(* What goes to everybody: an event, if they watch.                          *)
AllNotified(ww) ==
  /\ win' \in [Windows -> Window]
  /\ \A v \in Windows : win'[v] = [ww[v] EXCEPT !.dirty = ww[v].watching]

LEMMA NotifiedDoes ==
  ASSUME NEW ww \in [Windows -> Window], win' = Notified(ww)
  PROVE  AllNotified(ww)
BY NotifiedTyped DEF AllNotified, Notified

LEMMA EditOutsideDoes ==
  ASSUME Types, EditOutside
  PROVE  /\ AllNotified(win) /\ UNCHANGED tmp
         /\ toml' \in File
         /\ held' = [w \in Windows |-> IF held[w] = "toml" THEN "gone" ELSE held[w]]
         /\ own' = [own EXCEPT !.spoiled = TRUE]
<1>1. toml' \in File
  <2>1. toml' \in {Whole(c) : c \in Edits(load_config(toml))} \cup {Torn}
    BY DEF EditOutside
  <2>2. Edits(load_config(toml)) \subseteq Config
    BY FileTyped, EditsTyped
  <2> QED
    BY <2>1, <2>2, FilesTyped
<1> QED
  BY <1>1, NotifiedDoes DEF EditOutside, Types

(* The save of a window goes on to its next call.                            *)
Writing(w) == [win EXCEPT ![w].saving.step = "rename"]

LEMMA StepTyped ==
  ASSUME Types, NEW w \in Windows, NEW step \in {"none", "open", "write", "rename"}
  PROVE  /\ [win EXCEPT ![w].saving.step = step] \in [Windows -> Window]
         /\ [win EXCEPT ![w].saving.step = step][w] = [win[w] EXCEPT !.saving.step = step]
         /\ \A v \in Windows \ {w} : [win EXCEPT ![w].saving.step = step][v] = win[v]
<1>1. [win[w].saving EXCEPT !.step = step] \in Save
  BY WindowTyped DEF Save
<1>2. [win[w] EXCEPT !.saving.step = step] \in Window
  BY <1>1, WindowTyped, ZenonT(60) DEF Window
<1> QED
  BY <1>2 DEF Types

LEMMA OpenTmpDoes ==
  ASSUME Types, NEW w \in Windows, OpenTmp(w)
  PROVE  /\ OneChanged(w) /\ UNCHANGED <<toml, own>>
         /\ win[w].saving.step = "open"
         /\ tmp' = Empty /\ held' = [held EXCEPT ![w] = "tmp"]
         /\ win'[w] = [win[w] EXCEPT !.saving.step = "write"]
BY StepTyped DEF OpenTmp, OneChanged

LEMMA WriteTmpDoes ==
  ASSUME Types, NEW w \in Windows, WriteTmp(w)
  PROVE  /\ UNCHANGED own
         /\ win[w].saving.step = "write"
         /\ held' = [held EXCEPT ![w] = "none"]
         /\ toml' \in File /\ tmp' \in File
         /\ Writing(w) \in [Windows -> Window]
         /\ Writing(w)[w] = [win[w] EXCEPT !.saving.step = "rename"]
         /\ \A v \in Windows \ {w} : Writing(w)[v] = win[v]
         /\ \/ held[w] = "tmp" /\ tmp' \in Over(tmp, win[w].saving.config) /\ win' = Writing(w) /\ UNCHANGED toml
            \/ held[w] = "toml" /\ AllNotified(Writing(w)) /\ UNCHANGED tmp
            \/ held[w] \notin {"tmp", "toml"} /\ win' = Writing(w) /\ UNCHANGED <<toml, tmp>>
<1>1. /\ Writing(w) \in [Windows -> Window]
      /\ Writing(w)[w] = [win[w] EXCEPT !.saving.step = "rename"]
      /\ \A v \in Windows \ {w} : Writing(w)[v] = win[v]
  BY StepTyped DEF Writing
<1>2. win[w].saving.config \in Config
  BY WindowTyped DEF Save
<1>3. \/ held[w] = "tmp" /\ tmp' \in Over(tmp, win[w].saving.config) /\ win' = Writing(w) /\ UNCHANGED toml
      \/ /\ held[w] = "toml" /\ toml' \in Over(toml, win[w].saving.config)
         /\ win' = Notified(Writing(w)) /\ UNCHANGED tmp
      \/ held[w] \notin {"tmp", "toml"} /\ win' = Writing(w) /\ UNCHANGED <<toml, tmp>>
  BY DEF WriteTmp, Writing
<1>4. toml' \in File /\ tmp' \in File
  BY <1>2, <1>3, FileTyped, OverTyped
<1> QED
  BY <1>1, <1>3, <1>4, NotifiedDoes DEF WriteTmp

(* The save of a window is over; a text that was saved is the configuration. *)
Done(w, saved) ==
  [win[w] EXCEPT !.saving = NotSaving, !.config = IF saved THEN win[w].saving.config ELSE win[w].config,
                 !.text = IF saved THEN Absent ELSE win[w].text]

LEMMA DoneTyped ==
  ASSUME Types, NEW w \in Windows, NEW saved \in BOOLEAN
  PROVE  Done(w, saved) \in Window
<1>1. PICK c \in Config : c = IF saved THEN win[w].saving.config ELSE win[w].config
  BY WindowTyped DEF Save
<1>2. PICK f \in File : f = IF saved THEN Absent ELSE win[w].text
  BY WindowTyped, FilesTyped
<1>3. PICK r \in Window : r = win[w]
  BY WindowTyped
<1>4. Done(w, saved) = [r EXCEPT !.saving = NotSaving, !.config = c, !.text = f]
  BY <1>1, <1>2, <1>3 DEF Done
<1>5. [r EXCEPT !.saving = NotSaving, !.config = c, !.text = f] \in Window
  BY NotSavingIsSave DEF Window
<1> QED
  BY <1>4, <1>5

LEMMA RenameTmpDoes ==
  ASSUME Types, NEW w \in Windows, RenameTmp(w)
  PROVE  /\ UNCHANGED own
         /\ win[w].saving.step = "rename"
         /\ \/ /\ tmp = Absent /\ UNCHANGED <<toml, tmp, held>>
               /\ OneChanged(w) /\ win'[w] = Done(w, FALSE)
            \/ /\ tmp # Absent /\ toml' = tmp /\ tmp' = Absent
               /\ held' = [v \in Windows |-> CASE held[v] = "tmp" -> "toml"
                                              [] held[v] = "toml" -> "gone"
                                              [] OTHER -> held[v]]
               /\ win' \in [Windows -> Window]
               /\ win'[w] = [Done(w, win[w].saving.json) EXCEPT !.dirty = win[w].watching]
               /\ \A v \in Windows \ {w} : win'[v] = [win[v] EXCEPT !.dirty = win[v].watching]
<1>1. win[w].saving.json \in BOOLEAN
  BY WindowTyped DEF Save
<1>2. CASE tmp = Absent
  <2>1. win' = [win EXCEPT ![w] = Done(w, FALSE)] /\ UNCHANGED <<toml, tmp, held>>
    BY <1>1, <1>2 DEF RenameTmp, Done
  <2>2. Done(w, FALSE) \in Window
    BY DoneTyped
  <2>3. win'[w] = Done(w, FALSE) /\ win' = [win EXCEPT ![w] = win'[w]]
    BY <2>1 DEF Types
  <2> QED
    BY <1>2, <2>1, <2>2, <2>3, OneTyped DEF RenameTmp
<1>3. CASE tmp # Absent
  <2> DEFINE ww == [win EXCEPT ![w] = Done(w, win[w].saving.json)]
  <2>1. /\ win' = Notified(ww)
        /\ toml' = tmp /\ tmp' = Absent
        /\ held' = [v \in Windows |-> CASE held[v] = "tmp" -> "toml"
                                       [] held[v] = "toml" -> "gone"
                                       [] OTHER -> held[v]]
    BY <1>1, <1>3 DEF RenameTmp, Done
  <2>2. Done(w, win[w].saving.json) \in Window
    BY <1>1, DoneTyped
  <2>3. ww \in [Windows -> Window] /\ ww[w] = Done(w, win[w].saving.json) /\ \A v \in Windows \ {w} : ww[v] = win[v]
    BY <2>2 DEF Types
  <2>4. Done(w, win[w].saving.json).watching = win[w].watching
    BY WindowTyped DEF Done, Window
  <2> HIDE DEF ww
  <2>5. AllNotified(ww)
    BY <2>1, <2>3, NotifiedDoes
  <2> QED
    BY <1>3, <2>1, <2>3, <2>4, <2>5 DEF RenameTmp, AllNotified
<1> QED
  BY <1>2, <1>3 DEF RenameTmp

LEMMA ReloadedTyped ==
  ASSUME NEW r \in Window, NEW c \in Config, NEW is_active \in BOOLEAN
  PROVE  Reloaded(r, c, is_active) \in Window
<1> DEFINE stale == is_active /\ (r.stale \/ r.dropdown # build_dropdown_popover(c))
           dropped == {a \in Actions : c.keybindings[a] = Unset /\ r.accels[a] # Defaults(a)}
<1>1. PICK m \in Menu : m = IF is_active THEN r.dropdown ELSE build_dropdown_popover(c)
  BY MenuTyped DEF Window
<1>2. PICK shortcuts \in [Actions -> SUBSET (Accels \cup {"X"})] :
        shortcuts = apply_keybinding_overrides(r.accels, c.keybindings)
  BY OverridesTyped DEF Window
<1>3. PICK p \in Profiles : p = c.profiles
  BY ConfigTyped
<1>4. PICK looks \in (0 .. 1) \X (0 .. 1) : looks = Looks(c)
  BY LooksTyped
<1>5. stale \in BOOLEAN /\ dropped \in SUBSET Actions
  BY DEF Window
<1>6. Reloaded(r, c, is_active) =
        [r EXCEPT !.config = c, !.looks = looks, !.actions = p, !.dropdown = m, !.stale = stale,
                  !.accels = shortcuts, !.dropped = dropped]
  BY <1>1, <1>2, <1>3, <1>4 DEF Reloaded, apply_to_all_panes, register_profile_actions
<1> HIDE DEF stale, dropped
<1>7. [r EXCEPT !.config = c, !.looks = looks, !.actions = p, !.dropdown = m, !.stale = stale,
                !.accels = shortcuts, !.dropped = dropped] \in Window
  BY <1>5 DEF Window
<1> QED
  BY <1>6, <1>7

Polled(r, c, is_active) == [Reloaded(r, c, is_active) EXCEPT !.dirty = FALSE, !.late = FALSE]

LEMMA PollDoes ==
  ASSUME Types, NEW w \in Windows, Poll(w)
  PROVE  /\ OneChanged(w) /\ UNCHANGED <<toml, tmp, held>>
         /\ Resting(w) /\ win[w].dirty
         /\ own' = [own EXCEPT !.spoiled = own.spoiled \/ win[w].idles # <<>>]
         /\ \/ /\ Parses(toml)
               /\ \E is_active \in BOOLEAN :
                    win'[w] = Polled(win[w], load_config(toml), is_active)
            \/ ~ Parses(toml) /\ win'[w] = [win[w] EXCEPT !.dirty = FALSE]
<1>1. win[w] \in Window /\ load_config(toml) \in Config
  BY WindowTyped, FileTyped
<1>2. PICK is_active \in BOOLEAN :
        win' = [win EXCEPT ![w] =
          IF Parses(toml) THEN [Reloaded(win[w], load_config(toml), is_active) EXCEPT !.dirty = FALSE, !.late = FALSE]
          ELSE [win[w] EXCEPT !.dirty = FALSE]]
  BY DEF Poll
<1>3. CASE Parses(toml)
  <2> DEFINE r == Reloaded(win[w], load_config(toml), is_active)
  <2>1. r \in Window
    BY <1>1, ReloadedTyped
  <2>2. win' = [win EXCEPT ![w] = [r EXCEPT !.dirty = FALSE, !.late = FALSE]]
    BY <1>2, <1>3
  <2> HIDE DEF r
  <2>3. [r EXCEPT !.dirty = FALSE, !.late = FALSE] \in Window
    BY <2>1 DEF Window
  <2>4. win'[w] = [r EXCEPT !.dirty = FALSE, !.late = FALSE] /\ win' = [win EXCEPT ![w] = win'[w]]
    BY <2>2 DEF Types
  <2> QED
    BY <1>3, <2>3, <2>4, OneTyped DEF Poll, r, Polled
<1>4. CASE ~ Parses(toml)
  <2>1. win' = [win EXCEPT ![w] = [win[w] EXCEPT !.dirty = FALSE]]
    BY <1>2, <1>4
  <2>2. [win[w] EXCEPT !.dirty = FALSE] \in Window
    BY <1>1 DEF Window
  <2>3. win'[w] = [win[w] EXCEPT !.dirty = FALSE] /\ win' = [win EXCEPT ![w] = win'[w]]
    BY <2>1 DEF Types
  <2> QED
    BY <1>4, <2>2, <2>3, OneTyped DEF Poll
<1> QED
  BY <1>3, <1>4

LEMMA ReloadDoes ==
  ASSUME Types, NEW w \in Windows, reload_config_all_workspaces(w)
  PROVE  /\ OneChanged(w) /\ UNCHANGED <<toml, tmp, held>>
         /\ Resting(w) /\ Parses(toml)
         /\ own' = [own EXCEPT !.spoiled = own.spoiled \/ win[w].idles # <<>>]
         /\ win'[w] = [win[w] EXCEPT !.config = load_config(toml), !.looks = Looks(load_config(toml))]
<1>1. PICK c \in Config : c = load_config(toml)
  BY FileTyped
<1>2. PICK l \in (0 .. 1) \X (0 .. 1) : l = Looks(c)
  BY LooksTyped
<1>3. win' = [win EXCEPT ![w] = [win[w] EXCEPT !.config = c, !.looks = l]]
  BY <1>1, <1>2 DEF reload_config_all_workspaces, apply_to_all_panes
<1>4. [win[w] EXCEPT !.config = c, !.looks = l] \in Window
  BY WindowTyped, ZenonT(60) DEF Window
<1>5. win'[w] = [win[w] EXCEPT !.config = c, !.looks = l] /\ win' = [win EXCEPT ![w] = win'[w]]
  BY <1>3 DEF Types
<1> QED
  BY <1>1, <1>2, <1>4, <1>5, OneTyped DEF reload_config_all_workspaces

-----------------------------------------------------------------------------
(* Types                                                                     *)

LEMMA UnspoiledTyped ==
  ASSUME Types, NEW b \in BOOLEAN
  PROVE  [own EXCEPT !.spoiled = b] \in [by : SUBSET Windows, config : Config, spoiled : BOOLEAN]
BY DEF Types

LEMMA TypesInit == SettingsInit => Types
BY OffIsWindow, FilesTyped, DefaultIsConfig DEF SettingsInit, Types

LEMMA WindowStepTypes ==
  ASSUME Types, NEW w \in Windows, WindowStep(w)
  PROVE  Types'
<1> USE DEF OneChanged, Shared
<1>1. CASE StartUp(w)
  BY <1>1, StartUpDoes DEF Types
<1>2. CASE build_ui(w)
  BY <1>2, BuildUiDoes DEF Types
<1>3. CASE SaveWhenIdle(w)
  BY <1>3, SaveWhenIdleDoes DEF Types
<1>4. CASE OpenTmp(w)
  BY <1>4, OpenTmpDoes, FilesTyped DEF Types
<1>5. CASE WriteTmp(w)
  <2>1. win' \in [Windows -> Window]
    BY <1>5, WriteTmpDoes DEF AllNotified
  <2> QED
    BY <1>5, <2>1, WriteTmpDoes DEF Types
<1>6. CASE RenameTmp(w)
  <2>1. win' \in [Windows -> Window] /\ UNCHANGED own
    BY <1>6, RenameTmpDoes
  <2>2. toml' \in File /\ tmp' \in File
    BY <1>6, RenameTmpDoes, FilesTyped, FileTyped
  <2>3. \/ held' = held
        \/ held' = [v \in Windows |-> CASE held[v] = "tmp" -> "toml"
                                        [] held[v] = "toml" -> "gone"
                                        [] OTHER -> held[v]]
    BY <1>6, RenameTmpDoes
  <2>4. held' \in [Windows -> {"none", "tmp", "toml", "gone"}]
    BY <2>3 DEF Types
  <2> QED
    BY <2>1, <2>2, <2>4 DEF Types
<1>7. CASE Poll(w)
  <2>1. OneChanged(w) /\ UNCHANGED <<toml, tmp, held>> /\ own' = [own EXCEPT !.spoiled = own.spoiled \/ win[w].idles # <<>>]
    BY <1>7, PollDoes
  <2> QED
    BY <2>1, UnspoiledTyped DEF Types
<1>8. CASE reload_config_all_workspaces(w)
  BY <1>8, ReloadDoes, UnspoiledTyped DEF Types
<1>9. CASE ViewJson(w)
  BY <1>9, ViewJsonDoes, UnspoiledTyped DEF Types
<1>10. CASE CancelJson(w)
  BY <1>10, CancelJsonDoes DEF Types
<1>11. CASE SaveJson(w)
  <2>1. PICK c \in Config : OneChanged(w) /\ UNCHANGED <<toml, tmp, held>> /\ Note(w, c, win[w].idles # <<>>)
    BY <1>11, SaveJsonDoes
  <2> QED
    BY <2>1, NoteDoes DEF Types
<1>12. CASE \E v \in 0 .. 1 : ChangeSetting(w, v)
  <2>1. PICK v \in 0 .. 1 : ChangeSetting(w, v)
    BY <1>12
  <2>2. [own.config EXCEPT !.bell = v] \in Config
    BY ConfigUpdates DEF Types
  <2> QED
    BY <2>1, <2>2, ChangeSettingDoes, NoteDoes DEF Types, Changed
<1>13. CASE \E v \in 0 .. 1, shown \in BOOLEAN : ChangeLook(w, v, shown)
  <2>1. PICK v \in 0 .. 1, shown \in BOOLEAN : ChangeLook(w, v, shown)
    BY <1>13
  <2>2. [own.config EXCEPT !.look = v] \in Config
    BY ConfigUpdates DEF Types
  <2>3. PICK d \in Config : OneChanged(w) /\ UNCHANGED <<toml, tmp, held>> /\ Note(w, d, FALSE)
    BY <2>1, <2>2, ChangeLookDoes, ZenonT(60) DEF Changed
  <2> QED
    BY <2>3, NoteDoes DEF Types
<1>14. CASE \E a \in Actions, accel \in Accels : Bind(w, a, accel)
  <2>1. PICK a \in Actions, accel \in Accels : Bind(w, a, accel)
    BY <1>14
  <2>2. [own.config EXCEPT !.keybindings[a] = accel] \in Config
    BY BindingUpdates DEF Types
  <2> QED
    BY <2>1, <2>2, BindDoes, NoteDoes DEF Types
<1>15. CASE \E actions \in SUBSET Actions : Reset(w, actions)
  <2>1. PICK actions \in SUBSET Actions : Reset(w, actions)
    BY <1>15
  <2>2. ResetConfig(own.config, actions) \in Config
    BY BindingResets DEF Types, ResetConfig
  <2>3. PICK d \in Config : OneChanged(w) /\ UNCHANGED <<toml, tmp, held>> /\ Note(w, d, win[w].idles # <<>>)
    BY <2>1, <2>2, ResetDoes
  <2> QED
    BY <2>3, NoteDoes DEF Types
<1> QED
  BY <1>1, <1>2, <1>3, <1>4, <1>5, <1>6, <1>7, <1>8, <1>9, <1>10, <1>11, <1>12, <1>13, <1>14, <1>15
  DEF WindowStep, ResetAll

LEMMA NextTypes ==
  ASSUME Types, SettingsNext
  PROVE  Types'
<1>1. CASE EditOutside
  <2>1. held' \in [Windows -> {"none", "tmp", "toml", "gone"}]
    BY <1>1, EditOutsideDoes DEF Types
  <2> QED
    BY <1>1, <2>1, EditOutsideDoes, UnspoiledTyped DEF Types, AllNotified
<1> QED
  BY <1>1, WindowStepTypes DEF SettingsNext

-----------------------------------------------------------------------------
(* A window that is not up has done nothing yet.                             *)

LEMMA FreshFacts ==
  ASSUME Types, FreshInv, NEW w \in Windows, win[w].phase # "up"
  PROVE  /\ win[w].saving = NotSaving /\ win[w].idles = <<>> /\ win[w].text = Absent
         /\ ~ win[w].watching /\ ~ win[w].dirty /\ ~ win[w].stale
         /\ win[w].warned = {} /\ win[w].dropped = {}
         /\ win[w].accels = [a \in Actions |-> Defaults(a)]
<1>1. PICK r : r = win[w]
  OBVIOUS
<1>2. PICK f : f = [a \in Actions |-> Defaults(a)]
  OBVIOUS
<1>3. r = [Off EXCEPT !.phase = r.phase, !.config = r.config]
  BY <1>1 DEF FreshInv, Fresh
<1>4. r.accels = f
  BY <1>2, <1>3 DEF Off
<1>5. /\ r.saving = NotSaving /\ r.idles = <<>> /\ r.text = Absent
      /\ r.warned = {} /\ r.dropped = {}
  BY <1>3 DEF Off
<1>6. ~ r.watching /\ ~ r.dirty /\ ~ r.stale
  BY <1>3 DEF Off
<1> QED
  BY <1>1, <1>2, <1>4, <1>5, <1>6

LEMMA FreshInit == SettingsInit => FreshInv
BY DEF SettingsInit, FreshInv, Fresh, Off

(* A window that is not up starts or is built, and does nothing else.        *)
LEMMA UpToStep ==
  ASSUME Types, FreshInv, NEW w \in Windows, WindowStep(w), win[w].phase # "up"
  PROVE  StartUp(w) \/ build_ui(w)
<1>1. ~ Resting(w) /\ win[w].saving.step = "none"
  <2>1. win[w].saving = NotSaving
    BY FreshFacts
  <2> QED
    BY <2>1 DEF Resting, NotSaving
<1>2. ~ SaveWhenIdle(w) /\ ~ OpenTmp(w) /\ ~ WriteTmp(w) /\ ~ RenameTmp(w)
  BY <1>1 DEF SaveWhenIdle, OpenTmp, WriteTmp, RenameTmp
<1>3. ~ Poll(w) /\ ~ reload_config_all_workspaces(w) /\ ~ ViewJson(w) /\ ~ CancelJson(w) /\ ~ SaveJson(w)
  BY <1>1 DEF Poll, reload_config_all_workspaces, ViewJson, AtSettings, CancelJson, SaveJson
<1>4. \A v, a, b : ~ ChangeSetting(w, v) /\ ~ ChangeLook(w, v, a) /\ ~ Reset(w, a) /\ ~ Bind(w, a, b)
  BY <1>1, ZenonT(60) DEF ChangeSetting, ChangeLook, Reset, Bind, MayRebind, AtSettings
<1> QED
  BY <1>2, <1>3, <1>4 DEF WindowStep, ResetAll

(* What a step of one window does to the others: nothing, or an event.       *)
LEMMA OthersDo ==
  ASSUME Types, NEW w \in Windows, WindowStep(w), NEW v \in Windows \ {w}
  PROVE  win'[v] = win[v] \/ win'[v] = [win[v] EXCEPT !.dirty = win[v].watching]
<1> USE DEF OneChanged, Shared
<1>1. CASE StartUp(w)
  BY <1>1, StartUpDoes
<1>2. CASE build_ui(w)
  BY <1>2, BuildUiDoes
<1>3. CASE SaveWhenIdle(w)
  BY <1>3, SaveWhenIdleDoes
<1>4. CASE OpenTmp(w)
  BY <1>4, OpenTmpDoes
<1>5. CASE WriteTmp(w)
  <2>1. Writing(w)[v] = win[v] /\ (win' = Writing(w) \/ AllNotified(Writing(w)))
    BY <1>5, WriteTmpDoes
  <2> QED
    BY <2>1 DEF AllNotified
<1>6. CASE RenameTmp(w)
  BY <1>6, RenameTmpDoes
<1>7. CASE Poll(w)
  BY <1>7, PollDoes
<1>8. CASE reload_config_all_workspaces(w)
  BY <1>8, ReloadDoes
<1>9. CASE ViewJson(w)
  BY <1>9, ViewJsonDoes
<1>10. CASE CancelJson(w)
  BY <1>10, CancelJsonDoes
<1>11. CASE SaveJson(w)
  BY <1>11, SaveJsonDoes
<1>12. CASE \E x \in 0 .. 1 : ChangeSetting(w, x)
  BY <1>12, ChangeSettingDoes
<1>13. CASE \E x \in 0 .. 1, shown \in BOOLEAN : ChangeLook(w, x, shown)
  BY <1>13, ChangeLookDoes
<1>14. CASE \E a \in Actions, accel \in Accels : Bind(w, a, accel)
  BY <1>14, BindDoes
<1>15. CASE \E actions \in SUBSET Actions : Reset(w, actions)
  BY <1>15, ResetDoes
<1> QED
  BY <1>1, <1>2, <1>3, <1>4, <1>5, <1>6, <1>7, <1>8, <1>9, <1>10, <1>11, <1>12, <1>13, <1>14, <1>15
  DEF WindowStep, ResetAll

(* Its own phase changes only when it starts and is built.                   *)
LEMMA PhaseStays ==
  ASSUME Types, NEW w \in Windows, WindowStep(w), win[w].phase = "up"
  PROVE  win'[w].phase = "up"
<1>3. CASE SaveWhenIdle(w)
  BY <1>3, SaveWhenIdleDoes, WindowTyped DEF Window
<1>4. CASE OpenTmp(w)
  BY <1>4, OpenTmpDoes, WindowTyped DEF Window
<1>5. CASE WriteTmp(w)
  <2>1. /\ Writing(w)[w] = [win[w] EXCEPT !.saving.step = "rename"]
        /\ win' = Writing(w) \/ AllNotified(Writing(w))
    BY <1>5, WriteTmpDoes
  <2>2. win'[w] = Writing(w)[w] \/ win'[w] = [Writing(w)[w] EXCEPT !.dirty = Writing(w)[w].watching]
    BY <2>1 DEF AllNotified
  <2>3. PICK r : r = Writing(w)[w]
    OBVIOUS
  <2>4. r.phase = "up" /\ [r EXCEPT !.dirty = r.watching].phase = "up"
    BY <2>1, <2>3, WindowTyped DEF Window
  <2> QED
    BY <2>2, <2>3, <2>4
<1>6. CASE RenameTmp(w)
  <2>1. \/ win'[w] = Done(w, FALSE)
        \/ win'[w] = [Done(w, win[w].saving.json) EXCEPT !.dirty = win[w].watching]
    BY <1>6, RenameTmpDoes
  <2>2. \A saved : Done(w, saved).phase = "up" /\ [Done(w, saved) EXCEPT !.dirty = win[w].watching].phase = "up"
    BY WindowTyped DEF Window, Done
  <2> QED
    BY <2>1, <2>2
<1>7. CASE Poll(w)
  <2>1. \/ \E is_active \in BOOLEAN :
             win'[w] = Polled(win[w], load_config(toml), is_active)
        \/ win'[w] = [win[w] EXCEPT !.dirty = FALSE]
    BY <1>7, PollDoes
  <2>2. PICK r \in Window : r = win[w]
    BY WindowTyped
  <2>3. \A c \in Config, is_active \in BOOLEAN : Reloaded(r, c, is_active) \in Window
    BY ReloadedTyped
  <2>4. \A c, is_active : Reloaded(r, c, is_active).phase = r.phase
    BY DEF Window, Reloaded
  <2>5. \A q \in Window : [q EXCEPT !.dirty = FALSE, !.late = FALSE].phase = q.phase /\ [q EXCEPT !.dirty = FALSE].phase = q.phase
    BY DEF Window
  <2>6. PICK c \in Config : c = load_config(toml)
    BY FileTyped
  <2>7. CASE win'[w] = [win[w] EXCEPT !.dirty = FALSE]
    BY <2>2, <2>5, <2>7
  <2>8. CASE \E is_active \in BOOLEAN : win'[w] = Polled(win[w], load_config(toml), is_active)
    <3>1. PICK q \in Window : q.phase = r.phase /\ win'[w] = [q EXCEPT !.dirty = FALSE, !.late = FALSE]
      BY <2>2, <2>3, <2>4, <2>6, <2>8 DEF Polled
    <3> QED
      BY <2>2, <2>5, <3>1
  <2> QED
    BY <2>1, <2>7, <2>8
<1>8. CASE reload_config_all_workspaces(w)
  BY <1>8, ReloadDoes, WindowTyped DEF Window
<1>9. CASE ViewJson(w)
  BY <1>9, ViewJsonDoes, WindowTyped DEF Window
<1>10. CASE CancelJson(w)
  BY <1>10, CancelJsonDoes, WindowTyped DEF Window
<1>11. CASE SaveJson(w)
  <2>1. PICK c \in Config : win'[w] = [win[w] EXCEPT !.text = Whole(c), !.saving = Saving(c, TRUE)]
    BY <1>11, SaveJsonDoes
  <2> QED
    BY <2>1, WindowTyped DEF Window
<1>12. CASE \E x \in 0 .. 1 : ChangeSetting(w, x)
  BY <1>12, ChangeSettingDoes, WindowTyped DEF Window, Changed
<1>13. CASE \E x \in 0 .. 1, shown \in BOOLEAN : ChangeLook(w, x, shown)
  <2>1. PICK x \in 0 .. 1, shown \in BOOLEAN : ChangeLook(w, x, shown)
    BY <1>13
  <2>2. PICK c : Changed(w, c, [own.config EXCEPT !.look = x])
    BY <2>1, ChangeLookDoes
  <2>3. PICK looks, idles : win'[w] = [win[w] EXCEPT !.config = c, !.looks = looks, !.idles = idles]
    BY <2>2 DEF Changed
  <2> QED
    BY <2>3, WindowTyped DEF Window
<1>14. CASE \E a \in Actions, accel \in Accels : Bind(w, a, accel)
  <2>1. PICK a \in Actions, accel \in Accels : Bind(w, a, accel)
    BY <1>14
  <2>2. PICK warned : win'[w] = Bound(win[w], a, accel, warned)
    BY <2>1, BindDoes
  <2> QED
    BY <2>2, WindowTyped DEF Window, Bound
<1>15. CASE \E actions \in SUBSET Actions : Reset(w, actions)
  BY <1>15, ResetDoes, WindowTyped DEF Window, Unbound
<1> QED
  BY <1>3, <1>4, <1>5, <1>6, <1>7, <1>8, <1>9, <1>10, <1>11, <1>12, <1>13, <1>14, <1>15
  DEF WindowStep, ResetAll, StartUp, build_ui

LEMMA FreshStays ==
  ASSUME NEW r \in Window, Fresh(r), NEW q, q = r \/ q = [r EXCEPT !.dirty = r.watching]
  PROVE  Fresh(q)
<1>1. ~ r.watching /\ ~ r.dirty
  BY DEF Fresh, Off
<1>2. [r EXCEPT !.dirty = r.watching] = r
  BY <1>1 DEF Window
<1> QED
  BY <1>2

LEMMA NextFresh ==
  ASSUME Types, FreshInv, SettingsNext
  PROVE  FreshInv'
<1> SUFFICES ASSUME NEW v \in Windows, win'[v].phase # "up"
             PROVE  Fresh(win'[v])
  BY DEF FreshInv
<1>1. CASE EditOutside
  <2>1. win'[v] = [win[v] EXCEPT !.dirty = win[v].watching]
    BY <1>1, EditOutsideDoes DEF AllNotified
  <2>2. win[v].phase # "up"
    BY <2>1, WindowTyped DEF Window
  <2> QED
    BY <2>1, <2>2, WindowTyped, FreshStays DEF FreshInv
<1>2. ASSUME NEW w \in Windows, WindowStep(w), v # w
      PROVE  Fresh(win'[v])
  <2>1. win'[v] = win[v] \/ win'[v] = [win[v] EXCEPT !.dirty = win[v].watching]
    BY <1>2, OthersDo
  <2>2. win[v].phase # "up"
    BY <2>1, WindowTyped DEF Window
  <2> QED
    BY <2>1, <2>2, WindowTyped, FreshStays DEF FreshInv
<1>3. ASSUME WindowStep(v)
      PROVE  Fresh(win'[v])
  <2>1. win[v].phase # "up"
    BY <1>3, PhaseStays
  <2>2. ~ build_ui(v)
    BY BuildUiDoes, WindowTyped, ZenonT(60) DEF Window
  <2>3. StartUp(v) /\ Fresh(win[v])
    BY <1>3, <2>1, <2>2, UpToStep DEF FreshInv
  <2>4. win'[v] = [win[v] EXCEPT !.phase = "loaded", !.config = load_config(toml)]
    BY <2>3, StartUpDoes
  <2> QED
    BY <2>3, <2>4 DEF Fresh, Off
<1> QED
  BY <1>1, <1>2, <1>3 DEF SettingsNext

-----------------------------------------------------------------------------
(* Only what is being written is held.                                       *)

LEMMA HeldInit == SettingsInit => HeldInv
BY DEF SettingsInit, HeldInv

LEMMA SavingKept ==
  ASSUME NEW r \in Window
  PROVE  [r EXCEPT !.dirty = r.watching].saving = r.saving
BY DEF Window

(* The file a window writes to is renamed or replaced by others at most.     *)
LEMMA HeldMoves ==
  ASSUME Types, SettingsNext, NEW v \in Windows, ~ OpenTmp(v), held'[v] # "none"
  PROVE  held[v] # "none"
<1>1. CASE EditOutside
  BY <1>1, EditOutsideDoes DEF Types
<1>2. ASSUME NEW w \in Windows, OpenTmp(w)
      PROVE  held[v] # "none"
  BY <1>2, OpenTmpDoes, ZenonT(60) DEF Types
<1>3. ASSUME NEW w \in Windows, WriteTmp(w)
      PROVE  held[v] # "none"
  BY <1>3, WriteTmpDoes DEF Types
<1>4. ASSUME NEW w \in Windows, RenameTmp(w)
      PROVE  held[v] # "none"
  <2>1. \/ held' = held
        \/ held' = [x \in Windows |-> CASE held[x] = "tmp" -> "toml"
                                        [] held[x] = "toml" -> "gone"
                                        [] OTHER -> held[x]]
    BY <1>4, RenameTmpDoes
  <2> QED
    BY <2>1
<1>5. CASE UNCHANGED held
  BY <1>5
<1>6. ASSUME NEW w \in Windows, WindowStep(w)
      PROVE  OpenTmp(w) \/ WriteTmp(w) \/ RenameTmp(w) \/ UNCHANGED held
  BY <1>6 DEF WindowStep, ResetAll, StartUp, build_ui, SaveWhenIdle, Poll, reload_config_all_workspaces, ViewJson,
     CancelJson, SaveJson, ChangeSetting, ChangeLook, Reset, Bind
<1> QED
  BY <1>1, <1>2, <1>3, <1>4, <1>5, <1>6 DEF SettingsNext

(* Where a window's save goes in a step that is not its own                  *)
LEMMA OthersSaving ==
  ASSUME Types, NEW w \in Windows, WindowStep(w), NEW v \in Windows \ {w}
  PROVE  win'[v].saving = win[v].saving
BY OthersDo, SavingKept, WindowTyped

(* The callbacks that leave a save alone                                     *)
Aside(w) ==
  \/ StartUp(w) \/ build_ui(w) \/ Poll(w) \/ reload_config_all_workspaces(w) \/ ViewJson(w) \/ CancelJson(w)
  \/ \E v \in 0 .. 1 : ChangeSetting(w, v) \/ \E shown \in BOOLEAN : ChangeLook(w, v, shown)

(* The callbacks that begin one                                              *)
Begins(w) ==
  \/ SaveWhenIdle(w) \/ SaveJson(w)
  \/ \E a \in Actions, accel \in Accels : Bind(w, a, accel)
  \/ \E actions \in SUBSET Actions : Reset(w, actions)

LEMMA StepKinds ==
  ASSUME NEW w \in Windows, WindowStep(w)
  PROVE  Aside(w) \/ Begins(w) \/ OpenTmp(w) \/ WriteTmp(w) \/ RenameTmp(w)
BY DEF WindowStep, ResetAll, Aside, Begins

LEMMA AsideSaving ==
  ASSUME Types, NEW w \in Windows, Aside(w)
  PROVE  win'[w].saving = win[w].saving
<1>1. CASE StartUp(w)
  BY <1>1, StartUpDoes, WindowTyped, ZenonT(60) DEF Window
<1>2. CASE build_ui(w)
  <2>1. PICK q : q = win'[w]
    OBVIOUS
  <2>2. q = [win[w] EXCEPT !.phase = "up", !.looks = q.looks, !.accels = q.accels, !.actions = q.actions,
                           !.dropdown = q.dropdown, !.watching = q.watching, !.late = q.late]
    BY <1>2, <2>1, BuildUiDoes
  <2>3. q.saving = win[w].saving
    BY <2>2, WindowTyped DEF Window
  <2> QED
    BY <2>1, <2>3
<1>3. CASE Poll(w)
  <2>1. \/ \E is_active \in BOOLEAN :
             win'[w] = Polled(win[w], load_config(toml), is_active)
        \/ win'[w] = [win[w] EXCEPT !.dirty = FALSE]
    BY <1>3, PollDoes
  <2>2. PICK r \in Window : r = win[w]
    BY WindowTyped
  <2>3. PICK c \in Config : c = load_config(toml)
    BY FileTyped
  <2>4. \A is_active \in BOOLEAN : Reloaded(r, c, is_active) \in Window /\ Reloaded(r, c, is_active).saving = r.saving
    <3>1. \A is_active : Reloaded(r, c, is_active).saving = r.saving
      BY DEF Window, Reloaded
    <3> QED
      BY <3>1, ReloadedTyped
  <2>5. \A q \in Window : /\ [q EXCEPT !.dirty = FALSE, !.late = FALSE].saving = q.saving
                          /\ [q EXCEPT !.dirty = FALSE].saving = q.saving
    BY DEF Window
  <2>6. CASE win'[w] = [win[w] EXCEPT !.dirty = FALSE]
    BY <2>2, <2>5, <2>6
  <2>7. ASSUME NEW is_active \in BOOLEAN,
               win'[w] = Polled(win[w], load_config(toml), is_active)
        PROVE  win'[w].saving = win[w].saving
    <3>1. PICK q \in Window : q.saving = r.saving /\ win'[w] = [q EXCEPT !.dirty = FALSE, !.late = FALSE]
      BY <2>2, <2>3, <2>4, <2>7 DEF Polled
    <3> QED
      BY <2>2, <2>5, <3>1
  <2> QED
    BY <2>1, <2>6, <2>7
<1>4. CASE reload_config_all_workspaces(w)
  BY <1>4, ReloadDoes, WindowTyped DEF Window
<1>5. CASE ViewJson(w)
  BY <1>5, ViewJsonDoes, WindowTyped DEF Window
<1>6. CASE CancelJson(w)
  BY <1>6, CancelJsonDoes, WindowTyped DEF Window
<1>7. ASSUME NEW c, NEW d, Changed(w, c, d)
      PROVE  win'[w].saving = win[w].saving
  <2>1. PICK looks, idles : win'[w] = [win[w] EXCEPT !.config = c, !.looks = looks, !.idles = idles]
    BY <1>7 DEF Changed
  <2> QED
    BY <2>1, WindowTyped DEF Window
<1> QED
  BY <1>1, <1>2, <1>3, <1>4, <1>5, <1>6, <1>7, ChangeSettingDoes, ChangeLookDoes DEF Aside

LEMMA BeginsSaving ==
  ASSUME Types, NEW w \in Windows, Begins(w)
  PROVE  /\ Resting(w) /\ UNCHANGED <<toml, tmp, held>>
         /\ win'[w].saving.step = "open"
<1>1. CASE SaveWhenIdle(w)
  <2>1. PICK idles, c : win'[w] = [win[w] EXCEPT !.idles = idles, !.saving = [step |-> "open", config |-> c, json |-> FALSE]]
    BY <1>1, SaveWhenIdleDoes
  <2>2. win'[w].saving.step = "open"
    BY <2>1, WindowTyped DEF Window
  <2> QED
    BY <1>1, <2>2, SaveWhenIdleDoes DEF Shared
<1>2. CASE SaveJson(w)
  <2>1. PICK c \in Config :
          /\ Resting(w) /\ UNCHANGED <<toml, tmp, held>>
          /\ win'[w] = [win[w] EXCEPT !.text = Whole(c), !.saving = Saving(c, TRUE)]
    BY <1>2, SaveJsonDoes
  <2> QED
    BY <2>1, WindowTyped DEF Window, Saving
<1>3. CASE \E a \in Actions, accel \in Accels : Bind(w, a, accel)
  <2>1. PICK a \in Actions, accel \in Accels : Bind(w, a, accel)
    BY <1>3
  <2>2. PICK warned : win'[w] = Bound(win[w], a, accel, warned)
    BY <2>1, BindDoes
  <2>3. win'[w].saving.step = "open"
    BY <2>2, WindowTyped DEF Window, Bound, Saving
  <2> QED
    BY <2>1, <2>3, BindDoes DEF AtSettings
<1>4. CASE \E actions \in SUBSET Actions : Reset(w, actions)
  <2>1. PICK actions \in SUBSET Actions : Reset(w, actions)
    BY <1>4
  <2>2. Resting(w) /\ UNCHANGED <<toml, tmp, held>>
    BY <2>1, ResetDoes DEF AtSettings
  <2>3. win'[w] = Unbound(win[w], actions)
    BY <2>1, ResetDoes
  <2>4. win'[w].saving.step = "open"
    BY <2>3, WindowTyped DEF Window, Saving, Unbound
  <2> QED
    BY <2>2, <2>4
<1> QED
  BY <1>1, <1>2, <1>3, <1>4 DEF Begins

LEMMA NextHeld ==
  ASSUME Types, HeldInv, SettingsNext
  PROVE  HeldInv'
<1> SUFFICES ASSUME NEW v \in Windows, held'[v] # "none"
             PROVE  win'[v].saving.step = "write"
  BY DEF HeldInv
<1>1. CASE OpenTmp(v)
  <2>1. PICK r \in Window : r = win[v] /\ r.saving \in Save
    BY WindowTyped
  <2>2. [r EXCEPT !.saving.step = "write"].saving.step = "write"
    BY <2>1 DEF Window, Save
  <2> QED
    BY <1>1, <2>1, <2>2, OpenTmpDoes
<1>2. CASE ~ OpenTmp(v)
  <2>1. held[v] # "none" /\ win[v].saving.step = "write"
    BY <1>2, HeldMoves DEF HeldInv
  <2>2. CASE EditOutside
    <3>1. win'[v] = [win[v] EXCEPT !.dirty = win[v].watching]
      BY <2>2, EditOutsideDoes DEF AllNotified
    <3> QED
      BY <2>1, <3>1, SavingKept, WindowTyped
  <2>3. ASSUME NEW w \in Windows, WindowStep(w), w # v
        PROVE  win'[v].saving.step = "write"
    BY <2>1, <2>3, OthersSaving
  <2>4. CASE Aside(v)
    BY <2>1, <2>4, AsideSaving
  <2>5. ~ Begins(v)
    BY <2>1, BeginsSaving DEF Resting, NotSaving
  <2>6. ~ WriteTmp(v)
    BY WriteTmpDoes DEF Types
  <2>7. ~ RenameTmp(v)
    BY <2>1, RenameTmpDoes
  <2> QED
    BY <1>2, <2>2, <2>3, <2>4, <2>5, <2>6, <2>7, StepKinds DEF SettingsNext
<1> QED
  BY <1>1, <1>2

-----------------------------------------------------------------------------
(* An event is left of every change of config.toml.                          *)

LEMMA OverWhole ==
  ASSUME NEW f \in File, NEW c, NEW g \in Over(f, c)
  PROVE  g # Absent
BY DEF Over, Whole, Torn, Absent

LEMMA EmptyIsThere == Empty # Absent
<1>1. Empty.state # Absent.state
  BY DEF Empty, Absent
<1> QED
  BY <1>1

Woken(r) == [r EXCEPT !.dirty = r.watching]

LEMMA ToldFacts ==
  ASSUME NEW r \in Window
  PROVE  /\ Woken(r) \in Window
         /\ Woken(r).watching = r.watching /\ Woken(r).dirty = r.watching
         /\ Woken(r).saving = r.saving /\ Woken(r).phase = r.phase /\ Woken(r).stale = r.stale
         /\ Woken(r).dropdown = r.dropdown /\ Woken(r).actions = r.actions /\ Woken(r).idles = r.idles
         /\ Woken(r).late = r.late /\ Woken(r).config = r.config /\ Woken(r).text = r.text
         /\ Woken(r).accels = r.accels /\ Woken(r).warned = r.warned /\ Woken(r).dropped = r.dropped
<1>1. r.watching \in BOOLEAN
  BY DEF Window
<1> QED
  BY <1>1 DEF Woken, Window

(* What the others know of a step                                            *)
LEMMA OthersSee ==
  ASSUME Types, NEW w \in Windows, WindowStep(w), NEW v \in Windows \ {w}
  PROVE  \/ win'[v] = Woken(win[v])
         \/ win'[v] = win[v] /\ UNCHANGED toml /\ (tmp' = Absent => tmp = Absent)
<1>1. CASE OpenTmp(w)
  <2>1. tmp' # Absent
    BY <1>1, OpenTmpDoes, EmptyIsThere
  <2> QED
    BY <1>1, <2>1, OpenTmpDoes DEF OneChanged
<1>2. CASE WriteTmp(w)
  <2>1. Writing(w)[v] = win[v]
    BY <1>2, WriteTmpDoes
  <2>2. CASE AllNotified(Writing(w))
    BY <2>1, <2>2 DEF AllNotified, Woken
  <2>3. CASE held[w] = "tmp" /\ tmp' \in Over(tmp, win[w].saving.config) /\ win' = Writing(w) /\ UNCHANGED toml
    BY <2>1, <2>3, FileTyped, OverWhole
  <2>4. CASE win' = Writing(w) /\ UNCHANGED <<toml, tmp>>
    BY <2>1, <2>4
  <2> QED
    BY <1>2, <2>2, <2>3, <2>4, WriteTmpDoes
<1>3. CASE RenameTmp(w)
  BY <1>3, RenameTmpDoes DEF OneChanged, Woken
<1>4. CASE Begins(w)
  BY <1>4, BeginsSaving, OthersDo DEF Woken
<1>5. CASE Aside(w)
  <2>1. UNCHANGED <<toml, tmp>>
    BY <1>5 DEF Aside, StartUp, build_ui, Poll, reload_config_all_workspaces, ViewJson, CancelJson, ChangeSetting, ChangeLook
  <2> QED
    BY <2>1, OthersDo DEF Woken
<1> QED
  BY <1>1, <1>2, <1>3, <1>4, <1>5, StepKinds

LEMMA AsideFree ==
  ASSUME Types, FreshInv, NEW w \in Windows, Aside(w)
  PROVE  /\ win[w].saving = NotSaving
         /\ UNCHANGED <<toml, tmp, held>>
<1>1. CASE win[w].phase = "up"
  <2>1. ~ StartUp(w) /\ ~ build_ui(w)
    BY <1>1 DEF StartUp, build_ui
  <2> QED
    BY <2>1 DEF Aside, Poll, reload_config_all_workspaces, ViewJson, CancelJson, ChangeSetting, ChangeLook, AtSettings, Resting
<1>2. CASE win[w].phase # "up"
  <2>1. win[w].saving = NotSaving
    BY <1>2, FreshFacts
  <2> QED
    BY <2>1 DEF Aside, StartUp, build_ui, Poll, reload_config_all_workspaces, ViewJson, CancelJson, ChangeSetting, ChangeLook
<1> QED
  BY <1>1, <1>2

(* A save goes on: whether the window has an event is as it was.             *)
LEMMA StepFacts ==
  ASSUME NEW r \in Window, NEW step
  PROVE  LET q == [r EXCEPT !.saving.step = step]
         IN /\ q.saving = [r.saving EXCEPT !.step = step] /\ q.saving.step = step
            /\ q.watching = r.watching /\ q.dirty = r.dirty /\ q.phase = r.phase /\ q.stale = r.stale
            /\ q.dropdown = r.dropdown /\ q.actions = r.actions /\ q.idles = r.idles
            /\ q.config = r.config /\ q.text = r.text /\ q.accels = r.accels /\ q.warned = r.warned
<1>1. PICK s \in Save : s = r.saving
  BY DEF Window
<1>2. [s EXCEPT !.step = step].step = step
  BY DEF Save
<1> QED
  BY <1>1, <1>2 DEF Window

LEMMA DoneFacts ==
  ASSUME Types, NEW w \in Windows, NEW saved \in BOOLEAN
  PROVE  LET q == Done(w, saved) r == win[w]
         IN /\ q.saving = NotSaving
            /\ q.watching = r.watching /\ q.dirty = r.dirty /\ q.phase = r.phase /\ q.stale = r.stale
            /\ q.dropdown = r.dropdown /\ q.actions = r.actions /\ q.idles = r.idles
            /\ q.accels = r.accels /\ q.warned = r.warned
            /\ q.config = (IF saved THEN r.saving.config ELSE r.config)
            /\ q.text = (IF saved THEN Absent ELSE r.text)
<1>1. PICK r \in Window : r = win[w]
  BY WindowTyped
<1>2. PICK c, f : c = (IF saved THEN r.saving.config ELSE r.config) /\ f = IF saved THEN Absent ELSE r.text
  OBVIOUS
<1>3. Done(w, saved) = [r EXCEPT !.saving = NotSaving, !.config = c, !.text = f]
  BY <1>1, <1>2 DEF Done
<1>4. PICK q : q = [r EXCEPT !.saving = NotSaving, !.config = c, !.text = f]
  OBVIOUS
<1>5. /\ q.saving = NotSaving /\ q.config = c /\ q.text = f
      /\ q.watching = r.watching /\ q.dirty = r.dirty /\ q.phase = r.phase /\ q.stale = r.stale
      /\ q.dropdown = r.dropdown /\ q.actions = r.actions /\ q.idles = r.idles
      /\ q.accels = r.accels /\ q.warned = r.warned
  BY <1>4 DEF Window
<1> QED
  BY <1>1, <1>2, <1>3, <1>4, <1>5

EventsLeft == \A w \in Windows : EventLeft(w)

LEMMA NextEvents ==
  ASSUME Types, FreshInv, EventsLeft, SettingsNext
  PROVE  EventsLeft'
<1> SUFFICES ASSUME NEW v \in Windows, win'[v].watching, win'[v].saving.step \in {"write", "rename"}, tmp' = Absent
             PROVE  win'[v].dirty
  BY DEF EventsLeft, EventLeft
<1>1. CASE win'[v] = Woken(win[v])
  BY <1>1, WindowTyped, ToldFacts
<1>2. CASE EditOutside
  BY <1>1, <1>2, EditOutsideDoes DEF AllNotified, Woken
<1>3. ASSUME NEW w \in Windows, WindowStep(w), w # v
      PROVE  win'[v].dirty
  BY <1>1, <1>3, OthersSee DEF EventsLeft, EventLeft
<1>4. ~ Aside(v)
  BY AsideSaving, AsideFree DEF NotSaving
<1>5. ~ Begins(v)
  BY BeginsSaving
<1>6. ~ OpenTmp(v)
  BY OpenTmpDoes, EmptyIsThere
<1>7. ~ RenameTmp(v)
  <2>1. win[v].saving.json \in BOOLEAN
    BY WindowTyped DEF Save
  <2>2. \A saved \in BOOLEAN : Done(v, saved).saving = NotSaving /\ Done(v, saved) \in Window
    BY DoneFacts, DoneTyped
  <2>3. ASSUME NEW q \in Window, NEW b
        PROVE  [q EXCEPT !.dirty = b].saving = q.saving
    BY DEF Window
  <2>4. RenameTmp(v) => \/ win'[v] = Done(v, FALSE)
                        \/ win'[v] = [Done(v, win[v].saving.json) EXCEPT !.dirty = win[v].watching]
    BY RenameTmpDoes
  <2>5. RenameTmp(v) => win'[v].saving = NotSaving
    <3>1. PICK p \in Window, q \in Window : /\ p = Done(v, FALSE) /\ p.saving = NotSaving
                                             /\ q = Done(v, win[v].saving.json) /\ q.saving = NotSaving
      BY <2>1, <2>2
    <3>2. PICK b : b = win[v].watching
      OBVIOUS
    <3>3. RenameTmp(v) => win'[v] = p \/ win'[v] = [q EXCEPT !.dirty = b]
      BY <2>4, <3>1, <3>2
    <3>4. [q EXCEPT !.dirty = b].saving = NotSaving
      BY <2>3, <3>1
    <3> QED
      BY <3>1, <3>3, <3>4
  <2> QED
    BY <2>5 DEF NotSaving
<1>8. CASE WriteTmp(v)
  <2>1. Writing(v)[v] = [win[v] EXCEPT !.saving.step = "rename"] /\ win[v].saving.step = "write"
    BY <1>8, WriteTmpDoes
  <2>2. Writing(v)[v].watching = win[v].watching /\ Writing(v)[v].dirty = win[v].dirty
    BY <2>1, WindowTyped, StepFacts
  <2>3. Writing(v)[v] \in Window
    BY <1>8, WriteTmpDoes
  <2>4. CASE AllNotified(Writing(v))
    BY <2>3, <2>4, ToldFacts DEF AllNotified, Woken
  <2>5. CASE tmp' \in Over(tmp, win[v].saving.config)
    BY <2>5, FileTyped, OverWhole
  <2>6. CASE win' = Writing(v) /\ UNCHANGED <<toml, tmp>>
    BY <2>1, <2>2, <2>6 DEF EventsLeft, EventLeft
  <2> QED
    BY <1>8, <2>4, <2>5, <2>6, WriteTmpDoes
<1> QED
  BY <1>2, <1>3, <1>4, <1>5, <1>6, <1>7, <1>8, StepKinds DEF SettingsNext

-----------------------------------------------------------------------------
(* The menu fits the actions, or was left as it was.                         *)

MenuKept(q, r) == q.phase = r.phase /\ q.stale = r.stale /\ q.dropdown = r.dropdown /\ q.actions = r.actions

LEMMA MenuKeptToldOrStep ==
  ASSUME NEW r \in Window, NEW x
  PROVE  MenuKept(Woken(r), r) /\ MenuKept([r EXCEPT !.saving.step = x], r) /\ MenuKept([r EXCEPT !.dirty = x], r)
<1>1. PICK s : s = [r.saving EXCEPT !.step = x]
  OBVIOUS
<1>2. MenuKept([r EXCEPT !.saving = s], r)
  BY DEF Window, MenuKept
<1>3. MenuKept([r EXCEPT !.dirty = x], r)
  BY DEF Window, MenuKept
<1>4. MenuKept(Woken(r), r)
  BY DEF Window, MenuKept, Woken
<1>5. [r EXCEPT !.saving = s] = [r EXCEPT !.saving.step = x]
  BY <1>1 DEF Window
<1> QED
  BY <1>2, <1>3, <1>4, <1>5

LEMMA MenuKeptBySteps ==
  ASSUME Types, NEW w \in Windows, WindowStep(w), ~ StartUp(w), ~ build_ui(w), ~ Poll(w)
  PROVE  MenuKept(win'[w], win[w])
<1>0. PICK r \in Window : r = win[w]
  BY WindowTyped
<1>3. CASE SaveWhenIdle(w)
  <2>1. PICK idles, s : win'[w] = [r EXCEPT !.idles = idles, !.saving = s]
    BY <1>0, <1>3, SaveWhenIdleDoes, ZenonT(60)
  <2> QED
    BY <1>0, <2>1 DEF Window, MenuKept
<1>4. CASE OpenTmp(w)
  <2>1. win'[w] = [r EXCEPT !.saving.step = "write"]
    BY <1>0, <1>4, OpenTmpDoes
  <2> QED
    <3>1. PICK q : q = [r EXCEPT !.saving.step = "write"]
      OBVIOUS
    <3>2. MenuKept(q, r)
      BY <3>1, MenuKeptToldOrStep
    <3> QED
      BY <1>0, <2>1, <3>1, <3>2
<1>5. CASE WriteTmp(w)
  <2>1. PICK q \in Window : q = Writing(w)[w] /\ q = [r EXCEPT !.saving.step = "rename"]
    BY <1>0, <1>5, WriteTmpDoes
  <2>2. win'[w] = q \/ win'[w] = Woken(q)
    <3>1. win' = Writing(w) \/ AllNotified(Writing(w))
      BY <1>5, WriteTmpDoes
    <3> QED
      BY <2>1, <3>1 DEF AllNotified, Woken
  <2>3. MenuKept(q, r) /\ MenuKept(Woken(q), q)
    BY <2>1, MenuKeptToldOrStep, ZenonT(60)
  <2> QED
    BY <1>0, <2>2, <2>3 DEF MenuKept
<1>6. CASE RenameTmp(w)
  <2>1. PICK saved \in BOOLEAN : win'[w] = Done(w, saved) \/ win'[w] = [Done(w, saved) EXCEPT !.dirty = win[w].watching]
    <3>1. win[w].saving.json \in BOOLEAN
      BY WindowTyped DEF Save
    <3> QED
      BY <1>6, <3>1, RenameTmpDoes
  <2>2. PICK c, f : Done(w, saved) = [r EXCEPT !.saving = NotSaving, !.config = c, !.text = f]
    BY <1>0 DEF Done
  <2>3. PICK q \in Window : q = Done(w, saved)
    BY DoneTyped
  <2>4. MenuKept(q, r)
    BY <2>2, <2>3 DEF Window, MenuKept
  <2>5. PICK b : win'[w] = q \/ win'[w] = [q EXCEPT !.dirty = b]
    BY <2>1, <2>3
  <2>6. MenuKept([q EXCEPT !.dirty = b], q)
    BY MenuKeptToldOrStep
  <2> QED
    BY <1>0, <2>4, <2>5, <2>6 DEF MenuKept
<1>8. CASE reload_config_all_workspaces(w)
  <2>1. PICK c, l : win'[w] = [r EXCEPT !.config = c, !.looks = l]
    BY <1>0, <1>8, ReloadDoes
  <2> QED
    BY <1>0, <2>1 DEF Window, MenuKept
<1>9. CASE ViewJson(w)
  <2>1. PICK f : win'[w] = [r EXCEPT !.text = f]
    BY <1>0, <1>9, ViewJsonDoes
  <2> QED
    BY <1>0, <2>1 DEF Window, MenuKept
<1>10. CASE CancelJson(w)
  <2>1. PICK f : win'[w] = [r EXCEPT !.text = f]
    BY <1>0, <1>10, CancelJsonDoes
  <2> QED
    BY <1>0, <2>1 DEF Window, MenuKept
<1>11. CASE SaveJson(w)
  <2>1. PICK f, s : win'[w] = [r EXCEPT !.text = f, !.saving = s]
    BY <1>0, <1>11, SaveJsonDoes
  <2> QED
    BY <1>0, <2>1 DEF Window, MenuKept
<1>12. ASSUME NEW c, NEW d, Changed(w, c, d)
       PROVE  MenuKept(win'[w], win[w])
  <2>1. PICK looks, idles : win'[w] = [r EXCEPT !.config = c, !.looks = looks, !.idles = idles]
    BY <1>0, <1>12 DEF Changed
  <2> QED
    BY <1>0, <2>1 DEF Window, MenuKept
<1>14. CASE \E a \in Actions, accel \in Accels : Bind(w, a, accel)
  <2>1. PICK a \in Actions, accel \in Accels : Bind(w, a, accel)
    BY <1>14
  <2>2. PICK warned : win'[w] = Bound(r, a, accel, warned)
    BY <1>0, <2>1, BindDoes
  <2> QED
    BY <1>0, <2>2 DEF Window, Bound, MenuKept
<1>15. CASE \E actions \in SUBSET Actions : Reset(w, actions)
  <2>1. PICK actions \in SUBSET Actions : win'[w] = Unbound(r, actions)
    BY <1>0, <1>15, ResetDoes
  <2> QED
    BY <1>0, <2>1 DEF Window, Unbound, MenuKept
<1> QED
  BY <1>3, <1>4, <1>5, <1>6, <1>8, <1>9, <1>10, <1>11, <1>12, <1>14, <1>15, ChangeSettingDoes, ChangeLookDoes
  DEF WindowStep, ResetAll

MenusFit == \A w \in Windows : MenuFits(w)

LEMMA MenuOf ==
  ASSUME NEW c
  PROVE  build_dropdown_popover(c) = build_dropdown_popover([profiles |-> c.profiles])
BY DEF build_dropdown_popover

LEMMA ReloadedFacts ==
  ASSUME NEW r \in Window, NEW c \in Config, NEW is_active \in BOOLEAN,
         NEW q, q = Polled(r, c, is_active)
  PROVE  /\ q.actions = c.profiles
         /\ ~ q.stale => q.dropdown = build_dropdown_popover(c)
         /\ q.config = c /\ q.looks = Looks(c)
         /\ q.accels = apply_keybinding_overrides(r.accels, c.keybindings)
         /\ q.dropped = {a \in Actions : c.keybindings[a] = Unset /\ r.accels[a] # Defaults(a)}
         /\ q.text = r.text /\ q.idles = r.idles /\ q.warned = r.warned /\ q.saving = r.saving /\ q.phase = r.phase
<1>1. PICK p : p = Reloaded(r, c, is_active)
  OBVIOUS
<1>2. p \in Window
  BY <1>1, ReloadedTyped
<1>3. /\ q.actions = p.actions /\ q.stale = p.stale /\ q.dropdown = p.dropdown /\ q.config = p.config
      /\ q.looks = p.looks /\ q.accels = p.accels /\ q.dropped = p.dropped /\ q.text = p.text
      /\ q.idles = p.idles /\ q.warned = p.warned /\ q.saving = p.saving /\ q.phase = p.phase
  BY <1>1, <1>2 DEF Window, Polled
<1>4. PICK m, x, d, t, l : /\ m = (IF is_active THEN r.dropdown ELSE build_dropdown_popover(c))
                           /\ x = apply_keybinding_overrides(r.accels, c.keybindings)
                           /\ d = {a \in Actions : c.keybindings[a] = Unset /\ r.accels[a] # Defaults(a)}
                           /\ t = (is_active /\ (r.stale \/ r.dropdown # build_dropdown_popover(c)))
                           /\ l = Looks(c)
  OBVIOUS
<1>5. p = [r EXCEPT !.config = c, !.looks = l, !.actions = c.profiles, !.dropdown = m, !.stale = t,
                    !.accels = x, !.dropped = d]
  BY <1>1, <1>4 DEF Reloaded, apply_to_all_panes, register_profile_actions
<1>6. /\ p.config = c /\ p.looks = l /\ p.actions = c.profiles /\ p.dropdown = m /\ p.stale = t
      /\ p.accels = x /\ p.dropped = d
      /\ p.text = r.text /\ p.idles = r.idles /\ p.warned = r.warned /\ p.saving = r.saving /\ p.phase = r.phase
  BY <1>5 DEF Window
<1>7. ~ t => m = build_dropdown_popover(c)
  BY <1>4
<1> QED
  BY <1>3, <1>4, <1>6, <1>7

LEMMA NextMenus ==
  ASSUME Types, MenusFit, SettingsNext
  PROVE  MenusFit'
<1> SUFFICES ASSUME NEW v \in Windows, win'[v].phase = "up", ~ win'[v].stale
             PROVE  win'[v].dropdown = build_dropdown_popover([profiles |-> win'[v].actions])
  BY DEF MenusFit, MenuFits
<1>1. CASE MenuKept(win'[v], win[v])
  BY <1>1 DEF MenuKept, MenusFit, MenuFits
<1>2. CASE win'[v] = Woken(win[v])
  BY <1>1, <1>2, WindowTyped, ToldFacts DEF MenuKept
<1>3. CASE EditOutside
  BY <1>2, <1>3, EditOutsideDoes DEF AllNotified, Woken
<1>4. ASSUME NEW w \in Windows, WindowStep(w), w # v
      PROVE  win'[v].dropdown = build_dropdown_popover([profiles |-> win'[v].actions])
  BY <1>1, <1>2, <1>4, OthersSee DEF MenuKept
<1>5. ~ StartUp(v)
  <2>1. \A c : \A r \in Window : [r EXCEPT !.phase = "loaded", !.config = c].phase = "loaded"
    BY DEF Window
  <2> QED
    BY <2>1, StartUpDoes, WindowTyped
<1>6. CASE build_ui(v)
  <2>1. PICK c, q : c = win[v].config /\ q = win'[v]
    OBVIOUS
  <2>2. q.actions = c.profiles /\ q.dropdown = build_dropdown_popover(c)
    BY <1>6, <2>1, BuildUiDoes
  <2> QED
    BY <2>1, <2>2, MenuOf
<1>7. CASE Poll(v)
  <2>1. PICK c \in Config : c = load_config(toml)
    BY FileTyped
  <2>2. CASE win'[v] = [win[v] EXCEPT !.dirty = FALSE]
    <3>1. MenuKept(win'[v], win[v])
      BY <2>2, WindowTyped DEF Window, MenuKept
    <3> QED
      BY <1>1, <3>1
  <2>3. ASSUME NEW is_active \in BOOLEAN,
               win'[v] = Polled(win[v], load_config(toml), is_active)
        PROVE  win'[v].dropdown = build_dropdown_popover([profiles |-> win'[v].actions])
    <3>1. PICK q : q = win'[v]
      OBVIOUS
    <3>0. PICK r \in Window : r = win[v]
      BY WindowTyped
    <3>2. q = Polled(r, c, is_active)
      BY <2>1, <2>3, <3>0, <3>1
    <3>3. q.actions = c.profiles /\ (~ q.stale => q.dropdown = build_dropdown_popover(c))
      BY <3>2, ReloadedFacts
    <3> QED
      BY <3>1, <3>3, MenuOf
  <2> QED
    BY <1>7, <2>2, <2>3, PollDoes
<1> QED
  BY <1>1, <1>3, <1>4, <1>5, <1>6, <1>7, MenuKeptBySteps DEF SettingsNext

-----------------------------------------------------------------------------
(* A window at rest shows the file.                                          *)

ShownAtRest == \A w \in Windows : AtRest(w) /\ Parses(toml) => Shown(w)

(* What a window shows of a configuration                                    *)
Shows(r, c) ==
  /\ r.config = c /\ r.looks = Looks(c) /\ r.actions = c.profiles
  /\ \A a \in Actions \ r.dropped :
       r.accels[a] = CASE c.keybindings[a] = Unset -> Defaults(a)
                       [] c.keybindings[a] = "" -> {}
                       [] OTHER -> {c.keybindings[a]}

RestsIn(r) == r.phase = "up" /\ r.saving = NotSaving /\ r.idles = <<>> /\ r.watching /\ ~ r.dirty /\ ~ r.late

LEMMA ShownIsShows ==
  ASSUME NEW w \in Windows
  PROVE  /\ Shown(w) <=> Shows(win[w], load_config(toml))
         /\ AtRest(w) <=> RestsIn(win[w])
BY DEF Shown, Shows, AtRest, Resting, RestsIn

LEMMA ShowsBuilt ==
  ASSUME NEW r \in Window, NEW c \in Config, NEW q,
         r.accels = [a \in Actions |-> Defaults(a)],
         q.config = c, q.looks = Looks(c), q.actions = c.profiles,
         q.accels = apply_keybinding_overrides(r.accels, c.keybindings)
  PROVE  Shows(q, c)
BY ConfigTyped DEF Shows, apply_keybinding_overrides, Unset

LEMMA ShowsPolled ==
  ASSUME NEW r \in Window, NEW c \in Config, NEW is_active \in BOOLEAN
  PROVE  Shows(Polled(r, c, is_active), c)
<1>1. PICK q : q = Polled(r, c, is_active)
  OBVIOUS
<1>2. /\ q.actions = c.profiles /\ q.config = c /\ q.looks = Looks(c)
      /\ q.accels = apply_keybinding_overrides(r.accels, c.keybindings)
      /\ q.dropped = {a \in Actions : c.keybindings[a] = Unset /\ r.accels[a] # Defaults(a)}
  BY <1>1, ReloadedFacts
<1>3. ASSUME NEW a \in Actions \ q.dropped
      PROVE  q.accels[a] = CASE c.keybindings[a] = Unset -> Defaults(a)
                             [] c.keybindings[a] = "" -> {}
                             [] OTHER -> {c.keybindings[a]}
  BY <1>2, <1>3 DEF apply_keybinding_overrides, Unset
<1> QED
  BY <1>1, <1>2, <1>3 DEF Shows

LEMMA NextShown ==
  ASSUME Types, FreshInv, EventsLeft, ShownAtRest, SettingsNext
  PROVE  ShownAtRest'
<1> SUFFICES ASSUME NEW v \in Windows, RestsIn(win'[v]), Parses(toml')
             PROVE  Shows(win'[v], load_config(toml'))
  BY DEF ShownAtRest, Shown, Shows, AtRest, Resting, RestsIn
<1>0. ASSUME RestsIn(win[v]), UNCHANGED toml
      PROVE  Shows(win[v], load_config(toml'))
  BY <1>0, ShownIsShows DEF ShownAtRest
<1>1. win'[v] # Woken(win[v])
  BY WindowTyped, ToldFacts DEF RestsIn
<1>2. ~ EditOutside
  BY <1>1, EditOutsideDoes DEF AllNotified, Woken
<1>3. ASSUME NEW w \in Windows, WindowStep(w), w # v
      PROVE  Shows(win'[v], load_config(toml'))
  BY <1>0, <1>1, <1>3, OthersSee
<1>4. ~ StartUp(v)
  <2>1. PICK r \in Window, c \in Config : r = win[v] /\ c = load_config(toml)
    BY WindowTyped, FileTyped
  <2>2. [r EXCEPT !.phase = "loaded", !.config = c].phase = "loaded"
    BY DEF Window
  <2>3. StartUp(v) => win'[v].phase = "loaded"
    BY <2>1, <2>2, StartUpDoes
  <2> QED
    BY <2>3 DEF RestsIn
<1>5. CASE build_ui(v)
  <2>1. PICK c \in Config : c = win[v].config
    BY WindowTyped
  <2>2. PICK q : q = win'[v]
    OBVIOUS
  <2>3. /\ q.looks = Looks(c) /\ q.accels = apply_keybinding_overrides(win[v].accels, c.keybindings)
        /\ q.actions = c.profiles /\ load_config(toml) = c /\ UNCHANGED toml
    BY <1>5, <2>1, <2>2, BuildUiDoes DEF RestsIn, Shared
  <2>4. win[v].accels = [a \in Actions |-> Defaults(a)]
    <3>1. win[v].phase # "up"
      BY <1>5, BuildUiDoes
    <3> QED
      BY <3>1, FreshFacts
  <2>5. q.config = c
    <3>1. q = [win[v] EXCEPT !.phase = "up", !.looks = q.looks, !.accels = q.accels, !.actions = q.actions,
                             !.dropdown = q.dropdown, !.watching = q.watching, !.late = q.late]
      BY <1>5, <2>2, BuildUiDoes
    <3> QED
      BY <2>1, <3>1, WindowTyped DEF Window
  <2>6. Shows(q, c)
    BY <2>3, <2>4, <2>5, WindowTyped, ShowsBuilt
  <2> QED
    BY <2>2, <2>3, <2>6
<1>6. ~ Begins(v)
  BY BeginsSaving DEF RestsIn, NotSaving
<1>7. ~ OpenTmp(v)
  <2>1. PICK r \in Window : r = win[v] /\ r.saving \in Save
    BY WindowTyped
  <2>2. [r EXCEPT !.saving.step = "write"].saving.step = "write"
    BY <2>1 DEF Window, Save
  <2>3. OpenTmp(v) => win'[v].saving.step = "write"
    BY <2>1, <2>2, OpenTmpDoes
  <2> QED
    BY <2>3 DEF RestsIn, NotSaving
<1>8. ~ WriteTmp(v)
  <2> SUFFICES ASSUME WriteTmp(v)
               PROVE  FALSE
    OBVIOUS
  <2>1. PICK q \in Window : q = Writing(v)[v] /\ q.saving.step = "rename"
    <3>1. PICK r \in Window : r = win[v] /\ r.saving \in Save
      BY WindowTyped
    <3>2. Writing(v)[v] = [r EXCEPT !.saving.step = "rename"] /\ Writing(v)[v] \in Window
      BY <3>1, WriteTmpDoes
    <3>3. [r EXCEPT !.saving.step = "rename"].saving.step = "rename"
      BY <3>1 DEF Window, Save
    <3> QED
      BY <3>2, <3>3
  <2>2. win'[v] = q \/ win'[v] = Woken(q)
    <3>1. win' = Writing(v) \/ AllNotified(Writing(v))
      BY WriteTmpDoes
    <3> QED
      BY <2>1, <3>1 DEF AllNotified, Woken
  <2>3. win'[v].saving.step = "rename"
    BY <2>1, <2>2, ToldFacts
  <2> QED
    BY <2>3 DEF RestsIn, NotSaving
<1>9. ~ RenameTmp(v)
  <2> SUFFICES ASSUME RenameTmp(v)
               PROVE  FALSE
    OBVIOUS
  <2>1. win[v].saving.json \in BOOLEAN /\ win[v].watching \in BOOLEAN
    BY WindowTyped DEF Window, Save
  <2>2. PICK p \in Window : p = Done(v, FALSE) /\ p.watching = win[v].watching /\ p.dirty = win[v].dirty
    BY DoneFacts, DoneTyped
  <2>3. PICK q \in Window : q = Done(v, win[v].saving.json) /\ q.watching = win[v].watching
    BY <2>1, DoneFacts, DoneTyped
  <2>4. CASE win'[v] = p /\ tmp = Absent /\ win[v].saving.step = "rename"
    BY <2>2, <2>4 DEF EventsLeft, EventLeft, RestsIn
  <2>5. CASE win'[v] = Woken(q)
    BY <2>3, <2>5, ToldFacts DEF RestsIn
  <2>6. \/ win'[v] = p /\ tmp = Absent
        \/ win'[v] = Woken(q)
    BY <2>2, <2>3, RenameTmpDoes DEF Woken
  <2> QED
    BY <2>4, <2>5, <2>6, RenameTmpDoes
<1>10. CASE Poll(v)
  <2>1. UNCHANGED toml
    BY <1>10, PollDoes
  <2>2. PICK is_active \in BOOLEAN : win'[v] = Polled(win[v], load_config(toml), is_active)
    BY <1>10, <2>1, PollDoes
  <2> QED
    BY <2>1, <2>2, WindowTyped, FileTyped, ShowsPolled
<1>11. CASE reload_config_all_workspaces(v)
  <2>1. PICK r \in Window : r = win[v]
    BY WindowTyped
  <2>2. PICK c, q : c = load_config(toml) /\ q = win'[v]
    OBVIOUS
  <2>3. q = [r EXCEPT !.config = c, !.looks = Looks(c)] /\ UNCHANGED toml
    BY <1>11, <2>1, <2>2, ReloadDoes
  <2>4. RestsIn(q)
    BY <2>2
  <2>5. RestsIn(r)
    BY <2>3, <2>4 DEF RestsIn, Window
  <2>6. Shows(r, c)
    BY <1>0, <2>1, <2>2, <2>3, <2>5
  <2>7. Shows(q, c)
    BY <2>3, <2>6 DEF Shows, Window
  <2> QED
    BY <2>2, <2>3, <2>7
<1>12. CASE ViewJson(v) \/ CancelJson(v)
  <2>1. PICK r \in Window : r = win[v]
    BY WindowTyped
  <2>2. PICK c, q : c = load_config(toml) /\ q = win'[v]
    OBVIOUS
  <2>3. PICK f : q = [r EXCEPT !.text = f]
    BY <1>12, <2>1, <2>2, ViewJsonDoes, CancelJsonDoes
  <2>4. UNCHANGED toml
    BY <1>12, ViewJsonDoes, CancelJsonDoes DEF Shared
  <2>5. RestsIn(q)
    BY <2>2
  <2>6. RestsIn(r)
    BY <2>3, <2>5 DEF RestsIn, Window
  <2>7. Shows(r, c)
    BY <1>0, <2>1, <2>2, <2>4, <2>6
  <2>8. Shows(q, c)
    BY <2>3, <2>7 DEF Shows, Window
  <2> QED
    BY <2>2, <2>4, <2>8
<1>13. ASSUME NEW c \in Config, NEW d, Changed(v, c, d)
       PROVE  FALSE
  <2>1. PICK looks : win'[v] = [win[v] EXCEPT !.config = c, !.looks = looks, !.idles = Append(win[v].idles, c)]
    BY <1>13 DEF Changed
  <2>2. win'[v].idles = Append(win[v].idles, c)
    BY <2>1, WindowTyped DEF Window
  <2>3. Append(win[v].idles, c) # <<>>
    BY WindowTyped
  <2> QED
    BY <2>2, <2>3 DEF RestsIn
<1>14. ASSUME NEW x \in 0 .. 1, NEW shown \in BOOLEAN
       PROVE  ~ ChangeSetting(v, x) /\ ~ ChangeLook(v, x, shown)
  BY <1>13, ChangeSettingDoes, ChangeLookDoes, ConfigUpdates, WindowTyped
<1>15. CASE Aside(v)
  BY <1>4, <1>5, <1>10, <1>11, <1>12, <1>14, <1>15 DEF Aside
<1> QED
  BY <1>2, <1>3, <1>6, <1>7, <1>8, <1>9, <1>15, StepKinds DEF SettingsNext

-----------------------------------------------------------------------------
(* Whoever saves has changed something.                                      *)

(* What a step of a window adds to the history                               *)
Adds(w) ==
  \/ own'.by = own.by /\ own'.config = own.config /\ (~ own'.spoiled => ~ own.spoiled)
  \/ /\ Resting(w) /\ own'.by = own.by \cup {w}
     /\ ~ own'.spoiled => ~ own.spoiled /\ own.by \subseteq {w}

LEMMA NoteAdds ==
  ASSUME Types, NEW w \in Windows, NEW c \in Config, NEW piled \in BOOLEAN, Note(w, c, piled), Resting(w)
  PROVE  Adds(w)
BY NoteDoes DEF Adds

LEMMA SpoilAdds ==
  ASSUME Types, NEW w \in Windows, NEW b \in BOOLEAN, own' = [own EXCEPT !.spoiled = own.spoiled \/ b]
  PROVE  Adds(w) /\ own'.by = own.by /\ own'.config = own.config /\ (~ own'.spoiled => ~ own.spoiled /\ ~ b)
BY DEF Adds, Types

LEMMA StepAdds ==
  ASSUME Types, NEW w \in Windows, WindowStep(w)
  PROVE  Adds(w)
<1>1. CASE UNCHANGED own
  BY <1>1 DEF Adds
<1>2. CASE StartUp(w) \/ build_ui(w) \/ SaveWhenIdle(w) \/ OpenTmp(w) \/ WriteTmp(w) \/ RenameTmp(w) \/ CancelJson(w)
  BY <1>1, <1>2 DEF StartUp, build_ui, SaveWhenIdle, OpenTmp, WriteTmp, RenameTmp, CancelJson
<1>3. CASE Poll(w) \/ reload_config_all_workspaces(w) \/ ViewJson(w)
  BY <1>3, PollDoes, ReloadDoes, ViewJsonDoes, SpoilAdds
<1>4. CASE SaveJson(w)
  <2>1. PICK c \in Config : Note(w, c, win[w].idles # <<>>) /\ Resting(w)
    BY <1>4, SaveJsonDoes
  <2> QED
    BY <2>1, NoteAdds
<1>5. CASE \E v \in 0 .. 1 : ChangeSetting(w, v)
  <2>1. PICK v \in 0 .. 1 : ChangeSetting(w, v)
    BY <1>5
  <2>2. PICK d \in Config : d = [own.config EXCEPT !.bell = v]
    BY ConfigUpdates DEF Types
  <2>3. Note(w, d, FALSE) /\ Resting(w)
    BY <2>1, <2>2, ChangeSettingDoes DEF Changed, AtSettings
  <2> QED
    BY <2>3, NoteAdds
<1>6. CASE \E v \in 0 .. 1, shown \in BOOLEAN : ChangeLook(w, v, shown)
  <2>1. PICK v \in 0 .. 1, shown \in BOOLEAN : ChangeLook(w, v, shown)
    BY <1>6
  <2>2. PICK d \in Config : d = [own.config EXCEPT !.look = v]
    BY ConfigUpdates DEF Types
  <2>3. Note(w, d, FALSE) /\ Resting(w)
    BY <2>1, <2>2, ChangeLookDoes DEF Changed, AtSettings
  <2> QED
    BY <2>3, NoteAdds
<1>7. CASE \E a \in Actions, accel \in Accels : Bind(w, a, accel)
  <2>1. PICK a \in Actions, accel \in Accels : Bind(w, a, accel)
    BY <1>7
  <2>2. PICK d \in Config : d = [own.config EXCEPT !.keybindings[a] = accel]
    BY BindingUpdates DEF Types
  <2>3. Note(w, d, win[w].idles # <<>>) /\ Resting(w)
    BY <2>1, <2>2, BindDoes DEF AtSettings
  <2> QED
    BY <2>3, NoteAdds
<1>8. CASE \E actions \in SUBSET Actions : Reset(w, actions)
  <2>1. PICK actions \in SUBSET Actions : Reset(w, actions)
    BY <1>8
  <2>2. PICK d \in Config : d = ResetConfig(own.config, actions)
    BY BindingResets DEF Types, ResetConfig
  <2>3. Note(w, d, win[w].idles # <<>>) /\ Resting(w)
    BY <2>1, <2>2, ResetDoes DEF AtSettings
  <2> QED
    BY <2>3, NoteAdds
<1> QED
  BY <1>2, <1>3, <1>4, <1>5, <1>6, <1>7, <1>8 DEF WindowStep, ResetAll

(* A window to which nothing is added has nothing more to save.              *)
LEMMA QuietIsAside ==
  ASSUME Types, NEW w \in Windows, WindowStep(w), own'.by = own.by, w \notin own.by,
         win[w].saving = NotSaving, win[w].idles = <<>>
  PROVE  /\ Aside(w)
         /\ \A x \in 0 .. 1 : ~ ChangeSetting(w, x) /\ \A shown \in BOOLEAN : ~ ChangeLook(w, x, shown)
<1>1. \A c, piled : ~ Note(w, c, piled)
  BY DEF Note
<1>2. ~ SaveJson(w) /\ (\A c, d : ~ Changed(w, c, d)) /\ ~ SaveWhenIdle(w)
  BY <1>1, SaveJsonDoes, SaveWhenIdleDoes DEF Changed
<1>3. \A a \in Actions, accel \in Accels : ~ Bind(w, a, accel)
  BY <1>1, BindDoes
<1>4. \A actions \in SUBSET Actions : ~ Reset(w, actions)
  BY <1>1, ResetDoes
<1>5. ~ OpenTmp(w) /\ ~ WriteTmp(w) /\ ~ RenameTmp(w)
  <2>1. win[w].saving.step = "none"
    BY DEF NotSaving
  <2> QED
    BY <2>1, OpenTmpDoes, WriteTmpDoes, RenameTmpDoes
<1>6. Aside(w)
  BY <1>2, <1>3, <1>4, <1>5, StepKinds DEF Begins
<1>7. \A x \in 0 .. 1 : ~ ChangeSetting(w, x) /\ \A shown \in BOOLEAN : ~ ChangeLook(w, x, shown)
  BY <1>2, ChangeSettingDoes, ChangeLookDoes
<1> QED
  BY <1>6, <1>7

LEMMA SaversStay ==
  ASSUME Types, NEW w \in Windows, WindowStep(w), own'.by = own.by, w \notin own.by,
         win[w].saving = NotSaving, win[w].idles = <<>>
  PROVE  win'[w].saving = NotSaving /\ win'[w].idles = <<>>
<1>0. PICK r \in Window : r = win[w]
  BY WindowTyped
<1>6. /\ Aside(w)
      /\ \A x \in 0 .. 1 : ~ ChangeSetting(w, x) /\ \A shown \in BOOLEAN : ~ ChangeLook(w, x, shown)
  BY QuietIsAside
<1>7. win'[w].saving = NotSaving
  BY <1>6, AsideSaving
<1>8. CASE Poll(w)
  <2>1. PICK c \in Config : c = load_config(toml)
    BY FileTyped
  <2>2. CASE win'[w] = [r EXCEPT !.dirty = FALSE]
    <3>1. win'[w].idles = r.idles
      BY <2>2 DEF Window
    <3> QED
      BY <1>0, <1>7, <3>1
  <2>3. ASSUME NEW is_active \in BOOLEAN, win'[w] = Polled(r, c, is_active)
        PROVE  win'[w].idles = <<>>
    BY <1>0, <2>3, ReloadedFacts
  <2> QED
    BY <1>0, <1>7, <1>8, <2>1, <2>2, <2>3, PollDoes
<1>9. CASE StartUp(w)
  <2>1. PICK c : win'[w] = [r EXCEPT !.phase = "loaded", !.config = c]
    BY <1>0, <1>9, StartUpDoes
  <2>2. win'[w].idles = r.idles
    BY <2>1 DEF Window
  <2> QED
    BY <1>0, <1>7, <2>2
<1>10. CASE build_ui(w)
  <2>1. PICK q : q = win'[w]
    OBVIOUS
  <2>2. q = [r EXCEPT !.phase = "up", !.looks = q.looks, !.accels = q.accels, !.actions = q.actions,
                      !.dropdown = q.dropdown, !.watching = q.watching, !.late = q.late]
    BY <1>0, <1>10, <2>1, BuildUiDoes
  <2>3. q.idles = r.idles
    BY <2>2 DEF Window
  <2> QED
    BY <1>0, <1>7, <2>1, <2>3
<1>11. CASE reload_config_all_workspaces(w)
  <2>1. PICK c, l : win'[w] = [r EXCEPT !.config = c, !.looks = l]
    BY <1>0, <1>11, ReloadDoes
  <2>2. win'[w].idles = r.idles
    BY <2>1 DEF Window
  <2> QED
    BY <1>0, <1>7, <2>2
<1>12. CASE ViewJson(w)
  <2>1. PICK f : win'[w] = [r EXCEPT !.text = f]
    BY <1>0, <1>12, ViewJsonDoes
  <2>2. win'[w].idles = r.idles
    BY <2>1 DEF Window
  <2> QED
    BY <1>0, <1>7, <2>2
<1>13. CASE CancelJson(w)
  <2>1. PICK f : win'[w] = [r EXCEPT !.text = f]
    BY <1>0, <1>13, CancelJsonDoes
  <2>2. win'[w].idles = r.idles
    BY <2>1 DEF Window
  <2> QED
    BY <1>0, <1>7, <2>2
<1> QED
  BY <1>6, <1>8, <1>9, <1>10, <1>11, <1>12, <1>13 DEF Aside

LEMMA NextSavers ==
  ASSUME Types, SaversChanged, SettingsNext
  PROVE  SaversChanged'
<1> SUFFICES ASSUME NEW v \in Windows
             PROVE  /\ win'[v].saving # NotSaving \/ win'[v].idles # <<>> => v \in own'.by
                    /\ v \in own'.by => win'[v].phase = "up"
  BY DEF SaversChanged
<1>0. /\ win[v].saving # NotSaving \/ win[v].idles # <<>> => v \in own.by
      /\ v \in own.by => win[v].phase = "up"
  BY DEF SaversChanged
<1>1. ASSUME v \in own'.by <=> v \in own.by,
             win'[v] = win[v] \/ win'[v] = Woken(win[v])
      PROVE  /\ win'[v].saving # NotSaving \/ win'[v].idles # <<>> => v \in own'.by
             /\ v \in own'.by => win'[v].phase = "up"
  <2>1. win'[v].saving = win[v].saving /\ win'[v].idles = win[v].idles /\ win'[v].phase = win[v].phase
    BY <1>1, WindowTyped, ToldFacts
  <2> QED
    BY <1>0, <1>1, <2>1
<1>2. CASE EditOutside
  <2>1. win'[v] = Woken(win[v]) /\ own'.by = own.by
    BY <1>2, EditOutsideDoes DEF AllNotified, Woken, Types
  <2> QED
    BY <1>1, <2>1
<1>3. ASSUME NEW w \in Windows, WindowStep(w), w # v
      PROVE  /\ win'[v].saving # NotSaving \/ win'[v].idles # <<>> => v \in own'.by
             /\ v \in own'.by => win'[v].phase = "up"
  <2>1. v \in own'.by <=> v \in own.by
    BY <1>3, StepAdds DEF Adds
  <2> QED
    BY <1>1, <1>3, <2>1, OthersSee
<1>4. CASE WindowStep(v)
  <2>1. CASE v \in own.by
    BY <1>0, <1>4, <2>1, StepAdds, PhaseStays DEF Adds
  <2>2. CASE v \notin own.by /\ own'.by = own.by
    BY <1>0, <1>4, <2>2, SaversStay
  <2>3. CASE Resting(v) /\ own'.by = own.by \cup {v}
    BY <1>4, <2>3, PhaseStays DEF Resting
  <2> QED
    BY <1>4, <2>1, <2>2, <2>3, StepAdds DEF Adds
<1> QED
  BY <1>2, <1>3, <1>4 DEF SettingsNext

-----------------------------------------------------------------------------
(* The changes of the only window to make any                                *)

OwnKept(w) == Chains(win[w], own.config) /\ Files(w) /\ Warns(win[w], own.config)

LEMMA OthersSole ==
  ASSUME Types, FreshInv, SaversChanged, NEW w \in Windows, NEW v \in Windows \ {w}, WindowStep(v),
         own.by \subseteq {w}, own'.by \subseteq {w}
  PROVE  /\ win'[w] = win[w] /\ UNCHANGED <<toml, tmp, held>>
         /\ own'.by = own.by /\ own'.config = own.config
<1>1. v \notin own.by /\ v \notin own'.by
  OBVIOUS
<1>2. own'.by = own.by /\ own'.config = own.config
  BY <1>1, StepAdds DEF Adds
<1>3. win[v].saving = NotSaving /\ win[v].idles = <<>>
  BY <1>1 DEF SaversChanged
<1>4. /\ Aside(v)
      /\ \A x \in 0 .. 1 : ~ ChangeSetting(v, x) /\ \A shown \in BOOLEAN : ~ ChangeLook(v, x, shown)
  BY <1>1, <1>2, <1>3, QuietIsAside
<1>5. OneChanged(v)
  BY <1>4, StartUpDoes, BuildUiDoes, PollDoes, ReloadDoes, ViewJsonDoes, CancelJsonDoes, ZenonT(60) DEF Aside
<1> QED
  BY <1>2, <1>4, <1>5, AsideFree DEF OneChanged

LEMMA WarnsSame ==
  ASSUME NEW r, NEW q, NEW c, Warns(r, c), q.text = r.text, q.phase = r.phase, q.accels = r.accels, q.warned = r.warned
  PROVE  Warns(q, c)
BY DEF Warns

(* Before a window is up it has the defaults, and so have the shortcuts.     *)
LEMMA WarnsDefaults ==
  ASSUME NEW q, q.text = Absent, q.accels = [a \in Actions |-> Defaults(a)]
  PROVE  Warns(q, DefaultConfig)
<1>1. Unset \notin Accels
  BY DEF Unset, Accels
<1>2. \A a \in Actions : DefaultConfig.keybindings[a] = Unset
  BY DEF DefaultConfig
<1>3. q.accels["copy"] = {"C"} /\ q.accels["paste"] = {"V", "X"}
  BY DefaultAccels DEF Actions
<1>4. {"C"} # {"V"} /\ {"V", "X"} # {"C"}
  OBVIOUS
<1>5. \A a \in Actions : q.accels[a] \in {Defaults(a), {}, {"C"}, {"V"}}
  OBVIOUS
<1> QED
  BY <1>1, <1>2, <1>3, <1>4, <1>5 DEF Warns

LEMMA DefaultOverrides ==
  apply_keybinding_overrides([a \in Actions |-> Defaults(a)], DefaultConfig.keybindings) = [a \in Actions |-> Defaults(a)]
<1>1. PICK keybindings : keybindings = DefaultConfig.keybindings
  OBVIOUS
<1>2. \A a \in Actions : keybindings[a] = Unset
  BY <1>1 DEF DefaultConfig
<1>3. PICK accels : accels = [a \in Actions |-> Defaults(a)]
  OBVIOUS
<1>4. apply_keybinding_overrides(accels, keybindings) = [a \in Actions |-> accels[a]]
  <2>1. \A a \in Actions : (CASE keybindings[a] = Unset -> accels[a]
                              [] keybindings[a] = "" -> {}
                              [] OTHER -> {keybindings[a]}) = accels[a]
    BY <1>2 DEF Unset
  <2> QED
    BY <2>1, Zenon DEF apply_keybinding_overrides
<1> QED
  BY <1>1, <1>3, <1>4

LEMMA OwnStartUp ==
  ASSUME Types, FreshInv, NEW w \in Windows, OwnKept(w), StartUp(w), w \notin own.by
  PROVE  OwnKept(w)'
<1>1. /\ win[w].phase = "off" /\ UNCHANGED Shared
      /\ win'[w] = [win[w] EXCEPT !.phase = "loaded", !.config = load_config(toml)]
  BY StartUpDoes
<1>2. win[w].saving = NotSaving /\ win[w].idles = <<>> /\ win[w].text = Absent
  BY <1>1, FreshFacts
<1>3. PICK r \in Window : r = win[w]
  BY WindowTyped
<1>4. PICK q, c : q = win'[w] /\ c = load_config(toml)
  OBVIOUS
<1>5. q = [r EXCEPT !.phase = "loaded", !.config = c]
  BY <1>1, <1>3, <1>4
<1>6. /\ q.phase = "loaded" /\ q.config = c /\ q.saving = r.saving /\ q.idles = r.idles
      /\ q.text = r.text /\ q.accels = r.accels /\ q.warned = r.warned
  BY <1>5 DEF Window
<1>7. Parses(toml) /\ c = own.config
  BY <1>2, <1>4 DEF OwnKept, Files
<1>8. Chains(q, own.config)
  BY <1>2, <1>3, <1>6, <1>7 DEF Chains, NotSaving
<1>9. Warns(q, own.config)
  BY <1>2, <1>3, <1>6 DEF Warns, OwnKept
<1>10. Files(w)'
  <2>1. q.saving = NotSaving /\ NotSaving.step = "none"
    BY <1>2, <1>3, <1>6 DEF NotSaving
  <2> QED
    BY <1>1, <1>2, <1>3, <1>4, <1>6, <1>7, <2>1 DEF Files, Shared
<1> QED
  BY <1>1, <1>4, <1>8, <1>9, <1>10 DEF OwnKept, Shared

LEMMA OwnBuildUi ==
  ASSUME Types, FreshInv, NEW w \in Windows, OwnKept(w), build_ui(w), w \notin own.by, own.config = DefaultConfig
  PROVE  OwnKept(w)'
<1>1. win[w].phase = "loaded" /\ UNCHANGED Shared
  BY BuildUiDoes
<1>2. /\ win[w].saving = NotSaving /\ win[w].idles = <<>> /\ win[w].text = Absent
      /\ win[w].accels = [a \in Actions |-> Defaults(a)]
  BY <1>1, FreshFacts
<1>3. PICK r \in Window : r = win[w]
  BY WindowTyped
<1>4. PICK q : q = win'[w]
  OBVIOUS
<1>5. q = [r EXCEPT !.phase = "up", !.looks = q.looks, !.accels = q.accels, !.actions = q.actions,
                    !.dropdown = q.dropdown, !.watching = q.watching, !.late = q.late]
  BY <1>3, <1>4, BuildUiDoes
<1>6. /\ q.phase = "up" /\ q.config = r.config /\ q.saving = r.saving /\ q.idles = r.idles
      /\ q.text = r.text /\ q.warned = r.warned
  BY <1>5 DEF Window
<1>7. r.config = DefaultConfig
  BY <1>1, <1>2, <1>3 DEF OwnKept, Chains, NotSaving
<1>8. q.accels = [a \in Actions |-> Defaults(a)]
  BY <1>2, <1>3, <1>4, <1>7, BuildUiDoes, DefaultOverrides
<1>9. Warns(q, DefaultConfig)
  BY <1>2, <1>3, <1>6, <1>8, WarnsDefaults
<1>10. Chains(q, DefaultConfig)
  BY <1>2, <1>3, <1>6, <1>7 DEF Chains, NotSaving
<1>11. Files(w)'
  <2>1. q.saving = NotSaving /\ NotSaving.step = "none"
    BY <1>2, <1>3, <1>6 DEF NotSaving
  <2>2. Parses(toml) /\ load_config(toml) = own.config
    BY <1>2 DEF OwnKept, Files
  <2> QED
    BY <1>1, <1>4, <2>1, <2>2 DEF Files, Shared
<1> QED
  BY <1>1, <1>4, <1>9, <1>10, <1>11 DEF OwnKept, Shared

LEMMA LastOfTail ==
  ASSUME NEW S, NEW s \in Seq(S), s # <<>>
  PROVE  /\ Tail(s) # <<>> => Tail(s)[Len(Tail(s))] = s[Len(s)]
         /\ Tail(s) = <<>> => Head(s) = s[Len(s)]
<1>0. Tail(s) \in Seq(S)
  OBVIOUS
<1>1. PICK t \in Seq(S) : t = Tail(s)
  BY <1>0
<1>2. PICK n \in Nat, m \in Nat : n = Len(s) /\ m = Len(t)
  OBVIOUS
<1>3. n # 0 /\ m = n - 1
  BY <1>1, <1>2
<1>4. \A i \in 1 .. m : t[i] = s[i + 1]
  BY <1>1, <1>2
<1>5. CASE t = <<>>
  <2>1. m = 0
    BY <1>2, <1>5
  <2>2. n = 1
    BY <1>3, <2>1
  <2> QED
    BY <1>1, <1>2, <1>5, <2>2
<1>6. CASE t # <<>>
  <2>1. m # 0
    BY <1>2, <1>6
  <2>2. m \in 1 .. m /\ m + 1 = n
    BY <1>3, <2>1
  <2>3. t[m] = s[n]
    BY <1>4, <2>2
  <2> QED
    BY <1>1, <1>2, <1>6, <2>3
<1> QED
  BY <1>5, <1>6

LEMMA OwnSaveWhenIdle ==
  ASSUME Types, NEW w \in Windows, OwnKept(w), SaveWhenIdle(w)
  PROVE  OwnKept(w)'
<1>1. PICK r \in Window : r = win[w] /\ r.idles \in Seq(Config) /\ r.idles # <<>> /\ r.saving = NotSaving
  BY WindowTyped, SaveWhenIdleDoes DEF Resting
<1>2. PICK q, idles, c : q = win'[w] /\ idles = Tail(r.idles) /\ c = Head(r.idles)
  OBVIOUS
<1>3. q = [r EXCEPT !.idles = idles, !.saving = Saving(c, FALSE)]
  BY <1>1, <1>2, SaveWhenIdleDoes DEF Saving
<1>4. UNCHANGED Shared
  BY SaveWhenIdleDoes
<1>5. /\ q.phase = r.phase /\ q.config = r.config /\ q.saving = Saving(c, FALSE) /\ q.idles = idles
      /\ q.text = r.text /\ q.accels = r.accels /\ q.warned = r.warned
  BY <1>3 DEF Window
<1>6. /\ r.phase # "off" => r.config = own.config
      /\ r.idles[Len(r.idles)] = own.config
  BY <1>1 DEF OwnKept, Chains, NotSaving
<1>7. /\ idles # <<>> => idles[Len(idles)] = own.config
      /\ idles = <<>> => c = own.config
  BY <1>1, <1>2, <1>6, LastOfTail
<1>8. Chains(q, own.config)
  BY <1>5, <1>6, <1>7 DEF Chains, Saving
<1>9. Warns(q, own.config)
  BY <1>1, <1>5, WarnsSame DEF OwnKept
<1>10. q.saving.step = "open" /\ q.saving # NotSaving
  BY <1>5 DEF Saving, NotSaving
<1>11. Files(w)'
  BY <1>2, <1>10 DEF Files
<1> QED
  BY <1>2, <1>4, <1>8, <1>9, <1>11 DEF OwnKept, Shared

LEMMA ChainsStep ==
  ASSUME NEW r \in Window, NEW q, NEW c, NEW step \in {"write", "rename"}, Chains(r, c), r.saving # NotSaving,
         q.phase = r.phase, q.config = r.config, q.idles = r.idles,
         q.saving.config = r.saving.config, q.saving.json <=> r.saving.json
  PROVE  Chains(q, c)
BY DEF Chains

LEMMA StepSaving ==
  ASSUME NEW s \in Save, NEW step
  PROVE  /\ [s EXCEPT !.step = step].step = step /\ [s EXCEPT !.step = step].config = s.config
         /\ [s EXCEPT !.step = step].json <=> s.json
BY DEF Save

LEMMA OwnOpenTmp ==
  ASSUME Types, NEW w \in Windows, OwnKept(w), OpenTmp(w)
  PROVE  OwnKept(w)'
<1>1. PICK r \in Window : r = win[w] /\ r.saving \in Save /\ r.saving.step = "open"
  BY WindowTyped, OpenTmpDoes
<1>2. PICK q : q = win'[w]
  OBVIOUS
<1>3. q = [r EXCEPT !.saving.step = "write"] /\ tmp' = Empty /\ held' = [held EXCEPT ![w] = "tmp"] /\ UNCHANGED own
  BY <1>1, <1>2, OpenTmpDoes
<1>4. /\ q.phase = r.phase /\ q.config = r.config /\ q.idles = r.idles
      /\ q.text = r.text /\ q.accels = r.accels /\ q.warned = r.warned
      /\ q.saving = [r.saving EXCEPT !.step = "write"]
  BY <1>3 DEF Window
<1>5. q.saving.step = "write" /\ q.saving.config = r.saving.config /\ (q.saving.json <=> r.saving.json)
  BY <1>1, <1>4, StepSaving
<1>6. r.saving # NotSaving /\ q.saving # NotSaving
  BY <1>1, <1>5 DEF NotSaving
<1>7. Chains(q, own.config)
  BY <1>1, <1>4, <1>5, <1>6, ChainsStep DEF OwnKept
<1>8. Warns(q, own.config)
  BY <1>1, <1>4, WarnsSame DEF OwnKept
<1>9. Files(w)'
  BY <1>2, <1>3, <1>5, <1>6 DEF Files, Types
<1> QED
  BY <1>2, <1>3, <1>7, <1>8, <1>9 DEF OwnKept

LEMMA OwnWriteTmp ==
  ASSUME Types, NEW w \in Windows, OwnKept(w), WriteTmp(w)
  PROVE  OwnKept(w)'
<1>1. PICK r \in Window : r = win[w] /\ r.saving \in Save /\ r.saving.step = "write"
  BY WindowTyped, WriteTmpDoes
<1>2. held[w] = "tmp" /\ tmp = Empty
  BY <1>1 DEF OwnKept, Files
<1>3. PICK q : q = win'[w]
  OBVIOUS
<1>4. tmp' \in Over(Empty, r.saving.config) /\ win' = Writing(w) /\ UNCHANGED own
  BY <1>1, <1>2, WriteTmpDoes
<1>5. tmp' = Whole(r.saving.config)
  BY <1>4 DEF Over, Empty
<1>6. q = [r EXCEPT !.saving.step = "rename"]
  BY <1>1, <1>3, <1>4, WriteTmpDoes
<1>7. /\ q.phase = r.phase /\ q.config = r.config /\ q.idles = r.idles
      /\ q.text = r.text /\ q.accels = r.accels /\ q.warned = r.warned
      /\ q.saving = [r.saving EXCEPT !.step = "rename"]
  BY <1>6 DEF Window
<1>8. q.saving.step = "rename" /\ q.saving.config = r.saving.config /\ (q.saving.json <=> r.saving.json)
  BY <1>1, <1>7, StepSaving
<1>9. r.saving # NotSaving /\ q.saving # NotSaving
  BY <1>1, <1>8 DEF NotSaving
<1>10. Chains(q, own.config)
  BY <1>1, <1>7, <1>8, <1>9, ChainsStep DEF OwnKept
<1>11. Warns(q, own.config)
  BY <1>1, <1>7, WarnsSame DEF OwnKept
<1>12. Files(w)'
  BY <1>3, <1>5, <1>8, <1>9 DEF Files
<1> QED
  BY <1>3, <1>4, <1>10, <1>11, <1>12 DEF OwnKept

LEMMA OwnRenameTmp ==
  ASSUME Types, NEW w \in Windows, OwnKept(w), RenameTmp(w), w \in own.by
  PROVE  OwnKept(w)'
<1>1. PICK r \in Window : r = win[w] /\ r.saving \in Save /\ r.saving.step = "rename"
  BY WindowTyped, RenameTmpDoes
<1>2. tmp = Whole(r.saving.config)
  BY <1>1 DEF OwnKept, Files
<1>3. tmp # Absent
  <2>1. tmp.state # Absent.state
    BY <1>2 DEF Whole, Absent
  <2> QED
    BY <2>1
<1>4. PICK p \in Window : p = Done(w, r.saving.json)
  BY <1>1, DoneTyped DEF Save
<1>5. PICK q : q = win'[w]
  OBVIOUS
<1>6. q = Woken(p) /\ toml' = tmp /\ UNCHANGED own
  <2>1. p.watching = win[w].watching
    BY <1>1, <1>4, DoneFacts DEF Save
  <2> QED
    BY <1>1, <1>3, <1>4, <1>5, <2>1, RenameTmpDoes DEF Woken
<1>7. /\ p.saving = NotSaving /\ p.phase = r.phase /\ p.idles = r.idles /\ p.accels = r.accels /\ p.warned = r.warned
      /\ p.config = (IF r.saving.json THEN r.saving.config ELSE r.config)
      /\ p.text = (IF r.saving.json THEN Absent ELSE r.text)
  BY <1>1, <1>4, DoneFacts DEF Save
<1>8. /\ q.saving = NotSaving /\ q.phase = r.phase /\ q.idles = r.idles /\ q.accels = r.accels /\ q.warned = r.warned
      /\ q.config = p.config /\ q.text = p.text
  BY <1>6, <1>7, ToldFacts
<1>9. r.saving # NotSaving /\ NotSaving.step = "none" /\ ~ NotSaving.json
  BY <1>1 DEF NotSaving
<1>10. Chains(r, own.config) /\ Warns(r, own.config)
  BY <1>1 DEF OwnKept
<1>11. Chains(q, own.config)
  BY <1>7, <1>8, <1>9, <1>10 DEF Chains
<1>12. Warns(q, own.config)
  BY <1>7, <1>8, <1>10 DEF Warns
<1>13. Files(w)'
  <2>1. r.idles = <<>> => r.saving.config = own.config
    BY <1>9, <1>10 DEF Chains
  <2> QED
    BY <1>2, <1>5, <1>6, <1>8, <1>9, <2>1 DEF Files
<1> QED
  BY <1>5, <1>6, <1>11, <1>12, <1>13 DEF OwnKept

(* What a window takes from the file is what all changes come to.            *)
LEMMA OwnReads ==
  ASSUME Types, NEW w \in Windows, OwnKept(w), Resting(w), win[w].idles = <<>>
  PROVE  load_config(toml) = own.config
BY DEF OwnKept, Files, Resting, Whole, load_config

LEMMA OwnFilesKept ==
  ASSUME NEW w \in Windows, OwnKept(w), UNCHANGED <<toml, tmp, held>>, own'.config = own.config, own'.by = own.by,
         win'[w].saving = win[w].saving, win'[w].idles = win[w].idles
  PROVE  Files(w)'
BY DEF OwnKept, Files

LEMMA WarnsPolled ==
  ASSUME NEW r \in Window, NEW c \in Config, Warns(r, c), r.phase = "up", NEW q,
         q.text = r.text, q.phase = r.phase, q.warned = r.warned,
         q.accels = apply_keybinding_overrides(r.accels, c.keybindings)
  PROVE  Warns(q, c)
<1>1. PICK accels, keybindings : accels = r.accels /\ keybindings = c.keybindings
  OBVIOUS
<1>2. ASSUME NEW a \in Actions
      PROVE  /\ q.accels[a] \in {accels[a], {}}
             /\ keybindings[a] \in Accels => q.accels[a] = accels[a] /\ accels[a] = {keybindings[a]}
  <2>1. keybindings[a] \in Accels \cup {"", Unset}
    BY <1>1, ConfigTyped
  <2>2. keybindings[a] \in Accels => accels[a] = {keybindings[a]}
    BY <1>1 DEF Warns
  <2>3. q.accels[a] = CASE keybindings[a] = Unset -> accels[a]
                        [] keybindings[a] = "" -> {}
                        [] OTHER -> {keybindings[a]}
    BY <1>1 DEF apply_keybinding_overrides
  <2>4. Unset \notin Accels /\ "" \notin Accels /\ Unset # ""
    BY DEF Unset, Accels
  <2> QED
    BY <2>1, <2>2, <2>3, <2>4
<1>3. "copy" \in Actions /\ "paste" \in Actions
  BY DEF Actions
<1>4. {"V"} # {} /\ {"C"} # {}
  OBVIOUS
<1> QED
  BY <1>1, <1>2, <1>3, <1>4 DEF Warns

LEMMA OwnPoll ==
  ASSUME Types, NEW w \in Windows, OwnKept(w), Poll(w), ~ own'.spoiled
  PROVE  OwnKept(w)'
<1>1. own'.by = own.by /\ own'.config = own.config /\ win[w].idles = <<>>
  BY PollDoes, SpoilAdds
<1>2. PICK r \in Window : r = win[w] /\ r.saving = NotSaving /\ r.phase = "up"
  BY WindowTyped, PollDoes DEF Resting
<1>3. PICK c \in Config : c = load_config(toml) /\ c = own.config
  BY <1>1, PollDoes, OwnReads, FileTyped
<1>4. PICK q : q = win'[w]
  OBVIOUS
<1>5. CASE q = [r EXCEPT !.dirty = FALSE]
  <2>1. /\ q.phase = r.phase /\ q.config = r.config /\ q.idles = r.idles /\ q.saving = r.saving
        /\ q.text = r.text /\ q.accels = r.accels /\ q.warned = r.warned
    BY <1>5 DEF Window
  <2>2. Chains(q, c) /\ Warns(q, c)
    BY <1>2, <1>3, <2>1, WarnsSame DEF OwnKept, Chains
  <2>3. Files(w)'
    BY <1>1, <1>2, <1>4, <2>1, PollDoes, OwnFilesKept
  <2> QED
    BY <1>1, <1>3, <1>4, <2>2, <2>3 DEF OwnKept
<1>6. ASSUME NEW is_active \in BOOLEAN, q = Polled(r, c, is_active)
      PROVE  OwnKept(w)'
  <2>1. /\ q.phase = r.phase /\ q.config = c /\ q.idles = r.idles /\ q.saving = r.saving
        /\ q.text = r.text /\ q.accels = apply_keybinding_overrides(r.accels, c.keybindings) /\ q.warned = r.warned
    BY <1>6, ReloadedFacts
  <2>2. Warns(q, c)
    BY <1>2, <1>3, <2>1, WarnsPolled DEF OwnKept
  <2>3. Chains(q, c)
    BY <1>1, <1>2, <1>3, <2>1 DEF OwnKept, Chains
  <2>4. Files(w)'
    BY <1>1, <1>2, <1>4, <2>1, PollDoes, OwnFilesKept
  <2> QED
    BY <1>1, <1>3, <1>4, <2>2, <2>3, <2>4 DEF OwnKept
<1> QED
  BY <1>2, <1>3, <1>4, <1>5, <1>6, PollDoes

LEMMA OwnReload ==
  ASSUME Types, NEW w \in Windows, OwnKept(w), reload_config_all_workspaces(w), ~ own'.spoiled
  PROVE  OwnKept(w)'
<1>1. own'.by = own.by /\ own'.config = own.config /\ win[w].idles = <<>>
  BY ReloadDoes, SpoilAdds
<1>2. PICK r \in Window : r = win[w] /\ r.saving = NotSaving
  BY WindowTyped, ReloadDoes DEF Resting
<1>3. PICK c \in Config : c = load_config(toml) /\ c = own.config
  BY <1>1, ReloadDoes, OwnReads, FileTyped
<1>4. PICK q : q = win'[w]
  OBVIOUS
<1>5. q = [r EXCEPT !.config = c, !.looks = Looks(c)]
  BY <1>2, <1>3, <1>4, ReloadDoes
<1>6. /\ q.phase = r.phase /\ q.config = c /\ q.idles = r.idles /\ q.saving = r.saving
      /\ q.text = r.text /\ q.accels = r.accels /\ q.warned = r.warned
  BY <1>5 DEF Window
<1>7. Chains(q, c) /\ Warns(q, c)
  BY <1>2, <1>3, <1>6, WarnsSame DEF OwnKept, Chains
<1>8. Files(w)'
  BY <1>1, <1>2, <1>4, <1>6, ReloadDoes, OwnFilesKept
<1> QED
  BY <1>1, <1>3, <1>4, <1>7, <1>8 DEF OwnKept

LEMMA OwnViewJson ==
  ASSUME Types, NEW w \in Windows, OwnKept(w), ViewJson(w), ~ own'.spoiled
  PROVE  OwnKept(w)'
<1>1. own'.by = own.by /\ own'.config = own.config /\ win[w].idles = <<>>
  BY ViewJsonDoes, SpoilAdds
<1>2. PICK r \in Window : r = win[w]
  BY WindowTyped
<1>3. PICK c \in Config : c = load_config(toml) /\ c = own.config
  BY <1>1, ViewJsonDoes, OwnReads, FileTyped DEF AtSettings
<1>4. PICK q, f : q = win'[w] /\ f = Whole(c)
  OBVIOUS
<1>5. q = [r EXCEPT !.text = f] /\ f.config = c
  BY <1>2, <1>3, <1>4, ViewJsonDoes DEF Whole
<1>6. /\ q.phase = r.phase /\ q.config = r.config /\ q.idles = r.idles /\ q.saving = r.saving
      /\ q.text = f /\ q.accels = r.accels /\ q.warned = r.warned
  BY <1>5 DEF Window
<1>7. Chains(q, c) /\ Warns(q, c)
  BY <1>2, <1>3, <1>5, <1>6 DEF OwnKept, Chains, Warns
<1>8. Files(w)'
  BY <1>1, <1>2, <1>4, <1>6, ViewJsonDoes, OwnFilesKept
<1> QED
  BY <1>1, <1>3, <1>4, <1>7, <1>8 DEF OwnKept

LEMMA OwnCancelJson ==
  ASSUME Types, NEW w \in Windows, OwnKept(w), CancelJson(w)
  PROVE  OwnKept(w)'
<1>1. UNCHANGED Shared
  BY CancelJsonDoes
<1>2. PICK r \in Window : r = win[w]
  BY WindowTyped
<1>3. PICK q, c : q = win'[w] /\ c = own.config
  OBVIOUS
<1>4. q = [r EXCEPT !.text = Absent]
  BY <1>2, <1>3, CancelJsonDoes
<1>5. /\ q.phase = r.phase /\ q.config = r.config /\ q.idles = r.idles /\ q.saving = r.saving
      /\ q.text = Absent /\ q.accels = r.accels /\ q.warned = r.warned
  BY <1>4 DEF Window
<1>6. Chains(q, c) /\ Warns(q, c)
  BY <1>2, <1>3, <1>5 DEF OwnKept, Chains, Warns
<1>7. Files(w)'
  BY <1>1, <1>2, <1>3, <1>5, OwnFilesKept DEF Shared
<1> QED
  BY <1>1, <1>3, <1>6, <1>7 DEF OwnKept, Shared

(* A change that is not piled on one that is still to be saved               *)
LEMMA OwnChanged ==
  ASSUME Types, NEW w \in Windows, OwnKept(w), NEW d \in Config, Changed(w, d, d), d.keybindings = own.config.keybindings
  PROVE  OwnKept(w)'
<1>1. PICK r \in Window : r = win[w] /\ r.saving = NotSaving /\ r.idles \in Seq(Config)
  BY WindowTyped DEF Changed, AtSettings, Resting
<1>2. PICK q, idles : q = win'[w] /\ idles = Append(r.idles, d)
  OBVIOUS
<1>3. q = [r EXCEPT !.config = d, !.looks = q.looks, !.idles = idles]
  BY <1>1, <1>2 DEF Changed
<1>4. own'.config = d
  BY NoteDoes DEF Changed
<1>5. /\ q.phase = r.phase /\ q.config = d /\ q.idles = idles /\ q.saving = NotSaving
      /\ q.text = r.text /\ q.accels = r.accels /\ q.warned = r.warned
  BY <1>1, <1>3 DEF Window
<1>6. idles # <<>> /\ idles[Len(idles)] = d
  BY <1>1, <1>2
<1>7. Chains(q, d)
  BY <1>5, <1>6 DEF Chains, NotSaving
<1>8. r.text = Absent
  BY <1>1 DEF Changed, AtSettings
<1>9. Warns(q, d)
  BY <1>1, <1>5, <1>8 DEF OwnKept, Warns
<1>10. Files(w)'
  BY <1>2, <1>5, <1>6 DEF Files, NotSaving
<1> QED
  BY <1>2, <1>4, <1>7, <1>9, <1>10 DEF OwnKept

(* What is saved at once                                                     *)
LEMMA OwnSavesAtOnce ==
  ASSUME NEW w \in Windows, NEW d \in Config, NEW json \in BOOLEAN, own'.config = d,
         win'[w].saving = Saving(d, json), win'[w].idles = <<>>, json \/ win'[w].config = d, Warns(win'[w], d)
  PROVE  OwnKept(w)'
<1>1. PICK q : q = win'[w]
  OBVIOUS
<1>2. q.saving.step = "open" /\ q.saving.config = d /\ (q.saving.json <=> json) /\ q.saving # NotSaving
  BY <1>1 DEF Saving, NotSaving
<1>3. Chains(q, d)
  BY <1>1, <1>2 DEF Chains
<1>4. Files(w)'
  BY <1>1, <1>2 DEF Files
<1> QED
  BY <1>1, <1>3, <1>4 DEF OwnKept

(* An edit of the text changes no shortcut to another.                       *)
LEMMA EditedBindings ==
  ASSUME NEW c \in Config, NEW d \in Edits(c), NEW a \in Actions, d.keybindings[a] \in Accels
  PROVE  d.keybindings[a] = c.keybindings[a]
<1>1. PICK old, new : old = c.keybindings /\ new = d.keybindings
  OBVIOUS
<1>2. old \in [Actions -> Accels \cup {"", Unset}]
  BY <1>1, ConfigTyped
<1>3. CASE \E p \in Profiles : d = [c EXCEPT !.profiles = p]
  BY <1>3 DEF Config
<1>4. CASE d = [c EXCEPT !.bell = 1 - c.bell]
  <2>1. PICK b : b = 1 - c.bell
    OBVIOUS
  <2> QED
    BY <1>4, <2>1 DEF Config
<1>5. CASE \E b \in Actions, k \in {Unset, ""} : d = [c EXCEPT !.keybindings[b] = k]
  <2>1. PICK b \in Actions, k \in {Unset, ""} : d = [c EXCEPT !.keybindings[b] = k]
    BY <1>5
  <2>2. new = [old EXCEPT ![b] = k]
    BY <1>1, <2>1 DEF Config
  <2>3. k \notin Accels
    BY DEF Unset, Accels
  <2> QED
    BY <1>1, <1>2, <2>2, <2>3
<1> QED
  BY <1>3, <1>4, <1>5, EditCases

LEMMA OwnSaveJson ==
  ASSUME Types, NEW w \in Windows, OwnKept(w), SaveJson(w), ~ own'.spoiled
  PROVE  OwnKept(w)'
<1>1. PICK d \in Config :
        /\ d \in Edits(win[w].text.config) /\ Resting(w) /\ win[w].text # Absent
        /\ win'[w] = [win[w] EXCEPT !.text = Whole(d), !.saving = Saving(d, TRUE)]
        /\ Note(w, d, win[w].idles # <<>>)
  BY SaveJsonDoes
<1>2. own'.config = d /\ win[w].idles = <<>>
  BY <1>1, NoteDoes
<1>3. PICK r \in Window : r = win[w] /\ Warns(r, own.config) /\ r.text # Absent
  BY <1>1, WindowTyped DEF OwnKept
<1>4. PICK q, f, s : q = win'[w] /\ f = Whole(d) /\ s = Saving(d, TRUE)
  OBVIOUS
<1>5. q = [r EXCEPT !.text = f, !.saving = s]
  BY <1>1, <1>3, <1>4
<1>6. /\ q.phase = r.phase /\ q.idles = r.idles /\ q.saving = s
      /\ q.text = f /\ q.accels = r.accels /\ q.warned = r.warned
  BY <1>5 DEF Window
<1>7. d \in Edits(own.config)
  BY <1>1, <1>3 DEF Warns
<1>8. \A a \in Actions : d.keybindings[a] \in Accels => d.keybindings[a] = own.config.keybindings[a]
  BY <1>7, EditedBindings DEF Types
<1>9. f.config = d
  BY <1>4 DEF Whole
<1>10. Warns(q, d)
  BY <1>3, <1>6, <1>8, <1>9 DEF Warns
<1> QED
  BY <1>2, <1>3, <1>4, <1>6, <1>10, OwnSavesAtOnce

LEMMA OwnBind ==
  ASSUME Types, NEW w \in Windows, OwnKept(w), NEW a \in Actions, NEW accel \in Accels, Bind(w, a, accel), ~ own'.spoiled
  PROVE  OwnKept(w)'
<1>1. AtSettings(w) /\ Note(w, [own.config EXCEPT !.keybindings[a] = accel], win[w].idles # <<>>)
  BY BindDoes
<1>2. PICK d \in Config : d = [own.config EXCEPT !.keybindings[a] = accel]
  BY BindingUpdates DEF Types
<1>3. own'.config = d /\ win[w].idles = <<>>
  BY <1>1, <1>2, NoteDoes
<1>4. PICK warned \in SUBSET Actions :
        /\ win'[w] = Bound(win[w], a, accel, warned)
        /\ warned \ {a} = win[w].warned \ {a}
        /\ (\E b \in Actions \ {a} : accel \in Defaults(b)) => a \in warned
  BY BindDoes
<1>5. PICK r \in Window : r = win[w] /\ Warns(r, own.config) /\ r.text = Absent /\ r.phase = "up" /\ r.config = own.config
  BY <1>1, WindowTyped DEF OwnKept, Chains, AtSettings, Resting, NotSaving
<1>6. PICK q, accels : q = win'[w] /\ accels = [r.accels EXCEPT ![a] = {accel}]
  OBVIOUS
<1>7. q = [r EXCEPT !.config = d, !.saving = Saving(d, FALSE), !.accels = accels,
                    !.dropped = r.dropped \ {a}, !.warned = warned]
  BY <1>2, <1>4, <1>5, <1>6 DEF Bound
<1>8. /\ q.phase = r.phase /\ q.config = d /\ q.idles = r.idles /\ q.saving = Saving(d, FALSE)
      /\ q.text = r.text /\ q.accels = accels /\ q.warned = warned
  BY <1>7 DEF Window
<1>9. PICK before, after : before = own.config.keybindings /\ after = d.keybindings
  OBVIOUS
<1>10. after = [before EXCEPT ![a] = accel] /\ before \in [Actions -> Accels \cup {"", Unset}]
  <2>1. own.config \in Config
    BY DEF Types
  <2> QED
    BY <1>2, <1>9, <2>1 DEF Config
<1>11. r.accels \in [Actions -> SUBSET (Accels \cup {"X"})]
  BY DEF Window
<1>12. \A b \in Actions : after[b] \in Accels => accels[b] = {after[b]}
  BY <1>5, <1>6, <1>9, <1>10, <1>11 DEF Warns
<1>13. \A b \in Actions : accels[b] \in {Defaults(b), {}, {"C"}, {"V"}}
  BY <1>5, <1>6, <1>11 DEF Warns, Accels
<1>14. \A b \in Actions : accels[b] = (IF b = a THEN {accel} ELSE r.accels[b]) /\ (b # a => (b \in warned <=> b \in r.warned))
  BY <1>4, <1>5, <1>6, <1>11
<1>15. accels["copy"] = {"V"} => "copy" \in warned
  BY <1>4, <1>5, <1>14, DefaultAccels DEF Warns, Actions
<1>16. accels["paste"] = {"C"} => "paste" \in warned
  BY <1>4, <1>5, <1>14, DefaultAccels DEF Warns, Actions
<1>17. Warns(q, d)
  BY <1>5, <1>8, <1>9, <1>12, <1>13, <1>15, <1>16 DEF Warns
<1> QED
  BY <1>3, <1>5, <1>6, <1>8, <1>17, OwnSavesAtOnce

LEMMA OwnReset ==
  ASSUME Types, NEW w \in Windows, OwnKept(w), NEW actions \in SUBSET Actions, Reset(w, actions), ~ own'.spoiled
  PROVE  OwnKept(w)'
<1>1. /\ AtSettings(w) /\ Note(w, ResetConfig(own.config, actions), win[w].idles # <<>>)
      /\ win'[w] = Unbound(win[w], actions)
  BY ResetDoes
<1>2. PICK d \in Config : d = ResetConfig(own.config, actions)
  BY BindingResets DEF Types, ResetConfig
<1>3. own'.config = d /\ win[w].idles = <<>>
  BY <1>1, <1>2, NoteDoes
<1>4. PICK r \in Window : r = win[w] /\ Warns(r, own.config) /\ r.text = Absent /\ r.phase = "up" /\ r.config = own.config
  BY <1>1, WindowTyped DEF OwnKept, Chains, AtSettings, Resting, NotSaving
<1>5. PICK q, accels, warned : /\ q = win'[w] /\ warned = r.warned \ actions
                               /\ accels = [a \in Actions |-> IF a \in actions THEN Defaults(a) ELSE r.accels[a]]
  OBVIOUS
<1>6. q = [r EXCEPT !.config = d, !.saving = Saving(d, FALSE), !.accels = accels,
                    !.dropped = r.dropped \ actions, !.warned = warned]
  BY <1>1, <1>2, <1>4, <1>5 DEF Unbound
<1>7. /\ q.phase = r.phase /\ q.config = d /\ q.idles = r.idles /\ q.saving = Saving(d, FALSE)
      /\ q.text = r.text /\ q.accels = accels /\ q.warned = warned
  BY <1>6 DEF Window
<1>8. PICK before, after : before = own.config.keybindings /\ after = d.keybindings
  OBVIOUS
<1>9. after = [a \in Actions |-> IF a \in actions THEN Unset ELSE before[a]] /\ Unset \notin Accels
  <2>1. own.config \in Config
    BY DEF Types
  <2> QED
    BY <1>2, <1>8, <2>1 DEF Config, ResetConfig, Unset, Accels
<1>10. \A b \in Actions : accels[b] = (IF b \in actions THEN Defaults(b) ELSE r.accels[b])
  BY <1>5
<1>11. \A b \in Actions : after[b] \in Accels => accels[b] = {after[b]}
  BY <1>4, <1>8, <1>9, <1>10 DEF Warns
<1>12. \A b \in Actions : accels[b] \in {Defaults(b), {}, {"C"}, {"V"}}
  BY <1>4, <1>10 DEF Warns
<1>13. \A b \in Actions : b \notin actions => (b \in warned <=> b \in r.warned)
  BY <1>5
<1>14. accels["copy"] = {"V"} => "copy" \in warned
  BY <1>4, <1>10, <1>13, DefaultAccels DEF Warns, Actions
<1>15. accels["paste"] = {"C"} => "paste" \in warned
  BY <1>4, <1>10, <1>13, DefaultAccels DEF Warns, Actions
<1>16. Warns(q, d)
  BY <1>4, <1>7, <1>8, <1>11, <1>12, <1>14, <1>15 DEF Warns
<1> QED
  BY <1>3, <1>4, <1>5, <1>7, <1>16, OwnSavesAtOnce

LEMMA OwnStep ==
  ASSUME Types, FreshInv, OwnInv, NEW w \in Windows, WindowStep(w), Sole(w), ~ own'.spoiled
  PROVE  OwnKept(w)'
<1>1. OwnKept(w)
  BY DEF OwnInv, OwnKept
<1>2. win[w].phase # "up" => w \notin own.by /\ own.config = DefaultConfig
  <2>1. w \in own.by => win[w].phase = "up"
    BY DEF OwnInv, SaversChanged
  <2>2. w \notin own.by => own.by = {}
    BY DEF Sole
  <2> QED
    BY <2>1, <2>2 DEF OwnInv
<1>3. CASE StartUp(w)
  BY <1>1, <1>2, <1>3, OwnStartUp, StartUpDoes
<1>4. CASE build_ui(w)
  BY <1>1, <1>2, <1>4, OwnBuildUi, BuildUiDoes
<1>5. CASE RenameTmp(w)
  <2>1. win[w].saving # NotSaving
    <3>1. win[w].saving.step = "rename" /\ NotSaving.step = "none"
      BY <1>5, RenameTmpDoes DEF NotSaving
    <3> QED
      BY <3>1
  <2>2. w \in own.by
    BY <2>1 DEF OwnInv, SaversChanged
  <2> QED
    BY <1>1, <1>5, <2>2, OwnRenameTmp
<1>6. CASE SaveWhenIdle(w) \/ OpenTmp(w) \/ WriteTmp(w) \/ CancelJson(w)
  BY <1>1, <1>6, OwnSaveWhenIdle, OwnOpenTmp, OwnWriteTmp, OwnCancelJson
<1>7. CASE Poll(w) \/ reload_config_all_workspaces(w) \/ ViewJson(w) \/ SaveJson(w)
  BY <1>1, <1>7, OwnPoll, OwnReload, OwnViewJson, OwnSaveJson
<1>8. Resting(w) => win[w].phase # "off" /\ ~ win[w].saving.json
  BY DEF Resting, NotSaving
<1>9. Resting(w) => win[w].config = own.config
  BY <1>1, <1>8 DEF OwnKept, Chains
<1>10. CASE \E v \in 0 .. 1 : ChangeSetting(w, v)
  <2>1. PICK v \in 0 .. 1 : ChangeSetting(w, v)
    BY <1>10
  <2>2. PICK d \in Config : d = [own.config EXCEPT !.bell = v] /\ d.keybindings = own.config.keybindings
    <3>1. PICK c \in Config : c = own.config
      BY DEF Types
    <3>2. [c EXCEPT !.bell = v].keybindings = c.keybindings
      BY DEF Config
    <3> QED
      BY <3>1, <3>2, ConfigUpdates
  <2>3. Changed(w, [win[w].config EXCEPT !.bell = v], d)
    BY <2>1, <2>2, ChangeSettingDoes
  <2>4. Changed(w, d, d)
    BY <1>9, <2>2, <2>3 DEF Changed, AtSettings
  <2> QED
    BY <1>1, <2>2, <2>4, OwnChanged
<1>11. CASE \E v \in 0 .. 1, shown \in BOOLEAN : ChangeLook(w, v, shown)
  <2>1. PICK v \in 0 .. 1, shown \in BOOLEAN : ChangeLook(w, v, shown)
    BY <1>11
  <2>2. PICK d \in Config : d = [own.config EXCEPT !.look = v] /\ d.keybindings = own.config.keybindings
    <3>1. PICK c \in Config : c = own.config
      BY DEF Types
    <3>2. [c EXCEPT !.look = v].keybindings = c.keybindings
      BY DEF Config
    <3> QED
      BY <3>1, <3>2, ConfigUpdates
  <2>3. Changed(w, [win[w].config EXCEPT !.look = v], d)
    BY <2>1, <2>2, ChangeLookDoes
  <2>4. Changed(w, d, d)
    BY <1>9, <2>2, <2>3 DEF Changed, AtSettings
  <2> QED
    BY <1>1, <2>2, <2>4, OwnChanged
<1>12. CASE \E a \in Actions, accel \in Accels : Bind(w, a, accel)
  BY <1>1, <1>12, OwnBind
<1>13. CASE \E actions \in SUBSET Actions : Reset(w, actions)
  BY <1>1, <1>13, OwnReset
<1> QED
  BY <1>3, <1>4, <1>5, <1>6, <1>7, <1>10, <1>11, <1>12, <1>13 DEF WindowStep, ResetAll

LEMMA NextOwn ==
  ASSUME Types, FreshInv, OwnInv, SettingsNext
  PROVE  OwnInv'
<1>1. SaversChanged'
  BY NextSavers DEF OwnInv
<1>2. own'.by = {} => own'.config = DefaultConfig
  <2>1. CASE EditOutside
    BY <2>1, EditOutsideDoes DEF OwnInv, Types
  <2>2. ASSUME NEW w \in Windows, WindowStep(w)
        PROVE  own'.by = {} => own'.config = DefaultConfig
    BY <2>2, StepAdds DEF OwnInv, Adds
  <2> QED
    BY <2>1, <2>2 DEF SettingsNext
<1>3. ASSUME NEW w \in Windows, own'.by \subseteq {w}, ~ own'.spoiled
      PROVE  OwnKept(w)'
  <2>1. ~ EditOutside
    BY <1>3, EditOutsideDoes DEF Types
  <2>2. PICK v \in Windows : WindowStep(v)
    BY <2>1 DEF SettingsNext
  <2>3. Sole(w)
    BY <1>3, <2>2, StepAdds DEF Adds, Sole
  <2>4. CASE v = w
    BY <1>3, <2>2, <2>3, <2>4, OwnStep
  <2>5. CASE v # w
    <3>1. /\ win'[w] = win[w] /\ UNCHANGED <<toml, tmp, held>>
          /\ own'.by = own.by /\ own'.config = own.config
      BY <1>3, <2>2, <2>3, <2>5, OthersSole DEF Sole, OwnInv
    <3>2. OwnKept(w)
      BY <2>3 DEF OwnInv, OwnKept
    <3> QED
      BY <3>1, <3>2 DEF OwnKept, Files
  <2> QED
    BY <2>4, <2>5
<1> QED
  BY <1>1, <1>2, <1>3 DEF OwnInv, OwnKept, Sole

LEMMA OwnInit == SettingsInit => OwnInv
<1> SUFFICES ASSUME SettingsInit
             PROVE  OwnInv
  OBVIOUS
<1>1. /\ own.by = {} /\ own.config = DefaultConfig
      /\ \A w \in Windows : win[w] = Off
      /\ Parses(toml) /\ load_config(toml) = DefaultConfig
  BY DEF SettingsInit, Parses, load_config, Absent, Whole
<1>2. /\ Off.saving = NotSaving /\ Off.idles = <<>> /\ Off.phase = "off" /\ Off.text = Absent
      /\ Off.accels = [a \in Actions |-> Defaults(a)]
  BY DEF Off
<1>3. NotSaving.step = "none" /\ ~ NotSaving.json
  BY DEF NotSaving
<1>4. Warns(Off, DefaultConfig)
  BY <1>2, WarnsDefaults
<1>5. Chains(Off, DefaultConfig)
  BY <1>2, <1>3 DEF Chains
<1> QED
  BY <1>1, <1>2, <1>3, <1>4, <1>5 DEF OwnInv, SaversChanged, Files

-----------------------------------------------------------------------------
(* The theorems                                                              *)

LEMMA ShownInit == SettingsInit => EventsLeft /\ MenusFit /\ ShownAtRest
<1> SUFFICES ASSUME SettingsInit, NEW w \in Windows
             PROVE  EventLeft(w) /\ MenuFits(w) /\ ~ AtRest(w)
  BY DEF EventsLeft, MenusFit, ShownAtRest
<1>1. win[w] = Off
  BY DEF SettingsInit
<1>2. Off.phase = "off" /\ ~ Off.watching
  BY DEF Off
<1> QED
  BY <1>1, <1>2 DEF EventLeft, MenuFits, AtRest, Resting

LEMMA ShownParts == ShownInv <=> EventsLeft /\ MenusFit /\ ShownAtRest
BY DEF ShownInv, EventsLeft, MenusFit, ShownAtRest

LEMMA InitIInv == SettingsInit => IInv
BY TypesInit, FreshInit, HeldInit, ShownInit, ShownParts, OwnInit DEF IInv

LEMMA NextIInv ==
  ASSUME IInv, [SettingsNext]_settingsVars
  PROVE  IInv'
<1>1. CASE SettingsNext
  <2>1. (EventsLeft /\ MenusFit /\ ShownAtRest)'
    BY <1>1, ShownParts, NextEvents, NextMenus, NextShown DEF IInv
  <2>2. ShownInv'
    BY <2>1 DEF ShownInv, EventsLeft, MenusFit, ShownAtRest
  <2> QED
    BY <1>1, <2>2, NextTypes, NextFresh, NextHeld, NextOwn DEF IInv
<1>2. CASE UNCHANGED settingsVars
  <2> USE <1>2 DEF settingsVars
  <2>1. Types' /\ FreshInv' /\ HeldInv'
    BY DEF IInv, Types, FreshInv, HeldInv
  <2>2. EventsLeft' /\ MenusFit'
    BY ShownParts DEF IInv, EventsLeft, EventLeft, MenusFit, MenuFits
  <2>3. ShownAtRest'
    <3> SUFFICES ASSUME NEW v \in Windows, RestsIn(win'[v]), Parses(toml')
                 PROVE  Shows(win'[v], load_config(toml'))
      BY DEF ShownAtRest, Shown, Shows, AtRest, Resting, RestsIn
    <3> QED
      BY ShownParts, ShownIsShows DEF IInv, ShownAtRest
  <2>4. ShownInv'
    BY <2>2, <2>3 DEF ShownInv, EventsLeft, MenusFit, ShownAtRest
  <2>5. OwnInv'
    BY DEF IInv, OwnInv, SaversChanged, Sole, Files
  <2> QED
    BY <2>1, <2>4, <2>5 DEF IInv
<1> QED
  BY <1>1, <1>2

LEMMA IInvHolds == SettingsSpec => []IInv
BY InitIInv, NextIInv, PTL DEF SettingsSpec

(* A menu fits the profiles it was built from.                               *)
LEMMA BuiltFits ==
  ASSUME NEW p \in Profiles, NEW m, m = build_dropdown_popover([profiles |-> p])
  PROVE  Len(m) = Len(p) /\ \A i \in DOMAIN m : p[m[i].action] = m[i].label
<1>1. PICK n \in Nat : DOMAIN p = 1 .. n /\ Len(p) = n
  <2>1. CASE p = <<>>
    BY <2>1
  <2>2. CASE p = <<"zsh">>
    <3>1. DOMAIN p = 1 .. 1 /\ Len(p) = 1
      BY <2>2
    <3> QED
      BY <3>1
  <2>3. CASE p = <<"ssh", "zsh">>
    <3>1. DOMAIN p = 1 .. 2 /\ Len(p) = 2
      BY <2>3
    <3> QED
      BY <3>1
  <2> QED
    BY <2>1, <2>2, <2>3 DEF Profiles
<1>2. m = [i \in 1 .. n |-> [label |-> p[i], action |-> i]]
  BY <1>1 DEF build_dropdown_popover
<1>4. Len(m) = n
  BY <1>2
<1>5. \A i \in DOMAIN m : p[m[i].action] = m[i].label
  BY <1>2
<1> QED
  BY <1>1, <1>4, <1>5

(* SettingsTypeOK: what the windows and the files hold are configurations    *)
(* and shortcuts, and a file is held only between the open and the write of  *)
(* a save (save_config).                                                     *)
THEOREM SettingsTypesCorrect == SettingsSpec => []SettingsTypeOK
<1>1. IInv => SettingsTypeOK
  <2> SUFFICES ASSUME Types, HeldInv
               PROVE  SettingsTypeOK
    BY DEF IInv
  <2>1. \A f \in {toml, tmp} : f.state \in {"absent", "empty", "torn", "whole"} /\ f.config \in Config
    BY DEF Types, File
  <2>2. ASSUME NEW w \in Windows
        PROVE  /\ win[w].config \in Config /\ win[w].saving.config \in Config
               /\ \A a \in Actions : win[w].accels[a] \subseteq Accels \cup {"X"}
               /\ win[w].saving.step \in {"none", "open", "write", "rename"}
               /\ held[w] \in {"none", "tmp", "toml", "gone"}
               /\ held[w] # "none" => win[w].saving.step = "write"
    BY WindowTyped DEF Types, Save, HeldInv
  <2> QED
    BY <2>1, <2>2 DEF SettingsTypeOK
<1> QED
  BY <1>1, IInvHolds, PTL

LEMMA ShownFollows == IInv => SettingsShown
<1> SUFFICES ASSUME IInv, NEW w \in Windows, AtRest(w), Parses(toml)
             PROVE  LET c == load_config(toml) r == win[w]
                    IN /\ r.config = c /\ r.looks = Looks(c)
                       /\ r.actions = c.profiles
                       /\ r.stale \/ (/\ Len(r.dropdown) = Len(r.actions)
                                      /\ \A i \in DOMAIN r.dropdown : r.actions[r.dropdown[i].action] = r.dropdown[i].label)
                       /\ \A a \in Actions \ r.dropped :
                            r.accels[a] = CASE c.keybindings[a] = Unset -> Defaults(a)
                                            [] c.keybindings[a] = "" -> {}
                                            [] OTHER -> {c.keybindings[a]}
  BY DEF SettingsShown
<1>1. Shown(w) /\ MenuFits(w)
  BY DEF IInv, ShownInv
<1>2. win[w].phase = "up"
  BY DEF AtRest, Resting
<1>3. win[w].actions \in Profiles
  BY DEF IInv, Types, Window
<1>4. PICK p, m : p = win[w].actions /\ m = win[w].dropdown
  OBVIOUS
<1>5. win[w].stale \/ (Len(m) = Len(p) /\ \A i \in DOMAIN m : p[m[i].action] = m[i].label)
  BY <1>1, <1>2, <1>3, <1>4, BuiltFits DEF MenuFits
<1> QED
  BY <1>1, <1>4, <1>5 DEF Shown

LEMMA KeptFollows == IInv => OwnChangesAreKept
BY DEF IInv, OwnInv, Sole, Alone, Files, Resting, OwnChangesAreKept

LEMMA WarnedFollows == IInv => CollisionsAreWarned
<1> SUFFICES ASSUME IInv, NEW w \in Windows, Alone(w), NEW a \in Actions, NEW b \in Actions,
                    a # b, win[w].accels[a] \cap win[w].accels[b] # {}
             PROVE  win[w].warned \cap {a, b} # {}
  BY DEF CollisionsAreWarned
<1>1. Warns(win[w], own.config)
  BY DEF IInv, OwnInv, Sole, Alone
<1>2. {a, b} = {"copy", "paste"} /\ win[w].accels["copy"] \cap win[w].accels["paste"] # {}
  BY DEF Actions
<1>3. PICK copy, paste : copy = win[w].accels["copy"] /\ paste = win[w].accels["paste"]
  OBVIOUS
<1>4. copy \in {{"C"}, {}, {"V"}} /\ paste \in {{"V", "X"}, {}, {"C"}, {"V"}}
  BY <1>1, <1>3, DefaultAccels DEF Warns, Actions
<1>5. copy = {"V"} \/ paste = {"C"}
  BY <1>2, <1>3, <1>4
<1>6. "copy" \in win[w].warned \/ "paste" \in win[w].warned
  BY <1>1, <1>3, <1>5 DEF Warns
<1> QED
  BY <1>2, <1>6

(* SettingsSafe: a window at rest shows the config.toml there is, whoever    *)
(* wrote it and in whatever order the windows' saves went through the one    *)
(* temporary file; and the only window to change anything, whose callbacks   *)
(* are not overtaken, loses no change and warns of colliding shortcuts       *)
(* (config.rs save_config, app.rs the hot reload timer and find_conflict).   *)
THEOREM SettingsAlwaysSafe == SettingsSpec => []SettingsSafe
<1>1. IInv => SettingsSafe
  BY ShownFollows, KeptFollows, WarnedFollows DEF SettingsSafe
<1> QED
  BY <1>1, IInvHolds, PTL

-----------------------------------------------------------------------------
(* Lists of workspaces                                                       *)

Hues == Colors \cup {"none"}
AnyName == Names \cup {CHOOSE x \in Names : TRUE}
Item == [id : Ids, name : AnyName, color : Hues]
Lists == Seq(Item)

IdSet(s) == {s[k].id : k \in 1 .. Len(s)}
Unlike(s) == \A j, k \in 1 .. Len(s) : s[j].id = s[k].id => j = k
SameIds(s, t) == Len(s) = Len(t) /\ \A k \in 1 .. Len(s) : s[k].id = t[k].id

(* What an event does to a list.                                             *)
Colored(r, c) == [r EXCEPT !.color = c]
Titled(r, n) == [r EXCEPT !.name = n]
Painted(s, x, c) == [k \in 1 .. Len(s) |-> IF s[k].id = x THEN Colored(s[k], c) ELSE s[k]]
Named(s, i, n) == [k \in 1 .. Len(s) |-> IF k = i + 1 THEN Titled(s[k], n) ELSE s[k]]
Left(s, x, t) ==
  \/ x \notin IdSet(s) /\ t = s
  \/ \E k \in 1 .. Len(s) : s[k].id = x /\ t = RemoveAt(s, k)

LEMMA SameIdsSame ==
  ASSUME NEW s \in Lists, NEW t \in Lists, SameIds(s, t)
  PROVE  IdSet(t) = IdSet(s) /\ (Unlike(s) => Unlike(t))
BY DEF SameIds, IdSet, Unlike

LEMMA ListDomain ==
  ASSUME NEW s \in Lists
  PROVE  /\ Len(s) \in Nat /\ DOMAIN s = 1 .. Len(s) /\ s \in [1 .. Len(s) -> Item]
         /\ \A k \in 1 .. Len(s) : s[k] \in Item
BY DEF Lists

LEMMA ListsEqual ==
  ASSUME NEW s \in Lists, NEW t \in Lists, Len(s) = Len(t),
         \A k \in 1 .. Len(s) : s[k] = t[k]
  PROVE  s = t
BY SeqEqual DEF Lists

LEMMA ListOf ==
  ASSUME NEW n \in Nat, NEW f \in [1 .. n -> Item]
  PROVE  f \in Lists /\ Len(f) = n
<1>1. f \in Seq(Item)
  BY FunctionIsSeq
<1>2. DOMAIN f = 1 .. n
  OBVIOUS
<1>3. Len(f) = n
  BY <1>1, <1>2, LenProperties
<1> QED
  BY <1>1, <1>3 DEF Lists

LEMMA PaintedList ==
  ASSUME NEW s \in Lists, NEW x, NEW c \in Hues
  PROVE  /\ Painted(s, x, c) \in Lists /\ Len(Painted(s, x, c)) = Len(s)
         /\ \A k \in 1 .. Len(s) :
              Painted(s, x, c)[k] = IF s[k].id = x THEN Colored(s[k], c) ELSE s[k]
         /\ SameIds(s, Painted(s, x, c))
<1> DEFINE f == Painted(s, x, c)
<1>1. Len(s) \in Nat /\ \A k \in 1 .. Len(s) : s[k] \in Item
  BY ListDomain
<1>2. \A k \in 1 .. Len(s) : f[k] = IF s[k].id = x THEN Colored(s[k], c) ELSE s[k]
  BY DEF Painted
<1>3. \A r \in Item : Colored(r, c) \in Item /\ Colored(r, c).id = r.id
  BY DEF Item, Colored, Titled
<1>4. \A k \in 1 .. Len(s) : f[k] \in Item /\ f[k].id = s[k].id
  BY <1>1, <1>2, <1>3
<1>5. f = [k \in 1 .. Len(s) |-> f[k]]
  BY DEF Painted
<1> HIDE DEF f
<1>6. f \in [1 .. Len(s) -> Item]
  BY <1>4, <1>5
<1>7. f \in Lists /\ Len(f) = Len(s)
  BY <1>1, <1>6, ListOf
<1> QED
  BY <1>2, <1>4, <1>7 DEF f, SameIds

LEMMA NamedList ==
  ASSUME NEW s \in Lists, NEW i \in Int, NEW n \in AnyName
  PROVE  /\ Named(s, i, n) \in Lists /\ Len(Named(s, i, n)) = Len(s)
         /\ \A k \in 1 .. Len(s) :
              Named(s, i, n)[k] = IF k = i + 1 THEN Titled(s[k], n) ELSE s[k]
         /\ SameIds(s, Named(s, i, n))
<1> DEFINE f == Named(s, i, n)
<1>1. Len(s) \in Nat /\ \A k \in 1 .. Len(s) : s[k] \in Item
  BY ListDomain
<1>2. \A k \in 1 .. Len(s) : f[k] = IF k = i + 1 THEN Titled(s[k], n) ELSE s[k]
  BY DEF Named
<1>3. \A r \in Item : Titled(r, n) \in Item /\ Titled(r, n).id = r.id
  BY DEF Item, Colored, Titled
<1>4. \A k \in 1 .. Len(s) : f[k] \in Item /\ f[k].id = s[k].id
  BY <1>1, <1>2, <1>3
<1>5. f = [k \in 1 .. Len(s) |-> f[k]]
  BY DEF Named
<1> HIDE DEF f
<1>6. f \in [1 .. Len(s) -> Item]
  BY <1>4, <1>5
<1>7. f \in Lists /\ Len(f) = Len(s)
  BY <1>1, <1>6, ListOf
<1> QED
  BY <1>2, <1>4, <1>7 DEF f, SameIds

(* Where the item at k of the exchanged list was before.                     *)
Place(i, j, k) == IF k = i + 1 THEN j + 1 ELSE IF k = j + 1 THEN i + 1 ELSE k

LEMMA ExchangeList ==
  ASSUME NEW s \in Lists, NEW i \in Positions(s), NEW j \in Positions(s)
  PROVE  /\ Exchange(s, i, j) \in Lists /\ Len(Exchange(s, i, j)) = Len(s)
         /\ \A k \in 1 .. Len(s) :
              Place(i, j, k) \in 1 .. Len(s) /\ Exchange(s, i, j)[k] = s[Place(i, j, k)]
         /\ IdSet(Exchange(s, i, j)) = IdSet(s)
         /\ Unlike(s) => Unlike(Exchange(s, i, j))
<1> DEFINE f == Exchange(s, i, j)
<1>1. /\ Len(s) \in Nat /\ DOMAIN s = 1 .. Len(s)
      /\ \A k \in 1 .. Len(s) : s[k] \in Item
  BY ListDomain
<1>2. i + 1 \in 1 .. Len(s) /\ j + 1 \in 1 .. Len(s) /\ i \in Int /\ j \in Int
  BY <1>1 DEF Positions
<1>3. s \in [1 .. Len(s) -> Item]
  BY ListDomain
<1>4. f \in [1 .. Len(s) -> Item]
  BY <1>1, <1>2, <1>3 DEF Exchange
<1>5. ASSUME NEW k \in 1 .. Len(s) PROVE f[k] = s[Place(i, j, k)] /\ Place(i, j, k) \in 1 .. Len(s)
  BY <1>1, <1>2, <1>3 DEF Exchange, Place
<1> HIDE DEF f
<1>6. f \in Lists /\ Len(f) = Len(s)
  BY <1>1, <1>4, ListOf
<1>7. \A k \in 1 .. Len(s) : Place(i, j, Place(i, j, k)) = k
  BY <1>1, <1>2 DEF Place
<1>8. IdSet(f) = IdSet(s)
  <2>1. \A k \in 1 .. Len(s) : f[k].id = s[Place(i, j, k)].id /\ f[Place(i, j, k)].id = s[k].id
    BY <1>5, <1>7
  <2> DEFINE at(k) == Place(i, j, k)
  <2>2. \A k \in 1 .. Len(s) : at(k) \in 1 .. Len(s) /\ f[k].id = s[at(k)].id /\ f[at(k)].id = s[k].id
    BY <1>5, <2>1
  <2> HIDE DEF at
  <2>3. IdSet(f) \subseteq IdSet(s)
    BY <1>6, <2>2 DEF IdSet
  <2>4. IdSet(s) \subseteq IdSet(f)
    BY <1>6, <2>2 DEF IdSet
  <2> QED
    BY <2>3, <2>4
<1>9. Unlike(s) => Unlike(f)
  <2> SUFFICES ASSUME Unlike(s), NEW k \in 1 .. Len(s), NEW l \in 1 .. Len(s), f[k].id = f[l].id
               PROVE  k = l
    BY <1>6 DEF Unlike
  <2>1. s[Place(i, j, k)].id = s[Place(i, j, l)].id
    BY <1>5
  <2>2. Place(i, j, k) = Place(i, j, l)
    BY <1>5, <2>1 DEF Unlike
  <2> QED
    BY <1>7, <2>2
<1> QED
  BY <1>5, <1>6, <1>8, <1>9 DEF f

LEMMA AppendList ==
  ASSUME NEW s \in Lists, NEW e \in Item
  PROVE  /\ Append(s, e) \in Lists /\ Len(Append(s, e)) = Len(s) + 1
         /\ \A k \in 1 .. Len(s) + 1 : Append(s, e)[k] = IF k = Len(s) + 1 THEN e ELSE s[k]
         /\ IdSet(Append(s, e)) = IdSet(s) \cup {e.id}
         /\ Unlike(s) /\ e.id \notin IdSet(s) => Unlike(Append(s, e))
<1> DEFINE f == Append(s, e)
<1>1. Len(s) \in Nat
  BY ListDomain
<1>2. /\ f \in Lists /\ Len(f) = Len(s) + 1
      /\ \A k \in 1 .. Len(s) + 1 : f[k] = IF k = Len(s) + 1 THEN e ELSE s[k]
  BY AppendProperties DEF Lists
<1> HIDE DEF f
<1>3. IdSet(f) = IdSet(s) \cup {e.id}
  BY <1>1, <1>2 DEF IdSet
<1>4. Unlike(s) /\ e.id \notin IdSet(s) => Unlike(f)
  BY <1>1, <1>2 DEF IdSet, Unlike
<1> QED
  BY <1>2, <1>3, <1>4 DEF f

LEMMA InsertedPlace ==
  ASSUME NEW S, NEW s \in Seq(S), NEW i \in 1 .. Len(s) + 1, NEW e \in S, NEW k \in 1 .. Len(s) + 1
  PROVE  InsertAt(s, i, e)[k] = IF k < i THEN s[k] ELSE IF k = i THEN e ELSE s[k - 1]
BY InsertAtProperties, SMTT(30)

LEMMA InsertList ==
  ASSUME NEW s \in Lists, NEW i \in 1 .. Len(s) + 1, NEW e \in Item
  PROVE  /\ InsertAt(s, i, e) \in Lists /\ Len(InsertAt(s, i, e)) = Len(s) + 1
         /\ \A k \in 1 .. Len(s) + 1 :
              InsertAt(s, i, e)[k] = IF k < i THEN s[k] ELSE IF k = i THEN e ELSE s[k - 1]
         /\ IdSet(InsertAt(s, i, e)) = IdSet(s) \cup {e.id}
         /\ Unlike(s) /\ e.id \notin IdSet(s) => Unlike(InsertAt(s, i, e))
<1> DEFINE f == InsertAt(s, i, e)
<1>1. Len(s) \in Nat
  BY ListDomain
<1>2. /\ f \in Lists /\ Len(f) = Len(s) + 1
      /\ \A k \in 1 .. Len(s) + 1 : f[k] = IF k < i THEN s[k] ELSE IF k = i THEN e ELSE s[k - 1]
  <2>1. PICK T : T = Item
    OBVIOUS
  <2>2. s \in Seq(T) /\ e \in T
    BY <2>1 DEF Lists
  <2>3. InsertAt(s, i, e) \in Seq(T) /\ Len(InsertAt(s, i, e)) = Len(s) + 1
    BY ONLY <2>2, i \in 1 .. Len(s) + 1, InsertAtProperties
  <2>4. \A k \in 1 .. Len(s) + 1 :
          InsertAt(s, i, e)[k] = IF k < i THEN s[k] ELSE IF k = i THEN e ELSE s[k - 1]
    BY ONLY <2>2, i \in 1 .. Len(s) + 1, InsertedPlace
  <2> QED
    BY <2>1, <2>3, <2>4, Zenon DEF Lists
<1> HIDE DEF f
<1>3. ASSUME NEW x PROVE x \in IdSet(f) <=> x \in IdSet(s) \cup {e.id}
  <2>1. ASSUME x \in IdSet(f) PROVE x \in IdSet(s) \cup {e.id}
    <3>1. PICK k \in 1 .. Len(s) + 1 : f[k].id = x
      BY <1>2, <2>1 DEF IdSet
    <3>2. CASE k < i
      BY <1>1, <1>2, <3>1, <3>2 DEF IdSet
    <3>3. CASE k = i
      BY <1>2, <3>1, <3>3
    <3>4. CASE k > i
      <4>1. f[k] = s[k - 1] /\ k - 1 \in 1 .. Len(s)
        BY <1>1, <1>2, <3>4
      <4> QED
        BY <3>1, <4>1 DEF IdSet
    <3> QED
      BY <3>2, <3>3, <3>4
  <2>2. ASSUME NEW k \in 1 .. Len(s), s[k].id = x PROVE x \in IdSet(f)
    <3>1. CASE k < i
      BY <1>1, <1>2, <2>2, <3>1 DEF IdSet
    <3>2. CASE k >= i
      <4>1. f[k + 1] = s[k] /\ k + 1 \in 1 .. Len(f)
        BY <1>1, <1>2, <3>2
      <4> QED
        BY <2>2, <4>1 DEF IdSet
    <3> QED
      BY <3>1, <3>2
  <2>3. e.id \in IdSet(f)
    BY <1>1, <1>2 DEF IdSet
  <2> QED
    BY <2>1, <2>2, <2>3 DEF IdSet
<1>4. ASSUME Unlike(s), e.id \notin IdSet(s) PROVE Unlike(f)
  <2> DEFINE back(k) == IF k < i THEN k ELSE k - 1
  <2>1. \A k \in 1 .. Len(f) : k # i => f[k] = s[back(k)] /\ back(k) \in 1 .. Len(s)
    BY <1>1, <1>2
  <2>2. \A k \in 1 .. Len(f) : k # i => f[k].id # e.id
    <3> HIDE DEF back
    <3> QED
      BY <1>4, <2>1 DEF IdSet
  <2>3. ASSUME NEW j \in 1 .. Len(f), NEW k \in 1 .. Len(f), f[j].id = f[k].id PROVE j = k
    <3>1. CASE j = i \/ k = i
      BY <1>2, <2>2, <2>3, <3>1
    <3>2. CASE j # i /\ k # i
      <4>1. back(j) = back(k)
        <5> HIDE DEF back
        <5> QED
          BY <1>4, <2>1, <2>3, <3>2 DEF Unlike
      <4> QED
        BY <3>2, <4>1
    <3> QED
      BY <3>1, <3>2
  <2> QED
    BY <2>3 DEF Unlike
<1> QED
  BY <1>2, <1>3, <1>4 DEF f

LEMMA RemoveList ==
  ASSUME NEW s \in Lists, NEW i \in 1 .. Len(s)
  PROVE  /\ RemoveAt(s, i) \in Lists /\ Len(RemoveAt(s, i)) = Len(s) - 1
         /\ \A k \in 1 .. Len(s) - 1 : RemoveAt(s, i)[k] = IF k < i THEN s[k] ELSE s[k + 1]
         /\ IdSet(RemoveAt(s, i)) \subseteq IdSet(s)
         /\ Unlike(s) => Unlike(RemoveAt(s, i)) /\ IdSet(RemoveAt(s, i)) = IdSet(s) \ {s[i].id}
<1> DEFINE f == RemoveAt(s, i)
           from(k) == IF k < i THEN k ELSE k + 1
           to(k) == IF k < i THEN k ELSE k - 1
<1>1. Len(s) \in Nat
  BY ListDomain
<1>2. /\ f \in Lists /\ Len(f) = Len(s) - 1
      /\ \A k \in 1 .. Len(s) - 1 : f[k] = IF k < i THEN s[k] ELSE s[k + 1]
  BY RemoveAtProperties DEF Lists
<1> HIDE DEF f
<1>3. \A k \in 1 .. Len(f) : f[k] = s[from(k)] /\ from(k) \in 1 .. Len(s) /\ from(k) # i
  BY <1>1, <1>2
<1>4. \A k \in 1 .. Len(s) : k # i => to(k) \in 1 .. Len(f) /\ from(to(k)) = k
  BY <1>1, <1>2
<1>5. \A j, k \in 1 .. Len(f) : from(j) = from(k) => j = k
  BY <1>1, <1>2
<1> HIDE DEF from, to
<1>6. IdSet(f) \subseteq IdSet(s)
  BY <1>3 DEF IdSet
<1>7. ASSUME Unlike(s) PROVE Unlike(f) /\ IdSet(f) = IdSet(s) \ {s[i].id}
  <2>1. Unlike(f)
    BY <1>3, <1>5, <1>7 DEF Unlike
  <2>2. s[i].id \notin IdSet(f)
    BY <1>3, <1>7 DEF IdSet, Unlike
  <2>3. ASSUME NEW k \in 1 .. Len(s), k # i PROVE s[k].id \in IdSet(f)
    <3>1. f[to(k)] = s[k] /\ to(k) \in 1 .. Len(f)
      BY <1>3, <1>4, <2>3
    <3> QED
      BY <3>1 DEF IdSet
  <2> QED
    BY <1>6, <2>1, <2>2, <2>3 DEF IdSet
<1> QED
  BY <1>2, <1>6, <1>7 DEF f

-----------------------------------------------------------------------------
(* What events do and what gestures do can be exchanged                      *)

LEMMA LeaveNothing ==
  ASSUME NEW s, NEW x, x \notin IdSet(s), NEW t
  PROVE  Left(s, x, t) <=> t = s
BY DEF Left, IdSet

LEMMA NamedAppend ==
  ASSUME NEW s \in Lists, NEW e \in Item, NEW i \in Positions(s), NEW n \in AnyName
  PROVE  Named(Append(s, e), i, n) = Append(Named(s, i, n), e)
<1> DEFINE a == Append(s, e) b == Named(s, i, n) lhs == Named(a, i, n) rhs == Append(b, e)
<1> HIDE DEF a, b
<1>1. Len(s) \in Nat /\ i \in Int /\ i + 1 \in 1 .. Len(s)
  BY ListDomain DEF Positions
<1>2. /\ a \in Lists /\ Len(a) = Len(s) + 1
      /\ \A k \in 1 .. Len(s) + 1 : a[k] = IF k = Len(s) + 1 THEN e ELSE s[k]
  BY AppendList DEF a
<1>3. /\ b \in Lists /\ Len(b) = Len(s)
      /\ \A k \in 1 .. Len(s) : b[k] = IF k = i + 1 THEN Titled(s[k], n) ELSE s[k]
  BY <1>1, NamedList DEF b
<1>4. /\ lhs \in Lists /\ Len(lhs) = Len(s) + 1
      /\ \A k \in 1 .. Len(s) + 1 : lhs[k] = IF k = i + 1 THEN Titled(a[k], n) ELSE a[k]
  BY <1>1, <1>2, NamedList
<1>5. /\ rhs \in Lists /\ Len(rhs) = Len(s) + 1
      /\ \A k \in 1 .. Len(s) + 1 : rhs[k] = IF k = Len(s) + 1 THEN e ELSE b[k]
  BY <1>3, AppendList
<1> HIDE DEF lhs, rhs
<1>6. \A k \in 1 .. Len(s) + 1 : lhs[k] = rhs[k]
  BY <1>1, <1>2, <1>3, <1>4, <1>5
<1> QED
  BY <1>4, <1>5, <1>6, ListsEqual DEF lhs, rhs, a, b

LEMMA PaintedAppend ==
  ASSUME NEW s \in Lists, NEW e \in Item, NEW x, NEW c \in Hues, e.id # x
  PROVE  Painted(Append(s, e), x, c) = Append(Painted(s, x, c), e)
<1>1. Len(s) \in Nat
  BY ListDomain
<1> DEFINE a == Append(s, e) b == Painted(s, x, c) lhs == Painted(a, x, c) rhs == Append(b, e)
<1>2. /\ a \in Lists /\ Len(a) = Len(s) + 1
      /\ \A k \in 1 .. Len(s) + 1 : a[k] = IF k = Len(s) + 1 THEN e ELSE s[k]
  BY AppendList
<1>3. /\ b \in Lists /\ Len(b) = Len(s)
      /\ \A k \in 1 .. Len(s) : b[k] = IF s[k].id = x THEN Colored(s[k], c) ELSE s[k]
  BY PaintedList
<1> HIDE DEF a, b
<1>4. /\ lhs \in Lists /\ Len(lhs) = Len(s) + 1
      /\ \A k \in 1 .. Len(s) + 1 : lhs[k] = IF a[k].id = x THEN Colored(a[k], c) ELSE a[k]
  BY <1>2, PaintedList
<1>5. /\ rhs \in Lists /\ Len(rhs) = Len(s) + 1
      /\ \A k \in 1 .. Len(s) + 1 : rhs[k] = IF k = Len(s) + 1 THEN e ELSE b[k]
  BY <1>3, AppendList
<1> HIDE DEF lhs, rhs
<1>6. \A k \in 1 .. Len(s) + 1 : lhs[k] = rhs[k]
  BY <1>1, <1>2, <1>3, <1>4, <1>5
<1> QED
  BY <1>4, <1>5, <1>6, ListsEqual DEF lhs, rhs, a, b

LEMMA LeftAppend ==
  ASSUME NEW s \in Lists, NEW e \in Item, NEW x, e.id # x, NEW t, Left(s, x, t)
  PROVE  Left(Append(s, e), x, Append(t, e))
<1> DEFINE a == Append(s, e)
<1>1. Len(s) \in Nat
  BY ListDomain
<1>2. /\ a \in Lists /\ Len(a) = Len(s) + 1
      /\ \A k \in 1 .. Len(s) + 1 : a[k] = IF k = Len(s) + 1 THEN e ELSE s[k]
      /\ IdSet(a) = IdSet(s) \cup {e.id}
  BY AppendList
<1> HIDE DEF a
<1>3. CASE x \notin IdSet(s) /\ t = s
  BY <1>2, <1>3 DEF Left, a
<1>4. ASSUME NEW i \in 1 .. Len(s), s[i].id = x, t = RemoveAt(s, i)
      PROVE  Left(a, x, Append(t, e))
  <2>1. i \in 1 .. Len(a) /\ a[i] = s[i]
    BY <1>1, <1>2
  <2> DEFINE lhs == RemoveAt(a, i) rhs == Append(t, e)
  <2>2. /\ lhs \in Lists /\ Len(lhs) = Len(s)
        /\ \A k \in 1 .. Len(s) : lhs[k] = IF k < i THEN a[k] ELSE a[k + 1]
    <3>1. /\ lhs \in Lists /\ Len(lhs) = Len(a) - 1
          /\ \A k \in 1 .. Len(a) - 1 : lhs[k] = IF k < i THEN a[k] ELSE a[k + 1]
      BY <1>2, <2>1, RemoveList
    <3>2. Len(a) - 1 = Len(s)
      BY <1>1, <1>2
    <3> HIDE DEF lhs
    <3> QED
      BY <3>1, <3>2
  <2>3. /\ t \in Lists /\ Len(t) = Len(s) - 1
        /\ \A k \in 1 .. Len(s) - 1 : t[k] = IF k < i THEN s[k] ELSE s[k + 1]
    BY <1>4, RemoveList
  <2>4. /\ rhs \in Lists /\ Len(rhs) = Len(s)
        /\ \A k \in 1 .. Len(s) : rhs[k] = IF k = Len(s) THEN e ELSE t[k]
    BY <1>1, <2>3, AppendList
  <2> HIDE DEF lhs, rhs
  <2>5. ASSUME NEW k \in 1 .. Len(s) PROVE lhs[k] = rhs[k]
    <3>1. k \in Nat /\ i \in Nat /\ k \in 1 .. Len(s) + 1 /\ k + 1 \in 1 .. Len(s) + 1
      BY <1>1, <1>2, <2>1
    <3>2. lhs[k] = IF k < i THEN a[k] ELSE a[k + 1]
      BY <2>2
    <3>3. rhs[k] = IF k = Len(s) THEN e ELSE t[k]
      BY <2>4
    <3>4. CASE k < i
      <4>1. k \in 1 .. Len(s) - 1 /\ k # Len(s)
        BY <1>1, <1>2, <3>1, <3>4
      <4>2. t[k] = s[k]
        BY <2>3, <3>4, <4>1
      <4>3. a[k] = s[k]
        BY <1>2
      <4> QED
        BY <3>2, <3>3, <3>4, <4>1, <4>2, <4>3
    <3>5. CASE ~ (k < i) /\ k = Len(s)
      <4>1. a[k + 1] = e
        BY <1>2, <3>1, <3>5
      <4> QED
        BY <3>2, <3>3, <3>5, <4>1
    <3>6. CASE ~ (k < i) /\ k # Len(s)
      <4>1. k \in 1 .. Len(s) - 1 /\ k + 1 \in 1 .. Len(s)
        BY <1>1, <3>1, <3>6
      <4>2. t[k] = s[k + 1]
        BY <2>3, <3>6, <4>1
      <4>3. a[k + 1] = s[k + 1]
        BY <1>2, <4>1
      <4> QED
        BY <3>2, <3>3, <3>6, <4>2, <4>3
    <3> QED
      BY <3>4, <3>5, <3>6
  <2>6. lhs = rhs
    BY <2>2, <2>4, <2>5, ListsEqual
  <2> QED
    BY <1>4, <2>1, <2>6 DEF Left, lhs, rhs
<1> QED
  BY <1>3, <1>4 DEF Left, a

LEMMA ExchangeAppend ==
  ASSUME NEW s \in Lists, NEW e \in Item, NEW i \in Positions(s), NEW j \in Positions(s)
  PROVE  Exchange(Append(s, e), i, j) = Append(Exchange(s, i, j), e)
<1> DEFINE a == Append(s, e) b == Exchange(s, i, j) lhs == Exchange(a, i, j) rhs == Append(b, e)
<1>1. Len(s) \in Nat /\ i \in 0 .. Len(s) - 1 /\ j \in 0 .. Len(s) - 1
  BY ListDomain DEF Positions
<1>2. /\ a \in Lists /\ Len(a) = Len(s) + 1
      /\ \A k \in 1 .. Len(s) + 1 : a[k] = IF k = Len(s) + 1 THEN e ELSE s[k]
  BY AppendList
<1>3. /\ b \in Lists /\ Len(b) = Len(s)
      /\ \A k \in 1 .. Len(s) : b[k] = s[Place(i, j, k)] /\ Place(i, j, k) \in 1 .. Len(s)
  BY ExchangeList
<1> HIDE DEF a, b
<1>4. i \in Positions(a) /\ j \in Positions(a)
  BY <1>1, <1>2 DEF Positions
<1>5. /\ lhs \in Lists /\ Len(lhs) = Len(s) + 1
      /\ \A k \in 1 .. Len(s) + 1 : lhs[k] = a[Place(i, j, k)]
  BY <1>2, <1>4, ExchangeList
<1>6. /\ rhs \in Lists /\ Len(rhs) = Len(s) + 1
      /\ \A k \in 1 .. Len(s) + 1 : rhs[k] = IF k = Len(s) + 1 THEN e ELSE b[k]
  BY <1>3, AppendList
<1> HIDE DEF lhs, rhs
<1>7. ASSUME NEW k \in 1 .. Len(s) + 1 PROVE lhs[k] = rhs[k]
  <2>1. CASE k = Len(s) + 1
    <3>1. Place(i, j, k) = k
      BY <1>1, <2>1 DEF Place
    <3> QED
      BY <1>2, <1>5, <1>6, <2>1, <3>1
  <2>2. CASE k # Len(s) + 1
    <3>1. k \in 1 .. Len(s)
      BY <1>1, <2>2
    <3>2. Place(i, j, k) \in 1 .. Len(s) /\ b[k] = s[Place(i, j, k)]
      BY <1>3, <3>1
    <3>3. a[Place(i, j, k)] = s[Place(i, j, k)]
      BY <1>1, <1>2, <3>2
    <3> QED
      BY <1>5, <1>6, <2>2, <3>2, <3>3
  <2> QED
    BY <2>1, <2>2
<1> QED
  BY <1>5, <1>6, <1>7, ListsEqual DEF lhs, rhs, a, b

LEMMA PaintedExchange ==
  ASSUME NEW s \in Lists, NEW i \in Positions(s), NEW j \in Positions(s), NEW x, NEW c \in Hues
  PROVE  Painted(Exchange(s, i, j), x, c) = Exchange(Painted(s, x, c), i, j)
<1> DEFINE a == Exchange(s, i, j) b == Painted(s, x, c) lhs == Painted(a, x, c) rhs == Exchange(b, i, j)
<1>1. /\ a \in Lists /\ Len(a) = Len(s)
      /\ \A k \in 1 .. Len(s) : a[k] = s[Place(i, j, k)] /\ Place(i, j, k) \in 1 .. Len(s)
  BY ExchangeList
<1>2. /\ b \in Lists /\ Len(b) = Len(s)
      /\ \A k \in 1 .. Len(s) : b[k] = IF s[k].id = x THEN Colored(s[k], c) ELSE s[k]
  BY PaintedList
<1> HIDE DEF a, b
<1>3. i \in Positions(b) /\ j \in Positions(b)
  BY <1>2 DEF Positions
<1>4. /\ lhs \in Lists /\ Len(lhs) = Len(s)
      /\ \A k \in 1 .. Len(s) : lhs[k] = IF a[k].id = x THEN Colored(a[k], c) ELSE a[k]
  BY <1>1, PaintedList
<1>5. /\ rhs \in Lists /\ Len(rhs) = Len(s) /\ \A k \in 1 .. Len(s) : rhs[k] = b[Place(i, j, k)]
  BY <1>2, <1>3, ExchangeList
<1> HIDE DEF lhs, rhs
<1>6. \A k \in 1 .. Len(s) : lhs[k] = rhs[k]
  BY <1>1, <1>2, <1>4, <1>5
<1> QED
  BY <1>4, <1>5, <1>6, ListsEqual DEF lhs, rhs, a, b

LEMMA PaintedInsert ==
  ASSUME NEW s \in Lists, NEW i \in 1 .. Len(s) + 1, NEW e \in Item, NEW x, e.id # x, NEW c \in Hues
  PROVE  Painted(InsertAt(s, i, e), x, c) = InsertAt(Painted(s, x, c), i, e)
<1> DEFINE a == InsertAt(s, i, e) b == Painted(s, x, c) lhs == Painted(a, x, c) rhs == InsertAt(b, i, e)
<1>1. Len(s) \in Nat
  BY ListDomain
<1>2. /\ a \in Lists /\ Len(a) = Len(s) + 1
      /\ \A k \in 1 .. Len(s) + 1 : a[k] = IF k < i THEN s[k] ELSE IF k = i THEN e ELSE s[k - 1]
  BY InsertList
<1>3. /\ b \in Lists /\ Len(b) = Len(s)
      /\ \A k \in 1 .. Len(s) : b[k] = IF s[k].id = x THEN Colored(s[k], c) ELSE s[k]
  BY PaintedList
<1> HIDE DEF a, b
<1>4. /\ lhs \in Lists /\ Len(lhs) = Len(s) + 1
      /\ \A k \in 1 .. Len(s) + 1 : lhs[k] = IF a[k].id = x THEN Colored(a[k], c) ELSE a[k]
  BY <1>2, PaintedList
<1>5. /\ rhs \in Lists /\ Len(rhs) = Len(s) + 1
      /\ \A k \in 1 .. Len(s) + 1 : rhs[k] = IF k < i THEN b[k] ELSE IF k = i THEN e ELSE b[k - 1]
  BY <1>3, InsertList
<1> HIDE DEF lhs, rhs
<1>6. ASSUME NEW k \in 1 .. Len(s) + 1 PROVE lhs[k] = rhs[k]
  <2>1. CASE k < i
    BY <1>1, <1>2, <1>3, <1>4, <1>5, <2>1
  <2>2. CASE k = i
    BY <1>1, <1>2, <1>4, <1>5, <2>2
  <2>3. CASE k > i
    <3>1. k - 1 \in 1 .. Len(s) /\ a[k] = s[k - 1] /\ rhs[k] = b[k - 1]
      BY <1>1, <1>2, <1>5, <2>3
    <3> QED
      BY <1>3, <1>4, <3>1
  <2> QED
    BY <2>1, <2>2, <2>3
<1> QED
  BY <1>4, <1>5, <1>6, ListsEqual DEF lhs, rhs, a, b

LEMMA PaintedRemove ==
  ASSUME NEW s \in Lists, NEW i \in 1 .. Len(s), NEW x, NEW c \in Hues
  PROVE  Painted(RemoveAt(s, i), x, c) = RemoveAt(Painted(s, x, c), i)
<1> DEFINE a == RemoveAt(s, i) b == Painted(s, x, c) lhs == Painted(a, x, c) rhs == RemoveAt(b, i)
<1>1. Len(s) \in Nat
  BY ListDomain
<1>2. /\ a \in Lists /\ Len(a) = Len(s) - 1
      /\ \A k \in 1 .. Len(s) - 1 : a[k] = IF k < i THEN s[k] ELSE s[k + 1]
  BY RemoveList
<1>3. /\ b \in Lists /\ Len(b) = Len(s)
      /\ \A k \in 1 .. Len(s) : b[k] = IF s[k].id = x THEN Colored(s[k], c) ELSE s[k]
  BY PaintedList
<1> HIDE DEF a, b
<1>4. /\ lhs \in Lists /\ Len(lhs) = Len(s) - 1
      /\ \A k \in 1 .. Len(s) - 1 : lhs[k] = IF a[k].id = x THEN Colored(a[k], c) ELSE a[k]
  BY <1>2, PaintedList
<1>5. /\ rhs \in Lists /\ Len(rhs) = Len(s) - 1
      /\ \A k \in 1 .. Len(s) - 1 : rhs[k] = IF k < i THEN b[k] ELSE b[k + 1]
  BY <1>3, RemoveList
<1> HIDE DEF lhs, rhs
<1>6. ASSUME NEW k \in 1 .. Len(s) - 1 PROVE lhs[k] = rhs[k]
  <2>1. k \in 1 .. Len(s) /\ k + 1 \in 1 .. Len(s)
    BY <1>1
  <2>2. CASE k < i
    <3>1. a[k] = s[k] /\ rhs[k] = b[k]
      BY <1>2, <1>5, <2>2
    <3> QED
      BY <1>3, <1>4, <2>1, <3>1
  <2>3. CASE ~ (k < i)
    <3>1. a[k] = s[k + 1] /\ rhs[k] = b[k + 1]
      BY <1>2, <1>5, <2>3
    <3> QED
      BY <1>3, <1>4, <2>1, <3>1
  <2> QED
    BY <2>2, <2>3
<1> QED
  BY <1>4, <1>5, <1>6, ListsEqual DEF lhs, rhs, a, b

(* The last colour stays; colours of two workspaces, and a colour and a name, *)
(* do not meet.                                                              *)
LEMMA PaintedPainted ==
  ASSUME NEW s \in Lists, NEW x, NEW y, NEW c \in Hues, NEW d \in Hues
  PROVE  Painted(Painted(s, x, c), y, d) =
           IF x = y THEN Painted(s, y, d) ELSE Painted(Painted(s, y, d), x, c)
<1> DEFINE a == Painted(s, x, c) b == Painted(s, y, d) f == Painted(a, y, d) g == Painted(b, x, c)
<1>1. Len(s) \in Nat /\ \A k \in 1 .. Len(s) : s[k] \in Item
  BY ListDomain
<1>2. /\ a \in Lists /\ Len(a) = Len(s)
      /\ \A k \in 1 .. Len(s) : a[k] = IF s[k].id = x THEN Colored(s[k], c) ELSE s[k]
  BY PaintedList
<1>3. /\ b \in Lists /\ Len(b) = Len(s)
      /\ \A k \in 1 .. Len(s) : b[k] = IF s[k].id = y THEN Colored(s[k], d) ELSE s[k]
  BY PaintedList
<1> HIDE DEF a, b
<1>4. /\ f \in Lists /\ Len(f) = Len(s)
      /\ \A k \in 1 .. Len(s) : f[k] = IF a[k].id = y THEN Colored(a[k], d) ELSE a[k]
  BY <1>2, PaintedList
<1>5. /\ g \in Lists /\ Len(g) = Len(s)
      /\ \A k \in 1 .. Len(s) : g[k] = IF b[k].id = x THEN Colored(b[k], c) ELSE b[k]
  BY <1>3, PaintedList
<1> HIDE DEF f, g
<1>6. \A r \in Item : Colored(r, c).id = r.id /\ Colored(r, d).id = r.id
                      /\ Colored(Colored(r, c), d) = Colored(r, d)
  BY DEF Item, Colored, Titled
<1>7. CASE x = y
  <2>1. \A k \in 1 .. Len(s) : f[k] = b[k]
    BY <1>1, <1>2, <1>3, <1>4, <1>6, <1>7
  <2> QED
    BY <1>3, <1>4, <1>7, <2>1, ListsEqual DEF f, a, b
<1>8. CASE x # y
  <2>1. \A k \in 1 .. Len(s) : f[k] = g[k]
    BY <1>1, <1>2, <1>3, <1>4, <1>5, <1>6, <1>8
  <2> QED
    BY <1>4, <1>5, <1>8, <2>1, ListsEqual DEF f, g, a, b
<1> QED
  BY <1>7, <1>8

LEMMA NamedNamed ==
  ASSUME NEW s \in Lists, NEW i \in Int, NEW j \in Int, NEW n \in AnyName, NEW o \in AnyName
  PROVE  Named(Named(s, i, n), j, o) = IF i = j THEN Named(s, j, o) ELSE Named(Named(s, j, o), i, n)
<1> DEFINE a == Named(s, i, n) b == Named(s, j, o) f == Named(a, j, o) g == Named(b, i, n)
<1>1. Len(s) \in Nat /\ \A k \in 1 .. Len(s) : s[k] \in Item
  BY ListDomain
<1>2. /\ a \in Lists /\ Len(a) = Len(s)
      /\ \A k \in 1 .. Len(s) : a[k] = IF k = i + 1 THEN Titled(s[k], n) ELSE s[k]
  BY NamedList
<1>3. /\ b \in Lists /\ Len(b) = Len(s)
      /\ \A k \in 1 .. Len(s) : b[k] = IF k = j + 1 THEN Titled(s[k], o) ELSE s[k]
  BY NamedList
<1> HIDE DEF a, b
<1>4. /\ f \in Lists /\ Len(f) = Len(s)
      /\ \A k \in 1 .. Len(s) : f[k] = IF k = j + 1 THEN Titled(a[k], o) ELSE a[k]
  BY <1>2, NamedList
<1>5. /\ g \in Lists /\ Len(g) = Len(s)
      /\ \A k \in 1 .. Len(s) : g[k] = IF k = i + 1 THEN Titled(b[k], n) ELSE b[k]
  BY <1>3, NamedList
<1> HIDE DEF f, g
<1>6. \A r \in Item : Titled(Titled(r, n), o) = Titled(r, o)
  BY DEF Item, Colored, Titled
<1>7. CASE i = j
  <2>1. \A k \in 1 .. Len(s) : f[k] = b[k]
    BY <1>1, <1>2, <1>3, <1>4, <1>6, <1>7
  <2> QED
    BY <1>3, <1>4, <1>7, <2>1, ListsEqual DEF f, a, b
<1>8. CASE i # j
  <2>1. \A k \in 1 .. Len(s) : f[k] = g[k]
    BY <1>1, <1>2, <1>3, <1>4, <1>5, <1>8
  <2> QED
    BY <1>4, <1>5, <1>8, <2>1, ListsEqual DEF f, g, a, b
<1> QED
  BY <1>7, <1>8

LEMMA PaintedNamed ==
  ASSUME NEW s \in Lists, NEW i \in Int, NEW n \in AnyName, NEW x, NEW c \in Hues
  PROVE  Painted(Named(s, i, n), x, c) = Named(Painted(s, x, c), i, n)
<1> DEFINE a == Named(s, i, n) b == Painted(s, x, c) f == Painted(a, x, c) g == Named(b, i, n)
<1>1. Len(s) \in Nat /\ \A k \in 1 .. Len(s) : s[k] \in Item
  BY ListDomain
<1>2. /\ a \in Lists /\ Len(a) = Len(s)
      /\ \A k \in 1 .. Len(s) : a[k] = IF k = i + 1 THEN Titled(s[k], n) ELSE s[k]
  BY NamedList
<1>3. /\ b \in Lists /\ Len(b) = Len(s)
      /\ \A k \in 1 .. Len(s) : b[k] = IF s[k].id = x THEN Colored(s[k], c) ELSE s[k]
  BY PaintedList
<1> HIDE DEF a, b
<1>4. /\ f \in Lists /\ Len(f) = Len(s)
      /\ \A k \in 1 .. Len(s) : f[k] = IF a[k].id = x THEN Colored(a[k], c) ELSE a[k]
  BY <1>2, PaintedList
<1>5. /\ g \in Lists /\ Len(g) = Len(s)
      /\ \A k \in 1 .. Len(s) : g[k] = IF k = i + 1 THEN Titled(b[k], n) ELSE b[k]
  BY <1>3, NamedList
<1> HIDE DEF f, g
<1>6. \A r \in Item : Titled(r, n).id = r.id
                      /\ Colored(Titled(r, n), c) = Titled(Colored(r, c), n)
  BY DEF Item, Colored, Titled
<1>7. \A k \in 1 .. Len(s) : f[k] = g[k]
  BY <1>1, <1>2, <1>3, <1>4, <1>5, <1>6
<1> QED
  BY <1>4, <1>5, <1>7, ListsEqual DEF f, g, a, b

-----------------------------------------------------------------------------
(* The replay: what the events on their way make of the window's list and of *)
(* the moves whose event it waits for                                        *)

Event ==
  [kind : {"renamed"}, at : Int, name : AnyName]
    \cup [kind : {"color"}, id : Ids, color : Hues]
    \cup [kind : {"reordered"}, from : Int, to : Int]
    \cup [kind : {"deleted"}, id : Ids]
News == Seq(Event)
Moves == Seq(Int \X Int)

Own(e, m) == m # <<>> /\ Head(m) \in {<<e.from, e.to>>, <<e.to, e.from>>}

Leads(e, s, m, t, o) ==
  \/ e.kind = "renamed" /\ t = Named(s, e.at, e.name) /\ o = m
  \/ e.kind = "color" /\ t = Painted(s, e.id, e.color) /\ o = m
  \/ e.kind = "deleted" /\ Left(s, e.id, t) /\ o = m
  \/ e.kind = "reordered" /\ Own(e, m) /\ t = s /\ o = Tail(m)
  \/ e.kind = "reordered" /\ ~ Own(e, m) /\ t = Exchange(s, e.from, e.to) /\ o = m

Fits(e, s) ==
  /\ e.kind = "renamed" => e.at \in Positions(s)
  /\ e.kind = "reordered" => e.from \in Positions(s) /\ e.to \in Positions(s)

(* L and M are the list and the moves after each event, from the window's    *)
(* to the daemon's; on the way no workspace comes, and none is there twice.  *)
Frames(n, L, M) ==
  /\ L \in [0 .. n -> Lists] /\ M \in [0 .. n -> Moves]
  /\ \A k \in 0 .. n : Unlike(L[k])
  /\ \A j, k \in 0 .. n : j <= k => IdSet(L[k]) \subseteq IdSet(L[j])
Steps(nw, L, M) ==
  \A k \in 1 .. Len(nw) : Leads(nw[k], L[k - 1], M[k - 1], L[k], M[k]) /\ Fits(nw[k], L[k - 1])
Replay(nw, w, p, d, q, L, M) ==
  /\ Frames(Len(nw), L, M) /\ Steps(nw, L, M)
  /\ L[0] = w /\ M[0] = p /\ L[Len(nw)] = d /\ M[Len(nw)] = q

(* A workspace an event colours is the daemon's or deleted by a later one.   *)
GoneLater(nw, k, x) == \E m \in k + 1 .. Len(nw) : nw[m].kind = "deleted" /\ nw[m].id = x
Known(nw, d) ==
  \A k \in 1 .. Len(nw) : nw[k].kind = "color" => nw[k].id \in IdSet(d) \/ GoneLater(nw, k, nw[k].id)

LEMMA EventFields ==
  ASSUME NEW e \in Event
  PROVE  /\ e.kind \in {"renamed", "color", "reordered", "deleted"}
         /\ e.kind = "renamed" => e.at \in Int /\ e.name \in AnyName
         /\ e.kind = "color" => e.id \in Ids /\ e.color \in Hues
         /\ e.kind = "reordered" => e.from \in Int /\ e.to \in Int
         /\ e.kind = "deleted" => e.id \in Ids
BY DEF Event

LEMMA NewsDomain ==
  ASSUME NEW nw \in News
  PROVE  /\ Len(nw) \in Nat /\ DOMAIN nw = 1 .. Len(nw)
         /\ \A k \in 1 .. Len(nw) : nw[k] \in Event
         /\ ToSet(nw) = {nw[k] : k \in 1 .. Len(nw)}
<1>1. Len(nw) \in Nat /\ DOMAIN nw = 1 .. Len(nw) /\ \A k \in 1 .. Len(nw) : nw[k] \in Event
  BY DEF News
<1> QED
  BY <1>1, Zenon DEF ToSet

LEMMA FramesAt ==
  ASSUME NEW n \in Nat, NEW L, NEW M, Frames(n, L, M)
  PROVE  /\ \A k \in 0 .. n : L[k] \in Lists /\ M[k] \in Moves /\ Unlike(L[k])
                              /\ IdSet(L[k]) \subseteq IdSet(L[0]) /\ IdSet(L[n]) \subseteq IdSet(L[k])
BY DEF Frames

LEMMA ReplayTyped ==
  ASSUME NEW nw \in News, NEW w, NEW p, NEW d, NEW q, NEW L, NEW M, Replay(nw, w, p, d, q, L, M)
  PROVE  /\ w \in Lists /\ d \in Lists /\ p \in Moves /\ q \in Moves
         /\ Unlike(w) /\ Unlike(d) /\ IdSet(d) \subseteq IdSet(w)
<1>1. Len(nw) \in Nat
  BY NewsDomain
<1>2. 0 \in 0 .. Len(nw) /\ Len(nw) \in 0 .. Len(nw)
  BY <1>1
<1> QED
  BY <1>1, <1>2, FramesAt DEF Replay

(* The first event is handled.                                               *)
LEMMA ReplayShift ==
  ASSUME NEW nw \in News, nw # <<>>, NEW w, NEW p, NEW d, NEW q, NEW L, NEW M,
         Replay(nw, w, p, d, q, L, M)
  PROVE  /\ Leads(Head(nw), w, p, L[1], M[1]) /\ Fits(Head(nw), w) /\ Head(nw) \in Event
         /\ L[1] \in Lists /\ M[1] \in Moves
         /\ \E L2, M2 : Replay(Tail(nw), L[1], M[1], d, q, L2, M2)
<1>1. /\ Len(nw) \in Nat \ {0} /\ Head(nw) = nw[1] /\ Tail(nw) \in News /\ Len(Tail(nw)) = Len(nw) - 1
      /\ \A k \in 1 .. Len(nw) - 1 : Tail(nw)[k] = nw[k + 1]
  BY EmptySeq, HeadTailProperties DEF News
<1> DEFINE n == Len(nw) - 1
           A == [k \in 0 .. n |-> L[k + 1]]
           B == [k \in 0 .. n |-> M[k + 1]]
<1>2. /\ L \in [0 .. Len(nw) -> Lists] /\ M \in [0 .. Len(nw) -> Moves]
      /\ \A k \in 0 .. Len(nw) : Unlike(L[k])
      /\ \A j, k \in 0 .. Len(nw) : j <= k => IdSet(L[k]) \subseteq IdSet(L[j])
  BY DEF Replay, Frames
<1>3. \A k \in 0 .. n : A[k] = L[k + 1] /\ B[k] = M[k + 1] /\ k + 1 \in 0 .. Len(nw)
  BY <1>1
<1>4. A \in [0 .. n -> Lists] /\ B \in [0 .. n -> Moves]
  BY <1>1, <1>2
<1> HIDE DEF A, B
<1>5. Frames(n, A, B)
  <2>1. \A k \in 0 .. n : Unlike(A[k])
    BY <1>2, <1>3
  <2>2. \A j, k \in 0 .. n : j <= k => IdSet(A[k]) \subseteq IdSet(A[j])
    BY <1>1, <1>2, <1>3
  <2> QED
    BY <1>4, <2>1, <2>2 DEF Frames
<1>6. \A k \in 1 .. Len(nw) : Leads(nw[k], L[k - 1], M[k - 1], L[k], M[k]) /\ Fits(nw[k], L[k - 1])
  BY DEF Replay, Steps
<1>7. ASSUME NEW k \in 1 .. n
      PROVE  Leads(Tail(nw)[k], A[k - 1], B[k - 1], A[k], B[k]) /\ Fits(Tail(nw)[k], A[k - 1])
  <2>1. k + 1 \in 1 .. Len(nw) /\ (k + 1) - 1 = k /\ k - 1 \in 0 .. n /\ (k - 1) + 1 = k
        /\ k \in 0 .. n /\ k \in 1 .. Len(nw) - 1
    BY <1>1
  <2>2. Tail(nw)[k] = nw[k + 1] /\ A[k - 1] = L[k] /\ B[k - 1] = M[k] /\ A[k] = L[k + 1] /\ B[k] = M[k + 1]
    BY <1>1, <1>3, <2>1
  <2>3. Leads(nw[k + 1], L[k], M[k], L[k + 1], M[k + 1]) /\ Fits(nw[k + 1], L[k])
    <3>1. /\ Leads(nw[k + 1], L[(k + 1) - 1], M[(k + 1) - 1], L[k + 1], M[k + 1])
          /\ Fits(nw[k + 1], L[(k + 1) - 1])
      BY <1>6, <2>1
    <3> QED
      BY <2>1, <3>1
  <2> QED
    BY <2>2, <2>3
<1>8. Steps(Tail(nw), A, B)
  BY <1>1, <1>7 DEF Steps
<1>9. A[0] = L[1] /\ B[0] = M[1] /\ A[n] = d /\ B[n] = q
  <2>1. 0 \in 0 .. n /\ n \in 0 .. n /\ 0 + 1 = 1 /\ n + 1 = Len(nw)
    BY <1>1
  <2>2. L[Len(nw)] = d /\ M[Len(nw)] = q
    BY DEF Replay
  <2> QED
    BY <1>3, <2>1, <2>2
<1>10. Replay(Tail(nw), L[1], M[1], d, q, A, B)
  BY <1>1, <1>5, <1>8, <1>9 DEF Replay
<1>11. Leads(nw[1], w, p, L[1], M[1]) /\ Fits(nw[1], w)
  <2>1. 1 \in 1 .. Len(nw) /\ 1 - 1 = 0 /\ L[0] = w /\ M[0] = p
    BY <1>1 DEF Replay
  <2>2. Leads(nw[1], L[1 - 1], M[1 - 1], L[1], M[1]) /\ Fits(nw[1], L[1 - 1])
    BY <1>6, <2>1
  <2> QED
    BY <2>1, <2>2
<1>12. L[1] \in Lists /\ M[1] \in Moves /\ nw[1] \in Event
  BY <1>1, <1>2, NewsDomain
<1> QED
  BY <1>1, <1>10, <1>11, <1>12

(* The daemon sends one more.                                                *)
LEMMA ReplayExtend ==
  ASSUME NEW nw \in News, NEW w, NEW p, NEW d, NEW q, NEW L, NEW M, Replay(nw, w, p, d, q, L, M),
         NEW e \in Event, NEW c \in Lists, NEW o \in Moves,
         Leads(e, d, q, c, o), Fits(e, d), Unlike(c), IdSet(c) \subseteq IdSet(d)
  PROVE  \E L2, M2 : Replay(Append(nw, e), w, p, c, o, L2, M2)
<1> DEFINE n == Len(nw) nx == Append(nw, e)
           A == [k \in 0 .. n + 1 |-> IF k = n + 1 THEN c ELSE L[k]]
           B == [k \in 0 .. n + 1 |-> IF k = n + 1 THEN o ELSE M[k]]
<1>1. /\ n \in Nat /\ nx \in News /\ Len(nx) = n + 1 /\ nx[n + 1] = e
      /\ \A k \in 1 .. n : nx[k] = nw[k]
  BY AppendProperties DEF News
<1>2. /\ L \in [0 .. n -> Lists] /\ M \in [0 .. n -> Moves] /\ L[0] = w /\ M[0] = p /\ L[n] = d /\ M[n] = q
      /\ \A k \in 0 .. n : Unlike(L[k])
      /\ \A j, k \in 0 .. n : j <= k => IdSet(L[k]) \subseteq IdSet(L[j])
      /\ \A k \in 1 .. n : Leads(nw[k], L[k - 1], M[k - 1], L[k], M[k]) /\ Fits(nw[k], L[k - 1])
  BY DEF Replay, Frames, Steps
<1>3. A[n + 1] = c /\ B[n + 1] = o /\ \A k \in 0 .. n : A[k] = L[k] /\ B[k] = M[k]
  BY <1>1
<1>4. A \in [0 .. n + 1 -> Lists] /\ B \in [0 .. n + 1 -> Moves]
  BY <1>1, <1>2
<1> HIDE DEF A, B, n, nx
<1>5. Frames(n + 1, A, B)
  <2>1. \A k \in 0 .. n + 1 : Unlike(A[k])
    BY <1>1, <1>2, <1>3
  <2>2. ASSUME NEW j \in 0 .. n + 1, NEW k \in 0 .. n + 1, j <= k PROVE IdSet(A[k]) \subseteq IdSet(A[j])
    <3>1. CASE k = n + 1 /\ j = n + 1
      BY <3>1
    <3>2. CASE k = n + 1 /\ j # n + 1
      <4>1. j \in 0 .. n /\ j <= n /\ n \in 0 .. n
        BY <1>1, <3>2
      <4>2. IdSet(L[n]) \subseteq IdSet(L[j]) /\ A[j] = L[j] /\ A[k] = c /\ L[n] = d
        BY <1>2, <1>3, <3>2, <4>1
      <4> QED
        BY <4>2
    <3>3. CASE k # n + 1
      <4>1. j \in 0 .. n /\ k \in 0 .. n
        BY <1>1, <2>2, <3>3
      <4> QED
        BY <1>2, <1>3, <2>2, <4>1
    <3> QED
      BY <3>1, <3>2, <3>3
  <2> QED
    BY <1>4, <2>1, <2>2 DEF Frames
<1>6. ASSUME NEW k \in 1 .. n + 1
      PROVE  Leads(nx[k], A[k - 1], B[k - 1], A[k], B[k]) /\ Fits(nx[k], A[k - 1])
  <2>1. CASE k = n + 1
    <3>1. k - 1 = n /\ n \in 0 .. n
      BY <1>1, <2>1
    <3>2. A[k - 1] = d /\ B[k - 1] = q /\ A[k] = c /\ B[k] = o /\ nx[k] = e
      BY <1>1, <1>2, <1>3, <2>1, <3>1
    <3> QED
      BY <3>2
  <2>2. CASE k # n + 1
    <3>1. k \in 1 .. n /\ k \in 0 .. n /\ k - 1 \in 0 .. n
      BY <1>1, <2>2
    <3>2. A[k - 1] = L[k - 1] /\ B[k - 1] = M[k - 1] /\ A[k] = L[k] /\ B[k] = M[k] /\ nx[k] = nw[k]
      BY <1>1, <1>3, <3>1
    <3> QED
      BY <1>2, <3>1, <3>2
  <2> QED
    BY <2>1, <2>2
<1>7. A[0] = w /\ B[0] = p
  BY <1>1, <1>2, <1>3
<1>8. Replay(nx, w, p, c, o, A, B)
  BY <1>1, <1>3, <1>5, <1>6, <1>7 DEF Replay, Steps
<1> QED
  BY <1>8 DEF nx

-----------------------------------------------------------------------------
(* No event on its way shifts an index: every reordering is the answer to a  *)
(* move of the window's own, and what was deleted is gone from its list.      *)

Shifts(nw) == {k \in 1 .. Len(nw) : nw[k].kind = "reordered"}
Calm(nw, w, p) ==
  /\ Cardinality(Shifts(nw)) <= Len(p)
  /\ \A k \in 1 .. Len(nw) : nw[k].kind = "deleted" => nw[k].id \notin IdSet(w)

(* What is left of the ways an event leads on.                               *)
CalmStep(e, s, m, t, o) ==
  \/ e.kind = "renamed" /\ t = Named(s, e.at, e.name) /\ o = m
  \/ e.kind = "color" /\ t = Painted(s, e.id, e.color) /\ o = m
  \/ e.kind = "deleted" /\ e.id \notin IdSet(s) /\ t = s /\ o = m
  \/ e.kind = "reordered" /\ Own(e, m) /\ t = s /\ o = Tail(m)

(* As many moves are awaited as there are reorderings on their way, and every *)
(* one of them ends a wait at most: so each is an answer.                     *)
LEMMA OwnMovesOnly ==
  ASSUME NEW nw \in News, NEW w, NEW p, NEW d, NEW L, NEW M, Replay(nw, w, p, d, <<>>, L, M),
         Calm(nw, w, p)
  PROVE  \A k \in 1 .. Len(nw) : nw[k].kind = "reordered" => Own(nw[k], M[k - 1])
<1> DEFINE n == Len(nw)
           C(k) == {m \in 1 .. k : nw[m].kind = "reordered" /\ Own(nw[m], M[m - 1])}
           T == {k \in 0 .. n : IsFiniteSet(C(k)) /\ Cardinality(C(k)) = Len(M[0]) - Len(M[k])}
<1>1. /\ n \in Nat /\ M[0] = p /\ M[n] = <<>> /\ \A k \in 0 .. n : M[k] \in Moves
      /\ \A k \in 1 .. n : Leads(nw[k], L[k - 1], M[k - 1], L[k], M[k])
  BY NewsDomain DEF Replay, Frames, Steps
<1>2. \A k \in 0 .. n : Len(M[k]) \in Nat
  BY <1>1 DEF Moves
<1>3. 0 \in T
  <2>1. C(0) = {}
    OBVIOUS
  <2> HIDE DEF C
  <2>2. IsFiniteSet(C(0)) /\ Cardinality(C(0)) = 0
    BY <2>1, FS_EmptySet
  <2> QED
    BY <1>1, <1>2, <2>2
<1>4. ASSUME NEW k \in 1 .. n, k - 1 \in T PROVE k \in T
  <2>1. k - 1 \in 0 .. n /\ k \in 0 .. n
    BY <1>1
  <2>2. CASE nw[k].kind = "reordered" /\ Own(nw[k], M[k - 1])
    <3>1. C(k) = C(k - 1) \cup {k} /\ k \notin C(k - 1)
      BY <1>1, <2>2
    <3>2. M[k - 1] # <<>> /\ M[k] = Tail(M[k - 1])
      BY <1>1, <2>2 DEF Leads, Own
    <3>3. Len(M[k]) = Len(M[k - 1]) - 1
      BY <1>1, <2>1, <3>2, HeadTailProperties DEF Moves
    <3> HIDE DEF C
    <3>4. IsFiniteSet(C(k)) /\ Cardinality(C(k)) = Cardinality(C(k - 1)) + 1
      BY <1>4, <3>1, FS_AddElement
    <3>5. Len(M[0]) \in Nat /\ Len(M[k - 1]) \in Nat
      BY <1>1, <1>2, <2>1
    <3>6. Cardinality(C(k - 1)) = Len(M[0]) - Len(M[k - 1])
      BY <1>4
    <3>7. Cardinality(C(k)) = Len(M[0]) - Len(M[k])
      <4>1. Cardinality(C(k)) = (Len(M[0]) - Len(M[k - 1])) + 1
        BY <3>4, <3>6, Zenon
      <4>2. Len(M[0]) - (Len(M[k - 1]) - 1) = (Len(M[0]) - Len(M[k - 1])) + 1
        BY <3>5
      <4> QED
        BY <3>3, <4>1, <4>2, Zenon
    <3> QED
      BY <2>1, <3>4, <3>7
  <2>3. CASE ~ (nw[k].kind = "reordered" /\ Own(nw[k], M[k - 1]))
    <3>1. C(k) = C(k - 1)
      BY <1>1, <2>3
    <3>2. M[k] = M[k - 1]
      BY <1>1, <2>3 DEF Leads
    <3> HIDE DEF C
    <3> QED
      BY <1>4, <2>1, <3>1, <3>2
  <2> QED
    BY <2>2, <2>3
<1> HIDE DEF T
<1>5. n \in T
  <2>1. 0 .. n \subseteq T
    BY <1>1, <1>3, <1>4, InductionUpTo
  <2> QED
    BY <1>1, <2>1
<1>6. IsFiniteSet(C(n)) /\ Cardinality(C(n)) = Len(p)
  BY <1>1, <1>2, <1>5 DEF T
<1>7. C(n) \subseteq Shifts(nw) /\ IsFiniteSet(Shifts(nw))
  <2>1. IsFiniteSet(1 .. n)
    BY <1>1, FS_Interval
  <2>2. Shifts(nw) \in SUBSET (1 .. n) /\ C(n) \subseteq Shifts(nw)
    BY DEF Shifts
  <2> HIDE DEF C, n
  <2> QED
    BY <2>1, <2>2, FS_Subset
<1> HIDE DEF C
<1>8. Shifts(nw) = C(n)
  <2>1. Cardinality(C(n)) <= Cardinality(Shifts(nw)) /\ Cardinality(Shifts(nw)) <= Len(p)
    BY <1>7, FS_Subset DEF Calm
  <2>2. Cardinality(Shifts(nw)) \in Nat
    BY <1>7, FS_CardinalityType
  <2>3. Len(p) \in Nat
    BY <1>1, <1>2
  <2>4. Cardinality(Shifts(nw)) = Cardinality(C(n))
    BY <1>6, <2>1, <2>2, <2>3
  <2> QED
    BY <1>7, <2>4, FS_Subset
<1> QED
  BY <1>8 DEF C, Shifts

LEMMA CalmReplay ==
  ASSUME NEW nw \in News, NEW w, NEW p, NEW d, NEW L, NEW M, Replay(nw, w, p, d, <<>>, L, M),
         Calm(nw, w, p)
  PROVE  /\ \A k \in 1 .. Len(nw) : CalmStep(nw[k], L[k - 1], M[k - 1], L[k], M[k])
         /\ \A k \in 0 .. Len(nw) : SameIds(w, L[k])
<1> DEFINE n == Len(nw)
           T == {k \in 0 .. n : SameIds(w, L[k])}
<1>1. /\ n \in Nat /\ L[0] = w /\ w \in Lists /\ \A k \in 1 .. n : nw[k] \in Event
      /\ \A k \in 0 .. n : L[k] \in Lists /\ IdSet(L[k]) \subseteq IdSet(L[0])
      /\ \A k \in 1 .. n : Leads(nw[k], L[k - 1], M[k - 1], L[k], M[k])
  BY NewsDomain, ReplayTyped, FramesAt DEF Replay, Steps
<1>2. \A k \in 1 .. n : nw[k].kind = "reordered" => Own(nw[k], M[k - 1])
  BY OwnMovesOnly
<1>3. \A k \in 1 .. n : nw[k].kind = "deleted" => nw[k].id \notin IdSet(L[k - 1])
  <2>1. \A k \in 1 .. n : k - 1 \in 0 .. n
    BY <1>1
  <2> QED
    BY <1>1, <2>1 DEF Calm
<1>4. ASSUME NEW k \in 1 .. n PROVE CalmStep(nw[k], L[k - 1], M[k - 1], L[k], M[k])
  BY <1>1, <1>2, <1>3, LeaveNothing DEF Leads, CalmStep
<1>5. 0 \in T
  BY <1>1 DEF SameIds
<1>6. ASSUME NEW k \in 1 .. n, k - 1 \in T PROVE k \in T
  <2>1. k \in 0 .. n /\ k - 1 \in 0 .. n /\ L[k - 1] \in Lists /\ nw[k] \in Event
    BY <1>1
  <2>2. SameIds(L[k - 1], L[k])
    <3>1. CASE nw[k].kind = "renamed"
      BY <1>4, <2>1, <3>1, EventFields, NamedList DEF CalmStep
    <3>2. CASE nw[k].kind = "color"
      BY <1>4, <2>1, <3>2, EventFields, PaintedList DEF CalmStep
    <3>3. CASE nw[k].kind \in {"deleted", "reordered"}
      BY <1>4, <3>3 DEF CalmStep, SameIds
    <3> QED
      BY <2>1, <3>1, <3>2, <3>3, EventFields
  <2> QED
    BY <1>6, <2>1, <2>2 DEF SameIds
<1> HIDE DEF T
<1>7. 0 .. n \subseteq T
  BY <1>1, <1>5, <1>6, InductionUpTo
<1> QED
  BY <1>4, <1>7 DEF T

(* A replay with other lists and moves, frame by frame.                      *)
LEMMA OtherReplay ==
  ASSUME NEW nw \in News, NEW A, NEW B, NEW n, n = Len(nw),
         A \in [0 .. n -> Lists], B \in [0 .. n -> Moves],
         \A k \in 0 .. n : Unlike(A[k]),
         \A j, k \in 0 .. n : j <= k => IdSet(A[k]) \subseteq IdSet(A[j]),
         \A k \in 1 .. n : Leads(nw[k], A[k - 1], B[k - 1], A[k], B[k]) /\ Fits(nw[k], A[k - 1])
  PROVE  Replay(nw, A[0], B[0], A[n], B[n], A, B)
BY DEF Replay, Frames, Steps

(* The window gives a workspace a colour.  Where an event brings another the  *)
(* rest of the replay is as before.                                          *)
LEMMA PaintAll ==
  ASSUME NEW nw \in News, NEW w, NEW p, NEW d, NEW L, NEW M, Replay(nw, w, p, d, <<>>, L, M),
         Calm(nw, w, p), NEW x, NEW c \in Hues
  PROVE  \E t, L2, M2 : t \in {d, Painted(d, x, c)} /\ Replay(nw, Painted(w, x, c), p, t, <<>>, L2, M2)
<1> DEFINE n == Len(nw)
           Passed(k) == \E m \in 1 .. k : nw[m].kind = "color" /\ nw[m].id = x
           A == [k \in 0 .. n |-> IF Passed(k) THEN L[k] ELSE Painted(L[k], x, c)]
<1>1. /\ n \in Nat /\ L[0] = w /\ M[0] = p /\ L[n] = d /\ M[n] = <<>>
      /\ \A k \in 1 .. n : nw[k] \in Event
      /\ M \in [0 .. n -> Moves]
      /\ \A k \in 0 .. n : L[k] \in Lists /\ Unlike(L[k])
      /\ \A j, k \in 0 .. n : j <= k => IdSet(L[k]) \subseteq IdSet(L[j])
      /\ \A k \in 1 .. n : Fits(nw[k], L[k - 1])
  BY NewsDomain DEF Replay, Frames, Steps
<1>2. \A k \in 1 .. n : CalmStep(nw[k], L[k - 1], M[k - 1], L[k], M[k])
  BY CalmReplay
<1>3. \A k \in 0 .. n : A[k] = IF Passed(k) THEN L[k] ELSE Painted(L[k], x, c)
  OBVIOUS
<1>4. A = [k \in 0 .. n |-> A[k]]
  OBVIOUS
<1>5. ~ Passed(0) /\ \A k \in 1 .. n : Passed(k) <=> Passed(k - 1) \/ (nw[k].kind = "color" /\ nw[k].id = x)
  <2>1. \A k \in 1 .. n : \A m \in 1 .. k : m \in 1 .. k - 1 \/ m = k
    BY <1>1
  <2>2. \A k \in 1 .. n : k \in 1 .. k /\ \A m \in 1 .. k - 1 : m \in 1 .. k
    BY <1>1
  <2> QED
    BY <2>1, <2>2
<1> HIDE DEF A, Passed
<1>6. \A k \in 0 .. n : A[k] \in Lists /\ SameIds(L[k], A[k])
  <2>1. ASSUME NEW k \in 0 .. n PROVE A[k] \in Lists /\ SameIds(L[k], A[k])
    <3>1. Painted(L[k], x, c) \in Lists /\ SameIds(L[k], Painted(L[k], x, c))
      BY <1>1, PaintedList
    <3> QED
      BY <1>1, <1>3, <3>1 DEF SameIds
  <2> QED
    BY <2>1
<1>7. \A k \in 0 .. n : IdSet(A[k]) = IdSet(L[k]) /\ Unlike(A[k])
  BY <1>1, <1>6, SameIdsSame
<1>8. A \in [0 .. n -> Lists]
  BY <1>4, <1>6
<1>9. ASSUME NEW k \in 1 .. n
      PROVE  Leads(nw[k], A[k - 1], M[k - 1], A[k], M[k]) /\ Fits(nw[k], A[k - 1])
  <2>1. k \in 0 .. n /\ k - 1 \in 0 .. n
    BY <1>1
  <2>2. Len(A[k - 1]) = Len(L[k - 1])
    BY <1>6, <2>1 DEF SameIds
  <2>3. Fits(nw[k], A[k - 1])
    BY <1>1, <2>2 DEF Fits, Positions
  <2> DEFINE s == L[k - 1] e == nw[k]
  <2>4. s \in Lists /\ e \in Event /\ CalmStep(e, s, M[k - 1], L[k], M[k])
    BY <1>1, <1>2, <2>1
  <2>5. Leads(e, A[k - 1], M[k - 1], A[k], M[k])
    <3>1. CASE Passed(k - 1)
      <4>1. A[k - 1] = s /\ A[k] = L[k]
        BY <1>3, <1>5, <2>1, <3>1
      <4> HIDE DEF s, e
      <4> QED
        BY <2>4, <4>1, LeaveNothing DEF Leads, CalmStep
    <3>2. CASE ~ Passed(k - 1)
      <4>1. A[k - 1] = Painted(s, x, c)
        BY <1>3, <2>1, <3>2
      <4>2. A[k] = IF e.kind = "color" /\ e.id = x THEN L[k] ELSE Painted(L[k], x, c)
        BY <1>3, <1>5, <2>1, <3>2
      <4> HIDE DEF s, e
      <4>3. CASE e.kind = "renamed"
        <5>1. Painted(Named(s, e.at, e.name), x, c) = Named(Painted(s, x, c), e.at, e.name)
          BY <2>4, <4>3, EventFields, PaintedNamed
        <5> QED
          BY <2>4, <4>1, <4>2, <4>3, <5>1 DEF Leads, CalmStep
      <4>4. CASE e.kind = "color"
        <5>1. Painted(Painted(s, x, c), e.id, e.color) =
                IF x = e.id THEN Painted(s, e.id, e.color) ELSE Painted(Painted(s, e.id, e.color), x, c)
          BY <2>4, <4>4, EventFields, PaintedPainted
        <5> QED
          BY <2>4, <4>1, <4>2, <4>4, <5>1 DEF Leads, CalmStep
      <4>5. CASE e.kind = "deleted"
        <5>1. e.id \notin IdSet(Painted(s, x, c))
          BY <2>4, <4>5, PaintedList, SameIdsSame DEF CalmStep
        <5> QED
          BY <2>4, <4>1, <4>2, <4>5, <5>1, LeaveNothing DEF Leads, CalmStep
      <4>6. CASE e.kind = "reordered"
        BY <2>4, <4>1, <4>2, <4>6 DEF Leads, CalmStep
      <4> QED
        BY <2>4, <4>3, <4>4, <4>5, <4>6, EventFields
    <3> QED
      BY <3>1, <3>2
  <2> QED
    BY <2>3, <2>5
<1>10. Replay(nw, A[0], M[0], A[n], M[n], A, M)
  <2> HIDE DEF n
  <2>1. n = Len(nw)
    BY DEF n
  <2>2. \A j, k \in 0 .. n : j <= k => IdSet(A[k]) \subseteq IdSet(A[j])
    BY <1>1, <1>7
  <2> QED
    BY <1>1, <1>7, <1>8, <1>9, <2>1, <2>2, OtherReplay
<1>11. A[0] = Painted(w, x, c) /\ A[n] \in {d, Painted(d, x, c)}
  BY <1>1, <1>3, <1>5
<1> QED
  BY <1>1, <1>10, <1>11

(* The same for a name.                                                      *)
LEMMA NameAll ==
  ASSUME NEW nw \in News, NEW w, NEW p, NEW d, NEW L, NEW M, Replay(nw, w, p, d, <<>>, L, M),
         Calm(nw, w, p), NEW i \in Int, NEW o \in AnyName
  PROVE  \E t, L2, M2 : t \in {d, Named(d, i, o)} /\ Replay(nw, Named(w, i, o), p, t, <<>>, L2, M2)
<1> DEFINE n == Len(nw)
           Passed(k) == \E m \in 1 .. k : nw[m].kind = "renamed" /\ nw[m].at = i
           A == [k \in 0 .. n |-> IF Passed(k) THEN L[k] ELSE Named(L[k], i, o)]
<1>1. /\ n \in Nat /\ L[0] = w /\ M[0] = p /\ L[n] = d /\ M[n] = <<>>
      /\ \A k \in 1 .. n : nw[k] \in Event
      /\ M \in [0 .. n -> Moves]
      /\ \A k \in 0 .. n : L[k] \in Lists /\ Unlike(L[k])
      /\ \A j, k \in 0 .. n : j <= k => IdSet(L[k]) \subseteq IdSet(L[j])
      /\ \A k \in 1 .. n : Fits(nw[k], L[k - 1])
  BY NewsDomain DEF Replay, Frames, Steps
<1>2. \A k \in 1 .. n : CalmStep(nw[k], L[k - 1], M[k - 1], L[k], M[k])
  BY CalmReplay
<1>3. \A k \in 0 .. n : A[k] = IF Passed(k) THEN L[k] ELSE Named(L[k], i, o)
  OBVIOUS
<1>4. A = [k \in 0 .. n |-> A[k]]
  OBVIOUS
<1>5. ~ Passed(0) /\ \A k \in 1 .. n : Passed(k) <=> Passed(k - 1) \/ (nw[k].kind = "renamed" /\ nw[k].at = i)
  <2>1. \A k \in 1 .. n : \A m \in 1 .. k : m \in 1 .. k - 1 \/ m = k
    BY <1>1
  <2>2. \A k \in 1 .. n : k \in 1 .. k /\ \A m \in 1 .. k - 1 : m \in 1 .. k
    BY <1>1
  <2> QED
    BY <2>1, <2>2
<1> HIDE DEF A, Passed
<1>6. \A k \in 0 .. n : A[k] \in Lists /\ SameIds(L[k], A[k])
  <2>1. ASSUME NEW k \in 0 .. n PROVE A[k] \in Lists /\ SameIds(L[k], A[k])
    <3>1. Named(L[k], i, o) \in Lists /\ SameIds(L[k], Named(L[k], i, o))
      BY <1>1, NamedList
    <3> QED
      BY <1>1, <1>3, <3>1 DEF SameIds
  <2> QED
    BY <2>1
<1>7. \A k \in 0 .. n : IdSet(A[k]) = IdSet(L[k]) /\ Unlike(A[k])
  BY <1>1, <1>6, SameIdsSame
<1>8. A \in [0 .. n -> Lists]
  BY <1>4, <1>6
<1>9. ASSUME NEW k \in 1 .. n
      PROVE  Leads(nw[k], A[k - 1], M[k - 1], A[k], M[k]) /\ Fits(nw[k], A[k - 1])
  <2>1. k \in 0 .. n /\ k - 1 \in 0 .. n
    BY <1>1
  <2>2. Len(A[k - 1]) = Len(L[k - 1])
    BY <1>6, <2>1 DEF SameIds
  <2>3. Fits(nw[k], A[k - 1])
    BY <1>1, <2>2 DEF Fits, Positions
  <2> DEFINE s == L[k - 1] e == nw[k]
  <2>4. s \in Lists /\ e \in Event /\ CalmStep(e, s, M[k - 1], L[k], M[k])
    BY <1>1, <1>2, <2>1
  <2>5. Leads(e, A[k - 1], M[k - 1], A[k], M[k])
    <3>1. CASE Passed(k - 1)
      <4>1. A[k - 1] = s /\ A[k] = L[k]
        BY <1>3, <1>5, <2>1, <3>1
      <4> HIDE DEF s, e
      <4> QED
        BY <2>4, <4>1, LeaveNothing DEF Leads, CalmStep
    <3>2. CASE ~ Passed(k - 1)
      <4>1. A[k - 1] = Named(s, i, o)
        BY <1>3, <2>1, <3>2
      <4>2. A[k] = IF e.kind = "renamed" /\ e.at = i THEN L[k] ELSE Named(L[k], i, o)
        BY <1>3, <1>5, <2>1, <3>2
      <4> HIDE DEF s, e
      <4>3. CASE e.kind = "renamed"
        <5>1. Named(Named(s, i, o), e.at, e.name) =
                IF i = e.at THEN Named(s, e.at, e.name) ELSE Named(Named(s, e.at, e.name), i, o)
          BY <2>4, <4>3, EventFields, NamedNamed
        <5> QED
          BY <2>4, <4>1, <4>2, <4>3, <5>1 DEF Leads, CalmStep
      <4>4. CASE e.kind = "color"
        <5>1. Painted(Named(s, i, o), e.id, e.color) = Named(Painted(s, e.id, e.color), i, o)
          BY <2>4, <4>4, EventFields, PaintedNamed
        <5> QED
          BY <2>4, <4>1, <4>2, <4>4, <5>1 DEF Leads, CalmStep
      <4>5. CASE e.kind = "deleted"
        <5>1. e.id \notin IdSet(Named(s, i, o))
          BY <2>4, <4>5, NamedList, SameIdsSame DEF CalmStep
        <5> QED
          BY <2>4, <4>1, <4>2, <4>5, <5>1, LeaveNothing DEF Leads, CalmStep
      <4>6. CASE e.kind = "reordered"
        BY <2>4, <4>1, <4>2, <4>6 DEF Leads, CalmStep
      <4> QED
        BY <2>4, <4>3, <4>4, <4>5, <4>6, EventFields
    <3> QED
      BY <3>1, <3>2
  <2> QED
    BY <2>3, <2>5
<1>10. Replay(nw, A[0], M[0], A[n], M[n], A, M)
  <2> HIDE DEF n
  <2>1. n = Len(nw)
    BY DEF n
  <2>2. \A j, k \in 0 .. n : j <= k => IdSet(A[k]) \subseteq IdSet(A[j])
    BY <1>1, <1>7
  <2> QED
    BY <1>1, <1>7, <1>8, <1>9, <2>1, <2>2, OtherReplay
<1>11. A[0] = Named(w, i, o) /\ A[n] \in {d, Named(d, i, o)}
  BY <1>1, <1>3, <1>5
<1> QED
  BY <1>1, <1>10, <1>11

(* The window moves a workspace, with no name on its way.                    *)
LEMMA ExchangeAll ==
  ASSUME NEW nw \in News, NEW w, NEW p, NEW d, NEW L, NEW M, Replay(nw, w, p, d, <<>>, L, M),
         Calm(nw, w, p), \A k \in 1 .. Len(nw) : nw[k].kind # "renamed",
         NEW i \in Positions(w), NEW j \in Positions(w)
  PROVE  \E L2, M2 : Replay(nw, Exchange(w, i, j), Append(p, <<i, j>>),
                            Exchange(d, i, j), <<<<i, j>>>>, L2, M2)
<1> DEFINE n == Len(nw)
           A == [k \in 0 .. n |-> Exchange(L[k], i, j)]
           B == [k \in 0 .. n |-> Append(M[k], <<i, j>>)]
<1>1. /\ n \in Nat /\ L[0] = w /\ M[0] = p /\ L[n] = d /\ M[n] = <<>>
      /\ \A k \in 1 .. n : nw[k] \in Event
      /\ \A k \in 0 .. n : L[k] \in Lists /\ Unlike(L[k]) /\ M[k] \in Moves
      /\ \A g, k \in 0 .. n : g <= k => IdSet(L[k]) \subseteq IdSet(L[g])
      /\ \A k \in 1 .. n : Fits(nw[k], L[k - 1])
  BY NewsDomain DEF Replay, Frames, Steps
<1>2. /\ \A k \in 1 .. n : CalmStep(nw[k], L[k - 1], M[k - 1], L[k], M[k])
      /\ \A k \in 0 .. n : SameIds(w, L[k])
  BY CalmReplay
<1>3. \A k \in 0 .. n : A[k] = Exchange(L[k], i, j) /\ B[k] = Append(M[k], <<i, j>>)
  OBVIOUS
<1>4. A = [k \in 0 .. n |-> A[k]] /\ B = [k \in 0 .. n |-> B[k]]
  OBVIOUS
<1> HIDE DEF A, B
<1>5. \A k \in 0 .. n : i \in Positions(L[k]) /\ j \in Positions(L[k])
  BY <1>2 DEF SameIds, Positions
<1>6. \A k \in 0 .. n : A[k] \in Lists /\ Len(A[k]) = Len(L[k]) /\ IdSet(A[k]) = IdSet(L[k]) /\ Unlike(A[k])
  BY <1>1, <1>3, <1>5, ExchangeList
<1>7. i \in Int /\ j \in Int
  <2>1. w \in Lists
    BY ReplayTyped
  <2> QED
    BY <2>1, ListDomain DEF Positions
<1>8. \A k \in 0 .. n : B[k] \in Moves
  <2>1. ASSUME NEW k \in 0 .. n PROVE B[k] \in Moves
    <3>1. M[k] \in Seq(Int \X Int) /\ <<i, j>> \in Int \X Int /\ B[k] = Append(M[k], <<i, j>>)
      BY <1>1, <1>3, <1>7 DEF Moves
    <3> QED
      BY <3>1, AppendProperties DEF Moves
  <2> QED
    BY <2>1
<1>9. A \in [0 .. n -> Lists] /\ B \in [0 .. n -> Moves]
  BY <1>4, <1>6, <1>8
<1>10. ASSUME NEW k \in 1 .. n
       PROVE  Leads(nw[k], A[k - 1], B[k - 1], A[k], B[k]) /\ Fits(nw[k], A[k - 1])
  <2>1. k \in 0 .. n /\ k - 1 \in 0 .. n
    BY <1>1
  <2>2. Fits(nw[k], A[k - 1])
    BY <1>1, <1>6, <2>1 DEF Fits, Positions
  <2> DEFINE s == L[k - 1] e == nw[k] m == M[k - 1]
  <2>3. /\ s \in Lists /\ e \in Event /\ m \in Moves /\ CalmStep(e, s, m, L[k], M[k])
        /\ i \in Positions(s) /\ j \in Positions(s) /\ e.kind # "renamed"
    BY <1>1, <1>2, <1>5, <2>1
  <2>4. /\ A[k - 1] = Exchange(s, i, j) /\ A[k] = Exchange(L[k], i, j)
        /\ B[k - 1] = Append(m, <<i, j>>) /\ B[k] = Append(M[k], <<i, j>>)
    BY <1>3, <2>1
  <2> HIDE DEF s, e, m
  <2>5. Leads(e, A[k - 1], B[k - 1], A[k], B[k])
    <3>1. CASE e.kind = "color"
      <4>1. Painted(Exchange(s, i, j), e.id, e.color) = Exchange(Painted(s, e.id, e.color), i, j)
        BY <2>3, <3>1, EventFields, PaintedExchange
      <4> QED
        BY <2>3, <2>4, <3>1, <4>1 DEF Leads, CalmStep
    <3>2. CASE e.kind = "deleted"
      <4>1. e.id \notin IdSet(Exchange(s, i, j))
        BY <2>3, <3>2, ExchangeList DEF CalmStep
      <4> QED
        BY <2>3, <2>4, <3>2, <4>1, LeaveNothing DEF Leads, CalmStep
    <3>3. CASE e.kind = "reordered"
      <4>1. Own(e, m) /\ L[k] = s /\ M[k] = Tail(m)
        BY <2>3, <3>3 DEF CalmStep
      <4>2. m \in Seq(Int \X Int) /\ m # <<>> /\ <<i, j>> \in Int \X Int
        BY <1>7, <2>3, <4>1 DEF Moves, Own
      <4>3. /\ Append(m, <<i, j>>) # <<>> /\ Head(Append(m, <<i, j>>)) = Head(m)
            /\ Tail(Append(m, <<i, j>>)) = Append(Tail(m), <<i, j>>)
        <5> DEFINE z == <<i, j>> Z == Int \X Int
        <5>1. m \in Seq(Z) /\ z \in Z /\ m # <<>>
          BY <4>2
        <5> HIDE DEF z, Z
        <5>2. Append(m, z) # <<>> /\ Head(Append(m, z)) = Head(m) /\ Tail(Append(m, z)) = Append(Tail(m), z)
          BY <5>1, HeadTailAppend, AppendProperties, EmptySeq
        <5> QED
          BY <5>2 DEF z
      <4>4. Own(e, B[k - 1])
        BY <2>4, <4>1, <4>3 DEF Own
      <4> QED
        BY <2>4, <3>3, <4>1, <4>3, <4>4 DEF Leads
    <3> QED
      BY <2>3, <3>1, <3>2, <3>3, EventFields
  <2> QED
    BY <2>2, <2>5 DEF e
<1>11. Replay(nw, A[0], B[0], A[n], B[n], A, B)
  <2> HIDE DEF n
  <2>1. n = Len(nw)
    BY DEF n
  <2>2. \A g, k \in 0 .. n : g <= k => IdSet(A[k]) \subseteq IdSet(A[g])
    BY <1>1, <1>6
  <2> QED
    BY <1>6, <1>9, <1>10, <2>1, <2>2, OtherReplay
<1>12. /\ A[0] = Exchange(w, i, j) /\ A[n] = Exchange(d, i, j)
       /\ B[0] = Append(p, <<i, j>>) /\ B[n] = <<<<i, j>>>>
  <2>1. Append(<<>>, <<i, j>>) = <<<<i, j>>>>
    OBVIOUS
  <2>2. 0 \in 0 .. n /\ n \in 0 .. n
    BY <1>1
  <2>3. /\ A[0] = Exchange(w, i, j) /\ A[n] = Exchange(d, i, j)
        /\ B[0] = Append(p, <<i, j>>) /\ B[n] = Append(<<>>, <<i, j>>)
    BY <1>1, <1>3, <2>2
  <2> QED
    BY <2>1, <2>3, Zenon
<1> QED
  BY <1>11, <1>12

(* The window adds or removes one in the middle, with neither a name nor a   *)
(* move on its way.                                                          *)
PaintsAndDeletes(nw) == \A k \in 1 .. Len(nw) : nw[k].kind \in {"color", "deleted"}

LEMMA InsertAll ==
  ASSUME NEW nw \in News, NEW w, NEW p, NEW d, NEW L, NEW M, Replay(nw, w, p, d, <<>>, L, M),
         Calm(nw, w, p), PaintsAndDeletes(nw),
         NEW i \in 1 .. Len(w) + 1, NEW x \in Item, x.id \notin IdSet(w),
         \A k \in 1 .. Len(nw) : nw[k].id # x.id
  PROVE  \E L2, M2 : Replay(nw, InsertAt(w, i, x), p, InsertAt(d, i, x), <<>>, L2, M2)
<1> DEFINE n == Len(nw)
           A == [k \in 0 .. n |-> InsertAt(L[k], i, x)]
<1>1. /\ n \in Nat /\ L[0] = w /\ M[0] = p /\ L[n] = d /\ M[n] = <<>>
      /\ \A k \in 1 .. n : nw[k] \in Event
      /\ M \in [0 .. n -> Moves]
      /\ \A k \in 0 .. n : L[k] \in Lists /\ Unlike(L[k])
      /\ \A g, k \in 0 .. n : g <= k => IdSet(L[k]) \subseteq IdSet(L[g])
  BY NewsDomain DEF Replay, Frames, Steps
<1>2. /\ \A k \in 1 .. n : CalmStep(nw[k], L[k - 1], M[k - 1], L[k], M[k])
      /\ \A k \in 0 .. n : SameIds(w, L[k]) /\ IdSet(L[k]) = IdSet(w)
  <2>1. w \in Lists
    BY ReplayTyped
  <2> QED
    BY <1>1, <2>1, CalmReplay, SameIdsSame
<1>3. \A k \in 0 .. n : A[k] = InsertAt(L[k], i, x)
  OBVIOUS
<1>4. A = [k \in 0 .. n |-> A[k]]
  OBVIOUS
<1> HIDE DEF A
<1>5. \A k \in 0 .. n : i \in 1 .. Len(L[k]) + 1
  BY <1>2 DEF SameIds
<1>6. \A k \in 0 .. n : A[k] \in Lists /\ IdSet(A[k]) = IdSet(L[k]) \cup {x.id} /\ Unlike(A[k])
  BY <1>1, <1>2, <1>3, <1>5, InsertList
<1>7. A \in [0 .. n -> Lists]
  BY <1>4, <1>6
<1>8. ASSUME NEW k \in 1 .. n
      PROVE  Leads(nw[k], A[k - 1], M[k - 1], A[k], M[k]) /\ Fits(nw[k], A[k - 1])
  <2>1. k \in 0 .. n /\ k - 1 \in 0 .. n
    BY <1>1
  <2>2. Fits(nw[k], A[k - 1])
    BY DEF Fits, PaintsAndDeletes
  <2> DEFINE s == L[k - 1] e == nw[k]
  <2>3. /\ s \in Lists /\ e \in Event /\ CalmStep(e, s, M[k - 1], L[k], M[k])
        /\ i \in 1 .. Len(s) + 1 /\ e.kind \in {"color", "deleted"} /\ x.id # e.id
        /\ IdSet(A[k - 1]) = IdSet(s) \cup {x.id}
    BY <1>1, <1>2, <1>5, <1>6, <2>1 DEF PaintsAndDeletes
  <2>4. A[k - 1] = InsertAt(s, i, x) /\ A[k] = InsertAt(L[k], i, x)
    BY <1>3, <2>1
  <2> HIDE DEF s, e
  <2>5. Leads(e, A[k - 1], M[k - 1], A[k], M[k])
    <3>1. CASE e.kind = "color"
      <4>1. Painted(InsertAt(s, i, x), e.id, e.color) = InsertAt(Painted(s, e.id, e.color), i, x)
        BY <2>3, <3>1, EventFields, PaintedInsert
      <4> QED
        BY <2>3, <2>4, <3>1, <4>1 DEF Leads, CalmStep
    <3>2. CASE e.kind = "deleted"
      <4>1. e.id \notin IdSet(A[k - 1])
        BY <2>3, <3>2 DEF CalmStep
      <4> QED
        BY <2>3, <2>4, <3>2, <4>1, LeaveNothing DEF Leads, CalmStep
    <3> QED
      BY <2>3, <3>1, <3>2
  <2> QED
    BY <2>2, <2>5 DEF e
<1>9. Replay(nw, A[0], M[0], A[n], M[n], A, M)
  <2> HIDE DEF n
  <2>1. n = Len(nw)
    BY DEF n
  <2>2. \A g, k \in 0 .. n : g <= k => IdSet(A[k]) \subseteq IdSet(A[g])
    BY <1>1, <1>6
  <2> QED
    BY <1>1, <1>6, <1>7, <1>8, <2>1, <2>2, OtherReplay
<1>10. A[0] = InsertAt(w, i, x) /\ A[n] = InsertAt(d, i, x)
  BY <1>1, <1>3
<1> QED
  BY <1>1, <1>9, <1>10

LEMMA RemoveAll ==
  ASSUME NEW nw \in News, NEW w, NEW p, NEW d, NEW L, NEW M, Replay(nw, w, p, d, <<>>, L, M),
         Calm(nw, w, p), PaintsAndDeletes(nw), NEW i \in 1 .. Len(w)
  PROVE  \E L2, M2 : Replay(nw, RemoveAt(w, i), p, RemoveAt(d, i), <<>>, L2, M2)
<1> DEFINE n == Len(nw)
           A == [k \in 0 .. n |-> RemoveAt(L[k], i)]
<1>1. /\ n \in Nat /\ L[0] = w /\ M[0] = p /\ L[n] = d /\ M[n] = <<>>
      /\ \A k \in 1 .. n : nw[k] \in Event
      /\ M \in [0 .. n -> Moves]
      /\ \A k \in 0 .. n : L[k] \in Lists /\ Unlike(L[k])
      /\ \A g, k \in 0 .. n : g <= k => IdSet(L[k]) \subseteq IdSet(L[g])
  BY NewsDomain DEF Replay, Frames, Steps
<1>2. /\ \A k \in 1 .. n : CalmStep(nw[k], L[k - 1], M[k - 1], L[k], M[k])
      /\ \A k \in 0 .. n : SameIds(w, L[k])
  BY CalmReplay
<1>3. \A k \in 0 .. n : A[k] = RemoveAt(L[k], i)
  OBVIOUS
<1>4. A = [k \in 0 .. n |-> A[k]]
  OBVIOUS
<1> HIDE DEF A
<1>5. \A k \in 0 .. n : i \in 1 .. Len(L[k]) /\ L[k][i].id = w[i].id
  BY <1>2 DEF SameIds
<1>6. \A k \in 0 .. n : A[k] \in Lists /\ IdSet(A[k]) = IdSet(L[k]) \ {w[i].id} /\ Unlike(A[k])
  <2>1. ASSUME NEW k \in 0 .. n
        PROVE  A[k] \in Lists /\ IdSet(A[k]) = IdSet(L[k]) \ {w[i].id} /\ Unlike(A[k])
    <3>1. /\ L[k] \in Lists /\ Unlike(L[k]) /\ A[k] = RemoveAt(L[k], i)
          /\ i \in 1 .. Len(L[k]) /\ L[k][i].id = w[i].id
      BY <1>1, <1>3, <1>5
    <3> QED
      BY <3>1, RemoveList
  <2> QED
    BY <2>1
<1>7. A \in [0 .. n -> Lists]
  BY <1>4, <1>6
<1>8. ASSUME NEW k \in 1 .. n
      PROVE  Leads(nw[k], A[k - 1], M[k - 1], A[k], M[k]) /\ Fits(nw[k], A[k - 1])
  <2>1. k \in 0 .. n /\ k - 1 \in 0 .. n
    BY <1>1
  <2>2. Fits(nw[k], A[k - 1])
    BY DEF Fits, PaintsAndDeletes
  <2> DEFINE s == L[k - 1] e == nw[k]
  <2>3. /\ s \in Lists /\ e \in Event /\ CalmStep(e, s, M[k - 1], L[k], M[k])
        /\ i \in 1 .. Len(s) /\ e.kind \in {"color", "deleted"}
        /\ IdSet(A[k - 1]) \subseteq IdSet(s)
    <3>1. s \in Lists /\ i \in 1 .. Len(s) /\ IdSet(A[k - 1]) = IdSet(s) \ {w[i].id}
      BY <1>1, <1>5, <1>6, <2>1
    <3>2. e \in Event /\ CalmStep(e, s, M[k - 1], L[k], M[k]) /\ e.kind \in {"color", "deleted"}
      BY <1>1, <1>2 DEF PaintsAndDeletes
    <3> HIDE DEF s, e
    <3> QED
      BY <3>1, <3>2
  <2>4. A[k - 1] = RemoveAt(s, i) /\ A[k] = RemoveAt(L[k], i)
    BY <1>3, <2>1
  <2> HIDE DEF s, e
  <2>5. Leads(e, A[k - 1], M[k - 1], A[k], M[k])
    <3>1. CASE e.kind = "color"
      <4>1. Painted(RemoveAt(s, i), e.id, e.color) = RemoveAt(Painted(s, e.id, e.color), i)
        BY <2>3, <3>1, EventFields, PaintedRemove
      <4> QED
        BY <2>3, <2>4, <3>1, <4>1 DEF Leads, CalmStep
    <3>2. CASE e.kind = "deleted"
      <4>1. e.id \notin IdSet(A[k - 1])
        BY <2>3, <3>2 DEF CalmStep
      <4> QED
        BY <2>3, <2>4, <3>2, <4>1, LeaveNothing DEF Leads, CalmStep
    <3> QED
      BY <2>3, <3>1, <3>2
  <2> QED
    BY <2>2, <2>5 DEF e
<1>9. Replay(nw, A[0], M[0], A[n], M[n], A, M)
  <2> HIDE DEF n
  <2>1. n = Len(nw)
    BY DEF n
  <2>2. \A g, k \in 0 .. n : g <= k => IdSet(A[k]) \subseteq IdSet(A[g])
    BY <1>1, <1>6
  <2> QED
    BY <1>1, <1>6, <1>7, <1>8, <2>1, <2>2, OtherReplay
<1>10. A[0] = RemoveAt(w, i) /\ A[n] = RemoveAt(d, i)
  BY <1>1, <1>3
<1> QED
  BY <1>1, <1>9, <1>10

(* One at the end is in nobody's way.                                        *)
LEMMA AppendAll ==
  ASSUME NEW nw \in News, NEW w, NEW p, NEW d, NEW q, NEW L, NEW M, Replay(nw, w, p, d, q, L, M),
         NEW x \in Item, x.id \notin IdSet(w),
         \A k \in 1 .. Len(nw) : nw[k].kind \in {"color", "deleted"} => nw[k].id # x.id
  PROVE  \E L2, M2 : Replay(nw, Append(w, x), p, Append(d, x), q, L2, M2)
<1> DEFINE n == Len(nw)
           A == [k \in 0 .. n |-> Append(L[k], x)]
<1>1. /\ n \in Nat /\ L[0] = w /\ M[0] = p /\ L[n] = d /\ M[n] = q
      /\ \A k \in 1 .. n : nw[k] \in Event
      /\ M \in [0 .. n -> Moves]
      /\ \A k \in 0 .. n : L[k] \in Lists /\ Unlike(L[k])
      /\ \A g, k \in 0 .. n : g <= k => IdSet(L[k]) \subseteq IdSet(L[g])
      /\ \A k \in 1 .. n : Leads(nw[k], L[k - 1], M[k - 1], L[k], M[k]) /\ Fits(nw[k], L[k - 1])
  BY NewsDomain DEF Replay, Frames, Steps
<1>2. \A k \in 0 .. n : x.id \notin IdSet(L[k])
  BY <1>1
<1>3. \A k \in 0 .. n : A[k] = Append(L[k], x)
  OBVIOUS
<1>4. A = [k \in 0 .. n |-> A[k]]
  OBVIOUS
<1> HIDE DEF A
<1>6. \A k \in 0 .. n : /\ A[k] \in Lists /\ Len(A[k]) = Len(L[k]) + 1
                        /\ IdSet(A[k]) = IdSet(L[k]) \cup {x.id} /\ Unlike(A[k])
  <2>1. ASSUME NEW k \in 0 .. n
        PROVE  /\ A[k] \in Lists /\ Len(A[k]) = Len(L[k]) + 1
               /\ IdSet(A[k]) = IdSet(L[k]) \cup {x.id} /\ Unlike(A[k])
    <3>1. L[k] \in Lists /\ Unlike(L[k]) /\ x.id \notin IdSet(L[k]) /\ A[k] = Append(L[k], x)
      BY <1>1, <1>2, <1>3
    <3> QED
      BY <3>1, AppendList
  <2> QED
    BY <2>1
<1>7. A \in [0 .. n -> Lists]
  BY <1>4, <1>6
<1>8. ASSUME NEW k \in 1 .. n
      PROVE  Leads(nw[k], A[k - 1], M[k - 1], A[k], M[k]) /\ Fits(nw[k], A[k - 1])
  <2>1. k \in 0 .. n /\ k - 1 \in 0 .. n
    BY <1>1
  <2> DEFINE s == L[k - 1] e == nw[k]
  <2>2. /\ s \in Lists /\ e \in Event /\ Leads(e, s, M[k - 1], L[k], M[k]) /\ Fits(e, s)
        /\ (e.kind \in {"color", "deleted"} => e.id # x.id) /\ Len(A[k - 1]) = Len(s) + 1
    BY <1>1, <1>6, <2>1
  <2>3. A[k - 1] = Append(s, x) /\ A[k] = Append(L[k], x)
    BY <1>3, <2>1
  <2> HIDE DEF s, e
  <2>4. Len(s) \in Nat
    BY <2>2, ListDomain
  <2>5. Fits(e, A[k - 1])
    BY <2>2, <2>4 DEF Fits, Positions
  <2>6. Leads(e, A[k - 1], M[k - 1], A[k], M[k])
    <3>1. CASE e.kind = "color"
      <4>1. Painted(Append(s, x), e.id, e.color) = Append(Painted(s, e.id, e.color), x)
        BY <2>2, <3>1, EventFields, PaintedAppend
      <4> QED
        BY <2>2, <2>3, <3>1, <4>1 DEF Leads
    <3>2. CASE e.kind = "deleted"
      <4>1. Left(s, e.id, L[k]) /\ M[k] = M[k - 1]
        BY <2>2, <3>2 DEF Leads
      <4>2. Left(Append(s, x), e.id, Append(L[k], x))
        BY <2>2, <3>2, <4>1, LeftAppend
      <4> QED
        BY <2>3, <3>2, <4>1, <4>2 DEF Leads
    <3>3. CASE e.kind = "renamed"
      <4>1. Named(Append(s, x), e.at, e.name) = Append(Named(s, e.at, e.name), x)
        BY <2>2, <3>3, EventFields, NamedAppend DEF Fits
      <4> QED
        BY <2>2, <2>3, <3>3, <4>1 DEF Leads
    <3>4. CASE e.kind = "reordered"
      <4>1. Exchange(Append(s, x), e.from, e.to) = Append(Exchange(s, e.from, e.to), x)
        BY <2>2, <3>4, ExchangeAppend DEF Fits
      <4> QED
        BY <2>2, <2>3, <3>4, <4>1 DEF Leads
    <3> QED
      BY <2>2, <3>1, <3>2, <3>3, <3>4, EventFields
  <2> QED
    BY <2>5, <2>6 DEF e
<1>9. Replay(nw, A[0], M[0], A[n], M[n], A, M)
  <2> HIDE DEF n
  <2>1. n = Len(nw)
    BY DEF n
  <2>2. \A g, k \in 0 .. n : g <= k => IdSet(A[k]) \subseteq IdSet(A[g])
    BY <1>1, <1>6
  <2> QED
    BY <1>1, <1>6, <1>7, <1>8, <2>1, <2>2, OtherReplay
<1>10. A[0] = Append(w, x) /\ A[n] = Append(d, x)
  BY <1>1, <1>3
<1> QED
  BY <1>1, <1>9, <1>10

-----------------------------------------------------------------------------
(* What the daemon does and sends                                            *)

RI(nw, w, p, d) == (\E L, M : Replay(nw, w, p, d, <<>>, L, M)) /\ Known(nw, d)

Sends(d, e, c) ==
  /\ e \in Event /\ c \in Lists /\ Unlike(c) /\ c # <<>>
  /\ Leads(e, d, <<>>, c, <<>>) /\ Fits(e, d)
  /\ IdSet(c) \subseteq IdSet(d)
  /\ IdSet(d) \subseteq IdSet(c) \cup (IF e.kind = "deleted" THEN {e.id} ELSE {})
  /\ e.kind = "color" => e.id \in IdSet(d)

LEMMA NamedExcept ==
  ASSUME NEW s \in Lists, NEW i \in Positions(s), NEW o \in AnyName
  PROVE  [s EXCEPT ![i + 1].name = o] = Named(s, i, o)
<1>1. Len(s) \in Nat /\ s \in [1 .. Len(s) -> Item] /\ i + 1 \in 1 .. Len(s)
  BY ListDomain DEF Positions
<1> DEFINE f == [s EXCEPT ![i + 1].name = o]
<1>2. f = [k \in 1 .. Len(s) |-> IF k = i + 1 THEN [s[i + 1] EXCEPT !.name = o] ELSE s[k]]
  BY <1>1
<1> QED
  BY <1>2 DEF Named, Titled

LEMMA ColoredExcept ==
  ASSUME NEW s \in Lists, Unlike(s), NEW j \in 1 .. Len(s), NEW c \in Hues
  PROVE  [s EXCEPT ![j].color = c] = Painted(s, s[j].id, c)
<1>1. Len(s) \in Nat /\ s \in [1 .. Len(s) -> Item]
  BY ListDomain
<1>2. \A k \in 1 .. Len(s) : s[k].id = s[j].id <=> k = j
  BY DEF Unlike
<1> DEFINE f == [s EXCEPT ![j].color = c]
<1>3. f = [k \in 1 .. Len(s) |-> IF k = j THEN [s[j] EXCEPT !.color = c] ELSE s[k]]
  BY <1>1
<1> QED
  BY <1>2, <1>3 DEF Painted, Colored

LEMMA NotEmpty ==
  ASSUME NEW s \in Lists
  PROVE  s # <<>> <=> Len(s) > 0
BY EmptySeq DEF Lists

LEMMA DaemonRenames ==
  ASSUME NEW d \in Lists, Unlike(d), NEW i \in Positions(d), NEW o \in AnyName
  PROVE  Sends(d, [kind |-> "renamed", at |-> i, name |-> o], [d EXCEPT ![i + 1].name = o])
<1> DEFINE e == [kind |-> "renamed", at |-> i, name |-> o]
           c == Named(d, i, o)
<1>1. i \in Int /\ Len(d) \in Nat /\ Len(d) > 0
  BY ListDomain DEF Positions
<1>2. c \in Lists /\ SameIds(d, c) /\ Len(c) = Len(d)
  BY <1>1, NamedList
<1>3. Unlike(c) /\ IdSet(c) = IdSet(d) /\ c # <<>>
  BY <1>1, <1>2, SameIdsSame, NotEmpty
<1>4. e \in Event
  BY <1>1 DEF Event
<1>5. Leads(e, d, <<>>, c, <<>>) /\ Fits(e, d) /\ e.kind = "renamed"
  BY DEF Leads, Fits
<1>6. [d EXCEPT ![i + 1].name = o] = c
  BY NamedExcept
<1> HIDE DEF c, e
<1>7. Sends(d, e, c)
  BY <1>2, <1>3, <1>4, <1>5 DEF Sends
<1> QED
  BY <1>6, <1>7 DEF e

LEMMA DaemonPaints ==
  ASSUME NEW d \in Lists, Unlike(d), NEW i \in Positions(d), NEW h \in Hues
  PROVE  Sends(d, [kind |-> "color", id |-> d[i + 1].id, color |-> h], [d EXCEPT ![i + 1].color = h])
<1> DEFINE x == d[i + 1].id
           e == [kind |-> "color", id |-> x, color |-> h]
           c == Painted(d, x, h)
<1>1. i + 1 \in 1 .. Len(d) /\ Len(d) \in Nat /\ Len(d) > 0
  BY ListDomain DEF Positions
<1>2. d[i + 1] \in Item /\ x \in Ids /\ x \in IdSet(d)
  BY <1>1, ListDomain DEF Item, IdSet
<1>3. c \in Lists /\ SameIds(d, c) /\ Len(c) = Len(d)
  BY PaintedList
<1>4. Unlike(c) /\ IdSet(c) = IdSet(d) /\ c # <<>>
  BY <1>1, <1>3, SameIdsSame, NotEmpty
<1>5. e \in Event
  BY <1>2 DEF Event
<1>6. [d EXCEPT ![i + 1].color = h] = c
  BY <1>1, ColoredExcept
<1>7. Leads(e, d, <<>>, c, <<>>) /\ Fits(e, d) /\ e.kind = "color" /\ e.id = x
  BY DEF Leads, Fits
<1> HIDE DEF c, e
<1>8. Sends(d, e, c)
  BY <1>2, <1>3, <1>4, <1>5, <1>7 DEF Sends
<1> QED
  BY <1>6, <1>8 DEF e

LEMMA DaemonReorders ==
  ASSUME NEW d \in Lists, Unlike(d), NEW i \in Positions(d), NEW j \in Positions(d)
  PROVE  Sends(d, [kind |-> "reordered", from |-> i, to |-> j], Exchange(d, i, j))
<1> DEFINE e == [kind |-> "reordered", from |-> i, to |-> j]
           c == Exchange(d, i, j)
<1>1. i \in Int /\ j \in Int /\ Len(d) \in Nat /\ Len(d) > 0
  BY ListDomain DEF Positions
<1>2. c \in Lists /\ IdSet(c) = IdSet(d) /\ Unlike(c) /\ Len(c) = Len(d)
  BY ExchangeList
<1>3. c # <<>>
  BY <1>1, <1>2, NotEmpty
<1>4. e \in Event
  BY <1>1 DEF Event
<1>5. Leads(e, d, <<>>, c, <<>>) /\ Fits(e, d) /\ e.kind = "reordered"
  BY DEF Leads, Fits, Own
<1> HIDE DEF c, e
<1>6. Sends(d, e, c)
  BY <1>2, <1>3, <1>4, <1>5 DEF Sends
<1> QED
  BY <1>6 DEF c, e

LEMMA DaemonDeletes ==
  ASSUME NEW d \in Lists, Unlike(d), NEW i \in Positions(d), Len(d) > 1
  PROVE  Sends(d, [kind |-> "deleted", id |-> d[i + 1].id], WithoutIndex(d, i))
<1> DEFINE x == d[i + 1].id
           e == [kind |-> "deleted", id |-> x]
           c == RemoveAt(d, i + 1)
<1>1. i + 1 \in 1 .. Len(d) /\ Len(d) \in Nat
  BY ListDomain DEF Positions
<1>2. d[i + 1] \in Item /\ x \in Ids
  BY <1>1, ListDomain DEF Item
<1>3. c \in Lists /\ IdSet(c) = IdSet(d) \ {x} /\ Unlike(c) /\ Len(c) = Len(d) - 1
  BY <1>1, RemoveList
<1>4. c # <<>>
  BY <1>1, <1>3, NotEmpty
<1>5. e \in Event
  BY <1>2 DEF Event
<1>6. Leads(e, d, <<>>, c, <<>>) /\ Fits(e, d) /\ e.kind = "deleted" /\ e.id = x
  BY <1>1 DEF Leads, Fits, Left
<1>7. WithoutIndex(d, i) = c
  BY DEF WithoutIndex
<1> HIDE DEF c, e
<1>8. IdSet(d) \subseteq IdSet(c) \cup (IF e.kind = "deleted" THEN {e.id} ELSE {})
  BY <1>3, <1>6
<1>9. Sends(d, e, c)
  BY <1>3, <1>4, <1>5, <1>6, <1>8 DEF Sends
<1> QED
  BY <1>7, <1>9 DEF e

LEMMA KnownSent ==
  ASSUME NEW nw \in News, NEW d, Known(nw, d), NEW e, NEW c, Sends(d, e, c)
  PROVE  Known(Append(nw, e), c)
<1> DEFINE n == Len(nw) nx == Append(nw, e)
<1>1. /\ n \in Nat /\ Len(nx) = n + 1 /\ nx[n + 1] = e
      /\ \A k \in 1 .. n : nx[k] = nw[k]
  BY AppendProperties DEF News, Sends
<1> HIDE DEF nx
<1>2. ASSUME NEW k \in 1 .. n + 1, nx[k].kind = "color"
      PROVE  nx[k].id \in IdSet(c) \/ GoneLater(nx, k, nx[k].id)
  <2>1. CASE k = n + 1
    BY <1>1, <1>2, <2>1 DEF Sends
  <2>2. CASE k # n + 1
    <3>1. k \in 1 .. n /\ nx[k] = nw[k]
      BY <1>1, <2>2
    <3>2. nw[k].id \in IdSet(d) \/ GoneLater(nw, k, nw[k].id)
      BY <1>2, <3>1 DEF Known
    <3>3. CASE nw[k].id \in IdSet(d)
      <4>1. nw[k].id \in IdSet(c) \/ (e.kind = "deleted" /\ e.id = nw[k].id)
        BY <3>3 DEF Sends
      <4>2. n + 1 \in k + 1 .. Len(nx)
        BY <1>1, <3>1
      <4> QED
        BY <1>1, <3>1, <4>1, <4>2 DEF GoneLater
    <3>4. CASE GoneLater(nw, k, nw[k].id)
      <4>1. PICK m \in k + 1 .. n : nw[m].kind = "deleted" /\ nw[m].id = nw[k].id
        BY <3>4 DEF GoneLater
      <4>2. m \in k + 1 .. Len(nx) /\ nx[m] = nw[m]
        BY <1>1, <3>1, <4>1
      <4> QED
        BY <3>1, <4>1, <4>2 DEF GoneLater
    <3> QED
      BY <3>2, <3>3, <3>4
  <2> QED
    BY <2>1, <2>2
<1> QED
  BY <1>1, <1>2 DEF Known, nx

LEMMA KnownMore ==
  ASSUME NEW nw, NEW d, Known(nw, d), NEW c, IdSet(d) \subseteq IdSet(c)
  PROVE  Known(nw, c)
BY DEF Known

LEMMA KnownTail ==
  ASSUME NEW nw \in News, nw # <<>>, NEW d, Known(nw, d)
  PROVE  Known(Tail(nw), d)
<1> DEFINE n == Len(nw) nx == Tail(nw)
<1>1. /\ n \in Nat \ {0} /\ Len(nx) = n - 1
      /\ \A k \in 1 .. n - 1 : nx[k] = nw[k + 1]
  BY EmptySeq, HeadTailProperties DEF News
<1> HIDE DEF nx
<1>2. ASSUME NEW k \in 1 .. n - 1, nx[k].kind = "color"
      PROVE  nx[k].id \in IdSet(d) \/ GoneLater(nx, k, nx[k].id)
  <2>1. k + 1 \in 1 .. n /\ nx[k] = nw[k + 1]
    BY <1>1
  <2>2. nw[k + 1].id \in IdSet(d) \/ GoneLater(nw, k + 1, nw[k + 1].id)
    BY <1>2, <2>1 DEF Known
  <2>3. CASE GoneLater(nw, k + 1, nw[k + 1].id)
    <3>1. PICK m \in (k + 1) + 1 .. n : nw[m].kind = "deleted" /\ nw[m].id = nw[k + 1].id
      BY <2>3 DEF GoneLater
    <3>2. m - 1 \in k + 1 .. Len(nx) /\ m - 1 \in 1 .. n - 1 /\ (m - 1) + 1 = m
      BY <1>1, <3>1
    <3>3. nx[m - 1] = nw[m]
      BY <1>1, <3>2
    <3> QED
      BY <2>1, <3>1, <3>2, <3>3 DEF GoneLater
  <2> QED
    BY <2>1, <2>2, <2>3
<1> QED
  BY <1>1, <1>2 DEF Known, nx

(* Another client.                                                           *)
LEMMA ReplaySent ==
  ASSUME NEW nw \in News, NEW w, NEW p, NEW d, RI(nw, w, p, d), NEW e, NEW c, Sends(d, e, c)
  PROVE  RI(Append(nw, e), w, p, c)
<1>1. PICK L, M : Replay(nw, w, p, d, <<>>, L, M)
  BY DEF RI
<1>2. <<>> \in Moves
  BY DEF Moves
<1>3. \E L2, M2 : Replay(Append(nw, e), w, p, c, <<>>, L2, M2)
  BY <1>1, <1>2, ReplayExtend DEF Sends
<1>4. Known(Append(nw, e), c)
  BY KnownSent DEF RI
<1> QED
  BY <1>3, <1>4 DEF RI

-----------------------------------------------------------------------------
(* The window's own gestures                                                 *)

(* When only answers are on their way the two lists have the same order, and *)
(* an index of the window's is the daemon's.                                 *)
LEMMA SameAtBoth ==
  ASSUME NEW nw \in News, NEW w, NEW p, NEW d, RI(nw, w, p, d), Calm(nw, w, p)
  PROVE  SameIds(w, d)
<1>1. PICK L, M : Replay(nw, w, p, d, <<>>, L, M)
  BY DEF RI
<1>2. Len(nw) \in Nat /\ L[Len(nw)] = d
  BY <1>1, NewsDomain DEF Replay
<1>3. Len(nw) \in 0 .. Len(nw)
  BY <1>2
<1> QED
  BY <1>1, <1>2, <1>3, CalmReplay

LEMMA OwnPaint ==
  ASSUME NEW nw \in News, NEW w, NEW p, NEW d, RI(nw, w, p, d), Calm(nw, w, p),
         NEW x, NEW h \in Hues, NEW e, NEW c, NEW v, NEW nx,
         Sends(d, e, c), e.kind = "color", e.id = x, e.color = h,
         c = Painted(d, x, h), v = Painted(w, x, h),
         nx = IF c = d THEN nw ELSE Append(nw, e)
  PROVE  RI(nx, v, p, c)
<1>1. PICK L, M : Replay(nw, w, p, d, <<>>, L, M)
  BY DEF RI
<1>2. /\ w \in Lists /\ d \in Lists
  BY <1>1, ReplayTyped
<1>3. PICK t, L2, M2 : t \in {d, c} /\ Replay(nw, v, p, t, <<>>, L2, M2)
  <2>1. \E t, L2, M2 : t \in {d, Painted(d, x, h)} /\ Replay(nw, Painted(w, x, h), p, t, <<>>, L2, M2)
    BY <1>1, PaintAll
  <2> QED
    BY <2>1
<1>4. CASE c = d
  <2>1. t = c /\ nx = nw
    BY <1>3, <1>4
  <2>2. Known(nw, c)
    BY <1>4 DEF RI
  <2> QED
    BY <1>3, <2>1, <2>2 DEF RI
<1>5. CASE c # d
  <2>1. c = Painted(c, x, h)
    <3>1. Painted(Painted(d, x, h), x, h) = IF x = x THEN Painted(d, x, h) ELSE Painted(Painted(d, x, h), x, h)
      BY <1>2, PaintedPainted
    <3> QED
      BY <3>1
  <2>2. t \in Lists
    BY <1>2, <1>3 DEF Sends
  <2>3. c = Painted(t, x, h)
    BY <1>3, <2>1
  <2>4. SameIds(t, Painted(t, x, h))
    BY <2>2, PaintedList
  <2>5. IdSet(c) = IdSet(t)
    BY <2>2, <2>3, <2>4, SameIdsSame DEF Sends
  <2>6. Leads(e, t, <<>>, c, <<>>) /\ Fits(e, t)
    BY <2>3 DEF Leads, Fits
  <2>7. e \in Event /\ c \in Lists /\ Unlike(c) /\ <<>> \in Moves
    BY DEF Sends, Moves
  <2>8. \E L3, M3 : Replay(Append(nw, e), v, p, c, <<>>, L3, M3)
    BY <1>3, <2>5, <2>6, <2>7, ReplayExtend
  <2>9. Known(Append(nw, e), c)
    BY KnownSent DEF RI
  <2>10. nx = Append(nw, e)
    BY <1>5
  <2> QED
    BY <2>8, <2>9, <2>10 DEF RI
<1> QED
  BY <1>4, <1>5

LEMMA OwnRename ==
  ASSUME NEW nw \in News, NEW w, NEW p, NEW d, RI(nw, w, p, d), Calm(nw, w, p),
         NEW i \in Positions(d), NEW o \in AnyName, NEW e, NEW c, NEW v, NEW nx,
         Sends(d, e, c), e.kind = "renamed", e.at = i, e.name = o,
         c = Named(d, i, o), v = Named(w, i, o),
         nx = IF c = d THEN nw ELSE Append(nw, e)
  PROVE  RI(nx, v, p, c)
<1>1. PICK L, M : Replay(nw, w, p, d, <<>>, L, M)
  BY DEF RI
<1>2. /\ w \in Lists /\ d \in Lists /\ i \in Int
  BY <1>1, ReplayTyped, ListDomain DEF Positions
<1>3. PICK t, L2, M2 : t \in {d, c} /\ Replay(nw, v, p, t, <<>>, L2, M2)
  <2>1. \E t, L2, M2 : t \in {d, Named(d, i, o)} /\ Replay(nw, Named(w, i, o), p, t, <<>>, L2, M2)
    BY <1>1, <1>2, NameAll
  <2> QED
    BY <2>1
<1>4. CASE c = d
  <2>1. t = c /\ nx = nw
    BY <1>3, <1>4
  <2>2. Known(nw, c)
    BY <1>4 DEF RI
  <2> QED
    BY <1>3, <2>1, <2>2 DEF RI
<1>5. CASE c # d
  <2>1. c = Named(c, i, o)
    <3>1. Named(Named(d, i, o), i, o) = IF i = i THEN Named(d, i, o) ELSE Named(Named(d, i, o), i, o)
      BY <1>2, NamedNamed
    <3> QED
      BY <3>1
  <2>2. t \in Lists
    BY <1>2, <1>3 DEF Sends
  <2>3. c = Named(t, i, o)
    BY <1>3, <2>1
  <2>4. SameIds(t, Named(t, i, o)) /\ SameIds(d, Named(d, i, o))
    <3>1. SameIds(t, Named(t, i, o))
      BY <1>2, <2>2, NamedList
    <3>2. SameIds(d, Named(d, i, o))
      BY <1>2, NamedList
    <3> QED
      BY <3>1, <3>2
  <2>5. IdSet(c) = IdSet(t)
    BY <2>2, <2>3, <2>4, SameIdsSame DEF Sends
  <2>6. i \in Positions(t)
    <3>1. Len(t) = Len(c) /\ Len(d) = Len(c)
      BY <2>3, <2>4 DEF SameIds
    <3> QED
      BY <3>1 DEF Positions
  <2>7. Leads(e, t, <<>>, c, <<>>) /\ Fits(e, t)
    BY <2>3, <2>6 DEF Leads, Fits
  <2>8. e \in Event /\ c \in Lists /\ Unlike(c) /\ <<>> \in Moves
    BY DEF Sends, Moves
  <2>9. \E L3, M3 : Replay(Append(nw, e), v, p, c, <<>>, L3, M3)
    BY <1>3, <2>5, <2>7, <2>8, ReplayExtend
  <2>10. Known(Append(nw, e), c)
    BY KnownSent DEF RI
  <2>11. nx = Append(nw, e)
    BY <1>5
  <2> QED
    BY <2>9, <2>10, <2>11 DEF RI
<1> QED
  BY <1>4, <1>5

LEMMA OwnMove ==
  ASSUME NEW nw \in News, NEW w, NEW p, NEW d, RI(nw, w, p, d), Calm(nw, w, p),
         \A k \in 1 .. Len(nw) : nw[k].kind # "renamed",
         NEW i \in Positions(d), NEW j \in Positions(d), i # j, NEW e,
         e = [kind |-> "reordered", from |-> i, to |-> j],
         NEW c, c = Exchange(d, i, j)
  PROVE  RI(IF c = d THEN nw ELSE Append(nw, e), Exchange(w, i, j), Append(p, <<i, j>>), c)
<1>1. PICK L, M : Replay(nw, w, p, d, <<>>, L, M)
  BY DEF RI
<1>2. /\ w \in Lists /\ d \in Lists /\ Unlike(w) /\ Unlike(d) /\ SameIds(w, d)
  BY <1>1, ReplayTyped, SameAtBoth
<1>3. i \in Positions(w) /\ j \in Positions(w) /\ i \in Int /\ j \in Int
  BY <1>2, ListDomain DEF SameIds, Positions
<1>4. Sends(d, e, c)
  BY <1>2, DaemonReorders
<1>5. c # d
  <2>1. i + 1 \in 1 .. Len(d) /\ j + 1 \in 1 .. Len(d)
    BY <1>2, ListDomain DEF Positions
  <2>2. c[i + 1] = d[j + 1]
    <3>1. Place(i, j, i + 1) = j + 1
      BY DEF Place
    <3>2. Exchange(d, i, j)[i + 1] = d[Place(i, j, i + 1)]
      BY <1>2, <2>1, ExchangeList
    <3> QED
      BY <3>1, <3>2
  <2>3. d[i + 1].id # d[j + 1].id
    BY <1>2, <1>3, <2>1 DEF Unlike
  <2> QED
    BY <2>2, <2>3
<1>6. PICK L2, M2 : Replay(nw, Exchange(w, i, j), Append(p, <<i, j>>), c, <<<<i, j>>>>, L2, M2)
  BY <1>1, <1>3, ExchangeAll
<1>7. Leads(e, c, <<<<i, j>>>>, c, <<>>)
  <2>1. Head(<<<<i, j>>>>) = <<i, j>> /\ Tail(<<<<i, j>>>>) = <<>> /\ <<<<i, j>>>> # <<>>
    OBVIOUS
  <2>2. e.kind = "reordered" /\ e.from = i /\ e.to = j
    OBVIOUS
  <2> QED
    BY <2>1, <2>2 DEF Leads, Own
<1>8. Fits(e, c)
  <2>1. Len(c) = Len(d)
    BY <1>2, ExchangeList
  <2> QED
    BY <2>1 DEF Fits, Positions
<1>9. e \in Event /\ c \in Lists /\ Unlike(c) /\ <<>> \in Moves
  BY <1>4 DEF Sends, Moves
<1>10. \E L3, M3 : Replay(Append(nw, e), Exchange(w, i, j), Append(p, <<i, j>>), c, <<>>, L3, M3)
  BY <1>6, <1>7, <1>8, <1>9, ReplayExtend
<1>11. Known(Append(nw, e), c)
  BY <1>4, KnownSent DEF RI
<1> QED
  BY <1>5, <1>10, <1>11 DEF RI

LEMMA OwnDelete ==
  ASSUME NEW nw \in News, NEW w, NEW p, NEW d, RI(nw, w, p, d), Calm(nw, w, p), PaintsAndDeletes(nw),
         NEW i \in Positions(d), Len(d) > 1, NEW e,
         e = [kind |-> "deleted", id |-> d[i + 1].id],
         NEW c, c = WithoutIndex(d, i)
  PROVE  RI(IF c = d THEN nw ELSE Append(nw, e), WithoutIndex(w, i), p, c)
<1> DEFINE x == d[i + 1].id
<1>1. PICK L, M : Replay(nw, w, p, d, <<>>, L, M)
  BY DEF RI
<1>2. /\ w \in Lists /\ d \in Lists /\ Unlike(w) /\ Unlike(d) /\ SameIds(w, d)
  BY <1>1, ReplayTyped, SameAtBoth
<1>3. i + 1 \in 1 .. Len(w) /\ i + 1 \in 1 .. Len(d) /\ Len(d) \in Nat
  BY <1>2, ListDomain DEF SameIds, Positions
<1>4. Sends(d, e, c)
  BY <1>2, DaemonDeletes
<1>5. c = RemoveAt(d, i + 1) /\ WithoutIndex(w, i) = RemoveAt(w, i + 1)
  BY DEF WithoutIndex
<1>6. Len(c) = Len(d) - 1 /\ IdSet(c) = IdSet(d) \ {x}
  BY <1>2, <1>3, <1>5, RemoveList
<1>7. c # d
  BY <1>3, <1>6
<1>8. PICK L2, M2 : Replay(nw, RemoveAt(w, i + 1), p, c, <<>>, L2, M2)
  BY <1>1, <1>3, <1>5, RemoveAll
<1>9. Leads(e, c, <<>>, c, <<>>) /\ Fits(e, c)
  <2>1. e.kind = "deleted" /\ e.id = x
    OBVIOUS
  <2> QED
    BY <1>6, <2>1, LeaveNothing DEF Leads, Fits
<1>10. e \in Event /\ c \in Lists /\ Unlike(c) /\ <<>> \in Moves
  BY <1>4 DEF Sends, Moves
<1>11. \E L3, M3 : Replay(Append(nw, e), RemoveAt(w, i + 1), p, c, <<>>, L3, M3)
  BY <1>8, <1>9, <1>10, ReplayExtend
<1>12. Known(Append(nw, e), c)
  BY <1>4, KnownSent DEF RI
<1> QED
  BY <1>5, <1>7, <1>11, <1>12 DEF RI

Unseen(x, nw, w, d) ==
  /\ x \in Item /\ x.id \notin IdSet(w) /\ x.id \notin IdSet(d)
  /\ \A k \in 1 .. Len(nw) : nw[k].kind \in {"color", "deleted"} => nw[k].id # x.id

LEMMA OwnInsert ==
  ASSUME NEW nw \in News, NEW w, NEW p, NEW d, RI(nw, w, p, d), Calm(nw, w, p), PaintsAndDeletes(nw),
         NEW i \in Positions(d), NEW x, Unseen(x, nw, w, d)
  PROVE  RI(nw, InsertAt(w, i + 2, x), p, InsertAt(d, i + 2, x))
<1>1. PICK L, M : Replay(nw, w, p, d, <<>>, L, M)
  BY DEF RI
<1>2. w \in Lists /\ d \in Lists /\ SameIds(w, d)
  BY <1>1, ReplayTyped, SameAtBoth
<1>3. i + 2 \in 1 .. Len(w) + 1 /\ i + 2 \in 1 .. Len(d) + 1
  BY <1>2, ListDomain DEF SameIds, Positions
<1>4. x \in Item /\ x.id \notin IdSet(w) /\ \A k \in 1 .. Len(nw) : nw[k].id # x.id
  BY DEF Unseen, PaintsAndDeletes
<1>5. \E L2, M2 : Replay(nw, InsertAt(w, i + 2, x), p, InsertAt(d, i + 2, x), <<>>, L2, M2)
  BY <1>1, <1>3, <1>4, InsertAll
<1>6. IdSet(d) \subseteq IdSet(InsertAt(d, i + 2, x))
  BY <1>2, <1>3, <1>4, InsertList
<1> QED
  BY <1>5, <1>6, KnownMore DEF RI

LEMMA OwnAppend ==
  ASSUME NEW nw \in News, NEW w, NEW p, NEW d, RI(nw, w, p, d), NEW x, Unseen(x, nw, w, d)
  PROVE  RI(nw, Append(w, x), p, Append(d, x))
<1>1. PICK L, M : Replay(nw, w, p, d, <<>>, L, M)
  BY DEF RI
<1>2. w \in Lists /\ d \in Lists
  BY <1>1, ReplayTyped
<1>3. \E L2, M2 : Replay(nw, Append(w, x), p, Append(d, x), <<>>, L2, M2)
  BY <1>1, AppendAll DEF Unseen
<1>4. IdSet(d) \subseteq IdSet(Append(d, x))
  BY <1>2, AppendList DEF Unseen
<1> QED
  BY <1>3, <1>4, KnownMore DEF RI

-----------------------------------------------------------------------------
(* The rows                                                                  *)

Row == [number : Int, name : AnyName, classes : SUBSET Ids, marked : BOOLEAN, idx : Int]

(* What a row at k still says of its workspace after the patches in tch.     *)
RowFits(r, k, x, a, rec, tch) ==
  /\ "index" \notin tch => r.number = k /\ r.idx = k - 1
  /\ "index" \notin tch /\ "name" \notin tch => r.name = x.name
  /\ tch = {} => r.marked = (k - 1 = a) /\ r.classes \subseteq {x.id}
  /\ tch = {} /\ ~ rec => r.classes = ClassesOf(x)
RowsFit(w, a, rs, rev, rec, tch) ==
  /\ rs \in Seq(Row) /\ (rev => Len(rs) = Len(w)) /\ (~ rev => rs = <<>>)
  /\ \A k \in 1 .. Len(rs) : RowFits(rs[k], k, w[k], a, rec, tch)

LEMMA RowsDomain ==
  ASSUME NEW w \in Lists, NEW a, NEW rs, NEW rev \in BOOLEAN, NEW rec, NEW tch,
         RowsFit(w, a, rs, rev, rec, tch)
  PROVE  /\ Len(rs) \in Nat /\ DOMAIN rs = 1 .. Len(rs) /\ rs \in [1 .. Len(rs) -> Row]
         /\ \A k \in 1 .. Len(rs) : rs[k] \in Row /\ RowFits(rs[k], k, w[k], a, rec, tch)
                                    /\ k \in 1 .. Len(w) /\ w[k] \in Item
<1>1. rs \in Seq(Row) /\ \A k \in 1 .. Len(rs) : RowFits(rs[k], k, w[k], a, rec, tch)
  BY DEF RowsFit
<1>2. Len(rs) \in Nat /\ DOMAIN rs = 1 .. Len(rs) /\ rs \in [1 .. Len(rs) -> Row]
  BY <1>1
<1>3. \A k \in 1 .. Len(rs) : k \in 1 .. Len(w)
  <2>1. CASE rev
    BY <2>1 DEF RowsFit
  <2>2. CASE ~ rev
    BY <2>2 DEF RowsFit
  <2> QED
    BY <2>1, <2>2
<1> QED
  BY <1>1, <1>2, <1>3, ListDomain

LEMMA RowsOfSize ==
  ASSUME NEW n \in Nat, NEW f \in [1 .. n -> Row]
  PROVE  f \in Seq(Row) /\ Len(f) = n
<1>1. f \in Seq(Row)
  BY FunctionIsSeq
<1>2. DOMAIN f = 1 .. n
  OBVIOUS
<1> QED
  BY <1>1, <1>2, LenProperties

LEMMA ClassesTyped ==
  ASSUME NEW x \in Item
  PROVE  ClassesOf(x) \subseteq {x.id} /\ ClassesOf(x) \in SUBSET Ids
BY DEF ClassesOf, Item

(* refresh_workspace_sidebar builds rows that say everything.                *)
LEMMA RowsBuilt ==
  ASSUME NEW w \in Lists, NEW a, NEW rev \in BOOLEAN, NEW rec, NEW rs,
         rs = IF rev THEN RowsOf(w, a) ELSE <<>>
  PROVE  RowsFit(w, a, rs, rev, rec, {})
<1>1. CASE rev
  <2> DEFINE f(k) == [number |-> k, name |-> w[k].name, classes |-> ClassesOf(w[k]),
                      marked |-> k - 1 = a, idx |-> k - 1]
  <2>1. Len(w) \in Nat /\ DOMAIN w = 1 .. Len(w) /\ \A k \in 1 .. Len(w) : w[k] \in Item
    BY ListDomain
  <2>2. rs = [k \in 1 .. Len(w) |-> f(k)]
    BY <1>1, <2>1 DEF RowsOf
  <2>3. \A k \in 1 .. Len(w) : f(k) \in Row
    <3>1. ASSUME NEW k \in 1 .. Len(w) PROVE f(k) \in Row
      <4>1. w[k].name \in AnyName /\ ClassesOf(w[k]) \in SUBSET Ids /\ k \in Int /\ k - 1 \in Int
        BY <2>1, ClassesTyped DEF Item
      <4> QED
        BY <4>1 DEF Row
    <3> QED
      BY <3>1
  <2>4. \A k \in 1 .. Len(w) : RowFits(f(k), k, w[k], a, rec, {})
    <3>1. ASSUME NEW k \in 1 .. Len(w) PROVE RowFits(f(k), k, w[k], a, rec, {})
      <4>1. ClassesOf(w[k]) \subseteq {w[k].id}
        BY <2>1, ClassesTyped
      <4> QED
        BY <4>1 DEF RowFits
    <3> QED
      BY <3>1
  <2> HIDE DEF f
  <2>5. rs \in [1 .. Len(w) -> Row]
    BY <2>2, <2>3
  <2>6. rs \in Seq(Row) /\ Len(rs) = Len(w)
    BY <2>1, <2>5, RowsOfSize
  <2> QED
    BY <1>1, <2>2, <2>4, <2>6 DEF RowsFit
<1>2. CASE ~ rev
  <2>1. rs = <<>>
    BY <1>2
  <2> QED
    BY <1>2, <2>1 DEF RowsFit
<1> QED
  BY <1>1, <1>2

(* The list gets other colours: the rows wait for the idle callback.         *)
LEMMA RowsAwaitColors ==
  ASSUME NEW w \in Lists, NEW v \in Lists, NEW a, NEW rs, NEW rev \in BOOLEAN, NEW rec, NEW tch,
         RowsFit(w, a, rs, rev, rec, tch), SameIds(w, v), \A k \in 1 .. Len(w) : v[k].name = w[k].name
  PROVE  RowsFit(v, a, rs, rev, TRUE, tch)
<1>1. \A k \in 1 .. Len(rs) : RowFits(rs[k], k, w[k], a, rec, tch) /\ k \in 1 .. Len(w)
  BY RowsDomain
<1>2. \A k \in 1 .. Len(rs) : v[k].id = w[k].id /\ v[k].name = w[k].name
  BY <1>1 DEF SameIds
<1>3. \A k \in 1 .. Len(rs) : RowFits(rs[k], k, v[k], a, TRUE, tch)
  BY <1>1, <1>2 DEF RowFits
<1> QED
  BY <1>3 DEF RowsFit, SameIds

(* rebuild_sidebar_rows_for_color                                            *)
LEMMA RowsRecolored ==
  ASSUME NEW w \in Lists, NEW a, NEW rs, NEW rev \in BOOLEAN, NEW rec, NEW tch,
         RowsFit(w, a, rows, rev, rec, tch), rs = rebuild_sidebar_rows_for_color(w)
  PROVE  RowsFit(w, a, rs, rev, FALSE, tch)
<1>1. /\ Len(rows) \in Nat /\ DOMAIN rows = 1 .. Len(rows)
      /\ \A k \in 1 .. Len(rows) : /\ rows[k] \in Row /\ RowFits(rows[k], k, w[k], a, rec, tch)
                                   /\ k \in 1 .. Len(w)
  BY RowsDomain
<1>2. DOMAIN w = 1 .. Len(w) /\ \A k \in 1 .. Len(w) : w[k] \in Item
  BY ListDomain
<1>3. rs = [k \in 1 .. Len(rows) |-> Recolored(rows[k], w[k])]
  BY <1>1, <1>2 DEF rebuild_sidebar_rows_for_color
<1>4. ASSUME NEW k \in 1 .. Len(rows)
      PROVE  Recolored(rows[k], w[k]) \in Row /\ RowFits(Recolored(rows[k], w[k]), k, w[k], a, FALSE, tch)
  <2>1. PICK r, x : r = rows[k] /\ x = w[k]
    OBVIOUS
  <2>2. r \in Row /\ x \in Item /\ RowFits(r, k, x, a, rec, tch)
    BY <1>1, <1>2, <2>1
  <2>3. ClassesOf(x) \in SUBSET Ids /\ ClassesOf(x) \subseteq {x.id}
    BY <2>2, ClassesTyped
  <2>4. /\ Recolored(r, x) \in Row
        /\ Recolored(r, x).number = r.number /\ Recolored(r, x).name = r.name
        /\ Recolored(r, x).marked = r.marked /\ Recolored(r, x).idx = r.idx
        /\ Recolored(r, x).classes = (r.classes \ {x.id}) \cup ClassesOf(x)
    BY <2>2, <2>3 DEF Recolored, Row
  <2>5. tch = {} => Recolored(r, x).classes = ClassesOf(x)
    <3>1. tch = {} => r.classes \subseteq {x.id}
      BY <2>2 DEF RowFits
    <3> QED
      BY <2>4, <3>1
  <2>6. RowFits(Recolored(r, x), k, x, a, FALSE, tch)
    BY <2>2, <2>3, <2>4, <2>5 DEF RowFits
  <2> QED
    BY <2>1, <2>4, <2>6
<1>5. rs \in [1 .. Len(rows) -> Row]
  BY <1>3, <1>4
<1>6. rs \in Seq(Row) /\ Len(rs) = Len(rows)
  BY <1>1, <1>5, RowsOfSize
<1>7. \A k \in 1 .. Len(rs) : RowFits(rs[k], k, w[k], a, FALSE, tch)
  BY <1>3, <1>4, <1>6
<1>8. (rev => Len(rs) = Len(w)) /\ (~ rev => rs = <<>>)
  <2>1. CASE rev
    BY <1>6, <2>1 DEF RowsFit
  <2>2. CASE ~ rev
    <3>1. Len(rs) = 0
      BY <1>6, <2>2 DEF RowsFit
    <3> QED
      BY <1>6, <2>2, <3>1, EmptySeq
  <2> QED
    BY <2>1, <2>2
<1> QED
  BY <1>6, <1>7, <1>8 DEF RowsFit

(* A dialog opened from a row's menu writes all the labels and classes.      *)
LEMMA RowsRewritten ==
  ASSUME NEW w \in Lists, NEW v \in Lists, NEW a, NEW rs, NEW rev \in BOOLEAN, NEW rec, NEW tch,
         RowsFit(w, a, rows, rev, rec, tch), SameIds(w, v),
         rs = Relabelled(rebuild_sidebar_rows_for_color(v), v)
  PROVE  RowsFit(v, a, rs, rev, rec, tch)
<1>1. /\ Len(rows) \in Nat /\ DOMAIN rows = 1 .. Len(rows)
      /\ \A k \in 1 .. Len(rows) : /\ rows[k] \in Row /\ RowFits(rows[k], k, w[k], a, rec, tch)
                                   /\ k \in 1 .. Len(w)
  BY RowsDomain
<1>2. DOMAIN v = 1 .. Len(w) /\ \A k \in 1 .. Len(w) : v[k] \in Item /\ v[k].id = w[k].id
  BY ListDomain DEF SameIds
<1> DEFINE f(r, x) == [Recolored(r, x) EXCEPT !.name = x.name]
<1>3. rs = [k \in 1 .. Len(rows) |-> f(rows[k], v[k])]
  <2>1. PICK s : s = rebuild_sidebar_rows_for_color(v)
    OBVIOUS
  <2>2. s = [k \in 1 .. Len(rows) |-> Recolored(rows[k], v[k])]
    BY <1>1, <1>2, <2>1 DEF rebuild_sidebar_rows_for_color
  <2>3. rs = [k \in DOMAIN s |-> IF k \in DOMAIN v THEN [s[k] EXCEPT !.name = v[k].name] ELSE s[k]]
    BY <2>1 DEF Relabelled
  <2>4. DOMAIN s = 1 .. Len(rows) /\ \A k \in 1 .. Len(rows) : s[k] = Recolored(rows[k], v[k]) /\ k \in DOMAIN v
    BY <1>1, <1>2, <2>2
  <2> QED
    BY <2>3, <2>4
<1>4. ASSUME NEW r \in Row, NEW x \in Item
      PROVE  /\ f(r, x) \in Row /\ f(r, x).number = r.number /\ f(r, x).name = x.name
             /\ f(r, x).marked = r.marked /\ f(r, x).idx = r.idx
             /\ f(r, x).classes = (r.classes \ {x.id}) \cup ClassesOf(x)
  <2>1. ClassesOf(x) \in SUBSET Ids /\ x.name \in AnyName
    BY ClassesTyped DEF Item
  <2>2. /\ Recolored(r, x) \in Row /\ Recolored(r, x).number = r.number
        /\ Recolored(r, x).marked = r.marked /\ Recolored(r, x).idx = r.idx
        /\ Recolored(r, x).classes = (r.classes \ {x.id}) \cup ClassesOf(x)
    BY <2>1 DEF Recolored, Row
  <2> QED
    BY <2>1, <2>2 DEF Row
<1> HIDE DEF f
<1>5. ASSUME NEW k \in 1 .. Len(rows)
      PROVE  f(rows[k], v[k]) \in Row /\ RowFits(f(rows[k], v[k]), k, v[k], a, rec, tch)
  <2>1. PICK r, x : r = rows[k] /\ x = v[k]
    OBVIOUS
  <2>2. r \in Row /\ x \in Item /\ RowFits(r, k, w[k], a, rec, tch) /\ w[k].id = x.id
    BY <1>1, <1>2, <2>1
  <2>3. ClassesOf(x) \subseteq {x.id}
    BY <2>2, ClassesTyped
  <2>4. tch = {} => f(r, x).classes = ClassesOf(x)
    <3>1. tch = {} => r.classes \subseteq {x.id}
      BY <2>2 DEF RowFits
    <3>2. f(r, x).classes = (r.classes \ {x.id}) \cup ClassesOf(x)
      BY <1>4, <2>2
    <3> QED
      BY <3>1, <3>2
  <2>5. RowFits(f(r, x), k, x, a, rec, tch)
    BY <1>4, <2>2, <2>3, <2>4 DEF RowFits
  <2> QED
    BY <1>4, <2>1, <2>2, <2>5
<1>6. rs \in [1 .. Len(rows) -> Row]
  BY <1>3, <1>5
<1>7. rs \in Seq(Row) /\ Len(rs) = Len(rows)
  BY <1>1, <1>6, RowsOfSize
<1>8. \A k \in 1 .. Len(rs) : RowFits(rs[k], k, v[k], a, rec, tch)
  BY <1>3, <1>5, <1>7
<1>9. (rev => Len(rs) = Len(v)) /\ (~ rev => rs = <<>>)
  <2>1. CASE rev
    BY <1>7, <2>1 DEF RowsFit, SameIds
  <2>2. CASE ~ rev
    <3>1. Len(rs) = 0
      BY <1>7, <2>2 DEF RowsFit
    <3> QED
      BY <1>7, <2>2, <3>1, EmptySeq
  <2> QED
    BY <2>1, <2>2
<1> QED
  BY <1>7, <1>8, <1>9 DEF RowsFit

(* Another client's move: numbers and names are written, marks are not.      *)
LEMMA RowsReordered ==
  ASSUME NEW w \in Lists, NEW v \in Lists, NEW a, NEW b, NEW rs, NEW rev \in BOOLEAN, NEW rec, NEW tch,
         RowsFit(w, a, rows, rev, rec, tch), Len(v) = Len(w), NEW rec2, NEW tch2,
         "mark" \in tch2, "index" \in tch => "index" \in tch2,
         rs = refresh_sidebar_row_labels(v)
  PROVE  RowsFit(v, b, rs, rev, rec2, tch2)
<1>1. /\ Len(rows) \in Nat /\ DOMAIN rows = 1 .. Len(rows)
      /\ \A k \in 1 .. Len(rows) : /\ rows[k] \in Row /\ RowFits(rows[k], k, w[k], a, rec, tch)
                                   /\ k \in 1 .. Len(w)
  BY RowsDomain
<1>2. DOMAIN v = 1 .. Len(w) /\ \A k \in 1 .. Len(w) : v[k] \in Item
  BY ListDomain
<1> DEFINE f(r, k, x) == [Recolored(r, x) EXCEPT !.number = k, !.name = x.name]
<1>3. rs = [k \in 1 .. Len(rows) |-> f(rows[k], k, v[k])]
  BY <1>1, <1>2 DEF refresh_sidebar_row_labels
<1>4. ASSUME NEW r \in Row, NEW k \in Int, NEW x \in Item
      PROVE  f(r, k, x) \in Row /\ f(r, k, x).number = k /\ f(r, k, x).name = x.name
             /\ f(r, k, x).idx = r.idx
  <2>1. ClassesOf(x) \in SUBSET Ids /\ x.name \in AnyName
    BY ClassesTyped DEF Item
  <2>2. Recolored(r, x) \in Row /\ Recolored(r, x).idx = r.idx
    BY <2>1 DEF Recolored, Row
  <2> QED
    BY <2>1, <2>2 DEF Row
<1> HIDE DEF f
<1>5. ASSUME NEW k \in 1 .. Len(rows)
      PROVE  f(rows[k], k, v[k]) \in Row /\ RowFits(f(rows[k], k, v[k]), k, v[k], b, rec2, tch2)
  <2>1. rows[k] \in Row /\ v[k] \in Item /\ k \in Int /\ RowFits(rows[k], k, w[k], a, rec, tch)
    BY <1>1, <1>2
  <2> QED
    BY <1>4, <2>1 DEF RowFits
<1>6. rs \in [1 .. Len(rows) -> Row]
  BY <1>3, <1>5
<1>7. rs \in Seq(Row) /\ Len(rs) = Len(rows)
  BY <1>1, <1>6, RowsOfSize
<1>8. \A k \in 1 .. Len(rs) : RowFits(rs[k], k, v[k], b, rec2, tch2)
  BY <1>3, <1>5, <1>7
<1>9. (rev => Len(rs) = Len(v)) /\ (~ rev => rs = <<>>)
  <2>1. CASE rev
    BY <1>7, <2>1 DEF RowsFit
  <2>2. CASE ~ rev
    <3>1. Len(rs) = 0
      BY <1>7, <2>2 DEF RowsFit
    <3> QED
      BY <1>7, <2>2, <3>1, EmptySeq
  <2> QED
    BY <2>1, <2>2
<1> QED
  BY <1>7, <1>8, <1>9 DEF RowsFit

(* Another client's name goes to its row.                                    *)
LEMMA RowRenamed ==
  ASSUME NEW w \in Lists, NEW i \in Positions(w), NEW o \in AnyName, NEW a, NEW rs,
         NEW rev \in BOOLEAN, NEW rec, NEW tch, RowsFit(w, a, rows, rev, rec, tch),
         rs = IF i + 1 \in DOMAIN rows THEN [rows EXCEPT ![i + 1].name = o] ELSE rows
  PROVE  RowsFit(Named(w, i, o), a, rs, rev, rec, tch)
<1> DEFINE v == Named(w, i, o)
<1>1. /\ Len(rows) \in Nat /\ DOMAIN rows = 1 .. Len(rows) /\ rows \in [1 .. Len(rows) -> Row]
      /\ \A k \in 1 .. Len(rows) : /\ rows[k] \in Row /\ RowFits(rows[k], k, w[k], a, rec, tch)
                                   /\ k \in 1 .. Len(w) /\ w[k] \in Item
  BY RowsDomain
<1>2. i \in Int /\ i + 1 \in 1 .. Len(w) /\ Len(w) \in Nat
  BY ListDomain DEF Positions
<1>3. Len(v) = Len(w) /\ v \in Lists
      /\ \A k \in 1 .. Len(w) : v[k] = IF k = i + 1 THEN Titled(w[k], o) ELSE w[k]
  BY <1>2, NamedList
<1> HIDE DEF v
<1> DEFINE f(r) == [r EXCEPT !.name = o]
<1>4. \A r \in Row :
        /\ f(r) \in Row /\ f(r).name = o /\ f(r).number = r.number /\ f(r).idx = r.idx
        /\ f(r).marked = r.marked /\ f(r).classes = r.classes
  BY DEF Row
<1>5. \A x \in Item : Titled(x, o).name = o /\ Titled(x, o).id = x.id /\ ClassesOf(Titled(x, o)) = ClassesOf(x)
  BY DEF Item, Titled, ClassesOf
<1>6. rs = [k \in 1 .. Len(rows) |-> IF k = i + 1 THEN f(rows[k]) ELSE rows[k]]
  <2>1. CASE i + 1 \in DOMAIN rows
    <3>1. rs = [rows EXCEPT ![i + 1] = f(rows[i + 1])]
      BY <2>1
    <3> HIDE DEF f
    <3> QED
      BY <1>1, <2>1, <3>1
  <2>2. CASE i + 1 \notin DOMAIN rows
    <3>1. rs = rows
      BY <2>2
    <3> HIDE DEF f
    <3> QED
      BY <1>1, <2>2, <3>1
  <2> QED
    BY <2>1, <2>2
<1> HIDE DEF f
<1>7. ASSUME NEW k \in 1 .. Len(rows)
      PROVE  rs[k] \in Row /\ RowFits(rs[k], k, v[k], a, rec, tch)
  <2>1. rows[k] \in Row /\ w[k] \in Item /\ RowFits(rows[k], k, w[k], a, rec, tch) /\ k \in 1 .. Len(w)
    BY <1>1
  <2>2. CASE k = i + 1
    <3>1. rs[k] = f(rows[k]) /\ v[k] = Titled(w[k], o)
      BY <1>3, <1>6, <2>1, <2>2
    <3> QED
      BY <1>4, <1>5, <2>1, <3>1 DEF RowFits
  <2>3. CASE k # i + 1
    <3>1. rs[k] = rows[k] /\ v[k] = w[k]
      BY <1>3, <1>6, <2>1, <2>3
    <3> QED
      BY <2>1, <3>1
  <2> QED
    BY <2>2, <2>3
<1>8. rs \in [1 .. Len(rows) -> Row]
  <2>1. rs = [k \in 1 .. Len(rows) |-> rs[k]]
    BY <1>6
  <2> QED
    BY <1>7, <2>1
<1>9. rs \in Seq(Row) /\ Len(rs) = Len(rows)
  BY <1>1, <1>8, RowsOfSize
<1>10. (rev => Len(rs) = Len(v)) /\ (~ rev => rs = <<>>)
  <2>1. CASE rev
    BY <1>3, <1>9, <2>1 DEF RowsFit
  <2>2. CASE ~ rev
    <3>1. Len(rs) = 0
      BY <1>9, <2>2 DEF RowsFit
    <3> QED
      BY <1>9, <2>2, <3>1, EmptySeq
  <2> QED
    BY <2>1, <2>2
<1>11. RowsFit(v, a, rs, rev, rec, tch)
  BY <1>7, <1>9, <1>10 DEF RowsFit
<1> QED
  BY <1>11 DEF v

(* What does not concern the row of a renamed workspace.                     *)
LEMMA RowsKept ==
  ASSUME NEW w \in Lists, NEW v \in Lists, NEW a, NEW rs, NEW rev \in BOOLEAN, NEW rec, NEW tch,
         RowsFit(w, a, rs, rev, rec, tch), SameIds(w, v), NEW tch2, "name" \in tch2,
         "index" \in tch => "index" \in tch2
  PROVE  RowsFit(v, a, rs, rev, rec, tch2)
<1>1. \A k \in 1 .. Len(rs) : RowFits(rs[k], k, v[k], a, rec, tch2)
  BY DEF RowsFit, RowFits
<1> QED
  BY <1>1 DEF RowsFit, SameIds

(* A row goes; the ones below keep what they say.                            *)
LEMMA RowRemoved ==
  ASSUME NEW w \in Lists, NEW k \in 1 .. Len(w), NEW a, NEW b, NEW rs, NEW rev \in BOOLEAN, NEW rec,
         NEW tch, RowsFit(w, a, rows, rev, rec, tch), NEW tch2, "index" \in tch2,
         rs = IF k \in DOMAIN rows THEN RemoveAt(rows, k) ELSE rows
  PROVE  RowsFit(RemoveAt(w, k), b, rs, rev, rec, tch2)
<1>1. Len(w) \in Nat /\ Len(RemoveAt(w, k)) = Len(w) - 1
  BY ListDomain, RemoveList
<1>2. Len(rows) \in Nat /\ DOMAIN rows = 1 .. Len(rows) /\ rows \in Seq(Row)
  BY RowsDomain DEF RowsFit
<1>3. \A j, x : RowFits(rs[j], j, x, b, rec, tch2)
  BY DEF RowFits
<1>4. CASE rev
  <2>1. Len(rows) = Len(w) /\ k \in 1 .. Len(rows)
    BY <1>4 DEF RowsFit
  <2>2. rs = RemoveAt(rows, k)
    BY <1>2, <2>1
  <2>3. rs \in Seq(Row) /\ Len(rs) = Len(rows) - 1
    BY <1>2, <2>1, <2>2, RemoveAtProperties
  <2>4. Len(rs) = Len(RemoveAt(w, k))
    BY <1>1, <2>1, <2>3
  <2> QED
    BY <1>3, <1>4, <2>3, <2>4 DEF RowsFit
<1>5. CASE ~ rev
  <2>1. rows = <<>>
    BY <1>5 DEF RowsFit
  <2>2. rs = rows
    BY <2>1
  <2> QED
    BY <1>2, <1>3, <1>5, <2>1, <2>2 DEF RowsFit
<1> QED
  BY <1>4, <1>5

-----------------------------------------------------------------------------
(* The daemon's list up to what the window does not list                     *)

Cut(s, n) == SubSeq(s, 1, Len(s) - n)

LEMMA CutList ==
  ASSUME NEW s \in Lists, NEW n \in Nat, n < Len(s)
  PROVE  /\ Cut(s, n) \in Lists /\ Len(Cut(s, n)) = Len(s) - n
         /\ \A k \in 1 .. Len(s) - n : Cut(s, n)[k] = s[k]
         /\ IdSet(Cut(s, n)) \subseteq IdSet(s)
<1> DEFINE f == Cut(s, n)
<1>1. Len(s) \in Nat /\ \A k \in 1 .. Len(s) : s[k] \in Item
  BY ListDomain
<1>2. Len(s) - n \in Int /\ 1 <= Len(s) - n /\ \A k \in 1 .. Len(s) - n : s[k] \in Item /\ k \in 1 .. Len(s)
  BY <1>1
<1>3. f \in Lists /\ Len(f) = Len(s) - n /\ \A k \in 1 .. Len(s) - n : f[k] = s[k]
  <2>1. /\ f \in Seq(Item) /\ Len(f) = Len(s) - n
        /\ \A k \in 1 .. (Len(s) - n) - 1 + 1 : f[k] = s[1 + k - 1]
    BY <1>2, SubSeqProperties DEF Cut
  <2> HIDE DEF f
  <2> QED
    BY <1>1, <1>2, <2>1 DEF Lists
<1> HIDE DEF f
<1>4. IdSet(f) \subseteq IdSet(s)
  BY <1>2, <1>3 DEF IdSet
<1> QED
  BY <1>3, <1>4 DEF f

(* A list is what its places say, so two lists that agree on a cut and on    *)
(* the rest are the same.                                                    *)
LEMMA CutEqual ==
  ASSUME NEW s \in Lists, NEW n \in Nat, n < Len(s), NEW t \in Lists, Len(t) = Len(s) - n,
         \A k \in 1 .. Len(s) - n : t[k] = s[k]
  PROVE  Cut(s, n) = t
<1> DEFINE f == Cut(s, n)
<1>1. f \in Lists /\ Len(f) = Len(s) - n /\ \A k \in 1 .. Len(s) - n : f[k] = s[k]
  BY CutList
<1> HIDE DEF f
<1>2. f = t
  BY <1>1, ListsEqual
<1> QED
  BY <1>2 DEF f

LEMMA CutSame ==
  ASSUME NEW s \in Lists, NEW t \in Lists, NEW n \in Nat, n < Len(s), Len(t) = Len(s),
         \A k \in 1 .. Len(s) : k > Len(s) - n => t[k] = s[k]
  PROVE  Cut(t, n) = Cut(s, n) <=> t = s
<1> DEFINE f == Cut(s, n) g == Cut(t, n)
<1>1. /\ \A k \in 1 .. Len(s) - n : f[k] = s[k] /\ g[k] = t[k]
      /\ Len(s) \in Nat
  BY CutList, ListDomain
<1> HIDE DEF f, g
<1>2. ASSUME f = g PROVE t = s
  <2>1. \A k \in 1 .. Len(s) : t[k] = s[k]
    BY <1>1, <1>2
  <2> QED
    BY <2>1, ListsEqual
<1> QED
  BY <1>2 DEF f, g

(* What the gestures and calls about a workspace the window lists do.        *)
Put(s, p, x) == [s EXCEPT ![p] = x]

LEMMA CutExcept ==
  ASSUME NEW s \in Lists, NEW n \in Nat, n < Len(s), NEW f, f = Cut(s, n), NEW p \in 1 .. Len(f), NEW x \in Item,
         NEW t, t = Put(s, p, x), NEW g, g = Put(f, p, x)
  PROVE  t \in Lists /\ Len(t) = Len(s) /\ Cut(t, n) = g /\ (g = f <=> t = s)
<1>1. /\ f \in Lists /\ Len(f) = Len(s) - n /\ \A k \in 1 .. Len(s) - n : f[k] = s[k]
      /\ Len(s) \in Nat /\ s \in [1 .. Len(s) -> Item]
  BY CutList, ListDomain
<1>2. p \in 1 .. Len(s) - n
  BY <1>1
<1>3. t \in [1 .. Len(s) -> Item] /\ \A k \in 1 .. Len(s) : t[k] = IF k = p THEN x ELSE s[k]
  BY <1>1, <1>2 DEF Put
<1>4. t \in Lists /\ Len(t) = Len(s)
  BY ONLY <1>1, <1>3, ListOf
<1>5. f \in [1 .. Len(s) - n -> Item]
  BY <1>1, ListDomain
<1>6. g \in [1 .. Len(s) - n -> Item] /\ \A k \in 1 .. Len(s) - n : g[k] = IF k = p THEN x ELSE f[k]
  BY <1>2, <1>5 DEF Put
<1>7. g \in Lists /\ Len(g) = Len(s) - n
  <2>1. Len(s) - n \in Nat
    BY <1>1
  <2> QED
    BY ONLY <1>6, <2>1, ListOf
<1>8. \A k \in 1 .. Len(s) - n : g[k] = t[k]
  BY <1>1, <1>3, <1>6
<1>9. Cut(t, n) = g
  BY ONLY <1>4, <1>7, <1>8, CutEqual, n \in Nat, n < Len(s)
<1>10. \A k \in 1 .. Len(s) : k > Len(s) - n => t[k] = s[k]
  BY <1>1, <1>2, <1>3
<1>11. g = f <=> t = s
  BY ONLY <1>4, <1>9, <1>10, CutSame, f = Cut(s, n), n < Len(s), s \in Lists, n \in Nat, Zenon
<1> QED
  BY ONLY <1>4, <1>9, <1>11

LEMMA CutExchange ==
  ASSUME NEW s \in Lists, NEW n \in Nat, n < Len(s), NEW i \in Positions(Cut(s, n)), NEW j \in Positions(Cut(s, n)),
         NEW t, t = Exchange(s, i, j)
  PROVE  /\ t \in Lists /\ Len(t) = Len(s) /\ Cut(t, n) = Exchange(Cut(s, n), i, j)
         /\ Cut(t, n) = Cut(s, n) <=> t = s
<1> DEFINE f == Cut(s, n) g == Exchange(f, i, j)
<1>1. /\ f \in Lists /\ Len(f) = Len(s) - n /\ \A k \in 1 .. Len(s) - n : f[k] = s[k]
      /\ Len(s) \in Nat
  BY CutList, ListDomain
<1> HIDE DEF f
<1>2. /\ i \in Positions(s) /\ j \in Positions(s) /\ i + 1 \in 1 .. Len(s) - n /\ j + 1 \in 1 .. Len(s) - n
      /\ i \in Positions(f) /\ j \in Positions(f)
  BY <1>1 DEF Positions, f
<1>3. t \in Lists /\ Len(t) = Len(s) /\ \A k \in 1 .. Len(s) : t[k] = s[Place(i, j, k)]
  BY <1>2, ExchangeList
<1>4. /\ g \in Lists /\ Len(g) = Len(f)
      /\ \A k \in 1 .. Len(f) : g[k] = f[Place(i, j, k)] /\ Place(i, j, k) \in 1 .. Len(f)
  BY <1>1, <1>2, ExchangeList
<1> HIDE DEF g
<1>5. \A k \in 1 .. Len(s) - n : g[k] = t[k]
  <2> SUFFICES ASSUME NEW k \in 1 .. Len(s) - n PROVE g[k] = t[k]
    OBVIOUS
  <2>1. k \in 1 .. Len(s)
    BY <1>1
  <2>2. g[k] = f[Place(i, j, k)] /\ Place(i, j, k) \in 1 .. Len(s) - n
    BY <1>1, <1>4
  <2>3. f[Place(i, j, k)] = s[Place(i, j, k)]
    BY <1>1, <2>2
  <2> QED
    BY <1>3, <2>1, <2>2, <2>3
<1>6. Cut(t, n) = g
  BY <1>1, <1>3, <1>4, <1>5, CutEqual
<1>7. ASSUME NEW k \in 1 .. Len(s), k > Len(s) - n PROVE t[k] = s[k]
  <2>1. Place(i, j, k) = k
    BY <1>1, <1>2, <1>7 DEF Place
  <2> QED
    BY <1>3, <2>1
<1>8. Cut(t, n) = Cut(s, n) <=> t = s
  BY <1>3, <1>7, CutSame
<1> QED
  BY <1>3, <1>6, <1>8 DEF f, g

LEMMA CutRemove ==
  ASSUME NEW s \in Lists, NEW n \in Nat, n + 1 < Len(s), NEW f, f = Cut(s, n), NEW p \in 1 .. Len(f),
         NEW t, t = RemoveAt(s, p), NEW g, g = RemoveAt(f, p)
  PROVE  t \in Lists /\ Len(t) = Len(s) - 1 /\ Cut(t, n) = g /\ t # s /\ g # f
<1>1. /\ f \in Lists /\ Len(f) = Len(s) - n /\ \A k \in 1 .. Len(s) - n : f[k] = s[k]
      /\ Len(s) \in Nat
  BY CutList, ListDomain
<1>2. p \in 1 .. Len(s) - n /\ p \in 1 .. Len(s)
  BY <1>1
<1>3. /\ t \in Lists /\ Len(t) = Len(s) - 1
      /\ \A k \in 1 .. Len(s) - 1 : t[k] = IF k < p THEN s[k] ELSE s[k + 1]
  BY ONLY <1>2, RemoveList, t = RemoveAt(s, p), s \in Lists, Zenon
<1>4. /\ g \in Lists /\ Len(g) = Len(f) - 1
      /\ \A k \in 1 .. Len(f) - 1 : g[k] = IF k < p THEN f[k] ELSE f[k + 1]
  BY ONLY <1>1, RemoveList, g = RemoveAt(f, p), p \in 1 .. Len(f), Zenon
<1>5. ASSUME NEW k \in 1 .. Len(t) - n PROVE g[k] = t[k]
  <2>1. k \in 1 .. Len(f) - 1 /\ k \in 1 .. Len(s) - 1 /\ k \in 1 .. Len(s) - n /\ k + 1 \in 1 .. Len(s) - n
    BY <1>1, <1>3
  <2> QED
    BY <1>1, <1>3, <1>4, <2>1
<1>6. Cut(t, n) = g
  <2>1. n < Len(t) /\ Len(g) = Len(t) - n
    BY <1>1, <1>3, <1>4
  <2> QED
    BY <1>3, <1>4, <1>5, <2>1, CutEqual
<1>7. t # s /\ g # f
  BY <1>1, <1>3, <1>4
<1> QED
  BY <1>3, <1>6, <1>7

LEMMA CutInsert ==
  ASSUME NEW s \in Lists, NEW n \in Nat, n < Len(s), NEW i \in Positions(Cut(s, n)), NEW x \in Item,
         NEW t, t = InsertAt(s, i + 2, x)
  PROVE  t \in Lists /\ Len(t) = Len(s) + 1 /\ Cut(t, n) = InsertAt(Cut(s, n), i + 2, x)
<1> DEFINE f == Cut(s, n) g == InsertAt(f, i + 2, x)
<1>1. /\ f \in Lists /\ Len(f) = Len(s) - n /\ \A k \in 1 .. Len(s) - n : f[k] = s[k]
      /\ Len(s) \in Nat
  BY CutList, ListDomain
<1> HIDE DEF f
<1>2. i \in Int /\ i + 1 \in 1 .. Len(s) - n /\ i + 2 \in 1 .. Len(f) + 1 /\ i + 2 \in 1 .. Len(s) + 1
  BY <1>1 DEF Positions, f
<1>3. /\ t \in Lists /\ Len(t) = Len(s) + 1
      /\ \A k \in 1 .. Len(s) + 1 : t[k] = IF k < i + 2 THEN s[k] ELSE IF k = i + 2 THEN x ELSE s[k - 1]
  BY <1>2, InsertList
<1>4. /\ g \in Lists /\ Len(g) = Len(f) + 1
      /\ \A k \in 1 .. Len(f) + 1 : g[k] = IF k < i + 2 THEN f[k] ELSE IF k = i + 2 THEN x ELSE f[k - 1]
  <2>1. PICK p : p = i + 2
    OBVIOUS
  <2>2. f \in Lists /\ p \in 1 .. Len(f) + 1
    BY <1>1, <1>2, <2>1
  <2>3. /\ InsertAt(f, p, x) \in Lists /\ Len(InsertAt(f, p, x)) = Len(f) + 1
        /\ \A k \in 1 .. Len(f) + 1 :
             InsertAt(f, p, x)[k] = IF k < p THEN f[k] ELSE IF k = p THEN x ELSE f[k - 1]
    BY <2>2, InsertList
  <2> QED
    BY <2>1, <2>3
<1> HIDE DEF g
<1>5. ASSUME NEW k \in 1 .. Len(t) - n PROVE g[k] = t[k]
  <2>1. k \in 1 .. Len(f) + 1 /\ k \in 1 .. Len(s) + 1
    BY <1>1, <1>3
  <2>2. CASE k < i + 2
    <3>1. k \in 1 .. Len(s) - n
      BY <1>1, <1>2, <2>2
    <3> QED
      BY <1>1, <1>3, <1>4, <2>1, <2>2, <3>1
  <2>3. CASE k = i + 2
    BY <1>3, <1>4, <2>1, <2>3
  <2>4. CASE k > i + 2
    <3>1. k - 1 \in 1 .. Len(s) - n
      BY <1>1, <1>2, <1>3, <2>4
    <3>2. g[k] = f[k - 1] /\ t[k] = s[k - 1]
      BY <1>2, <1>3, <1>4, <2>1, <2>4
    <3> QED
      BY <1>1, <3>1, <3>2
  <2> QED
    BY <1>2, <2>2, <2>3, <2>4
<1>6. Cut(t, n) = g
  <2>1. n < Len(t) /\ Len(g) = Len(t) - n
    BY <1>1, <1>3, <1>4
  <2> QED
    BY <1>3, <1>4, <1>5, <2>1, CutEqual
<1> QED
  BY <1>3, <1>6 DEF f, g

LEMMA CutNothing ==
  ASSUME NEW s \in Lists, Len(s) > 0
  PROVE  Cut(s, 0) = s
<1>1. Len(s) \in Nat /\ 0 \in Nat /\ 0 < Len(s) /\ Len(s) = Len(s) - 0
  BY ListDomain
<1> QED
  BY <1>1, CutEqual

(* Workspaces that come and go where the window does not see it.             *)
LEMMA CutMore ==
  ASSUME NEW s \in Lists, NEW n \in Nat, n < Len(s), NEW t \in Lists, Len(t) = Len(s) + 1,
         \A k \in 1 .. Len(s) - n : t[k] = s[k]
  PROVE  Cut(t, n + 1) = Cut(s, n)
<1> DEFINE f == Cut(s, n)
<1>1. /\ f \in Lists /\ Len(f) = Len(s) - n /\ \A k \in 1 .. Len(s) - n : f[k] = s[k]
      /\ Len(s) \in Nat
  BY CutList, ListDomain
<1> HIDE DEF f
<1>2. n + 1 \in Nat /\ n + 1 < Len(t) /\ Len(f) = Len(t) - (n + 1) /\ Len(t) - (n + 1) = Len(s) - n
  BY <1>1
<1>3. \A k \in 1 .. Len(t) - (n + 1) : f[k] = t[k]
  BY <1>1, <1>2
<1>4. Cut(t, n + 1) = f
  BY <1>1, <1>2, <1>3, CutEqual
<1> QED
  BY <1>4 DEF f

LEMMA CutLess ==
  ASSUME NEW s \in Lists, NEW n \in Nat, n + 1 < Len(s)
  PROVE  Cut(s, n + 1) = RemoveAt(Cut(s, n), Len(s) - n)
<1> DEFINE f == Cut(s, n) g == RemoveAt(f, Len(s) - n)
<1>1. /\ f \in Lists /\ Len(f) = Len(s) - n /\ \A k \in 1 .. Len(s) - n : f[k] = s[k]
      /\ Len(s) \in Nat
  BY CutList, ListDomain
<1> HIDE DEF f
<1>2. Len(s) - n \in 1 .. Len(f)
  BY <1>1
<1>3. /\ g \in Lists /\ Len(g) = Len(f) - 1
      /\ \A k \in 1 .. Len(f) - 1 : g[k] = IF k < Len(s) - n THEN f[k] ELSE f[k + 1]
  BY <1>1, <1>2, RemoveList
<1> HIDE DEF g
<1>4. n + 1 \in Nat /\ Len(g) = Len(s) - (n + 1)
  BY <1>1, <1>3
<1>5. \A k \in 1 .. Len(s) - (n + 1) : g[k] = s[k]
  BY <1>1, <1>3
<1>6. Cut(s, n + 1) = g
  BY <1>3, <1>4, <1>5, CutEqual
<1> QED
  BY <1>6 DEF f, g

(* With nothing on its way the lists are one.                                *)
LEMMA NothingToReplay ==
  ASSUME NEW nw \in News, Len(nw) = 0, NEW v \in Lists, Unlike(v), NEW p, p = <<>>
  PROVE  RI(nw, v, p, v)
<1>1. p \in Moves
  BY DEF Moves
<1> DEFINE L == [k \in 0 .. 0 |-> v] M == [k \in 0 .. 0 |-> <<>>]
<1>2. L[0] = v /\ M[0] = <<>> /\ L \in [0 .. 0 -> Lists] /\ M \in [0 .. 0 -> Moves]
  BY <1>1
<1> HIDE DEF L, M
<1>3. Frames(0, L, M)
  BY <1>2 DEF Frames
<1>4. Steps(nw, L, M)
  BY DEF Steps
<1>5. Replay(nw, v, p, v, <<>>, L, M)
  BY <1>2, <1>3, <1>4 DEF Replay
<1>6. Known(nw, v)
  BY DEF Known
<1> QED
  BY <1>5, <1>6 DEF RI

-----------------------------------------------------------------------------
(* The invariant                                                             *)

Linked ==
  /\ news \in News /\ daemon \in Lists /\ unlisted \in Nat /\ unlisted < Len(daemon)
  /\ RI(news, ws, pending_reorders, Cut(daemon, unlisted))
(* The rows are nobody's once a workspace has gone that they still show.     *)
RowsStand(w, a, rs, rev, rec, tch) == "list" \notin tch => RowsFit(w, a, rs, rev, rec, tch)
(* The lists and their types, the rows as far as the patches since they were *)
(* built let them say anything, the title; and unless window and daemon have *)
(* parted, the replay that leads to the daemon's list up to the workspaces   *)
(* that the window does not list.                                            *)
SideInv ==
  /\ ws \in Lists /\ active_index \in Positions(ws) /\ revealed \in BOOLEAN
  /\ RowsStand(ws, active_index, rows, revealed, recolor, touched)
  /\ TitleNamesFront
  /\ ~ parted => Linked

LEMMA SomeLeft ==
  ASSUME NEW nw \in News, NEW w, NEW p, NEW d, d # <<>>, RI(nw, w, p, d)
  PROVE  /\ w \in Lists /\ d \in Lists /\ Unlike(w) /\ Unlike(d) /\ p \in Moves
         /\ Len(d) \in Nat /\ Len(w) \in Nat /\ Len(w) > 0
<1>1. PICK L, M : Replay(nw, w, p, d, <<>>, L, M)
  BY DEF RI
<1>2. /\ w \in Lists /\ d \in Lists /\ Unlike(w) /\ Unlike(d)
      /\ IdSet(d) \subseteq IdSet(w) /\ p \in Moves
  BY <1>1, ReplayTyped
<1>3. Len(d) \in Nat /\ Len(w) \in Nat /\ Len(d) > 0
  BY <1>2, ListDomain, NotEmpty
<1>4. Len(w) > 0
  <2>1. d[1].id \in IdSet(d)
    BY <1>3 DEF IdSet
  <2>2. PICK k \in 1 .. Len(w) : w[k].id = d[1].id
    BY <1>2, <2>1 DEF IdSet
  <2> QED
    BY <1>3, <2>2
<1> QED
  BY <1>2, <1>3, <1>4

LEMMA LinkedFacts ==
  ASSUME Linked, NEW d, d = Cut(daemon, unlisted)
  PROVE  /\ ws \in Lists /\ d \in Lists /\ Unlike(ws) /\ Unlike(d) /\ pending_reorders \in Moves
         /\ Len(ws) \in Nat /\ Len(ws) > 0 /\ Len(d) \in Nat /\ Len(d) > 0 /\ d # <<>>
         /\ news \in News /\ RI(news, ws, pending_reorders, d)
         /\ daemon \in Lists /\ unlisted \in Nat /\ unlisted < Len(daemon)
         /\ Len(d) = Len(daemon) - unlisted /\ \A k \in 1 .. Len(d) : d[k] = daemon[k]
<1>1. /\ news \in News /\ daemon \in Lists /\ unlisted \in Nat /\ unlisted < Len(daemon)
      /\ RI(news, ws, pending_reorders, d)
  BY DEF Linked
<1>2. /\ d \in Lists /\ Len(d) = Len(daemon) - unlisted /\ \A k \in 1 .. Len(d) : d[k] = daemon[k]
      /\ Len(daemon) \in Nat
  BY <1>1, CutList, ListDomain
<1>3. Len(d) > 0 /\ d # <<>>
  <2>1. Len(d) > 0
    BY <1>1, <1>2
  <2> QED
    BY <1>2, <2>1, NotEmpty
<1> QED
  BY <1>1, <1>2, <1>3, SomeLeft

(* What Part leaves to a gesture that keeps window and daemon together.      *)
LEMMA GestureCalm ==
  ASSUME Linked, ~ ForeignShifts
  PROVE  Calm(news, ws, pending_reorders)
<1>1. news \in News /\ pending_reorders \in Moves /\ ws \in Lists
  BY LinkedFacts
<1>2. Len(news) \in Nat /\ DOMAIN news = 1 .. Len(news) /\ ToSet(news) = {news[k] : k \in 1 .. Len(news)}
  BY <1>1, NewsDomain
<1>3. Cardinality(Shifts(news)) <= Len(pending_reorders)
  <2>1. ~ (Cardinality({k \in DOMAIN news : news[k].kind = "reordered"}) > Len(pending_reorders))
    BY Zenon DEF ForeignShifts
  <2>2. {k \in DOMAIN news : news[k].kind = "reordered"} = Shifts(news)
    BY <1>2 DEF Shifts
  <2>3. Cardinality(Shifts(news)) \in Nat
    <3>1. IsFiniteSet(1 .. Len(news)) /\ Shifts(news) \in SUBSET (1 .. Len(news))
      BY <1>2, FS_Interval DEF Shifts
    <3> QED
      BY <3>1, FS_Subset, FS_CardinalityType
  <2>4. Len(pending_reorders) \in Nat
    BY <1>1 DEF Moves
  <2>5. ~ (Cardinality(Shifts(news)) > Len(pending_reorders))
    BY <2>1, <2>2, Zenon
  <2> QED
    BY <2>3, <2>4, <2>5
<1>4. ASSUME NEW k \in 1 .. Len(news), news[k].kind = "deleted" PROVE news[k].id \notin IdSet(ws)
  <2>1. news[k] \in ToSet(news)
    BY <1>2
  <2>2. ~ \E j \in DOMAIN ws : ws[j].id = news[k].id
    BY <1>4, <2>1, Zenon DEF ForeignShifts
  <2>3. DOMAIN ws = 1 .. Len(ws)
    BY <1>1, ListDomain
  <2> QED
    BY <2>2, <2>3 DEF IdSet
<1> QED
  BY <1>3, <1>4 DEF Calm

(* When only answers are on their way, an index in one list is one in both.  *)
LEMMA SamePlaces ==
  ASSUME Linked, ~ ForeignShifts, NEW d, d = Cut(daemon, unlisted)
  PROVE  Calm(news, ws, pending_reorders) /\ SameIds(ws, d) /\ Positions(d) = Positions(ws)
<1>1. news \in News /\ RI(news, ws, pending_reorders, d)
  BY LinkedFacts
<1>2. Calm(news, ws, pending_reorders)
  BY GestureCalm
<1>3. SameIds(ws, d)
  BY <1>1, <1>2, SameAtBoth
<1> QED
  BY <1>2, <1>3 DEF SameIds, Positions

LEMMA NotOnItsWay ==
  ASSUME news \in News, NEW kinds, ~ ByIndexOnItsWay(kinds)
  PROVE  \A k \in 1 .. Len(news) : news[k].kind \notin kinds
BY NewsDomain DEF ByIndexOnItsWay

LEMMA IndexFree ==
  ASSUME news \in News, ~ ByIndexOnItsWay({"renamed", "reordered"})
  PROVE  PaintsAndDeletes(news)
<1>1. \A k \in 1 .. Len(news) : news[k].kind \notin {"renamed", "reordered"}
  BY NotOnItsWay
<1>2. \A k \in 1 .. Len(news) : news[k].kind \in {"renamed", "color", "reordered", "deleted"}
  BY NewsDomain, EventFields
<1> QED
  BY <1>1, <1>2 DEF PaintsAndDeletes

(* A new workspace's UUID is in no list and in no event.                      *)
LEMMA UnusedIsUnseen ==
  ASSUME Linked, NEW d, d = Cut(daemon, unlisted), NEW id \in Unused, NEW o \in Names
  PROVE  Unseen(Space(id, o), news, ws, d)
<1>1. /\ news \in News /\ ws \in Lists /\ daemon \in Lists /\ Known(news, d)
      /\ IdSet(d) \subseteq IdSet(daemon)
  <2>1. /\ news \in News /\ ws \in Lists /\ daemon \in Lists /\ RI(news, ws, pending_reorders, d)
        /\ unlisted \in Nat /\ unlisted < Len(daemon)
    BY LinkedFacts
  <2>2. IdSet(d) \subseteq IdSet(daemon)
    BY <2>1, CutList
  <2> QED
    BY <2>1, <2>2 DEF RI
<1>2. id \in Ids /\ (\A u \in ToSet(ws) \cup ToSet(daemon) : u.id # id)
      /\ \A u \in ToSet(news) : u.kind = "deleted" => u.id # id
  BY DEF Unused
<1>3. id \notin IdSet(ws) /\ id \notin IdSet(daemon) /\ id \notin IdSet(d)
  <2>1. \A s \in Lists : \A k \in 1 .. Len(s) : s[k] \in ToSet(s)
    BY ListDomain DEF ToSet
  <2> QED
    BY <1>1, <1>2, <2>1 DEF IdSet
<1>4. \A k \in 1 .. Len(news) : news[k].kind = "deleted" => news[k].id # id
  BY <1>1, <1>2, NewsDomain
<1>5. ASSUME NEW k \in 1 .. Len(news), news[k].kind = "color" PROVE news[k].id # id
  <2>1. Len(news) \in Nat
    BY <1>1, NewsDomain
  <2>2. news[k].id \in IdSet(d) \/ GoneLater(news, k, news[k].id)
    BY <1>1, <1>5 DEF Known
  <2>3. CASE GoneLater(news, k, news[k].id)
    <3>1. PICK m \in k + 1 .. Len(news) : news[m].kind = "deleted" /\ news[m].id = news[k].id
      BY <2>3 DEF GoneLater
    <3>2. m \in 1 .. Len(news)
      BY <2>1, <3>1
    <3> QED
      BY <1>4, <3>1, <3>2
  <2> QED
    BY <1>3, <2>2, <2>3
<1>6. Space(id, o) \in Item /\ Space(id, o).id = id
  BY <1>2 DEF Space, Item, AnyName, Hues
<1> QED
  BY <1>3, <1>4, <1>5, <1>6 DEF Unseen

LEMMA LocalPlace ==
  ASSUME ws \in Lists, Unlike(ws), NEW id
  PROVE  /\ id \notin IdSet(ws) => Local(id) = 0
         /\ \A k \in 1 .. Len(ws) : ws[k].id = id => Local(id) = k
<1> DEFINE I == {k \in 1 .. Len(ws) : ws[k].id = id}
<1>1. Local(id) = IF I # {} THEN Min(I) ELSE 0
  BY DEF Local, SelectInSeq
<1>2. id \notin IdSet(ws) => I = {}
  BY DEF IdSet
<1>3. ASSUME NEW k \in 1 .. Len(ws), ws[k].id = id PROVE Local(id) = k
  <2>1. I = {k}
    BY <1>3 DEF Unlike
  <2>2. Min({k}) = k
    <3>1. k \in Int /\ k <= k
      OBVIOUS
    <3> QED
      BY <3>1 DEF Min
  <2> HIDE DEF I
  <2> QED
    BY <1>1, <2>1, <2>2
<1> QED
  BY <1>1, <1>2, <1>3

LEMMA Refresh ==
  ASSUME ws' \in Lists, revealed' \in BOOLEAN, refresh_workspace_sidebar
  PROVE  RowsStand(ws', active_index', rows', revealed', recolor', touched')
<1>1. rows' = (IF revealed' THEN RowsOf(ws', active_index') ELSE <<>>) /\ touched' = {}
  BY DEF refresh_workspace_sidebar
<1>2. RowsFit(ws', active_index', rows', revealed', recolor', {})
  BY <1>1, RowsBuilt
<1> QED
  BY <1>1, <1>2 DEF RowsStand

(* The workspace in front stays in front of an exchange.                     *)
LEMMA FrontFollowed ==
  ASSUME ws \in Lists, active_index \in Positions(ws), NEW i \in Positions(ws), NEW j \in Positions(ws)
  PROVE  /\ Followed(i, j) \in Positions(Exchange(ws, i, j))
         /\ Exchange(ws, i, j)[Followed(i, j) + 1] = ws[active_index + 1]
         /\ Len(Exchange(ws, i, j)) = Len(ws)
<1>1. /\ Len(ws) \in Nat /\ i \in 0 .. Len(ws) - 1 /\ j \in 0 .. Len(ws) - 1
      /\ active_index \in 0 .. Len(ws) - 1
  BY ListDomain DEF Positions
<1>2. Len(Exchange(ws, i, j)) = Len(ws)
      /\ \A k \in 1 .. Len(ws) : Exchange(ws, i, j)[k] = ws[Place(i, j, k)]
  BY ExchangeList
<1>3. Followed(i, j) \in 0 .. Len(ws) - 1
  BY <1>1 DEF Followed
<1>4. Place(i, j, Followed(i, j) + 1) = active_index + 1
  BY <1>1 DEF Followed, Place
<1>5. Followed(i, j) + 1 \in 1 .. Len(ws)
  BY <1>1, <1>3
<1> QED
  BY <1>2, <1>3, <1>4, <1>5 DEF Positions

LEMMA AfterDeletePlace ==
  ASSUME ws \in Lists, active_index \in Positions(ws), NEW i \in Positions(ws), Len(ws) > 1
  PROVE  AfterDelete(i) \in 0 .. Len(ws) - 2
<1>1. /\ Len(ws) \in Nat /\ i \in 0 .. Len(ws) - 1 /\ active_index \in 0 .. Len(ws) - 1
  BY ListDomain DEF Positions
<1> QED
  BY <1>1 DEF AfterDelete

(* A call about a workspace the window lists: the daemon's list up to there   *)
(* becomes c, and e is on its way unless nothing has changed.                *)
Sent(d, e, c) ==
  /\ Sends(d, e, c)
  /\ daemon' \in Lists /\ unlisted < Len(daemon') /\ Cut(daemon', unlisted) = c
  /\ news' = IF c = d THEN news ELSE Append(news, e)

LEMMA RenameSent ==
  ASSUME Linked, NEW d, d = Cut(daemon, unlisted), NEW i \in Positions(d), NEW o \in AnyName,
         rename_workspace(i, o)
  PROVE  Sent(d, [kind |-> "renamed", at |-> i, name |-> o], Named(d, i, o))
<1>1. PICK e, t : /\ e = [kind |-> "renamed", at |-> i, name |-> o]
                  /\ t = [daemon EXCEPT ![i + 1].name = o]
  OBVIOUS
<1>2. daemon' = t /\ news' = IF t = daemon THEN news ELSE Append(news, e)
  BY <1>1, Zenon DEF rename_workspace, Told
<1>3. /\ daemon \in Lists /\ unlisted \in Nat /\ unlisted < Len(daemon) /\ d \in Lists /\ Unlike(d)
      /\ Len(d) = Len(daemon) - unlisted /\ \A k \in 1 .. Len(d) : d[k] = daemon[k]
  BY LinkedFacts
<1>4. i + 1 \in 1 .. Len(d) /\ daemon[i + 1] = d[i + 1] /\ d[i + 1] \in Item
  BY <1>3, ListDomain DEF Positions
<1>5. PICK x : x = Titled(d[i + 1], o)
  OBVIOUS
<1>6. x \in Item /\ x = [d[i + 1] EXCEPT !.name = o]
  BY <1>4, <1>5 DEF Titled, Item
<1>7. t = [daemon EXCEPT ![i + 1] = x] /\ [d EXCEPT ![i + 1].name = o] = [d EXCEPT ![i + 1] = x]
  BY <1>1, <1>4, <1>6
<1>8. [d EXCEPT ![i + 1].name = o] = Named(d, i, o)
  BY <1>3, NamedExcept
<1>9. /\ t \in Lists /\ Len(t) = Len(daemon) /\ Cut(t, unlisted) = Named(d, i, o)
      /\ Named(d, i, o) = d <=> t = daemon
  <2>1. PICK p, g : p = i + 1 /\ g = [d EXCEPT ![p] = x]
    OBVIOUS
  <2>2. t \in Lists /\ Len(t) = Len(daemon) /\ Cut(t, unlisted) = g /\ (g = d <=> t = daemon)
    <3>1. p \in 1 .. Len(d) /\ t = Put(daemon, p, x)
      BY <1>4, <1>7, <2>1 DEF Put
    <3>2. daemon \in Lists /\ unlisted \in Nat /\ unlisted < Len(daemon)
      BY <1>3
    <3>3. x \in Item /\ g = Put(d, p, x)
      BY <1>6, <2>1 DEF Put
    <3> QED
      BY ONLY <3>1, <3>2, <3>3, CutExcept, d = Cut(daemon, unlisted)
  <2> QED
    BY <1>7, <1>8, <2>1, <2>2
<1>10. Sends(d, e, Named(d, i, o))
  <2>1. Sends(d, [kind |-> "renamed", at |-> i, name |-> o], [d EXCEPT ![i + 1].name = o])
    BY <1>3, DaemonRenames
  <2> QED
    BY <1>1, <1>8, <2>1, Zenon
<1> QED
  BY <1>1, <1>2, <1>3, <1>9, <1>10 DEF Sent

LEMMA PaintSent ==
  ASSUME Linked, NEW d, d = Cut(daemon, unlisted), NEW i \in Positions(d), NEW h \in Hues,
         set_workspace_color(i, h)
  PROVE  Sent(d, [kind |-> "color", id |-> d[i + 1].id, color |-> h], Painted(d, d[i + 1].id, h))
<1>1. PICK e, t : /\ e = [kind |-> "color", id |-> daemon[i + 1].id, color |-> h]
                  /\ t = [daemon EXCEPT ![i + 1].color = h]
  OBVIOUS
<1>2. daemon' = t /\ news' = IF t = daemon THEN news ELSE Append(news, e)
  BY <1>1, Zenon DEF set_workspace_color, Told
<1>3. /\ daemon \in Lists /\ unlisted \in Nat /\ unlisted < Len(daemon) /\ d \in Lists /\ Unlike(d)
      /\ Len(d) = Len(daemon) - unlisted /\ \A k \in 1 .. Len(d) : d[k] = daemon[k]
  BY LinkedFacts
<1>4. i + 1 \in 1 .. Len(d) /\ daemon[i + 1] = d[i + 1] /\ d[i + 1] \in Item
  BY <1>3, ListDomain DEF Positions
<1>5. PICK x, y : x = Colored(d[i + 1], h) /\ y = d[i + 1].id
  OBVIOUS
<1>6. x \in Item /\ x = [d[i + 1] EXCEPT !.color = h]
  BY <1>4, <1>5 DEF Colored, Item
<1>7. t = [daemon EXCEPT ![i + 1] = x] /\ [d EXCEPT ![i + 1].color = h] = [d EXCEPT ![i + 1] = x]
  BY <1>1, <1>4, <1>6
<1>8. [d EXCEPT ![i + 1].color = h] = Painted(d, y, h)
  <2>1. [d EXCEPT ![i + 1].color = h] = Painted(d, d[i + 1].id, h)
    <3>1. PICK p : p = i + 1
      OBVIOUS
    <3>2. p \in 1 .. Len(d)
      BY <1>4, <3>1
    <3>3. d \in Lists /\ Unlike(d)
      BY <1>3
    <3>4. [d EXCEPT ![p].color = h] = Painted(d, d[p].id, h)
      BY ONLY <3>2, <3>3, ColoredExcept, h \in Hues, Zenon
    <3> QED
      BY <3>1, <3>4, Zenon
  <2> QED
    BY <1>5, <2>1, Zenon
<1>9. /\ t \in Lists /\ Len(t) = Len(daemon) /\ Cut(t, unlisted) = Painted(d, y, h)
      /\ Painted(d, y, h) = d <=> t = daemon
  <2>1. PICK p, g : p = i + 1 /\ g = [d EXCEPT ![p] = x]
    OBVIOUS
  <2>2. t \in Lists /\ Len(t) = Len(daemon) /\ Cut(t, unlisted) = g /\ (g = d <=> t = daemon)
    <3>1. p \in 1 .. Len(d) /\ t = Put(daemon, p, x)
      BY <1>4, <1>7, <2>1 DEF Put
    <3>2. daemon \in Lists /\ unlisted \in Nat /\ unlisted < Len(daemon)
      BY <1>3
    <3>3. x \in Item /\ g = Put(d, p, x)
      BY <1>6, <2>1 DEF Put
    <3> QED
      BY ONLY <3>1, <3>2, <3>3, CutExcept, d = Cut(daemon, unlisted)
  <2> QED
    BY <1>7, <1>8, <2>1, <2>2
<1>10. Sends(d, e, Painted(d, y, h)) /\ e = [kind |-> "color", id |-> y, color |-> h]
  <2>1. e = [kind |-> "color", id |-> d[i + 1].id, color |-> h]
    BY <1>1, <1>4
  <2>2. Sends(d, [kind |-> "color", id |-> d[i + 1].id, color |-> h], [d EXCEPT ![i + 1].color = h])
    BY <1>3, DaemonPaints
  <2> QED
    BY <1>5, <1>8, <2>1, <2>2
<1>11. Sent(d, e, Painted(d, y, h))
  BY <1>2, <1>3, <1>9, <1>10 DEF Sent
<1> QED
  BY <1>5, <1>10, <1>11

LEMMA MoveSent ==
  ASSUME Linked, NEW d, d = Cut(daemon, unlisted), NEW i \in Positions(d), NEW j \in Positions(d),
         reorder(i, j)
  PROVE  Sent(d, [kind |-> "reordered", from |-> i, to |-> j], Exchange(d, i, j))
<1>1. PICK e, t : e = [kind |-> "reordered", from |-> i, to |-> j] /\ t = Exchange(daemon, i, j)
  OBVIOUS
<1>2. daemon' = t /\ news' = IF t = daemon THEN news ELSE Append(news, e)
  BY <1>1, Zenon DEF reorder, Told
<1>3. daemon \in Lists /\ unlisted \in Nat /\ unlisted < Len(daemon) /\ d \in Lists /\ Unlike(d)
  BY LinkedFacts
<1>4. /\ t \in Lists /\ Len(t) = Len(daemon) /\ Cut(t, unlisted) = Exchange(d, i, j)
      /\ Cut(t, unlisted) = d <=> t = daemon
  BY <1>1, <1>3, CutExchange
<1>5. Sends(d, e, Exchange(d, i, j))
  BY <1>1, <1>3, DaemonReorders
<1> QED
  BY <1>1, <1>2, <1>3, <1>4, <1>5 DEF Sent

LEMMA DeleteSent ==
  ASSUME Linked, NEW d, d = Cut(daemon, unlisted), NEW i \in Positions(d), Len(d) > 1,
         handle_delete_workspace(i)
  PROVE  Sent(d, [kind |-> "deleted", id |-> d[i + 1].id], WithoutIndex(d, i))
<1>1. PICK e, t : e = [kind |-> "deleted", id |-> daemon[i + 1].id] /\ t = WithoutIndex(daemon, i)
  OBVIOUS
<1>2. daemon' = t /\ news' = IF t = daemon THEN news ELSE Append(news, e)
  BY <1>1, Zenon DEF handle_delete_workspace, Told
<1>3. /\ daemon \in Lists /\ unlisted \in Nat /\ unlisted < Len(daemon) /\ d \in Lists /\ Unlike(d)
      /\ Len(d) = Len(daemon) - unlisted /\ \A k \in 1 .. Len(d) : d[k] = daemon[k]
      /\ Len(daemon) \in Nat
  BY LinkedFacts, ListDomain
<1>4. e = [kind |-> "deleted", id |-> d[i + 1].id] /\ unlisted + 1 < Len(daemon)
  <2>1. i + 1 \in 1 .. Len(d)
    BY <1>3, ListDomain DEF Positions
  <2> QED
    BY <1>1, <1>3, <2>1
<1>5. /\ t \in Lists /\ Len(t) = Len(daemon) - 1 /\ Cut(t, unlisted) = WithoutIndex(d, i)
      /\ t # daemon /\ WithoutIndex(d, i) # d
  <2>1. PICK p, g : p = i + 1 /\ g = RemoveAt(d, p)
    OBVIOUS
  <2>2. t = RemoveAt(daemon, p) /\ g = WithoutIndex(d, i)
    BY <1>1, <2>1, Zenon DEF WithoutIndex
  <2>3. p \in 1 .. Len(d)
    BY <1>3, <2>1 DEF Positions
  <2>4. t \in Lists /\ Len(t) = Len(daemon) - 1 /\ Cut(t, unlisted) = g /\ t # daemon /\ g # d
    <3>1. daemon \in Lists /\ unlisted \in Nat /\ unlisted + 1 < Len(daemon) /\ t = RemoveAt(daemon, p)
      BY <1>3, <1>4, <2>2
    <3> QED
      BY ONLY <2>1, <2>3, <3>1, CutRemove, d = Cut(daemon, unlisted)
  <2> QED
    BY <2>2, <2>4
<1>6. Sends(d, e, WithoutIndex(d, i))
  BY <1>3, <1>4, DaemonDeletes
<1>7. unlisted < Len(t)
  BY <1>3, <1>4, <1>5
<1> QED
  BY <1>2, <1>4, <1>5, <1>6, <1>7 DEF Sent

(* The invariant's link from the replay of the events there are now.          *)
LEMMA LinkedAgain ==
  ASSUME Linked, NEW d, d = Cut(daemon, unlisted), NEW e, NEW c, Sent(d, e, c), unlisted' = unlisted,
         NEW nx, nx = IF c = d THEN news ELSE Append(news, e), RI(nx, ws', pending_reorders', c)
  PROVE  Linked'
<1>1. news \in News /\ unlisted \in Nat
  BY LinkedFacts
<1>2. nx \in News /\ news' = nx
  <2>1. Append(news, e) \in News
    BY <1>1, AppendProperties DEF News, Sent, Sends
  <2> QED
    BY <1>1, <2>1 DEF Sent
<1> QED
  BY <1>1, <1>2 DEF Linked, Sent

-----------------------------------------------------------------------------
(* Steps of the window                                                       *)

LEMMA StepKeepsAll ==
  ASSUME SideInv,
         UNCHANGED <<daemon, ws, active_index, pending_reorders, rows, revealed, recolor, window_title,
                     news, touched, unlisted, parted>>
  PROVE  SideInv'
BY DEF SideInv, Linked, TitleNamesFront

LEMMA StepToggle ==
  ASSUME SideInv, toggle_workspace_sidebar
  PROVE  SideInv'
<1>1. /\ ws' = ws /\ active_index' = active_index /\ revealed' \in BOOLEAN /\ refresh_workspace_sidebar
      /\ UNCHANGED <<daemon, news, pending_reorders, window_title, unlisted, parted>>
  BY DEF toggle_workspace_sidebar, SideInv, apart
<1>2. ws' \in Lists /\ active_index' \in Positions(ws')
  BY <1>1 DEF SideInv
<1>3. RowsStand(ws', active_index', rows', revealed', recolor', touched')
  BY <1>1, <1>2, Refresh
<1>4. TitleNamesFront' /\ (~ parted' => Linked')
  BY <1>1 DEF SideInv, Linked, TitleNamesFront
<1> QED
  BY <1>1, <1>2, <1>3, <1>4 DEF SideInv

LEMMA StepSwitch ==
  ASSUME SideInv, NEW i \in Positions(ws), switch_to(i)
  PROVE  SideInv'
<1>1. /\ ws' = ws /\ active_index' = i /\ revealed' = revealed /\ refresh_workspace_sidebar
      /\ update_window_title /\ UNCHANGED <<daemon, news, pending_reorders, unlisted, parted>>
  BY DEF switch_to, apart
<1>2. ws' \in Lists /\ active_index' \in Positions(ws') /\ revealed' \in BOOLEAN
  BY <1>1 DEF SideInv
<1>3. RowsStand(ws', active_index', rows', revealed', recolor', touched')
  BY <1>1, <1>2, Refresh
<1>4. TitleNamesFront'
  BY <1>1 DEF TitleNamesFront, update_window_title
<1>5. ~ parted' => Linked'
  BY <1>1 DEF SideInv, Linked
<1> QED
  BY <1>2, <1>3, <1>4, <1>5 DEF SideInv

LEMMA StepNew ==
  ASSUME SideInv, NEW o \in Names, show_new_workspace_dialog(o)
  PROVE  SideInv'
<1>1. ~ parted /\ Linked
  BY DEF show_new_workspace_dialog, AtDesk, HasRoom, SideInv
<1>2. PICK id \in Unused :
        /\ ws' = Append(ws, Space(id, o)) /\ daemon' = Append(daemon, Space(id, o)) /\ news' = news
  BY DEF show_new_workspace_dialog, Quiet
<1>3. /\ active_index' = Len(ws) /\ revealed' = revealed /\ pending_reorders' = pending_reorders
      /\ refresh_workspace_sidebar /\ update_window_title
      /\ parted' = (unlisted # 0) /\ unlisted' = unlisted
  BY DEF show_new_workspace_dialog
<1>4. PICK x, d : x = Space(id, o) /\ d = Cut(daemon, unlisted)
  OBVIOUS
<1>5. Unseen(x, news, ws, d)
  BY <1>1, <1>2, <1>4, UnusedIsUnseen
<1>6. ws' = Append(ws, x) /\ daemon' = Append(daemon, x)
  BY <1>2, <1>4
<1>7. /\ ws \in Lists /\ daemon \in Lists /\ Len(ws) \in Nat /\ Len(daemon) \in Nat /\ Len(daemon) > 0
      /\ news \in News /\ RI(news, ws, pending_reorders, d)
  BY <1>1, <1>4, LinkedFacts, ListDomain
<1>8. ws' \in Lists /\ Len(ws') = Len(ws) + 1 /\ daemon' \in Lists /\ Len(daemon') = Len(daemon) + 1
  BY <1>5, <1>6, <1>7, AppendList DEF Unseen
<1>9. active_index' \in Positions(ws') /\ revealed' \in BOOLEAN
  BY <1>3, <1>7, <1>8 DEF Positions, SideInv
<1>10. RowsStand(ws', active_index', rows', revealed', recolor', touched')
  BY <1>3, <1>8, <1>9, Refresh
<1>11. TitleNamesFront'
  BY <1>3 DEF TitleNamesFront, update_window_title
<1>12. ASSUME ~ parted' PROVE Linked'
  <2>1. unlisted = 0
    BY <1>3, <1>12
  <2>2. d = daemon
    BY <1>4, <1>7, <2>1, CutNothing
  <2>3. RI(news, Append(ws, x), pending_reorders, Append(daemon, x))
    BY <1>5, <1>7, <2>2, OwnAppend
  <2>4. Cut(daemon', 0) = daemon' /\ 0 < Len(daemon') /\ 0 \in Nat
    BY <1>7, <1>8, CutNothing
  <2>5. RI(news', ws', pending_reorders', Cut(daemon', unlisted'))
    BY <1>2, <1>3, <1>6, <2>1, <2>3, <2>4
  <2> QED
    BY <1>2, <1>3, <1>7, <1>8, <2>1, <2>4, <2>5 DEF Linked
<1> QED
  BY <1>8, <1>9, <1>10, <1>11, <1>12 DEF SideInv

(* delete_current_workspace: the daemon keeps it where the window has none.   *)
LEMMA StepDeleteCurrent ==
  ASSUME SideInv, delete_current_workspace
  PROVE  SideInv'
<1>1. ~ parted /\ Linked /\ Len(ws) > 1
  BY DEF delete_current_workspace, AtDesk, HasRoom, SideInv
<1>2. PICK i, d : i = active_index /\ d = Cut(daemon, unlisted)
  OBVIOUS
<1>3. /\ ws' = WithoutIndex(ws, i) /\ active_index' = AfterDelete(i)
      /\ touched' = touched \cup {"list"} /\ unlisted' = unlisted + 1
      /\ parted' = (news # <<>> \/ i # Len(ws) - 1)
      /\ UNCHANGED <<daemon, news, pending_reorders, rows, revealed, recolor>>
      /\ update_window_title
  BY <1>2, Zenon DEF delete_current_workspace
<1>4. /\ ws \in Lists /\ Len(ws) \in Nat /\ i \in Positions(ws) /\ i + 1 \in 1 .. Len(ws)
      /\ news \in News /\ RI(news, ws, pending_reorders, d) /\ d \in Lists
      /\ daemon \in Lists /\ unlisted \in Nat /\ Len(d) = Len(daemon) - unlisted /\ Len(daemon) \in Nat
  BY <1>1, <1>2, LinkedFacts, ListDomain DEF Positions, SideInv
<1>5. ws' \in Lists /\ Len(ws') = Len(ws) - 1
  BY <1>3, <1>4, RemoveList DEF WithoutIndex
<1>6. active_index' \in Positions(ws') /\ revealed' \in BOOLEAN
  <2>1. AfterDelete(i) \in 0 .. Len(ws) - 2
    BY <1>1, <1>4, AfterDeletePlace DEF SideInv
  <2> QED
    BY <1>3, <1>4, <1>5, <2>1 DEF Positions, SideInv
<1>7. RowsStand(ws', active_index', rows', revealed', recolor', touched')
  BY <1>3 DEF RowsStand
<1>8. TitleNamesFront'
  BY <1>3 DEF TitleNamesFront, update_window_title
<1>9. ASSUME ~ parted' PROVE Linked'
  <2>1. news = <<>> /\ i = Len(ws) - 1
    BY <1>3, <1>9
  <2>2. PICK L, M : Replay(news, ws, pending_reorders, d, <<>>, L, M)
    BY <1>4 DEF RI
  <2>3. Len(news) = 0
    BY <2>1
  <2>4. ws = d /\ pending_reorders = <<>>
    BY <2>2, <2>3 DEF Replay
  <2>5. unlisted + 1 \in Nat /\ unlisted + 1 < Len(daemon) /\ i + 1 = Len(daemon) - unlisted
    BY <1>1, <1>4, <2>1, <2>4
  <2>6. Cut(daemon, unlisted + 1) = ws'
    BY <1>2, <1>3, <1>4, <2>4, <2>5, CutLess DEF WithoutIndex
  <2>7. Unlike(ws')
    <3>1. Unlike(ws)
      BY <1>1, <1>2, LinkedFacts
    <3> QED
      BY <1>3, <1>4, <3>1, RemoveList DEF WithoutIndex
  <2>8. RI(news, ws', pending_reorders, ws')
    <3>1. PICK v, p : v = ws' /\ p = pending_reorders
      OBVIOUS
    <3>2. v \in Lists /\ Unlike(v) /\ p = <<>>
      BY <1>5, <2>4, <2>7, <3>1
    <3> QED
      BY <1>4, <2>3, <3>1, <3>2, NothingToReplay
  <2> QED
    BY <1>3, <1>4, <2>5, <2>6, <2>8 DEF Linked
<1> QED
  BY <1>5, <1>6, <1>7, <1>8, <1>9 DEF SideInv

LEMMA StepPaint ==
  ASSUME SideInv, NEW h \in Hues, apply_workspace_color(h)
  PROVE  SideInv'
<1>1. ~ parted /\ Linked /\ menu \in Positions(ws)
  BY DEF apply_workspace_color, Chosen, Both, HasRoom, SideInv
<1>2. PICK i, d : i = menu /\ d = Cut(daemon, unlisted)
  OBVIOUS
<1>3. /\ i \in Positions(ws) /\ i + 1 \in 1 .. Len(ws) /\ ws \in Lists /\ Unlike(ws)
      /\ news \in News /\ RI(news, ws, pending_reorders, d)
  BY <1>1, <1>2, LinkedFacts DEF Positions
<1>4. /\ set_workspace_color(i, h) /\ ws' = [ws EXCEPT ![i + 1].color = h] /\ recolor' = TRUE
      /\ UNCHANGED <<active_index, pending_reorders, rows, revealed, touched, window_title>>
      /\ Part(FALSE)
  BY <1>2, Zenon DEF apply_workspace_color
<1>5. ws' = Painted(ws, ws[i + 1].id, h)
  <2>1. [ws EXCEPT ![i + 1].color = h] = Painted(ws, ws[i + 1].id, h)
    BY <1>3, ColoredExcept
  <2> QED
    BY <1>4, <2>1, Zenon
<1>6. /\ ws' \in Lists /\ SameIds(ws, ws') /\ Len(ws') = Len(ws)
      /\ \A k \in 1 .. Len(ws) : ws'[k].name = ws[k].name
  <2>1. /\ ws' \in Lists /\ SameIds(ws, ws') /\ Len(ws') = Len(ws)
        /\ \A k \in 1 .. Len(ws) : ws'[k] = IF ws[k].id = ws[i + 1].id THEN Colored(ws[k], h) ELSE ws[k]
    BY <1>3, <1>5, PaintedList
  <2>2. \A r \in Item : Colored(r, h).name = r.name
    BY DEF Colored, Item
  <2>3. \A k \in 1 .. Len(ws) : ws[k] \in Item
    BY <1>3, ListDomain
  <2> QED
    BY <2>1, <2>2, <2>3
<1>7. active_index' \in Positions(ws') /\ revealed' \in BOOLEAN
  BY <1>4, <1>6 DEF Positions, SideInv
<1>8. RowsStand(ws', active_index', rows', revealed', recolor', touched')
  <2>1. ASSUME "list" \notin touched
        PROVE  RowsFit(ws', active_index', rows', revealed', recolor', touched')
    <3>1. RowsFit(ws, active_index, rows, revealed, recolor, touched) /\ revealed \in BOOLEAN
      BY <2>1 DEF SideInv, RowsStand
    <3> QED
      BY <1>3, <1>4, <1>6, <3>1, RowsAwaitColors
  <2> QED
    BY <1>4, <2>1 DEF RowsStand
<1>9. TitleNamesFront'
  <2>1. active_index + 1 \in 1 .. Len(ws)
    BY <1>3, ListDomain DEF SideInv, Positions
  <2>2. window_title = IF Len(ws) > 1 THEN ws[active_index + 1].name ELSE "none"
    BY DEF SideInv, TitleNamesFront
  <2> QED
    BY <1>4, <1>6, <2>1, <2>2 DEF TitleNamesFront
<1>10. ASSUME ~ parted' PROVE Linked'
  <2>1. ~ ForeignShifts /\ unlisted' = unlisted
    BY <1>4, <1>10, Zenon DEF Part
  <2>2. Calm(news, ws, pending_reorders) /\ SameIds(ws, d) /\ i \in Positions(d)
    BY <1>1, <1>2, <1>3, <2>1, SamePlaces
  <2>3. PICK x : x = d[i + 1].id
    OBVIOUS
  <2>4. PICK e, c, v : /\ e = [kind |-> "color", id |-> x, color |-> h]
                       /\ c = Painted(d, x, h) /\ v = Painted(ws, x, h)
    OBVIOUS
  <2>5. Sent(d, e, c)
    BY <1>1, <1>2, <1>4, <2>2, <2>3, <2>4, PaintSent
  <2>6. ws' = v
    <3>1. ws[i + 1].id = x
      BY <1>3, <2>2, <2>3 DEF SameIds
    <3> QED
      BY <1>5, <2>4, <3>1
  <2>7. PICK nx : nx = IF c = d THEN news ELSE Append(news, e)
    OBVIOUS
  <2>8. RI(nx, v, pending_reorders, c)
    <3>1. Sends(d, e, c) /\ e.kind = "color" /\ e.id = x /\ e.color = h
      BY <2>4, <2>5 DEF Sent
    <3> QED
      BY <1>3, <2>2, <2>4, <2>7, <3>1, OwnPaint
  <2>9. RI(nx, ws', pending_reorders', c)
    BY <1>4, <2>6, <2>8
  <2> QED
    BY <1>1, <1>2, <2>1, <2>5, <2>7, <2>9, LinkedAgain
<1> QED
  BY <1>6, <1>7, <1>8, <1>9, <1>10 DEF SideInv

LEMMA StepDuplicate ==
  ASSUME SideInv, NEW o \in Names, duplicate_workspace(o)
  PROVE  SideInv'
<1>1. ~ parted /\ Linked /\ menu \in Positions(ws)
  BY DEF duplicate_workspace, Chosen, Both, HasRoom, SideInv
<1>2. PICK i, d : i = menu /\ d = Cut(daemon, unlisted)
  OBVIOUS
<1>3. PICK id \in Unused :
        /\ ws' = InsertAt(ws, menu + 2, Space(id, o))
        /\ daemon' = InsertAt(daemon, menu + 2, Space(id, o)) /\ news' = news
  BY DEF duplicate_workspace, Quiet
<1>4. PICK x : x = Space(id, o)
  OBVIOUS
<1>5. /\ ws' = InsertAt(ws, i + 2, x) /\ daemon' = InsertAt(daemon, i + 2, x) /\ news' = news
      /\ active_index' = i + 1 /\ revealed' = revealed /\ pending_reorders' = pending_reorders
      /\ refresh_workspace_sidebar /\ update_window_title
      /\ Part(ByIndexOnItsWay({"renamed", "reordered"}))
  BY <1>2, <1>3, <1>4 DEF duplicate_workspace
<1>6. Unseen(x, news, ws, d) /\ x \in Item
  BY <1>1, <1>2, <1>4, UnusedIsUnseen DEF Unseen
<1>7. /\ ws \in Lists /\ Len(ws) \in Nat /\ i \in Positions(ws)
      /\ i \in 0 .. Len(ws) - 1 /\ i + 2 \in 1 .. Len(ws) + 1
      /\ news \in News /\ RI(news, ws, pending_reorders, d)
      /\ daemon \in Lists /\ unlisted \in Nat /\ unlisted < Len(daemon)
  BY <1>1, <1>2, LinkedFacts DEF Positions
<1>8. ws' \in Lists /\ Len(ws') = Len(ws) + 1
  BY <1>5, <1>6, <1>7, InsertList
<1>9. active_index' \in Positions(ws') /\ revealed' \in BOOLEAN
  BY <1>5, <1>7, <1>8 DEF Positions, SideInv
<1>10. RowsStand(ws', active_index', rows', revealed', recolor', touched')
  BY <1>5, <1>8, <1>9, Refresh
<1>11. TitleNamesFront'
  BY <1>5 DEF TitleNamesFront, update_window_title
<1>12. ASSUME ~ parted' PROVE Linked'
  <2>1. ~ ForeignShifts /\ ~ ByIndexOnItsWay({"renamed", "reordered"}) /\ unlisted' = unlisted
    BY <1>5, <1>12, Zenon DEF Part
  <2>2. Calm(news, ws, pending_reorders) /\ i \in Positions(d)
    BY <1>1, <1>2, <1>7, <2>1, SamePlaces
  <2>3. PaintsAndDeletes(news)
    BY <1>7, <2>1, IndexFree
  <2>4. RI(news, InsertAt(ws, i + 2, x), pending_reorders, InsertAt(d, i + 2, x))
    BY <1>6, <1>7, <2>2, <2>3, OwnInsert
  <2>5. daemon' \in Lists /\ Len(daemon') = Len(daemon) + 1 /\ Cut(daemon', unlisted) = InsertAt(d, i + 2, x)
    BY <1>2, <1>5, <1>6, <1>7, <2>2, CutInsert
  <2>6. unlisted < Len(daemon')
    <3>1. Len(daemon) \in Nat
      BY <1>7, ListDomain
    <3> QED
      BY <1>7, <2>5, <3>1
  <2>7. RI(news', ws', pending_reorders', Cut(daemon', unlisted'))
    BY <1>5, <2>1, <2>4, <2>5
  <2> QED
    BY <1>5, <1>7, <2>1, <2>5, <2>6, <2>7 DEF Linked
<1> QED
  BY <1>8, <1>9, <1>10, <1>11, <1>12 DEF SideInv

LEMMA StepMove ==
  ASSUME SideInv, NEW j \in Positions(ws), move_workspace(j)
  PROVE  SideInv'
<1>1. ~ parted /\ Linked /\ menu \in Positions(ws) /\ (j = menu - 1 \/ j = menu + 1)
  BY DEF move_workspace, Chosen, Both, HasRoom, SideInv
<1>2. PICK i, d : i = menu /\ d = Cut(daemon, unlisted)
  OBVIOUS
<1>3. ws \in Lists /\ i \in Positions(ws) /\ i # j /\ news \in News /\ RI(news, ws, pending_reorders, d)
  BY <1>1, <1>2, LinkedFacts DEF Positions
<1>4. /\ ws' = Exchange(ws, i, j) /\ active_index' = Followed(i, j) /\ reorder(i, j)
      /\ pending_reorders' = Append(pending_reorders, <<i, j>>)
      /\ revealed' = revealed /\ window_title' = window_title
      /\ refresh_workspace_sidebar /\ Part(ByIndexOnItsWay({"renamed"}))
  BY <1>2, Zenon DEF move_workspace
<1>5. ws' \in Lists /\ Len(ws') = Len(ws)
  BY <1>3, <1>4, ExchangeList
<1>6. active_index' \in Positions(ws') /\ ws'[active_index' + 1] = ws[active_index + 1]
  BY <1>3, <1>4, FrontFollowed DEF SideInv
<1>7. revealed' \in BOOLEAN
  BY <1>4 DEF SideInv
<1>8. RowsStand(ws', active_index', rows', revealed', recolor', touched')
  BY <1>4, <1>5, <1>7, Refresh
<1>9. TitleNamesFront'
  BY <1>4, <1>5, <1>6 DEF TitleNamesFront, SideInv
<1>10. ASSUME ~ parted' PROVE Linked'
  <2>1. ~ ForeignShifts /\ ~ ByIndexOnItsWay({"renamed"}) /\ unlisted' = unlisted
    BY <1>4, <1>10, Zenon DEF Part
  <2>2. Calm(news, ws, pending_reorders) /\ i \in Positions(d) /\ j \in Positions(d)
    BY <1>1, <1>2, <1>3, <2>1, SamePlaces
  <2>3. \A k \in 1 .. Len(news) : news[k].kind # "renamed"
    BY <1>3, <2>1, NotOnItsWay
  <2>4. PICK e, c : e = [kind |-> "reordered", from |-> i, to |-> j] /\ c = Exchange(d, i, j)
    OBVIOUS
  <2>5. Sent(d, e, c)
    BY <1>1, <1>2, <1>4, <2>2, <2>4, MoveSent
  <2>6. PICK nx : nx = IF c = d THEN news ELSE Append(news, e)
    OBVIOUS
  <2>7. RI(nx, Exchange(ws, i, j), Append(pending_reorders, <<i, j>>), c)
    BY <1>3, <2>2, <2>3, <2>4, <2>6, OwnMove
  <2>8. RI(nx, ws', pending_reorders', c)
    BY <1>4, <2>7
  <2> QED
    BY <1>1, <1>2, <2>1, <2>5, <2>6, <2>8, LinkedAgain
<1> QED
  BY <1>5, <1>6, <1>7, <1>8, <1>9, <1>10 DEF SideInv

LEMMA StepDelete ==
  ASSUME SideInv, delete_workspace_at_index
  PROVE  SideInv'
<1>1. ~ parted /\ Linked /\ menu \in Positions(ws) /\ Len(ws) > 1
  BY DEF delete_workspace_at_index, Chosen, Both, HasRoom, SideInv
<1>2. PICK i, d : i = menu /\ d = Cut(daemon, unlisted)
  OBVIOUS
<1>3. /\ ws \in Lists /\ Len(ws) \in Nat /\ i \in Positions(ws) /\ i + 1 \in 1 .. Len(ws)
      /\ news \in News /\ RI(news, ws, pending_reorders, d)
  BY <1>1, <1>2, LinkedFacts DEF Positions
<1>4. /\ ws' = WithoutIndex(ws, i) /\ active_index' = AfterDelete(i) /\ handle_delete_workspace(i)
      /\ revealed' = revealed /\ pending_reorders' = pending_reorders
      /\ refresh_workspace_sidebar /\ update_window_title
      /\ Part(ByIndexOnItsWay({"renamed", "reordered"}))
  BY <1>2, Zenon DEF delete_workspace_at_index
<1>5. ws' \in Lists /\ Len(ws') = Len(ws) - 1
  BY <1>3, <1>4, RemoveList DEF WithoutIndex
<1>6. active_index' \in Positions(ws') /\ revealed' \in BOOLEAN
  <2>1. AfterDelete(i) \in 0 .. Len(ws) - 2
    BY <1>1, <1>3, AfterDeletePlace DEF SideInv
  <2> QED
    BY <1>3, <1>4, <1>5, <2>1 DEF Positions, SideInv
<1>7. RowsStand(ws', active_index', rows', revealed', recolor', touched')
  BY <1>4, <1>5, <1>6, Refresh
<1>8. TitleNamesFront'
  BY <1>4 DEF TitleNamesFront, update_window_title
<1>9. ASSUME ~ parted' PROVE Linked'
  <2>1. ~ ForeignShifts /\ ~ ByIndexOnItsWay({"renamed", "reordered"}) /\ unlisted' = unlisted
    BY <1>4, <1>9, Zenon DEF Part
  <2>2. Calm(news, ws, pending_reorders) /\ i \in Positions(d) /\ Len(d) > 1
    BY <1>1, <1>2, <1>3, <2>1, SamePlaces DEF SameIds
  <2>3. PaintsAndDeletes(news)
    BY <1>3, <2>1, IndexFree
  <2>4. PICK e, c : e = [kind |-> "deleted", id |-> d[i + 1].id] /\ c = WithoutIndex(d, i)
    OBVIOUS
  <2>5. Sent(d, e, c)
    BY <1>1, <1>2, <1>4, <2>2, <2>4, DeleteSent
  <2>6. PICK nx : nx = IF c = d THEN news ELSE Append(news, e)
    OBVIOUS
  <2>7. RI(nx, WithoutIndex(ws, i), pending_reorders, c)
    BY <1>3, <2>2, <2>3, <2>4, <2>6, OwnDelete
  <2>8. RI(nx, ws', pending_reorders', c)
    BY <1>4, <2>7
  <2> QED
    BY <1>1, <1>2, <2>1, <2>5, <2>6, <2>8, LinkedAgain
<1> QED
  BY <1>5, <1>6, <1>7, <1>8, <1>9 DEF SideInv

(* show_rename_workspace_dialog's answer: the name goes to the index the     *)
(* dialog was opened for.                                                    *)
LEMMA StepRename ==
  ASSUME SideInv, NEW o \in Names, Renamed(o)
  PROVE  SideInv'
<1>1. ~ parted /\ Linked /\ dialog.at \in Positions(ws)
  BY DEF Renamed, Both, HasRoom, SideInv
<1>2. PICK i, d : i = dialog.at /\ d = Cut(daemon, unlisted)
  OBVIOUS
<1>3. /\ ws \in Lists /\ Len(ws) \in Nat /\ i \in Positions(ws) /\ i \in Int /\ o \in AnyName
      /\ news \in News /\ RI(news, ws, pending_reorders, d)
  BY <1>1, <1>2, LinkedFacts DEF Positions, AnyName
<1>4. /\ ws' = [ws EXCEPT ![i + 1].name = o] /\ rename_workspace(i, o)
      /\ UNCHANGED <<active_index, pending_reorders, revealed, recolor>>
      /\ update_window_title /\ Part(FALSE)
  BY <1>2, Zenon DEF Renamed
<1>5. ws' = Named(ws, i, o)
  <2>1. [ws EXCEPT ![i + 1].name = o] = Named(ws, i, o)
    BY <1>3, NamedExcept
  <2> QED
    BY <1>4, <2>1, Zenon
<1>6. ws' \in Lists /\ SameIds(ws, ws') /\ Len(ws') = Len(ws)
  BY <1>3, <1>5, NamedList
<1>7. active_index' \in Positions(ws') /\ revealed' \in BOOLEAN
  BY <1>4, <1>6 DEF Positions, SideInv
<1>8. RowsStand(ws', active_index', rows', revealed', recolor', touched')
  <2>1. ASSUME "list" \notin touched
        PROVE  RowsFit(ws', active_index', rows', revealed', recolor', touched')
    <3>1. RowsFit(ws, active_index, rows, revealed, recolor, touched) /\ revealed \in BOOLEAN
      BY <2>1 DEF SideInv, RowsStand
    <3>2. CASE dialog.from = "row"
      <4>1. rows' = Relabelled(rebuild_sidebar_rows_for_color(ws'), ws') /\ touched' = touched
        BY <3>2 DEF Renamed
      <4>2. PICK s : s = rebuild_sidebar_rows_for_color(ws')
        OBVIOUS
      <4>3. RowsFit(ws', active_index, rows', revealed, recolor, touched)
        BY <1>3, <1>6, <3>1, <4>1, <4>2, RowsRewritten
      <4> QED
        BY <1>4, <4>1, <4>3
    <3>3. CASE dialog.from # "row"
      <4>1. touched' = touched \cup {"name"} /\ rows' = rows
        BY <3>3 DEF Renamed
      <4>2. RowsFit(ws', active_index, rows, revealed, recolor, touched \cup {"name"})
        BY <1>3, <1>6, <3>1, RowsKept
      <4> QED
        BY <1>4, <4>1, <4>2
    <3> QED
      BY <3>2, <3>3
  <2>2. touched \subseteq touched'
    BY DEF Renamed
  <2> QED
    BY <2>1, <2>2 DEF RowsStand
<1>9. TitleNamesFront'
  BY <1>4 DEF TitleNamesFront, update_window_title
<1>10. ASSUME ~ parted' PROVE Linked'
  <2>1. ~ ForeignShifts /\ unlisted' = unlisted
    BY <1>4, <1>10, Zenon DEF Part
  <2>2. Calm(news, ws, pending_reorders) /\ i \in Positions(d)
    BY <1>1, <1>2, <1>3, <2>1, SamePlaces
  <2>3. PICK e, c : e = [kind |-> "renamed", at |-> i, name |-> o] /\ c = Named(d, i, o)
    OBVIOUS
  <2>4. Sent(d, e, c)
    BY <1>1, <1>2, <1>3, <1>4, <2>2, <2>3, RenameSent
  <2>5. PICK nx : nx = IF c = d THEN news ELSE Append(news, e)
    OBVIOUS
  <2>6. RI(nx, ws', pending_reorders, c)
    <3>1. Sends(d, e, c) /\ e.kind = "renamed" /\ e.at = i /\ e.name = o
      BY <2>3, <2>4 DEF Sent
    <3> QED
      BY <1>3, <1>5, <2>2, <2>3, <2>5, <3>1, OwnRename
  <2>7. RI(nx, ws', pending_reorders', c)
    BY <1>4, <2>6
  <2> QED
    BY <1>1, <1>2, <2>1, <2>4, <2>5, <2>7, LinkedAgain
<1> QED
  BY <1>6, <1>7, <1>8, <1>9, <1>10 DEF SideInv

LEMMA StepIdle ==
  ASSUME SideInv, RecolorIdle
  PROVE  SideInv'
<1>1. /\ recolor' = FALSE /\ rows' = rebuild_sidebar_rows_for_color(ws)
      /\ UNCHANGED <<daemon, ws, active_index, news, pending_reorders, revealed, touched, window_title,
                     unlisted, parted>>
  BY DEF RecolorIdle, apart
<1>2. ASSUME "list" \notin touched
      PROVE  RowsFit(ws, active_index, rows', revealed, FALSE, touched)
  <2>1. /\ RowsFit(ws, active_index, rows, revealed, recolor, touched) /\ revealed \in BOOLEAN
        /\ ws \in Lists
    BY <1>2 DEF SideInv, RowsStand
  <2> QED
    BY <1>1, <2>1, RowsRecolored
<1>3. RowsStand(ws', active_index', rows', revealed', recolor', touched')
  BY <1>1, <1>2 DEF RowsStand
<1>4. TitleNamesFront' /\ (~ parted' => Linked')
  BY <1>1 DEF SideInv, Linked, TitleNamesFront
<1> QED
  BY <1>1, <1>3, <1>4 DEF SideInv

-----------------------------------------------------------------------------
(* Steps of other clients, and events handled                                *)

(* Another client's call about a workspace that is listed: the replay gets    *)
(* one event more.                                                           *)
LEMMA OtherCall ==
  ASSUME Linked, NEW d, d = Cut(daemon, unlisted), NEW i \in Positions(d), NEW j \in Positions(d),
         \/ \E o \in Names : rename_workspace(i, o)
         \/ \E h \in Hues : set_workspace_color(i, h)
         \/ Len(d) > 1 /\ handle_delete_workspace(i)
         \/ reorder(i, j)
  PROVE  \E e, c : Sent(d, e, c)
<1>1. ASSUME NEW o \in Names, rename_workspace(i, o) PROVE \E e, c : Sent(d, e, c)
  <2>1. o \in AnyName
    BY DEF AnyName
  <2>2. Sent(d, [kind |-> "renamed", at |-> i, name |-> o], Named(d, i, o))
    BY <1>1, <2>1, RenameSent
  <2> QED
    BY <2>2
<1>2. ASSUME NEW h \in Hues, set_workspace_color(i, h) PROVE \E e, c : Sent(d, e, c)
  <2>1. Sent(d, [kind |-> "color", id |-> d[i + 1].id, color |-> h], Painted(d, d[i + 1].id, h))
    BY <1>2, PaintSent
  <2> QED
    BY <2>1
<1>3. ASSUME Len(d) > 1, handle_delete_workspace(i) PROVE \E e, c : Sent(d, e, c)
  <2>1. Sent(d, [kind |-> "deleted", id |-> d[i + 1].id], WithoutIndex(d, i))
    BY <1>3, DeleteSent
  <2> QED
    BY <2>1
<1>4. ASSUME reorder(i, j) PROVE \E e, c : Sent(d, e, c)
  <2>1. Sent(d, [kind |-> "reordered", from |-> i, to |-> j], Exchange(d, i, j))
    BY <1>4, MoveSent
  <2> QED
    BY <2>1
<1> QED
  BY <1>1, <1>2, <1>3, <1>4

LEMMA OtherChanges ==
  ASSUME Linked, OtherChange, ~ parted', ws' = ws, pending_reorders' = pending_reorders
  PROVE  Linked'
<1>1. PICK d : d = Cut(daemon, unlisted)
  OBVIOUS
<1>2. /\ news \in News /\ RI(news, ws, pending_reorders, d) /\ daemon \in Lists /\ Len(daemon) \in Nat
      /\ unlisted \in Nat /\ Len(d) \in Nat /\ Len(d) > 0 /\ Len(d) = Len(daemon) - unlisted
      /\ InSight = Len(d)
  BY <1>1, LinkedFacts, ListDomain DEF InSight
<1>3. PICK i \in Positions(daemon), j \in Positions(daemon) :
        /\ \/ \E o \in Names : rename_workspace(i, o)
           \/ \E h \in Colors \cup {"none"} : set_workspace_color(i, h)
           \/ handle_delete_workspace(i)
           \/ reorder(i, j)
        /\ parted' = (i >= InSight \/ j >= InSight \/ (InSight = 1 /\ Len(daemon') < Len(daemon)))
        /\ UNCHANGED unlisted
  BY Zenon DEF OtherChange
<1>4. i \in Positions(d) /\ j \in Positions(d)
  <2>1. ~ (i >= InSight \/ j >= InSight)
    BY <1>3
  <2>2. i \in 0 .. Len(daemon) - 1 /\ j \in 0 .. Len(daemon) - 1
    BY DEF Positions
  <2> QED
    BY <1>2, <2>1, <2>2 DEF Positions
<1>5. ASSUME handle_delete_workspace(i) PROVE Len(d) > 1
  <2>1. daemon' = RemoveAt(daemon, i + 1)
    BY <1>5, Zenon DEF handle_delete_workspace, Told, WithoutIndex
  <2>2. i + 1 \in 1 .. Len(daemon)
    BY <1>2 DEF Positions
  <2>3. Len(daemon') = Len(daemon) - 1
    BY <1>2, <2>1, <2>2, RemoveList
  <2>4. ~ (InSight = 1 /\ Len(daemon') < Len(daemon))
    BY <1>3
  <2> QED
    BY <1>2, <2>3, <2>4
<1>6. PICK e, c : Sent(d, e, c)
  BY <1>1, <1>3, <1>4, <1>5, OtherCall DEF Hues
<1>7. PICK nx : nx = IF c = d THEN news ELSE Append(news, e)
  OBVIOUS
<1>8. RI(nx, ws, pending_reorders, c)
  <2>1. c # d => RI(Append(news, e), ws, pending_reorders, c)
    BY <1>2, <1>6, ReplaySent DEF Sent
  <2> QED
    BY <1>2, <1>7, <2>1
<1> QED
  BY <1>1, <1>3, <1>6, <1>7, <1>8, LinkedAgain

(* Another client's workspace at the daemon's end is out of the window's      *)
(* sight, and no event tells of it.                                          *)
LEMMA OtherSpaces ==
  ASSUME Linked, OtherSpace, ~ parted', ws' = ws, pending_reorders' = pending_reorders
  PROVE  Linked'
<1>1. PICK d : d = Cut(daemon, unlisted)
  OBVIOUS
<1>2. /\ news \in News /\ RI(news, ws, pending_reorders, d) /\ daemon \in Lists /\ Len(daemon) \in Nat
      /\ unlisted \in Nat /\ unlisted < Len(daemon) /\ Len(d) = Len(daemon) - unlisted /\ InSight = Len(d)
  BY <1>1, LinkedFacts, ListDomain DEF InSight
<1>3. PICK id \in Unused, o \in Names :
        /\ \/ daemon' = Append(daemon, Space(id, o))
           \/ \E i \in Positions(daemon) :
                daemon' = InsertAt(daemon, i + 2, Space(id, o)) /\ parted' = (i + 1 < InSight)
        /\ news' = news /\ unlisted' = unlisted + 1
  BY Zenon DEF OtherSpace, Quiet
<1>4. PICK x : x = Space(id, o)
  OBVIOUS
<1>5. x \in Item
  BY <1>1, <1>4, UnusedIsUnseen DEF Unseen
<1>6. /\ daemon' \in Lists /\ Len(daemon') = Len(daemon) + 1
      /\ \A k \in 1 .. Len(daemon) - unlisted : daemon'[k] = daemon[k]
  <2>1. CASE daemon' = Append(daemon, x)
    BY <1>2, <1>5, <2>1, AppendList
  <2>2. CASE daemon' # Append(daemon, x)
    <3>1. PICK i \in Positions(daemon) : daemon' = InsertAt(daemon, i + 2, x) /\ parted' = (i + 1 < InSight)
      BY <1>3, <1>4, <2>2
    <3>2. ~ (i + 1 < InSight)
      BY <3>1
    <3>3. PICK p : p = i + 2
      OBVIOUS
    <3>4. p \in 1 .. Len(daemon) + 1 /\ p > Len(daemon) - unlisted
      BY <1>2, <3>2, <3>3 DEF Positions
    <3>5. /\ daemon' \in Lists /\ Len(daemon') = Len(daemon) + 1
          /\ \A k \in 1 .. Len(daemon) + 1 :
               daemon'[k] = IF k < p THEN daemon[k] ELSE IF k = p THEN x ELSE daemon[k - 1]
      BY <1>2, <1>5, <3>1, <3>3, <3>4, InsertList
    <3> QED
      BY <1>2, <3>4, <3>5
  <2> QED
    BY <2>1, <2>2
<1>7. Cut(daemon', unlisted + 1) = d
  BY <1>1, <1>2, <1>6, CutMore
<1>8. unlisted + 1 \in Nat /\ unlisted + 1 < Len(daemon')
  BY <1>2, <1>6
<1> QED
  BY <1>2, <1>3, <1>6, <1>7, <1>8 DEF Linked

LEMMA StepOther ==
  ASSUME SideInv, OtherClient
  PROVE  SideInv'
<1>1. ~ parted /\ Linked
  BY DEF OtherClient, HasRoom, SideInv
<1>2. UNCHANGED <<ws, active_index, pending_reorders, rows, revealed, recolor, touched, window_title>>
  BY DEF OtherClient, bar
<1>3. ~ parted' => Linked'
  BY <1>1, <1>2, OtherChanges, OtherSpaces DEF OtherClient
<1>4. TitleNamesFront'
  BY <1>2 DEF SideInv, TitleNamesFront
<1>5. /\ ws' \in Lists /\ active_index' \in Positions(ws') /\ revealed' \in BOOLEAN
      /\ RowsStand(ws', active_index', rows', revealed', recolor', touched')
  BY <1>2 DEF SideInv
<1> QED
  BY <1>3, <1>4, <1>5 DEF SideInv

(* The event that is handled is one the replay knows.                        *)
LEMMA Handled ==
  ASSUME Linked, news # <<>>, NEW d, d = Cut(daemon, unlisted)
  PROVE  /\ Head(news) \in Event /\ Fits(Head(news), ws)
         /\ \E t \in Lists, o \in Moves :
              Leads(Head(news), ws, pending_reorders, t, o) /\ RI(Tail(news), t, o, d)
         /\ Tail(news) \in News
<1>1. PICK L, M : Replay(news, ws, pending_reorders, d, <<>>, L, M)
  BY LinkedFacts DEF RI
<1>2. news \in News /\ Known(news, d)
  BY LinkedFacts DEF RI
<1>3. /\ Leads(Head(news), ws, pending_reorders, L[1], M[1]) /\ Fits(Head(news), ws) /\ Head(news) \in Event
      /\ L[1] \in Lists /\ M[1] \in Moves
      /\ \E L2, M2 : Replay(Tail(news), L[1], M[1], d, <<>>, L2, M2)
  BY <1>1, <1>2, ReplayShift
<1>4. Known(Tail(news), d)
  BY <1>2, KnownTail
<1>5. RI(Tail(news), L[1], M[1], d)
  BY <1>3, <1>4 DEF RI
<1>6. Tail(news) \in News
  BY <1>2, HeadTailProperties DEF News
<1> QED
  BY <1>3, <1>5, <1>6

(* What handling it leaves of the invariant's link.                          *)
LEMMA StillLinked ==
  ASSUME Linked, NEW d, d = Cut(daemon, unlisted), Tail(news) \in News, news' = Tail(news),
         daemon' = daemon, unlisted' = unlisted, RI(Tail(news), ws', pending_reorders', d)
  PROVE  Linked'
BY DEF Linked

(* handle_layout_event, WorkspaceRenamed: by index, which is why the replay  *)
(* must have the daemon's order when this event is its first.                *)
LEMMA HandleRenamed ==
  ASSUME SideInv, WorkspaceRenamed
  PROVE  SideInv'
<1>1. ~ parted /\ Linked /\ news # <<>> /\ Head(news).kind = "renamed"
  BY DEF WorkspaceRenamed, Handles, SideInv
<1>2. PICK e, d : e = Head(news) /\ d = Cut(daemon, unlisted)
  OBVIOUS
<1>3. PICK i, o : i = e.at /\ o = e.name
  OBVIOUS
<1>4. /\ e \in Event /\ Fits(e, ws) /\ e.kind = "renamed" /\ Tail(news) \in News
      /\ \E t \in Lists, q \in Moves :
           Leads(e, ws, pending_reorders, t, q) /\ RI(Tail(news), t, q, d)
  BY <1>1, <1>2, Handled
<1>5. i \in Int /\ o \in AnyName /\ i \in Positions(ws) /\ ws \in Lists /\ i + 1 \in 1 .. Len(ws)
  BY <1>1, <1>3, <1>4, EventFields, LinkedFacts DEF Fits, Positions
<1>6. PICK v : v = Named(ws, i, o)
  OBVIOUS
<1>7. RI(Tail(news), v, pending_reorders, d)
  BY <1>3, <1>4, <1>6 DEF Leads
<1>8. /\ v \in Lists /\ Len(v) = Len(ws)
      /\ \A k \in 1 .. Len(ws) : v[k] = IF k = i + 1 THEN Titled(ws[k], o) ELSE ws[k]
  BY <1>5, <1>6, NamedList
<1>9. \A x \in Item : Titled(x, o).name = o /\ (x.name = o => Titled(x, o) = x)
  BY DEF Titled, Item
<1>10. /\ news' = Tail(news)
       /\ UNCHANGED <<daemon, revealed, unlisted, parted, active_index, pending_reorders, recolor, touched>>
  BY DEF WorkspaceRenamed, Handles, apart
<1>11. active_index + 1 \in 1 .. Len(ws) /\ Len(ws) \in Nat /\ active_index \in Int
  BY <1>5, ListDomain DEF SideInv, Positions
<1>12. CASE ws[i + 1].name = o
  <2>1. v = ws
    <3>1. \A k \in 1 .. Len(ws) : v[k] = ws[k]
      BY <1>5, <1>8, <1>9, <1>12, ListDomain
    <3> QED
      BY <1>5, <1>8, <3>1, ListsEqual
  <2>2. UNCHANGED <<ws, rows, window_title>>
    BY <1>2, <1>3, <1>12 DEF WorkspaceRenamed
  <2>3. Linked'
    BY <1>1, <1>2, <1>4, <1>7, <1>10, <2>1, <2>2, StillLinked
  <2>4. TitleNamesFront'
    BY <1>10, <2>2 DEF SideInv, TitleNamesFront
  <2>5. /\ ws' \in Lists /\ active_index' \in Positions(ws') /\ revealed' \in BOOLEAN
        /\ RowsStand(ws', active_index', rows', revealed', recolor', touched')
    BY <1>10, <2>2 DEF SideInv
  <2> QED
    BY <2>3, <2>4, <2>5 DEF SideInv
<1>13. CASE ws[i + 1].name # o
  <2>1. /\ ws' = [ws EXCEPT ![i + 1].name = o]
        /\ rows' = IF i + 1 \in DOMAIN rows THEN [rows EXCEPT ![i + 1].name = o] ELSE rows
        /\ IF i = active_index THEN window_title' = IF Len(ws) > 1 THEN o ELSE "none"
           ELSE UNCHANGED window_title
    BY <1>2, <1>3, <1>5, <1>13, Zenon DEF WorkspaceRenamed
  <2>2. ws' = v
    <3>1. [ws EXCEPT ![i + 1].name = o] = Named(ws, i, o)
      BY <1>5, NamedExcept
    <3> QED
      BY <1>6, <2>1, <3>1, Zenon
  <2>3. Linked'
    BY <1>1, <1>2, <1>4, <1>7, <1>10, <2>2, StillLinked
  <2>4. active_index' \in Positions(ws')
    BY <1>8, <1>10, <2>2 DEF SideInv, Positions
  <2>5. RowsStand(ws', active_index', rows', revealed', recolor', touched')
    <3>1. ASSUME "list" \notin touched
          PROVE  RowsFit(ws', active_index', rows', revealed', recolor', touched')
      <4>1. RowsFit(ws, active_index, rows, revealed, recolor, touched) /\ revealed \in BOOLEAN
        BY <3>1 DEF SideInv, RowsStand
      <4>2. PICK rs : rs = IF i + 1 \in DOMAIN rows THEN [rows EXCEPT ![i + 1].name = o] ELSE rows
        OBVIOUS
      <4>3. rs = rows'
        BY <2>1, <4>2, Zenon
      <4>4. RowsFit(Named(ws, i, o), active_index, rs, revealed, recolor, touched)
        BY <1>5, <4>1, <4>2, RowRenamed
      <4> QED
        BY <1>6, <1>10, <2>2, <4>3, <4>4
    <3> QED
      BY <1>10, <3>1 DEF RowsStand
  <2>6. TitleNamesFront'
    <3>1. window_title = IF Len(ws) > 1 THEN ws[active_index + 1].name ELSE "none"
      BY DEF SideInv, TitleNamesFront
    <3>2. CASE i = active_index
      <4>1. v[active_index + 1].name = o
        <5>1. ws[active_index + 1] \in Item
          BY <1>5, <1>11, ListDomain
        <5> QED
          BY <1>8, <1>9, <1>11, <3>2, <5>1
      <4>2. window_title' = IF Len(ws) > 1 THEN o ELSE "none"
        BY <2>1, <3>2, Zenon
      <4> QED
        BY <1>8, <1>10, <2>2, <4>1, <4>2 DEF TitleNamesFront
    <3>3. CASE i # active_index
      <4>1. v[active_index + 1] = ws[active_index + 1]
        BY <1>5, <1>8, <1>11, <3>3
      <4>2. window_title' = window_title
        BY <2>1, <3>3, Zenon
      <4> QED
        BY <1>8, <1>10, <2>2, <3>1, <4>1, <4>2 DEF TitleNamesFront
    <3> QED
      BY <3>2, <3>3
  <2> QED
    BY <1>8, <1>10, <2>2, <2>3, <2>4, <2>5, <2>6 DEF SideInv
<1> QED
  BY <1>12, <1>13

(* WorkspaceColorChanged: by id, unless the colour is already there.         *)
LEMMA HandleColor ==
  ASSUME SideInv, WorkspaceColorChanged
  PROVE  SideInv'
<1>1. ~ parted /\ Linked /\ news # <<>> /\ Head(news).kind = "color"
  BY DEF WorkspaceColorChanged, Handles, SideInv
<1>2. PICK e, d : e = Head(news) /\ d = Cut(daemon, unlisted)
  OBVIOUS
<1>3. PICK x, h, j : x = e.id /\ h = e.color /\ j = Local(x)
  OBVIOUS
<1>4. /\ e \in Event /\ Fits(e, ws) /\ e.kind = "color" /\ Tail(news) \in News
      /\ \E t \in Lists, q \in Moves :
           Leads(e, ws, pending_reorders, t, q) /\ RI(Tail(news), t, q, d)
  BY <1>1, <1>2, Handled
<1>5. h \in Hues /\ ws \in Lists /\ Unlike(ws)
  BY <1>1, <1>3, <1>4, EventFields, LinkedFacts
<1>6. PICK v : v = Painted(ws, x, h)
  OBVIOUS
<1>7. RI(Tail(news), v, pending_reorders, d)
  BY <1>3, <1>4, <1>6 DEF Leads
<1>8. /\ v \in Lists /\ SameIds(ws, v) /\ Len(v) = Len(ws)
      /\ \A k \in 1 .. Len(ws) : v[k] = IF ws[k].id = x THEN Colored(ws[k], h) ELSE ws[k]
  BY <1>5, <1>6, PaintedList
<1>9. \A u \in Item : Colored(u, h).name = u.name /\ (u.color = h => Colored(u, h) = u)
  BY DEF Colored, Item
<1>10. /\ news' = Tail(news)
       /\ UNCHANGED <<daemon, revealed, unlisted, parted, active_index, pending_reorders, rows, touched,
                       window_title>>
  BY DEF WorkspaceColorChanged, Handles, apart
<1>11. \A k \in 1 .. Len(ws) : v[k].name = ws[k].name
  BY <1>5, <1>8, <1>9, ListDomain
<1>12. x \notin IdSet(ws) \/ (j \in 1 .. Len(ws) /\ ws[j].id = x)
  BY <1>3, <1>5, LocalPlace DEF IdSet
<1>13. x \notin IdSet(ws) => j = 0
  BY <1>3, <1>5, LocalPlace
<1>14. CASE j = 0 \/ ws[j].color = h
  <2>1. v = ws
    <3>1. \A k \in 1 .. Len(ws) : v[k] = ws[k]
      <4>1. CASE x \notin IdSet(ws)
        BY <1>8, <4>1 DEF IdSet
      <4>2. CASE x \in IdSet(ws)
        <5>1. j \in 1 .. Len(ws) /\ ws[j].id = x /\ Len(ws) \in Nat
          BY <1>5, <1>12, <4>2, ListDomain
        <5>2. ws[j].color = h
          BY <1>14, <5>1
        <5>3. ASSUME NEW k \in 1 .. Len(ws) PROVE v[k] = ws[k]
          <6>1. CASE ws[k].id = x
            <7>1. k = j
              BY <1>5, <5>1, <6>1 DEF Unlike
            <7>2. ws[k] \in Item
              BY <1>5, ListDomain
            <7> QED
              BY <1>8, <1>9, <5>2, <6>1, <7>1, <7>2
          <6> QED
            BY <1>8, <6>1
        <5> QED
          BY <5>3
      <4> QED
        BY <4>1, <4>2
    <3> QED
      BY <1>5, <1>8, <3>1, ListsEqual
  <2>2. UNCHANGED <<ws, recolor>>
    BY <1>2, <1>3, <1>14 DEF WorkspaceColorChanged
  <2>3. Linked'
    BY <1>1, <1>2, <1>4, <1>7, <1>10, <2>1, <2>2, StillLinked
  <2>4. TitleNamesFront'
    BY <1>10, <2>2 DEF SideInv, TitleNamesFront
  <2>5. /\ ws' \in Lists /\ active_index' \in Positions(ws') /\ revealed' \in BOOLEAN
        /\ RowsStand(ws', active_index', rows', revealed', recolor', touched')
    BY <1>10, <2>2 DEF SideInv
  <2> QED
    BY <2>3, <2>4, <2>5 DEF SideInv
<1>15. CASE ~ (j = 0 \/ ws[j].color = h)
  <2>1. ws' = [ws EXCEPT ![j].color = h] /\ recolor' = TRUE
    BY <1>2, <1>3, <1>15, Zenon DEF WorkspaceColorChanged
  <2>2. j \in 1 .. Len(ws) /\ ws[j].id = x
    BY <1>12, <1>13, <1>15
  <2>3. ws' = v
    <3>1. [ws EXCEPT ![j].color = h] = Painted(ws, ws[j].id, h)
      BY <1>5, <2>2, ColoredExcept
    <3> QED
      BY <1>6, <2>1, <2>2, <3>1, Zenon
  <2>4. Linked'
    BY <1>1, <1>2, <1>4, <1>7, <1>10, <2>3, StillLinked
  <2>5. active_index' \in Positions(ws') /\ revealed' \in BOOLEAN
    BY <1>8, <1>10, <2>3 DEF SideInv, Positions
  <2>6. RowsStand(ws', active_index', rows', revealed', recolor', touched')
    <3>1. ASSUME "list" \notin touched
          PROVE  RowsFit(ws', active_index', rows', revealed', recolor', touched')
      <4>1. RowsFit(ws, active_index, rows, revealed, recolor, touched) /\ revealed \in BOOLEAN
        BY <3>1 DEF SideInv, RowsStand
      <4>2. RowsFit(v, active_index, rows, revealed, TRUE, touched)
        BY <1>5, <1>8, <1>11, <4>1, RowsAwaitColors
      <4> QED
        BY <1>10, <2>1, <2>3, <4>2
    <3> QED
      BY <1>10, <3>1 DEF RowsStand
  <2>7. TitleNamesFront'
    <3>1. window_title = IF Len(ws) > 1 THEN ws[active_index + 1].name ELSE "none"
      BY DEF SideInv, TitleNamesFront
    <3>2. active_index + 1 \in 1 .. Len(ws)
      BY <1>5, ListDomain DEF SideInv, Positions
    <3>3. v[active_index + 1].name = ws[active_index + 1].name
      BY <1>11, <3>2
    <3> QED
      BY <1>8, <1>10, <2>3, <3>1, <3>3 DEF TitleNamesFront
  <2> QED
    BY <1>8, <2>3, <2>4, <2>5, <2>6, <2>7 DEF SideInv
<1> QED
  BY <1>14, <1>15

(* WorkspaceDeleted: by id, and the one in front stays or gives way.         *)
LEMMA HandleDeleted ==
  ASSUME SideInv, WorkspaceDeleted
  PROVE  SideInv'
<1>1. ~ parted /\ Linked /\ news # <<>> /\ Head(news).kind = "deleted"
  BY DEF WorkspaceDeleted, Handles, SideInv
<1>2. PICK e, d : e = Head(news) /\ d = Cut(daemon, unlisted)
  OBVIOUS
<1>3. PICK x, j : x = e.id /\ j = Local(x)
  OBVIOUS
<1>4. /\ e \in Event /\ Fits(e, ws) /\ e.kind = "deleted" /\ Tail(news) \in News
      /\ \E t \in Lists, q \in Moves :
           Leads(e, ws, pending_reorders, t, q) /\ RI(Tail(news), t, q, d)
  BY <1>1, <1>2, Handled
<1>5. ws \in Lists /\ Unlike(ws) /\ Len(ws) \in Nat /\ d # <<>>
  BY <1>1, <1>2, LinkedFacts
<1>6. PICK t \in Lists : Left(ws, x, t) /\ RI(Tail(news), t, pending_reorders, d)
  BY <1>3, <1>4 DEF Leads
<1>7. /\ news' = Tail(news)
      /\ UNCHANGED <<daemon, revealed, unlisted, parted, pending_reorders, recolor>>
  BY DEF WorkspaceDeleted, Handles, apart
<1>8. CASE x \notin IdSet(ws)
  <2>1. j = 0 /\ t = ws
    BY <1>3, <1>5, <1>6, <1>8, LocalPlace DEF Left, IdSet
  <2>2. UNCHANGED <<ws, active_index, rows, touched, window_title>>
    BY <1>2, <1>3, <2>1 DEF WorkspaceDeleted
  <2>3. Linked'
    BY <1>1, <1>2, <1>4, <1>6, <1>7, <2>1, <2>2, StillLinked
  <2>4. TitleNamesFront'
    BY <1>7, <2>2 DEF SideInv, TitleNamesFront
  <2>5. /\ ws' \in Lists /\ active_index' \in Positions(ws') /\ revealed' \in BOOLEAN
        /\ RowsStand(ws', active_index', rows', revealed', recolor', touched')
    BY <1>7, <2>2 DEF SideInv
  <2> QED
    BY <2>3, <2>4, <2>5 DEF SideInv
<1>9. CASE x \in IdSet(ws)
  <2>1. PICK k \in 1 .. Len(ws) : ws[k].id = x /\ t = RemoveAt(ws, k)
    BY <1>6, <1>9 DEF Left
  <2>2. j = k /\ j \in 1 .. Len(ws) /\ j # 0
    BY <1>3, <1>5, <2>1, LocalPlace
  <2>3. /\ ws' = RemoveAt(ws, j) /\ active_index' = AfterDelete(j - 1)
        /\ rows' = IF j \in DOMAIN rows THEN RemoveAt(rows, j) ELSE rows
        /\ touched' = touched \cup {"index"} /\ update_window_title
    BY <1>2, <1>3, <2>2, Zenon DEF WorkspaceDeleted
  <2>4. ws' = t
    BY <2>1, <2>2, <2>3
  <2>5. Linked'
    BY <1>1, <1>2, <1>4, <1>6, <1>7, <2>4, StillLinked
  <2>6. ws' \in Lists /\ Len(ws') = Len(ws) - 1 /\ Len(ws') > 0
    <3>1. Len(ws') > 0
      BY <1>4, <1>5, <1>6, <2>4, SomeLeft
    <3> QED
      BY <1>5, <2>2, <2>3, <3>1, RemoveList
  <2>7. active_index' \in Positions(ws')
    <3>1. j - 1 \in Positions(ws) /\ Len(ws) > 1
      BY <1>5, <2>2, <2>6 DEF Positions
    <3>2. AfterDelete(j - 1) \in 0 .. Len(ws) - 2
      BY <1>5, <3>1, AfterDeletePlace DEF SideInv
    <3> QED
      BY <1>5, <2>3, <2>6, <3>2 DEF Positions
  <2>8. RowsStand(ws', active_index', rows', revealed', recolor', touched')
    <3>1. ASSUME "list" \notin touched
          PROVE  RowsFit(ws', active_index', rows', revealed', recolor', touched')
      <4>1. RowsFit(ws, active_index, rows, revealed, recolor, touched) /\ revealed \in BOOLEAN
        BY <3>1 DEF SideInv, RowsStand
      <4>2. PICK rs : rs = IF j \in DOMAIN rows THEN RemoveAt(rows, j) ELSE rows
        OBVIOUS
      <4>3. RowsFit(RemoveAt(ws, j), active_index', rs, revealed, recolor, touched')
        BY <1>5, <2>2, <2>3, <4>1, <4>2, RowRemoved
      <4> QED
        BY <1>7, <2>3, <4>2, <4>3
    <3> QED
      BY <2>3, <3>1 DEF RowsStand
  <2>9. TitleNamesFront'
    BY <2>3 DEF TitleNamesFront, update_window_title
  <2> QED
    BY <1>7, <2>5, <2>6, <2>7, <2>8, <2>9 DEF SideInv
<1> QED
  BY <1>8, <1>9

(* WorkspacesReordered: one's own answer only shortens the wait, another's   *)
(* exchanges the two places.                                                 *)
LEMMA HandleReordered ==
  ASSUME SideInv, WorkspacesReordered
  PROVE  SideInv'
<1>1. ~ parted /\ Linked /\ news # <<>> /\ Head(news).kind = "reordered"
  BY DEF WorkspacesReordered, Handles, SideInv
<1>2. PICK e, d : e = Head(news) /\ d = Cut(daemon, unlisted)
  OBVIOUS
<1>3. PICK i, j : i = e.from /\ j = e.to
  OBVIOUS
<1>4. /\ e \in Event /\ Fits(e, ws) /\ e.kind = "reordered" /\ Tail(news) \in News
      /\ \E t \in Lists, q \in Moves :
           Leads(e, ws, pending_reorders, t, q) /\ RI(Tail(news), t, q, d)
  BY <1>1, <1>2, Handled
<1>5. ws \in Lists /\ i \in Positions(ws) /\ j \in Positions(ws) /\ d # <<>>
  BY <1>1, <1>2, <1>3, <1>4, LinkedFacts DEF Fits
<1>6. /\ news' = Tail(news)
      /\ UNCHANGED <<daemon, revealed, unlisted, parted, recolor, window_title>>
  BY DEF WorkspacesReordered, Handles, apart
<1>7. {i, j} \subseteq Positions(ws)
  BY <1>5
<1>8. CASE Own(e, pending_reorders)
  <2>1. RI(Tail(news), ws, Tail(pending_reorders), d)
    BY <1>4, <1>8 DEF Leads
  <2>2. pending_reorders # <<>> /\ Head(pending_reorders) \in {<<i, j>>, <<j, i>>}
    BY <1>3, <1>8 DEF Own
  <2>3. pending_reorders' = Tail(pending_reorders) /\ UNCHANGED <<ws, active_index, rows, touched>>
    BY <1>2, <1>3, <1>7, <2>2, Zenon DEF WorkspacesReordered
  <2>4. Linked'
    BY <1>1, <1>2, <1>4, <1>6, <2>1, <2>3, StillLinked
  <2>5. TitleNamesFront'
    BY <1>6, <2>3 DEF SideInv, TitleNamesFront
  <2>6. /\ ws' \in Lists /\ active_index' \in Positions(ws') /\ revealed' \in BOOLEAN
        /\ RowsStand(ws', active_index', rows', revealed', recolor', touched')
    BY <1>6, <2>3 DEF SideInv
  <2> QED
    BY <2>4, <2>5, <2>6 DEF SideInv
<1>9. CASE ~ Own(e, pending_reorders)
  <2>1. RI(Tail(news), Exchange(ws, i, j), pending_reorders, d)
    BY <1>3, <1>4, <1>9 DEF Leads
  <2>2. ~ (pending_reorders # <<>> /\ Head(pending_reorders) \in {<<i, j>>, <<j, i>>})
    BY <1>3, <1>9 DEF Own
  <2>3. /\ ws' = Exchange(ws, i, j) /\ active_index' = Followed(i, j)
        /\ rows' = refresh_sidebar_row_labels(ws')
        /\ touched' = (touched \ {"name"}) \cup {"mark"}
        /\ pending_reorders' = pending_reorders
    BY <1>2, <1>3, <1>7, <2>2, Zenon DEF WorkspacesReordered
  <2>4. Linked'
    BY <1>1, <1>2, <1>4, <1>6, <2>1, <2>3, StillLinked
  <2>5. ws' \in Lists /\ Len(ws') = Len(ws)
    BY <1>5, <2>3, ExchangeList
  <2>6. active_index' \in Positions(ws') /\ ws'[active_index' + 1] = ws[active_index + 1]
    BY <1>5, <2>3, FrontFollowed DEF SideInv
  <2>7. RowsStand(ws', active_index', rows', revealed', recolor', touched')
    <3>1. ASSUME "list" \notin touched
          PROVE  RowsFit(ws', active_index', rows', revealed', recolor', touched')
      <4>1. RowsFit(ws, active_index, rows, revealed, recolor, touched) /\ revealed \in BOOLEAN
        BY <3>1 DEF SideInv, RowsStand
      <4>2. "mark" \in touched' /\ ("index" \in touched => "index" \in touched')
        BY <2>3
      <4>3. RowsFit(ws', active_index', rows', revealed, recolor, touched')
        BY <1>5, <2>3, <2>5, <4>1, <4>2, RowsReordered
      <4> QED
        BY <1>6, <4>3
    <3> QED
      BY <2>3, <3>1 DEF RowsStand
  <2>8. TitleNamesFront'
    BY <1>6, <2>5, <2>6 DEF SideInv, TitleNamesFront
  <2> QED
    BY <1>6, <2>4, <2>5, <2>6, <2>7, <2>8 DEF SideInv
<1> QED
  BY <1>8, <1>9

-----------------------------------------------------------------------------
(* The theorem                                                               *)

LEMMA SideStarts ==
  ASSUME SideInit
  PROVE  SideInv
<1>1. PICK a \in Ids, b \in Ids, h \in Colors :
        /\ a # b
        /\ ws = <<Space(a, CHOOSE x \in Names : TRUE),
                  [Space(b, CHOOSE x \in Names : TRUE) EXCEPT !.color = h]>>
        /\ window_title = CHOOSE x \in Names : TRUE
  BY DEF SideInit
<1>2. PICK o : o = CHOOSE x \in Names : TRUE
  OBVIOUS
<1>3. /\ daemon = ws /\ active_index = 0 /\ pending_reorders = <<>>
      /\ rows = <<>> /\ revealed = FALSE /\ recolor = FALSE /\ news = <<>> /\ unlisted = 0
  BY DEF SideInit
<1>4. PICK x, y : x = Space(a, o) /\ y = [Space(b, o) EXCEPT !.color = h]
  OBVIOUS
<1>5. ws = <<x, y>> /\ window_title = o
  BY <1>1, <1>2, <1>4, Zenon
<1>6. x \in Item /\ y \in Item /\ x.id = a /\ y.id = b /\ x.name = o
  <2>1. o \in AnyName
    BY <1>2 DEF AnyName
  <2> QED
    BY <1>4, <2>1 DEF Space, Item, Hues
<1>7. ws \in Lists /\ Len(ws) = 2 /\ ws[1] = x /\ ws[2] = y
  BY <1>5, <1>6 DEF Lists
<1>8. Unlike(ws)
  BY <1>1, <1>6, <1>7 DEF Unlike
<1>9. Linked
  <2>1. news \in News /\ Len(news) = 0
    BY <1>3 DEF News
  <2>2. RI(news, ws, pending_reorders, ws)
    BY <1>3, <1>7, <1>8, <2>1, NothingToReplay
  <2>3. Cut(ws, 0) = ws /\ 0 \in Nat /\ 0 < Len(ws)
    BY <1>7, CutNothing
  <2> QED
    BY <1>3, <1>7, <2>1, <2>2, <2>3 DEF Linked
<1>10. RowsStand(ws, active_index, rows, revealed, recolor, touched)
  BY <1>3 DEF RowsFit, RowsStand
<1>11. TitleNamesFront
  BY <1>3, <1>5, <1>6, <1>7 DEF TitleNamesFront
<1>12. active_index \in Positions(ws) /\ revealed \in BOOLEAN
  <2>1. active_index \in Positions(ws)
    BY <1>3, <1>7 DEF Positions
  <2>2. revealed \in BOOLEAN
    BY <1>3, Zenon
  <2> QED
    BY <2>1, <2>2
<1> QED
  BY <1>7, <1>9, <1>10, <1>11, <1>12 DEF SideInv

LEMMA SideStep ==
  ASSUME SideInv, [SideNext]_sideVars
  PROVE  SideInv'
<1>1. CASE UNCHANGED sideVars
  BY <1>1, StepKeepsAll DEF sideVars
<1>2. ASSUME Dismiss \/ Cancel \/ show_rename_workspace_dialog PROVE SideInv'
  BY <1>2, StepKeepsAll DEF Dismiss, Cancel, show_rename_workspace_dialog, bar, apart
<1>3. ASSUME NEW k \in DOMAIN rows, show_workspace_context_menu(k) PROVE SideInv'
  BY <1>3, StepKeepsAll DEF show_workspace_context_menu, bar, apart
<1>4. ASSUME NEW h \in Colors \cup {"none"}, apply_workspace_color(h) PROVE SideInv'
  BY <1>4, StepPaint DEF Hues
<1>5. ASSUME NEW i \in Positions(ws), switch_to(i) \/ move_workspace(i) PROVE SideInv'
  BY <1>5, StepSwitch, StepMove
<1>6. ASSUME NEW o \in Names, show_new_workspace_dialog(o) \/ duplicate_workspace(o) \/ Renamed(o)
      PROVE  SideInv'
  BY <1>6, StepNew, StepDuplicate, StepRename
<1>7. CASE SideNext
  BY <1>2, <1>3, <1>4, <1>5, <1>6, <1>7, StepToggle, StepDelete, StepDeleteCurrent, StepIdle, StepOther,
     HandleRenamed, HandleColor, HandleDeleted, HandleReordered DEF SideNext
<1> QED
  BY <1>1, <1>7

LEMMA SideHolds ==
  ASSUME SideInv
  PROVE  SidebarShowsDaemon
<1>1. NamesAgree
  <2>1. ASSUME news = <<>>, ~ parted PROVE ws = SubSeq(daemon, 1, InSight)
    <3>1. PICK L, M : Replay(news, ws, pending_reorders, Cut(daemon, unlisted), <<>>, L, M)
      BY <2>1 DEF SideInv, Linked, RI
    <3>2. Len(news) = 0
      BY <2>1
    <3>3. ws = Cut(daemon, unlisted)
      BY <3>1, <3>2 DEF Replay
    <3> QED
      BY <3>3 DEF Cut, InSight
  <2> QED
    BY <2>1 DEF NamesAgree
<1>2. RowsAreRight
  <2>1. ASSUME revealed, ~ recolor
        PROVE  /\ touched = {} => rows = RowsOf(ws, active_index)
               /\ touched \subseteq {"mark"} =>
                    \A k \in DOMAIN rows : rows[k].name = ws[k].name /\ rows[k].number = k /\ rows[k].idx = k - 1
    <3>1. ASSUME "list" \notin touched
          PROVE  /\ touched = {} => rows = RowsOf(ws, active_index)
                 /\ touched \subseteq {"mark"} =>
                      \A k \in DOMAIN rows : rows[k].name = ws[k].name /\ rows[k].number = k /\ rows[k].idx = k - 1
      <4>1. /\ ws \in Lists /\ RowsFit(ws, active_index, rows, revealed, recolor, touched)
            /\ revealed \in BOOLEAN
        BY <3>1 DEF SideInv, RowsStand
      <4>2. /\ Len(rows) = Len(ws) /\ DOMAIN rows = 1 .. Len(rows) /\ rows \in [1 .. Len(rows) -> Row]
            /\ \A k \in 1 .. Len(rows) :
                 rows[k] \in Row /\ RowFits(rows[k], k, ws[k], active_index, recolor, touched)
        BY <2>1, <4>1, RowsDomain DEF RowsFit
      <4>3. touched \subseteq {"mark"} =>
              \A k \in DOMAIN rows : rows[k].name = ws[k].name /\ rows[k].number = k /\ rows[k].idx = k - 1
        BY <4>2 DEF RowFits
      <4>4. ASSUME touched = {} PROVE rows = RowsOf(ws, active_index)
        <5> DEFINE f(k) == [number |-> k, name |-> ws[k].name, classes |-> ClassesOf(ws[k]),
                            marked |-> k - 1 = active_index, idx |-> k - 1]
        <5>1. ASSUME NEW k \in 1 .. Len(rows) PROVE rows[k] = f(k)
          <6>1. PICK r : r = rows[k]
            OBVIOUS
          <6>2. r \in Row /\ RowFits(r, k, ws[k], active_index, recolor, touched)
            BY <4>2, <6>1
          <6>3. r.number = k /\ r.idx = k - 1 /\ r.name = ws[k].name /\ r.classes = ClassesOf(ws[k])
                /\ r.marked = (k - 1 = active_index)
            BY <2>1, <4>4, <6>2 DEF RowFits
          <6>4. r = [number |-> r.number, name |-> r.name, classes |-> r.classes,
                     marked |-> r.marked, idx |-> r.idx]
            BY <6>2 DEF Row
          <6> QED
            BY <6>1, <6>3, <6>4, Zenon
        <5>2. DOMAIN ws = 1 .. Len(rows)
          BY <4>1, <4>2, ListDomain
        <5>3. RowsOf(ws, active_index) = [k \in 1 .. Len(rows) |-> f(k)]
          BY <5>2, Zenon DEF RowsOf
        <5>4. rows = [k \in 1 .. Len(rows) |-> rows[k]]
          BY <4>2
        <5> HIDE DEF f
        <5> QED
          BY <5>1, <5>3, <5>4
      <4> QED
        BY <4>3, <4>4
    <3>2. touched = {} \/ touched \subseteq {"mark"} => "list" \notin touched
      OBVIOUS
    <3> QED
      BY <3>1, <3>2
  <2> QED
    BY <2>1 DEF RowsAreRight
<1> QED
  BY <1>1, <1>2 DEF SidebarShowsDaemon, SideInv

(* SidebarShowsDaemon.  However long the events of handle_layout_event are on  *)
(* their way, once they are handled the window has the daemon's workspaces,   *)
(* with their names, colours and order, but for the last `unlisted' ones,     *)
(* which other clients have created or delete_current_workspace has left to   *)
(* the daemon; until one of the exceptions that NamesAgree names has parted   *)
(* the two.  The rows say what refresh_workspace_sidebar would write, with    *)
(* the exceptions that RowsAreRight names, and the title names the workspace  *)
(* in front always.                                                          *)
THEOREM SidebarAlwaysShowsDaemon == SideSpec => []SidebarShowsDaemon
<1>1. SideInit => SideInv
  BY SideStarts
<1>2. SideInv /\ [SideNext]_sideVars => SideInv'
  BY SideStep
<1>3. SideInv => SidebarShowsDaemon
  BY SideHolds
<1> QED
  BY <1>1, <1>2, <1>3, PTL DEF SideSpec

====
