---------------------------- MODULE SessionStore ----------------------------
(***************************************************************************)
(* Where a session lives on disk: the three buckets sessions/, active/ and *)
(* trash/ of forgetty-workspace/src/persistence.rs, one daemon process per *)
(* session (src/daemon.rs and the shutdown RPCs of forgetty-socket), and   *)
(* the GTK process of each window (src/main.rs, forgetty-gtk/src/app.rs).  *)
(*                                                                         *)
(* Processes share nothing but the file system and die at any step.        *)
(* Inside a daemon the watcher, the debounce and the periodic task and the *)
(* RPC handlers run on a pool of Workers threads: each takes a snapshot    *)
(* under the mutex and writes it later, so two saves can overtake.         *)
(*                                                                         *)
(* A session's layout is a version number: 0 is the layout a daemon makes  *)
(* up when it finds no file, edit n adds pane n.  At most one GTK process  *)
(* and one daemon per session run at a time, and a daemon follows one exit *)
(* path.  A write of a file (write to .tmp, rename) and a rename are       *)
(* atomic and do not fail.                                                 *)
(***************************************************************************)
EXTENDS Integers, FiniteSets

CONSTANTS
  Sessions,     \* session UUIDs, one per window
  Workers,      \* tokio worker threads of a daemon
  NoFile,       \* no such file; also: nothing in flight
  MaxVersion    \* bound: layout changes of a session

ASSUME StoreAssumption ==
  /\ Workers # {} /\ IsFiniteSet(Workers)
  /\ MaxVersion \in Nat \ {0}
  /\ NoFile \notin [version : 0 .. MaxVersion, pinned : BOOLEAN]

VARIABLES
  sessions_dir,  \* sessions/{uuid}.json
  active_dir,    \* sessions/active/{uuid}.json
  trash_dir,     \* sessions/trash/{uuid}.json
  logs,          \* session -> panes whose logs/{pane}.log exists
  daemon,        \* how far each session's daemon process is
  version,       \* in the daemon: the layout
  pinned,        \* in the daemon: SessionManagerInner.pinned
  saving,        \* in the daemon: worker -> snapshot it is about to write
  exit_save,     \* in the daemon: the snapshot of the exit path
  window,        \* how far each session's GTK process is
  orphans,       \* in the GTK process: orphans still to be moved
  restores,      \* in the GTK process: what --restore-session took from trash
  disturbed,     \* history: daemons whose active/ file a launch has taken away
  erased         \* history: sessions closed permanently and not launched since

files == <<sessions_dir, active_dir, trash_dir>>
process == <<daemon, version, pinned, saving, exit_save>>
gtk == <<window, orphans, restores>>
vars == <<files, logs, process, gtk, disturbed, erased>>

Saved == [version : 0 .. MaxVersion, pinned : BOOLEAN]
Files == Saved \cup {NoFile}
Orphans == [id : Sessions, pinned : BOOLEAN]

DaemonPhases ==
  {"down", "starting", "loaded", "pruned", "up",
   "rpc_save", "rpc_move", "rpc_ack", "shutdown_ack",
   "sig_save", "sig_move", "sig_kill"}
WindowPhases == {"none", "scan", "recover", "connect", "open", "erase"}
(* The socket is bound, the tokio tasks run. *)
Serving(s) == daemon[s] \notin {"down", "starting", "loaded", "pruned"}

Idle == [w \in Workers |-> NoFile]
(* Handlers of the shutdown RPCs keep a worker busy to the end. *)
FreeWorkers(s) == {w \in Workers : saving[s][w] = NoFile}
CanUseWorker(s) ==
  IF daemon[s] \in {"rpc_save", "rpc_move", "rpc_ack", "shutdown_ack"}
    THEN Cardinality(FreeWorkers(s)) > 1 ELSE FreeWorkers(s) # {}
(* The panes of a session file *)
PanesOf(file) == IF file = NoFile THEN {} ELSE 1 .. file.version
SlipSnapshotUnpinned(s) == [version |-> version[s]]
Snapshot(s) == [version |-> version[s], pinned |-> pinned[s]]

Init ==
  /\ sessions_dir = [s \in Sessions |-> NoFile]
  /\ active_dir = [s \in Sessions |-> NoFile]
  /\ trash_dir = [s \in Sessions |-> NoFile]
  /\ logs = [s \in Sessions |-> {}]
  /\ daemon = [s \in Sessions |-> "down"]
  /\ version = [s \in Sessions |-> 0]
  /\ pinned = [s \in Sessions |-> FALSE]
  /\ saving = [s \in Sessions |-> Idle]
  /\ exit_save = [s \in Sessions |-> NoFile]
  /\ window = [s \in Sessions |-> "none"]
  /\ orphans = [s \in Sessions |-> {}]
  /\ restores = [s \in Sessions |-> NoFile]
  /\ disturbed = {} /\ erased = {}

-----------------------------------------------------------------------------
(* The GTK process: main.rs, then app::run, then ensure_daemon *)

(* A bare launch or --restore-all opens each sessions/ file that has no     *)
(* window; a launch without one makes up a UUID nobody knows.               *)
Launch(s) ==
  /\ window[s] = "none"
  /\ \/ sessions_dir[s] # NoFile
     \/ {sessions_dir[s], active_dir[s], trash_dir[s]} = {NoFile} /\ daemon[s] = "down"
  /\ window' = [window EXCEPT ![s] = "scan"]
  /\ restores' = [restores EXCEPT ![s] = NoFile]
  /\ erased' = erased \ {s}
  /\ UNCHANGED <<files, logs, process, orphans, disturbed>>

(* --restore-session: restore_from_trash_to_active, then app::run *)
RestoreSession(s) ==
  /\ window[s] = "none" /\ trash_dir[s] # NoFile
  /\ active_dir' = [active_dir EXCEPT ![s] = trash_dir[s]]
  /\ trash_dir' = [trash_dir EXCEPT ![s] = NoFile]
  /\ window' = [window EXCEPT ![s] = "scan"]
  /\ restores' = [restores EXCEPT ![s] = trash_dir[s]]
  /\ erased' = erased \ {s}
  /\ UNCHANGED <<sessions_dir, logs, process, orphans, disturbed>>

(* recover_orphans_in_active lists every file of active/ ... *)
ScanOrphans(s) ==
  /\ window[s] = "scan"
  /\ orphans' = [orphans EXCEPT ![s] =
       {[id |-> o, pinned |-> active_dir[o].pinned] : o \in {x \in Sessions : active_dir[x] # NoFile}}]
  /\ window' = [window EXCEPT ![s] = "recover"]
  /\ UNCHANGED <<files, logs, process, restores, disturbed, erased>>

(* ... and app::run moves them one by one, by the pin state it read:        *)
(* move_active_to_sessions, or delete_active_for.                           *)
SlipDropAll(o) ==
  /\ sessions_dir' = [sessions_dir EXCEPT ![o.id] = active_dir[o.id]]
  /\ active_dir' = [active_dir EXCEPT ![o.id] = NoFile]
TakeOrphan(o) ==
  /\ active_dir' = [active_dir EXCEPT ![o.id] = NoFile]
  /\ sessions_dir' = IF o.pinned /\ active_dir[o.id] # NoFile
                       THEN [sessions_dir EXCEPT ![o.id] = active_dir[o.id]] ELSE sessions_dir

RecoverOrphan(s) ==
  /\ window[s] = "recover"
  /\ \E o \in orphans[s] :
       /\ TakeOrphan(o)
       /\ orphans' = [orphans EXCEPT ![s] = @ \ {o}]
       /\ disturbed' = IF daemon[o.id] # "down" THEN disturbed \cup {o.id} ELSE disturbed
  /\ UNCHANGED <<trash_dir, logs, process, window, restores, erased>>

(* ensure_daemon: connect, else spawn; then wait for the socket *)
EnsureDaemon(s) ==
  /\ window[s] = "recover" /\ orphans[s] = {}
  /\ daemon' = IF daemon[s] = "down" THEN [daemon EXCEPT ![s] = "starting"] ELSE daemon
  /\ window' = [window EXCEPT ![s] = "connect"]
  /\ UNCHANGED <<files, logs, version, pinned, saving, exit_save, orphans, restores,
                 disturbed, erased>>

Connect(s) ==
  /\ window[s] = "connect" /\ Serving(s)
  /\ window' = [window EXCEPT ![s] = "open"]
  /\ UNCHANGED <<files, logs, process, orphans, restores, disturbed, erased>>

(* purge_old_trash deletes what has been in the trash for long enough. *)
PurgeTrash(s) ==
  /\ daemon[s] = "down" /\ trash_dir[s] # NoFile
  /\ trash_dir' = [trash_dir EXCEPT ![s] = NoFile]
  /\ UNCHANGED <<sessions_dir, active_dir, logs, process, gtk, disturbed, erased>>

(* The GTK process is killed, gives up waiting for the socket, or (after    *)
(* its daemon is gone) its window is closed: the shutdown RPC fails.        *)
WindowGone(s) ==
  /\ window[s] # "none"
  /\ window[s] # "erase"
  /\ window' = [window EXCEPT ![s] = "none"]
  /\ orphans' = [orphans EXCEPT ![s] = {}]
  /\ UNCHANGED <<files, logs, process, restores, disturbed, erased>>

-----------------------------------------------------------------------------
(* The daemon comes up: load, prune, bind and first save *)

DaemonLoad(s) ==
  /\ daemon[s] = "starting"
  /\ LET file == sessions_dir[s] IN
       /\ version' = [version EXCEPT ![s] = IF file = NoFile THEN 0 ELSE file.version]
       /\ pinned' = [pinned EXCEPT ![s] = file # NoFile /\ file.pinned]
       /\ logs' = [logs EXCEPT ![s] = @ \cup PanesOf(file)]
  /\ daemon' = [daemon EXCEPT ![s] = "loaded"]
  /\ UNCHANGED <<files, saving, exit_save, gtk, disturbed, erased>>

(* all_persisted_pane_ids: the panes of the files in sessions/ and trash/ *)
PersistedPanes(s) == PanesOf(sessions_dir[s]) \cup PanesOf(trash_dir[s])

PruneLogs(s) ==
  /\ daemon[s] = "loaded"
  /\ logs' = [x \in Sessions |->
       logs[x] \cap (PersistedPanes(x) \cup IF x = s THEN 1 .. version[s] ELSE {})]
  /\ daemon' = [daemon EXCEPT ![s] = "pruned"]
  /\ UNCHANGED <<files, version, pinned, saving, exit_save, gtk, disturbed, erased>>

SlipBindUnsaved(s) ==
  /\ daemon[s] = "pruned"
  /\ daemon' = [daemon EXCEPT ![s] = "up"]
  /\ disturbed' = disturbed \ {s}
  /\ UNCHANGED <<files, logs, version, pinned, saving, exit_save, gtk, erased>>
BindAndSave(s) ==
  /\ daemon[s] = "pruned"
  /\ active_dir' = [active_dir EXCEPT ![s] = Snapshot(s)]
  /\ daemon' = [daemon EXCEPT ![s] = "up"]
  /\ disturbed' = disturbed \ {s}
  /\ UNCHANGED <<sessions_dir, trash_dir, logs, version, pinned, saving, exit_save, gtk, erased>>

-----------------------------------------------------------------------------
(* The daemon at work *)

(* An RPC that changes the layout: a new pane and its log. *)
Edit(s) ==
  /\ daemon[s] = "up" /\ window[s] = "open" /\ version[s] < MaxVersion
  /\ version' = [version EXCEPT ![s] = @ + 1]
  /\ logs' = [logs EXCEPT ![s] = @ \cup {version[s] + 1}]
  /\ UNCHANGED <<files, daemon, pinned, saving, exit_save, gtk, disturbed, erased>>

(* handle_set_pinned: the new value, then a snapshot, on one worker *)
SetPinned(s) ==
  /\ daemon[s] = "up" /\ window[s] = "open"
  /\ \E w \in FreeWorkers(s) :
       /\ pinned' = [pinned EXCEPT ![s] = ~ @]
       /\ saving' = [saving EXCEPT ![s][w] = [version |-> version[s], pinned |-> ~ pinned[s]]]
  /\ UNCHANGED <<files, logs, daemon, version, exit_save, gtk, disturbed, erased>>

(* save_session_from_layout in the watcher, the debounce or the periodic    *)
(* task: nothing stops them before the process ends.                        *)
StartSave(s) ==
  /\ Serving(s) /\ CanUseWorker(s)
  /\ \E w \in FreeWorkers(s) : saving' = [saving EXCEPT ![s][w] = Snapshot(s)]
  /\ UNCHANGED <<files, logs, daemon, version, pinned, exit_save, gtk, disturbed, erased>>

SlipForgetSave(s, w) ==
  /\ saving[s][w] # NoFile
  /\ saving' = [saving EXCEPT ![s][w] = NoFile]
  /\ UNCHANGED <<files, logs, daemon, version, pinned, exit_save, gtk, disturbed, erased>>
FinishSave(s, w) ==
  /\ saving[s][w] # NoFile
  /\ active_dir' = [active_dir EXCEPT ![s] = saving[s][w]]
  /\ saving' = [saving EXCEPT ![s][w] = NoFile]
  /\ UNCHANGED <<sessions_dir, trash_dir, logs, daemon, version, pinned, exit_save, gtk,
                 disturbed, erased>>

-----------------------------------------------------------------------------
(* The daemon goes down *)

(* shutdown_clean, shutdown_save, disconnect; SIGTERM or SIGINT likewise    *)
BeginExit(s, phase) ==
  /\ daemon' = [daemon EXCEPT ![s] = phase]
  /\ exit_save' = [exit_save EXCEPT ![s] = Snapshot(s)]
  /\ UNCHANGED <<files, logs, version, pinned, saving, gtk, disturbed, erased>>

ShutdownRpc(s) ==
  /\ daemon[s] = "up" /\ window[s] = "open" /\ FreeWorkers(s) # {}
  /\ BeginExit(s, "rpc_save")

Signal(s) == daemon[s] = "up" /\ BeginExit(s, "sig_save")

ExitSave(s) ==
  /\ \/ daemon[s] = "rpc_save" /\ daemon' = [daemon EXCEPT ![s] = "rpc_move"]
     \/ daemon[s] = "sig_save" /\ daemon' = [daemon EXCEPT ![s] = "sig_move"]
  /\ active_dir' = [active_dir EXCEPT ![s] = exit_save[s]]
  /\ exit_save' = [exit_save EXCEPT ![s] = NoFile]
  /\ UNCHANGED <<sessions_dir, trash_dir, logs, version, pinned, saving, gtk, disturbed, erased>>

(* pinned_aware_exit_move: a missing source is fine *)
SlipNeverTrash(s) ==
  /\ active_dir' = [active_dir EXCEPT ![s] = NoFile]
  /\ sessions_dir' = IF pinned[s] THEN [sessions_dir EXCEPT ![s] = active_dir[s]] ELSE sessions_dir
  /\ UNCHANGED trash_dir
pinned_aware_exit_move(s) ==
  IF active_dir[s] = NoFile THEN UNCHANGED files
  ELSE /\ active_dir' = [active_dir EXCEPT ![s] = NoFile]
       /\ IF pinned[s]
            THEN sessions_dir' = [sessions_dir EXCEPT ![s] = active_dir[s]] /\ UNCHANGED trash_dir
            ELSE trash_dir' = [trash_dir EXCEPT ![s] = active_dir[s]] /\ UNCHANGED sessions_dir

ExitMove(s) ==
  /\ \/ daemon[s] = "rpc_move" /\ daemon' = [daemon EXCEPT ![s] = "rpc_ack"]
     \/ daemon[s] = "sig_move" /\ daemon' = [daemon EXCEPT ![s] = "sig_kill"]
  /\ pinned_aware_exit_move(s)
  /\ UNCHANGED <<logs, version, pinned, saving, exit_save, gtk, disturbed, erased>>

(* kill_all: the shells die, their drain tasks close every pane, and the    *)
(* watcher sees the layout run empty.                                       *)
KillAll(s) ==
  /\ daemon[s] = "sig_kill" /\ version[s] # 0
  /\ version' = [version EXCEPT ![s] = 0]
  /\ UNCHANGED <<files, logs, daemon, pinned, saving, exit_save, gtk, disturbed, erased>>

(* Close Window Permanently, 1: the shutdown RPC is answered first ... *)
ShutdownNow(s) ==
  /\ daemon[s] = "up" /\ window[s] = "open" /\ FreeWorkers(s) # {}
  /\ daemon' = [daemon EXCEPT ![s] = "shutdown_ack"]
  /\ window' = [window EXCEPT ![s] = "erase"]
  /\ UNCHANGED <<files, logs, version, pinned, saving, exit_save, orphans, restores,
                 disturbed, erased>>

(* ... 2: and on the answer the GTK process deletes the files and ends.     *)
EraseFiles(s) ==
  /\ window[s] = "erase"
  /\ sessions_dir' = [sessions_dir EXCEPT ![s] = NoFile]
  /\ active_dir' = [active_dir EXCEPT ![s] = NoFile]
  /\ window' = [window EXCEPT ![s] = "none"]
  /\ erased' = erased \cup {s}
  /\ UNCHANGED <<trash_dir, logs, process, orphans, restores, disturbed>>

Down(s) ==
  /\ daemon' = [daemon EXCEPT ![s] = "down"]
  /\ version' = [version EXCEPT ![s] = 0]
  /\ pinned' = [pinned EXCEPT ![s] = FALSE]
  /\ saving' = [saving EXCEPT ![s] = Idle]
  /\ exit_save' = [exit_save EXCEPT ![s] = NoFile]
  /\ UNCHANGED <<files, logs, gtk, disturbed, erased>>

(* process::exit, or main returns *)
Exit(s) == daemon[s] \in {"rpc_ack", "shutdown_ack", "sig_kill"} /\ Down(s)

(* kill -9, a panic, power off *)
Crash(s) == daemon[s] # "down" /\ Down(s)

-----------------------------------------------------------------------------
WindowStep(s) == ScanOrphans(s) \/ RecoverOrphan(s) \/ EnsureDaemon(s) \/ Connect(s)
StartStep(s) == DaemonLoad(s) \/ PruneLogs(s) \/ BindAndSave(s)
SaveStep(s) == \E w \in Workers : FinishSave(s, w)
ExitStep(s) == ExitSave(s) \/ ExitMove(s) \/ Exit(s)

Next ==
  \E s \in Sessions :
    \/ Launch(s) \/ RestoreSession(s) \/ WindowStep(s) \/ WindowGone(s) \/ PurgeTrash(s)
    \/ StartStep(s) \/ Edit(s) \/ SetPinned(s) \/ StartSave(s) \/ SaveStep(s)
    \/ ShutdownRpc(s) \/ Signal(s) \/ ExitStep(s) \/ KillAll(s)
    \/ ShutdownNow(s) \/ EraseFiles(s) \/ Crash(s)

(* The periodic task saves every 60 s whatever happens, a thread that took  *)
(* a snapshot writes it, a process that started starting or exiting goes on.*)
Fairness ==
  \A s \in Sessions :
    /\ WF_vars(StartSave(s)) /\ \A w \in Workers : WF_vars(FinishSave(s, w))
    /\ WF_vars(StartStep(s)) /\ WF_vars(ExitStep(s)) /\ WF_vars(WindowStep(s))

Spec == Init /\ [][Next]_vars /\ Fairness
-----------------------------------------------------------------------------
(* Properties *)

(* Every file is a whole snapshot, and a process that is gone holds nothing.*)
TypeOK ==
  /\ {sessions_dir, active_dir, trash_dir, exit_save, restores} \subseteq [Sessions -> Files]
  /\ logs \in [Sessions -> SUBSET (1 .. MaxVersion)]
  /\ daemon \in [Sessions -> DaemonPhases]
  /\ version \in [Sessions -> 0 .. MaxVersion] /\ pinned \in [Sessions -> BOOLEAN]
  /\ saving \in [Sessions -> [Workers -> Files]]
  /\ window \in [Sessions -> WindowPhases]
  /\ orphans \in [Sessions -> SUBSET Orphans]
  /\ disturbed \subseteq Sessions /\ erased \subseteq Sessions

(* "This call returns only after trash/{uuid}.json (or sessions/{uuid}.json)*)
(* is committed on disk": whatever saves are still in flight, an answered   *)
(* shutdown_clean leaves the session in the bucket its pin asks for.        *)
AckedCloseOnDisk ==
  [][\A s \in Sessions \ disturbed : daemon[s] # "rpc_ack" /\ (daemon')[s] = "rpc_ack" =>
       (IF pinned[s] THEN sessions_dir' ELSE trash_dir')[s] # NoFile]_vars

(* From the moment a client can connect until it leaves, a daemon has its   *)
(* active/ file, unless the start of another window took it away.           *)
LiveDaemonOnDisk ==
  \A s \in Sessions :
    daemon[s] \in {"up", "rpc_save", "sig_save"} /\ s \notin disturbed /\ s \notin erased =>
      active_dir[s] # NoFile

(* A pinned session that reached sessions/ is never lost: no crash, close,  *)
(* restore or recovery of any process takes the file away, only Close       *)
(* Window Permanently does.                                                 *)
SessionsFileStays ==
  [][\A s \in Sessions : sessions_dir[s] # NoFile /\ (sessions_dir')[s] = NoFile => window[s] = "erase"]_vars

(* "At most 60 seconds of layout changes are lost": the layout of a running *)
(* daemon reaches active/, even if a stale save overtakes a newer one or a  *)
(* starting window deletes the file.                                        *)
EventuallySaved ==
  \A s \in Sessions : \A v \in 1 .. MaxVersion :
    version[s] = v ~> (daemon[s] # "up" \/ (active_dir[s] # NoFile /\ active_dir[s].version >= v))

(* Undo Close: "the spawning daemon will pick the file up at startup".  The *)
(* same process first treats the restored file as a crash orphan, and the   *)
(* daemon reads sessions/ only.                                             *)
UndoCloseRestores ==
  \A s \in Sessions :
    window[s] = "open" /\ daemon[s] = "up" /\ restores[s] # NoFile => version[s] >= restores[s].version

(* Close Window Permanently: the daemon is shut down first "so the save     *)
(* tasks cannot race with the file delete and re-create the file".  It is   *)
(* answered before it exits.                                                *)
ErasedStaysGone ==
  \A s \in erased : sessions_dir[s] = NoFile /\ active_dir[s] = NoFile

(* The union prune_orphan_logs is given "is a safe superset of all          *)
(* legitimate UUIDs": a pane of a live session, once saved, keeps its log.  *)
(* Live sessions are saved in active/, which the union leaves out.          *)
LogsOfLiveSessionsKept ==
  \A s \in Sessions : daemon[s] = "up" => PanesOf(active_dir[s]) \subseteq logs[s]
=============================================================================
