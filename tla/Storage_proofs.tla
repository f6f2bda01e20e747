--------------------------- MODULE Storage_proofs ---------------------------
(* Proofs about what a daemon keeps on disk.  The three buckets of session   *)
(* files, for any number of sessions, worker threads and layout changes: a   *)
(* daemon a client can reach is on disk, an answered close has put the       *)
(* session into its bucket, and nothing but Close Window Permanently takes a *)
(* file out of sessions/.  A pane's byte log, for any ring, channel and file *)
(* limit: through full channels, failing writes, crashes and rotations cut   *)
(* short, the file keeps the output in order, and what a flush was answered  *)
(* for stays until newer output has its place.                               *)
EXTENDS SessionStore, ByteLog, SequenceLemmas

-----------------------------------------------------------------------------
(* Snapshots and files                                                       *)

LEMMA SavedIsAFile == \A file \in Saved : file # NoFile
BY StoreAssumption DEF Saved

LEMMA SnapshotIsSaved ==
  ASSUME TypeOK, NEW s \in Sessions
  PROVE  Snapshot(s) \in Saved /\ Snapshot(s) # NoFile
<1>1. Snapshot(s) \in Saved
  BY DEF TypeOK, Snapshot, Saved
<1> QED
  BY <1>1, SavedIsAFile

LEMMA FileFields ==
  ASSUME NEW file \in Files, file # NoFile
  PROVE  file.version \in 0 .. MaxVersion /\ file.pinned \in BOOLEAN
BY DEF Files, Saved

LEMMA PanesOfType == ASSUME NEW file \in Files PROVE PanesOf(file) \subseteq 1 .. MaxVersion
<1>1. CASE file = NoFile
  BY <1>1 DEF PanesOf
<1>2. CASE file # NoFile
  <2>1. file.version \in 0 .. MaxVersion /\ MaxVersion \in Nat
    BY <1>2, FileFields, StoreAssumption
  <2> QED
    BY <1>2, <2>1 DEF PanesOf
<1> QED
  BY <1>1, <1>2

-----------------------------------------------------------------------------
(* Every step keeps the types.                                               *)

LEMMA InitTypeOK == Init => TypeOK
BY StoreAssumption DEF Init, TypeOK, Files, Idle, DaemonPhases, WindowPhases

LEMMA WindowTypeOK ==
  ASSUME TypeOK, NEW s \in Sessions,
         Launch(s) \/ RestoreSession(s) \/ WindowStep(s) \/ WindowGone(s) \/ PurgeTrash(s)
  PROVE  TypeOK'
<1> USE DEF TypeOK
<1>0. NoFile \in Files
  BY DEF Files
<1>1. CASE Launch(s)
  BY <1>0, <1>1 DEF Launch, files, process, WindowPhases
<1>2. CASE RestoreSession(s)
  BY <1>0, <1>2 DEF RestoreSession, process, WindowPhases
<1>3. CASE ScanOrphans(s)
  <2>1. {[id |-> o, pinned |-> active_dir[o].pinned] : o \in {x \in Sessions : active_dir[x] # NoFile}} \subseteq Orphans
    BY FileFields DEF Orphans
  <2> QED
    BY <1>3, <2>1 DEF ScanOrphans, files, process, WindowPhases
<1>4. CASE RecoverOrphan(s)
  <2>1. PICK o \in orphans[s] :
          /\ TakeOrphan(o)
          /\ orphans' = [orphans EXCEPT ![s] = @ \ {o}]
          /\ disturbed' = IF daemon[o.id] # "down" THEN disturbed \cup {o.id} ELSE disturbed
    BY <1>4 DEF RecoverOrphan
  <2>2. o.id \in Sessions
    BY DEF Orphans
  <2>3. active_dir' \in [Sessions -> Files] /\ sessions_dir' \in [Sessions -> Files]
    BY <1>0, <2>1, <2>2 DEF TakeOrphan
  <2>4. orphans' \in [Sessions -> SUBSET Orphans] /\ disturbed' \subseteq Sessions
    BY <2>1, <2>2
  <2>5. UNCHANGED <<trash_dir, logs, daemon, version, pinned, saving, exit_save, window, restores, erased>>
    BY <1>4 DEF RecoverOrphan, process
  <2> QED
    BY <2>3, <2>4, <2>5
<1>5. CASE EnsureDaemon(s)
  BY <1>5 DEF EnsureDaemon, files, WindowPhases, DaemonPhases
<1>6. CASE Connect(s)
  BY <1>6 DEF Connect, files, process, WindowPhases
<1>7. CASE WindowGone(s)
  BY <1>7 DEF WindowGone, files, process, WindowPhases
<1>8. CASE PurgeTrash(s)
  BY <1>0, <1>8 DEF PurgeTrash, process, gtk
<1> QED
  BY <1>1, <1>2, <1>3, <1>4, <1>5, <1>6, <1>7, <1>8 DEF WindowStep

LEMMA DaemonTypeOK ==
  ASSUME TypeOK, NEW s \in Sessions,
         StartStep(s) \/ Edit(s) \/ SetPinned(s) \/ StartSave(s) \/ SaveStep(s)
  PROVE  TypeOK'
<1> USE DEF TypeOK
<1>0. NoFile \in Files /\ Saved \subseteq Files /\ MaxVersion \in Nat
  BY StoreAssumption DEF Files
<1>1. CASE DaemonLoad(s)
  <2> DEFINE file == sessions_dir[s]
  <2>1. file \in Files
    OBVIOUS
  <2>2. (IF file = NoFile THEN 0 ELSE file.version) \in 0 .. MaxVersion
    BY <1>0, <2>1, FileFields
  <2>3. (file # NoFile /\ file.pinned) \in BOOLEAN
    BY <2>1, FileFields
  <2>4. logs[s] \cup PanesOf(file) \subseteq 1 .. MaxVersion
    BY <2>1, PanesOfType
  <2>5. /\ version' = [version EXCEPT ![s] = IF file = NoFile THEN 0 ELSE file.version]
        /\ pinned' = [pinned EXCEPT ![s] = file # NoFile /\ file.pinned]
        /\ logs' = [logs EXCEPT ![s] = logs[s] \cup PanesOf(file)]
        /\ daemon' = [daemon EXCEPT ![s] = "loaded"]
    BY <1>1 DEF DaemonLoad
  <2> HIDE DEF file
  <2>6. version' \in [Sessions -> 0 .. MaxVersion]
    BY <2>2, <2>5
  <2>7. pinned' \in [Sessions -> BOOLEAN]
    BY <2>3, <2>5
  <2>8. logs' \in [Sessions -> SUBSET (1 .. MaxVersion)]
    BY <2>4, <2>5
  <2>9. daemon' \in [Sessions -> DaemonPhases]
    BY <2>5 DEF DaemonPhases
  <2> QED
    BY <1>1, <2>6, <2>7, <2>8, <2>9 DEF DaemonLoad, files, gtk
<1>2. CASE PruneLogs(s)
  <2>1. logs' \in [Sessions -> SUBSET (1 .. MaxVersion)]
    BY <1>2 DEF PruneLogs
  <2> QED
    BY <1>2, <2>1 DEF PruneLogs, files, gtk, DaemonPhases
<1>3. CASE BindAndSave(s)
  BY <1>0, <1>3, SnapshotIsSaved DEF BindAndSave, gtk, DaemonPhases
<1>4. CASE Edit(s)
  <2>1. version[s] + 1 \in 0 .. MaxVersion /\ version[s] + 1 \in 1 .. MaxVersion
    BY <1>0, <1>4 DEF Edit
  <2> QED
    BY <1>4, <2>1 DEF Edit, files, gtk
<1>5. CASE SetPinned(s)
  <2>1. PICK w \in Workers :
          saving' = [saving EXCEPT ![s][w] = [version |-> version[s], pinned |-> ~ pinned[s]]]
    BY <1>5 DEF SetPinned, FreeWorkers
  <2>2. [version |-> version[s], pinned |-> ~ pinned[s]] \in Files
    BY <1>0 DEF Saved
  <2>3. saving' \in [Sessions -> [Workers -> Files]]
    BY <2>1, <2>2
  <2>4. pinned' \in [Sessions -> BOOLEAN]
    BY <1>5 DEF SetPinned
  <2> QED
    BY <1>5, <2>3, <2>4 DEF SetPinned, files, gtk
<1>6. CASE StartSave(s)
  <2>1. PICK w \in Workers : saving' = [saving EXCEPT ![s][w] = Snapshot(s)]
    BY <1>6 DEF StartSave, FreeWorkers
  <2>2. saving' \in [Sessions -> [Workers -> Files]]
    BY <1>0, <2>1, SnapshotIsSaved
  <2> QED
    BY <1>6, <2>2 DEF StartSave, files, gtk
<1>7. ASSUME NEW w \in Workers, FinishSave(s, w) PROVE TypeOK'
  BY <1>0, <1>7 DEF FinishSave, gtk
<1> QED
  BY <1>1, <1>2, <1>3, <1>4, <1>5, <1>6, <1>7 DEF StartStep, SaveStep

LEMMA ExitTypeOK ==
  ASSUME TypeOK, NEW s \in Sessions,
         \/ ShutdownRpc(s) \/ Signal(s) \/ ExitStep(s) \/ KillAll(s)
         \/ ShutdownNow(s) \/ EraseFiles(s) \/ Crash(s)
  PROVE  TypeOK'
<1> USE DEF TypeOK
<1>0. NoFile \in Files /\ Saved \subseteq Files /\ MaxVersion \in Nat
  BY StoreAssumption DEF Files
<1>1. ASSUME NEW phase \in DaemonPhases, BeginExit(s, phase) PROVE TypeOK'
  BY <1>0, <1>1, SnapshotIsSaved DEF BeginExit, files, gtk
<1>2. CASE ShutdownRpc(s) \/ Signal(s)
  BY <1>1, <1>2 DEF ShutdownRpc, Signal, DaemonPhases
<1>3. CASE ExitSave(s)
  BY <1>0, <1>3 DEF ExitSave, gtk, DaemonPhases
<1>4. CASE ExitMove(s)
  <2>1. /\ sessions_dir' \in [Sessions -> Files] /\ active_dir' \in [Sessions -> Files]
        /\ trash_dir' \in [Sessions -> Files]
    <3>1. pinned_aware_exit_move(s)
      BY <1>4 DEF ExitMove
    <3>2. CASE active_dir[s] = NoFile
      BY <3>1, <3>2 DEF pinned_aware_exit_move, files
    <3>3. CASE active_dir[s] # NoFile
      BY <1>0, <3>1, <3>3 DEF pinned_aware_exit_move
    <3> QED
      BY <3>2, <3>3
  <2> QED
    BY <1>4, <2>1 DEF ExitMove, gtk, DaemonPhases
<1>5. CASE KillAll(s)
  BY <1>0, <1>5 DEF KillAll, files, gtk
<1>6. CASE ShutdownNow(s)
  BY <1>6 DEF ShutdownNow, files, DaemonPhases, WindowPhases
<1>7. CASE EraseFiles(s)
  BY <1>0, <1>7 DEF EraseFiles, process, WindowPhases
<1>8. CASE Down(s)
  BY <1>0, <1>8 DEF Down, files, gtk, Idle, DaemonPhases
<1> QED
  BY <1>2, <1>3, <1>4, <1>5, <1>6, <1>7, <1>8 DEF ExitStep, Exit, Crash

LEMMA NextTypeOK == TypeOK /\ [Next]_vars => TypeOK'
<1> SUFFICES ASSUME TypeOK, [Next]_vars PROVE TypeOK'
  OBVIOUS
<1>1. CASE Next
  BY <1>1, WindowTypeOK, DaemonTypeOK, ExitTypeOK DEF Next
<1>2. CASE UNCHANGED vars
  BY <1>2 DEF vars, files, process, gtk, TypeOK
<1> QED
  BY <1>1, <1>2

(* Whatever processes start, save, exit and die at any step, every file is  *)
(* a whole snapshot and every process is in a phase of the code.            *)
THEOREM StoreTypesCorrect == Spec => []TypeOK
BY InitTypeOK, NextTypeOK, PTL DEF Spec

-----------------------------------------------------------------------------
(* What is on disk while a daemon is up.  The exit paths belong to it too:   *)
(* the file is there when the move starts.  Close Window Permanently deletes *)
(* it only once the daemon has answered, and until the next launch nobody    *)
(* starts another daemon for that session.                                   *)

HasFile(s) ==
  daemon[s] \in {"up", "rpc_save", "rpc_move", "sig_save", "sig_move"} /\ s \notin disturbed =>
    active_dir[s] # NoFile
ExitSaveTaken(s) == daemon[s] \in {"rpc_save", "sig_save"} => exit_save[s] # NoFile
ClosedForGood(s) ==
  /\ window[s] = "erase" \/ s \in erased => daemon[s] \in {"down", "shutdown_ack"}
  /\ s \in erased => window[s] = "none"

DiskInv ==
  TypeOK /\ \A s \in Sessions : HasFile(s) /\ ExitSaveTaken(s) /\ ClosedForGood(s)

LEMMA InitDiskInv == Init => DiskInv
BY InitTypeOK DEF Init, DiskInv, HasFile, ExitSaveTaken, ClosedForGood

LEMMA WindowDiskInv ==
  ASSUME DiskInv, TypeOK', NEW s \in Sessions,
         Launch(s) \/ RestoreSession(s) \/ WindowStep(s) \/ WindowGone(s) \/ PurgeTrash(s)
  PROVE  DiskInv'
<1> USE DEF DiskInv, TypeOK, HasFile, ExitSaveTaken, ClosedForGood
<1>1. CASE Launch(s)
  BY <1>1 DEF Launch, files, process
<1>2. CASE RestoreSession(s)
  BY <1>2 DEF RestoreSession, process
<1>3. CASE ScanOrphans(s)
  BY <1>3 DEF ScanOrphans, files, process
<1>4. CASE RecoverOrphan(s)
  <2>1. PICK o \in orphans[s] :
          /\ TakeOrphan(o)
          /\ disturbed' = IF daemon[o.id] # "down" THEN disturbed \cup {o.id} ELSE disturbed
    BY <1>4 DEF RecoverOrphan
  <2>2. active_dir' = [active_dir EXCEPT ![o.id] = NoFile]
    BY <2>1 DEF TakeOrphan
  <2>3. ASSUME NEW x \in Sessions PROVE HasFile(x)'
    BY <1>4, <2>1, <2>2 DEF RecoverOrphan, process
  <2> QED
    BY <1>4, <2>3 DEF RecoverOrphan, process
<1>5. CASE EnsureDaemon(s)
  BY <1>5 DEF EnsureDaemon, files
<1>6. CASE Connect(s)
  BY <1>6 DEF Connect, files, process
<1>7. CASE WindowGone(s)
  BY <1>7 DEF WindowGone, files, process
<1>8. CASE PurgeTrash(s)
  BY <1>8 DEF PurgeTrash, process, gtk
<1> QED
  BY <1>1, <1>2, <1>3, <1>4, <1>5, <1>6, <1>7, <1>8 DEF WindowStep

LEMMA DaemonDiskInv ==
  ASSUME DiskInv, TypeOK', NEW s \in Sessions,
         StartStep(s) \/ Edit(s) \/ SetPinned(s) \/ StartSave(s) \/ SaveStep(s)
  PROVE  DiskInv'
<1> USE DEF DiskInv, TypeOK, HasFile, ExitSaveTaken, ClosedForGood
<1>1. CASE DaemonLoad(s)
  BY <1>1 DEF DaemonLoad, files, gtk
<1>2. CASE PruneLogs(s)
  BY <1>2 DEF PruneLogs, files, gtk
<1>3. CASE BindAndSave(s)
  BY <1>3, SnapshotIsSaved DEF BindAndSave, gtk
<1>4. CASE Edit(s) \/ SetPinned(s) \/ StartSave(s)
  BY <1>4 DEF Edit, SetPinned, StartSave, files, gtk
<1>5. ASSUME NEW w \in Workers, FinishSave(s, w) PROVE DiskInv'
  BY <1>5 DEF FinishSave, gtk
<1> QED
  BY <1>1, <1>2, <1>3, <1>4, <1>5 DEF StartStep, SaveStep

LEMMA ExitDiskInv ==
  ASSUME DiskInv, TypeOK', NEW s \in Sessions,
         \/ ShutdownRpc(s) \/ Signal(s) \/ ExitStep(s) \/ KillAll(s)
         \/ ShutdownNow(s) \/ EraseFiles(s) \/ Crash(s)
  PROVE  DiskInv'
<1> USE DEF DiskInv, TypeOK, HasFile, ExitSaveTaken, ClosedForGood
<1>1. CASE ShutdownRpc(s) \/ Signal(s)
  <2>1. PICK phase \in {"rpc_save", "sig_save"} : daemon[s] = "up" /\ BeginExit(s, phase)
    BY <1>1 DEF ShutdownRpc, Signal
  <2>2. Snapshot(s) # NoFile
    BY SnapshotIsSaved
  <2>3. /\ daemon' = [daemon EXCEPT ![s] = phase] /\ exit_save' = [exit_save EXCEPT ![s] = Snapshot(s)]
        /\ UNCHANGED <<active_dir, window, disturbed, erased>>
    BY <2>1 DEF BeginExit, files, gtk
  <2>4. ASSUME NEW t \in Sessions PROVE HasFile(t)' /\ ExitSaveTaken(t)' /\ ClosedForGood(t)'
    <3>1. CASE t = s
      BY <2>1, <2>2, <2>3, <3>1
    <3>2. CASE t # s
      BY <2>3, <3>2
    <3> QED
      BY <3>1, <3>2
  <2> QED
    BY <2>4
<1>2. CASE ExitSave(s)
  BY <1>2 DEF ExitSave, gtk
<1>3. CASE ExitMove(s)
  <2>1. \A x \in Sessions \ {s} : active_dir'[x] = active_dir[x] /\ daemon'[x] = daemon[x]
    BY <1>3 DEF ExitMove, pinned_aware_exit_move, files
  <2>2. daemon'[s] \in {"rpc_ack", "sig_kill"} /\ daemon[s] \in {"rpc_move", "sig_move"}
    BY <1>3 DEF ExitMove
  <2> QED
    BY <1>3, <2>1, <2>2 DEF ExitMove, gtk
<1>4. CASE KillAll(s)
  BY <1>4 DEF KillAll, files, gtk
<1>5. CASE ShutdownNow(s)
  BY <1>5 DEF ShutdownNow, files
<1>6. CASE EraseFiles(s)
  BY <1>6 DEF EraseFiles, process
<1>7. CASE Down(s)
  BY <1>7 DEF Down, files, gtk
<1> QED
  BY <1>1, <1>2, <1>3, <1>4, <1>5, <1>6, <1>7 DEF ExitStep, Exit, Crash

LEMMA NextDiskInv == DiskInv /\ [Next]_vars => DiskInv'
<1> SUFFICES ASSUME DiskInv, [Next]_vars PROVE DiskInv'
  OBVIOUS
<1>1. TypeOK'
  BY NextTypeOK DEF DiskInv
<1>2. CASE Next
  BY <1>1, <1>2, WindowDiskInv, DaemonDiskInv, ExitDiskInv DEF Next
<1>3. CASE UNCHANGED vars
  BY <1>1, <1>3 DEF vars, files, process, gtk, DiskInv, HasFile, ExitSaveTaken, ClosedForGood
<1> QED
  BY <1>2, <1>3

(* From the moment a client can connect until the daemon leaves, its layout *)
(* is in active/, whatever saves overtake each other and whatever crashes,  *)
(* unless the start of a window took the file away.                         *)
THEOREM LiveDaemonsOnDisk == Spec => []LiveDaemonOnDisk
<1>1. DiskInv => LiveDaemonOnDisk
  BY DEF DiskInv, HasFile, LiveDaemonOnDisk
<1> QED
  BY <1>1, InitDiskInv, NextDiskInv, PTL DEF Spec

-----------------------------------------------------------------------------
(* What the exit paths and the recovery of orphans leave behind              *)

LEMMA PhaseReached ==
  ASSUME TypeOK, Next, NEW s \in Sessions, daemon[s] # "rpc_ack", daemon'[s] = "rpc_ack"
  PROVE  daemon[s] = "rpc_move" /\ ExitMove(s)
<1>1. PICK x \in Sessions :
        \/ Launch(x) \/ RestoreSession(x) \/ WindowStep(x) \/ WindowGone(x) \/ PurgeTrash(x)
        \/ StartStep(x) \/ Edit(x) \/ SetPinned(x) \/ StartSave(x) \/ SaveStep(x)
        \/ ShutdownRpc(x) \/ Signal(x) \/ ExitStep(x) \/ KillAll(x)
        \/ ShutdownNow(x) \/ EraseFiles(x) \/ Crash(x)
  BY DEF Next
<1> USE DEF TypeOK
<1>2. CASE daemon' = daemon
  BY <1>2
<1>3. CASE \E phase \in DaemonPhases \ {"rpc_ack"} : daemon' = [daemon EXCEPT ![x] = phase]
  BY <1>3
<1>4. CASE ExitMove(x)
  BY <1>4 DEF ExitMove
<1>5. CASE Launch(x) \/ RestoreSession(x) \/ WindowGone(x) \/ PurgeTrash(x) \/ Edit(x)
           \/ SetPinned(x) \/ StartSave(x) \/ SaveStep(x) \/ KillAll(x) \/ EraseFiles(x)
           \/ ScanOrphans(x) \/ RecoverOrphan(x) \/ Connect(x)
  BY <1>2, <1>5 DEF Launch, RestoreSession, WindowGone, PurgeTrash, Edit, SetPinned, StartSave,
     SaveStep, FinishSave, KillAll, EraseFiles, ScanOrphans, RecoverOrphan, Connect, process
<1>6. CASE EnsureDaemon(x) \/ StartStep(x) \/ ShutdownRpc(x) \/ Signal(x) \/ ExitSave(x)
           \/ Exit(x) \/ ShutdownNow(x) \/ Crash(x)
  BY <1>2, <1>3, <1>6 DEF EnsureDaemon, StartStep, DaemonLoad, PruneLogs, BindAndSave, ShutdownRpc,
     Signal, BeginExit, ExitSave, Exit, ShutdownNow, Crash, Down, DaemonPhases
<1> QED
  BY <1>1, <1>4, <1>5, <1>6 DEF WindowStep, ExitStep

(* An answered shutdown_clean has left the session in sessions/ or trash/,  *)
(* by its pin: no save that was still in flight, and no other process but a *)
(* starting window, can take the file from under the move.                  *)
THEOREM AckedClosesOnDisk == Spec => AckedCloseOnDisk
<1> DEFINE Kept ==
      \A s \in Sessions \ disturbed : daemon[s] # "rpc_ack" /\ (daemon')[s] = "rpc_ack" =>
        (IF pinned[s] THEN sessions_dir' ELSE trash_dir')[s] # NoFile
<1>1. DiskInv /\ [Next]_vars => [Kept]_vars
  <2> SUFFICES ASSUME DiskInv, Next, NEW s \in Sessions \ disturbed,
                      daemon[s] # "rpc_ack", (daemon')[s] = "rpc_ack"
               PROVE  (IF pinned[s] THEN sessions_dir' ELSE trash_dir')[s] # NoFile
    OBVIOUS
  <2>1. daemon[s] = "rpc_move" /\ ExitMove(s)
    BY PhaseReached DEF DiskInv
  <2>2. active_dir[s] # NoFile
    BY <2>1 DEF DiskInv, HasFile
  <2> QED
    BY <2>1, <2>2 DEF ExitMove, pinned_aware_exit_move, DiskInv, TypeOK
<1> QED
  BY <1>1, InitDiskInv, NextDiskInv, PTL DEF Spec, AckedCloseOnDisk

(* A file of sessions/ is overwritten by a later snapshot or stays: no       *)
(* crash, exit, restore, purge or recovery of any process takes it away,     *)
(* only the deletion that Close Window Permanently asks for.                 *)
THEOREM SessionsFilesStay == Spec => SessionsFileStays
<1> DEFINE Stays ==
      \A s \in Sessions :
        sessions_dir[s] # NoFile /\ (sessions_dir')[s] = NoFile => window[s] = "erase"
<1>1. TypeOK /\ [Next]_vars => [Stays]_vars
  <2> SUFFICES ASSUME TypeOK, Next, NEW s \in Sessions,
                      sessions_dir[s] # NoFile, (sessions_dir')[s] = NoFile
               PROVE  window[s] = "erase"
    OBVIOUS
  <2> USE DEF TypeOK
  <2>1. PICK x \in Sessions :
          \/ Launch(x) \/ RestoreSession(x) \/ WindowStep(x) \/ WindowGone(x) \/ PurgeTrash(x)
          \/ StartStep(x) \/ Edit(x) \/ SetPinned(x) \/ StartSave(x) \/ SaveStep(x)
          \/ ShutdownRpc(x) \/ Signal(x) \/ ExitStep(x) \/ KillAll(x)
          \/ ShutdownNow(x) \/ EraseFiles(x) \/ Crash(x)
    BY DEF Next
  <2>2. sessions_dir' # sessions_dir
    OBVIOUS
  <2>3. CASE RecoverOrphan(x)
    <3>1. PICK o \in orphans[x] : TakeOrphan(o)
      BY <2>3 DEF RecoverOrphan
    <3>2. o.id \in Sessions
      BY DEF Orphans
    <3> QED
      BY <2>2, <3>1, <3>2 DEF TakeOrphan
  <2>4. CASE ExitMove(x)
    <3>1. pinned_aware_exit_move(x)
      BY <2>4 DEF ExitMove
    <3>2. active_dir[x] # NoFile /\ sessions_dir' = [sessions_dir EXCEPT ![x] = active_dir[x]]
      BY <2>2, <3>1 DEF pinned_aware_exit_move, files
    <3> QED
      BY <3>2
  <2>5. CASE EraseFiles(x)
    BY <2>5 DEF EraseFiles
  <2>6. CASE WindowStep(x) /\ ~ RecoverOrphan(x)
    BY <2>2, <2>6 DEF WindowStep, ScanOrphans, EnsureDaemon, Connect, files
  <2>7. CASE ExitStep(x) /\ ~ ExitMove(x)
    BY <2>2, <2>7 DEF ExitStep, ExitSave, Exit, Down, files
  <2>8. CASE \/ Launch(x) \/ RestoreSession(x) \/ WindowGone(x) \/ PurgeTrash(x) \/ StartStep(x)
             \/ Edit(x) \/ SetPinned(x) \/ StartSave(x) \/ SaveStep(x)
    BY <2>2, <2>8 DEF Launch, RestoreSession, WindowGone, PurgeTrash, StartStep, DaemonLoad,
       PruneLogs, BindAndSave, Edit, SetPinned, StartSave, SaveStep, FinishSave, files
  <2>9. CASE ShutdownRpc(x) \/ Signal(x) \/ KillAll(x) \/ ShutdownNow(x) \/ Crash(x)
    BY <2>2, <2>9 DEF ShutdownRpc, Signal, BeginExit, KillAll, ShutdownNow, Crash, Down, files
  <2> QED
    BY <2>1, <2>3, <2>4, <2>5, <2>6, <2>7, <2>8, <2>9
<1> QED
  BY <1>1, StoreTypesCorrect, PTL DEF Spec, SessionsFileStays


-----------------------------------------------------------------------------
(* Increasing sequences of byte numbers                                      *)

Below(s, t) == \A x \in ToSet(s), y \in ToSet(t) : x < y

LEMMA IncreasingPlaces ==
  ASSUME NEW s \in Seq(Nat)
  PROVE  Increasing(s) <=> \A i, j \in 1 .. Len(s) : i < j => s[i] < s[j]
<1>1. DOMAIN s = 1 .. Len(s)
  OBVIOUS
<1> QED
  BY <1>1 DEF Increasing

LEMMA IncreasingDistinct == ASSUME NEW s \in Seq(Nat), Increasing(s) PROVE IsInjective(s)
<1>1. \A i, j \in 1 .. Len(s) : i < j => s[i] < s[j]
  BY IncreasingPlaces
<1>2. ASSUME NEW i \in 1 .. Len(s), NEW j \in 1 .. Len(s), s[i] = s[j] PROVE i = j
  <2>1. s[i] \in Nat /\ s[j] \in Nat /\ i \in Int /\ j \in Int
    OBVIOUS
  <2>2. ~(i < j) /\ ~(j < i)
    BY <1>1, <1>2, <2>1
  <2> QED
    BY <2>1, <2>2
<1> QED
  BY <1>2, DistinctPlaces

LEMMA IncreasingEmpty == Increasing(<<>>) /\ ToSet(<<>>) = {} /\ <<>> \in Seq(Nat) /\ Len(<<>>) = 0
BY NoElement DEF Increasing

LEMMA IncreasingConcat ==
  ASSUME NEW s \in Seq(Nat), NEW t \in Seq(Nat), Increasing(s), Increasing(t), Below(s, t)
  PROVE  s \o t \in Seq(Nat) /\ Increasing(s \o t) /\ ToSet(s \o t) = ToSet(s) \cup ToSet(t)
<1> DEFINE r == s \o t
<1>1. /\ r \in Seq(Nat) /\ Len(r) = Len(s) + Len(t)
      /\ \A k \in 1 .. Len(s) + Len(t) : r[k] = IF k <= Len(s) THEN s[k] ELSE t[k - Len(s)]
  BY ConcatProperties
<1>2. /\ Len(s) \in Nat /\ Len(t) \in Nat
      /\ \A i, j \in 1 .. Len(s) : i < j => s[i] < s[j]
      /\ \A i, j \in 1 .. Len(t) : i < j => t[i] < t[j]
  BY IncreasingPlaces
<1>3. \A i \in 1 .. Len(s), j \in 1 .. Len(t) : s[i] < t[j]
  BY InToSet DEF Below
<1> HIDE DEF r
<1>4. ASSUME NEW i \in 1 .. Len(r), NEW j \in 1 .. Len(r), i < j PROVE r[i] < r[j]
  <2>1. CASE j <= Len(s)
    <3>1. i \in 1 .. Len(s) /\ j \in 1 .. Len(s) /\ r[i] = s[i] /\ r[j] = s[j]
      BY <1>1, <1>2, <1>4, <2>1
    <3> QED
      BY <1>2, <1>4, <3>1
  <2>2. CASE i <= Len(s) /\ ~(j <= Len(s))
    <3>1. i \in 1 .. Len(s) /\ j - Len(s) \in 1 .. Len(t) /\ r[i] = s[i] /\ r[j] = t[j - Len(s)]
      BY <1>1, <1>2, <2>2
    <3> QED
      BY <1>3, <3>1
  <2>3. CASE ~(i <= Len(s))
    <3> DEFINE m == Len(s)
               n == Len(t)
    <3>0. m \in Nat /\ n \in Nat /\ i \in 1 .. m + n /\ j \in 1 .. m + n /\ i < j /\ ~(i <= m)
      BY <1>1, <1>2, <1>4, <2>3
    <3> HIDE DEF m, n
    <3>a. i - m \in 1 .. n /\ j - m \in 1 .. n /\ i - m < j - m /\ ~(j <= m)
      BY <3>0
    <3>1. /\ i - Len(s) \in 1 .. Len(t) /\ j - Len(s) \in 1 .. Len(t) /\ i - Len(s) < j - Len(s)
          /\ ~(j <= Len(s)) /\ i \in 1 .. Len(s) + Len(t) /\ j \in 1 .. Len(s) + Len(t)
      BY <3>0, <3>a DEF m, n
    <3>2. r[i] = t[i - Len(s)] /\ r[j] = t[j - Len(s)]
      BY <1>1, <2>3, <3>1
    <3> QED
      BY <1>2, <3>1, <3>2
  <2> QED
    BY <2>1, <2>2, <2>3
<1> QED
  BY <1>1, <1>4, IncreasingPlaces, ConcatHolds, ZenonT(60) DEF r

(* A part of an increasing sequence                                          *)
LEMMA IncreasingPart ==
  ASSUME NEW s \in Seq(Nat), Increasing(s), NEW m \in 1 .. Len(s) + 1, NEW n \in m - 1 .. Len(s)
  PROVE  /\ SubSeq(s, m, n) \in Seq(Nat) /\ Increasing(SubSeq(s, m, n)) /\ Len(SubSeq(s, m, n)) = n - m + 1
         /\ \A x : x \in ToSet(SubSeq(s, m, n)) <=> \E k \in m .. n : s[k] = x
<1> DEFINE r == SubSeq(s, m, n)
<1>0. Len(s) \in Nat /\ m \in Nat /\ n \in Nat
  OBVIOUS
<1>1. /\ r \in Seq(Nat) /\ Len(r) = n - m + 1
      /\ \A k \in 1 .. n - m + 1 : r[k] = s[m + k - 1]
  BY <1>0, SubSeqProperties, SMTT(30)
<1> HIDE DEF r
<1>2. \A i, j \in 1 .. Len(s) : i < j => s[i] < s[j]
  BY IncreasingPlaces
<1>3. ASSUME NEW i \in 1 .. Len(r), NEW j \in 1 .. Len(r), i < j PROVE r[i] < r[j]
  <2>1. /\ m + i - 1 \in 1 .. Len(s) /\ m + j - 1 \in 1 .. Len(s) /\ m + i - 1 < m + j - 1
        /\ i \in 1 .. n - m + 1 /\ j \in 1 .. n - m + 1
    <3>1. Len(r) = n - m + 1
      BY <1>1
    <3> QED
      BY <1>0, <1>3, <3>1
  <2>2. r[i] = s[m + i - 1] /\ r[j] = s[m + j - 1]
    BY <1>1, <2>1
  <2> QED
    BY <1>2, <2>1, <2>2
<1>4. ASSUME NEW x, x \in ToSet(r) PROVE \E k \in m .. n : s[k] = x
  <2>1. PICK i \in 1 .. Len(r) : r[i] = x
    BY <1>1, <1>4, InToSet
  <2>2. m + i - 1 \in m .. n /\ i \in 1 .. n - m + 1
    BY <1>0, <1>1
  <2>3. s[m + i - 1] = x
    BY <1>1, <2>1, <2>2
  <2> QED
    BY <2>2, <2>3
<1>5. ASSUME NEW k \in m .. n PROVE s[k] \in ToSet(r)
  <2>1. k - m + 1 \in 1 .. Len(r) /\ m + (k - m + 1) - 1 = k
    BY <1>0, <1>1
  <2>2. r[k - m + 1] = s[k]
    BY <1>1, <2>1
  <2> QED
    BY <1>1, <2>1, <2>2, InToSet
<1>6. Increasing(r)
  BY <1>1, <1>3, IncreasingPlaces
<1> QED
  BY <1>1, <1>4, <1>5, <1>6 DEF r

(* An increasing sequence in two parts                                       *)
LEMMA IncreasingCut ==
  ASSUME NEW s \in Seq(Nat), Increasing(s), NEW c \in 0 .. Len(s)
  PROVE  LET front == SubSeq(s, 1, c)
             back == SubSeq(s, c + 1, Len(s))
         IN  /\ front \in Seq(Nat) /\ back \in Seq(Nat) /\ Increasing(front) /\ Increasing(back)
             /\ Below(front, back) /\ ToSet(front) \cup ToSet(back) = ToSet(s)
<1> DEFINE front == SubSeq(s, 1, c)
           back == SubSeq(s, c + 1, Len(s))
           n == Len(s)
<1>1. n \in Nat /\ 1 \in 1 .. n + 1 /\ c \in 1 - 1 .. n /\ c + 1 \in 1 .. n + 1 /\ n \in (c + 1) - 1 .. n /\ c \in Nat
  OBVIOUS
<1>2. /\ front \in Seq(Nat) /\ Increasing(front)
      /\ \A x : x \in ToSet(front) <=> \E k \in 1 .. c : s[k] = x
  BY <1>1, IncreasingPart
<1>3. /\ back \in Seq(Nat) /\ Increasing(back)
      /\ \A x : x \in ToSet(back) <=> \E k \in c + 1 .. n : s[k] = x
  BY <1>1, IncreasingPart
<1> HIDE DEF front, back
<1>4. Below(front, back)
  <2>1. \A i, j \in 1 .. n : i < j => s[i] < s[j]
    BY IncreasingPlaces
  <2>2. ASSUME NEW x \in ToSet(front), NEW y \in ToSet(back) PROVE x < y
    <3>1. PICK i \in 1 .. c : s[i] = x
      BY <1>2
    <3>2. PICK j \in c + 1 .. n : s[j] = y
      BY <1>3
    <3>3. i \in 1 .. n /\ j \in 1 .. n /\ i < j
      BY <1>1
    <3> QED
      BY <2>1, <3>1, <3>2, <3>3
  <2> QED
    BY <2>2 DEF Below
<1>5. ToSet(front) \cup ToSet(back) = ToSet(s)
  <2>1. \A x : x \in ToSet(s) <=> \E k \in 1 .. n : s[k] = x
    BY InToSet
  <2>2. \A k : k \in 1 .. n <=> k \in 1 .. c \/ k \in c + 1 .. n
    BY <1>1
  <2> QED
    BY <1>2, <1>3, <2>1, <2>2
<1> QED
  BY <1>2, <1>3, <1>4, <1>5 DEF front, back

(* The newest n of an increasing sequence                                    *)
LEMMA NewestIs ==
  ASSUME NEW s \in Seq(Nat), Increasing(s), NEW n \in Nat
  PROVE  /\ Newest(s, n) \in Seq(Nat) /\ Increasing(Newest(s, n))
         /\ Len(Newest(s, n)) = IF Len(s) > n THEN n ELSE Len(s)
         /\ \A x : x \in ToSet(Newest(s, n)) <=> \E k \in 1 .. Len(s) : k > Len(s) - n /\ s[k] = x
         /\ ToSet(Newest(s, n)) \subseteq ToSet(s)
<1> DEFINE m == IF Len(s) > n THEN Len(s) - n + 1 ELSE 1
<1>1. Len(s) \in Nat /\ m \in 1 .. Len(s) + 1 /\ Len(s) \in m - 1 .. Len(s)
  OBVIOUS
<1>2. /\ Newest(s, n) = SubSeq(s, m, Len(s)) /\ Len(s) - m + 1 = IF Len(s) > n THEN n ELSE Len(s)
  BY DEF Newest
<1>3. \A k : k \in m .. Len(s) <=> k \in 1 .. Len(s) /\ k > Len(s) - n
  BY <1>1
<1> HIDE DEF m
<1>4. /\ Newest(s, n) \in Seq(Nat) /\ Increasing(Newest(s, n)) /\ Len(Newest(s, n)) = Len(s) - m + 1
      /\ \A x : x \in ToSet(Newest(s, n)) <=> \E k \in m .. Len(s) : s[k] = x
  BY <1>1, <1>2, IncreasingPart, SMTT(30)
<1>5. \A x : x \in ToSet(Newest(s, n)) <=> \E k \in 1 .. Len(s) : k > Len(s) - n /\ s[k] = x
  BY <1>3, <1>4
<1>6. ToSet(Newest(s, n)) \subseteq ToSet(s)
  BY <1>5, InToSet
<1> QED
  BY <1>2, <1>4, <1>5, <1>6

LEMMA NewestType ==
  ASSUME NEW s \in Seq(Nat), NEW n \in Nat
  PROVE  Newest(s, n) \in Seq(Nat) /\ Len(Newest(s, n)) <= n
<1> DEFINE m == IF Len(s) > n THEN Len(s) - n + 1 ELSE 1
<1>1. Len(s) \in Nat /\ m \in 1 .. Len(s) + 1 /\ Len(s) \in m - 1 .. Len(s) /\ Len(s) - m + 1 <= n
  OBVIOUS
<1>2. Newest(s, n) = SubSeq(s, m, Len(s))
  BY DEF Newest
<1> HIDE DEF m
<1> QED
  BY <1>1, <1>2, SubSeqProperties

(* Chunks one after another                                                  *)
LEMMA IncreasingFlatten ==
  ASSUME NEW ss, SeqOfSeqs(Nat, ss), \A k \in 1 .. Len(ss) : Increasing(ss[k]),
         \A k, l \in 1 .. Len(ss) : k < l => Below(ss[k], ss[l])
  PROVE  Increasing(FlattenSeq(ss))
<1> DEFINE n == Len(ss)
           InFront(i) == UNION {ToSet(ss[k]) : k \in 1 .. i}
<1>1. PICK f : JoinedUpTo(Nat, ss, f)
  BY JoinExists
<1>2. /\ f \in [0 .. n -> Seq(Nat)] /\ f[0] = <<>> /\ n \in Nat
      /\ \A i \in 1 .. n : f[i] = f[i - 1] \o ss[i] /\ ss[i] \in Seq(Nat)
  BY <1>1, SeqOfSeqsParts DEF JoinedUpTo
<1> DEFINE T == {i \in 0 .. n : Increasing(f[i]) /\ ToSet(f[i]) = InFront(i)}
<1>3. 0 \in T
  BY <1>2, IncreasingEmpty
<1>4. ASSUME NEW i \in 1 .. n, i - 1 \in T PROVE i \in T
  <2>0. i \in 0 .. n /\ i - 1 \in 0 .. n
    BY <1>2
  <2>1. f[i - 1] \in Seq(Nat) /\ ss[i] \in Seq(Nat) /\ f[i] = f[i - 1] \o ss[i]
    BY <1>2, <2>0
  <2>2. Below(f[i - 1], ss[i])
    <3>1. ASSUME NEW x \in ToSet(f[i - 1]), NEW y \in ToSet(ss[i]) PROVE x < y
      <4>1. PICK k \in 1 .. i - 1 : x \in ToSet(ss[k])
        BY <1>4
      <4>2. k \in 1 .. n /\ k < i
        BY <1>2
      <4> QED
        BY <4>1, <4>2 DEF Below
    <3> QED
      BY <3>1 DEF Below
  <2>3. Increasing(f[i]) /\ ToSet(f[i]) = ToSet(f[i - 1]) \cup ToSet(ss[i])
    BY <1>4, <2>1, <2>2, IncreasingConcat
  <2>4. InFront(i) = InFront(i - 1) \cup ToSet(ss[i])
    <3>1. \A k : k \in 1 .. i <=> k \in 1 .. i - 1 \/ k = i
      BY <1>2
    <3> QED
      BY <3>1
  <2> HIDE DEF InFront
  <2> QED
    BY <1>4, <2>0, <2>3, <2>4
<1> HIDE DEF T
<1>5. 0 .. n \subseteq T
  BY <1>2, <1>3, <1>4, InductionUpTo
<1>6. n \in T
  BY <1>2, <1>5
<1>7. FlattenSeq(ss) = f[n]
  BY <1>1, FlattenIsJoin
<1> QED
  BY <1>6, <1>7 DEF T

-----------------------------------------------------------------------------
(* What the newest bytes stand for                                           *)

(* b is in s, or `Keep` newer bytes have taken its place.                    *)
KeptBy(b, s) == b \in ToSet(s) \/ (Len(s) >= Keep /\ \A x \in ToSet(Newest(s, Keep)) : b < x)

LEMMA KeepIsNat == Keep \in Nat
BY LogAssumption DEF Keep

(* More output at its end does no harm.                                      *)
LEMMA KeptByMore ==
  ASSUME NEW b \in Nat, NEW s \in Seq(Nat), NEW t \in Seq(Nat), Increasing(s), Increasing(t), Below(s, t),
         KeptBy(b, s)
  PROVE  KeptBy(b, s \o t)
<1> DEFINE r == s \o t
<1>1. /\ r \in Seq(Nat) /\ Len(r) = Len(s) + Len(t)
      /\ \A k \in 1 .. Len(s) + Len(t) : r[k] = IF k <= Len(s) THEN s[k] ELSE t[k - Len(s)]
  BY ConcatProperties
<1>2. Increasing(r) /\ ToSet(r) = ToSet(s) \cup ToSet(t)
  BY IncreasingConcat
<1>3. Len(s) \in Nat /\ Len(t) \in Nat /\ Keep \in Nat
  BY KeepIsNat
<1> HIDE DEF r
<1>4. ASSUME Len(s) >= Keep, \A x \in ToSet(Newest(s, Keep)) : b < x, NEW x \in ToSet(Newest(r, Keep))
      PROVE  b < x
  <2>1. PICK k \in 1 .. Len(r) : k > Len(r) - Keep /\ r[k] = x
    BY <1>1, <1>2, <1>3, NewestIs, ZenonT(60)
  <2>2. CASE k <= Len(s)
    <3>1. k \in 1 .. Len(s) /\ k > Len(s) - Keep /\ k \in 1 .. Len(s) + Len(t)
      BY <1>1, <1>3, <2>1, <2>2
    <3>2. s[k] = x
      BY <1>1, <2>1, <2>2, <3>1
    <3>3. x \in ToSet(Newest(s, Keep))
      BY <1>3, <3>1, <3>2, NewestIs
    <3> QED
      BY <1>4, <3>3
  <2>3. CASE ~(k <= Len(s))
    <3>0. Len(r) = Len(s) + Len(t)
      BY <1>1
    <3>1. k - Len(s) \in 1 .. Len(t) /\ k \in 1 .. Len(s) + Len(t) /\ Len(s) \in 1 .. Len(s) /\ Len(s) > Len(s) - Keep
      BY <1>3, <1>4, <2>1, <2>3, <3>0
    <3>2. t[k - Len(s)] = x
      BY <1>1, <2>1, <2>3, <3>1
    <3>3. s[Len(s)] \in ToSet(Newest(s, Keep)) /\ s[Len(s)] \in ToSet(s)
      BY <1>3, <3>1, NewestIs
    <3>4. x \in ToSet(t)
      BY <3>1, <3>2, InToSet
    <3>5. b < s[Len(s)] /\ s[Len(s)] < x
      BY <1>4, <3>3, <3>4 DEF Below
    <3>6. s[Len(s)] \in Nat /\ x \in Nat
      BY <3>1, <3>2, SMTT(30)
    <3> QED
      BY <3>5, <3>6
  <2> QED
    BY <2>2, <2>3
<1>5. Len(s) >= Keep => Len(r) >= Keep
  BY <1>1, <1>3
<1> QED
  BY <1>2, <1>4, <1>5 DEF KeptBy, r

(* Neither does leaving all but the newest `Keep` away.                      *)
LEMMA KeptByNewest ==
  ASSUME NEW b \in Nat, NEW s \in Seq(Nat), Increasing(s), KeptBy(b, s)
  PROVE  KeptBy(b, Newest(s, Keep))
<1> DEFINE r == Newest(s, Keep)
<1>0. Keep \in Nat /\ Len(s) \in Nat
  BY KeepIsNat
<1>1. /\ r \in Seq(Nat) /\ Increasing(r) /\ Len(r) = IF Len(s) > Keep THEN Keep ELSE Len(s)
      /\ \A x : x \in ToSet(r) <=> \E k \in 1 .. Len(s) : k > Len(s) - Keep /\ s[k] = x
  BY <1>0, NewestIs
<1>2. ToSet(Newest(r, Keep)) \subseteq ToSet(r)
  <2> HIDE DEF r
  <2> QED
    BY <1>0, <1>1, NewestIs
<1>3. Len(s) >= Keep => Len(r) >= Keep
  BY <1>0, <1>1
<1>4. CASE Len(s) >= Keep /\ \A x \in ToSet(r) : b < x
  BY <1>2, <1>3, <1>4 DEF KeptBy
<1>5. CASE b \in ToSet(s) /\ b \notin ToSet(r)
  <2>1. PICK i \in 1 .. Len(s) : s[i] = b
    BY <1>5, InToSet
  <2>2. ~(i > Len(s) - Keep)
    BY <1>1, <1>5, <2>1
  <2>3. Len(s) >= Keep
    BY <1>0, <2>2
  <2>4. ASSUME NEW x \in ToSet(r) PROVE b < x
    <3>1. PICK k \in 1 .. Len(s) : k > Len(s) - Keep /\ s[k] = x
      BY <1>1
    <3>2. i < k
      BY <1>0, <2>2, <3>1
    <3> QED
      BY <2>1, <3>1, <3>2, IncreasingPlaces
  <2>5. KeptBy(b, r)
    <3> HIDE DEF r
    <3> QED
      BY <1>2, <1>3, <2>3, <2>4 DEF KeptBy
  <2> QED
    BY <2>5
<1> QED
  BY <1>4, <1>5 DEF KeptBy

(* What FlushedSurvives says of b                                            *)
LEMMA KeptByCounts ==
  ASSUME NEW b \in Nat, NEW s \in Seq(Nat), Increasing(s), KeptBy(b, s)
  PROVE  b \in ToSet(s) \/ Cardinality({c \in ToSet(s) : c > b}) >= Keep
<1> DEFINE r == Newest(s, Keep)
           newer == {c \in ToSet(s) : c > b}
<1>0. Keep \in Nat /\ Len(s) \in Nat
  BY KeepIsNat
<1>1. /\ r \in Seq(Nat) /\ Increasing(r) /\ Len(r) = IF Len(s) > Keep THEN Keep ELSE Len(s)
      /\ ToSet(r) \subseteq ToSet(s)
  BY <1>0, NewestIs
<1> HIDE DEF r
<1>2. SUFFICES ASSUME Len(s) >= Keep, \A x \in ToSet(r) : b < x PROVE Cardinality(newer) >= Keep
  BY DEF KeptBy, r
<1>3. ToSet(r) \in SUBSET newer
  <2>1. ASSUME NEW x \in ToSet(r) PROVE x \in Nat
    <3>1. PICK k \in 1 .. Len(r) : r[k] = x
      BY <1>1, InToSet
    <3> QED
      BY <1>1, <3>1
  <2> QED
    BY <1>1, <1>2, <2>1
<1>4. IsFiniteSet(ToSet(s)) /\ IsFiniteSet(newer)
  <2>1. IsFiniteSet(1 .. Len(s))
    BY <1>0, FS_Interval
  <2>2. ToSet(s) = {s[k] : k \in 1 .. Len(s)}
    BY DEF ToSet
  <2>3. IsFiniteSet(ToSet(s))
    <3> DEFINE place == [k \in 1 .. Len(s) |-> s[k]]
    <3>1. place \in Surjection(1 .. Len(s), ToSet(s))
      BY <2>2 DEF Surjection
    <3> QED
      BY <2>1, <3>1, FS_Surjection DEF ExistsSurjection
  <2>4. newer \in SUBSET ToSet(s)
    OBVIOUS
  <2> QED
    BY <2>3, <2>4, FS_Subset
<1>5. Cardinality(ToSet(r)) = Keep
  <2>1. Len(r) = Keep
    BY <1>0, <1>1, <1>2
  <2>2. IsInjective(r) /\ ToSet(r) = {r[k] : k \in 1 .. Keep}
    <3>1. DOMAIN r = 1 .. Keep
      BY <1>1, <2>1
    <3> QED
      BY <1>1, <3>1, IncreasingDistinct DEF ToSet
  <2>3. \A i, j \in 1 .. Keep : r[i] = r[j] => i = j
    BY <1>1, <2>1, <2>2, DistinctPlaces
  <2> DEFINE place == [k \in 1 .. Keep |-> r[k]]
  <2>4. place \in Bijection(1 .. Keep, ToSet(r))
    <3>1. place \in [1 .. Keep -> ToSet(r)] /\ \A k \in 1 .. Keep : place[k] = r[k]
      BY <2>2
    <3> HIDE DEF place
    <3>2. place \in Injection(1 .. Keep, ToSet(r))
      BY <2>3, <3>1 DEF Injection, IsInjective
    <3>3. place \in Surjection(1 .. Keep, ToSet(r))
      BY <2>2, <3>1 DEF Surjection
    <3> QED
      BY <3>2, <3>3 DEF Bijection
  <2>5. IsFiniteSet(1 .. Keep) /\ Cardinality(1 .. Keep) = Keep
    <3>1. 1 \in Int /\ Keep \in Int
      BY <1>0
    <3>2. IsFiniteSet(1 .. Keep) /\ Cardinality(1 .. Keep) = IF 1 > Keep THEN 0 ELSE Keep - 1 + 1
      BY <3>1, FS_Interval
    <3> QED
      BY <1>0, <3>2
  <2> HIDE DEF place
  <2> QED
    BY <2>4, <2>5, FS_Bijection DEF ExistsBijection
<1>6. Cardinality(ToSet(r)) <= Cardinality(newer) /\ Cardinality(newer) \in Nat
  BY <1>3, <1>4, FS_Subset, FS_CardinalityType
<1> QED
  BY <1>0, <1>5, <1>6

-----------------------------------------------------------------------------
(* The file's content c, the buffer b and the channel ch hold the bytes      *)
(* 1 .. n in the order in which they were printed.                           *)

Items == [kind : {"chunk", "flush"}, data : Seq(Nat)]

Ordered(c, b, ch, n) ==
  /\ c \in Seq(Nat) /\ b \in Seq(Nat) /\ Increasing(c) /\ Increasing(b) /\ Below(c, b)
  /\ ToSet(c) \cup ToSet(b) \subseteq 1 .. n
  /\ \A k \in 1 .. Len(ch) : /\ Increasing(ch[k].data) /\ ToSet(ch[k].data) \subseteq 1 .. n
                             /\ Below(c, ch[k].data) /\ Below(b, ch[k].data)
  /\ \A k, l \in 1 .. Len(ch) : k < l => Below(ch[k].data, ch[l].data)

LEMMA ItemType ==
  ASSUME NEW ch \in Seq(Items), NEW k \in 1 .. Len(ch)
  PROVE  ch[k] \in Items /\ ch[k].data \in Seq(Nat) /\ ch[k].kind \in {"chunk", "flush"}
<1>1. ch[k] \in Items
  OBVIOUS
<1> QED
  BY <1>1 DEF Items

LEMMA TailItems ==
  ASSUME NEW ch \in Seq(Items), ch # <<>>
  PROVE  /\ Tail(ch) \in Seq(Items) /\ Len(Tail(ch)) = Len(ch) - 1 /\ Len(ch) \in Nat /\ Len(ch) >= 1
         /\ Head(ch) = ch[1] /\ 1 \in 1 .. Len(ch)
         /\ \A k \in 1 .. Len(Tail(ch)) : k + 1 \in 1 .. Len(ch) /\ Tail(ch)[k] = ch[k + 1]
<1>1. /\ Tail(ch) \in Seq(Items) /\ Len(Tail(ch)) = Len(ch) - 1
      /\ \A k \in 1 .. Len(Tail(ch)) : Tail(ch)[k] = ch[k + 1]
  BY HeadTailProperties
<1>2. Len(ch) \in Nat /\ Len(ch) >= 1
  BY EmptySeq
<1> QED
  BY <1>1, <1>2

(* What the channel holds                                                    *)
DataOf(ch) == [k \in DOMAIN ch |-> ch[k].data]

LEMMA DataTypes ==
  ASSUME NEW ch \in Seq(Items)
  PROVE  /\ SeqOfSeqs(Nat, DataOf(ch)) /\ Len(DataOf(ch)) = Len(ch)
         /\ \A k \in 1 .. Len(ch) : DataOf(ch)[k] = ch[k].data
         /\ FlattenSeq(DataOf(ch)) \in Seq(Nat)
         /\ ToSet(FlattenSeq(DataOf(ch))) = UNION {ToSet(ch[k].data) : k \in 1 .. Len(ch)}
<1> DEFINE ss == DataOf(ch)
           D == Seq(Nat)
           m == Len(ch)
<1>1. DOMAIN ch = 1 .. m /\ m \in Nat
  OBVIOUS
<1>2. \A k \in 1 .. m : ss[k] = ch[k].data /\ ss[k] \in D
  BY <1>1, ItemType DEF DataOf
<1>3. ss \in [1 .. m -> D] /\ DOMAIN ss = 1 .. m
  BY <1>1, <1>2 DEF DataOf
<1>4. SeqOfSeqs(Nat, ss) /\ Len(ss) = m
  <2> HIDE DEF ss, D, m
  <2>1. ss \in Seq(D) /\ Len(ss) = m
    BY <1>1, <1>3, FunctionIsSeq, LenProperties
  <2> QED
    BY <2>1 DEF SeqOfSeqs, D
<1> HIDE DEF ss
<1>5. FlattenSeq(ss) \in Seq(Nat) /\ ToSet(FlattenSeq(ss)) = UNION {ToSet(ss[k]) : k \in 1 .. m}
  BY <1>4, FlattenHolds
<1> QED
  BY <1>2, <1>4, <1>5 DEF ss

(* The whole log is in order: LogKeepsOrder.                                 *)
LEMMA OrderedIsIncreasing ==
  ASSUME NEW c, NEW b, NEW ch \in Seq(Items), NEW n, Ordered(c, b, ch, n)
  PROVE  Increasing(c \o b \o FlattenSeq(DataOf(ch)))
<1> DEFINE ss == DataOf(ch)
<1>1. /\ SeqOfSeqs(Nat, ss) /\ Len(ss) = Len(ch) /\ \A k \in 1 .. Len(ch) : ss[k] = ch[k].data
      /\ FlattenSeq(ss) \in Seq(Nat)
      /\ ToSet(FlattenSeq(ss)) = UNION {ToSet(ch[k].data) : k \in 1 .. Len(ch)}
  BY DataTypes
<1> HIDE DEF ss
<1>2. Increasing(FlattenSeq(ss))
  BY <1>1, IncreasingFlatten DEF Ordered
<1>3. c \o b \in Seq(Nat) /\ Increasing(c \o b) /\ ToSet(c \o b) = ToSet(c) \cup ToSet(b)
  BY IncreasingConcat DEF Ordered
<1>4. Below(c \o b, FlattenSeq(ss))
  <2>1. ASSUME NEW x \in ToSet(c) \cup ToSet(b), NEW y \in ToSet(FlattenSeq(ss)) PROVE x < y
    <3>1. PICK k \in 1 .. Len(ch) : y \in ToSet(ch[k].data)
      BY <1>1
    <3> QED
      BY <2>1, <3>1 DEF Ordered, Below
  <2> QED
    BY <1>3, <2>1 DEF Below
<1>5. Increasing((c \o b) \o FlattenSeq(ss))
  BY <1>1, <1>2, <1>3, <1>4, IncreasingConcat
<1> QED
  BY <1>5 DEF ss

(* A file that holds less                                                    *)
LEMMA OrderedFewer ==
  ASSUME NEW c, NEW b, NEW ch, NEW n, Ordered(c, b, ch, n),
         NEW d \in Seq(Nat), Increasing(d), ToSet(d) \subseteq ToSet(c)
  PROVE  Ordered(d, b, ch, n)
BY DEF Ordered, Below

(* The head of the channel is taken and dropped.                             *)
LEMMA OrderedTail ==
  ASSUME NEW c, NEW b, NEW ch \in Seq(Items), NEW n, Ordered(c, b, ch, n), ch # <<>>
  PROVE  Ordered(c, b, Tail(ch), n)
<1>1. \A k \in 1 .. Len(Tail(ch)) : k + 1 \in 1 .. Len(ch) /\ Tail(ch)[k] = ch[k + 1]
  BY TailItems
<1>2. \A k, l \in 1 .. Len(Tail(ch)) : k < l => k + 1 < l + 1
  BY TailItems
<1> QED
  BY <1>1, <1>2 DEF Ordered

(* It is taken and written behind the buffer.                                *)
LEMMA OrderedBuffer ==
  ASSUME NEW c, NEW b, NEW ch \in Seq(Items), NEW n, Ordered(c, b, ch, n), ch # <<>>
  PROVE  /\ Ordered(c, b \o ch[1].data, Tail(ch), n)
         /\ ToSet(b \o ch[1].data) = ToSet(b) \cup ToSet(ch[1].data)
<1>1. Ordered(c, b, Tail(ch), n)
  BY OrderedTail
<1>2. 1 \in 1 .. Len(ch) /\ Len(Tail(ch)) \in Nat
  BY TailItems
<1>3. /\ ch[1].data \in Seq(Nat) /\ Increasing(ch[1].data) /\ ToSet(ch[1].data) \subseteq 1 .. n
      /\ Below(c, ch[1].data) /\ Below(b, ch[1].data)
  BY <1>2, ItemType DEF Ordered
<1>4. \A k \in 1 .. Len(Tail(ch)) : Below(ch[1].data, Tail(ch)[k].data)
  <2>1. ASSUME NEW k \in 1 .. Len(Tail(ch)) PROVE Below(ch[1].data, Tail(ch)[k].data)
    <3>1. k + 1 \in 1 .. Len(ch) /\ Tail(ch)[k] = ch[k + 1] /\ 1 < k + 1
      BY TailItems
    <3> QED
      BY <1>2, <3>1 DEF Ordered
  <2> QED
    BY <2>1
<1>5. b \in Seq(Nat) /\ Increasing(b)
  BY DEF Ordered
<1>6. /\ b \o ch[1].data \in Seq(Nat) /\ Increasing(b \o ch[1].data)
      /\ ToSet(b \o ch[1].data) = ToSet(b) \cup ToSet(ch[1].data)
  BY <1>3, <1>5, IncreasingConcat
<1> DEFINE all == b \o ch[1].data
           t == Tail(ch)
<1> HIDE DEF all, t
<1>7. all \in Seq(Nat) /\ Increasing(all) /\ ToSet(all) = ToSet(b) \cup ToSet(ch[1].data)
  BY <1>6 DEF all
<1>8. Below(c, all) /\ \A k \in 1 .. Len(t) : Below(all, t[k].data)
  BY <1>1, <1>3, <1>4, <1>7 DEF Ordered, Below, t
<1>9. Ordered(c, all, t, n)
  BY <1>1, <1>3, <1>7, <1>8 DEF Ordered, t
<1> QED
  BY <1>6, <1>9 DEF all, t

(* The front of the buffer goes to the file, or is lost.                     *)
LEMMA OrderedCut ==
  ASSUME NEW c, NEW b, NEW ch, NEW n, Ordered(c, b, ch, n), NEW cut \in 0 .. Len(b)
  PROVE  LET front == SubSeq(b, 1, cut)
             back == SubSeq(b, cut + 1, Len(b))
         IN  /\ Ordered(c \o front, back, ch, n) /\ Ordered(c, back, ch, n)
             /\ ToSet(c \o front) = ToSet(c) \cup ToSet(front)
             /\ ToSet(front) \cup ToSet(back) = ToSet(b)
             /\ front \in Seq(Nat) /\ Increasing(front) /\ Below(c, front)
<1> DEFINE front == SubSeq(b, 1, cut)
           back == SubSeq(b, cut + 1, Len(b))
<1>1. b \in Seq(Nat) /\ Increasing(b) /\ c \in Seq(Nat) /\ Increasing(c) /\ Below(c, b)
  BY DEF Ordered
<1>2. /\ front \in Seq(Nat) /\ back \in Seq(Nat) /\ Increasing(front) /\ Increasing(back)
      /\ Below(front, back) /\ ToSet(front) \cup ToSet(back) = ToSet(b)
  BY <1>1, IncreasingCut
<1> HIDE DEF front, back
<1>3. Below(c, front) /\ Below(c, back)
  BY <1>1, <1>2 DEF Below
<1>4. c \o front \in Seq(Nat) /\ Increasing(c \o front) /\ ToSet(c \o front) = ToSet(c) \cup ToSet(front)
  BY <1>1, <1>2, <1>3, IncreasingConcat
<1>5. Ordered(c, back, ch, n)
  BY <1>2, <1>3 DEF Ordered, Below
<1> DEFINE more == c \o front
<1> HIDE DEF more
<1>6. more \in Seq(Nat) /\ Increasing(more) /\ ToSet(more) = ToSet(c) \cup ToSet(front)
  BY <1>4 DEF more
<1>7. Below(more, back) /\ \A k \in 1 .. Len(ch) : Below(more, ch[k].data)
  BY <1>2, <1>3, <1>6 DEF Ordered, Below
<1>8. Ordered(more, back, ch, n)
  BY <1>2, <1>5, <1>6, <1>7 DEF Ordered
<1> QED
  BY <1>2, <1>3, <1>4, <1>5, <1>8 DEF front, back, more

(* A chunk of new output enters the channel, or a flush.                     *)
LEMMA OrderedSend ==
  ASSUME NEW c, NEW b, NEW ch \in Seq(Items), NEW n \in Nat, Ordered(c, b, ch, n), NEW m \in Nat, n <= m,
         NEW e \in Items, Increasing(e.data), ToSet(e.data) \subseteq n + 1 .. m
  PROVE  Ordered(c, b, Append(ch, e), m) /\ Ordered(c, b, ch, m)
<1> DEFINE r == Append(ch, e)
<1>1. /\ r \in Seq(Items) /\ Len(r) = Len(ch) + 1 /\ r[Len(ch) + 1] = e
      /\ \A k \in 1 .. Len(ch) : r[k] = ch[k]
  BY AppendProperties
<1> HIDE DEF r
<1>2. Len(ch) \in Nat /\ 1 .. n \subseteq 1 .. m /\ n + 1 .. m \subseteq 1 .. m
  OBVIOUS
<1>3. Ordered(c, b, ch, m)
  BY <1>2 DEF Ordered
<1>4. \A x \in 1 .. n, y \in ToSet(e.data) : x < y
  OBVIOUS
<1>5. /\ Below(c, e.data) /\ Below(b, e.data) /\ \A k \in 1 .. Len(ch) : Below(ch[k].data, e.data)
      /\ ToSet(e.data) \subseteq 1 .. m
  BY <1>2, <1>4 DEF Ordered, Below
<1>6. \A k \in 1 .. Len(r) : k \in 1 .. Len(ch) \/ (k = Len(ch) + 1 /\ r[k] = e)
  BY <1>1, <1>2
<1>7. \A k \in 1 .. Len(r) : /\ Increasing(r[k].data) /\ ToSet(r[k].data) \subseteq 1 .. m
                             /\ Below(c, r[k].data) /\ Below(b, r[k].data)
  BY <1>1, <1>3, <1>5, <1>6 DEF Ordered
<1>8. ASSUME NEW k \in 1 .. Len(r), NEW l \in 1 .. Len(r), k < l PROVE Below(r[k].data, r[l].data)
  <2>1. k \in 1 .. Len(ch)
    BY <1>1, <1>2, <1>8
  <2>2. CASE l \in 1 .. Len(ch)
    BY <1>1, <1>3, <1>8, <2>1, <2>2 DEF Ordered
  <2>3. CASE l = Len(ch) + 1
    BY <1>1, <1>5, <2>1, <2>3
  <2> QED
    BY <1>6, <2>2, <2>3
<1>9. Ordered(c, b, r, m)
  BY <1>3, <1>7, <1>8 DEF Ordered
<1> QED
  BY <1>3, <1>9 DEF r

-----------------------------------------------------------------------------
(* The bytes of `m` are in the file, in the buffer or before the flush in    *)
(* the channel, or newer ones have taken their place in the file.            *)
OnTheWay(x, c, b, ch, f) ==
  KeptBy(x, c) \/ x \in ToSet(b) \/ \E k \in 1 .. f - 1 : x \in ToSet(ch[k].data)

Marked(c, b, ch, m) ==
  \E f \in 1 .. Len(ch) : ch[f].kind = "flush" /\ \A x \in m : OnTheWay(x, c, b, ch, f)

(* There is one flush in the channel, or none                                *)
OneFlush(ch) == \A k, l \in 1 .. Len(ch) : ch[k].kind = "flush" /\ ch[l].kind = "flush" => k = l
NoFlush(ch) == \A k \in 1 .. Len(ch) : ch[k].kind # "flush"

LEMMA KeptByWritten ==
  ASSUME NEW c, NEW b, NEW ch, NEW n, Ordered(c, b, ch, n), NEW cut \in 0 .. Len(b),
         NEW x \in Nat, KeptBy(x, c) \/ x \in ToSet(b)
  PROVE  KeptBy(x, c \o SubSeq(b, 1, cut)) \/ x \in ToSet(SubSeq(b, cut + 1, Len(b)))
<1> DEFINE front == SubSeq(b, 1, cut)
           back == SubSeq(b, cut + 1, Len(b))
<1>1. /\ front \in Seq(Nat) /\ Increasing(front) /\ Below(c, front)
      /\ ToSet(c \o front) = ToSet(c) \cup ToSet(front)
      /\ ToSet(front) \cup ToSet(back) = ToSet(b)
  BY OrderedCut
<1>2. c \in Seq(Nat) /\ Increasing(c)
  BY DEF Ordered
<1> HIDE DEF front, back
<1>3. KeptBy(x, c) => KeptBy(x, c \o front)
  BY <1>1, <1>2, KeptByMore
<1>4. x \in ToSet(front) => KeptBy(x, c \o front)
  BY <1>1 DEF KeptBy
<1>5. KeptBy(x, c \o front) \/ x \in ToSet(back)
  BY <1>1, <1>3, <1>4
<1> QED
  BY <1>5 DEF front, back

(* A chunk at the head of the channel is written behind the buffer, of which *)
(* the front goes to the file.                                               *)
LEMMA MarkedWrite ==
  ASSUME NEW c, NEW b, NEW ch \in Seq(Items), NEW n, Ordered(c, b, ch, n),
         ch # <<>>, ch[1].kind = "chunk", NEW m \in SUBSET Nat, Marked(c, b, ch, m),
         NEW cut \in 0 .. Len(b \o ch[1].data)
  PROVE  LET all == b \o ch[1].data
         IN  Marked(c \o SubSeq(all, 1, cut), SubSeq(all, cut + 1, Len(all)), Tail(ch), m)
<1> DEFINE all == b \o ch[1].data
           more == c \o SubSeq(all, 1, cut)
           back == SubSeq(all, cut + 1, Len(all))
           t == Tail(ch)
<1>1. PICK f \in 1 .. Len(ch) : ch[f].kind = "flush" /\ \A x \in m : OnTheWay(x, c, b, ch, f)
  BY DEF Marked
<1>2. /\ t \in Seq(Items) /\ Len(t) = Len(ch) - 1 /\ Len(ch) \in Nat
      /\ \A k \in 1 .. Len(t) : t[k] = ch[k + 1]
  BY TailItems
<1>3. Ordered(c, all, t, n) /\ ToSet(all) = ToSet(b) \cup ToSet(ch[1].data)
  BY OrderedBuffer
<1>4. cut \in 0 .. Len(all)
  OBVIOUS
<1> HIDE DEF all, t
<1>5. ASSUME NEW x \in Nat, KeptBy(x, c) \/ x \in ToSet(all) PROVE KeptBy(x, more) \/ x \in ToSet(back)
  BY <1>3, <1>4, <1>5, KeptByWritten
<1> HIDE DEF more, back
<1>6. f # 1 /\ f - 1 \in 1 .. Len(t) /\ t[f - 1] = ch[f]
  <2>1. f # 1
    BY <1>1
  <2>2. f - 1 \in 1 .. Len(t)
    BY <1>2, <2>1
  <2> QED
    BY <1>2, <2>1, <2>2
<1>7. ASSUME NEW x \in m PROVE OnTheWay(x, more, back, t, f - 1)
  <2>1. OnTheWay(x, c, b, ch, f) /\ x \in Nat
    BY <1>1
  <2>2. CASE KeptBy(x, c) \/ x \in ToSet(all)
    BY <1>5, <2>1, <2>2 DEF OnTheWay
  <2>3. ASSUME NEW k \in 1 .. f - 1, x \in ToSet(ch[k].data), k # 1 PROVE OnTheWay(x, more, back, t, f - 1)
    <3>1. k - 1 \in 1 .. (f - 1) - 1 /\ k - 1 \in 1 .. Len(t) /\ (k - 1) + 1 = k
      BY <1>2, <2>3
    <3>2. t[k - 1] = ch[k]
      BY <1>2, <3>1
    <3> QED
      BY <2>3, <3>1, <3>2 DEF OnTheWay
  <2> QED
    BY <1>3, <2>1, <2>2, <2>3 DEF OnTheWay
<1>8. Marked(more, back, t, m)
  BY <1>1, <1>6, <1>7 DEF Marked
<1> QED
  BY <1>8 DEF more, back, t, all

(* The whole buffer goes to the file.                                        *)
LEMMA MarkedFlushed ==
  ASSUME NEW c, NEW b, NEW ch \in Seq(Items), NEW n, Ordered(c, b, ch, n),
         NEW m \in SUBSET Nat, Marked(c, b, ch, m)
  PROVE  Marked(c \o b, <<>>, ch, m)
<1>1. PICK f \in 1 .. Len(ch) : ch[f].kind = "flush" /\ \A x \in m : OnTheWay(x, c, b, ch, f)
  BY DEF Marked
<1>2. /\ c \in Seq(Nat) /\ Increasing(c) /\ b \in Seq(Nat) /\ Increasing(b) /\ Below(c, b)
      /\ ToSet(c \o b) = ToSet(c) \cup ToSet(b)
  BY IncreasingConcat DEF Ordered
<1>3. \A x \in m : KeptBy(x, c) => KeptBy(x, c \o b)
  BY <1>2, KeptByMore
<1>4. \A x \in m : x \in ToSet(b) => KeptBy(x, c \o b)
  BY <1>2 DEF KeptBy
<1>5. \A x \in m : OnTheWay(x, c \o b, <<>>, ch, f)
  BY <1>1, <1>3, <1>4 DEF OnTheWay
<1> QED
  BY <1>1, <1>5 DEF Marked

(* A rotation keeps the newest of the file.                                  *)
LEMMA MarkedRotated ==
  ASSUME NEW c \in Seq(Nat), Increasing(c), NEW b, NEW ch, NEW m \in SUBSET Nat, Marked(c, b, ch, m)
  PROVE  Marked(Newest(c, Keep), b, ch, m)
<1>1. \A x \in m : KeptBy(x, c) => KeptBy(x, Newest(c, Keep))
  BY KeptByNewest
<1> QED
  BY <1>1 DEF Marked, OnTheWay

(* The channel gets longer.                                                  *)
LEMMA MarkedSend ==
  ASSUME NEW c, NEW b, NEW ch \in Seq(Items), NEW m, Marked(c, b, ch, m), NEW e \in Items
  PROVE  Marked(c, b, Append(ch, e), m)
<1> DEFINE r == Append(ch, e)
<1>1. Len(ch) \in Nat /\ Len(r) = Len(ch) + 1 /\ \A k \in 1 .. Len(ch) : r[k] = ch[k]
  BY AppendProperties
<1> HIDE DEF r
<1>2. PICK f \in 1 .. Len(ch) : ch[f].kind = "flush" /\ \A x \in m : OnTheWay(x, c, b, ch, f)
  BY DEF Marked
<1>3. \A k \in 1 .. f - 1 : k \in 1 .. Len(ch)
  BY <1>1
<1>4. f \in 1 .. Len(r)
  BY <1>1
<1>5. \A x \in m : OnTheWay(x, c, b, r, f)
  BY <1>1, <1>2, <1>3 DEF OnTheWay
<1> QED
  BY <1>1, <1>2, <1>4, <1>5 DEF Marked, r

(* The flush enters the channel, behind everything it is to wait for.        *)
LEMMA MarkedBegins ==
  ASSUME NEW c, NEW b, NEW ch \in Seq(Items), NEW e \in Items, e.kind = "flush", NEW m,
         \A x \in m : x \in ToSet(c) \/ x \in ToSet(b) \/ \E k \in 1 .. Len(ch) : x \in ToSet(ch[k].data)
  PROVE  Marked(c, b, Append(ch, e), m)
<1> DEFINE r == Append(ch, e)
           f == Len(ch) + 1
<1>1. Len(ch) \in Nat /\ Len(r) = f /\ r[f] = e /\ \A k \in 1 .. Len(ch) : r[k] = ch[k]
  BY AppendProperties
<1> HIDE DEF r
<1>2. f \in 1 .. Len(r) /\ f - 1 = Len(ch)
  BY <1>1
<1>3. \A x \in m : OnTheWay(x, c, b, r, f)
  BY <1>1, <1>2 DEF OnTheWay, KeptBy
<1> HIDE DEF f
<1>4. Marked(c, b, r, m)
  BY <1>1, <1>2, <1>3 DEF Marked
<1> QED
  BY <1>4 DEF r

(* The flush is answered: nothing it waited for is still in the channel.     *)
LEMMA MarkedAnswered ==
  ASSUME NEW c, NEW b, NEW ch \in Seq(Items), ch # <<>>, ch[1].kind = "flush", OneFlush(ch),
         NEW m, Marked(c, b, ch, m)
  PROVE  (\A x \in m : KeptBy(x, c) \/ x \in ToSet(b)) /\ NoFlush(Tail(ch))
<1>1. PICK f \in 1 .. Len(ch) : ch[f].kind = "flush" /\ \A x \in m : OnTheWay(x, c, b, ch, f)
  BY DEF Marked
<1>2. /\ 1 \in 1 .. Len(ch)
      /\ \A k \in 1 .. Len(Tail(ch)) : k + 1 \in 1 .. Len(ch) /\ Tail(ch)[k] = ch[k + 1] /\ k + 1 # 1
  BY TailItems
<1>3. f = 1
  BY <1>1, <1>2 DEF OneFlush
<1>4. \A x \in m : KeptBy(x, c) \/ x \in ToSet(b)
  BY <1>1, <1>3 DEF OnTheWay
<1>5. NoFlush(Tail(ch))
  BY <1>2 DEF NoFlush, OneFlush
<1> QED
  BY <1>4, <1>5

LEMMA FlushCounts ==
  ASSUME NEW ch \in Seq(Items)
  PROVE  /\ NoFlush(ch) => OneFlush(ch)
         /\ ch # <<>> /\ OneFlush(ch) => OneFlush(Tail(ch))
         /\ ch # <<>> /\ NoFlush(ch) => NoFlush(Tail(ch))
         /\ \A e \in Items : NoFlush(ch) => OneFlush(Append(ch, e))
         /\ \A e \in Items : e.kind = "chunk" /\ OneFlush(ch) => OneFlush(Append(ch, e))
         /\ \A e \in Items : e.kind = "chunk" /\ NoFlush(ch) => NoFlush(Append(ch, e))
<1>1. ch # <<>> => \A k \in 1 .. Len(Tail(ch)) : k \in Nat /\ k + 1 \in 1 .. Len(ch) /\ Tail(ch)[k] = ch[k + 1]
  BY TailItems
<1>2. ASSUME NEW e \in Items
      PROVE  \A k \in 1 .. Len(Append(ch, e)) : \/ k \in 1 .. Len(ch) /\ Append(ch, e)[k] = ch[k]
                                                \/ k = Len(ch) + 1 /\ Append(ch, e)[k] = e
  <2>1. /\ Len(Append(ch, e)) = Len(ch) + 1 /\ Append(ch, e)[Len(ch) + 1] = e
        /\ \A k \in 1 .. Len(ch) : Append(ch, e)[k] = ch[k]
    BY AppendProperties
  <2>2. Len(ch) \in Nat
    OBVIOUS
  <2> QED
    BY <2>1, <2>2
<1>3. NoFlush(ch) => OneFlush(ch)
  BY DEF NoFlush, OneFlush
<1>4. ch # <<>> /\ OneFlush(ch) => OneFlush(Tail(ch))
  <2>1. ASSUME ch # <<>>, OneFlush(ch), NEW k \in 1 .. Len(Tail(ch)), NEW l \in 1 .. Len(Tail(ch)),
               Tail(ch)[k].kind = "flush", Tail(ch)[l].kind = "flush"
        PROVE  k = l
    <3>1. k + 1 = l + 1
      BY <1>1, <2>1 DEF OneFlush
    <3> QED
      BY <3>1
  <2> QED
    BY <2>1 DEF OneFlush
<1>5. ch # <<>> /\ NoFlush(ch) => NoFlush(Tail(ch))
  BY <1>1 DEF NoFlush
<1>6. ASSUME NEW e \in Items
      PROVE  /\ NoFlush(ch) => OneFlush(Append(ch, e))
             /\ e.kind = "chunk" /\ OneFlush(ch) => OneFlush(Append(ch, e))
             /\ e.kind = "chunk" /\ NoFlush(ch) => NoFlush(Append(ch, e))
  BY <1>2 DEF NoFlush, OneFlush
<1> QED
  BY <1>3, <1>4, <1>5, <1>6

-----------------------------------------------------------------------------
(* The inductive invariant                                                   *)

AppenderStates == {"absent", "waits", "rotates", "copies", "renames", "reopens", "killed"}

FileTypes ==
  /\ printed \in 0 .. MaxOutput /\ ring \in Seq(Nat) /\ Len(ring) <= RingCap
  /\ channel \in Seq(Items) /\ Len(channel) <= ChannelCap
  /\ appender \in AppenderStates /\ attached \in BOOLEAN /\ faulty \in BOOLEAN
  /\ cap \in {0, MaxDisk} /\ lives \in 0 .. MaxLives
  /\ disk \in Seq(Nat) \cup {NoLog} /\ tmp \in Seq(Nat) \cup {NoLog}
  /\ flushing \in {"idle", "sending", "awaiting"}
  /\ mark \cup acked \subseteq 1 .. printed

(* The appender task and what it holds                                       *)
TaskInv ==
  /\ HasTask => cap = MaxDisk /\ lives > 0
  /\ ~ HasTask => channel = <<>> /\ buffer = <<>> /\ flushing = "idle"
  /\ appender \in {"copies", "renames", "reopens"} => buffer = <<>>
  /\ OneFlush(channel) /\ (flushing # "awaiting" => NoFlush(channel))

(* A rotation about to replace the file has the order right too.             *)
OrderInv ==
  /\ Ordered(Content, buffer, channel, printed)
  /\ appender = "renames" => tmp # NoLog /\ Ordered(tmp, buffer, channel, printed)

(* While the disk works: the task writes to the file the path names unless   *)
(* it is about to reopen it, a rotation has the newest bytes in hand, and a  *)
(* flush finds what it is to answer for.                                     *)
FlushInv ==
  ~ faulty =>
    /\ lives > 0 => disk # NoLog
    /\ HasTask => (attached <=> appender # "reopens")
    /\ appender = "renames" => tmp = Newest(Content, Keep)
    /\ \A x \in acked : KeptBy(x, Content)
    /\ flushing = "awaiting" => Marked(Content, buffer, channel, mark)

FileInv == FileTypes /\ TaskInv /\ OrderInv /\ FlushInv

LEMMA FileFacts ==
  ASSUME FileInv
  PROVE  /\ FileTypes /\ TaskInv /\ Ordered(Content, buffer, channel, printed)
         /\ Content \in Seq(Nat) /\ Increasing(Content) /\ buffer \in Seq(Nat) /\ Increasing(buffer)
         /\ printed \in Nat /\ mark \in SUBSET Nat /\ acked \in SUBSET Nat
         /\ \A x \in ToSet(Content) \cup ToSet(buffer) : x \in 1 .. printed
<1>1. FileTypes /\ TaskInv /\ Ordered(Content, buffer, channel, printed)
  BY DEF FileInv, OrderInv
<1>2. printed \in Nat /\ mark \in SUBSET Nat /\ acked \in SUBSET Nat
  BY <1>1, LogAssumption DEF FileTypes
<1> QED
  BY <1>1, <1>2 DEF Ordered

LEMMA InitFileInv == LogInit => FileInv
<1> SUFFICES ASSUME LogInit PROVE FileInv
  OBVIOUS
<1> USE LogAssumption DEF LogInit
<1>1. FileTypes
  <2>1. <<>> \in Seq(Nat) /\ <<>> \in Seq(Items) /\ Len(<<>>) = 0
    OBVIOUS
  <2>2. 0 \in 0 .. MaxOutput /\ 0 <= RingCap /\ 0 <= ChannelCap /\ 0 \in 0 .. MaxLives
    BY DEF LogInit
  <2>3. ring \in Seq(Nat) /\ Len(ring) <= RingCap /\ channel \in Seq(Items) /\ Len(channel) <= ChannelCap
    BY <2>1, <2>2
  <2>4. printed \in 0 .. MaxOutput /\ lives \in 0 .. MaxLives /\ mark \cup acked \subseteq 1 .. printed
    BY <2>2
  <2> QED
    BY <2>3, <2>4 DEF FileTypes, AppenderStates
<1>2. TaskInv
  BY DEF TaskInv, HasTask, OneFlush, NoFlush
<1>3. Ordered(Content, buffer, channel, printed)
  <2>1. Content = <<>>
    BY DEF Content
  <2> QED
    BY <2>1, IncreasingEmpty DEF Ordered, Below
<1>4. OrderInv
  BY <1>3 DEF OrderInv
<1>5. FlushInv
  BY DEF FlushInv, HasTask
<1> QED
  BY <1>1, <1>2, <1>4, <1>5 DEF FileInv

LEMMA OpenKeeps == ASSUME FileInv, OpenLog PROVE FileInv'
<1> USE LogAssumption
<1>0. FileTypes /\ TaskInv /\ Ordered(Content, buffer, channel, printed) /\ Content \in Seq(Nat)
  BY FileFacts
<1>1. ~ HasTask /\ channel = <<>> /\ buffer = <<>> /\ flushing = "idle"
  BY <1>0 DEF TaskInv, OpenLog, Alive, HasTask, FileTypes
<1>2. /\ disk' = Content /\ Content' = Content /\ disk' # NoLog
      /\ UNCHANGED <<printed, channel, buffer, flushing, mark, acked, faulty>>
  BY <1>0 DEF OpenLog, Content, history
<1>3. /\ cap' \in {0, MaxDisk} /\ appender' = (IF cap' = 0 THEN "absent" ELSE "waits") /\ attached' = TRUE
      /\ lives' = lives + 1 /\ lives < MaxLives /\ tmp' \in {NoLog, tmp} /\ ring' = Newest(Content, RingCap)
  BY DEF OpenLog
<1>4. ring' \in Seq(Nat) /\ Len(ring') <= RingCap
  BY <1>0, <1>3, NewestType
<1>5. lives' \in 0 .. MaxLives /\ lives' > 0
  BY <1>0, <1>3 DEF FileTypes
<1>6. FileTypes'
  BY <1>0, <1>2, <1>3, <1>4, <1>5 DEF FileTypes, AppenderStates
<1>7. TaskInv'
  BY <1>0, <1>1, <1>2, <1>3, <1>5 DEF TaskInv, HasTask, OneFlush, NoFlush
<1>8. OrderInv'
  BY <1>0, <1>2, <1>3 DEF OrderInv
<1>9. FlushInv'
  BY <1>1, <1>2, <1>3 DEF FileInv, FlushInv, HasTask
<1> QED
  BY <1>6, <1>7, <1>8, <1>9 DEF FileInv

LEMMA ChunkIs ==
  ASSUME FileInv, NEW n \in Nat
  PROVE  /\ Chunk(n) \in Seq(Nat) /\ Increasing(Chunk(n)) /\ ToSet(Chunk(n)) \subseteq printed + 1 .. printed + n
         /\ [kind |-> "chunk", data |-> Chunk(n)] \in Items
<1>0. printed \in Nat
  BY FileFacts
<1>1. Chunk(n) \in [1 .. n -> Nat] /\ DOMAIN Chunk(n) = 1 .. n /\ \A k \in 1 .. n : Chunk(n)[k] = printed + k
  BY <1>0 DEF Chunk
<1>2. Chunk(n) \in Seq(Nat)
  BY <1>1, FunctionIsSeq
<1>3. Increasing(Chunk(n))
  BY <1>0, <1>1 DEF Increasing
<1>4. ToSet(Chunk(n)) \subseteq printed + 1 .. printed + n
  BY <1>0, <1>1 DEF ToSet
<1> QED
  BY <1>2, <1>3, <1>4 DEF Items

LEMMA AppendKeeps == ASSUME FileInv, NEW n \in 1 .. 2, AppendChunk(n) PROVE FileInv'
<1> USE LogAssumption
<1> DEFINE e == [kind |-> "chunk", data |-> Chunk(n)]
<1>0. FileTypes /\ TaskInv /\ Ordered(Content, buffer, channel, printed) /\ printed \in Nat
  BY FileFacts
<1>1. /\ Chunk(n) \in Seq(Nat) /\ Increasing(e.data) /\ ToSet(e.data) \subseteq printed + 1 .. printed + n
      /\ e \in Items /\ e.kind = "chunk"
  BY ChunkIs
<1>2. /\ printed' = printed + n /\ printed + n <= MaxOutput /\ ring' = Newest(ring \o Chunk(n), RingCap)
      /\ \/ channel' = Append(channel, e) /\ HasTask /\ Len(channel) < ChannelCap
         \/ channel' = channel
      /\ UNCHANGED <<appender, buffer, attached, size, cap, disk, tmp, lives, flushing, mark, acked, faulty>>
  BY DEF AppendChunk, Append2Ring, task, history
<1> HIDE DEF e
<1>3. Content' = Content
  BY <1>2 DEF Content
<1>4. ring' \in Seq(Nat) /\ Len(ring') <= RingCap
  <2>1. ring \o Chunk(n) \in Seq(Nat)
    BY <1>0, <1>1, ConcatProperties DEF FileTypes
  <2> QED
    BY <1>2, <2>1, NewestType
<1>c. channel \in Seq(Items) /\ Len(channel) <= ChannelCap /\ Len(channel) \in Nat
  BY <1>0 DEF FileTypes
<1>n. n \in Nat /\ printed + n \in Nat /\ printed <= printed + n
  BY <1>0
<1>5. channel' \in Seq(Items) /\ Len(channel') <= ChannelCap
  <2>1. Append(channel, e) \in Seq(Items) /\ Len(Append(channel, e)) = Len(channel) + 1
    BY <1>1, <1>c, AppendProperties
  <2>2. Len(channel) < ChannelCap => Len(channel) + 1 <= ChannelCap
    BY <1>c
  <2> QED
    BY <1>2, <1>c, <2>1, <2>2
<1>6. FileTypes'
  <2>1. printed' \in 0 .. MaxOutput /\ 1 .. printed \subseteq 1 .. printed'
    BY <1>0, <1>2, <1>n
  <2> QED
    BY <1>0, <1>2, <1>4, <1>5, <2>1 DEF FileTypes
<1>7. TaskInv'
  <2>1. OneFlush(channel') /\ (flushing' # "awaiting" => NoFlush(channel'))
    BY <1>0, <1>1, <1>2, FlushCounts DEF TaskInv, FileTypes
  <2> QED
    BY <1>0, <1>2, <2>1 DEF TaskInv, HasTask
<1>8. ASSUME NEW c, Ordered(c, buffer, channel, printed) PROVE Ordered(c, buffer, channel', printed')
  <2>1. Ordered(c, buffer, Append(channel, e), printed + n) /\ Ordered(c, buffer, channel, printed + n)
    BY <1>1, <1>8, <1>0, <1>c, <1>n, OrderedSend
  <2> QED
    BY <1>2, <2>1
<1>9. OrderInv'
  BY <1>0, <1>2, <1>3, <1>8 DEF FileInv, OrderInv
<1>10. ASSUME Marked(Content, buffer, channel, mark) PROVE Marked(Content, buffer, channel', mark)
  <2>1. Marked(Content, buffer, Append(channel, e), mark)
    BY <1>1, <1>c, <1>10, MarkedSend
  <2> QED
    BY <1>2, <1>10, <2>1
<1>11. FlushInv'
  BY <1>2, <1>3, <1>10 DEF FileInv, FlushInv, HasTask
<1> QED
  BY <1>6, <1>7, <1>9, <1>11 DEF FileInv

LEMMA BeginKeeps == ASSUME FileInv, FlushBegins PROVE FileInv'
<1>0. FileTypes /\ TaskInv
  BY FileFacts
<1>1. /\ flushing = "idle" /\ flushing' = (IF HasTask THEN "sending" ELSE "idle")
      /\ UNCHANGED <<printed, ring, cap, lives, channel, appender, buffer, attached, size, disk, tmp, mark, acked, faulty>>
  BY DEF FlushBegins, client, task, history
<1>2. Content' = Content
  BY <1>1 DEF Content
<1>3. FileTypes'
  BY <1>0, <1>1 DEF FileTypes
<1>4. TaskInv'
  BY <1>0, <1>1 DEF TaskInv, HasTask
<1>5. OrderInv'
  BY <1>1, <1>2 DEF FileInv, OrderInv
<1>6. FlushInv'
  BY <1>1, <1>2 DEF FileInv, FlushInv, HasTask
<1> QED
  BY <1>3, <1>4, <1>5, <1>6 DEF FileInv

LEMMA OnItsWayHolds ==
  ASSUME FileInv
  PROVE  \A x \in OnItsWay : \/ x \in ToSet(Content) \/ x \in ToSet(buffer)
                             \/ \E k \in 1 .. Len(channel) : x \in ToSet(channel[k].data)
<1>0. channel \in Seq(Items) /\ buffer \in Seq(Nat)
  BY FileFacts DEF FileTypes
<1>1. /\ Pending = FlattenSeq(DataOf(channel)) /\ Pending \in Seq(Nat)
      /\ ToSet(Pending) = UNION {ToSet(channel[k].data) : k \in 1 .. Len(channel)}
  BY <1>0, DataTypes DEF Pending, DataOf
<1>2. ToSet(buffer \o Pending) = ToSet(buffer) \cup ToSet(Pending)
  BY <1>0, <1>1, ConcatHolds
<1> QED
  BY <1>1, <1>2 DEF OnItsWay

LEMMA SendKeeps == ASSUME FileInv, FlushSent PROVE FileInv'
<1> USE LogAssumption
<1>0. /\ FileTypes /\ TaskInv /\ Ordered(Content, buffer, channel, printed) /\ printed \in Nat
      /\ \A x \in ToSet(Content) \cup ToSet(buffer) : x \in 1 .. printed
  BY FileFacts
<1>1. /\ flushing = "sending" /\ Len(channel) < ChannelCap /\ channel' = Append(channel, Flush)
      /\ flushing' = "awaiting" /\ mark' = OnItsWay
      /\ UNCHANGED <<printed, ring, cap, lives, appender, buffer, attached, size, disk, tmp, acked, faulty>>
  BY DEF FlushSent, client, task
<1>2. Content' = Content
  BY <1>1 DEF Content
<1>3. Flush \in Items /\ Flush.kind = "flush" /\ Flush.data = <<>>
  BY DEF Flush, Items
<1>4. channel \in Seq(Items) /\ channel' \in Seq(Items) /\ Len(channel') <= ChannelCap
  BY <1>0, <1>1, <1>3 DEF FileTypes
<1>5. \A x \in mark' : \/ x \in ToSet(Content) \/ x \in ToSet(buffer)
                       \/ \E k \in 1 .. Len(channel) : x \in ToSet(channel[k].data)
  BY <1>1, OnItsWayHolds
<1>6. mark' \subseteq 1 .. printed
  <2>1. \A k \in 1 .. Len(channel) : ToSet(channel[k].data) \subseteq 1 .. printed
    BY <1>0 DEF Ordered
  <2> QED
    BY <1>0, <1>5, <2>1
<1>7. FileTypes'
  BY <1>0, <1>1, <1>4, <1>6 DEF FileTypes
<1>8. TaskInv'
  <2>1. HasTask
    BY <1>0, <1>1 DEF TaskInv
  <2>2. OneFlush(channel')
    BY <1>0, <1>1, <1>3, <1>4, FlushCounts DEF TaskInv
  <2> QED
    BY <1>0, <1>1, <2>1, <2>2 DEF TaskInv, HasTask
<1>9. ASSUME NEW c, Ordered(c, buffer, channel, printed) PROVE Ordered(c, buffer, channel', printed)
  <2>1. Increasing(Flush.data) /\ ToSet(Flush.data) \subseteq printed + 1 .. printed
    BY <1>3, IncreasingEmpty
  <2> QED
    BY <1>0, <1>1, <1>3, <1>4, <1>9, <2>1, OrderedSend
<1>10. OrderInv'
  BY <1>0, <1>1, <1>2, <1>9 DEF FileInv, OrderInv
<1>11. Marked(Content, buffer, channel', mark')
  BY <1>1, <1>3, <1>4, <1>5, MarkedBegins
<1>12. FlushInv'
  BY <1>1, <1>2, <1>11 DEF FileInv, FlushInv, HasTask
<1> QED
  BY <1>7, <1>8, <1>10, <1>12 DEF FileInv

-----------------------------------------------------------------------------
(* What the task writes                                                      *)

LEMMA ReachesFile ==
  ASSUME FileTypes, NEW bytes \in Seq(Nat), Reaches(bytes)
  PROVE  /\ disk' \in Seq(Nat) \cup {NoLog} /\ (disk' = NoLog <=> disk = NoLog)
         /\ Content' = Content \o bytes \/ Content' = Content
         /\ attached /\ disk # NoLog => Content' = Content \o bytes
<1>1. CASE attached /\ disk # NoLog
  <2>1. disk \in Seq(Nat) /\ disk' = disk \o bytes
    BY <1>1 DEF FileTypes, Reaches
  <2>2. disk \o bytes \in Seq(Nat)
    BY <2>1, ConcatProperties
  <2>3. disk' # NoLog /\ disk' \in Seq(Nat)
    BY <2>1, <2>2, LogAssumption
  <2> QED
    BY <1>1, <2>1, <2>3 DEF Content
<1>2. CASE ~ (attached /\ disk # NoLog)
  BY <1>2 DEF FileTypes, Reaches, Content
<1> QED
  BY <1>1, <1>2

LEMMA OrderedFlushed ==
  ASSUME NEW c, NEW b, NEW ch, NEW n, Ordered(c, b, ch, n)
  PROVE  /\ Ordered(c \o b, <<>>, ch, n) /\ Ordered(c, <<>>, ch, n) /\ Ordered(c, <<>>, <<>>, n)
         /\ ToSet(c \o b) = ToSet(c) \cup ToSet(b)
<1>1. /\ c \in Seq(Nat) /\ b \in Seq(Nat) /\ Increasing(c) /\ Increasing(b) /\ Below(c, b)
      /\ \A k \in 1 .. Len(ch) : Below(c, ch[k].data) /\ Below(b, ch[k].data)
  BY DEF Ordered
<1>2. c \o b \in Seq(Nat) /\ Increasing(c \o b) /\ ToSet(c \o b) = ToSet(c) \cup ToSet(b)
  BY <1>1, IncreasingConcat
<1>3. \A k \in 1 .. Len(ch) : Below(c \o b, ch[k].data) /\ Below(<<>>, ch[k].data)
  BY <1>1, <1>2, IncreasingEmpty DEF Below
<1>4. Below(c \o b, <<>>) /\ Below(c, <<>>)
  BY IncreasingEmpty DEF Below
<1> DEFINE d == c \o b
<1> HIDE DEF d
<1>5. /\ d \in Seq(Nat) /\ Increasing(d) /\ ToSet(d) = ToSet(c) \cup ToSet(b) /\ Below(d, <<>>)
      /\ \A k \in 1 .. Len(ch) : Below(d, ch[k].data)
  BY <1>2, <1>3, <1>4 DEF d
<1>6. Ordered(d, <<>>, ch, n)
  BY <1>3, <1>5, IncreasingEmpty DEF Ordered
<1>7. Ordered(c, <<>>, ch, n)
  BY <1>3, <1>4, IncreasingEmpty DEF Ordered
<1>8. \A k \in 1 .. Len(<<>>) : FALSE
  OBVIOUS
<1>9. Ordered(c, <<>>, <<>>, n)
  BY <1>7, <1>8 DEF Ordered
<1> QED
  BY <1>2, <1>6, <1>7, <1>9 DEF d

(* A working disk takes the buffer.                                          *)
LEMMA FlushedFile ==
  ASSUME FileInv, HasTask, appender # "reopens", ~ faulty, Reaches(buffer)
  PROVE  /\ Content' = Content \o buffer /\ disk' # NoLog
         /\ \A x \in Nat : KeptBy(x, Content) \/ x \in ToSet(buffer) => KeptBy(x, Content')
<1>1. /\ FileTypes /\ TaskInv /\ Ordered(Content, buffer, channel, printed)
      /\ Content \in Seq(Nat) /\ Increasing(Content) /\ buffer \in Seq(Nat) /\ Increasing(buffer)
  BY FileFacts
<1>2. attached /\ disk # NoLog
  BY <1>1 DEF FileInv, TaskInv, FlushInv
<1>3. Content' = Content \o buffer /\ disk' # NoLog
  BY <1>1, <1>2, ReachesFile
<1>4. Below(Content, buffer) /\ ToSet(Content \o buffer) = ToSet(Content) \cup ToSet(buffer)
  BY <1>1, OrderedFlushed DEF Ordered
<1>5. ASSUME NEW x \in Nat, KeptBy(x, Content) PROVE KeptBy(x, Content')
  BY <1>1, <1>3, <1>4, <1>5, KeptByMore
<1>6. ASSUME NEW x \in Nat, x \in ToSet(buffer) PROVE KeptBy(x, Content')
  BY <1>3, <1>4, <1>6 DEF KeptBy
<1> QED
  BY <1>3, <1>5, <1>6

(* A message taken from the channel                                          *)
LEMMA ReceivedIs ==
  ASSUME FileInv, NEW kind, Received(kind)
  PROVE  /\ HasTask /\ appender = "waits" /\ cap = MaxDisk /\ lives > 0
         /\ channel \in Seq(Items) /\ channel # <<>> /\ channel[1].kind = kind /\ Head(channel) = channel[1]
         /\ channel[1].data \in Seq(Nat)
         /\ channel' = Tail(channel) /\ channel' \in Seq(Items) /\ Len(channel') <= ChannelCap
         /\ OneFlush(channel') /\ (NoFlush(channel) => NoFlush(channel'))
         /\ kind = "flush" => NoFlush(channel') /\ flushing = "awaiting"
<1> USE LogAssumption
<1>1. FileTypes /\ TaskInv /\ channel \in Seq(Items) /\ Len(channel) <= ChannelCap
  BY FileFacts DEF FileTypes
<1>2. appender = "waits" /\ channel # <<>> /\ Head(channel).kind = kind /\ channel' = Tail(channel)
  BY DEF Received
<1>3. HasTask
  BY <1>2 DEF HasTask
<1>4. /\ Tail(channel) \in Seq(Items) /\ Len(Tail(channel)) = Len(channel) - 1 /\ Len(channel) \in Nat
      /\ Head(channel) = channel[1] /\ 1 \in 1 .. Len(channel)
      /\ \A k \in 1 .. Len(Tail(channel)) : k + 1 \in 1 .. Len(channel) /\ Tail(channel)[k] = channel[k + 1] /\ k + 1 # 1
  BY <1>1, <1>2, TailItems
<1>5. Len(channel) - 1 <= ChannelCap
  BY <1>1, <1>4
<1>6. channel[1].data \in Seq(Nat)
  BY <1>1, <1>4, ItemType
<1>7. OneFlush(channel') /\ (NoFlush(channel) => NoFlush(channel'))
  BY <1>1, <1>2, FlushCounts DEF TaskInv
<1>8. ASSUME kind = "flush" PROVE NoFlush(channel') /\ flushing = "awaiting"
  BY <1>1, <1>2, <1>4, <1>8 DEF TaskInv, NoFlush, OneFlush
<1> QED
  BY <1>1, <1>2, <1>3, <1>4, <1>5, <1>6, <1>7, <1>8 DEF TaskInv

LEMMA WriteChunkKeeps == ASSUME FileInv, WriteChunk PROVE FileInv'
<1> USE LogAssumption
<1>0. /\ FileTypes /\ TaskInv /\ Ordered(Content, buffer, channel, printed)
      /\ Content \in Seq(Nat) /\ Increasing(Content) /\ buffer \in Seq(Nat)
      /\ mark \in SUBSET Nat /\ acked \in SUBSET Nat
  BY FileFacts
<1>1. /\ HasTask /\ appender = "waits" /\ cap = MaxDisk /\ lives > 0
      /\ channel \in Seq(Items) /\ channel # <<>> /\ channel[1].kind = "chunk" /\ Head(channel) = channel[1]
      /\ channel[1].data \in Seq(Nat)
      /\ channel' = Tail(channel) /\ channel' \in Seq(Items) /\ Len(channel') <= ChannelCap
      /\ OneFlush(channel') /\ (NoFlush(channel) => NoFlush(channel'))
  BY ReceivedIs DEF WriteChunk
<1>2. UNCHANGED <<printed, ring, cap, lives, attached, tmp, flushing, mark, acked>>
  BY DEF WriteChunk, client
<1> DEFINE all == buffer \o channel[1].data
<1>3. /\ Ordered(Content, all, Tail(channel), printed) /\ Ordered(Content, buffer, Tail(channel), printed)
      /\ all \in Seq(Nat) /\ Len(all) \in Nat /\ Len(buffer) \in 0 .. Len(all)
  <2>1. Ordered(Content, all, Tail(channel), printed) /\ Ordered(Content, buffer, Tail(channel), printed)
    BY <1>0, <1>1, OrderedBuffer, OrderedTail
  <2>2. all \in Seq(Nat) /\ Len(all) = Len(buffer) + Len(channel[1].data)
    BY <1>0, <1>1, ConcatProperties
  <2> HIDE DEF all
  <2>3. Len(buffer) \in Nat /\ Len(channel[1].data) \in Nat /\ Len(all) \in Nat
    BY <1>0, <1>1, <2>2
  <2>4. Len(buffer) \in 0 .. Len(all)
    BY <2>2, <2>3
  <2> QED
    BY <2>1, <2>2, <2>3, <2>4
<1>4. \/ \E cut \in {0, Len(buffer), Len(all)} :
           /\ Reaches(SubSeq(all, 1, cut)) /\ buffer' = SubSeq(all, cut + 1, Len(all))
           /\ appender' \in {"rotates", "waits"} /\ faulty' = faulty
      \/ faulty' = TRUE /\ UNCHANGED <<disk, buffer, appender>>
  BY <1>1 DEF WriteChunk, AfterWrite, Fails
<1> HIDE DEF all
<1>5. CASE faulty' = TRUE /\ UNCHANGED <<disk, buffer, appender>>
  <2>1. Content' = Content
    BY <1>5 DEF Content
  <2>2. FileTypes'
    BY <1>0, <1>1, <1>2, <1>5 DEF FileTypes
  <2>3. TaskInv'
    BY <1>0, <1>1, <1>2, <1>5 DEF TaskInv, HasTask
  <2>4. OrderInv'
    BY <1>1, <1>2, <1>3, <1>5, <2>1 DEF OrderInv
  <2>5. FlushInv'
    BY <1>5 DEF FlushInv
  <2> QED
    BY <2>2, <2>3, <2>4, <2>5 DEF FileInv
<1>6. ASSUME NEW cut \in {0, Len(buffer), Len(all)}, Reaches(SubSeq(all, 1, cut)),
             buffer' = SubSeq(all, cut + 1, Len(all)), appender' \in {"rotates", "waits"}, faulty' = faulty
      PROVE  FileInv'
  <2> DEFINE front == SubSeq(all, 1, cut)
             back == SubSeq(all, cut + 1, Len(all))
  <2>1. cut \in 0 .. Len(all)
    BY <1>3, <1>6
  <2>2. /\ Ordered(Content \o front, back, Tail(channel), printed) /\ Ordered(Content, back, Tail(channel), printed)
        /\ front \in Seq(Nat) /\ Increasing(front) /\ Below(Content, front)
    BY <1>3, <2>1, OrderedCut
  <2>3. Marked(Content, buffer, channel, mark) => Marked(Content \o front, back, Tail(channel), mark)
    BY <1>0, <1>1, <2>1, MarkedWrite DEF all
  <2>r. Reaches(front) /\ buffer' = back
    BY <1>6
  <2> HIDE DEF front, back
  <2>4. /\ disk' \in Seq(Nat) \cup {NoLog} /\ (disk' = NoLog <=> disk = NoLog)
        /\ Content' = Content \o front \/ Content' = Content
        /\ attached /\ disk # NoLog => Content' = Content \o front
    BY <1>0, <2>2, <2>r, ReachesFile
  <2>5. FileTypes'
    BY <1>0, <1>1, <1>2, <1>6, <2>4 DEF FileTypes, AppenderStates
  <2>6. TaskInv'
    BY <1>0, <1>1, <1>2, <1>6 DEF TaskInv, HasTask
  <2>7. Ordered(Content', buffer', channel', printed')
    BY <1>1, <1>2, <2>2, <2>r, <2>4
  <2>8. OrderInv'
    BY <1>6, <2>7 DEF OrderInv
  <2>9. ASSUME ~ faulty PROVE FlushInv'
    <3>1. attached /\ disk # NoLog /\ Content' = Content \o front /\ disk' # NoLog
      BY <1>1, <2>4, <2>9 DEF FileInv, FlushInv
    <3>2. ASSUME NEW x \in acked PROVE KeptBy(x, Content')
      <4>1. x \in Nat /\ KeptBy(x, Content)
        BY <1>0, <2>9 DEF FileInv, FlushInv
      <4> QED
        BY <1>0, <2>2, <3>1, <4>1, KeptByMore
    <3>3. flushing = "awaiting" => Marked(Content', buffer', channel', mark)
      BY <1>1, <2>3, <2>9, <2>r, <3>1 DEF FileInv, FlushInv
    <3> QED
      BY <1>2, <1>6, <3>1, <3>2, <3>3 DEF FlushInv
  <2>10. FlushInv'
    BY <1>6, <2>9 DEF FlushInv
  <2> QED
    BY <2>5, <2>6, <2>8, <2>10 DEF FileInv
<1> QED
  BY <1>4, <1>5, <1>6

LEMMA WriteFlushKeeps == ASSUME FileInv, WriteFlush PROVE FileInv'
<1> USE LogAssumption
<1>0. /\ FileTypes /\ TaskInv /\ Ordered(Content, buffer, channel, printed)
      /\ Content \in Seq(Nat) /\ buffer \in Seq(Nat) /\ mark \in SUBSET Nat /\ acked \in SUBSET Nat
  BY FileFacts
<1>1. /\ HasTask /\ appender = "waits" /\ cap = MaxDisk /\ lives > 0
      /\ channel \in Seq(Items) /\ channel # <<>> /\ channel[1].kind = "flush"
      /\ channel' = Tail(channel) /\ channel' \in Seq(Items) /\ Len(channel') <= ChannelCap
      /\ OneFlush(channel') /\ NoFlush(channel') /\ flushing = "awaiting"
  BY ReceivedIs DEF WriteFlush
<1>2. /\ UNCHANGED <<printed, ring, cap, lives, appender, attached, tmp, mark>>
      /\ flushing' = "idle" /\ acked' = mark
  BY DEF WriteFlush, client
<1>3. \/ Reaches(buffer) /\ buffer' = <<>> /\ faulty' = faulty
      \/ faulty' = TRUE /\ UNCHANGED <<disk, buffer>>
  BY DEF WriteFlush, Fails
<1>4. Ordered(Content, buffer, Tail(channel), printed)
  BY <1>0, <1>1, OrderedTail
<1>5. /\ disk' \in Seq(Nat) \cup {NoLog} /\ Ordered(Content', buffer', channel', printed')
      /\ buffer' \in Seq(Nat)
  <2>1. CASE Reaches(buffer) /\ buffer' = <<>>
    <3>1. disk' \in Seq(Nat) \cup {NoLog} /\ (Content' = Content \o buffer \/ Content' = Content)
      BY <1>0, <2>1, ReachesFile
    <3>2. Ordered(Content \o buffer, <<>>, Tail(channel), printed) /\ Ordered(Content, <<>>, Tail(channel), printed)
      BY <1>4, OrderedFlushed
    <3> QED
      BY <1>1, <1>2, <2>1, <3>1, <3>2, IncreasingEmpty
  <2>2. CASE UNCHANGED <<disk, buffer>>
    BY <1>0, <1>1, <1>2, <1>4, <2>2 DEF Content, FileTypes
  <2> QED
    BY <1>3, <2>1, <2>2
<1>6. FileTypes'
  BY <1>0, <1>1, <1>2, <1>3, <1>5 DEF FileTypes
<1>7. TaskInv'
  BY <1>0, <1>1, <1>2 DEF TaskInv, HasTask
<1>8. OrderInv'
  BY <1>1, <1>2, <1>5 DEF OrderInv
<1>9. ASSUME ~ faulty, faulty' = faulty, Reaches(buffer) PROVE FlushInv'
  <2>1. /\ attached /\ disk' # NoLog
        /\ \A x \in Nat : KeptBy(x, Content) \/ x \in ToSet(buffer) => KeptBy(x, Content')
    BY <1>1, <1>9, FlushedFile DEF FileInv, FlushInv
  <2>2. \A x \in mark : KeptBy(x, Content) \/ x \in ToSet(buffer)
    <3>1. Marked(Content, buffer, channel, mark) /\ OneFlush(channel)
      BY <1>0, <1>1, <1>9 DEF FileInv, FlushInv, TaskInv
    <3> QED
      BY <1>1, <3>1, MarkedAnswered
  <2>3. \A x \in acked' : KeptBy(x, Content')
    BY <1>0, <1>2, <2>1, <2>2
  <2> QED
    BY <1>1, <1>2, <2>1, <2>3 DEF FlushInv
<1>10. FlushInv'
  <2>1. CASE faulty'
    BY <2>1 DEF FlushInv
  <2>2. CASE ~ faulty'
    BY <1>3, <1>9, <2>2
  <2> QED
    BY <2>1, <2>2
<1> QED
  BY <1>6, <1>7, <1>8, <1>10 DEF FileInv

-----------------------------------------------------------------------------
(* The rotation                                                              *)

LEMMA RotateFlushKeeps == ASSUME FileInv, RotateFlush PROVE FileInv'
<1> USE LogAssumption
<1>0. /\ FileTypes /\ TaskInv /\ Ordered(Content, buffer, channel, printed)
      /\ Content \in Seq(Nat) /\ buffer \in Seq(Nat) /\ mark \in SUBSET Nat /\ acked \in SUBSET Nat
  BY FileFacts
<1>1. /\ appender = "rotates"
      /\ UNCHANGED <<printed, ring, cap, lives, channel, attached, tmp, flushing, mark, acked>>
  BY DEF RotateFlush, client
<1>2. \/ Reaches(buffer) /\ buffer' = <<>> /\ appender' = "copies" /\ faulty' = faulty
      \/ faulty' = TRUE /\ appender' = "waits" /\ UNCHANGED <<disk, buffer>>
  BY DEF RotateFlush, Fails
<1>3. HasTask /\ cap = MaxDisk /\ lives > 0 /\ channel \in Seq(Items)
  BY <1>0, <1>1 DEF TaskInv, HasTask, FileTypes
<1>4. disk' \in Seq(Nat) \cup {NoLog} /\ Ordered(Content', buffer', channel, printed)
  <2>1. CASE Reaches(buffer) /\ buffer' = <<>>
    <3>1. disk' \in Seq(Nat) \cup {NoLog} /\ (Content' = Content \o buffer \/ Content' = Content)
      BY <1>0, <2>1, ReachesFile
    <3>2. Ordered(Content \o buffer, <<>>, channel, printed) /\ Ordered(Content, <<>>, channel, printed)
      BY <1>0, OrderedFlushed
    <3> QED
      BY <2>1, <3>1, <3>2
  <2>2. CASE UNCHANGED <<disk, buffer>>
    BY <1>0, <2>2 DEF Content, FileTypes
  <2> QED
    BY <1>2, <2>1, <2>2
<1>5. FileTypes'
  BY <1>0, <1>1, <1>2, <1>4 DEF FileTypes, AppenderStates
<1>6. TaskInv'
  BY <1>0, <1>1, <1>2, <1>3 DEF TaskInv, HasTask
<1>7. OrderInv'
  BY <1>1, <1>2, <1>4 DEF OrderInv
<1>8. ASSUME ~ faulty, faulty' = faulty, Reaches(buffer), buffer' = <<>>, appender' = "copies" PROVE FlushInv'
  <2>1. /\ attached /\ disk' # NoLog /\ Content' = Content \o buffer
        /\ \A x \in Nat : KeptBy(x, Content) \/ x \in ToSet(buffer) => KeptBy(x, Content')
    BY <1>1, <1>3, <1>8, FlushedFile DEF FileInv, FlushInv
  <2>2. \A x \in acked' : KeptBy(x, Content')
    BY <1>0, <1>1, <1>8, <2>1 DEF FileInv, FlushInv
  <2>3. Marked(Content, buffer, channel, mark) => Marked(Content', <<>>, channel, mark)
    BY <1>0, <1>3, <2>1, MarkedFlushed
  <2>4. flushing = "awaiting" => Marked(Content', buffer', channel', mark')
    BY <1>1, <1>8, <2>3 DEF FileInv, FlushInv
  <2> QED
    BY <1>1, <1>3, <1>8, <2>1, <2>2, <2>4 DEF FlushInv
<1>9. FlushInv'
  <2>1. CASE faulty'
    BY <2>1 DEF FlushInv
  <2>2. CASE ~ faulty'
    BY <1>2, <1>8, <2>2
  <2> QED
    BY <2>1, <2>2
<1> QED
  BY <1>5, <1>6, <1>7, <1>9 DEF FileInv

LEMMA RotateCopyKeeps == ASSUME FileInv, RotateCopy PROVE FileInv'
<1> USE LogAssumption
<1>0. /\ FileTypes /\ TaskInv /\ Ordered(Content, buffer, channel, printed)
      /\ Content \in Seq(Nat) /\ Increasing(Content) /\ Keep \in Nat
  BY FileFacts, KeepIsNat
<1>1. /\ appender = "copies"
      /\ UNCHANGED <<printed, ring, cap, lives, channel, buffer, attached, size, disk, flushing, mark, acked, faulty>>
  BY DEF RotateCopy, client, history
<1>2. \/ disk # NoLog /\ appender' = "renames" /\ tmp' = KeptTail
      \/ tmp' \in {tmp} \cup PartsOf(KeptTail) /\ appender' = "waits"
  BY DEF RotateCopy
<1>3. HasTask /\ cap = MaxDisk /\ lives > 0 /\ buffer = <<>> /\ Content' = Content
  BY <1>0, <1>1 DEF TaskInv, HasTask, Content
<1>4. /\ KeptTail = Newest(Content, Keep) /\ KeptTail \in Seq(Nat) /\ Increasing(KeptTail)
      /\ ToSet(KeptTail) \subseteq ToSet(Content)
  <2>1. KeptTail = Newest(Content, Keep)
    BY <1>3 DEF KeptTail, Keep
  <2> QED
    BY <1>0, <2>1, NewestIs
<1> DEFINE kept == KeptTail
<1> HIDE DEF kept
<1>5. kept \in Seq(Nat) /\ kept # NoLog /\ Ordered(kept, buffer, channel, printed)
  BY <1>0, <1>4, OrderedFewer DEF kept
<1>6. tmp' \in Seq(Nat) \cup {NoLog}
  <2>1. ASSUME NEW n \in 0 .. Len(kept) PROVE SubSeq(kept, 1, n) \in Seq(Nat)
    <3>1. Len(kept) \in Nat /\ n \in Nat /\ \A k \in 1 .. n : k \in 1 .. Len(kept)
      BY <1>5
    <3> QED
      BY <1>5, <3>1, SubSeqProperties
  <2>2. PartsOf(kept) \subseteq Seq(Nat)
    BY <2>1 DEF PartsOf
  <2>3. tmp \in Seq(Nat) \cup {NoLog}
    BY <1>0 DEF FileTypes
  <2> QED
    BY <1>2, <1>5, <2>2, <2>3 DEF kept
<1>7. FileTypes'
  BY <1>0, <1>1, <1>2, <1>6 DEF FileTypes, AppenderStates
<1>8. TaskInv'
  BY <1>0, <1>1, <1>2, <1>3 DEF TaskInv, HasTask
<1>9. OrderInv'
  <2>1. appender' = "renames" => tmp' # NoLog /\ Ordered(tmp', buffer', channel', printed')
    BY <1>1, <1>2, <1>5 DEF kept
  <2> QED
    BY <1>0, <1>1, <1>3, <2>1 DEF OrderInv
<1>10. FlushInv'
  <2>1. appender' = "renames" => tmp' = Newest(Content', Keep)
    BY <1>2, <1>3, <1>4
  <2> QED
    BY <1>1, <1>2, <1>3, <2>1 DEF FileInv, FlushInv, HasTask
<1> QED
  BY <1>7, <1>8, <1>9, <1>10 DEF FileInv

LEMMA RotateRenameKeeps == ASSUME FileInv, RotateRename PROVE FileInv'
<1> USE LogAssumption
<1>0. /\ FileTypes /\ TaskInv /\ Ordered(Content, buffer, channel, printed)
      /\ Content \in Seq(Nat) /\ Increasing(Content) /\ mark \in SUBSET Nat /\ acked \in SUBSET Nat
  BY FileFacts
<1>1. /\ appender = "renames"
      /\ UNCHANGED <<printed, ring, cap, lives, channel, buffer, size, flushing, mark, acked, faulty>>
  BY DEF RotateRename, client, history
<1>2. /\ attached' = (attached /\ appender' = "waits")
      /\ \/ disk' = tmp /\ tmp' = NoLog /\ appender' = "reopens"
         \/ UNCHANGED <<disk, tmp>> /\ appender' = "waits"
  BY DEF RotateRename
<1>3. HasTask /\ cap = MaxDisk /\ lives > 0 /\ buffer = <<>>
  BY <1>0, <1>1 DEF TaskInv, HasTask
<1>4. tmp \in Seq(Nat) /\ tmp # NoLog /\ Ordered(tmp, buffer, channel, printed)
  BY <1>0, <1>1 DEF FileInv, OrderInv, FileTypes
<1>5. FileTypes'
  <2>1. disk' \in Seq(Nat) \cup {NoLog} /\ tmp' \in Seq(Nat) \cup {NoLog} /\ attached' \in BOOLEAN
    BY <1>0, <1>2, <1>4 DEF FileTypes
  <2> QED
    BY <1>0, <1>1, <1>2, <2>1 DEF FileTypes, AppenderStates
<1>6. TaskInv'
  BY <1>0, <1>1, <1>2, <1>3 DEF TaskInv, HasTask
<1>7. CASE disk' = tmp /\ appender' = "reopens"
  <2>1. Content' = tmp /\ disk' # NoLog
    BY <1>4, <1>7 DEF Content
  <2>2. OrderInv'
    BY <1>1, <1>4, <1>7, <2>1 DEF OrderInv
  <2>3. ASSUME ~ faulty PROVE FlushInv'
    <3>1. tmp = Newest(Content, Keep)
      BY <1>1, <2>3 DEF FileInv, FlushInv
    <3>2. \A x \in acked : KeptBy(x, Content')
      BY <1>0, <2>1, <2>3, <3>1, KeptByNewest DEF FileInv, FlushInv
    <3>3. flushing = "awaiting" => Marked(Content', buffer, channel, mark)
      BY <1>0, <2>1, <2>3, <3>1, MarkedRotated DEF FileInv, FlushInv
    <3> QED
      BY <1>1, <1>2, <1>7, <2>1, <3>2, <3>3 DEF FlushInv
  <2>4. FlushInv'
    BY <1>1, <2>3 DEF FlushInv
  <2> QED
    BY <1>5, <1>6, <2>2, <2>4 DEF FileInv
<1>8. CASE UNCHANGED <<disk, tmp>> /\ appender' = "waits"
  <2>1. Content' = Content
    BY <1>8 DEF Content
  <2>2. OrderInv'
    BY <1>0, <1>1, <1>8, <2>1 DEF OrderInv
  <2>3. FlushInv'
    BY <1>0, <1>1, <1>2, <1>3, <1>8, <2>1 DEF FileInv, FlushInv, HasTask, FileTypes
  <2> QED
    BY <1>5, <1>6, <2>2, <2>3 DEF FileInv
<1> QED
  BY <1>2, <1>7, <1>8

LEMMA RotateReopenKeeps == ASSUME FileInv, RotateReopen PROVE FileInv'
<1> USE LogAssumption
<1>0. /\ FileTypes /\ TaskInv /\ Ordered(Content, buffer, channel, printed) /\ Content \in Seq(Nat)
  BY FileFacts
<1>1. /\ appender = "reopens" /\ appender' = "waits"
      /\ UNCHANGED <<printed, ring, cap, lives, channel, buffer, tmp, flushing, mark, acked>>
  BY DEF RotateReopen, client
<1>2. \/ disk' = Content /\ attached' = TRUE /\ faulty' = faulty
      \/ faulty' = TRUE /\ UNCHANGED <<disk, attached>>
  BY DEF RotateReopen, Fails
<1>3. HasTask /\ cap = MaxDisk /\ lives > 0
  BY <1>0, <1>1 DEF TaskInv, HasTask
<1>4. Content' = Content /\ disk' \in Seq(Nat) \cup {NoLog}
  BY <1>0, <1>2 DEF Content, FileTypes
<1>5. FileTypes'
  BY <1>0, <1>1, <1>2, <1>4 DEF FileTypes, AppenderStates
<1>6. TaskInv'
  BY <1>0, <1>1, <1>3 DEF TaskInv, HasTask
<1>7. OrderInv'
  BY <1>0, <1>1, <1>4 DEF OrderInv
<1>8. FlushInv'
  <2>1. CASE faulty'
    BY <2>1 DEF FlushInv
  <2>2. CASE ~ faulty'
    <3>1. disk' # NoLog /\ attached' = TRUE /\ faulty' = faulty
      BY <1>0, <1>2, <2>2
    <3> QED
      BY <1>1, <1>4, <2>2, <3>1 DEF FileInv, FlushInv
  <2> QED
    BY <2>1, <2>2
<1> QED
  BY <1>5, <1>6, <1>7, <1>8 DEF FileInv

-----------------------------------------------------------------------------
(* The end of a daemon, or of the log                                        *)

LEMMA KilledKeeps == ASSUME FileInv, Killed PROVE FileInv'
<1> USE LogAssumption
<1>0. FileTypes /\ TaskInv /\ Ordered(Content, buffer, channel, printed)
  BY FileFacts
<1>1. /\ appender' = "killed" /\ channel' = <<>> /\ buffer' = <<>> /\ flushing' = "idle" /\ ring' = <<>>
      /\ UNCHANGED <<printed, attached, size, cap, disk, tmp, lives, mark, acked, faulty>>
  BY DEF Killed, history
<1>2. Content' = Content
  BY <1>1 DEF Content
<1>3. ring' \in Seq(Nat) /\ Len(ring') <= RingCap /\ channel' \in Seq(Items) /\ Len(channel') <= ChannelCap
  <2>1. <<>> \in Seq(Nat) /\ <<>> \in Seq(Items) /\ Len(<<>>) = 0 /\ 0 <= RingCap /\ 0 <= ChannelCap
    OBVIOUS
  <2> QED
    BY <1>1, <2>1
<1>4. FileTypes'
  BY <1>0, <1>1, <1>3 DEF FileTypes, AppenderStates
<1>5. TaskInv'
  BY <1>1 DEF TaskInv, HasTask, OneFlush, NoFlush
<1>6. OrderInv'
  <2>1. Ordered(Content, <<>>, <<>>, printed)
    BY <1>0, OrderedFlushed
  <2> QED
    BY <1>1, <1>2, <2>1 DEF OrderInv
<1>7. FlushInv'
  BY <1>1, <1>2 DEF FileInv, FlushInv, HasTask
<1> QED
  BY <1>4, <1>5, <1>6, <1>7 DEF FileInv

LEMMA RemoveLogKeeps == ASSUME FileInv, RemoveLog PROVE FileInv'
<1>0. FileTypes /\ TaskInv /\ Ordered(Content, buffer, channel, printed)
  BY FileFacts
<1>1. /\ disk' = NoLog /\ attached' = FALSE /\ faulty' = TRUE
      /\ UNCHANGED <<printed, ring, cap, lives, channel, appender, buffer, size, tmp, flushing, mark, acked>>
  BY DEF RemoveLog, Fails, client
<1>2. Content' = <<>>
  BY <1>1 DEF Content
<1>3. FileTypes'
  BY <1>0, <1>1 DEF FileTypes
<1>4. TaskInv'
  BY <1>0, <1>1 DEF TaskInv, HasTask
<1>5. OrderInv'
  <2>1. Ordered(<<>>, buffer, channel, printed)
    BY <1>0, IncreasingEmpty, OrderedFewer
  <2> QED
    BY <1>1, <1>2, <2>1 DEF FileInv, OrderInv
<1>6. FlushInv'
  BY <1>1 DEF FlushInv
<1> QED
  BY <1>3, <1>4, <1>5, <1>6 DEF FileInv

-----------------------------------------------------------------------------
(* The theorem                                                               *)

LEMMA NextFileInv == FileInv /\ [LogNext]_logVars => FileInv'
<1> SUFFICES ASSUME FileInv, [LogNext]_logVars PROVE FileInv'
  OBVIOUS
<1>1. CASE OpenLog
  BY <1>1, OpenKeeps
<1>2. CASE FlushBegins
  BY <1>2, BeginKeeps
<1>3. CASE FlushSent
  BY <1>3, SendKeeps
<1>4. CASE disk_appender_task
  BY <1>4, WriteChunkKeeps, WriteFlushKeeps, RotateFlushKeeps, RotateCopyKeeps, RotateRenameKeeps, RotateReopenKeeps
  DEF disk_appender_task
<1>5. CASE Killed
  BY <1>5, KilledKeeps
<1>6. CASE RemoveLog
  BY <1>6, RemoveLogKeeps
<1>7. CASE \E n \in 1 .. 2 : AppendChunk(n)
  BY <1>7, AppendKeeps
<1>8. CASE UNCHANGED logVars
  BY <1>8 DEF logVars, FileInv, FileTypes, TaskInv, HasTask, OrderInv, FlushInv, Content
<1> QED
  BY <1>1, <1>2, <1>3, <1>4, <1>5, <1>6, <1>7, <1>8 DEF LogNext

LEMMA FileInvIsSafe == FileInv => LogSafe
<1> SUFFICES ASSUME FileInv PROVE LogSafe
  OBVIOUS
<1> USE LogAssumption
<1>0. /\ FileTypes /\ TaskInv /\ Ordered(Content, buffer, channel, printed)
      /\ Content \in Seq(Nat) /\ Increasing(Content) /\ printed \in Nat /\ acked \in SUBSET Nat
  BY FileFacts
<1>1. LogTypeOK
  <2>1. 1 .. printed \subseteq 1 .. MaxOutput
    BY <1>0 DEF FileTypes
  <2> QED
    BY <1>0, <2>1 DEF FileTypes, LogTypeOK, AppenderStates
<1>2. LogKeepsOrder
  <2>1. Pending = FlattenSeq(DataOf(channel)) /\ channel \in Seq(Items)
    BY <1>0 DEF Pending, DataOf, FileTypes
  <2> QED
    BY <1>0, <2>1, OrderedIsIncreasing DEF LogKeepsOrder
<1>3. FlushedSurvives
  <2>1. ASSUME ~ faulty, NEW x \in acked
        PROVE  x \in ToSet(Content) \/ Cardinality({c \in ToSet(Content) : c > x}) >= Keep
    <3>1. x \in Nat /\ KeptBy(x, Content)
      BY <1>0, <2>1 DEF FileInv, FlushInv
    <3> QED
      BY <1>0, <3>1, KeptByCounts
  <2> QED
    BY <2>1 DEF FlushedSurvives
<1> QED
  BY <1>1, <1>2, <1>3 DEF LogSafe

(* Whatever the ring, the channel and the file may hold, what a pane's log   *)
(* replays is its output in the order it was printed and none of it twice,   *)
(* and what flush_all_byte_logs was answered for is there until half the     *)
(* limit of newer output has taken its place: append, the appender task,     *)
(* rotate_log broken off at any point, restarts and failing writes.          *)
THEOREM LogsAreSafe == LogSpec => []LogSafe
<1>1. FileInv /\ [LogNext]_logVars => FileInv'
  BY NextFileInv
<1> QED
  BY InitFileInv, <1>1, FileInvIsSafe, PTL DEF LogSpec
=============================================================================
