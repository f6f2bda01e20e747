--------------------------- MODULE SessionManager ---------------------------
(***************************************************************************)
(* The daemon's SessionManager (crates/forgetty-session/src/manager.rs):   *)
(* the pane registry, the workspace -> tab -> pane-tree layout, the byte   *)
(* logs and the per-pane drain tasks, all behind one mutex.                *)
(*                                                                         *)
(* One action is one critical section.  A method that releases the mutex   *)
(* between two critical sections is several actions: duplicate_workspace   *)
(* (snapshot / spawn / commit) and the spawn_drain_task that follows every *)
(* creation (ByteLog::new / register / take the receiver / drain).         *)
(*                                                                         *)
(* Identifiers are UUIDs in the code and members of constant sets here.    *)
(* Indices are the code's, 0-based; sequences are TLA+'s, 1-based.  A pane *)
(* tree is the sequence of its leaves from left to right: the nesting and  *)
(* the ratios are not looked at by any guard of this module.               *)
(***************************************************************************)
EXTENDS Integers, Sequences, FiniteSets, SequencesExt, Vectors

CONSTANTS
  PaneIds,        \* pane UUIDs; one is never handed out twice
  TabIds,         \* tab UUIDs
  WorkspaceIds,   \* workspace UUIDs
  NoPane,         \* active_pane_id = None
  MaxDuplicates   \* bound: duplicate_workspace calls in flight at once

ASSUME SessionAssumption ==
  /\ NoPane \notin PaneIds
  /\ MaxDuplicates \in Nat

VARIABLES
  panes,             \* SessionManagerInner.panes: registered panes
  pane_order,        \* SessionManagerInner.pane_order
  workspaces,        \* layout.workspaces, as ids in sidebar order
  active_workspace,  \* layout.active_workspace, an index
  tabs,              \* workspace id -> its tabs in order
  active_tab,        \* workspace id -> active_tab, an index
  pane_tree,         \* tab id -> leaves of its tree, left to right
  active_pane_id,    \* tab id -> active_pane_id
  byte_logs,         \* SessionManagerInner.byte_logs: panes with a ByteLog
  log_files,         \* panes whose {uuid}.log is on disk
  drain,             \* pane id -> where its spawn_drain_task stands
  dups,              \* duplicate_workspace calls between snapshot and commit
  sent               \* events the last critical section broadcast, in order

layout == <<workspaces, active_workspace, tabs, active_tab, pane_tree, active_pane_id>>
vars == <<panes, pane_order, layout, byte_logs, log_files, drain, dups, sent>>

DrainStates == {"unborn", "spawned", "opened", "ready", "running", "done"}

Live == ToSet(workspaces)
TabsOf(w) == ToSet(tabs[w])
LiveTabs == UNION {TabsOf(w) : w \in Live}
Leaves(t) == ToSet(pane_tree[t])
WorkspaceAt(idx) == workspaces[idx + 1]
Indexes(s) == 0 .. Len(s) - 1

Reserved == UNION {ToSet(d.panes) : d \in dups}
FreshPanes == {p \in PaneIds : drain[p] = "unborn" /\ p \notin Reserved}
FreshTabs == TabIds \ LiveTabs
FreshWorkspaces == WorkspaceIds \ Live

(* Vec::retain(|p| !gone.contains(p)).  A definition named Slip... is a      *)
(* plausible mistake in the operator below it; no action uses it.           *)
SlipNotRetained(s, gone) == s
Without(s, gone) == Retain(s, ToSet(s) \ gone)

(* if active >= len && !empty { active = len - 1 } *)
SlipNoEmptyGuard(active, s) == IF active >= Len(s) THEN Len(s) - 1 ELSE active
SlipClampLate(active, s) == IF s # <<>> /\ active > Len(s) THEN Len(s) - 1 ELSE active
Clamp(active, s) == IF s # <<>> /\ active >= Len(s) THEN Len(s) - 1 ELSE active

PaneCreated(p) == <<"PaneCreated", p>>
PaneClosed(p) == <<"PaneClosed", p>>
SlipSilent(s) == <<>>
ClosedEvents(s) == [i \in DOMAIN s |-> PaneClosed(s[i])]
SlipTabOnly(t, p) == <<<<"TabCreated", t>>>>
NewTabEvents(t, p) == <<PaneCreated(p), <<"TabCreated", t>> >>

Init ==
  /\ panes = {} /\ pane_order = <<>>
  /\ \E w \in WorkspaceIds : workspaces = <<w>>
  /\ active_workspace = 0
  /\ tabs = [w \in WorkspaceIds |-> <<>>]
  /\ active_tab = [w \in WorkspaceIds |-> 0]
  /\ pane_tree = [t \in TabIds |-> <<>>]
  /\ active_pane_id = [t \in TabIds |-> NoPane]
  /\ byte_logs = {} /\ log_files = {}
  /\ drain = [p \in PaneIds |-> "unborn"]
  /\ dups = {}
  /\ sent = <<>>

-----------------------------------------------------------------------------
(* Creation *)

(* A fresh single-leaf tab t for the fresh pane p at the end of w's tabs.  *)
PushTab(w, t, p) ==
  /\ panes' = panes \cup {p}
  /\ pane_order' = Append(pane_order, p)
  /\ tabs' = [tabs EXCEPT ![w] = Append(@, t)]
  /\ pane_tree' = [pane_tree EXCEPT ![t] = <<p>>]
  /\ active_pane_id' = [active_pane_id EXCEPT ![t] = NoPane]
  /\ drain' = [drain EXCEPT ![p] = "spawned"]
  /\ UNCHANGED <<workspaces, active_workspace, active_tab, byte_logs, log_files, dups>>

create_pane(t, p) ==
  /\ p \in FreshPanes /\ t \in FreshTabs
  /\ PushTab(workspaces[1], t, p)
  /\ sent' = <<PaneCreated(p)>>

create_tab(idx, t, p) ==
  /\ idx \in Indexes(workspaces)
  /\ p \in FreshPanes /\ t \in FreshTabs
  /\ PushTab(WorkspaceAt(idx), t, p)
  /\ sent' = NewTabEvents(t, p)

(* split_pane, split_pane_with_ratio(_and_pane_id): the target leaf becomes *)
(* a Split of the target and the new pane.  A registered target that is in  *)
(* no tree makes the call undo its own insertion and fail: no change.       *)
split_pane(p, q) ==
  /\ p \in panes /\ q \in FreshPanes
  /\ \E w \in Live : \E t \in TabsOf(w) : \E i \in DOMAIN pane_tree[t] :
       /\ pane_tree[t][i] = p
       /\ pane_tree' = [pane_tree EXCEPT ![t] = InsertAt(@, i + 1, q)]
       /\ sent' = <<PaneCreated(q), <<"PaneSplit", t>> >>
  /\ panes' = panes \cup {q}
  /\ pane_order' = Append(pane_order, q)
  /\ drain' = [drain EXCEPT ![q] = "spawned"]
  /\ UNCHANGED <<workspaces, active_workspace, tabs, active_tab, active_pane_id,
                 byte_logs, log_files, dups>>

create_workspace(w) ==
  /\ w \in FreshWorkspaces
  /\ workspaces' = Append(workspaces, w)
  /\ tabs' = [tabs EXCEPT ![w] = <<>>]
  /\ active_tab' = [active_tab EXCEPT ![w] = 0]
  /\ sent' = <<<<"WorkspaceCreated", w>>>>
  /\ UNCHANGED <<panes, pane_order, active_workspace, pane_tree, active_pane_id,
                 byte_logs, log_files, drain, dups>>

-----------------------------------------------------------------------------
(* duplicate_workspace: three phases, the mutex free between them *)

DuplicateSnapshot(idx, ps) ==
  /\ Cardinality(dups) < MaxDuplicates
  /\ idx \in Indexes(workspaces)
  /\ ps \in [1 .. Len(tabs[WorkspaceAt(idx)]) -> FreshPanes] /\ IsInjective(ps)
  /\ dups' = dups \cup {[source |-> WorkspaceAt(idx), insert_at |-> idx + 1, panes |-> ps]}
  /\ sent' = <<>>
  /\ UNCHANGED <<panes, pane_order, layout, byte_logs, log_files, drain>>

(* A PTY spawn failed: kill the bridges spawned so far and return Err. *)
DuplicateSpawnFails(d) ==
  /\ d \in dups /\ d.panes # <<>>
  /\ dups' = dups \ {d}
  /\ sent' = <<>>
  /\ UNCHANGED <<panes, pane_order, layout, byte_logs, log_files, drain>>

(* insert_at.min(workspaces.len()): all that is re-checked of the snapshot *)
ClampedInsert(d) == IF d.insert_at < Len(workspaces) THEN d.insert_at ELSE Len(workspaces)

(* active_workspace after an insertion at `at` *)
SlipInsertAfterOnly(at) == IF active_workspace > at THEN active_workspace + 1 ELSE active_workspace
ActiveAfterInsert(at) == IF active_workspace >= at THEN active_workspace + 1 ELSE active_workspace

DuplicateCommit(d, w, ts) ==
  LET n == Len(d.panes)
      at == ClampedInsert(d)
      IndexOf(t) == CHOOSE i \in 1 .. n : ts[i] = t
  IN
  /\ d \in dups /\ w \in FreshWorkspaces
  /\ ts \in [1 .. n -> FreshTabs] /\ IsInjective(ts)
  /\ dups' = dups \ {d}
  /\ panes' = panes \cup ToSet(d.panes)
  /\ pane_order' = pane_order \o d.panes
  /\ workspaces' = InsertAt(workspaces, at + 1, w)
  /\ active_workspace' = ActiveAfterInsert(at)
  /\ tabs' = [tabs EXCEPT ![w] = ts]
  /\ active_tab' = [active_tab EXCEPT ![w] = 0]
  /\ pane_tree' = [t \in TabIds |->
                     IF t \in ToSet(ts) THEN <<d.panes[IndexOf(t)]>> ELSE pane_tree[t]]
  /\ active_pane_id' = [t \in TabIds |-> IF t \in ToSet(ts) THEN NoPane ELSE active_pane_id[t]]
  /\ drain' = [p \in PaneIds |-> IF p \in ToSet(d.panes) THEN "spawned" ELSE drain[p]]
  /\ sent' = <<<<"WorkspaceCreated", w>>>> \o FlattenSeq([i \in 1 .. n |-> NewTabEvents(ts[i], d.panes[i])])
  /\ UNCHANGED <<byte_logs, log_files>>

-----------------------------------------------------------------------------
(* Removal *)

(* The tail close_tab and close_pane share: remove tab i of w, clamp w's    *)
(* active_tab and forget the panes in `gone`.  When that empties a          *)
(* workspace which is not the only one, auto_seed_default_tab gives it a    *)
(* fresh tab -- unless its PTY spawn fails, which leaves w empty.  `done`   *)
(* is drain after the caller's own step, `log` are the caller's events.     *)
RemoveTab(w, i, gone, done, log) ==
  LET t == tabs[w][i]
      rest == RemoveAt(tabs[w], i)
  IN
  /\ byte_logs' = byte_logs \ gone
  /\ UNCHANGED <<workspaces, active_workspace, log_files, dups>>
  /\ \/ /\ tabs' = [tabs EXCEPT ![w] = rest]
        /\ active_tab' = [active_tab EXCEPT ![w] = Clamp(@, rest)]
        /\ pane_tree' = [pane_tree EXCEPT ![t] = <<>>]
        /\ active_pane_id' = [active_pane_id EXCEPT ![t] = NoPane]
        /\ panes' = panes \ gone
        /\ pane_order' = Without(pane_order, gone)
        /\ drain' = done
        /\ sent' = log
     \/ \E q \in FreshPanes, u \in FreshTabs :
          /\ rest = <<>> /\ Len(workspaces) > 1
          /\ tabs' = [tabs EXCEPT ![w] = <<u>>]
          /\ active_tab' = [active_tab EXCEPT ![w] = 0]
          /\ pane_tree' = [pane_tree EXCEPT ![t] = <<>>, ![u] = <<q>>]
          /\ active_pane_id' = [active_pane_id EXCEPT ![t] = NoPane, ![u] = NoPane]
          /\ panes' = (panes \ gone) \cup {q}
          /\ pane_order' = Append(Without(pane_order, gone), q)
          /\ drain' = [done EXCEPT ![q] = "spawned"]
          /\ sent' = log \o NewTabEvents(u, q)

(* Every leaf goes, registered or not; only registered ones are announced.  *)
close_tab(w, i) ==
  LET t == tabs[w][i]
      closed == Retain(pane_tree[t], panes)
  IN RemoveTab(w, i, Leaves(t), drain, Append(ClosedEvents(closed), <<"TabClosed", t>>))

(* matches!(tree, Leaf { pane_id } if pane_id == p) *)
SlipContainsLeaf(t, p) == p \in Leaves(t)
IsSoleLeaf(t, p) == pane_tree[t] = <<p>>

(* close_pane on a registered pane.  A tab goes only if its tree is exactly *)
(* this leaf; a leaf inside a Split stays where it is.                      *)
ClosePane(p, done) ==
  \/ \E w \in Live : \E i \in DOMAIN tabs[w] :
       /\ IsSoleLeaf(tabs[w][i], p)
       /\ RemoveTab(w, i, {p}, done, <<PaneClosed(p)>>)
  \/ /\ \A t \in LiveTabs : ~ IsSoleLeaf(t, p)
     /\ panes' = panes \ {p}
     /\ pane_order' = Without(pane_order, {p})
     /\ byte_logs' = byte_logs \ {p}
     /\ drain' = done
     /\ sent' = <<PaneClosed(p)>>
     /\ UNCHANGED <<layout, log_files, dups>>

close_pane(p) == p \in panes /\ ClosePane(p, drain)

SlipDeletedFirst(w, leaves) == <<<<"WorkspaceDeleted", w>>>> \o ClosedEvents(leaves)
DeletedEvents(w, leaves) == Append(ClosedEvents(leaves), <<"WorkspaceDeleted", w>>)

delete_workspace(idx) ==
  LET w == WorkspaceAt(idx)
      leaves == FlattenSeq([i \in DOMAIN tabs[w] |-> pane_tree[tabs[w][i]]])
      gone == UNION {Leaves(t) : t \in TabsOf(w)}
  IN
  /\ idx \in Indexes(workspaces) /\ Len(workspaces) > 1
  /\ panes' = panes \ gone
  /\ pane_order' = Without(pane_order, gone)
  /\ byte_logs' = byte_logs \ gone
  /\ log_files' = log_files \ gone
  /\ workspaces' = RemoveAt(workspaces, idx + 1)
  /\ active_workspace' = IF active_workspace > idx THEN active_workspace - 1
                         ELSE Clamp(active_workspace, workspaces')
  /\ tabs' = [tabs EXCEPT ![w] = <<>>]
  /\ active_tab' = [active_tab EXCEPT ![w] = 0]
  /\ pane_tree' = [t \in TabIds |-> IF t \in TabsOf(w) THEN <<>> ELSE pane_tree[t]]
  /\ active_pane_id' = [t \in TabIds |-> IF t \in TabsOf(w) THEN NoPane ELSE active_pane_id[t]]
  /\ sent' = DeletedEvents(w, leaves)
  /\ UNCHANGED <<drain, dups>>

-----------------------------------------------------------------------------
(* Reordering and focus *)

(* from and to swap; the active index follows its workspace *)
move_workspace(from, to) ==
  /\ {from, to} \subseteq Indexes(workspaces) /\ from # to
  /\ workspaces' = [workspaces EXCEPT ![from + 1] = WorkspaceAt(to), ![to + 1] = WorkspaceAt(from)]
  /\ active_workspace' = CASE active_workspace = from -> to
                           [] active_workspace = to -> from
                           [] OTHER -> active_workspace
  /\ sent' = <<<<"WorkspacesReordered", from, to>>>>
  /\ UNCHANGED <<panes, pane_order, tabs, active_tab, pane_tree, active_pane_id,
                 byte_logs, log_files, drain, dups>>

(* Vec::remove then Vec::insert: tab i of w to place j, the rest in order *)
SlipCopied(s, i, j) == InsertAt(s, j, s[i])
Moved(s, i, j) == InsertAt(RemoveAt(s, i), j, s[i])

(* where w's active tab is in the reordered tabs *)
SlipKeepIndex(w, moved) == active_tab[w]
FollowActive(w, moved) == CHOOSE k \in Indexes(moved) : moved[k + 1] = tabs[w][active_tab[w] + 1]

move_tab(w, i, new_index) ==
  LET last == Len(tabs[w]) - 1
      target == IF new_index < last THEN new_index ELSE last
      moved == Moved(tabs[w], i, target + 1)
  IN
  /\ i - 1 # target
  /\ tabs' = [tabs EXCEPT ![w] = moved]
  /\ active_tab' = [active_tab EXCEPT ![w] = FollowActive(w, moved)]
  /\ sent' = <<<<"TabMoved", tabs[w][i], target>>>>
  /\ UNCHANGED <<panes, pane_order, workspaces, active_workspace, pane_tree,
                 active_pane_id, byte_logs, log_files, drain, dups>>

(* No idempotence guard: the event goes out even when nothing changes. *)
set_active_tab(idx, tab_idx) ==
  /\ idx \in Indexes(workspaces) /\ tab_idx \in Indexes(tabs[WorkspaceAt(idx)])
  /\ active_tab' = [active_tab EXCEPT ![WorkspaceAt(idx)] = tab_idx]
  /\ sent' = <<<<"ActiveTabChanged", idx, tab_idx>>>>
  /\ UNCHANGED <<panes, pane_order, workspaces, active_workspace, tabs, pane_tree,
                 active_pane_id, byte_logs, log_files, drain, dups>>

set_active_workspace(idx) ==
  /\ idx \in Indexes(workspaces) /\ idx # active_workspace
  /\ active_workspace' = idx
  /\ sent' = <<<<"ActiveWorkspaceChanged", idx>>>>
  /\ UNCHANGED <<panes, pane_order, workspaces, tabs, active_tab, pane_tree,
                 active_pane_id, byte_logs, log_files, drain, dups>>

(* The pane must be a leaf of the tab; that it is registered is not asked. *)
set_active_pane(w, t, p) ==
  /\ w \in Live /\ t \in TabsOf(w)
  /\ p \in Leaves(t) \cup {NoPane}
  /\ p # active_pane_id[t]
  /\ active_pane_id' = [active_pane_id EXCEPT ![t] = p]
  /\ sent' = <<<<"ActivePaneChanged", t, p>>>>
  /\ UNCHANGED <<panes, pane_order, workspaces, active_workspace, tabs, active_tab,
                 pane_tree, byte_logs, log_files, drain, dups>>

-----------------------------------------------------------------------------
(* spawn_drain_task: runs after the creating call has released the mutex *)

DrainStep(p, from, to) == drain[p] = from /\ drain' = [drain EXCEPT ![p] = to] /\ sent' = <<>>

(* ByteLog::new opens {pane}.log without the mutex; it may fail, and then   *)
(* the pane goes on without a log.                                          *)
SlipOpenedUnregistered(p) ==
  /\ DrainStep(p, "spawned", "ready") /\ log_files' = log_files \cup {p}
  /\ UNCHANGED <<panes, pane_order, layout, byte_logs, dups>>
SlipFailureEndsTask(p) ==
  /\ \/ DrainStep(p, "spawned", "opened") /\ log_files' = log_files \cup {p}
     \/ DrainStep(p, "spawned", "done") /\ UNCHANGED log_files
  /\ UNCHANGED <<panes, pane_order, layout, byte_logs, dups>>
OpenByteLog(p) ==
  /\ \/ DrainStep(p, "spawned", "opened") /\ log_files' = log_files \cup {p}
     \/ DrainStep(p, "spawned", "ready") /\ UNCHANGED log_files
  /\ UNCHANGED <<panes, pane_order, layout, byte_logs, dups>>

(* The second lock of create_byte_log_for: nothing asks whether the pane is *)
(* still registered.                                                        *)
RegisterByteLog(p) ==
  /\ DrainStep(p, "opened", "ready")
  /\ byte_logs' = byte_logs \cup {p}
  /\ UNCHANGED <<panes, pane_order, layout, log_files, dups>>

(* take_pane_output_rx: without the pane there is no receiver and no task. *)
TakeOutputRx(p) ==
  /\ DrainStep(p, "ready", IF p \in panes THEN "running" ELSE "done")
  /\ UNCHANGED <<panes, pane_order, layout, byte_logs, log_files, dups>>

(* The shell exits (or was killed): recv() returns None, close_pane(p). *)
DrainEnds(p) ==
  /\ drain[p] = "running"
  /\ \/ p \in panes /\ ClosePane(p, [drain EXCEPT ![p] = "done"])
     \/ /\ p \notin panes
        /\ DrainStep(p, "running", "done")
        /\ UNCHANGED <<panes, pane_order, layout, byte_logs, log_files, dups>>

-----------------------------------------------------------------------------
Create ==
  \/ \E p \in PaneIds, t \in TabIds :
       create_pane(t, p) \/ \E idx \in Indexes(workspaces) : create_tab(idx, t, p)
  \/ \E p, q \in PaneIds : split_pane(p, q)
  \/ \E w \in WorkspaceIds : create_workspace(w)

Duplicate ==
  \/ \E idx \in Indexes(workspaces) :
       \E ps \in [1 .. Len(tabs[WorkspaceAt(idx)]) -> FreshPanes] : DuplicateSnapshot(idx, ps)
  \/ \E d \in dups :
       \/ DuplicateSpawnFails(d)
       \/ \E w \in WorkspaceIds : \E ts \in [1 .. Len(d.panes) -> FreshTabs] :
            DuplicateCommit(d, w, ts)

Close ==
  \/ \E w \in Live : \E i \in DOMAIN tabs[w] : close_tab(w, i)
  \/ \E p \in PaneIds : close_pane(p)
  \/ \E idx \in Indexes(workspaces) : delete_workspace(idx)

Arrange ==
  \/ \E from, to \in Indexes(workspaces) : move_workspace(from, to)
  \/ \E w \in Live : \E i \in DOMAIN tabs[w] : \E j \in 0 .. Len(tabs[w]) : move_tab(w, i, j)
  \/ \E idx \in Indexes(workspaces) :
       set_active_workspace(idx) \/ \E k \in Indexes(tabs[WorkspaceAt(idx)]) : set_active_tab(idx, k)
  \/ \E w \in Live : \E t \in TabsOf(w) : \E p \in Leaves(t) \cup {NoPane} : set_active_pane(w, t, p)

(* What the calling thread does by itself once the pane is created. *)
SpawnDrainTask(p) == OpenByteLog(p) \/ RegisterByteLog(p) \/ TakeOutputRx(p)

Next == Create \/ Duplicate \/ Close \/ Arrange \/ \E p \in PaneIds : SpawnDrainTask(p) \/ DrainEnds(p)

(* A created pane's drain task gets going: the thread that created it runs  *)
(* on.  Nothing makes a client call, a shell exit, or a duplicate finish.   *)
Spec == Init /\ [][Next]_vars /\ \A p \in PaneIds : WF_vars(SpawnDrainTask(p))

-----------------------------------------------------------------------------
(* Invariants *)

DupType == [source : WorkspaceIds, insert_at : Nat, panes : Seq(PaneIds)]

(* Every variable the code indexes with holds a value of its type. *)
TypeOK ==
  /\ panes \subseteq PaneIds
  /\ workspaces \in Seq(WorkspaceIds)
  /\ active_workspace \in Nat
  /\ tabs \in [WorkspaceIds -> Seq(TabIds)]
  /\ active_tab \in [WorkspaceIds -> Nat]
  /\ pane_tree \in [TabIds -> Seq(PaneIds)]
  /\ active_pane_id \in [TabIds -> PaneIds \cup {NoPane}]
  /\ byte_logs \subseteq PaneIds /\ log_files \subseteq PaneIds
  /\ drain \in [PaneIds -> DrainStates]
  /\ dups \subseteq DupType

(* Every index the layout stores can be used to index: there is always a    *)
(* workspace, active_workspace is one, and so is active_tab within its      *)
(* workspace: only an empty one may be left with a 0 that points nowhere.   *)
IndicesValid ==
  /\ active_workspace < Len(workspaces)
  /\ \A w \in WorkspaceIds : active_tab[w] = 0 \/ active_tab[w] < Len(tabs[w])

(* The layout is a forest: no id occurs twice among the workspaces, among   *)
(* all tabs, or among all leaves; a live tab has a leaf, a dead one none.   *)
TreeConsistent ==
  /\ IsInjective(workspaces)
  /\ \A w \in WorkspaceIds : IsInjective(tabs[w]) /\ (w \notin Live => tabs[w] = <<>>)
  /\ \A v, w \in WorkspaceIds : v # w => TabsOf(v) \cap TabsOf(w) = {}
  /\ \A t \in TabIds : IsInjective(pane_tree[t]) /\ (pane_tree[t] # <<>> <=> t \in LiveTabs)
  /\ \A t, u \in TabIds : t # u => Leaves(t) \cap Leaves(u) = {}

(* A running shell can be reached: every registered pane is a leaf of a tab *)
(* of a workspace, through every interleaving of closes, splits and deletes.*)
RegisteredPaneHasLeaf == \A p \in panes : \E t \in LiveTabs : p \in Leaves(t)

(* pane_order lists exactly the registry, each pane once. *)
OrderMatchesRegistry == IsInjective(pane_order) /\ ToSet(pane_order) = panes

(* A registered pane whose drain loop runs tees into a byte log, if its log *)
(* file could be opened: no byte is processed before the ring is there.     *)
RunningDrainHasLog ==
  \A p \in panes : drain[p] = "running" /\ p \in log_files => p \in byte_logs

(* Registry, layout and byte logs agree on what runs.                       *)
RegistrySound == RegisteredPaneHasLeaf /\ OrderMatchesRegistry /\ RunningDrainHasLog

(* Closing a pane of a split leaves no trace of it: every leaf of the       *)
(* layout is a registered pane.  docs/socket-api.md promises that the       *)
(* sibling is promoted; close_pane leaves the leaf in the tree.             *)
NoGhostLeaves == \A t \in LiveTabs : Leaves(t) \subseteq panes

(* "Entries are ... dropped on close_pane / close_tab": a byte log belongs  *)
(* to a registered pane.  create_byte_log_for registers without asking.     *)
ByteLogsBelongToPanes == byte_logs \subseteq panes

-----------------------------------------------------------------------------
(* Action properties *)

EventKinds == {e[1] : e \in ToSet(sent')}
NamedBy(kind) == {e[2] : e \in {f \in ToSet(sent') : f[1] = kind}}
ActiveWorkspaceId == WorkspaceAt(active_workspace)

(* Subscribers can follow the registry from the events alone: PaneCreated   *)
(* names exactly the panes that appeared, every pane that went is named by  *)
(* a PaneClosed.                                                            *)
PaneEventsMatchRegistry ==
  [][/\ NamedBy("PaneCreated") = panes' \ panes
     /\ panes \ panes' \subseteq NamedBy("PaneClosed")]_vars

(* Whatever shifts the workspace list, the same workspace stays active,     *)
(* unless a client switched it or it is the one deleted.                    *)
KeepsActiveWorkspace ==
  [][\/ WorkspaceAt(active_workspace) = (workspaces')[active_workspace' + 1]
     \/ "ActiveWorkspaceChanged" \in EventKinds
     \/ <<"WorkspaceDeleted", ActiveWorkspaceId>> \in ToSet(sent')]_vars

(* Moving a tab keeps the same tab active in every workspace. *)
MoveKeepsActiveTab ==
  [][\A w \in Live : tabs[w] # <<>> /\ "TabMoved" \in EventKinds =>
       (tabs')[w][(active_tab')[w] + 1] = tabs[w][active_tab[w] + 1]]_vars

(* A subscriber can follow the tabs although create_pane sends no           *)
(* TabCreated and close_pane and delete_workspace send no TabClosed: a tab  *)
(* that comes or goes is named itself, or all of its leaves are.            *)
TabEventsMatchLayout ==
  [][/\ \A t \in LiveTabs \ (LiveTabs)' :
          t \in NamedBy("TabClosed") \/ Leaves(t) \subseteq NamedBy("PaneClosed")
     /\ \A t \in (LiveTabs)' \ LiveTabs :
          t \in NamedBy("TabCreated") \/ (Leaves(t))' \subseteq NamedBy("PaneCreated")]_vars

(* Subscribers unwind pane state before the workspace row goes: in one      *)
(* critical section WorkspaceDeleted and TabClosed follow every PaneClosed. *)
ClosedPanesFirst ==
  [][\A i, j \in DOMAIN sent' :
       (sent')[i][1] \in {"WorkspaceDeleted", "TabClosed"} /\ (sent')[j][1] = "PaneClosed" => j < i]_vars

-----------------------------------------------------------------------------
(* Liveness *)

(* A registered pane ends up with a running drain task or is gone again. *)
DrainStarts == \A p \in PaneIds : p \in panes ~> (drain[p] = "running" \/ p \notin panes)
=============================================================================
