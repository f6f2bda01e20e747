----------------------- MODULE SessionManager_proofs -----------------------
(***************************************************************************)
(* Theorems about SessionManager for every set of identifiers and every    *)
(* bound MaxDuplicates: its indices stay valid, a registered pane can be   *)
(* reached and has its log, and the layout stays a forest without          *)
(* repetitions.                                                            *)
(***************************************************************************)
EXTENDS SessionManager, SequenceLemmas

-----------------------------------------------------------------------------
(* What Vec::remove, Vec::insert and retain do to a sequence.          *)

LEMMA MovedProperties ==
  ASSUME NEW S, NEW s \in Seq(S), NEW i \in 1 .. Len(s), NEW j \in 1 .. Len(s)
  PROVE  /\ Moved(s, i, j) \in Seq(S)
         /\ Len(Moved(s, i, j)) = Len(s)
         /\ \A k \in 1 .. Len(s) : \E m \in 1 .. Len(s) : Moved(s, i, j)[m] = s[k]
<1> DEFINE r == RemoveAt(s, i)
           x == s[i]
<1>1. /\ r \in Seq(S) /\ Len(r) = Len(s) - 1
      /\ \A k \in 1 .. Len(s) - 1 : r[k] = IF k < i THEN s[k] ELSE s[k + 1]
  BY RemoveAtProperties
<1>2. x \in S /\ j \in 1 .. Len(r) + 1
  BY <1>1
<1>3. Moved(s, i, j) = InsertAt(r, j, x)
  BY DEF Moved
<1> HIDE DEF r, x
<1>4. /\ Moved(s, i, j) \in Seq(S)
      /\ Len(Moved(s, i, j)) = Len(s)
      /\ \A m \in 1 .. Len(s) :
           Moved(s, i, j)[m] = IF m < j THEN r[m] ELSE IF m = j THEN x ELSE r[m - 1]
  BY <1>1, <1>2, <1>3, InsertAtProperties
<1>5. ASSUME NEW k \in 1 .. Len(s)
      PROVE  \E m \in 1 .. Len(s) : Moved(s, i, j)[m] = s[k]
  <2>1. CASE k = i
    BY <1>4, <2>1 DEF x
  <2>2. CASE k # i
    <3> DEFINE n == IF k < i THEN k ELSE k - 1
    <3>1. n \in 1 .. Len(s) - 1 /\ r[n] = s[k]
      <4>1. CASE k < i
        BY <1>1, <4>1
      <4>2. CASE k > i
        BY <1>1, <4>2
      <4> QED
        BY <2>2, <4>1, <4>2
    <3> DEFINE m == IF n < j THEN n ELSE n + 1
    <3>2. m \in 1 .. Len(s) /\ Moved(s, i, j)[m] = r[n]
      <4> HIDE DEF n
      <4> QED BY <3>1, <1>4
    <3> QED
      BY <3>1, <3>2
  <2> QED
    BY <2>1, <2>2
<1> QED
  BY <1>4, <1>5

LEMMA MovedHolds ==
  ASSUME NEW S, NEW s \in Seq(S), NEW i \in 1 .. Len(s), NEW j \in 1 .. Len(s)
  PROVE  ToSet(s) \subseteq ToSet(Moved(s, i, j))
<1> DEFINE r == Moved(s, i, j)
<1>1. /\ r \in Seq(S) /\ Len(r) = Len(s)
      /\ \A k \in 1 .. Len(s) : \E m \in 1 .. Len(s) : r[m] = s[k]
  BY MovedProperties
<1> HIDE DEF r
<1>2. ASSUME NEW x \in ToSet(s) PROVE x \in ToSet(r)
  <2>1. PICK k \in 1 .. Len(s) : s[k] = x
    BY InToSet
  <2>2. PICK m \in 1 .. Len(s) : r[m] = x
    BY <1>1, <2>1
  <2> QED
    BY <1>1, <2>2, InToSet
<1> QED
  BY <1>2 DEF r

LEMMA MovedDistinct ==
  ASSUME NEW S, NEW s \in Seq(S), NEW i \in 1 .. Len(s), NEW j \in 1 .. Len(s), IsInjective(s)
  PROVE  IsInjective(Moved(s, i, j)) /\ ToSet(Moved(s, i, j)) = ToSet(s)
<1> DEFINE r == RemoveAt(s, i)
<1>1. r \in Seq(S) /\ Len(r) = Len(s) - 1
  BY RemoveAtProperties
<1>2. IsInjective(r) /\ ToSet(r) = ToSet(s) \ {s[i]}
  BY RemoveAtDistinct
<1>3. j \in 1 .. Len(r) + 1 /\ s[i] \in S /\ s[i] \in ToSet(s)
  BY <1>1, InToSet
<1> HIDE DEF r
<1>4. IsInjective(InsertAt(r, j, s[i])) /\ ToSet(InsertAt(r, j, s[i])) = ToSet(r) \cup {s[i]}
  BY <1>1, <1>2, <1>3, InsertAtHolds, InsertAtDistinct
<1>5. Moved(s, i, j) = InsertAt(r, j, s[i])
  BY DEF Moved, r
<1> QED
  BY <1>2, <1>3, <1>4, <1>5

-----------------------------------------------------------------------------
(* Type correctness and valid indices: the inductive invariant is their     *)
(* conjunction, for create_pane indexes the first workspace and the clamps  *)
(* start from indices that were valid.  One lemma per operation.            *)

IndexInv == TypeOK /\ IndicesValid

LEMMA InitIndexInv == Init => IndexInv
  BY DEF Init, IndexInv, TypeOK, IndicesValid, DrainStates, DupType

LEMMA WorkspaceAtType ==
  ASSUME TypeOK, NEW idx \in Indexes(workspaces)
  PROVE  WorkspaceAt(idx) \in WorkspaceIds
  BY DEF TypeOK, Indexes, WorkspaceAt

LEMMA LiveType == TypeOK => Live \subseteq WorkspaceIds
  BY DEF TypeOK, Live, ToSet

LEMMA TabsOfType == ASSUME TypeOK, NEW w \in WorkspaceIds PROVE TabsOf(w) \subseteq TabIds
  BY DEF TypeOK, TabsOf, ToSet

LEMMA LeavesType == ASSUME TypeOK, NEW t \in TabIds PROVE Leaves(t) \subseteq PaneIds
  BY DEF TypeOK, Leaves, ToSet

LEMMA LiveTabsType == TypeOK => LiveTabs \subseteq TabIds
  BY LiveType, TabsOfType DEF LiveTabs

LEMMA PushTabIndexInv ==
  ASSUME IndexInv, NEW w \in WorkspaceIds, NEW t \in TabIds, NEW p \in PaneIds, PushTab(w, t, p)
  PROVE  IndexInv'
<1> USE DEF IndexInv, TypeOK, IndicesValid
<1>1. tabs' \in [WorkspaceIds -> Seq(TabIds)]
  BY DEF PushTab
<1>2. pane_tree' \in [TabIds -> Seq(PaneIds)]
  BY DEF PushTab
<1>3. active_pane_id' \in [TabIds -> PaneIds \cup {NoPane}]
  BY DEF PushTab
<1>4. drain' \in [PaneIds -> DrainStates]
  BY DEF PushTab, DrainStates
<1>5. ASSUME NEW v \in WorkspaceIds
      PROVE  active_tab'[v] = 0 \/ active_tab'[v] < Len(tabs'[v])
  <2>1. CASE v = w
    <3>1. tabs'[v] = Append(tabs[v], t) /\ active_tab'[v] = active_tab[v]
      BY <2>1 DEF PushTab
    <3>2. Len(Append(tabs[v], t)) = Len(tabs[v]) + 1
      BY AppendProperties
    <3> QED
      BY <3>1, <3>2
  <2>2. CASE v # w
    BY <2>2 DEF PushTab
  <2> QED
    BY <2>1, <2>2
<1>6. TypeOK'
  BY <1>1, <1>2, <1>3, <1>4 DEF PushTab
<1>7. active_workspace' < Len(workspaces')
  BY DEF PushTab
<1> QED
  BY <1>5, <1>6, <1>7

LEMMA CreateIndexInv == ASSUME IndexInv, Create PROVE IndexInv'
<1>1. ASSUME NEW p \in PaneIds, NEW t \in TabIds, create_pane(t, p)
      PROVE  IndexInv'
  <2>1. workspaces[1] \in WorkspaceIds
    BY DEF IndexInv, TypeOK, IndicesValid
  <2> QED
    BY <1>1, <2>1, PushTabIndexInv DEF create_pane
<1>2. ASSUME NEW p \in PaneIds, NEW t \in TabIds, NEW idx \in Indexes(workspaces),
             create_tab(idx, t, p)
      PROVE  IndexInv'
  BY <1>2, PushTabIndexInv, WorkspaceAtType DEF create_tab, IndexInv
<1>3. ASSUME NEW p \in PaneIds, NEW q \in PaneIds, split_pane(p, q)
      PROVE  IndexInv'
  <2> USE DEF IndexInv, TypeOK, IndicesValid
  <2>1. PICK w \in Live : \E t \in TabsOf(w) : \E i \in DOMAIN pane_tree[t] :
          pane_tree' = [pane_tree EXCEPT ![t] = InsertAt(@, i + 1, q)]
    BY <1>3 DEF split_pane
  <2>2. PICK t \in TabsOf(w) : \E i \in DOMAIN pane_tree[t] :
          pane_tree' = [pane_tree EXCEPT ![t] = InsertAt(@, i + 1, q)]
    BY <2>1
  <2>3. PICK i \in DOMAIN pane_tree[t] : pane_tree' = [pane_tree EXCEPT ![t] = InsertAt(@, i + 1, q)]
    BY <2>2
  <2>4. t \in TabIds
    BY LiveType, TabsOfType
  <2>5. pane_tree[t] \in Seq(PaneIds) /\ i + 1 \in 1 .. Len(pane_tree[t]) + 1
    BY <2>4
  <2>6. InsertAt(pane_tree[t], i + 1, q) \in Seq(PaneIds)
    BY <2>5, InsertAtProperties
  <2>7. pane_tree' \in [TabIds -> Seq(PaneIds)]
    BY <2>3, <2>4, <2>6
  <2>8. drain' \in [PaneIds -> DrainStates]
    BY <1>3 DEF split_pane, DrainStates
  <2> QED
    BY <1>3, <2>7, <2>8 DEF split_pane
<1>4. ASSUME NEW w \in WorkspaceIds, create_workspace(w)
      PROVE  IndexInv'
  <2> USE DEF IndexInv, TypeOK, IndicesValid, create_workspace
  <2>1. workspaces' \in Seq(WorkspaceIds) /\ active_workspace' < Len(workspaces')
    BY <1>4
  <2>2. tabs' \in [WorkspaceIds -> Seq(TabIds)] /\ active_tab' \in [WorkspaceIds -> Nat]
    BY <1>4
  <2>3. ASSUME NEW v \in WorkspaceIds
        PROVE  active_tab'[v] = 0 \/ active_tab'[v] < Len(tabs'[v])
    BY <1>4
  <2> QED
    BY <1>4, <2>1, <2>2, <2>3
<1> QED
  BY <1>1, <1>2, <1>3, <1>4 DEF Create

LEMMA DuplicateIndexInv == ASSUME IndexInv, Duplicate PROVE IndexInv'
<1> USE DEF IndexInv, TypeOK, IndicesValid
<1>1. ASSUME NEW idx \in Indexes(workspaces),
             NEW ps \in [1 .. Len(tabs[WorkspaceAt(idx)]) -> FreshPanes],
             DuplicateSnapshot(idx, ps)
      PROVE  IndexInv'
  <2>1. WorkspaceAt(idx) \in WorkspaceIds
    BY WorkspaceAtType
  <2>2. ps \in Seq(PaneIds)
    <3>1. Len(tabs[WorkspaceAt(idx)]) \in Nat
      BY <2>1
    <3>2. FreshPanes \subseteq PaneIds
      BY DEF FreshPanes
    <3>3. ps \in Seq(FreshPanes)
      BY <3>1, FunctionIsSeq
    <3> QED
      BY <3>2, <3>3, SeqMonotonic
  <2>3. idx + 1 \in Nat
    BY DEF Indexes
  <2>4. [source |-> WorkspaceAt(idx), insert_at |-> idx + 1, panes |-> ps] \in DupType
    BY <2>1, <2>2, <2>3 DEF DupType
  <2>5. dups' \subseteq DupType
    BY <1>1, <2>4 DEF DuplicateSnapshot
  <2> QED
    BY <1>1, <2>5 DEF DuplicateSnapshot, layout
<1>2. ASSUME NEW d \in dups, DuplicateSpawnFails(d)
      PROVE  IndexInv'
  BY <1>2 DEF DuplicateSpawnFails, layout
<1>3. ASSUME NEW d \in dups, NEW w \in WorkspaceIds, NEW ts \in [1 .. Len(d.panes) -> FreshTabs],
             DuplicateCommit(d, w, ts)
      PROVE  IndexInv'
  <2> DEFINE n == Len(d.panes)
             at == ClampedInsert(d)
             IndexOf(t) == CHOOSE k \in 1 .. n : ts[k] = t
  <2>1. d.panes \in Seq(PaneIds) /\ d.insert_at \in Nat /\ n \in Nat
    BY DEF DupType
  <2>2. at \in 0 .. Len(workspaces)
    BY <2>1 DEF ClampedInsert
  <2>3. /\ workspaces' \in Seq(WorkspaceIds)
        /\ Len(workspaces') = Len(workspaces) + 1
    <3>1. workspaces' = InsertAt(workspaces, at + 1, w)
      BY <1>3 DEF DuplicateCommit
    <3>2. at + 1 \in 1 .. Len(workspaces) + 1
      BY <2>2
    <3> HIDE DEF at
    <3> QED
      BY <3>1, <3>2, InsertAtProperties
  <2>4. active_workspace' \in Nat /\ active_workspace' < Len(workspaces')
    <3>1. active_workspace' = ActiveAfterInsert(at)
      BY <1>3 DEF DuplicateCommit
    <3>2. active_workspace \in Nat /\ active_workspace < Len(workspaces)
      OBVIOUS
    <3> HIDE DEF at
    <3> QED
      BY <2>2, <2>3, <3>1, <3>2, SMTT(30) DEF ActiveAfterInsert
  <2>5. ts \in Seq(TabIds)
    <3>1. FreshTabs \subseteq TabIds
      BY DEF FreshTabs
    <3>2. ts \in Seq(FreshTabs)
      BY <2>1, FunctionIsSeq
    <3> QED
      BY <3>1, <3>2, SeqMonotonic
  <2>6. /\ tabs' \in [WorkspaceIds -> Seq(TabIds)]
        /\ active_tab' \in [WorkspaceIds -> Nat]
        /\ \A v \in WorkspaceIds : active_tab'[v] = 0 \/ active_tab'[v] < Len(tabs'[v])
    BY <1>3, <2>5 DEF DuplicateCommit
  <2>7. pane_tree' \in [TabIds -> Seq(PaneIds)]
    <3>1. pane_tree' = [t \in TabIds |->
                          IF t \in ToSet(ts) THEN <<d.panes[IndexOf(t)]>> ELSE pane_tree[t]]
      BY <1>3 DEF DuplicateCommit
    <3>2. ASSUME NEW t \in TabIds, t \in ToSet(ts)
          PROVE  d.panes[IndexOf(t)] \in PaneIds
      <4>1. \E k \in 1 .. n : ts[k] = t
        BY <3>2, <2>5, <2>1 DEF ToSet
      <4>2. IndexOf(t) \in 1 .. n
        BY <4>1
      <4> HIDE DEF IndexOf
      <4> QED
        BY <4>2, <2>1
    <3> HIDE DEF IndexOf
    <3> QED
      BY <3>1, <3>2
  <2>8. active_pane_id' \in [TabIds -> PaneIds \cup {NoPane}]
    BY <1>3 DEF DuplicateCommit
  <2>9. drain' \in [PaneIds -> DrainStates]
    BY <1>3 DEF DuplicateCommit, DrainStates
  <2>10. panes' \subseteq PaneIds
    BY <1>3, <2>1 DEF DuplicateCommit, ToSet
  <2>11. dups' \subseteq DupType /\ UNCHANGED <<byte_logs, log_files>>
    BY <1>3 DEF DuplicateCommit
  <2> HIDE DEF n, at, IndexOf
  <2> QED
    BY <2>3, <2>4, <2>6, <2>7, <2>8, <2>9, <2>10, <2>11
<1> QED
  BY <1>1, <1>2, <1>3 DEF Duplicate

LEMMA RemoveTabIndexInv ==
  ASSUME IndexInv, NEW w \in WorkspaceIds, NEW i \in 1 .. Len(tabs[w]), NEW gone,
         NEW done \in [PaneIds -> DrainStates], NEW log, RemoveTab(w, i, gone, done, log)
  PROVE  IndexInv'
<1> USE DEF IndexInv, TypeOK, IndicesValid
<1> DEFINE t == tabs[w][i]
           rest == RemoveAt(tabs[w], i)
<1>1. tabs[w] \in Seq(TabIds) /\ t \in TabIds
  OBVIOUS
<1>2. rest \in Seq(TabIds) /\ Len(rest) = Len(tabs[w]) - 1
  BY <1>1, RemoveAtProperties
<1>3. /\ byte_logs' = byte_logs \ gone
      /\ UNCHANGED <<workspaces, active_workspace, log_files, dups>>
  BY DEF RemoveTab
<1>4. CASE /\ tabs' = [tabs EXCEPT ![w] = rest]
           /\ active_tab' = [active_tab EXCEPT ![w] = Clamp(@, rest)]
           /\ pane_tree' = [pane_tree EXCEPT ![t] = <<>>]
           /\ active_pane_id' = [active_pane_id EXCEPT ![t] = NoPane]
           /\ panes' = panes \ gone
           /\ drain' = done
  <2>1. /\ Clamp(active_tab[w], rest) \in Nat
        /\ Clamp(active_tab[w], rest) = 0 \/ Clamp(active_tab[w], rest) < Len(rest)
    <3> HIDE DEF rest
    <3>1. rest # <<>> => Len(rest) > 0
      BY <1>2, EmptySeq
    <3>2. active_tab[w] \in Nat /\ (active_tab[w] = 0 \/ active_tab[w] < Len(tabs[w]))
      OBVIOUS
    <3>3. Len(rest) \in Nat /\ Len(tabs[w]) = Len(rest) + 1
      BY <1>1, <1>2
    <3> HIDE DEF IndexInv, TypeOK, IndicesValid
    <3>4. rest = <<>> => active_tab[w] = 0
      <4>1. rest = <<>> => Len(rest) = 0
        BY EmptySeq
      <4> QED
        BY <3>2, <3>3, <4>1
    <3>5. CASE rest # <<>> /\ active_tab[w] >= Len(rest)
      BY <3>1, <3>3, <3>5 DEF Clamp
    <3>6. CASE ~ (rest # <<>> /\ active_tab[w] >= Len(rest))
      BY <3>2, <3>3, <3>4, <3>6 DEF Clamp
    <3> QED
      BY <3>5, <3>6
  <2> HIDE DEF rest, t
  <2>2. /\ tabs' \in [WorkspaceIds -> Seq(TabIds)]
        /\ active_tab' \in [WorkspaceIds -> Nat]
        /\ \A v \in WorkspaceIds : active_tab'[v] = 0 \/ active_tab'[v] < Len(tabs'[v])
    BY <1>2, <1>4, <2>1
  <2>3. /\ pane_tree' \in [TabIds -> Seq(PaneIds)]
        /\ active_pane_id' \in [TabIds -> PaneIds \cup {NoPane}]
    BY <1>1, <1>4
  <2> QED
    BY <1>3, <1>4, <2>2, <2>3
<1>5. CASE \E q \in FreshPanes, u \in FreshTabs :
             /\ tabs' = [tabs EXCEPT ![w] = <<u>>]
             /\ active_tab' = [active_tab EXCEPT ![w] = 0]
             /\ pane_tree' = [pane_tree EXCEPT ![t] = <<>>, ![u] = <<q>>]
             /\ active_pane_id' = [active_pane_id EXCEPT ![t] = NoPane, ![u] = NoPane]
             /\ panes' = (panes \ gone) \cup {q}
             /\ drain' = [done EXCEPT ![q] = "spawned"]
  <2> HIDE DEF rest, t
  <2>1. PICK q \in FreshPanes, u \in FreshTabs :
             /\ tabs' = [tabs EXCEPT ![w] = <<u>>]
             /\ active_tab' = [active_tab EXCEPT ![w] = 0]
             /\ pane_tree' = [pane_tree EXCEPT ![t] = <<>>, ![u] = <<q>>]
             /\ active_pane_id' = [active_pane_id EXCEPT ![t] = NoPane, ![u] = NoPane]
             /\ panes' = (panes \ gone) \cup {q}
             /\ drain' = [done EXCEPT ![q] = "spawned"]
    BY <1>5
  <2>2. q \in PaneIds /\ u \in TabIds
    BY DEF FreshPanes, FreshTabs
  <2>3. /\ tabs' \in [WorkspaceIds -> Seq(TabIds)]
        /\ active_tab' \in [WorkspaceIds -> Nat]
        /\ \A v \in WorkspaceIds : active_tab'[v] = 0 \/ active_tab'[v] < Len(tabs'[v])
    BY <2>1, <2>2
  <2>4. /\ pane_tree' \in [TabIds -> Seq(PaneIds)]
        /\ active_pane_id' \in [TabIds -> PaneIds \cup {NoPane}]
    <3>1. <<>> \in Seq(PaneIds) /\ <<q>> \in Seq(PaneIds)
      BY <2>2
    <3>2. [pane_tree EXCEPT ![t] = <<>>] \in [TabIds -> Seq(PaneIds)]
      BY <3>1
    <3>3. pane_tree' = [[pane_tree EXCEPT ![t] = <<>>] EXCEPT ![u] = <<q>>]
      BY <2>1
    <3>4. pane_tree' \in [TabIds -> Seq(PaneIds)]
      BY <3>1, <3>2, <3>3
    <3>5. active_pane_id' \in [TabIds -> PaneIds \cup {NoPane}]
      BY <2>1
    <3> QED
      BY <3>4, <3>5
  <2>5. drain' \in [PaneIds -> DrainStates]
    BY <2>1, <2>2 DEF DrainStates
  <2> QED
    BY <1>3, <2>1, <2>2, <2>3, <2>4, <2>5
<1> QED
  BY <1>4, <1>5 DEF RemoveTab

LEMMA ClosePaneIndexInv ==
  ASSUME IndexInv, NEW p \in PaneIds, NEW done \in [PaneIds -> DrainStates], ClosePane(p, done)
  PROVE  IndexInv'
<1>1. ASSUME NEW w \in Live, NEW i \in DOMAIN tabs[w],
             RemoveTab(w, i, {p}, done, <<PaneClosed(p)>>)
      PROVE  IndexInv'
  <2>1. w \in WorkspaceIds
    BY LiveType DEF IndexInv
  <2>2. i \in 1 .. Len(tabs[w])
    BY <2>1 DEF IndexInv, TypeOK
  <2> QED
    BY <1>1, <2>1, <2>2, RemoveTabIndexInv
<1>2. CASE /\ panes' = panes \ {p}
           /\ byte_logs' = byte_logs \ {p}
           /\ drain' = done
           /\ UNCHANGED <<layout, log_files, dups>>
  BY <1>2 DEF IndexInv, TypeOK, IndicesValid, layout
<1> QED
  BY <1>1, <1>2 DEF ClosePane

LEMMA CloseIndexInv == ASSUME IndexInv, Close PROVE IndexInv'
<1>1. ASSUME NEW w \in Live, NEW i \in DOMAIN tabs[w], close_tab(w, i)
      PROVE  IndexInv'
  <2>1. w \in WorkspaceIds
    BY LiveType DEF IndexInv
  <2>2. i \in 1 .. Len(tabs[w]) /\ drain \in [PaneIds -> DrainStates]
    BY <2>1 DEF IndexInv, TypeOK
  <2> QED
    BY <1>1, <2>1, <2>2, RemoveTabIndexInv DEF close_tab
<1>2. ASSUME NEW p \in PaneIds, close_pane(p)
      PROVE  IndexInv'
  BY <1>2, ClosePaneIndexInv DEF close_pane, IndexInv, TypeOK
<1>3. ASSUME NEW idx \in Indexes(workspaces), delete_workspace(idx)
      PROVE  IndexInv'
  <2> USE DEF IndexInv, TypeOK, IndicesValid
  <2> DEFINE w == WorkspaceAt(idx)
             gone == UNION {Leaves(t) : t \in TabsOf(w)}
  <2>1. w \in WorkspaceIds
    BY WorkspaceAtType
  <2>2. /\ workspaces' \in Seq(WorkspaceIds)
        /\ Len(workspaces') = Len(workspaces) - 1
        /\ Len(workspaces') > 0
    <3>1. workspaces' = RemoveAt(workspaces, idx + 1) /\ Len(workspaces) > 1
      BY <1>3 DEF delete_workspace
    <3>2. idx + 1 \in 1 .. Len(workspaces)
      BY DEF Indexes
    <3> QED
      BY <3>1, <3>2, RemoveAtProperties
  <2>3. active_workspace' \in Nat /\ active_workspace' < Len(workspaces')
    <3>1. active_workspace' = IF active_workspace > idx THEN active_workspace - 1
                              ELSE Clamp(active_workspace, workspaces')
      BY <1>3 DEF delete_workspace
    <3>2. idx \in Nat /\ active_workspace \in Nat /\ active_workspace < Len(workspaces)
      BY DEF Indexes
    <3>3. workspaces' # <<>>
      BY <2>2, EmptySeq
    <3> HIDE DEF IndexInv, TypeOK, IndicesValid
    <3>4. CASE active_workspace > idx
      BY <2>2, <3>1, <3>2, <3>4
    <3>5. CASE ~ (active_workspace > idx)
      <4>1. active_workspace' = IF active_workspace >= Len(workspaces')
                                THEN Len(workspaces') - 1 ELSE active_workspace
        BY <3>1, <3>3, <3>5 DEF Clamp
      <4>2. Len(workspaces') \in Nat
        BY <2>2, <3>2
      <4> QED
        BY <2>2, <3>2, <4>1, <4>2
    <3> QED
      BY <3>4, <3>5
  <2>4. /\ tabs' \in [WorkspaceIds -> Seq(TabIds)]
        /\ active_tab' \in [WorkspaceIds -> Nat]
        /\ \A v \in WorkspaceIds : active_tab'[v] = 0 \/ active_tab'[v] < Len(tabs'[v])
    BY <1>3, <2>1 DEF delete_workspace
  <2>5. /\ pane_tree' \in [TabIds -> Seq(PaneIds)]
        /\ active_pane_id' \in [TabIds -> PaneIds \cup {NoPane}]
    BY <1>3 DEF delete_workspace
  <2>6. panes' \subseteq PaneIds /\ byte_logs' \subseteq PaneIds /\ log_files' \subseteq PaneIds
    BY <1>3 DEF delete_workspace
  <2>7. UNCHANGED <<drain, dups>>
    BY <1>3 DEF delete_workspace
  <2> QED
    BY <2>2, <2>3, <2>4, <2>5, <2>6, <2>7
<1> QED
  BY <1>1, <1>2, <1>3 DEF Close

LEMMA ArrangeIndexInv == ASSUME IndexInv, Arrange PROVE IndexInv'
<1> USE DEF IndexInv, TypeOK, IndicesValid
<1>1. ASSUME NEW from \in Indexes(workspaces), NEW to \in Indexes(workspaces),
             move_workspace(from, to)
      PROVE  IndexInv'
  <2>1. /\ WorkspaceAt(from) \in WorkspaceIds /\ WorkspaceAt(to) \in WorkspaceIds
        /\ from \in Nat /\ from < Len(workspaces) /\ to \in Nat /\ to < Len(workspaces)
    BY WorkspaceAtType DEF Indexes
  <2>2. workspaces' \in Seq(WorkspaceIds) /\ Len(workspaces') = Len(workspaces)
    <3> DEFINE half == [workspaces EXCEPT ![from + 1] = WorkspaceAt(to)]
    <3>1. workspaces \in Seq(WorkspaceIds) /\ from + 1 \in 1 .. Len(workspaces)
          /\ to + 1 \in 1 .. Len(workspaces)
      BY <2>1
    <3>2. half \in Seq(WorkspaceIds) /\ Len(half) = Len(workspaces)
      BY <2>1, <3>1, ExceptSeq
    <3>3. workspaces' = [half EXCEPT ![to + 1] = WorkspaceAt(from)]
      BY <1>1 DEF move_workspace
    <3> HIDE DEF half
    <3> QED
      BY <2>1, <3>1, <3>2, <3>3, ExceptSeq
  <2>3. active_workspace' \in Nat /\ active_workspace' < Len(workspaces)
    BY <1>1, <2>1 DEF move_workspace
  <2> QED
    BY <1>1, <2>2, <2>3 DEF move_workspace
<1>2. ASSUME NEW w \in Live, NEW i \in DOMAIN tabs[w], NEW j \in 0 .. Len(tabs[w]),
             move_tab(w, i, j)
      PROVE  IndexInv'
  <2> DEFINE last == Len(tabs[w]) - 1
             target == IF j < last THEN j ELSE last
             moved == Moved(tabs[w], i, target + 1)
  <2>1. w \in WorkspaceIds /\ tabs[w] \in Seq(TabIds) /\ i \in 1 .. Len(tabs[w])
    BY LiveType
  <2>2. target + 1 \in 1 .. Len(tabs[w])
    BY <2>1
  <2>3. /\ tabs' = [tabs EXCEPT ![w] = moved]
        /\ active_tab' = [active_tab EXCEPT ![w] = FollowActive(w, moved)]
    BY <1>2 DEF move_tab
  <2> HIDE DEF target
  <2>4. /\ moved \in Seq(TabIds) /\ Len(moved) = Len(tabs[w])
        /\ \A k \in 1 .. Len(tabs[w]) : \E m \in 1 .. Len(tabs[w]) : moved[m] = tabs[w][k]
    <3> HIDE DEF IndexInv, TypeOK, IndicesValid
    <3> QED
      BY <2>1, <2>2, MovedProperties, ZenonT(60)
  <2>5. active_tab[w] + 1 \in 1 .. Len(tabs[w])
    <3>1. /\ active_tab[w] \in Nat
          /\ active_tab[w] = 0 \/ active_tab[w] < Len(tabs[w])
      BY <2>1
    <3> HIDE DEF IndexInv, TypeOK, IndicesValid
    <3>2. Len(tabs[w]) \in Nat /\ Len(tabs[w]) >= 1
      BY <2>1
    <3> QED
      BY <3>1, <3>2
  <2>6. FollowActive(w, moved) \in 0 .. Len(moved) - 1
    <3> HIDE DEF moved
    <3>1. PICK m \in 1 .. Len(moved) : moved[m] = tabs[w][active_tab[w] + 1]
      BY <2>4, <2>5
    <3>2. m - 1 \in Indexes(moved) /\ moved[(m - 1) + 1] = tabs[w][active_tab[w] + 1]
      BY <3>1, <2>4 DEF Indexes
    <3> QED
      BY <3>2 DEF FollowActive, Indexes
  <2> HIDE DEF moved
  <2>7. /\ tabs' \in [WorkspaceIds -> Seq(TabIds)]
        /\ active_tab' \in [WorkspaceIds -> Nat]
        /\ \A v \in WorkspaceIds : active_tab'[v] = 0 \/ active_tab'[v] < Len(tabs'[v])
    <3>1. /\ tabs \in [WorkspaceIds -> Seq(TabIds)]
          /\ active_tab \in [WorkspaceIds -> Nat]
          /\ \A v \in WorkspaceIds : active_tab[v] = 0 \/ active_tab[v] < Len(tabs[v])
      OBVIOUS
    <3> DEFINE f == FollowActive(w, moved)
    <3>2. f \in Nat /\ f < Len(moved)
      BY <2>1, <2>4, <2>6
    <3> HIDE DEF f, IndexInv, TypeOK, IndicesValid
    <3>3. tabs' = [tabs EXCEPT ![w] = moved] /\ active_tab' = [active_tab EXCEPT ![w] = f]
      BY <2>3 DEF f
    <3> QED
      BY <2>1, <2>4, <3>1, <3>2, <3>3
  <2> QED
    BY <1>2, <2>7 DEF move_tab
<1>3. ASSUME NEW idx \in Indexes(workspaces), set_active_workspace(idx)
      PROVE  IndexInv'
  BY <1>3, SMTT(30) DEF set_active_workspace, Indexes
<1>4. ASSUME NEW idx \in Indexes(workspaces), NEW k \in Indexes(tabs[WorkspaceAt(idx)]),
             set_active_tab(idx, k)
      PROVE  IndexInv'
  <2>1. WorkspaceAt(idx) \in WorkspaceIds
    BY WorkspaceAtType
  <2>2. k \in Nat /\ k < Len(tabs[WorkspaceAt(idx)])
    BY <2>1 DEF Indexes
  <2> QED
    BY <1>4, <2>1, <2>2 DEF set_active_tab
<1>5. ASSUME NEW w \in Live, NEW t \in TabsOf(w), NEW p \in Leaves(t) \cup {NoPane},
             set_active_pane(w, t, p)
      PROVE  IndexInv'
  <2>1. p \in PaneIds \cup {NoPane}
    BY LiveType, TabsOfType, LeavesType
  <2> QED
    BY <1>5, <2>1 DEF set_active_pane
<1> QED
  BY <1>1, <1>2, <1>3, <1>4, <1>5 DEF Arrange

LEMMA DrainIndexInv ==
  ASSUME IndexInv, NEW p \in PaneIds, SpawnDrainTask(p) \/ DrainEnds(p)
  PROVE  IndexInv'
<1> USE DEF DrainStep, DrainStates
<1>1. CASE OpenByteLog(p)
  BY <1>1 DEF OpenByteLog, IndexInv, TypeOK, IndicesValid, layout
<1>2. CASE RegisterByteLog(p)
  BY <1>2 DEF RegisterByteLog, IndexInv, TypeOK, IndicesValid, layout
<1>3. CASE TakeOutputRx(p)
  BY <1>3 DEF TakeOutputRx, IndexInv, TypeOK, IndicesValid, layout
<1>4. CASE DrainEnds(p)
  <2>1. CASE ClosePane(p, [drain EXCEPT ![p] = "done"])
    <3>1. [drain EXCEPT ![p] = "done"] \in [PaneIds -> DrainStates]
      BY DEF IndexInv, TypeOK
    <3> QED
      BY <2>1, <3>1, ClosePaneIndexInv
  <2>2. CASE /\ DrainStep(p, "running", "done")
             /\ UNCHANGED <<panes, pane_order, layout, byte_logs, log_files, dups>>
    BY <2>2 DEF IndexInv, TypeOK, IndicesValid, layout
  <2> QED
    BY <1>4, <2>1, <2>2 DEF DrainEnds
<1> QED
  BY <1>1, <1>2, <1>3, <1>4 DEF SpawnDrainTask

(* Every step keeps IndexInv. *)
THEOREM NextIndexInv == IndexInv /\ [Next]_vars => IndexInv'
<1> SUFFICES ASSUME IndexInv, [Next]_vars PROVE IndexInv'
  OBVIOUS
<1>1. CASE Next
  BY <1>1, CreateIndexInv, DuplicateIndexInv, CloseIndexInv, ArrangeIndexInv, DrainIndexInv DEF Next
<1>2. CASE UNCHANGED vars
  BY <1>2 DEF vars, layout, IndexInv, TypeOK, IndicesValid
<1> QED
  BY <1>1, <1>2

(* Whatever clients, shells and drain tasks do, every variable keeps its    *)
(* type: no method leaves a tree, a tab list or an index of another kind.   *)
THEOREM TypeCorrect == Spec => []TypeOK
  BY InitIndexInv, NextIndexInv, PTL DEF Spec, IndexInv

(* No interleaving of the manager's methods leaves an index that panics     *)
(* when the code uses it: there is always a workspace, active_workspace is  *)
(* one, and active_tab is in bounds or 0 in an empty workspace.             *)
THEOREM IndicesAlwaysValid == Spec => []IndicesValid
  BY InitIndexInv, NextIndexInv, PTL DEF Spec, IndexInv

-----------------------------------------------------------------------------
(* Every registered pane has a leaf.  No part of TreeConsistent is needed:   *)
(* a pane that stays registered has a leaf outside of what is removed.       *)

HasLeaf(p) == \E w \in Live : \E t \in TabsOf(w) : p \in Leaves(t)

LEMMA LeafAndTab == RegisteredPaneHasLeaf <=> \A p \in panes : HasLeaf(p)
BY DEF RegisteredPaneHasLeaf, HasLeaf, LiveTabs

ReachInv == IndexInv /\ RegisteredPaneHasLeaf

LEMMA ReachParts ==
  ASSUME ReachInv
  PROVE  /\ workspaces \in Seq(WorkspaceIds)
         /\ tabs \in [WorkspaceIds -> Seq(TabIds)]
         /\ pane_tree \in [TabIds -> Seq(PaneIds)]
         /\ panes \subseteq PaneIds
         /\ Live \subseteq WorkspaceIds
         /\ \A w \in Live : TabsOf(w) \subseteq TabIds
         /\ \A p \in panes : HasLeaf(p)
BY LeafAndTab, LiveType, TabsOfType DEF ReachInv, IndexInv, TypeOK

LEMMA PushTabReach ==
  ASSUME ReachInv, NEW w \in Live, NEW t \in FreshTabs, NEW p \in PaneIds, PushTab(w, t, p)
  PROVE  RegisteredPaneHasLeaf'
<1> USE ReachParts
<1>1. /\ panes' = panes \cup {p} /\ workspaces' = workspaces
      /\ tabs' = [tabs EXCEPT ![w] = Append(@, t)]
      /\ pane_tree' = [pane_tree EXCEPT ![t] = <<p>>]
  BY DEF PushTab
<1>2. t \in TabIds /\ \A v \in Live : t \notin TabsOf(v)
  BY DEF FreshTabs, LiveTabs
<1>3. Live' = Live /\ TabsOf(w)' = TabsOf(w) \cup {t}
      /\ \A v \in Live \ {w} : TabsOf(v)' = TabsOf(v)
  BY <1>1, <1>2, AppendHolds DEF Live, TabsOf
<1>4. Leaves(t)' = {p} /\ \A u \in TabIds \ {t} : Leaves(u)' = Leaves(u)
  BY <1>1, <1>2 DEF Leaves, ToSet
<1>5. ASSUME NEW q \in panes' PROVE HasLeaf(q)'
  <2>1. CASE q = p
    BY <1>3, <1>4, <2>1 DEF HasLeaf
  <2>2. CASE q \in panes
    <3>1. PICK v \in Live : \E u \in TabsOf(v) : q \in Leaves(u)
      BY <2>2 DEF HasLeaf
    <3>2. PICK u \in TabsOf(v) : q \in Leaves(u)
      BY <3>1
    <3>3. u \in TabIds \ {t}
      BY <1>2, <3>1
    <3>4. v \in Live' /\ u \in TabsOf(v)' /\ q \in Leaves(u)'
      BY <1>3, <1>4, <3>2, <3>3
    <3> QED
      BY <3>4 DEF HasLeaf
  <2> QED
    BY <1>1, <2>1, <2>2
<1> QED
  BY <1>5 DEF RegisteredPaneHasLeaf, HasLeaf, LiveTabs

(* A step that takes no tab from a workspace and no leaf from a tab           *)
LEMMA NothingTaken ==
  ASSUME ReachInv, Live \subseteq Live', panes' \subseteq panes,
         \A v \in Live : TabsOf(v) \subseteq TabsOf(v)',
         \A u \in TabIds : Leaves(u) \subseteq Leaves(u)'
  PROVE  RegisteredPaneHasLeaf'
<1>1. ASSUME NEW q \in panes' PROVE HasLeaf(q)'
  <2>1. PICK v \in Live : \E u \in TabsOf(v) : q \in Leaves(u)
    BY ReachParts DEF HasLeaf
  <2>2. PICK u \in TabsOf(v) : q \in Leaves(u)
    BY <2>1
  <2>3. u \in TabIds
    BY ReachParts
  <2> QED
    BY <2>2, <2>3 DEF HasLeaf
<1> QED
  BY <1>1 DEF RegisteredPaneHasLeaf, HasLeaf, LiveTabs

LEMMA CreateReach == ASSUME ReachInv, Create PROVE RegisteredPaneHasLeaf'
<1>1. ASSUME NEW p \in PaneIds, NEW t \in TabIds, create_pane(t, p)
      PROVE  RegisteredPaneHasLeaf'
  <2>1. workspaces[1] \in Live
    <3>1. Len(workspaces) >= 1 /\ workspaces \in Seq(WorkspaceIds)
      BY DEF ReachInv, IndexInv, TypeOK, IndicesValid
    <3> QED
      BY <3>1, InToSet DEF Live
  <2> QED
    BY <1>1, <2>1, PushTabReach DEF create_pane
<1>2. ASSUME NEW p \in PaneIds, NEW t \in TabIds, NEW idx \in Indexes(workspaces),
             create_tab(idx, t, p)
      PROVE  RegisteredPaneHasLeaf'
  <2>1. WorkspaceAt(idx) \in Live
    <3>1. workspaces \in Seq(WorkspaceIds)
      BY ReachParts
    <3>2. idx + 1 \in 1 .. Len(workspaces)
      BY <3>1 DEF Indexes
    <3> QED
      BY <3>1, <3>2, InToSet DEF Live, WorkspaceAt
  <2> QED
    BY <1>2, <2>1, PushTabReach DEF create_tab
<1>3. ASSUME NEW p \in PaneIds, NEW q \in PaneIds, split_pane(p, q)
      PROVE  RegisteredPaneHasLeaf'
  <2> USE ReachParts
  <2>1. PICK w \in Live : \E t \in TabsOf(w) : \E i \in DOMAIN pane_tree[t] :
          pane_tree' = [pane_tree EXCEPT ![t] = InsertAt(@, i + 1, q)]
    BY <1>3 DEF split_pane
  <2>2. PICK t \in TabsOf(w) : \E i \in DOMAIN pane_tree[t] :
          pane_tree' = [pane_tree EXCEPT ![t] = InsertAt(@, i + 1, q)]
    BY <2>1
  <2>3. PICK i \in DOMAIN pane_tree[t] : pane_tree' = [pane_tree EXCEPT ![t] = InsertAt(@, i + 1, q)]
    BY <2>2
  <2>4. t \in TabIds /\ pane_tree[t] \in Seq(PaneIds)
    OBVIOUS
  <2>5. i + 1 \in 1 .. Len(pane_tree[t]) + 1
    BY <2>4
  <2>6. Leaves(t) \cup {q} \subseteq Leaves(t)' /\ \A u \in TabIds : Leaves(u) \subseteq Leaves(u)'
    <3>1. pane_tree'[t] = InsertAt(pane_tree[t], i + 1, q) /\ \A u \in TabIds \ {t} : pane_tree'[u] = pane_tree[u]
      BY <2>3, <2>4
    <3>2. ToSet(pane_tree[t]) \cup {q} \subseteq ToSet(InsertAt(pane_tree[t], i + 1, q))
      BY <2>4, <2>5, InsertAtHolds
    <3> QED
      BY <3>1, <3>2 DEF Leaves
  <2>7. panes' = panes \cup {q} /\ Live' = Live /\ \A v \in Live : TabsOf(v)' = TabsOf(v)
    BY <1>3 DEF split_pane, Live, TabsOf
  <2>8. ASSUME NEW r \in panes' PROVE HasLeaf(r)'
    <3>1. CASE r = q
      BY <2>6, <2>7, <3>1 DEF HasLeaf
    <3>2. CASE r \in panes
      <4>1. PICK v \in Live : \E u \in TabsOf(v) : r \in Leaves(u)
        BY <3>2 DEF HasLeaf
      <4> QED
        BY <2>6, <2>7, <4>1 DEF HasLeaf
    <3> QED
      BY <2>7, <3>1, <3>2
  <2> QED
    BY <2>8 DEF RegisteredPaneHasLeaf, HasLeaf, LiveTabs
<1>4. ASSUME NEW w \in WorkspaceIds, create_workspace(w)
      PROVE  RegisteredPaneHasLeaf'
  <2>1. workspaces' = Append(workspaces, w) /\ w \notin Live /\ tabs' = [tabs EXCEPT ![w] = <<>>]
    BY <1>4 DEF create_workspace, FreshWorkspaces
  <2>2. Live \subseteq Live'
    BY <2>1, ReachParts, AppendHolds DEF Live
  <2>3. \A v \in Live : TabsOf(v) \subseteq TabsOf(v)'
    BY <2>1, ReachParts DEF TabsOf
  <2>4. panes' \subseteq panes /\ \A u \in TabIds : Leaves(u) \subseteq Leaves(u)'
    BY <1>4 DEF create_workspace, Leaves
  <2> QED
    BY <2>2, <2>3, <2>4, NothingTaken
<1> QED
  BY <1>1, <1>2, <1>3, <1>4 DEF Create

LEMMA DuplicateReach == ASSUME ReachInv, Duplicate PROVE RegisteredPaneHasLeaf'
<1>1. CASE UNCHANGED <<panes, layout>>
  BY <1>1, NothingTaken DEF layout, Live, TabsOf, Leaves
<1>2. ASSUME NEW d \in dups, NEW w \in WorkspaceIds, NEW ts \in [1 .. Len(d.panes) -> FreshTabs],
             DuplicateCommit(d, w, ts)
      PROVE  RegisteredPaneHasLeaf'
  <2> USE ReachParts
  <2> DEFINE n == Len(d.panes)
             at == ClampedInsert(d)
             IndexOf(t) == CHOOSE k \in 1 .. n : ts[k] = t
  <2>1. d.panes \in Seq(PaneIds) /\ d.insert_at \in Nat /\ n \in Nat
    BY DEF ReachInv, IndexInv, TypeOK, DupType
  <2>2. /\ w \notin Live /\ IsInjective(ts)
        /\ panes' = panes \cup ToSet(d.panes)
        /\ workspaces' = InsertAt(workspaces, at + 1, w)
        /\ tabs' = [tabs EXCEPT ![w] = ts]
        /\ pane_tree' = [t \in TabIds |->
                            IF t \in ToSet(ts) THEN <<d.panes[IndexOf(t)]>> ELSE pane_tree[t]]
    BY <1>2 DEF DuplicateCommit, FreshWorkspaces
  <2>3. Live \cup {w} \subseteq Live'
    <3>1. at + 1 \in 1 .. Len(workspaces) + 1
      BY <2>1 DEF ClampedInsert
    <3> HIDE DEF at
    <3> QED
      BY <2>2, <3>1, InsertAtHolds DEF Live
  <2>4. ts \in Seq(FreshTabs) /\ Len(ts) = n
    <3>1. n \in Nat /\ ts \in [1 .. n -> FreshTabs]
      BY <2>1
    <3> HIDE DEF n
    <3>2. ts \in Seq(FreshTabs)
      BY <3>1, FunctionIsSeq
    <3>3. DOMAIN ts = 1 .. n
      BY <3>1
    <3> QED
      BY <3>1, <3>2, <3>3, LenProperties
  <2>5. ToSet(ts) = {ts[k] : k \in 1 .. n} /\ ToSet(ts) \subseteq FreshTabs
    BY <2>4 DEF ToSet
  <2>6. TabsOf(w)' = ToSet(ts) /\ \A v \in Live : TabsOf(v)' = TabsOf(v)
    BY <2>2 DEF TabsOf
  <2>7. ASSUME NEW r \in ToSet(d.panes) PROVE HasLeaf(r)'
    <3>1. PICK k \in 1 .. n : d.panes[k] = r
      BY <2>1, InToSet
    <3>2. ts[k] \in ToSet(ts) /\ ts[k] \in TabIds
      BY <2>4, <2>5 DEF FreshTabs
    <3>3. IndexOf(ts[k]) = k
      <4>1. \A m \in 1 .. n : ts[m] = ts[k] => m = k
        BY <2>2 DEF IsInjective
      <4> QED
        BY <4>1
    <3>4. Leaves(ts[k])' = {r}
      <4>1. pane_tree'[ts[k]] = <<r>>
        BY <2>2, <3>1, <3>2, <3>3
      <4> QED
        BY <4>1 DEF Leaves, ToSet
    <3> QED
      BY <2>3, <2>6, <3>2, <3>4 DEF HasLeaf
  <2>8. ASSUME NEW r \in panes PROVE HasLeaf(r)'
    <3>1. PICK v \in Live : \E u \in TabsOf(v) : r \in Leaves(u)
      BY DEF HasLeaf
    <3>2. PICK u \in TabsOf(v) : r \in Leaves(u)
      BY <3>1
    <3>3. u \in TabIds \ FreshTabs
      BY DEF FreshTabs, LiveTabs
    <3>4. Leaves(u)' = Leaves(u)
      <4> HIDE DEF IndexOf
      <4> QED
        BY <2>2, <2>5, <3>3 DEF Leaves
    <3> QED
      BY <2>3, <2>6, <3>2, <3>4 DEF HasLeaf
  <2> QED
    BY <2>2, <2>7, <2>8 DEF RegisteredPaneHasLeaf, HasLeaf, LiveTabs
<1> QED
  BY <1>1, <1>2 DEF Duplicate, DuplicateSnapshot, DuplicateSpawnFails

(* The tail of close_tab and close_pane, if what it forgets is not registered *)
(* any more or was in that tab.                                              *)
LEMMA RemoveTabReach ==
  ASSUME ReachInv, NEW w \in Live, NEW i \in 1 .. Len(tabs[w]), NEW gone, NEW done, NEW log,
         Leaves(tabs[w][i]) \subseteq gone, RemoveTab(w, i, gone, done, log)
  PROVE  RegisteredPaneHasLeaf'
<1> USE ReachParts
<1> DEFINE t == tabs[w][i]
           rest == RemoveAt(tabs[w], i)
<1>1. tabs[w] \in Seq(TabIds) /\ t \in TabIds /\ t \in TabsOf(w) /\ w \in WorkspaceIds
  BY InToSet DEF TabsOf
<1>2. Live' = Live
  BY DEF RemoveTab, Live
(* A pane that stays registered is in another tab, which stays.              *)
<1>3. ASSUME NEW r \in panes \ gone
      PROVE  \E v \in Live : \E u \in TabsOf(v) \ {t} :
               r \in Leaves(u) /\ u \in TabIds /\ (v = w => u \in ToSet(rest))
  <2>1. PICK v \in Live : \E u \in TabsOf(v) : r \in Leaves(u)
    BY DEF HasLeaf
  <2>2. PICK u \in TabsOf(v) : r \in Leaves(u)
    BY <2>1
  <2>3. u # t
    BY <2>2
  <2>4. v = w => u \in ToSet(rest)
    <3> SUFFICES ASSUME v = w PROVE u \in ToSet(rest)
      OBVIOUS
    <3>1. u \in ToSet(tabs[w]) /\ u # tabs[w][i]
      BY <2>3 DEF TabsOf
    <3> QED
      BY <1>1, <3>1, RemoveAtHolds
  <2> QED
    BY <2>2, <2>3, <2>4
<1> HIDE DEF t, rest
<1>4. CASE /\ tabs' = [tabs EXCEPT ![w] = rest]
           /\ pane_tree' = [pane_tree EXCEPT ![t] = <<>>]
           /\ panes' = panes \ gone
  <2>1. TabsOf(w)' = ToSet(rest) /\ \A v \in Live \ {w} : TabsOf(v)' = TabsOf(v)
    BY <1>1, <1>4 DEF TabsOf
  <2>2. \A u \in TabIds \ {t} : Leaves(u)' = Leaves(u)
    BY <1>1, <1>4 DEF Leaves
  <2>3. ASSUME NEW r \in panes' PROVE HasLeaf(r)'
    <3>1. PICK v \in Live : \E u \in TabsOf(v) \ {t} :
            r \in Leaves(u) /\ u \in TabIds /\ (v = w => u \in ToSet(rest))
      BY <1>3, <1>4
    <3> QED
      BY <1>2, <2>1, <2>2, <3>1 DEF HasLeaf
  <2> QED
    BY <2>3 DEF RegisteredPaneHasLeaf, HasLeaf, LiveTabs
<1>5. ASSUME NEW q \in FreshPanes, NEW u \in FreshTabs, rest = <<>>,
             tabs' = [tabs EXCEPT ![w] = <<u>>],
             pane_tree' = [pane_tree EXCEPT ![t] = <<>>, ![u] = <<q>>],
             panes' = (panes \ gone) \cup {q}
      PROVE  RegisteredPaneHasLeaf'
  <2>1. u \in TabIds /\ u # t /\ \A v \in Live : u \notin TabsOf(v)
    BY <1>1 DEF FreshTabs, LiveTabs
  <2>2. TabsOf(w)' = {u} /\ \A v \in Live \ {w} : TabsOf(v)' = TabsOf(v)
    BY <1>1, <1>5 DEF TabsOf, ToSet
  <2>3. Leaves(u)' = {q} /\ \A x \in TabIds \ {t, u} : Leaves(x)' = Leaves(x)
    BY <1>1, <1>5, <2>1 DEF Leaves, ToSet
  <2>4. ASSUME NEW r \in panes \ gone PROVE HasLeaf(r)'
    <3>1. PICK v \in Live : \E x \in TabsOf(v) \ {t} :
            r \in Leaves(x) /\ x \in TabIds /\ (v = w => x \in ToSet(rest))
      BY <1>3
    <3>2. v # w
      BY <1>5, <3>1 DEF ToSet
    <3>3. PICK x \in TabsOf(v) \ {t} : r \in Leaves(x) /\ x \in TabIds
      BY <3>1
    <3>4. x \in TabIds \ {t, u}
      BY <2>1, <3>3
    <3>5. v \in Live' /\ x \in TabsOf(v)' /\ r \in Leaves(x)'
      BY <1>2, <2>2, <2>3, <3>2, <3>3, <3>4
    <3> QED
      BY <3>5 DEF HasLeaf
  <2>5. HasLeaf(q)'
    BY <1>2, <2>2, <2>3 DEF HasLeaf
  <2> QED
    BY <1>5, <2>4, <2>5 DEF RegisteredPaneHasLeaf, HasLeaf, LiveTabs
<1> QED
  BY <1>4, <1>5 DEF RemoveTab, t, rest

LEMMA ClosePaneReach ==
  ASSUME ReachInv, NEW p \in panes, NEW done, ClosePane(p, done)
  PROVE  RegisteredPaneHasLeaf'
<1>1. ASSUME NEW w \in Live, NEW i \in DOMAIN tabs[w], IsSoleLeaf(tabs[w][i], p),
             RemoveTab(w, i, {p}, done, <<PaneClosed(p)>>)
      PROVE  RegisteredPaneHasLeaf'
  <2>1. i \in 1 .. Len(tabs[w])
    BY ReachParts
  <2>2. Leaves(tabs[w][i]) \subseteq {p}
    BY <1>1 DEF IsSoleLeaf, Leaves, ToSet
  <2> QED
    BY <1>1, <2>1, <2>2, RemoveTabReach
<1>2. CASE panes' = panes \ {p} /\ UNCHANGED layout
  BY <1>2, NothingTaken DEF layout, Live, TabsOf, Leaves
<1> QED
  BY <1>1, <1>2 DEF ClosePane

LEMMA CloseReach == ASSUME ReachInv, Close PROVE RegisteredPaneHasLeaf'
<1>1. ASSUME NEW w \in Live, NEW i \in DOMAIN tabs[w], close_tab(w, i)
      PROVE  RegisteredPaneHasLeaf'
  <2>1. i \in 1 .. Len(tabs[w])
    BY ReachParts
  <2> QED
    BY <1>1, <2>1, RemoveTabReach DEF close_tab
<1>2. ASSUME NEW p \in PaneIds, close_pane(p)
      PROVE  RegisteredPaneHasLeaf'
  BY <1>2, ClosePaneReach DEF close_pane
<1>3. ASSUME NEW idx \in Indexes(workspaces), delete_workspace(idx)
      PROVE  RegisteredPaneHasLeaf'
  <2> USE ReachParts
  <2> DEFINE w == WorkspaceAt(idx)
             gone == UNION {Leaves(t) : t \in TabsOf(w)}
  <2>1. w \in WorkspaceIds /\ idx + 1 \in 1 .. Len(workspaces) /\ w = workspaces[idx + 1]
    BY DEF Indexes, WorkspaceAt
  <2>2. /\ panes' = panes \ gone
        /\ workspaces' = RemoveAt(workspaces, idx + 1)
        /\ tabs' = [tabs EXCEPT ![w] = <<>>]
        /\ pane_tree' = [t \in TabIds |-> IF t \in TabsOf(w) THEN <<>> ELSE pane_tree[t]]
    BY <1>3 DEF delete_workspace
  <2> HIDE DEF w
  <2>3. Live \ {w} \subseteq Live'
    BY <2>1, <2>2, RemoveAtHolds DEF Live
  <2>4. \A v \in Live \ {w} : TabsOf(v)' = TabsOf(v)
    BY <2>2 DEF TabsOf
  <2>5. \A u \in TabIds \ TabsOf(w) : Leaves(u)' = Leaves(u)
    BY <2>2 DEF Leaves
  <2>6. ASSUME NEW r \in panes' PROVE HasLeaf(r)'
    <3>1. r \in panes /\ r \notin gone
      BY <2>2
    <3>2. PICK v \in Live : \E u \in TabsOf(v) : r \in Leaves(u)
      BY <3>1 DEF HasLeaf
    <3>3. PICK u \in TabsOf(v) : r \in Leaves(u)
      BY <3>2
    <3>4. u \in TabIds \ TabsOf(w) /\ v # w
      BY <3>1, <3>3
    <3> QED
      BY <2>3, <2>4, <2>5, <3>3, <3>4 DEF HasLeaf
  <2> QED
    BY <2>6 DEF RegisteredPaneHasLeaf, HasLeaf, LiveTabs
<1> QED
  BY <1>1, <1>2, <1>3 DEF Close

LEMMA ArrangeReach == ASSUME ReachInv, Arrange PROVE RegisteredPaneHasLeaf'
<1> USE ReachParts
<1>1. ASSUME NEW from \in Indexes(workspaces), NEW to \in Indexes(workspaces),
             move_workspace(from, to)
      PROVE  RegisteredPaneHasLeaf'
  <2>1. Live \subseteq Live'
    <3>1. from + 1 \in 1 .. Len(workspaces) /\ to + 1 \in 1 .. Len(workspaces)
      BY DEF Indexes
    <3>2. workspaces' = [workspaces EXCEPT ![from + 1] = workspaces[to + 1], ![to + 1] = workspaces[from + 1]]
      BY <1>1 DEF move_workspace, WorkspaceAt
    <3>3. ASSUME NEW v \in Live PROVE v \in Live'
      <4>1. PICK k \in 1 .. Len(workspaces) : workspaces[k] = v
        BY InToSet DEF Live
      <4>2. DOMAIN workspaces' = DOMAIN workspaces /\ DOMAIN workspaces = 1 .. Len(workspaces)
        BY <3>2
      <4>3. \E m \in 1 .. Len(workspaces) : workspaces'[m] = v
        <5>1. CASE k = from + 1
          BY <3>1, <3>2, <4>1, <5>1
        <5>2. CASE k = to + 1
          BY <3>1, <3>2, <4>1, <5>2
        <5>3. CASE k # from + 1 /\ k # to + 1
          BY <3>1, <3>2, <4>1, <5>3
        <5> QED
          BY <5>1, <5>2, <5>3
      <4> QED
        BY <4>2, <4>3 DEF Live, ToSet
    <3> QED
      BY <3>3
  <2> QED
    BY <1>1, <2>1, NothingTaken DEF move_workspace, TabsOf, Leaves
<1>2. ASSUME NEW w \in Live, NEW i \in DOMAIN tabs[w], NEW j \in 0 .. Len(tabs[w]),
             move_tab(w, i, j)
      PROVE  RegisteredPaneHasLeaf'
  <2> DEFINE last == Len(tabs[w]) - 1
             target == IF j < last THEN j ELSE last
             moved == Moved(tabs[w], i, target + 1)
  <2>1. w \in WorkspaceIds /\ tabs[w] \in Seq(TabIds) /\ i \in 1 .. Len(tabs[w])
    OBVIOUS
  <2>2. target + 1 \in 1 .. Len(tabs[w])
    BY <2>1
  <2>3. tabs' = [tabs EXCEPT ![w] = moved]
    BY <1>2 DEF move_tab
  <2> HIDE DEF target
  <2>4. ToSet(tabs[w]) \subseteq ToSet(moved)
    BY <2>1, <2>2, MovedHolds
  <2> HIDE DEF moved
  <2>5. \A v \in Live : TabsOf(v) \subseteq TabsOf(v)'
    BY <2>1, <2>3, <2>4 DEF TabsOf
  <2> QED
    BY <1>2, <2>5, NothingTaken DEF move_tab, Live, Leaves
<1>3. CASE UNCHANGED <<panes, workspaces, tabs, pane_tree>>
  BY <1>3, NothingTaken DEF Live, TabsOf, Leaves
<1> QED
  BY <1>1, <1>2, <1>3 DEF Arrange, set_active_workspace, set_active_tab, set_active_pane

LEMMA DrainReach ==
  ASSUME ReachInv, NEW p \in PaneIds, SpawnDrainTask(p) \/ DrainEnds(p)
  PROVE  RegisteredPaneHasLeaf'
<1>1. CASE UNCHANGED <<panes, layout>>
  BY <1>1, NothingTaken DEF layout, Live, TabsOf, Leaves
<1>2. CASE p \in panes /\ ClosePane(p, [drain EXCEPT ![p] = "done"])
  BY <1>2, ClosePaneReach
<1> QED
  BY <1>1, <1>2 DEF SpawnDrainTask, DrainEnds, OpenByteLog, RegisterByteLog, TakeOutputRx

LEMMA NextReachInv == ReachInv /\ [Next]_vars => ReachInv'
<1> SUFFICES ASSUME ReachInv, [Next]_vars PROVE RegisteredPaneHasLeaf'
  BY NextIndexInv DEF ReachInv
<1>1. CASE Next
  BY <1>1, CreateReach, DuplicateReach, CloseReach, ArrangeReach, DrainReach DEF Next
<1>2. CASE UNCHANGED vars
  BY <1>2, NothingTaken DEF vars, layout, Live, TabsOf, Leaves
<1> QED
  BY <1>1, <1>2

(* A running shell can always be reached: through every interleaving of      *)
(* closes, splits, deletes, duplicates and failed spawns, close_pane's early  *)
(* and close_tab's late removals leave no registered pane without a leaf in  *)
(* a tab of a workspace - although they do leave leaves without a pane.      *)
THEOREM RegisteredPanesReachable == Spec => []RegisteredPaneHasLeaf
<1>1. Init => ReachInv
  BY InitIndexInv DEF ReachInv, Init, RegisteredPaneHasLeaf
<1> QED
  BY <1>1, NextReachInv, PTL DEF Spec, ReachInv

-----------------------------------------------------------------------------
(* A running drain task has its log.  The log file is made and the log is    *)
(* registered in two steps outside the creating critical section, so the     *)
(* invariant follows a pane's drain through all its states; and a pane that   *)
(* a duplicate has reserved is nobody else's until its commit.               *)

LogFollowsDrain ==
  \A p \in PaneIds :
    /\ drain[p] \in {"unborn", "spawned"} => p \notin log_files
    /\ drain[p] \in {"ready", "running"} /\ p \in panes /\ p \in log_files => p \in byte_logs

ReservedOnce ==
  \A d \in dups : /\ \A p \in ToSet(d.panes) : drain[p] = "unborn"
                  /\ \A e \in dups \ {d} : ToSet(d.panes) \cap ToSet(e.panes) = {}

LogInv == IndexInv /\ LogFollowsDrain /\ ReservedOnce

LEMMA LogParts ==
  ASSUME LogInv
  PROVE  /\ drain \in [PaneIds -> DrainStates]
         /\ \A d \in dups : d.panes \in Seq(PaneIds) /\ ToSet(d.panes) \subseteq PaneIds
BY DEF LogInv, IndexInv, TypeOK, DupType, ToSet

(* Panes are added only as spawned, from panes nobody has reserved.          *)
LEMMA SpawnKeeps ==
  ASSUME LogInv, NEW new, new \subseteq FreshPanes, NEW gone, NEW done \in [PaneIds -> DrainStates],
         \A p \in PaneIds : done[p] = drain[p] \/ (done[p] = "done" /\ drain[p] = "running"),
         panes' = (panes \ gone) \cup new,
         drain' = [p \in PaneIds |-> IF p \in new THEN "spawned" ELSE done[p]],
         byte_logs' = byte_logs \ gone, log_files' \subseteq log_files, UNCHANGED dups
  PROVE  LogFollowsDrain' /\ ReservedOnce'
<1>1. \A p \in new : p \in PaneIds /\ drain[p] = "unborn" /\ \A d \in dups : p \notin ToSet(d.panes)
  BY DEF FreshPanes, Reserved
<1>2. LogFollowsDrain'
  BY <1>1, LogParts DEF LogInv, LogFollowsDrain
<1>3. ReservedOnce'
  BY <1>1, LogParts DEF LogInv, ReservedOnce
<1> QED
  BY <1>2, <1>3

LEMMA PushTabLog ==
  ASSUME LogInv, NEW w, NEW t, NEW p \in FreshPanes, PushTab(w, t, p)
  PROVE  LogFollowsDrain' /\ ReservedOnce'
<1>1. drain' = [q \in PaneIds |-> IF q \in {p} THEN "spawned" ELSE drain[q]]
  BY LogParts DEF PushTab, FreshPanes
<1>2. panes' = (panes \ {}) \cup {p} /\ byte_logs' = byte_logs \ {} /\ UNCHANGED <<log_files, dups>>
  BY DEF PushTab
<1> QED
  BY <1>1, <1>2, LogParts, SpawnKeeps

LEMMA CreateLog == ASSUME LogInv, Create PROVE LogFollowsDrain' /\ ReservedOnce'
<1>1. ASSUME NEW p \in PaneIds, NEW t \in TabIds,
             create_pane(t, p) \/ \E idx \in Indexes(workspaces) : create_tab(idx, t, p)
      PROVE  LogFollowsDrain' /\ ReservedOnce'
  BY <1>1, PushTabLog DEF create_pane, create_tab
<1>2. ASSUME NEW p \in PaneIds, NEW q \in PaneIds, split_pane(p, q)
      PROVE  LogFollowsDrain' /\ ReservedOnce'
  <2>1. q \in FreshPanes /\ drain' = [r \in PaneIds |-> IF r \in {q} THEN "spawned" ELSE drain[r]]
    BY <1>2, LogParts DEF split_pane
  <2>2. panes' = (panes \ {}) \cup {q} /\ byte_logs' = byte_logs \ {} /\ UNCHANGED <<log_files, dups>>
    BY <1>2 DEF split_pane
  <2> QED
    BY <2>1, <2>2, LogParts, SpawnKeeps
<1>3. ASSUME NEW w \in WorkspaceIds, create_workspace(w)
      PROVE  LogFollowsDrain' /\ ReservedOnce'
  BY <1>3 DEF create_workspace, LogInv, LogFollowsDrain, ReservedOnce
<1> QED
  BY <1>1, <1>2, <1>3 DEF Create

LEMMA DuplicateLog == ASSUME LogInv, Duplicate PROVE LogFollowsDrain' /\ ReservedOnce'
<1>1. ASSUME NEW idx \in Indexes(workspaces),
             NEW ps \in [1 .. Len(tabs[WorkspaceAt(idx)]) -> FreshPanes],
             DuplicateSnapshot(idx, ps)
      PROVE  LogFollowsDrain' /\ ReservedOnce'
  <2> DEFINE d == [source |-> WorkspaceAt(idx), insert_at |-> idx + 1, panes |-> ps]
  <2>1. dups' = dups \cup {d} /\ UNCHANGED <<panes, drain, byte_logs, log_files>>
    BY <1>1 DEF DuplicateSnapshot
  <2>2. d.panes = ps /\ ToSet(ps) \subseteq FreshPanes
    BY DEF ToSet
  <2>3. /\ \A p \in ToSet(d.panes) : drain[p] = "unborn"
        /\ \A e \in dups : ToSet(d.panes) \cap ToSet(e.panes) = {}
    BY <2>2 DEF FreshPanes, Reserved
  <2> HIDE DEF d
  <2> QED
    BY <2>1, <2>3 DEF LogInv, LogFollowsDrain, ReservedOnce
<1>2. ASSUME NEW d \in dups, DuplicateSpawnFails(d)
      PROVE  LogFollowsDrain' /\ ReservedOnce'
  BY <1>2 DEF DuplicateSpawnFails, LogInv, LogFollowsDrain, ReservedOnce
<1>3. ASSUME NEW d \in dups, NEW w \in WorkspaceIds, NEW ts \in [1 .. Len(d.panes) -> FreshTabs],
             DuplicateCommit(d, w, ts)
      PROVE  LogFollowsDrain' /\ ReservedOnce'
  <2>1. /\ panes' = panes \cup ToSet(d.panes) /\ dups' = dups \ {d}
        /\ drain' = [p \in PaneIds |-> IF p \in ToSet(d.panes) THEN "spawned" ELSE drain[p]]
        /\ UNCHANGED <<byte_logs, log_files>>
    BY <1>3 DEF DuplicateCommit
  <2>2. \A p \in ToSet(d.panes) : drain[p] = "unborn" /\ p \in PaneIds
    BY LogParts DEF LogInv, ReservedOnce
  <2>3. LogFollowsDrain'
    BY <2>1, <2>2, LogParts DEF LogInv, LogFollowsDrain
  <2>4. ReservedOnce'
    BY <2>1, LogParts DEF LogInv, ReservedOnce
  <2> QED
    BY <2>3, <2>4
<1> QED
  BY <1>1, <1>2, <1>3 DEF Duplicate

LEMMA RemoveTabLog ==
  ASSUME LogInv, NEW w, NEW i, NEW gone, NEW done \in [PaneIds -> DrainStates], NEW log,
         \A p \in PaneIds : done[p] = drain[p] \/ (done[p] = "done" /\ drain[p] = "running"),
         RemoveTab(w, i, gone, done, log)
  PROVE  LogFollowsDrain' /\ ReservedOnce'
<1>1. byte_logs' = byte_logs \ gone /\ UNCHANGED <<log_files, dups>>
  BY DEF RemoveTab
<1>2. CASE panes' = panes \ gone /\ drain' = done
  <2>1. LogFollowsDrain'
    BY <1>1, <1>2, LogParts DEF LogInv, LogFollowsDrain
  <2>2. ReservedOnce'
    BY <1>1, <1>2, LogParts DEF LogInv, ReservedOnce
  <2> QED
    BY <2>1, <2>2
<1>3. ASSUME NEW q \in FreshPanes, panes' = (panes \ gone) \cup {q}, drain' = [done EXCEPT ![q] = "spawned"]
      PROVE  LogFollowsDrain' /\ ReservedOnce'
  <2>1. drain' = [p \in PaneIds |-> IF p \in {q} THEN "spawned" ELSE done[p]]
    BY <1>3
  <2>2. \E new \in SUBSET FreshPanes :
          /\ panes' = (panes \ gone) \cup new
          /\ drain' = [p \in PaneIds |-> IF p \in new THEN "spawned" ELSE done[p]]
    BY <1>3, <2>1
  <2> QED
    BY <1>1, <2>2, SpawnKeeps
<1> QED
  BY <1>2, <1>3 DEF RemoveTab

LEMMA ClosePaneLog ==
  ASSUME LogInv, NEW p, NEW done \in [PaneIds -> DrainStates],
         \A q \in PaneIds : done[q] = drain[q] \/ (done[q] = "done" /\ drain[q] = "running"),
         ClosePane(p, done)
  PROVE  LogFollowsDrain' /\ ReservedOnce'
<1>1. ASSUME NEW w \in Live, NEW i \in DOMAIN tabs[w], RemoveTab(w, i, {p}, done, <<PaneClosed(p)>>)
      PROVE  LogFollowsDrain' /\ ReservedOnce'
  BY <1>1, RemoveTabLog
<1>2. CASE /\ panes' = panes \ {p} /\ byte_logs' = byte_logs \ {p} /\ drain' = done
           /\ UNCHANGED <<log_files, dups>>
  BY <1>2, LogParts DEF LogInv, LogFollowsDrain, ReservedOnce
<1> QED
  BY <1>1, <1>2 DEF ClosePane

LEMMA CloseLog == ASSUME LogInv, Close PROVE LogFollowsDrain' /\ ReservedOnce'
<1>1. ASSUME NEW w \in Live, NEW i \in DOMAIN tabs[w], close_tab(w, i)
      PROVE  LogFollowsDrain' /\ ReservedOnce'
  BY <1>1, LogParts, RemoveTabLog DEF close_tab
<1>2. ASSUME NEW p \in PaneIds, close_pane(p)
      PROVE  LogFollowsDrain' /\ ReservedOnce'
  BY <1>2, LogParts, ClosePaneLog DEF close_pane
<1>3. ASSUME NEW idx \in Indexes(workspaces), delete_workspace(idx)
      PROVE  LogFollowsDrain' /\ ReservedOnce'
  BY <1>3, LogParts DEF delete_workspace, LogInv, LogFollowsDrain, ReservedOnce
<1> QED
  BY <1>1, <1>2, <1>3 DEF Close

LEMMA DrainLog ==
  ASSUME LogInv, NEW p \in PaneIds, SpawnDrainTask(p) \/ DrainEnds(p)
  PROVE  LogFollowsDrain' /\ ReservedOnce'
<1> USE LogParts
<1>1. CASE OpenByteLog(p)
  BY <1>1 DEF OpenByteLog, DrainStep, LogInv, LogFollowsDrain, ReservedOnce
<1>2. CASE RegisterByteLog(p)
  BY <1>2 DEF RegisterByteLog, DrainStep, LogInv, LogFollowsDrain, ReservedOnce
<1>3. CASE TakeOutputRx(p)
  BY <1>3 DEF TakeOutputRx, DrainStep, LogInv, LogFollowsDrain, ReservedOnce
<1>4. CASE DrainEnds(p)
  <2>1. CASE ClosePane(p, [drain EXCEPT ![p] = "done"])
    <3> DEFINE done == [drain EXCEPT ![p] = "done"]
    <3>1. done \in [PaneIds -> DrainStates]
      BY DEF DrainStates
    <3>2. \A q \in PaneIds : done[q] = drain[q] \/ (done[q] = "done" /\ drain[q] = "running")
      BY <1>4 DEF DrainEnds
    <3> HIDE DEF done
    <3> QED
      BY <2>1, <3>1, <3>2, ClosePaneLog DEF done
  <2>2. CASE /\ DrainStep(p, "running", "done")
             /\ UNCHANGED <<panes, pane_order, layout, byte_logs, log_files, dups>>
    BY <2>2 DEF DrainStep, LogInv, LogFollowsDrain, ReservedOnce
  <2> QED
    BY <1>4, <2>1, <2>2 DEF DrainEnds
<1> QED
  BY <1>1, <1>2, <1>3, <1>4 DEF SpawnDrainTask

LEMMA StillLog ==
  ASSUME LogInv, UNCHANGED <<panes, byte_logs, log_files, drain, dups>>
  PROVE  LogFollowsDrain' /\ ReservedOnce'
BY DEF LogInv, LogFollowsDrain, ReservedOnce

LEMMA NextLogInv == LogInv /\ [Next]_vars => LogInv'
<1> SUFFICES ASSUME LogInv, [Next]_vars PROVE LogFollowsDrain' /\ ReservedOnce'
  BY NextIndexInv DEF LogInv
<1>1. CASE Arrange
  BY <1>1, StillLog
  DEF Arrange, move_workspace, move_tab, set_active_workspace, set_active_tab, set_active_pane
<1>2. CASE UNCHANGED vars
  BY <1>2, StillLog DEF vars
<1> QED
  BY <1>1, <1>2, CreateLog, DuplicateLog, CloseLog, DrainLog DEF Next

(* No byte is processed before the ring is there: whatever closes, spawns    *)
(* and duplicates come between create_byte_log_for's two steps and           *)
(* take_pane_output_rx, a registered pane whose drain task runs, and whose   *)
(* log file could be opened, has its log.                                    *)
THEOREM RunningDrainsHaveLogs == Spec => []RunningDrainHasLog
<1>1. Init => LogInv
  BY InitIndexInv DEF LogInv, LogFollowsDrain, ReservedOnce, Init
<1>2. LogInv => RunningDrainHasLog
  BY DEF LogInv, IndexInv, TypeOK, LogFollowsDrain, RunningDrainHasLog
<1> QED
  BY <1>1, <1>2, NextLogInv, PTL DEF Spec

-----------------------------------------------------------------------------
(* The forest in terms of sets.  It is kept only because identifiers are     *)
(* fresh: a leaf stays in the tree after its pane is closed, so a new pane   *)
(* must differ from every pane there ever was, and a reserved one from those *)
(* that other calls have spawned since the reservation.                      *)

Forest ==
  /\ IsInjective(workspaces)
  /\ \A w \in WorkspaceIds : IsInjective(tabs[w])
  /\ \A t \in TabIds : IsInjective(pane_tree[t])
  /\ \A w \in WorkspaceIds \ Live : TabsOf(w) = {}
  /\ \A v, w \in WorkspaceIds : v # w => TabsOf(v) \cap TabsOf(w) = {}
  /\ \A t \in TabIds : Leaves(t) # {} <=> \E w \in WorkspaceIds : t \in TabsOf(w)
  /\ \A t, u \in TabIds : t # u => Leaves(t) \cap Leaves(u) = {}

LeavesBorn == \A t \in TabIds : \A p \in Leaves(t) : drain[p] # "unborn"
ReservedDistinct == \A d \in dups : IsInjective(d.panes)

TreeInv == LogInv /\ Forest /\ LeavesBorn /\ ReservedDistinct

LEMMA LiveTabsOfForest ==
  ASSUME TypeOK, Forest
  PROVE  /\ LiveTabs \subseteq TabIds
         /\ \A t \in TabIds : t \in LiveTabs <=> \E w \in WorkspaceIds : t \in TabsOf(w)
<1>1. LiveTabs \subseteq TabIds /\ Live \subseteq WorkspaceIds
  BY LiveType, LiveTabsType
<1>2. ASSUME NEW t \in TabIds, NEW w \in WorkspaceIds, t \in TabsOf(w) PROVE t \in LiveTabs
  <2>1. w \in Live
    BY <1>2 DEF Forest
  <2> QED
    BY <1>2, <2>1 DEF LiveTabs
<1>3. ASSUME NEW t \in LiveTabs PROVE \E w \in WorkspaceIds : t \in TabsOf(w)
  BY <1>1 DEF LiveTabs
<1> QED
  BY <1>1, <1>2, <1>3

LEMMA ForestIsTree == ASSUME TypeOK, Forest PROVE TreeConsistent
<1>1. \A w \in WorkspaceIds : w \notin Live => tabs[w] = <<>>
  BY EmptyOrNot DEF TypeOK, Forest, TabsOf
<1>2. \A t \in TabIds : pane_tree[t] # <<>> <=> t \in LiveTabs
  <2>1. ASSUME NEW t \in TabIds PROVE pane_tree[t] # <<>> <=> Leaves(t) # {}
    <3>1. pane_tree[t] \in Seq(PaneIds)
      BY DEF TypeOK
    <3> QED
      BY <3>1, EmptyOrNot DEF Leaves
  <2>2. \A t \in TabIds : Leaves(t) # {} <=> t \in LiveTabs
    BY LiveTabsOfForest DEF Forest
  <2> QED
    BY <2>1, <2>2
<1> QED
  BY <1>1, <1>2 DEF Forest, TreeConsistent

LEMMA TreeTypes ==
  ASSUME TreeInv
  PROVE  /\ workspaces \in Seq(WorkspaceIds) /\ Len(workspaces) \in Nat
         /\ tabs \in [WorkspaceIds -> Seq(TabIds)]
         /\ pane_tree \in [TabIds -> Seq(PaneIds)]
         /\ drain \in [PaneIds -> DrainStates]
         /\ Live \subseteq WorkspaceIds
         /\ \A w \in WorkspaceIds : TabsOf(w) \subseteq TabIds
         /\ \A t \in TabIds : Leaves(t) \subseteq PaneIds
BY LiveType, TabsOfType, LeavesType DEF TreeInv, LogInv, IndexInv, TypeOK

(* What fresh means to the forest                                            *)
LEMMA FreshFacts ==
  ASSUME TreeInv
  PROVE  /\ \A t \in FreshTabs : t \in TabIds /\ Leaves(t) = {} /\ \A w \in WorkspaceIds : t \notin TabsOf(w)
         /\ \A p \in FreshPanes : p \in PaneIds /\ \A t \in TabIds : p \notin Leaves(t)
         /\ \A w \in FreshWorkspaces : w \in WorkspaceIds /\ w \notin Live /\ TabsOf(w) = {}
<1>1. TypeOK /\ Forest
  BY DEF TreeInv, LogInv, IndexInv
<1>2. \A t \in FreshTabs : t \in TabIds /\ \A w \in WorkspaceIds : t \notin TabsOf(w)
  BY <1>1, LiveTabsOfForest DEF FreshTabs
<1>3. \A t \in FreshTabs : Leaves(t) = {}
  BY <1>1, <1>2 DEF Forest
<1>4. \A p \in FreshPanes : p \in PaneIds /\ \A t \in TabIds : p \notin Leaves(t)
  BY DEF TreeInv, LeavesBorn, FreshPanes
<1>5. \A w \in FreshWorkspaces : w \in WorkspaceIds /\ w \notin Live /\ TabsOf(w) = {}
  BY <1>1 DEF FreshWorkspaces, Forest
<1> QED
  BY <1>2, <1>3, <1>4, <1>5

(* A step that leaves the layout alone and lets no pane be unborn again      *)
LEMMA LayoutStays ==
  ASSUME TreeInv, UNCHANGED <<workspaces, tabs, pane_tree>>,
         \A p \in PaneIds : drain[p] # "unborn" => drain'[p] # "unborn"
  PROVE  Forest' /\ LeavesBorn'
<1>1. Forest'
  BY DEF TreeInv, Forest, Live, TabsOf, Leaves
<1>2. LeavesBorn'
  BY TreeTypes DEF TreeInv, LeavesBorn, Leaves
<1> QED
  BY <1>1, <1>2

(* A step that gives workspace w the tabs `ts` instead of its own, tree by   *)
(* tree: what goes is emptied, what comes was fresh.                         *)
TabsReplaced(w, ts) ==
  /\ IsInjective(workspaces') /\ Live \subseteq Live' /\ w \in Live'
  /\ tabs' = [tabs EXCEPT ![w] = ts]
  /\ ts \in Seq(TabIds) /\ IsInjective(ts) /\ ToSet(ts) \subseteq TabsOf(w) \cup FreshTabs

TreesReplaced(w, ts) ==
  /\ pane_tree' \in [TabIds -> Seq(PaneIds)]
  /\ \A t \in TabIds : IsInjective(pane_tree'[t])
  /\ \A t \in TabIds \ (TabsOf(w) \cup ToSet(ts)) : pane_tree'[t] = pane_tree[t]
  /\ \A t \in TabsOf(w) \ ToSet(ts) : Leaves(t)' = {}
  /\ \A t \in ToSet(ts) : /\ Leaves(t) \subseteq Leaves(t)' /\ Leaves(t)' # {}
                          /\ \A p \in Leaves(t)' : p \in Leaves(t) \/ drain[p] = "unborn"
  /\ \A t, u \in ToSet(ts) : t # u => Leaves(t)' \cap Leaves(u)' = {}

LeavesSpawned(ts) ==
  /\ \A p \in PaneIds : drain[p] # "unborn" => drain'[p] # "unborn"
  /\ \A t \in ToSet(ts) : \A p \in Leaves(t)' : drain'[p] # "unborn"

LEMMA TabsChange ==
  ASSUME TreeInv, NEW w \in WorkspaceIds, NEW ts,
         TabsReplaced(w, ts), TreesReplaced(w, ts), LeavesSpawned(ts)
  PROVE  Forest' /\ LeavesBorn'
<1> USE DEF TabsReplaced, TreesReplaced, LeavesSpawned
<1> USE TreeTypes
<1>1. TabsOf(w)' = ToSet(ts) /\ \A v \in WorkspaceIds \ {w} : TabsOf(v)' = TabsOf(v)
  BY DEF TabsOf
<1>2. \A t \in TabIds \ (TabsOf(w) \cup ToSet(ts)) : Leaves(t)' = Leaves(t)
  BY DEF Leaves
<1>3. /\ \A v \in WorkspaceIds \ Live : TabsOf(v) = {}
      /\ \A u, v \in WorkspaceIds : u # v => TabsOf(u) \cap TabsOf(v) = {}
      /\ \A t \in TabIds : Leaves(t) # {} <=> \E v \in WorkspaceIds : t \in TabsOf(v)
      /\ \A t, u \in TabIds : t # u => Leaves(t) \cap Leaves(u) = {}
      /\ \A t \in TabIds : \A p \in Leaves(t) : drain[p] # "unborn"
  BY DEF TreeInv, Forest, LeavesBorn
<1>4. \A t \in FreshTabs : t \in TabIds /\ Leaves(t) = {} /\ \A v \in WorkspaceIds : t \notin TabsOf(v)
  BY FreshFacts
<1>5. ToSet(ts) \subseteq TabIds
  BY <1>4
<1>6. \A v \in WorkspaceIds : IsInjective(tabs'[v])
  BY DEF TreeInv, Forest
<1>7. \A v \in WorkspaceIds \ Live' : TabsOf(v)' = {}
  BY <1>1, <1>3
<1>8. ASSUME NEW u \in WorkspaceIds, NEW v \in WorkspaceIds, u # v
      PROVE  TabsOf(u)' \cap TabsOf(v)' = {}
  <2>1. ASSUME NEW x \in WorkspaceIds \ {w} PROVE ToSet(ts) \cap TabsOf(x) = {}
    BY <1>3, <1>4
  <2>2. CASE u = w
    BY <1>1, <1>8, <2>1, <2>2
  <2>3. CASE v = w
    BY <1>1, <1>8, <2>1, <2>3
  <2>4. CASE u # w /\ v # w
    BY <1>1, <1>3, <1>8, <2>4
  <2> QED
    BY <2>2, <2>3, <2>4
<1>9. ASSUME NEW t \in TabIds
      PROVE  Leaves(t)' # {} <=> \E v \in WorkspaceIds : t \in TabsOf(v)'
  <2>1. CASE t \in ToSet(ts)
    <3>1. Leaves(t)' # {}
      <4>1. CASE t \in TabsOf(w)
        <5>1. Leaves(t) # {}
          BY <1>3, <4>1
        <5> QED
          BY <2>1, <4>1, <5>1
      <4>2. CASE t \notin TabsOf(w)
        BY <2>1, <4>2
      <4> QED
        BY <4>1, <4>2
    <3> QED
      BY <1>1, <2>1, <3>1
  <2>2. CASE t \in TabsOf(w) \ ToSet(ts)
    <3>1. \A v \in WorkspaceIds \ {w} : t \notin TabsOf(v)
      BY <1>3, <2>2
    <3>2. ASSUME NEW v \in WorkspaceIds PROVE t \notin TabsOf(v)'
      <4>1. CASE v = w
        BY <1>1, <2>2, <4>1
      <4>2. CASE v # w
        BY <1>1, <3>1, <4>2
      <4> QED
        BY <4>1, <4>2
    <3> QED
      BY <2>2, <3>2
  <2>3. CASE t \notin TabsOf(w) \cup ToSet(ts)
    <3>1. Leaves(t)' = Leaves(t)
      BY <1>2, <2>3
    <3>2. \A v \in WorkspaceIds : t \in TabsOf(v)' <=> t \in TabsOf(v)
      BY <1>1, <2>3
    <3> QED
      BY <1>3, <3>1, <3>2
  <2> QED
    BY <2>1, <2>2, <2>3
<1>10. ASSUME NEW t \in TabIds, NEW u \in TabIds, t # u
       PROVE  Leaves(t)' \cap Leaves(u)' = {}
  <2>1. \A x \in TabIds \ ToSet(ts) : Leaves(x)' \subseteq Leaves(x)
    BY <1>2
  <2>2. CASE t \in ToSet(ts) /\ u \in ToSet(ts)
    BY <1>10, <2>2
  <2>3. CASE t \notin ToSet(ts) /\ u \notin ToSet(ts)
    BY <1>3, <1>10, <2>1, <2>3
  <2>4. CASE t \in ToSet(ts) /\ u \notin ToSet(ts)
    BY <1>3, <1>10, <2>1, <2>4
  <2>5. CASE t \notin ToSet(ts) /\ u \in ToSet(ts)
    BY <1>3, <1>10, <2>1, <2>5
  <2> QED
    BY <2>2, <2>3, <2>4, <2>5
<1>11. Forest'
  BY <1>6, <1>7, <1>8, <1>9, <1>10 DEF Forest
<1>12. ASSUME NEW t \in TabIds, NEW p \in Leaves(t)' PROVE drain'[p] # "unborn"
  <2>1. CASE t \in ToSet(ts)
    BY <2>1
  <2>2. CASE t \notin ToSet(ts)
    <3>1. p \in Leaves(t)
      BY <1>2, <2>2
    <3> QED
      BY <1>3, <3>1
  <2> QED
    BY <2>1, <2>2
<1>13. LeavesBorn'
  BY <1>12 DEF LeavesBorn
<1> QED
  BY <1>11, <1>13

(* A step that reorders the workspaces or the tabs of one                    *)
LEMMA Reordered ==
  ASSUME TreeInv, IsInjective(workspaces'), Live' = Live,
         \A v \in WorkspaceIds : IsInjective(tabs'[v]) /\ TabsOf(v)' = TabsOf(v),
         UNCHANGED <<pane_tree, drain>>
  PROVE  Forest' /\ LeavesBorn'
<1>1. Forest
  BY DEF TreeInv
<1>2. \A t \in TabIds : Leaves(t)' = Leaves(t) /\ pane_tree'[t] = pane_tree[t]
  BY DEF Leaves
<1>3. Forest'
  BY <1>1, <1>2 DEF Forest
<1>4. LeavesBorn'
  BY <1>2 DEF TreeInv, LeavesBorn
<1> QED
  BY <1>3, <1>4

-----------------------------------------------------------------------------
(* The forest through every action                                           *)

LEMMA PushTabTree ==
  ASSUME TreeInv, NEW w \in Live, NEW t \in FreshTabs, NEW p \in FreshPanes, PushTab(w, t, p)
  PROVE  Forest' /\ LeavesBorn'
<1> USE TreeTypes
<1> DEFINE ts == Append(tabs[w], t)
<1>1. /\ t \in TabIds /\ Leaves(t) = {} /\ \A v \in WorkspaceIds : t \notin TabsOf(v)
      /\ p \in PaneIds /\ w \in WorkspaceIds /\ drain[p] = "unborn"
  BY FreshFacts DEF FreshPanes
<1>2. /\ tabs' = [tabs EXCEPT ![w] = ts] /\ pane_tree' = [pane_tree EXCEPT ![t] = <<p>>]
      /\ drain' = [drain EXCEPT ![p] = "spawned"] /\ workspaces' = workspaces
  BY DEF PushTab
<1>3. ts \in Seq(TabIds) /\ IsInjective(ts) /\ ToSet(ts) = TabsOf(w) \cup {t}
  <2>1. tabs[w] \in Seq(TabIds) /\ IsInjective(tabs[w])
    BY <1>1 DEF TreeInv, Forest
  <2> QED
    BY <1>1, <2>1, AppendHolds, AppendDistinct DEF TabsOf
<1> HIDE DEF ts
<1>4. \A u \in TabIds \ {t} : pane_tree'[u] = pane_tree[u] /\ Leaves(u)' = Leaves(u)
  BY <1>1, <1>2 DEF Leaves
<1>5. pane_tree'[t] = <<p>> /\ Leaves(t)' = {p} /\ IsInjective(pane_tree'[t])
  BY <1>1, <1>2, OneElement DEF Leaves
<1>6. \A u \in TabsOf(w) : /\ u \in TabIds \ {t} /\ Leaves(u) # {}
                           /\ \A q \in Leaves(u) : q # p /\ drain[q] # "unborn"
  BY <1>1 DEF TreeInv, Forest, LeavesBorn
<1>7. TabsReplaced(w, ts)
  BY <1>1, <1>2, <1>3 DEF TreeInv, Forest, Live, TabsReplaced
<1>8. TreesReplaced(w, ts)
  <2>1. pane_tree' \in [TabIds -> Seq(PaneIds)] /\ \A u \in TabIds : IsInjective(pane_tree'[u])
    BY <1>1, <1>2, <1>4, <1>5 DEF TreeInv, Forest
  <2>2. ASSUME NEW u \in ToSet(ts), NEW v \in ToSet(ts), u # v PROVE Leaves(u)' \cap Leaves(v)' = {}
    <3>1. Leaves(u) \cap Leaves(v) = {}
      BY <1>1, <1>3, <1>6, <2>2 DEF TreeInv, Forest
    <3> QED
      BY <1>3, <1>4, <1>5, <1>6, <2>2, <3>1
  <2>3. \A u \in ToSet(ts) : /\ Leaves(u) \subseteq Leaves(u)' /\ Leaves(u)' # {}
                             /\ \A q \in Leaves(u)' : q \in Leaves(u) \/ drain[q] = "unborn"
    BY <1>1, <1>3, <1>4, <1>5, <1>6
  <2>4. \A u \in TabIds \ (TabsOf(w) \cup ToSet(ts)) : pane_tree'[u] = pane_tree[u]
    BY <1>3, <1>4
  <2>5. TabsOf(w) \subseteq ToSet(ts)
    BY <1>3
  <2> QED
    BY <2>1, <2>2, <2>3, <2>4, <2>5 DEF TreesReplaced
<1>9. LeavesSpawned(ts)
  BY <1>1, <1>2, <1>3, <1>4, <1>5, <1>6 DEF LeavesSpawned
<1> QED
  BY <1>1, <1>7, <1>8, <1>9, TabsChange

LEMMA SplitTree == ASSUME TreeInv, NEW p, NEW q, split_pane(p, q) PROVE Forest' /\ LeavesBorn'
<1> USE TreeTypes
<1>1. PICK w \in Live : \E t \in TabsOf(w) : \E i \in DOMAIN pane_tree[t] :
        pane_tree' = [pane_tree EXCEPT ![t] = InsertAt(@, i + 1, q)]
  BY DEF split_pane
<1>2. PICK t \in TabsOf(w) : \E i \in DOMAIN pane_tree[t] :
        pane_tree' = [pane_tree EXCEPT ![t] = InsertAt(@, i + 1, q)]
  BY <1>1
<1>3. PICK i \in DOMAIN pane_tree[t] : pane_tree' = [pane_tree EXCEPT ![t] = InsertAt(@, i + 1, q)]
  BY <1>2
<1>4. /\ t \in TabIds /\ w \in WorkspaceIds /\ pane_tree[t] \in Seq(PaneIds)
      /\ q \in PaneIds /\ drain[q] = "unborn" /\ \A u \in TabIds : q \notin Leaves(u)
  BY FreshFacts DEF split_pane, FreshPanes
<1>5. i + 1 \in 1 .. Len(pane_tree[t]) + 1
  BY <1>4
<1>6. Leaves(t)' = Leaves(t) \cup {q} /\ IsInjective(pane_tree'[t])
  <2>1. IsInjective(pane_tree[t]) /\ q \notin ToSet(pane_tree[t])
    BY <1>4 DEF TreeInv, Forest, Leaves
  <2>2. pane_tree'[t] = InsertAt(pane_tree[t], i + 1, q)
    BY <1>3, <1>4
  <2> QED
    BY <1>4, <1>5, <2>1, <2>2, InsertAtHolds, InsertAtDistinct DEF Leaves
<1>7. \A u \in TabIds \ {t} : pane_tree'[u] = pane_tree[u] /\ Leaves(u)' = Leaves(u)
  BY <1>3, <1>4 DEF Leaves
<1>8. Live' = Live /\ \A v \in WorkspaceIds : TabsOf(v)' = TabsOf(v)
  BY DEF split_pane, Live, TabsOf
<1>9. UNCHANGED <<workspaces, tabs>> /\ drain' = [drain EXCEPT ![q] = "spawned"]
  BY DEF split_pane
<1>10. Forest'
  <2>1. Forest
    BY DEF TreeInv
  <2>2. ASSUME NEW u \in TabIds
        PROVE  Leaves(u)' # {} <=> \E v \in WorkspaceIds : u \in TabsOf(v)'
    <3>1. Leaves(u)' # {} <=> Leaves(u) # {}
      <4>1. Leaves(t) # {}
        BY <1>2, <1>4, <2>1 DEF Forest
      <4> QED
        BY <1>6, <1>7, <4>1
    <3>2. Leaves(u) # {} <=> \E v \in WorkspaceIds : u \in TabsOf(v)
      BY <2>1 DEF Forest
    <3> QED
      BY <1>8, <3>1, <3>2
  <2>3. ASSUME NEW u \in TabIds, NEW v \in TabIds, u # v PROVE Leaves(u)' \cap Leaves(v)' = {}
    <3>1. Leaves(u) \cap Leaves(v) = {}
      BY <2>1, <2>3 DEF Forest
    <3> QED
      BY <1>4, <1>6, <1>7, <2>3, <3>1, ZenonT(60)
  <2>4. \A u \in TabIds : IsInjective(pane_tree'[u])
    BY <1>6, <1>7, <2>1 DEF Forest
  <2>5. \A v \in WorkspaceIds : IsInjective(tabs'[v])
    BY <1>9, <2>1 DEF Forest
  <2>6. /\ IsInjective(workspaces')
        /\ \A v \in WorkspaceIds \ Live' : TabsOf(v)' = {}
        /\ \A u, v \in WorkspaceIds : u # v => TabsOf(u)' \cap TabsOf(v)' = {}
    BY <1>8, <1>9, <2>1 DEF Forest
  <2> QED
    BY <2>2, <2>3, <2>4, <2>5, <2>6 DEF Forest
<1>11. LeavesBorn'
  BY <1>4, <1>6, <1>7, <1>9 DEF TreeInv, LeavesBorn
<1> QED
  BY <1>10, <1>11

LEMMA RemoveTabTree ==
  ASSUME TreeInv, NEW w \in Live, NEW i \in 1 .. Len(tabs[w]), NEW gone,
         NEW done \in [PaneIds -> DrainStates], NEW log,
         \A p \in PaneIds : drain[p] # "unborn" => done[p] # "unborn",
         RemoveTab(w, i, gone, done, log)
  PROVE  Forest' /\ LeavesBorn'
<1> USE TreeTypes
<1> DEFINE rest == RemoveAt(tabs[w], i)
<1>t. PICK t \in TabIds : t = tabs[w][i]
  OBVIOUS
<1>1. /\ w \in WorkspaceIds /\ tabs[w] \in Seq(TabIds) /\ IsInjective(tabs[w])
      /\ t \in TabsOf(w) /\ TabsOf(w) \subseteq TabIds
  BY <1>t, InToSet DEF TabsOf, TreeInv, Forest
<1>2. rest \in Seq(TabIds) /\ IsInjective(rest) /\ ToSet(rest) = TabsOf(w) \ {t}
  BY <1>t, <1>1, RemoveAtProperties, RemoveAtDistinct DEF TabsOf
<1>3. /\ \A u, v \in TabIds : u # v => Leaves(u) \cap Leaves(v) = {}
      /\ \A u \in TabIds : IsInjective(pane_tree[u]) /\ \A p \in Leaves(u) : drain[p] # "unborn"
      /\ \A u \in TabsOf(w) : Leaves(u) # {}
  BY <1>1 DEF TreeInv, Forest, LeavesBorn
<1>4. IsInjective(workspaces') /\ Live' = Live
  BY DEF RemoveTab, TreeInv, Forest, Live
<1> HIDE DEF rest
<1>5. ASSUME tabs' = [tabs EXCEPT ![w] = rest], pane_tree' = [pane_tree EXCEPT ![t] = <<>>],
             drain' = done
      PROVE  Forest' /\ LeavesBorn'
  <2>1. Leaves(t)' = {} /\ IsInjective(pane_tree'[t])
    BY <1>1, <1>5, NoElement DEF Leaves
  <2>2. \A u \in TabIds \ {t} : pane_tree'[u] = pane_tree[u] /\ Leaves(u)' = Leaves(u)
    BY <1>1, <1>5 DEF Leaves
  <2>3. TabsReplaced(w, rest)
    BY <1>2, <1>4, <1>5 DEF TabsReplaced
  <2>4. TreesReplaced(w, rest)
    <3>1. pane_tree' \in [TabIds -> Seq(PaneIds)] /\ \A u \in TabIds : IsInjective(pane_tree'[u])
      BY <1>1, <1>3, <1>5, <2>1, <2>2
    <3>2. \A u, v \in ToSet(rest) : u # v => Leaves(u)' \cap Leaves(v)' = {}
      BY <1>1, <1>2, <1>3, <2>2
    <3>3. /\ \A u \in TabIds \ (TabsOf(w) \cup ToSet(rest)) : pane_tree'[u] = pane_tree[u]
          /\ \A u \in TabsOf(w) \ ToSet(rest) : Leaves(u)' = {}
      BY <1>1, <1>2, <2>1, <2>2
    <3>4. \A u \in ToSet(rest) : /\ Leaves(u) \subseteq Leaves(u)' /\ Leaves(u)' # {}
                                 /\ \A q \in Leaves(u)' : q \in Leaves(u) \/ drain[q] = "unborn"
      BY <1>1, <1>2, <1>3, <2>2
    <3> QED
      BY <3>1, <3>2, <3>3, <3>4 DEF TreesReplaced
  <2>5. LeavesSpawned(rest)
    BY <1>1, <1>2, <1>3, <1>5, <2>2 DEF LeavesSpawned
  <2> QED
    BY <1>1, <2>3, <2>4, <2>5, TabsChange
<1>6. ASSUME NEW q \in FreshPanes, NEW u \in FreshTabs, rest = <<>>,
             tabs' = [tabs EXCEPT ![w] = <<u>>],
             pane_tree' = [pane_tree EXCEPT ![t] = <<>>, ![u] = <<q>>],
             drain' = [done EXCEPT ![q] = "spawned"]
      PROVE  Forest' /\ LeavesBorn'
  <2> DEFINE ts == <<u>>
  <2>1. /\ u \in TabIds /\ u # t /\ Leaves(u) = {} /\ TabsOf(w) = {t} /\ u \notin TabsOf(w)
        /\ q \in PaneIds /\ drain[q] = "unborn"
    BY <1>1, <1>2, <1>6, NoElement, FreshFacts DEF FreshPanes
  <2>2. ts \in Seq(TabIds) /\ IsInjective(ts) /\ ToSet(ts) = {u}
    BY <2>1, OneElement
  <2> HIDE DEF ts
  <2>3. /\ Leaves(t)' = {} /\ IsInjective(pane_tree'[t])
        /\ Leaves(u)' = {q} /\ IsInjective(pane_tree'[u])
    <3>1. pane_tree'[t] = <<>> /\ pane_tree'[u] = <<q>>
      BY <1>1, <1>6, <2>1
    <3> QED
      BY <3>1, NoElement, OneElement DEF Leaves
  <2>4. \A v \in TabIds \ {t, u} : pane_tree'[v] = pane_tree[v]
    BY <1>1, <1>6, <2>1
  <2>5. TabsReplaced(w, ts)
    BY <1>4, <1>6, <2>2 DEF TabsReplaced, ts
  <2>6. TreesReplaced(w, ts)
    <3>1. pane_tree' \in [TabIds -> Seq(PaneIds)]
      <4>1. <<>> \in Seq(PaneIds) /\ <<q>> \in Seq(PaneIds)
        BY <2>1
      <4> QED
        BY <1>6, <4>1
    <3>2. \A v \in TabIds : IsInjective(pane_tree'[v])
      BY <1>3, <2>3, <2>4
    <3> QED
      BY <2>1, <2>2, <2>3, <2>4, <3>1, <3>2 DEF TreesReplaced
  <2>7. LeavesSpawned(ts)
    BY <1>6, <2>1, <2>2, <2>3 DEF LeavesSpawned
  <2> QED
    BY <1>1, <2>5, <2>6, <2>7, TabsChange
<1> QED
  BY <1>t, <1>5, <1>6 DEF RemoveTab, rest

LEMMA ClosePaneTree ==
  ASSUME TreeInv, NEW p, NEW done \in [PaneIds -> DrainStates],
         \A q \in PaneIds : drain[q] # "unborn" => done[q] # "unborn",
         ClosePane(p, done)
  PROVE  Forest' /\ LeavesBorn'
<1>1. ASSUME NEW w \in Live, NEW i \in DOMAIN tabs[w], RemoveTab(w, i, {p}, done, <<PaneClosed(p)>>)
      PROVE  Forest' /\ LeavesBorn'
  <2>1. i \in 1 .. Len(tabs[w])
    BY TreeTypes
  <2> QED
    BY <1>1, <2>1, RemoveTabTree
<1>2. CASE drain' = done /\ UNCHANGED layout
  <2>1. UNCHANGED <<workspaces, tabs, pane_tree>> /\ \A q \in PaneIds : drain[q] # "unborn" => drain'[q] # "unborn"
    BY <1>2 DEF layout
  <2> QED
    BY <2>1, LayoutStays
<1> QED
  BY <1>1, <1>2 DEF ClosePane

LEMMA CreateTree == ASSUME TreeInv, Create PROVE Forest' /\ LeavesBorn'
<1> USE TreeTypes
<1>1. ASSUME NEW p \in PaneIds, NEW t \in TabIds, create_pane(t, p)
      PROVE  Forest' /\ LeavesBorn'
  <2>1. workspaces[1] \in Live
    <3>1. 1 \in 1 .. Len(workspaces)
      BY DEF TreeInv, LogInv, IndexInv, TypeOK, IndicesValid
    <3> QED
      BY <3>1, InToSet DEF Live
  <2> QED
    BY <1>1, <2>1, PushTabTree DEF create_pane
<1>2. ASSUME NEW p \in PaneIds, NEW t \in TabIds, NEW idx \in Indexes(workspaces),
             create_tab(idx, t, p)
      PROVE  Forest' /\ LeavesBorn'
  <2>1. WorkspaceAt(idx) \in Live
    <3>1. idx + 1 \in 1 .. Len(workspaces)
      BY DEF Indexes
    <3> QED
      BY <3>1, InToSet DEF Live, WorkspaceAt
  <2> QED
    BY <1>2, <2>1, PushTabTree DEF create_tab
<1>3. ASSUME NEW p \in PaneIds, NEW q \in PaneIds, split_pane(p, q)
      PROVE  Forest' /\ LeavesBorn'
  BY <1>3, SplitTree
<1>4. ASSUME NEW w \in WorkspaceIds, create_workspace(w)
      PROVE  Forest' /\ LeavesBorn'
  <2>1. /\ workspaces' = Append(workspaces, w) /\ tabs' = [tabs EXCEPT ![w] = <<>>]
        /\ UNCHANGED <<pane_tree, drain>> /\ w \notin Live /\ TabsOf(w) = {}
    BY <1>4, FreshFacts DEF create_workspace
  <2>2. IsInjective(workspaces') /\ Live' = Live \cup {w}
    <3>1. IsInjective(workspaces)
      BY DEF TreeInv, Forest
    <3> QED
      BY <2>1, <3>1, AppendHolds, AppendDistinct DEF Live
  <2>3. \A v \in WorkspaceIds : IsInjective(tabs'[v]) /\ TabsOf(v)' = TabsOf(v)
    BY <2>1, NoElement DEF TreeInv, Forest, TabsOf
  <2>4. \A t \in TabIds : Leaves(t)' = Leaves(t) /\ pane_tree'[t] = pane_tree[t]
    BY <2>1 DEF Leaves
  <2>5. Forest'
    BY <2>2, <2>3, <2>4 DEF TreeInv, Forest
  <2>6. LeavesBorn'
    BY <2>1, <2>4 DEF TreeInv, LeavesBorn
  <2> QED
    BY <2>5, <2>6
<1> QED
  BY <1>1, <1>2, <1>3, <1>4 DEF Create

LEMMA CommitTree ==
  ASSUME TreeInv, NEW d \in dups, NEW w \in WorkspaceIds, NEW ts \in [1 .. Len(d.panes) -> FreshTabs],
         DuplicateCommit(d, w, ts)
  PROVE  Forest' /\ LeavesBorn'
<1> USE TreeTypes
<1> DEFINE n == Len(d.panes)
           at == ClampedInsert(d)
           IndexOf(t) == CHOOSE k \in 1 .. n : ts[k] = t
<1>1. /\ d.panes \in Seq(PaneIds) /\ d.insert_at \in Nat /\ n \in Nat /\ DOMAIN d.panes = 1 .. n
      /\ \A k \in 1 .. n : d.panes[k] \in PaneIds /\ drain[d.panes[k]] = "unborn"
      /\ \A j, k \in 1 .. n : d.panes[j] = d.panes[k] => j = k
  <2>1. d.panes \in Seq(PaneIds) /\ d.insert_at \in Nat /\ IsInjective(d.panes)
    BY DEF TreeInv, LogInv, IndexInv, TypeOK, DupType, ReservedDistinct
  <2>2. \A p \in ToSet(d.panes) : drain[p] = "unborn"
    BY DEF TreeInv, LogInv, ReservedOnce
  <2>3. \A k \in 1 .. n : d.panes[k] \in ToSet(d.panes)
    BY <2>1, InToSet
  <2>4. \A j, k \in 1 .. n : d.panes[j] = d.panes[k] => j = k
    BY <2>1, DistinctPlaces
  <2>5. \A k \in 1 .. n : d.panes[k] \in PaneIds /\ drain[d.panes[k]] = "unborn"
    BY <2>1, <2>2, <2>3
  <2>6. n \in Nat /\ DOMAIN d.panes = 1 .. n
    BY <2>1
  <2> QED
    BY <2>1, <2>4, <2>5, <2>6
<1>2. /\ w \notin Live /\ IsInjective(ts)
      /\ workspaces' = InsertAt(workspaces, at + 1, w)
      /\ tabs' = [tabs EXCEPT ![w] = ts]
      /\ pane_tree' = [t \in TabIds |->
                          IF t \in ToSet(ts) THEN <<d.panes[IndexOf(t)]>> ELSE pane_tree[t]]
      /\ drain' = [p \in PaneIds |-> IF p \in ToSet(d.panes) THEN "spawned" ELSE drain[p]]
  BY DEF DuplicateCommit, FreshWorkspaces
<1>3. IsInjective(workspaces') /\ Live' = Live \cup {w}
  <2>1. at + 1 \in 1 .. Len(workspaces) + 1
    BY <1>1 DEF ClampedInsert
  <2> HIDE DEF at
  <2>2. IsInjective(workspaces) /\ w \notin ToSet(workspaces)
    BY <1>2 DEF TreeInv, Forest, Live
  <2> QED
    BY <1>2, <2>1, <2>2, InsertAtHolds, InsertAtDistinct DEF Live
<1>4. DOMAIN ts = 1 .. n /\ \A k \in 1 .. n : ts[k] \in FreshTabs
  OBVIOUS
<1>5. ts \in Seq(TabIds)
  <2>1. ts \in [1 .. n -> TabIds]
    BY <1>4 DEF FreshTabs
  <2> QED
    BY <1>1, <2>1, FunctionIsSeq
<1>6. /\ ToSet(ts) = {ts[k] : k \in 1 .. n}
      /\ \A t \in ToSet(ts) : t \in FreshTabs /\ t \in TabIds /\ Leaves(t) = {}
  <2>1. ToSet(ts) = {ts[k] : k \in 1 .. n}
    BY <1>4 DEF ToSet
  <2> QED
    BY <1>4, <2>1, FreshFacts
<1>7. \A j, k \in 1 .. n : ts[j] = ts[k] => j = k
  BY <1>2, <1>4 DEF IsInjective
<1>8. ASSUME NEW k \in 1 .. n
      PROVE  Leaves(ts[k])' = {d.panes[k]} /\ IsInjective(pane_tree'[ts[k]])
  <2>1. IndexOf(ts[k]) = k
    BY <1>7
  <2>2. ts[k] \in ToSet(ts) /\ ts[k] \in TabIds
    BY <1>6
  <2>3. pane_tree'[ts[k]] = <<d.panes[k]>>
    BY <1>2, <2>1, <2>2
  <2> QED
    BY <2>3, OneElement DEF Leaves
<1>9. pane_tree' \in [TabIds -> Seq(PaneIds)]
  <2>1. ASSUME NEW t \in ToSet(ts) PROVE <<d.panes[IndexOf(t)]>> \in Seq(PaneIds)
    <3>1. PICK k \in 1 .. n : ts[k] = t
      BY <1>6
    <3>2. IndexOf(t) \in 1 .. n
      BY <3>1
    <3> HIDE DEF IndexOf
    <3> QED
      BY <1>1, <3>2
  <2> HIDE DEF IndexOf
  <2> QED
    BY <1>2, <2>1
<1> HIDE DEF IndexOf, at
<1>10. \A t \in TabIds \ ToSet(ts) : pane_tree'[t] = pane_tree[t]
  BY <1>2
<1>11. TabsOf(w) = {} /\ TabsReplaced(w, ts)
  <2>1. TabsOf(w) = {}
    BY <1>2, FreshFacts DEF FreshWorkspaces
  <2> QED
    BY <1>2, <1>3, <1>5, <1>6, <2>1 DEF TabsReplaced
<1>12. TreesReplaced(w, ts)
  <2>1. \A t \in TabIds : IsInjective(pane_tree'[t])
    BY <1>6, <1>8, <1>10 DEF TreeInv, Forest
  <2>2. ASSUME NEW t \in ToSet(ts)
        PROVE  /\ Leaves(t) \subseteq Leaves(t)' /\ Leaves(t)' # {}
               /\ \A p \in Leaves(t)' : p \in Leaves(t) \/ drain[p] = "unborn"
    <3>1. PICK k \in 1 .. n : ts[k] = t
      BY <1>6
    <3>2. Leaves(t)' = {d.panes[k]}
      BY <1>8, <3>1
    <3> QED
      BY <1>1, <1>6, <3>2
  <2>3. ASSUME NEW t \in ToSet(ts), NEW u \in ToSet(ts), t # u PROVE Leaves(t)' \cap Leaves(u)' = {}
    <3>1. PICK j \in 1 .. n : ts[j] = t
      BY <1>6
    <3>2. PICK k \in 1 .. n : ts[k] = u
      BY <1>6
    <3>3. d.panes[j] # d.panes[k]
      BY <1>1, <2>3, <3>1, <3>2
    <3>4. Leaves(t)' = {d.panes[j]} /\ Leaves(u)' = {d.panes[k]}
      BY <1>8, <3>1, <3>2
    <3> QED
      BY <3>3, <3>4
  <2> QED
    BY <1>9, <1>10, <1>11, <2>1, <2>2, <2>3 DEF TreesReplaced
<1>13. LeavesSpawned(ts)
  <2>1. \A p \in PaneIds : drain[p] # "unborn" => drain'[p] # "unborn"
    BY <1>2
  <2>2. ASSUME NEW t \in ToSet(ts), NEW p \in Leaves(t)' PROVE drain'[p] # "unborn"
    <3>1. PICK k \in 1 .. n : ts[k] = t
      BY <1>6
    <3>2. p = d.panes[k]
      BY <1>8, <3>1
    <3>3. p \in ToSet(d.panes) /\ p \in PaneIds
      BY <1>1, <3>2, InToSet
    <3> QED
      BY <1>2, <3>3
  <2> QED
    BY <2>1, <2>2 DEF LeavesSpawned
<1> QED
  BY <1>11, <1>12, <1>13, TabsChange

LEMMA DeleteTree ==
  ASSUME TreeInv, NEW idx \in Indexes(workspaces), delete_workspace(idx)
  PROVE  Forest' /\ LeavesBorn'
<1> USE TreeTypes
<1>1. PICK w \in WorkspaceIds : w = WorkspaceAt(idx) /\ w = workspaces[idx + 1] /\ idx + 1 \in 1 .. Len(workspaces)
  BY DEF Indexes, WorkspaceAt
<1>2. /\ workspaces' = RemoveAt(workspaces, idx + 1)
      /\ tabs' = [tabs EXCEPT ![w] = <<>>]
      /\ pane_tree' = [t \in TabIds |-> IF t \in TabsOf(w) THEN <<>> ELSE pane_tree[t]]
      /\ drain' = drain
  BY <1>1 DEF delete_workspace
<1>3. Forest
  BY DEF TreeInv
<1>4. IsInjective(workspaces') /\ Live' = Live \ {w}
  BY <1>1, <1>2, <1>3, RemoveAtDistinct DEF Forest, Live
<1>5. TabsOf(w)' = {} /\ \A v \in WorkspaceIds \ {w} : TabsOf(v)' = TabsOf(v) /\ tabs'[v] = tabs[v]
  BY <1>2, NoElement DEF TabsOf
<1>6. \A v \in WorkspaceIds : IsInjective(tabs'[v])
  BY <1>2, <1>3, NoElement DEF Forest
<1>7. ASSUME NEW t \in TabIds
      PROVE  /\ IsInjective(pane_tree'[t]) /\ Leaves(t)' \subseteq Leaves(t)
             /\ t \in TabsOf(w) => Leaves(t)' = {}
             /\ t \notin TabsOf(w) => Leaves(t)' = Leaves(t)
  <2>1. CASE t \in TabsOf(w)
    <3>1. pane_tree'[t] = <<>>
      BY <1>2, <2>1
    <3> QED
      BY <2>1, <3>1, NoElement DEF Leaves
  <2>2. CASE t \notin TabsOf(w)
    BY <1>2, <1>3, <2>2 DEF Forest, Leaves
  <2> QED
    BY <2>1, <2>2
<1>8. ASSUME NEW t \in TabIds
      PROVE  Leaves(t)' # {} <=> \E v \in WorkspaceIds : t \in TabsOf(v)'
  <2>1. CASE t \in TabsOf(w)
    <3>1. \A v \in WorkspaceIds \ {w} : t \notin TabsOf(v)
      BY <1>3, <2>1 DEF Forest
    <3>2. \A v \in WorkspaceIds : t \notin TabsOf(v)'
      BY <1>5, <3>1
    <3> QED
      BY <1>7, <2>1, <3>2
  <2>2. CASE t \notin TabsOf(w)
    <3>1. Leaves(t) # {} <=> \E v \in WorkspaceIds : t \in TabsOf(v)
      BY <1>3 DEF Forest
    <3>2. \A v \in WorkspaceIds : t \in TabsOf(v)' <=> t \in TabsOf(v)
      BY <1>5, <2>2
    <3> QED
      BY <1>7, <2>2, <3>1, <3>2
  <2> QED
    BY <2>1, <2>2
<1>9. \A t, u \in TabIds : t # u => Leaves(t)' \cap Leaves(u)' = {}
  <2>1. \A t, u \in TabIds : t # u => Leaves(t) \cap Leaves(u) = {}
    BY <1>3 DEF Forest
  <2> QED
    BY <1>7, <2>1
<1>10. \A v \in WorkspaceIds \ Live' : TabsOf(v)' = {}
  <2>1. \A v \in WorkspaceIds \ Live : TabsOf(v) = {}
    BY <1>3 DEF Forest
  <2> QED
    BY <1>4, <1>5, <2>1
<1>11. \A u, v \in WorkspaceIds : u # v => TabsOf(u)' \cap TabsOf(v)' = {}
  <2>1. \A u, v \in WorkspaceIds : u # v => TabsOf(u) \cap TabsOf(v) = {}
    BY <1>3 DEF Forest
  <2>2. \A v \in WorkspaceIds : TabsOf(v)' \subseteq TabsOf(v)
    BY <1>5
  <2> QED
    BY <2>1, <2>2
<1>12. Forest'
  BY <1>4, <1>6, <1>7, <1>8, <1>9, <1>10, <1>11 DEF Forest
<1>13. LeavesBorn'
  BY <1>2, <1>7 DEF TreeInv, LeavesBorn
<1> QED
  BY <1>12, <1>13

LEMMA ArrangeTree == ASSUME TreeInv, Arrange PROVE Forest' /\ LeavesBorn'
<1> USE TreeTypes
<1>1. ASSUME NEW from \in Indexes(workspaces), NEW to \in Indexes(workspaces),
             move_workspace(from, to)
      PROVE  Forest' /\ LeavesBorn'
  <2> DEFINE swap(k) == IF k = from + 1 THEN to + 1 ELSE IF k = to + 1 THEN from + 1 ELSE k
  <2>1. /\ from + 1 \in 1 .. Len(workspaces) /\ to + 1 \in 1 .. Len(workspaces) /\ from # to
        /\ from \in Int /\ to \in Int
    BY <1>1 DEF Indexes, move_workspace
  <2>2. /\ workspaces' = [workspaces EXCEPT ![from + 1] = workspaces[to + 1], ![to + 1] = workspaces[from + 1]]
        /\ UNCHANGED <<tabs, pane_tree, drain>>
    BY <1>1 DEF move_workspace, WorkspaceAt
  <2>3. /\ DOMAIN workspaces = 1 .. Len(workspaces) /\ DOMAIN workspaces' = 1 .. Len(workspaces)
        /\ \A k \in 1 .. Len(workspaces) : workspaces'[k] = workspaces[swap(k)]
    BY <2>1, <2>2
  <2>4. \A k \in 1 .. Len(workspaces) : swap(k) \in 1 .. Len(workspaces) /\ swap(swap(k)) = k
    BY <2>1
  <2> HIDE DEF swap
  <2>5. IsInjective(workspaces')
    <3>1. \A j, k \in 1 .. Len(workspaces) : workspaces[j] = workspaces[k] => j = k
      BY <2>3 DEF TreeInv, Forest, IsInjective
    <3>2. ASSUME NEW j \in 1 .. Len(workspaces), NEW k \in 1 .. Len(workspaces),
                 workspaces'[j] = workspaces'[k]
          PROVE  swap(j) = swap(k)
      <4>1. workspaces[swap(j)] = workspaces[swap(k)]
        BY <2>3, <3>2
      <4> QED
        BY <2>4, <3>1, <4>1
    <3>3. \A j, k \in 1 .. Len(workspaces) : swap(j) = swap(k) => j = k
      BY <2>4
    <3> QED
      BY <2>3, <3>2, <3>3 DEF IsInjective
  <2>6. Live' = Live
    <3>1. Live = {workspaces[k] : k \in 1 .. Len(workspaces)}
      BY <2>3 DEF Live, ToSet
    <3>2. Live' = {workspaces'[k] : k \in 1 .. Len(workspaces)}
      BY <2>3 DEF Live, ToSet
    <3>3. ASSUME NEW v \in Live' PROVE v \in Live
      <4>1. PICK k \in 1 .. Len(workspaces) : v = workspaces'[k]
        BY <3>2
      <4> QED
        BY <2>3, <2>4, <3>1, <4>1
    <3>4. ASSUME NEW v \in Live PROVE v \in Live'
      <4>1. PICK k \in 1 .. Len(workspaces) : v = workspaces[k]
        BY <3>1
      <4>2. v = workspaces'[swap(k)]
        BY <2>3, <2>4, <4>1
      <4> QED
        BY <2>4, <3>2, <4>2
    <3> QED
      BY <3>3, <3>4
  <2>7. \A v \in WorkspaceIds : IsInjective(tabs'[v]) /\ TabsOf(v)' = TabsOf(v)
    BY <2>2 DEF TreeInv, Forest, TabsOf
  <2> QED
    BY <2>2, <2>5, <2>6, <2>7, Reordered
<1>2. ASSUME NEW w \in Live, NEW i \in DOMAIN tabs[w], NEW j \in 0 .. Len(tabs[w]),
             move_tab(w, i, j)
      PROVE  Forest' /\ LeavesBorn'
  <2> DEFINE last == Len(tabs[w]) - 1
             target == IF j < last THEN j ELSE last
             moved == Moved(tabs[w], i, target + 1)
  <2>1. /\ w \in WorkspaceIds /\ tabs[w] \in Seq(TabIds) /\ i \in 1 .. Len(tabs[w])
        /\ IsInjective(tabs[w])
    BY DEF TreeInv, Forest
  <2>2. target + 1 \in 1 .. Len(tabs[w])
    BY <2>1
  <2>3. tabs' = [tabs EXCEPT ![w] = moved] /\ UNCHANGED <<workspaces, pane_tree, drain>>
    BY <1>2 DEF move_tab
  <2> HIDE DEF target
  <2>4. IsInjective(moved) /\ ToSet(moved) = ToSet(tabs[w])
    BY <2>1, <2>2, MovedDistinct
  <2> HIDE DEF moved
  <2>5. \A v \in WorkspaceIds : IsInjective(tabs'[v]) /\ TabsOf(v)' = TabsOf(v)
    BY <2>1, <2>3, <2>4 DEF TabsOf, TreeInv, Forest
  <2>6. IsInjective(workspaces') /\ Live' = Live
    BY <2>3 DEF TreeInv, Forest, Live
  <2> QED
    BY <2>3, <2>5, <2>6, Reordered
<1>3. CASE UNCHANGED <<workspaces, tabs, pane_tree, drain>>
  BY <1>3, LayoutStays
<1> QED
  BY <1>1, <1>2, <1>3 DEF Arrange, set_active_workspace, set_active_tab, set_active_pane

LEMMA DrainTree ==
  ASSUME TreeInv, NEW p \in PaneIds, SpawnDrainTask(p) \/ DrainEnds(p)
  PROVE  Forest' /\ LeavesBorn'
<1> USE TreeTypes
<1>1. CASE SpawnDrainTask(p)
  <2>1. /\ UNCHANGED layout
        /\ \/ drain' = [drain EXCEPT ![p] = "opened"]
           \/ drain' = [drain EXCEPT ![p] = "ready"]
           \/ drain' = [drain EXCEPT ![p] = IF p \in panes THEN "running" ELSE "done"]
    BY <1>1 DEF SpawnDrainTask, OpenByteLog, RegisterByteLog, TakeOutputRx, DrainStep
  <2>2. UNCHANGED <<workspaces, tabs, pane_tree>> /\ \A q \in PaneIds : drain[q] # "unborn" => drain'[q] # "unborn"
    BY <2>1 DEF layout
  <2> QED
    BY <2>2, LayoutStays
<1>2. CASE DrainEnds(p)
  <2> DEFINE done == [drain EXCEPT ![p] = "done"]
  <2>1. done \in [PaneIds -> DrainStates] /\ \A q \in PaneIds : drain[q] # "unborn" => done[q] # "unborn"
    BY DEF DrainStates
  <2>2. CASE ClosePane(p, done)
    <3> HIDE DEF done
    <3> QED
      BY <2>1, <2>2, ClosePaneTree
  <2>3. CASE drain' = done /\ UNCHANGED layout
    <3>1. UNCHANGED <<workspaces, tabs, pane_tree>>
      BY <2>3 DEF layout
    <3> QED
      BY <2>1, <2>3, <3>1, LayoutStays
  <2> QED
    BY <1>2, <2>2, <2>3 DEF DrainEnds, DrainStep
<1> QED
  BY <1>1, <1>2

(* A duplicate reserves as many different panes as it has tabs to fill.      *)
LEMMA NextReserved == ASSUME TreeInv, Next PROVE ReservedDistinct'
<1>1. CASE dups' \subseteq dups
  BY <1>1 DEF TreeInv, ReservedDistinct
<1>2. ASSUME NEW idx \in Indexes(workspaces),
             NEW ps \in [1 .. Len(tabs[WorkspaceAt(idx)]) -> FreshPanes],
             DuplicateSnapshot(idx, ps)
      PROVE  ReservedDistinct'
  <2> DEFINE d == [source |-> WorkspaceAt(idx), insert_at |-> idx + 1, panes |-> ps]
  <2>1. dups' = dups \cup {d} /\ IsInjective(d.panes)
    BY <1>2 DEF DuplicateSnapshot
  <2> HIDE DEF d
  <2> QED
    BY <2>1 DEF TreeInv, ReservedDistinct
<1>3. CASE Create
  BY <1>1, <1>3 DEF Create, create_pane, create_tab, split_pane, create_workspace, PushTab
<1>4. CASE Duplicate
  BY <1>1, <1>2, <1>4 DEF Duplicate, DuplicateSpawnFails, DuplicateCommit
<1>5. CASE Close
  BY <1>1, <1>5 DEF Close, close_tab, close_pane, ClosePane, delete_workspace, RemoveTab
<1>6. CASE Arrange
  BY <1>1, <1>6 DEF Arrange, move_workspace, move_tab, set_active_workspace, set_active_tab, set_active_pane
<1>7. ASSUME NEW p \in PaneIds, SpawnDrainTask(p) \/ DrainEnds(p) PROVE ReservedDistinct'
  BY <1>1, <1>7 DEF SpawnDrainTask, OpenByteLog, RegisterByteLog, TakeOutputRx, DrainEnds, ClosePane, RemoveTab
<1> QED
  BY <1>3, <1>4, <1>5, <1>6, <1>7 DEF Next

LEMMA NextTreeInv == TreeInv /\ [Next]_vars => TreeInv'
<1> SUFFICES ASSUME TreeInv, [Next]_vars PROVE Forest' /\ LeavesBorn' /\ ReservedDistinct'
  BY NextLogInv DEF TreeInv
<1>1. ASSUME Duplicate PROVE Forest' /\ LeavesBorn'
  <2>1. CASE UNCHANGED <<workspaces, tabs, pane_tree, drain>>
    BY <2>1, LayoutStays
  <2> QED
    BY <1>1, <2>1, CommitTree DEF Duplicate, DuplicateSnapshot, DuplicateSpawnFails, layout
<1>2. ASSUME Close PROVE Forest' /\ LeavesBorn'
  <2>1. drain \in [PaneIds -> DrainStates]
    BY TreeTypes
  <2>2. ASSUME NEW w \in Live, NEW i \in DOMAIN tabs[w], close_tab(w, i) PROVE Forest' /\ LeavesBorn'
    <3>1. i \in 1 .. Len(tabs[w])
      BY TreeTypes
    <3> QED
      BY <2>1, <2>2, <3>1, RemoveTabTree DEF close_tab
  <2> QED
    BY <1>2, <2>1, <2>2, ClosePaneTree, DeleteTree DEF Close, close_pane
<1>3. CASE UNCHANGED vars
  <2>1. UNCHANGED <<workspaces, tabs, pane_tree, drain, dups>>
    BY <1>3 DEF vars, layout
  <2> QED
    BY <2>1, LayoutStays DEF TreeInv, ReservedDistinct
<1>4. CASE Next
  BY <1>1, <1>2, <1>4, CreateTree, ArrangeTree, DrainTree, NextReserved DEF Next
<1> QED
  BY <1>3, <1>4

LEMMA InitTreeInv == Init => TreeInv
<1> SUFFICES ASSUME Init PROVE LogInv /\ Forest /\ LeavesBorn /\ ReservedDistinct
  BY DEF TreeInv
<1>1. LogInv
  BY InitIndexInv DEF LogInv, LogFollowsDrain, ReservedOnce, Init
<1>2. PICK w \in WorkspaceIds : workspaces = <<w>>
  BY DEF Init
<1>3. IsInjective(workspaces)
  BY <1>2, OneElement
<1>4. /\ \A v \in WorkspaceIds : IsInjective(tabs[v]) /\ TabsOf(v) = {}
      /\ \A t \in TabIds : IsInjective(pane_tree[t]) /\ Leaves(t) = {}
  BY NoElement DEF Init, TabsOf, Leaves
<1>5. Forest /\ LeavesBorn
  BY <1>3, <1>4 DEF Forest, LeavesBorn
<1> QED
  BY <1>1, <1>5 DEF Init, ReservedDistinct

(* The layout stays a forest: whatever closes, deletes, splits, duplicates   *)
(* and failed spawns interleave, no workspace, tab or leaf is in two places, *)
(* a deleted workspace keeps no tab and a tab that is gone keeps no leaf.    *)
(* Freshness is what carries it: close_pane leaves the leaves of a split in  *)
(* the tree, so a new pane must differ from every pane there ever was.       *)
THEOREM LayoutStaysForest == Spec => []TreeConsistent
<1>1. TreeInv => TreeConsistent
  BY ForestIsTree DEF TreeInv, LogInv, IndexInv
<1> QED
  BY <1>1, InitTreeInv, NextTreeInv, PTL DEF Spec

-----------------------------------------------------------------------------
(* pane_order and the registry.  A pane comes at the end of the order when   *)
(* it is registered and is retained out of it when it goes; that it is not   *)
(* there already needs what the forest needs, a pane that was never born.    *)

RegisteredBorn == \A p \in panes : drain[p] # "unborn"

OrderInv == TreeInv /\ pane_order \in Seq(PaneIds) /\ OrderMatchesRegistry /\ RegisteredBorn

OrderKept == pane_order' \in Seq(PaneIds) /\ OrderMatchesRegistry' /\ RegisteredBorn'

LEMMA OrderTypes ==
  ASSUME OrderInv
  PROVE  /\ pane_order \in Seq(PaneIds) /\ IsInjective(pane_order) /\ ToSet(pane_order) = panes
         /\ panes \subseteq PaneIds /\ drain \in [PaneIds -> DrainStates]
         /\ \A p \in panes : drain[p] # "unborn"
         /\ TreeInv
<1>1. panes \subseteq PaneIds /\ drain \in [PaneIds -> DrainStates]
  BY TreeTypes DEF OrderInv, TreeInv, LogInv, IndexInv, TypeOK
<1> QED
  BY <1>1 DEF OrderInv, OrderMatchesRegistry, RegisteredBorn

LEMMA OrderWithout ==
  ASSUME OrderInv, NEW gone
  PROVE  /\ Without(pane_order, gone) \in Seq(PaneIds)
         /\ IsInjective(Without(pane_order, gone))
         /\ ToSet(Without(pane_order, gone)) = panes \ gone
<1> DEFINE keep == ToSet(pane_order) \ gone
           o == Retain(pane_order, keep)
<1>1. o \in Seq(PaneIds) /\ ToSet(o) = ToSet(pane_order) \cap keep /\ IsInjective(o)
  <2> HIDE DEF keep
  <2> QED
    BY OrderTypes, RetainProperties
<1>2. ToSet(pane_order) = panes
  BY OrderTypes
<1>3. Without(pane_order, gone) = o
  BY DEF Without
<1> QED
  BY <1>1, <1>2, <1>3

(* A step that registers no pane                                             *)
LEMMA OrderShrinks ==
  ASSUME OrderInv, NEW gone, panes' = panes \ gone,
         pane_order' = Without(pane_order, gone),
         \A p \in PaneIds : drain[p] # "unborn" => drain'[p] # "unborn"
  PROVE  OrderKept
<1>1. /\ pane_order' \in Seq(PaneIds) /\ IsInjective(pane_order') /\ ToSet(pane_order') = panes'
  BY OrderWithout
<1>2. RegisteredBorn'
  BY OrderTypes DEF RegisteredBorn
<1> QED
  BY <1>1, <1>2 DEF OrderKept, OrderMatchesRegistry

LEMMA OrderStays ==
  ASSUME OrderInv, UNCHANGED <<panes, pane_order>>,
         \A p \in PaneIds : drain[p] # "unborn" => drain'[p] # "unborn"
  PROVE  OrderKept
<1>1. RegisteredBorn'
  BY OrderTypes DEF RegisteredBorn
<1>2. OrderMatchesRegistry' /\ pane_order' \in Seq(PaneIds)
  BY DEF OrderInv, OrderMatchesRegistry
<1> QED
  BY <1>1, <1>2 DEF OrderKept

(* A step that registers the pane q, once `o` is left of the order           *)
LEMMA OrderGrows ==
  ASSUME OrderInv, NEW gone, NEW o \in Seq(PaneIds), NEW q \in PaneIds,
         IsInjective(o), ToSet(o) = panes \ gone, drain[q] = "unborn",
         panes' = (panes \ gone) \cup {q}, pane_order' = Append(o, q),
         \A p \in PaneIds : drain[p] # "unborn" \/ p = q => drain'[p] # "unborn"
  PROVE  OrderKept
<1>1. q \notin ToSet(o)
  BY OrderTypes
<1>2. pane_order' \in Seq(PaneIds) /\ IsInjective(pane_order') /\ ToSet(pane_order') = panes'
  BY <1>1, AppendHolds, AppendDistinct
<1>3. RegisteredBorn'
  BY OrderTypes DEF RegisteredBorn
<1> QED
  BY <1>2, <1>3 DEF OrderKept, OrderMatchesRegistry

LEMMA CreateOrder == ASSUME OrderInv, Create PROVE OrderKept
<1> USE OrderTypes
<1>1. ASSUME NEW q \in FreshPanes, panes' = panes \cup {q}, pane_order' = Append(pane_order, q),
             drain' = [drain EXCEPT ![q] = "spawned"]
      PROVE  OrderKept
  <2>1. q \in PaneIds /\ drain[q] = "unborn"
    BY DEF FreshPanes
  <2>2. panes' = (panes \ {}) \cup {q} /\ ToSet(pane_order) = panes \ {}
    BY <1>1
  <2>3. \A p \in PaneIds : drain[p] # "unborn" \/ p = q => drain'[p] # "unborn"
    BY <1>1, <2>1
  <2> QED
    BY <1>1, <2>1, <2>2, <2>3, OrderGrows
<1>2. ASSUME NEW w \in WorkspaceIds, create_workspace(w) PROVE OrderKept
  BY <1>2, OrderStays DEF create_workspace
<1> QED
  BY <1>1, <1>2 DEF Create, create_pane, create_tab, split_pane, PushTab

LEMMA CommitOrder ==
  ASSUME OrderInv, NEW d \in dups, NEW w, NEW ts, DuplicateCommit(d, w, ts)
  PROVE  OrderKept
<1> USE OrderTypes
<1>1. /\ panes' = panes \cup ToSet(d.panes) /\ pane_order' = pane_order \o d.panes
      /\ drain' = [p \in PaneIds |-> IF p \in ToSet(d.panes) THEN "spawned" ELSE drain[p]]
  BY DEF DuplicateCommit
<1>2. d.panes \in Seq(PaneIds) /\ IsInjective(d.panes) /\ \A p \in ToSet(d.panes) : drain[p] = "unborn"
  BY LogParts DEF TreeInv, ReservedDistinct, LogInv, ReservedOnce
<1>3. ToSet(pane_order) \cap ToSet(d.panes) = {}
  BY <1>2
<1>4. pane_order' \in Seq(PaneIds) /\ IsInjective(pane_order') /\ ToSet(pane_order') = panes'
  BY <1>1, <1>2, <1>3, ConcatHolds, ConcatDistinct
<1>5. RegisteredBorn'
  <2>1. ToSet(d.panes) \subseteq PaneIds
    BY LogParts DEF TreeInv
  <2> QED
    BY <1>1, <1>2, <2>1 DEF RegisteredBorn
<1> QED
  BY <1>4, <1>5 DEF OrderKept, OrderMatchesRegistry

LEMMA RemoveTabOrder ==
  ASSUME OrderInv, NEW w, NEW i, NEW gone, NEW done \in [PaneIds -> DrainStates], NEW log,
         \A p \in PaneIds : drain[p] # "unborn" => done[p] # "unborn",
         RemoveTab(w, i, gone, done, log)
  PROVE  OrderKept
<1>1. CASE panes' = panes \ gone /\ pane_order' = Without(pane_order, gone) /\ drain' = done
  BY <1>1, OrderShrinks
<1>2. ASSUME NEW q \in FreshPanes, panes' = (panes \ gone) \cup {q},
             pane_order' = Append(Without(pane_order, gone), q), drain' = [done EXCEPT ![q] = "spawned"]
      PROVE  OrderKept
  <2> DEFINE o == Without(pane_order, gone)
  <2>1. o \in Seq(PaneIds) /\ IsInjective(o) /\ ToSet(o) = panes \ gone
    BY OrderWithout
  <2>2. q \in PaneIds /\ drain[q] = "unborn"
    BY DEF FreshPanes
  <2>3. \A p \in PaneIds : drain[p] # "unborn" \/ p = q => drain'[p] # "unborn"
    BY <1>2, <2>2
  <2>4. pane_order' = Append(o, q)
    BY <1>2
  <2> HIDE DEF o
  <2> QED
    BY <1>2, <2>1, <2>2, <2>3, <2>4, OrderGrows
<1> QED
  BY <1>1, <1>2 DEF RemoveTab

LEMMA ClosePaneOrder ==
  ASSUME OrderInv, NEW p, NEW done \in [PaneIds -> DrainStates],
         \A q \in PaneIds : drain[q] # "unborn" => done[q] # "unborn",
         ClosePane(p, done)
  PROVE  OrderKept
<1>1. ASSUME NEW w \in Live, NEW i \in DOMAIN tabs[w], RemoveTab(w, i, {p}, done, <<PaneClosed(p)>>)
      PROVE  OrderKept
  BY <1>1, RemoveTabOrder
<1>2. CASE panes' = panes \ {p} /\ pane_order' = Without(pane_order, {p}) /\ drain' = done
  BY <1>2, OrderShrinks
<1> QED
  BY <1>1, <1>2 DEF ClosePane

LEMMA CloseOrder == ASSUME OrderInv, Close PROVE OrderKept
<1> USE OrderTypes
<1>1. ASSUME NEW w \in Live, NEW i \in DOMAIN tabs[w], close_tab(w, i) PROVE OrderKept
  BY <1>1, RemoveTabOrder DEF close_tab
<1>2. ASSUME NEW p \in PaneIds, close_pane(p) PROVE OrderKept
  BY <1>2, ClosePaneOrder DEF close_pane
<1>3. ASSUME NEW idx \in Indexes(workspaces), delete_workspace(idx) PROVE OrderKept
  BY <1>3, OrderShrinks DEF delete_workspace
<1> QED
  BY <1>1, <1>2, <1>3 DEF Close

LEMMA DrainOrder ==
  ASSUME OrderInv, NEW p \in PaneIds, SpawnDrainTask(p) \/ DrainEnds(p)
  PROVE  OrderKept
<1> USE OrderTypes
<1>1. CASE SpawnDrainTask(p)
  <2>1. UNCHANGED <<panes, pane_order>>
    BY <1>1 DEF SpawnDrainTask, OpenByteLog, RegisterByteLog, TakeOutputRx
  <2>2. \A q \in PaneIds : drain[q] # "unborn" => drain'[q] # "unborn"
    BY <1>1 DEF SpawnDrainTask, OpenByteLog, RegisterByteLog, TakeOutputRx, DrainStep
  <2> QED
    BY <2>1, <2>2, OrderStays
<1>2. CASE DrainEnds(p)
  <2> DEFINE done == [drain EXCEPT ![p] = "done"]
  <2>1. done \in [PaneIds -> DrainStates] /\ \A q \in PaneIds : drain[q] # "unborn" => done[q] # "unborn"
    BY DEF DrainStates
  <2>2. CASE ClosePane(p, done)
    <3> HIDE DEF done
    <3> QED
      BY <2>1, <2>2, ClosePaneOrder
  <2>3. CASE drain' = done /\ UNCHANGED <<panes, pane_order>>
    BY <2>1, <2>3, OrderStays
  <2> QED
    BY <1>2, <2>2, <2>3 DEF DrainEnds, DrainStep
<1> QED
  BY <1>1, <1>2

LEMMA NextOrderInv == OrderInv /\ [Next]_vars => OrderInv'
<1> SUFFICES ASSUME OrderInv, [Next]_vars PROVE OrderKept
  BY NextTreeInv DEF OrderInv, OrderKept
<1>1. CASE UNCHANGED <<panes, pane_order, drain>>
  BY <1>1, OrderStays
<1>2. CASE Duplicate
  BY <1>1, <1>2, CommitOrder DEF Duplicate, DuplicateSnapshot, DuplicateSpawnFails
<1>3. CASE Arrange
  BY <1>1, <1>3 DEF Arrange, move_workspace, move_tab, set_active_workspace, set_active_tab, set_active_pane
<1>4. CASE UNCHANGED vars
  BY <1>1, <1>4 DEF vars
<1> QED
  BY <1>2, <1>3, <1>4, CreateOrder, CloseOrder, DrainOrder DEF Next

LEMMA InitOrderInv == Init => OrderInv
<1> SUFFICES ASSUME Init PROVE OrderInv
  OBVIOUS
<1>1. panes = {} /\ pane_order = <<>>
  BY DEF Init
<1> QED
  BY <1>1, InitTreeInv, NoElement DEF OrderInv, OrderMatchesRegistry, RegisteredBorn

(* pane_order lists exactly the registry and no pane twice: every path that  *)
(* takes a pane out of `panes` retains it out of the order in the same       *)
(* critical section, the early return of a failed seed included.             *)
THEOREM PaneOrderMatches == Spec => []OrderMatchesRegistry
BY InitOrderInv, NextOrderInv, PTL DEF Spec, OrderInv

(* Registry, layout and byte logs agree on what runs: every registered pane  *)
(* can be reached in the layout, is in the order once, and has the log its   *)
(* drain task opened.                                                        *)
THEOREM RegistryAlwaysSound == Spec => []RegistrySound
BY RegisteredPanesReachable, PaneOrderMatches, RunningDrainsHaveLogs, PTL DEF RegistrySound
=============================================================================
