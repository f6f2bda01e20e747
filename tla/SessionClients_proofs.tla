------------------------ MODULE SessionClients_proofs ------------------------
(* Proofs about what the clients of SessionManager rely on: its events are   *)
(* enough to follow the registry and the tabs and come in the order          *)
(* subscribers need, no reordering of the layout moves the focus to          *)
(* something else, and a call that looks first and acts later does what it   *)
(* was asked.                                                                *)
EXTENDS SessionManager_proofs, RpcHandlers

-----------------------------------------------------------------------------
(* What the events of a critical section are, as a set                       *)

Kinds == {"PaneCreated", "PaneClosed", "TabCreated", "TabClosed", "WorkspaceCreated", "WorkspaceDeleted"}
Events == {<<k, x>> : k \in Kinds, x \in PaneIds \cup TabIds \cup WorkspaceIds}

LEMMA EventIs ==
  ASSUME NEW k \in Kinds, NEW x \in PaneIds \cup TabIds \cup WorkspaceIds
  PROVE  <<k, x>> \in Events
BY DEF Events

LEMMA NewTabAnnounces ==
  ASSUME NEW t \in TabIds, NEW p \in PaneIds
  PROVE  NewTabEvents(t, p) \in Seq(Events) /\ ToSet(NewTabEvents(t, p)) = {PaneCreated(p), <<"TabCreated", t>>}
<1>1. PaneCreated(p) \in Events /\ <<"TabCreated", t>> \in Events
  BY EventIs DEF PaneCreated, Kinds
<1>2. NewTabEvents(t, p) = <<PaneCreated(p), <<"TabCreated", t>> >>
  BY DEF NewTabEvents
<1>3. ASSUME NEW x, NEW y PROVE ToSet(<<x, y>>) = {x, y}
  BY DEF ToSet
<1> QED
  BY <1>1, <1>2, <1>3

LEMMA ClosedAnnounces ==
  ASSUME NEW s \in Seq(PaneIds)
  PROVE  /\ ClosedEvents(s) \in Seq(Events) /\ Len(ClosedEvents(s)) = Len(s)
         /\ ToSet(ClosedEvents(s)) = {PaneClosed(p) : p \in ToSet(s)}
<1> DEFINE r == [i \in 1 .. Len(s) |-> PaneClosed(s[i])]
<1>1. Len(s) \in Nat /\ DOMAIN s = 1 .. Len(s) /\ ClosedEvents(s) = r
  BY DEF ClosedEvents
<1>2. \A i \in 1 .. Len(s) : PaneClosed(s[i]) \in Events
  BY EventIs DEF PaneClosed, Kinds
<1>3. r \in [1 .. Len(s) -> Events] /\ DOMAIN r = 1 .. Len(s)
  BY <1>2
<1>4. r \in Seq(Events) /\ Len(r) = Len(s)
  <2>1. r \in Seq(Events)
    BY <1>1, <1>3, FunctionIsSeq
  <2> QED
    BY <1>1, <1>3, <2>1, LenProperties
<1>5. ToSet(r) = {PaneClosed(s[i]) : i \in 1 .. Len(s)}
  BY <1>3 DEF ToSet
<1>6. ToSet(s) = {s[i] : i \in 1 .. Len(s)}
  BY <1>1 DEF ToSet
<1> QED
  BY <1>1, <1>4, <1>5, <1>6

(* The events of close_tab and delete_workspace: the panes, then the row     *)
LEMMA RowAnnounces ==
  ASSUME NEW s \in Seq(PaneIds), NEW e \in Events
  PROVE  /\ Append(ClosedEvents(s), e) \in Seq(Events)
         /\ ToSet(Append(ClosedEvents(s), e)) = {PaneClosed(p) : p \in ToSet(s)} \cup {e}
BY ClosedAnnounces, AppendHolds

(* The leaves close_tab announces                                            *)
LEMMA ClosedOfTab ==
  ASSUME OrderInv, NEW t \in TabIds
  PROVE  Retain(pane_tree[t], panes) \in Seq(PaneIds) /\ ToSet(Retain(pane_tree[t], panes)) = Leaves(t) \cap panes
<1>1. pane_tree[t] \in Seq(PaneIds)
  BY OrderTypes, TreeTypes
<1> QED
  BY <1>1, RetainProperties DEF Leaves

(* The leaves delete_workspace announces                                     *)
LEMMA LeavesOfWorkspace ==
  ASSUME OrderInv, NEW w \in WorkspaceIds
  PROVE  LET leaves == FlattenSeq([i \in DOMAIN tabs[w] |-> pane_tree[tabs[w][i]]])
         IN  leaves \in Seq(PaneIds) /\ ToSet(leaves) = UNION {Leaves(t) : t \in TabsOf(w)}
<1> USE OrderTypes, TreeTypes
<1> DEFINE ss == [i \in 1 .. Len(tabs[w]) |-> pane_tree[tabs[w][i]]]
<1>1. tabs[w] \in Seq(TabIds) /\ Len(tabs[w]) \in Nat /\ DOMAIN tabs[w] = 1 .. Len(tabs[w])
  OBVIOUS
<1>2. \A i \in 1 .. Len(tabs[w]) : ss[i] = pane_tree[tabs[w][i]] /\ ss[i] \in Seq(PaneIds)
  BY <1>1
<1>3. SeqOfSeqs(PaneIds, ss) /\ Len(ss) = Len(tabs[w])
  <2> DEFINE D == Seq(PaneIds)
             n == Len(tabs[w])
  <2>1. ss \in [1 .. n -> D] /\ DOMAIN ss = 1 .. n
    BY <1>2
  <2> HIDE DEF ss, D, n
  <2>2. ss \in Seq(D)
    BY <1>1, <2>1, FunctionIsSeq DEF n
  <2>3. Len(ss) = n
    BY <1>1, <2>1, <2>2, LenProperties DEF n
  <2> QED
    BY <2>2, <2>3 DEF SeqOfSeqs, D, n
<1>4. FlattenSeq(ss) \in Seq(PaneIds) /\ ToSet(FlattenSeq(ss)) = UNION {ToSet(ss[k]) : k \in 1 .. Len(ss)}
  BY <1>3, FlattenHolds
<1>5. UNION {ToSet(ss[k]) : k \in 1 .. Len(tabs[w])} = UNION {Leaves(t) : t \in TabsOf(w)}
  <2>1. TabsOf(w) = {tabs[w][k] : k \in 1 .. Len(tabs[w])}
    BY <1>1 DEF TabsOf, ToSet
  <2>2. \A k \in 1 .. Len(tabs[w]) : ToSet(ss[k]) = Leaves(tabs[w][k])
    BY <1>2 DEF Leaves
  <2> HIDE DEF ss
  <2>3. ASSUME NEW t \in TabsOf(w), NEW x \in Leaves(t)
        PROVE  x \in UNION {ToSet(ss[k]) : k \in 1 .. Len(tabs[w])}
    BY <2>1, <2>2
  <2>4. ASSUME NEW k \in 1 .. Len(tabs[w]), NEW x \in ToSet(ss[k])
        PROVE  x \in UNION {Leaves(t) : t \in TabsOf(w)}
    BY <2>1, <2>2
  <2> QED
    BY <2>3, <2>4
<1> QED
  BY <1>1, <1>3, <1>4, <1>5

(* What the commit of a duplicate announces                                  *)
LEMMA CommitAnnounces ==
  ASSUME OrderInv, NEW d \in dups, NEW w \in WorkspaceIds, NEW ts \in [1 .. Len(d.panes) -> FreshTabs],
         DuplicateCommit(d, w, ts)
  PROVE  ToSet(sent') = {<<"WorkspaceCreated", w>>} \cup {PaneCreated(p) : p \in ToSet(d.panes)}
                                                    \cup {<<"TabCreated", t>> : t \in ToSet(ts)}
<1> DEFINE n == Len(d.panes)
           ss == [i \in 1 .. n |-> NewTabEvents(ts[i], d.panes[i])]
<1>1. /\ d.panes \in Seq(PaneIds) /\ n \in Nat /\ \A i \in 1 .. n : d.panes[i] \in PaneIds
      /\ ToSet(d.panes) = {d.panes[i] : i \in 1 .. n}
  <2>1. d.panes \in Seq(PaneIds)
    BY OrderTypes, LogParts DEF TreeInv
  <2>2. DOMAIN d.panes = 1 .. n
    BY <2>1
  <2> QED
    BY <2>1, <2>2 DEF ToSet
<1>2. (\A i \in 1 .. n : ts[i] \in TabIds) /\ ToSet(ts) = {ts[i] : i \in 1 .. n}
  <2>1. DOMAIN ts = 1 .. n
    OBVIOUS
  <2> QED
    BY <2>1 DEF ToSet, FreshTabs
<1>3. \A i \in 1 .. n : /\ ss[i] \in Seq(Events)
                        /\ ToSet(ss[i]) = {PaneCreated(d.panes[i]), <<"TabCreated", ts[i]>>}
  BY <1>1, <1>2, NewTabAnnounces
<1>4. SeqOfSeqs(Events, ss) /\ Len(ss) = n
  <2> DEFINE D == Seq(Events)
  <2>1. ss \in [1 .. n -> D] /\ DOMAIN ss = 1 .. n /\ n \in Nat
    BY <1>1, <1>3
  <2> HIDE DEF ss, D, n
  <2>2. ss \in Seq(D)
    BY <2>1, FunctionIsSeq
  <2>3. Len(ss) = n
    BY <2>1, <2>2, LenProperties
  <2> QED
    BY <2>2, <2>3 DEF SeqOfSeqs, D
<1>5. sent' = <<<<"WorkspaceCreated", w>>>> \o FlattenSeq(ss)
  BY DEF DuplicateCommit
<1> HIDE DEF ss
<1>6. FlattenSeq(ss) \in Seq(Events) /\ ToSet(FlattenSeq(ss)) = UNION {ToSet(ss[k]) : k \in 1 .. n}
  BY <1>4, FlattenHolds
<1>7. <<<<"WorkspaceCreated", w>>>> \in Seq(Events)
  <2>1. <<"WorkspaceCreated", w>> \in Events
    BY EventIs DEF Kinds
  <2> QED
    BY <2>1
<1>8. ToSet(sent') = {<<"WorkspaceCreated", w>>} \cup ToSet(FlattenSeq(ss))
  <2> DEFINE e == <<"WorkspaceCreated", w>>
             all == FlattenSeq(ss)
  <2>1. ToSet(<<e>>) = {e}
    <3> HIDE DEF e
    <3> QED
      BY OneElement
  <2>2. <<e>> \in Seq(Events) /\ all \in Seq(Events) /\ sent' = <<e>> \o all
    BY <1>5, <1>6, <1>7
  <2> HIDE DEF e, all
  <2>3. ToSet(sent') = ToSet(<<e>>) \cup ToSet(all)
    BY <2>2, ConcatHolds, ZenonT(60)
  <2> QED
    BY <2>1, <2>3 DEF e, all
<1>9. ToSet(FlattenSeq(ss)) = {PaneCreated(p) : p \in ToSet(d.panes)} \cup {<<"TabCreated", t>> : t \in ToSet(ts)}
  <2> HIDE DEF n
  <2>1. ASSUME NEW p \in ToSet(d.panes) PROVE PaneCreated(p) \in ToSet(FlattenSeq(ss))
    <3>1. PICK i \in 1 .. n : p = d.panes[i]
      BY <1>1
    <3>2. PaneCreated(p) \in ToSet(ss[i])
      BY <1>3, <3>1
    <3> QED
      BY <1>6, <3>2
  <2>2. ASSUME NEW t \in ToSet(ts) PROVE <<"TabCreated", t>> \in ToSet(FlattenSeq(ss))
    <3>1. PICK i \in 1 .. n : t = ts[i]
      BY <1>2
    <3> QED
      BY <1>3, <1>6, <3>1
  <2>3. ASSUME NEW i \in 1 .. n, NEW e \in ToSet(ss[i])
        PROVE  e \in {PaneCreated(p) : p \in ToSet(d.panes)} \cup {<<"TabCreated", t>> : t \in ToSet(ts)}
    BY <1>1, <1>2, <1>3
  <2> QED
    BY <1>6, <2>1, <2>2, <2>3
<1> QED
  BY <1>8, <1>9

(* What a removal announces: what its caller does, and the seed if there is one *)
SaysNoMore(log) ==
  \/ ToSet(sent') = ToSet(log)
  \/ \E q \in FreshPanes, u \in FreshTabs :
       ToSet(sent') = ToSet(log) \cup {PaneCreated(q), <<"TabCreated", u>>}

LEMMA SeedAnnounces ==
  ASSUME NEW log \in Seq(Events), NEW q \in FreshPanes, NEW u \in FreshTabs, sent' = log \o NewTabEvents(u, q)
  PROVE  ToSet(sent') = ToSet(log) \cup {PaneCreated(q), <<"TabCreated", u>>}
<1>1. q \in PaneIds /\ u \in TabIds
  BY DEF FreshPanes, FreshTabs
<1> QED
  BY <1>1, NewTabAnnounces, ConcatHolds

LEMMA RemoveTabSays ==
  ASSUME NEW w, NEW i, NEW gone, NEW done, NEW log \in Seq(Events), RemoveTab(w, i, gone, done, log)
  PROVE  SaysNoMore(log)
BY SeedAnnounces DEF RemoveTab, SaysNoMore

LEMMA RemoveTabAnnounces ==
  ASSUME NEW w, NEW i, NEW gone, NEW done, NEW log \in Seq(Events), RemoveTab(w, i, gone, done, log)
  PROVE  \/ ToSet(sent') = ToSet(log) /\ panes' = panes \ gone
         \/ \E q \in FreshPanes, u \in FreshTabs :
              /\ ToSet(sent') = ToSet(log) \cup {PaneCreated(q), <<"TabCreated", u>>}
              /\ panes' = (panes \ gone) \cup {q}
              /\ RemoveAt(tabs[w], i) = <<>>
              /\ tabs' = [tabs EXCEPT ![w] = <<u>>]
BY SeedAnnounces DEF RemoveTab

-----------------------------------------------------------------------------
(* The registry from the events                                              *)

PaneEventsMatch ==
  /\ NamedBy("PaneCreated") = panes' \ panes
  /\ panes \ panes' \subseteq NamedBy("PaneClosed")

LEMMA PaneEventsAre ==
  ASSUME NEW C, panes' \ panes = C,
         \A p \in C : PaneCreated(p) \in ToSet(sent'),
         \A e \in ToSet(sent') : e[1] = "PaneCreated" => e[2] \in C,
         \A p \in panes \ panes' : PaneClosed(p) \in ToSet(sent')
  PROVE  PaneEventsMatch
<1>1. ASSUME NEW p \in C PROVE p \in NamedBy("PaneCreated")
  <2>1. PaneCreated(p)[1] = "PaneCreated" /\ PaneCreated(p)[2] = p
    BY DEF PaneCreated
  <2> QED
    BY <2>1 DEF NamedBy
<1>2. ASSUME NEW p \in panes \ panes' PROVE p \in NamedBy("PaneClosed")
  <2>1. PaneClosed(p)[1] = "PaneClosed" /\ PaneClosed(p)[2] = p
    BY DEF PaneClosed
  <2> QED
    BY <2>1 DEF NamedBy
<1>3. NamedBy("PaneCreated") \subseteq C
  BY DEF NamedBy
<1> QED
  BY <1>1, <1>2, <1>3 DEF PaneEventsMatch

(* A critical section that registers and closes nothing                      *)
LEMMA NoPaneEvents ==
  ASSUME panes' = panes, \A e \in ToSet(sent') : e[1] # "PaneCreated"
  PROVE  PaneEventsMatch
<1>1. panes' \ panes = {} /\ panes \ panes' = {}
  OBVIOUS
<1> QED
  BY <1>1, PaneEventsAre

LEMMA OneEvent ==
  ASSUME NEW e, sent' = <<e>>
  PROVE  ToSet(sent') = {e}
BY OneElement

LEMMA CreateEvents == ASSUME OrderInv, Create PROVE PaneEventsMatch
<1> USE OrderTypes
<1>1. ASSUME NEW p \in FreshPanes, panes' = panes \cup {p}, PaneCreated(p) \in ToSet(sent'),
             \A e \in ToSet(sent') : e[1] = "PaneCreated" => e[2] = p
      PROVE  PaneEventsMatch
  <2>1. p \notin panes
    BY DEF FreshPanes
  <2>2. panes' \ panes = {p} /\ panes \ panes' = {}
    BY <1>1, <2>1
  <2> QED
    BY <1>1, <2>2, PaneEventsAre
<1>2. ASSUME NEW p \in PaneIds, NEW t \in TabIds, create_pane(t, p) PROVE PaneEventsMatch
  <2>1. p \in FreshPanes /\ panes' = panes \cup {p} /\ sent' = <<PaneCreated(p)>>
    BY <1>2 DEF create_pane, PushTab
  <2>2. ToSet(sent') = {PaneCreated(p)} /\ PaneCreated(p)[2] = p
    BY <2>1, OneEvent DEF PaneCreated
  <2> QED
    BY <1>1, <2>1, <2>2
<1>3. ASSUME NEW p \in PaneIds, NEW t \in TabIds, NEW idx \in Indexes(workspaces), create_tab(idx, t, p)
      PROVE  PaneEventsMatch
  <2>1. p \in FreshPanes /\ panes' = panes \cup {p} /\ sent' = NewTabEvents(t, p)
    BY <1>3 DEF create_tab, PushTab
  <2>2. ToSet(sent') = {PaneCreated(p), <<"TabCreated", t>>}
    BY <2>1, NewTabAnnounces
  <2>3. PaneCreated(p)[2] = p /\ <<"TabCreated", t>>[1] # "PaneCreated"
    BY DEF PaneCreated
  <2> QED
    BY <1>1, <2>1, <2>2, <2>3
<1>4. ASSUME NEW p \in PaneIds, NEW q \in PaneIds, split_pane(p, q) PROVE PaneEventsMatch
  <2>1. q \in FreshPanes /\ panes' = panes \cup {q} /\ \E t \in LiveTabs : sent' = <<PaneCreated(q), <<"PaneSplit", t>> >>
    BY <1>4 DEF split_pane, LiveTabs
  <2>2. PICK t \in LiveTabs : sent' = <<PaneCreated(q), <<"PaneSplit", t>> >>
    BY <2>1
  <2>3. ToSet(sent') = {PaneCreated(q), <<"PaneSplit", t>>}
    BY <2>2 DEF ToSet
  <2>4. PaneCreated(q)[2] = q /\ <<"PaneSplit", t>>[1] # "PaneCreated"
    BY DEF PaneCreated
  <2> QED
    BY <1>1, <2>1, <2>3, <2>4
<1>5. ASSUME NEW w \in WorkspaceIds, create_workspace(w) PROVE PaneEventsMatch
  <2>1. panes' = panes /\ sent' = <<<<"WorkspaceCreated", w>>>>
    BY <1>5 DEF create_workspace
  <2>2. ToSet(sent') = {<<"WorkspaceCreated", w>>}
    BY <2>1, OneEvent
  <2> QED
    BY <2>1, <2>2, NoPaneEvents, SMTT(30)
<1> QED
  BY <1>2, <1>3, <1>4, <1>5 DEF Create

LEMMA CommitEvents ==
  ASSUME OrderInv, NEW d \in dups, NEW w \in WorkspaceIds, NEW ts \in [1 .. Len(d.panes) -> FreshTabs],
         DuplicateCommit(d, w, ts)
  PROVE  PaneEventsMatch
<1>1. ToSet(sent') = {<<"WorkspaceCreated", w>>} \cup {PaneCreated(p) : p \in ToSet(d.panes)}
                                                 \cup {<<"TabCreated", t>> : t \in ToSet(ts)}
  BY CommitAnnounces
<1>2. panes' = panes \cup ToSet(d.panes)
  BY DEF DuplicateCommit
<1>3. ToSet(d.panes) \cap panes = {}
  BY OrderTypes DEF TreeInv, LogInv, ReservedOnce
<1>4. ASSUME NEW e \in ToSet(sent'), e[1] = "PaneCreated" PROVE e[2] \in ToSet(d.panes)
  BY <1>1, <1>4 DEF PaneCreated
<1> QED
  BY <1>1, <1>2, <1>3, <1>4, PaneEventsAre

(* A removal, if its caller announces every registered pane that goes        *)
LEMMA RemoveTabEvents ==
  ASSUME OrderInv, NEW w, NEW i, NEW gone, NEW done, NEW log \in Seq(Events),
         RemoveTab(w, i, gone, done, log),
         \A e \in ToSet(log) : e[1] # "PaneCreated",
         \A p \in panes \cap gone : PaneClosed(p) \in ToSet(log)
  PROVE  PaneEventsMatch
<1>1. CASE ToSet(sent') = ToSet(log) /\ panes' = panes \ gone
  <2>1. panes' \ panes = {} /\ panes \ panes' \subseteq panes \cap gone
    BY <1>1
  <2> QED
    BY <1>1, <2>1, PaneEventsAre
<1>2. ASSUME NEW q \in FreshPanes, NEW u \in FreshTabs,
             ToSet(sent') = ToSet(log) \cup {PaneCreated(q), <<"TabCreated", u>>},
             panes' = (panes \ gone) \cup {q}
      PROVE  PaneEventsMatch
  <2>1. q \notin panes
    BY OrderTypes DEF FreshPanes
  <2>2. panes' \ panes = {q} /\ panes \ panes' \subseteq panes \cap gone
    BY <1>2, <2>1
  <2>3. PaneCreated(q)[2] = q /\ <<"TabCreated", u>>[1] # "PaneCreated"
    BY DEF PaneCreated
  <2> QED
    BY <1>2, <2>2, <2>3, PaneEventsAre
<1> QED
  BY <1>1, <1>2, RemoveTabAnnounces

LEMMA ClosePaneEvents ==
  ASSUME OrderInv, NEW p \in PaneIds, NEW done, ClosePane(p, done)
  PROVE  PaneEventsMatch
<1> DEFINE log == <<PaneClosed(p)>>
<1>1. log \in Seq(Events) /\ ToSet(log) = {PaneClosed(p)} /\ PaneClosed(p)[1] # "PaneCreated"
  <2>1. PaneClosed(p) \in Events
    BY EventIs DEF PaneClosed, Kinds
  <2> QED
    BY <2>1, OneElement DEF PaneClosed
<1>2. ASSUME NEW w \in Live, NEW i \in DOMAIN tabs[w], RemoveTab(w, i, {p}, done, log)
      PROVE  PaneEventsMatch
  <2> HIDE DEF log
  <2> QED
    BY <1>1, <1>2, RemoveTabEvents
<1>3. CASE panes' = panes \ {p} /\ sent' = log
  <2>1. panes' \ panes = {} /\ panes \ panes' \subseteq {p} /\ ToSet(sent') = {PaneClosed(p)}
    BY <1>1, <1>3
  <2> QED
    BY <1>1, <2>1, PaneEventsAre
<1> QED
  BY <1>2, <1>3 DEF ClosePane

LEMMA CloseEvents == ASSUME OrderInv, Close PROVE PaneEventsMatch
<1> USE OrderTypes, TreeTypes
<1>1. ASSUME NEW w \in Live, NEW i \in DOMAIN tabs[w], close_tab(w, i) PROVE PaneEventsMatch
  <2> DEFINE t == tabs[w][i]
             closed == Retain(pane_tree[t], panes)
             log == Append(ClosedEvents(closed), <<"TabClosed", t>>)
  <2>1. t \in TabIds /\ RemoveTab(w, i, Leaves(t), drain, log)
    BY <1>1 DEF close_tab
  <2>2. <<"TabClosed", t>> \in Events
    BY <2>1, EventIs DEF Kinds
  <2>3. closed \in Seq(PaneIds) /\ ToSet(closed) = Leaves(t) \cap panes
    BY <2>1, ClosedOfTab
  <2>4. log \in Seq(Events) /\ ToSet(log) = {PaneClosed(p) : p \in Leaves(t) \cap panes} \cup {<<"TabClosed", t>>}
    <3> HIDE DEF closed
    <3> QED
      BY <2>2, <2>3, RowAnnounces
  <2> HIDE DEF log, t
  <2>5. \A e \in ToSet(log) : e[1] # "PaneCreated"
    BY <2>4 DEF PaneClosed
  <2>6. \A p \in panes \cap Leaves(t) : PaneClosed(p) \in ToSet(log)
    BY <2>4
  <2> QED
    BY <2>1, <2>4, <2>5, <2>6, RemoveTabEvents
<1>2. ASSUME NEW p \in PaneIds, close_pane(p) PROVE PaneEventsMatch
  BY <1>2, ClosePaneEvents DEF close_pane
<1>3. ASSUME NEW idx \in Indexes(workspaces), delete_workspace(idx) PROVE PaneEventsMatch
  <2> DEFINE w == WorkspaceAt(idx)
             leaves == FlattenSeq([i \in DOMAIN tabs[w] |-> pane_tree[tabs[w][i]]])
             gone == UNION {Leaves(t) : t \in TabsOf(w)}
  <2>1. panes' = panes \ gone /\ sent' = Append(ClosedEvents(leaves), <<"WorkspaceDeleted", w>>)
    BY <1>3 DEF delete_workspace, DeletedEvents
  <2>2. w \in WorkspaceIds
    BY DEF Indexes, WorkspaceAt
  <2>3. leaves \in Seq(PaneIds) /\ ToSet(leaves) = gone
    <3> HIDE DEF w
    <3> QED
      BY <2>2, LeavesOfWorkspace DEF leaves, gone
  <2>4. <<"WorkspaceDeleted", w>> \in Events
    BY <2>2, EventIs DEF Kinds
  <2> HIDE DEF leaves, gone, w
  <2>5. ToSet(sent') = {PaneClosed(p) : p \in gone} \cup {<<"WorkspaceDeleted", w>>}
    BY <2>1, <2>3, <2>4, RowAnnounces
  <2>6. \A e \in ToSet(sent') : e[1] # "PaneCreated"
    BY <2>5 DEF PaneClosed
  <2>7. panes' \ panes = {} /\ \A p \in panes \ panes' : PaneClosed(p) \in ToSet(sent')
    BY <2>1, <2>5
  <2> QED
    BY <2>6, <2>7, PaneEventsAre
<1> QED
  BY <1>1, <1>2, <1>3 DEF Close

(* Arrange, and whatever sends nothing                                       *)
LEMMA QuietOrRow ==
  ASSUME NEW e, panes' = panes, sent' = <<>> \/ (sent' = <<e>> /\ e[1] # "PaneCreated")
  PROVE  PaneEventsMatch
<1>1. CASE sent' = <<>>
  BY <1>1, NoElement, NoPaneEvents
<1>2. CASE sent' = <<e>> /\ e[1] # "PaneCreated"
  BY <1>2, OneEvent, NoPaneEvents
<1> QED
  BY <1>1, <1>2

LEMMA ArrangeEvents == ASSUME Arrange PROVE PaneEventsMatch
<1>1. \E e : panes' = panes /\ sent' = <<e>> /\ e[1] # "PaneCreated"
  BY DEF Arrange, move_workspace, move_tab, set_active_workspace, set_active_tab, set_active_pane
<1> QED
  BY <1>1, QuietOrRow

LEMMA DrainEvents ==
  ASSUME OrderInv, NEW p \in PaneIds, SpawnDrainTask(p) \/ DrainEnds(p)
  PROVE  PaneEventsMatch
<1>1. CASE panes' = panes /\ sent' = <<>>
  BY <1>1, QuietOrRow
<1>2. CASE ClosePane(p, [drain EXCEPT ![p] = "done"])
  BY <1>2, ClosePaneEvents
<1> QED
  BY <1>1, <1>2 DEF SpawnDrainTask, OpenByteLog, RegisterByteLog, TakeOutputRx, DrainEnds, DrainStep

(* A subscriber can follow the registry from the events alone: every         *)
(* critical section names exactly the panes it registers and every pane it   *)
(* takes out, whoever else's call it also undoes or seeds.                   *)
THEOREM EventsMatchRegistry == Spec => PaneEventsMatchRegistry
<1>1. OrderInv /\ [Next]_vars => [PaneEventsMatch]_vars
  <2> SUFFICES ASSUME OrderInv, Next PROVE PaneEventsMatch
    OBVIOUS
  <2>1. CASE Duplicate
    <3>1. CASE panes' = panes /\ sent' = <<>>
      BY <3>1, QuietOrRow
    <3> QED
      BY <2>1, <3>1, CommitEvents DEF Duplicate, DuplicateSnapshot, DuplicateSpawnFails
  <2> QED
    BY <2>1, CreateEvents, CloseEvents, ArrangeEvents, DrainEvents DEF Next
<1> QED
  BY <1>1, InitOrderInv, NextOrderInv, PTL DEF Spec, PaneEventsMatchRegistry, PaneEventsMatch

-----------------------------------------------------------------------------
(* The order of the events                                                   *)

Rows == {"WorkspaceDeleted", "TabClosed"}
RowsLast(s) == \A i, j \in DOMAIN s : s[i][1] \in Rows /\ s[j][1] = "PaneClosed" => j < i

LEMMA NothingToOrder ==
  ASSUME NEW s, (\A e \in ToSet(s) : e[1] \notin Rows) \/ (\A e \in ToSet(s) : e[1] # "PaneClosed")
  PROVE  RowsLast(s)
<1>1. \A i \in DOMAIN s : s[i] \in ToSet(s)
  BY DEF ToSet
<1> QED
  BY <1>1 DEF RowsLast

LEMMA RowAfterPanes ==
  ASSUME NEW s \in Seq(PaneIds), NEW e \in Events, e[1] # "PaneClosed"
  PROVE  RowsLast(Append(ClosedEvents(s), e))
<1> DEFINE r == ClosedEvents(s)
           a == Append(r, e)
<1>1. r \in Seq(Events) /\ \A k \in 1 .. Len(r) : r[k][1] = "PaneClosed"
  <2>1. r \in Seq(Events) /\ ToSet(r) = {PaneClosed(p) : p \in ToSet(s)}
    BY ClosedAnnounces
  <2>2. \A k \in 1 .. Len(r) : r[k] \in ToSet(r)
    BY <2>1, InToSet
  <2> HIDE DEF r
  <2> QED
    BY <2>1, <2>2 DEF PaneClosed
<1> HIDE DEF r
<1>2. /\ DOMAIN a = 1 .. Len(r) + 1 /\ a[Len(r) + 1] = e /\ Len(r) \in Nat
      /\ \A k \in 1 .. Len(r) : a[k] = r[k]
  BY <1>1, AppendProperties
<1> HIDE DEF a
<1>3. ASSUME NEW k \in DOMAIN a, a[k][1] \in Rows PROVE k = Len(r) + 1
  BY <1>1, <1>2, <1>3 DEF Rows
<1>4. ASSUME NEW k \in DOMAIN a, a[k][1] = "PaneClosed" PROVE k < Len(r) + 1
  BY <1>2, <1>4
<1> QED
  BY <1>3, <1>4 DEF RowsLast, a, r

(* the events of a seeded tab after those of a removal                       *)
LEMMA SeedAfter ==
  ASSUME NEW log \in Seq(Events), RowsLast(log), NEW u \in TabIds, NEW q \in PaneIds
  PROVE  RowsLast(log \o NewTabEvents(u, q))
<1> DEFINE t == NewTabEvents(u, q)
           r == log \o t
<1>1. t \in Seq(Events) /\ \A k \in 1 .. Len(t) : t[k][1] \notin Rows \cup {"PaneClosed"}
  <2>1. t \in Seq(Events) /\ ToSet(t) = {PaneCreated(q), <<"TabCreated", u>>}
    BY NewTabAnnounces
  <2>2. \A k \in 1 .. Len(t) : t[k] \in ToSet(t)
    BY <2>1, InToSet
  <2> HIDE DEF t
  <2> QED
    BY <2>1, <2>2 DEF PaneCreated, Rows
<1> HIDE DEF t
<1>2. /\ DOMAIN r = 1 .. Len(log) + Len(t) /\ Len(log) \in Nat /\ Len(t) \in Nat
      /\ \A k \in 1 .. Len(log) + Len(t) : r[k] = IF k <= Len(log) THEN log[k] ELSE t[k - Len(log)]
  BY <1>1, ConcatProperties
<1> HIDE DEF r
<1>3. ASSUME NEW k \in DOMAIN r, r[k][1] \in Rows \cup {"PaneClosed"}
      PROVE  k \in DOMAIN log /\ r[k] = log[k]
  <2>1. k \in 1 .. Len(log) + Len(t)
    BY <1>2
  <2>2. CASE k <= Len(log)
    BY <1>2, <2>1, <2>2
  <2>3. CASE k > Len(log)
    <3>1. k - Len(log) \in 1 .. Len(t) /\ r[k] = t[k - Len(log)]
      BY <1>2, <2>1, <2>3
    <3> QED
      BY <1>1, <1>3, <3>1
  <2> QED
    BY <1>2, <2>1, <2>2, <2>3
<1> QED
  BY <1>3 DEF RowsLast, r, t

LEMMA RemoveTabOrdered ==
  ASSUME NEW w, NEW i, NEW gone, NEW done, NEW log \in Seq(Events), RowsLast(log),
         RemoveTab(w, i, gone, done, log)
  PROVE  RowsLast(sent')
<1>1. ASSUME NEW q \in FreshPanes, NEW u \in FreshTabs, sent' = log \o NewTabEvents(u, q)
      PROVE  RowsLast(sent')
  <2>1. q \in PaneIds /\ u \in TabIds
    BY DEF FreshPanes, FreshTabs
  <2>2. RowsLast(log \o NewTabEvents(u, q))
    BY <2>1, SeedAfter
  <2> QED
    BY <1>1, <2>2
<1> QED
  BY <1>1 DEF RemoveTab

LEMMA ClosePaneOrdered ==
  ASSUME NEW p \in PaneIds, NEW done, ClosePane(p, done)
  PROVE  RowsLast(sent')
<1> DEFINE log == <<PaneClosed(p)>>
<1>1. log \in Seq(Events) /\ RowsLast(log)
  <2>1. PaneClosed(p) \in Events /\ PaneClosed(p)[1] \notin Rows
    BY EventIs DEF PaneClosed, Kinds, Rows
  <2>2. ToSet(log) = {PaneClosed(p)}
    BY OneElement
  <2>3. \A e \in ToSet(log) : e[1] \notin Rows
    <3> HIDE DEF log
    <3> QED
      BY <2>1, <2>2
  <2>4. RowsLast(log)
    <3> HIDE DEF log
    <3> QED
      BY <2>3, NothingToOrder
  <2> QED
    BY <2>1, <2>4
<1> HIDE DEF log
<1>2. CASE sent' = log
  BY <1>1, <1>2
<1>3. ASSUME NEW w, NEW i, RemoveTab(w, i, {p}, done, log) PROVE RowsLast(sent')
  BY <1>1, <1>3, RemoveTabOrdered
<1> QED
  BY <1>2, <1>3 DEF ClosePane, log

LEMMA CloseOrdered == ASSUME OrderInv, Close PROVE RowsLast(sent')
<1> USE OrderTypes, TreeTypes
<1>1. ASSUME NEW w \in Live, NEW i \in DOMAIN tabs[w], close_tab(w, i) PROVE RowsLast(sent')
  <2> DEFINE t == tabs[w][i]
             closed == Retain(pane_tree[t], panes)
             e == <<"TabClosed", t>>
             log == Append(ClosedEvents(closed), e)
  <2>1. t \in TabIds /\ RemoveTab(w, i, Leaves(t), drain, log)
    BY <1>1 DEF close_tab
  <2>2. e \in Events /\ e[1] # "PaneClosed"
    BY <2>1, EventIs DEF Kinds
  <2>3. closed \in Seq(PaneIds)
    BY <2>1, ClosedOfTab
  <2> HIDE DEF e, closed
  <2>4. log \in Seq(Events) /\ RowsLast(log)
    BY <2>2, <2>3, RowAnnounces, RowAfterPanes
  <2> HIDE DEF log, t
  <2> QED
    BY <2>1, <2>4, RemoveTabOrdered
<1>2. ASSUME NEW p \in PaneIds, close_pane(p) PROVE RowsLast(sent')
  BY <1>2, ClosePaneOrdered DEF close_pane
<1>3. ASSUME NEW idx \in Indexes(workspaces), delete_workspace(idx) PROVE RowsLast(sent')
  <2> DEFINE w == WorkspaceAt(idx)
             leaves == FlattenSeq([i \in DOMAIN tabs[w] |-> pane_tree[tabs[w][i]]])
             e == <<"WorkspaceDeleted", w>>
  <2>1. sent' = Append(ClosedEvents(leaves), e)
    BY <1>3 DEF delete_workspace, DeletedEvents
  <2>2. w \in WorkspaceIds
    BY DEF Indexes, WorkspaceAt
  <2>3. leaves \in Seq(PaneIds)
    <3> HIDE DEF w
    <3> QED
      BY <2>2, LeavesOfWorkspace DEF leaves
  <2>4. e \in Events /\ e[1] # "PaneClosed"
    BY <2>2, EventIs DEF Kinds
  <2> HIDE DEF leaves, e
  <2>5. RowsLast(Append(ClosedEvents(leaves), e))
    BY <2>3, <2>4, RowAfterPanes
  <2> QED
    BY <2>1, <2>5
<1> QED
  BY <1>1, <1>2, <1>3 DEF Close

LEMMA OneOrNone ==
  ASSUME NEW e, sent' = <<>> \/ (sent' = <<e>> /\ e[1] # "PaneClosed")
  PROVE  RowsLast(sent')
<1>1. ToSet(sent') = {} \/ (ToSet(sent') = {e} /\ e[1] # "PaneClosed")
  BY NoElement, OneElement
<1> QED
  BY <1>1, NothingToOrder

LEMMA CreateOrdered == ASSUME OrderInv, Create PROVE RowsLast(sent')
<1>1. ASSUME NEW p \in PaneIds, NEW t \in TabIds, sent' = NewTabEvents(t, p) PROVE RowsLast(sent')
  <2>1. ToSet(sent') = {PaneCreated(p), <<"TabCreated", t>>}
    BY <1>1, NewTabAnnounces
  <2>2. \A e \in ToSet(sent') : e[1] # "PaneClosed"
    BY <2>1 DEF PaneCreated
  <2> QED
    BY <2>2, NothingToOrder
<1>2. ASSUME NEW q, NEW t, sent' = <<PaneCreated(q), <<"PaneSplit", t>> >> PROVE RowsLast(sent')
  <2>1. ToSet(sent') = {PaneCreated(q), <<"PaneSplit", t>>}
    BY <1>2 DEF ToSet
  <2>2. \A e \in ToSet(sent') : e[1] # "PaneClosed"
    BY <2>1 DEF PaneCreated
  <2> QED
    BY <2>2, NothingToOrder
<1>3. ASSUME NEW p, sent' = <<PaneCreated(p)>> PROVE RowsLast(sent')
  BY <1>3, OneOrNone DEF PaneCreated
<1>4. ASSUME NEW w, sent' = <<<<"WorkspaceCreated", w>>>> PROVE RowsLast(sent')
  BY <1>4, OneOrNone
<1> QED
  BY <1>1, <1>2, <1>3, <1>4 DEF Create, create_pane, create_tab, split_pane, create_workspace

LEMMA DuplicateOrdered == ASSUME OrderInv, Duplicate PROVE RowsLast(sent')
<1>1. CASE sent' = <<>>
  BY <1>1, OneOrNone
<1>2. ASSUME NEW d \in dups, NEW w \in WorkspaceIds, NEW ts \in [1 .. Len(d.panes) -> FreshTabs],
             DuplicateCommit(d, w, ts)
      PROVE  RowsLast(sent')
  <2>1. \A e \in ToSet(sent') : e[1] # "PaneClosed"
    BY <1>2, CommitAnnounces DEF PaneCreated
  <2> QED
    BY <2>1, NothingToOrder
<1> QED
  BY <1>1, <1>2 DEF Duplicate, DuplicateSnapshot, DuplicateSpawnFails

LEMMA NextOrdered == ASSUME OrderInv, Next PROVE RowsLast(sent')
<1>1. CASE Arrange
  <2>1. \E e : sent' = <<e>> /\ e[1] # "PaneClosed"
    BY <1>1 DEF Arrange, move_workspace, move_tab, set_active_workspace, set_active_tab, set_active_pane
  <2> QED
    BY <2>1, OneOrNone
<1>2. ASSUME NEW p \in PaneIds, SpawnDrainTask(p) \/ DrainEnds(p) PROVE RowsLast(sent')
  <2>1. CASE sent' = <<>>
    BY <2>1, OneOrNone
  <2>2. CASE ClosePane(p, [drain EXCEPT ![p] = "done"])
    BY <2>2, ClosePaneOrdered
  <2> QED
    BY <1>2, <2>1, <2>2 DEF SpawnDrainTask, OpenByteLog, RegisterByteLog, TakeOutputRx, DrainEnds, DrainStep
<1> QED
  BY <1>1, <1>2, CreateOrdered, DuplicateOrdered, CloseOrdered DEF Next

(* Subscribers unwind pane state before the row goes: in every critical      *)
(* section the WorkspaceDeleted and the TabClosed come after every           *)
(* PaneClosed, whether or not a seeded tab is announced behind them.         *)
THEOREM PanesCloseFirst == Spec => ClosedPanesFirst
<1>1. OrderInv /\ [Next]_vars => [RowsLast(sent')]_vars
  BY NextOrdered
<1> QED
  BY <1>1, InitOrderInv, NextOrderInv, PTL DEF Spec, ClosedPanesFirst, RowsLast, Rows

-----------------------------------------------------------------------------
(* Where the user is                                                         *)

(* workspaces'[active_workspace' + 1]: the id of the active workspace after  *)
(* the step                                                                  *)
ActiveKept == WorkspaceAt(active_workspace) = (workspaces')[active_workspace' + 1]

LEMMA ActiveType ==
  ASSUME OrderInv
  PROVE  /\ workspaces \in Seq(WorkspaceIds) /\ Len(workspaces) \in Nat
         /\ active_workspace \in Nat /\ active_workspace + 1 \in 1 .. Len(workspaces)
         /\ tabs \in [WorkspaceIds -> Seq(TabIds)] /\ active_tab \in [WorkspaceIds -> Nat]
         /\ \A w \in WorkspaceIds : active_tab[w] = 0 \/ active_tab[w] < Len(tabs[w])
<1>1. TypeOK /\ IndicesValid
  BY DEF OrderInv, TreeInv, LogInv, IndexInv
<1>2. workspaces \in Seq(WorkspaceIds) /\ active_workspace \in Nat /\ active_workspace < Len(workspaces)
  BY <1>1 DEF TypeOK, IndicesValid
<1>3. Len(workspaces) \in Nat /\ active_workspace + 1 \in 1 .. Len(workspaces)
  BY <1>2
<1> QED
  BY <1>1, <1>2, <1>3 DEF TypeOK, IndicesValid

LEMMA CreateKeepsActive == ASSUME OrderInv, Create PROVE ActiveKept
<1> USE ActiveType
<1>1. CASE UNCHANGED <<workspaces, active_workspace>>
  BY <1>1 DEF ActiveKept, WorkspaceAt
<1>2. ASSUME NEW w \in WorkspaceIds, workspaces' = Append(workspaces, w), active_workspace' = active_workspace
      PROVE  ActiveKept
  <2>1. \A k \in 1 .. Len(workspaces) : Append(workspaces, w)[k] = workspaces[k]
    BY AppendProperties
  <2> QED
    BY <1>2, <2>1 DEF ActiveKept, WorkspaceAt
<1> QED
  BY <1>1, <1>2 DEF Create, create_pane, create_tab, split_pane, create_workspace, PushTab

LEMMA CommitKeepsActive ==
  ASSUME OrderInv, NEW d \in dups, NEW w \in WorkspaceIds, NEW ts, DuplicateCommit(d, w, ts)
  PROVE  ActiveKept
<1>a. /\ workspaces \in Seq(WorkspaceIds) /\ Len(workspaces) \in Nat
      /\ active_workspace \in Nat /\ active_workspace + 1 \in 1 .. Len(workspaces)
  BY ActiveType
<1> DEFINE at == ClampedInsert(d)
           r == InsertAt(workspaces, at + 1, w)
<1>1. workspaces' = r /\ active_workspace' = IF active_workspace >= at THEN active_workspace + 1 ELSE active_workspace
  BY DEF DuplicateCommit, ActiveAfterInsert
<1>2. at \in Nat /\ at + 1 \in 1 .. Len(workspaces) + 1
  <2>1. d.insert_at \in Nat
    BY DEF OrderInv, TreeInv, LogInv, IndexInv, TypeOK, DupType
  <2> QED
    BY <1>a, <2>1 DEF ClampedInsert
<1> HIDE DEF at
<1>3. \A k \in 1 .. Len(workspaces) + 1 :
        r[k] = IF k < at + 1 THEN workspaces[k] ELSE IF k = at + 1 THEN w ELSE workspaces[k - 1]
  <2> DEFINE j == at + 1
  <2>1. j \in 1 .. Len(workspaces) + 1
    BY <1>2
  <2> HIDE DEF j
  <2>2. \A k \in 1 .. Len(workspaces) + 1 :
          InsertAt(workspaces, j, w)[k] = IF k < j THEN workspaces[k] ELSE IF k = j THEN w ELSE workspaces[k - 1]
    BY <1>a, <2>1, InsertAtProperties
  <2> QED
    BY <2>2 DEF j
<1> HIDE DEF r
<1>4. CASE active_workspace >= at
  <2>1. active_workspace + 2 \in 1 .. Len(workspaces) + 1 /\ active_workspace + 2 > at + 1
    BY <1>a, <1>2, <1>4
  <2>2. r[active_workspace + 2] = workspaces[active_workspace + 1]
    BY <1>a, <1>2, <1>3, <2>1
  <2> QED
    BY <1>a, <1>1, <1>4, <2>2 DEF ActiveKept, WorkspaceAt
<1>5. CASE active_workspace < at
  <2>1. active_workspace + 1 \in 1 .. Len(workspaces) + 1 /\ active_workspace + 1 < at + 1
    BY <1>a, <1>2, <1>5
  <2>2. r[active_workspace + 1] = workspaces[active_workspace + 1]
    BY <1>a, <1>3, <2>1
  <2> QED
    BY <1>a, <1>1, <1>2, <1>5, <2>2 DEF ActiveKept, WorkspaceAt
<1> QED
  BY <1>a, <1>2, <1>4, <1>5

LEMMA DeleteKeepsActive ==
  ASSUME OrderInv, NEW idx \in Indexes(workspaces), delete_workspace(idx)
  PROVE  ActiveKept \/ <<"WorkspaceDeleted", ActiveWorkspaceId>> \in ToSet(sent')
<1>a. /\ workspaces \in Seq(WorkspaceIds) /\ Len(workspaces) \in Nat
      /\ active_workspace \in Nat /\ active_workspace + 1 \in 1 .. Len(workspaces)
  BY ActiveType
<1> DEFINE w == WorkspaceAt(idx)
           leaves == FlattenSeq([i \in DOMAIN tabs[w] |-> pane_tree[tabs[w][i]]])
           r == RemoveAt(workspaces, idx + 1)
<1>1. idx \in Nat /\ idx + 1 \in 1 .. Len(workspaces) /\ w \in WorkspaceIds
  BY <1>a DEF Indexes, WorkspaceAt
<1>2. /\ workspaces' = r /\ sent' = DeletedEvents(w, leaves)
      /\ active_workspace' = IF active_workspace > idx THEN active_workspace - 1
                             ELSE Clamp(active_workspace, r)
  BY DEF delete_workspace
<1>3. /\ r \in Seq(WorkspaceIds) /\ Len(r) = Len(workspaces) - 1
      /\ \A k \in 1 .. Len(workspaces) - 1 : r[k] = IF k < idx + 1 THEN workspaces[k] ELSE workspaces[k + 1]
  BY <1>a, <1>1, RemoveAtProperties
<1>4. CASE active_workspace = idx
  <2> DEFINE e == <<"WorkspaceDeleted", w>>
  <2>1. leaves \in Seq(PaneIds)
    <3> HIDE DEF w
    <3> QED
      BY <1>a, <1>1, LeavesOfWorkspace DEF leaves
  <2>2. e \in Events /\ w = ActiveWorkspaceId
    BY <1>a, <1>1, <1>4, EventIs DEF Kinds, ActiveWorkspaceId
  <2>3. sent' = Append(ClosedEvents(leaves), e)
    BY <1>a, <1>2 DEF DeletedEvents
  <2> HIDE DEF leaves, e, w
  <2>4. e \in ToSet(sent')
    BY <1>a, <2>1, <2>2, <2>3, RowAnnounces
  <2> QED
    BY <1>a, <2>2, <2>4 DEF e
<1> HIDE DEF w, leaves, r
<1>5. CASE active_workspace > idx
  <2>1. active_workspace \in 1 .. Len(workspaces) - 1 /\ ~(active_workspace < idx + 1)
    BY <1>a, <1>1, <1>5
  <2>2. r[active_workspace] = workspaces[active_workspace + 1]
    BY <1>a, <1>3, <2>1
  <2>3. active_workspace' + 1 = active_workspace
    BY <1>a, <1>2, <1>5
  <2> QED
    BY <1>a, <1>2, <2>2, <2>3 DEF ActiveKept, WorkspaceAt
<1>6. CASE active_workspace < idx
  <2>1. active_workspace + 1 \in 1 .. Len(workspaces) - 1 /\ active_workspace < Len(r) /\ ~(active_workspace > idx)
    BY <1>a, <1>1, <1>3, <1>6
  <2>2. r[active_workspace + 1] = workspaces[active_workspace + 1]
    BY <1>a, <1>1, <1>3, <1>6, <2>1
  <2>3. active_workspace' = active_workspace
    BY <1>a, <1>2, <1>3, <2>1 DEF Clamp
  <2> QED
    BY <1>a, <1>2, <2>2, <2>3 DEF ActiveKept, WorkspaceAt
<1> QED
  BY <1>a, <1>1, <1>4, <1>5, <1>6

LEMMA SwapKeepsActive ==
  ASSUME OrderInv, NEW from \in Indexes(workspaces), NEW to \in Indexes(workspaces),
         move_workspace(from, to)
  PROVE  ActiveKept
<1>a. /\ workspaces \in Seq(WorkspaceIds) /\ Len(workspaces) \in Nat
      /\ active_workspace \in Nat /\ active_workspace + 1 \in 1 .. Len(workspaces)
  BY ActiveType
<1>1. /\ from + 1 \in 1 .. Len(workspaces) /\ to + 1 \in 1 .. Len(workspaces) /\ from # to
      /\ from \in Int /\ to \in Int
  BY <1>a DEF Indexes, move_workspace
<1>2. /\ workspaces' = [workspaces EXCEPT ![from + 1] = workspaces[to + 1], ![to + 1] = workspaces[from + 1]]
      /\ active_workspace' = CASE active_workspace = from -> to
                               [] active_workspace = to -> from
                               [] OTHER -> active_workspace
  BY DEF move_workspace, WorkspaceAt
<1>3. /\ workspaces'[to + 1] = workspaces[from + 1] /\ workspaces'[from + 1] = workspaces[to + 1]
      /\ \A k \in 1 .. Len(workspaces) \ {from + 1, to + 1} : workspaces'[k] = workspaces[k]
  BY <1>a, <1>1, <1>2
<1>4. CASE active_workspace = from
  BY <1>a, <1>2, <1>3, <1>4 DEF ActiveKept, WorkspaceAt
<1>5. CASE active_workspace = to
  BY <1>a, <1>1, <1>2, <1>3, <1>5 DEF ActiveKept, WorkspaceAt
<1>6. CASE active_workspace # from /\ active_workspace # to
  <2>1. active_workspace' = active_workspace
    BY <1>a, <1>2, <1>6
  <2>2. active_workspace + 1 \in 1 .. Len(workspaces) \ {from + 1, to + 1}
    BY <1>a, <1>1, <1>6
  <2> QED
    BY <1>a, <1>3, <2>1, <2>2 DEF ActiveKept, WorkspaceAt
<1> QED
  BY <1>a, <1>4, <1>5, <1>6

LEMMA NextKeepsActive ==
  ASSUME OrderInv, Next
  PROVE  \/ ActiveKept
         \/ "ActiveWorkspaceChanged" \in EventKinds
         \/ <<"WorkspaceDeleted", ActiveWorkspaceId>> \in ToSet(sent')
<1>1. CASE UNCHANGED <<workspaces, active_workspace>>
  BY <1>1 DEF ActiveKept, WorkspaceAt
<1>2. CASE Duplicate
  BY <1>1, <1>2, CommitKeepsActive DEF Duplicate, DuplicateSnapshot, DuplicateSpawnFails, layout
<1>3. ASSUME NEW idx, set_active_workspace(idx) PROVE "ActiveWorkspaceChanged" \in EventKinds
  <2> DEFINE e == <<"ActiveWorkspaceChanged", idx>>
  <2>1. sent' = <<e>> /\ e[1] = "ActiveWorkspaceChanged"
    BY <1>3 DEF set_active_workspace
  <2> HIDE DEF e
  <2>2. e \in ToSet(sent')
    BY <2>1, OneElement
  <2> QED
    BY <2>1, <2>2 DEF EventKinds
<1>4. CASE Arrange
  BY <1>1, <1>3, <1>4, SwapKeepsActive DEF Arrange, move_tab, set_active_tab, set_active_pane
<1>5. CASE Close
  BY <1>1, <1>5, DeleteKeepsActive DEF Close, close_tab, close_pane, ClosePane, RemoveTab, layout
<1>6. ASSUME NEW p \in PaneIds, SpawnDrainTask(p) \/ DrainEnds(p)
      PROVE  UNCHANGED <<workspaces, active_workspace>>
  BY <1>6 DEF SpawnDrainTask, OpenByteLog, RegisterByteLog, TakeOutputRx, DrainEnds, ClosePane, RemoveTab, layout
<1> QED
  BY <1>1, <1>2, <1>4, <1>5, <1>6, CreateKeepsActive DEF Next

(* Whatever shifts the list of workspaces - a move, a delete before it, a    *)
(* duplicate committed where its source was, with the index its snapshot     *)
(* took - the same workspace stays active, unless a client switched it or it *)
(* is the one deleted.                                                       *)
THEOREM ActiveWorkspaceKept == Spec => KeepsActiveWorkspace
<1>1. OrderInv /\ [Next]_vars =>
        [\/ ActiveKept
         \/ "ActiveWorkspaceChanged" \in EventKinds
         \/ <<"WorkspaceDeleted", ActiveWorkspaceId>> \in ToSet(sent')]_vars
  BY NextKeepsActive
<1> QED
  BY <1>1, InitOrderInv, NextOrderInv, PTL DEF Spec, KeepsActiveWorkspace, ActiveKept

(* No other event than its own says that a tab moved.                        *)
PlainEvents == \A e \in ToSet(sent') : e[1] \in Kinds \cup {"PaneSplit"}

LEMMA EventKindsOf ==
  ASSUME OrderInv, Create \/ Duplicate \/ Close \/ \E p \in PaneIds : SpawnDrainTask(p) \/ DrainEnds(p)
  PROVE  PlainEvents
<1>1. \A e \in Events : e[1] \in Kinds
  BY DEF Events
<1>2. ASSUME NEW t \in TabIds, NEW p \in PaneIds, sent' = NewTabEvents(t, p) PROVE PlainEvents
  BY <1>2, NewTabAnnounces DEF PaneCreated, Kinds, PlainEvents
<1>3. ASSUME NEW q, NEW t, sent' = <<PaneCreated(q), <<"PaneSplit", t>> >> PROVE PlainEvents
  <2>1. ToSet(sent') = {PaneCreated(q), <<"PaneSplit", t>>}
    BY <1>3 DEF ToSet
  <2> QED
    BY <2>1 DEF PaneCreated, Kinds, PlainEvents
<1>4. ASSUME NEW e, sent' = <<>> \/ (sent' = <<e>> /\ e[1] \in Kinds) PROVE PlainEvents
  <2>1. ToSet(sent') = {} \/ (ToSet(sent') = {e} /\ e[1] \in Kinds)
    BY <1>4, NoElement, OneElement
  <2> QED
    BY <2>1 DEF PlainEvents
<1>5. CASE Create
  <2>1. ASSUME NEW p, sent' = <<PaneCreated(p)>> PROVE PlainEvents
    BY <1>4, <2>1 DEF PaneCreated, Kinds
  <2>2. ASSUME NEW w, sent' = <<<<"WorkspaceCreated", w>>>> PROVE PlainEvents
    BY <1>4, <2>2 DEF Kinds
  <2> QED
    BY <1>2, <1>3, <1>5, <2>1, <2>2 DEF Create, create_pane, create_tab, split_pane, create_workspace
<1>6. CASE Duplicate
  <2>1. CASE sent' = <<>>
    BY <1>4, <2>1
  <2>2. ASSUME NEW d \in dups, NEW w \in WorkspaceIds, NEW ts \in [1 .. Len(d.panes) -> FreshTabs],
               DuplicateCommit(d, w, ts)
        PROVE  PlainEvents
    <3>1. ToSet(sent') = {<<"WorkspaceCreated", w>>} \cup {PaneCreated(p) : p \in ToSet(d.panes)}
                                                     \cup {<<"TabCreated", t>> : t \in ToSet(ts)}
      BY <2>2, CommitAnnounces
    <3> QED
      BY <3>1 DEF PaneCreated, Kinds, PlainEvents
  <2> QED
    BY <1>6, <2>1, <2>2 DEF Duplicate, DuplicateSnapshot, DuplicateSpawnFails
<1>7. ASSUME NEW w, NEW i, NEW gone, NEW done, NEW log \in Seq(Events), RemoveTab(w, i, gone, done, log)
      PROVE  PlainEvents
  <2>1. ToSet(log) \subseteq Events
    BY DEF ToSet
  <2>2. CASE ToSet(sent') = ToSet(log)
    BY <1>1, <2>1, <2>2 DEF PlainEvents
  <2>3. ASSUME NEW q, NEW u, ToSet(sent') = ToSet(log) \cup {PaneCreated(q), <<"TabCreated", u>>} PROVE PlainEvents
    BY <1>1, <2>1, <2>3 DEF PaneCreated, Kinds, PlainEvents
  <2>4. SaysNoMore(log)
    BY <1>7, RemoveTabSays
  <2> QED
    BY <2>2, <2>3, <2>4 DEF SaysNoMore
<1>8. ASSUME NEW p \in PaneIds, NEW done, ClosePane(p, done) PROVE PlainEvents
  <2>1. PaneClosed(p) \in Events /\ <<PaneClosed(p)>> \in Seq(Events)
    BY EventIs DEF PaneClosed, Kinds
  <2>2. CASE sent' = <<PaneClosed(p)>>
    BY <1>1, <1>4, <2>1, <2>2
  <2> QED
    BY <1>7, <1>8, <2>1, <2>2 DEF ClosePane
<1>9. ASSUME NEW w \in Live, NEW i \in DOMAIN tabs[w], close_tab(w, i) PROVE PlainEvents
  <2> DEFINE t == tabs[w][i]
             closed == Retain(pane_tree[t], panes)
             e == <<"TabClosed", t>>
             log == Append(ClosedEvents(closed), e)
  <2>1. t \in TabIds /\ RemoveTab(w, i, Leaves(t), drain, log)
    BY <1>9, OrderTypes, TreeTypes DEF close_tab
  <2>2. e \in Events
    BY <2>1, EventIs DEF Kinds
  <2>3. closed \in Seq(PaneIds)
    BY <2>1, ClosedOfTab
  <2> HIDE DEF e, closed
  <2>4. log \in Seq(Events)
    BY <2>2, <2>3, RowAnnounces
  <2> HIDE DEF log, t
  <2> QED
    BY <1>7, <2>1, <2>4
<1>10. ASSUME NEW idx \in Indexes(workspaces), delete_workspace(idx) PROVE PlainEvents
  <2> DEFINE w == WorkspaceAt(idx)
             leaves == FlattenSeq([i \in DOMAIN tabs[w] |-> pane_tree[tabs[w][i]]])
             e == <<"WorkspaceDeleted", w>>
  <2>1. sent' = Append(ClosedEvents(leaves), e)
    BY <1>10 DEF delete_workspace, DeletedEvents
  <2>2. w \in WorkspaceIds
    BY OrderTypes, TreeTypes DEF Indexes, WorkspaceAt
  <2>3. leaves \in Seq(PaneIds)
    <3> HIDE DEF w
    <3> QED
      BY <2>2, LeavesOfWorkspace DEF leaves
  <2>4. e \in Events
    BY <2>2, EventIs DEF Kinds
  <2> HIDE DEF leaves, e
  <2>5. sent' \in Seq(Events)
    BY <2>1, <2>3, <2>4, RowAnnounces
  <2>6. ToSet(sent') \subseteq Events
    BY <2>5 DEF ToSet
  <2> QED
    BY <1>1, <2>6 DEF PlainEvents
<1>11. ASSUME NEW p \in PaneIds, SpawnDrainTask(p) \/ DrainEnds(p) PROVE PlainEvents
  <2>1. CASE sent' = <<>>
    BY <1>4, <2>1
  <2> QED
    BY <1>8, <1>11, <2>1 DEF SpawnDrainTask, OpenByteLog, RegisterByteLog, TakeOutputRx, DrainEnds, DrainStep
<1>12. CASE Close
  BY <1>8, <1>9, <1>10, <1>12 DEF Close, close_pane
<1> QED
  BY <1>5, <1>6, <1>11, <1>12

FocusFollows(w) == (tabs')[w][(active_tab')[w] + 1] = tabs[w][active_tab[w] + 1]
TabMoves == "TabMoved" \in EventKinds

LEMMA MoveKeepsFocus ==
  ASSUME OrderInv, NEW w \in Live, NEW i \in DOMAIN tabs[w], NEW j \in 0 .. Len(tabs[w]), move_tab(w, i, j)
  PROVE  \A v \in Live : tabs[v] # <<>> => FocusFollows(v)
<1>a. /\ tabs \in [WorkspaceIds -> Seq(TabIds)] /\ active_tab \in [WorkspaceIds -> Nat]
      /\ active_tab[w] = 0 \/ active_tab[w] < Len(tabs[w])
      /\ Live \subseteq WorkspaceIds
  BY ActiveType, OrderTypes, TreeTypes
<1> DEFINE last == Len(tabs[w]) - 1
           target == IF j < last THEN j ELSE last
           moved == Moved(tabs[w], i, target + 1)
           a == active_tab[w]
<1>1. w \in WorkspaceIds /\ tabs[w] \in Seq(TabIds) /\ i \in 1 .. Len(tabs[w]) /\ a \in Nat
  BY <1>a
<1>2. target + 1 \in 1 .. Len(tabs[w]) /\ a + 1 \in 1 .. Len(tabs[w])
  BY <1>a, <1>1
<1>3. tabs' = [tabs EXCEPT ![w] = moved] /\ active_tab' = [active_tab EXCEPT ![w] = FollowActive(w, moved)]
  BY DEF move_tab
<1> HIDE DEF target
<1>4. /\ moved \in Seq(TabIds) /\ Len(moved) = Len(tabs[w])
      /\ \A k \in 1 .. Len(tabs[w]) : \E m \in 1 .. Len(tabs[w]) : moved[m] = tabs[w][k]
  BY <1>1, <1>2, MovedProperties, ZenonT(60)
<1> HIDE DEF moved
<1>5. \E k \in Indexes(moved) : moved[k + 1] = tabs[w][a + 1]
  <2>1. PICK m \in 1 .. Len(tabs[w]) : moved[m] = tabs[w][a + 1]
    BY <1>2, <1>4
  <2>2. m - 1 \in Indexes(moved) /\ (m - 1) + 1 = m
    BY <1>1, <1>4 DEF Indexes
  <2> QED
    BY <2>1, <2>2
<1>6. moved[FollowActive(w, moved) + 1] = tabs[w][a + 1]
  BY <1>5 DEF FollowActive
<1>7. FocusFollows(w)
  BY <1>a, <1>1, <1>3, <1>6 DEF FocusFollows
<1>8. ASSUME NEW v \in Live, v # w PROVE FocusFollows(v)
  BY <1>a, <1>3, <1>8 DEF FocusFollows
<1> QED
  BY <1>7, <1>8

LEMMA NextKeepsFocus ==
  ASSUME OrderInv, Next
  PROVE  \A w \in Live : tabs[w] # <<>> /\ TabMoves => FocusFollows(w)
<1>1. CASE \A e \in ToSet(sent') : e[1] # "TabMoved"
  BY <1>1 DEF EventKinds, TabMoves
<1>2. CASE Arrange
  <2>1. ASSUME NEW e, sent' = <<e>>, e[1] # "TabMoved"
        PROVE  \A x \in ToSet(sent') : x[1] # "TabMoved"
    BY <2>1, OneElement
  <2>2. \/ \E w \in Live : \E i \in DOMAIN tabs[w] : \E j \in 0 .. Len(tabs[w]) : move_tab(w, i, j)
        \/ \E e : sent' = <<e>> /\ e[1] # "TabMoved"
    BY <1>2 DEF Arrange, move_workspace, set_active_workspace, set_active_tab, set_active_pane
  <2> QED
    BY <1>1, <2>1, <2>2, MoveKeepsFocus
<1>3. CASE Create \/ Duplicate \/ Close \/ \E p \in PaneIds : SpawnDrainTask(p) \/ DrainEnds(p)
  <2>1. \A e \in ToSet(sent') : e[1] \in Kinds \cup {"PaneSplit"}
    BY <1>3, EventKindsOf DEF PlainEvents
  <2> QED
    BY <1>1, <2>1 DEF Kinds
<1> QED
  BY <1>2, <1>3 DEF Next

(* Moving a tab keeps the same tab active in every workspace: the index that *)
(* move_tab looks up in the reordered list exists, and is the active tab's.  *)
THEOREM MovingKeepsActiveTab == Spec => MoveKeepsActiveTab
<1>1. OrderInv /\ [Next]_vars =>
        [\A w \in Live : tabs[w] # <<>> /\ TabMoves => FocusFollows(w)]_vars
  BY NextKeepsFocus
<1> QED
  BY <1>1, InitOrderInv, NextOrderInv, PTL DEF Spec, MoveKeepsActiveTab, FocusFollows, TabMoves

-----------------------------------------------------------------------------
(* The tabs from the events                                                  *)

TabEventsMatch ==
  /\ \A t \in LiveTabs \ (LiveTabs)' :
        t \in NamedBy("TabClosed") \/ Leaves(t) \subseteq NamedBy("PaneClosed")
  /\ \A t \in (LiveTabs)' \ LiveTabs :
        t \in NamedBy("TabCreated") \/ (Leaves(t))' \subseteq NamedBy("PaneCreated")

LEMMA NamesIt ==
  ASSUME NEW k, NEW x, <<k, x>> \in ToSet(sent')
  PROVE  x \in NamedBy(k)
<1>1. <<k, x>>[1] = k /\ <<k, x>>[2] = x
  OBVIOUS
<1> QED
  BY <1>1 DEF NamedBy

(* The tabs a step takes from a workspace are in `old`, those it gives one   *)
(* are in `young`, and the events say so.                                    *)
TabsLeave(old) ==
  /\ \A v \in WorkspaceIds : TabsOf(v) \subseteq TabsOf(v)' \cup old
  /\ \A t \in old : t \in NamedBy("TabClosed") \/ Leaves(t) \subseteq NamedBy("PaneClosed")

TabsCome(young) ==
  /\ \A v \in WorkspaceIds : TabsOf(v)' \subseteq TabsOf(v) \cup young
  /\ \A t \in young : t \in NamedBy("TabCreated") \/ Leaves(t)' \subseteq NamedBy("PaneCreated")

LiveTabsAreTabs ==
  LiveTabs \subseteq TabIds /\ \A t \in TabIds : t \in LiveTabs <=> \E w \in WorkspaceIds : t \in TabsOf(w)

LEMMA LiveTabsAre == OrderInv => LiveTabsAreTabs
BY LiveTabsOfForest DEF OrderInv, TreeInv, LogInv, IndexInv, LiveTabsAreTabs

LEMMA LiveTabsStay == OrderInv' => LiveTabsAreTabs'
BY LiveTabsAre, PTL

LEMMA TabsComeAndGo ==
  ASSUME OrderInv, OrderInv', NEW old, NEW young, TabsLeave(old), TabsCome(young)
  PROVE  TabEventsMatch
<1>3. LiveTabs \subseteq TabIds /\ \A t \in TabIds : t \in LiveTabs <=> \E w \in WorkspaceIds : t \in TabsOf(w)
  BY LiveTabsAre DEF LiveTabsAreTabs
<1>4. /\ LiveTabs' \subseteq TabIds
      /\ \A t \in TabIds : t \in LiveTabs' <=> \E w \in WorkspaceIds : t \in TabsOf(w)'
  BY LiveTabsStay DEF LiveTabsAreTabs
<1>5. ASSUME NEW t \in LiveTabs \ LiveTabs' PROVE t \in old
  <2>1. PICK w \in WorkspaceIds : t \in TabsOf(w)
    BY <1>3
  <2>2. t \notin TabsOf(w)'
    BY <1>3, <1>4
  <2> QED
    BY <2>1, <2>2 DEF TabsLeave
<1>6. ASSUME NEW t \in LiveTabs' \ LiveTabs PROVE t \in young
  <2>1. PICK w \in WorkspaceIds : t \in TabsOf(w)'
    BY <1>4
  <2>2. t \notin TabsOf(w)
    BY <1>3, <1>4
  <2> QED
    BY <2>1, <2>2 DEF TabsCome
<1> QED
  BY <1>5, <1>6 DEF TabEventsMatch, TabsLeave, TabsCome

LEMMA SameTabs ==
  ASSUME OrderInv, OrderInv', \A v \in WorkspaceIds : TabsOf(v)' = TabsOf(v)
  PROVE  TabEventsMatch
<1>1. TabsLeave({}) /\ TabsCome({})
  BY DEF TabsLeave, TabsCome
<1> QED
  BY <1>1, TabsComeAndGo

LEMMA TabsUntouched ==
  ASSUME OrderInv, OrderInv', tabs' = tabs
  PROVE  TabEventsMatch
<1>1. \A v \in WorkspaceIds : TabsOf(v)' = TabsOf(v)
  BY DEF TabsOf
<1> QED
  BY <1>1, SameTabs

LEMMA PushTabTabs ==
  ASSUME OrderInv, OrderInv', NEW w \in Live, NEW t \in FreshTabs, NEW p \in FreshPanes, PushTab(w, t, p),
         PaneCreated(p) \in ToSet(sent')
  PROVE  TabEventsMatch
<1> USE OrderTypes, TreeTypes
<1>1. t \in TabIds /\ w \in WorkspaceIds /\ tabs[w] \in Seq(TabIds)
  BY DEF FreshTabs
<1>2. tabs' = [tabs EXCEPT ![w] = Append(tabs[w], t)] /\ pane_tree'[t] = <<p>>
  BY <1>1 DEF PushTab
<1>3. ToSet(Append(tabs[w], t)) = TabsOf(w) \cup {t}
  BY <1>1, AppendHolds DEF TabsOf
<1>4. TabsOf(w)' = TabsOf(w) \cup {t} /\ \A v \in WorkspaceIds \ {w} : TabsOf(v)' = TabsOf(v)
  BY <1>1, <1>2, <1>3 DEF TabsOf
<1>5. Leaves(t)' = {p} /\ p \in NamedBy("PaneCreated")
  BY <1>2, OneElement, NamesIt DEF Leaves, PaneCreated
<1>6. Leaves(t)' \subseteq NamedBy("PaneCreated")
  BY <1>5
<1>7. \A v \in WorkspaceIds : TabsOf(v) \subseteq TabsOf(v)' /\ TabsOf(v)' \subseteq TabsOf(v) \cup {t}
  BY <1>4
<1>8. TabsLeave({})
  BY <1>7 DEF TabsLeave
<1>9. TabsCome({t})
  BY <1>6, <1>7 DEF TabsCome
<1> QED
  BY <1>8, <1>9, TabsComeAndGo

LEMMA CreateTabs == ASSUME OrderInv, OrderInv', Create PROVE TabEventsMatch
<1> USE OrderTypes, TreeTypes
<1>0. \A idx \in Indexes(workspaces) : WorkspaceAt(idx) \in Live
  <2>1. ASSUME NEW idx \in Indexes(workspaces) PROVE idx + 1 \in 1 .. Len(workspaces)
    BY DEF Indexes
  <2> QED
    BY <2>1, InToSet DEF WorkspaceAt, Live
<1>1. ASSUME NEW p \in PaneIds, NEW t \in TabIds, create_pane(t, p) PROVE TabEventsMatch
  <2>1. p \in FreshPanes /\ t \in FreshTabs /\ PushTab(workspaces[1], t, p) /\ sent' = <<PaneCreated(p)>>
    BY <1>1 DEF create_pane
  <2>2. PaneCreated(p) \in ToSet(sent')
    BY <2>1, OneEvent
  <2>3. workspaces[1] \in Live
    <3>1. 0 \in Indexes(workspaces)
      BY DEF TreeInv, LogInv, IndexInv, TypeOK, IndicesValid, Indexes
    <3> QED
      BY <1>0, <3>1 DEF WorkspaceAt
  <2> QED
    BY <2>1, <2>2, <2>3, PushTabTabs
<1>2. ASSUME NEW p \in PaneIds, NEW t \in TabIds, NEW idx \in Indexes(workspaces), create_tab(idx, t, p)
      PROVE  TabEventsMatch
  <2>1. p \in FreshPanes /\ t \in FreshTabs /\ PushTab(WorkspaceAt(idx), t, p) /\ sent' = NewTabEvents(t, p)
    BY <1>2 DEF create_tab
  <2>2. PaneCreated(p) \in ToSet(sent')
    BY <2>1, NewTabAnnounces
  <2> QED
    BY <1>0, <2>1, <2>2, PushTabTabs
<1>3. ASSUME NEW p \in PaneIds, NEW q \in PaneIds, split_pane(p, q) PROVE TabEventsMatch
  BY <1>3, TabsUntouched DEF split_pane
<1>4. ASSUME NEW w \in WorkspaceIds, create_workspace(w) PROVE TabEventsMatch
  <2>1. tabs' = [tabs EXCEPT ![w] = <<>>] /\ w \in FreshWorkspaces
    BY <1>4 DEF create_workspace
  <2>2. TabsOf(w) = {}
    BY <2>1, FreshFacts
  <2>3. \A v \in WorkspaceIds : TabsOf(v)' = TabsOf(v)
    <3>1. TabsOf(w)' = {}
      BY <2>1, NoElement DEF TabsOf
    <3>2. \A v \in WorkspaceIds \ {w} : TabsOf(v)' = TabsOf(v)
      BY <2>1 DEF TabsOf
    <3> QED
      BY <2>2, <3>1, <3>2
  <2> QED
    BY <2>3, SameTabs
<1> QED
  BY <1>1, <1>2, <1>3, <1>4 DEF Create

LEMMA CommitTabs ==
  ASSUME OrderInv, OrderInv', NEW d \in dups, NEW w \in WorkspaceIds, NEW ts \in [1 .. Len(d.panes) -> FreshTabs],
         DuplicateCommit(d, w, ts)
  PROVE  TabEventsMatch
<1> USE OrderTypes, TreeTypes
<1>1. ToSet(sent') = {<<"WorkspaceCreated", w>>} \cup {PaneCreated(p) : p \in ToSet(d.panes)}
                                                 \cup {<<"TabCreated", t>> : t \in ToSet(ts)}
  BY CommitAnnounces
<1>2. tabs' = [tabs EXCEPT ![w] = ts] /\ w \in FreshWorkspaces
  BY DEF DuplicateCommit
<1>3. TabsOf(w) = {}
  BY <1>2, FreshFacts
<1>4. TabsOf(w)' = ToSet(ts) /\ \A v \in WorkspaceIds \ {w} : TabsOf(v)' = TabsOf(v)
  BY <1>2 DEF TabsOf
<1>5. \A t \in ToSet(ts) : t \in NamedBy("TabCreated")
  BY <1>1, NamesIt
<1>6. TabsLeave({}) /\ TabsCome(ToSet(ts))
  BY <1>3, <1>4, <1>5 DEF TabsLeave, TabsCome
<1> QED
  BY <1>6, TabsComeAndGo

(* What RemoveTab does to the tabs and to the log                            *)
LEMMA RemoveTabTabs ==
  ASSUME OrderInv, OrderInv', NEW w \in Live, NEW i \in DOMAIN tabs[w], NEW gone, NEW done,
         NEW log \in Seq(Events), RemoveTab(w, i, gone, done, log), NEW t \in TabIds, t = tabs[w][i],
         <<"TabClosed", t>> \in ToSet(log) \/ \A p \in Leaves(t) : PaneClosed(p) \in ToSet(log)
  PROVE  TabEventsMatch
<1> USE OrderTypes, TreeTypes
<1>0. Forest
  BY DEF TreeInv
<1>1. w \in WorkspaceIds /\ tabs[w] \in Seq(TabIds) /\ i \in 1 .. Len(tabs[w]) /\ IsInjective(tabs[w])
  <2>1. w \in WorkspaceIds
    OBVIOUS
  <2>2. tabs[w] \in Seq(TabIds)
    BY <2>1
  <2> QED
    BY <1>0, <2>1, <2>2 DEF Forest
<1>2. ToSet(RemoveAt(tabs[w], i)) = TabsOf(w) \ {t}
  BY <1>1, RemoveAtProperties, RemoveAtDistinct DEF TabsOf
<1>3. ASSUME ToSet(log) \subseteq ToSet(sent')
      PROVE  t \in NamedBy("TabClosed") \/ Leaves(t) \subseteq NamedBy("PaneClosed")
  <2>1. CASE <<"TabClosed", t>> \in ToSet(log)
    BY <1>3, <2>1, NamesIt
  <2>2. CASE \A p \in Leaves(t) : PaneClosed(p) \in ToSet(log)
    <3>1. ASSUME NEW p \in Leaves(t) PROVE p \in NamedBy("PaneClosed")
      BY <1>3, <2>2, NamesIt DEF PaneClosed
    <3> QED
      BY <3>1
  <2> QED
    BY <2>1, <2>2
<1>4. CASE tabs' = [tabs EXCEPT ![w] = RemoveAt(tabs[w], i)] /\ sent' = log
  <2>1. TabsOf(w)' = TabsOf(w) \ {t} /\ \A v \in WorkspaceIds \ {w} : TabsOf(v)' = TabsOf(v)
    BY <1>1, <1>2, <1>4 DEF TabsOf
  <2>2. ToSet(sent') = ToSet(log)
    BY <1>4
  <2>3. TabsLeave({t}) /\ TabsCome({})
    BY <1>3, <2>1, <2>2 DEF TabsLeave, TabsCome
  <2> QED
    BY <2>3, TabsComeAndGo
<1>5. ASSUME NEW q \in FreshPanes, NEW u \in FreshTabs, RemoveAt(tabs[w], i) = <<>>,
             tabs' = [tabs EXCEPT ![w] = <<u>>], sent' = log \o NewTabEvents(u, q)
      PROVE  TabEventsMatch
  <2>1. ToSet(sent') = ToSet(log) \cup {PaneCreated(q), <<"TabCreated", u>>}
    BY <1>5, SeedAnnounces
  <2>2. TabsOf(w) \subseteq {t}
    BY <1>2, <1>5, NoElement
  <2>3. TabsOf(w)' = {u} /\ \A v \in WorkspaceIds \ {w} : TabsOf(v)' = TabsOf(v)
    BY <1>1, <1>5, OneElement DEF TabsOf
  <2>4. u \in NamedBy("TabCreated")
    BY <2>1, NamesIt
  <2>5. TabsLeave({t}) /\ TabsCome({u})
    BY <1>3, <2>1, <2>2, <2>3, <2>4 DEF TabsLeave, TabsCome
  <2> QED
    BY <2>5, TabsComeAndGo
<1> QED
  BY <1>4, <1>5 DEF RemoveTab

LEMMA ClosePaneTabs ==
  ASSUME OrderInv, OrderInv', NEW p \in PaneIds, NEW done, ClosePane(p, done)
  PROVE  TabEventsMatch
<1> USE OrderTypes, TreeTypes
<1> DEFINE log == <<PaneClosed(p)>>
<1>1. log \in Seq(Events) /\ ToSet(log) = {PaneClosed(p)}
  <2>1. PaneClosed(p) \in Events
    BY EventIs DEF PaneClosed, Kinds
  <2> QED
    BY <2>1, OneElement
<1>2. ASSUME NEW w \in Live, NEW i \in DOMAIN tabs[w], IsSoleLeaf(tabs[w][i], p), RemoveTab(w, i, {p}, done, log)
      PROVE  TabEventsMatch
  <2> HIDE DEF log
  <2>1. PICK t \in TabIds : t = tabs[w][i]
    OBVIOUS
  <2>2. Leaves(t) = {p}
    BY <1>2, <2>1, OneElement DEF IsSoleLeaf, Leaves
  <2>3. \A x \in Leaves(t) : PaneClosed(x) \in ToSet(log)
    BY <1>1, <2>2
  <2> QED
    BY <1>1, <1>2, <2>1, <2>3, RemoveTabTabs
<1>3. CASE UNCHANGED layout
  BY <1>3, TabsUntouched DEF layout
<1> QED
  BY <1>2, <1>3 DEF ClosePane

LEMMA CloseTabs == ASSUME OrderInv, OrderInv', Close PROVE TabEventsMatch
<1> USE OrderTypes, TreeTypes
<1>1. ASSUME NEW w \in Live, NEW i \in DOMAIN tabs[w], close_tab(w, i) PROVE TabEventsMatch
  <2>1. PICK t \in TabIds : t = tabs[w][i]
    OBVIOUS
  <2> DEFINE closed == Retain(pane_tree[t], panes)
             e == <<"TabClosed", t>>
             log == Append(ClosedEvents(closed), e)
  <2>2. RemoveTab(w, i, Leaves(t), drain, log)
    BY <1>1, <2>1 DEF close_tab
  <2>3. e \in Events
    BY <2>1, EventIs DEF Kinds
  <2>4. closed \in Seq(PaneIds)
    BY <2>1, ClosedOfTab
  <2>5. log \in Seq(Events) /\ e \in ToSet(log)
    <3> HIDE DEF e, closed
    <3> QED
      BY <2>3, <2>4, RowAnnounces
  <2> HIDE DEF log
  <2> QED
    BY <2>1, <2>2, <2>5, RemoveTabTabs
<1>2. ASSUME NEW p \in PaneIds, close_pane(p) PROVE TabEventsMatch
  BY <1>2, ClosePaneTabs DEF close_pane
<1>3. ASSUME NEW idx \in Indexes(workspaces), delete_workspace(idx) PROVE TabEventsMatch
  <2>1. PICK w \in WorkspaceIds : w = WorkspaceAt(idx)
    BY DEF Indexes, WorkspaceAt
  <2> DEFINE leaves == FlattenSeq([i \in DOMAIN tabs[w] |-> pane_tree[tabs[w][i]]])
             e == <<"WorkspaceDeleted", w>>
  <2>2. sent' = Append(ClosedEvents(leaves), e) /\ tabs' = [tabs EXCEPT ![w] = <<>>]
    BY <1>3, <2>1 DEF delete_workspace, DeletedEvents
  <2>3. leaves \in Seq(PaneIds) /\ ToSet(leaves) = UNION {Leaves(t) : t \in TabsOf(w)}
    BY <2>1, LeavesOfWorkspace
  <2>4. e \in Events
    BY <2>1, EventIs DEF Kinds
  <2> HIDE DEF leaves, e
  <2>5. \A p \in ToSet(leaves) : PaneClosed(p) \in ToSet(sent')
    BY <2>2, <2>3, <2>4, RowAnnounces
  <2>6. \A p \in ToSet(leaves) : p \in NamedBy("PaneClosed")
    BY <2>5, NamesIt DEF PaneClosed
  <2>7. \A t \in TabsOf(w) : Leaves(t) \subseteq NamedBy("PaneClosed")
    BY <2>3, <2>6
  <2>8. TabsOf(w)' = {} /\ \A v \in WorkspaceIds \ {w} : TabsOf(v)' = TabsOf(v)
    BY <2>1, <2>2, NoElement DEF TabsOf
  <2>9. PICK old : old = TabsOf(w)
    OBVIOUS
  <2>10. TabsLeave(old) /\ TabsCome({})
    BY <2>7, <2>8, <2>9 DEF TabsLeave, TabsCome
  <2> QED
    BY <2>10, TabsComeAndGo
<1> QED
  BY <1>1, <1>2, <1>3 DEF Close

LEMMA ArrangeTabs == ASSUME OrderInv, OrderInv', Arrange PROVE TabEventsMatch
<1> USE OrderTypes, TreeTypes
<1>1. ASSUME NEW w \in Live, NEW i \in DOMAIN tabs[w], NEW j \in 0 .. Len(tabs[w]), move_tab(w, i, j)
      PROVE  TabEventsMatch
  <2> DEFINE last == Len(tabs[w]) - 1
             target == IF j < last THEN j ELSE last
             moved == Moved(tabs[w], i, target + 1)
  <2>1. /\ w \in WorkspaceIds /\ tabs[w] \in Seq(TabIds) /\ i \in 1 .. Len(tabs[w])
        /\ IsInjective(tabs[w])
    BY DEF TreeInv, Forest
  <2>2. target + 1 \in 1 .. Len(tabs[w])
    BY <2>1
  <2>3. tabs' = [tabs EXCEPT ![w] = moved]
    BY <1>1 DEF move_tab
  <2> HIDE DEF target
  <2>4. ToSet(moved) = ToSet(tabs[w])
    BY <2>1, <2>2, MovedDistinct
  <2> HIDE DEF moved
  <2>5. \A v \in WorkspaceIds : TabsOf(v)' = TabsOf(v)
    BY <2>1, <2>3, <2>4 DEF TabsOf
  <2> QED
    BY <2>5, SameTabs
<1>2. CASE tabs' = tabs
  BY <1>2, TabsUntouched
<1> QED
  BY <1>1, <1>2 DEF Arrange, move_workspace, set_active_workspace, set_active_tab, set_active_pane

LEMMA DrainTabs ==
  ASSUME OrderInv, OrderInv', NEW p \in PaneIds, SpawnDrainTask(p) \/ DrainEnds(p)
  PROVE  TabEventsMatch
<1>1. CASE UNCHANGED layout
  BY <1>1, TabsUntouched DEF layout
<1>2. CASE ClosePane(p, [drain EXCEPT ![p] = "done"])
  BY <1>2, ClosePaneTabs
<1> QED
  BY <1>1, <1>2 DEF SpawnDrainTask, OpenByteLog, RegisterByteLog, TakeOutputRx, DrainEnds

(* A subscriber can follow the tabs too: a tab that comes or goes is named   *)
(* by an event of its own, or all of its leaves are -- also the tab a close  *)
(* seeds in the workspace it emptied and the tabs delete_workspace takes     *)
(* without a TabClosed.                                                      *)
THEOREM TabsFollowEvents == Spec => TabEventsMatchLayout
<1>1. OrderInv /\ [Next]_vars => [TabEventsMatch]_vars
  <2> SUFFICES ASSUME OrderInv, Next PROVE TabEventsMatch
    OBVIOUS
  <2>1. OrderInv'
    BY NextOrderInv
  <2>2. CASE Duplicate
    <3>1. CASE UNCHANGED layout
      BY <2>1, <3>1, TabsUntouched DEF layout
    <3> QED
      BY <2>1, <2>2, <3>1, CommitTabs DEF Duplicate, DuplicateSnapshot, DuplicateSpawnFails
  <2> QED
    BY <2>1, <2>2, CreateTabs, CloseTabs, ArrangeTabs, DrainTabs DEF Next
<1> QED
  BY <1>1, InitOrderInv, NextOrderInv, PTL DEF Spec, TabEventsMatchLayout, TabEventsMatch

-----------------------------------------------------------------------------
(* Closing calls: nothing that has left comes back                           *)

NothingReturns ==
  \A p \in PaneIds : drain[p] # "unborn" =>
     /\ drain'[p] # "unborn" /\ (p \in panes' => p \in panes)
     /\ \A t \in TabIds : p \in Leaves(t)' => p \in Leaves(t)

LEMMA NewOnly ==
  ASSUME NEW N, \A p \in N : drain[p] = "unborn", panes' \subseteq panes \cup N,
         \A t \in TabIds : Leaves(t)' \subseteq Leaves(t) \cup N,
         \A p \in PaneIds : drain[p] # "unborn" => drain'[p] # "unborn"
  PROVE  NothingReturns
BY DEF NothingReturns

LEMMA PushTabNew ==
  ASSUME OrderInv, NEW w, NEW t \in FreshTabs, NEW p \in FreshPanes, PushTab(w, t, p)
  PROVE  NothingReturns
<1> USE OrderTypes, TreeTypes
<1>1. t \in TabIds /\ p \in PaneIds /\ drain[p] = "unborn"
  BY FreshFacts DEF FreshPanes
<1>2. /\ panes' = panes \cup {p} /\ pane_tree' = [pane_tree EXCEPT ![t] = <<p>>]
      /\ drain' = [drain EXCEPT ![p] = "spawned"]
  BY DEF PushTab
<1>3. pane_tree'[t] = <<p>> /\ \A u \in TabIds \ {t} : pane_tree'[u] = pane_tree[u]
  BY <1>1, <1>2
<1>4. Leaves(t)' = {p} /\ \A u \in TabIds \ {t} : Leaves(u)' = Leaves(u)
  BY <1>3, OneElement DEF Leaves
<1>5. \A u \in TabIds : Leaves(u)' \subseteq Leaves(u) \cup {p}
  BY <1>4
<1>6. \A q \in PaneIds : drain[q] # "unborn" => drain'[q] # "unborn"
  BY <1>1, <1>2
<1> QED
  BY <1>1, <1>2, <1>5, <1>6, NewOnly

LEMMA CreateNew == ASSUME OrderInv, Create PROVE NothingReturns
<1> USE OrderTypes, TreeTypes
<1>1. ASSUME NEW p \in PaneIds, NEW t \in TabIds, create_pane(t, p) PROVE NothingReturns
  BY <1>1, PushTabNew DEF create_pane
<1>2. ASSUME NEW p \in PaneIds, NEW t \in TabIds, NEW idx, create_tab(idx, t, p) PROVE NothingReturns
  BY <1>2, PushTabNew DEF create_tab
<1>3. ASSUME NEW p \in PaneIds, NEW q \in PaneIds, split_pane(p, q) PROVE NothingReturns
  <2>1. PICK w \in Live : \E t \in TabsOf(w) : \E i \in DOMAIN pane_tree[t] :
          pane_tree' = [pane_tree EXCEPT ![t] = InsertAt(@, i + 1, q)]
    BY <1>3 DEF split_pane
  <2>2. PICK t \in TabsOf(w) : \E i \in DOMAIN pane_tree[t] :
          pane_tree' = [pane_tree EXCEPT ![t] = InsertAt(@, i + 1, q)]
    BY <2>1
  <2>3. PICK i \in DOMAIN pane_tree[t] : pane_tree' = [pane_tree EXCEPT ![t] = InsertAt(@, i + 1, q)]
    BY <2>2
  <2>4. /\ t \in TabIds /\ pane_tree[t] \in Seq(PaneIds) /\ drain[q] = "unborn"
        /\ panes' = panes \cup {q} /\ drain' = [drain EXCEPT ![q] = "spawned"]
    BY <1>3 DEF split_pane, FreshPanes
  <2>5. i + 1 \in 1 .. Len(pane_tree[t]) + 1
    BY <2>4
  <2>6. pane_tree'[t] = InsertAt(pane_tree[t], i + 1, q) /\ \A u \in TabIds \ {t} : pane_tree'[u] = pane_tree[u]
    BY <2>3, <2>4
  <2>7. ToSet(InsertAt(pane_tree[t], i + 1, q)) = ToSet(pane_tree[t]) \cup {q}
    BY <2>4, <2>5, InsertAtHolds
  <2>8. Leaves(t)' = Leaves(t) \cup {q} /\ \A u \in TabIds \ {t} : Leaves(u)' = Leaves(u)
    BY <2>6, <2>7 DEF Leaves
  <2>9. \A u \in TabIds : Leaves(u)' \subseteq Leaves(u) \cup {q}
    BY <2>8
  <2>10. \A x \in PaneIds : drain[x] # "unborn" => drain'[x] # "unborn"
    BY <2>4
  <2> QED
    BY <2>4, <2>9, <2>10, NewOnly
<1>4. ASSUME NEW w \in WorkspaceIds, create_workspace(w) PROVE NothingReturns
  BY <1>4 DEF create_workspace, NothingReturns, Leaves
<1> QED
  BY <1>1, <1>2, <1>3, <1>4 DEF Create

LEMMA CommitNew ==
  ASSUME OrderInv, NEW d \in dups, NEW w \in WorkspaceIds, NEW ts \in [1 .. Len(d.panes) -> FreshTabs],
         DuplicateCommit(d, w, ts)
  PROVE  NothingReturns
<1> USE OrderTypes, TreeTypes
<1> DEFINE n == Len(d.panes)
           IndexOf(t) == CHOOSE k \in 1 .. n : ts[k] = t
<1>1. d.panes \in Seq(PaneIds) /\ \A p \in ToSet(d.panes) : drain[p] = "unborn"
  BY LogParts DEF TreeInv, LogInv, ReservedOnce
<1>2. /\ panes' = panes \cup ToSet(d.panes)
      /\ pane_tree' = [t \in TabIds |->
                          IF t \in ToSet(ts) THEN <<d.panes[IndexOf(t)]>> ELSE pane_tree[t]]
      /\ drain' = [p \in PaneIds |-> IF p \in ToSet(d.panes) THEN "spawned" ELSE drain[p]]
  BY DEF DuplicateCommit
<1>3. ASSUME NEW t \in TabIds, t \in ToSet(ts) PROVE Leaves(t)' \subseteq ToSet(d.panes)
  <2>1. PICK k \in 1 .. n : ts[k] = t
    <3>1. DOMAIN ts = 1 .. n
      OBVIOUS
    <3> QED
      BY <1>3, <3>1 DEF ToSet
  <2>2. IndexOf(t) \in 1 .. n
    BY <2>1
  <2>3. pane_tree'[t] = <<d.panes[IndexOf(t)]>>
    BY <1>2, <1>3
  <2> HIDE DEF IndexOf
  <2>4. d.panes[IndexOf(t)] \in ToSet(d.panes)
    BY <1>1, <2>2, InToSet
  <2>5. Leaves(t)' = {d.panes[IndexOf(t)]}
    BY <2>3, OneElement DEF Leaves
  <2> QED
    BY <2>4, <2>5
<1> HIDE DEF IndexOf
<1>4. \A t \in TabIds : t \notin ToSet(ts) => Leaves(t)' = Leaves(t)
  BY <1>2 DEF Leaves
<1>5. \A t \in TabIds : Leaves(t)' \subseteq Leaves(t) \cup ToSet(d.panes)
  BY <1>3, <1>4
<1>6. \A p \in PaneIds : drain[p] # "unborn" => drain'[p] # "unborn"
  BY <1>2
<1> QED
  BY <1>1, <1>2, <1>5, <1>6, NewOnly

(* Of the panes that were ever made, the removed ones and no others go      *)
GoneExactly(gone) ==
  /\ panes \ gone \subseteq panes'
  /\ \A p \in PaneIds : p \in gone /\ drain[p] # "unborn" => p \notin panes'

LEMMA RemoveTabNew ==
  ASSUME OrderInv, NEW w \in Live, NEW i \in DOMAIN tabs[w], NEW gone, NEW done \in [PaneIds -> DrainStates],
         NEW log, \A p \in PaneIds : drain[p] # "unborn" => done[p] # "unborn",
         RemoveTab(w, i, gone, done, log)
  PROVE  NothingReturns /\ GoneExactly(gone)
<1> USE OrderTypes, TreeTypes
<1>1. PICK t \in TabIds : t = tabs[w][i]
  OBVIOUS
<1>2. CASE panes' = panes \ gone /\ pane_tree' = [pane_tree EXCEPT ![t] = <<>>] /\ drain' = done
  <2>1. pane_tree'[t] = <<>> /\ \A u \in TabIds \ {t} : pane_tree'[u] = pane_tree[u]
    BY <1>2
  <2>2. Leaves(t)' = {} /\ \A u \in TabIds \ {t} : Leaves(u)' = Leaves(u)
    BY <2>1, NoElement DEF Leaves
  <2>3. \A u \in TabIds : Leaves(u)' \subseteq Leaves(u)
    BY <2>2
  <2>4. NothingReturns
    BY <1>2, <2>3 DEF NothingReturns
  <2> QED
    BY <1>2, <2>4 DEF GoneExactly
<1>3. ASSUME NEW q \in FreshPanes, NEW u \in FreshTabs, panes' = (panes \ gone) \cup {q},
             pane_tree' = [pane_tree EXCEPT ![t] = <<>>, ![u] = <<q>>], drain' = [done EXCEPT ![q] = "spawned"]
      PROVE  NothingReturns /\ GoneExactly(gone)
  <2>1. u \in TabIds /\ q \in PaneIds /\ drain[q] = "unborn"
    BY FreshFacts DEF FreshPanes
  <2>2. /\ pane_tree'[u] = <<q>> /\ (t # u => pane_tree'[t] = <<>>)
        /\ \A v \in TabIds \ {t, u} : pane_tree'[v] = pane_tree[v]
    BY <1>3, <2>1
  <2>3. Leaves(u)' = {q} /\ (t # u => Leaves(t)' = {}) /\ \A v \in TabIds \ {t, u} : Leaves(v)' = Leaves(v)
    BY <2>2, NoElement, OneElement DEF Leaves
  <2>4. \A v \in TabIds : Leaves(v)' \subseteq Leaves(v) \cup {q}
    BY <2>3
  <2>5. \A p \in PaneIds : drain[p] # "unborn" => drain'[p] # "unborn"
    BY <1>3, <2>1
  <2>6. NothingReturns
    BY <1>3, <2>1, <2>4, <2>5, NewOnly
  <2> QED
    BY <1>3, <2>1, <2>6 DEF GoneExactly
<1> QED
  BY <1>1, <1>2, <1>3 DEF RemoveTab

LEMMA ClosePaneNew ==
  ASSUME OrderInv, NEW p \in PaneIds, NEW done \in [PaneIds -> DrainStates],
         \A q \in PaneIds : drain[q] # "unborn" => done[q] # "unborn", ClosePane(p, done)
  PROVE  NothingReturns /\ GoneExactly({p})
<1> USE OrderTypes, TreeTypes
<1>1. ASSUME NEW w \in Live, NEW i \in DOMAIN tabs[w], RemoveTab(w, i, {p}, done, <<PaneClosed(p)>>)
      PROVE  NothingReturns /\ GoneExactly({p})
  <2> DEFINE log == <<PaneClosed(p)>>
  <2> HIDE DEF log
  <2>1. RemoveTab(w, i, {p}, done, log)
    BY <1>1 DEF log
  <2> QED
    BY <2>1, RemoveTabNew
<1>2. CASE panes' = panes \ {p} /\ drain' = done /\ UNCHANGED layout
  BY <1>2 DEF NothingReturns, GoneExactly, layout, Leaves
<1> QED
  BY <1>1, <1>2 DEF ClosePane

LEMMA CloseTabNew ==
  ASSUME OrderInv, NEW w \in Live, NEW i \in DOMAIN tabs[w], close_tab(w, i)
  PROVE  NothingReturns /\ GoneExactly(Leaves(tabs[w][i]))
<1> USE OrderTypes, TreeTypes
<1> DEFINE t == tabs[w][i]
           log == Append(ClosedEvents(Retain(pane_tree[t], panes)), <<"TabClosed", t>>)
<1>1. RemoveTab(w, i, Leaves(t), drain, log)
  BY DEF close_tab
<1> HIDE DEF log
<1>2. NothingReturns /\ GoneExactly(Leaves(t))
  BY <1>1, RemoveTabNew
<1> QED
  BY <1>2

LEMMA NextNew == ASSUME OrderInv, Next PROVE NothingReturns
<1> USE OrderTypes, TreeTypes
<1>1. CASE UNCHANGED <<panes, layout, drain>>
  BY <1>1 DEF NothingReturns, layout, Leaves
<1>2. CASE Duplicate
  BY <1>1, <1>2, CommitNew DEF Duplicate, DuplicateSnapshot, DuplicateSpawnFails
<1>3. ASSUME NEW w \in Live, NEW i \in DOMAIN tabs[w], close_tab(w, i) PROVE NothingReturns
  BY <1>3, CloseTabNew
<1>4. ASSUME NEW p \in PaneIds, close_pane(p) PROVE NothingReturns
  BY <1>4, ClosePaneNew DEF close_pane
<1>5. ASSUME NEW idx, delete_workspace(idx) PROVE NothingReturns
  <2> DEFINE T == TabsOf(WorkspaceAt(idx))
  <2>1. pane_tree' = [t \in TabIds |-> IF t \in T THEN <<>> ELSE pane_tree[t]]
    BY <1>5 DEF delete_workspace
  <2>2. panes' \subseteq panes /\ drain' = drain
    BY <1>5 DEF delete_workspace
  <2> HIDE DEF T
  <2>3. \A t \in TabIds : pane_tree'[t] = <<>> \/ pane_tree'[t] = pane_tree[t]
    BY <2>1
  <2>4. \A t \in TabIds : Leaves(t)' = {} \/ Leaves(t)' = Leaves(t)
    BY <2>3, NoElement DEF Leaves
  <2> QED
    BY <2>2, <2>4 DEF NothingReturns
<1>6. CASE Arrange
  BY <1>6 DEF Arrange, move_workspace, move_tab, set_active_workspace, set_active_tab, set_active_pane,
     NothingReturns, Leaves
<1>7. ASSUME NEW p \in PaneIds, SpawnDrainTask(p) \/ DrainEnds(p) PROVE NothingReturns
  <2>1. CASE UNCHANGED <<panes, layout>> /\ \A q \in PaneIds : drain[q] # "unborn" => drain'[q] # "unborn"
    BY <2>1 DEF NothingReturns, layout, Leaves
  <2>2. CASE SpawnDrainTask(p)
    BY <2>1, <2>2 DEF SpawnDrainTask, OpenByteLog, RegisterByteLog, TakeOutputRx, DrainStep
  <2>3. CASE DrainEnds(p)
    <3>1. /\ [drain EXCEPT ![p] = "done"] \in [PaneIds -> DrainStates]
          /\ \A q \in PaneIds : drain[q] # "unborn" => [drain EXCEPT ![p] = "done"][q] # "unborn"
      BY DEF DrainStates
    <3>2. CASE ClosePane(p, [drain EXCEPT ![p] = "done"])
      BY <3>1, <3>2, ClosePaneNew
    <3>3. CASE DrainStep(p, "running", "done") /\ UNCHANGED <<panes, layout>>
      BY <2>1, <3>3 DEF DrainStep
    <3> QED
      BY <2>3, <3>2, <3>3 DEF DrainEnds
  <2> QED
    BY <1>7, <2>2, <2>3
<1> QED
  BY <1>2, <1>3, <1>4, <1>5, <1>6, <1>7, CreateNew DEF Next, Close

-----------------------------------------------------------------------------
(* A closing call between its halves: while its pane is registered, the pane *)
(* is a leaf of the tab the call saw it in -- leaves never change tabs, and  *)
(* a closed pane or a removed leaf never comes back.                         *)

ClosingCalls == [op : {"close_tab", "close_pane"}, pane : PaneIds, tab : TabIds, spared : SUBSET PaneIds]

CallInv ==
  "pane" \in DOMAIN request =>
    /\ request \in ClosingCalls
    /\ drain[request.pane] # "unborn"
    /\ request.pane \in panes => request.pane \in Leaves(request.tab)
    /\ request.pane \notin request.spared
    /\ request.op = "close_tab" => request.spared = {}

HandlersInv == OrderInv /\ ReachInv /\ CallInv

Quiet == UNCHANGED <<panes, pane_order, layout, byte_logs, log_files, drain, dups>>

LEMMA QuietKeeps ==
  ASSUME OrderInv, ReachInv, Quiet
  PROVE  OrderInv' /\ ReachInv'
<1> USE DEF Quiet, layout
<1>1. TypeOK' /\ IndicesValid'
  BY DEF OrderInv, TreeInv, LogInv, IndexInv, TypeOK, IndicesValid
<1>2. LogFollowsDrain' /\ ReservedOnce'
  BY DEF OrderInv, TreeInv, LogInv, LogFollowsDrain, ReservedOnce
<1>3. Forest' /\ LeavesBorn' /\ ReservedDistinct'
  BY DEF OrderInv, TreeInv, Forest, LeavesBorn, ReservedDistinct, Live, TabsOf, Leaves
<1>4. pane_order' \in Seq(PaneIds) /\ OrderMatchesRegistry' /\ RegisteredBorn'
  BY DEF OrderInv, OrderMatchesRegistry, RegisteredBorn
<1>5. RegisteredPaneHasLeaf'
  BY DEF ReachInv, RegisteredPaneHasLeaf, LiveTabs, Live, TabsOf, Leaves
<1> QED
  BY <1>1, <1>2, <1>3, <1>4, <1>5 DEF OrderInv, TreeInv, LogInv, IndexInv, ReachInv

LEMMA HandlersActsAsClient == ASSUME OrderInv, HandlersNext PROVE Next \/ Quiet
<1>1. CASE OthersCall
  BY <1>1 DEF OthersCall
<1>2. ASSUME NEW x \in Positions, LookForTab(x) PROVE Quiet
  BY <1>2 DEF LookForTab, Knows, Quiet
<1>3. ASSUME NEW p \in PaneIds, LookForPane(p) PROVE Quiet
  BY <1>3 DEF LookForPane, Knows, Quiet
<1>4. ASSUME NEW w \in WorkspaceIds, CreateWorkspace(w) PROVE Next
  BY <1>4 DEF CreateWorkspace, Next, Create
<1>5. CASE SetActiveTab
  <2>1. CASE request.at \in Positions /\ set_active_tab(request.at[1], request.at[2])
    <3>1. request.at[1] \in Indexes(workspaces) /\ request.at[2] \in Indexes(tabs[WorkspaceAt(request.at[1])])
      BY <2>1 DEF set_active_tab
    <3> QED
      BY <2>1, <3>1 DEF Next, Arrange
  <2> QED
    BY <1>5, <2>1 DEF SetActiveTab, Refused, Knows, Quiet
<1>6. CASE CloseTab
  BY <1>6 DEF CloseTab, Refused, Knows, Quiet, Next, Close
<1>7. CASE CloseLeaf
  BY <1>7, OrderTypes DEF CloseLeaf, Refused, Knows, Quiet, Next, Close
<1>8. CASE SeedTab
  <2>1. ASSUME NEW t \in TabIds, NEW p \in PaneIds, create_tab(request.at, t, p) PROVE Next
    <3>1. request.at \in Indexes(workspaces)
      BY <2>1 DEF create_tab
    <3> QED
      BY <2>1, <3>1 DEF Next, Create
  <2> QED
    BY <1>8, <2>1 DEF SeedTab, Refused, Knows, Quiet
<1> QED
  BY <1>1, <1>2, <1>3, <1>4, <1>5, <1>6, <1>7, <1>8 DEF HandlersNext, HandlerStep

LEMMA LeavesFinite == ASSUME OrderInv, NEW t \in TabIds PROVE IsFiniteSet(Leaves(t))
<1> USE OrderTypes, TreeTypes
<1>1. PICK s \in Seq(PaneIds) : s = pane_tree[t]
  OBVIOUS
<1> DEFINE place == [k \in 1 .. Len(s) |-> s[k]]
<1>2. DOMAIN s = 1 .. Len(s) /\ IsFiniteSet(1 .. Len(s))
  BY FS_Interval
<1>3. place \in Surjection(1 .. Len(s), ToSet(s))
  BY <1>2 DEF Surjection, ToSet
<1>4. IsFiniteSet(ToSet(s))
  BY <1>2, <1>3, FS_Surjection DEF ExistsSurjection
<1> QED
  BY <1>1, <1>4 DEF Leaves

LEMMA StartsClosing ==
  ASSUME HandlersInv, NEW p \in PaneIds, LookForPane(p)
  PROVE  CallInv'
<1> USE OrderTypes, TreeTypes DEF HandlersInv
<1>1. PICK t \in find_tab_for_pane(p), whole_tab \in BOOLEAN :
        Knows([op |-> IF whole_tab \/ is_sole_in_tab(t, p) THEN "close_tab" ELSE "close_pane",
               pane |-> p, tab |-> t, spared |-> IF whole_tab THEN {} ELSE Leaves(t) \ {p}])
  BY DEF LookForPane
<1>2. t \in TabIds /\ p \in Leaves(t) /\ Leaves(t) \subseteq PaneIds /\ drain[p] # "unborn"
  BY LiveTabsAre DEF find_tab_for_pane, LookForPane, LiveTabsAreTabs
<1>3. ASSUME is_sole_in_tab(t, p) PROVE Leaves(t) \ {p} = {}
  <2>1. IsFiniteSet(Leaves(t))
    BY <1>2, LeavesFinite
  <2>2. Cardinality(Leaves(t) \ {p}) = Cardinality(Leaves(t)) - 1 /\ IsFiniteSet(Leaves(t) \ {p})
    BY <1>2, <2>1, FS_RemoveElement
  <2>3. Cardinality(Leaves(t)) \in Nat /\ Cardinality(Leaves(t) \ {p}) \in Nat
    BY <2>1, <2>2, FS_CardinalityType
  <2>4. Cardinality(Leaves(t) \ {p}) = 0
    BY <1>3, <2>2, <2>3 DEF is_sole_in_tab
  <2> QED
    BY <2>2, <2>4, FS_EmptySet
<1>4. /\ request' \in ClosingCalls /\ request'.pane = p /\ request'.tab = t /\ p \notin request'.spared
      /\ request'.op = "close_tab" => request'.spared = {}
  BY <1>1, <1>2, <1>3 DEF Knows, ClosingCalls
<1>5. drain' = drain /\ Leaves(t)' = Leaves(t)
  BY <1>1 DEF Knows, layout, Leaves
<1> QED
  BY <1>2, <1>4, <1>5 DEF CallInv

(* While others have the mutex                                               *)
LEMMA StaysClosing ==
  ASSUME HandlersInv, OrderInv', ReachInv', NothingReturns, UNCHANGED request
  PROVE  CallInv'
<1> USE OrderTypes, TreeTypes DEF HandlersInv
<1> SUFFICES ASSUME "pane" \in DOMAIN request PROVE CallInv'
  BY DEF CallInv
<1>1. PICK p \in PaneIds : p = request.pane
  BY DEF CallInv, ClosingCalls
<1>2. PICK t \in TabIds : t = request.tab
  BY DEF CallInv, ClosingCalls
<1>3. drain[p] # "unborn" /\ (p \in panes => p \in Leaves(t))
  BY <1>1, <1>2 DEF CallInv
<1>4. drain'[p] # "unborn" /\ (p \in panes' => p \in panes)
  BY <1>3 DEF NothingReturns
<1>5. ASSUME p \in panes' PROVE p \in Leaves(t)'
  <2>1. PICK u \in TabIds : p \in Leaves(u)'
    BY <1>5, LiveTabsStay DEF ReachInv, RegisteredPaneHasLeaf, LiveTabsAreTabs
  <2>2. p \in Leaves(u) /\ p \in Leaves(t)
    BY <1>3, <1>4, <1>5, <2>1 DEF NothingReturns
  <2>3. u = t
    BY <2>2 DEF OrderInv, TreeInv, Forest
  <2> QED
    BY <2>1, <2>3
<1>6. /\ request' \in ClosingCalls /\ request'.pane = p /\ request'.tab = t /\ p \notin request'.spared
      /\ request'.op = "close_tab" => request'.spared = {}
  BY <1>1, <1>2 DEF CallInv
<1> QED
  BY <1>4, <1>5, <1>6 DEF CallInv

LEMMA NextHandlersInv == HandlersInv /\ [HandlersNext]_handlerVars => HandlersInv'
<1> USE DEF HandlersInv
<1>1. ASSUME HandlersInv, HandlersNext PROVE HandlersInv'
  <2>1. OrderInv' /\ ReachInv'
    <3>1. CASE Next
      BY <1>1, <3>1, NextOrderInv, NextReachInv
    <3>2. CASE Quiet
      BY <1>1, <3>2, QuietKeeps
    <3> QED
      BY <1>1, <3>1, <3>2, HandlersActsAsClient
  <2>2. CASE OthersCall
    BY <1>1, <2>1, <2>2, NextNew, StaysClosing DEF OthersCall
  <2>3. ASSUME NEW p \in PaneIds, LookForPane(p) PROVE HandlersInv'
    BY <1>1, <2>1, <2>3, StartsClosing
  <2>4. CASE "pane" \notin DOMAIN request'
    BY <2>1, <2>4 DEF CallInv
  <2>5. CASE HandlerStep /\ ~ \E p \in PaneIds : LookForPane(p)
    <3>1. "pane" \notin DOMAIN request'
      BY <2>5 DEF HandlerStep, LookForTab, CreateWorkspace, SetActiveTab, CloseTab, CloseLeaf, SeedTab,
         Refused, Answered, Knows, NoRequest
    <3> QED
      BY <2>4, <3>1
  <2> QED
    BY <1>1, <2>2, <2>3, <2>5 DEF HandlersNext
<1>2. ASSUME HandlersInv, UNCHANGED handlerVars PROVE HandlersInv'
  <2>1. OrderInv' /\ ReachInv'
    BY <1>2, QuietKeeps DEF Quiet, handlerVars, vars
  <2> QED
    BY <1>2, <2>1 DEF CallInv, handlerVars, vars, layout, Leaves
<1> QED
  BY <1>1, <1>2

CloseExact ==
  request # NoRequest /\ request' = NoRequest /\ "pane" \in DOMAIN request =>
    /\ request.pane \notin panes'
    /\ panes \ panes' \subseteq Leaves(request.tab) \ request.spared

LEMMA RefusedIsExact ==
  ASSUME HandlersInv, "pane" \in DOMAIN request, Refused, request.pane \notin panes
  PROVE  CloseExact
BY DEF Refused, Knows, CloseExact

LEMMA CloseTabIsExact == ASSUME HandlersInv, "pane" \in DOMAIN request, CloseTab PROVE CloseExact
<1> USE OrderTypes, TreeTypes DEF HandlersInv
<1>1. PICK p \in PaneIds : p = request.pane
  BY DEF CallInv, ClosingCalls
<1>2. PICK t \in TabIds : t = request.tab
  BY DEF CallInv, ClosingCalls
<1>3. /\ drain[p] # "unborn" /\ (p \in panes => p \in Leaves(t)) /\ request.spared = {}
  BY <1>1, <1>2 DEF CallInv, CloseTab
<1>4. ASSUME NEW w \in Live, NEW i \in DOMAIN tabs[w], tabs[w][i] = t, close_tab(w, i) PROVE CloseExact
  <2>1. NothingReturns /\ GoneExactly(Leaves(t))
    BY <1>4, CloseTabNew
  <2>2. p \notin panes'
    BY <1>3, <2>1 DEF NothingReturns, GoneExactly
  <2>3. panes \ panes' \subseteq Leaves(t)
    BY <2>1 DEF GoneExactly
  <2> QED
    BY <1>1, <1>2, <1>3, <2>2, <2>3 DEF CloseExact
<1>5. CASE Refused /\ t \notin LiveTabs
  <2>1. p \notin panes
    BY <1>3, <1>5, LiveTabsOfForest DEF OrderInv, TreeInv, LogInv, IndexInv, Forest
  <2> QED
    BY <1>1, <1>5, <2>1, RefusedIsExact
<1> QED
  BY <1>2, <1>4, <1>5 DEF CloseTab

LEMMA CloseLeafIsExact == ASSUME HandlersInv, "pane" \in DOMAIN request, CloseLeaf PROVE CloseExact
<1> USE OrderTypes, TreeTypes DEF HandlersInv
<1>1. PICK p \in PaneIds : p = request.pane
  BY DEF CallInv, ClosingCalls
<1>2. drain[p] # "unborn" /\ p \notin request.spared /\ (p \in panes => p \in Leaves(request.tab))
  BY <1>1 DEF CallInv
<1>3. CASE p \in panes /\ close_pane(p)
  <2>1. GoneExactly({p})
    BY <1>3, ClosePaneNew DEF close_pane
  <2>2. p \notin panes' /\ panes \ panes' \subseteq {p}
    BY <1>2, <2>1 DEF GoneExactly
  <2> QED
    BY <1>1, <1>2, <1>3, <2>2 DEF CloseExact
<1>4. CASE Refused /\ p \notin panes
  BY <1>1, <1>4, RefusedIsExact
<1> QED
  BY <1>1, <1>3, <1>4 DEF CloseLeaf

(* Whatever others do between the two critical sections of close_pane and    *)
(* close_tab -- close the tab, split the pane, close a sibling, delete the   *)
(* workspace -- when the call is answered its pane is unregistered, no pane  *)
(* of another tab went, and the siblings close_pane saw were not closed by   *)
(* it.  What the call saw may be stale: a pane split off since goes with the *)
(* tab.                                                                      *)
THEOREM ClosesAreAlwaysExact == HandlersSpec => ClosesAreExact
<1>1. HandlersInit => HandlersInv
  <2> SUFFICES ASSUME HandlersInit PROVE HandlersInv
    OBVIOUS
  <2>1. OrderInv
    BY InitOrderInv DEF HandlersInit
  <2>2. ReachInv
    BY InitIndexInv DEF HandlersInit, ReachInv, Init, RegisteredPaneHasLeaf
  <2>3. CallInv
    BY DEF HandlersInit, CallInv, NoRequest
  <2> QED
    BY <2>1, <2>2, <2>3 DEF HandlersInv
<1>2. HandlersInv /\ [HandlersNext]_handlerVars => [CloseExact]_handlerVars
  <2> SUFFICES ASSUME HandlersInv, HandlersNext, request # NoRequest, request' = NoRequest,
                      "pane" \in DOMAIN request
               PROVE  CloseExact
    BY DEF CloseExact
  <2>1. request.op \in {"close_tab", "close_pane"}
    BY DEF HandlersInv, CallInv, ClosingCalls
  <2>2. CloseTab \/ CloseLeaf
    BY <2>1 DEF HandlersNext, HandlerStep, OthersCall, LookForTab, LookForPane, CreateWorkspace,
       SetActiveTab, SeedTab
  <2> QED
    BY <2>2, CloseTabIsExact, CloseLeafIsExact
<1> QED
  BY <1>1, <1>2, NextHandlersInv, PTL DEF HandlersSpec, ClosesAreExact, CloseExact
=============================================================================
