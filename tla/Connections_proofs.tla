-------------------------- MODULE Connections_proofs --------------------------
(* Proofs about the connections of a session's windows and daemons.          *)
EXTENDS Connections, SequenceLemmas

-----------------------------------------------------------------------------
(* Attachment                                                                *)

PathServes == path # None => daemon[path] = "serving"

LinksServed ==
  \A s \in Slots : links[s] # None =>
    /\ links[s].stage # "over" => daemon[links[s].to] = "serving"
    /\ links[s].stage = "over" => ~ links[s].left

StreamsHome ==
  \A w \in Launches : LET l == links[<<w, "pane">>] IN l # None =>
    /\ ~ l.left => home[w] = l.to
    /\ l.stage = "over" => ~ shell[l.to] \/ daemon[l.to] = "gone"

Alive(d) == daemon[d] \in {"loading", "ready", "serving", "deaf"}
OneDaemon ==
  rivals \/ /\ \A d, e \in Daemons : Alive(d) /\ Alive(e) => d = e
            /\ \A d \in Daemons : daemon[d] = "serving" => path = d

CallsWait ==
  \A w \in Launches :
    /\ window[w] = "asking" => links[<<w, "is_attached">>] # None /\ ~ links[<<w, "is_attached">>].left
    /\ window[w] = "checking" => links[<<w, "list_tabs">>] # None /\ ~ links[<<w, "list_tabs">>].left

StreamsEnd ==
  \A w \in Launches :
    /\ ~ WindowLives(w) => pane[w] = "none"
    /\ window[w] = "checking" => pane[w] = "ended"
    /\ pane[w] \in {"none", "connecting"} => home[w] = None
    /\ pane[w] = "ended" => home[w] = None \/ ~ shell[home[w]] \/ daemon[home[w]] = "gone"

AttachInv ==
  /\ AttachTypeOK /\ PathServes /\ LinksServed /\ StreamsHome /\ OneDaemon
  /\ CallsWait /\ StreamsEnd /\ PanesSurviveDaemon

LinksType == [Slots -> Link \cup {None}]

LEMMA SlotFacts ==
  /\ \A w \in Launches : {<<w, "is_attached">>, <<w, "list_tabs">>, <<w, "pane">>} \subseteq Slots
  /\ \A s \in Slots : s = <<s[1], s[2]>> /\ s[1] \in Launches /\ s[2] \in Kinds
BY DEF Slots, Kinds

LEMMA LinkIs ==
  ASSUME links \in LinksType, NEW s \in Slots, links[s] # None
  PROVE  /\ links[s].to \in Daemons /\ links[s].left \in BOOLEAN
         /\ links[s] \in Link
         /\ [links[s] EXCEPT !.left = TRUE] \in Link
         /\ \A stg \in {"queued", "alone", "attached", "answered", "streaming", "over"} :
              [links[s] EXCEPT !.stage = stg] \in Link
<1>1. links[s] \in Link
  BY DEF LinksType
<1> QED
  BY <1>1 DEF Link

LEMMA DialledIs ==
  ASSUME links \in LinksType, path \in Daemons, NEW w \in Launches, NEW kind \in Kinds
  PROVE  Dialled(w, kind) \in LinksType
BY DEF LinksType, Dialled, Slots, Link

LEMMA DroppedIs ==
  ASSUME links \in LinksType, NEW S \in SUBSET Open
  PROVE  Dropped(S) \in LinksType
BY LinkIs DEF LinksType, Dropped, Open

LEMMA OverIs ==
  ASSUME links \in LinksType, NEW s \in Slots, links[s] # None, Over(s)
  PROVE  links' \in LinksType
<1>1. IF links[s].left THEN links' = [links EXCEPT ![s] = None]
      ELSE links' = [links EXCEPT ![s] = [links[s] EXCEPT !.stage = "over"]]
  BY DEF Over
<1> QED
  BY <1>1, LinkIs DEF LinksType

LEMMA StageIs ==
  ASSUME links \in LinksType, NEW s \in Slots, links[s] # None, NEW stg, Stage(s, stg),
         stg \in {"alone", "attached", "answered", "streaming"}
  PROVE  /\ links' \in LinksType
         /\ links' = [links EXCEPT ![s] = [links[s] EXCEPT !.stage = stg]]
<1>1. links' = [links EXCEPT ![s] = [links[s] EXCEPT !.stage = stg]]
  BY DEF Stage
<1> QED
  BY <1>1, LinkIs DEF LinksType

(* What dialling, dropping, or a step of a connection's task does to links   *)
LEMMA DialledLinks ==
  ASSUME AttachInv, path \in Daemons, NEW w \in Launches, NEW kind \in Kinds, links' = Dialled(w, kind)
  PROVE  /\ links'[<<w, kind>>] # None /\ ~ links'[<<w, kind>>].left
         /\ \A s \in Slots \ {<<w, kind>>} : links'[s] = links[s]
<1>1. <<w, kind>> \in Slots
  BY DEF Slots
<1>2. [to |-> path, left |-> FALSE, stage |-> "queued"] \in Link
  BY DEF Link
<1> QED
  BY <1>1, <1>2, AttachAssumption DEF AttachInv, AttachTypeOK, Dialled

LEMMA DroppedLinks ==
  ASSUME AttachInv, NEW S \in SUBSET Open, links' = Dropped(S)
  PROVE  \A s \in Slots : links'[s] # None =>
           /\ links[s] # None /\ links'[s].to = links[s].to /\ links'[s].stage = links[s].stage
           /\ s \in S => links[s].stage # "over"
           /\ s \notin S => links'[s].left = links[s].left
<1> SUFFICES ASSUME NEW s \in Slots, links'[s] # None
             PROVE  /\ links[s] # None /\ links'[s].to = links[s].to /\ links'[s].stage = links[s].stage
                    /\ s \in S => links[s].stage # "over"
                    /\ s \notin S => links'[s].left = links[s].left
  OBVIOUS
<1>1. CASE s \notin S
  BY <1>1 DEF Dropped
<1>2. CASE s \in S
  <2>1. links[s] # None /\ links[s] \in Link
    BY <1>2, LinkIs DEF Open, AttachInv, AttachTypeOK, LinksType
  <2>2. links'[s] = [links[s] EXCEPT !.left = TRUE] /\ links[s].stage # "over"
    BY <1>2 DEF Dropped
  <2> QED
    BY <1>2, <2>1, <2>2 DEF Link
<1> QED
  BY <1>1, <1>2

StepsLink(s) ==
  /\ \A t \in Slots \ {s} : links'[t] = links[t]
  /\ links'[s] # None => links'[s].to = links[s].to
  /\ links'[s] # None => (links'[s].left <=> links[s].left)
  /\ links'[s] # None /\ links[s].left => links'[s].stage # "over"
  /\ links'[s] = None => links[s].left

LEMMA AcceptLinks ==
  ASSUME AttachInv, NEW s \in Slots, Accept(s) \/ SeesPaneClosed(s)
  PROVE  links[s] # None /\ StepsLink(s)
<1>1. /\ links \in LinksType /\ links[s] # None /\ links[s] \in Link
      /\ \A stg \in {"queued", "alone", "attached", "answered", "streaming", "over"} :
           [links[s] EXCEPT !.stage = stg] \in Link
  BY LinkIs DEF AttachInv, AttachTypeOK, LinksType, Accept, SeesPaneClosed, Reached
<1>2. CASE Over(s)
  <2>1. links' = [links EXCEPT ![s] = IF links[s].left THEN None ELSE [links[s] EXCEPT !.stage = "over"]]
    BY <1>2 DEF Over
  <2> QED
    BY <1>1, <2>1, AttachAssumption DEF AttachInv, LinksType, Link, StepsLink
<1>3. ASSUME NEW stg \in {"alone", "attached", "answered", "streaming"}, Stage(s, stg)
      PROVE  StepsLink(s)
  <2>1. links' = [links EXCEPT ![s] = [links[s] EXCEPT !.stage = stg]]
    BY <1>1, <1>3, StageIs
  <2> QED
    BY <1>1, <2>1, AttachAssumption DEF AttachInv, LinksType, Link, StepsLink
<1> QED
  BY <1>1, <1>2, <1>3 DEF Accept, SeesPaneClosed, IsAttached

LEMMA BindUnlinks == ASSUME AttachInv, NEW d \in Daemons, new_with_session(d) PROVE AttachInv'
<1> USE AttachAssumption DEF AttachInv
<1>1. AttachTypeOK'
  BY DEF new_with_session, AttachTypeOK, DaemonPhases, WindowStages, PaneStates, Slots, Kinds, Link
<1>2. PathServes'
  BY DEF new_with_session, AttachTypeOK, PathServes
<1>3. LinksServed'
  BY DEF new_with_session, AttachTypeOK, PathServes, LinksServed, Slots, Kinds, Link
<1>4. StreamsHome'
  BY DEF new_with_session, AttachTypeOK, PathServes, LinksServed, StreamsHome, StreamsEnd, Slots, Kinds, Link, WindowLives
<1>5. OneDaemon'
  BY DEF new_with_session, AttachTypeOK, PathServes, OneDaemon, Alive
<1>6. CallsWait'
  BY SlotFacts DEF new_with_session, AttachTypeOK, CallsWait, Link
<1>7. StreamsEnd'
  BY DEF new_with_session, AttachTypeOK, StreamsEnd, StreamsHome, LinksServed, WindowLives, Slots, Kinds, Link
<1>8. PanesSurviveDaemon'
  BY DEF new_with_session, AttachTypeOK, PanesSurviveDaemon, StreamsEnd, StreamsHome, LinksServed, CallsWait, Slots, Kinds, Link, WindowLives
<1> QED
  BY <1>1, <1>2, <1>3, <1>4, <1>5, <1>6, <1>7, <1>8

LEMMA BindOrDeaf == ASSUME AttachInv, NEW d \in Daemons, run_with_streaming(d) PROVE AttachInv'
<1> USE AttachAssumption DEF AttachInv
<1>1. AttachTypeOK'
  BY DEF run_with_streaming, AttachTypeOK, DaemonPhases, WindowStages, PaneStates, Slots, Kinds, Link
<1>2. PathServes'
  BY DEF run_with_streaming, AttachTypeOK, PathServes
<1>3. LinksServed'
  BY DEF run_with_streaming, AttachTypeOK, PathServes, LinksServed, Slots, Kinds, Link
<1>4. StreamsHome'
  BY DEF run_with_streaming, AttachTypeOK, PathServes, LinksServed, StreamsHome, StreamsEnd, Slots, Kinds, Link, WindowLives
<1>5. OneDaemon'
  BY DEF run_with_streaming, AttachTypeOK, PathServes, OneDaemon, Alive
<1>6. CallsWait'
  BY SlotFacts DEF run_with_streaming, AttachTypeOK, CallsWait, Link
<1>7. StreamsEnd'
  BY DEF run_with_streaming, AttachTypeOK, StreamsEnd, StreamsHome, LinksServed, WindowLives, Slots, Kinds, Link
<1>8. PanesSurviveDaemon'
  BY DEF run_with_streaming, AttachTypeOK, PanesSurviveDaemon, StreamsEnd, StreamsHome, LinksServed, CallsWait, Slots, Kinds, Link, WindowLives
<1> QED
  BY <1>1, <1>2, <1>3, <1>4, <1>5, <1>6, <1>7, <1>8

LEMMA ExitKeeps == ASSUME AttachInv, NEW d \in Daemons, DaemonExits(d) PROVE AttachInv'
<1> USE AttachAssumption DEF AttachInv
<1>1. AttachTypeOK'
  BY DEF DaemonExits, Gone, Severed, AttachTypeOK, DaemonPhases, WindowStages, PaneStates, Slots, Kinds, Link
<1>2. PathServes'
  BY DEF DaemonExits, Gone, Severed, AttachTypeOK, PathServes
<1>3. LinksServed'
  BY DEF DaemonExits, Gone, Severed, AttachTypeOK, PathServes, LinksServed, Slots, Kinds, Link
<1>4. StreamsHome'
  BY DEF DaemonExits, Gone, Severed, AttachTypeOK, PathServes, LinksServed, StreamsHome, StreamsEnd, Slots, Kinds, Link, WindowLives
<1>5. OneDaemon'
  BY DEF DaemonExits, Gone, Severed, AttachTypeOK, PathServes, OneDaemon, Alive
<1>6. CallsWait'
  BY SlotFacts, ZenonT(60) DEF DaemonExits, Gone, Severed, AttachTypeOK, CallsWait, Link
<1>7. StreamsEnd'
  BY DEF DaemonExits, Gone, Severed, AttachTypeOK, StreamsEnd, StreamsHome, LinksServed, WindowLives, Slots, Kinds, Link
<1>8. PanesSurviveDaemon'
  BY DEF DaemonExits, Gone, Severed, AttachTypeOK, PanesSurviveDaemon, StreamsEnd, StreamsHome, LinksServed, CallsWait, Slots, Kinds, Link, WindowLives
<1> QED
  BY <1>1, <1>2, <1>3, <1>4, <1>5, <1>6, <1>7, <1>8

LEMMA KillKeeps == ASSUME AttachInv, NEW d \in Daemons, DaemonKilled(d) PROVE AttachInv'
<1> USE AttachAssumption DEF AttachInv
<1>1. AttachTypeOK'
  BY DEF DaemonKilled, Gone, PathWithout, Severed, AttachTypeOK, DaemonPhases, WindowStages, PaneStates, Slots, Kinds, Link
<1>2. PathServes'
  BY DEF DaemonKilled, Gone, PathWithout, Severed, AttachTypeOK, PathServes
<1>3. LinksServed'
  BY DEF DaemonKilled, Gone, PathWithout, Severed, AttachTypeOK, PathServes, LinksServed, Slots, Kinds, Link
<1>4. StreamsHome'
  BY DEF DaemonKilled, Gone, PathWithout, Severed, AttachTypeOK, PathServes, LinksServed, StreamsHome, StreamsEnd, Slots, Kinds, Link, WindowLives
<1>5. OneDaemon'
  BY DEF DaemonKilled, Gone, PathWithout, Severed, AttachTypeOK, PathServes, OneDaemon, Alive
<1>6. CallsWait'
  BY SlotFacts, ZenonT(60) DEF DaemonKilled, Gone, PathWithout, Severed, AttachTypeOK, CallsWait, Link
<1>7. StreamsEnd'
  BY DEF DaemonKilled, Gone, PathWithout, Severed, AttachTypeOK, StreamsEnd, StreamsHome, LinksServed, WindowLives, Slots, Kinds, Link
<1>8. PanesSurviveDaemon'
  BY DEF DaemonKilled, Gone, PathWithout, Severed, AttachTypeOK, PanesSurviveDaemon, StreamsEnd, StreamsHome, LinksServed, CallsWait, Slots, Kinds, Link, WindowLives
<1> QED
  BY <1>1, <1>2, <1>3, <1>4, <1>5, <1>6, <1>7, <1>8

LEMMA ShellKeeps == ASSUME AttachInv, NEW d \in Daemons, ShellExits(d) PROVE AttachInv'
<1> USE AttachAssumption DEF AttachInv
<1>1. AttachTypeOK'
  BY DEF ShellExits, AttachTypeOK, DaemonPhases, WindowStages, PaneStates, Slots, Kinds, Link
<1>2. PathServes'
  BY DEF ShellExits, AttachTypeOK, PathServes
<1>3. LinksServed'
  BY DEF ShellExits, AttachTypeOK, PathServes, LinksServed, Slots, Kinds, Link
<1>4. StreamsHome'
  BY DEF ShellExits, AttachTypeOK, PathServes, LinksServed, StreamsHome, StreamsEnd, Slots, Kinds, Link, WindowLives
<1>5. OneDaemon'
  BY DEF ShellExits, AttachTypeOK, PathServes, OneDaemon, Alive
<1>6. CallsWait'
  BY SlotFacts DEF ShellExits, AttachTypeOK, CallsWait, Link
<1>7. StreamsEnd'
  BY DEF ShellExits, AttachTypeOK, StreamsEnd, StreamsHome, LinksServed, WindowLives, Slots, Kinds, Link
<1>8. PanesSurviveDaemon'
  BY DEF ShellExits, AttachTypeOK, PanesSurviveDaemon, StreamsEnd, StreamsHome, LinksServed, CallsWait, Slots, Kinds, Link, WindowLives
<1> QED
  BY <1>1, <1>2, <1>3, <1>4, <1>5, <1>6, <1>7, <1>8

LEMMA LaunchKeeps == ASSUME AttachInv, NEW w \in Launches, Launch(w) PROVE AttachInv'
<1> USE AttachAssumption DEF AttachInv
<1>1. AttachTypeOK'
  BY DEF Launch, Goes, LaunchRests, FirstOf, AttachTypeOK, DaemonPhases, WindowStages, PaneStates, Slots, Kinds, Link
<1>2. PathServes'
  BY DEF Launch, Goes, LaunchRests, FirstOf, AttachTypeOK, PathServes
<1>3. LinksServed'
  BY DEF Launch, Goes, LaunchRests, FirstOf, AttachTypeOK, PathServes, LinksServed, Slots, Kinds, Link
<1>4. StreamsHome'
  BY DEF Launch, Goes, LaunchRests, FirstOf, AttachTypeOK, PathServes, LinksServed, StreamsHome, StreamsEnd, Slots, Kinds, Link, WindowLives
<1>5. OneDaemon'
  BY DEF Launch, Goes, LaunchRests, FirstOf, AttachTypeOK, PathServes, OneDaemon, Alive
<1>6. CallsWait'
  BY SlotFacts DEF Launch, Goes, LaunchRests, FirstOf, AttachTypeOK, CallsWait, Link
<1>7. StreamsEnd'
  BY DEF Launch, Goes, LaunchRests, FirstOf, AttachTypeOK, StreamsEnd, StreamsHome, LinksServed, WindowLives, Slots, Kinds, Link
<1>8. PanesSurviveDaemon'
  BY DEF Launch, Goes, LaunchRests, FirstOf, AttachTypeOK, PanesSurviveDaemon, StreamsEnd, StreamsHome, LinksServed, CallsWait, Slots, Kinds, Link, WindowLives
<1> QED
  BY <1>1, <1>2, <1>3, <1>4, <1>5, <1>6, <1>7, <1>8

LEMMA InUseKeeps == ASSUME AttachInv, NEW w \in Launches, is_session_in_use(w) PROVE AttachInv'
<1> USE AttachAssumption DEF AttachInv
<1>1. AttachTypeOK'
  BY DEF is_session_in_use, Goes, LaunchRests, FirstOf, Listening, Dialled, AttachTypeOK, DaemonPhases, WindowStages, PaneStates, Slots, Kinds, Link
<1>2. PathServes'
  BY DEF is_session_in_use, Goes, LaunchRests, FirstOf, Listening, Dialled, AttachTypeOK, PathServes
<1>3. LinksServed'
  BY DEF is_session_in_use, Goes, LaunchRests, FirstOf, Listening, Dialled, AttachTypeOK, PathServes, LinksServed, Slots, Kinds, Link
<1>4. StreamsHome'
  BY DEF is_session_in_use, Goes, LaunchRests, FirstOf, Listening, Dialled, AttachTypeOK, PathServes, LinksServed, StreamsHome, StreamsEnd, Slots, Kinds, Link, WindowLives
<1>5. OneDaemon'
  BY DEF is_session_in_use, Goes, LaunchRests, FirstOf, Listening, Dialled, AttachTypeOK, PathServes, OneDaemon, Alive
<1>6. CallsWait'
  <2>1. "is_attached" \in Kinds /\ path \in Daemons
    BY DEF Kinds, AttachTypeOK, is_session_in_use, Listening
  <2>2. links' = Dialled(w, "is_attached") /\ window' = [window EXCEPT ![w] = "asking"]
    BY DEF is_session_in_use, Goes
  <2> QED
    BY <2>1, <2>2, DialledLinks, SlotFacts DEF CallsWait, AttachTypeOK
<1>7. StreamsEnd'
  BY DEF is_session_in_use, Goes, LaunchRests, FirstOf, Listening, Dialled, AttachTypeOK, StreamsEnd, StreamsHome, LinksServed, WindowLives, Slots, Kinds, Link
<1>8. PanesSurviveDaemon'
  BY DEF is_session_in_use, Goes, LaunchRests, FirstOf, Listening, Dialled, AttachTypeOK, PanesSurviveDaemon, StreamsEnd, StreamsHome, LinksServed, CallsWait, Slots, Kinds, Link, WindowLives
<1> QED
  BY <1>1, <1>2, <1>3, <1>4, <1>5, <1>6, <1>7, <1>8

LEMMA AnsweredKeeps == ASSUME AttachInv, NEW w \in Launches, UseAnswered(w) PROVE AttachInv'
<1> USE AttachAssumption DEF AttachInv
<1>1. AttachTypeOK'
  <2>1. Dropped({<<w, "is_attached">>}) \in LinksType
    BY DroppedIs, SlotFacts DEF UseAnswered, AttachTypeOK, LinksType, CallsWait, Open
  <2> QED
    BY <2>1 DEF LinksType, UseAnswered, Goes, LaunchRests, AttachTypeOK, DaemonPhases, WindowStages, PaneStates
<1>2. PathServes'
  BY DEF UseAnswered, Goes, LaunchRests, Dropped, AttachTypeOK, PathServes
<1>3. LinksServed'
  <2>1. {<<w, "is_attached">>} \in SUBSET Open
    BY SlotFacts DEF UseAnswered, Goes, LaunchRests, CallsWait, Open
  <2> QED
    BY <2>1, DroppedLinks, ZenonT(60) DEF UseAnswered, Goes, LaunchRests, LinksServed
<1>4. StreamsHome'
  BY DEF UseAnswered, Goes, LaunchRests, Dropped, AttachTypeOK, PathServes, LinksServed, StreamsHome, StreamsEnd, Slots, Kinds, Link, WindowLives
<1>5. OneDaemon'
  BY DEF UseAnswered, Goes, LaunchRests, Dropped, AttachTypeOK, PathServes, OneDaemon, Alive
<1>6. CallsWait'
  BY SlotFacts DEF UseAnswered, Goes, LaunchRests, Dropped, AttachTypeOK, CallsWait, Link
<1>7. StreamsEnd'
  BY DEF UseAnswered, Goes, LaunchRests, Dropped, AttachTypeOK, StreamsEnd, StreamsHome, LinksServed, WindowLives, Slots, Kinds, Link
<1>8. PanesSurviveDaemon'
  BY DEF UseAnswered, Goes, LaunchRests, Dropped, AttachTypeOK, PanesSurviveDaemon, StreamsEnd, StreamsHome, LinksServed, CallsWait, Slots, Kinds, Link, WindowLives
<1> QED
  BY <1>1, <1>2, <1>3, <1>4, <1>5, <1>6, <1>7, <1>8

LEMMA ConnectsKeeps == ASSUME AttachInv, NEW w \in Launches, window[w] \in {"connecting", "waiting"}, Connects(w) PROVE AttachInv'
<1> USE AttachAssumption DEF AttachInv
<1>1. AttachTypeOK'
  BY DEF Connects, Goes, AttachTypeOK, DaemonPhases, WindowStages, PaneStates, Slots, Kinds, Link
<1>2. PathServes'
  BY DEF Connects, Goes, AttachTypeOK, PathServes
<1>3. LinksServed'
  BY DEF Connects, Goes, AttachTypeOK, PathServes, LinksServed, Slots, Kinds, Link
<1>4. StreamsHome'
  BY DEF Connects, Goes, AttachTypeOK, PathServes, LinksServed, StreamsHome, StreamsEnd, Slots, Kinds, Link, WindowLives
<1>5. OneDaemon'
  BY DEF Connects, Goes, AttachTypeOK, PathServes, OneDaemon, Alive
<1>6. CallsWait'
  BY SlotFacts DEF Connects, Goes, AttachTypeOK, CallsWait, Link
<1>7. StreamsEnd'
  BY DEF Connects, Goes, AttachTypeOK, StreamsEnd, StreamsHome, LinksServed, WindowLives, Slots, Kinds, Link
<1>8. PanesSurviveDaemon'
  BY DEF Connects, Goes, AttachTypeOK, PanesSurviveDaemon, StreamsEnd, StreamsHome, LinksServed, CallsWait, Slots, Kinds, Link, WindowLives
<1> QED
  BY <1>1, <1>2, <1>3, <1>4, <1>5, <1>6, <1>7, <1>8

LEMMA SpawnsKeeps == ASSUME AttachInv, NEW w \in Launches, window[w] = "connecting", path = None, Spawns(w) PROVE AttachInv'
<1> USE AttachAssumption DEF AttachInv
<1>1. AttachTypeOK'
  BY DEF Spawns, Goes, FirstOf, AttachTypeOK, DaemonPhases, WindowStages, PaneStates, Slots, Kinds, Link
<1>2. PathServes'
  BY DEF Spawns, Goes, FirstOf, AttachTypeOK, PathServes
<1>3. LinksServed'
  BY DEF Spawns, Goes, FirstOf, AttachTypeOK, PathServes, LinksServed, Slots, Kinds, Link
<1>4. StreamsHome'
  BY DEF Spawns, Goes, FirstOf, AttachTypeOK, PathServes, LinksServed, StreamsHome, StreamsEnd, Slots, Kinds, Link, WindowLives
<1>5. OneDaemon'
  <2>1. PICK d \in Daemons :
          /\ daemon' = [daemon EXCEPT ![d] = "loading"] /\ path' = path
          /\ rivals' = (rivals \/ \E e \in Daemons : daemon[e] \in {"loading", "ready", "deaf"})
    BY DEF Spawns, FirstOf
  <2>2. CASE ~ rivals'
    <3>1. \A e \in Daemons : ~ Alive(e)
      BY <2>1, <2>2 DEF OneDaemon, Alive
    <3>2. \A e \in Daemons : e # d => ~ Alive(e)'
      BY <2>1, <3>1 DEF AttachTypeOK, Alive
    <3>3. daemon'[d] = "loading"
      BY <2>1 DEF AttachTypeOK
    <3> QED
      BY <3>2, <3>3 DEF OneDaemon, Alive
  <2> QED
    BY <2>2 DEF OneDaemon
<1>6. CallsWait'
  <2>1. links' = links /\ window' = [window EXCEPT ![w] = "waiting"]
    BY DEF Spawns, Goes
  <2> QED
    BY <2>1 DEF CallsWait, AttachTypeOK
<1>7. StreamsEnd'
  BY DEF Spawns, Goes, FirstOf, AttachTypeOK, StreamsEnd, StreamsHome, LinksServed, WindowLives, Slots, Kinds, Link
<1>8. PanesSurviveDaemon'
  BY DEF Spawns, Goes, FirstOf, AttachTypeOK, PanesSurviveDaemon, StreamsEnd, StreamsHome, LinksServed, CallsWait, Slots, Kinds, Link, WindowLives
<1> QED
  BY <1>1, <1>2, <1>3, <1>4, <1>5, <1>6, <1>7, <1>8

LEMMA SubscribeKeeps == ASSUME AttachInv, NEW w \in Launches, subscribe_output(w) PROVE AttachInv'
<1> USE AttachAssumption DEF AttachInv
<1>1. AttachTypeOK'
  <2>1. path # None => Dialled(w, "pane") \in LinksType
    BY DialledIs DEF AttachTypeOK, LinksType, Kinds
  <2> QED
    BY <2>1 DEF LinksType, subscribe_output, Listening, StreamRests, StreamEnded, AttachTypeOK, DaemonPhases, WindowStages, PaneStates
<1>2. PathServes'
  BY DEF subscribe_output, Listening, Dialled, StreamRests, WindowLives, StreamEnded, AttachTypeOK, PathServes
<1>3. LinksServed'
  BY DEF subscribe_output, Listening, Dialled, StreamRests, WindowLives, StreamEnded, AttachTypeOK, PathServes, LinksServed, Slots, Kinds, Link
<1>4. StreamsHome'
  BY DEF subscribe_output, Listening, Dialled, StreamRests, WindowLives, StreamEnded, AttachTypeOK, PathServes, LinksServed, StreamsHome, StreamsEnd, Slots, Kinds, Link
<1>5. OneDaemon'
  BY DEF subscribe_output, Listening, Dialled, StreamRests, WindowLives, StreamEnded, AttachTypeOK, PathServes, OneDaemon, Alive
<1>6. CallsWait'
  BY SlotFacts DEF subscribe_output, Listening, Dialled, StreamRests, WindowLives, StreamEnded, AttachTypeOK, CallsWait, Link
<1>7. StreamsEnd'
  BY DEF subscribe_output, Listening, Dialled, StreamRests, WindowLives, StreamEnded, AttachTypeOK, StreamsEnd, StreamsHome, LinksServed, Slots, Kinds, Link
<1>8. PanesSurviveDaemon'
  BY DEF subscribe_output, Listening, Dialled, StreamRests, WindowLives, StreamEnded, AttachTypeOK, PanesSurviveDaemon, StreamsEnd, StreamsHome, LinksServed, CallsWait, Slots, Kinds, Link
<1> QED
  BY <1>1, <1>2, <1>3, <1>4, <1>5, <1>6, <1>7, <1>8

LEMMA StreamEndKeeps == ASSUME AttachInv, NEW w \in Launches, StreamTaskEnds(<<w, "pane">>) PROVE AttachInv'
<1> USE AttachAssumption DEF AttachInv
<1>1. AttachTypeOK'
  BY DEF StreamTaskEnds, StreamRests, AttachTypeOK, DaemonPhases, WindowStages, PaneStates, Slots, Kinds, Link
<1>2. PathServes'
  BY DEF StreamTaskEnds, StreamRests, AttachTypeOK, PathServes
<1>3. LinksServed'
  BY DEF StreamTaskEnds, StreamRests, AttachTypeOK, PathServes, LinksServed, Slots, Kinds, Link
<1>4. StreamsHome'
  BY DEF StreamTaskEnds, StreamRests, AttachTypeOK, PathServes, LinksServed, StreamsHome, StreamsEnd, Slots, Kinds, Link, WindowLives
<1>5. OneDaemon'
  BY DEF StreamTaskEnds, StreamRests, AttachTypeOK, PathServes, OneDaemon, Alive
<1>6. CallsWait'
  BY SlotFacts DEF StreamTaskEnds, StreamRests, AttachTypeOK, CallsWait, Link
<1>7. StreamsEnd'
  BY DEF StreamTaskEnds, StreamRests, AttachTypeOK, StreamsEnd, StreamsHome, LinksServed, WindowLives, Slots, Kinds, Link
<1>8. PanesSurviveDaemon'
  BY DEF StreamTaskEnds, StreamRests, AttachTypeOK, PanesSurviveDaemon, StreamsEnd, StreamsHome, LinksServed, CallsWait, Slots, Kinds, Link, WindowLives
<1> QED
  BY <1>1, <1>2, <1>3, <1>4, <1>5, <1>6, <1>7, <1>8

LEMMA EndedKeeps == ASSUME AttachInv, NEW w \in Launches, HandleStreamEnded(w) PROVE AttachInv'
<1> USE AttachAssumption DEF AttachInv
<1>1. AttachTypeOK'
  <2>1. path # None => Dialled(w, "list_tabs") \in LinksType
    BY DialledIs DEF AttachTypeOK, LinksType, Kinds
  <2> QED
    BY <2>1 DEF LinksType, HandleStreamEnded, AskDaemon, WindowRests, Listening, Goes, AttachTypeOK, DaemonPhases, WindowStages, PaneStates
<1>2. PathServes'
  BY DEF HandleStreamEnded, AskDaemon, WindowRests, Listening, Dialled, Goes, AttachTypeOK, PathServes
<1>3. LinksServed'
  BY DEF HandleStreamEnded, AskDaemon, WindowRests, Listening, Dialled, Goes, AttachTypeOK, PathServes, LinksServed, Slots, Kinds, Link
<1>4. StreamsHome'
  BY DEF HandleStreamEnded, AskDaemon, WindowRests, Listening, Dialled, Goes, AttachTypeOK, PathServes, LinksServed, StreamsHome, StreamsEnd, Slots, Kinds, Link, WindowLives
<1>5. OneDaemon'
  BY DEF HandleStreamEnded, AskDaemon, WindowRests, Listening, Dialled, Goes, AttachTypeOK, PathServes, OneDaemon, Alive
<1>6. CallsWait'
  <2>1. CASE path # None
    <3>1. "list_tabs" \in Kinds /\ path \in Daemons
      BY <2>1 DEF Kinds, AttachTypeOK
    <3>2. links' = Dialled(w, "list_tabs") /\ window' = [window EXCEPT ![w] = "checking"]
      BY <2>1 DEF HandleStreamEnded, AskDaemon, Listening, Goes
    <3> QED
      BY <3>1, <3>2, DialledLinks, SlotFacts DEF CallsWait, AttachTypeOK
  <2> QED
    BY <2>1 DEF HandleStreamEnded, AskDaemon, Listening, CallsWait
<1>7. StreamsEnd'
  BY DEF HandleStreamEnded, AskDaemon, WindowRests, Listening, Dialled, Goes, AttachTypeOK, StreamsEnd, StreamsHome, LinksServed, WindowLives, Slots, Kinds, Link
<1>8. PanesSurviveDaemon'
  BY DEF HandleStreamEnded, AskDaemon, WindowRests, Listening, Dialled, Goes, AttachTypeOK, PanesSurviveDaemon, StreamsEnd, StreamsHome, LinksServed, CallsWait, Slots, Kinds, Link, WindowLives
<1> QED
  BY <1>1, <1>2, <1>3, <1>4, <1>5, <1>6, <1>7, <1>8

LEMMA CheckedKeeps == ASSUME AttachInv, NEW w \in Launches, Checked(w) PROVE AttachInv'
<1> USE AttachAssumption DEF AttachInv
<1>1. AttachTypeOK'
  <2>1. Dropped({<<w, "list_tabs">>}) \in LinksType
    BY DroppedIs, SlotFacts DEF Checked, AttachTypeOK, LinksType, CallsWait, Open
  <2> QED
    BY <2>1 DEF LinksType, Checked, Goes, WindowRests, AttachTypeOK, DaemonPhases, WindowStages, PaneStates
<1>2. PathServes'
  BY DEF Checked, Dropped, Goes, WindowRests, AttachTypeOK, PathServes
<1>3. LinksServed'
  <2>1. {<<w, "list_tabs">>} \in SUBSET Open
    BY SlotFacts DEF Checked, Goes, WindowRests, CallsWait, Open
  <2> QED
    BY <2>1, DroppedLinks, ZenonT(60) DEF Checked, Goes, WindowRests, LinksServed
<1>4. StreamsHome'
  BY DEF Checked, Dropped, Goes, WindowRests, AttachTypeOK, PathServes, LinksServed, StreamsHome, StreamsEnd, Slots, Kinds, Link, WindowLives
<1>5. OneDaemon'
  BY DEF Checked, Dropped, Goes, WindowRests, AttachTypeOK, PathServes, OneDaemon, Alive
<1>6. CallsWait'
  BY SlotFacts DEF Checked, Dropped, Goes, WindowRests, AttachTypeOK, CallsWait, Link
<1>7. StreamsEnd'
  BY DEF Checked, Dropped, Goes, WindowRests, AttachTypeOK, StreamsEnd, StreamsHome, LinksServed, WindowLives, Slots, Kinds, Link
<1>8. PanesSurviveDaemon'
  <2>1. PICK l \in Link : l = links[<<w, "list_tabs">>]
    BY SlotFacts, LinkIs DEF Checked, CallsWait, AttachTypeOK, LinksType
  <2>2. /\ pane' = [pane EXCEPT ![w] = IF l.stage = "answered" THEN "closed" ELSE "kept"]
        /\ UNCHANGED <<daemon, shell, home>>
    BY <2>1 DEF Checked, WindowRests
  <2>3. ASSUME l.stage = "answered"
        PROVE  \/ home[w] = None \/ ~ shell[home[w]]
               \/ daemon[home[w]] = "gone" /\ \E d \in Daemons \ {home[w]} : daemon[d] # "absent"
    <3>1. l.to \in Daemons /\ daemon[l.to] = "serving"
      BY <2>1, <2>3, SlotFacts DEF Checked, CallsWait, LinksServed, Link
    <3>2. home[w] = None \/ ~ shell[home[w]] \/ daemon[home[w]] = "gone"
      BY DEF StreamsEnd, Checked
    <3> QED
      BY <3>1, <3>2
  <2> QED
    BY <2>2, <2>3 DEF PanesSurviveDaemon, AttachTypeOK
<1> QED
  BY <1>1, <1>2, <1>3, <1>4, <1>5, <1>6, <1>7, <1>8

LEMMA GoneKeeps == ASSUME AttachInv, NEW w \in Launches, WindowGone(w) PROVE AttachInv'
<1> USE AttachAssumption DEF AttachInv
<1>1. AttachTypeOK'
  <2>1. Dropped(LinksOf(w)) \in LinksType
    BY DroppedIs DEF LinksOf, AttachTypeOK, LinksType
  <2> QED
    BY <2>1 DEF LinksType, WindowGone, Goes, AttachTypeOK, DaemonPhases, WindowStages, PaneStates
<1>2. PathServes'
  BY DEF WindowGone, Dropped, LinksOf, Open, Goes, AttachTypeOK, PathServes
<1>3. LinksServed'
  BY DEF WindowGone, Dropped, LinksOf, Open, Goes, AttachTypeOK, PathServes, LinksServed, Slots, Kinds, Link
<1>4. StreamsHome'
  BY SMTT(30) DEF WindowGone, Dropped, LinksOf, Open, Goes, AttachTypeOK, PathServes, LinksServed, StreamsHome, StreamsEnd, Slots, Kinds, Link, WindowLives
<1>5. OneDaemon'
  BY DEF WindowGone, Dropped, LinksOf, Open, Goes, AttachTypeOK, PathServes, OneDaemon, Alive
<1>6. CallsWait'
  BY SlotFacts DEF WindowGone, Dropped, LinksOf, Open, Goes, AttachTypeOK, CallsWait, Link
<1>7. StreamsEnd'
  BY DEF WindowGone, Dropped, LinksOf, Open, Goes, AttachTypeOK, StreamsEnd, StreamsHome, LinksServed, WindowLives, Slots, Kinds, Link
<1>8. PanesSurviveDaemon'
  BY DEF WindowGone, Dropped, LinksOf, Open, Goes, AttachTypeOK, PanesSurviveDaemon, StreamsEnd, StreamsHome, LinksServed, CallsWait, Slots, Kinds, Link, WindowLives
<1> QED
  BY <1>1, <1>2, <1>3, <1>4, <1>5, <1>6, <1>7, <1>8

LEMMA AcceptKeeps == ASSUME AttachInv, NEW s \in Slots, Accept(s) PROVE AttachInv'
<1> USE AttachAssumption DEF AttachInv
<1>1. AttachTypeOK'
  <2>1. links' \in LinksType
    BY OverIs, StageIs DEF Accept, Reached, IsAttached, AttachTypeOK, LinksType
  <2> QED
    BY <2>1 DEF LinksType, Accept, ServerRests, AttachTypeOK, DaemonPhases, WindowStages, PaneStates
<1>2. PathServes'
  BY DEF Accept, Reached, Stage, ServerRests, Over, AttachTypeOK, PathServes
<1>3. LinksServed'
  <2>1. daemon' = daemon /\ daemon[links[s].to] = "serving"
    BY DEF Accept, Reached, ServerRests
  <2>2. links[s] # None /\ StepsLink(s)
    BY AcceptLinks
  <2>3. links'[s] # None => daemon'[links'[s].to] = "serving"
    BY <2>1, <2>2 DEF StepsLink
  <2>4. links'[s] # None /\ links'[s].stage = "over" => ~ links'[s].left
    BY <2>2 DEF StepsLink
  <2> QED
    BY <2>1, <2>2, <2>3, <2>4 DEF LinksServed, StepsLink
<1>4. StreamsHome'
  BY DEF Accept, Reached, Stage, ServerRests, Over, AttachTypeOK, PathServes, LinksServed, StreamsHome, StreamsEnd, Slots, Kinds, Link, WindowLives
<1>5. OneDaemon'
  BY DEF Accept, Reached, Stage, ServerRests, Over, AttachTypeOK, PathServes, OneDaemon, Alive
<1>6. CallsWait'
  <2>1. window' = window
    BY DEF Accept, ServerRests
  <2>2. \A t \in Slots : links[t] # None /\ ~ links[t].left => links'[t] # None /\ ~ links'[t].left
    <3>1. StepsLink(s)
      BY AcceptLinks
    <3> QED
      BY <3>1 DEF StepsLink
  <2> QED
    BY <2>1, <2>2, SlotFacts DEF CallsWait
<1>7. StreamsEnd'
  BY DEF Accept, Reached, Stage, ServerRests, Over, AttachTypeOK, StreamsEnd, StreamsHome, LinksServed, WindowLives, Slots, Kinds, Link
<1>8. PanesSurviveDaemon'
  BY DEF Accept, Reached, Stage, ServerRests, Over, AttachTypeOK, PanesSurviveDaemon, StreamsEnd, StreamsHome, LinksServed, CallsWait, Slots, Kinds, Link, WindowLives
<1> QED
  BY <1>1, <1>2, <1>3, <1>4, <1>5, <1>6, <1>7, <1>8

LEMMA PaneClosedKeeps == ASSUME AttachInv, NEW s \in Slots, SeesPaneClosed(s) PROVE AttachInv'
<1> USE AttachAssumption DEF AttachInv
<1>1. AttachTypeOK'
  BY DEF SeesPaneClosed, Reached, ServerRests, Over, AttachTypeOK, DaemonPhases, WindowStages, PaneStates, Slots, Kinds, Link
<1>2. PathServes'
  BY DEF SeesPaneClosed, Reached, ServerRests, Over, AttachTypeOK, PathServes
<1>3. LinksServed'
  BY DEF SeesPaneClosed, Reached, ServerRests, Over, AttachTypeOK, PathServes, LinksServed, Slots, Kinds, Link
<1>4. StreamsHome'
  BY DEF SeesPaneClosed, Reached, ServerRests, Over, AttachTypeOK, PathServes, LinksServed, StreamsHome, StreamsEnd, Slots, Kinds, Link, WindowLives
<1>5. OneDaemon'
  BY DEF SeesPaneClosed, Reached, ServerRests, Over, AttachTypeOK, PathServes, OneDaemon, Alive
<1>6. CallsWait'
  <2>1. window' = window
    BY DEF SeesPaneClosed, ServerRests
  <2>2. \A t \in Slots : links[t] # None /\ ~ links[t].left => links'[t] # None /\ ~ links'[t].left
    <3>1. StepsLink(s)
      BY AcceptLinks
    <3> QED
      BY <3>1 DEF StepsLink
  <2> QED
    BY <2>1, <2>2, SlotFacts DEF CallsWait
<1>7. StreamsEnd'
  BY DEF SeesPaneClosed, Reached, ServerRests, Over, AttachTypeOK, StreamsEnd, StreamsHome, LinksServed, WindowLives, Slots, Kinds, Link
<1>8. PanesSurviveDaemon'
  BY DEF SeesPaneClosed, Reached, ServerRests, Over, AttachTypeOK, PanesSurviveDaemon, StreamsEnd, StreamsHome, LinksServed, CallsWait, Slots, Kinds, Link, WindowLives
<1> QED
  BY <1>1, <1>2, <1>3, <1>4, <1>5, <1>6, <1>7, <1>8

LEMMA ClientLeftKeeps == ASSUME AttachInv, NEW s \in Slots, ClientLeft(s) PROVE AttachInv'
<1> USE AttachAssumption DEF AttachInv
<1>1. AttachTypeOK'
  BY DEF ClientLeft, Reached, ServerRests, AttachTypeOK, DaemonPhases, WindowStages, PaneStates, Slots, Kinds, Link
<1>2. PathServes'
  BY DEF ClientLeft, Reached, ServerRests, AttachTypeOK, PathServes
<1>3. LinksServed'
  BY DEF ClientLeft, Reached, ServerRests, AttachTypeOK, PathServes, LinksServed, Slots, Kinds, Link
<1>4. StreamsHome'
  BY DEF ClientLeft, Reached, ServerRests, AttachTypeOK, PathServes, LinksServed, StreamsHome, StreamsEnd, Slots, Kinds, Link, WindowLives
<1>5. OneDaemon'
  BY DEF ClientLeft, Reached, ServerRests, AttachTypeOK, PathServes, OneDaemon, Alive
<1>6. CallsWait'
  BY SlotFacts DEF ClientLeft, Reached, ServerRests, AttachTypeOK, CallsWait, Link
<1>7. StreamsEnd'
  BY DEF ClientLeft, Reached, ServerRests, AttachTypeOK, StreamsEnd, StreamsHome, LinksServed, WindowLives, Slots, Kinds, Link
<1>8. PanesSurviveDaemon'
  BY DEF ClientLeft, Reached, ServerRests, AttachTypeOK, PanesSurviveDaemon, StreamsEnd, StreamsHome, LinksServed, CallsWait, Slots, Kinds, Link, WindowLives
<1> QED
  BY <1>1, <1>2, <1>3, <1>4, <1>5, <1>6, <1>7, <1>8

LEMMA NextAttachInv == AttachInv /\ [AttachNext]_attachVars => AttachInv'
<1> SUFFICES ASSUME AttachInv, [AttachNext]_attachVars PROVE AttachInv'
  OBVIOUS
<1>1. ASSUME NEW d \in Daemons,
             \/ new_with_session(d) \/ run_with_streaming(d) \/ DaemonExits(d)
             \/ DaemonKilled(d) \/ ShellExits(d)
      PROVE  AttachInv'
  BY <1>1, BindUnlinks, BindOrDeaf, ExitKeeps, KillKeeps, ShellKeeps
<1>2. ASSUME NEW w \in Launches,
             \/ Launch(w) \/ is_session_in_use(w) \/ UseAnswered(w) \/ ensure_daemon(w) \/ Retry(w)
             \/ ClientStep(w) \/ WindowGone(w)
      PROVE  AttachInv'
  BY <1>2, LaunchKeeps, InUseKeeps, AnsweredKeeps, ConnectsKeeps, SpawnsKeeps, SubscribeKeeps,
     StreamEndKeeps, EndedKeeps, CheckedKeeps, GoneKeeps
  DEF ensure_daemon, Retry, ClientStep, Listening
<1>3. ASSUME NEW w \in Launches, ServerStep(w) PROVE AttachInv'
  <2>1. PICK k \in Kinds : Accept(<<w, k>>) \/ SeesPaneClosed(<<w, k>>) \/ ClientLeft(<<w, k>>)
    BY <1>3 DEF ServerStep
  <2>2. <<w, k>> \in Slots
    BY DEF Slots
  <2> QED
    BY <2>1, <2>2, AcceptKeeps, PaneClosedKeeps, ClientLeftKeeps
<1>4. CASE UNCHANGED attachVars
  BY <1>4 DEF attachVars, AttachInv, AttachTypeOK, PathServes, LinksServed, StreamsHome, OneDaemon, Alive,
     CallsWait, StreamsEnd, WindowLives, PanesSurviveDaemon
<1> QED
  BY <1>1, <1>2, <1>3, <1>4 DEF AttachNext

LEMMA InitAttachInv == AttachInit => AttachInv
BY SlotFacts, ZenonT(60) DEF AttachInit, AttachInv, AttachTypeOK, PathServes, LinksServed, StreamsHome, OneDaemon,
   Alive, CallsWait, StreamsEnd, WindowLives, PanesSurviveDaemon, DaemonPhases, WindowStages, PaneStates

LEMMA AttachInvIsSafe == AttachInv => AttachSafe
<1> SUFFICES ASSUME AttachInv PROVE CallsFollowStreams
  BY DEF AttachInv, AttachSafe
<1>1. ASSUME ~ rivals, NEW s \in Open, links[s].stage = "streaming" PROVE path = links[s].to
  <2>1. s \in Slots /\ links[s] # None
    BY DEF Open
  <2>2. links[s].to \in Daemons
    BY <2>1, LinkIs DEF AttachInv, AttachTypeOK, LinksType
  <2> QED
    BY <1>1, <2>1, <2>2 DEF AttachInv, LinksServed, OneDaemon
<1> QED
  BY <1>1 DEF CallsFollowStreams

(* Whatever windows and daemons of a session start, race for the socket      *)
(* path, are killed or give up: the streams a window draws come from the     *)
(* daemon its calls go to, unless a daemon was spawned while another could   *)
(* not be reached; and a window closes a pane only for a shell that exited,  *)
(* or for a daemon that has a successor.                                     *)
THEOREM AttachmentSafe == AttachSpec => []AttachSafe
<1>1. AttachInv /\ [AttachNext]_attachVars => AttachInv'
  BY NextAttachInv
<1> QED
  BY <1>1, InitAttachInv, AttachInvIsSafe, PTL DEF AttachSpec

-----------------------------------------------------------------------------
(* LayoutFeed: what the window makes of the events it is handed.  f[k] is    *)
(* its tabs after the first k.                                               *)
AppliedUpTo(S, seen, is, f) ==
  /\ f \in [0 .. Len(is) -> Seq(S)]
  /\ f[0] = seen
  /\ \A k \in 1 .. Len(is) : f[k] = Handled(is[k], f[k - 1])

LEMMA HandledIs ==
  ASSUME NEW S, NEW i \in S, NEW seen \in Seq(S)
  PROVE  /\ Handled(i, seen) \in Seq(S)
         /\ ToSet(Handled(i, seen)) = ToSet(seen) \cup TabEvents({i})
         /\ IsInjective(seen) => IsInjective(Handled(i, seen))
<1>1. CASE log[i].kind = "TabCreated" /\ i \notin ToSet(seen)
  <2>1. Handled(i, seen) = Append(seen, i) /\ TabEvents({i}) = {i}
    BY <1>1 DEF Handled, TabCreated, TabEvents
  <2>2. Append(seen, i) \in Seq(S)
    OBVIOUS
  <2>3. ToSet(Append(seen, i)) = ToSet(seen) \cup {i}
    BY AppendHolds
  <2>4. IsInjective(seen) => IsInjective(Append(seen, i))
    BY <1>1, AppendDistinct
  <2> QED
    BY <2>1, <2>2, <2>3, <2>4
<1>2. CASE ~ (log[i].kind = "TabCreated" /\ i \notin ToSet(seen))
  <2>1. Handled(i, seen) = seen /\ TabEvents({i}) \subseteq ToSet(seen)
    BY <1>2 DEF Handled, TabCreated, TabEvents
  <2>2. ToSet(seen) = ToSet(seen) \cup TabEvents({i})
    BY <2>1
  <2> QED
    BY <2>1, <2>2
<1> QED
  BY <1>1, <1>2

HandledStays(D, n, is) == \A k \in 1 .. n : \A x \in D : Handled(is[k], x) \in D

LEMMA HandledOneByOne ==
  ASSUME NEW D, NEW seen \in D, NEW n \in Nat, NEW is, HandledStays(D, n, is)
  PROVE  \E f \in [0 .. n -> D] : f[0] = seen /\ \A k \in 1 .. n : f[k] = Handled(is[k], f[k - 1])
<1> DEFINE step == [k \in 1 .. n |-> [x \in D |-> Handled(is[k], x)]]
<1>1. PICK st : st = step
  OBVIOUS
<1>2. st \in [1 .. n -> [D -> D]]
  BY <1>1 DEF HandledStays
<1> HIDE DEF step
<1>3. PICK f \in [0 .. n -> D] : f[0] = seen /\ \A k \in 1 .. n : f[k] = st[k][f[k - 1]]
  BY <1>2, RecursionUpTo
<1>4. ASSUME NEW k \in 1 .. n PROVE f[k] = Handled(is[k], f[k - 1])
  <2>1. f[k - 1] \in D
    OBVIOUS
  <2> QED
    BY <1>1, <1>3, <2>1 DEF step
<1> QED
  BY <1>3, <1>4

LEMMA AppliedRecursion ==
  ASSUME NEW S, NEW seen \in Seq(S), NEW is \in Seq(S)
  PROVE  \E f : AppliedUpTo(S, seen, is, f) /\ Applied(seen, is) = f[Len(is)]
<1> DEFINE n == Len(is)
           D == Seq(S)
           Rec(f, k) == IF k = 0 THEN seen ELSE Handled(is[k], f[k - 1])
<1>1. n \in Nat /\ seen \in D
  OBVIOUS
<1>2. HandledStays(D, n, is)
  <2>1. ASSUME NEW k \in 1 .. n, NEW x \in D PROVE Handled(is[k], x) \in D
    <3>1. is[k] \in S
      OBVIOUS
    <3> QED
      BY <3>1, HandledIs
  <2> HIDE DEF D, n
  <2> QED
    BY <2>1 DEF HandledStays
<1> HIDE DEF n
<1>3. PICK f \in [0 .. n -> D] : f[0] = seen /\ \A k \in 1 .. n : f[k] = Handled(is[k], f[k - 1])
  <2> HIDE DEF D, Rec
  <2>1. n \in Nat /\ seen \in D
    BY <1>1
  <2>2. PICK js : js = is
    OBVIOUS
  <2>3. HandledStays(D, n, js)
    BY <1>2, <2>2
  <2>4. \E f \in [0 .. n -> D] : f[0] = seen /\ \A k \in 1 .. n : f[k] = Handled(js[k], f[k - 1])
    BY <2>1, <2>3, HandledOneByOne
  <2> QED
    BY <2>2, <2>4
<1>4. \A k \in 1 .. n : f[k] = Handled(is[k], f[k - 1])
  BY <1>3
<1>5. f = [k \in 0 .. n |-> Rec(f, k)]
  <2>1. ASSUME NEW k \in 0 .. n PROVE f[k] = Rec(f, k)
    <3>1. CASE k = 0
      BY <1>3, <3>1
    <3>2. CASE k # 0
      <4>1. k \in 1 .. n
        BY <1>1, <3>2
      <4> QED
        BY <1>4, <3>2, <4>1
    <3> QED
      BY <3>1, <3>2
  <2> HIDE DEF Rec
  <2> QED
    BY <2>1
<1> DEFINE g == CHOOSE h : h = [k \in 0 .. n |-> Rec(h, k)]
<1>6. g = [k \in 0 .. n |-> Rec(g, k)]
  <2> HIDE DEF Rec
  <2> QED
    BY <1>5
<1>7. Applied(seen, is) = g[n]
  BY DEF Applied, n
<1> HIDE DEF g
<1>8. 0 .. n \subseteq {k \in 0 .. n : g[k] = f[k]}
  <2> DEFINE T == {k \in 0 .. n : g[k] = f[k]}
  <2>1. 0 \in T
    BY <1>1, <1>3, <1>6
  <2>2. ASSUME NEW k \in 1 .. n, k - 1 \in T PROVE k \in T
    <3>1. k \in 0 .. n /\ k # 0
      BY <1>1
    <3>2. g[k] = Rec(g, k)
      <4> HIDE DEF Rec
      <4> QED
        BY <1>6, <3>1
    <3>3. g[k - 1] = f[k - 1]
      BY <2>2
    <3> QED
      BY <1>4, <3>1, <3>2, <3>3
  <2> HIDE DEF T
  <2>3. 0 .. n \subseteq T
    BY <1>1, <2>1, <2>2, InductionUpTo
  <2> QED
    BY <2>3 DEF T
<1>9. g[n] = f[n]
  BY <1>1, <1>8
<1>10. AppliedUpTo(S, seen, is, f)
  BY <1>3, <1>4 DEF n, AppliedUpTo
<1> QED
  BY <1>7, <1>9, <1>10 DEF n

LEMMA AppliedIs ==
  ASSUME NEW S, NEW seen \in Seq(S), NEW is \in Seq(S), IsInjective(seen)
  PROVE  /\ Applied(seen, is) \in Seq(S)
         /\ IsInjective(Applied(seen, is))
         /\ ToSet(Applied(seen, is)) = ToSet(seen) \cup TabEvents(ToSet(is))
<1> DEFINE n == Len(is)
           InFront(k) == {is[j] : j \in 1 .. k}
<1>1. n \in Nat /\ DOMAIN is = 1 .. n
  OBVIOUS
<1>f. PICK f : AppliedUpTo(S, seen, is, f) /\ Applied(seen, is) = f[Len(is)]
  BY AppliedRecursion
<1>2. /\ f \in [0 .. n -> Seq(S)] /\ Applied(seen, is) = f[n] /\ f[0] = seen
      /\ \A k \in 1 .. n : f[k] = Handled(is[k], f[k - 1])
  BY <1>f DEF AppliedUpTo
<1> DEFINE T == {k \in 0 .. n : /\ IsInjective(f[k])
                                /\ ToSet(f[k]) = ToSet(seen) \cup TabEvents(InFront(k))}
<1>3. 0 \in T
  BY <1>1, <1>2 DEF TabEvents
<1>4. ASSUME NEW k \in 1 .. n, k - 1 \in T PROVE k \in T
  <2>1. /\ k \in 0 .. n /\ f[k - 1] \in Seq(S) /\ is[k] \in S
        /\ ToSet(f[k - 1]) = ToSet(seen) \cup TabEvents(InFront(k - 1))
        /\ IsInjective(f[k - 1])
    <3>1. k \in 0 .. n /\ k - 1 \in 0 .. n /\ k \in 1 .. n
      BY <1>1
    <3>2. f[k - 1] \in Seq(S)
      BY <1>2, <3>1
    <3>4. is[k] \in S
      BY <3>1
    <3> HIDE DEF InFront
    <3>3. ToSet(f[k - 1]) = ToSet(seen) \cup TabEvents(InFront(k - 1)) /\ IsInjective(f[k - 1])
      BY <1>4, Zenon
    <3> QED
      BY <3>1, <3>2, <3>3, <3>4
  <2>2. InFront(k) = InFront(k - 1) \cup {is[k]}
    <3>1. \A j : j \in 1 .. k <=> j \in 1 .. k - 1 \/ j = k
      BY <1>1
    <3> QED
      BY <3>1
  <2>3. TabEvents(InFront(k)) = TabEvents(InFront(k - 1)) \cup TabEvents({is[k]})
    <3> HIDE DEF InFront
    <3> QED
      BY <2>2 DEF TabEvents
  <2>4. /\ ToSet(f[k]) = ToSet(f[k - 1]) \cup TabEvents({is[k]})
        /\ IsInjective(f[k])
    <3>1. f[k] = Handled(is[k], f[k - 1])
      BY <1>2
    <3> QED
      BY <2>1, <3>1, HandledIs
  <2> HIDE DEF InFront
  <2> QED
    BY <2>1, <2>3, <2>4
<1> HIDE DEF T
<1>5. 0 .. n \subseteq T
  BY <1>1, <1>3, <1>4, InductionUpTo
<1>6. n \in T /\ InFront(n) = ToSet(is) /\ f[n] \in Seq(S)
  BY <1>1, <1>2, <1>5 DEF ToSet
<1> HIDE DEF InFront
<1> QED
  BY <1>1, <1>2, <1>6 DEF T

-----------------------------------------------------------------------------
(* The events on their way to the window stand in line: those it was handed, *)
(* those in the channel, those on the socket, all before the receiver's next *)
(* one, each part in the order of the daemon.                                *)
Increasing(s) == \A j, k \in 1 .. Len(s) : j < k => s[j] < s[k]
Before(s, t) == \A x \in ToSet(s), y \in ToSet(t) : x < y
InLine(h, i, w, next) ==
  /\ Increasing(h) /\ Increasing(i) /\ Increasing(w)
  /\ Before(h, i) /\ Before(h, w) /\ Before(i, w)
  /\ \A n \in ToSet(h) \cup ToSet(i) \cup ToSet(w) : 1 <= n /\ n < next

LEMMA ElementsAreNumbers ==
  ASSUME NEW s \in Seq(Nat) PROVE ToSet(s) \subseteq Nat
<1>1. \A k \in 1 .. Len(s) : s[k] \in Nat
  OBVIOUS
<1> QED
  BY <1>1, InToSet

LEMMA AppendIncreasing ==
  ASSUME NEW s \in Seq(Nat), NEW e \in Nat, Increasing(s), \A x \in ToSet(s) : x < e
  PROVE  Increasing(Append(s, e))
<1> DEFINE r == Append(s, e)
<1>1. /\ r \in Seq(Nat) /\ Len(r) = Len(s) + 1 /\ r[Len(s) + 1] = e
      /\ \A k \in 1 .. Len(s) : r[k] = s[k]
  BY AppendProperties
<1>2. Len(s) \in Nat /\ \A k \in 1 .. Len(s) : s[k] < e
  BY InToSet
<1> HIDE DEF r
<1>3. ASSUME NEW j \in 1 .. Len(r), NEW k \in 1 .. Len(r), j < k PROVE r[j] < r[k]
  <2>1. j \in 1 .. Len(s) /\ r[j] = s[j]
    BY <1>1, <1>2, <1>3
  <2>2. CASE k = Len(s) + 1
    BY <1>1, <1>2, <2>1, <2>2
  <2>3. CASE k # Len(s) + 1
    <3>1. k \in 1 .. Len(s) /\ r[k] = s[k]
      BY <1>1, <1>2, <2>3
    <3> QED
      BY <1>3, <2>1, <3>1 DEF Increasing
  <2> QED
    BY <2>2, <2>3
<1> QED
  BY <1>3 DEF Increasing, r

LEMMA TailIs ==
  ASSUME NEW s \in Seq(Nat), s # <<>>
  PROVE  /\ Tail(s) \in Seq(Nat) /\ Head(s) \in Nat
         /\ ToSet(s) = ToSet(Tail(s)) \cup {Head(s)}
         /\ Increasing(s) => Increasing(Tail(s)) /\ \A x \in ToSet(Tail(s)) : Head(s) < x
<1> DEFINE r == Tail(s)
<1>1. /\ r \in Seq(Nat) /\ Len(r) = Len(s) - 1 /\ Len(s) \in Nat \ {0}
      /\ \A k \in 1 .. Len(s) - 1 : r[k] = s[k + 1]
      /\ Head(s) = s[1] /\ Head(s) \in Nat
  BY HeadTailProperties, EmptySeq
<1> HIDE DEF r
<1>2. ASSUME NEW x PROVE x \in ToSet(s) <=> x \in ToSet(r) \/ x = Head(s)
  <2>1. x \in ToSet(s) <=> \E k \in 1 .. Len(s) : s[k] = x
    BY InToSet
  <2>2. x \in ToSet(r) <=> \E k \in 1 .. Len(s) - 1 : r[k] = x
    BY <1>1, InToSet
  <2>3. ASSUME NEW k \in 1 .. Len(s), s[k] = x PROVE x = Head(s) \/ x \in ToSet(r)
    <3>1. k # 1 => k - 1 \in 1 .. Len(s) - 1 /\ r[k - 1] = s[k]
      BY <1>1
    <3> QED
      BY <1>1, <2>2, <2>3, <3>1
  <2>4. ASSUME NEW k \in 1 .. Len(s) - 1, r[k] = x PROVE x \in ToSet(s)
    <3>1. k + 1 \in 1 .. Len(s) /\ s[k + 1] = x
      BY <1>1, <2>4
    <3> QED
      BY <2>1, <3>1
  <2>5. Head(s) \in ToSet(s)
    <3>1. 1 \in 1 .. Len(s) /\ s[1] = Head(s)
      BY <1>1
    <3> QED
      BY <3>1, InToSet
  <2> QED
    BY <2>1, <2>2, <2>3, <2>4, <2>5
<1>3. ASSUME Increasing(s) PROVE Increasing(r) /\ \A x \in ToSet(r) : Head(s) < x
  <2>1. \A j, k \in 1 .. Len(s) : j < k => s[j] < s[k]
    BY <1>3 DEF Increasing
  <2>2. ASSUME NEW j \in 1 .. Len(r), NEW k \in 1 .. Len(r), j < k PROVE r[j] < r[k]
    <3>1. j + 1 \in 1 .. Len(s) /\ k + 1 \in 1 .. Len(s) /\ j + 1 < k + 1
      BY <1>1, <2>2
    <3> QED
      BY <1>1, <2>1, <3>1
  <2>3. ASSUME NEW x \in ToSet(r) PROVE Head(s) < x
    <3>1. PICK k \in 1 .. Len(r) : r[k] = x
      BY <1>1, InToSet
    <3>2. k + 1 \in 1 .. Len(s) /\ 1 \in 1 .. Len(s) /\ 1 < k + 1 /\ s[k + 1] = x
      BY <1>1, <3>1, SMTT(30)
    <3> QED
      BY <1>1, <2>1, <3>2
  <2> QED
    BY <2>2, <2>3 DEF Increasing
<1> QED
  BY <1>1, <1>2, <1>3 DEF r

LEMMA ConcatIncreasing ==
  ASSUME NEW s \in Seq(Nat), NEW t \in Seq(Nat), Increasing(s), Increasing(t), Before(s, t)
  PROVE  Increasing(s \o t)
<1> DEFINE r == s \o t
<1>1. /\ r \in Seq(Nat) /\ Len(r) = Len(s) + Len(t)
      /\ \A k \in 1 .. Len(s) + Len(t) : r[k] = IF k <= Len(s) THEN s[k] ELSE t[k - Len(s)]
  BY ConcatProperties
<1>2. Len(s) \in Nat /\ Len(t) \in Nat
  OBVIOUS
<1>3. \A j \in 1 .. Len(s), k \in 1 .. Len(t) : s[j] < t[k]
  BY InToSet DEF Before
<1> HIDE DEF r
<1>4. ASSUME NEW j \in 1 .. Len(r), NEW k \in 1 .. Len(r), j < k PROVE r[j] < r[k]
  <2>1. CASE k <= Len(s)
    <3>1. j \in 1 .. Len(s) /\ k \in 1 .. Len(s) /\ r[j] = s[j] /\ r[k] = s[k]
      BY <1>1, <1>2, <1>4, <2>1, SMTT(30)
    <3> QED
      BY <1>4, <3>1 DEF Increasing
  <2>2. CASE j > Len(s)
    <3>1. /\ j - Len(s) \in 1 .. Len(t) /\ k - Len(s) \in 1 .. Len(t) /\ j - Len(s) < k - Len(s)
          /\ r[j] = t[j - Len(s)] /\ r[k] = t[k - Len(s)]
      BY <1>1, <1>2, <1>4, <2>2, SMTT(30)
    <3> QED
      BY <3>1 DEF Increasing
  <2>3. CASE j <= Len(s) /\ k > Len(s)
    <3>1. j \in 1 .. Len(s) /\ k - Len(s) \in 1 .. Len(t)
      BY <1>1, <1>2, <2>3
    <3>2. r[j] = s[j] /\ r[k] = t[k - Len(s)]
      BY <1>1, <1>2, <2>3
    <3> QED
      BY <1>3, <3>1, <3>2
  <2> QED
    BY <1>1, <1>2, <2>1, <2>2, <2>3
<1> QED
  BY <1>4 DEF Increasing, r

(* The receiver goes on, the task parses a line, the timer empties the       *)
(* channel: the line stays in order.                                         *)
LEMMA LineGrows ==
  ASSUME NEW h \in Seq(Nat), NEW i \in Seq(Nat), NEW w \in Seq(Nat), NEW next \in Nat \ {0},
         InLine(h, i, w, next)
  PROVE  /\ \A later \in Nat : next <= later => InLine(h, i, w, later)
         /\ InLine(h, i, Append(w, next), next + 1)
<1>1. ASSUME NEW later \in Nat, next <= later PROVE InLine(h, i, w, later)
  <2>1. ToSet(h) \cup ToSet(i) \cup ToSet(w) \subseteq Nat
    BY ElementsAreNumbers
  <2>2. \A n \in Nat : n < next => n < later
    BY <1>1
  <2> QED
    BY <2>1, <2>2 DEF InLine
<1>2. ToSet(Append(w, next)) = ToSet(w) \cup {next}
  BY AppendHolds
<1>3. Increasing(Append(w, next))
  BY AppendIncreasing DEF InLine
<1>4. Before(h, Append(w, next)) /\ Before(i, Append(w, next))
  BY <1>2 DEF InLine, Before
<1>5. \A n \in ToSet(h) \cup ToSet(i) \cup ToSet(Append(w, next)) : 1 <= n /\ n < next + 1
  <2>1. ToSet(h) \cup ToSet(i) \cup ToSet(w) \subseteq Nat
    BY ElementsAreNumbers
  <2>2. 1 <= next /\ \A n \in Nat : n < next \/ n = next => n < next + 1
    OBVIOUS
  <2> QED
    BY <1>2, <2>1, <2>2 DEF InLine
<1> QED
  BY <1>1, <1>3, <1>4, <1>5 DEF InLine

LEMMA LineParsed ==
  ASSUME NEW h \in Seq(Nat), NEW i \in Seq(Nat), NEW w \in Seq(Nat), w # <<>>, NEW next,
         InLine(h, i, w, next)
  PROVE  InLine(h, i, Tail(w), next) /\ InLine(h, Append(i, Head(w)), Tail(w), next)
<1>1. /\ Tail(w) \in Seq(Nat) /\ Head(w) \in Nat /\ ToSet(w) = ToSet(Tail(w)) \cup {Head(w)}
      /\ Increasing(Tail(w)) /\ \A x \in ToSet(Tail(w)) : Head(w) < x
  BY TailIs DEF InLine
<1>2. ToSet(Append(i, Head(w))) = ToSet(i) \cup {Head(w)}
  BY <1>1, AppendHolds
<1>3. Increasing(Append(i, Head(w)))
  BY <1>1, AppendIncreasing DEF InLine, Before
<1>4. InLine(h, i, Tail(w), next)
  BY <1>1 DEF InLine, Before
<1>5. Before(h, Append(i, Head(w))) /\ Before(Append(i, Head(w)), Tail(w))
  BY <1>1, <1>2, <1>4 DEF InLine, Before
<1>6. \A n \in ToSet(h) \cup ToSet(Append(i, Head(w))) \cup ToSet(Tail(w)) : 1 <= n /\ n < next
  BY <1>1, <1>2 DEF InLine
<1> QED
  BY <1>3, <1>4, <1>5, <1>6 DEF InLine

LEMMA LineHeard ==
  ASSUME NEW h \in Seq(Nat), NEW i \in Seq(Nat), NEW w \in Seq(Nat), NEW next,
         InLine(h, i, w, next)
  PROVE  InLine(h \o i, <<>>, w, next)
<1>1. ToSet(h \o i) = ToSet(h) \cup ToSet(i)
  BY ConcatHolds
<1>2. Increasing(h \o i)
  BY ConcatIncreasing DEF InLine
<1>3. ToSet(<<>>) = {} /\ Increasing(<<>>)
  BY NoElement DEF Increasing
<1> QED
  BY <1>1, <1>2, <1>3 DEF InLine, Before

-----------------------------------------------------------------------------
(* What the daemon broadcasts                                                *)
Broadcasts == News \cup {[kind |-> "TabCreated", nulls |-> {}]}

FeedTypes ==
  /\ log \in Seq(Broadcasts)
  /\ rx \in Nat /\ since \in Nat
  /\ wire \in Seq(Nat) /\ inbox \in Seq(Nat) /\ heard \in Seq(Nat) /\ shown \in Seq(Nat)
  /\ stage \in {"starting", "building", "subscribing"}
  /\ call \in {"none", "sent", "served", "late"} \X Nat

SubscribesOnce ==
  /\ since = 0 => rx = 0
  /\ since # 0 => /\ 1 <= since /\ since <= rx /\ rx <= Len(log) + 1
                  /\ stage = "subscribing"

InOrder == InLine(heard, inbox, wire, rx)
NothingMissed == \A i \in Relayed \ lost : OfWindow(log[i]) => i \in ToSet(heard) \cup Underway

TabsKnown ==
  /\ IsInjective(shown)
  /\ \A i \in ToSet(shown) : 1 <= i /\ i <= Len(log)
  /\ TabEvents(ToSet(heard)) \subseteq ToSet(shown)
AnswersAreNew ==
  /\ Waiting => stage # "starting"
  /\ call[1] = "served" => 1 <= call[2] /\ call[2] <= Len(log) /\ call[2] \notin ToSet(shown)

FeedInv ==
  FeedTypes /\ SubscribesOnce /\ InOrder /\ NothingMissed /\ TabsKnown /\ AnswersAreNew

LEMMA WindowEventsPass ==
  ASSUME NEW e \in Broadcasts, OfWindow(e)
  PROVE  Forwarded(e) /\ Understood(e)
<1>1. e.nulls \subseteq {"color"} \cup (IF e.kind = "ActivePaneChanged" THEN {"pane_id"} ELSE {})
  BY FeedAssumption DEF Broadcasts
<1>2. e.kind \in {"TabCreated", "TabClosed", "PaneSplit", "TabMoved", "ActiveTabChanged",
                  "WorkspaceRenamed", "WorkspaceDeleted", "WorkspaceColorChanged",
                  "WorkspacesReordered", "ActivePaneChanged"}
  BY DEF OfWindow, Required
<1>3. e.kind \in DOMAIN Carried
  BY <1>2 DEF Carried, TabNotifications, WorkspaceNotifications
<1>4. Required[e.kind] \subseteq Carried[e.kind] \ e.nulls
  <2>1. CASE e.kind \in DOMAIN TabNotifications
    <3>1. Carried[e.kind] = TabNotifications[e.kind]
      BY <2>1 DEF Carried
    <3>2. e.nulls \subseteq {"color"}
      BY <1>1, <2>1 DEF TabNotifications
    <3> QED
      BY <2>1, <3>1, <3>2 DEF Required, TabNotifications
  <2>2. CASE e.kind \notin DOMAIN TabNotifications
    <3>1. e.kind \in DOMAIN WorkspaceNotifications
      BY <1>2, <2>2 DEF TabNotifications, WorkspaceNotifications
    <3>2. Carried[e.kind] = WorkspaceNotifications[e.kind]
      BY <2>2, <3>1 DEF Carried
    <3>3. Required[e.kind] \subseteq WorkspaceNotifications[e.kind] \ e.nulls
      BY <1>1, <1>2, <2>2, <3>1 DEF Required, WorkspaceNotifications, TabNotifications
    <3> QED
      BY <3>2, <3>3
  <2> QED
    BY <2>1, <2>2
<1> QED
  BY <1>3, <1>4 DEF Forwarded, Understood, OfWindow

LEMMA InitFeedInv == ASSUME FeedInit PROVE FeedInv
<1>1. ToSet(<<>>) = {} /\ IsInjective(<<>>)
  BY NoElement
<1>2. FeedTypes
  BY DEF FeedInit, FeedTypes, NoCall
<1>3. SubscribesOnce /\ AnswersAreNew
  BY DEF FeedInit, SubscribesOnce, AnswersAreNew, Waiting, NoCall
<1>4. InOrder
  BY <1>1 DEF FeedInit, InOrder, InLine, Increasing, Before
<1>5. NothingMissed
  BY DEF FeedInit, NothingMissed, Relayed
<1>6. TabsKnown
  BY <1>1 DEF FeedInit, TabsKnown, TabEvents
<1> QED
  BY <1>2, <1>3, <1>4, <1>5, <1>6 DEF FeedInv

LEMMA EmitKeeps ==
  ASSUME FeedInv, NEW e \in Broadcasts, Emit(e),
         UNCHANGED <<rx, since, lost, wire, inbox, heard, stage, shown>>
  PROVE  /\ log' \in Seq(Broadcasts) /\ Len(log') = Len(log) + 1 /\ Len(log) \in Nat
         /\ SubscribesOnce' /\ InOrder' /\ NothingMissed' /\ TabsKnown'
<1> USE DEF FeedInv
<1>1. /\ log' \in Seq(Broadcasts) /\ Len(log') = Len(log) + 1 /\ Len(log) \in Nat
      /\ \A k \in 1 .. Len(log) : log'[k] = log[k]
  <2>1. log \in Seq(Broadcasts)
    BY DEF FeedTypes
  <2> QED
    BY <2>1, AppendProperties DEF Emit
<1>2. SubscribesOnce'
  BY <1>1 DEF SubscribesOnce, FeedTypes
<1>3. InOrder'
  BY DEF InOrder
<1>4. ASSUME NEW i \in Relayed \ lost PROVE i \in 1 .. Len(log)
  <2>1. since # 0 /\ i \in since .. rx - 1 /\ since \in Nat /\ rx \in Nat
    BY <1>4 DEF Relayed, FeedTypes
  <2>2. 1 <= since /\ rx <= Len(log) + 1
    BY <2>1 DEF SubscribesOnce
  <2> QED
    BY <1>1, <2>1, <2>2
<1>5. NothingMissed'
  <2>1. Relayed' = Relayed /\ lost' = lost /\ Underway' = Underway /\ heard' = heard
    BY DEF Relayed, Underway
  <2>2. ASSUME NEW i \in Relayed \ lost, OfWindow(log'[i]) PROVE i \in ToSet(heard) \cup Underway
    <3>1. log'[i] = log[i]
      BY <1>1, <1>4
    <3> QED
      BY <2>2, <3>1 DEF NothingMissed
  <2> QED
    BY <2>1, <2>2 DEF NothingMissed
<1>6. TabsKnown'
  <2>1. IsInjective(shown') /\ \A i \in ToSet(shown') : 1 <= i /\ i <= Len(log')
    <3>1. ToSet(shown) \subseteq Nat
      BY ElementsAreNumbers DEF FeedTypes
    <3>2. \A i \in Nat : i <= Len(log) => i <= Len(log')
      BY <1>1
    <3> QED
      BY <3>1, <3>2 DEF TabsKnown
  <2>2. ASSUME NEW i \in ToSet(heard), log'[i].kind = "TabCreated" PROVE i \in ToSet(shown)
    <3>1. ToSet(heard) \subseteq Nat
      BY ElementsAreNumbers DEF FeedTypes
    <3>2. 1 <= i /\ i < rx
      BY DEF InOrder, InLine
    <3>3. rx <= Len(log) + 1
      BY <3>1, <3>2 DEF SubscribesOnce, FeedTypes
    <3>4. i \in 1 .. Len(log)
      BY <1>1, <3>1, <3>2, <3>3 DEF FeedTypes
    <3>5. log'[i] = log[i]
      BY <1>1, <3>4
    <3> QED
      BY <2>2, <3>5 DEF TabsKnown, TabEvents
  <2> QED
    BY <2>1, <2>2 DEF TabsKnown, TabEvents
<1> QED
  BY <1>1, <1>2, <1>3, <1>5, <1>6

LEMMA DaemonEmitsKeeps ==
  ASSUME FeedInv, NEW e \in News, DaemonEmits(e) PROVE FeedInv'
<1>1. /\ log' \in Seq(Broadcasts) /\ Len(log') = Len(log) + 1 /\ Len(log) \in Nat
      /\ SubscribesOnce' /\ InOrder' /\ NothingMissed' /\ TabsKnown'
  <2>1. e \in Broadcasts /\ Emit(e) /\ UNCHANGED <<rx, since, lost, wire, inbox, heard, stage, shown>>
    BY DEF Broadcasts, DaemonEmits
  <2> QED
    BY <2>1, EmitKeeps
<1>2. FeedTypes'
  BY <1>1 DEF FeedInv, FeedTypes, DaemonEmits
<1>3. AnswersAreNew'
  <2>1. call \in {"none", "sent", "served", "late"} \X Nat
    BY DEF FeedInv, FeedTypes
  <2> QED
    BY <1>1, <2>1 DEF FeedInv, AnswersAreNew, Waiting, DaemonEmits
<1> QED
  BY <1>1, <1>2, <1>3 DEF FeedInv

(* Steps that only turn the daemon off or end a call                         *)
LEMMA CallStepKeeps ==
  ASSUME FeedInv, UNCHANGED <<log, rx, since, lost, wire, inbox, heard, shown>>,
         stage' \in {"building", "subscribing"} \/ stage' = stage,
         stage = "subscribing" => stage' = stage,
         call' \in {"none", "sent", "late"} \X Nat \/ call' = call,
         call'[1] = "sent" => stage' # "starting"
  PROVE  FeedInv'
<1> USE DEF FeedInv
<1>1. FeedTypes'
  BY DEF FeedTypes
<1>2. SubscribesOnce' /\ InOrder'
  BY DEF SubscribesOnce, InOrder
<1>3. NothingMissed' /\ TabsKnown'
  BY DEF NothingMissed, Relayed, Underway, TabsKnown, TabEvents
<1>4. AnswersAreNew'
  BY DEF AnswersAreNew, Waiting, FeedTypes
<1> QED
  BY <1>1, <1>2, <1>3, <1>4

LEMMA DaemonGoneKeeps == ASSUME FeedInv, DaemonGone PROVE FeedInv'
<1>1. call' \in {"none", "sent", "late"} \X Nat \/ call' = call
  BY DEF DaemonGone, NoCall
<1>2. call'[1] = "sent" => stage # "starting"
  BY DEF DaemonGone, NoCall, FeedInv, AnswersAreNew, Waiting
<1> QED
  BY <1>1, <1>2, CallStepKeeps DEF DaemonGone

LEMMA BuiltKeeps == ASSUME FeedInv, Built PROVE FeedInv'
BY CallStepKeeps DEF Built

LEMMA NewTabKeeps == ASSUME FeedInv, NewTab PROVE FeedInv'
<1>1. call' \in {"none", "sent", "late"} \X Nat /\ stage' # "starting"
  BY DEF NewTab
<1> QED
  BY <1>1, CallStepKeeps DEF NewTab

LEMMA TimedOutKeeps == ASSUME FeedInv, TimedOut PROVE FeedInv'
<1>1. call' \in {"none", "sent", "late"} \X Nat /\ call'[1] # "sent"
  BY DEF TimedOut, NoCall
<1> QED
  BY <1>1, CallStepKeeps DEF TimedOut

LEMMA FeedSubscribeKeeps == ASSUME FeedInv, Subscribe PROVE FeedInv'
<1> USE DEF FeedInv
<1>1. Len(log) \in Nat
  BY DEF FeedTypes
<1>2. FeedTypes'
  BY <1>1 DEF FeedTypes, Subscribe
<1>3. SubscribesOnce'
  BY <1>1 DEF SubscribesOnce, Subscribe
<1>4. InOrder'
  <2>1. rx = 0
    BY DEF Subscribe, SubscribesOnce
  <2>2. ToSet(heard) \cup ToSet(inbox) \cup ToSet(wire) \subseteq Nat
    BY ElementsAreNumbers DEF FeedTypes
  <2>3. \A n \in Nat : ~ (1 <= n /\ n < 0)
    OBVIOUS
  <2>4. ToSet(heard) \cup ToSet(inbox) \cup ToSet(wire) = {}
    BY <2>1, <2>2, <2>3 DEF InOrder, InLine
  <2> QED
    BY <2>4 DEF InOrder, InLine, Subscribe
<1>5. NothingMissed'
  <2>1. Relayed' = {}
    BY <1>1 DEF Relayed, Subscribe
  <2> QED
    BY <2>1 DEF NothingMissed
<1>6. TabsKnown' /\ AnswersAreNew'
  BY DEF TabsKnown, TabEvents, AnswersAreNew, Waiting, Subscribe
<1> QED
  BY <1>2, <1>3, <1>4, <1>5, <1>6

LEMMA RelayKeeps == ASSUME FeedInv, Relay PROVE FeedInv'
<1> USE DEF FeedInv
<1>1. /\ Len(log) \in Nat /\ since \in Nat /\ rx \in Nat \ {0} /\ since # 0 /\ since <= rx
      /\ rx <= Len(log) /\ EventCap \in Nat
  BY FeedAssumption DEF FeedTypes, Relay, SubscribesOnce
<1>2. TabsKnown' /\ AnswersAreNew'
  BY DEF TabsKnown, TabEvents, AnswersAreNew, Waiting, Relay
<1>3. CASE rx < Oldest
  <2>1. lost' = lost \cup (rx .. Oldest - 1) /\ rx' = Oldest /\ wire' = wire
    BY <1>3 DEF Relay, Lagged
  <2>2. Oldest \in Nat /\ Oldest <= Len(log) + 1
    BY <1>1 DEF Oldest
  <2>3. FeedTypes'
    BY <2>1, <2>2 DEF FeedTypes, Relay
  <2>4. SubscribesOnce'
    BY <1>1, <1>3, <2>1, <2>2 DEF SubscribesOnce, Relay
  <2>5. InOrder'
    <3>1. InLine(heard, inbox, wire, rx')
      BY <1>1, <1>3, <2>1, <2>2, LineGrows DEF InOrder, FeedTypes
    <3> QED
      BY <2>1, <3>1 DEF InOrder, Relay
  <2>6. NothingMissed'
    <3>1. Relayed = since .. rx - 1 /\ Relayed' = since .. Oldest - 1
      BY <1>1, <2>1 DEF Relayed, Relay
    <3>2. Relayed' \ lost' \subseteq Relayed \ lost
      BY <1>1, <1>3, <2>1, <2>2, <3>1
    <3> QED
      BY <2>1, <3>2 DEF NothingMissed, Underway, Relay
  <2> QED
    BY <1>2, <2>3, <2>4, <2>5, <2>6 DEF Relay
<1>4. CASE ~ (rx < Oldest)
  <2>1. /\ wire' = IF Forwarded(log[rx]) THEN Append(wire, rx) ELSE wire
        /\ rx' = rx + 1 /\ lost' = lost
    BY <1>4 DEF Relay
  <2>2. log[rx] \in Broadcasts /\ wire \in Seq(Nat) /\ heard \in Seq(Nat) /\ inbox \in Seq(Nat)
    BY <1>1 DEF FeedTypes
  <2>3. FeedTypes'
    BY <1>1, <2>1 DEF FeedTypes, Relay
  <2>4. SubscribesOnce'
    BY <1>1, <2>1 DEF SubscribesOnce, Relay
  <2>5. InOrder'
    <3>1. InLine(heard, inbox, wire, rx + 1) /\ InLine(heard, inbox, Append(wire, rx), rx + 1)
      BY <1>1, <2>2, LineGrows DEF InOrder
    <3> QED
      BY <2>1, <3>1 DEF InOrder, Relay
  <2>6. NothingMissed'
    <3>1. ToSet(Append(wire, rx)) = ToSet(wire) \cup {rx}
      BY <1>1, <2>2, AppendHolds
    <3>2. ToSet(wire) \subseteq ToSet(wire') /\ (Forwarded(log[rx]) => rx \in ToSet(wire'))
      BY <2>1, <3>1
    <3>3. Relayed' = Relayed \cup {rx}
      BY <1>1, <2>1 DEF Relayed, Relay
    <3>4. OfWindow(log[rx]) => rx \in ToSet(wire')
      BY <2>2, <3>2, WindowEventsPass
    <3>5. log' = log /\ heard' = heard /\ inbox' = inbox
      BY DEF Relay
    <3> QED
      BY <2>1, <3>2, <3>3, <3>4, <3>5 DEF NothingMissed, Underway
  <2> QED
    BY <1>2, <2>3, <2>4, <2>5, <2>6 DEF Relay
<1> QED
  BY <1>3, <1>4

LEMMA ParseKeeps == ASSUME FeedInv, subscribe_layout_task PROVE FeedInv'
<1> USE DEF FeedInv
<1>1. wire \in Seq(Nat) /\ wire # <<>> /\ inbox \in Seq(Nat) /\ heard \in Seq(Nat)
  BY DEF FeedTypes, subscribe_layout_task
<1>2. /\ Tail(wire) \in Seq(Nat) /\ Head(wire) \in Nat
      /\ ToSet(wire) = ToSet(Tail(wire)) \cup {Head(wire)}
  BY <1>1, TailIs
<1>3. /\ wire' = Tail(wire) /\ heard' = heard /\ log' = log
      /\ inbox' = IF Understood(log[Head(wire)]) THEN Append(inbox, Head(wire)) ELSE inbox
  BY DEF subscribe_layout_task
<1>4. FeedTypes'
  BY <1>1, <1>2, <1>3 DEF FeedTypes, subscribe_layout_task
<1>5. SubscribesOnce' /\ TabsKnown' /\ AnswersAreNew'
  BY DEF SubscribesOnce, TabsKnown, TabEvents, AnswersAreNew, Waiting, subscribe_layout_task
<1>6. InOrder'
  <2>1. InLine(heard, inbox, Tail(wire), rx) /\ InLine(heard, Append(inbox, Head(wire)), Tail(wire), rx)
    BY <1>1, LineParsed DEF InOrder
  <2> QED
    BY <1>3, <2>1 DEF InOrder, subscribe_layout_task
<1>7. NothingMissed'
  <2>1. ToSet(Append(inbox, Head(wire))) = ToSet(inbox) \cup {Head(wire)}
    BY <1>1, <1>2, AppendHolds
  <2>2. ToSet(inbox) \subseteq ToSet(inbox') /\ (Understood(log[Head(wire)]) => Head(wire) \in ToSet(inbox'))
    BY <1>3, <2>1
  <2>3. Relayed' = Relayed /\ lost' = lost
    BY DEF Relayed, subscribe_layout_task
  <2>4. ASSUME NEW i \in Relayed \ lost, OfWindow(log[i])
        PROVE  i \in ToSet(heard) \cup ToSet(inbox') \cup ToSet(Tail(wire))
    <3>1. i \in ToSet(heard) \cup ToSet(inbox) \cup ToSet(wire)
      BY <2>4 DEF NothingMissed, Underway
    <3>2. log[i] \in Broadcasts
      <4>1. since # 0 /\ i \in since .. rx - 1 /\ since \in Nat /\ rx \in Nat
        BY <2>4 DEF Relayed, FeedTypes
      <4>2. 1 <= since /\ rx <= Len(log) + 1 /\ Len(log) \in Nat /\ log \in Seq(Broadcasts)
        BY <4>1 DEF SubscribesOnce, FeedTypes
      <4>3. i \in 1 .. Len(log)
        BY <4>1, <4>2
      <4> QED
        BY <4>2, <4>3
    <3>3. Understood(log[i])
      BY <2>4, <3>2, WindowEventsPass
    <3> QED
      BY <1>2, <2>2, <3>1, <3>3
  <2> QED
    BY <1>3, <2>3, <2>4 DEF NothingMissed, Underway
<1> QED
  BY <1>4, <1>5, <1>6, <1>7 DEF subscribe_layout_task

LEMMA GetLayoutKeeps == ASSUME FeedInv, GetLayout PROVE FeedInv'
<1> USE DEF FeedInv
<1>1. Len(log) \in Nat /\ DOMAIN log = 1 .. Len(log)
  BY DEF FeedTypes
<1>2. since = 0 /\ rx = 0 /\ ToSet(heard) = {}
  <2>1. since = 0 /\ rx = 0
    BY DEF GetLayout, SubscribesOnce
  <2>2. ToSet(heard) \subseteq Nat /\ \A n \in Nat : ~ (1 <= n /\ n < 0)
    BY ElementsAreNumbers DEF FeedTypes
  <2> QED
    BY <2>1, <2>2 DEF InOrder, InLine
<1> DEFINE all == [i \in DOMAIN log |-> i]
<1>3. all \in Seq(Nat) /\ ToSet(all) = 1 .. Len(log)
  <2>1. all \in [1 .. Len(log) -> Nat]
    BY <1>1
  <2>2. ToSet(all) = {all[k] : k \in 1 .. Len(log)}
    BY <1>1 DEF ToSet
  <2> QED
    BY <1>1, <2>1, <2>2, FunctionIsSeq
<1>4. shown' = <<>> \/ shown' = Applied(<<>>, all)
  BY DEF GetLayout
<1>5. shown' \in Seq(Nat) /\ IsInjective(shown') /\ ToSet(shown') \subseteq 1 .. Len(log)
  <2>1. <<>> \in Seq(Nat) /\ ToSet(<<>>) = {} /\ IsInjective(<<>>)
    BY NoElement
  <2> HIDE DEF all
  <2>2. /\ Applied(<<>>, all) \in Seq(Nat) /\ IsInjective(Applied(<<>>, all))
        /\ ToSet(Applied(<<>>, all)) = ToSet(<<>>) \cup TabEvents(ToSet(all))
    BY <1>3, <2>1, AppliedIs
  <2>3. ToSet(Applied(<<>>, all)) \subseteq 1 .. Len(log)
    BY <1>3, <2>1, <2>2 DEF TabEvents
  <2> QED
    BY <1>4, <2>1, <2>2, <2>3
<1>6. FeedTypes'
  BY <1>5 DEF FeedTypes, GetLayout
<1>7. SubscribesOnce' /\ InOrder' /\ NothingMissed'
  BY <1>2 DEF SubscribesOnce, InOrder, NothingMissed, Relayed, Underway, GetLayout
<1>8. TabsKnown'
  <2>1. \A i \in 1 .. Len(log) : 1 <= i /\ i <= Len(log)
    BY <1>1
  <2>2. log' = log /\ heard' = heard
    BY DEF GetLayout
  <2> QED
    BY <1>2, <1>5, <2>1, <2>2 DEF TabsKnown, TabEvents
<1>9. AnswersAreNew'
  BY DEF AnswersAreNew, Waiting, GetLayout
<1> QED
  BY <1>6, <1>7, <1>8, <1>9 DEF GetLayout

LEMMA DrainKeeps == ASSUME FeedInv, Drain PROVE FeedInv'
<1> USE DEF FeedInv
<1>1. shown \in Seq(Nat) /\ inbox \in Seq(Nat) /\ heard \in Seq(Nat) /\ IsInjective(shown)
  BY DEF FeedTypes, TabsKnown
<1>2. /\ heard' = heard \o inbox /\ inbox' = <<>> /\ shown' = Applied(shown, inbox)
      /\ log' = log /\ wire' = wire /\ rx' = rx /\ since' = since /\ lost' = lost
  BY DEF Drain
<1>3. /\ shown' \in Seq(Nat) /\ IsInjective(shown')
      /\ ToSet(shown') = ToSet(shown) \cup TabEvents(ToSet(inbox))
  BY <1>1, <1>2, AppliedIs
<1>4. heard' \in Seq(Nat) /\ ToSet(heard') = ToSet(heard) \cup ToSet(inbox) /\ ToSet(inbox') = {}
  BY <1>1, <1>2, ConcatHolds, ConcatProperties, NoElement
<1>5. FeedTypes'
  BY <1>2, <1>3, <1>4 DEF FeedTypes, Drain
<1>6. SubscribesOnce'
  BY DEF SubscribesOnce, Drain
<1>7. InOrder'
  <2>1. InLine(heard \o inbox, <<>>, wire, rx)
    BY LineHeard DEF InOrder, FeedTypes
  <2> QED
    BY <1>2, <2>1 DEF InOrder
<1>8. NothingMissed'
  BY <1>2, <1>4 DEF NothingMissed, Relayed, Underway
<1>9. TabsKnown'
  <2>1. ASSUME NEW i \in ToSet(inbox) PROVE 1 <= i /\ i <= Len(log)
    <3>1. i \in Nat /\ 1 <= i /\ i < rx
      BY <1>1, ElementsAreNumbers DEF InOrder, InLine
    <3>2. rx <= Len(log) + 1 /\ rx \in Nat /\ Len(log) \in Nat
      BY <3>1 DEF SubscribesOnce, FeedTypes
    <3> QED
      BY <3>1, <3>2
  <2> QED
    BY <1>2, <1>3, <1>4, <2>1 DEF TabsKnown, TabEvents
<1>10. AnswersAreNew'
  BY DEF AnswersAreNew, Waiting, Drain
<1> QED
  BY <1>5, <1>6, <1>7, <1>8, <1>9, <1>10 DEF Drain

LEMMA ServeKeeps == ASSUME FeedInv, Serve PROVE FeedInv'
<1> DEFINE e == [kind |-> "TabCreated", nulls |-> {}]
<1>1. e \in Broadcasts /\ Emit(e) /\ UNCHANGED <<rx, since, lost, wire, inbox, heard, stage, shown>>
  BY DEF Broadcasts, Serve
<1> HIDE DEF e
<1>2. /\ log' \in Seq(Broadcasts) /\ Len(log') = Len(log) + 1 /\ Len(log) \in Nat
      /\ SubscribesOnce' /\ InOrder' /\ NothingMissed' /\ TabsKnown'
  BY <1>1, EmitKeeps
<1>3. call' = IF call[1] = "sent" THEN <<"served", Len(log')>> ELSE NoCall
  BY DEF Serve
<1>4. FeedTypes'
  BY <1>1, <1>2, <1>3 DEF FeedInv, FeedTypes, NoCall
<1>5. Len(log') \notin ToSet(shown)
  <2>1. ~ (Len(log) + 1 <= Len(log))
    BY <1>2
  <2> QED
    BY <1>2, <2>1 DEF FeedInv, TabsKnown
<1>6. AnswersAreNew'
  <2>1. CASE call[1] = "sent"
    <3>1. call'[1] = "served" /\ call'[2] = Len(log') /\ stage' # "starting"
      BY <1>1, <1>3, <2>1 DEF FeedInv, AnswersAreNew, Waiting
    <3>2. 1 <= Len(log') /\ Len(log') <= Len(log')
      BY <1>2
    <3> QED
      BY <1>1, <1>5, <3>1, <3>2 DEF AnswersAreNew, Waiting
  <2>2. CASE call[1] # "sent"
    BY <1>3, <2>2 DEF AnswersAreNew, Waiting, NoCall
  <2> QED
    BY <2>1, <2>2
<1> QED
  BY <1>2, <1>4, <1>6 DEF FeedInv

LEMMA CallAnsweredKeeps == ASSUME FeedInv, CallAnswered PROVE FeedInv'
<1> USE DEF FeedInv
<1>1. shown \in Seq(Nat) /\ call[2] \in Nat /\ call[2] \notin ToSet(shown) /\ 1 <= call[2] /\ call[2] <= Len(log)
  BY DEF FeedTypes, AnswersAreNew, CallAnswered
<1>2. shown' = Append(shown, call[2]) /\ call' = NoCall /\ log' = log /\ heard' = heard
  BY DEF CallAnswered
<1>3. /\ shown' \in Seq(Nat) /\ ToSet(shown') = ToSet(shown) \cup {call[2]} /\ IsInjective(shown')
  BY <1>1, <1>2, AppendHolds, AppendDistinct DEF TabsKnown
<1>4. FeedTypes'
  BY <1>2, <1>3 DEF FeedTypes, CallAnswered, NoCall
<1>5. SubscribesOnce' /\ InOrder' /\ NothingMissed'
  BY DEF SubscribesOnce, InOrder, NothingMissed, Relayed, Underway, CallAnswered
<1>6. TabsKnown'
  BY <1>1, <1>2, <1>3 DEF TabsKnown, TabEvents
<1>7. AnswersAreNew'
  BY <1>2 DEF AnswersAreNew, Waiting, NoCall
<1> QED
  BY <1>4, <1>5, <1>6, <1>7 DEF CallAnswered

LEMMA NextFeedInv == ASSUME FeedInv, [FeedNext]_feedVars PROVE FeedInv'
<1>1. CASE UNCHANGED feedVars
  BY <1>1 DEF FeedInv, FeedTypes, SubscribesOnce, InOrder, NothingMissed, Relayed, Underway,
       TabsKnown, TabEvents, AnswersAreNew, Waiting, feedVars
<1>2. CASE \E e \in News : DaemonEmits(e)
  BY <1>2, DaemonEmitsKeeps
<1>3. CASE DaemonGone
  BY <1>3, DaemonGoneKeeps
<1>4. CASE Subscribe
  BY <1>4, FeedSubscribeKeeps
<1>5. CASE Relay
  BY <1>5, RelayKeeps
<1>6. CASE subscribe_layout_task
  BY <1>6, ParseKeeps
<1>7. CASE GetLayout
  BY <1>7, GetLayoutKeeps
<1>8. CASE Built
  BY <1>8, BuiltKeeps
<1>9. CASE Drain
  BY <1>9, DrainKeeps
<1>10. CASE NewTab
  BY <1>10, NewTabKeeps
<1>11. CASE Serve
  BY <1>11, ServeKeeps
<1>12. CASE CallAnswered
  BY <1>12, CallAnsweredKeeps
<1>13. CASE TimedOut
  BY <1>13, TimedOutKeeps
<1> QED
  BY <1>1, <1>2, <1>3, <1>4, <1>5, <1>6, <1>7, <1>8, <1>9, <1>10, <1>11, <1>12, <1>13 DEF FeedNext

LEMMA FeedInvIsSafe == FeedInv => FeedSafe
<1> SUFFICES ASSUME FeedInv PROVE FeedSafe
  OBVIOUS
<1> USE DEF FeedInv
<1>1. \A j \in 1 .. Len(heard) - 1 : heard[j] < heard[j + 1]
  <2>1. Len(heard) \in Nat /\ \A j, k \in 1 .. Len(heard) : j < k => heard[j] < heard[k]
    BY DEF FeedTypes, InOrder, InLine, Increasing
  <2>2. \A j \in 1 .. Len(heard) - 1 : j \in 1 .. Len(heard) /\ j + 1 \in 1 .. Len(heard) /\ j < j + 1
    BY <2>1
  <2> QED
    BY <2>1, <2>2
<1>2. HeardInOrder
  BY <1>1 DEF HeardInOrder, NothingMissed
<1>3. ASSUME NEW i \in Relayed \ lost, log[i].kind = "TabCreated" PROVE i \in ToSet(shown) \cup Underway
  <2>1. OfWindow(log[i])
    BY <1>3 DEF OfWindow, Required
  <2> QED
    BY <1>3, <2>1 DEF NothingMissed, TabsKnown, TabEvents
<1>4. TabsAreShown
  BY <1>3 DEF TabsAreShown, TabsKnown, TabEvents
<1> QED
  BY <1>2, <1>4 DEF FeedSafe

(* However far the stream falls behind and whenever the daemon dies: a       *)
(* window is handed every layout event it is to know of once and in order,   *)
(* but for what it lagged behind; and a tab has one widget, whether          *)
(* get_layout told of it, its event, or the answer of the window's own call, *)
(* also of one it had given up.                                              *)
THEOREM FeedIsSafe == FeedSpec => []FeedSafe
<1>1. FeedInit => FeedInv
  BY InitFeedInv
<1>2. FeedInv /\ [FeedNext]_feedVars => FeedInv'
  BY NextFeedInv
<1> QED
  BY <1>1, <1>2, FeedInvIsSafe, PTL DEF FeedSpec

(* The two sides of a session's connections together, for every number of    *)
(* windows and daemons, every channel capacity and every number of events.   *)
THEOREM ConnectionsAreSafe == ConnectionsSpec => []ConnectionsSafe
BY AttachmentSafe, FeedIsSafe, PTL DEF ConnectionsSpec, ConnectionsSafe
=============================================================================
