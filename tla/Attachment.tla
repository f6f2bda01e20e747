----------------------------- MODULE Attachment -----------------------------
(* Who is connected to whom, for one session: the GTK processes launched for *)
(* it (src/main.rs, ensure_daemon in forgetty-gtk/src/app.rs), the daemons   *)
(* they find or spawn, the socket path all of them share, and every          *)
(* connection between them (forgetty-socket/src/server.rs,                   *)
(* forgetty-gtk/src/daemon_client.rs).                                       *)
(*                                                                           *)
(* SessionStore lets at most one window and one daemon of a session run at a *)
(* time.  Here launches overlap, and a process may be killed at any step.    *)
(* Of a window's panes one is followed, and of the daemon's shells its own.  *)
EXTENDS Naturals, FiniteSets

CONSTANTS
  MaxLaunches,  \* bound: GTK processes started for the session
  MaxDaemons,   \* bound: daemon processes spawned for it
  None          \* no daemon, no connection

VARIABLES
  path,      \* the daemon the socket path leads to, or None: a socket
             \* nobody listens on is unlinked before the next bind
  daemon,    \* daemon -> how far it is
  shell,     \* daemon -> the pane's shell has not exited by itself
  links,     \* launch and kind -> the connection, or None: never two of a kind
  window,    \* launch -> how far it is
  pane,      \* launch -> what it knows of the pane's stream
  home,      \* launch -> the daemon the pane's stream came from
  rivals     \* history: a daemon was spawned while another could not be reached

attachVars == <<path, daemon, shell, links, window, pane, home, rivals>>

(* Processes are numbered as they start.                                     *)
Launches == 1 .. MaxLaunches
Daemons == 1 .. MaxDaemons
FirstOf(S) == {x \in S : \A y \in S : x <= y}

DaemonPhases == {"absent", "loading", "ready", "serving", "deaf", "gone"}
WindowStages ==
  {"none", "asking", "connecting", "waiting", "open", "checking", "gone"}
PaneStates == {"none", "connecting", "streaming", "ended", "closed", "kept"}
Kinds == {"is_attached", "list_tabs", "pane"}
Slots == Launches \X Kinds
Link == [to : Daemons, left : BOOLEAN,
         stage : {"queued", "alone", "attached", "answered", "streaming", "over"}]

ASSUME AttachAssumption == None \notin Daemons \cup Link

AttachInit ==
  /\ path = None /\ rivals = FALSE
  /\ daemon = [d \in Daemons |-> "absent"] /\ shell = [d \in Daemons |-> TRUE]
  /\ links = [s \in Slots |-> None]
  /\ window = [w \in Launches |-> "none"] /\ pane = [w \in Launches |-> "none"]
  /\ home = [w \in Launches |-> None]

-----------------------------------------------------------------------------
(* Connecting succeeds once bind has made the path a listening socket.       *)
Listening == path # None
Open == {s \in Slots : links[s] # None}
LinksOf(w) == {s \in Open : s[1] = w /\ ~ links[s].left}

(* A new connection in the daemon's backlog                                  *)
Dialled(w, kind) ==
  [links EXCEPT ![<<w, kind>>] = [to |-> path, left |-> FALSE, stage |-> "queued"]]

(* The client's side closed: the server has yet to notice.                   *)
Dropped(S) == [s \in Slots |-> IF s \notin S THEN links[s]
                               ELSE IF links[s].stage = "over" THEN None
                               ELSE [links[s] EXCEPT !.left = TRUE]]

(* The process is gone: its sockets close, and backlog and tasks with them.  *)
Severed(d) == [s \in Slots |-> IF links[s] = None \/ links[s].to # d THEN links[s]
                               ELSE IF links[s].left THEN None
                               ELSE [links[s] EXCEPT !.stage = "over"]]

(* The ConnGuards that are held                                              *)
Guarded(d) == {s \in Open : /\ links[s].to = d
                            /\ links[s].stage \notin {"queued", "over"}}

-----------------------------------------------------------------------------
(* The daemon's start.  new_with_path unlinks whatever the path names; bind  *)
(* fails if another daemon has bound it since, and the SocketServer that is  *)
(* dropped then removes that daemon's socket.                                *)
new_with_session(d) ==
  /\ daemon[d] = "loading"
  /\ daemon' = [daemon EXCEPT ![d] = "ready"]
  /\ path' = None
  /\ UNCHANGED <<shell, links, window, pane, home, rivals>>

run_with_streaming(d) ==
  /\ daemon[d] = "ready"
  /\ IF path = None
     THEN path' = d /\ daemon' = [daemon EXCEPT ![d] = "serving"]
     ELSE path' = None /\ daemon' = [daemon EXCEPT ![d] = "deaf"]
  /\ UNCHANGED <<shell, links, window, pane, home, rivals>>

(* SIGTERM or SIGINT: main returns and drops the SocketServer, which removes *)
(* what the path names.  A daemon that exits on a shutdown request, or is    *)
(* killed, leaves its own socket file behind.                                *)
PathWithout(d) == path' = IF path = d THEN None ELSE path
Gone(d) ==
  /\ daemon' = [daemon EXCEPT ![d] = "gone"] /\ links' = Severed(d)
  /\ UNCHANGED <<shell, window, pane, home, rivals>>
DaemonExits(d) ==
  /\ daemon[d] = "serving"
  /\ path' = None
  /\ Gone(d)
DaemonKilled(d) ==
  /\ daemon[d] \in {"loading", "ready", "serving", "deaf"}
  /\ Gone(d) /\ PathWithout(d)

ShellExits(d) ==
  /\ daemon[d] = "serving" /\ shell[d]
  /\ shell' = [shell EXCEPT ![d] = FALSE]
  /\ UNCHANGED <<path, daemon, links, window, pane, home, rivals>>

-----------------------------------------------------------------------------
(* A connection's task.                                                      *)
Reached(s, stages) == /\ links[s] # None /\ links[s].stage \in stages
                      /\ daemon[links[s].to] = "serving"
Stage(s, stage) == links' = [links EXCEPT ![s].stage = stage]
ServerRests == UNCHANGED <<path, daemon, shell, window, pane, home, rivals>>

(* The connection is accepted, its request read and answered.  is_attached   *)
(* counts the guards, its own among them.                                    *)
IsAttached(d) == IF Guarded(d) # {} THEN "attached" ELSE "alone"
Over(s) == links' = [links EXCEPT ![s] = IF links[s].left THEN None ELSE [@ EXCEPT !.stage = "over"]]
Accept(s) ==
  /\ Reached(s, {"queued"})
  /\ LET d == links[s].to
     IN \/ s[2] = "is_attached" /\ Stage(s, IsAttached(d)) /\ ServerRests
        \/ s[2] = "list_tabs" /\ Stage(s, "answered") /\ ServerRests
        \/ s[2] = "pane" /\ (IF shell[d] THEN Stage(s, "streaming") ELSE Over(s)) /\ ServerRests

(* A stream's select sees PaneClosed, or the end of the client's half; a     *)
(* line-mode loop reads the end of the client's half.                        *)
SeesPaneClosed(s) ==
  /\ Reached(s, {"streaming"}) /\ ~ shell[links[s].to]
  /\ Over(s) /\ ServerRests
SlipStreamsDoNotRead(s) == links[s].stage # "streaming"
ReadsEnd(s) == TRUE
ClientLeft(s) ==
  /\ Reached(s, {"alone", "attached", "answered", "streaming"})
  /\ links[s].left /\ ReadsEnd(s)
  /\ links' = [links EXCEPT ![s] = None]
  /\ ServerRests

-----------------------------------------------------------------------------
(* A launch.  A restore asks first whether the session has its window; a     *)
(* daemon that cannot be reached or does not answer in time has none.        *)
Goes(w, stage) == window' = [window EXCEPT ![w] = stage]
LaunchRests == UNCHANGED <<path, daemon, shell, pane, home, rivals>>

Launch(w) ==
  /\ w \in FirstOf({v \in Launches : window[v] = "none"})
  /\ Goes(w, "connecting") /\ UNCHANGED links
  /\ LaunchRests

is_session_in_use(w) ==
  /\ w \in FirstOf({v \in Launches : window[v] = "none"})
  /\ Listening /\ links' = Dialled(w, "is_attached") /\ Goes(w, "asking")
  /\ LaunchRests

UseAnswered(w) ==
  /\ window[w] = "asking"
  /\ LET s == <<w, "is_attached">>
     IN /\ Goes(w, IF links[s].stage = "attached" THEN "gone" ELSE "connecting")
        /\ links' = Dropped({s})
  /\ LaunchRests

(* ensure_daemon: a connection, dropped at once and left out here, shows the *)
(* daemon is there.  Otherwise one is spawned and waited for, not for ever.  *)
Spawns(w) ==
  \E d \in FirstOf({e \in Daemons : daemon[e] = "absent"}) :
    /\ daemon' = [daemon EXCEPT ![d] = "loading"]
    /\ rivals' = (rivals \/ \E e \in Daemons : daemon[e] \in {"loading", "ready", "deaf"})
    /\ Goes(w, "waiting")
    /\ UNCHANGED <<path, shell, links, pane, home>>
Connects(w) ==
  /\ Goes(w, "open") /\ pane' = [pane EXCEPT ![w] = "connecting"]
  /\ UNCHANGED <<path, daemon, shell, links, home, rivals>>
SlipAlwaysSpawn(w) == window[w] = "connecting" /\ Spawns(w)
ensure_daemon(w) == window[w] = "connecting" /\ IF Listening THEN Connects(w) ELSE Spawns(w)
Retry(w) == window[w] = "waiting" /\ Listening /\ Connects(w)
-----------------------------------------------------------------------------
(* An open window.  Its streams are opened by tasks; the pane's task tells   *)
(* of the stream's end however it came about.                                *)
StreamRests == UNCHANGED <<path, daemon, shell, window, rivals>>

WindowLives(w) == window[w] \in {"open", "checking"}
SlipTellsOnlyEof(w) == "connecting"
StreamEnded(w) == "ended"
subscribe_output(w) ==
  /\ WindowLives(w) /\ pane[w] = "connecting"
  /\ IF Listening
     THEN /\ links' = Dialled(w, "pane")
          /\ pane' = [pane EXCEPT ![w] = "streaming"] /\ home' = [home EXCEPT ![w] = path]
     ELSE /\ pane' = [pane EXCEPT ![w] = StreamEnded(w)]
          /\ UNCHANGED <<links, home>>
  /\ StreamRests

(* The client's task sees the end of a stream.                               *)
StreamTaskEnds(s) ==
  /\ links[s] # None /\ links[s].stage = "over"
  /\ links' = [links EXCEPT ![s] = None] /\ pane' = [pane EXCEPT ![s[1]] = "ended"]
  /\ StreamRests /\ UNCHANGED home

(* StreamEnded on the GTK thread: list_tabs tells whether the shell exited   *)
(* or the daemon died.                                                       *)
WindowRests == UNCHANGED <<path, daemon, shell, home, rivals>>
SlipCloseUnasked(w) ==
  /\ pane' = [pane EXCEPT ![w] = "closed"] /\ UNCHANGED <<links, window>>
AskDaemon(w) ==
  IF Listening
  THEN /\ links' = Dialled(w, "list_tabs")
       /\ Goes(w, "checking") /\ UNCHANGED pane
  ELSE /\ pane' = [pane EXCEPT ![w] = "kept"] /\ UNCHANGED <<links, window>>
HandleStreamEnded(w) ==
  /\ window[w] = "open" /\ pane[w] = "ended"
  /\ AskDaemon(w) /\ WindowRests

(* rpc: the thread waits for the answer, for half a second at most.          *)
Checked(w) ==
  /\ window[w] = "checking"
  /\ LET s == <<w, "list_tabs">>
     IN /\ links' = Dropped({s})
        /\ pane' = [pane EXCEPT ![w] = IF links[s].stage = "answered" THEN "closed" ELSE "kept"]
  /\ Goes(w, "open") /\ WindowRests

(* A window is closed or killed, or gave up waiting.  The daemon that a      *)
(* closing window asks to exit does so by DaemonKilled, or outlives it.      *)
WindowGone(w) ==
  /\ window[w] \in {"waiting", "open", "checking"}
  /\ links' = Dropped(LinksOf(w)) /\ Goes(w, "gone")
  /\ pane' = [pane EXCEPT ![w] = "none"] /\ home' = [home EXCEPT ![w] = None]
  /\ UNCHANGED <<path, daemon, shell, rivals>>

-----------------------------------------------------------------------------
ServerStep(w) ==
  \E k \in Kinds : Accept(<<w, k>>) \/ SeesPaneClosed(<<w, k>>) \/ ClientLeft(<<w, k>>)
ClientStep(w) ==
  subscribe_output(w) \/ StreamTaskEnds(<<w, "pane">>) \/ HandleStreamEnded(w) \/ Checked(w)

AttachNext ==
  \/ \E d \in Daemons : \/ new_with_session(d) \/ run_with_streaming(d)
                        \/ DaemonExits(d) \/ DaemonKilled(d) \/ ShellExits(d)
  \/ \E w \in Launches :
       \/ Launch(w) \/ is_session_in_use(w) \/ UseAnswered(w) \/ ensure_daemon(w) \/ Retry(w)
       \/ ServerStep(w) \/ ClientStep(w) \/ WindowGone(w)

(* The daemon's tasks run, and the window's tasks and main loop do: nothing  *)
(* in them waits for a lock another holds across an await.                   *)
AttachFairness ==
  \A w \in Launches : WF_attachVars(ServerStep(w)) /\ WF_attachVars(ClientStep(w))

AttachSpec == AttachInit /\ [][AttachNext]_attachVars /\ AttachFairness

-----------------------------------------------------------------------------
AttachTypeOK ==
  /\ path \in Daemons \cup {None} /\ rivals \in BOOLEAN
  /\ daemon \in [Daemons -> DaemonPhases] /\ shell \in [Daemons -> BOOLEAN]
  /\ links \in [Slots -> Link \cup {None}] /\ window \in [Launches -> WindowStages]
  /\ pane \in [Launches -> PaneStates] /\ home \in [Launches -> Daemons \cup {None}]

(* Every stream a window holds comes from the daemon its calls go to, so     *)
(* that the pane it draws is the pane it types into; unless a daemon was     *)
(* spawned while another was still on its way to its socket.                 *)
CallsFollowStreams ==
  rivals \/ \A s \in Open : links[s].stage = "streaming" => path = links[s].to

(* "If the daemon itself died, keep the pane open to preserve session": a    *)
(* window closes a pane whose stream ended only if the shell has exited, or  *)
(* the daemon has a successor to mistake for it.                             *)
PanesSurviveDaemon ==
  \A w \in Launches : pane[w] = "closed" =>
    \/ home[w] = None \/ ~ shell[home[w]]
    \/ daemon[home[w]] = "gone" /\ \E d \in Daemons \ {home[w]} : daemon[d] # "absent"

AttachSafe == AttachTypeOK /\ CallsFollowStreams /\ PanesSurviveDaemon

(* The daemon lets go of every connection of a window that is gone, streams  *)
(* of idle panes included (server.rs, fix cycle 3), so that is_attached does *)
(* not take it for open; and a stream that has ended, or could not be had,   *)
(* is always reported to its window (subscribe_output_task).                 *)
Untold(w) ==
  /\ WindowLives(w)
  /\ \/ pane[w] = "connecting"
     \/ pane[w] = "streaming" /\ links[<<w, "pane">>].stage = "over"
Lingers(w) == window[w] = "gone" /\ \E k \in Kinds : links[<<w, k>>] # None
Owed == \E w \in Launches : Untold(w) \/ Lingers(w)
ClientsAreLetGo == Owed ~> ~ Owed
=============================================================================
