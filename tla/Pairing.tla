------------------------------ MODULE Pairing ------------------------------
(* Device pairing (crates/forgetty-sync): every daemon of the user has an    *)
(* endpoint that accepts connections of phones on two protocols, a copy of   *)
(* the device registry loaded at its start, and a flag that says whether     *)
(* unknown devices may pair.  The registry file is one for all daemons; each *)
(* save replaces it by the saver's whole copy.  A connection is handled by a *)
(* task of its own whose critical sections are separate steps here.          *)
(* The preferences page of one window lists, pairs and revokes devices.      *)
(*                                                                           *)
(* A registry is the set of its device ids: a device that pairs on two       *)
(* connections is listed twice in the code, but every question asked of the  *)
(* list is membership and revoking removes all its entries.                  *)
EXTENDS Naturals, FiniteSets

CONSTANTS
  Daemons,      \* daemons of one user, one per window
  Watched,      \* the daemon whose window shows the preferences page
  Devices,      \* phones, by endpoint id
  Conns,        \* connections open at once, over all daemons
  MaxTimers     \* bound: pairing windows whose timer still runs, per daemon

ASSUME PairAssumption == Watched \in Daemons /\ MaxTimers \in Nat

VARIABLES
  file,         \* authorized_devices.json
  registry,     \* registry[k]: the copy in daemon k's memory
  running,      \* the daemons that run
  allow_pairing,\* the daemons whose flag is set
  always,       \* the daemons started with --allow-pairing
  timers,       \* timers[k]: sleeping tasks of enable_pairing
  conn,         \* conn[c]: the connection and where its task stands
  cli,          \* forgetty-daemon --revoke, between its load and its save
  page,         \* the page the preferences stack shows
  polls,        \* whether a poll of the QR page is scheduled
  shown,        \* the devices listed on the devices page
  approved      \* history: devices a daemon let in while its flag was set

pairVars == <<file, registry, running, allow_pairing, always, timers, conn, cli,
              page, polls, shown, approved>>
prefs == <<page, polls, shown>>

Free == [stage |-> "free"]
NoCli == [stage |-> "none"]

ConnStates ==
  {Free} \cup [stage : {"handshake", "known", "naming"}, daemon : Daemons,
               device : Devices, alpn : {"pair"}, allow : BOOLEAN]
         \cup [stage : {"handshake", "serving"}, daemon : Daemons,
               device : Devices, alpn : {"stream"}, allow : BOOLEAN]

PairInit ==
  /\ file = {}
  /\ registry = [k \in Daemons |-> {}]
  /\ running = {}
  /\ allow_pairing = {}
  /\ always = {}
  /\ timers = [k \in Daemons |-> 0]
  /\ conn = [c \in Conns |-> Free]
  /\ cli = NoCli
  /\ page = "devices" /\ polls = FALSE /\ shown = {}
  /\ approved = {}

(* DeviceRegistry::save: the whole copy replaces the file, or the write      *)
(* fails and the copy in memory keeps the change all the same.               *)
Save(copy) == file' \in {file, copy}

(* SyncEndpointBuilder::build: the registry is loaded once.                  *)
Start(k) ==
  /\ k \notin running
  /\ running' = running \cup {k}
  /\ registry' = [registry EXCEPT ![k] = file]
  /\ \E flag \in BOOLEAN :
       /\ allow_pairing' = IF flag THEN allow_pairing \cup {k} ELSE allow_pairing
       /\ always' = IF flag THEN always \cup {k} ELSE always
  /\ UNCHANGED <<file, timers, conn, cli, prefs, approved>>

(* The daemon's process ends, and with it its connections and timers.        *)
Stop(k) ==
  /\ k \in running
  /\ running' = running \ {k}
  /\ allow_pairing' = allow_pairing \ {k}
  /\ always' = always \ {k}
  /\ timers' = [timers EXCEPT ![k] = 0]
  /\ conn' = [c \in Conns |->
                IF conn[c] # Free /\ conn[c].daemon = k THEN Free ELSE conn[c]]
  /\ UNCHANGED <<file, registry, cli, prefs, approved>>

(* enable_pairing: sets the flag and spawns a task that clears it.  Timers   *)
(* of earlier calls go on: the oldest one closes the newest window.          *)
enable_pairing(k) ==
  /\ allow_pairing' = allow_pairing \cup {k}
  /\ timers' = [timers EXCEPT ![k] = @ + 1]

SlipTimerKeepsLast(k) ==
  /\ timers[k] > 0
  /\ timers' = [timers EXCEPT ![k] = @ - 1]
  /\ allow_pairing' = IF timers[k] = 1 THEN allow_pairing ELSE allow_pairing \ {k}
  /\ UNCHANGED <<file, registry, running, always, conn, cli, prefs, approved>>

TimerFires(k) ==
  /\ timers[k] > 0
  /\ timers' = [timers EXCEPT ![k] = @ - 1]
  /\ allow_pairing' = allow_pairing \ {k}
  /\ UNCHANGED <<file, registry, running, always, conn, cli, prefs, approved>>

(* The accept loop reads the ALPN, samples the flag and spawns the task; the *)
(* handshake completes, or fails, after that.                                *)
Accept(c, k, d, alpn) ==
  /\ conn[c] = Free
  /\ k \in running
  /\ conn' = [conn EXCEPT ![c] = [stage |-> "handshake", daemon |-> k, device |-> d,
                                  alpn |-> alpn, allow |-> k \in allow_pairing]]
  /\ UNCHANGED <<file, registry, running, allow_pairing, always, timers, cli, prefs, approved>>

at(c, stage) == conn[c].stage = stage
to(c, stage) == conn' = [conn EXCEPT ![c].stage = stage]
close(c) == conn' = [conn EXCEPT ![c] = Free]
is_authorized(c) == conn[c].device \in registry[conn[c].daemon]

(* handle_connection, its first critical section: known, pairing, rejected.  *)
handle_connection(c) ==
  /\ at(c, "handshake") /\ conn[c].alpn = "pair"
  /\ \/ is_authorized(c) /\ to(c, "known") /\ UNCHANGED approved
     \/ /\ ~is_authorized(c) /\ conn[c].allow
        /\ to(c, "naming")
        /\ approved' = approved \cup {conn[c].device}
     \/ ~is_authorized(c) /\ ~conn[c].allow /\ close(c) /\ UNCHANGED approved
  /\ UNCHANGED <<file, registry, running, allow_pairing, always, timers, cli, prefs>>

(* A known device: update_last_seen saves the copy even if the device has    *)
(* been revoked meanwhile.                                                   *)
update_last_seen(c) ==
  /\ at(c, "known")
  /\ Save(registry[conn[c].daemon])
  /\ close(c)
  /\ UNCHANGED <<registry, running, allow_pairing, always, timers, cli, prefs, approved>>

(* The name has arrived or the five seconds are over: the device is added    *)
(* without another look at the registry or the flag.                         *)
AddDevice(c) ==
  LET k == conn[c].daemon
      copy == registry[k] \cup {conn[c].device}
  IN /\ at(c, "naming")
     /\ registry' = [registry EXCEPT ![k] = copy]
     /\ Save(copy)
     /\ close(c)
     /\ UNCHANGED <<running, allow_pairing, always, timers, cli, prefs, approved>>

(* The stream protocol asks the registry once per connection; a connection   *)
(* that passes serves list, subscribe and input streams until the phone      *)
(* goes away, whatever happens to the registry.                              *)
handle_terminal_stream(c) ==
  /\ at(c, "handshake") /\ conn[c].alpn = "stream"
  /\ IF is_authorized(c) THEN to(c, "serving") ELSE close(c)
  /\ UNCHANGED <<file, registry, running, allow_pairing, always, timers, cli, prefs, approved>>

(* The phone goes away: in the handshake or while served.  While its name is *)
(* awaited the task goes on without one and still adds it.                   *)
Disconnect(c) ==
  /\ conn[c].stage \in {"handshake", "serving"}
  /\ close(c)
  /\ UNCHANGED <<file, registry, running, allow_pairing, always, timers, cli, prefs, approved>>

(* DeviceRegistry::remove: all entries, saved only if there was one.         *)
remove(k, d) ==
  /\ registry' = [registry EXCEPT ![k] = @ \ {d}]
  /\ IF d \in registry[k] THEN Save(registry[k] \ {d}) ELSE UNCHANGED file

(* The revoke button: the RPC, and the row goes whatever it answers.         *)
revoke_device(d) ==
  /\ page = "devices" /\ d \in shown
  /\ IF Watched \in running THEN remove(Watched, d) ELSE UNCHANGED <<file, registry>>
  /\ shown' = shown \ {d}
  /\ UNCHANGED <<running, allow_pairing, always, timers, conn, cli, page, polls, approved>>

(* forgetty-daemon --revoke: another process with a copy of its own.         *)
CliLoad(d) ==
  /\ cli = NoCli
  /\ d \in file
  /\ cli' = [stage |-> "loaded", device |-> d, copy |-> file]
  /\ UNCHANGED <<file, registry, running, allow_pairing, always, timers, conn, prefs, approved>>

CliSave ==
  /\ cli # NoCli
  /\ Save(cli.copy \ {cli.device})
  /\ cli' = NoCli
  /\ UNCHANGED <<registry, running, allow_pairing, always, timers, conn, prefs, approved>>

(* build_device_list_page: what the daemon lists, nothing if it does not     *)
(* answer.                                                                   *)
Listed == IF Watched \in running THEN registry[Watched] ELSE {}

OpenPreferences ==
  /\ page = "devices"
  /\ shown' = Listed
  /\ UNCHANGED <<file, registry, running, allow_pairing, always, timers, conn, cli,
                 page, polls, approved>>

(* show_qr_view: the window opens first; if the pairing info cannot be had   *)
(* the page stays and the window is open all the same.                       *)
show_qr_view ==
  /\ page = "devices"
  /\ IF Watched \in running
     THEN /\ timers[Watched] < MaxTimers
          /\ enable_pairing(Watched)
          /\ \/ page' = "qr" /\ polls' = TRUE
             \/ UNCHANGED <<page, polls>>
     ELSE UNCHANGED <<allow_pairing, timers, page, polls>>
  /\ UNCHANGED <<file, registry, running, always, conn, cli, shown, approved>>

(* enable_pairing over the socket, by any other client.                      *)
EnablePairing(k) ==
  /\ k \in running
  /\ timers[k] < MaxTimers
  /\ enable_pairing(k)
  /\ UNCHANGED <<file, registry, running, always, conn, cli, prefs, approved>>

(* The poll that runs every two seconds while the QR page is visible.        *)
PollDevices ==
  /\ polls
  /\ IF page = "qr" THEN shown' = Listed /\ UNCHANGED polls
                    ELSE polls' = FALSE /\ UNCHANGED shown
  /\ UNCHANGED <<file, registry, running, allow_pairing, always, timers, conn, cli,
                 page, approved>>

Done ==
  /\ page = "qr"
  /\ page' = "devices"
  /\ UNCHANGED <<file, registry, running, allow_pairing, always, timers, conn, cli,
                 polls, shown, approved>>

PairNext ==
  \/ \E k \in Daemons : Start(k) \/ Stop(k) \/ TimerFires(k) \/ EnablePairing(k)
  \/ \E c \in Conns, k \in Daemons, d \in Devices, alpn \in {"pair", "stream"} :
       Accept(c, k, d, alpn)
  \/ \E c \in Conns : \/ handle_connection(c) \/ update_last_seen(c) \/ AddDevice(c)
                      \/ handle_terminal_stream(c) \/ Disconnect(c)
  \/ \E d \in Devices : revoke_device(d) \/ CliLoad(d)
  \/ CliSave \/ OpenPreferences \/ show_qr_view \/ PollDevices \/ Done

PairSpec == PairInit /\ [][PairNext]_pairVars

(***************************************************************************)
(* Properties                                                              *)
(***************************************************************************)
PairTypeOK ==
  /\ file \subseteq Devices /\ approved \subseteq Devices /\ shown \subseteq Devices
  /\ registry \in [Daemons -> SUBSET Devices]
  /\ running \subseteq Daemons /\ allow_pairing \subseteq running /\ always \subseteq running
  /\ timers \in [Daemons -> 0..MaxTimers]
  /\ conn \in [Conns -> ConnStates]
  /\ cli = NoCli \/ cli \in [stage : {"loaded"}, device : Devices, copy : SUBSET Devices]
  /\ page \in {"devices", "qr"} /\ polls \in BOOLEAN

(* A phone is served terminals, or known to any daemon, only if some daemon  *)
(* let it in while its pairing flag was set, however the daemons overwrite   *)
(* each other's registry, fail to save it, crash and load it again.          *)
OnlyApprovedServed ==
  /\ file \subseteq approved
  /\ \A k \in Daemons : registry[k] \subseteq approved
  /\ \A c \in Conns : at(c, "serving") => conn[c].device \in approved

(* A daemon not started with --allow-pairing accepts unknown devices only    *)
(* while a timer that will end this is running, and it does end: enabling    *)
(* twice, in whatever order the timers fire, never leaves the window open.   *)
OpenWindowHasTimer ==
  \A k \in allow_pairing \ always : timers[k] > 0

(* Both together: what letting a phone in may never come to.                *)
PairingSafe == OnlyApprovedServed /\ OpenWindowHasTimer
=============================================================================
