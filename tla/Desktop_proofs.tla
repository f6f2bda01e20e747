--------------------------- MODULE Desktop_proofs ---------------------------
(* Proofs about what goes on around a window: whom pairing lets in, for any  *)
(* number of daemons, phones and connections, which pane has the focus, for  *)
(* any number of clients' changes in flight, what a copy takes, for any      *)
(* scrollback, pane and selection, and what the tab bars of the workspaces   *)
(* hold, for any number of pages.                                            *)
EXTENDS Pairing, FocusEcho, TerminalView, TabPages, SequenceLemmas

-----------------------------------------------------------------------------
(* Pairing                                                                   *)

(* What OnlyApprovedServed leaves open: a phone whose name is awaited will be *)
(* registered without another look, and a revocation on the command line     *)
(* will write back the list it has read.                                     *)
NamedAreApproved == \A c \in Conns : at(c, "naming") => conn[c].device \in approved
CliIsApproved == cli # NoCli => cli.copy \subseteq approved

PairInv ==
  /\ PairTypeOK /\ OnlyApprovedServed /\ OpenWindowHasTimer
  /\ NamedAreApproved /\ CliIsApproved

(* The invariant of the two lists of devices, the connections and the window *)
Lists == <<file, registry, conn, cli, approved>>
Window == <<running, allow_pairing, always, timers>>

-----------------------------------------------------------------------------
(* Connections                                                               *)

(* What a connection's fields are in each stage it can be in.                *)
LEMMA ConnFields ==
  ASSUME conn \in [Conns -> ConnStates], NEW c \in Conns, conn[c] # Free
  PROVE  /\ conn[c].daemon \in Daemons /\ conn[c].device \in Devices
         /\ conn[c].stage \in {"handshake", "known", "naming", "serving"}
         /\ conn[c].alpn \in {"pair", "stream"} /\ conn[c].allow \in BOOLEAN
BY DEF ConnStates, Free

LEMMA NotFree ==
  ASSUME NEW c \in Conns, NEW s \in {"handshake", "known", "naming", "serving"}, at(c, s)
  PROVE  conn[c] # Free
BY DEF at, Free

(* A connection that moves on stays the same in all but its stage.           *)
LEMMA ToMoves ==
  ASSUME conn \in [Conns -> ConnStates], NEW c \in Conns, conn[c] # Free, NEW s, to(c, s)
  PROVE  /\ conn'[c].stage = s /\ conn'[c].device = conn[c].device
         /\ \A b \in Conns \ {c} : conn'[b] = conn[b]
<1>1. conn'[c] = [conn[c] EXCEPT !.stage = s] /\ \A b \in Conns \ {c} : conn'[b] = conn[b]
  BY DEF to
<1>2. PICK kinds, alpns : conn[c] \in [stage : kinds, daemon : Daemons, device : Devices,
                                       alpn : alpns, allow : BOOLEAN]
  BY DEF ConnStates
<1> QED
  BY <1>1, <1>2

(* A connection that closes takes nothing from the others.                   *)
LEMMA CloseKeeps ==
  ASSUME PairInv, NEW c \in Conns, close(c), UNCHANGED approved
  PROVE  /\ conn' \in [Conns -> ConnStates]
         /\ NamedAreApproved'
         /\ \A b \in Conns : at(b, "serving")' => conn'[b].device \in approved'
BY DEF PairInv, PairTypeOK, OnlyApprovedServed, NamedAreApproved, close, at, Free, ConnStates

(* A step that leaves the flags and the timers leaves their relation.        *)
LEMMA WindowKept ==
  ASSUME PairInv, UNCHANGED Window
  PROVE  OpenWindowHasTimer'
BY DEF PairInv, OpenWindowHasTimer, Window

LEMMA ListsKept ==
  ASSUME PairInv, UNCHANGED Lists
  PROVE  OnlyApprovedServed' /\ NamedAreApproved' /\ CliIsApproved'
BY DEF PairInv, OnlyApprovedServed, NamedAreApproved, CliIsApproved, Lists, at

-----------------------------------------------------------------------------
(* One lemma per action                                                      *)

LEMMA StartSafe ==
  ASSUME PairInv, NEW k \in Daemons, Start(k)
  PROVE  PairInv'
<1>1. PairTypeOK'
  BY DEF PairInv, PairTypeOK, Start, prefs
<1>2. OnlyApprovedServed' /\ NamedAreApproved' /\ CliIsApproved'
  BY DEF PairInv, PairTypeOK, OnlyApprovedServed, NamedAreApproved, CliIsApproved, Start, at
<1>3. OpenWindowHasTimer'
  BY DEF PairInv, OpenWindowHasTimer, Start
<1> QED
  BY <1>1, <1>2, <1>3 DEF PairInv

LEMMA StopSafe ==
  ASSUME PairInv, NEW k \in Daemons, Stop(k)
  PROVE  PairInv'
<1>1. PairTypeOK'
  <2>1. timers' \in [Daemons -> 0 .. MaxTimers]
    BY PairAssumption DEF PairInv, PairTypeOK, Stop
  <2>2. conn' \in [Conns -> ConnStates]
    BY DEF PairInv, PairTypeOK, Stop, ConnStates
  <2> QED
    BY <2>1, <2>2 DEF PairInv, PairTypeOK, Stop, prefs
<1>2. OnlyApprovedServed' /\ NamedAreApproved' /\ CliIsApproved'
  BY DEF PairInv, PairTypeOK, OnlyApprovedServed, NamedAreApproved, CliIsApproved, Stop, at, Free
<1>3. OpenWindowHasTimer'
  BY DEF PairInv, PairTypeOK, OpenWindowHasTimer, Stop
<1> QED
  BY <1>1, <1>2, <1>3 DEF PairInv

(* The flag goes with any timer, even if younger ones still run.             *)
LEMMA TimerFiresSafe ==
  ASSUME PairInv, NEW k \in Daemons, TimerFires(k)
  PROVE  PairInv'
<1>1. timers' \in [Daemons -> 0 .. MaxTimers]
  BY PairAssumption DEF PairInv, PairTypeOK, TimerFires
<1>2. OpenWindowHasTimer'
  BY DEF PairInv, PairTypeOK, OpenWindowHasTimer, TimerFires
<1>3. UNCHANGED Lists
  BY DEF TimerFires, Lists
<1> QED
  BY <1>1, <1>2, <1>3, ListsKept DEF PairInv, PairTypeOK, TimerFires, prefs

LEMMA EnableSafe ==
  ASSUME PairInv, NEW k \in running, timers[k] < MaxTimers, enable_pairing(k)
  PROVE  /\ timers' \in [Daemons -> 0 .. MaxTimers]
         /\ allow_pairing' \subseteq running
         /\ always' = always => OpenWindowHasTimer'
<1>1. k \in Daemons
  BY DEF PairInv, PairTypeOK
<1>2. timers[k] \in Nat /\ timers'[k] = timers[k] + 1
  BY <1>1 DEF PairInv, PairTypeOK, enable_pairing
<1>3. timers' \in [Daemons -> 0 .. MaxTimers]
  BY <1>1, <1>2, PairAssumption DEF PairInv, PairTypeOK, enable_pairing
<1>4. ASSUME always' = always PROVE OpenWindowHasTimer'
  BY <1>1, <1>2, <1>4 DEF PairInv, PairTypeOK, OpenWindowHasTimer, enable_pairing
<1> QED
  BY <1>3, <1>4 DEF PairInv, PairTypeOK, enable_pairing

LEMMA EnablePairingSafe ==
  ASSUME PairInv, NEW k \in Daemons, EnablePairing(k)
  PROVE  PairInv'
<1>1. UNCHANGED Lists
  BY DEF EnablePairing, Lists
<1> QED
  BY <1>1, ListsKept, EnableSafe DEF PairInv, PairTypeOK, EnablePairing, prefs

LEMMA AcceptSafe ==
  ASSUME PairInv, NEW c \in Conns, NEW k \in Daemons, NEW d \in Devices,
         NEW alpn \in {"pair", "stream"}, Accept(c, k, d, alpn)
  PROVE  PairInv'
<1>1. conn' \in [Conns -> ConnStates]
  <2>1. [stage |-> "handshake", daemon |-> k, device |-> d,
         alpn |-> alpn, allow |-> k \in allow_pairing] \in ConnStates
    BY DEF ConnStates
  <2> QED
    BY <2>1 DEF PairInv, PairTypeOK, Accept
<1>2. OnlyApprovedServed' /\ NamedAreApproved' /\ CliIsApproved'
  BY DEF PairInv, PairTypeOK, OnlyApprovedServed, NamedAreApproved, CliIsApproved, Accept, at
<1>3. UNCHANGED Window
  BY DEF Accept, Window
<1> QED
  BY <1>1, <1>2, <1>3, WindowKept DEF PairInv, PairTypeOK, Accept, prefs

(* A phone is named only after it was let in.                                *)
LEMMA HandleConnectionSafe ==
  ASSUME PairInv, NEW c \in Conns, handle_connection(c)
  PROVE  PairInv'
<1>1. conn[c] # Free /\ conn[c].alpn = "pair"
  BY NotFree DEF handle_connection
<1>2. UNCHANGED Window /\ UNCHANGED <<file, registry, cli>> /\ approved \subseteq approved'
  BY DEF handle_connection, Window
<1>3. conn' \in [Conns -> ConnStates] /\ approved' \subseteq Devices
  BY <1>1, ConnFields DEF PairInv, PairTypeOK, handle_connection, to, at, close, ConnStates, Free
<1>4. NamedAreApproved' /\ \A b \in Conns : at(b, "serving")' => conn'[b].device \in approved'
  <2>1. CASE is_authorized(c) /\ to(c, "known") /\ UNCHANGED approved
    BY <1>1, <2>1, ToMoves DEF PairInv, PairTypeOK, OnlyApprovedServed, NamedAreApproved, at
  <2>2. CASE to(c, "naming") /\ approved' = approved \cup {conn[c].device}
    BY <1>1, <2>2, ToMoves DEF PairInv, PairTypeOK, OnlyApprovedServed, NamedAreApproved, at
  <2>3. CASE close(c) /\ UNCHANGED approved
    BY <2>3, CloseKeeps
  <2> QED
    BY <2>1, <2>2, <2>3 DEF handle_connection
<1>5. OnlyApprovedServed' /\ CliIsApproved'
  BY <1>2, <1>4 DEF PairInv, OnlyApprovedServed, CliIsApproved
<1> QED
  BY <1>2, <1>3, <1>4, <1>5, WindowKept DEF PairInv, PairTypeOK, handle_connection, prefs

(* A saved copy is of approved devices, and so is the file after it.         *)
LEMMA SaveSafe ==
  ASSUME PairInv, NEW copy, copy \subseteq Devices, copy \subseteq approved, Save(copy)
  PROVE  file' \subseteq Devices /\ file' \subseteq approved
BY DEF PairInv, PairTypeOK, OnlyApprovedServed, Save

LEMMA UpdateLastSeenSafe ==
  ASSUME PairInv, NEW c \in Conns, update_last_seen(c)
  PROVE  PairInv'
<1>1. conn[c].daemon \in Daemons
  BY NotFree, ConnFields DEF PairInv, PairTypeOK, update_last_seen
<1>2. file' \subseteq Devices /\ file' \subseteq approved
  <2>1. registry[conn[c].daemon] \subseteq Devices /\ registry[conn[c].daemon] \subseteq approved
    BY <1>1 DEF PairInv, PairTypeOK, OnlyApprovedServed
  <2> QED
    BY <2>1, SaveSafe DEF update_last_seen
<1>3. UNCHANGED Window /\ UNCHANGED <<registry, cli, approved>>
  BY DEF update_last_seen, Window
<1>4. /\ conn' \in [Conns -> ConnStates] /\ NamedAreApproved'
      /\ \A b \in Conns : at(b, "serving")' => conn'[b].device \in approved'
  BY <1>3, CloseKeeps DEF update_last_seen
<1>5. OnlyApprovedServed' /\ CliIsApproved'
  BY <1>2, <1>3, <1>4 DEF PairInv, OnlyApprovedServed, CliIsApproved
<1> QED
  BY <1>2, <1>3, <1>4, <1>5, WindowKept DEF PairInv, PairTypeOK, update_last_seen, prefs

LEMMA AddDeviceSafe ==
  ASSUME PairInv, NEW c \in Conns, AddDevice(c)
  PROVE  PairInv'
<1> DEFINE k == conn[c].daemon
           copy == registry[k] \cup {conn[c].device}
<1>1. k \in Daemons /\ conn[c].device \in Devices
  BY NotFree, ConnFields DEF PairInv, PairTypeOK, AddDevice
<1>2. copy \subseteq Devices /\ copy \subseteq approved
  BY <1>1 DEF PairInv, PairTypeOK, OnlyApprovedServed, NamedAreApproved, AddDevice
<1>3. file' \subseteq Devices /\ file' \subseteq approved
  BY <1>2, SaveSafe DEF AddDevice
<1>4. registry' = [registry EXCEPT ![k] = copy]
  BY DEF AddDevice
<1>5. UNCHANGED Window /\ UNCHANGED <<cli, approved>>
  BY DEF AddDevice, Window
<1>6. /\ conn' \in [Conns -> ConnStates] /\ NamedAreApproved'
      /\ \A b \in Conns : at(b, "serving")' => conn'[b].device \in approved'
  BY <1>5, CloseKeeps DEF AddDevice
<1>7. /\ registry' \in [Daemons -> SUBSET Devices]
      /\ \A j \in Daemons : registry'[j] \subseteq approved'
  <2> HIDE DEF k, copy
  <2> QED
    BY <1>1, <1>2, <1>4, <1>5 DEF PairInv, PairTypeOK, OnlyApprovedServed
<1>8. OnlyApprovedServed' /\ CliIsApproved'
  BY <1>3, <1>5, <1>6, <1>7 DEF PairInv, OnlyApprovedServed, CliIsApproved
<1> QED
  BY <1>3, <1>5, <1>6, <1>7, <1>8, WindowKept DEF PairInv, PairTypeOK, AddDevice, prefs

(* The stream protocol serves whom the registry knows.                       *)
LEMMA HandleTerminalStreamSafe ==
  ASSUME PairInv, NEW c \in Conns, handle_terminal_stream(c)
  PROVE  PairInv'
<1>1. conn[c] # Free /\ conn[c].alpn = "stream"
  BY NotFree DEF handle_terminal_stream
<1>2. conn[c].daemon \in Daemons
  BY <1>1, ConnFields DEF PairInv, PairTypeOK
<1>3. UNCHANGED Window /\ UNCHANGED <<file, registry, cli, approved>>
  BY DEF handle_terminal_stream, Window
<1>4. conn' \in [Conns -> ConnStates]
  BY <1>1, ConnFields DEF PairInv, PairTypeOK, handle_terminal_stream, to, at, close, ConnStates, Free
<1>5. NamedAreApproved' /\ \A b \in Conns : at(b, "serving")' => conn'[b].device \in approved'
  <2>1. CASE is_authorized(c) /\ to(c, "serving")
    BY <1>1, <1>2, <1>3, <2>1, ToMoves
    DEF PairInv, PairTypeOK, OnlyApprovedServed, NamedAreApproved, is_authorized, at
  <2>2. CASE close(c)
    BY <1>3, <2>2, CloseKeeps
  <2> QED
    BY <2>1, <2>2 DEF handle_terminal_stream
<1>6. OnlyApprovedServed' /\ CliIsApproved'
  BY <1>3, <1>5 DEF PairInv, OnlyApprovedServed, CliIsApproved
<1> QED
  BY <1>3, <1>4, <1>5, <1>6, WindowKept DEF PairInv, PairTypeOK, handle_terminal_stream, prefs

LEMMA DisconnectSafe ==
  ASSUME PairInv, NEW c \in Conns, Disconnect(c)
  PROVE  PairInv'
<1>1. UNCHANGED Window /\ UNCHANGED <<file, registry, cli, approved>>
  BY DEF Disconnect, Window
<1>2. /\ conn' \in [Conns -> ConnStates] /\ NamedAreApproved'
      /\ \A b \in Conns : at(b, "serving")' => conn'[b].device \in approved'
  BY <1>1, CloseKeeps DEF Disconnect
<1>3. OnlyApprovedServed' /\ CliIsApproved'
  BY <1>1, <1>2 DEF PairInv, OnlyApprovedServed, CliIsApproved
<1> QED
  BY <1>1, <1>2, <1>3, WindowKept DEF PairInv, PairTypeOK, Disconnect, prefs

(* Revoking, on either way, only ever takes devices away.                    *)
LEMMA RevokeSafe ==
  ASSUME PairInv, NEW d \in Devices, revoke_device(d)
  PROVE  PairInv'
<1>1. UNCHANGED Window /\ UNCHANGED <<conn, cli, approved>>
  BY DEF revoke_device, Window
<1>2. /\ registry' \in [Daemons -> SUBSET Devices]
      /\ \A k \in Daemons : registry'[k] \subseteq approved
      /\ file' \subseteq Devices /\ file' \subseteq approved
  BY PairAssumption DEF PairInv, PairTypeOK, OnlyApprovedServed, revoke_device, remove, Save
<1>3. OnlyApprovedServed' /\ NamedAreApproved' /\ CliIsApproved'
  BY <1>1, <1>2 DEF PairInv, OnlyApprovedServed, NamedAreApproved, CliIsApproved, at
<1> QED
  BY <1>1, <1>2, <1>3, WindowKept DEF PairInv, PairTypeOK, revoke_device

LEMMA CliSafe ==
  ASSUME PairInv, CliSave \/ \E d \in Devices : CliLoad(d)
  PROVE  PairInv'
<1>1. UNCHANGED Window /\ UNCHANGED <<registry, conn, approved>>
  BY DEF CliSave, CliLoad, Window
<1>2. /\ file' \subseteq Devices /\ file' \subseteq approved /\ CliIsApproved'
      /\ (cli = NoCli \/ cli \in [stage : {"loaded"}, device : Devices, copy : SUBSET Devices])'
  <2>1. CASE CliSave
    BY <2>1 DEF PairInv, PairTypeOK, OnlyApprovedServed, CliIsApproved, CliSave, Save, NoCli
  <2>2. ASSUME NEW d \in Devices, CliLoad(d)
        PROVE  <1>2!1 /\ <1>2!2
    BY <2>2 DEF PairInv, PairTypeOK, OnlyApprovedServed, CliIsApproved, CliLoad
  <2> QED
    BY <2>1, <2>2
<1>3. OnlyApprovedServed' /\ NamedAreApproved'
  BY <1>1, <1>2 DEF PairInv, OnlyApprovedServed, NamedAreApproved, at
<1> QED
  BY <1>1, <1>2, <1>3, WindowKept DEF PairInv, PairTypeOK, CliSave, CliLoad, prefs

LEMMA PreferencesSafe ==
  ASSUME PairInv, OpenPreferences \/ show_qr_view \/ PollDevices \/ Done
  PROVE  PairInv'
<1>1. UNCHANGED Lists /\ UNCHANGED <<running, always>>
  BY DEF OpenPreferences, show_qr_view, PollDevices, Done, Lists
<1>2. shown' \subseteq Devices /\ page' \in {"devices", "qr"} /\ polls' \in BOOLEAN
  BY PairAssumption, ZenonT(60) DEF PairInv, PairTypeOK, OpenPreferences, show_qr_view, PollDevices, Done, Listed
<1>3. /\ timers' \in [Daemons -> 0 .. MaxTimers] /\ allow_pairing' \subseteq running
      /\ OpenWindowHasTimer'
  <2>1. CASE UNCHANGED <<timers, allow_pairing>>
    BY <2>1, <1>1, WindowKept DEF PairInv, PairTypeOK, Window
  <2>2. CASE Watched \in running /\ timers[Watched] < MaxTimers /\ enable_pairing(Watched)
    BY <2>2, <1>1, EnableSafe
  <2> QED
    BY <2>1, <2>2 DEF OpenPreferences, show_qr_view, PollDevices, Done
<1> QED
  BY <1>1, <1>2, <1>3, ListsKept DEF PairInv, PairTypeOK, Lists

-----------------------------------------------------------------------------
(* The theorem                                                               *)

LEMMA InitPairInv == PairInit => PairInv
<1> SUFFICES ASSUME PairInit PROVE PairInv
  OBVIOUS
<1>1. PairTypeOK
  <2>1. Free \in ConnStates
    BY DEF ConnStates
  <2>2. conn \in [Conns -> ConnStates]
    BY <2>1 DEF PairInit
  <2>3. timers \in [Daemons -> 0 .. MaxTimers]
    BY PairAssumption DEF PairInit
  <2> QED
    BY <2>2, <2>3 DEF PairInit, PairTypeOK
<1>2. \A c \in Conns : ~ at(c, "serving") /\ ~ at(c, "naming")
  BY DEF PairInit, at, Free
<1> QED
  BY <1>1, <1>2
  DEF PairInit, PairInv, OnlyApprovedServed, OpenWindowHasTimer, NamedAreApproved, CliIsApproved

LEMMA NextPairInv == PairInv /\ [PairNext]_pairVars => PairInv'
<1> SUFFICES ASSUME PairInv, [PairNext]_pairVars PROVE PairInv'
  OBVIOUS
<1>1. CASE UNCHANGED pairVars
  BY <1>1
  DEF pairVars, prefs, PairInv, PairTypeOK, OnlyApprovedServed, OpenWindowHasTimer,
      NamedAreApproved, CliIsApproved, at
<1>2. CASE \E k \in Daemons : Start(k) \/ Stop(k) \/ TimerFires(k) \/ EnablePairing(k)
  BY <1>2, StartSafe, StopSafe, TimerFiresSafe, EnablePairingSafe
<1>3. CASE \E c \in Conns, k \in Daemons, d \in Devices, alpn \in {"pair", "stream"} :
             Accept(c, k, d, alpn)
  BY <1>3, AcceptSafe
<1>4. CASE \E c \in Conns : \/ handle_connection(c) \/ update_last_seen(c) \/ AddDevice(c)
                            \/ handle_terminal_stream(c) \/ Disconnect(c)
  BY <1>4, HandleConnectionSafe, UpdateLastSeenSafe, AddDeviceSafe, HandleTerminalStreamSafe,
     DisconnectSafe
<1>5. CASE \E d \in Devices : revoke_device(d) \/ CliLoad(d)
  BY <1>5, RevokeSafe, CliSafe
<1>6. CASE CliSave \/ OpenPreferences \/ show_qr_view \/ PollDevices \/ Done
  BY <1>6, CliSafe, PreferencesSafe
<1> QED
  BY <1>1, <1>2, <1>3, <1>4, <1>5, <1>6 DEF PairNext

(* Whatever daemons save over each other's registry, fail to, stop and start  *)
(* again, and whatever the windows, phones and the command line do meanwhile: *)
(* a phone is served, or in a registry, only if a daemon let it in while its *)
(* flag was set, and a flag that was not set for good has a timer that will  *)
(* clear it.                                                                 *)
THEOREM PairingIsSafe == PairSpec => []PairingSafe
<1>1. PairInv => PairingSafe
  BY DEF PairInv, PairingSafe
<1> QED
  BY <1>1, InitPairInv, NextPairInv, PTL DEF PairSpec

(* The types of the registry, the flags, the timers and the connections.      *)
THEOREM PairTypesCorrect == PairSpec => []PairTypeOK
<1>1. PairInv => PairTypeOK
  BY DEF PairInv
<1> QED
  BY <1>1, InitPairInv, NextPairInv, PTL DEF PairSpec

-----------------------------------------------------------------------------
(* FocusEcho                                                                 *)

FocusEvents == [pane : Leaves \cup {"none"}, by : {"window", "other"}]

(* Events on their way end with what is saved.                               *)
EndsAt(queue, p) == queue # <<>> => queue[Len(queue)].pane = p

FocusTypes ==
  /\ changes \in Seq(FocusEvents) /\ (~ subscribed => changes = <<>>)
  /\ deferred \subseteq Leaves

FocusInv == FocusTypes /\ EndsAt(changes, saved) /\ FocusSettles

LEMMA LastOfAppend ==
  ASSUME NEW S, NEW s \in Seq(S), NEW e \in S
  PROVE  Append(s, e) \in Seq(S) /\ Append(s, e) # <<>> /\ Append(s, e)[Len(Append(s, e))] = e
BY AppendProperties

LEMMA LastOfTail ==
  ASSUME NEW S, NEW s \in Seq(S), s # <<>>
  PROVE  /\ Tail(s) \in Seq(S) /\ Head(s) \in S
         /\ Tail(s) # <<>> => Tail(s)[Len(Tail(s))] = s[Len(s)]
         /\ Tail(s) = <<>> => Head(s) = s[Len(s)]
<1> DEFINE t == Tail(s)
           n == Len(s)
<1>1. /\ n \in Nat /\ n # 0 /\ t \in Seq(S) /\ Head(s) \in S /\ Head(s) = s[1]
      /\ Len(t) \in Nat /\ Len(t) = n - 1 /\ \A i \in 1 .. Len(t) : t[i] = s[i + 1]
  BY HeadTailProperties, EmptySeq, LenProperties
<1>2. \A x : x = <<>> => Len(x) = 0
  BY EmptySeq
<1>3. t # <<>> => Len(t) # 0
  BY <1>1, EmptySeq
<1> HIDE DEF t, n
<1>4. t = <<>> => Head(s) = s[n]
  BY <1>1, <1>2
<1>5. t # <<>> => t[Len(t)] = s[n]
  BY <1>1, <1>3
<1> QED
  BY <1>1, <1>4, <1>5, Zenon DEF t, n

(* An RPC that the daemon serves or refuses, with `queue` still to come.     *)
LEMMA SetKeeps ==
  ASSUME FocusTypes, NEW queue \in Seq(FocusEvents), EndsAt(queue, saved),
         ~ subscribed => queue = <<>>,
         NEW p \in Leaves \cup {"none"}, NEW by \in {"window", "other"},
         set_active_pane(p, queue, by), subscribed' = subscribed
  PROVE  /\ changes' \in Seq(FocusEvents) /\ (~ subscribed' => changes' = <<>>)
         /\ EndsAt(changes', saved')
         /\ saved' = p
         /\ (p # saved /\ subscribed) => changes' # <<>> /\ changes'[Len(changes')].by = by
<1> DEFINE e == [pane |-> p, by |-> by]
<1>1. e \in FocusEvents /\ e.pane = p /\ e.by = by
  BY DEF FocusEvents
<1>2. CASE p = saved \/ ~ subscribed
  BY <1>2 DEF set_active_pane, EndsAt
<1>3. CASE p # saved /\ subscribed
  <2>1. changes' = Append(queue, e) /\ saved' = p
    BY <1>3 DEF set_active_pane
  <2> HIDE DEF e
  <2> QED
    BY <1>1, <1>3, <2>1, LastOfAppend DEF EndsAt
<1> QED
  BY <1>2, <1>3

(* A pane that gets the focus, with `queue` still to come.  If it had it     *)
(* already, the window and the daemon agreed or will.                        *)
LEMMA GrabKeeps ==
  ASSUME FocusInv, NEW queue \in Seq(FocusEvents), EndsAt(queue, saved),
         ~ subscribed => queue = <<>>,
         NEW p \in Leaves, NEW borrowed, grab_focus(p, queue, borrowed),
         subscribed' = subscribed, deferred' \subseteq deferred,
         (p = focused /\ ~ deaf /\ (queue = <<>> \/ queue[Len(queue)].by = "window"))
           => saved \in {focused, "none"}
  PROVE  FocusInv'
<1>1. CASE p = focused
  BY <1>1 DEF grab_focus, FocusInv, FocusTypes, FocusSettles, EndsAt
<1>2. ASSUME p # focused, connect_enter(p, queue, borrowed) PROVE FocusInv'
  <2>1. CASE set_active_pane(p, queue, "window") /\ deaf' = FALSE
    <3>1. /\ changes' \in Seq(FocusEvents) /\ (~ subscribed' => changes' = <<>>)
          /\ EndsAt(changes', saved') /\ saved' = p
      BY <2>1, SetKeeps DEF FocusInv
    <3> QED
      BY <1>2, <3>1 DEF connect_enter, FocusInv, FocusTypes, FocusSettles
  <2>2. CASE changes' = queue /\ deaf' = TRUE /\ UNCHANGED saved
    BY <2>2 DEF FocusInv, FocusTypes, FocusSettles, EndsAt
  <2> QED
    BY <1>2, <2>1, <2>2 DEF connect_enter
<1> QED
  BY <1>1, <1>2 DEF grab_focus

LEMMA ActivePaneKeeps == ASSUME FocusInv, ActivePaneChanged PROVE FocusInv'
<1> DEFINE e == Head(changes)
           rest == Tail(changes)
<1>1. /\ rest \in Seq(FocusEvents) /\ e \in FocusEvents /\ changes # <<>>
      /\ rest # <<>> => rest[Len(rest)] = changes[Len(changes)]
      /\ rest = <<>> => e = changes[Len(changes)]
      /\ subscribed /\ subscribed' = subscribed /\ deferred' = deferred
  BY LastOfTail DEF ActivePaneChanged, FocusInv, FocusTypes
<1>2. Echo(e, rest) \/ Apply(e, rest)
  BY DEF ActivePaneChanged
<1> HIDE DEF e, rest
<1>3. EndsAt(rest, saved) /\ (rest = <<>> => e.pane = saved)
  BY <1>1 DEF FocusInv, EndsAt
<1>4. e.pane \in Leaves \cup {"none"} /\ e.by \in {"window", "other"}
  BY <1>1 DEF FocusEvents
<1>5. CASE Echo(e, rest)
  <2>1. FocusTypes' /\ EndsAt(changes', saved')
    BY <1>1, <1>3, <1>5 DEF Echo, FocusInv, FocusTypes, EndsAt
  <2>2. FocusSettles'
    <3> SUFFICES ASSUME ~ deaf', rest = <<>> \/ rest[Len(rest)].by = "window"
                 PROVE  saved \in {focused, "none"}
      BY <1>5 DEF Echo, FocusSettles
    <3>1. ~ deaf /\ changes[Len(changes)].by = "window"
      BY <1>1, <1>4, <1>5 DEF Echo
    <3> QED
      BY <3>1 DEF FocusInv, FocusSettles
  <2> QED
    BY <2>1, <2>2 DEF FocusInv
<1>6. CASE Apply(e, rest) /\ e.pane = "none"
  <2>1. UNCHANGED <<saved, focused, deaf>> /\ changes' = rest
    BY <1>6 DEF Apply
  <2> QED
    BY <1>1, <1>3, <1>6, <2>1 DEF FocusInv, FocusTypes, FocusSettles, EndsAt
<1>7. CASE Apply(e, rest) /\ e.pane # "none"
  <2>1. grab_focus(e.pane, rest, TRUE) /\ e.pane \in Leaves
    BY <1>4, <1>7 DEF Apply
  <2>2. (e.pane = focused /\ ~ deaf /\ (rest = <<>> \/ rest[Len(rest)].by = "window"))
           => saved \in {focused, "none"}
    BY <1>1, <1>3 DEF FocusInv, FocusSettles
  <2> QED
    BY <1>1, <1>3, <2>1, <2>2, GrabKeeps
<1> QED
  BY <1>2, <1>5, <1>6, <1>7

(* Whoever moves the focus, however echoes and other clients' changes are    *)
(* interleaved and whichever of the window's RPCs fail: with nothing on its  *)
(* way, or only the window's own change, the pane that has the focus is the  *)
(* one the daemon has saved, unless the newest change was lost.              *)
THEOREM FocusAlwaysSettles == FocusSpec => []FocusSettles
<1>1. FocusInit => FocusInv
  BY FocusAssumption DEF FocusInit, FocusInv, FocusTypes, FocusSettles, EndsAt
<1>2. ASSUME FocusInv, [FocusNext]_focusVars PROVE FocusInv'
  <2>1. ASSUME NEW p \in Leaves, focus_when_mapped(p) PROVE FocusInv'
    BY <1>2, <2>1, GrabKeeps DEF focus_when_mapped, FocusInv, FocusTypes, FocusSettles
  <2>2. ASSUME NEW p \in Leaves, UserFocuses(p) PROVE FocusInv'
    BY <1>2, <2>2, GrabKeeps DEF UserFocuses, FocusInv, FocusTypes, FocusSettles
  <2>3. ASSUME NEW p \in Leaves \cup {"none"}, OtherFocuses(p) PROVE FocusInv'
    <3>1. /\ set_active_pane(p, changes, "other") /\ p # saved
          /\ deaf' = ~ subscribed /\ UNCHANGED <<focused, subscribed, deferred>>
      BY <2>3 DEF OtherFocuses
    <3>2. /\ changes' \in Seq(FocusEvents) /\ (~ subscribed' => changes' = <<>>)
          /\ EndsAt(changes', saved') /\ saved' = p
          /\ subscribed => changes' # <<>> /\ changes'[Len(changes')].by = "other"
      BY <1>2, <3>1, SetKeeps DEF FocusInv, FocusTypes
    <3> QED
      BY <1>2, <3>1, <3>2 DEF FocusInv, FocusTypes, FocusSettles
  <2>4. CASE subscribe_layout
    BY <1>2, <2>4 DEF subscribe_layout, FocusInv, FocusTypes, FocusSettles, EndsAt
  <2>5. CASE UNCHANGED focusVars
    BY <1>2, <2>5 DEF focusVars, FocusInv, FocusTypes, FocusSettles, EndsAt
  <2> QED
    BY <1>2, <2>1, <2>2, <2>3, <2>4, <2>5, ActivePaneKeeps DEF FocusNext
<1>3. FocusInv => FocusSettles
  BY DEF FocusInv
<1> QED
  BY <1>1, <1>2, <1>3, PTL DEF FocusSpec

-----------------------------------------------------------------------------
(* TerminalView: a copy                                                      *)

ViewIsSound ==
  /\ text \in Seq(Nat) /\ len \in Heights /\ len <= Len(text)
  /\ offset \in 0 .. Bottom(text, len) /\ viewport_offset \in Nat
SelectionIsRows ==
  /\ selection # NoRows => selection[1] \in Nat /\ selection[2] \in Nat
  /\ drag_origin # NoRows => drag_origin[1] \in Nat

(* copy_selection's locals; what it has taken is the text from the first     *)
(* selected row to the cursor, which goes back only to the end of the text.  *)
Copies == [first : Nat, cursor : Nat, last : Nat, orig_offset : Nat, lines : Seq(Nat)]

CopyInv ==
  ~ Idle =>
    /\ copying \in Copies /\ copying.orig_offset <= Bottom(text, len)
    /\ copying.first <= copying.cursor \/ copying.cursor = Len(text)
    /\ copying.cursor <= copying.last + 1
    /\ copying.lines = SubSeq(text, copying.first + 1, Lower(copying.cursor, Len(text)))

SelectInv == ViewIsSound /\ SelectionIsRows /\ CopyInv

LEMMA HeightIsNat == ASSUME ViewIsSound PROVE len \in Nat /\ len > 0 /\ Len(text) \in Nat
BY ViewAssumption DEF ViewIsSound

(* Two pieces of a sequence that follow each other make one.                 *)
Joined(s, a, b, c) == SubSeq(s, a + 1, b) \o SubSeq(s, b + 1, c) = SubSeq(s, a + 1, c)

LEMMA PiecesJoin ==
  ASSUME NEW S, NEW s \in Seq(S), NEW a \in Nat, NEW b \in Nat, NEW c \in Nat,
         a <= b, b <= c, c <= Len(s)
  PROVE  Joined(s, a, b, c)
<1> DEFINE x == SubSeq(s, a + 1, b)
           y == SubSeq(s, b + 1, c)
           z == SubSeq(s, a + 1, c)
<1>1. /\ x \in Seq(S) /\ Len(x) = b - a /\ \A k \in 1 .. b - a : x[k] = s[a + k]
  <2>1. b <= Len(s)
    OBVIOUS
  <2> QED
    BY <2>1
<1>2. /\ y \in Seq(S) /\ Len(y) = c - b /\ \A k \in 1 .. c - b : y[k] = s[b + k]
  OBVIOUS
<1>3. /\ z \in Seq(S) /\ Len(z) = c - a /\ \A k \in 1 .. c - a : z[k] = s[a + k]
  OBVIOUS
<1> HIDE DEF x, y, z
<1>4. x \o y \in Seq(S) /\ Len(x \o y) = c - a
  <2>1. x \o y \in Seq(S) /\ Len(x \o y) = Len(x) + Len(y)
    BY <1>1, <1>2, ConcatProperties
  <2> QED
    BY <1>1, <1>2, <2>1
<1>5. \A k \in 1 .. c - a : (x \o y)[k] = z[k]
  <2> SUFFICES ASSUME NEW k \in 1 .. c - a PROVE (x \o y)[k] = z[k]
    OBVIOUS
  <2>1. z[k] = s[a + k]
    BY <1>3
  <2>2. k \in 1 .. Len(x) + Len(y) /\ Len(x) = b - a
    BY <1>1, <1>2
  <2>3. (x \o y)[k] = IF k <= Len(x) THEN x[k] ELSE y[k - Len(x)]
    BY <2>2, <1>1, <1>2, ConcatProperties
  <2>4. CASE k <= b - a
    <3>1. (x \o y)[k] = x[k]
      BY <2>2, <2>3, <2>4
    <3> QED
      BY <3>1, <2>1, <2>4, <1>1
  <2>5. CASE k > b - a
    <3>1. k - (b - a) \in 1 .. c - b /\ b + (k - (b - a)) = a + k
      BY <2>5
    <3>2. (x \o y)[k] = y[k - (b - a)]
      BY <2>2, <2>3, <2>5
    <3>3. y[k - (b - a)] = s[b + (k - (b - a))]
      BY <3>1, <1>2
    <3> QED
      BY <3>1, <3>2, <3>3, <2>1
  <2>6. k <= b - a \/ k > b - a
    OBVIOUS
  <2> QED
    BY <2>4, <2>5, <2>6
<1>6. x \o y = z
  <2>1. Len(x \o y) = Len(z) /\ \A k \in 1 .. Len(z) : (x \o y)[k] = z[k]
    BY <1>3, <1>4, <1>5
  <2> QED
    BY <2>1, <1>3, <1>4, SeqEqual
<1> QED
  BY <1>6 DEF x, y, z, Joined

(* An action that leaves the text alone and only scrolls.                    *)
LEMMA ScrolledInRange ==
  ASSUME ViewIsSound, NEW from \in Int, NEW delta \in Int
  PROVE  /\ Scrolled(from, delta) \in 0 .. Bottom(text, len)
         /\ from \in 0 .. Bottom(text, len) => Scrolled(from, 0) = from
BY HeightIsNat DEF ViewIsSound, Scrolled, Bottom, Higher, Lower

LEMMA IdleKeepsCopy ==
  ASSUME Idle, UNCHANGED copying PROVE CopyInv'
BY DEF Idle, CopyInv

LEMMA FedInRange ==
  ASSUME ViewIsSound, NEW rows \in Seq(Nat), NEW gone \in Nat, len <= Len(rows), Fed(rows, gone)
  PROVE  text' \in Seq(Nat) /\ len <= Len(text') /\ offset' \in 0 .. Bottom(text', len)
BY HeightIsNat DEF ViewIsSound, Fed, Bottom, Higher, Lower

LEMMA OutputKeeps == ASSUME SelectInv, Output PROVE SelectInv'
<1> USE DEF SelectInv
<1>1. len \in Nat /\ len > 0 /\ Len(text) \in Nat /\ len <= Len(text) /\ text \in Seq(Nat)
  BY HeightIsNat DEF ViewIsSound
<1>2. text' \in Seq(Nat) /\ len <= Len(text') /\ offset' \in 0 .. Bottom(text', len)
  <2>1. CASE \E row \in 0 .. 1 :
               LET longer == Append(text, row)
               IN IF Len(longer) > MaxRows THEN Fed(Tail(longer), 1) ELSE Fed(longer, 0)
    <3>1. PICK row \in 0 .. 1 :
            IF Len(Append(text, row)) > MaxRows THEN Fed(Tail(Append(text, row)), 1)
            ELSE Fed(Append(text, row), 0)
      BY <2>1
    <3>2. Append(text, row) \in Seq(Nat) /\ Len(Append(text, row)) = Len(text) + 1
      BY <1>1
    <3>3. Tail(Append(text, row)) \in Seq(Nat) /\ Len(Tail(Append(text, row))) = Len(text)
      BY <1>1, <3>2
    <3>4. CASE Len(Append(text, row)) > MaxRows
      BY <1>1, <3>1, <3>3, <3>4, FedInRange
    <3>5. CASE ~ (Len(Append(text, row)) > MaxRows)
      <4>1. Fed(Append(text, row), 0)
        BY <3>1, <3>5
      <4>2. len <= Len(Append(text, row))
        BY <1>1, <3>2
      <4> QED
        BY <3>2, <4>1, <4>2, FedInRange
    <3> QED
      BY <3>4, <3>5
  <2>2. CASE \E row \in 0 .. 1 : row # Last(text) /\ Fed([text EXCEPT ![Len(text)] = row], 0)
    <3>1. PICK row \in 0 .. 1 : Fed([text EXCEPT ![Len(text)] = row], 0)
      BY <2>2
    <3>2. /\ [text EXCEPT ![Len(text)] = row] \in Seq(Nat)
          /\ Len([text EXCEPT ![Len(text)] = row]) = Len(text)
      BY <1>1
    <3> QED
      BY <1>1, <3>1, <3>2, FedInRange
  <2>3. CASE Len(text) > len /\ Fed(SubSeq(text, Len(text) - len + 1, Len(text)), Len(text) - len)
    <3> DEFINE kept == SubSeq(text, Len(text) - len + 1, Len(text))
    <3>1. kept \in Seq(Nat) /\ Len(kept) = len
      BY <1>1, <2>3
    <3>2. Fed(kept, Len(text) - len) /\ Len(text) - len \in Nat
      BY <1>1, <2>3
    <3> HIDE DEF kept
    <3> QED
      BY <1>1, <3>1, <3>2, FedInRange
  <2> QED
    BY <2>1, <2>2, <2>3 DEF Output
<1>3. viewport_offset' \in Nat
  <2>1. offset \in Nat /\ offset' \in Nat
    BY <1>1, <1>2 DEF ViewIsSound, Bottom
  <2> QED
    BY <2>1 DEF Output
<1>4. ViewIsSound'
  BY <1>1, <1>2, <1>3 DEF Output, ViewIsSound, Bottom
<1>5. SelectionIsRows'
  BY DEF Output, SelectionIsRows, select
<1> QED
  BY <1>4, <1>5, IdleKeepsCopy DEF Output


LEMMA PaddedIsHigh ==
  ASSUME NEW rows \in Seq(Nat), NEW height \in Nat
  PROVE  Padded(rows, height) \in Seq(Nat) /\ height <= Len(Padded(rows, height))
<1> DEFINE n == Higher(0, height - Len(rows))
           blank == [k \in 1 .. n |-> 0]
<1>1. n \in Nat /\ Len(rows) + n >= height /\ Len(rows) \in Nat
  BY DEF Higher
<1>2. blank \in [1 .. n -> Nat]
  OBVIOUS
<1>3. blank \in Seq(Nat) /\ Len(blank) = n
  <2> HIDE DEF n
  <2> QED
    BY <1>1, <1>2, FunctionIsSeq
<1>4. Padded(rows, height) = rows \o blank
  BY DEF Padded
<1> HIDE DEF blank, n
<1> QED
  BY <1>1, <1>3, <1>4

LEMMA RegridInRange ==
  ASSUME ViewIsSound, NEW height \in Heights, Regrid(height)
  PROVE  /\ text' \in Seq(Nat) /\ len' = height /\ height <= Len(text')
         /\ offset' \in 0 .. Bottom(text', len')
<1>1. /\ len \in Nat /\ len > 0 /\ Len(text) \in Nat /\ len <= Len(text) /\ text \in Seq(Nat)
      /\ height \in Nat /\ height > 0 /\ offset \in Nat
  BY HeightIsNat, ViewAssumption DEF ViewIsSound, Bottom
<1>2. PICK rows \in {text} \cup {RemoveAt(text, k) : k \in DOMAIN text} :
         /\ text' = Padded(rows, height)
         /\ offset' = IF AtBottom THEN Bottom(text', height)
                      ELSE Lower(offset, Bottom(text', height))
  BY DEF Regrid
<1>3. rows \in Seq(Nat)
  BY <1>1, <1>2, RemoveAtProperties
<1>4. text' \in Seq(Nat) /\ height <= Len(text')
  BY <1>1, <1>2, <1>3, PaddedIsHigh
<1>5. len' = height
  BY DEF Regrid
<1>6. offset' = Bottom(text', height) \/ offset' = Lower(offset, Bottom(text', height))
  BY <1>2
<1> QED
  BY <1>1, <1>4, <1>5, <1>6 DEF Bottom, Lower

LEMMA ScrollKeeps == ASSUME SelectInv, ScrollNext PROVE SelectInv'
<1> USE DEF SelectInv
<1>1. /\ len \in Nat /\ len > 0 /\ Len(text) \in Nat /\ len <= Len(text) /\ text \in Seq(Nat)
      /\ offset \in Nat /\ viewport_offset \in Nat
  BY HeightIsNat DEF ViewIsSound, Bottom
<1>2. CASE SyncScrollbar
  BY <1>1, <1>2, IdleKeepsCopy DEF SyncScrollbar, ViewIsSound, SelectionIsRows, select, Bottom
<1>3. CASE KeyTyped
  <2>1. ViewIsSound'
    BY <1>1, <1>3 DEF KeyTyped, ViewIsSound, Bottom
  <2>2. SelectionIsRows'
    BY <1>3 DEF KeyTyped, SelectionIsRows, Deselected, select
  <2> QED
    BY <1>3, <2>1, <2>2, IdleKeepsCopy DEF KeyTyped
<1>4. ASSUME NEW delta \in {-1, 1}, Wheel(delta) PROVE SelectInv'
  <2>1. offset' \in 0 .. Bottom(text, len)
    BY <1>1, <1>4, ScrolledInRange DEF Wheel
  <2> QED
    BY <1>1, <1>4, <2>1, IdleKeepsCopy DEF Wheel, ViewIsSound, SelectionIsRows, select, Bottom
<1>5. ASSUME NEW row, ScrollbarMoved(row) PROVE SelectInv'
  BY <1>1, <1>5, IdleKeepsCopy DEF ScrollbarMoved, ViewIsSound, SelectionIsRows, select, Bottom
<1>6. ASSUME NEW height \in Heights, Resize(height) \/ apply_font_zoom(height) PROVE SelectInv'
  <2>1. Regrid(height)
    BY <1>6 DEF Resize, apply_font_zoom
  <2>2. /\ text' \in Seq(Nat) /\ len' = height /\ height <= Len(text')
        /\ offset' \in 0 .. Bottom(text', len')
    BY <2>1, RegridInRange
  <2>3. viewport_offset' = offset' \/ viewport_offset' = viewport_offset
    BY <1>6 DEF Resize, apply_font_zoom
  <2>4. height \in Nat /\ Len(text') \in Nat
    BY <2>2, ViewAssumption
  <2>5. ViewIsSound'
    BY <1>1, <2>2, <2>3, <2>4 DEF ViewIsSound, Bottom
  <2> QED
    BY <2>1, <2>5, IdleKeepsCopy DEF Regrid, SelectionIsRows, select
<1> QED
  BY <1>2, <1>3, <1>4, <1>5, <1>6, OutputKeeps DEF ScrollNext

LEMMA SelectionKeeps ==
  ASSUME SelectInv, SelectNext, ~ CopyStart, ~ copy_selection PROVE SelectInv'
<1> USE DEF SelectInv
<1>1. /\ len \in Nat /\ len > 0 /\ Len(text) \in Nat /\ len <= Len(text) /\ text \in Seq(Nat)
      /\ offset \in Nat /\ viewport_offset \in Nat
  BY HeightIsNat DEF ViewIsSound, Bottom
<1>2. ASSUME NEW row \in ScreenRows PROVE row \in Nat /\ Absolute(row) \in Nat
  BY <1>1 DEF ScreenRows, Absolute
<1>3. ASSUME NEW row \in ScreenRows, NEW shift \in BOOLEAN, Press(row, shift) PROVE SelectInv'
  <2>1. SelectionIsRows'
    BY <1>2, <1>3 DEF Press, SelectionIsRows
  <2> QED
    BY <1>3, <2>1, IdleKeepsCopy DEF Press, View, ViewIsSound, Bottom
<1>4. ASSUME NEW row \in ScreenRows, NEW clicks, DoubleClick(row, clicks) PROVE SelectInv'
  <2>1. SelectionIsRows'
    BY <1>2, <1>4 DEF DoubleClick, SelectionIsRows
  <2> QED
    BY <1>4, <2>1, IdleKeepsCopy DEF DoubleClick, View, ViewIsSound, Bottom
<1>5. ASSUME NEW row \in ScreenRows, NEW delta \in {-3, 0, 3}, Motion(row, delta)
      PROVE SelectInv'
  <2>1. offset' \in 0 .. Bottom(text, len)
    BY <1>1, <1>5, ScrolledInRange DEF Motion
  <2>2. viewport_offset' \in Nat /\ viewport_offset' + row \in Nat
    BY <1>1, <1>2, <1>5, <2>1, SMTT(30) DEF Motion, Bottom
  <2>3. SelectionIsRows'
    BY <1>5, <2>2 DEF Motion, SelectionIsRows
  <2> QED
    BY <1>5, <2>1, <2>2, <2>3, IdleKeepsCopy DEF Motion, ViewIsSound, Bottom
<1>6. CASE Release
  BY <1>6, IdleKeepsCopy DEF Release, View, ViewIsSound, Bottom, SelectionIsRows
<1>7. CASE select_all_visible
  <2>1. Absolute(len - 1) \in Nat
    BY <1>1 DEF Absolute
  <2>2. SelectionIsRows'
    BY <1>1, <1>7, <2>1 DEF select_all_visible, SelectionIsRows
  <2> QED
    BY <1>7, <2>2, IdleKeepsCopy DEF select_all_visible, View, ViewIsSound, Bottom
<1>8. CASE Escape
  BY <1>8, IdleKeepsCopy DEF Escape, Deselected, View, ViewIsSound, Bottom, SelectionIsRows
<1> QED
  BY <1>3, <1>4, <1>5, <1>6, <1>7, <1>8 DEF SelectNext


LEMMA StartKeeps == ASSUME SelectInv, CopyStart PROVE SelectInv'
<1> USE DEF SelectInv
<1> DEFINE first == Lower(selection[1], selection[2])
<1>1. /\ first \in Nat /\ Higher(selection[1], selection[2]) \in Nat
      /\ first <= Higher(selection[1], selection[2])
  BY DEF CopyStart, SelectionIsRows, Lower, Higher
<1>2. len \in Nat /\ text \in Seq(Nat) /\ Len(text) \in Nat /\ offset \in 0 .. Bottom(text, len)
  BY HeightIsNat DEF ViewIsSound
<1>3. copying' = [first |-> first, cursor |-> first,
                  last |-> Higher(selection[1], selection[2]),
                  orig_offset |-> offset, lines |-> <<>>]
  BY DEF CopyStart
<1>4. UNCHANGED <<text, len, offset, viewport_offset, select>>
  BY DEF CopyStart
<1>5. SubSeq(text, first + 1, Lower(first, Len(text))) = <<>>
  BY <1>1, <1>2 DEF Lower
<1> HIDE DEF first
<1>6. offset \in Nat
  BY <1>2 DEF Bottom
<1>7. copying' \in Copies
  BY <1>1, <1>3, <1>6 DEF Copies
<1>8. /\ copying'.first = first /\ copying'.cursor = first
      /\ copying'.last = Higher(selection[1], selection[2])
      /\ copying'.orig_offset = offset /\ copying'.lines = <<>>
  BY <1>3
<1>9. copying'.lines = SubSeq(text', copying'.first + 1, Lower(copying'.cursor, Len(text')))
  BY <1>4, <1>5, <1>8
<1>10. copying'.orig_offset <= Bottom(text', len')
  BY <1>2, <1>4, <1>8 DEF Bottom
<1>11. copying'.first <= copying'.cursor /\ copying'.cursor <= copying'.last + 1
  BY <1>1, <1>8
<1>12. CopyInv'
  BY <1>7, <1>9, <1>10, <1>11 DEF CopyInv
<1> QED
  BY <1>4, <1>12 DEF ViewIsSound, SelectionIsRows, select, Bottom

(* One page: if the cursor is in the text the page takes up where the last    *)
(* one ended, and if it is past the end there is nothing left to take.       *)
LEMMA PageKeeps == ASSUME SelectInv, CopyPage PROVE SelectInv'
<1> USE DEF SelectInv
<1>1. PICK first, cursor, last, orig, lines :
        /\ first = copying.first /\ cursor = copying.cursor /\ last = copying.last
        /\ orig = copying.orig_offset /\ lines = copying.lines
  OBVIOUS
<1>2. /\ first \in Nat /\ cursor \in Nat /\ last \in Nat /\ cursor <= last
      /\ first <= cursor \/ cursor = Len(text)
      /\ lines = SubSeq(text, first + 1, Lower(cursor, Len(text))) /\ lines \in Seq(Nat)
      /\ orig \in Nat /\ orig <= Bottom(text, len)
  BY <1>1 DEF CopyInv, Copies, CopyPage
<1>3. len \in Nat /\ len > 0 /\ Len(text) \in Nat /\ len <= Len(text) /\ text \in Seq(Nat)
  BY HeightIsNat DEF ViewIsSound
<1>4. PICK top : top = offset'
  OBVIOUS
<1>5. /\ top \in Nat /\ top <= Len(text) - len
      /\ top = cursor \/ (top = Len(text) - len /\ cursor > Len(text) - len)
  <2>1. top = Higher(0, Lower(Len(text) - len, cursor + 0))
    BY <1>1, <1>4 DEF CopyPage, Scrolled, Bottom
  <2> QED
    BY <1>2, <1>3, <2>1 DEF Higher, Lower
<1>6. PICK end : end = Lower(last, top + len - 1)
  OBVIOUS
<1>7. /\ end \in Nat /\ end <= last /\ end + 1 <= Len(text)
      /\ cursor < Len(text) => cursor <= end
      /\ cursor >= Len(text) => end + 1 = Len(text)
  <2>1. cursor \in Nat /\ last \in Nat /\ cursor <= last
    BY <1>2
  <2>2. len \in Nat /\ len > 0 /\ Len(text) \in Nat /\ len <= Len(text)
    BY <1>3
  <2>3. (end = last /\ end < top + len - 1) \/ (end = top + len - 1 /\ end <= last)
    BY <1>5, <1>6, <2>1, <2>2 DEF Lower
  <2>4. end \in Nat
    BY <1>5, <2>1, <2>2, <2>3
  <2>5. end <= last /\ end + 1 <= Len(text)
    BY <1>5, <2>1, <2>2, <2>3, <2>4
  <2>6. cursor < Len(text) => cursor <= end
    BY <1>5, <2>1, <2>2, <2>3, <2>4
  <2>7. cursor >= Len(text) => end + 1 = Len(text)
    BY <1>5, <2>1, <2>2, <2>3, <2>4
  <2> QED
    BY <2>4, <2>5, <2>6, <2>7
<1>8. lines \o SubSeq(text, cursor + 1, end + 1) = SubSeq(text, first + 1, end + 1)
  <2>1. CASE cursor < Len(text)
    <3>1. lines = SubSeq(text, first + 1, cursor) /\ first <= cursor
      BY <1>2, <1>3, <2>1 DEF Lower
    <3>2. SubSeq(text, first + 1, cursor) \o SubSeq(text, cursor + 1, end + 1)
            = SubSeq(text, first + 1, end + 1)
      <4>1. end + 1 \in Nat /\ cursor <= end + 1
        BY <1>2, <1>7, <2>1
      <4>2. Joined(text, first, cursor, end + 1)
        BY <1>2, <1>3, <1>7, <3>1, <4>1, PiecesJoin
      <4> QED
        BY <4>2 DEF Joined
    <3> QED
      BY <3>1, <3>2
  <2>2. CASE cursor >= Len(text)
    <3>1. SubSeq(text, cursor + 1, end + 1) = <<>>
      BY <1>2, <1>3, <1>7, <2>2
    <3>2. Lower(cursor, Len(text)) = end + 1
      BY <1>2, <1>3, <1>7, <2>2 DEF Lower
    <3>3. lines = SubSeq(text, first + 1, end + 1) /\ lines \in Seq(Nat)
      BY <1>2, <3>2
    <3>4. lines \o <<>> = lines
      BY <3>3
    <3> QED
      BY <3>1, <3>3, <3>4
  <2>3. cursor < Len(text) \/ cursor >= Len(text)
    BY <1>2, <1>3
  <2> QED
    BY <2>1, <2>2, <2>3
<1>9. SubSeq(text, first + 1, end + 1) \in Seq(Nat)
  BY <1>2, <1>3, <1>7
<1>10. copying' = [copying EXCEPT !.lines = SubSeq(text, first + 1, end + 1), !.cursor = end + 1]
  BY <1>1, <1>4, <1>6, <1>8 DEF CopyPage, NextCursor
<1>11. copying \in Copies
  BY DEF CopyInv, CopyPage
<1>12. /\ copying'.first = first /\ copying'.last = last /\ copying'.orig_offset = orig
       /\ copying'.cursor = end + 1 /\ copying'.lines = SubSeq(text, first + 1, end + 1)
       /\ copying' \in Copies
  <2>1. end + 1 \in Nat
    BY <1>7
  <2> QED
    BY <1>1, <1>9, <1>10, <1>11, <2>1 DEF Copies
<1>13. UNCHANGED <<text, len, viewport_offset, select>>
  BY DEF CopyPage
<1>14. CopyInv'
  <2>1. copying'.orig_offset <= Bottom(text', len')
    BY <1>2, <1>12, <1>13 DEF Bottom
  <2>2. first <= end + 1 \/ end + 1 = Len(text)
    BY <1>2, <1>3, <1>7
  <2>3. end + 1 <= last + 1
    BY <1>2, <1>7
  <2>4. Lower(end + 1, Len(text)) = end + 1
    BY <1>3, <1>7 DEF Lower
  <2> QED
    BY <1>12, <1>13, <2>1, <2>2, <2>3, <2>4 DEF CopyInv
<1>15. ViewIsSound' /\ SelectionIsRows'
  BY <1>3, <1>4, <1>5, <1>13 DEF ViewIsSound, SelectionIsRows, select, Bottom
<1> QED
  BY <1>14, <1>15

(* What the loop has taken when it ends, and the view it leaves.             *)
LEMMA DoneIsExact ==
  ASSUME SelectInv, CopyDone
  PROVE  /\ copying.lines = SubSeq(text, copying.first + 1, Lower(copying.last + 1, Len(text)))
         /\ offset' = copying.orig_offset
         /\ SelectInv'
<1> USE DEF SelectInv
<1>1. len \in Nat /\ len > 0 /\ Len(text) \in Nat /\ len <= Len(text)
  BY HeightIsNat DEF ViewIsSound
<1>2. /\ copying.cursor \in Nat /\ copying.last \in Nat /\ copying.orig_offset \in Nat
      /\ copying.orig_offset <= Bottom(text, len)
      /\ copying.cursor > copying.last /\ copying.cursor <= copying.last + 1
      /\ copying.lines = SubSeq(text, copying.first + 1, Lower(copying.cursor, Len(text)))
  BY DEF CopyDone, CopyInv, Copies
<1>3. copying.cursor = copying.last + 1
  BY <1>2
<1>4. copying.orig_offset \in 0 .. Bottom(text, len)
  BY <1>1, <1>2 DEF Bottom
<1>5. offset' = copying.orig_offset
  <2>1. ViewIsSound /\ offset' = Scrolled(copying.orig_offset, 0)
    BY DEF CopyDone
  <2>2. Scrolled(copying.orig_offset, 0) = copying.orig_offset
    <3> HIDE DEF SelectInv
    <3>1. copying.orig_offset \in Int
      BY <1>2
    <3> QED
      BY <1>4, <2>1, <3>1, ScrolledInRange
  <2> QED
    BY <2>1, <2>2
<1>6. CopyInv'
  BY DEF CopyDone, CopyInv, Idle
<1>7. ViewIsSound' /\ SelectionIsRows'
  BY <1>4, <1>5 DEF CopyDone, ViewIsSound, SelectionIsRows, select, Bottom
<1> QED
  BY <1>2, <1>3, <1>5, <1>6, <1>7

LEMMA SelectInvHolds == SelectSpec => []SelectInv
<1>1. ViewInit => SelectInv
  <2> SUFFICES ASSUME ViewInit PROVE SelectInv
    OBVIOUS
  <2>1. len \in Nat /\ len > 0
    BY ViewAssumption DEF ViewInit
  <2>2. text \in [1 .. len -> Nat]
    BY DEF ViewInit
  <2>3. text \in Seq(Nat) /\ Len(text) = len
    BY <2>1, <2>2, FunctionIsSeq
  <2> QED
    BY <2>1, <2>3 DEF ViewInit, SelectInv, ViewIsSound, SelectionIsRows, CopyInv, Idle, Bottom
<1>2. ASSUME SelectInv, [ScrollNext \/ SelectNext]_viewVars PROVE SelectInv'
  <2>1. CASE CopyPage \/ CopyDone
    BY <1>2, <2>1, PageKeeps, DoneIsExact
  <2>2. CASE UNCHANGED viewVars
    BY <1>2, <2>2 DEF viewVars, SelectInv, ViewIsSound, SelectionIsRows, CopyInv, Idle, Bottom,
                      Lower
  <2> QED
    BY <1>2, <2>1, <2>2, ScrollKeeps, StartKeeps, SelectionKeeps DEF copy_selection
<1> QED
  BY <1>1, <1>2, PTL DEF SelectSpec

(* Over any number of pages, wherever the view stood and however the text    *)
(* has grown or been trimmed under the selection: what copy_selection has    *)
(* put together when it ends is every selected row that is in the text, once *)
(* and in order, and the view is back where it was.                          *)
THEOREM CopyAlwaysExact == SelectSpec => CopyIsExact
<1>1. SelectInv /\ [ScrollNext \/ SelectNext]_viewVars =>
        [CopyDone => /\ copying.lines =
                          SubSeq(text, copying.first + 1, Lower(copying.last + 1, Len(text)))
                     /\ offset' = copying.orig_offset]_viewVars
  BY DoneIsExact
<1> QED
  BY <1>1, SelectInvHolds, PTL DEF SelectSpec, CopyIsExact

-----------------------------------------------------------------------------
(* TabPages: the tab bars                                                     *)

(* The pages of every workspace's bar, and what is kept of them elsewhere.   *)
Pages ==
  [key : Keys, tab : Nat, panes : Seq(Nat), title : {"auto", "user"}, named : BOOLEAN,
   by : {"daemon", "user", "duplicate"}, inherits : BOOLEAN]
Refs == [tab : Nat, key : Keys, view : Workspaces] \cup {NoPage}

TabTypes ==
  /\ views \in [Workspaces -> Seq(Pages)]
  /\ selected \in [Workspaces -> Nat] /\ focus_tracker \in [Workspaces -> Nat]
  /\ custom_titles \in [Workspaces -> SUBSET Keys]
  /\ tab_id_map \in [Workspaces -> [Keys -> Nat]]
  /\ front \in Workspaces /\ several \in BOOLEAN
  /\ title \in [prefix : {"none", "workspace", "rest of a title"}, pane : Nat]
  /\ tabMenu \in Refs /\ tabDialog \in Refs
  /\ tab_order \in Seq(Nat) /\ untold \in BOOLEAN
  /\ home \in Seq(Workspaces)

(* No two pages have one key or one tab.                                     *)
OnePage(vs) ==
  \A v, u \in Workspaces : \A i \in 1 .. Len(vs[v]), j \in 1 .. Len(vs[u]) :
    vs[v][i].key = vs[u][j].key \/ vs[v][i].tab = vs[u][j].tab => v = u /\ i = j

(* A page's panes, and the pane in focus, were started in its workspace.     *)
AtHome(v, p, h) ==
  /\ p.tab \in 1 .. Len(h) /\ p.panes # <<>>
  /\ \A x \in ToSet(p.panes) : x \in 1 .. Len(h) /\ h[x] = v
PagesAtHome(vs, h) == \A v \in Workspaces : \A i \in 1 .. Len(vs[v]) : AtHome(v, vs[v][i], h)
FocusAtHome ==
  \A v \in Workspaces : focus_tracker[v] # 0 =>
    focus_tracker[v] \in 1 .. Len(home) /\ home[focus_tracker[v]] = v
TitleAtHome == title.pane # 0 => title.pane \in 1 .. Len(home)

(* What a menu or a dialog was opened for is one page, by key and by tab.    *)
RefFits(ref, vs, h) ==
  ref # NoPage =>
    /\ ref.tab \in 1 .. Len(h)
    /\ \A v \in Workspaces : \A i \in 1 .. Len(vs[v]) : vs[v][i].key = ref.key <=> vs[v][i].tab = ref.tab

(* Whatever the daemon was told of the pages' places, its order has their    *)
(* tabs, each once.                                                          *)
TabsOf(s) == {s[i].tab : i \in 1 .. Len(s)}
OrderHolds == IsInjective(tab_order) /\ ToSet(tab_order) = TabsOf(views[1])

PagesInv == OnePage(views) /\ PagesAtHome(views, home)
RefsInv == RefFits(tabMenu, views, home) /\ RefFits(tabDialog, views, home)
SelectedIn == \A v \in Workspaces : selected[v] <= Len(views[v])

TabInv ==
  /\ TabTypes /\ PagesInv /\ OrderHolds /\ SelectedIn /\ FocusAtHome /\ TitleAtHome /\ RefsInv
  /\ (front = 1 \/ several) /\ TabPagesSafe

-----------------------------------------------------------------------------
(* Pages                                                                     *)

LEMMA PageFields ==
  ASSUME NEW p \in Pages
  PROVE  /\ p.key \in Keys /\ p.tab \in Nat /\ p.panes \in Seq(Nat) /\ p.named \in BOOLEAN
         /\ p.title \in {"auto", "user"} /\ p.by \in {"daemon", "user", "duplicate"} /\ p.inherits \in BOOLEAN
BY DEF Pages

LEMMA HomeOfOne ==
  ASSUME NEW h \in Seq(Workspaces), NEW v \in Workspaces
  PROVE  /\ Append(h, v) \in Seq(Workspaces) /\ Len(Append(h, v)) = Len(h) + 1
         /\ Append(h, v)[Len(h) + 1] = v /\ \A x \in 1 .. Len(h) : Append(h, v)[x] = h[x]
BY AppendProperties

LEMMA HomeTyped == ASSUME TabTypes PROVE home \in Seq(Workspaces) /\ Len(home) \in Nat /\ Next_ \in Nat
<1>1. home \in Seq(Workspaces)
  BY DEF TabTypes
<1>2. Len(home) \in Nat
  BY <1>1
<1> QED
  BY <1>1, <1>2 DEF Next_

LEMMA HomeGrows ==
  ASSUME NEW h \in Seq(Workspaces), NEW v \in Workspaces, NEW u, NEW p, AtHome(u, p, h)
  PROVE  AtHome(u, p, Append(h, v))
<1>1. Len(h) \in Nat
  OBVIOUS
<1> QED
  BY <1>1, HomeOfOne DEF AtHome

(* One view changes.                                                         *)
LEMMA OneView ==
  ASSUME NEW vs \in [Workspaces -> Seq(Pages)], NEW v \in Workspaces, NEW s \in Seq(Pages)
  PROVE  LET ws == [vs EXCEPT ![v] = s]
         IN ws \in [Workspaces -> Seq(Pages)] /\ ws[v] = s /\ \A u \in Workspaces \ {v} : ws[u] = vs[u]
OBVIOUS

(* OnePage, said of the pages and not of their places.                       *)
LEMMA OnePageOfSets ==
  ASSUME NEW vs \in [Workspaces -> Seq(Pages)]
  PROVE  OnePage(vs) <=>
           /\ \A v \in Workspaces : IsInjective(vs[v])
           /\ \A v, u \in Workspaces : \A p \in ToSet(vs[v]), q \in ToSet(vs[u]) :
                p.key = q.key \/ p.tab = q.tab => v = u /\ p = q
<1>1. ASSUME NEW v \in Workspaces
      PROVE  /\ vs[v] \in Seq(Pages)
                /\ IsInjective(vs[v]) <=> \A j, k \in 1 .. Len(vs[v]) : vs[v][j] = vs[v][k] => j = k
             /\ \A x : x \in ToSet(vs[v]) <=> \E k \in 1 .. Len(vs[v]) : vs[v][k] = x
  <2>1. vs[v] \in Seq(Pages)
    OBVIOUS
  <2> QED
    BY <2>1, DistinctPlaces, InToSet
<1>2. ASSUME OnePage(vs), NEW v \in Workspaces PROVE IsInjective(vs[v])
  BY <1>1, <1>2 DEF OnePage
<1>3. ASSUME OnePage(vs), NEW v \in Workspaces, NEW u \in Workspaces, NEW p \in ToSet(vs[v]),
             NEW q \in ToSet(vs[u]), p.key = q.key \/ p.tab = q.tab
      PROVE  v = u /\ p = q
  BY <1>1, <1>3 DEF OnePage
<1>4. ASSUME \A v \in Workspaces : IsInjective(vs[v]),
             \A v, u \in Workspaces : \A p \in ToSet(vs[v]), q \in ToSet(vs[u]) :
                p.key = q.key \/ p.tab = q.tab => v = u /\ p = q
      PROVE  OnePage(vs)
  <2> SUFFICES ASSUME NEW v \in Workspaces, NEW u \in Workspaces, NEW i \in 1 .. Len(vs[v]),
                      NEW j \in 1 .. Len(vs[u]),
                      vs[v][i].key = vs[u][j].key \/ vs[v][i].tab = vs[u][j].tab
               PROVE  v = u /\ i = j
    BY DEF OnePage
  <2>1. vs[v][i] \in ToSet(vs[v]) /\ vs[u][j] \in ToSet(vs[u])
    BY <1>1
  <2>2. v = u /\ vs[v][i] = vs[u][j]
    BY <1>4, <2>1
  <2> QED
    BY <1>1, <1>4, <2>2
<1> QED
  BY <1>2, <1>3, <1>4

(* A page is added at the end.                                               *)
LEMMA PageAdded ==
  ASSUME NEW vs \in [Workspaces -> Seq(Pages)], NEW v \in Workspaces, NEW p \in Pages, OnePage(vs),
         \A u \in Workspaces : \A i \in 1 .. Len(vs[u]) : vs[u][i].key # p.key /\ vs[u][i].tab # p.tab
  PROVE  OnePage([vs EXCEPT ![v] = Append(vs[v], p)])
<1> DEFINE s == Append(vs[v], p)
           ws == [vs EXCEPT ![v] = s]
<1>1. s \in Seq(Pages) /\ Len(s) = Len(vs[v]) + 1 /\ s[Len(vs[v]) + 1] = p
      /\ \A k \in 1 .. Len(vs[v]) : s[k] = vs[v][k]
  BY AppendProperties
<1>2. ws \in [Workspaces -> Seq(Pages)] /\ ws[v] = s /\ \A u \in Workspaces \ {v} : ws[u] = vs[u]
  BY <1>1, OneView
<1> HIDE DEF s, ws
<1>3. ASSUME NEW u \in Workspaces, NEW i \in 1 .. Len(ws[u])
      PROVE  \/ i \in 1 .. Len(vs[u]) /\ ws[u][i] = vs[u][i]
             \/ u = v /\ i = Len(vs[v]) + 1 /\ ws[u][i] = p
  <2>1. CASE u = v
    <3>1. vs[v] \in Seq(Pages) /\ Len(vs[v]) \in Nat
      OBVIOUS
    <3>2. i \in 1 .. Len(vs[v]) \/ i = Len(vs[v]) + 1
      BY <1>1, <1>2, <2>1, <3>1
    <3> QED
      BY <1>1, <1>2, <2>1, <3>2
  <2>2. CASE u # v
    BY <1>2, <2>2
  <2> QED
    BY <2>1, <2>2
<1>4. OnePage(ws)
  <2> SUFFICES ASSUME NEW a \in Workspaces, NEW b \in Workspaces, NEW i \in 1 .. Len(ws[a]),
                      NEW j \in 1 .. Len(ws[b]),
                      ws[a][i].key = ws[b][j].key \/ ws[a][i].tab = ws[b][j].tab
               PROVE  a = b /\ i = j
    BY DEF OnePage
  <2>1. CASE i \in 1 .. Len(vs[a]) /\ ws[a][i] = vs[a][i]
    <3>1. j \in 1 .. Len(vs[b]) /\ ws[b][j] = vs[b][j]
      BY <2>1, <1>3
    <3> QED
      BY <2>1, <3>1 DEF OnePage
  <2>2. CASE a = v /\ i = Len(vs[v]) + 1 /\ ws[a][i] = p
    <3>1. ~ (j \in 1 .. Len(vs[b]) /\ ws[b][j] = vs[b][j])
      BY <2>2
    <3> QED
      BY <2>2, <3>1, <1>3
  <2> QED
    BY <2>1, <2>2, <1>3
<1> QED
  BY <1>4 DEF ws, s

(* A page changes, but stays what it is.                                     *)
WithPage(vs, v, spot, p) == [vs EXCEPT ![v][spot] = p]

LEMMA PageAltered ==
  ASSUME NEW vs \in [Workspaces -> Seq(Pages)], NEW v \in Workspaces, NEW spot \in 1 .. Len(vs[v]),
         NEW p \in Pages,
         p.key = vs[v][spot].key, p.tab = vs[v][spot].tab, NEW ws, ws = WithPage(vs, v, spot, p)
  PROVE  /\ ws \in [Workspaces -> Seq(Pages)]
         /\ \A u \in Workspaces : Len(ws[u]) = Len(vs[u])
         /\ \A u \in Workspaces : \A i \in 1 .. Len(vs[u]) :
              /\ ws[u][i] = IF u = v /\ i = spot THEN p ELSE vs[u][i]
              /\ ws[u][i].key = vs[u][i].key /\ ws[u][i].tab = vs[u][i].tab
         /\ OnePage(vs) => OnePage(ws)
<1> DEFINE s == [vs[v] EXCEPT ![spot] = p]
<1>1. s \in Seq(Pages) /\ Len(s) = Len(vs[v])
      /\ \A i \in 1 .. Len(vs[v]) : s[i] = IF i = spot THEN p ELSE vs[v][i]
  <2>1. vs[v] \in Seq(Pages)
    OBVIOUS
  <2> QED
    BY <2>1
<1>2. ws \in [Workspaces -> Seq(Pages)] /\ ws[v] = s /\ \A u \in Workspaces \ {v} : ws[u] = vs[u]
  <2>1. ws = [vs EXCEPT ![v] = s]
    BY DEF WithPage
  <2> HIDE DEF s
  <2> QED
    BY <1>1, <2>1, OneView
<1> HIDE DEF s
<1>4. ASSUME NEW u \in Workspaces
      PROVE  Len(ws[u]) = Len(vs[u]) /\ \A i \in 1 .. Len(vs[u]) :
                 /\ ws[u][i] = IF u = v /\ i = spot THEN p ELSE vs[u][i]
                 /\ ws[u][i].key = vs[u][i].key /\ ws[u][i].tab = vs[u][i].tab
  BY <1>1, <1>2
<1>5. OnePage(vs) => OnePage(ws)
  <2> SUFFICES ASSUME OnePage(vs), NEW a \in Workspaces, NEW b \in Workspaces,
                      NEW i \in 1 .. Len(ws[a]), NEW j \in 1 .. Len(ws[b]),
                      ws[a][i].key = ws[b][j].key \/ ws[a][i].tab = ws[b][j].tab
               PROVE  a = b /\ i = j
    BY DEF OnePage
  <2>1. i \in 1 .. Len(vs[a]) /\ j \in 1 .. Len(vs[b])
    BY <1>4
  <2>2. vs[a][i].key = vs[b][j].key \/ vs[a][i].tab = vs[b][j].tab
    BY <1>4, <2>1
  <2> QED
    BY <2>1, <2>2 DEF OnePage
<1> QED
  BY <1>2, <1>4, <1>5

(* Two pages change places.                                                  *)
WithSwapped(vs, v, spot, dest) == [vs EXCEPT ![v][spot] = vs[v][dest], ![v][dest] = vs[v][spot]]

AreSwapped(vs, v, spot, dest, ws) ==
  LET of(u, i) == IF u = v THEN IF i = spot THEN dest ELSE IF i = dest THEN spot ELSE i ELSE i
  IN /\ ws \in [Workspaces -> Seq(Pages)]
     /\ \A u \in Workspaces : Len(ws[u]) = Len(vs[u])
     /\ \A u \in Workspaces : \A i \in 1 .. Len(vs[u]) :
          of(u, i) \in 1 .. Len(vs[u]) /\ ws[u][i] = vs[u][of(u, i)]
     /\ OnePage(vs) => OnePage(ws)

LEMMA PagesSwapped ==
  ASSUME NEW vs \in [Workspaces -> Seq(Pages)], NEW v \in Workspaces, NEW spot \in 1 .. Len(vs[v]),
         NEW dest \in 1 .. Len(vs[v]),
         NEW ws, ws = WithSwapped(vs, v, spot, dest)
  PROVE  AreSwapped(vs, v, spot, dest, ws)
<1> DEFINE s == [vs[v] EXCEPT ![spot] = vs[v][dest], ![dest] = vs[v][spot]]
           of(u, i) == IF u = v THEN IF i = spot THEN dest ELSE IF i = dest THEN spot ELSE i ELSE i
<1>1. s \in Seq(Pages) /\ Len(s) = Len(vs[v]) /\ \A i \in 1 .. Len(vs[v]) : s[i] = vs[v][of(v, i)]
  <2>1. vs[v] \in Seq(Pages) /\ vs[v][spot] \in Pages /\ vs[v][dest] \in Pages
    OBVIOUS
  <2> QED
    BY <2>1
<1>2. ws \in [Workspaces -> Seq(Pages)] /\ ws[v] = s /\ \A u \in Workspaces \ {v} : ws[u] = vs[u]
  <2>1. ws = [vs EXCEPT ![v] = s]
    BY DEF WithSwapped
  <2> HIDE DEF s
  <2> QED
    BY <1>1, <2>1, OneView
<1> HIDE DEF s
<1>4. ASSUME NEW u \in Workspaces
      PROVE  Len(ws[u]) = Len(vs[u])
             /\ \A i \in 1 .. Len(vs[u]) : of(u, i) \in 1 .. Len(vs[u]) /\ ws[u][i] = vs[u][of(u, i)]
  BY <1>1, <1>2
<1>5. \A u \in Workspaces : \A i, j \in 1 .. Len(vs[u]) : of(u, i) = of(u, j) => i = j
  OBVIOUS
<1>6. OnePage(vs) => OnePage(ws)
  <2> SUFFICES ASSUME OnePage(vs), NEW a \in Workspaces, NEW b \in Workspaces,
                      NEW i \in 1 .. Len(ws[a]), NEW j \in 1 .. Len(ws[b]),
                      ws[a][i].key = ws[b][j].key \/ ws[a][i].tab = ws[b][j].tab
               PROVE  a = b /\ i = j
    BY DEF OnePage
  <2>1. i \in 1 .. Len(vs[a]) /\ j \in 1 .. Len(vs[b])
    BY <1>4
  <2>2. PICK k, m : k = of(a, i) /\ m = of(b, j)
    OBVIOUS
  <2> HIDE DEF of
  <2>3. k \in 1 .. Len(vs[a]) /\ m \in 1 .. Len(vs[b]) /\ ws[a][i] = vs[a][k] /\ ws[b][j] = vs[b][m]
    BY <2>1, <2>2, <1>4
  <2>4. a = b /\ k = m
    BY <2>3 DEF OnePage
  <2> QED
    BY <2>1, <2>2, <2>4, <1>5
<1> QED
  BY <1>2, <1>4, <1>6 DEF AreSwapped

(* Pages go.                                                                 *)
WithRetained(vs, v, keep) == [vs EXCEPT ![v] = Retain(vs[v], keep)]

AreRetained(vs, v, keep, ws) ==
  /\ ws \in [Workspaces -> Seq(Pages)] /\ ws[v] = Retain(vs[v], keep)
  /\ \A u \in Workspaces \ {v} : ws[u] = vs[u]
  /\ \A u \in Workspaces : \A i \in 1 .. Len(ws[u]) : \E j \in 1 .. Len(vs[u]) : ws[u][i] = vs[u][j]
  /\ OnePage(vs) => OnePage(ws)

LEMMA PagesRetained ==
  ASSUME NEW vs \in [Workspaces -> Seq(Pages)], NEW v \in Workspaces, NEW keep,
         NEW ws, ws = WithRetained(vs, v, keep)
  PROVE  AreRetained(vs, v, keep, ws)
<1>0. vs[v] \in Seq(Pages)
  OBVIOUS
<1> DEFINE s == Retain(vs[v], keep)
<1>1. s \in Seq(Pages) /\ ToSet(s) = ToSet(vs[v]) \cap keep /\ (IsInjective(vs[v]) => IsInjective(s))
  BY <1>0, RetainProperties
<1>2. ws \in [Workspaces -> Seq(Pages)] /\ ws[v] = s /\ \A u \in Workspaces \ {v} : ws[u] = vs[u]
  <2>1. ws = [vs EXCEPT ![v] = s]
    BY DEF WithRetained
  <2> HIDE DEF s
  <2> QED
    BY <1>1, <2>1, OneView
<1> HIDE DEF s
<1>3. ASSUME NEW u \in Workspaces
      PROVE  ToSet(ws[u]) \subseteq ToSet(vs[u]) /\ (IsInjective(vs[u]) => IsInjective(ws[u]))
  BY <1>1, <1>2
<1>4. OnePage(vs) => OnePage(ws)
  BY <1>2, <1>3, OnePageOfSets
<1>5. ASSUME NEW u \in Workspaces, NEW i \in 1 .. Len(ws[u])
      PROVE  \E j \in 1 .. Len(vs[u]) : ws[u][i] = vs[u][j]
  <2>1. ws[u] \in Seq(Pages) /\ vs[u] \in Seq(Pages)
    BY <1>2
  <2>2. ws[u][i] \in ToSet(vs[u])
    BY <2>1, <1>3, InToSet
  <2> QED
    BY <2>1, <2>2, InToSet
<1> QED
  BY <1>2, <1>4, <1>5 DEF s, AreRetained

-----------------------------------------------------------------------------
(* The daemon's order                                                        *)

OrderIs(s, o) == o \in Seq(Nat) /\ Len(o) = Len(s) /\ \A i \in 1 .. Len(s) : o[i] = s[i].tab

LEMMA OrderPlaces ==
  ASSUME NEW s \in Seq(Pages), NEW o \in Seq(Nat)
  PROVE  OrderIs(s, o) <=> o = [i \in DOMAIN s |-> s[i].tab]
<1>1. DOMAIN s = 1 .. Len(s) /\ Len(s) \in Nat /\ \A i \in 1 .. Len(s) : s[i].tab \in Nat
  BY PageFields
<1> DEFINE r == [i \in 1 .. Len(s) |-> s[i].tab]
<1>2. r \in [1 .. Len(s) -> Nat] /\ \A i \in 1 .. Len(s) : r[i] = s[i].tab
  BY <1>1
<1> HIDE DEF r
<1>3. r \in Seq(Nat) /\ Len(r) = Len(s)
  BY <1>1, <1>2
<1>4. OrderIs(s, o) => o = r
  BY <1>2, <1>3, SeqEqual DEF OrderIs
<1>5. o = r => OrderIs(s, o)
  BY <1>2, <1>3 DEF OrderIs
<1> QED
  BY <1>1, <1>4, <1>5 DEF r

LEMMA OrderAppended ==
  ASSUME NEW s \in Seq(Pages), NEW o, OrderIs(s, o), NEW p \in Pages
  PROVE  OrderIs(Append(s, p), Append(o, p.tab))
<1>1. o \in Seq(Nat) /\ p.tab \in Nat /\ Len(s) \in Nat /\ Len(o) = Len(s)
  BY PageFields DEF OrderIs
<1>2. /\ Append(s, p) \in Seq(Pages) /\ Len(Append(s, p)) = Len(s) + 1 /\ Append(s, p)[Len(s) + 1] = p
      /\ \A k \in 1 .. Len(s) : Append(s, p)[k] = s[k]
  BY AppendProperties
<1>3. /\ Append(o, p.tab) \in Seq(Nat) /\ Len(Append(o, p.tab)) = Len(s) + 1
      /\ Append(o, p.tab)[Len(s) + 1] = p.tab
      /\ \A k \in 1 .. Len(s) : Append(o, p.tab)[k] = o[k]
  BY <1>1, AppendProperties
<1>4. \A k \in 1 .. Len(s) + 1 : k \in 1 .. Len(s) \/ k = Len(s) + 1
  BY <1>1
<1> QED
  BY <1>1, <1>2, <1>3, <1>4 DEF OrderIs

LEMMA OrderRetained ==
  ASSUME NEW s \in Seq(Pages), NEW o, OrderIs(s, o), NEW gone
  PROVE  OrderIs(Retain(s, {p \in ToSet(s) : p.tab \notin gone}), Retain(o, ToSet(o) \ gone))
<1> DEFINE k == {p \in ToSet(s) : p.tab \notin gone}
           l == ToSet(o) \ gone
           R == {x \in Pages \X Nat : x[2] = x[1].tab}
<1>1. o \in Seq(Nat) /\ Len(s) = Len(o)
  BY DEF OrderIs
<1>2. ASSUME NEW i \in 1 .. Len(s)
      PROVE  <<s[i], o[i]>> \in R /\ (s[i] \in k <=> o[i] \in l)
  <2>1. s[i] \in Pages /\ o[i] \in Nat /\ o[i] = s[i].tab
    BY <1>1 DEF OrderIs
  <2>2. s[i] \in ToSet(s) /\ o[i] \in ToSet(o)
    BY <1>1, InToSet
  <2> QED
    BY <2>1, <2>2
<1> HIDE DEF k, l
<1>3. Retain(s, k) \in Seq(Pages) /\ Retain(o, l) \in Seq(Nat)
  BY <1>1, RetainProperties
<1>4. /\ Len(Retain(s, k)) = Len(Retain(o, l))
      /\ \A i \in 1 .. Len(Retain(s, k)) : <<Retain(s, k)[i], Retain(o, l)[i]>> \in R
  <2> HIDE DEF R
  <2> QED
    BY <1>1, <1>2, RetainTogether
<1>5. OrderIs(Retain(s, k), Retain(o, l))
  BY <1>3, <1>4 DEF OrderIs
<1> QED
  BY <1>5 DEF k, l

LEMMA OrderSwapped ==
  ASSUME NEW s \in Seq(Pages), NEW o, OrderIs(s, o), NEW spot \in 1 .. Len(s), NEW dest \in 1 .. Len(s),
         dest = spot - 1 \/ dest = spot + 1, \A i, j \in 1 .. Len(s) : s[i].tab = s[j].tab => i = j,
         NEW r \in Seq(Pages), Len(r) = Len(s),
         \A i \in 1 .. Len(s) : r[i] = s[IF i = spot THEN dest ELSE IF i = dest THEN spot ELSE i]
  PROVE  OrderIs(r, move_tab(s[spot].tab, dest)) \/ tab_order # o
<1> SUFFICES ASSUME tab_order = o PROVE OrderIs(r, move_tab(s[spot].tab, dest))
  OBVIOUS
<1>1. /\ o \in Seq(Nat) /\ Len(o) = Len(s) /\ Len(s) \in Nat
      /\ o[spot] = s[spot].tab /\ \A i \in 1 .. Len(s) : o[i] = s[i].tab /\ o[i] \in Nat
  BY PageFields DEF OrderIs
<1>2. IsInjective(o)
  <2>1. \A j, k \in 1 .. Len(o) : o[j] = o[k] => j = k
    BY <1>1
  <2> QED
    BY <1>1, <2>1, DistinctPlaces
<1>3. Retain(o, ToSet(o) \ {o[spot]}) = RemoveAt(o, spot)
  BY <1>1, <1>2, RetainOthers
<1>4. PICK q : q = RemoveAt(o, spot)
  OBVIOUS
<1>5. q \in Seq(Nat) /\ Len(q) = Len(o) - 1
      /\ \A k \in 1 .. Len(o) - 1 : q[k] = IF k < spot THEN o[k] ELSE o[k + 1]
  <2>1. spot \in 1 .. Len(o)
    BY <1>1
  <2>2. /\ RemoveAt(o, spot) \in Seq(Nat) /\ Len(RemoveAt(o, spot)) = Len(o) - 1
        /\ \A k \in 1 .. Len(o) - 1 : RemoveAt(o, spot)[k] = IF k < spot THEN o[k] ELSE o[k + 1]
    BY <1>1, <2>1, RemoveAtProperties
  <2> QED
    BY <1>4, <2>2
<1>6. PICK x \in Nat : x = o[spot]
  BY <1>1
<1>7. PICK m \in Seq(Nat) : m = InsertAt(q, dest, x) /\ Len(m) = Len(q) + 1
           /\ \A k \in 1 .. Len(q) + 1 : m[k] = IF k < dest THEN q[k] ELSE IF k = dest THEN x ELSE q[k - 1]
  <2>1. dest \in 1 .. Len(q) + 1 /\ q \in Seq(Nat) /\ x \in Nat
    BY <1>1, <1>5
  <2>2. /\ InsertAt(q, dest, x) \in Seq(Nat) /\ Len(InsertAt(q, dest, x)) = Len(q) + 1
        /\ \A k \in 1 .. Len(q) + 1 :
             InsertAt(q, dest, x)[k] = IF k < dest THEN q[k] ELSE IF k = dest THEN x ELSE q[k - 1]
    BY <2>1, InsertAtProperties
  <2> QED
    BY <2>2
<1>8. ASSUME NEW i \in 1 .. Len(s) PROVE m[i] = r[i].tab
  <2>1. m[i] = IF i < dest THEN q[i] ELSE IF i = dest THEN x ELSE q[i - 1]
    BY <1>1, <1>5, <1>7
  <2>2. ASSUME i < dest PROVE q[i] = IF i < spot THEN o[i] ELSE o[i + 1]
    <3>1. i \in 1 .. Len(o) - 1
      BY <1>1, <2>2
    <3> QED
      BY <1>5, <3>1
  <2>3. ASSUME i > dest PROVE q[i - 1] = IF i - 1 < spot THEN o[i - 1] ELSE o[i]
    <3>1. i - 1 \in 1 .. Len(o) - 1 /\ (i - 1) + 1 = i
      BY <1>1, <2>3
    <3> QED
      BY <1>5, <3>1
  <2>4. CASE i = spot
    <3>1. m[i] = o[dest]
      BY <2>1, <2>2, <2>3, <2>4, <1>1, <1>6
    <3> QED
      BY <3>1, <2>4, <1>1
  <2>5. CASE i = dest
    BY <2>1, <2>5, <1>1, <1>6
  <2>6. CASE i # spot /\ i # dest
    <3>1. m[i] = o[i]
      BY <2>1, <2>2, <2>3, <2>6, <1>1
    <3> QED
      BY <3>1, <2>6, <1>1
  <2> QED
    BY <2>4, <2>5, <2>6
<1>9. move_tab(s[spot].tab, dest) = m
  BY <1>1, <1>3, <1>4, <1>6, <1>7 DEF move_tab
<1> QED
  BY <1>1, <1>5, <1>7, <1>8, <1>9 DEF OrderIs

-----------------------------------------------------------------------------
(* Where a page is                                                           *)

LEMMA PositionFinds ==
  ASSUME TabTypes, NEW ref \in Refs, ref # NoPage
  PROVE  LET spot == Position(ref) s == views[ref.view]
         IN \/ spot \in 1 .. Len(s) /\ s[spot].tab = ref.tab
            \/ spot = 0 /\ \A i \in 1 .. Len(s) : s[i].tab # ref.tab
<1> DEFINE s == views[ref.view]
           I == {i \in 1 .. Len(s) : s[i].tab = ref.tab}
<1>1. Position(ref) = IF I # {} THEN Min(I) ELSE 0
  BY DEF Position, SelectInSeq
<1>2. CASE I = {}
  BY <1>1, <1>2
<1>3. CASE I # {}
  <2>1. I \subseteq Nat
    OBVIOUS
  <2> HIDE DEF I
  <2>2. \E x \in I : \A y \in I : x <= y
    BY <1>3, <2>1, LeastOfNat
  <2>3. Min(I) \in I
    BY <2>2 DEF Min
  <2> QED
    BY <1>1, <1>3, <2>3 DEF I
<1> QED
  BY <1>2, <1>3

-----------------------------------------------------------------------------
(* The properties, said of places                                            *)

TitleRight(custom, p) ==
  /\ p.named => p.key \in custom /\ p.title = "user"
  /\ p.key \in custom => p.named \/ p.inherits
TitlesRight(vs, custom) == \A v \in Workspaces : \A i \in 1 .. Len(vs[v]) : TitleRight(custom[v], vs[v][i])

IdRight(ids, p) == ids[p.key] \in {p.tab} \/ p.by = "duplicate"
IdsRight(vs, ids) == \A v \in Workspaces : \A i \in 1 .. Len(vs[v]) : IdRight(ids[v], vs[v][i])

LEMMA PlaceIsNotZero == ASSUME NEW n \in Nat, NEW i \in 1 .. n PROVE i # 0
OBVIOUS

LEMMA EachPage ==
  ASSUME NEW vs \in [Workspaces -> Seq(Pages)], NEW v \in Workspaces
  PROVE  /\ \A p : p \in ToSet(vs[v]) <=> \E i \in 1 .. Len(vs[v]) : vs[v][i] = p
         /\ Len(vs[v]) \in Nat /\ DOMAIN vs[v] = 1 .. Len(vs[v])
         /\ \A i \in 1 .. Len(vs[v]) : vs[v][i] \in Pages
<1>1. vs[v] \in Seq(Pages)
  OBVIOUS
<1> QED
  BY <1>1, InToSet

LEMMA TitlesPlaces ==
  ASSUME NEW vs \in [Workspaces -> Seq(Pages)], NEW custom
  PROVE  TitlesRight(vs, custom) <=> \A v \in Workspaces : \A p \in ToSet(vs[v]) : TitleRight(custom[v], p)
BY EachPage DEF TitlesRight

LEMMA IdsPlaces ==
  ASSUME NEW vs \in [Workspaces -> Seq(Pages)], NEW ids
  PROVE  IdsRight(vs, ids) <=> \A v \in Workspaces : \A p \in ToSet(vs[v]) : IdRight(ids[v], p)
BY EachPage DEF IdsRight

LEMMA PanesPlaces ==
  ASSUME TabTypes, NEW v \in Workspaces, NEW x
  PROVE  x \in PanesIn(v) <=> \E i \in 1 .. Len(views[v]) : x \in ToSet(views[v][i].panes)
<1>1. views \in [Workspaces -> Seq(Pages)]
  BY DEF TabTypes
<1>2. x \in PanesIn(v) <=> \E p \in ToSet(views[v]) : x \in ToSet(p.panes)
  BY DEF PanesIn
<1>3. \A p : p \in ToSet(views[v]) <=> \E i \in 1 .. Len(views[v]) : views[v][i] = p
  BY <1>1, EachPage
<1>4. ASSUME NEW p \in ToSet(views[v]), x \in ToSet(p.panes)
      PROVE  \E i \in 1 .. Len(views[v]) : x \in ToSet(views[v][i].panes)
  BY <1>3, <1>4
<1>5. ASSUME NEW i \in 1 .. Len(views[v]), x \in ToSet(views[v][i].panes)
      PROVE  \E p \in ToSet(views[v]) : x \in ToSet(p.panes)
  BY <1>3, <1>5
<1> QED
  BY <1>2, <1>4, <1>5

LEMMA TitlesThen ==
  ASSUME TabTypes, TitlesAreTheUsers
  PROVE  TitlesRight(views, custom_titles)
<1>1. views \in [Workspaces -> Seq(Pages)]
  BY DEF TabTypes
<1> QED
  BY <1>1, TitlesPlaces DEF TitlesAreTheUsers, TitleRight

LEMMA TitlesNow ==
  ASSUME views' \in [Workspaces -> Seq(Pages)], TitlesRight(views', custom_titles')
  PROVE  TitlesAreTheUsers'
<1>1. \A v \in Workspaces : \A p \in ToSet(views'[v]) : TitleRight(custom_titles'[v], p)
  BY TitlesPlaces
<1> QED
  BY <1>1 DEF TitlesAreTheUsers, TitleRight

LEMMA IdsThen ==
  ASSUME TabTypes, TabIdsAreOwn
  PROVE  IdsRight(views, tab_id_map)
<1>1. views \in [Workspaces -> Seq(Pages)]
  BY DEF TabTypes
<1> QED
  BY <1>1, IdsPlaces DEF TabIdsAreOwn, IdRight

LEMMA IdsNow ==
  ASSUME views' \in [Workspaces -> Seq(Pages)], IdsRight(views', tab_id_map')
  PROVE  TabIdsAreOwn'
<1>1. \A v \in Workspaces : \A p \in ToSet(views'[v]) : IdRight(tab_id_map'[v], p)
  BY IdsPlaces
<1> QED
  BY <1>1 DEF TabIdsAreOwn, IdRight

LEMMA OrderThen == ASSUME TabTypes, OrderIsDaemons PROVE untold \/ OrderIs(views[1], tab_order)
<1>1. views[1] \in Seq(Pages) /\ tab_order \in Seq(Nat)
  BY DEF TabTypes, Workspaces
<1> QED
  BY <1>1, OrderPlaces DEF OrderIsDaemons

LEMMA OrderNow ==
  ASSUME views' \in [Workspaces -> Seq(Pages)], tab_order' \in Seq(Nat),
         untold' \/ OrderIs(views'[1], tab_order')
  PROVE  OrderIsDaemons'
<1>1. views'[1] \in Seq(Pages)
  BY DEF Workspaces
<1> QED
  BY <1>1, OrderPlaces DEF OrderIsDaemons

-----------------------------------------------------------------------------
(* Every page of ws was in vs, as it is or altered.                          *)

Kin(vs, ws) ==
  \A u \in Workspaces : \A i \in 1 .. Len(ws[u]) :
    \E j \in 1 .. Len(vs[u]) : ws[u][i].key = vs[u][j].key /\ ws[u][i].tab = vs[u][j].tab
    /\ ws[u][i].by = vs[u][j].by

LEMMA KinRefs ==
  ASSUME NEW vs, NEW ws, Kin(vs, ws), NEW h \in Seq(Workspaces), NEW g \in Seq(Workspaces), Len(h) <= Len(g),
         NEW ref, RefFits(ref, vs, h)
  PROVE  RefFits(ref, ws, g)
<1>1. Len(h) \in Nat /\ Len(g) \in Nat
  OBVIOUS
<1>2. ASSUME NEW u \in Workspaces, NEW i \in 1 .. Len(ws[u]), ref # NoPage
      PROVE  ws[u][i].key = ref.key <=> ws[u][i].tab = ref.tab
  BY <1>2 DEF Kin, RefFits
<1> QED
  BY <1>1, <1>2 DEF RefFits

LEMMA KinIds ==
  ASSUME NEW vs, NEW ws, Kin(vs, ws), NEW ids, IdsRight(vs, ids)
  PROVE  IdsRight(ws, ids)
BY DEF Kin, IdsRight, IdRight

(* The invariant of the pages is left alone by what leaves views and home.   *)
LEMMA SameRefs == ASSUME RefsInv, UNCHANGED <<views, home, popped>> PROVE RefsInv'
BY DEF RefsInv, popped

-----------------------------------------------------------------------------
(* A new page                                                                *)

Adds(v, p) ==
  /\ views' = [views EXCEPT ![v] = Append(views[v], p)]
  /\ p.tab = Next_ /\ p.panes = <<Next_>> /\ p.named = FALSE /\ p.inherits = (p.key \in custom_titles[v])
  /\ p.key \in FreeKeys
  /\ tab_id_map' = IF p.by = "duplicate" THEN tab_id_map ELSE [tab_id_map EXCEPT ![v][p.key] = p.tab]
  /\ home' = Append(home, v)
  /\ tab_order' = (IF v = 1 THEN Append(tab_order, p.tab) ELSE tab_order) /\ untold' = untold

LEMMA NewPageAdds ==
  ASSUME TabTypes, NEW v \in Workspaces, NEW by \in {"daemon", "user", "duplicate"}, NewPage(v, by)
  PROVE  \E p \in Pages : Adds(v, p)
<1>1. PICK key \in FreeKeys :
        /\ views' = [views EXCEPT ![v] = Append(@, [Page(key, Next_) EXCEPT
                      !.by = by, !.inherits = key \in custom_titles[v]])]
        /\ tab_id_map' = IF by = "duplicate" THEN tab_id_map ELSE Identified(v, key, Next_)
  BY DEF NewPage
<1>2. key \in Keys /\ Next_ \in Nat
  BY HomeTyped DEF FreeKeys
<1>b. PICK b \in BOOLEAN : b = (key \in custom_titles[v])
  <2>1. CASE key \in custom_titles[v]
    <3>1. TRUE = (key \in custom_titles[v])
      BY <2>1, Zenon
    <3> QED
      BY <3>1, Zenon
  <2>2. CASE key \notin custom_titles[v]
    <3>1. FALSE = (key \in custom_titles[v])
      BY <2>2
    <3> QED
      BY <3>1, Zenon
  <2> QED
    BY <2>1, <2>2
<1>3. PICK p : p = [Page(key, Next_) EXCEPT !.by = by, !.inherits = b]
  OBVIOUS
<1>4. /\ p \in Pages /\ p.key = key /\ p.tab = Next_ /\ p.panes = <<Next_>> /\ p.by = by
      /\ p.inherits = (key \in custom_titles[v]) /\ p.named = FALSE
  <2>1. /\ p \in Pages /\ p.key = key /\ p.tab = Next_ /\ p.panes = <<Next_>> /\ p.by = by
        /\ p.inherits = b /\ p.named = FALSE
    <3>1. PICK n \in Nat : n = Next_
      BY <1>2
    <3>2. <<n>> \in Seq(Nat)
      OBVIOUS
    <3> QED
      BY <1>2, <1>b, <1>3, <3>1, <3>2 DEF Page, Pages
  <2> QED
    BY <2>1, <1>b, Zenon
<1>5. views' = [views EXCEPT ![v] = Append(views[v], p)]
  BY <1>1, <1>b, <1>3 DEF TabTypes
<1>6. /\ home' = Append(home, v)
      /\ tab_order' = (IF v = 1 THEN Append(tab_order, p.tab) ELSE tab_order) /\ untold' = untold
  BY <1>4 DEF NewPage, Started
<1>7. tab_id_map' = IF p.by = "duplicate" THEN tab_id_map ELSE [tab_id_map EXCEPT ![v][p.key] = p.tab]
  BY <1>1, <1>4 DEF Identified
<1>8. Adds(v, p)
  BY <1>1, <1>4, <1>5, <1>6, <1>7 DEF Adds
<1> QED
  BY <1>4, <1>8

LEMMA FreeKeyIsNew ==
  ASSUME TabTypes, NEW key \in FreeKeys
  PROVE  /\ key \in Keys /\ tabMenu.key # key /\ tabDialog.key # key
         /\ \A u \in Workspaces : \A i \in 1 .. Len(views[u]) : views[u][i].key # key
<1>1. key \in Keys /\ tabMenu.key # key /\ tabDialog.key # key
  BY DEF FreeKeys
<1>2. views[1] \in Seq(Pages) /\ views[2] \in Seq(Pages) /\ Workspaces = {1, 2}
  BY DEF TabTypes, Workspaces
<1>3. \A p \in ToSet(views[1]) \cup ToSet(views[2]) : p.key # key
  BY <1>2, ConcatHolds DEF FreeKeys
<1>4. ASSUME NEW u \in Workspaces, NEW i \in 1 .. Len(views[u]) PROVE views[u][i].key # key
  <2>1. views[u] \in Seq(Pages) /\ (u = 1 \/ u = 2)
    BY <1>2
  <2>2. views[u][i] \in ToSet(views[u])
    BY <2>1, InToSet
  <2> QED
    BY <1>3, <2>1, <2>2
<1> QED
  BY <1>1, <1>4

LEMMA AddedPlaces ==
  ASSUME TabTypes, NEW v \in Workspaces, NEW p \in Pages, Adds(v, p)
  PROVE  /\ views' \in [Workspaces -> Seq(Pages)]
         /\ Len(views'[v]) = Len(views[v]) + 1 /\ views'[v][Len(views[v]) + 1] = p
         /\ \A u \in Workspaces \ {v} : views'[u] = views[u]
         /\ \A u \in Workspaces : Len(views[u]) <= Len(views'[u])
         /\ \A u \in Workspaces : \A i \in 1 .. Len(views'[u]) :
              \/ i \in 1 .. Len(views[u]) /\ views'[u][i] = views[u][i]
              \/ u = v /\ i = Len(views[v]) + 1 /\ views'[u][i] = p
<1>1. views \in [Workspaces -> Seq(Pages)]
  BY DEF TabTypes
<1>2. PICK s \in Seq(Pages) : s = Append(views[v], p) /\ Len(s) = Len(views[v]) + 1
         /\ s[Len(views[v]) + 1] = p /\ \A k \in 1 .. Len(views[v]) : s[k] = views[v][k]
  <2>1. views[v] \in Seq(Pages)
    BY <1>1
  <2>2. /\ Append(views[v], p) \in Seq(Pages) /\ Len(Append(views[v], p)) = Len(views[v]) + 1
        /\ Append(views[v], p)[Len(views[v]) + 1] = p
        /\ \A k \in 1 .. Len(views[v]) : Append(views[v], p)[k] = views[v][k]
    BY <2>1, AppendProperties
  <2> QED
    BY <2>2
<1>3. views' = [views EXCEPT ![v] = s]
  BY <1>2 DEF Adds
<1>4. views' \in [Workspaces -> Seq(Pages)] /\ views'[v] = s /\ \A u \in Workspaces \ {v} : views'[u] = views[u]
  BY <1>1, <1>3, OneView
<1>5. \A u \in Workspaces : Len(views[u]) \in Nat
  BY <1>1
<1>6. ASSUME NEW u \in Workspaces, NEW i \in 1 .. Len(views'[u])
      PROVE  \/ i \in 1 .. Len(views[u]) /\ views'[u][i] = views[u][i]
             \/ u = v /\ i = Len(views[v]) + 1 /\ views'[u][i] = p
  <2>1. CASE u = v
    <3>1. i \in 1 .. Len(views[v]) \/ i = Len(views[v]) + 1
      BY <1>2, <1>4, <1>5, <2>1
    <3> QED
      BY <1>2, <1>4, <2>1, <3>1
  <2>2. CASE u # v
    BY <1>4, <2>2
  <2> QED
    BY <2>1, <2>2
<1>7. Len(views'[v]) = Len(views[v]) + 1 /\ views'[v][Len(views[v]) + 1] = p
  BY <1>2, <1>4
<1>8. ASSUME NEW u \in Workspaces PROVE Len(views[u]) <= Len(views'[u])
  BY <1>4, <1>5, <1>7
<1> QED
  BY <1>4, <1>6, <1>7, <1>8

LEMMA AddedPagesInv ==
  ASSUME TabTypes, PagesInv, NEW v \in Workspaces, NEW p \in Pages, Adds(v, p)
  PROVE  PagesInv'
<1>1. views \in [Workspaces -> Seq(Pages)] /\ home \in Seq(Workspaces) /\ Len(home) \in Nat
  BY HomeTyped DEF TabTypes
<1>2. /\ home' = Append(home, v) /\ Len(home') = Len(home) + 1 /\ home'[Len(home) + 1] = v
      /\ \A u, q : AtHome(u, q, home) => AtHome(u, q, home')
  <2>1. home' = Append(home, v)
    BY DEF Adds
  <2> QED
    BY <1>1, <2>1, HomeOfOne, HomeGrows
<1>3. \A u \in Workspaces : \A i \in 1 .. Len(views[u]) : views[u][i].key # p.key /\ views[u][i].tab # p.tab
  <2>1. \A u \in Workspaces : \A i \in 1 .. Len(views[u]) : views[u][i].key # p.key
    BY FreeKeyIsNew DEF Adds
  <2>2. \A u \in Workspaces : \A i \in 1 .. Len(views[u]) : views[u][i].tab \in 1 .. Len(home)
    BY DEF PagesInv, PagesAtHome, AtHome
  <2> QED
    BY <1>1, <2>1, <2>2 DEF Adds, Next_
<1>4. OnePage(views')
  <2>1. OnePage(views)
    BY DEF PagesInv
  <2>2. OnePage([views EXCEPT ![v] = Append(views[v], p)])
    BY <1>1, <1>3, <2>1, PageAdded
  <2> QED
    BY <2>2 DEF Adds
<1>5. AtHome(v, p, home')
  <2>1. p.tab = Len(home) + 1 /\ p.panes = <<Len(home) + 1>>
    BY DEF Adds, Next_
  <2>2. ToSet(p.panes) = {Len(home) + 1} /\ p.panes # <<>>
    BY <2>1, OneElement
  <2>3. Len(home) + 1 \in 1 .. Len(home')
    BY <1>1, <1>2
  <2> QED
    BY <1>2, <2>1, <2>2, <2>3 DEF AtHome
<1>6. PagesAtHome(views', home')
  BY <1>2, <1>5, AddedPlaces DEF PagesInv, PagesAtHome
<1> QED
  BY <1>4, <1>6 DEF PagesInv

LEMMA AddedRefs ==
  ASSUME TabTypes, NEW v \in Workspaces, NEW p \in Pages, Adds(v, p),
         NEW ref \in {tabMenu, tabDialog}, RefFits(ref, views, home)
  PROVE  RefFits(ref, views', home')
<1> SUFFICES ASSUME ref # NoPage PROVE RefFits(ref, views', home')
  BY DEF RefFits
<1>1. Len(home) \in Nat /\ Len(home') = Len(home) + 1
  BY HomeTyped, HomeOfOne DEF Adds
<1>2. p.key # ref.key /\ p.tab # ref.tab
  <2>1. ref.tab \in 1 .. Len(home)
    BY DEF RefFits
  <2>2. p.tab = Len(home) + 1 /\ p.key \in FreeKeys
    BY DEF Adds, Next_
  <2> QED
    BY <1>1, <2>1, <2>2, FreeKeyIsNew
<1>3. ASSUME NEW u \in Workspaces, NEW i \in 1 .. Len(views'[u])
      PROVE  views'[u][i].key = ref.key <=> views'[u][i].tab = ref.tab
  <2>1. CASE i \in 1 .. Len(views[u]) /\ views'[u][i] = views[u][i]
    BY <2>1 DEF RefFits
  <2>2. CASE views'[u][i] = p
    BY <1>2, <2>2
  <2> QED
    BY <2>1, <2>2, AddedPlaces
<1> QED
  BY <1>1, <1>3 DEF RefFits

LEMMA AddedTitles ==
  ASSUME TabTypes, NEW v \in Workspaces, NEW p \in Pages, Adds(v, p), UNCHANGED custom_titles,
         TitlesAreTheUsers
  PROVE  TitlesAreTheUsers'
<1>1. TitlesRight(views, custom_titles)
  BY TitlesThen
<1>2. TitleRight(custom_titles[v], p)
  BY DEF Adds, TitleRight
<1>3. TitlesRight(views', custom_titles')
  BY <1>1, <1>2, AddedPlaces DEF TitlesRight
<1> QED
  BY <1>3, AddedPlaces, TitlesNow

LEMMA AddedIds ==
  ASSUME TabTypes, NEW v \in Workspaces, NEW p \in Pages, Adds(v, p), TabIdsAreOwn
  PROVE  TabIdsAreOwn' /\ tab_id_map' \in [Workspaces -> [Keys -> Nat]]
<1>1. IdsRight(views, tab_id_map)
  BY IdsThen
<1>2. p.key \in Keys /\ p.tab \in Nat
      /\ \A u \in Workspaces : \A i \in 1 .. Len(views[u]) : views[u][i].key # p.key
  BY FreeKeyIsNew, PageFields DEF Adds
<1>3. \A u \in Workspaces : \A i \in 1 .. Len(views[u]) : views[u][i].key \in Keys
  <2>1. \A u \in Workspaces : \A i \in 1 .. Len(views[u]) : views[u][i] \in Pages
    BY EachPage DEF TabTypes
  <2> QED
    BY <2>1, PageFields
<1>4. /\ tab_id_map' \in [Workspaces -> [Keys -> Nat]]
      /\ \A u \in Workspaces, k \in Keys : k # p.key => tab_id_map'[u][k] = tab_id_map[u][k]
      /\ p.by # "duplicate" => tab_id_map'[v][p.key] = p.tab
  BY <1>2 DEF Adds, TabTypes
<1>5. IdRight(tab_id_map'[v], p)
  BY <1>4 DEF IdRight
<1>6. ASSUME NEW u \in Workspaces, NEW i \in 1 .. Len(views[u]) PROVE IdRight(tab_id_map'[u], views[u][i])
  BY <1>1, <1>2, <1>3, <1>4 DEF IdsRight, IdRight
<1>7. IdsRight(views', tab_id_map')
  BY <1>5, <1>6, AddedPlaces DEF IdsRight
<1> QED
  BY <1>4, <1>7, AddedPlaces, IdsNow

LEMMA AddedOrder ==
  ASSUME TabTypes, NEW v \in Workspaces, NEW p \in Pages, Adds(v, p), OrderIsDaemons
  PROVE  OrderIsDaemons' /\ tab_order' \in Seq(Nat)
<1>1. views[1] \in Seq(Pages) /\ tab_order \in Seq(Nat) /\ p.tab \in Nat /\ 1 \in Workspaces
  BY PageFields DEF TabTypes, Workspaces
<1>2. untold \/ OrderIs(views[1], tab_order)
  BY OrderThen
<1>3. tab_order' \in Seq(Nat) /\ untold' = untold
  BY <1>1 DEF Adds
<1>4. CASE v = 1
  <2>1. views'[1] = Append(views[1], p) /\ tab_order' = Append(tab_order, p.tab)
    BY <1>1, <1>4 DEF Adds, TabTypes
  <2> QED
    BY <1>1, <1>2, <1>3, <2>1, OrderAppended, OrderNow, AddedPlaces
<1>5. CASE v # 1
  <2>1. views'[1] = views[1] /\ tab_order' = tab_order
    BY <1>1, <1>5, AddedPlaces DEF Adds
  <2> QED
    BY <1>2, <1>3, <2>1, OrderNow, AddedPlaces
<1> QED
  BY <1>3, <1>4, <1>5

-----------------------------------------------------------------------------
(* What the steps share                                                      *)

HomeStep == home' = home \/ \E v \in Workspaces : home' = Append(home, v)

LEMMA HomeStepKeeps ==
  ASSUME TabTypes, HomeStep
  PROVE  /\ home' \in Seq(Workspaces) /\ Len(home) \in Nat /\ Len(home') \in Nat /\ Len(home) <= Len(home')
         /\ \A x \in 1 .. Len(home) : x \in 1 .. Len(home') /\ home'[x] = home[x]
         /\ \A v, p : AtHome(v, p, home) => AtHome(v, p, home')
<1>1. home \in Seq(Workspaces) /\ Len(home) \in Nat
  BY HomeTyped
<1>2. CASE home' = home
  BY <1>1, <1>2
<1>3. CASE \E v \in Workspaces : home' = Append(home, v)
  <2>1. PICK v \in Workspaces : home' = Append(home, v)
    BY <1>3
  <2>2. \A u, p : AtHome(u, p, home) => AtHome(u, p, home')
    BY <1>1, <2>1, HomeGrows
  <2> QED
    BY <1>1, <2>1, <2>2, HomeOfOne
<1> QED
  BY <1>2, <1>3 DEF HomeStep

LEMMA FocusKept ==
  ASSUME TabTypes, FocusAtHome, HomeStep, UNCHANGED focus_tracker
  PROVE  FocusAtHome'
BY HomeStepKeeps DEF FocusAtHome

LEMMA FocusSet ==
  ASSUME TabTypes, FocusAtHome, HomeStep, NEW v \in Workspaces, NEW x \in 1 .. Len(home'), home'[x] = v,
         focus_tracker' = [focus_tracker EXCEPT ![v] = x]
  PROVE  FocusAtHome' /\ focus_tracker' \in [Workspaces -> Nat]
<1>1. x \in Nat /\ focus_tracker \in [Workspaces -> Nat]
  <2>1. x \in Nat
    BY HomeStepKeeps
  <2> QED
    BY <2>1 DEF TabTypes
<1>2. focus_tracker'[v] = x /\ \A u \in Workspaces \ {v} : focus_tracker'[u] = focus_tracker[u]
  BY <1>1
<1> QED
  BY <1>1, <1>2, HomeStepKeeps DEF FocusAtHome

LEMMA TitleKept ==
  ASSUME TabTypes, TitleAtHome, TitleIsOfFront, HomeStep, UNCHANGED <<title, front, several>>
  PROVE  TitleAtHome' /\ TitleIsOfFront'
BY HomeStepKeeps DEF TitleAtHome, TitleIsOfFront

(* The focus goes to a pane of a page.                                       *)
LEMMA PaneOfPage ==
  ASSUME NEW vs \in [Workspaces -> Seq(Pages)], NEW h \in Seq(Workspaces), PagesAtHome(vs, h),
         NEW v \in Workspaces, NEW i \in 1 .. Len(vs[v])
  PROVE  /\ 1 \in DOMAIN vs[v][i].panes /\ DOMAIN vs[v][i].panes = 1 .. Len(vs[v][i].panes)
         /\ \A k \in DOMAIN vs[v][i].panes : vs[v][i].panes[k] \in 1 .. Len(h) /\ h[vs[v][i].panes[k]] = v
<1>1. vs[v][i] \in Pages /\ AtHome(v, vs[v][i], h)
  BY EachPage DEF PagesAtHome
<1>2. PICK s \in Seq(Nat) : s = vs[v][i].panes
  BY <1>1, PageFields
<1>3. s # <<>> /\ \A x \in ToSet(s) : x \in 1 .. Len(h) /\ h[x] = v
  BY <1>1, <1>2 DEF AtHome
<1>4. DOMAIN s = 1 .. Len(s) /\ 1 \in 1 .. Len(s) /\ \A k \in 1 .. Len(s) : s[k] \in ToSet(s)
  BY <1>3, InToSet, EmptySeq
<1> QED
  BY <1>2, <1>3, <1>4

LEMMA FocusesFits ==
  ASSUME TabTypes, FocusAtHome, HomeStep, views' \in [Workspaces -> Seq(Pages)], PagesAtHome(views', home'),
         NEW v \in Workspaces, NEW i \in 0 .. Len(views'[v]), Focuses(v, i)
  PROVE  FocusAtHome' /\ focus_tracker' \in [Workspaces -> Nat]
<1>1. CASE i = 0
  BY <1>1, FocusKept DEF Focuses, TabTypes
<1>2. CASE i # 0
  <2>1. i \in 1 .. Len(views'[v])
    BY <1>2
  <2>2. PICK k \in DOMAIN views'[v][i].panes :
               focus_tracker' = [focus_tracker EXCEPT ![v] = views'[v][i].panes[k]]
    BY <1>2 DEF Focuses
  <2>3. views'[v][i].panes[k] \in 1 .. Len(home') /\ home'[views'[v][i].panes[k]] = v
    BY <2>1, HomeStepKeeps, PaneOfPage, ZenonT(60)
  <2> QED
    BY <2>2, <2>3, FocusSet
<1> QED
  BY <1>1, <1>2

(* The pages stay, altered or not, but for some.                             *)
LEMMA KinKeep ==
  ASSUME TabTypes, views' \in [Workspaces -> Seq(Pages)], Kin(views, views'), HomeStep, RefsInv
  PROVE  /\ RefFits(tabMenu, views', home') /\ RefFits(tabDialog, views', home')
         /\ TabIdsAreOwn /\ UNCHANGED tab_id_map => TabIdsAreOwn'
<1>1. RefFits(tabMenu, views', home') /\ RefFits(tabDialog, views', home')
  BY HomeStepKeeps, KinRefs, HomeTyped DEF RefsInv
<1>2. ASSUME TabIdsAreOwn, UNCHANGED tab_id_map PROVE TabIdsAreOwn'
  <2>1. IdsRight(views, tab_id_map)
    BY <1>2, IdsThen
  <2>2. IdsRight(views', tab_id_map')
    BY <1>2, <2>1, KinIds
  <2> QED
    BY <2>2, IdsNow
<1> QED
  BY <1>1, <1>2

LEMMA KinSame == ASSUME UNCHANGED views PROVE Kin(views, views')
BY DEF Kin

LEMMA NoRefFits == \A vs, h : RefFits(NoPage, vs, h)
BY DEF RefFits

LEMMA PageRefFits ==
  ASSUME TabTypes, PagesInv, NEW i \in 1 .. Len(views[front])
  PROVE  RefFits(Ref(front, views[front][i]), views, home) /\ Ref(front, views[front][i]) \in Refs
<1>1. front \in Workspaces /\ views \in [Workspaces -> Seq(Pages)]
  BY DEF TabTypes
<1>2. PICK p \in Pages : p = views[front][i]
  BY <1>1, EachPage
<1>3. p.key \in Keys /\ p.tab \in Nat /\ p.tab \in 1 .. Len(home)
  BY <1>1, <1>2, PageFields DEF PagesInv, PagesAtHome, AtHome
<1>4. \A v \in Workspaces : \A j \in 1 .. Len(views[v]) :
        views[v][j].key = p.key <=> views[v][j].tab = p.tab
  BY <1>1, <1>2 DEF PagesInv, OnePage
<1> QED
  BY <1>1, <1>2, <1>3, <1>4 DEF Ref, Refs, RefFits

LEMMA SameOrder ==
  ASSUME TabTypes, OrderIsDaemons, UNCHANGED order, views' \in [Workspaces -> Seq(Pages)],
         Len(views'[1]) = Len(views[1]), \A i \in 1 .. Len(views[1]) : views'[1][i].tab = views[1][i].tab
  PROVE  OrderIsDaemons' /\ tab_order' \in Seq(Nat) /\ untold' \in BOOLEAN
<1>1. tab_order' = tab_order /\ untold' = untold /\ tab_order \in Seq(Nat) /\ untold \in BOOLEAN
  BY DEF order, TabTypes
<1>2. untold \/ OrderIs(views[1], tab_order)
  BY OrderThen
<1>3. OrderIs(views[1], tab_order) => OrderIs(views'[1], tab_order)
  BY DEF OrderIs
<1> QED
  BY <1>1, <1>2, <1>3, OrderNow

(* A page is altered.                                                        *)
Alters(v, spot, p) ==
  /\ p.key = views[v][spot].key /\ p.tab = views[v][spot].tab /\ p.by = views[v][spot].by
  /\ views' = WithPage(views, v, spot, p)

LEMMA AlteredPages ==
  ASSUME TabTypes, PagesInv, HomeStep, OrderIsDaemons, UNCHANGED order,
         NEW v \in Workspaces, NEW spot \in 1 .. Len(views[v]),
         NEW p \in Pages, Alters(v, spot, p), AtHome(v, p, home')
  PROVE  /\ views' \in [Workspaces -> Seq(Pages)] /\ PagesInv' /\ Kin(views, views')
         /\ \A u \in Workspaces : Len(views'[u]) = Len(views[u])
         /\ \A u \in Workspaces : \A i \in 1 .. Len(views[u]) :
              views'[u][i] = IF u = v /\ i = spot THEN p ELSE views[u][i]
         /\ OrderIsDaemons' /\ tab_order' \in Seq(Nat) /\ untold' \in BOOLEAN
<1>1. views \in [Workspaces -> Seq(Pages)] /\ OnePage(views)
  BY DEF TabTypes, PagesInv
<1>2. views' = WithPage(views, v, spot, p) /\ p.key = views[v][spot].key /\ p.tab = views[v][spot].tab
  BY DEF Alters
<1>3. /\ views' \in [Workspaces -> Seq(Pages)] /\ OnePage(views')
      /\ \A u \in Workspaces : Len(views'[u]) = Len(views[u])
      /\ \A u \in Workspaces : \A i \in 1 .. Len(views[u]) :
           /\ views'[u][i] = IF u = v /\ i = spot THEN p ELSE views[u][i]
           /\ views'[u][i].key = views[u][i].key /\ views'[u][i].tab = views[u][i].tab
  BY <1>1, <1>2, PageAltered
<1>4. PagesAtHome(views', home')
  BY <1>3, HomeStepKeeps DEF PagesInv, PagesAtHome
<1>5. Kin(views, views')
  BY <1>3 DEF Kin, Alters
<1>6. OrderIsDaemons' /\ tab_order' \in Seq(Nat) /\ untold' \in BOOLEAN
  BY <1>3, SameOrder DEF Workspaces
<1> QED
  BY <1>3, <1>4, <1>5, <1>6 DEF PagesInv

-----------------------------------------------------------------------------
(* The steps                                                                 *)

LEMMA InvParts ==
  ASSUME TabInv
  PROVE  /\ TabTypes /\ PagesInv /\ SelectedIn /\ FocusAtHome /\ TitleAtHome /\ RefsInv
         /\ (front = 1 \/ several)
         /\ OrderHolds /\ OrderIsDaemons /\ TitleIsOfFront /\ TitlesAreTheUsers /\ TabIdsAreOwn /\ MenuSpares
BY DEF TabInv, TabPagesSafe

LEMMA ViewsTyped ==
  ASSUME TabTypes
  PROVE  /\ views \in [Workspaces -> Seq(Pages)] /\ front \in Workspaces
         /\ \A v \in Workspaces : Len(views[v]) \in Nat /\ DOMAIN views[v] = 1 .. Len(views[v])
            /\ selected[v] \in Nat
BY EachPage DEF TabTypes

LEMMA ShownIsHome ==
  ASSUME TabInv, NEW v \in Workspaces, NEW i \in 1 .. Len(views[v]), ShownPane(v, views[v][i]) # 0
  PROVE  ShownPane(v, views[v][i]) \in 1 .. Len(home) /\ home[ShownPane(v, views[v][i])] = v
<1>1. TabTypes /\ PagesAtHome(views, home) /\ FocusAtHome /\ views \in [Workspaces -> Seq(Pages)]
  BY InvParts DEF PagesInv, TabTypes
<1>2. PICK pg, f : pg = views[v][i] /\ f = focus_tracker[v]
  OBVIOUS
<1>3. f # 0 => f \in 1 .. Len(home) /\ home[f] = v
  BY <1>1, <1>2 DEF FocusAtHome
<1>4. \A x \in ToSet(pg.panes) : x \in 1 .. Len(home) /\ home[x] = v
  BY <1>1, <1>2 DEF PagesAtHome, AtHome
<1>5. pg.panes[1] \in 1 .. Len(home) /\ home[pg.panes[1]] = v
  BY <1>1, <1>2, HomeTyped, PaneOfPage, ZenonT(60)
<1> QED
  BY <1>2, <1>3, <1>4, <1>5 DEF ShownPane

(* The invariant in parts, one for each thing a step may touch.              *)
FocusOK == FocusAtHome /\ focus_tracker \in [Workspaces -> Nat]
TitleOK ==
  /\ TitleAtHome /\ TitleIsOfFront /\ title \in [prefix : {"none", "workspace", "rest of a title"}, pane : Nat]
  /\ front \in Workspaces /\ several \in BOOLEAN /\ (front = 1 \/ several)
RefsOK == RefsInv /\ tabMenu \in Refs /\ tabDialog \in Refs
SelectedOK == SelectedIn /\ selected \in [Workspaces -> Nat]
NamesOK ==
  /\ TitlesAreTheUsers /\ TabIdsAreOwn
  /\ custom_titles \in [Workspaces -> SUBSET Keys] /\ tab_id_map \in [Workspaces -> [Keys -> Nat]]
PagesOK ==
  /\ views \in [Workspaces -> Seq(Pages)] /\ PagesInv /\ home \in Seq(Workspaces)
  /\ OrderHolds /\ OrderIsDaemons /\ tab_order \in Seq(Nat) /\ untold \in BOOLEAN

LEMMA InvGroups ==
  ASSUME TabInv
  PROVE  TabTypes /\ FocusOK /\ TitleOK /\ RefsOK /\ SelectedOK /\ NamesOK /\ PagesOK /\ MenuSpares
BY DEF TabInv, TabPagesSafe, TabTypes, FocusOK, TitleOK, RefsOK, SelectedOK, NamesOK, PagesOK

LEMMA InvNow ==
  ASSUME FocusOK', TitleOK', RefsOK', SelectedOK', NamesOK', PagesOK', MenuSpares'
  PROVE  TabInv'
BY DEF TabInv, TabPagesSafe, TabTypes, FocusOK, TitleOK, RefsOK, SelectedOK, NamesOK, PagesOK

LEMMA TabsPlaces ==
  ASSUME NEW s \in Seq(Pages), NEW x
  PROVE  x \in TabsOf(s) <=> \E p \in ToSet(s) : p.tab = x
<1>1. \A p : p \in ToSet(s) <=> \E k \in 1 .. Len(s) : s[k] = p
  BY InToSet
<1> QED
  BY <1>1 DEF TabsOf

(* As many pages as tabs in the daemon's order.                              *)
LEMMA SameLength ==
  ASSUME NEW s \in Seq(Pages), NEW o \in Seq(Nat), IsInjective(o), ToSet(o) = TabsOf(s),
         \A i, j \in 1 .. Len(s) : s[i].tab = s[j].tab => i = j
  PROVE  Len(o) = Len(s)
<1> DEFINE T == TabsOf(s)
           m == Len(s)
           n == Len(o)
           f == [i \in 1 .. m |-> s[i].tab]
           g == [i \in 1 .. n |-> o[i]]
<1>1. m \in Nat /\ n \in Nat
  OBVIOUS
<1>2. \A i, j \in 1 .. n : o[i] = o[j] => i = j
  BY DistinctPlaces
<1>3. T = {s[i].tab : i \in 1 .. m} /\ T = {o[i] : i \in 1 .. n}
  <2>1. DOMAIN o = 1 .. n
    OBVIOUS
  <2>2. ToSet(o) = {o[i] : i \in 1 .. n}
    BY <2>1, Zenon DEF ToSet
  <2> QED
    BY <2>2 DEF TabsOf
<1>4. /\ f \in [1 .. m -> T] /\ \A i \in 1 .. m : f[i] = s[i].tab
      /\ g \in [1 .. n -> T] /\ \A i \in 1 .. n : g[i] = o[i]
  BY <1>3
<1> HIDE DEF T, m, n, f, g
<1>5. f \in Bijection(1 .. m, T)
  <2>1. f \in Injection(1 .. m, T)
    BY <1>4 DEF Injection, IsInjective, m
  <2>2. f \in Surjection(1 .. m, T)
    BY <1>3, <1>4 DEF Surjection
  <2> QED
    BY <2>1, <2>2 DEF Bijection
<1>6. g \in Bijection(1 .. n, T)
  <2>1. g \in Injection(1 .. n, T)
    BY <1>2, <1>4 DEF Injection, IsInjective
  <2>2. g \in Surjection(1 .. n, T)
    BY <1>3, <1>4, ZenonT(60) DEF Surjection
  <2> QED
    BY <2>1, <2>2 DEF Bijection
<1>7. Cardinality(T) = m /\ Cardinality(T) = n
  BY <1>1, <1>5, <1>6, FS_CountingElements DEF ExistsBijection
<1> QED
  BY <1>7 DEF m, n

LEMMA SameTabs ==
  ASSUME OrderHolds, UNCHANGED tab_order, Len(views'[1]) = Len(views[1]),
         \A i \in 1 .. Len(views[1]) : views'[1][i].tab = views[1][i].tab
  PROVE  OrderHolds'
<1>1. TabsOf(views'[1]) = TabsOf(views[1])
  BY DEF TabsOf
<1> QED
  BY <1>1 DEF OrderHolds

LEMMA TitleStays ==
  ASSUME TabInv, HomeStep, UNCHANGED <<title, front, several>>
  PROVE  TitleOK'
<1>1. TabTypes /\ TitleOK
  BY InvGroups
<1> QED
  BY <1>1, TitleKept DEF TitleOK

LEMMA FocusStays == ASSUME TabInv, HomeStep, UNCHANGED focus_tracker PROVE FocusOK'
<1>1. TabTypes /\ FocusOK
  BY InvGroups
<1> QED
  BY <1>1, FocusKept DEF FocusOK

LEMMA RefsStay ==
  ASSUME TabInv, HomeStep, views' \in [Workspaces -> Seq(Pages)], Kin(views, views'),
         tabMenu' \in {tabMenu, NoPage}, tabDialog' \in {tabDialog, tabMenu, NoPage}
  PROVE  RefsOK'
<1>1. TabTypes /\ RefsInv /\ tabMenu \in Refs /\ tabDialog \in Refs
  BY InvGroups DEF RefsOK
<1>2. RefFits(tabMenu, views', home') /\ RefFits(tabDialog, views', home') /\ RefFits(NoPage, views', home')
  BY <1>1, KinKeep, NoRefFits
<1>3. NoPage \in Refs
  BY DEF Refs
<1> QED
  BY <1>1, <1>2, <1>3 DEF RefsOK, RefsInv

LEMMA PagesStay ==
  ASSUME TabInv, UNCHANGED <<views, home, tab_order, untold>>
  PROVE  PagesOK'
<1>1. PagesOK
  BY InvGroups
<1> QED
  BY <1>1 DEF PagesOK, PagesInv, OrderIsDaemons, OrderHolds

LEMMA NamesStay ==
  ASSUME TabInv, UNCHANGED <<views, custom_titles, tab_id_map>>
  PROVE  NamesOK'
<1>1. NamesOK
  BY InvGroups
<1> QED
  BY <1>1 DEF NamesOK, TitlesAreTheUsers, TabIdsAreOwn

LEMMA SelectedStays ==
  ASSUME TabInv, UNCHANGED selected, \A v \in Workspaces : Len(views'[v]) = Len(views[v])
  PROVE  SelectedOK'
<1>1. SelectedOK
  BY InvGroups
<1> QED
  BY <1>1 DEF SelectedOK, SelectedIn

(* What leaves the pages alone.                                              *)
LEMMA ViewsStay ==
  ASSUME TabInv, UNCHANGED <<views, selected, custom_titles, tab_id_map, order, home, spoiled>>,
         FocusOK', TitleOK',
         tabMenu' \in {tabMenu, NoPage}, tabDialog' \in {tabDialog, tabMenu, NoPage}
  PROVE  TabInv'
<1>1. HomeStep /\ views' \in [Workspaces -> Seq(Pages)] /\ Kin(views, views') /\ MenuSpares
  BY InvGroups, KinSame DEF HomeStep, PagesOK
<1>2. RefsOK'
  BY <1>1, RefsStay
<1>3. PagesOK' /\ NamesOK' /\ SelectedOK'
  BY PagesStay, NamesStay, SelectedStays DEF order
<1>4. MenuSpares'
  BY <1>1 DEF MenuSpares
<1> QED
  BY <1>2, <1>3, <1>4, InvNow

(* What alters one page, keeping its key and tab.                            *)
LEMMA AlteredKeeps ==
  ASSUME TabInv, HomeStep, UNCHANGED <<selected, tab_id_map, order, spoiled>>, FocusOK', TitleOK',
         tabMenu' \in {tabMenu, NoPage}, tabDialog' \in {tabDialog, tabMenu, NoPage},
         NEW v \in Workspaces, NEW spot \in 1 .. Len(views[v]),
         NEW p \in Pages, Alters(v, spot, p), AtHome(v, p, home'),
         custom_titles' \in [Workspaces -> SUBSET Keys], TitleRight(custom_titles'[v], p),
         \A u \in Workspaces : \A i \in 1 .. Len(views[u]) :
           (u = v /\ i = spot) \/ (views[u][i].key \in custom_titles'[u] <=> views[u][i].key \in custom_titles[u])
  PROVE  TabInv'
<1>1. TabTypes /\ PagesInv /\ OrderIsDaemons /\ RefsInv /\ TabIdsAreOwn /\ TitlesAreTheUsers /\ MenuSpares
  BY InvParts
<1>2. UNCHANGED order /\ UNCHANGED tab_id_map
  OBVIOUS
<1>3. /\ views' \in [Workspaces -> Seq(Pages)] /\ PagesInv' /\ Kin(views, views')
      /\ \A u \in Workspaces : Len(views'[u]) = Len(views[u])
      /\ \A u \in Workspaces : \A i \in 1 .. Len(views[u]) :
           views'[u][i] = IF u = v /\ i = spot THEN p ELSE views[u][i]
      /\ OrderIsDaemons' /\ tab_order' \in Seq(Nat) /\ untold' \in BOOLEAN
  BY <1>1, <1>2, AlteredPages
<1>4. RefsOK' /\ SelectedOK'
  BY <1>3, RefsStay, SelectedStays
<1>5. TabIdsAreOwn'
  BY <1>1, <1>2, <1>3, KinKeep
<1>6. TitlesAreTheUsers'
  <2>1. TitlesRight(views, custom_titles)
    BY <1>1, TitlesThen
  <2>2. TitlesRight(views', custom_titles')
    <3> SUFFICES ASSUME NEW u \in Workspaces, NEW i \in 1 .. Len(views[u])
                 PROVE  TitleRight(custom_titles'[u], views'[u][i])
      BY <1>3 DEF TitlesRight
    <3>1. CASE u = v /\ i = spot
      BY <1>3, <3>1
    <3>2. CASE ~(u = v /\ i = spot)
      <4>1. views'[u][i] = views[u][i]
        BY <1>3, <3>2
      <4>2. TitleRight(custom_titles[u], views[u][i])
        BY <2>1 DEF TitlesRight
      <4> QED
        BY <3>2, <4>1, <4>2 DEF TitleRight
    <3> QED
      BY <3>1, <3>2
  <2> QED
    BY <1>3, <2>2, TitlesNow
<1>7. NamesOK' /\ PagesOK' /\ MenuSpares'
  <2>1. tab_id_map \in [Workspaces -> [Keys -> Nat]]
    BY <1>1 DEF TabTypes
  <2>2. home' \in Seq(Workspaces)
    BY <1>1, HomeStepKeeps
  <2>3. OrderHolds'
    <3>1. \A i \in 1 .. Len(views[1]) : views'[1][i].tab = views[1][i].tab
      BY <1>3 DEF Alters, Workspaces
    <3>2. Len(views'[1]) = Len(views[1]) /\ UNCHANGED tab_order /\ OrderHolds
      BY <1>3, InvParts DEF Workspaces, order
    <3> QED
      BY <3>1, <3>2, SameTabs
  <2> QED
    BY <1>1, <1>3, <1>5, <1>6, <2>1, <2>2, <2>3 DEF NamesOK, PagesOK, MenuSpares
<1> QED
  BY <1>4, <1>7, InvNow

LEMMA TitleTimerKeeps == ASSUME TabInv, NEW v \in Workspaces, TitleTimer(v) PROVE TabInv'
<1> DEFINE spot == selected[v]
           pg == views[v][spot]
           t == IF pg.key \in custom_titles[v] THEN pg.title ELSE "auto"
           p == [pg EXCEPT !.title = t]
<1>1. /\ TabTypes /\ PagesInv /\ SelectedIn /\ FocusAtHome /\ TitleAtHome /\ RefsInv /\ (front = 1 \/ several)
      /\ OrderIsDaemons /\ TitleIsOfFront /\ TitlesAreTheUsers /\ TabIdsAreOwn /\ MenuSpares
  BY InvParts
<1>2. /\ views \in [Workspaces -> Seq(Pages)] /\ spot \in 1 .. Len(views[v]) /\ pg \in Pages
  <2>1. views \in [Workspaces -> Seq(Pages)] /\ Len(views[v]) \in Nat /\ selected[v] \in Nat
    BY <1>1, ViewsTyped
  <2>2. spot \in 1 .. Len(views[v])
    BY <1>1, <2>1 DEF TitleTimer, SelectedIn
  <2> QED
    BY <2>1, <2>2, EachPage
<1>3. /\ UNCHANGED <<selected, desk, focus_tracker, custom_titles, tab_id_map, dashing, popped, order,
                     home, spoiled>>
      /\ views' = WithPage(views, v, spot, p)
  BY <1>2 DEF TitleTimer, WithPage
<1>4. /\ p \in Pages /\ p.key = pg.key /\ p.tab = pg.tab /\ p.by = pg.by /\ p.panes = pg.panes
      /\ p.named = pg.named /\ p.inherits = pg.inherits /\ p.title = t
  BY <1>2 DEF Pages
<1> HIDE DEF p
<1>5. HomeStep /\ home' = home
  BY <1>3 DEF HomeStep
<1>6. AtHome(v, p, home')
  BY <1>1, <1>2, <1>4, <1>5 DEF PagesInv, PagesAtHome, AtHome
<1>7. Alters(v, spot, p)
  BY <1>3, <1>4 DEF Alters
<1>8. TitleRight(custom_titles'[v], p) /\ custom_titles' \in [Workspaces -> SUBSET Keys]
  <2>1. TitlesRight(views, custom_titles)
    BY <1>1, TitlesThen
  <2>2. TitleRight(custom_titles[v], pg)
    BY <1>2, <2>1 DEF TitlesRight
  <2> QED
    BY <1>1, <1>3, <1>4, <2>2 DEF TitleRight, TabTypes
<1>9. TitleOK'
  <2>1. /\ title \in [prefix : {"none", "workspace", "rest of a title"}, pane : Nat]
        /\ front \in Workspaces /\ several \in BOOLEAN /\ (front = 1 \/ several)
    BY <1>1 DEF TabTypes
  <2>2. front' = front /\ several' = several
    BY <1>3 DEF desk
  <2>3. CASE UNCHANGED title
    BY <1>5, <2>2, <2>3, TitleStays
  <2>4. CASE ~ UNCHANGED title
    <3>1. PICK x : x = ShownPane(v, pg)
      OBVIOUS
    <3>2. x # 0 /\ front = v /\ set_window_title_preserving_workspace(x)
      BY <2>4, <3>1 DEF TitleTimer, Parented
    <3>3. x \in 1 .. Len(home) /\ home[x] = v
      <4> HIDE DEF spot
      <4> QED
        BY <1>2, <3>1, <3>2, ShownIsHome
    <3>4. x \in Nat
      BY <1>1, <3>3, HomeTyped
    <3>5. title'.pane = x
          /\ title'.prefix \in {title.prefix, IF title.prefix = "none" THEN "rest of a title" ELSE title.prefix}
      BY <3>2 DEF set_window_title_preserving_workspace
    <3>6. title' \in [prefix : {"none", "workspace", "rest of a title"}, pane : Nat]
      BY <2>1, <3>2, <3>4 DEF set_window_title_preserving_workspace
    <3>7. TitleAtHome' /\ TitleIsOfFront'
      BY <1>1, <1>5, <2>2, <3>2, <3>3, <3>5, <3>6 DEF TitleAtHome, TitleIsOfFront
    <3> QED
      BY <2>1, <2>2, <3>6, <3>7 DEF TitleOK
  <2> QED
    BY <2>3, <2>4
<1>10. FocusOK'
  BY <1>3, <1>5, FocusStays
<1>11. /\ UNCHANGED <<selected, tab_id_map, order, spoiled, custom_titles>>
       /\ tabMenu' = tabMenu /\ tabDialog' = tabDialog
  BY <1>3 DEF popped
<1> HIDE DEF spot
<1> QED
  BY <1>2, <1>4, <1>5, <1>6, <1>7, <1>8, <1>9, <1>10, <1>11, AlteredKeeps

LEMMA OscTitleKeeps == ASSUME TabInv, NEW pane, OscTitle(pane) PROVE TabInv'
<1>1. /\ UNCHANGED <<views, selected, custom_titles, tab_id_map, order, home, spoiled>>
      /\ UNCHANGED focus_tracker /\ UNCHANGED <<title, front, several>>
      /\ tabMenu' = tabMenu /\ tabDialog' = tabDialog /\ HomeStep
  BY DEF OscTitle, desk, popped, HomeStep
<1>2. FocusOK' /\ TitleOK'
  BY <1>1, FocusStays, TitleStays
<1> QED
  BY <1>1, <1>2, ViewsStay

LEMMA DismissTabKeeps == ASSUME TabInv, DismissTab PROVE TabInv'
<1>1. /\ UNCHANGED <<views, selected, custom_titles, tab_id_map, order, home, spoiled>>
      /\ UNCHANGED focus_tracker /\ UNCHANGED <<title, front, several>>
      /\ tabMenu' = NoPage /\ tabDialog' = NoPage /\ HomeStep
  BY DEF DismissTab, desk, HomeStep
<1>2. FocusOK' /\ TitleOK'
  BY <1>1, FocusStays, TitleStays
<1> QED
  BY <1>1, <1>2, ViewsStay

LEMMA ShowDialogKeeps == ASSUME TabInv, show_change_tab_title_dialog PROVE TabInv'
<1>1. /\ UNCHANGED <<views, selected, custom_titles, tab_id_map, order, home, spoiled>>
      /\ UNCHANGED focus_tracker /\ UNCHANGED <<title, front, several>>
      /\ tabMenu' = NoPage /\ tabDialog' = tabMenu /\ HomeStep
  BY DEF show_change_tab_title_dialog, Clicked, desk, HomeStep
<1>2. FocusOK' /\ TitleOK'
  BY <1>1, FocusStays, TitleStays
<1> QED
  BY <1>1, <1>2, ViewsStay

LEMMA ShowMenuKeeps == ASSUME TabInv, NEW i, show_tab_context_menu(i) PROVE TabInv'
<1>1. TabTypes /\ PagesInv /\ RefsInv /\ MenuSpares
  BY InvParts
<1>2. /\ UNCHANGED <<views, custom_titles, tab_id_map>> /\ UNCHANGED <<views, home, tab_order, untold>>
      /\ UNCHANGED selected /\ UNCHANGED spoiled
      /\ UNCHANGED focus_tracker /\ UNCHANGED <<title, front, several>>
      /\ tabDialog' = tabDialog /\ HomeStep /\ \A v \in Workspaces : Len(views'[v]) = Len(views[v])
  BY DEF show_tab_context_menu, desk, order, HomeStep
<1>3. FocusOK' /\ TitleOK' /\ PagesOK' /\ NamesOK' /\ SelectedOK'
  BY <1>2, FocusStays, TitleStays, PagesStay, NamesStay, SelectedStays
<1>4. RefsOK'
  <2>1. i \in 1 .. Len(views[front])
    BY <1>1, ViewsTyped DEF show_tab_context_menu
  <2>2. RefFits(tabMenu', views', home') /\ tabMenu' \in Refs
    BY <1>1, <1>2, <2>1, PageRefFits DEF show_tab_context_menu
  <2>3. RefFits(tabDialog', views', home') /\ tabDialog' \in Refs
    BY <1>1, <1>2 DEF RefsInv, TabTypes
  <2> QED
    BY <2>2, <2>3 DEF RefsOK, RefsInv
<1> QED
  BY <1>1, <1>2, <1>3, <1>4, InvNow DEF MenuSpares

LEMMA SelectPageKeeps == ASSUME TabInv, NEW v \in Workspaces, NEW i, select_page(v, i) PROVE TabInv'
<1>1. TabTypes /\ FocusAtHome /\ SelectedIn /\ MenuSpares /\ PagesInv
  BY InvParts
<1>2. /\ UNCHANGED <<views, custom_titles, tab_id_map>> /\ UNCHANGED <<views, home, tab_order, untold>>
      /\ UNCHANGED spoiled /\ UNCHANGED <<title, front, several>>
      /\ tabMenu' = tabMenu /\ tabDialog' = tabDialog /\ HomeStep
      /\ selected' = [selected EXCEPT ![v] = i] /\ Focuses(v, i)
  BY DEF select_page, desk, order, popped, HomeStep
<1>3. i \in 1 .. Len(views[v]) /\ views \in [Workspaces -> Seq(Pages)] /\ Len(views[v]) \in Nat
  BY <1>1, ViewsTyped DEF select_page
<1>4. TitleOK' /\ PagesOK' /\ NamesOK' /\ RefsOK'
  <2>1. Kin(views, views') /\ views' \in [Workspaces -> Seq(Pages)]
    BY <1>2, <1>3, KinSame
  <2> QED
    BY <1>2, <2>1, TitleStays, PagesStay, NamesStay, RefsStay
<1>5. FocusOK'
  <2>1. i \in 0 .. Len(views'[v]) /\ PagesAtHome(views', home') /\ views' \in [Workspaces -> Seq(Pages)]
    BY <1>1, <1>2, <1>3 DEF PagesInv
  <2> QED
    BY <1>1, <1>2, <2>1, FocusesFits DEF FocusOK
<1>6. SelectedOK'
  <2>a. selected \in [Workspaces -> Nat]
    BY <1>1 DEF TabTypes
  <2>1. selected \in [Workspaces -> Nat] /\ i \in Nat /\ i <= Len(views[v])
    <3>1. PICK n \in Nat : n = Len(views[v])
      BY <1>3
    <3>2. i \in 1 .. n
      BY <1>3, <3>1
    <3> QED
      BY <2>a, <3>1, <3>2
  <2>2. /\ selected' \in [Workspaces -> Nat] /\ selected'[v] = i
        /\ \A u \in Workspaces \ {v} : selected'[u] = selected[u]
    BY <1>2, <2>1
  <2> QED
    BY <1>1, <1>2, <2>1, <2>2 DEF SelectedOK, SelectedIn
<1> QED
  BY <1>1, <1>2, <1>4, <1>5, <1>6, InvNow DEF MenuSpares

(* A pane comes to a page, or goes from it.                                  *)
LEMMA PanesAlter ==
  ASSUME TabTypes, PagesInv, TitlesAreTheUsers, NEW v \in Workspaces, NEW spot \in 1 .. Len(views[v]),
         NEW s \in Seq(Nat),
         NEW o, o = views[v][spot], NEW p, p = [o EXCEPT !.panes = s], views' = WithPage(views, v, spot, p),
         NEW h, Len(home) \in Nat, Len(h) \in Nat, Len(home) <= Len(h),
         s # <<>>, \A x \in ToSet(s) : x \in 1 .. Len(h) /\ h[x] = v
  PROVE  p \in Pages /\ Alters(v, spot, p) /\ AtHome(v, p, h) /\ TitleRight(custom_titles[v], p)
<1>1. PICK q \in Pages : q = views[v][spot]
  BY EachPage DEF TabTypes
<1>2. /\ p \in Pages /\ p.key = q.key /\ p.tab = q.tab /\ p.by = q.by /\ p.panes = s
      /\ p.named = q.named /\ p.inherits = q.inherits /\ p.title = q.title
  BY <1>1 DEF Pages
<1>3. q.tab \in 1 .. Len(home)
  BY <1>1 DEF PagesInv, PagesAtHome, AtHome
<1>4. AtHome(v, p, h)
  BY <1>2, <1>3 DEF AtHome
<1>5. TitleRight(custom_titles[v], q)
  BY <1>1, TitlesThen DEF TitlesRight
<1>6. TitleRight(custom_titles[v], p)
  BY <1>2, <1>5 DEF TitleRight
<1> QED
  BY <1>1, <1>2, <1>4, <1>6 DEF Alters

LEMMA SplitKeeps == ASSUME TabInv, split_pane PROVE TabInv'
<1>1. /\ TabTypes /\ PagesInv /\ SelectedIn /\ FocusAtHome /\ TitlesAreTheUsers
  BY InvParts
<1>2. PICK v, spot : v = front /\ spot = selected[front]
  OBVIOUS
<1>3. /\ v \in Workspaces /\ spot \in 1 .. Len(views[v]) /\ views \in [Workspaces -> Seq(Pages)]
      /\ home \in Seq(Workspaces) /\ Len(home) \in Nat /\ Next_ = Len(home) + 1
  BY <1>1, <1>2, ViewsTyped, HomeTyped DEF split_pane, SelectedIn, Next_
<1>4. PICK q \in Pages : q = views[v][spot]
  BY <1>3, EachPage
<1>a. PICK r \in Seq(Nat), n \in Nat : r = q.panes /\ n = Len(home) + 1
  BY <1>3, <1>4, PageFields
<1>5. PICK s \in Seq(Nat) : s = Append(r, n)
  BY AppendProperties, <1>a
<1>6. PICK p : p = [q EXCEPT !.panes = s]
  OBVIOUS
<1>7. /\ UNCHANGED <<selected, tab_id_map, order, spoiled>> /\ UNCHANGED custom_titles
      /\ UNCHANGED <<title, front, several>> /\ tabMenu' = tabMenu /\ tabDialog' = tabDialog
      /\ home' = Append(home, v) /\ focus_tracker' = [focus_tracker EXCEPT ![v] = Len(home) + 1]
  BY <1>2, <1>3 DEF split_pane, Started, desk, popped
<1>8. HomeStep /\ Len(home') = Len(home) + 1 /\ home'[Len(home) + 1] = v
      /\ \A x \in 1 .. Len(home) : home'[x] = home[x]
  BY <1>3, <1>7, HomeOfOne DEF HomeStep
<1>9. views' = WithPage(views, v, spot, p)
  BY <1>2, <1>3, <1>4, <1>a, <1>5, <1>6 DEF split_pane, WithPage
<1>10. s # <<>> /\ \A x \in ToSet(s) : x \in 1 .. Len(home') /\ home'[x] = v
  <2>1. q.panes \in Seq(Nat) /\ \A x \in ToSet(q.panes) : x \in 1 .. Len(home) /\ home[x] = v
    BY <1>1, <1>3, <1>4, PageFields DEF PagesInv, PagesAtHome, AtHome
  <2>2. ToSet(s) = ToSet(r) \cup {n} /\ Len(s) = Len(r) + 1
    BY <1>5, AppendProperties, AppendHolds
  <2>3. Len(r) \in Nat
    OBVIOUS
  <2>4. s # <<>>
    BY <1>5, <2>2, <2>3
  <2>5. n \in 1 .. Len(home') /\ home'[n] = v
    BY <1>3, <1>a, <1>8
  <2>6. ASSUME NEW x \in ToSet(r) PROVE x \in 1 .. Len(home') /\ home'[x] = v
    <3>1. x \in 1 .. Len(home) /\ home[x] = v
      BY <1>a, <2>1
    <3> QED
      BY <1>3, <1>8, <3>1
  <2> QED
    BY <2>2, <2>4, <2>5, <2>6
<1>11. p \in Pages /\ Alters(v, spot, p) /\ AtHome(v, p, home') /\ TitleRight(custom_titles[v], p)
  <2>1. Len(home') \in Nat /\ Len(home) <= Len(home')
    BY <1>3, <1>8
  <2> QED
    BY <1>1, <1>3, <1>4, <1>5, <1>6, <1>9, <1>10, <2>1, PanesAlter
<1>12. FocusOK' /\ TitleOK'
  <2>1. Len(home) + 1 \in 1 .. Len(home')
    BY <1>3, <1>8
  <2> QED
    BY <1>1, <1>3, <1>7, <1>8, <2>1, FocusSet, TitleStays DEF FocusOK
<1>13. custom_titles' \in [Workspaces -> SUBSET Keys]
  BY <1>1, <1>7 DEF TabTypes
<1> QED
  BY <1>3, <1>7, <1>8, <1>11, <1>12, <1>13, AlteredKeeps

LEMMA ShellExitsKeeps == ASSUME TabInv, NEW v \in Workspaces, NEW spot, ShellExits(v, spot) PROVE TabInv'
<1>1. /\ TabTypes /\ PagesInv /\ SelectedIn /\ FocusAtHome /\ TitlesAreTheUsers
  BY InvParts
<1>2. /\ spot \in 1 .. Len(views[v]) /\ views \in [Workspaces -> Seq(Pages)]
      /\ home \in Seq(Workspaces) /\ Len(home) \in Nat /\ Len(views[v][spot].panes) > 1
  BY <1>1, ViewsTyped, HomeTyped DEF ShellExits
<1>3. PICK q \in Pages : q = views[v][spot]
  BY <1>2, EachPage
<1>4. q.panes \in Seq(Nat) /\ Len(q.panes) \in Nat /\ DOMAIN q.panes = 1 .. Len(q.panes)
  BY PageFields
<1>5. PICK k \in 1 .. Len(q.panes) :
        /\ views' = [views EXCEPT ![v][spot].panes = RemoveAt(@, k)]
        /\ IF focus_tracker[v] = q.panes[k] THEN Focuses(v, spot) ELSE UNCHANGED focus_tracker
  BY <1>3, <1>4 DEF ShellExits
<1>6. PICK s \in Seq(Nat) : s = RemoveAt(q.panes, k) /\ Len(s) = Len(q.panes) - 1
        /\ \A j \in 1 .. Len(q.panes) - 1 : s[j] = IF j < k THEN q.panes[j] ELSE q.panes[j + 1]
  <2>1. PICK r \in Seq(Nat) : r = q.panes
    BY <1>4
  <2>2. k \in 1 .. Len(r)
    BY <1>5, <2>1
  <2>3. PICK s \in Seq(Nat) : s = RemoveAt(r, k) /\ Len(s) = Len(r) - 1
          /\ \A j \in 1 .. Len(r) - 1 : s[j] = IF j < k THEN r[j] ELSE r[j + 1]
    BY <2>2, RemoveAtProperties
  <2> QED
    BY <2>1, <2>3
<1>7. PICK p : p = [q EXCEPT !.panes = s]
  OBVIOUS
<1>8. /\ UNCHANGED <<selected, tab_id_map, order, spoiled>> /\ UNCHANGED custom_titles
      /\ UNCHANGED <<title, front, several>> /\ tabMenu' = tabMenu /\ tabDialog' = tabDialog
      /\ home' = home /\ HomeStep
  BY DEF ShellExits, desk, popped, HomeStep
<1>9. views' = WithPage(views, v, spot, p)
  BY <1>2, <1>3, <1>5, <1>6, <1>7 DEF WithPage
<1>10. s # <<>> /\ \A x \in ToSet(s) : x \in 1 .. Len(home') /\ home'[x] = v
  <2>1. \A x \in ToSet(q.panes) : x \in 1 .. Len(home) /\ home[x] = v
    BY <1>1, <1>2, <1>3 DEF PagesInv, PagesAtHome, AtHome
  <2>2. \A j \in 1 .. Len(s) : s[j] \in ToSet(q.panes)
    <3>1. \A j \in 1 .. Len(q.panes) : q.panes[j] \in ToSet(q.panes)
      BY <1>4, InToSet
    <3>2. ASSUME NEW j \in 1 .. Len(s) PROVE j \in 1 .. Len(q.panes) /\ j + 1 \in 1 .. Len(q.panes)
      BY <1>4, <1>6
    <3> QED
      BY <1>4, <1>6, <3>1, <3>2
  <2>3. ToSet(s) \subseteq ToSet(q.panes)
    BY <2>2, InToSet
  <2>4. s # <<>>
    BY <1>2, <1>3, <1>4, <1>6, EmptySeq
  <2> QED
    BY <1>8, <2>1, <2>3, <2>4
<1>11. p \in Pages /\ Alters(v, spot, p) /\ AtHome(v, p, home') /\ TitleRight(custom_titles[v], p)
  <2>1. Len(home') \in Nat /\ Len(home) <= Len(home')
    BY <1>2, <1>8
  <2> QED
    BY <1>1, <1>2, <1>3, <1>6, <1>7, <1>9, <1>10, <2>1, PanesAlter
<1>12. FocusOK'
  <2>1. CASE UNCHANGED focus_tracker
    BY <1>8, <2>1, FocusStays
  <2>2. CASE Focuses(v, spot)
    <3>1. /\ views' \in [Workspaces -> Seq(Pages)] /\ PagesAtHome(views', home')
          /\ Len(views'[v]) = Len(views[v])
      <4>1. UNCHANGED order /\ OrderIsDaemons
        BY <1>8, InvParts
      <4> QED
        BY <1>1, <1>2, <1>8, <1>11, <4>1, AlteredPages DEF PagesInv
    <3>2. spot \in 0 .. Len(views'[v])
      BY <1>2, <3>1
    <3> QED
      BY <1>1, <1>8, <2>2, <3>1, <3>2, FocusesFits DEF FocusOK
  <2> QED
    BY <1>5, <2>1, <2>2
<1>13. custom_titles' \in [Workspaces -> SUBSET Keys] /\ TitleOK'
  BY <1>1, <1>8, TitleStays DEF TabTypes
<1> QED
  BY <1>2, <1>8, <1>11, <1>12, <1>13, AlteredKeeps

LEMMA ChangeTitleKeeps == ASSUME TabInv, NEW words \in {"", "user"}, ChangeTitle(words) PROVE TabInv'
<1>1. /\ TabTypes /\ PagesInv /\ RefsInv /\ TitlesAreTheUsers /\ TabIdsAreOwn /\ OrderIsDaemons /\ MenuSpares
      /\ views \in [Workspaces -> Seq(Pages)]
  BY InvParts DEF TabTypes
<1>2. tabDialog # NoPage /\ tabDialog \in Refs
  BY <1>1 DEF ChangeTitle, TabTypes
<1>3. PICK v \in Workspaces, key \in Keys, spot \in {Position(tabDialog)} :
        v = tabDialog.view /\ key = tabDialog.key /\ spot = Position(tabDialog)
  BY <1>2 DEF Refs
<1>4. \/ spot \in 1 .. Len(views[v]) /\ views[v][spot].tab = tabDialog.tab
      \/ spot = 0 /\ \A i \in 1 .. Len(views[v]) : views[v][i].tab # tabDialog.tab
  BY <1>1, <1>2, <1>3, PositionFinds
<1>5. \A i \in 1 .. Len(views[v]) : views[v][i].key = key => i = spot
  <2> SUFFICES ASSUME NEW i \in 1 .. Len(views[v]), views[v][i].key = key PROVE i = spot
    OBVIOUS
  <2>1. views[v][i].tab = tabDialog.tab
    BY <1>1, <1>2, <1>3 DEF RefsInv, RefFits
  <2>2. spot \in 1 .. Len(views[v]) /\ views[v][spot].tab = views[v][i].tab
    BY <1>4, <2>1
  <2> QED
    BY <1>1, <2>2 DEF PagesInv, OnePage
<1>6. PICK c \in SUBSET Keys : c = IF words = "" THEN custom_titles[v] \ {key} ELSE custom_titles[v] \cup {key}
  BY <1>1 DEF TabTypes
<1>7. /\ custom_titles' \in [Workspaces -> SUBSET Keys] /\ custom_titles'[v] = c
      /\ \A u \in Workspaces \ {v} : custom_titles'[u] = custom_titles[u]
  <2>1. custom_titles' = [custom_titles EXCEPT ![v] = c]
    BY <1>3, <1>6 DEF ChangeTitle
  <2> QED
    BY <1>1, <2>1 DEF TabTypes
<1>8. /\ UNCHANGED <<selected, tab_id_map, order, spoiled>> /\ UNCHANGED <<title, front, several>>
      /\ UNCHANGED focus_tracker
      /\ tabMenu' = tabMenu /\ tabDialog' = NoPage /\ home' = home /\ HomeStep
  BY DEF ChangeTitle, desk, HomeStep
<1>9. FocusOK' /\ TitleOK'
  BY <1>8, FocusStays, TitleStays
<1>10. \A u \in Workspaces : \A i \in 1 .. Len(views[u]) :
         (u = v /\ i = spot) \/ (views[u][i].key \in custom_titles'[u] <=> views[u][i].key \in custom_titles[u])
  <2> SUFFICES ASSUME NEW u \in Workspaces, NEW i \in 1 .. Len(views[u]), ~(u = v /\ i = spot)
               PROVE  views[u][i].key \in custom_titles'[u] <=> views[u][i].key \in custom_titles[u]
    OBVIOUS
  <2>1. CASE u # v
    BY <1>7, <2>1
  <2>2. CASE u = v
    <3>1. views[u][i].key # key
      BY <1>5, <2>2
    <3> QED
      BY <1>6, <1>7, <2>2, <3>1
  <2> QED
    BY <2>1, <2>2
<1>11. CASE spot = 0
  <2>1. views' = views /\ UNCHANGED <<views, home, tab_order, untold>> /\ UNCHANGED tab_id_map
    BY <1>3, <1>8, <1>11 DEF ChangeTitle, order
  <2>2. Kin(views, views') /\ \A u \in Workspaces : Len(views'[u]) = Len(views[u])
    BY <2>1, KinSame
  <2>3. PagesOK' /\ SelectedOK' /\ RefsOK'
    BY <1>1, <1>8, <2>1, <2>2, PagesStay, SelectedStays, RefsStay
  <2>4. TitlesAreTheUsers'
    <3>1. TitlesRight(views, custom_titles) /\ \A u \in Workspaces : \A i \in 1 .. Len(views[u]) : i # 0
      <4>1. TitlesRight(views, custom_titles)
        BY <1>1, TitlesThen
      <4>2. ASSUME NEW u \in Workspaces, NEW i \in 1 .. Len(views[u]) PROVE i # 0
        <5>1. PICK n \in Nat : n = Len(views[u])
          BY <1>1, EachPage
        <5>2. i \in 1 .. n
          BY <5>1
        <5> QED
          BY <5>2, PlaceIsNotZero
      <4> QED
        BY <4>1, <4>2
    <3>2. TitlesRight(views', custom_titles')
      BY <1>10, <1>11, <2>1, <3>1 DEF TitlesRight, TitleRight
    <3> QED
      BY <1>1, <2>1, <3>2, TitlesNow
  <2>5. NamesOK' /\ MenuSpares'
    <3>1. TabIdsAreOwn'
      BY <1>1, <2>1 DEF TabIdsAreOwn
    <3> QED
      BY <1>1, <1>7, <1>8, <2>1, <2>4, <3>1 DEF NamesOK, TabTypes, MenuSpares
  <2> QED
    BY <1>9, <2>3, <2>5, InvNow
<1>12. CASE spot # 0
  <2>1. spot \in 1 .. Len(views[v]) /\ views[v][spot].tab = tabDialog.tab
    BY <1>4, <1>12
  <2>2. PICK q \in Pages : q = views[v][spot]
    BY <1>1, <2>1, EachPage
  <2>3. q.key = key
    BY <1>1, <1>2, <1>3, <2>1, <2>2 DEF RefsInv, RefFits
  <2>4. PICK b \in BOOLEAN, t \in {"auto", "user"} :
          b = (words # "") /\ t = (IF words = "" THEN q.title ELSE "user")
    <3>1. q.title \in {"auto", "user"}
      BY PageFields
    <3>2. CASE words = ""
      <4>1. FALSE = (words # "")
        BY <3>2
      <4> QED
        BY <3>1, <3>2, <4>1, Zenon
    <3>3. CASE words # ""
      <4>1. TRUE = (words # "")
        BY <3>3
      <4> QED
        BY <3>3, <4>1, Zenon
    <3> QED
      BY <3>2, <3>3
  <2>5. PICK p : p = [q EXCEPT !.title = t, !.named = b, !.inherits = FALSE]
    OBVIOUS
  <2>6. /\ p \in Pages /\ p.key = key /\ p.tab = q.tab /\ p.by = q.by /\ p.panes = q.panes
        /\ p.title = t /\ p.named = b /\ p.inherits = FALSE
    BY <2>2, <2>3, <2>4, <2>5 DEF Pages
  <2>7. views' = WithPage(views, v, spot, p)
    <3>1. views' = [views EXCEPT ![v][spot].title = IF words = "" THEN @ ELSE "user",
                                 ![v][spot].named = words # "", ![v][spot].inherits = FALSE]
      BY <1>3, <1>12 DEF ChangeTitle
    <3> QED
      BY <1>1, <2>1, <2>2, <2>4, <2>5, <3>1, ZenonT(60) DEF WithPage
  <2>8. AtHome(v, p, home')
    BY <1>1, <1>8, <2>1, <2>2, <2>6 DEF PagesInv, PagesAtHome, AtHome
  <2>9. Alters(v, spot, p)
    BY <2>2, <2>3, <2>6, <2>7 DEF Alters
  <2>10. TitleRight(custom_titles'[v], p)
    <3>1. CASE words = ""
      <4>1. b = FALSE /\ key \notin c
        BY <1>6, <2>4, <3>1
      <4> QED
        BY <1>7, <2>6, <4>1 DEF TitleRight
    <3>2. CASE words # ""
      <4>1. b = TRUE /\ t = "user" /\ key \in c
        BY <1>6, <2>4, <3>2
      <4> QED
        BY <1>7, <2>6, <4>1 DEF TitleRight
    <3> QED
      BY <3>1, <3>2
  <2> QED
    BY <1>7, <1>8, <1>9, <1>10, <2>1, <2>6, <2>8, <2>9, <2>10, AlteredKeeps, ZenonT(60)
<1> QED
  BY <1>11, <1>12

-----------------------------------------------------------------------------
(* New pages                                                                 *)

LEMMA AddedHolds ==
  ASSUME TabTypes, PagesInv, NEW v \in Workspaces, NEW p \in Pages, Adds(v, p), OrderHolds
  PROVE  OrderHolds'
<1>1. /\ views \in [Workspaces -> Seq(Pages)] /\ tab_order \in Seq(Nat) /\ p.tab \in Nat
      /\ p.tab = Len(home) + 1
      /\ Len(home) \in Nat /\ 1 \in Workspaces
  BY HomeTyped, PageFields DEF TabTypes, Adds, Next_, Workspaces
<1>2. CASE v = 1
  <2>1. tab_order' = Append(tab_order, p.tab)
    BY <1>2 DEF Adds
  <2>2. PICK s \in Seq(Pages) : s = views[1]
    BY <1>1
  <2>3. Len(views'[1]) = Len(s) + 1 /\ views'[1][Len(s) + 1] = p
    BY <1>2, <2>2, AddedPlaces
  <2>4. \A i \in 1 .. Len(s) : views'[1][i] = s[i]
    <3>1. views'[1] = Append(s, p)
      BY <1>1, <1>2, <2>2 DEF Adds
    <3> QED
      BY <2>2, <3>1, AppendProperties
  <2>5. TabsOf(views'[1]) = TabsOf(s) \cup {p.tab}
    <3>1. \A i \in 1 .. Len(s) + 1 : i \in 1 .. Len(s) \/ i = Len(s) + 1
      BY <2>2
    <3>2. 1 .. Len(s) \subseteq 1 .. Len(s) + 1 /\ Len(s) + 1 \in 1 .. Len(s) + 1
      BY <2>2
    <3> QED
      BY <2>3, <2>4, <3>1, <3>2 DEF TabsOf
  <2>6. p.tab \notin ToSet(tab_order)
    <3>1. \A i \in 1 .. Len(views[1]) : views[1][i].tab \in 1 .. Len(home)
      BY <1>1 DEF PagesInv, PagesAtHome, AtHome
    <3>2. Len(home) + 1 \notin 1 .. Len(home)
      BY <1>1
    <3> QED
      BY <1>1, <3>1, <3>2 DEF OrderHolds, TabsOf
  <2> QED
    BY <1>1, <2>1, <2>2, <2>5, <2>6, AppendHolds, AppendDistinct DEF OrderHolds
<1>3. CASE v # 1
  <2>1. views'[1] = views[1] /\ tab_order' = tab_order
    BY <1>1, <1>3, AddedPlaces DEF Adds
  <2> QED
    BY <2>1 DEF OrderHolds
<1> QED
  BY <1>2, <1>3

LEMMA AddKeeps ==
  ASSUME TabInv, NEW v \in Workspaces, NEW p \in Pages, Adds(v, p), UNCHANGED <<custom_titles, spoiled>>,
         FocusOK', TitleOK', selected' \in [Workspaces -> Nat],
         \A u \in Workspaces : selected'[u] = selected[u] \/ selected'[u] <= Len(views'[u]),
         tabMenu' \in {tabMenu, NoPage}, tabDialog' = tabDialog
  PROVE  TabInv'
<1>1. /\ TabTypes /\ PagesInv /\ RefsInv /\ TitlesAreTheUsers /\ TabIdsAreOwn /\ OrderIsDaemons
      /\ MenuSpares /\ SelectedIn
      /\ views \in [Workspaces -> Seq(Pages)]
  BY InvParts DEF TabTypes
<1>2. views' \in [Workspaces -> Seq(Pages)] /\ \A u \in Workspaces : Len(views[u]) <= Len(views'[u])
  BY <1>1, AddedPlaces
<1>3. HomeStep /\ home' \in Seq(Workspaces)
  <2>1. HomeStep
    BY DEF Adds, HomeStep
  <2> QED
    BY <1>1, <2>1, HomeStepKeeps
<1>4. RefsOK'
  <2>1. RefFits(tabMenu, views', home') /\ RefFits(tabDialog, views', home') /\ RefFits(NoPage, views', home')
    BY <1>1, AddedRefs, NoRefFits DEF RefsInv
  <2>2. tabMenu \in Refs /\ tabDialog \in Refs /\ NoPage \in Refs
    BY <1>1 DEF TabTypes, Refs
  <2> QED
    BY <2>1, <2>2 DEF RefsOK, RefsInv
<1>5. NamesOK'
  BY <1>1, AddedTitles, AddedIds DEF NamesOK, TabTypes
<1>6. PagesOK'
  <2>1. untold' \in BOOLEAN
    BY <1>1 DEF Adds, TabTypes
  <2> QED
    BY <1>1, <1>2, <1>3, <2>1, InvParts, AddedPagesInv, AddedOrder, AddedHolds DEF PagesOK
<1>7. SelectedOK'
  <2> SUFFICES ASSUME NEW u \in Workspaces PROVE selected'[u] <= Len(views'[u])
    BY DEF SelectedOK, SelectedIn
  <2>1. Len(views[u]) \in Nat /\ Len(views'[u]) \in Nat /\ selected[u] \in Nat /\ selected[u] <= Len(views[u])
    <3>1. Len(views[u]) \in Nat /\ Len(views'[u]) \in Nat
      BY <1>1, <1>2, EachPage
    <3>2. selected[u] \in Nat /\ selected[u] <= Len(views[u])
      BY <1>1 DEF SelectedIn, TabTypes
    <3> QED
      BY <3>1, <3>2
  <2> QED
    BY <1>2, <2>1
<1>8. MenuSpares'
  BY <1>1 DEF MenuSpares
<1> QED
  BY <1>4, <1>5, <1>6, <1>7, <1>8, InvNow

(* The focus goes to the new page, or stays.                                 *)
LEMMA AddedFocus ==
  ASSUME TabInv, NEW v \in Workspaces, NEW p \in Pages, Adds(v, p),
         UNCHANGED focus_tracker \/ focus_tracker' = [focus_tracker EXCEPT ![v] = Next_]
  PROVE  /\ HomeStep /\ FocusOK' /\ home' \in Seq(Workspaces) /\ Len(home) \in Nat
         /\ Next_ \in 1 .. Len(home') /\ home'[Next_] = v
<1>1. TabTypes /\ FocusAtHome
  BY InvParts
<1>2. home \in Seq(Workspaces) /\ Len(home) \in Nat /\ Next_ = Len(home) + 1 /\ home' = Append(home, v)
  BY <1>1, HomeTyped DEF Next_, Adds
<1>3. home' \in Seq(Workspaces) /\ Len(home') = Len(home) + 1 /\ home'[Len(home) + 1] = v
  BY <1>2, HomeOfOne
<1>4. HomeStep /\ Next_ \in 1 .. Len(home') /\ home'[Next_] = v
  BY <1>2, <1>3 DEF HomeStep
<1>5. CASE UNCHANGED focus_tracker
  BY <1>2, <1>3, <1>4, <1>5, FocusStays
<1>6. CASE focus_tracker' = [focus_tracker EXCEPT ![v] = Next_]
  <2>1. FocusOK'
    BY <1>1, <1>4, <1>6, FocusSet DEF FocusOK
  <2> QED
    BY <1>2, <1>3, <1>4, <2>1
<1> QED
  BY <1>5, <1>6

LEMMA AddNewTabKeeps ==
  ASSUME TabInv, NEW by \in {"user", "duplicate"}, add_new_tab(by), tabMenu' \in {tabMenu, NoPage}
  PROVE  TabInv'
<1>1. TabTypes /\ front \in Workspaces /\ views \in [Workspaces -> Seq(Pages)]
      /\ selected \in [Workspaces -> Nat]
  BY InvParts DEF TabTypes
<1>2. PICK p \in Pages : Adds(front, p)
  <2>1. NewPage(front, by)
    BY DEF add_new_tab
  <2> QED
    BY <1>1, <2>1, NewPageAdds
<1>3. /\ UNCHANGED <<custom_titles, spoiled>> /\ UNCHANGED <<title, front, several>> /\ tabDialog' = tabDialog
      /\ focus_tracker' = [focus_tracker EXCEPT ![front] = Next_]
      /\ selected' = [selected EXCEPT ![front] = Len(views[front]) + 1]
  BY DEF add_new_tab, desk
<1>4. HomeStep /\ FocusOK'
  BY <1>1, <1>2, <1>3, AddedFocus
<1>5. TitleOK'
  BY <1>3, <1>4, TitleStays
<1>6. /\ selected' \in [Workspaces -> Nat]
      /\ \A u \in Workspaces : selected'[u] = selected[u] \/ selected'[u] <= Len(views'[u])
  <2>1. Len(views[front]) + 1 \in Nat /\ Len(views'[front]) = Len(views[front]) + 1
    BY <1>1, <1>2, EachPage, AddedPlaces
  <2> QED
    BY <1>1, <1>3, <2>1
<1> QED
  BY <1>1, <1>2, <1>3, <1>4, <1>5, <1>6, AddKeeps

LEMMA TabArrivesKeeps == ASSUME TabInv, NEW v \in Workspaces, TabArrives(v) PROVE TabInv'
<1>1. TabTypes /\ views \in [Workspaces -> Seq(Pages)] /\ selected \in [Workspaces -> Nat]
  BY InvParts DEF TabTypes
<1>2. PICK p \in Pages : Adds(v, p)
  <2>1. NewPage(v, "daemon")
    BY DEF TabArrives
  <2> QED
    BY <1>1, <2>1, NewPageAdds
<1>3. /\ UNCHANGED <<custom_titles, spoiled>> /\ UNCHANGED <<title, front, several>>
      /\ tabMenu' = tabMenu /\ tabDialog' = tabDialog
      /\ UNCHANGED focus_tracker \/ focus_tracker' = [focus_tracker EXCEPT ![v] = Next_]
      /\ selected' = [selected EXCEPT ![v] = IF selected[v] = 0 THEN 1 ELSE selected[v]]
  <2>1. focus_tracker \in [Workspaces -> Nat]
    BY <1>1 DEF TabTypes
  <2>2. focus_tracker' = [focus_tracker EXCEPT ![v] = IF selected[v] = 0 THEN Next_ ELSE focus_tracker[v]]
    BY DEF TabArrives
  <2>3. CASE selected[v] = 0
    BY <2>2, <2>3 DEF TabArrives, desk, popped
  <2>4. CASE selected[v] # 0
    BY <2>1, <2>2, <2>4 DEF TabArrives, desk, popped
  <2> QED
    BY <2>3, <2>4
<1>4. HomeStep /\ FocusOK'
  BY <1>2, <1>3, AddedFocus
<1>5. TitleOK'
  BY <1>3, <1>4, TitleStays
<1>6. /\ selected' \in [Workspaces -> Nat]
      /\ \A u \in Workspaces : selected'[u] = selected[u] \/ selected'[u] <= Len(views'[u])
  <2>1. Len(views[v]) \in Nat /\ Len(views'[v]) = Len(views[v]) + 1
    BY <1>1, <1>2, EachPage, AddedPlaces
  <2> QED
    BY <1>1, <1>3, <2>1
<1> QED
  BY <1>2, <1>3, <1>4, <1>5, <1>6, AddKeeps

(* update_window_title_with_workspace shows a pane of the workspace in front. *)
LEMMA TitleAnew ==
  ASSUME views' \in [Workspaces -> Seq(Pages)], home' \in Seq(Workspaces), PagesAtHome(views', home'),
         focus_tracker' \in [Workspaces -> Nat], front' \in Workspaces, several' \in BOOLEAN,
         front' = 1 \/ several',
         update_window_title_with_workspace
  PROVE  TitleOK'
<1> DEFINE pane == focus_tracker'[front']
<1>1. pane \in Nat
  OBVIOUS
<1>2. title'.prefix = (IF several' THEN "workspace" ELSE "none") /\ title'.pane \in {pane, 0}
  BY DEF update_window_title_with_workspace
<1>3. title' \in [prefix : {"none", "workspace", "rest of a title"}, pane : Nat]
  BY <1>1 DEF update_window_title_with_workspace
<1>4. ASSUME title'.pane # 0 PROVE title'.pane \in 1 .. Len(home') /\ home'[title'.pane] = front'
  <2>1. title'.pane = pane /\ \E pg \in ToSet(views'[front']) : pane \in ToSet(pg.panes)
    BY <1>4 DEF update_window_title_with_workspace
  <2>2. PICK pg \in ToSet(views'[front']) : pane \in ToSet(pg.panes)
    BY <2>1
  <2>3. PICK i \in 1 .. Len(views'[front']) : views'[front'][i] = pg
    BY <2>2, EachPage
  <2>4. AtHome(front', pg, home')
    BY <2>3 DEF PagesAtHome
  <2> QED
    BY <2>1, <2>2, <2>4 DEF AtHome
<1>5. TitleAtHome' /\ TitleIsOfFront'
  BY <1>2, <1>4 DEF TitleAtHome, TitleIsOfFront
<1> QED
  BY <1>3, <1>5 DEF TitleOK

LEMMA CreateWorkspaceKeeps == ASSUME TabInv, create_workspace PROVE TabInv'
<1>1. TabTypes /\ PagesInv /\ views \in [Workspaces -> Seq(Pages)] /\ selected \in [Workspaces -> Nat]
      /\ 2 \in Workspaces
  BY InvParts DEF TabTypes, Workspaces
<1>2. PICK p \in Pages : Adds(2, p)
  <2>1. NewPage(2, "daemon")
    BY DEF create_workspace
  <2> QED
    BY <1>1, <2>1, NewPageAdds
<1>3. /\ UNCHANGED <<custom_titles, spoiled>> /\ front' = 2 /\ several' = TRUE
      /\ tabMenu' = tabMenu /\ tabDialog' = tabDialog
      /\ focus_tracker' = [focus_tracker EXCEPT ![2] = Next_]
      /\ selected' = [selected EXCEPT ![2] = 1] /\ update_window_title_with_workspace
  BY DEF create_workspace, popped
<1>4. HomeStep /\ FocusOK' /\ home' \in Seq(Workspaces)
  BY <1>1, <1>2, <1>3, AddedFocus
<1>5. TitleOK'
  <2>1. views' \in [Workspaces -> Seq(Pages)] /\ PagesAtHome(views', home')
    BY <1>1, <1>2, AddedPlaces, AddedPagesInv DEF PagesInv
  <2>2. focus_tracker' \in [Workspaces -> Nat]
    BY <1>4 DEF FocusOK
  <2> QED
    BY <1>1, <1>3, <1>4, <2>1, <2>2, TitleAnew
<1>6. /\ selected' \in [Workspaces -> Nat]
      /\ \A u \in Workspaces : selected'[u] = selected[u] \/ selected'[u] <= Len(views'[u])
  <2>1. Len(views[2]) \in Nat /\ Len(views'[2]) = Len(views[2]) + 1
    BY <1>1, <1>2, EachPage, AddedPlaces
  <2> QED
    BY <1>1, <1>3, <2>1
<1> QED
  BY <1>1, <1>2, <1>3, <1>4, <1>5, <1>6, AddKeeps

-----------------------------------------------------------------------------
(* Another workspace in front                                                *)

LEMMA GoesToFocus ==
  ASSUME TabInv, HomeStep, views' \in [Workspaces -> Seq(Pages)], PagesAtHome(views', home'),
         NEW v \in Workspaces, GoesTo(v),
         selected'[v] \in 0 .. Len(views'[v])
  PROVE  FocusOK' /\ front' = v
<1>1. TabTypes /\ FocusAtHome /\ home' \in Seq(Workspaces)
  BY InvParts, HomeStepKeeps
<1>2. CASE UNCHANGED focus_tracker
  BY <1>2, FocusStays DEF GoesTo
<1>3. CASE selected'[v] # 0 /\ focus_tracker' = [focus_tracker EXCEPT ![v] = views'[v][selected'[v]].panes[1]]
  <2>1. PICK i \in 1 .. Len(views'[v]) : i = selected'[v]
    BY <1>3
  <2>2. views'[v][i].panes[1] \in 1 .. Len(home') /\ home'[views'[v][i].panes[1]] = v
    BY <1>1, <2>1, PaneOfPage, ZenonT(60)
  <2>3. FocusOK'
    BY <1>1, <1>3, <2>1, <2>2, FocusSet DEF FocusOK
  <2> QED
    BY <2>3 DEF GoesTo
<1> QED
  BY <1>2, <1>3 DEF GoesTo

LEMMA SwitchWorkspaceKeeps == ASSUME TabInv, switch_workspace PROVE TabInv'
<1>1. /\ TabTypes /\ PagesInv /\ SelectedIn /\ views \in [Workspaces -> Seq(Pages)] /\ home \in Seq(Workspaces)
      /\ front \in Workspaces
  BY InvParts DEF TabTypes
<1>2. PICK v \in Workspaces : v = 3 - front
  BY <1>1 DEF Workspaces
<1>3. /\ UNCHANGED <<views, selected, custom_titles, tab_id_map, order, home, spoiled>> /\ HomeStep
      /\ several = TRUE /\ several' = TRUE /\ GoesTo(v) /\ update_window_title_with_workspace
      /\ tabMenu' = tabMenu /\ tabDialog' = tabDialog
  BY <1>1, <1>2 DEF switch_workspace, HomeStep, TabTypes
<1>4. PagesAtHome(views', home') /\ selected'[v] \in 0 .. Len(views'[v])
  <2>1. Len(views[v]) \in Nat /\ selected[v] \in Nat /\ selected[v] <= Len(views[v])
    BY <1>1, ViewsTyped DEF SelectedIn
  <2> QED
    BY <1>1, <1>3, <2>1 DEF PagesInv
<1>5. FocusOK' /\ front' = v
  BY <1>1, <1>3, <1>4, GoesToFocus
<1>6. TitleOK'
  <2>1. focus_tracker' \in [Workspaces -> Nat]
    BY <1>5 DEF FocusOK
  <2> QED
    BY <1>1, <1>3, <1>4, <1>5, <2>1, TitleAnew
<1> QED
  BY <1>3, <1>5, <1>6, ViewsStay

LEMMA DeleteWorkspaceKeeps == ASSUME TabInv, delete_workspace PROVE TabInv'
<1>1. /\ TabTypes /\ PagesInv /\ SelectedIn /\ OrderIsDaemons /\ TitlesAreTheUsers /\ TabIdsAreOwn /\ MenuSpares
      /\ views \in [Workspaces -> Seq(Pages)] /\ home \in Seq(Workspaces) /\ 1 \in Workspaces
         /\ 2 \in Workspaces
      /\ selected \in [Workspaces -> Nat] /\ custom_titles \in [Workspaces -> SUBSET Keys]
      /\ tab_id_map \in [Workspaces -> [Keys -> Nat]]
  BY InvParts DEF TabTypes, Workspaces
<1>2. PICK none \in Seq(Pages) : none = <<>> /\ Len(none) = 0
  <2>1. <<>> \in Seq(Pages) /\ Len(<<>>) = 0
    OBVIOUS
  <2> QED
    BY <2>1
<1>3. /\ views' = [views EXCEPT ![2] = none] /\ selected' = [selected EXCEPT ![2] = 0]
      /\ custom_titles' = [custom_titles EXCEPT ![2] = {}]
      /\ tab_id_map' = [tab_id_map EXCEPT ![2] = [k \in Keys |-> 0]]
      /\ UNCHANGED order /\ home' = home /\ spoiled' = spoiled /\ HomeStep
      /\ several' = FALSE /\ GoesTo(1) /\ update_window_title_with_workspace
      /\ tabMenu' = tabMenu /\ tabDialog' = tabDialog
  BY <1>2 DEF delete_workspace, popped, HomeStep
<1>4. views' \in [Workspaces -> Seq(Pages)] /\ views'[2] = none /\ views'[1] = views[1]
  BY <1>1, <1>3
<1>5. /\ selected' \in [Workspaces -> Nat] /\ selected'[2] = 0 /\ selected'[1] = selected[1]
      /\ custom_titles' \in [Workspaces -> SUBSET Keys] /\ custom_titles'[1] = custom_titles[1]
      /\ tab_id_map' \in [Workspaces -> [Keys -> Nat]] /\ tab_id_map'[1] = tab_id_map[1]
  BY <1>1, <1>3
<1>6. ASSUME NEW u \in Workspaces, NEW i \in 1 .. Len(views'[u])
      PROVE  u = 1 /\ i \in 1 .. Len(views[1]) /\ views'[u][i] = views[1][i]
  <2>1. CASE u = 2
    BY <1>2, <1>4, <2>1
  <2>2. CASE u = 1
    BY <1>4, <2>2
  <2> QED
    BY <2>1, <2>2 DEF Workspaces
<1>7. Kin(views, views')
  BY <1>6 DEF Kin
<1>8. PagesInv'
  <2>1. OnePage(views')
    <3> SUFFICES ASSUME NEW u \in Workspaces, NEW w \in Workspaces,
                        NEW i \in 1 .. Len(views'[u]), NEW j \in 1 .. Len(views'[w]),
                        views'[u][i].key = views'[w][j].key \/ views'[u][i].tab = views'[w][j].tab
                 PROVE  u = w /\ i = j
      BY DEF OnePage
    <3>1. /\ u = 1 /\ i \in 1 .. Len(views[1]) /\ views'[u][i] = views[1][i]
          /\ w = 1 /\ j \in 1 .. Len(views[1]) /\ views'[w][j] = views[1][j]
      BY <1>6
    <3> QED
      BY <1>1, <3>1 DEF PagesInv, OnePage
  <2>2. PagesAtHome(views', home')
    BY <1>1, <1>3, <1>6 DEF PagesInv, PagesAtHome
  <2> QED
    BY <2>1, <2>2 DEF PagesInv
<1>9. RefsOK'
  BY <1>3, <1>4, <1>7, RefsStay
<1>10. SelectedOK'
  <2> SUFFICES ASSUME NEW u \in Workspaces PROVE selected'[u] <= Len(views'[u])
    BY <1>5 DEF SelectedOK, SelectedIn
  <2>1. CASE u = 2
    BY <1>2, <1>4, <1>5, <2>1
  <2>2. CASE u = 1
    BY <1>1, <1>4, <1>5, <2>2 DEF SelectedIn
  <2> QED
    BY <2>1, <2>2 DEF Workspaces
<1>11. OrderIsDaemons' /\ tab_order' \in Seq(Nat) /\ untold' \in BOOLEAN
  BY <1>1, <1>3, <1>4, SameOrder
<1>12. TitlesAreTheUsers' /\ TabIdsAreOwn'
  <2>1. TitlesRight(views, custom_titles) /\ IdsRight(views, tab_id_map)
    BY <1>1, TitlesThen, IdsThen
  <2>2. TitlesRight(views', custom_titles') /\ IdsRight(views', tab_id_map')
    BY <1>1, <1>5, <1>6, <2>1 DEF TitlesRight, IdsRight
  <2> QED
    BY <1>4, <2>2, TitlesNow, IdsNow
<1>13. FocusOK' /\ front' = 1
  <2>1. selected'[1] \in 0 .. Len(views'[1])
    <3>1. Len(views[1]) \in Nat /\ selected[1] \in Nat /\ selected[1] <= Len(views[1])
      BY <1>1, ViewsTyped DEF SelectedIn
    <3> QED
      BY <1>4, <1>5, <3>1
  <2> QED
    BY <1>1, <1>3, <1>4, <1>8, <2>1, GoesToFocus DEF PagesInv
<1>14. TitleOK'
  <2>1. focus_tracker' \in [Workspaces -> Nat] /\ home' \in Seq(Workspaces) /\ PagesAtHome(views', home')
    BY <1>1, <1>3, <1>8, <1>13 DEF FocusOK, PagesInv
  <2> QED
    BY <1>1, <1>3, <1>4, <1>13, <2>1, TitleAnew
<1>a. OrderHolds'
  BY <1>3, <1>4, InvParts DEF OrderHolds, order
<1>15. PagesOK' /\ NamesOK' /\ MenuSpares'
  BY <1>1, <1>3, <1>4, <1>5, <1>8, <1>a, <1>11, <1>12 DEF PagesOK, NamesOK, MenuSpares
<1> QED
  BY <1>9, <1>10, <1>13, <1>14, <1>15, InvNow

-----------------------------------------------------------------------------
(* Pages go                                                                  *)

LEMMA NextSelected ==
  ASSUME TabTypes, NEW v \in Workspaces, NEW gone, NEW keep \in Seq(Pages)
  PROVE  LET after == Cardinality({i \in 1 .. selected[v] - 1 : views[v][i].tab \notin gone})
             now == IF keep = <<>> THEN 0 ELSE IF after + 1 <= Len(keep) THEN after + 1 ELSE Len(keep)
         IN now \in 0 .. Len(keep)
<1> DEFINE I == {i \in 1 .. selected[v] - 1 : views[v][i].tab \notin gone}
<1>1. selected[v] \in Nat /\ Len(keep) \in Nat
  <2>1. selected[v] \in Nat
    BY DEF TabTypes
  <2>2. Len(keep) \in Nat
    OBVIOUS
  <2> QED
    BY <2>1, <2>2
<1>2. 1 \in Int /\ selected[v] - 1 \in Int
  BY <1>1
<1>3. IsFiniteSet(1 .. selected[v] - 1)
  BY <1>2, FS_Interval
<1>4. IsFiniteSet(I)
  BY <1>3, FS_Subset
<1>5. Cardinality(I) \in Nat
  BY <1>4, FS_CardinalityType
<1> HIDE DEF I
<1>6. PICK n \in Nat : n = Cardinality(I)
  BY <1>5
<1>7. (IF keep = <<>> THEN 0 ELSE IF n + 1 <= Len(keep) THEN n + 1 ELSE Len(keep)) \in 0 .. Len(keep)
  BY <1>1
<1> QED
  BY <1>6, <1>7 DEF I

LEMMA ClosedKeeps ==
  ASSUME TabInv, NEW v \in Workspaces, NEW gone, gone \subseteq TabsOf(views[v]), Closed(v, gone),
         tabMenu' \in {tabMenu, NoPage}, MenuSpares'
  PROVE  TabInv'
<1>1. /\ TabTypes /\ PagesInv /\ SelectedIn /\ OrderIsDaemons /\ TitlesAreTheUsers /\ TabIdsAreOwn
      /\ FocusAtHome
      /\ views \in [Workspaces -> Seq(Pages)] /\ home \in Seq(Workspaces) /\ 1 \in Workspaces
      /\ selected \in [Workspaces -> Nat] /\ tab_order \in Seq(Nat) /\ untold \in BOOLEAN
  BY InvParts DEF TabTypes, Workspaces
<1> DEFINE kept == {pg \in ToSet(views[v]) : pg.tab \notin gone}
           after == Cardinality({i \in 1 .. selected[v] - 1 : views[v][i].tab \notin gone})
<1>2. PICK keep \in Seq(Pages) : keep = Retain(views[v], kept)
  BY <1>1, RetainProperties
<1>3. PICK now \in 0 .. Len(keep) :
        now = IF keep = <<>> THEN 0 ELSE IF after + 1 <= Len(keep) THEN after + 1 ELSE Len(keep)
  BY <1>1, NextSelected
<1>4. /\ views' = WithRetained(views, v, kept) /\ selected' = [selected EXCEPT ![v] = now]
      /\ UNCHANGED focus_tracker \/ Focuses(v, now)
      /\ tab_order' = Retain(tab_order, ToSet(tab_order) \ gone)
      /\ UNCHANGED <<desk, custom_titles, tab_id_map, title, dashing, tabDialog, untold, home>>
  BY <1>2, <1>3 DEF Closed, WithRetained
<1> HIDE DEF kept, after
<1>5. /\ views' \in [Workspaces -> Seq(Pages)] /\ views'[v] = keep
      /\ \A u \in Workspaces \ {v} : views'[u] = views[u]
      /\ \A u \in Workspaces : \A i \in 1 .. Len(views'[u]) : \E j \in 1 .. Len(views[u]) :
           views'[u][i] = views[u][j]
      /\ OnePage(views')
  <2>1. OnePage(views) /\ views \in [Workspaces -> Seq(Pages)]
    BY <1>1 DEF PagesInv
  <2>2. views' = WithRetained(views, v, kept)
    BY <1>4
  <2>3. AreRetained(views, v, kept, views')
    BY <2>1, <2>2, PagesRetained
  <2> QED
    BY <1>2, <2>1, <2>3 DEF AreRetained
<1>6. HomeStep /\ home' = home /\ UNCHANGED <<title, front, several>> /\ tabDialog' = tabDialog
  BY <1>4 DEF HomeStep, desk
<1>7. Kin(views, views')
  BY <1>5 DEF Kin
<1>8. PagesInv'
  <2>1. PagesAtHome(views', home')
    BY <1>1, <1>5, <1>6 DEF PagesInv, PagesAtHome
  <2> QED
    BY <1>5, <2>1 DEF PagesInv
<1>9. RefsOK' /\ TitleOK'
  BY <1>5, <1>6, <1>7, RefsStay, TitleStays
<1>10. SelectedOK'
  <2>1. now \in Nat /\ now <= Len(keep)
    BY <1>3
  <2>2. /\ selected' \in [Workspaces -> Nat] /\ selected'[v] = now
        /\ \A u \in Workspaces \ {v} : selected'[u] = selected[u]
    BY <1>1, <1>4, <2>1
  <2> QED
    BY <1>1, <1>5, <2>1, <2>2 DEF SelectedOK, SelectedIn
<1>11. FocusOK'
  <2>1. CASE UNCHANGED focus_tracker
    BY <1>6, <2>1, FocusStays
  <2>2. CASE Focuses(v, now)
    <3>1. now \in 0 .. Len(views'[v])
      BY <1>3, <1>5
    <3> QED
      BY <1>1, <1>5, <1>6, <1>8, <2>2, <3>1, FocusesFits DEF FocusOK, PagesInv
  <2> QED
    BY <1>4, <2>1, <2>2
<1>12. OrderIsDaemons' /\ tab_order' \in Seq(Nat)
  <2>1. tab_order' \in Seq(Nat) /\ untold' = untold
    BY <1>1, <1>4, RetainProperties
  <2>2. ASSUME OrderIs(views[1], tab_order) PROVE OrderIs(views'[1], tab_order')
    <3>1. CASE v = 1
      <4>1. views[1] \in Seq(Pages)
        BY <1>1
      <4>2. OrderIs(Retain(views[1], {p \in ToSet(views[1]) : p.tab \notin gone}),
                    Retain(tab_order, ToSet(tab_order) \ gone))
        BY <2>2, <4>1, OrderRetained
      <4>3. views'[1] = Retain(views[1], {p \in ToSet(views[1]) : p.tab \notin gone})
        BY <1>2, <1>5, <3>1 DEF kept
      <4> QED
        BY <1>4, <4>2, <4>3
    <3>2. CASE v # 1
      <4>1. ASSUME NEW x \in ToSet(tab_order) PROVE x \notin gone
        <5>1. PICK i \in 1 .. Len(views[1]) : views[1][i].tab = x
          <6>1. PICK k \in 1 .. Len(tab_order) : tab_order[k] = x
            BY <1>1, <4>1, InToSet
          <6>2. Len(tab_order) = Len(views[1]) /\ tab_order[k] = views[1][k].tab
            BY <2>2, <6>1 DEF OrderIs
          <6> QED
            BY <6>1, <6>2
        <5>2. SUFFICES ASSUME x \in gone PROVE FALSE
          OBVIOUS
        <5>3. PICK j \in 1 .. Len(views[v]) : views[v][j].tab = x
          BY <5>2 DEF TabsOf
        <5> QED
          BY <1>1, <3>2, <5>1, <5>3 DEF PagesInv, OnePage
      <4>2. ToSet(tab_order) \subseteq ToSet(tab_order) \ gone
        BY <4>1
      <4>3. tab_order' = tab_order
        BY <1>1, <1>4, <4>2, RetainAll
      <4> QED
        BY <1>1, <1>5, <2>2, <3>2, <4>3
    <3> QED
      BY <3>1, <3>2
  <2>3. untold \/ OrderIs(views[1], tab_order)
    BY <1>1, OrderThen
  <2> QED
    BY <1>5, <2>1, <2>2, <2>3, OrderNow
<1>13. TitlesAreTheUsers' /\ TabIdsAreOwn'
  <2>1. TitlesRight(views, custom_titles) /\ IdsRight(views, tab_id_map)
    BY <1>1, TitlesThen, IdsThen
  <2>2. TitlesRight(views', custom_titles') /\ IdsRight(views', tab_id_map')
    BY <1>4, <1>5, <2>1 DEF TitlesRight, IdsRight
  <2> QED
    BY <1>5, <2>2, TitlesNow, IdsNow
<1>a. OrderHolds'
  <2>1. OrderHolds /\ IsInjective(tab_order) /\ ToSet(tab_order) = TabsOf(views[1])
    BY InvParts DEF OrderHolds
  <2>2. ToSet(tab_order') = ToSet(tab_order) \ gone /\ IsInjective(tab_order')
    BY <1>1, <1>4, <2>1, RetainProperties
  <2>3. TabsOf(views'[1]) = TabsOf(views[1]) \ gone
    <3>1. CASE v = 1
      <4>1. ToSet(views'[1]) = {p \in ToSet(views[1]) : p.tab \notin gone}
        <5>1. views[1] \in Seq(Pages)
          BY <1>1
        <5>2. ToSet(keep) = ToSet(views[1]) \cap kept
          BY <1>2, <3>1, <5>1, RetainProperties
        <5> QED
          BY <1>5, <3>1, <5>2 DEF kept
      <4>2. views[1] \in Seq(Pages) /\ views'[1] \in Seq(Pages)
        BY <1>1, <1>5
      <4>3. /\ \A x : x \in TabsOf(views[1]) <=> \E p \in ToSet(views[1]) : p.tab = x
            /\ \A x : x \in TabsOf(views'[1]) <=> \E p \in ToSet(views'[1]) : p.tab = x
        BY <4>2, TabsPlaces
      <4> QED
        BY <4>1, <4>3
    <3>2. CASE v # 1
      <4>1. views'[1] = views[1]
        BY <1>1, <1>5, <3>2
      <4>2. TabsOf(views[1]) \cap TabsOf(views[v]) = {}
        BY <1>1, <3>2 DEF PagesInv, OnePage, TabsOf
      <4> QED
        BY <4>1, <4>2
    <3> QED
      BY <3>1, <3>2
  <2> QED
    BY <2>1, <2>2, <2>3 DEF OrderHolds
<1>14. PagesOK' /\ NamesOK'
  <2>1. custom_titles' \in [Workspaces -> SUBSET Keys] /\ tab_id_map' \in [Workspaces -> [Keys -> Nat]]
    BY <1>1, <1>4 DEF TabTypes
  <2>2. untold' \in BOOLEAN
    BY <1>1, <1>4
  <2> QED
    BY <1>1, <1>5, <1>6, <1>8, <1>12, <1>13, <1>a, <2>1, <2>2 DEF PagesOK, NamesOK
<1> QED
  BY <1>9, <1>10, <1>11, <1>14, InvNow

LEMMA ClosePageKeeps == ASSUME TabInv, NEW v \in Workspaces, NEW i, close_page(v, i) PROVE TabInv'
<1>1. TabTypes /\ MenuSpares
  BY InvParts
<1>2. i \in 1 .. Len(views[v])
  BY <1>1, ViewsTyped DEF close_page
<1>3. {views[v][i].tab} \subseteq TabsOf(views[v])
  BY <1>2 DEF TabsOf
<1>4. Closed(v, {views[v][i].tab}) /\ tabMenu' = tabMenu /\ MenuSpares'
  BY <1>1 DEF close_page, MenuSpares
<1> QED
  BY <1>3, <1>4, ClosedKeeps

(* A menu's close: what it keeps, P, and what it takes, Q, are apart.        *)
TakesFrom(P, Q) ==
  LET v == tabMenu.view
      spot == Position(tabMenu)
      n == Len(views[v])
      gone == {views[v][i].tab : i \in Q \cap 1 .. n}
  IN /\ Clicked /\ Closed(v, gone)
     /\ spoiled' = (spoiled \/ (spot # 0 /\ \E i \in P : views[v][i].tab \in gone))

LEMMA TakesKeeps ==
  ASSUME TabInv, NEW P, NEW Q, TakesFrom(P, Q),
         Position(tabMenu) # 0 => P \subseteq 1 .. Len(views[tabMenu.view]) /\ P \cap Q = {}
  PROVE  TabInv'
<1>1. TabTypes /\ PagesInv /\ MenuSpares /\ tabMenu \in Refs /\ tabMenu # NoPage /\ tabMenu' = NoPage
  BY InvParts DEF TakesFrom, Clicked, TabTypes
<1>2. PICK v \in Workspaces, spot \in {Position(tabMenu)} : v = tabMenu.view /\ spot = Position(tabMenu)
  BY <1>1 DEF Refs
<1>3. PICK gone : gone = {views[v][i].tab : i \in Q \cap 1 .. Len(views[v])}
  OBVIOUS
<1>4. Closed(v, gone) /\ spoiled' = (spoiled \/ (spot # 0 /\ \E i \in P : views[v][i].tab \in gone))
  BY <1>2, <1>3 DEF TakesFrom
<1>5. gone \subseteq TabsOf(views[v])
  BY <1>3 DEF TabsOf
<1>6. ASSUME spot # 0, NEW i \in P PROVE views[v][i].tab \notin gone
  <2> SUFFICES ASSUME views[v][i].tab \in gone PROVE FALSE
    OBVIOUS
  <2>1. PICK j \in Q \cap 1 .. Len(views[v]) : views[v][j].tab = views[v][i].tab
    BY <1>3
  <2>2. i \in 1 .. Len(views[v]) /\ i \notin Q
    BY <1>2, <1>6
  <2>3. i = j
    BY <1>1, <2>1, <2>2 DEF PagesInv, OnePage
  <2> QED
    BY <2>1, <2>2, <2>3
<1>7. MenuSpares'
  BY <1>1, <1>4, <1>6 DEF MenuSpares
<1> QED
  BY <1>1, <1>4, <1>5, <1>7, ClosedKeeps

LEMMA MenuPosition ==
  ASSUME TabInv, tabMenu # NoPage, Position(tabMenu) # 0
  PROVE  Position(tabMenu) \in 1 .. Len(views[tabMenu.view]) /\ Len(views[tabMenu.view]) \in Nat
         /\ tabMenu.view \in Workspaces
<1>1. TabTypes /\ tabMenu \in Refs
  BY InvParts DEF TabTypes
<1>2. tabMenu.view \in Workspaces
  BY <1>1 DEF Refs
<1>3. Len(views[tabMenu.view]) \in Nat
  BY <1>1, <1>2, ViewsTyped
<1> QED
  BY <1>1, <1>2, <1>3, PositionFinds

LEMMA CloseToTheRightKeeps == ASSUME TabInv, close_tabs_to_the_right PROVE TabInv'
<1> DEFINE P == UpTo(Position(tabMenu), Len(views[tabMenu.view]))
           Q == ToTheRight(Position(tabMenu), Len(views[tabMenu.view]))
<1>1. TakesFrom(P, Q) /\ tabMenu # NoPage
  BY DEF close_tabs_to_the_right, CloseMany, TakesFrom, Clicked
<1>2. ASSUME Position(tabMenu) # 0 PROVE P \subseteq 1 .. Len(views[tabMenu.view]) /\ P \cap Q = {}
  BY <1>1, <1>2, MenuPosition DEF UpTo, ToTheRight
<1> HIDE DEF P, Q
<1> QED
  BY <1>1, <1>2, TakesKeeps

LEMMA CloseOthersKeeps == ASSUME TabInv, close_other_tabs PROVE TabInv'
<1> DEFINE P == Only(Position(tabMenu), Len(views[tabMenu.view]))
           Q == Others(Position(tabMenu), Len(views[tabMenu.view]))
<1>1. TakesFrom(P, Q) /\ tabMenu # NoPage
  BY DEF close_other_tabs, CloseMany, TakesFrom, Clicked
<1>2. ASSUME Position(tabMenu) # 0 PROVE P \subseteq 1 .. Len(views[tabMenu.view]) /\ P \cap Q = {}
  BY <1>1, <1>2, MenuPosition DEF Only, Others
<1> HIDE DEF P, Q
<1> QED
  BY <1>1, <1>2, TakesKeeps

LEMMA CloseTabKeeps == ASSUME TabInv, close_tab PROVE TabInv'
<1> DEFINE P == Rest(Position(tabMenu), Len(views[tabMenu.view]))
           Q == CloseThis(Position(tabMenu), Len(views[tabMenu.view]))
<1>1. TakesFrom(P, Q) /\ tabMenu # NoPage
  BY DEF close_tab, CloseMany, TakesFrom, Clicked
<1>2. ASSUME Position(tabMenu) # 0 PROVE P \subseteq 1 .. Len(views[tabMenu.view]) /\ P \cap Q = {}
  BY <1>1, <1>2, MenuPosition DEF Rest, CloseThis
<1> HIDE DEF P, Q
<1> QED
  BY <1>1, <1>2, TakesKeeps

-----------------------------------------------------------------------------
(* A page is moved                                                           *)

LEMMA MovedKeeps ==
  ASSUME TabInv, NEW v \in Workspaces, NEW spot \in 1 .. Len(views[v]), NEW dest \in 1 .. Len(views[v]),
         dest = spot - 1 \/ dest = spot + 1, Moved(v, spot, dest),
         UNCHANGED <<desk, focus_tracker, custom_titles, tab_id_map, title, dashing, tabDialog, home, spoiled>>,
         tabMenu' \in {tabMenu, NoPage}
  PROVE  TabInv'
<1>1. /\ TabTypes /\ PagesInv /\ SelectedIn /\ OrderIsDaemons /\ TitlesAreTheUsers /\ TabIdsAreOwn /\ MenuSpares
      /\ views \in [Workspaces -> Seq(Pages)] /\ home \in Seq(Workspaces) /\ 1 \in Workspaces
      /\ selected \in [Workspaces -> Nat] /\ tab_order \in Seq(Nat) /\ untold \in BOOLEAN
  BY InvParts DEF TabTypes, Workspaces
<1>2. PICK vs, ws : vs = views /\ ws = WithSwapped(vs, v, spot, dest)
  OBVIOUS
<1> DEFINE of(u, i) == IF u = v THEN IF i = spot THEN dest ELSE IF i = dest THEN spot ELSE i ELSE i
<1>3. /\ ws \in [Workspaces -> Seq(Pages)]
      /\ \A u \in Workspaces : Len(ws[u]) = Len(vs[u])
      /\ \A u \in Workspaces : \A i \in 1 .. Len(vs[u]) :
           of(u, i) \in 1 .. Len(vs[u]) /\ ws[u][i] = vs[u][of(u, i)]
      /\ OnePage(vs) => OnePage(ws)
  <2>1. vs \in [Workspaces -> Seq(Pages)] /\ spot \in 1 .. Len(vs[v]) /\ dest \in 1 .. Len(vs[v])
    BY <1>1, <1>2
  <2>2. ws = WithSwapped(vs, v, spot, dest)
    BY <1>2
  <2>3. AreSwapped(vs, v, spot, dest, ws)
    BY <2>1, <2>2, PagesSwapped
  <2> QED
    BY <2>3 DEF AreSwapped
<1>4. views' = ws
  BY <1>2 DEF Moved, WithSwapped
<1>5. /\ views' \in [Workspaces -> Seq(Pages)] /\ OnePage(views')
      /\ \A u \in Workspaces : Len(views'[u]) = Len(views[u])
      /\ \A u \in Workspaces : \A i \in 1 .. Len(views[u]) :
           of(u, i) \in 1 .. Len(views[u]) /\ views'[u][i] = views[u][of(u, i)]
  <2>1. OnePage(views)
    BY <1>1 DEF PagesInv
  <2> HIDE DEF of
  <2> QED
    BY <1>2, <1>3, <1>4, <2>1
<1>6. \A u \in Workspaces : \A i \in 1 .. Len(views'[u]) : \E j \in 1 .. Len(views[u]) :
        views'[u][i] = views[u][j]
  <2> HIDE DEF of
  <2> SUFFICES ASSUME NEW u \in Workspaces, NEW i \in 1 .. Len(views'[u])
               PROVE  \E j \in 1 .. Len(views[u]) : views'[u][i] = views[u][j]
    OBVIOUS
  <2>1. Len(views'[u]) = Len(views[u])
    BY <1>5, Zenon
  <2>2. i \in 1 .. Len(views[u])
    BY <2>1, Zenon
  <2>3. of(u, i) \in 1 .. Len(views[u]) /\ views'[u][i] = views[u][of(u, i)]
    BY <1>5, <2>2, Zenon
  <2> QED
    BY <2>3, Zenon
<1>7. HomeStep /\ home' = home /\ UNCHANGED <<title, front, several>> /\ UNCHANGED focus_tracker
      /\ tabDialog' = tabDialog
  BY DEF HomeStep, desk
<1>8. Kin(views, views')
  BY <1>6 DEF Kin
<1>9. PagesInv'
  <2>1. PagesAtHome(views', home')
    BY <1>1, <1>6, <1>7 DEF PagesInv, PagesAtHome
  <2> QED
    BY <1>5, <2>1 DEF PagesInv
<1>10. RefsOK' /\ TitleOK' /\ FocusOK'
  BY <1>5, <1>7, <1>8, RefsStay, TitleStays, FocusStays
<1>11. SelectedOK'
  <2>1. Len(views[v]) \in Nat /\ spot \in Nat /\ spot <= Len(views[v]) /\ dest \in Nat /\ dest <= Len(views[v])
    <3>1. PICK n \in Nat : n = Len(views[v])
      BY <1>1, EachPage
    <3> QED
      BY <3>1
  <2>2. PICK x : x = IF selected[v] = spot THEN dest ELSE IF selected[v] = dest THEN spot ELSE selected[v]
    OBVIOUS
  <2>3. x \in Nat /\ x <= Len(views[v])
    BY <1>1, <2>1, <2>2 DEF SelectedIn
  <2>4. selected' = [selected EXCEPT ![v] = x]
    BY <1>1, <2>2 DEF Moved
  <2>5. /\ selected' \in [Workspaces -> Nat] /\ selected'[v] = x
        /\ \A u \in Workspaces \ {v} : selected'[u] = selected[u]
    BY <1>1, <2>3, <2>4
  <2> QED
    BY <1>1, <1>5, <2>3, <2>5 DEF SelectedOK, SelectedIn
<1>12. TitlesAreTheUsers' /\ TabIdsAreOwn'
  <2>1. TitlesRight(views, custom_titles) /\ IdsRight(views, tab_id_map)
    BY <1>1, TitlesThen, IdsThen
  <2>2. TitlesRight(views', custom_titles) /\ IdsRight(views', tab_id_map)
    BY <1>6, <2>1, SMTT(30) DEF TitlesRight, IdsRight
  <2> QED
    BY <1>5, <2>2, TitlesNow, IdsNow
<1>13. OrderHolds' /\ OrderIsDaemons' /\ tab_order' \in Seq(Nat) /\ untold' \in BOOLEAN
  <2>1. PICK q \in Pages : q = views[v][spot]
    BY <1>1, EachPage
  <2>2. page_reordered(v, q, dest)
    BY <2>1 DEF Moved
  <2>3. PICK tab : tab = tab_id_map[v][q.key]
    OBVIOUS
  <2>4. IsInjective(tab_order) /\ ToSet(tab_order) = TabsOf(views[1])
        /\ (untold \/ OrderIs(views[1], tab_order))
    BY <1>1, InvParts, OrderThen DEF OrderHolds
  <2>5. TabsOf(views'[1]) = TabsOf(views[1])
    <3>1. ASSUME NEW i \in 1 .. Len(views[1])
          PROVE  \E j \in 1 .. Len(views[1]) : views'[1][j].tab = views[1][i].tab
      <4>1. of(1, i) \in 1 .. Len(views[1]) /\ of(1, of(1, i)) = i
        BY <1>1, <1>5
      <4>2. views'[1][of(1, i)] = views[1][of(1, of(1, i))]
        BY <1>1, <1>5, <4>1
      <4> HIDE DEF of
      <4> QED
        BY <4>1, <4>2
    <3>2. Len(views'[1]) = Len(views[1])
      BY <1>1, <1>5
    <3>3. TabsOf(views'[1]) \subseteq TabsOf(views[1])
      <4>1. \A i \in 1 .. Len(views'[1]) : \E j \in 1 .. Len(views[1]) : views'[1][i] = views[1][j]
        BY <1>1, <1>6
      <4> QED
        BY <4>1 DEF TabsOf
    <3> QED
      BY <3>1, <3>2, <3>3 DEF TabsOf
  <2>6. CASE v = 1 /\ tab \in ToSet(tab_order)
    <3>1. tab_order' = move_tab(tab, dest) /\ untold' = (untold \/ tab # q.tab)
      BY <2>2, <2>3, <2>6 DEF page_reordered
    <3>2. \A i, j \in 1 .. Len(views[1]) : views[1][i].tab = views[1][j].tab => i = j
      BY <1>1 DEF PagesInv, OnePage
    <3>3. PICK s \in Seq(Pages) : s = views[1]
      BY <1>1
    <3>4. Len(tab_order) = Len(s)
      BY <1>1, <2>4, <3>2, <3>3, SameLength
    <3>5. PICK x \in Nat, k \in 1 .. Len(tab_order) : x = tab /\ tab_order[k] = tab
      <4>1. PICK k \in 1 .. Len(tab_order) : tab_order[k] = tab
        BY <1>1, <2>6, InToSet
      <4>2. tab_order[k] \in Nat
        BY <1>1
      <4> QED
        BY <4>1, <4>2
    <3>6. PICK r \in Seq(Nat) : /\ r = Retain(tab_order, ToSet(tab_order) \ {x})
                                /\ ToSet(r) = ToSet(tab_order) \ {x} /\ IsInjective(r)
      BY <1>1, <2>4, RetainProperties
    <3>7. Len(r) = Len(s) - 1
      <4>1. r = RemoveAt(tab_order, k)
        BY <1>1, <2>4, <3>5, <3>6, RetainOthers
      <4> QED
        BY <1>1, <3>4, <3>5, <4>1, RemoveAtProperties
    <3>8. dest \in 1 .. Len(r) + 1
      BY <2>6, <3>3, <3>7
    <3>9. /\ tab_order' = InsertAt(r, dest, x) /\ InsertAt(r, dest, x) \in Seq(Nat)
          /\ IsInjective(InsertAt(r, dest, x)) /\ ToSet(InsertAt(r, dest, x)) = ToSet(r) \cup {x}
      <4>1. x \notin ToSet(r)
        BY <3>6
      <4>2. tab_order' = InsertAt(r, dest, x)
        BY <3>1, <3>5, <3>6 DEF move_tab
      <4>3. InsertAt(r, dest, x) \in Seq(Nat) /\ ToSet(InsertAt(r, dest, x)) = ToSet(r) \cup {x}
        <5>1. r \in Seq(Nat) /\ x \in Nat /\ dest \in 1 .. Len(r) + 1
          BY <3>5, <3>6, <3>8
        <5>2. InsertAt(r, dest, x) \in Seq(Nat)
          BY <5>1, InsertAtProperties
        <5>3. ToSet(InsertAt(r, dest, x)) = ToSet(r) \cup {x}
          BY <5>1, InsertAtHolds, SMTT(30)
        <5> QED
          BY <5>2, <5>3
      <4>4. IsInjective(InsertAt(r, dest, x))
        BY <3>6, <3>8, <4>1, InsertAtDistinct
      <4> QED
        BY <4>2, <4>3, <4>4
    <3>10. OrderHolds'
      <4>1. x \in ToSet(tab_order)
        BY <2>6, <3>5
      <4>2. ToSet(tab_order') = ToSet(tab_order) /\ IsInjective(tab_order')
        BY <3>6, <3>9, <4>1
      <4> QED
        BY <2>4, <2>5, <4>2 DEF OrderHolds
    <3>11. untold' \in BOOLEAN /\ (untold => untold')
      BY <1>1, <3>1
    <3>12. untold' \/ OrderIs(views'[1], tab_order')
      <4>1. SUFFICES ASSUME ~ untold' PROVE OrderIs(views'[1], tab_order')
        OBVIOUS
      <4>2. tab = q.tab /\ OrderIs(views[1], tab_order)
        BY <2>4, <3>1, <4>1
      <4>3. PICK m : m = tab_order
        OBVIOUS
      <4>4. PICK w \in Seq(Pages) : w = views'[1]
        BY <1>1, <1>5
      <4>5. spot \in 1 .. Len(s) /\ dest \in 1 .. Len(s) /\ OrderIs(s, m) /\ tab = s[spot].tab
        BY <2>1, <2>6, <3>3, <4>2, <4>3
      <4>6. Len(w) = Len(s) /\ \A i \in 1 .. Len(s) : w[i] = s[IF i = spot THEN dest ELSE IF i = dest THEN spot ELSE i]
        BY <1>1, <1>5, <2>6, <3>3, <4>4
      <4>7. OrderIs(w, move_tab(s[spot].tab, dest)) \/ tab_order # m
        <5>1. \A i, j \in 1 .. Len(s) : s[i].tab = s[j].tab => i = j
          BY <3>2, <3>3
        <5> QED
          BY <4>5, <4>6, <5>1, OrderSwapped
      <4> QED
        BY <3>1, <4>3, <4>4, <4>5, <4>7
    <3>13. OrderIsDaemons'
      BY <1>5, <3>9, <3>12, OrderNow
    <3> QED
      BY <3>9, <3>10, <3>11, <3>13
  <2>7. CASE ~(v = 1 /\ tab \in ToSet(tab_order))
    <3>1. tab_order' = tab_order /\ untold' = (untold \/ v = 1)
      BY <2>2, <2>3, <2>7 DEF page_reordered
    <3>2. OrderHolds' /\ tab_order' \in Seq(Nat) /\ untold' \in BOOLEAN
      BY <1>1, <2>4, <2>5, <3>1 DEF OrderHolds
    <3>3. untold' \/ OrderIs(views'[1], tab_order')
      <4>1. CASE v = 1
        BY <3>1, <4>1
      <4>2. CASE v # 1
        <5>1. \A i \in 1 .. Len(views[1]) : views'[1][i] = views[1][i]
          BY <1>1, <1>5, <4>2
        <5>2. Len(views'[1]) = Len(views[1])
          BY <1>1, <1>5
        <5> QED
          BY <2>4, <3>1, <5>1, <5>2 DEF OrderIs
      <4> QED
        BY <4>1, <4>2
    <3> QED
      BY <1>5, <3>2, <3>3, OrderNow
  <2> QED
    BY <2>6, <2>7
<1>14. PagesOK' /\ NamesOK' /\ MenuSpares'
  <2>1. custom_titles' \in [Workspaces -> SUBSET Keys] /\ tab_id_map' \in [Workspaces -> [Keys -> Nat]]
    BY <1>1 DEF TabTypes
  <2>2. MenuSpares'
    BY <1>1 DEF MenuSpares
  <2> HIDE DEF of
  <2> QED
    BY <1>1, <1>5, <1>7, <1>9, <1>12, <1>13, <2>1, <2>2 DEF PagesOK, NamesOK
<1> QED
  BY <1>10, <1>11, <1>14, InvNow

LEMMA MovePageKeeps == ASSUME TabInv, NEW by \in {-1, 1}, move_page(by) PROVE TabInv'
<1>1. TabTypes /\ tabMenu \in Refs /\ tabMenu # NoPage /\ tabMenu' = NoPage
  BY InvParts DEF TabTypes, move_page, Clicked
<1>2. PICK v \in Workspaces, spot \in {Position(tabMenu)}, dest \in {Position(tabMenu) + by} :
        v = tabMenu.view /\ spot = Position(tabMenu) /\ dest = spot + by
  BY <1>1 DEF Refs
<1>3. /\ UNCHANGED <<desk, focus_tracker, custom_titles, tab_id_map, title, dashing, tabDialog, home, spoiled>>
      /\ IF spot = 0 \/ dest \notin DOMAIN views[v] THEN UNCHANGED <<views, selected, order>> ELSE Moved(v, spot, dest)
  BY <1>2 DEF move_page
<1>4. CASE spot = 0 \/ dest \notin DOMAIN views[v]
  <2>1. /\ UNCHANGED <<views, selected, custom_titles, tab_id_map, order, home, spoiled>>
        /\ UNCHANGED focus_tracker /\ UNCHANGED <<title, front, several>> /\ HomeStep /\ tabDialog' = tabDialog
    BY <1>3, <1>4 DEF desk, HomeStep
  <2>2. FocusOK' /\ TitleOK'
    BY <2>1, FocusStays, TitleStays
  <2> QED
    BY <1>1, <2>1, <2>2, ViewsStay
<1>5. CASE ~(spot = 0 \/ dest \notin DOMAIN views[v])
  <2>1. spot \in 1 .. Len(views[v]) /\ dest \in 1 .. Len(views[v])
    BY <1>1, <1>2, <1>5, MenuPosition, ViewsTyped
  <2>2. dest = spot - 1 \/ dest = spot + 1
    BY <1>2, <2>1
  <2>3. Moved(v, spot, dest)
    BY <1>3, <1>5
  <2> QED
    BY <1>1, <1>3, <2>1, <2>2, <2>3, MovedKeeps
<1> QED
  BY <1>4, <1>5

LEMMA DragPageKeeps == ASSUME TabInv, NEW spot, NEW dest, drag_page(spot, dest) PROVE TabInv'
<1>1. TabTypes /\ front \in Workspaces
  BY InvParts DEF TabTypes
<1>2. PICK v \in Workspaces : v = front
  BY <1>1
<1>3. /\ UNCHANGED <<desk, focus_tracker, custom_titles, tab_id_map, title, dashing, tabDialog, home, spoiled>>
      /\ tabMenu' = tabMenu /\ Moved(v, spot, dest) /\ (dest = spot - 1 \/ dest = spot + 1)
      /\ spot \in DOMAIN views[v] /\ dest \in DOMAIN views[v]
  BY <1>2 DEF drag_page, popped
<1>4. spot \in 1 .. Len(views[v]) /\ dest \in 1 .. Len(views[v])
  BY <1>1, <1>3, ViewsTyped
<1> QED
  BY <1>3, <1>4, MovedKeeps

-----------------------------------------------------------------------------
(* The specification                                                         *)

LEMMA FirstPage == ASSUME TabsInit PROVE TabInv
<1>1. PICK key \in Keys :
        /\ views = <<<<Page(key, 1)>>, <<>>>>
        /\ tab_id_map = [v \in Workspaces |-> [k \in Keys |-> IF v = 1 /\ k = key THEN 1 ELSE 0]]
  BY DEF TabsInit
<1>2. PICK p : p = Page(key, 1)
  OBVIOUS
<1>3. /\ p \in Pages /\ p.key = key /\ p.tab = 1 /\ p.panes = <<1>> /\ p.by = "daemon"
      /\ p.inherits = FALSE /\ p.named = FALSE
  <2>1. <<1>> \in Seq(Nat)
    OBVIOUS
  <2> QED
    BY <1>2, <2>1 DEF Page, Pages
<1>4. PICK s \in Seq(Pages), e \in Seq(Pages) : s = <<p>> /\ e = <<>>
  <2>1. <<p>> \in Seq(Pages) /\ <<>> \in Seq(Pages)
    BY <1>3
  <2> QED
    BY <2>1
<1>5. Len(s) = 1 /\ s[1] = p /\ Len(e) = 0
  BY <1>4
<1>6. views = <<s, e>>
  BY <1>1, <1>2, <1>4
<1>7. views \in [Workspaces -> Seq(Pages)] /\ views[1] = s /\ views[2] = e
  BY <1>6 DEF Workspaces
<1>8. /\ selected = <<1, 0>> /\ front = 1 /\ several = FALSE
      /\ focus_tracker = <<1, 0>> /\ custom_titles = <<{}, {}>>
      /\ title = [prefix |-> "none", pane |-> 1]
      /\ tabMenu = NoPage /\ tabDialog = NoPage
      /\ tab_order = <<1>> /\ untold = FALSE
      /\ home = <<1>> /\ spoiled = FALSE
  BY DEF TabsInit
<1>9. home \in Seq(Workspaces) /\ Len(home) = 1 /\ home[1] = 1 /\ tab_order \in Seq(Nat)
      /\ Len(tab_order) = 1 /\ tab_order[1] = 1
  BY <1>8 DEF Workspaces
<1>10. ASSUME NEW u \in Workspaces, NEW i \in 1 .. Len(views[u])
       PROVE  u = 1 /\ i = 1 /\ views[u][i] = p
  <2>1. CASE u = 1
    <3>1. i \in 1 .. 1 /\ views[1][1] = p
      BY <1>5, <1>7, <2>1
    <3>2. i = 1
      BY <3>1
    <3> QED
      BY <2>1, <3>1, <3>2
  <2>2. CASE u = 2
    <3>1. i \in 1 .. 0
      BY <1>5, <1>7, <2>2
    <3> QED
      BY <3>1
  <2> QED
    BY <2>1, <2>2 DEF Workspaces
<1>11. TabTypes
  <2>1. selected \in [Workspaces -> Nat] /\ focus_tracker \in [Workspaces -> Nat]
    BY <1>8 DEF Workspaces
  <2>2. custom_titles \in [Workspaces -> SUBSET Keys]
    BY <1>8 DEF Workspaces
  <2>3. tab_id_map \in [Workspaces -> [Keys -> Nat]]
    BY <1>1
  <2>4. tabMenu \in Refs /\ tabDialog \in Refs
    BY <1>8 DEF Refs
  <2> QED
    BY <1>7, <1>8, <1>9, <2>1, <2>2, <2>3, <2>4 DEF TabTypes, Workspaces
<1>12. PagesInv
  <2>1. OnePage(views)
    BY <1>10 DEF OnePage
  <2>2. AtHome(1, p, home)
    BY <1>3, <1>9, OneElement DEF AtHome
  <2>3. PagesAtHome(views, home)
    BY <1>10, <2>2 DEF PagesAtHome
  <2> QED
    BY <2>1, <2>3 DEF PagesInv
<1>13. OrderHolds /\ OrderIsDaemons
  <2>1. TabsOf(s) = {1}
    BY <1>3, <1>5 DEF TabsOf
  <2>2. OrderHolds
    BY <1>7, <1>8, <2>1, OneElement DEF OrderHolds
  <2>3. OrderIs(s, tab_order)
    BY <1>3, <1>5, <1>9 DEF OrderIs
  <2>4. OrderIsDaemons
    BY <1>7, <1>9, <2>3, OrderPlaces DEF OrderIsDaemons
  <2> QED
    BY <2>2, <2>4
<1>14. SelectedIn /\ FocusAtHome /\ TitleAtHome /\ TitleIsOfFront
  <2>1. SelectedIn
    BY <1>5, <1>7, <1>8, SMTT(30) DEF SelectedIn, Workspaces
  <2>2. FocusAtHome
    BY <1>8, <1>9 DEF FocusAtHome, Workspaces
  <2>3. TitleAtHome /\ TitleIsOfFront
    BY <1>8, <1>9 DEF TitleAtHome, TitleIsOfFront
  <2> QED
    BY <2>1, <2>2, <2>3
<1>15. RefsInv
  BY <1>8, NoRefFits DEF RefsInv
<1>16. TitlesAreTheUsers /\ TabIdsAreOwn /\ MenuSpares
  <2>1. \A v \in Workspaces : \A q \in ToSet(views[v]) : q = p /\ v = 1
    <3>1. ASSUME NEW v \in Workspaces, NEW q \in ToSet(views[v]) PROVE q = p /\ v = 1
      <4>1. PICK i \in 1 .. Len(views[v]) : views[v][i] = q
        <5>1. views[v] \in Seq(Pages)
          BY <1>7
        <5> QED
          BY <5>1, InToSet
      <4> QED
        BY <1>10, <4>1
    <3> QED
      BY <3>1
  <2>2. custom_titles[1] = {} /\ tab_id_map[1][key] = 1
    BY <1>1, <1>8 DEF Workspaces
  <2> QED
    BY <1>3, <1>8, <2>1, <2>2 DEF TitlesAreTheUsers, TabIdsAreOwn, MenuSpares
<1> QED
  BY <1>8, <1>11, <1>12, <1>13, <1>14, <1>15, <1>16 DEF TabInv, TabPagesSafe

LEMMA TabStutter == ASSUME TabInv, UNCHANGED tabVars PROVE TabInv'
<1>1. /\ UNCHANGED <<views, selected, custom_titles, tab_id_map, order, home, spoiled>>
      /\ UNCHANGED focus_tracker /\ UNCHANGED <<title, front, several>> /\ HomeStep
      /\ tabMenu' = tabMenu /\ tabDialog' = tabDialog
  BY DEF tabVars, order, HomeStep
<1>2. FocusOK' /\ TitleOK'
  BY <1>1, FocusStays, TitleStays
<1> QED
  BY <1>1, <1>2, ViewsStay

(* Every step keeps the invariant.                                           *)
LEMMA TabStep == ASSUME TabInv, [TabsNext]_tabVars PROVE TabInv'
<1>1. ASSUME NEW v \in Workspaces, TitleTimer(v) PROVE TabInv'
  BY <1>1, TitleTimerKeeps
<1>2. ASSUME NEW v \in Workspaces, TabArrives(v) PROVE TabInv'
  BY <1>2, TabArrivesKeeps
<1>3. ASSUME NEW v \in Workspaces, NEW i \in 1 .. MaxPanes, select_page(v, i) PROVE TabInv'
  BY <1>3, SelectPageKeeps
<1>4. ASSUME NEW v \in Workspaces, NEW i \in 1 .. MaxPanes, close_page(v, i) PROVE TabInv'
  BY <1>4, ClosePageKeeps
<1>5. ASSUME NEW v \in Workspaces, NEW i \in 1 .. MaxPanes, ShellExits(v, i) PROVE TabInv'
  BY <1>5, ShellExitsKeeps
<1>6. ASSUME NEW i \in 1 .. MaxPanes, show_tab_context_menu(i) PROVE TabInv'
  BY <1>6, ShowMenuKeeps
<1>7. ASSUME NEW i \in 1 .. MaxPanes, OscTitle(i) PROVE TabInv'
  BY <1>7, OscTitleKeeps
<1>8. ASSUME add_new_tab("user") /\ UNCHANGED tabMenu PROVE TabInv'
  BY <1>8, AddNewTabKeeps
<1>9. ASSUME split_pane PROVE TabInv'
  BY <1>9, SplitKeeps
<1>10. ASSUME duplicate_tab PROVE TabInv'
  BY <1>10, AddNewTabKeeps DEF duplicate_tab, Clicked
<1>11. ASSUME close_tabs_to_the_right \/ close_other_tabs \/ move_tab_to_new_window PROVE TabInv'
  BY <1>11, CloseToTheRightKeeps, CloseOthersKeeps, CloseTabKeeps DEF move_tab_to_new_window
<1>12. ASSUME NEW by \in {-1, 1}, move_page(by) PROVE TabInv'
  BY <1>12, MovePageKeeps
<1>13. ASSUME NEW spot \in 1 .. MaxPanes, NEW dest \in 1 .. MaxPanes, drag_page(spot, dest) PROVE TabInv'
  BY <1>13, DragPageKeeps
<1>14. ASSUME NEW words \in {"", "user"}, ChangeTitle(words) PROVE TabInv'
  BY <1>14, ChangeTitleKeeps
<1>15. ASSUME show_change_tab_title_dialog \/ DismissTab PROVE TabInv'
  BY <1>15, ShowDialogKeeps, DismissTabKeeps
<1>16. ASSUME switch_workspace \/ create_workspace \/ delete_workspace PROVE TabInv'
  BY <1>16, SwitchWorkspaceKeeps, CreateWorkspaceKeeps, DeleteWorkspaceKeeps
<1>17. ASSUME UNCHANGED tabVars PROVE TabInv'
  BY <1>17, TabStutter
<1> QED
  BY <1>1, <1>2, <1>3, <1>4, <1>5, <1>6, <1>7, <1>8, <1>9, <1>10, <1>11, <1>12, <1>13, <1>14, <1>15, <1>16,
     <1>17
     DEF TabsNext

LEMMA TabInvAlways == TabsSpec => []TabInv
<1>1. TabsInit => TabInv
  BY FirstPage
<1>2. TabInv /\ [TabsNext]_tabVars => TabInv'
  BY TabStep
<1> QED
  BY <1>1, <1>2, PTL DEF TabsSpec

(* The pages of the tab bar and the maps keyed by their addresses: order,    *)
(* window title, titles, tab ids, and what a menu's close keeps.             *)
THEOREM TabPagesAlwaysSafe == TabsSpec => []TabPagesSafe
<1>1. TabInv => TabPagesSafe
  BY DEF TabInv
<1> QED
  BY <1>1, TabInvAlways, PTL
=============================================================================
