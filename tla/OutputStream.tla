---------------------------- MODULE OutputStream ----------------------------
(***************************************************************************)
(* How the output of one pane reaches its viewers: the PTY reader thread,   *)
(* the drain task, the byte-log ring, the broadcast channel of the session,  *)
(* the streams of socket clients (subscribe_output) and of phones           *)
(* (handle_subscribe_stream), and close_pane, called by the drain task or by *)
(* anybody else.                                                            *)
(*                                                                         *)
(* Bytes are numbered from the start of the pane's log file, so a run of    *)
(* bytes is the interval after `from' up to `upto', and a chunk in the      *)
(* reader's queue is known by the number of its last byte.                  *)
(***************************************************************************)
EXTENDS Integers, Sequences

CONSTANTS
  Sockets,       \* subscribe_output connections
  Phones,        \* Subscribe streams over QUIC
  Capacity,      \* BROADCAST_CAPACITY
  RingCapacity,  \* byte_log_ring_kb, in bytes
  MaxChunk,      \* bound: the reader's buffer
  MaxBytes,      \* bound on the bytes numbered
  MaxPreload,    \* bound on the size of an old log file
  MaxOthers      \* bound on the events of other panes

ASSUME StreamAssumption ==
  /\ Capacity \in Nat \ {0}
  /\ RingCapacity \in Nat
  /\ MaxChunk \in Nat \ {0}
  /\ MaxBytes \in Nat
  /\ MaxPreload \in Nat
  /\ MaxOthers \in Nat
  /\ Sockets \cap Phones = {}

VARIABLES
  alive,    \* the shell runs
  reader,   \* the PTY reader thread: "running", "stopped"
  queue,    \* pty_rx: last byte of each chunk not yet drained
  drain,    \* spawn_drain_task: "spawned", "logged", "running", "closing", "gone"
  pane,     \* the pane is registered
  ring,     \* its ByteLog in byte_logs, or NoLog
  shown,    \* bytes processed by the drain task, and those of the old log
  window,   \* the events the broadcast channel still holds, oldest first
  others,   \* how many events of other panes have been sent
  stream,   \* subscriber -> "idle", "checked", "live", "resync", "ended", "left"
  backlog,  \* subscriber -> events it has not received, Capacity + 1 if some are lost
  view,     \* subscriber -> what its client has since the last reset
  lagged,   \* subscribers that have been told Lagged
  late      \* subscribers that subscribed after the pane had gone

source == <<alive, reader, queue, drain>>
channel == <<window, others>>
readers == <<stream, view, lagged, late>>
vars == <<source, pane, ring, shown, channel, readers, backlog>>

Subscribers == Sockets \union Phones
NoLog == [none |-> TRUE]

(* An event of the session; kind "other" is any event about something else. *)
Event == [kind : {"output", "closed", "other"}, from : Nat, upto : Nat]

(* The client's bytes are those after low up to high; a gap is a byte it    *)
(* never got in between, back says that it was sent a byte it had, or one   *)
(* that comes before a byte it had.                                         *)
View == [low : Nat, high : Nat, gap : BOOLEAN, back : BOOLEAN]

Blank(at) == [low |-> at, high |-> at, gap |-> FALSE, back |-> FALSE]

TypeOK ==
  /\ alive \in BOOLEAN
  /\ reader \in {"running", "stopped"}
  /\ queue \in Seq(Nat)
  /\ drain \in {"spawned", "logged", "running", "closing", "gone"}
  /\ pane \in BOOLEAN
  /\ ring \in [low : Nat, high : Nat] \union {NoLog}
  /\ shown \in Nat
  /\ window \in Seq(Event) /\ Len(window) <= Capacity
  /\ others \in 0 .. MaxOthers
  /\ stream \in [Subscribers -> {"idle", "checked", "live", "resync", "ended", "left"}]
  /\ backlog \in [Subscribers -> 0 .. Capacity + 1]
  /\ view \in [Subscribers -> View]
  /\ lagged \subseteq Subscribers
  /\ late \subseteq Subscribers

-----------------------------------------------------------------------------
(* The ring: the newest bytes, at most RingCapacity of them.                *)

SlipUnderflow(low, high) == [low |-> high - RingCapacity, high |-> high]

RingOf(low, high) == [low |-> IF high - low > RingCapacity THEN high - RingCapacity ELSE low,
                      high |-> high]

SlipAppendNoPop(log, upto) ==
  IF log = NoLog THEN NoLog ELSE [low |-> log.low, high |-> upto]

append(log, upto) == IF log = NoLog THEN NoLog ELSE RingOf(log.low, upto)

(* What subscribe_with_snapshot returns as replay.                          *)
Replay == IF ring = NoLog THEN Blank(shown)
          ELSE [Blank(ring.high) EXCEPT !.low = ring.low]

-----------------------------------------------------------------------------
(* tokio's broadcast channel: it keeps the last Capacity events; a receiver *)
(* for which more than that are pending has lost the oldest.                *)

Listening(s) == stream[s] \in {"live", "resync"}

Send(e) ==
  /\ window' = IF Len(window) < Capacity THEN Append(window, e) ELSE Append(Tail(window), e)
  /\ backlog' = [s \in Subscribers |->
                   IF Listening(s) /\ backlog[s] <= Capacity THEN backlog[s] + 1 ELSE backlog[s]]

Missed(s) == backlog[s] > Capacity
NextEvent(s) == window[Len(window) - backlog[s] + 1]

-----------------------------------------------------------------------------
Init ==
  /\ alive = TRUE
  /\ reader = "running"
  /\ queue = <<>>
  /\ drain = "spawned"
  /\ pane = TRUE
  /\ ring = NoLog
  /\ shown \in 0 .. MaxPreload
  /\ window = <<>>
  /\ others = 0
  /\ stream = [s \in Subscribers |-> "idle"]
  /\ backlog = [s \in Subscribers |-> 0]
  /\ view = [s \in Subscribers |-> Blank(0)]
  /\ lagged = {}
  /\ late = {}

-----------------------------------------------------------------------------
(* The shell and the reader thread.                                         *)

ShellExits ==
  /\ alive
  /\ alive' = FALSE
  /\ UNCHANGED <<reader, queue, drain, pane, ring, shown, channel, readers, backlog>>

(* pty_rx is dropped with the drain task, or with the pane that still owns it. *)
ReceiverDropped == drain = "gone" \/ (~pane /\ drain \in {"spawned", "logged"})

LastRead == IF queue = <<>> THEN shown ELSE queue[Len(queue)]

(* Bytes the shell left in the kernel can be read after its death.          *)
Read ==
  /\ reader = "running"
  /\ IF ReceiverDropped
       THEN reader' = "stopped" /\ UNCHANGED queue
       ELSE /\ \E n \in 1 .. MaxChunk :
                  /\ LastRead + n <= MaxBytes
                  /\ queue' = Append(queue, LastRead + n)
            /\ UNCHANGED reader
  /\ UNCHANGED <<alive, drain, pane, ring, shown, channel, readers, backlog>>

ReadEof ==
  /\ reader = "running"
  /\ ~alive
  /\ reader' = "stopped"
  /\ UNCHANGED <<alive, queue, drain, pane, ring, shown, channel, readers, backlog>>

-----------------------------------------------------------------------------
(* spawn_drain_task.                                                        *)

(* ByteLog::new preloads the tail of the old file, or fails.                *)
create_byte_log_for ==
  /\ drain = "spawned"
  /\ drain' = "logged"
  /\ ring' \in {NoLog, RingOf(0, shown)}
  /\ UNCHANGED <<alive, reader, queue, pane, shown, channel, readers, backlog>>

SlipTakeOnlyWithLog ==
  /\ drain = "logged"
  /\ drain' = IF pane /\ ring # NoLog THEN "running" ELSE "gone"
  /\ UNCHANGED <<alive, reader, queue, pane, ring, shown, channel, readers, backlog>>

take_pane_output_rx ==
  /\ drain = "logged"
  /\ drain' = IF pane THEN "running" ELSE "gone"
  /\ UNCHANGED <<alive, reader, queue, pane, ring, shown, channel, readers, backlog>>

SlipProcessUnregistered ==
  /\ drain = "running"
  /\ queue # <<>>
  /\ ring' = append(ring, Head(queue))
  /\ shown' = Head(queue)
  /\ Send([kind |-> "output", from |-> shown, upto |-> Head(queue)])
  /\ queue' = Tail(queue)
  /\ drain' = IF alive THEN "running" ELSE "closing"
  /\ UNCHANGED <<alive, reader, pane, others, readers>>

process_pane_bytes ==
  /\ drain = "running"
  /\ queue # <<>>
  /\ pane
  /\ ring' = append(ring, Head(queue))
  /\ shown' = Head(queue)
  /\ Send([kind |-> "output", from |-> shown, upto |-> Head(queue)])
  /\ queue' = Tail(queue)
  /\ drain' = IF alive THEN "running" ELSE "closing"
  /\ UNCHANGED <<alive, reader, pane, others, readers>>

(* The error for an unregistered pane is ignored and the loop goes on.      *)
DropBytes ==
  /\ drain = "running"
  /\ queue # <<>>
  /\ ~pane
  /\ queue' = Tail(queue)
  /\ UNCHANGED <<alive, reader, drain, pane, ring, shown, channel, readers, backlog>>

SlipEofWithoutClose ==
  /\ drain = "running"
  /\ queue = <<>>
  /\ reader = "stopped"
  /\ drain' = "gone"
  /\ UNCHANGED <<alive, reader, queue, pane, ring, shown, channel, readers, backlog>>

DrainEof ==
  /\ drain = "running"
  /\ queue = <<>>
  /\ reader = "stopped"
  /\ drain' = "closing"
  /\ UNCHANGED <<alive, reader, queue, pane, ring, shown, channel, readers, backlog>>

-----------------------------------------------------------------------------
SlipCloseSilently ==
  /\ pane
  /\ pane' = FALSE
  /\ ring' = NoLog
  /\ alive' = FALSE
  /\ UNCHANGED <<window, backlog>>

(* close_pane drops the byte log, kills the shell and announces the end; on *)
(* an unregistered pane it does nothing.                                    *)
close_pane ==
  /\ pane
  /\ pane' = FALSE
  /\ ring' = NoLog
  /\ alive' = FALSE
  /\ Send([kind |-> "closed", from |-> shown, upto |-> shown])

DrainCloses ==
  /\ drain = "closing"
  /\ drain' = "gone"
  /\ queue' = <<>>
  /\ \/ close_pane
     \/ ~pane /\ UNCHANGED <<alive, pane, ring, window, backlog>>
  /\ UNCHANGED <<reader, shown, others, readers>>

(* An RPC, or the close of the tab or workspace.                            *)
ClientCloses ==
  /\ close_pane
  /\ queue' = IF drain \in {"spawned", "logged"} THEN <<>> ELSE queue
  /\ UNCHANGED <<reader, drain, shown, others, readers>>

(* Every other event of the session uses the same channel.                  *)
OtherEvent ==
  /\ others < MaxOthers
  /\ others' = others + 1
  /\ Send([kind |-> "other", from |-> shown, upto |-> shown])
  /\ UNCHANGED <<source, pane, ring, shown, readers>>

-----------------------------------------------------------------------------
(* Subscribers.  The pane is looked up in one critical section ...          *)
Validate(s) ==
  /\ stream[s] = "idle"
  /\ pane
  /\ stream' = [stream EXCEPT ![s] = "checked"]
  /\ UNCHANGED <<source, pane, ring, shown, channel, view, lagged, late, backlog>>

SlipReceiverBeforeSnapshot(s) ==
  /\ stream[s] = "checked"
  /\ stream' = [stream EXCEPT ![s] = "live"]
  /\ \E n \in 0 .. Len(window) : backlog' = [backlog EXCEPT ![s] = n]
  /\ view' = [view EXCEPT ![s] = Replay]
  /\ late' = IF pane THEN late ELSE late \union {s}
  /\ UNCHANGED <<source, pane, ring, shown, channel, lagged>>

(* ... and the receiver and the snapshot are taken in another, together; the *)
(* replay is the first thing the client gets.                               *)
subscribe_with_snapshot(s) ==
  /\ stream[s] = "checked"
  /\ stream' = [stream EXCEPT ![s] = "live"]
  /\ backlog' = [backlog EXCEPT ![s] = 0]
  /\ view' = [view EXCEPT ![s] = Replay]
  /\ late' = IF pane THEN late ELSE late \union {s}
  /\ UNCHANGED <<source, pane, ring, shown, channel, lagged>>

(* A client that got nothing since its last reset starts at the chunk.      *)
Extended(v, e) ==
  [low   |-> IF v.low = v.high /\ e.from < v.low THEN e.from ELSE v.low,
   high  |-> e.upto,
   gap   |-> v.gap \/ e.from > v.high,
   back  |-> v.back \/ (v.low < v.high /\ e.from < v.high)]

SlipEndOnAnyEvent(s) ==
  /\ stream[s] = "live"
  /\ backlog[s] > 0
  /\ ~Missed(s)
  /\ backlog' = [backlog EXCEPT ![s] = @ - 1]
  /\ view' = IF NextEvent(s).kind = "output"
               THEN [view EXCEPT ![s] = Extended(@, NextEvent(s))]
               ELSE view
  /\ stream' = IF NextEvent(s).kind # "output" THEN [stream EXCEPT ![s] = "ended"] ELSE stream
  /\ UNCHANGED <<source, pane, ring, shown, channel, lagged, late>>

(* One turn of the live loop.                                               *)
Recv(s) ==
  /\ stream[s] = "live"
  /\ backlog[s] > 0
  /\ ~Missed(s)
  /\ backlog' = [backlog EXCEPT ![s] = IF NextEvent(s).kind = "closed" THEN 0 ELSE @ - 1]
  /\ view' = IF NextEvent(s).kind = "output"
               THEN [view EXCEPT ![s] = Extended(@, NextEvent(s))]
               ELSE view
  /\ stream' = IF NextEvent(s).kind = "closed" THEN [stream EXCEPT ![s] = "ended"] ELSE stream
  /\ UNCHANGED <<source, pane, ring, shown, channel, lagged, late>>

SlipLagGoesOn(s) ==
  /\ stream[s] = "live"
  /\ Missed(s)
  /\ backlog' = [backlog EXCEPT ![s] = Capacity]
  /\ lagged' = lagged \union {s}
  /\ UNCHANGED <<source, pane, ring, shown, channel, stream, view, late>>

(* recv() reports the loss and moves to the oldest event still held: a      *)
(* socket goes on from there, a phone is sent the ring again.               *)
RecvLagged(s) ==
  /\ stream[s] = "live"
  /\ Missed(s)
  /\ backlog' = [backlog EXCEPT ![s] = Capacity]
  /\ lagged' = lagged \union {s}
  /\ stream' = IF s \in Phones THEN [stream EXCEPT ![s] = "resync"] ELSE stream
  /\ UNCHANGED <<source, pane, ring, shown, channel, view, late>>

SlipResetWithoutReplay(s) ==
  /\ stream[s] = "resync"
  /\ stream' = [stream EXCEPT ![s] = "live"]
  /\ view' = [view EXCEPT ![s] = Blank(0)]
  /\ UNCHANGED <<source, pane, ring, shown, channel, lagged, late, backlog>>

(* The phone's screen is reset and gets the ring; its old receiver stays.   *)
Resend(s) ==
  /\ stream[s] = "resync"
  /\ stream' = [stream EXCEPT ![s] = "live"]
  /\ view' = [view EXCEPT ![s] = Replay]
  /\ UNCHANGED <<source, pane, ring, shown, channel, lagged, late, backlog>>

(* The client closes its end, or a write to it fails.                       *)
Leave(s) ==
  /\ Listening(s)
  /\ stream' = [stream EXCEPT ![s] = "left"]
  /\ backlog' = [backlog EXCEPT ![s] = 0]
  /\ UNCHANGED <<source, pane, ring, shown, channel, view, lagged, late>>

Drain ==
  \/ create_byte_log_for
  \/ take_pane_output_rx
  \/ process_pane_bytes
  \/ DropBytes
  \/ DrainEof
  \/ DrainCloses

Next ==
  \/ ShellExits
  \/ Read
  \/ ReadEof
  \/ Drain
  \/ ClientCloses
  \/ OtherEvent
  \/ \E s \in Subscribers :
        \/ Validate(s)
        \/ subscribe_with_snapshot(s)
        \/ Recv(s)
        \/ RecvLagged(s)
        \/ Resend(s)
        \/ Leave(s)

(* The tasks run when they can; the kernel reports the end of a dead shell's *)
(* output; clients read what they are sent.  Nothing makes a shell exit, a   *)
(* client close or come.                                                    *)
Fairness ==
  /\ WF_vars(ReadEof)
  /\ WF_vars(Drain)
  /\ \A s \in Subscribers : WF_vars(Recv(s) \/ RecvLagged(s) \/ Resend(s))

Spec == Init /\ [][Next]_vars /\ Fairness

-----------------------------------------------------------------------------
(* The handover of subscribe_with_snapshot leaves no gap and no overlap: a  *)
(* viewer that never lagged has every byte from its first one on, once, and *)
(* all that was shown when its stream ends with the pane.  A socket is never *)
(* sent a byte twice or out of order, lagging or not.                       *)
StreamsAreExact ==
  \A s \in Subscribers :
    /\ s \notin lagged => ~view[s].gap /\ ~view[s].back
    /\ s \notin lagged /\ stream[s] = "ended" => view[s].high = shown
    /\ s \in Sockets => ~view[s].back

(* The reset and the ring that a phone gets after a lag bring back all that  *)
(* the channel has dropped: there is never a gap in what it has.            *)
LagLosesNothingOnPhones ==
  \A s \in Phones : ~view[s].gap

(* Ring and broadcast move together: between two critical sections, the     *)
(* ring holds the newest bytes, as many as fit.                             *)
ReplayIsNewest ==
  ring # NoLog =>
    ring.high = shown /\ ring.low = IF shown > RingCapacity THEN shown - RingCapacity ELSE 0

(* The drain task and a client may both close a pane while output is queued: *)
(* PaneClosed is sent once, and no output of the pane follows it.           *)
ClosedIsLast ==
  \A i \in 1 .. Len(window) : window[i].kind = "closed" =>
    /\ ~pane
    /\ \A j \in i + 1 .. Len(window) : window[j].kind = "other"

(* What the reader has read is shown, unless the pane is closed first.      *)
OutputIsShown ==
  \A n \in 1 .. MaxBytes : (pane /\ LastRead >= n) ~> (shown >= n \/ ~pane)

(* The drain task closes the pane of a shell that has ended.                *)
PaneFollowsShell == ~alive ~> ~pane

(* A stream ends with its pane, unless its subscriber lags, which may cost  *)
(* it the PaneClosed, or subscribed when the pane had already gone.         *)
StreamEnds ==
  \A s \in Subscribers :
    (~pane /\ stream[s] = "live" /\ s \notin late) ~> (stream[s] # "live" \/ s \in lagged)

(* What a phone gets after a reset holds no byte twice, nor out of order:   *)
(* the comment on the subscription says that none is duplicated.            *)
PhonesSeeBytesOnce ==
  \A s \in Phones : ~view[s].back

-----------------------------------------------------------------------------
(* Why the handover is exact.  The events the channel holds are linked: each *)
(* begins where the one before it ended, the last one at what is shown.  A  *)
(* viewer's last byte is where the next event it will receive begins; what  *)
(* a lag has taken away lies after it for a socket, and a phone that is told *)
(* of it is past the place it goes on from.                                 *)

WindowLinked ==
  /\ \A i \in 1 .. Len(window) :
        /\ window[i].upto <= shown
        /\ IF window[i].kind = "output" THEN window[i].from < window[i].upto
                                        ELSE window[i].from = window[i].upto
        /\ window[i].kind = "closed" => ~pane /\ window[i].upto = shown
  /\ \A i \in 1 .. Len(window) - 1 : window[i].upto = window[i + 1].from
  /\ window # <<>> => window[Len(window)].upto = shown

BacklogHeld ==
  \A s \in Subscribers :
    IF Listening(s) THEN backlog[s] <= Len(window) \/ (Missed(s) /\ Len(window) = Capacity)
                    ELSE backlog[s] = 0

QueueAhead ==
  \A i \in 1 .. Len(queue) : queue[i] > IF i = 1 THEN shown ELSE queue[i - 1]

(* The byte from which the channel will go on for s.                        *)
Mark(s) == IF backlog[s] = 0 THEN shown
           ELSE IF Missed(s) THEN window[1].from ELSE NextEvent(s).from

ViewMatches(s) ==
  /\ stream[s] \in {"idle", "checked"} => s \notin lagged
  /\ s \notin lagged => ~view[s].gap /\ ~view[s].back
  /\ s \in Sockets => ~view[s].back
  /\ s \in Phones => ~view[s].gap
  /\ Listening(s) /\ s \in Sockets => view[s].high <= Mark(s)
  /\ Listening(s) /\ s \notin lagged /\ ~Missed(s) => view[s].high = Mark(s)
  /\ stream[s] = "live" /\ s \in Phones /\ ~Missed(s) => view[s].high >= Mark(s)
  /\ stream[s] = "resync" => s \in Phones /\ s \in lagged
  /\ stream[s] = "ended" => ~pane /\ (s \notin lagged => view[s].high = shown)

ViewsMatch == \A s \in Subscribers : ViewMatches(s)

HandoverInv == WindowLinked /\ BacklogHeld /\ QueueAhead /\ ReplayIsNewest /\ ViewsMatch

-----------------------------------------------------------------------------
(* To its sockets, the pane is a terminal as TerminalStream describes it.   *)

Phase(s) == IF stream[s] \in {"idle", "checked"} THEN "away"
            ELSE IF Listening(s) THEN "here" ELSE stream[s]

Terminal == INSTANCE TerminalStream WITH
  Clients <- Sockets,
  over    <- ~pane,
  state   <- [s \in Sockets |-> Phase(s)],
  span    <- [s \in Sockets |-> [low |-> view[s].low, high |-> view[s].high]],
  whole   <- {s \in Sockets : ~view[s].gap /\ ~view[s].back},
  behind  <- lagged \cap Sockets

IsTerminalStream == Terminal!Spec
=============================================================================
