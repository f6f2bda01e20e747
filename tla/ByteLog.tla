------------------------------ MODULE ByteLog ------------------------------
(* One pane's byte log (crates/forgetty-session/src/byte_log.rs): a ring in  *)
(* memory, a bounded channel to an appender task, the task's buffer, and the *)
(* log file, which the task rotates.  append is called under the session's   *)
(* mutex and never waits: what the channel has no room for is lost to the    *)
(* disk.  Bytes are numbered over the pane's whole life, so the file, the    *)
(* buffer and a chunk are increasing sequences of numbers.                   *)
EXTENDS Integers, Sequences, FiniteSets, SequencesExt

CONSTANTS
  ChannelCap,     \* DISK_CHANNEL_CAP
  RingCap,        \* ring_capacity
  NoLog,          \* a path that names no file
  MaxDisk,        \* max_disk_bytes, if the disk is used at all
  MaxOutput,      \* bound: bytes the pane prints
  MaxLives        \* bound: daemons that have this pane, one after another

ASSUME LogAssumption ==
  /\ {ChannelCap, RingCap, MaxDisk, MaxOutput, MaxLives} \subseteq Nat
  /\ NoLog \notin Seq(Nat)

VARIABLES
  printed,    \* bytes printed so far
  ring,       \* the newest of them
  channel,    \* chunks, and "flush", on their way to the appender
  appender,   \* the task: absent, waiting, or within rotate_log
  buffer,     \* its BufWriter
  attached,   \* the BufWriter's file is the one the path names
  size,       \* file_size_approx
  cap,        \* max_disk_bytes of this daemon
  disk,       \* what {pane}.log holds
  tmp,        \* what {pane}.log.tmp holds
  lives,      \* daemons so far
  flushing,   \* flush_all_byte_logs: idle, sending or awaiting its reply
  mark,       \* history: bytes whose chunks preceded the flush in progress
  acked,      \* history: bytes a flush has been answered for
  faulty      \* history: the disk has failed, or the log was deleted

logVars == <<printed, ring, channel, appender, buffer, attached, size, cap, disk, tmp,
             lives, flushing, mark, acked, faulty>>
task == <<appender, buffer, attached, size>>
client == <<printed, ring, cap, lives>>
history == <<mark, acked, faulty>>

Flush == [kind |-> "flush", data |-> <<>>]
Keep == MaxDisk \div 2
Newest(s, n) == SubSeq(s, IF Len(s) > n THEN Len(s) - n + 1 ELSE 1, Len(s))

LogInit ==
  /\ printed = 0 /\ ring = <<>> /\ channel = <<>>
  /\ appender = "absent" /\ buffer = <<>> /\ attached = TRUE /\ size = 0 /\ cap = 0
  /\ disk = NoLog /\ tmp = NoLog
  /\ lives = 0 /\ flushing = "idle"
  /\ mark = {} /\ acked = {} /\ faulty = FALSE

Alive == lives > 0 /\ appender # "killed"
HasTask == appender \notin {"absent", "killed"}
Content == IF disk = NoLog THEN <<>> ELSE disk

(* ByteLog::new: a stale rotation file goes if it can, the end of the log is *)
(* read back.  Without a disk limit there is no appender.                    *)
OpenLog ==
  /\ ~ Alive /\ lives < MaxLives
  /\ lives' = lives + 1
  /\ tmp' \in {NoLog, tmp}
  /\ ring' = Newest(Content, RingCap)
  /\ disk' = Content
  /\ cap' \in {0, MaxDisk}
  /\ appender' = IF cap' = 0 THEN "absent" ELSE "waits"
  /\ size' = Len(Content) /\ attached' = TRUE
  /\ UNCHANGED <<printed, channel, buffer, flushing, history>>

Chunk(n) == [k \in 1 .. n |-> printed + k]

Append2Ring(chunk) == ring' = Newest(ring \o chunk, RingCap)

(* append: the ring, then try_send.                                          *)
AppendChunk(n) ==
  /\ Alive /\ printed + n <= MaxOutput
  /\ printed' = printed + n
  /\ Append2Ring(Chunk(n))
  /\ channel' = IF HasTask /\ Len(channel) < ChannelCap THEN Append(channel, [kind |-> "chunk", data |-> Chunk(n)]) ELSE channel
  /\ UNCHANGED <<task, cap, disk, tmp, lives, flushing, history>>

Pending == FlattenSeq([k \in DOMAIN channel |-> channel[k].data])
OnItsWay == IF attached THEN ToSet(Content) \cup ToSet(buffer \o Pending) ELSE ToSet(Pending)

(* make_flush_future: send waits for room; a closed channel is an error.     *)
FlushBegins ==
  /\ Alive /\ flushing = "idle"
  /\ flushing' = IF HasTask THEN "sending" ELSE "idle"
  /\ UNCHANGED <<client, channel, task, disk, tmp, history>>

FlushSent ==
  /\ flushing = "sending" /\ Len(channel) < ChannelCap
  /\ channel' = Append(channel, Flush)
  /\ flushing' = "awaiting"
  /\ mark' = OnItsWay
  /\ UNCHANGED <<client, task, disk, tmp, acked, faulty>>

Received(kind) ==
  /\ appender = "waits" /\ channel # <<>>
  /\ Head(channel).kind = kind
  /\ channel' = Tail(channel)

(* What the task writes reaches the file, if the path still names it.        *)
Reaches(bytes) == disk' = IF attached /\ disk # NoLog THEN disk \o bytes ELSE disk
Fails == faulty' = TRUE

(* A chunk: write_all fills the buffer, which may have to be written out     *)
(* first, or fails.  A file that is now too large is rotated.                *)
AfterWrite(n) == IF size + n >= cap THEN "rotates" ELSE "waits"

WriteChunk ==
  LET data == Head(channel).data
      all == buffer \o data
  IN /\ Received("chunk")
     /\ \/ \E cut \in {0, Len(buffer), Len(all)} :
             /\ Reaches(SubSeq(all, 1, cut))
             /\ buffer' = SubSeq(all, cut + 1, Len(all))
             /\ size' = size + Len(data)
             /\ appender' = AfterWrite(Len(data))
             /\ UNCHANGED faulty
        \/ Fails /\ UNCHANGED <<disk, buffer, size, appender>>
     /\ UNCHANGED <<client, attached, tmp, flushing, mark, acked>>

(* Flush: answered even if it failed.                                        *)
SlipNoReply ==
  /\ Received("flush")
  /\ \/ /\ Reaches(buffer) /\ buffer' = <<>> /\ UNCHANGED faulty
        /\ flushing' = "idle" /\ acked' = mark
     \/ Fails /\ UNCHANGED <<disk, buffer, flushing, acked>>
  /\ UNCHANGED <<client, appender, attached, size, tmp, mark>>

WriteFlush ==
  /\ Received("flush")
  /\ \/ Reaches(buffer) /\ buffer' = <<>> /\ UNCHANGED faulty
     \/ Fails /\ UNCHANGED <<disk, buffer>>
  /\ flushing' = "idle" /\ acked' = mark
  /\ UNCHANGED <<client, appender, attached, size, tmp, mark>>

(* rotate_log.  Each await may be the last thing the daemon does; each error *)
(* leaves things as they are and the task goes on with the oversized file.   *)
RotateFlush ==
  /\ appender = "rotates"
  /\ \/ Reaches(buffer) /\ buffer' = <<>> /\ appender' = "copies" /\ UNCHANGED faulty
     \/ Fails /\ appender' = "waits" /\ UNCHANGED <<disk, buffer>>
  /\ UNCHANGED <<client, channel, attached, size, tmp, flushing, mark, acked>>

(* The newest half goes to the temporary file, whatever that held; a copy    *)
(* that fails half way leaves the temporary file behind.                     *)
KeptTail == Newest(Content, cap \div 2)
PartsOf(s) == IF disk = NoLog THEN {} ELSE {SubSeq(s, 1, n) : n \in 0 .. Len(s)}

SlipCopyAppends ==
  /\ appender = "copies"
  /\ \/ /\ disk # NoLog /\ appender' = "renames"
        /\ tmp' = (IF tmp = NoLog THEN <<>> ELSE tmp) \o KeptTail
     \/ tmp' \in {tmp} \cup PartsOf(KeptTail) /\ appender' = "waits"
  /\ UNCHANGED <<client, channel, buffer, attached, size, disk, flushing, history>>

RotateCopy ==
  /\ appender = "copies"
  /\ \/ disk # NoLog /\ appender' = "renames" /\ tmp' = KeptTail
     \/ tmp' \in {tmp} \cup PartsOf(KeptTail) /\ appender' = "waits"
  /\ UNCHANGED <<client, channel, buffer, attached, size, disk, flushing, history>>

RotateRename ==
  /\ appender = "renames"
  /\ \/ disk' = tmp /\ tmp' = NoLog /\ appender' = "reopens"
     \/ UNCHANGED <<disk, tmp>> /\ appender' = "waits"
  /\ attached' = (attached /\ appender' = "waits")
  /\ UNCHANGED <<client, channel, buffer, size, flushing, history>>

(* Without its new handle the task goes on writing to the file that was      *)
(* replaced, which no path names any more.                                   *)
RotateReopen ==
  /\ appender = "reopens"
  /\ appender' = "waits"
  /\ \/ disk' = Content /\ attached' = TRUE /\ size' = Len(Content) /\ UNCHANGED faulty
     \/ Fails /\ UNCHANGED <<disk, attached, size>>
  /\ UNCHANGED <<client, channel, buffer, tmp, flushing, mark, acked>>

(* The daemon ends: what is in its memory is gone.                           *)
Killed ==
  /\ Alive
  /\ appender' = "killed"
  /\ channel' = <<>> /\ buffer' = <<>> /\ flushing' = "idle" /\ ring' = <<>>
  /\ UNCHANGED <<printed, attached, size, cap, disk, tmp, lives, history>>

(* delete_workspace removes the file and drops the log; the task works off   *)
(* its channel all the same, and a rotation under way brings the file back.  *)
RemoveLog ==
  /\ Alive /\ disk # NoLog
  /\ disk' = NoLog /\ attached' = FALSE /\ Fails
  /\ UNCHANGED <<client, channel, appender, buffer, size, tmp, flushing, mark, acked>>

disk_appender_task ==
  WriteChunk \/ WriteFlush \/ RotateFlush \/ RotateCopy \/ RotateRename \/ RotateReopen

LogNext ==
  \/ OpenLog \/ FlushBegins \/ FlushSent \/ disk_appender_task \/ Killed \/ RemoveLog
  \/ \E n \in 1 .. 2 : AppendChunk(n)

(* Fairness: the runtime polls the appender and whoever waits for room.      *)
LogFairness == WF_logVars(disk_appender_task) /\ SF_logVars(FlushSent)

LogSpec == LogInit /\ [][LogNext]_logVars /\ LogFairness

(***************************************************************************)
(* Properties                                                              *)
(***************************************************************************)
LogTypeOK ==
  /\ printed \in 0 .. MaxOutput /\ Len(ring) <= RingCap /\ Len(channel) <= ChannelCap
  /\ appender \in {"absent", "waits", "rotates", "copies", "renames", "reopens", "killed"}
  /\ cap \in {0, MaxDisk} /\ lives \in 0 .. MaxLives
  /\ flushing \in {"idle", "sending", "awaiting"}
  /\ mark \cup acked \subseteq 1 .. MaxOutput

Increasing(s) == \A i, j \in DOMAIN s : i < j => s[i] < s[j]

(* What the log replays after a restart is output in the order it was        *)
(* printed, none of it twice: through full channels, failing writes,         *)
(* rotations cut short at any point and temporary files left behind.         *)
LogKeepsOrder == Increasing(Content \o buffer \o Pending)

(* What a flush was answered for survives the end of the daemon, in a clean  *)
(* exit or a crash within a rotation, until half the limit of newer output   *)
(* has been kept in its place.                                               *)
FlushedSurvives ==
  faulty \/ \A b \in acked :
              b \in ToSet(Content) \/ Cardinality({c \in ToSet(Content) : c > b}) >= Keep

LogSafe == LogTypeOK /\ LogKeepsOrder /\ FlushedSurvives

(* flush_all_byte_logs, which a closing daemon awaits, does return.          *)
FlushReturns == (flushing # "idle") ~> (flushing = "idle")
=============================================================================
