----------------------------- MODULE FileLogger -----------------------------
(***************************************************************************)
(* The disk log of server/storage/file_logger.c: packets collect in        *)
(* g_temp_buffer and are appended to the file when, on the arrival of a    *)
(* packet, a flush interval has passed, and once more at shutdown.         *)
(*                                                                         *)
(* The server is single-threaded, so a call runs alone; but the process    *)
(* may be killed between any two steps, the file may fail to open, what is *)
(* written may not reach the disk, and time passes.  Packets are stamped   *)
(* by the equipment with the wall clock, which is the uptime plus Boot, up *)
(* to Lag before they arrive; get_now_ms is the uptime.                    *)
(***************************************************************************)
EXTENDS Integers, Sequences

CONSTANTS LogCapacity,   \* g_temp_buffer entries (10000)
          MaxLogSize,    \* MAX_LOG_SIZE, in packets
          FlushMs,       \* flush interval (1000)
          RetentionMs,   \* RETENTION_SEC * 1000
          Wrap,          \* 2^64
          Boot,          \* wall clock at boot
          Lag,           \* how long before its arrival a packet was stamped
          StartUptimes,  \* uptimes at which the server may start
          MaxUptime,     \* bound: largest uptime
          MaxPackets     \* bound: packets logged

ASSUME LoggerAssumption ==
  /\ LogCapacity \in Nat \ {0} /\ MaxLogSize \in Nat \ {0} /\ FlushMs \in Nat \ {0}
  /\ RetentionMs \in Nat /\ Lag \in Nat /\ Boot \in Nat
  /\ MaxUptime \in Nat /\ MaxPackets \in Nat
  /\ Boot >= MaxUptime + Lag  \* it counts from 1970: no uptime comes near it
  /\ StartUptimes \subseteq 0 .. MaxUptime
  /\ Wrap \in Nat /\ Wrap > MaxUptime + Boot /\ Wrap > RetentionMs

VARIABLES uptime,     \* CLOCK_MONOTONIC
          buffer,     \* g_temp_buffer[0 .. g_buffer_idx - 1]
          lastFlush,  \* g_last_flush_time
          file,       \* packets in the log file
          cutoff,     \* local of the flush in progress
          lost,       \* its entries that do not reach the disk
          entered,    \* local now of add_to_log_buffer
          total,      \* packets handed to add_to_log_buffer
          closing,    \* the server is in its shutdown
          retrying,   \* no flush has succeeded since fopen failed last
          pc          \* "idle", "flush", "write", "flushed", "down" or "exited"

vars ==
  <<uptime, buffer, lastFlush, file, cutoff, lost, entered, total, closing, retrying, pc>>

Packet == [n : 1 .. MaxPackets, timestamp : 0 .. MaxUptime + Boot]

TypeOK ==
  /\ uptime \in 0 .. MaxUptime
  /\ buffer \in Seq(Packet) /\ Len(buffer) <= LogCapacity
  /\ lastFlush \in 0 .. uptime
  /\ file \in Seq(Packet)
  /\ cutoff \in 0 .. Wrap - 1
  /\ lost \subseteq 1 .. Len(buffer)
  /\ entered \in 0 .. uptime
  /\ total \in 0 .. MaxPackets
  /\ closing \in BOOLEAN /\ retrying \in BOOLEAN
  /\ pc \in {"idle", "flush", "write", "flushed", "down", "exited"}

(* init_file_logger.                                                       *)
Init ==
  /\ uptime \in StartUptimes
  /\ buffer = << >> /\ lastFlush = uptime
  /\ file = << >>
  /\ cutoff = 0 /\ lost = {} /\ entered = uptime /\ total = 0
  /\ closing = FALSE /\ retrying = FALSE /\ pc = "idle"

-----------------------------------------------------------------------------
OverwriteLast(p) ==
  IF Len(buffer) < LogCapacity THEN Append(buffer, p) ELSE [buffer EXCEPT ![LogCapacity] = p]
Buffered(p) == IF Len(buffer) < LogCapacity THEN Append(buffer, p) ELSE buffer

FlushLate == uptime - lastFlush > FlushMs
FlushDue == uptime - lastFlush >= FlushMs

AddToLogBuffer(timestamp) ==
  /\ pc = "idle" /\ total < MaxPackets
  /\ total' = total + 1
  /\ buffer' = Buffered([n |-> total + 1, timestamp |-> timestamp])
  /\ entered' = uptime
  /\ pc' = IF FlushDue THEN "flush" ELSE "idle"
  /\ UNCHANGED <<uptime, lastFlush, file, cutoff, lost, closing, retrying>>

CloseFileLogger ==
  /\ pc = "idle"
  /\ closing' = TRUE
  /\ pc' = "flush"
  /\ UNCHANGED <<uptime, buffer, lastFlush, file, cutoff, lost, entered, total, retrying>>

-----------------------------------------------------------------------------
(* flush_log_to_disk.                                                      *)
FlushNothing ==
  /\ pc = "flush" /\ buffer = << >>
  /\ pc' = "flushed"
  /\ UNCHANGED <<uptime, buffer, lastFlush, file, cutoff, lost, entered, total, closing, retrying>>

DropOnFailure == << >>
AfterFailure == buffer
OpenFails ==
  /\ pc = "flush" /\ buffer # << >>
  /\ buffer' = AfterFailure /\ retrying' = TRUE
  /\ pc' = "flushed"
  /\ UNCHANGED <<uptime, lastFlush, file, cutoff, lost, entered, total, closing>>

(* fopen with "w" once the file has reached its limit; now_ms and cutoff   *)
(* in uint64_t.                                                            *)
Opened == IF Len(file) >= MaxLogSize THEN << >> ELSE file

OpenFile ==
  /\ pc = "flush" /\ buffer # << >>
  /\ file' = Opened
  /\ cutoff' = (uptime - RetentionMs) % Wrap
  /\ pc' = "write"
  /\ UNCHANGED <<uptime, buffer, lastFlush, lost, entered, total, closing, retrying>>

(* A full disk or an I/O error: some of the entries do not reach the disk. *)
(* The results of fprintf, fflush, fsync and fclose are not looked at, so  *)
(* the flush goes on as if they had.                                       *)
DiskFails ==
  /\ pc = "write" /\ lost = {}
  /\ lost' \in SUBSET (1 .. Len(buffer)) \ {{}}
  /\ UNCHANGED <<uptime, buffer, lastFlush, file, cutoff, entered, total, closing, retrying, pc>>

(* The loop over the buffer: what is in the file for the entries up to i,  *)
(* an entry counting when all its lines are.                               *)
Kept(p) == p.timestamp >= cutoff
Reaches(i) == Kept(buffer[i]) /\ i \notin lost
Written[i \in 0 .. Len(buffer)] ==
  IF i = 0 THEN << >>
  ELSE IF Reaches(i) THEN Append(Written[i - 1], buffer[i]) ELSE Written[i - 1]
Lines == Written[Len(buffer)]

KeptAfterWrite == buffer
AfterWrite == << >>

WriteAndSync ==
  /\ pc = "write"
  /\ file' = file \o Lines
  /\ buffer' = AfterWrite /\ lost' = {} /\ retrying' = FALSE
  /\ pc' = "flushed"
  /\ UNCHANGED <<uptime, lastFlush, cutoff, entered, total, closing>>

(* Back in add_to_log_buffer, or at the end of the shutdown.               *)
Flushed ==
  /\ pc = "flushed"
  /\ lastFlush' = IF closing THEN lastFlush ELSE entered
  /\ pc' = IF closing THEN "exited" ELSE "idle"
  /\ UNCHANGED <<uptime, buffer, file, cutoff, lost, entered, total, closing, retrying>>

-----------------------------------------------------------------------------
(* The process is killed; of the lines being written a prefix may be in    *)
(* the file.  A new process starts with an empty buffer.                   *)
Crash ==
  /\ pc \notin {"down", "exited"}
  /\ buffer' = << >> /\ lost' = {}
  /\ \E k \in 0 .. Len(Lines) :
       /\ k > 0 => pc = "write"
       /\ file' = file \o SubSeq(Lines, 1, k)
  /\ pc' = "down"
  /\ UNCHANGED <<uptime, lastFlush, cutoff, entered, total, closing, retrying>>

Restart ==
  /\ pc \in {"down", "exited"}
  /\ buffer' = << >>
  /\ lastFlush' = uptime /\ entered' = uptime
  /\ closing' = FALSE /\ retrying' = FALSE /\ pc' = "idle"
  /\ UNCHANGED <<uptime, file, cutoff, lost, total>>

Tick ==
  /\ uptime < MaxUptime /\ uptime' = uptime + 1
  /\ UNCHANGED <<buffer, lastFlush, file, cutoff, lost, entered, total, closing, pc, retrying>>

Flush == FlushNothing \/ OpenFails \/ OpenFile \/ DiskFails \/ WriteAndSync \/ Flushed
Stamps == {uptime + Boot - late : late \in 0 .. Lag}
Next ==
  \/ \E timestamp \in Stamps : AddToLogBuffer(timestamp)
  \/ CloseFileLogger \/ Flush \/ Crash \/ Restart \/ Tick

Spec == Init /\ [][Next]_vars

-----------------------------------------------------------------------------
(* The file followed by the buffer never holds a packet twice or out of    *)
(* order, whatever flushes failed and crashes happened: a flush that       *)
(* failed is retried whole, one that was cut short never.                  *)
LoggedOnceInOrder ==
  LET all == file \o buffer
  IN  \A i, j \in 1 .. Len(all) : i < j => all[i].n < all[j].n

(* A packet once accepted into the buffer leaves it only into the file     *)
(* (README.md:287, "logs collected in the memory buffer are synchronized   *)
(* to disk"): no failed fopen but that of the one attempt of the shutdown, *)
(* no full buffer and no other packet's failing write discards it.  What   *)
(* does is a kill; its own write failing, which the code does not notice   *)
(* before it empties the buffer (file_logger.c:133-155); and the retention *)
(* cutoff while it is wrapped, for the first RetentionMs after boot        *)
(* (file_logger.c:127).                                                    *)
(* And what is in the file stays there, whatever restarts, failures and    *)
(* shutdowns follow, until the file has reached its limit, which it        *)
(* outgrows by less than one buffer (the size is tested before the batch   *)
(* is written, file_logger.c:115).                                         *)
InSeq(p, s) == \E i \in 1 .. Len(s) : s[i] = p
CutoffWrapped == pc = "write" /\ cutoff > uptime
EntersFile ==
  /\ \A i \in 1 .. Len(buffer) :
       InSeq(buffer[i], buffer') \/ InSeq(buffer[i], file')
         \/ pc' = "down" \/ (pc = "exited" /\ retrying) \/ CutoffWrapped \/ i \in lost
  /\ Len(file) < MaxLogSize =>
       Len(file') >= Len(file) /\ SubSeq(file', 1, Len(file)) = file
  /\ Len(file') < MaxLogSize + LogCapacity
AcceptedReachesFile == [][EntersFile]_vars

(* What a kill can cost: between two packets the buffer holds only packets *)
(* of the running flush interval, those that arrived less than FlushMs     *)
(* after the last flush and not before it, however long that flush took;   *)
(* older ones only while fopen keeps failing (file_logger.c:166-170).      *)
KillLosesOneInterval ==
  pc = "idle" =>
    \A i \in 1 .. Len(buffer) :
      /\ buffer[i].timestamp - Boot < lastFlush + FlushMs
      /\ buffer[i].timestamp - Boot >= lastFlush - Lag \/ retrying
=============================================================================
