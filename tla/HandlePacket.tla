---------------------------- MODULE HandlePacket ----------------------------
(***************************************************************************)
(* What handle_packet of the server (controller/controller.c) records of a *)
(* packet: save_to_storage puts it into the ring in memory                 *)
(* (HistoryStorage), then add_to_log_buffer into the log (FileLogger).     *)
(* The calls are one after the other on one thread, but the process may be *)
(* killed within either: the ring and the log buffer are lost together,    *)
(* the file stays, and a new process starts with an empty ring beside it.  *)
(* What handle_packet does next, to the sensor states, is SensorRegistry's.*)
(***************************************************************************)
EXTENDS FileLogger

CONSTANT MaxHistory   \* MAX_HISTORY

ASSUME RingAssumption == MaxHistory \in Nat \ {0}

VARIABLES allocated, head, tail, count, history, now, newest, saved,
          storePc,    \* pc of HistoryStorage
          unlogged    \* packets the logger gave up: the buffer was full, the
                      \* cutoff wrapped, the write failed, or the full file
                      \* was begun anew

storeVars == <<allocated, head, tail, count, history, now, newest, saved, storePc>>
allVars == <<vars, storeVars, unlogged>>

Store == INSTANCE HistoryStorage
  WITH MaxTime <- MaxUptime + Boot, MaxSaves <- MaxPackets, pc <- storePc

HandleInit == Init /\ Store!Init /\ unlogged = {}

-----------------------------------------------------------------------------
(* Between two calls of handle_packet: each packet saved has been logged.  *)
Between == pc = "idle" /\ storePc = "idle" /\ Len(saved) = total

SavePacket ==
  /\ Between
  /\ \E timestamp \in Stamps : Store!Save(timestamp) \/ Store!SaveWithoutMemory(timestamp)
  /\ UNCHANGED <<vars, unlogged>>

EvictOld ==
  /\ Store!Evict \/ Store!EvictDone
  /\ UNCHANGED <<vars, unlogged>>

Handed(timestamps) == timestamps[Len(timestamps)]
LogPacket ==
  /\ storePc = "idle" /\ Len(saved) > total
  /\ AddToLogBuffer(Handed(saved))
  /\ unlogged' = IF Len(buffer) < LogCapacity THEN unlogged ELSE unlogged \cup {total + 1}
  /\ UNCHANGED storeVars

Numbers(packets) == {packets[i].n : i \in 1 .. Len(packets)}
FlushLog ==
  /\ Flush
  /\ unlogged' = unlogged
       \cup (IF pc = "flush" /\ Len(file) >= MaxLogSize THEN Numbers(file) \ Numbers(file') ELSE {})
       \cup (IF CutoffWrapped THEN Numbers(buffer) \ Numbers(Lines) ELSE {})
       \cup {buffer[i].n : i \in lost}
  /\ UNCHANGED storeVars

Shutdown == Between /\ CloseFileLogger /\ UNCHANGED <<storeVars, unlogged>>

Kill == Crash /\ UNCHANGED <<storeVars, unlogged>>

(* The new process has its own ring; a packet that was saved and not yet   *)
(* logged is nowhere, and its number is given to the next one.             *)
EmptyRing ==
  /\ allocated' \in BOOLEAN
  /\ head' = 0 /\ tail' = 0 /\ count' = 0
  /\ history' = [i \in Store!Slot |-> [n |-> 0, timestamp |-> 0]]

StartAgain ==
  /\ Restart /\ EmptyRing
  /\ now' = 0 /\ storePc' = "idle"
  /\ saved' = SubSeq(saved, 1, total)
  /\ UNCHANGED <<newest, unlogged>>

TimePasses == Tick /\ UNCHANGED <<storeVars, unlogged>>

HandleNext ==
  \/ SavePacket \/ EvictOld \/ LogPacket \/ FlushLog
  \/ Shutdown \/ Kill \/ StartAgain \/ TimePasses

HandleSpec == HandleInit /\ [][HandleNext]_allVars

-----------------------------------------------------------------------------
(* The two records agree: between two packets, every packet of the history *)
(* in memory is also in the file or waits in the log buffer, with the same *)
(* timestamp, unless the logger itself had to give it up; whatever calls   *)
(* failed, and wherever the process was killed before this one was started *)
(* (controller.c:22-24).                                                   *)
LogBacksHistory ==
  Between /\ allocated =>
    \A k \in 1 .. count :
      Store!Held[k].n \in unlogged \/ InSeq(Store!Held[k], file \o buffer)
=============================================================================
