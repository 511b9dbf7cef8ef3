------------------------- MODULE HandlePacket_proofs -------------------------
(***************************************************************************)
(* What a kill can cost, for any size of the log buffer and the file, any  *)
(* flush interval, any lateness of the packets and whatever the file       *)
(* system does: one flush interval, also when the packets come through     *)
(* handle_packet, which saves each in memory before it is logged.          *)
(***************************************************************************)
EXTENDS HandlePacket, WellFoundedInduction, TLAPS

(* The uptime at which packet p was stamped.                               *)
StampedAt(p) == p.timestamp - Boot

Entry == [n : Int, timestamp : Int]
LogTypes ==
  /\ uptime \in Nat /\ lastFlush \in 0 .. uptime /\ entered \in 0 .. uptime
  /\ buffer \in Seq(Entry)
  /\ total \in Nat

(* Every packet in the buffer was stamped in the past, and during a flush  *)
(* that add_to_log_buffer began, before that call; what is still there     *)
(* after a flush is there because fopen failed.                            *)
BufferStamped ==
  \A i \in 1 .. Len(buffer) :
    /\ StampedAt(buffer[i]) <= uptime
    /\ pc \in {"flush", "write", "flushed"} /\ ~closing => StampedAt(buffer[i]) <= entered
LeftByFailure == pc = "flushed" => buffer = << >> \/ retrying
IdleIsOpen == pc = "idle" => ~closing
LogInv == LogTypes /\ BufferStamped /\ LeftByFailure /\ IdleIsOpen /\ KillLosesOneInterval

LEMMA EntriesTyped ==
  ASSUME LogTypes, NEW i \in 1 .. Len(buffer)
  PROVE  buffer[i] \in Entry /\ buffer[i].timestamp \in Int
<1>1. buffer[i] \in Entry
  BY DEF LogTypes
<1> QED BY <1>1 DEF Entry

LEMMA LogInvInit == Init => LogInv
<1> SUFFICES ASSUME Init PROVE LogInv
  OBVIOUS
<1>1. uptime \in Nat /\ Len(buffer) = 0
  BY LoggerAssumption DEF Init
<1>2. LogTypes
  <2>1. << >> \in Seq(Entry)
    OBVIOUS
  <2> QED BY <1>1, <2>1 DEF Init, LogTypes
<1>3. \A i \in 1 .. Len(buffer) : FALSE
  BY <1>1
<1> QED BY <1>2, <1>3
     DEF Init, LogInv, BufferStamped, LeftByFailure, IdleIsOpen, KillLosesOneInterval

(* A packet is logged that arrived no later than now and no earlier than   *)
(* the last flush.                                                         *)
LEMMA AddStep ==
  ASSUME LogInv, NEW timestamp \in Int, AddToLogBuffer(timestamp),
         timestamp - Boot <= uptime, timestamp - Boot >= lastFlush - Lag
  PROVE  LogInv'
<1> DEFINE new == [n |-> total + 1, timestamp |-> timestamp]
<1>0. Boot \in Int /\ Lag \in Int /\ FlushMs \in Nat \ {0}
  BY LoggerAssumption
<1>1. /\ pc = "idle" /\ ~closing /\ closing' = closing /\ entered' = uptime /\ uptime' = uptime
      /\ lastFlush' = lastFlush /\ retrying' = retrying /\ total' = total + 1
      /\ pc' = IF FlushDue THEN "flush" ELSE "idle"
      /\ buffer' = buffer \/ buffer' = Append(buffer, new)
  BY DEF AddToLogBuffer, Buffered, LogInv, IdleIsOpen
<1>2. buffer \in Seq(Entry) /\ new \in Entry
  BY DEF LogInv, LogTypes, Entry
<1>3. \A i \in 1 .. Len(buffer') :
         buffer'[i] = new \/ \E j \in 1 .. Len(buffer) : buffer'[i] = buffer[j]
  <2> HIDE DEF new
  <2>1. CASE buffer' = buffer
    BY <2>1
  <2>2. CASE buffer' = Append(buffer, new)
    <3>1. Len(buffer') = Len(buffer) + 1 /\ Len(buffer) \in Nat
      BY <1>2, <2>2
    <3>2. \A i \in 1 .. Len(buffer) + 1 :
             buffer'[i] = IF i = Len(buffer) + 1 THEN new ELSE buffer[i]
      BY <1>2, <2>2
    <3> QED BY <3>1, <3>2
  <2> QED BY <1>1, <2>1, <2>2
<1>4. LogTypes'
  <2>1. buffer' \in Seq(Entry)
    BY <1>1, <1>2
  <2> QED BY <1>1, <2>1 DEF LogTypes, LogInv
<1>5. new.timestamp = timestamp
  OBVIOUS
<1> HIDE DEF new
<1>6. BufferStamped'
  BY <1>0, <1>1, <1>3, <1>5 DEF BufferStamped, StampedAt, LogInv, LogTypes
<1>7. ASSUME ~FlushDue PROVE KillLosesOneInterval'
  <2>1. uptime < lastFlush + FlushMs
    BY <1>0, <1>7 DEF FlushDue, LogInv, LogTypes
  <2>2. \A j \in 1 .. Len(buffer) :
           /\ buffer[j].timestamp - Boot < lastFlush + FlushMs
           /\ buffer[j].timestamp - Boot >= lastFlush - Lag \/ retrying
    BY <1>1 DEF LogInv, KillLosesOneInterval
  <2>3. new.timestamp - Boot < lastFlush + FlushMs /\ new.timestamp - Boot >= lastFlush - Lag
    BY <1>0, <1>5, <2>1 DEF LogInv, LogTypes
  <2> QED BY <1>1, <1>3, <2>2, <2>3 DEF KillLosesOneInterval
<1>8. KillLosesOneInterval'
  BY <1>1, <1>7 DEF KillLosesOneInterval
<1>9. LeftByFailure' /\ IdleIsOpen'
  BY <1>1 DEF LeftByFailure, IdleIsOpen
<1> QED BY <1>4, <1>6, <1>8, <1>9 DEF LogInv

(* Every other step of the logger.                                         *)
LEMMA LogStep ==
  ASSUME LogInv, CloseFileLogger \/ Flush \/ Crash \/ Restart \/ Tick \/ UNCHANGED vars
  PROVE  LogInv'
<1> USE LoggerAssumption DEF LogInv
<1>1. \A i \in 1 .. Len(<< >>) : FALSE
  OBVIOUS
<1>2. << >> \in Seq(Entry)
  OBVIOUS
<1>3. LogTypes'
  <2>1. buffer' \in {buffer, << >>} /\ total' = total
    BY DEF CloseFileLogger, Flush, FlushNothing, OpenFails, AfterFailure, OpenFile, DiskFails,
         WriteAndSync, AfterWrite, Flushed, Crash, Restart, Tick, vars
  <2>2. uptime' \in {uptime, uptime + 1} /\ lastFlush' \in {lastFlush, entered, uptime}
         /\ entered' \in {entered, uptime}
    BY DEF CloseFileLogger, Flush, FlushNothing, OpenFails, OpenFile, DiskFails, WriteAndSync,
         Flushed, Crash, Restart, Tick, vars
  <2>3. uptime' \in Nat /\ lastFlush' \in 0 .. uptime' /\ entered' \in 0 .. uptime'
    BY <2>2 DEF LogTypes
  <2> QED BY <1>2, <2>1, <2>3 DEF LogTypes
<1>4. CASE CloseFileLogger
  BY <1>3, <1>4 DEF CloseFileLogger, LogTypes, BufferStamped, LeftByFailure, IdleIsOpen,
       KillLosesOneInterval, StampedAt
<1>5. CASE FlushNothing
  BY <1>3, <1>5 DEF FlushNothing, BufferStamped, LeftByFailure, IdleIsOpen, KillLosesOneInterval,
       StampedAt
<1>6. CASE OpenFails
  BY <1>3, <1>6 DEF OpenFails, AfterFailure, BufferStamped, LeftByFailure, IdleIsOpen,
       KillLosesOneInterval, StampedAt
<1>7. CASE OpenFile
  BY <1>3, <1>7 DEF OpenFile, BufferStamped, LeftByFailure, IdleIsOpen, KillLosesOneInterval,
       StampedAt
<1>8. CASE WriteAndSync
  BY <1>1, <1>3, <1>8 DEF WriteAndSync, AfterWrite, BufferStamped, LeftByFailure, IdleIsOpen,
       KillLosesOneInterval, StampedAt
<1>9. CASE Flushed
  <2>1. CASE closing
    BY <1>3, <1>9, <2>1 DEF Flushed, BufferStamped, LeftByFailure, IdleIsOpen,
         KillLosesOneInterval, StampedAt
  <2>2. CASE ~closing
    <3>1. lastFlush' = entered /\ pc' = "idle" /\ ~closing'
           /\ UNCHANGED <<uptime, buffer, retrying>>
      BY <1>9, <2>2 DEF Flushed
    <3>2. \A i \in 1 .. Len(buffer) : buffer[i].timestamp - Boot <= entered /\ retrying
      <4> SUFFICES ASSUME NEW i \in 1 .. Len(buffer)
                   PROVE  buffer[i].timestamp - Boot <= entered /\ retrying
        OBVIOUS
      <4>1. buffer[i].timestamp - Boot <= entered
        BY <1>9, <2>2 DEF Flushed, BufferStamped, StampedAt
      <4>2. buffer # << >>
        BY <1>1
      <4> QED BY <1>9, <4>1, <4>2 DEF Flushed, LeftByFailure
    <3>3. \A i \in 1 .. Len(buffer) : buffer[i].timestamp \in Int
      BY EntriesTyped
    <3>4. KillLosesOneInterval'
      BY <3>1, <3>2, <3>3 DEF KillLosesOneInterval, LogTypes
    <3>5. BufferStamped'
      BY <3>1 DEF BufferStamped, StampedAt
    <3> QED BY <1>3, <3>1, <3>4, <3>5 DEF LeftByFailure, IdleIsOpen
  <2> QED BY <2>1, <2>2
<1>10. CASE Crash \/ Restart
  <2>1. buffer' = << >> /\ pc' \in {"down", "idle"} /\ (pc' = "idle" => ~closing')
    BY <1>10 DEF Crash, Restart
  <2> QED BY <1>1, <1>3, <2>1 DEF BufferStamped, LeftByFailure, IdleIsOpen, KillLosesOneInterval
<1>11. CASE Tick
  <2>1. uptime' = uptime + 1 /\ UNCHANGED <<buffer, lastFlush, entered, closing, retrying, pc>>
    BY <1>11 DEF Tick
  <2>2. \A i \in 1 .. Len(buffer) : buffer[i].timestamp \in Int
    BY EntriesTyped
  <2>3. BufferStamped'
    BY <2>1, <2>2 DEF BufferStamped, StampedAt, LogTypes
  <2> QED BY <1>3, <2>1, <2>3 DEF LeftByFailure, IdleIsOpen, KillLosesOneInterval
<1>12. CASE DiskFails \/ UNCHANGED vars
  BY <1>3, <1>12 DEF DiskFails, vars, BufferStamped, LeftByFailure, IdleIsOpen,
       KillLosesOneInterval, StampedAt
<1> QED BY <1>4, <1>5, <1>6, <1>7, <1>8, <1>9, <1>10, <1>11, <1>12 DEF Flush

-----------------------------------------------------------------------------
(* The packet that has been saved and not yet logged, if there is one,     *)
(* arrived in the running interval: no flush begins between the two calls. *)
SavedInv ==
  /\ saved \in Seq(Int)
  /\ Len(saved) \in {total, total + 1}
  /\ Len(saved) = total + 1 => pc \in {"idle", "down"}
  /\ Len(saved) = total + 1 /\ pc = "idle" =>
       /\ Handed(saved) - Boot <= uptime
       /\ Handed(saved) - Boot >= lastFlush - Lag
HandleInv == LogInv /\ SavedInv

LEMMA HandleInvInit == HandleInit => HandleInv
<1> SUFFICES ASSUME HandleInit PROVE HandleInv
  OBVIOUS
<1>1. saved = << >> /\ total = 0
  BY DEF HandleInit, Init, Store!Init
<1>2. << >> \in Seq(Int) /\ Len(<< >>) = 0
  OBVIOUS
<1>3. SavedInv
  BY <1>1, <1>2 DEF SavedInv
<1> QED BY <1>3, LogInvInit DEF HandleInit, HandleInv

LEMMA HandleInvStep == HandleInv /\ [HandleNext]_allVars => HandleInv'
<1> SUFFICES ASSUME HandleInv, [HandleNext]_allVars PROVE HandleInv'
  OBVIOUS
<1>0. /\ LogInv /\ LogTypes /\ saved \in Seq(Int) /\ Len(saved) \in Nat /\ total \in Nat
      /\ uptime \in Nat /\ lastFlush \in 0 .. uptime /\ Boot \in Nat /\ Lag \in Nat
  BY LoggerAssumption DEF HandleInv, SavedInv, LogInv, LogTypes
<1>1. CASE SavePacket
  <2>1. pc = "idle" /\ Len(saved) = total /\ UNCHANGED vars
    BY <1>1 DEF SavePacket, Between
  <2>2. PICK late \in 0 .. Lag : saved' = Append(saved, uptime + Boot - late)
    BY <1>1 DEF SavePacket, Stamps, Store!Save, Store!SaveWithoutMemory, Store!Arrives
  <2>3. uptime + Boot - late \in Int
    BY <1>0
  <2>4. saved' \in Seq(Int) /\ Len(saved') = total + 1 /\ Handed(saved') = uptime + Boot - late
    BY <1>0, <2>1, <2>2, <2>3 DEF Handed
  <2>5. (uptime + Boot - late) - Boot <= uptime /\ (uptime + Boot - late) - Boot >= lastFlush - Lag
    BY <1>0
  <2>6. SavedInv'
    BY <2>1, <2>4, <2>5 DEF SavedInv, vars
  <2> QED BY <1>0, <2>1, <2>6, LogStep DEF HandleInv
<1>2. CASE EvictOld \/ UNCHANGED allVars
  <2>1. UNCHANGED vars /\ saved' = saved
    BY <1>2 DEF EvictOld, Store!Evict, Store!EvictDone, allVars, storeVars
  <2>2. SavedInv'
    BY <2>1 DEF HandleInv, SavedInv, Handed, vars
  <2> QED BY <1>0, <2>1, <2>2, LogStep DEF HandleInv
<1>3. CASE LogPacket
  <2>1. Len(saved) = total + 1 /\ AddToLogBuffer(Handed(saved)) /\ saved' = saved
    BY <1>0, <1>3 DEF LogPacket, HandleInv, SavedInv, storeVars
  <2>2. pc = "idle" /\ total' = total + 1
    BY <2>1 DEF AddToLogBuffer
  <2>3. Handed(saved) \in Int
    BY <1>0, <2>1 DEF Handed
  <2>4. LogInv'
    BY <1>0, <2>1, <2>2, <2>3, AddStep DEF HandleInv, SavedInv
  <2>5. SavedInv'
    BY <1>0, <2>1, <2>2 DEF SavedInv
  <2> QED BY <2>4, <2>5 DEF HandleInv
<1>4. CASE FlushLog \/ Shutdown
  <2>1. saved' = saved /\ total' = total /\ Len(saved) = total
    BY <1>0, <1>4 DEF FlushLog, Shutdown, Between, CloseFileLogger, Flush, FlushNothing, OpenFails,
       OpenFile, DiskFails, WriteAndSync, Flushed, storeVars, HandleInv, SavedInv
  <2>2. SavedInv'
    BY <1>0, <2>1 DEF SavedInv
  <2> QED BY <1>0, <1>4, <2>2, LogStep DEF FlushLog, Shutdown, HandleInv
<1>5. CASE Kill
  <2>1. saved' = saved /\ total' = total /\ pc' = "down" /\ Crash
    BY <1>5 DEF Kill, Crash, storeVars
  <2>2. SavedInv'
    BY <2>1 DEF HandleInv, SavedInv
  <2> QED BY <1>0, <2>1, <2>2, LogStep DEF HandleInv
<1>6. CASE StartAgain
  <2>1. saved' = SubSeq(saved, 1, total) /\ total' = total /\ Restart
    BY <1>6 DEF StartAgain, Restart
  <2>2. total <= Len(saved)
    BY <1>0 DEF HandleInv, SavedInv
  <2>3. saved' \in Seq(Int) /\ Len(saved') = total
    BY <1>0, <2>1, <2>2
  <2>4. SavedInv'
    BY <1>0, <2>1, <2>3 DEF SavedInv
  <2> QED BY <1>0, <2>1, <2>4, LogStep DEF HandleInv
<1>7. CASE TimePasses
  <2>1. Tick /\ uptime' = uptime + 1 /\ UNCHANGED <<saved, total, pc, lastFlush>>
    BY <1>7 DEF TimePasses, Tick, storeVars
  <2>2. Len(saved) = total + 1 /\ pc = "idle" => Handed(saved) \in Int
    BY <1>0 DEF Handed
  <2>3. SavedInv'
    BY <1>0, <2>1, <2>2 DEF HandleInv, SavedInv, Handed
  <2> QED BY <1>0, <2>1, <2>3, LogStep DEF HandleInv
<1> QED BY <1>1, <1>2, <1>3, <1>4, <1>5, <1>6, <1>7 DEF HandleNext

(* A kill of the logger costs the packets of one flush interval and no     *)
(* others, unless fopen keeps failing.                                     *)
THEOREM LoggerLosesOneInterval == Spec => []KillLosesOneInterval
<1>1. LogInv /\ [Next]_vars => LogInv'
  <2> SUFFICES ASSUME LogInv, [Next]_vars PROVE LogInv'
    OBVIOUS
  <2>1. ASSUME NEW timestamp \in Stamps, AddToLogBuffer(timestamp) PROVE LogInv'
    <3>1. PICK late \in 0 .. Lag : timestamp = uptime + Boot - late
      BY DEF Stamps
    <3>2. /\ timestamp \in Int /\ timestamp - Boot <= uptime
          /\ timestamp - Boot >= lastFlush - Lag
      BY <3>1, LoggerAssumption DEF LogInv, LogTypes
    <3> QED BY <2>1, <3>2, AddStep
  <2> QED BY <2>1, LogStep DEF Next
<1>2. LogInv => KillLosesOneInterval
  BY DEF LogInv
<1> QED BY <1>1, <1>2, LogInvInit, PTL DEF Spec

(* The same holds when the packets come through handle_packet, where time  *)
(* may pass and the process be killed between saving a packet and logging  *)
(* it.                                                                     *)
THEOREM HandlingLosesOneInterval == HandleSpec => []KillLosesOneInterval
<1>1. HandleInv => KillLosesOneInterval
  BY DEF HandleInv, LogInv
<1> QED BY <1>1, HandleInvInit, HandleInvStep, PTL DEF HandleSpec

-----------------------------------------------------------------------------
(* The loop of flush_log_to_disk.  tlapm knows a recursive function as the *)
(* CHOOSE of its equation: it satisfies it because, up to any entry of the *)
(* buffer, some function does; and the argument over the entries is that a *)
(* set of numbers that is not empty has a least element.                   *)
LEMMA LeastOf ==
  ASSUME NEW T, T \subseteq Nat, T # {}
  PROVE  \E m \in T : \A j \in T : m <= j
<1>1. PICK m \in T : \A j \in T : ~ (<<j, m>> \in OpToRel(<, Nat))
  BY WFMin, NatLessThanWellFounded
<1>2. ASSUME NEW j \in T PROVE m <= j
  <2>1. m \in Nat /\ j \in Nat
    OBVIOUS
  <2>2. <<j, m>> \in Nat \X Nat /\ ~ (<<j, m>> \in OpToRel(<, Nat))
    BY <1>1, <2>1
  <2>3. ~ (j < m)
    BY <2>1, <2>2, Zenon DEF OpToRel
  <2> QED BY <2>1, <2>3
<1> QED BY <1>2

LoopTo(n, w) ==
  w = [i \in 0 .. n |-> IF i = 0 THEN << >>
                        ELSE IF Reaches(i) THEN Append(w[i - 1], buffer[i]) ELSE w[i - 1]]

LEMMA LoopReaches == ASSUME NEW n \in Nat PROVE \E w : LoopTo(n, w)
<1> DEFINE T == {k \in Nat : ~ \E w : LoopTo(k, w)}
<1> SUFFICES ASSUME T # {} PROVE FALSE
  OBVIOUS
<1>1. PICK m \in T : \A j \in T : m <= j
  BY LeastOf, T \subseteq Nat
<1>2. m \in Nat /\ ~ \E w : LoopTo(m, w)
  OBVIOUS
<1>3. m # 0
  <2>1. LoopTo(0, [i \in 0 .. 0 |-> << >>])
    BY DEF LoopTo
  <2> QED BY <1>2, <2>1
<1>4. m - 1 \in Nat /\ ~ (m <= m - 1)
  BY <1>2, <1>3
<1>5. PICK w : LoopTo(m - 1, w)
  BY <1>1, <1>4
<1> DEFINE step(v) == IF Reaches(m) THEN Append(v, buffer[m]) ELSE v
           x == [i \in 0 .. m |-> IF i = m THEN step(w[m - 1]) ELSE w[i]]
<1>6. \A i \in 0 .. m - 1 : x[i] = w[i]
  BY <1>2, <1>4
<1>7. ASSUME NEW i \in 0 .. m
      PROVE  x[i] = IF i = 0 THEN << >>
                    ELSE IF Reaches(i) THEN Append(x[i - 1], buffer[i]) ELSE x[i - 1]
  <2>1. CASE i = m
    <3>1. x[i] = step(w[m - 1]) /\ x[m - 1] = w[m - 1]
      BY <1>4, <1>6, <2>1
    <3> QED BY <1>3, <2>1, <3>1
  <2>2. CASE i = 0
    <3>1. w[0] = << >> /\ x[0] = w[0]
      BY <1>4, <1>5, <1>6 DEF LoopTo
    <3> QED BY <2>2, <3>1
  <2>3. CASE i # m /\ i # 0
    <3>1. i \in 0 .. m - 1 /\ i - 1 \in 0 .. m - 1
      BY <1>2, <2>3
    <3>2. w[i] = IF i = 0 THEN << >>
                 ELSE IF Reaches(i) THEN Append(w[i - 1], buffer[i]) ELSE w[i - 1]
      BY <1>5, <3>1 DEF LoopTo
    <3>3. x[i] = w[i] /\ x[i - 1] = w[i - 1]
      BY <1>6, <3>1
    <3> QED BY <2>3, <3>2, <3>3
  <2> QED BY <2>1, <2>2, <2>3
<1>8. x = [i \in 0 .. m |-> x[i]]
  OBVIOUS
<1> HIDE DEF x
<1>9. LoopTo(m, x)
  BY <1>7, <1>8 DEF LoopTo
<1> QED BY <1>2, <1>9

LEMMA WrittenIs ==
  ASSUME buffer \in Seq(Entry)
  PROVE  /\ Written[0] = << >>
         /\ \A i \in 1 .. Len(buffer) :
              Written[i] = IF Reaches(i) THEN Append(Written[i - 1], buffer[i])
                           ELSE Written[i - 1]
<1>1. Len(buffer) \in Nat
  OBVIOUS
<1>2. PICK w : LoopTo(Len(buffer), w)
  BY <1>1, LoopReaches
<1>3. LoopTo(Len(buffer), Written)
  BY <1>2 DEF Written, LoopTo
<1>4. \A i \in 0 .. Len(buffer) :
        Written[i] = IF i = 0 THEN << >>
                     ELSE IF Reaches(i) THEN Append(Written[i - 1], buffer[i])
                     ELSE Written[i - 1]
  BY <1>3 DEF LoopTo
<1>5. 0 \in 0 .. Len(buffer) /\ \A i \in 1 .. Len(buffer) : i \in 0 .. Len(buffer) /\ i # 0
  BY <1>1
<1> QED BY <1>4, <1>5

(* What was written once the loop has passed entry i: entries up to i, in  *)
(* their order, and all of those that are kept.                            *)
Rising(s) == \A i, j \in 1 .. Len(s) : i < j => s[i].n < s[j].n
PassedTo(i) ==
  LET w == Written[i]
  IN  /\ w \in Seq(Entry) /\ Len(w) <= i /\ Rising(w)
      /\ \A k \in 1 .. Len(w) : \E j \in 1 .. i : w[k] = buffer[j]
      /\ \A j \in 1 .. i : Reaches(j) => \E k \in 1 .. Len(w) : w[k] = buffer[j]

LEMMA PassesEntry ==
  ASSUME buffer \in Seq(Entry), Rising(buffer),
         NEW i \in 1 .. Len(buffer), PassedTo(i - 1)
  PROVE  PassedTo(i)
<1> DEFINE w == Written[i - 1]  v == Written[i]  b == buffer[i]
<1>0. /\ Len(buffer) \in Nat /\ i \in Nat /\ i - 1 \in Nat /\ b \in Entry
      /\ \A j \in 1 .. Len(buffer) : buffer[j] \in Entry
  OBVIOUS
<1>1. /\ w \in Seq(Entry) /\ Len(w) <= i - 1 /\ Rising(w)
      /\ \A k \in 1 .. Len(w) : \E j \in 1 .. i - 1 : w[k] = buffer[j]
      /\ \A j \in 1 .. i - 1 : Reaches(j) => \E k \in 1 .. Len(w) : w[k] = buffer[j]
  BY DEF PassedTo
<1>2. v = IF Reaches(i) THEN Append(w, b) ELSE w
  BY WrittenIs
<1>3. \A j \in 1 .. i : j \in 1 .. i - 1 \/ j = i
  BY <1>0
<1>4. \A j \in 1 .. i - 1 : j \in 1 .. i /\ j \in 1 .. Len(buffer) /\ buffer[j].n < b.n
  <2>1. \A j \in 1 .. i - 1 : j \in 1 .. Len(buffer) /\ j < i /\ j \in 1 .. i
    BY <1>0
  <2> QED BY <2>1 DEF Rising
<1> HIDE DEF w, v, b
<1>5. CASE ~Reaches(i)
  <2>1. v = w
    BY <1>2, <1>5
  <2>2. \A j \in 1 .. i : Reaches(j) => \E k \in 1 .. Len(w) : w[k] = buffer[j]
    BY <1>1, <1>3, <1>5 DEF b
  <2>3. \A k \in 1 .. Len(w) : \E j \in 1 .. i : w[k] = buffer[j]
    BY <1>1, <1>4
  <2>4. Len(w) <= i
    BY <1>0, <1>1
  <2> QED BY <1>1, <2>1, <2>2, <2>3, <2>4 DEF PassedTo, v
<1>6. CASE Reaches(i)
  <2>1. v = Append(w, b)
    BY <1>2, <1>6
  <2>2. v \in Seq(Entry) /\ Len(v) = Len(w) + 1 /\ Len(w) \in Nat /\ v[Len(w) + 1] = b
    BY <1>0, <1>1, <2>1
  <2>3. \A k \in 1 .. Len(w) : v[k] = w[k]
    BY <1>0, <1>1, <2>1
  <2>4. \A k \in 1 .. Len(v) : k \in 1 .. Len(w) \/ k = Len(w) + 1
    BY <2>2
  <2>5. Len(w) + 1 \in 1 .. Len(v) /\ i \in 1 .. i
        /\ \A k \in 1 .. Len(w) : k \in 1 .. Len(v)
    BY <1>0, <2>2
  <2>6. \A k \in 1 .. Len(v) : \E j \in 1 .. i : v[k] = buffer[j]
    BY <1>1, <1>4, <2>2, <2>3, <2>4, <2>5 DEF b
  <2>7. \A j \in 1 .. i : Reaches(j) => \E k \in 1 .. Len(v) : v[k] = buffer[j]
    <3> SUFFICES ASSUME NEW j \in 1 .. i, Reaches(j)
                 PROVE  \E k \in 1 .. Len(v) : v[k] = buffer[j]
      OBVIOUS
    <3>1. CASE j = i
      BY <2>2, <2>5, <3>1 DEF b
    <3>2. CASE j \in 1 .. i - 1
      BY <1>1, <2>3, <2>5, <3>2
    <3> QED BY <1>3, <3>1, <3>2
  <2>8. Rising(v)
    <3> SUFFICES ASSUME NEW k \in 1 .. Len(v), NEW l \in 1 .. Len(v), k < l PROVE v[k].n < v[l].n
      BY DEF Rising
    <3>1. k \in 1 .. Len(w) /\ (l \in 1 .. Len(w) \/ l = Len(w) + 1)
      BY <2>2
    <3>2. CASE l \in 1 .. Len(w)
      BY <1>1, <2>3, <3>1, <3>2 DEF Rising
    <3>3. CASE l = Len(w) + 1
      <4>1. PICK j \in 1 .. i - 1 : w[k] = buffer[j]
        BY <1>1, <3>1
      <4> QED BY <1>4, <2>2, <2>3, <3>1, <3>3, <4>1
    <3> QED BY <3>1, <3>2, <3>3
  <2>9. Len(v) <= i
    BY <1>0, <1>1, <2>2
  <2> QED BY <2>2, <2>6, <2>7, <2>8, <2>9 DEF PassedTo, v
<1> QED BY <1>5, <1>6

LEMMA PassesAll ==
  ASSUME buffer \in Seq(Entry), Rising(buffer) PROVE PassedTo(Len(buffer))
<1> DEFINE T == {i \in 0 .. Len(buffer) : ~PassedTo(i)}
<1>0. Len(buffer) \in Nat
  OBVIOUS
<1> SUFFICES ASSUME T # {} PROVE FALSE
  BY <1>0
<1>1. T \subseteq Nat
  BY <1>0
<1>2. PICK m \in T : \A j \in T : m <= j
  BY <1>1, LeastOf
<1>3. m \in 0 .. Len(buffer) /\ ~PassedTo(m)
  OBVIOUS
<1>4. PassedTo(0)
  <2>1. Written[0] = << >>
    BY WrittenIs
  <2>2. << >> \in Seq(Entry) /\ Len(<< >>) = 0 /\ Rising(<< >>)
    BY DEF Rising
  <2> QED BY <2>1, <2>2 DEF PassedTo
<1>5. m \in 1 .. Len(buffer) /\ m - 1 \in 0 .. Len(buffer) /\ ~(m <= m - 1)
  BY <1>0, <1>3, <1>4
<1>6. PassedTo(m - 1)
  BY <1>2, <1>5
<1> QED BY <1>3, <1>5, <1>6, PassesEntry

(* The lines of a flush: entries of the buffer in their order, and all of  *)
(* those that are kept.                                                    *)
LEMMA LinesAre ==
  ASSUME buffer \in Seq(Entry), Rising(buffer)
  PROVE  /\ Lines \in Seq(Entry) /\ Len(Lines) <= Len(buffer) /\ Rising(Lines)
         /\ \A k \in 1 .. Len(Lines) : InSeq(Lines[k], buffer)
         /\ \A j \in 1 .. Len(buffer) : Reaches(j) => InSeq(buffer[j], Lines)
<1>1. PassedTo(Len(buffer))
  BY PassesAll
<1> DEFINE w == Written[Len(buffer)]
<1>2. /\ w \in Seq(Entry) /\ Len(w) <= Len(buffer) /\ Rising(w)
      /\ \A k \in 1 .. Len(w) : \E j \in 1 .. Len(buffer) : w[k] = buffer[j]
      /\ \A j \in 1 .. Len(buffer) :
           Reaches(j) => \E k \in 1 .. Len(w) : w[k] = buffer[j]
  BY <1>1 DEF PassedTo
<1>3. Lines = w
  BY DEF Lines
<1> HIDE DEF w
<1> QED BY <1>2, <1>3 DEF InSeq

-----------------------------------------------------------------------------
(* The file and the buffer, in numbers of packets: each rises, the buffer  *)
(* follows the file, and no number has been used yet that is above total.  *)
OrderInv ==
  /\ Rising(file) /\ Rising(buffer)
  /\ \A i \in 1 .. Len(file), j \in 1 .. Len(buffer) : file[i].n < buffer[j].n
  /\ \A i \in 1 .. Len(file) : file[i].n <= total
  /\ \A j \in 1 .. Len(buffer) : buffer[j].n <= total

(* The size is tested when the file is opened, so a batch is written to a  *)
(* file below the limit; a new process finds no buffer; and no packet is   *)
(* stamped before the server's clock began.                                *)
SizeInv ==
  /\ pc = "write" => Len(file) < MaxLogSize
  /\ Len(file) < MaxLogSize + LogCapacity
  /\ pc = "down" => buffer = << >>
  /\ pc = "exited" => buffer = << >> \/ retrying
  /\ \A j \in 1 .. Len(buffer) : buffer[j].timestamp >= Boot - Lag
FileTypes ==
  file \in Seq(Entry) /\ Len(buffer) <= LogCapacity /\ cutoff \in Int /\ uptime <= MaxUptime
FileInv == FileTypes /\ OrderInv /\ SizeInv

LEMMA ModInt == ASSUME NEW a \in Int, NEW b \in Nat \ {0} PROVE a % b \in Int
OBVIOUS

LEMMA EntryNumbers ==
  ASSUME NEW s \in Seq(Entry), NEW i \in 1 .. Len(s)
  PROVE  s[i] \in Entry /\ s[i].n \in Int /\ s[i].timestamp \in Int
<1>1. s[i] \in Entry
  OBVIOUS
<1> QED BY <1>1 DEF Entry

LEMMA FileInvInit == Init => FileInv
<1> SUFFICES ASSUME Init PROVE FileInv
  OBVIOUS
<1>1. /\ file = << >> /\ buffer = << >> /\ cutoff = 0 /\ uptime \in StartUptimes
      /\ pc = "idle" /\ Len(<< >>) = 0
  BY DEF Init
<1>2. FileTypes
  <2>1. << >> \in Seq(Entry)
    OBVIOUS
  <2> QED BY <1>1, <2>1, LoggerAssumption DEF FileTypes
<1>3. \A i \in 1 .. Len(<< >>) : FALSE
  OBVIOUS
<1>4. OrderInv
  BY <1>1, <1>3 DEF OrderInv, Rising
<1>5. SizeInv
  BY <1>1, <1>3, LoggerAssumption DEF SizeInv
<1> QED BY <1>2, <1>4, <1>5 DEF FileInv

(* A packet accepted gets the next number; one that is not, none.          *)
LEMMA AddFile ==
  ASSUME LogInv, FileInv, NEW timestamp \in Int, timestamp >= Boot - Lag,
         AddToLogBuffer(timestamp)
  PROVE  FileInv'
<1> DEFINE new == [n |-> total + 1, timestamp |-> timestamp]
<1>1. /\ pc = "idle" /\ file' = file /\ cutoff' = cutoff /\ uptime' = uptime
      /\ total' = total + 1 /\ buffer' = Buffered(new) /\ pc' \in {"idle", "flush"}
  BY DEF AddToLogBuffer
<1>2. /\ buffer \in Seq(Entry) /\ Len(buffer) \in Nat /\ total \in Nat
      /\ file \in Seq(Entry) /\ Len(file) \in Nat /\ Len(buffer) <= LogCapacity
      /\ new \in Entry /\ new.n = total + 1 /\ new.timestamp = timestamp
  BY DEF LogInv, LogTypes, FileInv, FileTypes, Entry
<1> HIDE DEF new
<1>3. \A i \in 1 .. Len(file) : file[i].n \in Int
  BY <1>2, EntryNumbers
<1>4. \A i \in 1 .. Len(buffer) : buffer[i].n \in Int
  BY <1>2, EntryNumbers
<1>5. CASE buffer' = buffer
  <2>0. OrderInv
    BY DEF FileInv
  <2>3. /\ \A i \in 1 .. Len(file) : file[i].n <= total + 1
        /\ \A j \in 1 .. Len(buffer) : buffer[j].n <= total + 1
    BY <1>2, <1>3, <1>4, <2>0 DEF OrderInv
  <2>1. OrderInv'
    BY <1>1, <1>5, <2>0, <2>3 DEF OrderInv, Rising
  <2>2. FileTypes' /\ SizeInv'
    BY <1>1, <1>5 DEF FileInv, FileTypes, SizeInv
  <2> QED BY <2>1, <2>2 DEF FileInv
<1>6. CASE Len(buffer) < LogCapacity /\ buffer' = Append(buffer, new)
  <2>1. Len(buffer') = Len(buffer) + 1 /\ buffer'[Len(buffer) + 1] = new
    BY <1>2, <1>6
  <2>2. \A i \in 1 .. Len(buffer) : buffer'[i] = buffer[i]
    BY <1>2, <1>6
  <2>3. \A i \in 1 .. Len(buffer') : i \in 1 .. Len(buffer) \/ i = Len(buffer) + 1
    BY <1>2, <2>1
  <2>4. Rising(buffer')
    <3> SUFFICES ASSUME NEW i \in 1 .. Len(buffer'), NEW j \in 1 .. Len(buffer'), i < j
                 PROVE  buffer'[i].n < buffer'[j].n
      BY DEF Rising
    <3>1. i \in 1 .. Len(buffer) /\ (j \in 1 .. Len(buffer) \/ j = Len(buffer) + 1)
      BY <1>2, <2>1
    <3>2. CASE j \in 1 .. Len(buffer)
      BY <2>2, <3>1, <3>2 DEF FileInv, OrderInv, Rising
    <3>3. CASE j = Len(buffer) + 1
      <4>1. buffer[i].n <= total
        BY <3>1 DEF FileInv, OrderInv
      <4> QED BY <1>2, <1>4, <2>1, <2>2, <3>1, <3>3, <4>1
    <3> QED BY <3>1, <3>2, <3>3
  <2>5. /\ \A i \in 1 .. Len(file) : file[i].n <= total + 1 /\ file[i].n < new.n
        /\ \A j \in 1 .. Len(buffer) : buffer[j].n <= total + 1
    BY <1>2, <1>3, <1>4 DEF FileInv, OrderInv
  <2>6. \A i \in 1 .. Len(file), j \in 1 .. Len(buffer') : file[i].n < buffer'[j].n
    BY <2>1, <2>2, <2>3, <2>5 DEF FileInv, OrderInv
  <2>7. \A j \in 1 .. Len(buffer') : buffer'[j].n <= total + 1
    BY <1>2, <2>1, <2>2, <2>3, <2>5
  <2>8. OrderInv'
    BY <1>1, <2>4, <2>5, <2>6, <2>7 DEF FileInv, OrderInv, Rising
  <2>9. \A j \in 1 .. Len(buffer') : buffer'[j].timestamp >= Boot - Lag
    BY <1>2, <2>1, <2>2, <2>3 DEF FileInv, SizeInv
  <2>10. FileTypes'
    BY <1>1, <1>2, <1>6, <2>1, LoggerAssumption DEF FileInv, FileTypes
  <2>11. SizeInv'
    BY <1>1, <2>9 DEF FileInv, SizeInv
  <2> QED BY <2>8, <2>10, <2>11 DEF FileInv
<1> QED BY <1>1, <1>5, <1>6 DEF Buffered

LEMMA RisingConcat ==
  ASSUME NEW s \in Seq(Entry), NEW t \in Seq(Entry), Rising(s), Rising(t),
         \A i \in 1 .. Len(s), j \in 1 .. Len(t) : s[i].n < t[j].n
  PROVE  Rising(s \o t)
<1> DEFINE c == s \o t
<1>1. Len(s) \in Nat /\ Len(t) \in Nat /\ Len(c) = Len(s) + Len(t)
  OBVIOUS
<1>2. \A i \in 1 .. Len(s) : c[i] = s[i]
  OBVIOUS
<1>3. \A i \in Len(s) + 1 .. Len(c) : c[i] = t[i - Len(s)] /\ i - Len(s) \in 1 .. Len(t)
  BY <1>1
<1> HIDE DEF c
<1>4. \A i \in 1 .. Len(c) : i \in 1 .. Len(s) \/ i \in Len(s) + 1 .. Len(c)
  BY <1>1
<1> SUFFICES ASSUME NEW i \in 1 .. Len(c), NEW j \in 1 .. Len(c), i < j PROVE c[i].n < c[j].n
  BY DEF Rising, c
<1>5. CASE j \in 1 .. Len(s)
  <2>1. i \in 1 .. Len(s)
    BY <1>1, <1>5
  <2> QED BY <1>2, <1>5, <2>1 DEF Rising
<1>6. CASE j \in Len(s) + 1 .. Len(c) /\ i \in 1 .. Len(s)
  BY <1>2, <1>3, <1>6
<1>7. CASE j \in Len(s) + 1 .. Len(c) /\ i \in Len(s) + 1 .. Len(c)
  <2>1. i - Len(s) < j - Len(s)
    BY <1>1
  <2> QED BY <1>3, <1>7, <2>1 DEF Rising
<1> QED BY <1>4, <1>5, <1>6, <1>7

(* Some lines of the buffer are appended to the file, the buffer is gone.  *)
LEMMA WriteFile ==
  ASSUME LogInv, FileInv, pc = "write",
         NEW X \in Seq(Entry), Rising(X), Len(X) <= Len(buffer),
         \A k \in 1 .. Len(X) : InSeq(X[k], buffer),
         file' = file \o X, buffer' = << >>, UNCHANGED <<uptime, cutoff, total>>,
         pc' \in {"flushed", "down"}
  PROVE  FileInv'
<1>1. /\ file \in Seq(Entry) /\ Len(file) \in Nat /\ Len(X) \in Nat /\ total \in Nat
      /\ Len(buffer) <= LogCapacity /\ Len(buffer) \in Nat /\ LogCapacity \in Nat
      /\ MaxLogSize \in Nat /\ buffer \in Seq(Entry)
  BY LoggerAssumption DEF LogInv, LogTypes, FileInv, FileTypes
<1>2. /\ file' \in Seq(Entry) /\ Len(file') = Len(file) + Len(X) /\ Len(buffer') = 0
  BY <1>1
<1>3. \A i \in 1 .. Len(file) : file'[i] = file[i]
  BY <1>1
<1>4. \A i \in Len(file) + 1 .. Len(file') : file'[i] = X[i - Len(file)]
  BY <1>1, <1>2
<1>5. \A i \in Len(file) + 1 .. Len(file') : i - Len(file) \in 1 .. Len(X)
  BY <1>1, <1>2
<1>6. \A i \in 1 .. Len(file') : i \in 1 .. Len(file) \/ i \in Len(file) + 1 .. Len(file')
  BY <1>1, <1>2
<1>7. ASSUME NEW k \in 1 .. Len(X)
      PROVE  X[k].n <= total /\ \A i \in 1 .. Len(file) : file[i].n < X[k].n
  <2>1. PICK j \in 1 .. Len(buffer) : buffer[j] = X[k]
    BY DEF InSeq
  <2> QED BY <2>1 DEF FileInv, OrderInv
<1>8. Rising(file')
  BY <1>1, <1>7, RisingConcat DEF FileInv, OrderInv
<1>9. \A i \in 1 .. Len(file') : file'[i].n <= total
  BY <1>3, <1>4, <1>5, <1>6, <1>7 DEF FileInv, OrderInv
<1>10. OrderInv'
  <2>1. \A j \in 1 .. Len(buffer') : FALSE
    BY <1>2
  <2> QED BY <1>8, <1>9, <2>1 DEF OrderInv, Rising
<1>11. Len(file) < MaxLogSize
  BY DEF FileInv, SizeInv
<1>12. FileTypes'
  BY <1>1, <1>2 DEF FileInv, FileTypes
<1>13. SizeInv'
  <2>1. Len(file') < MaxLogSize + LogCapacity
    BY <1>1, <1>2, <1>11
  <2>2. \A j \in 1 .. Len(buffer') : FALSE
    BY <1>2
  <2> QED BY <2>1, <2>2 DEF SizeInv
<1> QED BY <1>10, <1>12, <1>13 DEF FileInv

(* A step that writes nothing: the file stays or is begun anew, and the    *)
(* buffer stays or is dropped.                                             *)
LEMMA UnwrittenFile ==
  ASSUME LogInv, FileInv, file' \in {file, << >>}, buffer' \in {buffer, << >>},
         total' = total, cutoff' \in Int, uptime' <= MaxUptime,
         pc' = "write" => Len(file') < MaxLogSize,
         pc' = "down" => buffer' = << >>,
         pc' = "exited" => buffer' = << >> \/ retrying'
  PROVE  FileInv'
<1>1. << >> \in Seq(Entry) /\ Len(<< >>) = 0 /\ \A i \in 1 .. Len(<< >>) : FALSE
  OBVIOUS
<1>2. LogCapacity \in Nat \ {0} /\ MaxLogSize \in Nat \ {0}
  BY LoggerAssumption
<1>3. FileTypes'
  <2>1. file' \in Seq(Entry)
    BY <1>1 DEF FileInv, FileTypes
  <2>2. Len(buffer') <= LogCapacity
    <3>1. CASE buffer' = buffer
      BY <3>1 DEF FileInv, FileTypes
    <3>2. CASE buffer' = << >>
      BY <1>1, <1>2, <3>2
    <3> QED BY <3>1, <3>2
  <2> QED BY <2>1, <2>2 DEF FileTypes
<1>4. OrderInv'
  BY <1>1 DEF FileInv, OrderInv, Rising
<1>5. Len(file') < MaxLogSize + LogCapacity
  BY <1>1, <1>2 DEF FileInv, SizeInv
<1>6. SizeInv'
  BY <1>1, <1>5 DEF FileInv, SizeInv
<1> QED BY <1>3, <1>4, <1>6 DEF FileInv

(* What a kill leaves of the lines that were being written.                *)
LEMMA FrontOfLines ==
  ASSUME LogInv, FileInv, NEW k \in 0 .. Len(Lines)
  PROVE  LET X == SubSeq(Lines, 1, k)
         IN  /\ X \in Seq(Entry) /\ Rising(X) /\ Len(X) <= Len(buffer)
             /\ \A i \in 1 .. Len(X) : InSeq(X[i], buffer)
<1> DEFINE W == Lines  X == SubSeq(W, 1, k)
<1>1. /\ W \in Seq(Entry) /\ Len(W) <= Len(buffer) /\ Rising(W)
      /\ \A i \in 1 .. Len(W) : InSeq(W[i], buffer)
  BY LinesAre DEF LogInv, LogTypes, FileInv, OrderInv
<1>2. k \in 0 .. Len(W) /\ Len(W) \in Nat /\ Len(buffer) \in Nat
  BY <1>1 DEF LogInv, LogTypes
<1> HIDE DEF W
<1>3. X \in Seq(Entry)
  BY <1>1, <1>2
<1>4. Len(X) = k
  BY <1>1, <1>2
<1>5. \A i \in 1 .. k : X[i] = W[i] /\ i \in 1 .. Len(W)
  BY <1>1, <1>2
<1> HIDE DEF X
<1>6. Rising(X) /\ \A i \in 1 .. Len(X) : InSeq(X[i], buffer)
  BY <1>1, <1>4, <1>5 DEF Rising
<1>7. Len(X) <= Len(buffer)
  BY <1>1, <1>2, <1>4
<1> QED BY <1>3, <1>6, <1>7 DEF X, W

(* Before anything is written the lines have no part in the file.          *)
LEMMA NothingWritten ==
  ASSUME LogInv, FileInv PROVE file \o SubSeq(Lines, 1, 0) = file
<1>1. file \in Seq(Entry)
  BY DEF FileInv, FileTypes
<1>2. SubSeq(Lines, 1, 0) = << >>
  OBVIOUS
<1> QED BY <1>1, <1>2

(* The steps of the logger that do not log a packet.                       *)
LEMMA FileStep ==
  ASSUME LogInv, FileInv,
         CloseFileLogger \/ Flush \/ Crash \/ Restart \/ Tick \/ UNCHANGED vars
  PROVE  FileInv'
<1>0. /\ cutoff \in Int /\ uptime \in Nat /\ uptime <= MaxUptime /\ MaxUptime \in Nat
      /\ pc = "write" => Len(file) < MaxLogSize
      /\ pc = "down" => buffer = << >>
      /\ pc = "exited" => buffer = << >> \/ retrying
      /\ pc = "flushed" => buffer = << >> \/ retrying
      /\ Len(<< >>) = 0 /\ MaxLogSize \in Nat \ {0} /\ Len(file) \in Nat
  BY LoggerAssumption
     DEF FileInv, FileTypes, SizeInv, LogInv, LogTypes, LeftByFailure
<1>1. CASE CloseFileLogger \/ FlushNothing \/ OpenFails \/ Restart
  BY <1>0, <1>1, UnwrittenFile
     DEF CloseFileLogger, FlushNothing, OpenFails, AfterFailure, Restart
<1>2. CASE Flushed
  BY <1>0, <1>2, UnwrittenFile DEF Flushed
<1>3. CASE DiskFails \/ UNCHANGED vars
  BY <1>0, <1>3, UnwrittenFile DEF DiskFails, vars
<1>4. CASE Tick
  <2>1. uptime' = uptime + 1 /\ uptime' <= MaxUptime
    BY <1>0, <1>4 DEF Tick
  <2> QED BY <1>0, <1>4, <2>1, UnwrittenFile DEF Tick
<1>5. CASE OpenFile
  <2>1. file' = Opened /\ buffer' = buffer /\ total' = total /\ uptime' = uptime /\ pc' = "write"
        /\ cutoff' = (uptime - RetentionMs) % Wrap
    BY <1>5 DEF OpenFile
  <2>2. cutoff' \in Int
    BY <1>0, <2>1, ModInt, LoggerAssumption
  <2>3. file' \in {file, << >>} /\ Len(file') < MaxLogSize
    BY <1>0, <2>1 DEF Opened
  <2> QED BY <1>0, <2>1, <2>2, <2>3, UnwrittenFile
<1>6. CASE WriteAndSync
  <2>1. /\ pc = "write" /\ pc' = "flushed" /\ file' = file \o Lines /\ buffer' = << >>
        /\ UNCHANGED <<uptime, cutoff, total>>
    BY <1>6 DEF WriteAndSync, AfterWrite
  <2>2. /\ Lines \in Seq(Entry) /\ Len(Lines) <= Len(buffer) /\ Rising(Lines)
        /\ \A k \in 1 .. Len(Lines) : InSeq(Lines[k], buffer)
    BY LinesAre DEF LogInv, LogTypes, FileInv, OrderInv
  <2> QED BY <2>1, <2>2, WriteFile
<1>7. CASE Crash
  <2>1. /\ pc' = "down" /\ buffer' = << >> /\ UNCHANGED <<uptime, cutoff, total>>
    BY <1>7 DEF Crash
  <2>2. PICK k \in 0 .. Len(Lines) :
          (k > 0 => pc = "write") /\ file' = file \o SubSeq(Lines, 1, k)
    BY <1>7 DEF Crash
  <2>3. CASE pc = "write"
    <3> DEFINE X == SubSeq(Lines, 1, k)
    <3>1. /\ X \in Seq(Entry) /\ Rising(X) /\ Len(X) <= Len(buffer)
          /\ \A i \in 1 .. Len(X) : InSeq(X[i], buffer)
      BY FrontOfLines
    <3>2. file' = file \o X
      BY <2>2
    <3> HIDE DEF X
    <3> QED BY <2>1, <2>3, <3>1, <3>2, WriteFile
  <2>4. CASE pc # "write"
    <3>1. k = 0
      <4>1. Len(Lines) \in Nat
        BY LinesAre DEF LogInv, LogTypes, FileInv, OrderInv
      <4> QED BY <2>2, <2>4, <4>1
    <3>2. file' = file
      BY <2>2, <3>1, NothingWritten
    <3> QED BY <1>0, <2>1, <3>2, UnwrittenFile
  <2> QED BY <2>3, <2>4
<1> QED BY <1>1, <1>2, <1>3, <1>4, <1>5, <1>6, <1>7 DEF Flush

(* Every packet that leaves the buffer in a write is in the file, unless   *)
(* its write failed or the cutoff had wrapped: the packets carry the wall  *)
(* clock, and no uptime comes near it.                                     *)
LEMMA AllAreKept ==
  ASSUME LogInv, FileInv, pc = "write", ~CutoffWrapped, NEW i \in 1 .. Len(buffer), i \notin lost
  PROVE  InSeq(buffer[i], Lines)
<1>1. buffer \in Seq(Entry) /\ Rising(buffer) /\ cutoff \in Int /\ uptime \in Nat
      /\ uptime <= MaxUptime /\ buffer[i].timestamp >= Boot - Lag
  BY DEF LogInv, LogTypes, FileInv, FileTypes, OrderInv, SizeInv
<1>2. buffer[i].timestamp \in Int
  BY <1>1, EntryNumbers
<1>3. cutoff <= uptime
  BY <1>1 DEF CutoffWrapped
<1>4. buffer[i].timestamp >= cutoff
  BY <1>1, <1>2, <1>3, LoggerAssumption
<1> QED BY <1>1, <1>4, LinesAre DEF Kept, Reaches

LEMMA InConcat ==
  ASSUME NEW s \in Seq(Entry), NEW t \in Seq(Entry), NEW p
  PROVE  InSeq(p, s \o t) <=> InSeq(p, s) \/ InSeq(p, t)
<1>1. /\ Len(s) \in Nat /\ Len(t) \in Nat /\ Len(s \o t) = Len(s) + Len(t)
  OBVIOUS
<1>2. \A i \in 1 .. Len(s) : (s \o t)[i] = s[i] /\ i \in 1 .. Len(s) + Len(t)
  BY <1>1
<1>3. \A i \in 1 .. Len(t) : (s \o t)[Len(s) + i] = t[i] /\ Len(s) + i \in 1 .. Len(s) + Len(t)
  BY <1>1
<1>4. \A i \in 1 .. Len(s) + Len(t) :
        i \in 1 .. Len(s) \/ \E j \in 1 .. Len(t) : i = Len(s) + j
  <2> SUFFICES ASSUME NEW i \in 1 .. Len(s) + Len(t), i \notin 1 .. Len(s)
               PROVE  \E j \in 1 .. Len(t) : i = Len(s) + j
    OBVIOUS
  <2>1. i - Len(s) \in 1 .. Len(t) /\ i = Len(s) + (i - Len(s))
    BY <1>1
  <2> QED BY <2>1
<1> DEFINE c == s \o t
<1>5. Len(c) = Len(s) + Len(t) /\ (\A i \in 1 .. Len(s) : c[i] = s[i])
      /\ \A i \in 1 .. Len(t) : c[Len(s) + i] = t[i]
  BY <1>1, <1>2, <1>3
<1> HIDE DEF c
<1>6. ASSUME InSeq(p, c) PROVE InSeq(p, s) \/ InSeq(p, t)
  <2>1. PICK i \in 1 .. Len(s) + Len(t) : c[i] = p
    BY <1>5, <1>6 DEF InSeq
  <2>2. CASE i \in 1 .. Len(s)
    BY <1>5, <2>1, <2>2 DEF InSeq
  <2>3. CASE \E j \in 1 .. Len(t) : i = Len(s) + j
    BY <1>5, <2>1, <2>3 DEF InSeq
  <2> QED BY <1>4, <2>2, <2>3
<1>7. ASSUME InSeq(p, s) PROVE InSeq(p, c)
  <2>1. PICK i \in 1 .. Len(s) : s[i] = p
    BY <1>7 DEF InSeq
  <2>2. c[i] = p /\ i \in 1 .. Len(c)
    BY <1>2, <1>5, <2>1
  <2> QED BY <2>2 DEF InSeq
<1>8. ASSUME InSeq(p, t) PROVE InSeq(p, c)
  <2>1. PICK i \in 1 .. Len(t) : t[i] = p
    BY <1>8 DEF InSeq
  <2>2. c[Len(s) + i] = p /\ Len(s) + i \in 1 .. Len(c)
    BY <1>3, <1>5, <2>1
  <2> QED BY <2>2 DEF InSeq
<1> QED BY <1>6, <1>7, <1>8 DEF c

LEMMA FrontOfConcat ==
  ASSUME NEW s \in Seq(Entry), NEW t \in Seq(Entry)
  PROVE  Len(s \o t) >= Len(s) /\ SubSeq(s \o t, 1, Len(s)) = s
<1> DEFINE c == s \o t  f == SubSeq(c, 1, Len(s))
<1>1. c \in Seq(Entry) /\ Len(c) = Len(s) + Len(t) /\ Len(s) \in Nat /\ Len(t) \in Nat
      /\ Len(c) >= Len(s)
  OBVIOUS
<1>2. \A i \in 1 .. Len(s) : c[i] = s[i]
  OBVIOUS
<1> HIDE DEF c
<1>3. f \in Seq(Entry)
  BY <1>1
<1>4. Len(f) = Len(s)
  BY <1>1
<1>5. \A i \in 1 .. Len(s) : f[i] = c[i]
  BY <1>1
<1> HIDE DEF f
<1>6. f = s
  BY <1>2, <1>3, <1>4, <1>5
<1> QED BY <1>1, <1>6 DEF c, f

(* What is written is added to the file.                                   *)
LEMMA FileExtended ==
  ASSUME FileTypes, NEW X \in Seq(Entry), file' = file \o X
  PROVE  /\ Len(file') >= Len(file) /\ SubSeq(file', 1, Len(file)) = file
         /\ \A p : InSeq(p, file') <=> InSeq(p, file) \/ InSeq(p, X)
BY InConcat, FrontOfConcat DEF FileTypes

LEMMA EntersStep ==
  ASSUME LogInv, FileInv, FileInv',
         \/ \E timestamp \in Int : AddToLogBuffer(timestamp)
         \/ CloseFileLogger \/ Flush \/ Crash \/ Restart \/ Tick \/ UNCHANGED vars
  PROVE  EntersFile
<1>0. /\ buffer \in Seq(Entry) /\ file \in Seq(Entry) /\ FileTypes
      /\ Len(buffer) \in Nat /\ Len(file) \in Nat
      /\ Len(file') < MaxLogSize + LogCapacity
      /\ pc = "down" => buffer = << >>
      /\ pc = "exited" => buffer = << >> \/ retrying
  BY DEF LogInv, LogTypes, FileInv, FileTypes, SizeInv
<1>1. SubSeq(file, 1, Len(file)) = file /\ Len(file) >= Len(file)
  <2>1. << >> \in Seq(Entry) /\ file \o << >> = file
    BY <1>0
  <2> QED BY <1>0, <2>1, FrontOfConcat
<1>2. \A i \in 1 .. Len(buffer) : InSeq(buffer[i], buffer)
  BY DEF InSeq
<1>3. CASE file' = file /\ buffer' = buffer
  BY <1>0, <1>1, <1>2, <1>3 DEF EntersFile
<1>4. ASSUME NEW timestamp \in Int, AddToLogBuffer(timestamp) PROVE EntersFile
  <2> DEFINE new == [n |-> total + 1, timestamp |-> timestamp]
  <2>1. file' = file /\ (buffer' = buffer \/ buffer' = Append(buffer, new)) /\ new \in Entry
    BY <1>4 DEF AddToLogBuffer, Buffered, Entry, LogInv, LogTypes
  <2> HIDE DEF new
  <2>2. CASE buffer' = Append(buffer, new)
    <3>1. \A i \in 1 .. Len(buffer) : buffer'[i] = buffer[i] /\ i \in 1 .. Len(buffer')
      BY <1>0, <2>1, <2>2
    <3>2. \A i \in 1 .. Len(buffer) : InSeq(buffer[i], buffer')
      BY <3>1 DEF InSeq
    <3> QED BY <1>0, <1>1, <2>1, <3>2 DEF EntersFile
  <2> QED BY <1>3, <2>1, <2>2
<1>5. CASE \/ CloseFileLogger \/ FlushNothing \/ OpenFails \/ DiskFails
           \/ Flushed \/ Tick \/ UNCHANGED vars
  <2>1. file' = file /\ buffer' = buffer
    BY <1>5 DEF CloseFileLogger, FlushNothing, OpenFails, AfterFailure, DiskFails, Flushed,
         Tick, vars
  <2> QED BY <1>3, <2>1
<1>6. CASE OpenFile
  <2>1. buffer' = buffer /\ (Len(file) < MaxLogSize => file' = file)
    BY <1>0, <1>6, LoggerAssumption DEF OpenFile, Opened
  <2> QED BY <1>0, <1>1, <1>2, <2>1 DEF EntersFile
<1>7. CASE WriteAndSync
  <2>1. pc = "write" /\ file' = file \o Lines
    BY <1>7 DEF WriteAndSync
  <2>2. Lines \in Seq(Entry)
    BY LinesAre DEF LogInv, LogTypes, FileInv, OrderInv
  <2>3. /\ Len(file') >= Len(file) /\ SubSeq(file', 1, Len(file)) = file
        /\ \A p : InSeq(p, file') <=> InSeq(p, file) \/ InSeq(p, Lines)
    BY <1>0, <2>1, <2>2, FileExtended
  <2>4. \A i \in 1 .. Len(buffer) : CutoffWrapped \/ i \in lost \/ InSeq(buffer[i], file')
    BY <2>1, <2>3, AllAreKept
  <2> QED BY <1>0, <2>3, <2>4 DEF EntersFile
<1>8. CASE Crash
  <2>1. pc' = "down" /\ \E k \in 0 .. Len(Lines) : file' = file \o SubSeq(Lines, 1, k)
    BY <1>8 DEF Crash
  <2>2. PICK k \in 0 .. Len(Lines) : file' = file \o SubSeq(Lines, 1, k)
    BY <2>1
  <2>3. SubSeq(Lines, 1, k) \in Seq(Entry)
    BY FrontOfLines
  <2>4. Len(file') >= Len(file) /\ SubSeq(file', 1, Len(file)) = file
    BY <1>0, <2>2, <2>3, FileExtended
  <2> QED BY <1>0, <2>1, <2>4 DEF EntersFile
<1>9. CASE Restart
  <2>1. file' = file /\ (\A i \in 1 .. Len(buffer) : pc = "exited" /\ retrying)
    <3>1. \A i \in 1 .. Len(buffer) : buffer # << >>
      OBVIOUS
    <3> QED BY <1>0, <1>9, <3>1 DEF Restart
  <2> QED BY <1>0, <1>1, <2>1 DEF EntersFile
<1> QED BY <1>4, <1>5, <1>6, <1>7, <1>8, <1>9 DEF Flush

-----------------------------------------------------------------------------
(* In handle_packet the logger is driven by what was saved, and by nothing *)
(* else.                                                                   *)
LEMMA HandleUsesLogger ==
  ASSUME HandleInv, [HandleNext]_allVars
  PROVE  \/ \E timestamp \in Int : timestamp >= Boot - Lag /\ AddToLogBuffer(timestamp)
         \/ CloseFileLogger \/ Flush \/ Crash \/ Restart \/ Tick \/ UNCHANGED vars
<1>1. CASE LogPacket
  <2>1. pc = "idle" /\ Len(saved) > total /\ AddToLogBuffer(Handed(saved))
    BY <1>1 DEF LogPacket, AddToLogBuffer
  <2>2. /\ total \in Nat /\ lastFlush \in Nat /\ saved \in Seq(Int) /\ Len(saved) = total + 1
        /\ Handed(saved) - Boot >= lastFlush - Lag
    BY <2>1 DEF HandleInv, SavedInv, LogInv, LogTypes
  <2>3. Handed(saved) \in Int
    BY <2>2 DEF Handed
  <2>4. Handed(saved) >= Boot - Lag
    BY <2>2, <2>3, LoggerAssumption
  <2> QED BY <2>1, <2>3, <2>4
<1>2. CASE SavePacket \/ EvictOld \/ UNCHANGED allVars
  BY <1>2 DEF SavePacket, EvictOld, allVars, vars
<1>3. CASE FlushLog \/ Shutdown \/ Kill \/ StartAgain \/ TimePasses
  BY <1>3 DEF FlushLog, Shutdown, Kill, StartAgain, TimePasses
<1> QED BY <1>1, <1>2, <1>3 DEF HandleNext

LogsInv == HandleInv /\ FileInv

LEMMA LogsInit == HandleInit => LogsInv
BY HandleInvInit, FileInvInit DEF HandleInit, LogsInv

LEMMA LogsStep == LogsInv /\ [HandleNext]_allVars => LogsInv' /\ EntersFile
<1> SUFFICES ASSUME LogsInv, [HandleNext]_allVars PROVE LogsInv' /\ EntersFile
  OBVIOUS
<1>1. HandleInv /\ LogInv /\ FileInv /\ HandleInv'
  BY HandleInvStep DEF LogsInv, HandleInv
<1>2. FileInv'
  BY <1>1, HandleUsesLogger, AddFile, FileStep
<1>3. EntersFile
  BY <1>1, <1>2, HandleUsesLogger, EntersStep
<1> QED BY <1>1, <1>2, <1>3 DEF LogsInv

(* The file followed by the buffer has every packet at most once and in    *)
(* order, for every size of both, whatever opens fail and wherever the     *)
(* process is killed (file_logger.c, flush_log_to_disk).                   *)
THEOREM LoggedInOrder == HandleSpec => []LoggedOnceInOrder
<1>1. LogsInv => LoggedOnceInOrder
  <2> SUFFICES ASSUME LogsInv PROVE LoggedOnceInOrder
    OBVIOUS
  <2>1. /\ file \in Seq(Entry) /\ buffer \in Seq(Entry) /\ Rising(file) /\ Rising(buffer)
        /\ \A i \in 1 .. Len(file), j \in 1 .. Len(buffer) : file[i].n < buffer[j].n
    BY DEF LogsInv, HandleInv, LogInv, LogTypes, FileInv, FileTypes, OrderInv
  <2>2. Rising(file \o buffer)
    BY <2>1, RisingConcat
  <2> QED BY <2>2 DEF LoggedOnceInOrder, Rising
<1> QED BY <1>1, LogsInit, LogsStep, PTL DEF HandleSpec

(* A packet accepted leaves the buffer only into the file, and the file    *)
(* grows to its limit and not a buffer beyond, with the exceptions the     *)
(* property names: where a write fails unnoticed, the packets it failed    *)
(* for and no others (file_logger.c, add_to_log_buffer, flush_log_to_disk).*)
THEOREM AcceptedIsWritten == HandleSpec => AcceptedReachesFile
<1>1. LogsInv /\ [HandleNext]_allVars => [EntersFile]_vars
  BY LogsStep
<1> QED BY <1>1, LogsInit, LogsStep, PTL DEF HandleSpec, AcceptedReachesFile

-----------------------------------------------------------------------------
(* The ring beside the log: what HistoryStorage_proofs shows of each step  *)
(* holds of the ring of handle_packet, whose invariant is the part of the  *)
(* ring's that also holds in a new process, where saved goes on.           *)
Ring == INSTANCE HistoryStorage_proofs
  WITH MaxTime <- MaxUptime + Boot, MaxSaves <- MaxPackets, pc <- storePc

LEMMA RingAssumed == Ring!HistoryAssumption
BY LoggerAssumption, RingAssumption DEF Ring!HistoryAssumption

LEMMA SameRing == (Ring!RingInv <=> Store!RingInv) /\ (Ring!RingInv' <=> Store!RingInv')
<1> USE DEF Ring!Slot, Store!Slot, Ring!Time, Store!Time, Ring!Packet, Store!Packet,
            Ring!Held, Store!Held, Ring!SlotOf, Store!SlotOf
<1>1. (Ring!TypeOK <=> Store!TypeOK) /\ (Ring!TypeOK' <=> Store!TypeOK')
  BY DEF Ring!TypeOK, Store!TypeOK
<1>2. (Ring!HeldIsSuffix <=> Store!HeldIsSuffix) /\ (Ring!HeldIsSuffix' <=> Store!HeldIsSuffix')
  BY DEF Ring!HeldIsSuffix, Store!HeldIsSuffix
<1>3. (Ring!TailFollows <=> Store!TailFollows) /\ (Ring!TailFollows' <=> Store!TailFollows')
  BY DEF Ring!TailFollows, Store!TailFollows
<1>4. (Ring!EmptyAtStart <=> Store!EmptyAtStart) /\ (Ring!EmptyAtStart' <=> Store!EmptyAtStart')
  BY DEF Ring!EmptyAtStart, Store!EmptyAtStart
<1>5. /\ Ring!EvictingForNewest <=> Store!EvictingForNewest
      /\ Ring!EvictingForNewest' <=> Store!EvictingForNewest'
  BY DEF Ring!EvictingForNewest, Store!EvictingForNewest
<1> QED BY <1>1, <1>2, <1>3, <1>4, <1>5 DEF Ring!RingInv, Store!RingInv

LEMMA SameSteps ==
  ASSUME NEW ts
  PROVE  /\ Store!Save(ts) => Ring!Save(ts)
         /\ Store!SaveWithoutMemory(ts) => Ring!SaveWithoutMemory(ts)
         /\ Store!Evict => Ring!Evict
<1> USE DEF Ring!Succ, Store!Succ
<1>1. Store!Save(ts) => Ring!Save(ts)
  BY DEF Store!Save, Ring!Save, Store!Arrives, Ring!Arrives, Store!NowOf, Ring!NowOf,
         Store!HeadAfterSave, Ring!HeadAfterSave, Store!CountAfterSave, Ring!CountAfterSave
<1>2. Store!SaveWithoutMemory(ts) => Ring!SaveWithoutMemory(ts)
  BY DEF Store!SaveWithoutMemory, Ring!SaveWithoutMemory, Store!Arrives, Ring!Arrives
<1>3. Store!Evict => Ring!Evict
  BY DEF Store!Evict, Ring!Evict, Store!Expired, Ring!Expired
<1> QED BY <1>1, <1>2, <1>3

LEMMA RingInit == HandleInit => Store!RingInv
<1>1. Store!Init => Ring!Init
  BY DEF Store!Init, Ring!Init, Store!Slot, Ring!Slot
<1> QED BY <1>1, RingAssumed, Ring!InitRing, SameRing DEF HandleInit

(* A new process has an empty ring.                                        *)
LEMMA NewRing ==
  ASSUME HandleInv, Store!RingInv, StartAgain PROVE Store!RingInv'
<1>1. /\ allocated' \in BOOLEAN /\ head' = 0 /\ tail' = 0 /\ count' = 0 /\ now' = 0
      /\ history' = [i \in Store!Slot |-> [n |-> 0, timestamp |-> 0]]
      /\ storePc' = "idle" /\ newest' = newest /\ saved' = SubSeq(saved, 1, total)
  BY DEF StartAgain, EmptyRing
<1>2. /\ saved \in Seq(Store!Time) /\ newest \in Store!Time /\ total \in Nat
      /\ total <= Len(saved) /\ MaxHistory \in Nat \ {0}
      /\ MaxUptime + Boot \in Nat
  BY RingAssumption, LoggerAssumption
     DEF HandleInv, SavedInv, LogInv, LogTypes, Store!RingInv, Store!TypeOK
<1>3. saved' \in Seq(Store!Time) /\ Len(saved') = total
  BY <1>1, <1>2
<1>4. 0 \in Store!Time /\ 0 \in Store!Slot /\ 0 \in 0 .. MaxHistory
  BY <1>2 DEF Store!Time, Store!Slot
<1>5. history' \in [Store!Slot -> Store!Packet]
  <2>1. [n |-> 0, timestamp |-> 0] \in Store!Packet
    BY <1>4 DEF Store!Packet
  <2> QED BY <1>1, <2>1
<1>6. Store!TypeOK'
  BY <1>1, <1>2, <1>3, <1>4, <1>5 DEF Store!TypeOK, Store!Slot, Store!Time, Store!Packet
<1>7. Store!HeldIsSuffix'
  BY <1>1 DEF Store!HeldIsSuffix
<1>8. Store!TailFollows'
  <2>1. 0 % MaxHistory = 0
    BY <1>2, Z3
  <2> QED BY <1>1, <2>1 DEF Store!TailFollows
<1>9. Store!EmptyAtStart' /\ Store!EvictingForNewest' /\ count' <= Len(saved')
  BY <1>1, <1>2, <1>3 DEF Store!EmptyAtStart, Store!EvictingForNewest
<1> QED BY <1>6, <1>7, <1>8, <1>9 DEF Store!RingInv

LEMMA RingStep ==
  ASSUME HandleInv, FileTypes, Store!RingInv, [HandleNext]_allVars PROVE Store!RingInv'
<1>1. CASE SavePacket
  <2>1. PICK late \in 0 .. Lag :
          Store!Save(uptime + Boot - late) \/ Store!SaveWithoutMemory(uptime + Boot - late)
    BY <1>1 DEF SavePacket, Stamps
  <2>2. uptime + Boot - late \in 0 .. MaxUptime + Boot
    BY LoggerAssumption DEF HandleInv, LogInv, LogTypes, FileTypes
  <2>3. uptime + Boot - late \in Ring!Time
    BY <2>2 DEF Ring!Time
  <2> QED BY <2>1, <2>3, RingAssumed, SameRing, SameSteps, Ring!SaveRing, Ring!UnsavedRing
<1>2. CASE Store!Evict
  BY <1>2, RingAssumed, SameRing, SameSteps, Ring!EvictRing
<1>3. ASSUME UNCHANGED <<allocated, head, tail, count, history, now, newest, saved>>,
             storePc' \in {"idle", storePc}
      PROVE  Store!RingInv'
  BY <1>3, RingAssumed, SameRing, Ring!QuietRing
<1>4. CASE Store!EvictDone
  BY <1>3, <1>4 DEF Store!EvictDone
<1>5. CASE LogPacket \/ FlushLog \/ Shutdown \/ Kill \/ TimePasses \/ UNCHANGED allVars
  BY <1>3, <1>5 DEF LogPacket, FlushLog, Shutdown, Kill, TimePasses, storeVars, allVars
<1>6. CASE StartAgain
  BY <1>6, NewRing
<1> QED BY <1>1, <1>2, <1>4, <1>5, <1>6 DEF HandleNext, EvictOld

-----------------------------------------------------------------------------
(* What LogBacksHistory rests on, in numbers of packets: each one the ring *)
(* still holds and the logger was given is in the file, in the buffer or   *)
(* given up.  A kill empties the buffer, but takes the ring along.         *)
Recorded(m) == [n |-> m, timestamp |-> saved[m]]
Backed ==
  pc # "down" /\ allocated =>
    \A m \in Len(saved) - count + 1 .. total :
      m \in unlogged \/ InSeq(Recorded(m), file) \/ InSeq(Recorded(m), buffer)
BackedInv == LogsInv /\ Store!RingInv /\ Backed

LEMMA BackedTypes ==
  ASSUME BackedInv
  PROVE  /\ saved \in Seq(Store!Time) /\ Len(saved) \in Nat /\ count \in Nat /\ total \in Nat
         /\ count <= Len(saved) /\ total <= Len(saved)
         /\ buffer \in Seq(Entry) /\ file \in Seq(Entry) /\ FileTypes
BY DEF BackedInv, Store!RingInv, Store!TypeOK, LogsInv, HandleInv, SavedInv, LogInv, LogTypes,
       FileInv, FileTypes

LEMMA BackedInit == HandleInit => BackedInv
<1> SUFFICES ASSUME HandleInit PROVE BackedInv
  OBVIOUS
<1>1. LogsInv /\ Store!RingInv
  BY LogsInit, RingInit
<1>2. count = 0 /\ total = 0 /\ saved = << >> /\ Len(<< >>) = 0
  BY DEF HandleInit, Store!Init, Init
<1>3. Backed
  BY <1>2 DEF Backed
<1> QED BY <1>1, <1>3 DEF BackedInv

(* A step of the ring: it holds no more of the packets logged than before. *)
LEMMA StoreBacked ==
  ASSUME BackedInv, UNCHANGED <<vars, unlogged>>,
         allocated' => allocated,
         Len(saved') - count' >= Len(saved) - count, Len(saved') - count' \in Int,
         \A m \in 1 .. total : saved'[m] = saved[m]
  PROVE  Backed'
<1>1. Len(saved) \in Nat /\ count \in Nat /\ total \in Nat /\ count <= Len(saved)
  BY BackedTypes
<1>2. /\ UNCHANGED <<buffer, file, total, pc, unlogged>>
  BY DEF vars
<1> SUFFICES ASSUME pc # "down", allocated, NEW m \in Len(saved') - count' + 1 .. total
             PROVE  m \in unlogged \/ InSeq(Recorded(m)', file) \/ InSeq(Recorded(m)', buffer)
  BY <1>2 DEF Backed, InSeq
<1>3. m \in Len(saved) - count + 1 .. total /\ m \in 1 .. total
  BY <1>1
<1>4. Recorded(m)' = Recorded(m)
  BY <1>3 DEF Recorded
<1> QED BY <1>3, <1>4 DEF BackedInv, Backed

(* A step of the logger other than a kill or a start: each packet of the   *)
(* log stays in it or is given up.                                         *)
LEMMA LogBacked ==
  ASSUME BackedInv, UNCHANGED storeVars, total' = total, pc # "down",
         unlogged \subseteq unlogged',
         \A p \in Entry : InSeq(p, file) => p.n \in unlogged' \/ InSeq(p, file'),
         \A p \in Entry :
           InSeq(p, buffer) => p.n \in unlogged' \/ InSeq(p, file') \/ InSeq(p, buffer')
  PROVE  Backed'
<1>1. Len(saved) \in Nat /\ count \in Nat /\ total \in Nat /\ count <= Len(saved)
      /\ saved \in Seq(Store!Time) /\ total <= Len(saved)
  BY BackedTypes
<1>2. UNCHANGED <<allocated, count, saved>>
  BY DEF storeVars
<1> SUFFICES ASSUME allocated, NEW m \in Len(saved) - count + 1 .. total
             PROVE  m \in unlogged' \/ InSeq(Recorded(m), file') \/ InSeq(Recorded(m), buffer')
  BY <1>2 DEF Backed, Recorded
<1>3. m \in unlogged \/ InSeq(Recorded(m), file) \/ InSeq(Recorded(m), buffer)
  BY DEF BackedInv, Backed
<1>4. Recorded(m) \in Entry /\ Recorded(m).n = m
  <2>1. m \in 1 .. Len(saved)
    BY <1>1
  <2>2. saved[m] \in Int
    BY <1>1, <2>1, LoggerAssumption DEF Store!Time
  <2> QED BY <2>1, <2>2 DEF Recorded, Entry
<1> QED BY <1>3, <1>4

(* A packet of the buffer whose number is among the lines is in the file.  *)
LEMMA NumberInLines ==
  ASSUME LogInv, FileInv, NEW p \in Entry, InSeq(p, buffer), p.n \in Numbers(Lines)
  PROVE  InSeq(p, Lines)
<1>1. /\ buffer \in Seq(Entry) /\ Rising(buffer) /\ Len(buffer) \in Nat
      /\ \A k \in 1 .. Len(Lines) : InSeq(Lines[k], buffer)
  BY LinesAre DEF LogInv, LogTypes, FileInv, OrderInv
<1>2. PICK k \in 1 .. Len(Lines) : Lines[k].n = p.n
  BY DEF Numbers
<1>3. PICK i \in 1 .. Len(buffer) : buffer[i] = Lines[k]
  BY <1>1 DEF InSeq
<1>4. PICK j \in 1 .. Len(buffer) : buffer[j] = p
  BY DEF InSeq
<1>5. buffer[i].n \in Int /\ buffer[j].n \in Int /\ buffer[i].n = buffer[j].n
  BY <1>1, <1>2, <1>3, <1>4, EntryNumbers
<1>6. ~(i < j) /\ ~(j < i)
  BY <1>1, <1>5 DEF Rising
<1>7. i = j
  BY <1>1, <1>6
<1> QED BY <1>3, <1>4, <1>7 DEF InSeq

LEMMA FlushBacked == ASSUME BackedInv, FlushLog PROVE Backed'
<1>0. /\ LogInv /\ FileInv /\ FileTypes /\ buffer \in Seq(Entry) /\ file \in Seq(Entry)
      /\ Flush /\ UNCHANGED storeVars
  BY BackedTypes DEF BackedInv, LogsInv, HandleInv, FlushLog
<1>1. /\ unlogged \subseteq unlogged'
      /\ pc = "flush" /\ Len(file) >= MaxLogSize =>
           Numbers(file) \ Numbers(file') \subseteq unlogged'
      /\ CutoffWrapped => Numbers(buffer) \ Numbers(Lines) \subseteq unlogged'
      /\ \A i \in lost : buffer[i].n \in unlogged'
  BY DEF FlushLog
<1>2. pc # "down" /\ total' = total
  BY <1>0 DEF Flush, FlushNothing, OpenFails, OpenFile, DiskFails, WriteAndSync, Flushed
<1>3. CASE file' = file /\ buffer' = buffer
  BY <1>0, <1>1, <1>2, <1>3, LogBacked
<1>4. CASE FlushNothing \/ OpenFails \/ DiskFails \/ Flushed
  BY <1>3, <1>4 DEF FlushNothing, OpenFails, AfterFailure, DiskFails, Flushed
<1>5. CASE OpenFile
  <2>1. pc = "flush" /\ buffer' = buffer /\ file' = Opened
    BY <1>5 DEF OpenFile
  <2>2. CASE Len(file) >= MaxLogSize
    <3>1. file' = << >> /\ Numbers(file') = {}
      <4>1. \A i \in 1 .. Len(<< >>) : FALSE
        OBVIOUS
      <4> QED BY <2>1, <2>2, <4>1 DEF Opened, Numbers
    <3>2. \A p \in Entry : InSeq(p, file) => p.n \in unlogged'
      BY <1>1, <2>1, <2>2, <3>1 DEF InSeq, Numbers
    <3> QED BY <1>0, <1>1, <1>2, <2>1, <3>2, LogBacked
  <2>3. CASE ~(Len(file) >= MaxLogSize)
    BY <1>3, <2>1, <2>3 DEF Opened
  <2> QED BY <2>2, <2>3
<1>6. CASE WriteAndSync
  <2>1. pc = "write" /\ file' = file \o Lines
    BY <1>6 DEF WriteAndSync
  <2>2. Lines \in Seq(Entry)
    BY <1>0, LinesAre DEF LogInv, FileInv, OrderInv
  <2>3. \A p : InSeq(p, file') <=> InSeq(p, file) \/ InSeq(p, Lines)
    BY <1>0, <2>1, <2>2, FileExtended
  <2>4. ASSUME NEW p \in Entry, InSeq(p, buffer) PROVE p.n \in unlogged' \/ InSeq(p, Lines)
    <3>1. PICK i \in 1 .. Len(buffer) : buffer[i] = p
      BY <2>4 DEF InSeq
    <3>2. CASE ~CutoffWrapped
      BY <1>0, <1>1, <2>1, <3>1, <3>2, AllAreKept
    <3>3. CASE CutoffWrapped
      <4>1. p.n \in Numbers(buffer)
        BY <3>1 DEF Numbers
      <4> QED BY <1>0, <1>1, <2>4, <3>3, <4>1, NumberInLines
    <3> QED BY <3>2, <3>3
  <2> QED BY <1>0, <1>1, <1>2, <2>3, <2>4, LogBacked
<1> QED BY <1>0, <1>4, <1>5, <1>6 DEF Flush

(* The packet logged is the one saved last: it gets into the buffer, or is *)
(* given up because the buffer is full.                                    *)
LEMMA LogPacketBacked == ASSUME BackedInv, LogPacket PROVE Backed'
<1> DEFINE new == [n |-> total + 1, timestamp |-> Handed(saved)]
<1>0. /\ saved \in Seq(Store!Time) /\ Len(saved) \in Nat /\ count \in Nat /\ total \in Nat
      /\ count <= Len(saved) /\ buffer \in Seq(Entry) /\ Len(buffer) \in Nat
      /\ Len(saved) = total + 1 /\ LogCapacity \in Nat
  BY BackedTypes, LoggerAssumption
     DEF BackedInv, LogsInv, HandleInv, SavedInv, LogPacket
<1>1. /\ pc = "idle" /\ file' = file /\ total' = total + 1 /\ UNCHANGED storeVars
      /\ buffer' = Buffered(new)
      /\ unlogged' = IF Len(buffer) < LogCapacity THEN unlogged ELSE unlogged \cup {total + 1}
  BY DEF LogPacket, AddToLogBuffer
<1>2. UNCHANGED <<allocated, count, saved>>
  BY <1>1 DEF storeVars
<1>3. Recorded(total + 1) = new
  BY <1>0 DEF Recorded, Handed
<1>4. Handed(saved) \in Int
  BY <1>0, LoggerAssumption DEF Handed, Store!Time
<1>5. new \in Entry
  BY <1>0, <1>4 DEF Entry
<1> HIDE DEF new
<1> SUFFICES ASSUME allocated, NEW m \in Len(saved) - count + 1 .. total + 1
             PROVE  m \in unlogged' \/ InSeq(Recorded(m), file) \/ InSeq(Recorded(m), buffer')
  BY <1>1, <1>2 DEF Backed, Recorded
<1>6. CASE m = total + 1
  <2>1. CASE Len(buffer) < LogCapacity
    <3>1. buffer' = Append(buffer, new)
      BY <1>1, <2>1 DEF Buffered
    <3>2. Len(buffer) + 1 \in 1 .. Len(buffer') /\ buffer'[Len(buffer) + 1] = new
      BY <1>0, <1>5, <3>1
    <3> QED BY <1>3, <1>6, <3>2 DEF InSeq
  <2>2. CASE ~(Len(buffer) < LogCapacity)
    BY <1>1, <1>6, <2>2
  <2> QED BY <2>1, <2>2
<1>7. CASE m # total + 1
  <2>1. m \in Len(saved) - count + 1 .. total
    BY <1>0, <1>7
  <2>2. m \in unlogged \/ InSeq(Recorded(m), file) \/ InSeq(Recorded(m), buffer)
    BY <1>1, <2>1 DEF BackedInv, Backed
  <2>3. \A i \in 1 .. Len(buffer) : i \in 1 .. Len(buffer') /\ buffer'[i] = buffer[i]
    BY <1>0, <1>1, <1>5 DEF Buffered
  <2>4. InSeq(Recorded(m), buffer) => InSeq(Recorded(m), buffer')
    BY <2>3 DEF InSeq
  <2> QED BY <1>1, <2>2, <2>4
<1> QED BY <1>6, <1>7

LEMMA SaveBacked == ASSUME BackedInv, SavePacket PROVE Backed'
<1>0. /\ saved \in Seq(Store!Time) /\ Len(saved) \in Nat /\ count \in Nat /\ total \in Nat
      /\ count <= Len(saved)
  BY BackedTypes
<1>1. UNCHANGED <<vars, unlogged>> /\ Len(saved) = total
  BY DEF SavePacket, Between
<1>2. PICK timestamp \in Stamps : Store!Save(timestamp) \/ Store!SaveWithoutMemory(timestamp)
  BY DEF SavePacket
<1>3. /\ saved' = Append(saved, timestamp) /\ allocated' = allocated
      /\ count' \in {count, count + 1}
  BY <1>2 DEF Store!Save, Store!SaveWithoutMemory, Store!Arrives, Store!CountAfterSave
<1>4. timestamp \in Int
  BY LoggerAssumption DEF Stamps, BackedInv, LogsInv, HandleInv, LogInv, LogTypes
<1>5. saved \in Seq(Int)
  BY DEF BackedInv, LogsInv, HandleInv, SavedInv
<1>6. Len(saved') = Len(saved) + 1
  BY <1>3, <1>4, <1>5
<1>7. \A m \in 1 .. total : saved'[m] = saved[m]
  BY <1>1, <1>3, <1>4, <1>5
<1>8. Len(saved') - count' >= Len(saved) - count /\ Len(saved') - count' \in Int
  BY <1>0, <1>3, <1>6
<1> QED BY <1>1, <1>3, <1>7, <1>8, StoreBacked

LEMMA EvictBacked == ASSUME BackedInv, EvictOld PROVE Backed'
<1>0. Len(saved) \in Nat /\ count \in Nat
  BY BackedTypes
<1>1. /\ UNCHANGED <<vars, unlogged>> /\ allocated' = allocated /\ saved' = saved
      /\ count' \in {count, count - 1}
  BY DEF EvictOld, Store!Evict, Store!EvictDone
<1>2. Len(saved') - count' >= Len(saved) - count /\ Len(saved') - count' \in Int
  BY <1>0, <1>1
<1> QED BY <1>1, <1>2, StoreBacked

LEMMA BackedStep == BackedInv /\ [HandleNext]_allVars => BackedInv'
<1> SUFFICES ASSUME BackedInv, [HandleNext]_allVars PROVE BackedInv'
  OBVIOUS
<1>1. LogsInv' /\ Store!RingInv'
  BY LogsStep, RingStep DEF BackedInv, LogsInv, FileInv
<1> SUFFICES Backed'
  BY <1>1 DEF BackedInv
<1>2. CASE SavePacket \/ EvictOld \/ LogPacket \/ FlushLog
  BY <1>2, SaveBacked, EvictBacked, LogPacketBacked, FlushBacked
<1>3. CASE Shutdown \/ TimePasses
  <2>1. UNCHANGED <<file, buffer, total, unlogged, storeVars>> /\ (pc = "down" => pc' = "down")
    BY <1>3 DEF Shutdown, TimePasses, CloseFileLogger, Tick
  <2> QED BY <2>1, LogBacked DEF Backed
<1>4. CASE Kill
  BY <1>4 DEF Kill, Crash, Backed
<1>5. CASE StartAgain
  <2>1. count' = 0 /\ total' = total /\ saved' = SubSeq(saved, 1, total)
    BY <1>5 DEF StartAgain, EmptyRing, Restart
  <2>2. saved \in Seq(Store!Time) /\ total \in Nat /\ total <= Len(saved)
    BY BackedTypes
  <2>3. Len(saved') = total
    BY <2>1, <2>2
  <2>4. \A m \in Len(saved') - count' + 1 .. total' : FALSE
    BY <2>1, <2>2, <2>3
  <2> QED BY <2>4 DEF Backed
<1>6. CASE UNCHANGED allVars
  BY <1>6 DEF allVars, vars, storeVars, BackedInv, Backed, Recorded, InSeq
<1> QED BY <1>2, <1>3, <1>4, <1>5, <1>6 DEF HandleNext

(* Between two packets everything the ring holds is in the file or in the  *)
(* log buffer, with the same timestamp, or was given up by the logger, for *)
(* any sizes of ring, buffer and file (controller.c, handle_packet).       *)
THEOREM LogBacksTheRing == HandleSpec => []LogBacksHistory
<1>1. BackedInv => LogBacksHistory
  <2> SUFFICES ASSUME BackedInv, Between, allocated, NEW k \in 1 .. count
               PROVE  Store!Held[k].n \in unlogged \/ InSeq(Store!Held[k], file \o buffer)
    BY DEF LogBacksHistory
  <2> DEFINE m == Len(saved) - count + k
  <2>1. /\ Len(saved) \in Nat /\ count \in Nat /\ count <= Len(saved) /\ Len(saved) = total
        /\ pc # "down" /\ buffer \in Seq(Entry) /\ file \in Seq(Entry)
    BY BackedTypes DEF Between
  <2>2. m \in Len(saved) - count + 1 .. total
    BY <2>1
  <2>3. Store!Held[k].n = m /\ Store!Held[k].timestamp = saved[m]
    BY DEF BackedInv, Store!RingInv, Store!HeldIsSuffix
  <2>4. Store!Held[k] \in Store!Packet
    <3>1. head \in Store!Slot /\ history \in [Store!Slot -> Store!Packet]
      BY DEF BackedInv, Store!RingInv, Store!TypeOK
    <3>2. Store!SlotOf(k) \in Store!Slot
      <4>1. head + (k - 1) \in Nat
        BY <2>1, <3>1, RingAssumption DEF Store!Slot
      <4>2. (head + (k - 1)) % MaxHistory \in 0 .. MaxHistory - 1
        BY <4>1, RingAssumption, Z3
      <4> QED BY <4>2 DEF Store!SlotOf, Store!Slot
    <3> QED BY <3>1, <3>2 DEF Store!Held
  <2>5. Store!Held[k] = Recorded(m)
    BY <2>3, <2>4 DEF Store!Packet, Recorded
  <2>6. m \in unlogged \/ InSeq(Recorded(m), file) \/ InSeq(Recorded(m), buffer)
    BY <2>1, <2>2 DEF BackedInv, Backed
  <2> QED BY <2>1, <2>3, <2>5, <2>6, InConcat
<1> QED BY <1>1, BackedInit, BackedStep, PTL DEF HandleSpec
=============================================================================
