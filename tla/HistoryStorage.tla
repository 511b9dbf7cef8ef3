--------------------------- MODULE HistoryStorage ---------------------------
(***************************************************************************)
(* The in-memory ring of server/storage/history_storage.c: save_to_storage *)
(* writes at tail, moves head when the ring is full, and then evicts from  *)
(* head while the oldest packet is more than RetentionMs older than the    *)
(* packet just saved, in uint64_t arithmetic.                              *)
(*                                                                         *)
(* The timestamp of a packet is the equipment's clock when a module thread *)
(* began its cycle, before it waited for the socket mutex                  *)
(* (equipment/run/run_equipment.c:122-157), so packets may arrive with a   *)
(* timestamp up to Lag older than the newest one seen.                     *)
(***************************************************************************)
EXTENDS Integers, Sequences

CONSTANTS MaxHistory,   \* MAX_HISTORY
          RetentionMs,  \* RETENTION_MS
          Wrap,         \* 2^64, the range of uint64_t
          MaxTime,      \* bound: largest timestamp
          MaxSaves,     \* bound: packets saved
          Lag           \* how far behind the newest a timestamp may be

ASSUME HistoryAssumption ==
  /\ MaxHistory \in Nat \ {0}
  /\ RetentionMs \in Nat /\ MaxTime \in Nat /\ Lag \in Nat /\ MaxSaves \in Nat
  /\ Wrap \in Nat /\ Wrap > RetentionMs /\ Wrap > MaxTime

VARIABLES allocated,  \* g_storage.history is not NULL
          head, tail, count,
          history,    \* slot -> packet; n numbers the packets saved, from 1
          now,        \* pkt->timestamp of the save in progress
          newest,     \* largest timestamp saved so far
          saved,      \* timestamps of all packets saved
          pc          \* "idle" or "evict", inside the while loop

vars == <<allocated, head, tail, count, history, now, newest, saved, pc>>

Slot == 0 .. MaxHistory - 1
Time == 0 .. MaxTime
Packet == [n : Nat, timestamp : Time]

TypeOK ==
  /\ allocated \in BOOLEAN
  /\ head \in Slot /\ tail \in Slot /\ count \in 0 .. MaxHistory
  /\ history \in [Slot -> Packet]
  /\ now \in Time /\ newest \in Time
  /\ saved \in Seq(Time)
  /\ pc \in {"idle", "evict"}

(* init_storage: the memory is zeroed, or history stays NULL.              *)
Init ==
  /\ allocated \in BOOLEAN
  /\ head = 0 /\ tail = 0 /\ count = 0
  /\ history = [i \in Slot |-> [n |-> 0, timestamp |-> 0]]
  /\ now = 0 /\ newest = 0 /\ saved = << >>
  /\ pc = "idle"

-----------------------------------------------------------------------------
Succ(i) == (i + 1) % MaxHistory

KeepHead == head
HeadAfterSave == IF count < MaxHistory THEN head ELSE Succ(head)
CountAfterSave == IF count < MaxHistory THEN count + 1 ELSE count

StaleNow(ts) == history[tail].timestamp
NowOf(ts) == ts

(* A packet handled by save_to_storage; the equipment's clock only bounds  *)
(* how late its timestamp is.                                              *)
Arrives(ts) ==
  /\ pc = "idle" /\ Len(saved) < MaxSaves
  /\ ts + Lag >= newest
  /\ newest' = IF ts > newest THEN ts ELSE newest
  /\ saved' = Append(saved, ts)

Save(ts) ==
  /\ Arrives(ts) /\ allocated
  /\ history' = [history EXCEPT ![tail] = [n |-> Len(saved) + 1, timestamp |-> ts]]
  /\ now' = NowOf(ts)
  /\ tail' = Succ(tail)
  /\ head' = HeadAfterSave
  /\ count' = CountAfterSave
  /\ pc' = "evict"
  /\ UNCHANGED allocated

SaveWithoutMemory(ts) ==
  /\ Arrives(ts) /\ ~allocated
  /\ UNCHANGED <<allocated, head, tail, count, history, now, pc>>

(* now - history[i].timestamp > RETENTION_MS, both uint64_t.               *)
ExpiredEarly(i) == (now - history[i].timestamp) % Wrap >= RetentionMs
Expired(i) == (now - history[i].timestamp) % Wrap > RetentionMs

Evict ==
  /\ pc = "evict" /\ count > 0 /\ Expired(head)
  /\ head' = Succ(head)
  /\ count' = count - 1
  /\ UNCHANGED <<allocated, tail, history, now, newest, saved, pc>>

EvictDone ==
  /\ pc = "evict" /\ ~(count > 0 /\ Expired(head))
  /\ pc' = "idle"
  /\ UNCHANGED <<allocated, head, tail, count, history, now, newest, saved>>

Next ==
  \/ \E ts \in Time : Save(ts) \/ SaveWithoutMemory(ts)
  \/ Evict
  \/ EvictDone

Spec == Init /\ [][Next]_vars

-----------------------------------------------------------------------------
(* The k-th oldest packet held, k = 1 .. count.                            *)
SlotOf(k) == (head + (k - 1)) % MaxHistory
Held == [k \in 1 .. count |-> history[SlotOf(k)]]

(* The ring always holds exactly the last count packets saved, in order:   *)
(* head, tail and count never disagree, whether the ring wrapped, was full *)
(* or shrank by eviction (history_storage.c:19-30).                        *)
HeldIsSuffix ==
  allocated =>
    \A k \in 1 .. count :
      /\ Held[k].n = Len(saved) - count + k
      /\ Held[k].timestamp = saved[Len(saved) - count + k]

(* The eviction loop never throws away the packet it was called for, even  *)
(* when timestamps are out of order or the subtraction wraps.              *)
NewestHeld == allocated /\ saved # << >> => count > 0

(* "RAM Storage: Ready for 10min history" (history_storage.c:13): once a   *)
(* save is done, each of the newest MaxHistory packets that is no older    *)
(* than RetentionMs with respect to it is still there.                     *)
RetainsRecent ==
  allocated /\ pc = "idle" =>
    \A i \in 1 .. Len(saved) :
      i > Len(saved) - MaxHistory /\ saved[i] + RetentionMs >= newest
        => i > Len(saved) - count

(* As long as timestamps have come in order the ring implements the        *)
(* abstract window; the evictions of a save are part of its one abstract   *)
(* step, so while they go on the window is what they will leave.           *)
InOrder == \A i \in 1 .. Len(saved) - 1 : saved[i] <= saved[i + 1]
Fresh == {k \in 1 .. count : ~Expired(SlotOf(k))}
FirstFresh == CHOOSE k \in Fresh : \A j \in Fresh : k <= j
Window == INSTANCE HistoryWindow
  WITH Times <- Time, total <- Len(saved),
       window <- IF pc = "idle" THEN Held ELSE SubSeq(Held, FirstFresh, count)
WindowSpec == Window!Init /\ [][InOrder' => [Window!Next]_(Window!vars)]_vars

(* What makes the safety properties inductive.                             *)
TailFollows == tail = (head + count) % MaxHistory
EmptyAtStart == saved = << >> \/ ~allocated => count = 0 /\ pc = "idle"
EvictingForNewest ==
  pc = "evict" => saved # << >> /\ now = saved[Len(saved)]
RingInv ==
  /\ TypeOK /\ HeldIsSuffix
  /\ TailFollows /\ EmptyAtStart /\ EvictingForNewest /\ count <= Len(saved)
IInv == RingInv /\ NewestHeld
=============================================================================
