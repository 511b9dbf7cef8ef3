------------------------ MODULE HistoryStorage_proofs ------------------------
(***************************************************************************)
(* The ring of history_storage.c for every capacity, retention and order   *)
(* of timestamps: it always holds exactly the last count packets saved and *)
(* never evicts the packet it was called for.                              *)
(***************************************************************************)
EXTENDS HistoryStorage, SequenceTheorems, WellFoundedInduction, TLAPS

LEMMA ModOnce ==
  ASSUME NEW a \in Nat, a < 2 * MaxHistory
  PROVE  a % MaxHistory = IF a < MaxHistory THEN a ELSE a - MaxHistory
BY HistoryAssumption, Z3

LEMMA SuccValue ==
  ASSUME NEW i \in Slot
  PROVE  Succ(i) = IF i + 1 < MaxHistory THEN i + 1 ELSE 0
<1>1. i + 1 \in Nat /\ i + 1 < 2 * MaxHistory /\ i + 1 <= MaxHistory
  BY HistoryAssumption DEF Slot
<1> QED BY <1>1, ModOnce, HistoryAssumption DEF Succ, Slot

LEMMA SuccSlot == ASSUME NEW i \in Slot PROVE Succ(i) \in Slot
BY SuccValue, HistoryAssumption DEF Slot

(* Where the k-th oldest packet lies: one wrap at most.                    *)
LEMMA SlotOfValue ==
  ASSUME NEW h \in Slot, NEW k \in 0 .. MaxHistory
  PROVE  (h + k) % MaxHistory = IF h + k < MaxHistory THEN h + k ELSE h + k - MaxHistory
BY HistoryAssumption, Z3 DEF Slot

LEMMA WholeTurn == ASSUME NEW h \in Slot PROVE (h + MaxHistory) % MaxHistory = h
BY HistoryAssumption, Z3 DEF Slot

LEMMA InitRing == Init => RingInv /\ NewestHeld
<1> SUFFICES ASSUME Init PROVE RingInv /\ NewestHeld
  OBVIOUS
<1> USE HistoryAssumption DEF Init
<1>1. [i \in Slot |-> [n |-> 0, timestamp |-> 0]] \in [Slot -> Packet]
  BY DEF Packet, Time
<1>2. TypeOK
  BY <1>1 DEF TypeOK, Slot, Time
<1>3. HeldIsSuffix
  BY DEF HeldIsSuffix
<1>4. NewestHeld /\ EmptyAtStart /\ EvictingForNewest
  BY DEF NewestHeld, EmptyAtStart, EvictingForNewest
<1>5. TailFollows
  BY ModOnce DEF TailFollows
<1>6. count <= Len(saved)
  OBVIOUS
<1> QED BY <1>2, <1>3, <1>4, <1>5, <1>6 DEF RingInv

LEMMA SaveRing == ASSUME RingInv, NEW ts \in Time, Save(ts) PROVE RingInv' /\ NewestHeld'
<1> USE HistoryAssumption
<1>0. TypeOK /\ HeldIsSuffix /\ TailFollows /\ count <= Len(saved)
  BY DEF RingInv
<1> DEFINE p == [n |-> Len(saved) + 1, timestamp |-> ts]
<1>1. /\ allocated /\ pc = "idle" /\ pc' = "evict" /\ now' = ts /\ allocated' = allocated
      /\ history' = [history EXCEPT ![tail] = p]
      /\ tail' = Succ(tail) /\ head' = HeadAfterSave /\ count' = CountAfterSave
      /\ saved' = Append(saved, ts)
      /\ newest' = IF ts > newest THEN ts ELSE newest
  BY DEF Save, Arrives, NowOf
<1>2. head \in Slot /\ tail \in Slot /\ count \in 0 .. MaxHistory /\ saved \in Seq(Time)
      /\ Len(saved) \in Nat
  BY <1>0 DEF TypeOK
<1>3. Len(saved') = Len(saved) + 1 /\ saved'[Len(saved) + 1] = ts
      /\ \A i \in 1 .. Len(saved) : saved'[i] = saved[i]
  BY <1>1, <1>2
<1>4. TypeOK'
  <2>1. p \in Packet
    BY <1>2 DEF Packet
  <2>2. history' \in [Slot -> Packet]
    BY <1>0, <1>1, <2>1 DEF TypeOK
  <2>3. tail' \in Slot /\ head' \in Slot /\ count' \in 0 .. MaxHistory
    BY <1>1, <1>2, SuccSlot DEF HeadAfterSave, CountAfterSave
  <2>4. saved' \in Seq(Time)
    BY <1>1, <1>2
  <2> QED BY <1>0, <1>1, <2>2, <2>3, <2>4 DEF TypeOK
<1>5. TailFollows'
  <2>1. CASE count < MaxHistory
    <3>1. tail = IF head + count < MaxHistory THEN head + count ELSE head + count - MaxHistory
      BY <1>0, <1>2, SlotOfValue DEF TailFollows
    <3>2. tail' = IF tail + 1 < MaxHistory THEN tail + 1 ELSE 0
      BY <1>1, <1>2, SuccValue
    <3>3. head' = head /\ count' = count + 1 /\ count + 1 \in 0 .. MaxHistory
      BY <1>1, <1>2, <2>1 DEF HeadAfterSave, CountAfterSave
    <3>4. (head + (count + 1)) % MaxHistory
            = IF head + (count + 1) < MaxHistory THEN head + (count + 1)
              ELSE head + (count + 1) - MaxHistory
      BY <1>2, <3>3, SlotOfValue
    <3> QED BY <1>2, <3>1, <3>2, <3>3, <3>4 DEF TailFollows, Slot
  <2>2. CASE count = MaxHistory
    <3>1. tail = head
      BY <1>0, <1>2, <2>2, SlotOfValue DEF TailFollows, Slot
    <3>2. head' = tail' /\ count' = MaxHistory /\ head' \in Slot
      BY <1>1, <1>2, <2>2, <3>1, SuccSlot DEF HeadAfterSave, CountAfterSave
    <3>3. (head' + MaxHistory) % MaxHistory = head'
      BY <3>2, WholeTurn
    <3> QED BY <3>2, <3>3 DEF TailFollows
  <2> QED BY <1>2, <2>1, <2>2
<1>6. count' >= 1 /\ count' <= Len(saved')
  BY <1>0, <1>1, <1>2, <1>3 DEF CountAfterSave
<1>7. HeldIsSuffix'
  <2> SUFFICES ASSUME NEW k \in 1 .. count'
               PROVE  /\ history'[SlotOf(k)'].n = Len(saved') - count' + k
                      /\ history'[SlotOf(k)'].timestamp = saved'[Len(saved') - count' + k]
    BY DEF HeldIsSuffix, Held
  <2>0. head' \in Slot /\ count' \in 0 .. MaxHistory /\ tail' \in Slot
    BY <1>4 DEF TypeOK
  <2>1. CASE k = count'
    <3>1. SlotOf(k)' = tail
      <4>1. CASE count < MaxHistory
        <5>1. SlotOf(k)' = (head + count) % MaxHistory
          BY <1>1, <1>2, <2>1, <4>1 DEF SlotOf, HeadAfterSave, CountAfterSave
        <5> QED BY <1>0, <5>1 DEF TailFollows
      <4>2. CASE count = MaxHistory
        <5>1. tail = head
          BY <1>0, <1>2, <4>2, SlotOfValue DEF TailFollows, Slot
        <5>2. head' = (IF head + 1 < MaxHistory THEN head + 1 ELSE 0)
              /\ k = MaxHistory
          BY <1>1, <1>2, <2>1, <4>2, SuccValue DEF HeadAfterSave, CountAfterSave
        <5>3. SlotOf(k)' = IF head' + (MaxHistory - 1) < MaxHistory
                           THEN head' + (MaxHistory - 1)
                           ELSE head' + (MaxHistory - 1) - MaxHistory
          <6>1. MaxHistory - 1 \in 0 .. MaxHistory
            OBVIOUS
          <6>2. SlotOf(k)' = (head' + (MaxHistory - 1)) % MaxHistory
            BY <5>2 DEF SlotOf
          <6> QED BY <2>0, <6>1, <6>2, SlotOfValue
        <5>4. SlotOf(k)' = head
          BY <1>2, <5>2, <5>3 DEF Slot
        <5> QED BY <5>1, <5>4
      <4> QED BY <1>2, <4>1, <4>2
    <3>2. history'[tail] = p
      BY <1>0, <1>1, <1>2 DEF TypeOK
    <3>3. Len(saved') - count' + k = Len(saved) + 1
      BY <1>2, <1>3, <2>0, <2>1
    <3> QED BY <1>3, <3>1, <3>2, <3>3
  <2>2. CASE k # count'
    <3> DEFINE j == IF count < MaxHistory THEN k ELSE k + 1
    <3>1. j \in 1 .. count /\ Len(saved') - count' + k = Len(saved) - count + j
      BY <1>1, <1>2, <1>3, <2>0, <2>2 DEF CountAfterSave
    <3>2. SlotOf(k)' = SlotOf(j)
      <4>1. CASE count < MaxHistory
        BY <1>1, <4>1 DEF SlotOf, HeadAfterSave
      <4>2. CASE count = MaxHistory
        <5>1. head' = IF head + 1 < MaxHistory THEN head + 1 ELSE 0
          BY <1>1, <1>2, <4>2, SuccValue DEF HeadAfterSave
        <5>2. k - 1 \in 0 .. MaxHistory /\ k \in 0 .. MaxHistory /\ j = k + 1
          BY <1>2, <2>0, <4>2
        <5>3. SlotOf(k)' = IF head' + (k - 1) < MaxHistory THEN head' + (k - 1)
                           ELSE head' + (k - 1) - MaxHistory
          BY <2>0, <5>2, SlotOfValue DEF SlotOf
        <5>4. SlotOf(j) = IF head + k < MaxHistory THEN head + k ELSE head + k - MaxHistory
          <6>1. SlotOf(j) = (head + k) % MaxHistory
            BY <5>2 DEF SlotOf
          <6> QED BY <1>2, <5>2, <6>1, SlotOfValue
        <5> QED BY <1>2, <5>1, <5>2, <5>3, <5>4 DEF Slot
      <4> QED BY <1>2, <4>1, <4>2
    <3>3. SlotOf(j) # tail /\ SlotOf(j) \in Slot
      <4>1. tail = IF head + count < MaxHistory THEN head + count ELSE head + count - MaxHistory
        BY <1>0, <1>2, SlotOfValue DEF TailFollows
      <4>2. j - 1 \in 0 .. MaxHistory /\ j - 1 < count /\ (count = MaxHistory => j > 1)
        BY <1>2, <2>0, <3>1
      <4>3. SlotOf(j) = IF head + (j - 1) < MaxHistory THEN head + (j - 1)
                        ELSE head + (j - 1) - MaxHistory
        BY <1>2, <4>2, SlotOfValue DEF SlotOf
      <4> HIDE DEF j
      <4> QED BY <1>2, <3>1, <4>1, <4>2, <4>3 DEF Slot
    <3>4. history'[SlotOf(j)] = history[SlotOf(j)]
      BY <1>0, <1>1, <3>3 DEF TypeOK
    <3>5. /\ history[SlotOf(j)].n = Len(saved) - count + j
          /\ history[SlotOf(j)].timestamp = saved[Len(saved) - count + j]
      BY <1>0, <1>1, <3>1 DEF HeldIsSuffix, Held
    <3>6. Len(saved) - count + j \in 1 .. Len(saved)
      <4> HIDE DEF j
      <4> QED BY <1>0, <1>2, <3>1
    <3> HIDE DEF j
    <3> QED BY <1>3, <3>1, <3>2, <3>4, <3>5, <3>6
  <2> QED BY <2>1, <2>2
<1>8. NewestHeld' /\ EvictingForNewest' /\ EmptyAtStart'
  <2>1. saved' # << >>
    BY <1>2, <1>3
  <2>2. count' > 0
    BY <1>4, <1>6 DEF TypeOK
  <2>3. now' = saved'[Len(saved')]
    BY <1>1, <1>3
  <2> QED BY <1>1, <2>1, <2>2, <2>3 DEF NewestHeld, EvictingForNewest, EmptyAtStart
<1> QED BY <1>4, <1>5, <1>6, <1>7, <1>8 DEF RingInv

LEMMA EvictRing == ASSUME RingInv, Evict PROVE RingInv' /\ NewestHeld'
<1> USE HistoryAssumption
<1>0. TypeOK /\ HeldIsSuffix /\ TailFollows /\ EmptyAtStart /\ EvictingForNewest
      /\ count <= Len(saved)
  BY DEF RingInv
<1>1. /\ pc = "evict" /\ count > 0 /\ Expired(head)
      /\ head' = Succ(head) /\ count' = count - 1
      /\ UNCHANGED <<allocated, tail, history, now, newest, saved, pc>>
  BY DEF Evict
<1>2. head \in Slot /\ tail \in Slot /\ count \in 1 .. MaxHistory /\ saved \in Seq(Time)
      /\ Len(saved) \in Nat /\ allocated
  BY <1>0, <1>1 DEF TypeOK, EmptyAtStart
<1>3. head' = (IF head + 1 < MaxHistory THEN head + 1 ELSE 0) /\ head' \in Slot
  BY <1>1, <1>2, SuccValue, SuccSlot
<1>4. TypeOK'
  BY <1>0, <1>1, <1>2, <1>3 DEF TypeOK
(* The packet being saved is the last one, and it is not older than itself: *)
(* if it were the only one left the loop would stop.                        *)
<1>5. count > 1
  <2> SUFFICES ASSUME count = 1 PROVE FALSE
    BY <1>2
  <2>1. SlotOf(1) = head
    BY <1>2, ModOnce DEF SlotOf, Slot
  <2>2. history[head].timestamp = saved[Len(saved)]
    <3>1. Held[1].timestamp = saved[Len(saved) - 1 + 1]
      BY <1>0, <1>2 DEF HeldIsSuffix
    <3>2. Held[1] = history[SlotOf(1)]
      BY DEF Held
    <3> QED BY <1>2, <2>1, <3>1, <3>2
  <2>3. history[head].timestamp = now /\ now \in Nat
    BY <1>0, <1>1, <2>2 DEF EvictingForNewest, TypeOK, Time
  <2>4. 0 % Wrap = 0
    BY Z3
  <2>5. (now - history[head].timestamp) % Wrap = 0
    BY <2>3, <2>4
  <2> QED BY <1>1, <2>5 DEF Expired
<1>6. TailFollows'
  <2>1. tail = IF head + count < MaxHistory THEN head + count ELSE head + count - MaxHistory
    <3>1. count \in 0 .. MaxHistory
      BY <1>2
    <3> QED BY <1>0, <1>2, <3>1, SlotOfValue DEF TailFollows
  <2>2. (head' + (count - 1)) % MaxHistory
          = IF head' + (count - 1) < MaxHistory THEN head' + (count - 1)
            ELSE head' + (count - 1) - MaxHistory
    <3>1. count - 1 \in 0 .. MaxHistory
      BY <1>2
    <3> QED BY <1>3, <3>1, SlotOfValue
  <2>3. tail = (head' + (count - 1)) % MaxHistory
    BY <1>2, <1>3, <2>1, <2>2 DEF Slot
  <2> QED BY <1>1, <2>3 DEF TailFollows
<1>7. HeldIsSuffix'
  <2> SUFFICES ASSUME NEW k \in 1 .. count - 1
               PROVE  /\ history[SlotOf(k)'].n = Len(saved) - (count - 1) + k
                      /\ history[SlotOf(k)'].timestamp = saved[Len(saved) - (count - 1) + k]
    BY <1>1 DEF HeldIsSuffix, Held
  <2>1. k + 1 \in 1 .. count /\ Len(saved) - (count - 1) + k = Len(saved) - count + (k + 1)
    BY <1>2
  <2>2. SlotOf(k)' = SlotOf(k + 1)
    <3>1. k - 1 \in 0 .. MaxHistory /\ k \in 0 .. MaxHistory
      BY <1>2
    <3>2. SlotOf(k)' = IF head' + (k - 1) < MaxHistory THEN head' + (k - 1)
                       ELSE head' + (k - 1) - MaxHistory
      BY <1>3, <3>1, SlotOfValue DEF SlotOf
    <3>3. SlotOf(k + 1) = (head + k) % MaxHistory
      BY <3>1 DEF SlotOf
    <3>4. SlotOf(k + 1) = IF head + k < MaxHistory THEN head + k ELSE head + k - MaxHistory
      BY <1>2, <3>1, <3>3, SlotOfValue
    <3> QED BY <1>2, <1>3, <3>1, <3>2, <3>4 DEF Slot
  <2>3. /\ Held[k + 1].n = Len(saved) - count + (k + 1)
        /\ Held[k + 1].timestamp = saved[Len(saved) - count + (k + 1)]
    BY <1>0, <1>2, <2>1 DEF HeldIsSuffix
  <2>4. Held[k + 1] = history[SlotOf(k + 1)]
    BY <2>1 DEF Held
  <2> QED BY <2>1, <2>2, <2>3, <2>4
<1>8. NewestHeld' /\ EvictingForNewest' /\ EmptyAtStart'
  BY <1>0, <1>1, <1>2, <1>5 DEF NewestHeld, EvictingForNewest, EmptyAtStart
<1>9. count' <= Len(saved')
  BY <1>0, <1>1, <1>2
<1> QED BY <1>4, <1>6, <1>7, <1>8, <1>9 DEF RingInv

(* Without memory nothing is ever stored.                                  *)
LEMMA UnsavedRing ==
  ASSUME RingInv, NEW ts \in Time, SaveWithoutMemory(ts) PROVE RingInv' /\ NewestHeld'
<1>1. /\ ~allocated /\ pc = "idle" /\ saved' = Append(saved, ts)
      /\ newest' = (IF ts > newest THEN ts ELSE newest)
      /\ UNCHANGED <<allocated, head, tail, count, history, now, pc>>
  BY DEF SaveWithoutMemory, Arrives
<1>2. TypeOK /\ TailFollows /\ saved \in Seq(Time) /\ count = 0
  BY <1>1 DEF RingInv, TypeOK, EmptyAtStart
<1>3. saved' \in Seq(Time) /\ Len(saved') \in Nat
  BY <1>1, <1>2
<1>4. TypeOK'
  BY <1>1, <1>2, <1>3 DEF TypeOK
<1>5. HeldIsSuffix' /\ NewestHeld' /\ EvictingForNewest' /\ EmptyAtStart'
  BY <1>1, <1>2 DEF HeldIsSuffix, NewestHeld, EvictingForNewest, EmptyAtStart
<1>6. TailFollows' /\ count' <= Len(saved')
  BY <1>1, <1>2, <1>3 DEF TailFollows
<1> QED BY <1>4, <1>5, <1>6 DEF RingInv

LEMMA QuietRing ==
  ASSUME RingInv, UNCHANGED <<allocated, head, tail, count, history, now, newest, saved>>,
         pc' \in {"idle", pc}
  PROVE  RingInv' /\ (NewestHeld => NewestHeld')
<1>0. TypeOK /\ HeldIsSuffix /\ TailFollows /\ EmptyAtStart /\ EvictingForNewest
      /\ count <= Len(saved)
  BY DEF RingInv
<1>1. TypeOK'
  BY <1>0 DEF TypeOK
<1>2. HeldIsSuffix' /\ TailFollows' /\ count' <= Len(saved')
  BY <1>0 DEF HeldIsSuffix, Held, SlotOf, TailFollows
<1>3. EmptyAtStart' /\ EvictingForNewest' /\ (NewestHeld => NewestHeld')
  BY <1>0 DEF EmptyAtStart, EvictingForNewest, NewestHeld
<1> QED BY <1>1, <1>2, <1>3 DEF RingInv

(* Every step of save_to_storage preserves the inductive invariant.        *)
THEOREM StepIInv == IInv /\ [Next]_vars => IInv'
<1> SUFFICES ASSUME IInv, [Next]_vars PROVE IInv'
  OBVIOUS
<1>0. RingInv /\ NewestHeld
  BY DEF IInv
<1>1. ASSUME NEW ts \in Time, Save(ts) \/ SaveWithoutMemory(ts) PROVE IInv'
  BY <1>0, <1>1, SaveRing, UnsavedRing DEF IInv
<1>2. CASE Evict
  BY <1>0, <1>2, EvictRing DEF IInv
<1>3. CASE EvictDone \/ UNCHANGED vars
  <2>1. /\ UNCHANGED <<allocated, head, tail, count, history, now, newest, saved>>
        /\ pc' \in {"idle", pc}
    BY <1>3 DEF EvictDone, vars
  <2> QED BY <1>0, <2>1, QuietRing DEF IInv
<1> QED BY <1>1, <1>2, <1>3 DEF Next

(* The invariant holds of every behaviour of the ring.                     *)
THEOREM AlwaysIInv == Spec => []IInv
<1>1. Init => IInv
  BY InitRing DEF IInv
<1> QED BY <1>1, StepIInv, PTL DEF Spec

(* The variables keep their types: head and tail stay inside the ring.     *)
THEOREM TypeCorrect == Spec => []TypeOK
<1>1. IInv => TypeOK
  BY DEF IInv, RingInv
<1> QED BY <1>1, AlwaysIInv, PTL

(* The ring holds exactly the last count packets saved, in order.          *)
THEOREM AlwaysSuffix == Spec => []HeldIsSuffix
<1>1. IInv => HeldIsSuffix
  BY DEF IInv, RingInv
<1> QED BY <1>1, AlwaysIInv, PTL

(* Whatever the order of the timestamps, the eviction loop keeps the       *)
(* packet just saved.                                                      *)
THEOREM NewestNeverEvicted == Spec => []NewestHeld
<1>1. IInv => NewestHeld
  BY DEF IInv, RingInv
<1> QED BY <1>1, AlwaysIInv, PTL

-----------------------------------------------------------------------------
(* The ring implements the abstract window.  A set of numbers that is not  *)
(* empty has a least element: all the arguments over sequences below.      *)
LEMMA LeastOf ==
  ASSUME NEW T, T \subseteq Nat, T # {}
  PROVE  \E m \in T : \A j \in T : m <= j
<1>1. PICK m \in T : \A j \in T : ~ (<<j, m>> \in OpToRel(<, Nat))
  BY WFMin, NatLessThanWellFounded
<1>2. ASSUME NEW j \in T PROVE m <= j
  <2>1. m \in Nat /\ j \in Nat
    OBVIOUS
  <2>2. <<j, m>> \in Nat \X Nat /\ ~ (<<j, m>> \in OpToRel(<, Nat))
    BY <1>1, <2>1
  <2>3. ~ (j < m)
    BY <2>1, <2>2, Zenon DEF OpToRel
  <2> QED BY <2>1, <2>3
<1> QED BY <1>2

(* The filter of the abstract window, entry by entry.                      *)
KeptTo(n, w, s, ts) ==
  w = [i \in 0 .. n |->
         IF i = 0 THEN << >>
         ELSE IF ts - s[i].timestamp <= RetentionMs THEN Append(w[i - 1], s[i]) ELSE w[i - 1]]

LEMMA FilterReaches == ASSUME NEW n \in Nat, NEW s, NEW ts PROVE \E w : KeptTo(n, w, s, ts)
<1> DEFINE T == {k \in Nat : ~ \E w : KeptTo(k, w, s, ts)}
<1> SUFFICES ASSUME T # {} PROVE FALSE
  OBVIOUS
<1>1. PICK m \in T : \A j \in T : m <= j
  BY LeastOf, T \subseteq Nat
<1>2. m \in Nat /\ ~ \E w : KeptTo(m, w, s, ts)
  OBVIOUS
<1>3. m # 0
  <2>1. KeptTo(0, [i \in 0 .. 0 |-> << >>], s, ts)
    BY DEF KeptTo
  <2> QED BY <1>2, <2>1
<1>4. m - 1 \in Nat /\ ~ (m <= m - 1)
  BY <1>2, <1>3
<1>5. PICK w : KeptTo(m - 1, w, s, ts)
  BY <1>1, <1>4
<1> DEFINE step(v) == IF ts - s[m].timestamp <= RetentionMs THEN Append(v, s[m]) ELSE v
           x == [i \in 0 .. m |-> IF i = m THEN step(w[m - 1]) ELSE w[i]]
<1>6. \A i \in 0 .. m - 1 : x[i] = w[i]
  BY <1>2, <1>4
<1>7. ASSUME NEW i \in 0 .. m
      PROVE  x[i] = IF i = 0 THEN << >>
                    ELSE IF ts - s[i].timestamp <= RetentionMs THEN Append(x[i - 1], s[i])
                    ELSE x[i - 1]
  <2>1. CASE i = m
    <3>1. x[i] = step(w[m - 1]) /\ x[m - 1] = w[m - 1]
      BY <1>4, <1>6, <2>1
    <3> QED BY <1>3, <2>1, <3>1
  <2>2. CASE i = 0
    <3>1. w[0] = << >> /\ x[0] = w[0]
      BY <1>4, <1>5, <1>6 DEF KeptTo
    <3> QED BY <2>2, <3>1
  <2>3. CASE i # m /\ i # 0
    <3>1. i \in 0 .. m - 1 /\ i - 1 \in 0 .. m - 1
      BY <1>2, <2>3
    <3>2. w[i] = IF i = 0 THEN << >>
                 ELSE IF ts - s[i].timestamp <= RetentionMs THEN Append(w[i - 1], s[i])
                 ELSE w[i - 1]
      BY <1>5, <3>1 DEF KeptTo
    <3>3. x[i] = w[i] /\ x[i - 1] = w[i - 1]
      BY <1>6, <3>1
    <3> QED BY <2>3, <3>2, <3>3
  <2> QED BY <2>1, <2>2, <2>3
<1>8. x = [i \in 0 .. m |-> x[i]]
  OBVIOUS
<1> HIDE DEF x
<1>9. KeptTo(m, x, s, ts)
  BY <1>7, <1>8 DEF KeptTo
<1> QED BY <1>2, <1>9

LEMMA EndGrows ==
  ASSUME NEW S, NEW s \in Seq(S), NEW k \in 1 .. Len(s), NEW m \in k .. Len(s)
  PROVE  Append(SubSeq(s, k, m - 1), s[m]) = SubSeq(s, k, m)
<1>0. Len(s) \in Nat /\ k \in Int /\ m \in Int /\ m - 1 \in Int
  OBVIOUS
<1>1. \A i \in k .. m - 1 : s[i] \in S
  BY <1>0, ElementOfSeq
<1>2. SubSeq(s, k, m - 1) \in Seq(S)
  BY <1>0, <1>1, SubSeqProperties
<1>3. s[m] \in S
  BY <1>0, ElementOfSeq
<1> QED BY <1>2, <1>3, SubSeqRecursiveSecond, AppendIsConcat

(* When the packets from k on are recent and those before are not, the     *)
(* filter keeps exactly the end of the sequence from k on.                 *)
LEMMA RecentIsEnd ==
  ASSUME NEW s \in Seq(Packet), NEW ts \in Time, NEW k \in 1 .. Len(s),
         \A i \in 1 .. Len(s) : ts - s[i].timestamp <= RetentionMs <=> k <= i
  PROVE  Window!Recent(s, ts) = SubSeq(s, k, Len(s))
<1> DEFINE w == CHOOSE v : KeptTo(Len(s), v, s, ts)
<1>0. Len(s) \in Nat /\ k \in Nat
  OBVIOUS
<1>1. KeptTo(Len(s), w, s, ts)
  BY <1>0, FilterReaches
<1>2. Window!Recent(s, ts) = w[Len(s)]
  BY DEF Window!Recent, KeptTo
<1> HIDE DEF w
<1>3. w[0] = << >>
  BY <1>0, <1>1 DEF KeptTo
<1>4. ASSUME NEW i \in 1 .. Len(s)
      PROVE  w[i] = IF k <= i THEN Append(w[i - 1], s[i]) ELSE w[i - 1]
  <2>1. i \in 0 .. Len(s) /\ i # 0
    BY <1>0
  <2>2. w[i] = IF i = 0 THEN << >>
               ELSE IF ts - s[i].timestamp <= RetentionMs THEN Append(w[i - 1], s[i])
               ELSE w[i - 1]
    BY <1>1, <2>1 DEF KeptTo
  <2> QED BY <2>1, <2>2
<1> DEFINE T == {i \in 0 .. Len(s) : w[i] # SubSeq(s, k, i)}
<1>5. T = {}
  <2> SUFFICES ASSUME T # {} PROVE FALSE
    OBVIOUS
  <2>1. T \subseteq Nat
    BY <1>0
  <2>2. PICK m \in T : \A j \in T : m <= j
    BY <2>1, LeastOf
  <2>3. m \in 0 .. Len(s) /\ w[m] # SubSeq(s, k, m)
    OBVIOUS
  <2>4. m # 0
    <3>1. SubSeq(s, k, 0) = << >>
      BY <1>0, SubSeqEmpty
    <3> QED BY <1>3, <2>3, <3>1
  <2>5. m \in 1 .. Len(s) /\ m - 1 \in 0 .. Len(s) /\ ~(m <= m - 1) /\ m \in Int /\ k \in Int
    BY <1>0, <2>3, <2>4
  <2>6. w[m - 1] = SubSeq(s, k, m - 1)
    BY <2>2, <2>5
  <2> HIDE DEF T
  <2>7. CASE k <= m
    <3>1. m \in k .. Len(s)
      BY <1>0, <2>5, <2>7
    <3>2. w[m] = Append(SubSeq(s, k, m - 1), s[m])
      BY <1>4, <2>5, <2>6, <2>7
    <3> QED BY <2>3, <3>1, <3>2, EndGrows
  <2>8. CASE ~(k <= m)
    <3>1. m < k /\ m - 1 < k /\ m - 1 \in Int
      BY <1>0, <2>5, <2>8
    <3>2. SubSeq(s, k, m) = << >>
      BY <2>5, <3>1, SubSeqEmpty
    <3>3. SubSeq(s, k, m - 1) = << >>
      BY <2>5, <3>1, SubSeqEmpty
    <3> QED BY <1>4, <2>3, <2>5, <2>6, <2>8, <3>2, <3>3
  <2> QED BY <2>7, <2>8
<1>6. Len(s) \in 0 .. Len(s)
  BY <1>0
<1> QED BY <1>2, <1>5, <1>6

(* What the ring holds, as a sequence.                                     *)
HeldShape ==
  /\ Held \in Seq(Packet) /\ Len(Held) = count
  /\ \A k \in 1 .. count :
       /\ Len(saved) - count + k \in 1 .. Len(saved)
       /\ Held[k] = [n |-> Len(saved) - count + k, timestamp |-> saved[Len(saved) - count + k]]
       /\ Held[k] = history[SlotOf(k)]

LEMMA RingHolds == RingInv => HeldShape
<1> SUFFICES ASSUME RingInv PROVE HeldShape
  OBVIOUS
<1> USE HistoryAssumption
<1>1. TypeOK /\ HeldIsSuffix /\ EmptyAtStart /\ count <= Len(saved)
  BY DEF RingInv
<1>2. head \in Slot /\ count \in Nat /\ count <= MaxHistory /\ Len(saved) \in Nat
      /\ history \in [Slot -> Packet] /\ saved \in Seq(Time)
  BY <1>1 DEF TypeOK
<1>3. \A k \in 1 .. count : SlotOf(k) \in Slot
  <2> SUFFICES ASSUME NEW k \in 1 .. count PROVE SlotOf(k) \in Slot
    OBVIOUS
  <2>1. k - 1 \in 0 .. MaxHistory
    BY <1>2
  <2> QED BY <1>2, <2>1, SlotOfValue DEF SlotOf, Slot
<1>4. Held = [k \in 1 .. count |-> history[SlotOf(k)]]
  BY DEF Held
<1>5. \A k \in 1 .. count : history[SlotOf(k)] \in Packet
  BY <1>2, <1>3
<1>6. Held \in [1 .. count -> Packet]
  BY <1>4, <1>5
<1>7. Held \in Seq(Packet) /\ Len(Held) = count
  BY <1>2, <1>6
<1>8. ASSUME NEW k \in 1 .. count
      PROVE  /\ Len(saved) - count + k \in 1 .. Len(saved)
             /\ Held[k] = [n |-> Len(saved) - count + k,
                           timestamp |-> saved[Len(saved) - count + k]]
             /\ Held[k] = history[SlotOf(k)]
  <2>1. allocated
    BY <1>1, <1>2 DEF EmptyAtStart
  <2>2. Held[k].n = Len(saved) - count + k
        /\ Held[k].timestamp = saved[Len(saved) - count + k]
    BY <1>1, <2>1 DEF HeldIsSuffix
  <2>3. Held[k] \in Packet
    BY <1>6
  <2>4. Held[k] = [n |-> Held[k].n, timestamp |-> Held[k].timestamp]
    BY <2>3 DEF Packet
  <2>5. Len(saved) - count + k \in 1 .. Len(saved)
    BY <1>1, <1>2
  <2> QED BY <1>4, <2>2, <2>4, <2>5
<1> QED BY <1>7, <1>8 DEF HeldShape

(* What InOrder says of neighbours holds of any two packets.               *)
Sorted == \A i, j \in 1 .. Len(saved) : i <= j => saved[i] <= saved[j]

LEMMA OrderedIsSorted == TypeOK /\ InOrder => Sorted
<1> SUFFICES ASSUME TypeOK, InOrder, NEW i \in 1 .. Len(saved)
             PROVE  \A j \in 1 .. Len(saved) : i <= j => saved[i] <= saved[j]
  BY DEF Sorted
<1>0. saved \in Seq(Time) /\ Len(saved) \in Nat /\ Time \subseteq Nat
      /\ \A j \in 1 .. Len(saved) : saved[j] \in Nat
  BY HistoryAssumption DEF TypeOK, Time
<1> DEFINE T == {j \in 1 .. Len(saved) : i <= j /\ ~(saved[i] <= saved[j])}
<1> SUFFICES ASSUME T # {} PROVE FALSE
  OBVIOUS
<1>1. T \subseteq Nat
  BY <1>0
<1>2. PICK m \in T : \A j \in T : m <= j
  BY <1>1, LeastOf
<1>3. m \in 1 .. Len(saved) /\ i <= m /\ ~(saved[i] <= saved[m])
  OBVIOUS
<1>4. i # m
  BY <1>0, <1>3
<1>5. m - 1 \in 1 .. Len(saved) - 1 /\ m - 1 \in 1 .. Len(saved) /\ i <= m - 1
      /\ ~(m <= m - 1) /\ m - 1 + 1 = m
  BY <1>0, <1>3, <1>4
<1>6. saved[m - 1] <= saved[m]
  BY <1>5 DEF InOrder
<1>7. saved[i] <= saved[m - 1]
  BY <1>2, <1>5
<1> HIDE DEF T
<1> QED BY <1>0, <1>3, <1>5, <1>6, <1>7

(* In order, the packets the loop evicts are those before FirstFresh.      *)
Splits ==
  /\ FirstFresh \in 1 .. count
  /\ \A j \in 1 .. count :
       /\ now - Held[j].timestamp <= RetentionMs <=> FirstFresh <= j
       /\ Expired(SlotOf(j)) <=> j < FirstFresh

Evicting == pc = "evict" /\ count > 0

LEMMA FreshSplits == RingInv /\ InOrder /\ Evicting => Splits
<1> SUFFICES ASSUME RingInv, InOrder, pc = "evict", count > 0 PROVE Splits
  BY DEF Evicting
<1> USE HistoryAssumption
<1>1. TypeOK /\ EvictingForNewest /\ HeldShape /\ Sorted
  BY RingHolds, OrderedIsSorted DEF RingInv
<1>2. count \in Nat /\ Len(saved) \in Nat /\ saved \in Seq(Time) /\ saved # << >>
      /\ now = saved[Len(saved)] /\ Len(saved) \in 1 .. Len(saved)
  BY <1>1 DEF TypeOK, EvictingForNewest
<1> DEFINE age(j) == now - Held[j].timestamp
<1>3. ASSUME NEW j \in 1 .. count
      PROVE  /\ age(j) \in 0 .. MaxTime
             /\ Expired(SlotOf(j)) <=> ~(age(j) <= RetentionMs)
             /\ \A i \in 1 .. count : j <= i => age(i) <= age(j)
  <2> DEFINE at(i) == Len(saved) - count + i
  <2>1. \A i \in 1 .. count : at(i) \in 1 .. Len(saved) /\ Held[i].timestamp = saved[at(i)]
                              /\ saved[at(i)] \in Time
    BY <1>1, <1>2 DEF HeldShape
  <2>2. now \in Time /\ Time \subseteq Nat
    BY <1>1 DEF TypeOK, Time
  <2>3. saved[at(j)] <= saved[Len(saved)]
    <3>1. at(j) \in 1 .. Len(saved) /\ at(j) <= Len(saved)
      BY <1>2, <2>1
    <3> HIDE DEF at
    <3> QED BY <1>1, <1>2, <3>1 DEF Sorted
  <2>4. Held[j].timestamp \in Time /\ Held[j].timestamp <= now
    BY <1>2, <2>1, <2>3
  <2>5. age(j) \in 0 .. MaxTime
    BY <2>2, <2>4 DEF Time
  <2>6. age(j) % Wrap = age(j)
    <3>1. age(j) \in Nat /\ age(j) < Wrap
      BY <2>5
    <3> HIDE DEF age
    <3> QED BY <3>1, Z3
  <2>7. Expired(SlotOf(j)) <=> ~(age(j) <= RetentionMs)
    <3>1. Held[j] = history[SlotOf(j)]
      BY <1>1 DEF HeldShape
    <3>2. Expired(SlotOf(j)) <=> age(j) > RetentionMs
      BY <2>6, <3>1 DEF Expired
    <3> HIDE DEF age
    <3> QED BY <2>5, <3>2
  <2>8. ASSUME NEW i \in 1 .. count, j <= i PROVE age(i) <= age(j)
    <3>1. at(j) <= at(i)
      BY <1>2, <2>8
    <3>2. saved[at(j)] <= saved[at(i)]
      BY <1>1, <2>1, <3>1 DEF Sorted
    <3> HIDE DEF at
    <3> QED BY <2>1, <2>2, <3>2
  <2> QED BY <2>5, <2>7, <2>8
<1>4. age(count) = 0 /\ count \in 1 .. count
  <2>1. count \in 1 .. count /\ Len(saved) - count + count = Len(saved)
    BY <1>2
  <2>2. Held[count].timestamp = saved[Len(saved)]
    BY <1>1, <2>1 DEF HeldShape
  <2>3. now \in Nat
    BY <1>1 DEF TypeOK, Time
  <2> QED BY <1>2, <2>1, <2>2, <2>3
<1> HIDE DEF age
<1>5. Fresh = {k \in 1 .. count : age(k) <= RetentionMs}
  BY <1>3 DEF Fresh
<1>6. Fresh \subseteq Nat /\ count \in Fresh
  BY <1>2, <1>4, <1>5
<1>7. FirstFresh \in Fresh /\ \A j \in Fresh : FirstFresh <= j
  BY <1>6, LeastOf DEF FirstFresh
<1>8. ASSUME NEW j \in 1 .. count
      PROVE  /\ age(j) <= RetentionMs <=> FirstFresh <= j
             /\ Expired(SlotOf(j)) <=> j < FirstFresh
  <2>1. FirstFresh \in 1 .. count /\ age(FirstFresh) <= RetentionMs
    BY <1>5, <1>7
  <2>2. age(j) \in Int /\ age(FirstFresh) \in Int /\ RetentionMs \in Int
    BY <1>3, <2>1
  <2>3. FirstFresh <= j => age(j) <= RetentionMs
    BY <1>3, <2>1, <2>2
  <2>4. age(j) <= RetentionMs => FirstFresh <= j
    BY <1>5, <1>7
  <2>5. j \in Int /\ FirstFresh \in Int
    BY <1>2, <2>1
  <2> QED BY <1>3, <2>3, <2>4, <2>5
<1>9. FirstFresh \in 1 .. count
  BY <1>5, <1>7
<1> QED BY <1>8, <1>9 DEF Splits, age

(* Writing at tail, and moving head in a full ring, is the abstract        *)
(* history's append that drops the oldest packet.                          *)
LEMMA SaveShifts ==
  ASSUME RingInv, RingInv', NEW ts \in Time, Save(ts)
  PROVE  Held' = Window!Newest(Append(Held, [n |-> Len(saved) + 1, timestamp |-> ts]))
<1> USE HistoryAssumption
<1> DEFINE p == [n |-> Len(saved) + 1, timestamp |-> ts]
           s == Append(Held, p)
<1>1. HeldShape /\ HeldShape'
  BY RingHolds, PTL
<1>2. TypeOK /\ saved' = Append(saved, ts) /\ count' = CountAfterSave
  BY DEF RingInv, Save, Arrives
<1>3. count \in Nat /\ count <= MaxHistory /\ saved \in Seq(Time) /\ Len(saved) \in Nat
  BY <1>2 DEF TypeOK
<1>4. Len(saved') = Len(saved) + 1 /\ saved'[Len(saved) + 1] = ts
      /\ \A i \in 1 .. Len(saved) : saved'[i] = saved[i]
  BY <1>2, <1>3
<1>5. p \in Packet /\ Held \in Seq(Packet) /\ Len(Held) = count
      /\ Held' \in Seq(Packet) /\ Len(Held') = count'
  <2>1. Len(saved) + 1 \in Nat
    BY <1>3
  <2> QED BY <1>1, <2>1 DEF Packet, HeldShape
<1>6. /\ s \in Seq(Packet) /\ Len(s) = count + 1 /\ s[count + 1] = p
      /\ \A k \in 1 .. count : s[k] = Held[k]
  BY <1>5, AppendProperties
<1>7. ASSUME NEW k \in 1 .. count + 1
      PROVE  s[k] = [n |-> Len(saved) - count + k, timestamp |-> saved'[Len(saved) - count + k]]
  <2>1. CASE k = count + 1
    <3>1. Len(saved) - count + k = Len(saved) + 1
      BY <1>3, <2>1
    <3> QED BY <1>4, <1>6, <2>1, <3>1
  <2>2. CASE k # count + 1
    <3>1. k \in 1 .. count
      BY <1>3, <2>2
    <3>2. /\ Len(saved) - count + k \in 1 .. Len(saved)
          /\ Held[k] = [n |-> Len(saved) - count + k,
                        timestamp |-> saved[Len(saved) - count + k]]
      BY <1>1, <3>1 DEF HeldShape
    <3> QED BY <1>4, <1>6, <3>1, <3>2
  <2> QED BY <2>1, <2>2
<1>8. \A k \in 1 .. count' :
        Held'[k] = [n |-> Len(saved') - count' + k, timestamp |-> saved'[Len(saved') - count' + k]]
  BY <1>1 DEF HeldShape
<1> HIDE DEF s, p
<1>9. CASE count < MaxHistory
  <2>1. count' = count + 1 /\ Window!Newest(s) = s
    BY <1>2, <1>3, <1>6, <1>9 DEF CountAfterSave, Window!Newest
  <2>2. Len(saved') - count' = Len(saved) - count
    BY <1>3, <1>4, <2>1
  <2>3. \A k \in 1 .. count + 1 : Held'[k] = s[k]
    BY <1>7, <1>8, <2>1, <2>2
  <2>4. Held' = s
    BY <1>5, <1>6, <2>1, <2>3, SeqEqual
  <2> QED BY <2>1, <2>4 DEF s, p
<1>10. CASE count = MaxHistory
  <2>1. count' = count /\ Window!Newest(s) = Tail(s) /\ s # << >>
    BY <1>2, <1>3, <1>6, <1>10 DEF CountAfterSave, Window!Newest
  <2>2. /\ Tail(s) \in Seq(Packet) /\ Len(Tail(s)) = count
        /\ \A k \in 1 .. count : Tail(s)[k] = s[k + 1]
    BY <1>3, <1>6, <2>1, HeadTailProperties
  <2>3. ASSUME NEW k \in 1 .. count PROVE Held'[k] = Tail(s)[k]
    <3>1. k + 1 \in 1 .. count + 1
      BY <1>3
    <3>2. Len(saved') - count' + k = Len(saved) - count + (k + 1)
      BY <1>3, <1>4, <2>1
    <3>3. Held'[k] = [n |-> Len(saved) - count + (k + 1),
                      timestamp |-> saved'[Len(saved) - count + (k + 1)]]
      BY <1>8, <2>1, <3>2
    <3> QED BY <1>7, <2>2, <3>1, <3>3
  <2>4. Held' = Tail(s)
    BY <1>5, <2>1, <2>2, <2>3, SeqEqual
  <2> QED BY <2>1, <2>4 DEF s, p
<1> QED BY <1>3, <1>9, <1>10

(* The packets the abstract history holds; total is Len(saved).            *)
InWindow == IF pc = "idle" THEN Held ELSE SubSeq(Held, FirstFresh, count)

LEMMA SaveMaps ==
  ASSUME RingInv, RingInv', InOrder', NEW ts \in Time, Save(ts), count' > 0
  PROVE  Window!Save(ts)
<1>1. /\ allocated /\ pc = "idle" /\ pc' = "evict" /\ now' = ts /\ allocated' = allocated
      /\ saved' = Append(saved, ts)
  BY DEF Save, Arrives, NowOf
<1>2. Splits' /\ HeldShape'
  <2>1. Evicting'
    BY <1>1 DEF Evicting
  <2> QED BY <2>1, RingHolds, FreshSplits, PTL
<1>3. Held' = Window!Newest(Append(Held, [n |-> Len(saved) + 1, timestamp |-> ts]))
  BY SaveShifts
<1>4. Window!Recent(Held', ts) = SubSeq(Held', FirstFresh', Len(Held'))
  <2>1. Held' \in Seq(Packet) /\ Len(Held') = count' /\ FirstFresh' \in 1 .. Len(Held')
    BY <1>2 DEF HeldShape, Splits
  <2>2. \A j \in 1 .. Len(Held') :
          ts - Held'[j].timestamp <= RetentionMs <=> FirstFresh' <= j
    BY <1>1, <1>2, <2>1 DEF Splits
  <2> QED BY <2>1, <2>2, RecentIsEnd
<1>5. InWindow = Held /\ InWindow' = SubSeq(Held', FirstFresh', Len(Held'))
  BY <1>1, <1>2 DEF InWindow, HeldShape
<1>6. Len(saved') = Len(saved) + 1
  BY <1>1 DEF RingInv, TypeOK
<1> QED BY <1>1, <1>3, <1>4, <1>5, <1>6 DEF Window!Save, InWindow

(* An eviction leaves what the finished loop will leave as it was.         *)
LEMMA EvictMaps ==
  ASSUME RingInv, RingInv', InOrder, InOrder', Evict, count' > 0
  PROVE  InWindow' = InWindow
<1>1. /\ pc = "evict" /\ pc' = pc /\ count > 0 /\ Expired(head) /\ count' = count - 1
      /\ saved' = saved /\ now' = now
  BY DEF Evict
<1>2. TypeOK /\ HeldShape /\ HeldShape' /\ Splits /\ Splits'
  <2>1. Evicting /\ Evicting' /\ TypeOK
    BY <1>1 DEF Evicting, RingInv
  <2> QED BY <2>1, RingHolds, FreshSplits, PTL
<1>3. count \in Nat /\ Len(saved) \in Nat /\ head \in Slot /\ 1 \in 1 .. count
  BY <1>1, <1>2 DEF TypeOK
<1>4. SlotOf(1) = head
  BY <1>3, ModOnce, HistoryAssumption DEF SlotOf, Slot
<1>5. FirstFresh \in 2 .. count /\ FirstFresh' \in 1 .. count - 1
  <2>1. 1 < FirstFresh /\ FirstFresh \in 1 .. count /\ FirstFresh' \in 1 .. count'
    BY <1>1, <1>2, <1>3, <1>4 DEF Splits
  <2> QED BY <1>1, <1>3, <2>1
<1>6. ASSUME NEW j \in 1 .. count - 1 PROVE Held'[j] = Held[j + 1] /\ j + 1 \in 1 .. count
  <2>1. j + 1 \in 1 .. count /\ j \in 1 .. count'
        /\ Len(saved') - count' + j = Len(saved) - count + (j + 1)
    BY <1>1, <1>3
  <2>2. Held[j + 1] = [n |-> Len(saved) - count + (j + 1),
                       timestamp |-> saved[Len(saved) - count + (j + 1)]]
    BY <1>2, <2>1 DEF HeldShape
  <2>3. Held'[j] = [n |-> Len(saved') - count' + j,
                    timestamp |-> saved'[Len(saved') - count' + j]]
    BY <1>2, <2>1 DEF HeldShape
  <2> QED BY <1>1, <2>1, <2>2, <2>3
<1>7. FirstFresh' = FirstFresh - 1
  <2>1. ASSUME NEW j \in 1 .. count - 1 PROVE FirstFresh' <= j <=> FirstFresh <= j + 1
    <3>1. j \in 1 .. count' /\ j + 1 \in 1 .. count /\ Held'[j] = Held[j + 1]
      BY <1>1, <1>6
    <3>2. now' - Held'[j].timestamp <= RetentionMs <=> FirstFresh' <= j
      BY <1>2, <3>1 DEF Splits
    <3>3. now - Held[j + 1].timestamp <= RetentionMs <=> FirstFresh <= j + 1
      BY <1>2, <3>1 DEF Splits
    <3> QED BY <1>1, <3>1, <3>2, <3>3
  <2>2. FirstFresh - 1 \in 1 .. count - 1
    BY <1>3, <1>5
  <2> DEFINE f == FirstFresh  g == FirstFresh'
  <2>3. f \in Int /\ g \in Int
    BY <1>3, <1>5
  <2>4. g <= f - 1 <=> f <= f - 1 + 1
    BY <2>1, <2>2
  <2>5. g <= g <=> f <= g + 1
    BY <1>5, <2>1
  <2> HIDE DEF f, g
  <2>6. g = f - 1
    BY <2>3, <2>4, <2>5
  <2> QED BY <2>6 DEF f, g
<1>8. SubSeq(Held', FirstFresh', count') = SubSeq(Held, FirstFresh, count)
  <2> DEFINE f == FirstFresh  g == FirstFresh'
             a == SubSeq(Held, f, count)  b == SubSeq(Held', g, count')
  <2>1. f \in Int /\ g \in Int /\ count \in Int /\ count' \in Int /\ g = f - 1
        /\ f <= count /\ g <= count' /\ f >= 2
    BY <1>1, <1>3, <1>5, <1>7
  <2>2. \A i \in f .. count : Held[i] \in Packet
    BY <1>2, <1>3, <2>1, ElementOfSeq DEF HeldShape
  <2>3. \A i \in g .. count' : Held'[i] \in Packet
    BY <1>2, <1>3, <2>1, ElementOfSeq DEF HeldShape
  <2> HIDE DEF f, g
  <2>4. a \in Seq(Packet) /\ Len(a) = count - f + 1
        /\ \A i \in 1 .. count - f + 1 : a[i] = Held[f + i - 1]
    BY <2>1, <2>2, SubSeqProperties
  <2>5. b \in Seq(Packet) /\ Len(b) = count' - g + 1
        /\ \A i \in 1 .. count' - g + 1 : b[i] = Held'[g + i - 1]
    BY <2>1, <2>3, SubSeqProperties
  <2> HIDE DEF a, b
  <2>6. count' - g + 1 = count - f + 1
    BY <1>1, <2>1
  <2>7. ASSUME NEW i \in 1 .. count - f + 1 PROVE a[i] = b[i]
    <3>1. g + i - 1 \in 1 .. count - 1 /\ (g + i - 1) + 1 = f + i - 1
      BY <1>1, <1>3, <2>1
    <3>2. Held'[g + i - 1] = Held[f + i - 1]
      BY <1>6, <3>1
    <3> QED BY <2>4, <2>5, <2>6, <3>2
  <2>8. a = b
    BY <2>4, <2>5, <2>6, <2>7, SeqEqual
  <2> QED BY <2>8 DEF a, b, f, g
<1> QED BY <1>1, <1>8 DEF InWindow

(* When the loop stops, nothing the finished loop leaves is still to go.   *)
LEMMA EvictDoneMaps ==
  ASSUME RingInv, InOrder, EvictDone, count > 0
  PROVE  InWindow' = InWindow
<1>1. /\ pc = "evict" /\ pc' = "idle" /\ ~Expired(head)
      /\ UNCHANGED <<head, count, history>>
  BY DEF EvictDone
<1>2. TypeOK /\ HeldShape /\ Splits
  BY <1>1, RingHolds, FreshSplits DEF RingInv, Evicting
<1>3. count \in Nat /\ head \in Slot /\ 1 \in 1 .. count
  BY <1>2 DEF TypeOK
<1>4. SlotOf(1) = head
  BY <1>3, ModOnce, HistoryAssumption DEF SlotOf, Slot
<1>5. FirstFresh = 1
  <2>1. ~(1 < FirstFresh) /\ FirstFresh \in 1 .. count
    BY <1>1, <1>2, <1>3, <1>4 DEF Splits
  <2> QED BY <1>3, <2>1
<1>6. SubSeq(Held, 1, count) = Held
  BY <1>2, SubSeqFull DEF HeldShape
<1>7. Held' = Held
  BY <1>1 DEF Held, SlotOf
<1> QED BY <1>1, <1>5, <1>6, <1>7 DEF InWindow

LEMMA StepMaps ==
  ASSUME IInv, IInv', InOrder', [Next]_vars
  PROVE  [Window!Next]_(Window!vars)
<1>0. RingInv /\ RingInv' /\ EmptyAtStart /\ NewestHeld /\ NewestHeld' /\ EvictingForNewest
  BY DEF IInv, RingInv
<1>1. ASSUME NEW ts \in Time, Save(ts) PROVE Window!Next
  <2>1. count' > 0
    <3>1. allocated' /\ saved' = Append(saved, ts) /\ saved \in Seq(Time)
      BY <1>0, <1>1 DEF Save, Arrives, RingInv, TypeOK
    <3>2. saved' # << >>
      BY <3>1
    <3> QED BY <1>0, <3>1, <3>2 DEF NewestHeld
  <2> QED BY <1>0, <1>1, <2>1, SaveMaps DEF Window!Next
<1>2. ASSUME NEW ts \in Time, SaveWithoutMemory(ts) PROVE Window!Next
  <2>1. /\ ~allocated /\ pc = "idle" /\ saved' = Append(saved, ts) /\ saved \in Seq(Time)
        /\ UNCHANGED <<allocated, head, count, history, pc>>
    BY <1>0, <1>2 DEF SaveWithoutMemory, Arrives, RingInv, TypeOK
  <2>2. Held' = Held
    BY <2>1 DEF Held, SlotOf
  <2>3. Len(saved') = Len(saved) + 1
    BY <2>1
  <2> QED BY <2>1, <2>2, <2>3 DEF Window!Next, Window!Save
<1>3. CASE Evict \/ EvictDone
  <2>1. pc = "evict" /\ saved' = saved /\ allocated' = allocated
    BY <1>3 DEF Evict, EvictDone
  <2>2. allocated /\ saved # << >> /\ InOrder
    BY <1>0, <2>1 DEF EmptyAtStart, EvictingForNewest, InOrder
  <2>3. count > 0 /\ count' > 0
    BY <1>0, <2>1, <2>2 DEF NewestHeld
  <2>4. InWindow' = InWindow
    BY <1>0, <1>3, <2>2, <2>3, EvictMaps, EvictDoneMaps
  <2> QED BY <2>1, <2>4 DEF Window!vars, InWindow
<1>4. CASE UNCHANGED vars
  <2>1. UNCHANGED <<allocated, head, count, history, now, saved, pc>>
    BY <1>4 DEF vars
  <2>2. Held' = Held /\ Fresh' = Fresh
    BY <2>1 DEF Held, SlotOf, Fresh, Expired
  <2>3. FirstFresh' = FirstFresh
    BY <2>2 DEF FirstFresh
  <2> QED BY <2>1, <2>2, <2>3 DEF Window!vars
<1> QED BY <1>1, <1>2, <1>3, <1>4 DEF Next

(* As long as timestamps have come in order the ring, its evictions        *)
(* included, implements the abstract history: after a save exactly the     *)
(* newest MaxHistory packets at most RetentionMs older than it are held.   *)
THEOREM ImplementsWindow == Spec => WindowSpec
<1>1. Init => Window!Init
  <2> SUFFICES ASSUME Init PROVE Window!Init
    OBVIOUS
  <2>1. Held = << >> /\ Len(saved) = 0 /\ pc = "idle"
    BY DEF Init, Held
  <2> QED BY <2>1 DEF Init, Window!Init
<1>2. IInv /\ IInv' /\ [Next]_vars => (InOrder' => [Window!Next]_(Window!vars))
  BY StepMaps
<1> QED BY <1>1, <1>2, AlwaysIInv, PTL DEF Spec, WindowSpec
=============================================================================
