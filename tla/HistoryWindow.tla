---------------------------- MODULE HistoryWindow ----------------------------
(***************************************************************************)
(* What history_storage.c promises: the history is, after every packet,    *)
(* exactly those of the newest MaxHistory packets that are at most         *)
(* RetentionMs older than the packet just saved, in order of arrival.      *)
(***************************************************************************)
EXTENDS Integers, Sequences

CONSTANTS MaxHistory, RetentionMs,
          Times         \* the timestamps a packet may carry

VARIABLES allocated,    \* did init_storage get its memory
          total,        \* packets saved so far
          window        \* the packets held, oldest first

vars == <<allocated, total, window>>

Init ==
  /\ allocated \in BOOLEAN
  /\ total = 0
  /\ window = << >>

Newest(s) == IF Len(s) > MaxHistory THEN Tail(s) ELSE s

(* Those of s that are at most RetentionMs older than ts.                  *)
Recent(s, ts) ==
  LET kept[i \in 0 .. Len(s)] ==
        IF i = 0 THEN << >>
        ELSE IF ts - s[i].timestamp <= RetentionMs THEN Append(kept[i - 1], s[i]) ELSE kept[i - 1]
  IN  kept[Len(s)]

Save(ts) ==
  /\ total' = total + 1
  /\ window' =
       IF allocated
       THEN Recent(Newest(Append(window, [n |-> total + 1, timestamp |-> ts])), ts)
       ELSE window
  /\ UNCHANGED allocated

Next == \E ts \in Times : Save(ts)

Spec == Init /\ [][Next]_vars
=============================================================================
