---------------------------- MODULE MonitorServer ----------------------------
(***************************************************************************)
(* The monitoring side of the server (server/monitor_server): the client   *)
(* table, accepting with select, and monitor_send_all, which writes the    *)
(* 4-byte length and the JSON body of a report to every client.  The       *)
(* actions are called from the server's one main loop (RunServer).         *)
(*                                                                         *)
(* A report is the pieces 0, the length, and 1 .. BodyParts, the body.     *)
(* A client, bridge.js, takes the stream apart by the length prefix.       *)
(*                                                                         *)
(* When bind or listen fails monitor_server_init returns before it has     *)
(* marked the entries free: clients[] is then sixteen times descriptor 0,  *)
(* the standard input, until the first report is sent.                     *)
(***************************************************************************)
EXTENDS Integers, FiniteSets

CONSTANTS Clients,      \* connections monitoring programs may make
          MaxClients,   \* MAX_CLIENTS, size of the table (16)
          Empty,        \* the table entry -1
          Stdin,        \* the table entry 0
          BodyParts,    \* pieces in which send copies a body
          SocketRoom    \* pieces a client's socket buffers hold

ASSUME MonitorAssumption ==
  /\ MaxClients \in Nat \ {0} /\ BodyParts \in Nat \ {0} /\ SocketRoom \in Nat \ {0}
  /\ Empty \notin Clients /\ Stdin \notin Clients \cup {Empty}

VARIABLES nonBlocking,  \* do accepted sockets inherit O_NONBLOCK (macOS: yes)
          listening, \* bind and listen have succeeded
          zero,      \* descriptor 0: "input", "free" or "equipment"
          status,    \* server's view: "away", "waiting", "open" or "closed"
          gone,      \* clients that closed their end
          table,     \* clients[]
          unread,    \* pieces in a client's socket buffers
          expects,   \* the piece of a frame the client expects next
          garbled,   \* clients whose stream fell out of frame
          due,       \* a second has passed since the last report was begun
          slot,      \* i of monitor_send_all, the entry being served
          part,      \* next piece for it
          sending    \* inside monitor_send_all

monVars == <<nonBlocking, listening, zero, status, gone, table, unread, expects, garbled,
             due, slot, part, sending>>
hostVars == <<nonBlocking, listening, zero>>
clientVars == <<hostVars, status, gone, table>>
streamVars == <<unread, expects, garbled>>

Slots == 1 .. MaxClients

MonTypeOK ==
  /\ nonBlocking \in BOOLEAN /\ listening \in BOOLEAN
  /\ zero \in {"input", "free", "equipment"}
  /\ status \in [Clients -> {"away", "waiting", "open", "closed"}]
  /\ gone \subseteq Clients
  /\ table \in [Slots -> Clients \cup {Empty, Stdin}]
  /\ unread \in [Clients -> 0 .. SocketRoom]
  /\ expects \in [Clients -> 0 .. BodyParts]
  /\ garbled \subseteq Clients
  /\ due \in BOOLEAN
  /\ slot \in 1 .. MaxClients + 1 /\ part \in 0 .. BodyParts
  /\ sending \in BOOLEAN

(* monitor_server_init marks every entry free, or has failed before; the   *)
(* platform decides nonBlocking.                                           *)
MonInit ==
  /\ nonBlocking \in BOOLEAN /\ listening \in BOOLEAN /\ zero = "input"
  /\ status = [c \in Clients |-> "away"]
  /\ gone = {}
  /\ table = [i \in Slots |-> IF listening THEN Empty ELSE Stdin]
  /\ unread = [c \in Clients |-> 0]
  /\ expects = [c \in Clients |-> 0]
  /\ garbled = {}
  /\ due = TRUE
  /\ slot = 1 /\ part = 0 /\ sending = FALSE

-----------------------------------------------------------------------------
(* The monitoring programs.                                                *)
Connect(c) ==
  /\ listening /\ status[c] = "away"
  /\ status' = [status EXCEPT ![c] = "waiting"]
  /\ UNCHANGED <<hostVars, gone, table, streamVars, due, slot, part, sending>>

Leave(c) ==
  /\ status[c] \in {"waiting", "open"} /\ c \notin gone
  /\ gone' = gone \cup {c}
  /\ UNCHANGED <<hostVars, status, table, streamVars, due, slot, part, sending>>

Read(c) ==
  /\ c \notin gone /\ unread[c] > 0
  /\ unread' = [unread EXCEPT ![c] = unread[c] - 1]
  /\ UNCHANGED <<clientVars, expects, garbled, due, slot, part, sending>>

(* CLOCK_MONOTONIC reaches last_send_time + 1000.                          *)
SecondPasses ==
  /\ ~due /\ due' = TRUE
  /\ UNCHANGED <<clientVars, streamVars, slot, part, sending>>

(* accept gives the equipment the lowest free descriptor; it is closed     *)
(* when the equipment has left.  Both happen between reports.              *)
TakeZero ==
  /\ ~sending /\ zero = "free" /\ zero' = "equipment"
  /\ UNCHANGED <<nonBlocking, listening, status, gone, table, streamVars, due, slot, part, sending>>

ReleaseZero ==
  /\ ~sending /\ zero = "equipment" /\ zero' = "free"
  /\ UNCHANGED <<nonBlocking, listening, status, gone, table, streamVars, due, slot, part, sending>>

-----------------------------------------------------------------------------
(* monitor_accept_clients: one connection of the backlog goes to the first *)
(* free entry, or is closed when there is none.  Without a listening       *)
(* socket accept fails and nothing else happens.                           *)
FreeSlots == {i \in Slots : table[i] = Empty}
FirstFree == CHOOSE i \in FreeSlots : \A j \in FreeSlots : i <= j

AcceptInto(c) ==
  IF FreeSlots = {}
  THEN /\ status' = [status EXCEPT ![c] = "closed"]
       /\ UNCHANGED table
  ELSE /\ status' = [status EXCEPT ![c] = "open"]
       /\ table' = [table EXCEPT ![FirstFree] = c]

Backlog == {c \in Clients : status[c] = "waiting"}

MonitorAcceptClients ==
  /\ \/ \E c \in Backlog : AcceptInto(c)
     \/ Backlog = {} /\ UNCHANGED <<status, table>>
  /\ UNCHANGED <<hostVars, gone, streamVars, due, slot, part, sending>>

(* monitor_periodic_task: when a second has passed build_periodic_json     *)
(* makes a report (SensorRegistry), then monitor_send_all starts with the  *)
(* first entry.                                                            *)
MonitorPeriodicTask ==
  IF due
  THEN /\ due' = FALSE
       /\ slot' = 1 /\ part' = 0 /\ sending' = TRUE
       /\ UNCHANGED <<clientVars, streamVars>>
  ELSE UNCHANGED monVars

-----------------------------------------------------------------------------
(* monitor_send_all, one step per entry or per piece sent.                 *)
NextSlot == slot' = slot + 1 /\ part' = 0 /\ UNCHANGED sending
OneSendOnly == part = 0
MoreToSend == part < BodyParts
NextPiece ==
  IF MoreToSend THEN part' = part + 1 /\ UNCHANGED <<slot, sending>> ELSE NextSlot

SkipEmpty ==
  /\ sending /\ slot <= MaxClients /\ table[slot] = Empty
  /\ NextSlot
  /\ UNCHANGED <<clientVars, streamVars, due>>

(* The client's framing takes part as the next piece of a frame, or it is  *)
(* lost for good.                                                          *)
Fits(c) == c \notin garbled /\ part = expects[c]
Framing(c) ==
  IF Fits(c)
  THEN /\ expects' = [expects EXCEPT ![c] = (part + 1) % (BodyParts + 1)]
       /\ UNCHANGED garbled
  ELSE /\ garbled' = garbled \cup {c}
       /\ expects' = [expects EXCEPT ![c] = 0]

SendPiece ==
  /\ sending /\ slot <= MaxClients
  /\ \E c \in Clients \ gone :
       /\ table[slot] = c /\ unread[c] < SocketRoom
       /\ unread' = [unread EXCEPT ![c] = unread[c] + 1]
       /\ Framing(c)
  /\ NextPiece
  /\ UNCHANGED <<clientVars, due>>

(* send to a client that is gone: the first may still succeed, a later one *)
(* fails, and the entry is closed and freed.                               *)
KeepEntry(i) == table
FreeEntry(i) == [table EXCEPT ![i] = Empty]

SendIntoVoid ==
  /\ sending /\ slot <= MaxClients /\ table[slot] \in gone
  /\ NextPiece
  /\ UNCHANGED <<clientVars, streamVars, due>>

SendError ==
  /\ sending /\ slot <= MaxClients
  /\ \E c \in gone :
       /\ table[slot] = c
       /\ status' = [status EXCEPT ![c] = "closed"]
       /\ table' = FreeEntry(slot)
  /\ NextSlot
  /\ UNCHANGED <<hostVars, gone, streamVars, due>>

(* After a failed bind: descriptor 0 is no socket, or by now closed.       *)
SendToStdin ==
  /\ sending /\ slot <= MaxClients /\ table[slot] = Stdin
  /\ table' = FreeEntry(slot)
  /\ zero' = IF zero = "input" THEN "free" ELSE zero
  /\ NextSlot
  /\ UNCHANGED <<nonBlocking, listening, status, gone, streamVars, due>>

(* EAGAIN on a non-blocking socket: break leaves the loop that sends the   *)
(* length, and the body is sent all the same; or the one that sends the    *)
(* body, and the rest of it is dropped.                                    *)
SendWouldBlock ==
  /\ nonBlocking /\ sending /\ slot <= MaxClients
  /\ \E c \in Clients \ gone : table[slot] = c /\ unread[c] = SocketRoom
  /\ IF part = 0 THEN part' = 1 /\ UNCHANGED <<slot, sending>> ELSE NextSlot
  /\ UNCHANGED <<clientVars, streamVars, due>>

SendAllDone ==
  /\ sending /\ slot > MaxClients
  /\ sending' = FALSE
  /\ UNCHANGED <<clientVars, streamVars, due, slot, part>>

SendNothing ==
  SkipEmpty \/ SendIntoVoid \/ SendError \/ SendToStdin \/ SendWouldBlock \/ SendAllDone
SendStep == SendPiece \/ SendNothing

ClientStep == \E c \in Clients : Connect(c) \/ Leave(c) \/ Read(c)
MonEnvironment == ClientStep \/ SecondPasses \/ TakeZero \/ ReleaseZero

(* By itself: the calls of the main loop in any order.                     *)
MonNext ==
  \/ MonEnvironment
  \/ ~sending /\ (MonitorAcceptClients \/ MonitorPeriodicTask)
  \/ SendStep

MonSpec == MonInit /\ [][MonNext]_monVars

-----------------------------------------------------------------------------
(* Where accepted sockets block, the stream of every client is a sequence  *)
(* of whole reports, each with its length in front (README.md:353),        *)
(* however slowly the client reads and whichever clients come and go: its  *)
(* framing never loses step.  (It does where they inherit O_NONBLOCK:      *)
(* SendWouldBlock.)                                                        *)
FramesWhole == ~nonBlocking => garbled = {}

(* The table and the sockets agree: the open connections are exactly those *)
(* in the table, each in one entry, so no descriptor leaks and none is     *)
(* used after close.                                                       *)
TableMatchesSockets ==
  /\ {table[i] : i \in Slots} \ {Empty, Stdin} = {c \in Clients : status[c] = "open"}
  /\ \A i, j \in Slots : table[i] = table[j] /\ table[i] \in Clients => i = j

(* Where bind failed, the first report closes descriptor 0 and frees every *)
(* entry before the equipment can be given that descriptor: no report is   *)
(* ever written into the equipment's connection, nor is it closed for a    *)
(* client that never was (monitor_server.c:27-40, 133-137).                *)
EquipmentUntouched ==
  sending /\ slot \in Slots /\ table[slot] = Stdin => zero # "equipment"
=============================================================================
