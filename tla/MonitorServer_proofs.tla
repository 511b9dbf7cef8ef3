------------------------ MODULE MonitorServer_proofs ------------------------
(***************************************************************************)
(* The monitoring side, for any number of clients, any table, any length   *)
(* of a report and any room in the sockets, and for both of its users.     *)
(* Alone: the table is what is open, a report never runs into descriptor   *)
(* 0, and frames stay whole.  In the server's main loop (RunServer): the   *)
(* loop uses it as MonitorServer assumes, and stops only when told.  Under *)
(* the reports (ReportDelivery): who gets an anomaly.                      *)
(***************************************************************************)
EXTENDS RunServer, ReportDelivery, WellFoundedInduction, TLAPS

(* The first free entry exists: a set of numbers has a smallest one.       *)
LEMMA FirstFreeIsFree == FreeSlots # {} => FirstFree \in FreeSlots
<1> SUFFICES ASSUME FreeSlots # {} PROVE FirstFree \in FreeSlots
  OBVIOUS
<1>1. FreeSlots \subseteq Nat
  BY MonitorAssumption DEF FreeSlots, Slots
<1>2. PICK i \in FreeSlots : \A j \in FreeSlots : ~ (<<j, i>> \in OpToRel(<, Nat))
  BY <1>1, WFMin, NatLessThanWellFounded
<1>3. ASSUME NEW j \in FreeSlots PROVE i <= j
  <2>1. i \in Nat /\ j \in Nat
    BY <1>1
  <2>2. <<j, i>> \in Nat \X Nat /\ ~ (<<j, i>> \in OpToRel(<, Nat))
    BY <1>2, <2>1
  <2>3. ~ (j < i)
    BY <2>1, <2>2, Zenon DEF OpToRel
  <2> QED BY <2>1, <2>3
<1> QED BY <1>3 DEF FirstFree

(* The piece that follows in the client's framing.                         *)
LEMMA ModUnique ==
  ASSUME NEW p \in Nat \ {0}, NEW q \in Nat, NEW r \in 0 .. p - 1,
         NEW n \in Nat, n = (p * q) + r
  PROVE  n % p = r
BY Z3

LEMMA NextPart ==
  ASSUME NEW p \in 0 .. BodyParts
  PROVE  (p + 1) % (BodyParts + 1) = IF p < BodyParts THEN p + 1 ELSE 0
<1> DEFINE frame == BodyParts + 1
<1>1. frame \in Nat \ {0} /\ p + 1 \in Nat /\ 0 \in 0 .. frame - 1
  BY MonitorAssumption
<1>2. CASE p < BodyParts
  <2>1. p + 1 \in 0 .. frame - 1 /\ p + 1 = (frame * 0) + (p + 1)
    BY <1>2, MonitorAssumption
  <2> QED BY <1>1, <1>2, <2>1, ModUnique
<1>3. CASE ~ (p < BodyParts)
  <2>1. p + 1 = (frame * 1) + 0
    BY <1>3, MonitorAssumption
  <2>2. \A n \in Nat : n = (frame * 1) + 0 => n % frame = 0
    BY <1>1, ModUnique
  <2> HIDE DEF frame
  <2>3. (p + 1) % frame = 0
    BY <1>1, <2>1, <2>2
  <2> QED BY <1>3, <2>3 DEF frame
<1> QED BY <1>2, <1>3

LEMMA MonTypeInit == MonInit => MonTypeOK
<1> SUFFICES ASSUME MonInit PROVE MonTypeOK
  OBVIOUS
<1>1. table \in [Slots -> Clients \cup {Empty, Stdin}]
  BY DEF MonInit
<1>2. slot \in 1 .. MaxClients + 1 /\ part \in 0 .. BodyParts
  BY MonitorAssumption DEF MonInit
<1>3. unread \in [Clients -> 0 .. SocketRoom] /\ expects \in [Clients -> 0 .. BodyParts]
  BY MonitorAssumption DEF MonInit
<1> QED BY <1>1, <1>2, <1>3 DEF MonInit, MonTypeOK

LEMMA MonTypeStep == MonTypeOK /\ [MonNext]_monVars => MonTypeOK'
<1> SUFFICES ASSUME MonTypeOK, [MonNext]_monVars PROVE MonTypeOK'
  OBVIOUS
<1> USE MonitorAssumption DEF MonTypeOK, Slots, hostVars, clientVars, streamVars
<1>0. ASSUME NextSlot \/ NextPiece, slot <= MaxClients
      PROVE  slot' \in 1 .. MaxClients + 1 /\ part' \in 0 .. BodyParts /\ sending' \in BOOLEAN
  <2>1. slot' \in {slot, slot + 1} /\ part' \in {0, part + 1} /\ (part' = 0 \/ part < BodyParts)
    BY <1>0 DEF NextSlot, NextPiece, MoreToSend
  <2>2. sending' = sending
    BY <1>0 DEF NextSlot, NextPiece
  <2>3. slot' \in 1 .. MaxClients + 1 /\ part' \in 0 .. BodyParts
    BY <1>0, <2>1
  <2> QED BY <2>2, <2>3
<1>1. ASSUME NEW c \in Clients, Connect(c) PROVE MonTypeOK'
  BY <1>1 DEF Connect
<1>2. ASSUME NEW c \in Clients, Leave(c) PROVE MonTypeOK'
  BY <1>2 DEF Leave
<1>3. ASSUME NEW c \in Clients, Read(c) PROVE MonTypeOK'
  BY <1>3 DEF Read
<1>4. CASE SecondPasses \/ TakeZero \/ ReleaseZero
  BY <1>4 DEF SecondPasses, TakeZero, ReleaseZero
<1>5. CASE MonitorAcceptClients
  <2>1. ASSUME NEW c \in Clients, AcceptInto(c)
        PROVE  status' \in [Clients -> {"away", "waiting", "open", "closed"}]
               /\ table' \in [Slots -> Clients \cup {Empty, Stdin}]
    BY <2>1, FirstFreeIsFree DEF AcceptInto
  <2> QED BY <1>5, <2>1 DEF MonitorAcceptClients, Backlog
<1>6. CASE MonitorPeriodicTask
  <2>1. CASE due
    <3>1. slot' = 1 /\ part' = 0 /\ sending' = TRUE /\ due' = FALSE
           /\ UNCHANGED <<clientVars, streamVars>>
      BY <1>6, <2>1 DEF MonitorPeriodicTask
    <3>2. slot' \in 1 .. MaxClients + 1 /\ part' \in 0 .. BodyParts
      BY <3>1
    <3> QED BY <3>1, <3>2
  <2>2. CASE ~due
    BY <1>6, <2>2 DEF MonitorPeriodicTask, monVars
  <2> QED BY <2>1, <2>2
<1>7. CASE SendPiece
  <2>1. PICK c \in Clients : unread[c] < SocketRoom /\ unread' = [unread EXCEPT ![c] = unread[c] + 1]
                              /\ Framing(c)
    BY <1>7 DEF SendPiece
  <2>2. unread' \in [Clients -> 0 .. SocketRoom]
    BY <2>1
  <2>3. (part + 1) % (BodyParts + 1) \in 0 .. BodyParts
    BY NextPart
  <2>4. expects' \in [Clients -> 0 .. BodyParts] /\ garbled' \subseteq Clients
    BY <2>1, <2>3 DEF Framing
  <2>5. slot' \in 1 .. MaxClients + 1 /\ part' \in 0 .. BodyParts /\ sending' \in BOOLEAN
    BY <1>0, <1>7 DEF SendPiece
  <2> QED BY <1>7, <2>2, <2>4, <2>5 DEF SendPiece
<1>8. CASE SendNothing
  <2>2. CASE SkipEmpty
    BY <1>0, <2>2 DEF SkipEmpty
  <2>3. CASE SendIntoVoid
    BY <1>0, <2>3 DEF SendIntoVoid
  <2>4. CASE SendError
    BY <1>0, <2>4 DEF SendError, FreeEntry
  <2>5. CASE SendToStdin
    BY <1>0, <2>5 DEF SendToStdin, FreeEntry
  <2>6. CASE SendWouldBlock
    <3>1. slot' \in 1 .. MaxClients + 1 /\ part' \in 0 .. BodyParts /\ sending' \in BOOLEAN
      <4>1. CASE part = 0
        <5>1. part' = 1 /\ slot' = slot /\ sending' = sending
          BY <2>6, <4>1 DEF SendWouldBlock
        <5>2. 1 \in 0 .. BodyParts
          OBVIOUS
        <5> QED BY <5>1, <5>2
      <4>2. CASE part # 0
        BY <1>0, <2>6, <4>2 DEF SendWouldBlock
      <4> QED BY <4>1, <4>2
    <3> QED BY <2>6, <3>1 DEF SendWouldBlock
  <2>7. CASE SendAllDone
    BY <2>7 DEF SendAllDone
  <2> QED BY <1>8, <2>2, <2>3, <2>4, <2>5, <2>6, <2>7 DEF SendNothing
<1>9. CASE UNCHANGED monVars
  BY <1>9 DEF monVars
<1> QED BY <1>1, <1>2, <1>3, <1>4, <1>5, <1>6, <1>7, <1>8, <1>9
     DEF MonNext, MonEnvironment, ClientStep, SendStep

-----------------------------------------------------------------------------
(* The table and the sockets, client by client.                            *)
OpenIffInTable == \A c \in Clients : status[c] = "open" <=> InTable(c)
OneEntryEach == \A i, j \in Slots : table[i] = table[j] /\ table[i] \in Clients => i = j
TableInv == OpenIffInTable /\ OneEntryEach

LEMMA ByClient == ASSUME MonTypeOK PROVE TableInv <=> TableMatchesSockets
<1>1. \A x \in {table[i] : i \in Slots} \ {Empty, Stdin} : x \in Clients
  BY DEF MonTypeOK
<1>2. \A c \in Clients : c \notin {Empty, Stdin}
  BY MonitorAssumption
<1> QED BY <1>1, <1>2 DEF TableInv, OpenIffInTable, OneEntryEach, InTable, TableMatchesSockets

LEMMA TableInit == MonInit => TableInv
<1> SUFFICES ASSUME MonInit PROVE TableInv
  OBVIOUS
<1>1. \A i \in Slots : table[i] \in {Empty, Stdin}
  BY DEF MonInit
<1>2. \A c \in Clients : status[c] = "away" /\ c \notin {Empty, Stdin}
  BY MonitorAssumption DEF MonInit
<1> QED BY <1>1, <1>2 DEF TableInv, OpenIffInTable, OneEntryEach, InTable

LEMMA AcceptKeepsTable ==
  ASSUME MonTypeOK, TableInv, MonitorAcceptClients
  PROVE  TableInv'
<1> USE DEF TableInv, OpenIffInTable, OneEntryEach, InTable
<1>1. CASE UNCHANGED <<status, table>>
  BY <1>1 DEF Slots
<1>2. ASSUME NEW c \in Backlog, AcceptInto(c), FreeSlots = {} PROVE TableInv'
  <2>1. status[c] = "waiting" /\ c \in Clients
    BY DEF Backlog
  <2>2. status' = [status EXCEPT ![c] = "closed"] /\ table' = table
    BY <1>2 DEF AcceptInto
  <2>3. \A d \in Clients : status'[d] = "open" <=> status[d] = "open"
    BY <2>1, <2>2 DEF MonTypeOK
  <2> QED BY <2>2, <2>3 DEF Slots
<1>3. ASSUME NEW c \in Backlog, AcceptInto(c), FreeSlots # {} PROVE TableInv'
  <2>1. status[c] = "waiting" /\ c \in Clients
    BY DEF Backlog
  <2>2. PICK k \in Slots : table[k] = Empty /\ table' = [table EXCEPT ![k] = c]
                          /\ status' = [status EXCEPT ![c] = "open"]
    BY <1>3, FirstFreeIsFree DEF AcceptInto, FreeSlots
  <2>3. \A i \in Slots : table'[i] = IF i = k THEN c ELSE table[i]
    BY <2>2 DEF MonTypeOK
  <2>4. \A d \in Clients : status'[d] = IF d = c THEN "open" ELSE status[d]
    BY <2>1, <2>2 DEF MonTypeOK
  <2>5. \A i \in Slots : table[i] # c
    BY <2>1
  <2>6. Empty \notin Clients
    BY MonitorAssumption
  <2>7. OpenIffInTable'
    <3> SUFFICES ASSUME NEW d \in Clients PROVE status'[d] = "open" <=> \E i \in Slots : table'[i] = d
      BY DEF Slots
    <3>1. CASE d = c
      BY <2>2, <2>3, <2>4, <3>1
    <3>2. CASE d # c
      BY <2>2, <2>3, <2>4, <2>6, <3>2
    <3> QED BY <3>1, <3>2
  <2>8. OneEntryEach'
    BY <2>3, <2>5 DEF Slots
  <2> QED BY <2>7, <2>8
<1> QED BY <1>1, <1>2, <1>3 DEF MonitorAcceptClients

LEMMA FreeingKeepsTable ==
  ASSUME MonTypeOK, TableInv, slot \in Slots, SendError \/ SendToStdin
  PROVE  TableInv'
<1> USE DEF TableInv, OpenIffInTable, OneEntryEach, InTable
<1>1. table' = [table EXCEPT ![slot] = Empty] /\ Empty \notin Clients /\ Stdin \notin Clients
  BY MonitorAssumption DEF SendError, SendToStdin, FreeEntry
<1>2. \A i \in Slots : table'[i] = IF i = slot THEN Empty ELSE table[i]
  BY <1>1 DEF MonTypeOK
<1>3. OneEntryEach'
  BY <1>1, <1>2 DEF Slots
<1>4. CASE SendError
  <2>1. PICK c \in gone : table[slot] = c /\ status' = [status EXCEPT ![c] = "closed"]
    BY <1>4 DEF SendError
  <2>2. c \in Clients
    BY DEF MonTypeOK
  <2>3. \A d \in Clients : status'[d] = IF d = c THEN "closed" ELSE status[d]
    BY <2>1, <2>2 DEF MonTypeOK
  <2>4. \A d \in Clients : status'[d] = "open" <=> \E i \in Slots : table'[i] = d
    BY <1>1, <1>2, <2>1, <2>2, <2>3
  <2> QED BY <1>3, <2>4 DEF Slots
<1>5. CASE SendToStdin
  <2>1. table[slot] = Stdin /\ status' = status
    BY <1>5 DEF SendToStdin
  <2>2. \A d \in Clients : status'[d] = "open" <=> \E i \in Slots : table'[i] = d
    BY <1>1, <1>2, <2>1
  <2> QED BY <1>3, <2>2 DEF Slots
<1> QED BY <1>4, <1>5

LEMMA TableStep == MonTypeOK /\ TableInv /\ [MonNext]_monVars => TableInv'
<1> SUFFICES ASSUME MonTypeOK, TableInv, [MonNext]_monVars PROVE TableInv'
  OBVIOUS
<1>1. CASE UNCHANGED <<status, table>>
  BY <1>1 DEF TableInv, OpenIffInTable, OneEntryEach, InTable, Slots
<1>2. ASSUME NEW c \in Clients, Connect(c) PROVE TableInv'
  <2>1. \A d \in Clients : status'[d] = "open" <=> status[d] = "open"
    BY <1>2 DEF Connect, MonTypeOK
  <2> QED BY <1>2, <2>1 DEF Connect, TableInv, OpenIffInTable, OneEntryEach, InTable, Slots
<1>3. CASE MonitorAcceptClients
  BY <1>3, AcceptKeepsTable
<1>4. CASE SendError \/ SendToStdin
  <2>1. slot \in Slots
    BY <1>4, MonitorAssumption DEF SendError, SendToStdin, MonTypeOK, Slots
  <2> QED BY <1>4, <2>1, FreeingKeepsTable
<1> QED BY <1>1, <1>2, <1>3, <1>4
     DEF MonNext, MonEnvironment, ClientStep, SendStep, SendNothing, Leave, Read, SecondPasses,
         TakeZero, ReleaseZero, MonitorPeriodicTask, SendPiece, SkipEmpty, SendIntoVoid,
         SendWouldBlock, SendAllDone, hostVars, clientVars, monVars

-----------------------------------------------------------------------------
(* Descriptor 0.  Between two reports it is the input, or no entry is 0 any *)
(* more; during one the walk has freed the entries it has passed, and the  *)
(* equipment is not given the descriptor.                                  *)
ZeroInv ==
  /\ ~sending => zero = "input" \/ \A i \in Slots : table[i] # Stdin
  /\ sending => \A i \in Slots : table[i] = Stdin => i >= slot /\ zero # "equipment"

LEMMA ZeroStep == MonTypeOK /\ ZeroInv /\ [MonNext]_monVars => ZeroInv'
<1> SUFFICES ASSUME MonTypeOK, ZeroInv, [MonNext]_monVars PROVE ZeroInv'
  OBVIOUS
<1> USE DEF ZeroInv
<1>1. CASE UNCHANGED <<zero, table, slot, sending>>
  BY <1>1 DEF Slots
<1>2. CASE TakeZero \/ ReleaseZero
  BY <1>2 DEF TakeZero, ReleaseZero, Slots
<1>3. CASE MonitorAcceptClients /\ ~sending
  <2>1. ASSUME NEW c \in Backlog, AcceptInto(c)
        PROVE  \A i \in Slots : table'[i] = Stdin => table[i] = Stdin
    <3>1. c # Stdin
      BY MonitorAssumption DEF Backlog
    <3> QED BY <2>1, <3>1, FirstFreeIsFree DEF AcceptInto, MonTypeOK, FreeSlots
  <2>2. \A i \in Slots : table'[i] = Stdin => table[i] = Stdin
    BY <1>3, <2>1 DEF MonitorAcceptClients
  <2>3. zero' = zero /\ sending' = sending
    BY <1>3 DEF MonitorAcceptClients, hostVars
  <2> QED BY <1>3, <2>2, <2>3 DEF Slots
<1>4. CASE MonitorPeriodicTask /\ ~sending
  <2>1. CASE due
    <3>1. slot' = 1 /\ table' = table /\ zero' = zero /\ sending'
      BY <1>4, <2>1 DEF MonitorPeriodicTask, clientVars, hostVars
    <3>2. \A i \in Slots : i >= 1
      BY MonitorAssumption DEF Slots
    <3> QED BY <1>4, <3>1, <3>2 DEF Slots
  <2>2. CASE ~due
    BY <1>1, <1>4, <2>2 DEF MonitorPeriodicTask, monVars
  <2> QED BY <2>1, <2>2
<1>5. ASSUME sending, sending', zero' = zero, table' = table, slot \in Slots, table[slot] # Stdin,
             slot' \in {slot, slot + 1}
      PROVE  ZeroInv'
  BY <1>5, MonitorAssumption DEF Slots
<1>6. CASE SendError \/ SendToStdin
  <2>1. sending /\ sending' /\ slot \in Slots /\ slot' = slot + 1
    BY <1>6, MonitorAssumption DEF SendError, SendToStdin, NextSlot, MonTypeOK, Slots
  <2>2. table' = [table EXCEPT ![slot] = Empty] /\ Empty # Stdin
    BY <1>6, MonitorAssumption DEF SendError, SendToStdin, FreeEntry
  <2>3. \A i \in Slots : table'[i] = Stdin => table[i] = Stdin /\ i # slot
    BY <2>2 DEF MonTypeOK
  <2>4. zero' \in {zero, "free"}
    BY <1>6 DEF SendError, SendToStdin, hostVars
  <2> QED BY <2>1, <2>3, <2>4, MonitorAssumption DEF Slots
<1>7. CASE SendAllDone
  <2>1. sending /\ slot > MaxClients /\ ~sending' /\ zero' = zero /\ table' = table
    BY <1>7 DEF SendAllDone, clientVars, hostVars
  <2>2. \A i \in Slots : ~ (i >= slot)
    BY <2>1, MonitorAssumption DEF Slots, MonTypeOK
  <2> QED BY <2>1, <2>2 DEF Slots
<1>8. CASE SendPiece \/ SkipEmpty \/ SendIntoVoid \/ SendWouldBlock
  <2>1. sending /\ slot \in Slots
    BY <1>8, MonitorAssumption
       DEF SendPiece, SkipEmpty, SendIntoVoid, SendWouldBlock, MonTypeOK, Slots
  <2>2. table[slot] # Stdin
    BY <1>8, MonitorAssumption
       DEF SendPiece, SkipEmpty, SendIntoVoid, SendWouldBlock, MonTypeOK
  <2>3. zero' = zero /\ table' = table
    BY <1>8 DEF SendPiece, SkipEmpty, SendIntoVoid, SendWouldBlock, clientVars, hostVars
  <2>4. sending' /\ slot' \in {slot, slot + 1}
    BY <1>8, <2>1 DEF SendPiece, SkipEmpty, SendIntoVoid, SendWouldBlock, NextPiece, NextSlot
  <2> QED BY <1>5, <2>1, <2>2, <2>3, <2>4
<1> QED BY <1>1, <1>2, <1>3, <1>4, <1>6, <1>7, <1>8
     DEF MonNext, MonEnvironment, ClientStep, SendStep, SendNothing, Connect, Leave, Read,
         SecondPasses, hostVars, clientVars, monVars

LEMMA ZeroInit == MonInit => ZeroInv
BY DEF MonInit, ZeroInv

-----------------------------------------------------------------------------
(* Frames.  Over blocking sockets a client that has not left is between    *)
(* two frames, or it is the one being served and expects the next piece.   *)
Served(c) == sending /\ slot \in Slots /\ table[slot] = c
FrameInv ==
  ~nonBlocking =>
    /\ garbled = {}
    /\ \A c \in Clients \ gone : expects[c] = IF Served(c) THEN part ELSE 0

LEMMA FrameInit == MonInit => FrameInv
BY DEF MonInit, FrameInv, Served

LEMMA PieceKeepsFrames ==
  ASSUME MonTypeOK, FrameInv, ~nonBlocking, SendPiece
  PROVE  FrameInv'
<1>1. PICK c \in Clients \ gone : table[slot] = c /\ Framing(c)
  BY DEF SendPiece
<1>2. sending /\ slot \in Slots /\ table' = table /\ gone' = gone
  BY MonitorAssumption DEF SendPiece, MonTypeOK, Slots, clientVars
<1>3. Fits(c)
  BY <1>1, <1>2 DEF FrameInv, Served, Fits
<1>4. garbled' = {}
  BY <1>1, <1>3 DEF Framing, FrameInv
<1>5. expects' = [expects EXCEPT ![c] = IF part < BodyParts THEN part + 1 ELSE 0]
  BY <1>1, <1>3, NextPart DEF Framing, MonTypeOK
<1>6. \A d \in Clients \ gone : expects'[d] = IF d = c /\ part < BodyParts THEN part + 1 ELSE 0
  BY <1>1, <1>2, <1>5 DEF FrameInv, Served, MonTypeOK
<1>7. CASE part < BodyParts
  <2>1. part' = part + 1 /\ slot' = slot /\ sending' = sending
    BY <1>7 DEF SendPiece, NextPiece, MoreToSend
  <2>2. \A d \in Clients \ gone' : expects'[d] = IF Served(d)' THEN part' ELSE 0
    BY <1>1, <1>2, <1>6, <1>7, <2>1 DEF Served, Slots
  <2> QED BY <1>4, <2>2 DEF FrameInv
<1>8. CASE ~ (part < BodyParts)
  <2>1. part' = 0
    BY <1>8 DEF SendPiece, NextPiece, NextSlot, MoreToSend
  <2>2. \A d \in Clients \ gone' : expects'[d] = IF Served(d)' THEN part' ELSE 0
    BY <1>2, <1>6, <1>8, <2>1
  <2> QED BY <1>4, <2>2 DEF FrameInv
<1> QED BY <1>7, <1>8

LEMMA FrameStep == MonTypeOK /\ FrameInv /\ [MonNext]_monVars => FrameInv'
<1> SUFFICES ASSUME MonTypeOK, FrameInv, [MonNext]_monVars, ~nonBlocking' PROVE FrameInv'
  BY DEF FrameInv
<1>1. nonBlocking' = nonBlocking
  BY DEF MonNext, MonEnvironment, ClientStep, Connect, Leave, Read, SecondPasses, TakeZero,
         ReleaseZero, MonitorAcceptClients, MonitorPeriodicTask, SendStep, SendPiece, SendNothing,
         SkipEmpty, SendIntoVoid, SendError, SendToStdin, SendWouldBlock, SendAllDone,
         hostVars, clientVars, monVars
<1>2. garbled = {} /\ \A c \in Clients \ gone : expects[c] = IF Served(c) THEN part ELSE 0
  BY <1>1 DEF FrameInv
<1>3. ASSUME garbled' = garbled, expects' = expects, gone \subseteq gone',
             \A c \in Clients \ gone : (IF Served(c) THEN part ELSE 0) = (IF Served(c)' THEN part' ELSE 0)
      PROVE  FrameInv'
  BY <1>2, <1>3 DEF FrameInv
<1>4. CASE UNCHANGED <<garbled, expects, table, slot, part, sending>> /\ gone \subseteq gone'
  BY <1>3, <1>4 DEF Served, Slots
<1>5. CASE MonitorAcceptClients /\ ~sending
  <2>1. garbled' = garbled /\ expects' = expects /\ gone' = gone /\ ~sending'
    BY <1>5 DEF MonitorAcceptClients, streamVars
  <2> QED BY <1>3, <1>5, <2>1 DEF Served
<1>6. CASE MonitorPeriodicTask /\ ~sending
  <2>1. CASE due
    <3>1. garbled' = garbled /\ expects' = expects /\ gone' = gone /\ part' = 0
      BY <1>6, <2>1 DEF MonitorPeriodicTask, clientVars, streamVars
    <3> QED BY <1>3, <1>6, <3>1 DEF Served
  <2>2. CASE ~due
    BY <1>4, <1>6, <2>2 DEF MonitorPeriodicTask, monVars
  <2> QED BY <2>1, <2>2
<1>7. CASE SendPiece
  BY <1>1, <1>7, PieceKeepsFrames
<1>8. CASE SkipEmpty \/ SendIntoVoid \/ SendError \/ SendToStdin
  <2>1. garbled' = garbled /\ expects' = expects /\ gone' = gone
    BY <1>8 DEF SkipEmpty, SendIntoVoid, SendError, SendToStdin, clientVars, streamVars
  <2>2. \A c \in Clients \ gone : table[slot] # c
    BY <1>8, MonitorAssumption DEF SkipEmpty, SendIntoVoid, SendError, SendToStdin, MonTypeOK
  <2>3. part' = 0 \/ (table' = table /\ slot' = slot)
    BY <1>8 DEF SkipEmpty, SendIntoVoid, SendError, SendToStdin, NextSlot, NextPiece, clientVars
  <2> QED BY <1>3, <2>1, <2>2, <2>3 DEF Served
<1>9. CASE SendWouldBlock
  BY <1>1, <1>9 DEF SendWouldBlock
<1>10. CASE SendAllDone
  <2>1. garbled' = garbled /\ expects' = expects /\ gone' = gone /\ ~sending' /\ slot \notin Slots
    BY <1>10, MonitorAssumption DEF SendAllDone, clientVars, streamVars, Slots, MonTypeOK
  <2> QED BY <1>3, <2>1 DEF Served
<1> QED BY <1>4, <1>5, <1>6, <1>7, <1>8, <1>9, <1>10
     DEF MonNext, MonEnvironment, ClientStep, SendStep, SendNothing, Connect, Leave, Read,
         SecondPasses, TakeZero, ReleaseZero, clientVars, streamVars, monVars

-----------------------------------------------------------------------------
MonInv == MonTypeOK /\ TableInv /\ ZeroInv /\ FrameInv

LEMMA MonInvInit == MonInit => MonInv
BY MonTypeInit, TableInit, ZeroInit, FrameInit DEF MonInv

LEMMA MonInvStep == MonInv /\ [MonNext]_monVars => MonInv'
BY MonTypeStep, TableStep, ZeroStep, FrameStep DEF MonInv

LEMMA MonInvMeans ==
  MonInv => MonTypeOK /\ TableMatchesSockets /\ EquipmentUntouched /\ FramesWhole
<1> SUFFICES ASSUME MonInv PROVE TableMatchesSockets /\ EquipmentUntouched /\ FramesWhole
  BY DEF MonInv
<1>1. TableMatchesSockets
  BY ByClient DEF MonInv
<1>2. EquipmentUntouched
  BY DEF MonInv, ZeroInv, EquipmentUntouched
<1>3. FramesWhole
  BY DEF MonInv, FrameInv, FramesWhole
<1> QED BY <1>1, <1>2, <1>3

(* Type correctness of the monitoring side.                                *)
THEOREM MonTypeCorrect == MonSpec => []MonTypeOK
BY MonTypeInit, MonTypeStep, PTL DEF MonSpec

(* The open connections are those of the table, each in one entry.         *)
THEOREM TableAlwaysMatches == MonSpec => []TableMatchesSockets
BY MonInvInit, MonInvStep, MonInvMeans, PTL DEF MonSpec

(* No report goes into the equipment's connection after a failed bind.     *)
THEOREM EquipmentNeverTouched == MonSpec => []EquipmentUntouched
BY MonInvInit, MonInvStep, MonInvMeans, PTL DEF MonSpec

(* Over blocking sockets no client's framing ever loses step.              *)
THEOREM FramesAlwaysWhole == MonSpec => []FramesWhole
BY MonInvInit, MonInvStep, MonInvMeans, PTL DEF MonSpec

-----------------------------------------------------------------------------
(***************************************************************************)
(* The server's main loop.                                                 *)
(***************************************************************************)

(* A report is under way only inside a call of monitor_periodic_task.      *)
SendingInTask == sending => pc \in {"accept_task", "data_task"}
LoopInv == MonTypeOK /\ SendingInTask

LEMMA LoopInit == Init => LoopInv
BY MonTypeInit DEF Init, LoopInv, SendingInTask, MonInit

LEMMA SendStepSends == SendStep => sending' \in {sending, FALSE}
BY DEF SendStep, SendPiece, SendNothing, SkipEmpty, SendIntoVoid, SendError, SendToStdin,
       SendWouldBlock, SendAllDone, NextPiece, NextSlot

LEMMA UsesMonitorStep == LoopInv /\ [Next]_vars => [MonNext]_monVars
<1> SUFFICES ASSUME LoopInv, [Next]_vars PROVE [MonNext]_monVars
  OBVIOUS
<1>1. CASE AcceptEquipment
  BY <1>1 DEF AcceptEquipment, MonNext, MonEnvironment
<1>2. CASE CloseEquipment
  BY <1>2 DEF CloseEquipment, MonNext, MonEnvironment
<1>3. CASE CallAccept
  <2>1. ~sending /\ MonitorAcceptClients
    BY <1>3 DEF CallAccept, LoopInv, SendingInTask
  <2> QED BY <2>1 DEF MonNext
<1>4. CASE CallPeriodic
  BY <1>4 DEF CallPeriodic, MonNext
<1>5. CASE InSendAll
  BY <1>5 DEF InSendAll, MonNext
<1>6. CASE Second
  BY <1>6 DEF Second, MonNext, MonEnvironment
<1>7. CASE Monitors
  BY <1>7 DEF Monitors, MonNext, MonEnvironment
<1>8. CASE UNCHANGED monVars
  BY <1>8
<1> QED BY <1>1, <1>2, <1>3, <1>4, <1>5, <1>6, <1>7, <1>8
     DEF Next, Server, StopAccepting, AcceptWouldBlock, StopReceiving, RecvWouldBlock, RecvEnd,
         RecvData, ProcessBuffer, AcceptFails, Cleanup, Goto, EquipConnect, EquipSend,
         EquipLeave, Signal, vars

LEMMA LoopStep == LoopInv /\ [Next]_vars => LoopInv'
<1> SUFFICES ASSUME LoopInv, [Next]_vars PROVE SendingInTask'
  BY UsesMonitorStep, MonTypeStep DEF LoopInv
<1> USE DEF LoopInv, SendingInTask
<1>1. ASSUME ~sending, sending' = sending PROVE SendingInTask'
  BY <1>1
<1>2. ASSUME pc' = pc, sending' = sending PROVE SendingInTask'
  BY <1>2
<1>3. CASE CallPeriodic
  <2>1. CASE due
    BY <1>3, <2>1 DEF CallPeriodic, AfterPeriodic
  <2>2. CASE ~due
    <3>1. sending' = sending
      BY <1>3, <2>2 DEF CallPeriodic, MonitorPeriodicTask, monVars
    <3> QED BY <1>1, <1>3, <3>1 DEF CallPeriodic
  <2> QED BY <2>1, <2>2
<1>4. CASE InSendAll
  BY <1>4, SendStepSends DEF InSendAll
<1>5. CASE AcceptEquipment \/ CloseEquipment
  <2>1. ~sending
    BY <1>5 DEF AcceptEquipment, CloseEquipment
  <2>2. sending' = sending
    BY <1>5 DEF AcceptEquipment, CloseEquipment, TakeZero, ReleaseZero, monVars
  <2> QED BY <1>1, <2>1, <2>2
<1>6. CASE CallAccept
  <2>1. ~sending /\ sending' = sending
    BY <1>6 DEF CallAccept, MonitorAcceptClients
  <2> QED BY <1>1, <2>1
<1>7. CASE StopAccepting \/ AcceptWouldBlock \/ StopReceiving \/ RecvWouldBlock \/ RecvEnd \/ RecvData
           \/ ProcessBuffer \/ AcceptFails \/ Cleanup
  <2>1. ~sending /\ sending' = sending
    BY <1>7 DEF StopAccepting, AcceptWouldBlock, StopReceiving, RecvWouldBlock, RecvEnd, RecvData,
         ProcessBuffer, AcceptFails, Cleanup, Goto, monVars
  <2> QED BY <1>1, <2>1
<1>8. CASE EquipConnect \/ EquipSend \/ EquipLeave \/ Signal \/ Second \/ Monitors
           \/ UNCHANGED vars
  <2>1. pc' = pc /\ sending' = sending
    BY <1>8 DEF EquipConnect, EquipSend, EquipLeave, Signal, Second, SecondPasses,
         Monitors, ClientStep, Connect, Leave, Read, vars, loopVars, monVars
  <2> QED BY <1>2, <2>1
<1> QED BY <1>3, <1>4, <1>5, <1>6, <1>7, <1>8 DEF Next, Server

LEMMA LoopInvAlways == Spec => []LoopInv
BY LoopInit, LoopStep, PTL DEF Spec

(* The main loop is a client of the monitoring side that keeps its rules:  *)
(* every behaviour of the server is one of MonSpec.                        *)
THEOREM ServerUsesMonitor == Spec => UsesMonitor
<1>1. Init => MonInit
  BY DEF Init
<1> QED BY <1>1, UsesMonitorStep, LoopInvAlways, PTL DEF Spec, MonSpec, UsesMonitor

(* So the table, the frames and descriptor 0 are right in the server, also *)
(* when the equipment has been given that descriptor.                      *)
THEOREM ServerKeepsMonitor ==
  Spec => [](TableMatchesSockets /\ EquipmentUntouched /\ FramesWhole)
<1>1. UsesMonitor => [](TableMatchesSockets /\ EquipmentUntouched /\ FramesWhole)
  BY TableAlwaysMatches, EquipmentNeverTouched, FramesAlwaysWhole, PTL DEF UsesMonitor
<1> QED BY <1>1, ServerUsesMonitor

-----------------------------------------------------------------------------
(* The server stops only when it was told to, or when accept has failed:   *)
(* whoever disconnects, it goes on (connection_issues.md, 3.3).            *)
THEOREM ServerStaysUp == Spec => []StaysUp
<1> USE DEF StaysUp, Stopped
<1>1. Init => StaysUp
  BY DEF Init
<1>2. StaysUp /\ LoopInv /\ [Next]_vars => StaysUp'
  <2> SUFFICES ASSUME StaysUp, LoopInv, [Next]_vars PROVE StaysUp'
    OBVIOUS
  <2>1. CASE StopAccepting \/ AcceptFails \/ Cleanup
    BY <2>1 DEF StopAccepting, AcceptFails, Cleanup, Goto
  <2>2. CASE InSendAll
    <3>1. pc \in {"accept_task", "data_task"}
      BY <2>2 DEF InSendAll, LoopInv, SendingInTask
    <3> QED BY <2>2, <3>1 DEF InSendAll, After
  <2>3. CASE CallPeriodic
    BY <2>3 DEF CallPeriodic, AfterPeriodic, After
  <2>4. CASE CallAccept
    BY <2>4 DEF CallAccept, After
  <2>5. CASE AcceptEquipment \/ AcceptWouldBlock \/ StopReceiving \/ RecvWouldBlock \/ RecvEnd
             \/ RecvData \/ ProcessBuffer \/ CloseEquipment
    BY <2>5 DEF AcceptEquipment, AcceptWouldBlock, StopReceiving, RecvWouldBlock, WhenIdle,
         RecvEnd, RecvData, ProcessBuffer, CloseEquipment, AfterClose, Goto
  <2>6. CASE EquipConnect \/ EquipSend \/ EquipLeave \/ Signal \/ Second \/ Monitors
             \/ UNCHANGED vars
    BY <2>6 DEF EquipConnect, EquipSend, EquipLeave, Signal, Second, Monitors, vars,
         loopVars
  <2> QED BY <2>1, <2>2, <2>3, <2>4, <2>5, <2>6 DEF Next, Server
<1> QED BY <1>1, <1>2, LoopInvAlways, PTL DEF Spec

-----------------------------------------------------------------------------
(***************************************************************************)
(* The delivery of a report.                                               *)
(***************************************************************************)

(* Every step is a step of the monitoring side, or leaves it alone.        *)
LEMMA StepIsMonStep == [DeliveryNext]_allVars => [MonNext]_monVars
<1> SUFFICES ASSUME [DeliveryNext]_allVars PROVE [MonNext]_monVars
  OBVIOUS
<1>1. CASE HandleAnomaly
  BY <1>1 DEF HandleAnomaly
<1>2. CASE ReportOrNot
  BY <1>2 DEF ReportOrNot, MonNext
<1>3. CASE SendOne
  BY <1>3 DEF SendOne, MonNext, SendStep
<1>4. CASE Otherwise
  BY <1>4 DEF Otherwise, MonNext, SendStep
<1>5. CASE UNCHANGED allVars
  BY <1>5 DEF allVars
<1> QED BY <1>1, <1>2, <1>3, <1>4, <1>5 DEF DeliveryNext

(* A client that is owed an anomaly is in the table, and either the flag   *)
(* is still set or the report that carries it has yet to come to its entry.*)
ToCome(c) == sending /\ carries /\ \E i \in Slots : i >= slot /\ table[i] = c
OwedInv ==
  /\ owed \subseteq Clients
  /\ ~nonBlocking => \A c \in owed \ gone : InTable(c) /\ (flagged \/ ToCome(c))

LEMMA OwedInit == DeliveryInit => OwedInv
BY DEF DeliveryInit, OwedInv

(* An entry keeps its client until that has left.                          *)
LEMMA EntriesStay ==
  ASSUME MonTypeOK, [MonNext]_monVars, NEW c \in Clients \ gone, NEW i \in Slots, table[i] = c
  PROVE  table'[i] = c
<1>1. CASE UNCHANGED table
  BY <1>1
<1>2. c # Empty /\ c # Stdin
  BY MonitorAssumption
<1>3. CASE MonitorAcceptClients
  <2>1. ASSUME NEW d \in Backlog, AcceptInto(d) PROVE table'[i] = c
    BY <1>2, <2>1, FirstFreeIsFree DEF AcceptInto, FreeSlots, MonTypeOK
  <2> QED BY <1>3, <2>1 DEF MonitorAcceptClients
<1>4. CASE SendError \/ SendToStdin
  <2>1. table[slot] # c /\ table' = [table EXCEPT ![slot] = Empty]
    BY <1>2, <1>4 DEF SendError, SendToStdin, FreeEntry
  <2> QED BY <2>1 DEF MonTypeOK
<1> QED BY <1>1, <1>3, <1>4
     DEF MonNext, MonEnvironment, ClientStep, SendStep, SendNothing, Connect, Leave, Read,
         SecondPasses, TakeZero, ReleaseZero, MonitorPeriodicTask, SendPiece, SkipEmpty,
         SendIntoVoid, SendWouldBlock, SendAllDone, clientVars, monVars

LEMMA GoneGrows == [MonNext]_monVars => gone \subseteq gone' /\ nonBlocking' = nonBlocking
BY DEF MonNext, MonEnvironment, ClientStep, Connect, Leave, Read, SecondPasses, TakeZero,
       ReleaseZero, MonitorAcceptClients, MonitorPeriodicTask, SendStep, SendPiece, SendNothing,
       SkipEmpty, SendIntoVoid, SendError, SendToStdin, SendWouldBlock, SendAllDone,
       hostVars, clientVars, monVars

LEMMA StaysInTable ==
  ASSUME MonTypeOK, [MonNext]_monVars, NEW c \in Clients \ gone, InTable(c)
  PROVE  InTable(c)'
BY EntriesStay DEF InTable, Slots

(* While no client gets its last piece, nobody who is waiting is passed.   *)
LEMMA WalkPassesNobody ==
  ASSUME MonTypeOK, ~nonBlocking, SendNothing, NEW c \in Clients \ gone, ToCome(c),
         carries' = carries
  PROVE  ToCome(c)'
<1>1. PICK i \in Slots : i >= slot /\ table[i] = c /\ sending /\ carries
  BY DEF ToCome
<1>2. c # Empty /\ c # Stdin /\ i \in 1 .. MaxClients
  BY MonitorAssumption DEF Slots
<1>3. slot <= MaxClients
  BY <1>1, <1>2, MonitorAssumption DEF MonTypeOK
<1>4. ~SendAllDone
  BY <1>3, MonitorAssumption DEF SendAllDone, MonTypeOK
<1>5. sending' = sending /\ slot' \in {slot, slot + 1}
  BY <1>4 DEF SendNothing, SkipEmpty, SendIntoVoid, SendError, SendToStdin, SendWouldBlock,
       NextSlot, NextPiece
<1>6. table[slot] # c
  BY <1>2, <1>4 DEF SendNothing, SkipEmpty, SendIntoVoid, SendError, SendToStdin, SendWouldBlock
<1>7. i >= slot'
  BY <1>1, <1>2, <1>5, <1>6 DEF MonTypeOK
<1>8. table'[i] = c
  BY <1>1, EntriesStay DEF MonNext, SendStep
<1> QED BY <1>1, <1>5, <1>7, <1>8 DEF ToCome, Slots

LEMMA OwedStep == MonInv /\ OwedInv /\ [DeliveryNext]_allVars => OwedInv'
<1> SUFFICES ASSUME MonInv, OwedInv, [DeliveryNext]_allVars PROVE OwedInv'
  OBVIOUS
<1>1. MonTypeOK /\ [MonNext]_monVars /\ gone \subseteq gone' /\ nonBlocking' = nonBlocking
  BY StepIsMonStep, GoneGrows DEF MonInv
<1>2. owed' \subseteq Clients
  BY DEF OwedInv, DeliveryNext, HandleAnomaly, ReportOrNot, SendOne, Otherwise, Connected,
         deliveryVars, allVars
<1>3. ASSUME ~nonBlocking, NEW c \in Clients \ gone, c \in owed PROVE InTable(c)'
  BY <1>1, <1>3, StaysInTable DEF OwedInv
<1> SUFFICES ASSUME ~nonBlocking, NEW c \in owed' \ gone'
             PROVE  InTable(c)' /\ (flagged' \/ ToCome(c)')
  BY <1>1, <1>2 DEF OwedInv
<1>4. c \in Clients \ gone
  BY <1>1, <1>2
<1>5. CASE HandleAnomaly
  <2>1. flagged' /\ table' = table /\ owed' = owed \cup Connected
    BY <1>5 DEF HandleAnomaly, monVars
  <2>2. c \in Connected => InTable(c)'
    BY <2>1 DEF Connected, InTable, Slots
  <2> QED BY <1>3, <1>4, <2>1, <2>2
<1>6. CASE ReportOrNot
  <2>1. c \in owed /\ InTable(c)' /\ InTable(c) /\ flagged
    BY <1>3, <1>4, <1>6 DEF ReportOrNot, OwedInv, ToCome
  <2>2. CASE due
    <3>1. carries' /\ slot' = 1 /\ sending'
      BY <1>6, <2>1, <2>2 DEF ReportOrNot, Building, MonitorPeriodicTask
    <3>2. ToCome(c)'
      BY <2>1, <3>1 DEF ToCome, InTable, Slots
    <3> QED BY <2>1, <3>2
  <2>3. CASE ~due
    BY <1>6, <2>1, <2>3 DEF ReportOrNot, Building
  <2> QED BY <2>2, <2>3
<1>7. CASE SendOne
  <2>1. SendPiece /\ flagged' = flagged /\ carries' = carries
    BY <1>7 DEF SendOne
  <2>2. c \in owed /\ InTable(c)'
    BY <1>3, <1>4, <1>7 DEF SendOne
  <2>3. CASE flagged
    BY <2>1, <2>2, <2>3
  <2>4. CASE ~flagged
    <3>1. PICK i \in Slots : i >= slot /\ table[i] = c /\ sending /\ carries
      BY <1>4, <2>2, <2>4 DEF OwedInv, ToCome
    <3>2. PICK d \in Clients \ gone : table[slot] = d /\ slot <= MaxClients
      BY <2>1 DEF SendPiece
    <3>3. i \in Nat /\ slot \in Slots /\ table' = table
      BY <2>1, <3>2, <1>1, MonitorAssumption DEF Slots, MonTypeOK, SendPiece, clientVars
    <3>4. CASE part < BodyParts
      <4>1. slot' = slot /\ sending' = sending
        BY <2>1, <3>4 DEF SendPiece, NextPiece, MoreToSend
      <4> QED BY <2>1, <2>2, <3>1, <3>3, <4>1 DEF ToCome, Slots
    <3>5. CASE ~ (part < BodyParts)
      <4>1. slot' = slot + 1 /\ sending' = sending /\ part = BodyParts
        BY <1>1, <2>1, <3>5, MonitorAssumption DEF SendPiece, NextPiece, NextSlot, MoreToSend, MonTypeOK
      <4>2. Fits(d)
        BY <3>1, <3>2, <3>3 DEF MonInv, FrameInv, Served, Fits
      <4>3. owed' = owed \ {d}
        BY <1>7, <3>1, <3>2, <4>1, <4>2 DEF SendOne
      <4>4. i # slot
        BY <3>1, <3>2, <4>3
      <4>5. i >= slot'
        BY <3>1, <3>3, <4>1, <4>4 DEF Slots
      <4> QED BY <2>1, <2>2, <3>1, <3>3, <4>1, <4>5 DEF ToCome, Slots
    <3> QED BY <3>4, <3>5
  <2> QED BY <2>3, <2>4
<1>8. CASE Otherwise
  <2>1. c \in owed /\ InTable(c)' /\ flagged' = flagged /\ carries' = carries
    BY <1>3, <1>4, <1>8 DEF Otherwise, deliveryVars
  <2>2. flagged \/ ToCome(c)
    BY <1>4, <2>1 DEF OwedInv
  <2>3. CASE ToCome(c) /\ SendNothing
    BY <1>1, <1>4, <2>1, <2>3, WalkPassesNobody
  <2>4. CASE ToCome(c) /\ ~SendNothing
    <3>1. UNCHANGED <<table, slot, sending>>
      BY <1>8, <2>4 DEF Otherwise, ToCome, MonEnvironment, ClientStep, Connect, Leave, Read,
           SecondPasses, TakeZero, ReleaseZero, clientVars
    <3> QED BY <2>1, <2>4, <3>1 DEF ToCome, Slots
  <2> QED BY <2>1, <2>2, <2>3, <2>4
<1>9. CASE UNCHANGED allVars
  <2>1. UNCHANGED <<owed, flagged, carries, table, slot, sending>>
    BY <1>9 DEF allVars, deliveryVars, monVars
  <2> QED BY <1>3, <1>4, <2>1 DEF OwedInv, ToCome, Slots
<1> QED BY <1>5, <1>6, <1>7, <1>8, <1>9 DEF DeliveryNext

-----------------------------------------------------------------------------
DeliveryInv == MonInv /\ OwedInv

LEMMA DeliveryInvAlways == DeliverySpec => []DeliveryInv
<1>1. DeliveryInit => DeliveryInv
  BY MonInvInit, OwedInit DEF DeliveryInit, DeliveryInv
<1>2. DeliveryInv /\ [DeliveryNext]_allVars => DeliveryInv'
  BY MonInvStep, OwedStep, StepIsMonStep DEF DeliveryInv
<1> QED BY <1>1, <1>2, PTL DEF DeliverySpec

(* Over blocking sockets an anomaly reaches every client that was          *)
(* connected when it was handled and has not left.                         *)
THEOREM AnomalyAlwaysDelivered == DeliverySpec => []AnomalyDelivered
<1>1. DeliveryInv => AnomalyDelivered
  BY DEF DeliveryInv, OwedInv, ToCome, AnomalyDelivered
<1> QED BY <1>1, DeliveryInvAlways, PTL

(* Reporting anomalies is a use of the monitoring side: table, frames and  *)
(* descriptor 0 stay right under it.                                       *)
THEOREM DeliveryUsesMonitor ==
  DeliverySpec => [](TableMatchesSockets /\ EquipmentUntouched /\ FramesWhole)
<1>1. DeliveryInv => TableMatchesSockets /\ EquipmentUntouched /\ FramesWhole
  BY MonInvMeans DEF DeliveryInv
<1> QED BY <1>1, DeliveryInvAlways, PTL
=============================================================================
