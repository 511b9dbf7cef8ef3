------------------------------- MODULE Bridge -------------------------------
(***************************************************************************)
(* monitoring/bridge.js: the TCP connection to the server, the loop that   *)
(* cuts its byte stream into length-prefixed reports, the forwarding to    *)
(* the browsers, and the reconnection two seconds after a close.           *)
(*                                                                         *)
(* Callbacks of the one JavaScript thread run to their end.  A unit of the *)
(* stream is <<connection, report, position in its frame>>; the positions  *)
(* below HeaderSize are the length.  The server may die inside a report.   *)
(***************************************************************************)
EXTENDS Integers, Sequences

CONSTANTS HeaderSize,   \* bytes of the length (4)
          BodySize,     \* size of the n-th report of a connection
          MaxConns,     \* bound: connections made
          Browsers      \* browser tabs

MaxReports == Len(BodySize)

ASSUME BridgeAssumption ==
  HeaderSize \in Nat \ {0} /\ BodySize \in Seq(Nat) /\ MaxConns \in Nat

VARIABLES server,      \* does the server listen
          conn,        \* number of the connection tcpClient stands for
          sock,        \* "connecting", "open" or "waiting" for the timer
          peer,        \* the server has not closed the connection
          sent,        \* units the server has sent on it
          received,    \* units the data callback has got
          buffer,      \* its local buffer
          forwarding,  \* inside the while loop of the data callback
          forwarded,   \* reports forwarded on this connection
          ws,          \* browser -> "away", "open" or "gone"
          inbox        \* browser -> reports it was sent

vars == <<server, conn, sock, peer, sent, received, buffer, forwarding, forwarded, ws, inbox>>
browserVars == <<ws, inbox>>
loopVars == <<buffer, forwarding, forwarded>>

(* The stream of a connection, and where its n-th frame ends.              *)
End[n \in 0 .. MaxReports] ==
  IF n = 0 THEN 0 ELSE End[n - 1] + HeaderSize + BodySize[n]
FrameOf(p) == CHOOSE n \in 1 .. MaxReports : End[n - 1] < p /\ p <= End[n]
Unit(c, p) == <<c, FrameOf(p), p - End[FrameOf(p) - 1] - 1>>
Stream(c, from, to) == [i \in 1 .. to - from |-> Unit(c, from + i)]

Init ==
  /\ server \in BOOLEAN
  /\ conn = 0 /\ sock = "connecting" /\ peer = FALSE
  /\ sent = 0 /\ received = 0
  /\ buffer = << >> /\ forwarding = FALSE /\ forwarded = 0
  /\ ws = [b \in Browsers |-> "away"]
  /\ inbox = [b \in Browsers |-> << >>]

-----------------------------------------------------------------------------
(* The C server, which may stop at any unit and start again; what it sent  *)
(* last may be lost.                                                       *)
ServerSends ==
  /\ peer /\ sent < End[MaxReports]
  /\ sent' = sent + 1
  /\ UNCHANGED <<server, conn, sock, peer, received, loopVars, browserVars>>

ServerStops ==
  /\ server /\ server' = FALSE
  /\ peer' = FALSE
  /\ sent' \in received .. sent
  /\ UNCHANGED <<conn, sock, received, loopVars, browserVars>>

ServerStarts ==
  /\ ~server /\ server' = TRUE
  /\ UNCHANGED <<conn, sock, peer, sent, received, loopVars, browserVars>>

(* A client it has no room for, or whose send failed.                      *)
ServerDrops ==
  /\ peer /\ peer' = FALSE
  /\ sent' \in received .. sent
  /\ UNCHANGED <<server, conn, sock, received, loopVars, browserVars>>

-----------------------------------------------------------------------------
(* connectToCServer: a new socket and a new, empty buffer.                 *)
StaleBuffer == buffer
NewBuffer == << >>

Connected ==
  /\ sock = "connecting" /\ server /\ conn < MaxConns
  /\ sock' = "open" /\ conn' = conn + 1 /\ peer' = TRUE
  /\ sent' = 0 /\ received' = 0
  /\ buffer' = NewBuffer /\ forwarded' = 0
  /\ UNCHANGED <<server, forwarding, browserVars>>

(* 'error' is followed by 'close', and that by a timer of two seconds.     *)
GivesUp == "refused"
AfterRefusal == "waiting"
Refused ==
  /\ sock = "connecting" /\ ~server
  /\ sock' = AfterRefusal
  /\ UNCHANGED <<server, conn, peer, sent, received, loopVars, browserVars>>

Closed ==
  /\ sock = "open" /\ ~peer /\ received = sent /\ ~forwarding
  /\ sock' = "waiting"
  /\ UNCHANGED <<server, conn, peer, sent, received, loopVars, browserVars>>

Retry ==
  /\ sock = "waiting"
  /\ sock' = "connecting"
  /\ UNCHANGED <<server, conn, peer, sent, received, loopVars, browserVars>>

(* The data callback: append, then one iteration of the loop a step.       *)
Data ==
  /\ sock = "open" /\ ~forwarding
  /\ received' \in received + 1 .. sent
  /\ buffer' = buffer \o Stream(conn, received, received')
  /\ forwarding' = TRUE
  /\ UNCHANGED <<server, conn, sock, peer, sent, forwarded, browserVars>>

(* readUInt32BE(0): the length of the report whose header is in front; any *)
(* number when it is not a header.                                         *)
HeaderIsWhole ==
  \A i \in 1 .. HeaderSize : buffer[i] = <<buffer[1][1], buffer[1][2], i - 1>>
MsgLens ==
  IF HeaderIsWhole THEN {BodySize[buffer[1][2]]} ELSE 0 .. End[MaxReports]

HasHeader == Len(buffer) >= HeaderSize
WaitsForMore(len) == Len(buffer) > HeaderSize + len
HasMessage(len) == Len(buffer) >= HeaderSize + len
WithHeaderLeft(len) == SubSeq(buffer, len + 1, Len(buffer))
Sliced(len) == SubSeq(buffer, HeaderSize + len + 1, Len(buffer))

(* forEach over the browsers that are open.                                *)
ToOpen(report) ==
  [b \in Browsers |-> IF ws[b] = "open" THEN Append(inbox[b], report) ELSE inbox[b]]

Forward ==
  /\ forwarding /\ HasHeader
  /\ \E len \in MsgLens :
       /\ HasMessage(len)
       /\ buffer' = Sliced(len)
  /\ inbox' = ToOpen(<<buffer[HeaderSize][1], buffer[HeaderSize][2]>>)
  /\ forwarded' = forwarded + 1
  /\ UNCHANGED <<server, conn, sock, peer, sent, received, forwarding, ws>>

DataDone ==
  /\ forwarding
  /\ HasHeader => \E len \in MsgLens : ~HasMessage(len)
  /\ forwarding' = FALSE
  /\ UNCHANGED <<server, conn, sock, peer, sent, received, buffer, forwarded, browserVars>>

(* Browsers come and go; app.js opens its WebSocket once.                  *)
BrowserOpens(b) ==
  /\ ~forwarding /\ ws[b] = "away" /\ ws' = [ws EXCEPT ![b] = "open"]
  /\ UNCHANGED <<server, conn, sock, peer, sent, received, loopVars, inbox>>

BrowserCloses(b) ==
  /\ ~forwarding /\ ws[b] = "open" /\ ws' = [ws EXCEPT ![b] = "gone"]
  /\ UNCHANGED <<server, conn, sock, peer, sent, received, loopVars, inbox>>

BridgeStep == Connected \/ Refused \/ Closed \/ Retry \/ Data \/ Forward \/ DataDone
ServerStep == ServerSends \/ ServerStops \/ ServerStarts \/ ServerDrops
Next ==
  \/ BridgeStep \/ ServerStep
  \/ \E b \in Browsers : BrowserOpens(b) \/ BrowserCloses(b)

Spec == Init /\ [][Next]_vars

(* The event loop runs every callback that is due.                         *)
FairSpec == Spec /\ WF_vars(BridgeStep)

-----------------------------------------------------------------------------
(* The bridge stays in step with the frames: its buffer is exactly what    *)
(* was received after the reports already forwarded, however the bytes     *)
(* were cut, and nothing of an earlier connection is left in it.           *)
InStep ==
  sock = "open" => buffer = Stream(conn, End[forwarded], received)

(* A browser gets the reports of a connection in order and without a gap   *)
(* from the first it gets to the last, each once, also across reconnects.  *)
BrowsersInOrder ==
  \A b \in Browsers : \A i \in 1 .. Len(inbox[b]) - 1 :
    LET this == inbox[b][i]  next == inbox[b][i + 1]
    IN  \/ next = <<this[1], this[2] + 1>>
        \/ next[1] > this[1] /\ next[2] = 1

(* A report the server has sent whole reaches a browser that stays: it     *)
(* does not wait in the buffer for more bytes to come, and a closed        *)
(* connection does not take it along, unless TCP lost it with the server.  *)
WholeReportForwarded ==
  \A c \in 1 .. MaxConns, n \in 1 .. MaxReports :
    (conn = c /\ sock = "open" /\ sent >= End[n])
      ~> (conn = c /\ (forwarded >= n \/ sent < End[n]))

(* While the server listens the bridge gets connected again, whether it    *)
(* was refused before or dropped; MaxConns only ends the counting.         *)
Reconnects ==
  [](server /\ sock # "open" => <>(sock = "open" \/ ~server \/ conn = MaxConns))
=============================================================================
