------------------------------ MODULE RunServer ------------------------------
(***************************************************************************)
(* The server's one thread (server/run_server/run_server.c): the accept    *)
(* loop of run, run_client_loop for the one equipment connection, and the  *)
(* shutdown, composed with the monitoring side they call (MonitorServer).  *)
(* A packet is one item of the inbox: RecvBuffer says why that is sound.   *)
(* The equipment's socket is descriptor 0 when that is free.               *)
(***************************************************************************)
EXTENDS MonitorServer

CONSTANTS MaxInbox,      \* bound: packets in the equipment's socket buffers
          Readers        \* monitoring clients that read until they leave

ASSUME RunAssumption ==
  /\ MaxInbox \in Nat \ {0}
  /\ Readers \subseteq Clients

VARIABLES pc,        \* where the main thread is
          running,   \* g_running
          equip,     \* the connection the server holds: "absent",
                     \* "connected", "finished" or "vanished" (its host
                     \* is gone without a word); or "failed": accept did
          knocking,  \* an equipment waits in the backlog (bound: one)
          inbox      \* packets in the socket, not yet received

loopVars == <<pc, running, equip, knocking, inbox>>
vars == <<monVars, loopVars>>

TypeOK ==
  /\ MonTypeOK
  /\ pc \in {"accept", "accept_mon", "accept_task", "recv", "recv_mon", "data_mon",
             "data_task", "process", "close", "cleanup", "exited"}
  /\ running \in BOOLEAN
  /\ equip \in {"absent", "connected", "finished", "vanished", "failed"}
  /\ knocking \in BOOLEAN
  /\ inbox \in 0 .. MaxInbox

Init ==
  /\ MonInit
  /\ pc = "accept" /\ running = TRUE
  /\ equip = "absent" /\ knocking = FALSE /\ inbox = 0

Goto(l) == pc' = l /\ UNCHANGED <<running, equip, knocking, inbox, monVars>>

-----------------------------------------------------------------------------
(* The accept loop of run.                                                 *)
StopAccepting == pc = "accept" /\ ~running /\ Goto("cleanup")

AcceptEquipment ==
  /\ pc = "accept" /\ running /\ knocking
  /\ equip' = "connected" /\ knocking' = FALSE
  /\ pc' = "recv"
  /\ TakeZero \/ (zero # "free" /\ UNCHANGED monVars)
  /\ UNCHANGED <<running, inbox>>

AcceptWouldBlock == pc = "accept" /\ running /\ ~knocking /\ Goto("accept_mon")

(* A connection that was reset in the backlog may be accepted all the same *)
(* (and then leaves) or reported as an error, as the kernel likes; any     *)
(* error but EAGAIN leaves the loop (run_server.c:82-84).                  *)
AcceptFails ==
  /\ pc = "accept" /\ running /\ knocking
  /\ equip' = "failed" /\ knocking' = FALSE
  /\ pc' = "cleanup"
  /\ UNCHANGED <<running, inbox, monVars>>

(* run_client_loop.                                                        *)
StopReceiving == pc = "recv" /\ ~running /\ Goto("close")

OnlyWithData == "recv"
WhenIdle == "recv_mon"
RecvWouldBlock ==
  pc = "recv" /\ running /\ inbox = 0 /\ equip \in {"connected", "vanished"} /\ Goto(WhenIdle)

RecvEnd == pc = "recv" /\ running /\ inbox = 0 /\ equip = "finished" /\ Goto("close")

RecvData ==
  /\ pc = "recv" /\ running /\ inbox > 0
  /\ inbox' = inbox - 1
  /\ pc' = "data_mon"
  /\ UNCHANGED <<running, equip, knocking, monVars>>

(* process_buffer: handle_packet touches neither the sockets nor the loop; *)
(* what it does is in SensorRegistry, HistoryStorage and FileLogger.       *)
ProcessBuffer == pc = "process" /\ Goto("recv")

(* close(client_fd): whatever the equipment had still to send is gone, and *)
(* the equipment, which does not reconnect, has to be started again.       *)
ExitOnDisconnect == "cleanup"
RetryRecv == "recv"
AfterClose == "accept"

CloseEquipment ==
  /\ pc = "close"
  /\ equip' = "absent" /\ inbox' = 0
  /\ pc' = AfterClose
  /\ ReleaseZero \/ (zero # "equipment" /\ UNCHANGED monVars)
  /\ UNCHANGED <<running, knocking>>

(* Graceful shutdown: close the listener, flush the log, free the storage. *)
Cleanup == pc = "cleanup" /\ Goto("exited")

-----------------------------------------------------------------------------
(* The calls into the monitoring side and where the loop goes on; a call   *)
(* of monitor_send_all returns when it has served the last entry.          *)
NoTaskWithData ==
  [accept_mon |-> "accept_task", accept_task |-> "accept",
   recv_mon |-> "recv", data_mon |-> "process", data_task |-> "process"]
After == [accept_mon |-> "accept_task", accept_task |-> "accept",
          recv_mon |-> "recv", data_mon |-> "data_task", data_task |-> "process"]

CallAccept ==
  /\ pc \in {"accept_mon", "recv_mon", "data_mon"}
  /\ MonitorAcceptClients
  /\ pc' = After[pc]
  /\ UNCHANGED <<running, equip, knocking, inbox>>

WithoutWaiting == IF due THEN "accept_mon" ELSE After[pc]
AfterPeriodic == IF due THEN pc ELSE After[pc]

CallPeriodic ==
  /\ pc \in {"accept_task", "data_task"} /\ ~sending
  /\ MonitorPeriodicTask
  /\ pc' = AfterPeriodic
  /\ UNCHANGED <<running, equip, knocking, inbox>>

InSendAll ==
  /\ sending /\ SendStep
  /\ pc' = IF sending' THEN pc ELSE After[pc]
  /\ UNCHANGED <<running, equip, knocking, inbox>>

Server ==
  \/ StopAccepting \/ AcceptEquipment \/ AcceptWouldBlock \/ StopReceiving
  \/ RecvWouldBlock \/ RecvEnd \/ RecvData \/ ProcessBuffer \/ CloseEquipment
  \/ AcceptFails \/ Cleanup \/ CallAccept \/ CallPeriodic \/ InSendAll

-----------------------------------------------------------------------------
(* The equipment, the operator and time.  An equipment may be started      *)
(* anew, or a second one, while a connection is still held: it waits in    *)
(* the backlog.                                                            *)
EquipConnect ==
  /\ ~knocking /\ knocking' = TRUE
  /\ UNCHANGED <<pc, running, equip, inbox, monVars>>

EquipSend ==
  /\ equip = "connected" /\ inbox < MaxInbox /\ inbox' = inbox + 1
  /\ UNCHANGED <<pc, running, equip, knocking, monVars>>

EquipLeave ==
  /\ equip = "connected"
  /\ equip' \in {"finished", "vanished"}
  /\ UNCHANGED <<pc, running, knocking, inbox, monVars>>

Signal ==
  /\ running /\ running' = FALSE
  /\ UNCHANGED <<pc, equip, knocking, inbox, monVars>>

Second == SecondPasses /\ UNCHANGED loopVars

Monitors == ClientStep /\ UNCHANGED loopVars

Next ==
  \/ Server
  \/ EquipConnect \/ EquipSend \/ EquipLeave \/ Signal \/ Second \/ Monitors
  \/ pc = "exited" /\ UNCHANGED vars

Spec == Init /\ [][Next]_vars

(* The thread runs, time passes, and the clients in Readers read.  A       *)
(* client that has closed its end answers data with a reset, so not every  *)
(* send to it succeeds.                                                    *)
FairSpec ==
  /\ Spec
  /\ WF_vars(Server) /\ WF_vars(Second)
  /\ SF_vars(InSendAll /\ SendError)
  /\ \A c \in Readers : WF_vars(Read(c) /\ UNCHANGED loopVars)

-----------------------------------------------------------------------------
(* The server was told to stop, or accept has failed.                      *)
Stopped == ~running \/ equip = "failed"

(* The server stops only when it is told to, or when accept fails with     *)
(* more than EAGAIN: an equipment that disconnects leaves it waiting for   *)
(* the next one (connection_issues.md, 3.3).                               *)
StaysUp == pc \in {"cleanup", "exited"} => Stopped

(* The main loop uses the monitoring side as it must be used: it neither   *)
(* accepts a client nor begins another report while monitor_send_all is    *)
(* walking the table.                                                      *)
UsesMonitor == MonSpec

(* The one thread waits in send for a client that does not read.           *)
HeldUp ==
  /\ sending /\ slot \in Slots /\ ~nonBlocking
  /\ \E c \in Clients \ Readers : table[slot] = c /\ unread[c] = SocketRoom

(* Graceful shutdown: after SIGINT or SIGTERM the server cleans up and     *)
(* exits, wherever in its loops the signal found it (run_server.c:56); the *)
(* only thing that can keep it from it is a client that reads no more, and *)
(* only where accepted sockets block.                                      *)
ShutdownCompletes == ~running ~> pc = "exited" \/ []HeldUp

(* When a second has passed a report is begun, as long as packets keep     *)
(* coming, or when there is no equipment at all: only a connection that    *)
(* brings no data keeps monitor_periodic_task from being called            *)
(* (run_server.c:32-36, 85-87).                                            *)
Active == []<>(inbox > 0) \/ <>[](equip = "absent")
ReportsWhileActive == Active => (due ~> ~due \/ Stopped \/ []HeldUp)

(* Receiving from the equipment and accepting monitoring clients do not    *)
(* obstruct each other (connection_issues.md, 3.2): a client that connects *)
(* is accepted or refused, unless equipments keep coming and going for     *)
(* ever, each without sending a packet (run_server.c:40-47, 76-88: such a  *)
(* round of the loops calls monitor_accept_clients nowhere).               *)
ClientsServed ==
  []<>(pc = "close") \/
    \A c \in Clients : status[c] = "waiting" ~> status[c] # "waiting" \/ Stopped \/ []HeldUp

(* "Equipment reconnection loop" (run_server.c:71): an equipment that      *)
(* starts while another is connected, or after it, gets its connection     *)
(* when that one ends.  A connection whose host has vanished never ends:   *)
(* recv says EAGAIN for ever (run_server.c:31-37), and the equipment       *)
(* started anew waits for ever.                                            *)
Occupied == equip \in {"connected", "vanished"}
EquipmentAccepted ==
  knocking ~> ~knocking \/ Stopped \/ []HeldUp \/ []Occupied

(* A client that has left gives its entry back, so that the table does not *)
(* fill with entries of clients that are gone and refuse new ones for      *)
(* ever: some report is sent to it in vain (monitor_server.c:133-158), as  *)
(* long as reports are begun at all.                                       *)
InTable(c) == \E i \in Slots : table[i] = c
EntriesReclaimed ==
  Active => \A c \in Clients : c \in gone /\ InTable(c) ~> ~InTable(c) \/ Stopped \/ []HeldUp
=============================================================================
