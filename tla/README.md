# Verification of yojikyung

yojikyung watches a bonding machine with 128 sensors. Four programs:

    equipment (C, 8 threads) --TCP 12345, 4096-byte packets--> server (C, 1 thread)
    server --TCP 9001, [4-byte length][JSON], once a second--> bridge (node)
    bridge --WebSocket 9000--> dashboard (browser)

This directory holds TLA+ modules of that system, TLC configurations that check
them on small instances, and TLAPS proofs for every size. `PROJECT.json` names
for each definition the source lines it models, for each run its properties,
for each property a mutation of the model that breaks it, and the hazards the
properties are for.

    tlc -config MCRecvBuffer.cfg RecvBuffer.tla     # any run: config, module
    tlapm RecvBuffer_proofs.tla                     # any *_proofs module

## 1. Inventory

| Component | State | Operations | Hard behaviour | What makes it correct |
|---|---|---|---|---|
| Equipment threads `equipment/run` | `next_time_ms` per sensor, `socket_mutex`, the socket | scan for due sensors, lock, build, blocking `send`, unlock | eight threads on one stream; `now` read before the wait for the mutex; result of `send` ignored; SIGPIPE | packets whole on the wire, none of a thread's readings lost or repeated while connected, periods kept |
| Packet building `equipment/packet`, `secs2`, `hsms` | `g_sys` | header, SECS-II body, padding to 4096 | fields of variable length | the decoder gets back what was encoded |
| Data generator | `SensorState` per sensor | `init_sensors`, `update_sensor_value` | the next value is made from the last, also from an abnormal one | a reading outside the class limits exactly when generated abnormal |
| Server main loop `server/run_server` | `g_running`, the one `client_fd` | accept, receive, monitoring calls, shutdown | everything on one thread, one call can stop all | stops when told and only then; reports and clients are served |
| Packet reassembly `server/network`, `controller` | `RecvBuffer` | `recv_data`, `buffer_append`, `try_extract_packet` | `recv` cuts the stream anywhere; overflow is dropped silently | k-th packet out is the k-th packet in |
| Decoder `server/decoder` | none | header, items | a wrong skip misreads all that follows | as above |
| Sensor states, average, anomaly | `states[]`, windows, `has_anomaly` | one update per reading | table written without a limit check, running sum, flag reset by the report | one entry per sensor, average of the window, an anomaly in exactly one report |
| History storage | ring of 650000, `head`, `tail`, `count` | `save_to_storage` with eviction | unsigned time difference, full ring | holds the newest packets of ten minutes |
| File logger | `g_temp_buffer`, last flush, the file | add, flush, close | failing `fopen`, writes whose results are ignored, file limit, kill at any point, two clocks, a flush timer looked at only when a packet arrives | nothing is doubled or out of order, a failure costs no more than what failed; a kill costs one interval |
| Packet handling `controller/handle_packet` | none of its own | decode, save, log, sensor states | one packet goes to three places by calls that fail on their own | ring and log speak of the same packets |
| Monitor server | `clients[]`, last send time | init, accept, periodic task, `send` in pieces | clients leave, connect and stall while the table is walked; a failed `bind` leaves the table zeroed | frames whole, table agrees with the sockets, entries of gone clients are given back, an anomaly reaches every client |
| Bridge | connection, byte buffer | `data`, `close`, `error`, timer | reports cut anywhere, server stops inside one | in step with the frames, reconnects |
| Dashboard | `sensorStore`, selection, chart, log | report, click | clicks between reports | tile, panel, store and log agree |

They interact through calls inside the server thread (`run` calls the monitoring
side, `process_buffer` calls `handle_packet`, which calls decoder, storage, log
and sensor states), through the three streams drawn above, and through shared
state: the flag `has_anomaly`, set by a packet and reset by a report; the tables of
sensors that each program holds for itself; and the process's descriptors, of which
a failed `bind` makes the monitoring side take number 0 for a client.

## 2. Modules and the code

| Module | Models | State and actions |
|---|---|---|
| `PacketChannel` | abstract: packets arrive on a connection in order, each handed over once | `Send`, `Hand`, `Connect`, `Close` |
| `RecvBuffer` | receive path of the server | `buffer`, `writePos` are those of `RecvBuffer`; `RecvData` = `recv_data` + `buffer_append`, `MonitorCalls` = the return of the two monitoring calls between them, `ExtractPacket` = one round of `process_buffer`, `Accept`/`RecvEnd` = life of the connection, `Signal` with `StopReceiving` and `StopAccepting` = the end of both loops. Implements `PacketChannel` |
| `HistoryWindow` | abstract: the newest `MaxHistory` packets no older than the retention | one action |
| `HistoryStorage` | the ring | `Save` up to the eviction loop, `Evict` one round of it. Implements `HistoryWindow` as long as timestamps are in order |
| `PacketStream` | abstract: whole packets, numbered without gap, in time order per module and periods kept, also when the clock is set back | one action |
| `ModuleWorkers` | `module_worker` of every module on the one socket | `pc` per thread: `Scan`, `Lock`, `Build`, `SendPiece` (a blocking `send` puts the packet into the socket in pieces), `SendFails`, `Killed`, `Unlock`; `ServerReads`, `ServerGone`, clock. Implements `PacketStream` |
| `FileLogger` | log buffer and file | `AddToLogBuffer`, `CloseFileLogger` (the shutdown), a flush in steps: `FlushNothing`, `OpenFails`, or `OpenFile` and `WriteAndSync`, then `Flushed`; `DiskFails` chooses entries (`lost`) whose lines do not reach the disk, which the code does not notice; `Crash` between any two, `Restart` |
| `HandlePacket` | the two records of a packet, composed of `HistoryStorage` (INSTANCE) and `FileLogger` (EXTENDS) | `SavePacket`, `EvictOld`, then `LogPacket` with the same timestamp; the flush, the shutdown and a kill of the whole process, which empties ring and log buffer together (`StartAgain`) |
| `MonitorServer` | client table and sockets | `nonBlocking`, chosen once at the start, says whether an accepted socket inherits `O_NONBLOCK` from the listener, as it does on macOS and does not on Linux; `listening` whether `bind` and `listen` succeeded, `zero` who has descriptor 0; `MonitorAcceptClients`, `MonitorPeriodicTask` begins a walk, `SendPiece`, `SendError`, `SendIntoVoid`, `SendToStdin`, `SendWouldBlock`, `SendAllDone`; clients connect, read, leave |
| `ReportDelivery` | the way of an anomaly to the clients, on top of `MonitorServer` (EXTENDS) | `HandleAnomaly` sets the flag, `ReportOrNot` takes it into the report that is sent and clears it, `SendOne` tells who has it |
| `RunServer` | the main loop, composed with `MonitorServer` (EXTENDS) | `pc` is the place in `run`/`run_client_loop`, `equip` the connection held, whose host may also vanish without closing, and `knocking` whether another equipment waits in the backlog meanwhile, where it may be reset (then `accept` may fail); `CallAccept` and `CallPeriodic` perform the actions of `MonitorServer`, accepting and closing the equipment its `TakeZero` and `ReleaseZero`, `After` says where the loop goes on |
| `SensorReport` | abstract: all readings in order; a report is computed from them | `Reading`, `Report` |
| `SensorRegistry` | `states[]` with the running sums and flags | `Reading` = `handle_packet`'s loop body, `BuildPeriodicJson`. Implements `SensorReport` |
| `Secs2Codec` | encoder and decoder over byte sequences | `AddSensor` encodes one reading, `SendSensorPacket` puts header and body into the packet; `HandlePacket`, `ParseHead`, `ParseSensor`, `ParseDone` are the parser's steps along its offset |
| `SensorTables` | the sensor tables of the three programs, the value ranges, the page's tiles, the units of the log and the page, and the buffers all that must fit in | `AddSensor` is one call of `add_sensor`, `InitSensorState` and `UpdateSensorValue` make the values of one sensor |
| `Bridge` | `bridge.js` and the server's end of its connection | one action per callback, `Forward` one round of the `while` in `data` |
| `Dashboard` | `app.js` | one action per report and per click |

`RunServer` treats a packet as one item of its inbox; the theorem that
`RecvBuffer` implements `PacketChannel` is what allows it.

Abstractions worth knowing:

- A byte is a pair (connection, position) in `RecvBuffer` and `Bridge`, so a lost,
  stale or doubled byte differs from the right one.
- `Secs2Codec` uses bytes of `Base` = 4 values, so a length needs two length bytes
  from 4 on, as 256 does with real bytes. Values of real bytes would only make the
  state space larger: the code tests no byte value except the format codes.
- `SensorTables` divides the normal step of a class into `DeltaParts` = 4 parts where
  the code draws 10000; `AbnormalAlwaysDetected` is proved for any number. (The comment at `data_generator.c` calls the ratio 1 %; the
  constant is 0.0001. No property depends on it.)
- `SensorRegistry` uses integers; the rounding of `float` sums is left out.
- `ModuleWorkers` cuts a packet into `Parts` pieces, the places where a blocking
  `send` may wait for room.
- `Wrap` is 2^64 of `uint64_t`, scaled down above the largest time.
- JSON text, HTML and printing are left out; `BuffersFit` counts the characters of the
  report (an entry in full width, both numbers as long as any value the equipment makes).
- `BuffersFit` bounds the packets of a second by what each thread can send: one a
  millisecond (`usleep`) and not more than its sensors fall due, 2257 in all. The log
  buffer has 10000, so it is enough for packets that arrive as they are sent; it also
  takes what waits in the socket's buffers when the server was held up, as long as
  that is less than the rest.
- An entry counts as in the log when all its lines are; a torn entry, as a kill or a
  full disk leaves it, counts as not written.
- One equipment at most waits in the backlog, and an equipment that comes, is accepted
  and leaves stands for one that was reset there unnoticed.
- `HandlePacket` puts no reading into a packet: ring and log copy it whole. The two
  clocks differ by `Boot`; a packet was stamped up to `Lag` before it arrives.
- `ReportDelivery` has one flag for all sensors; which sensor and value a report shows
  is `SensorRegistry`'s.

## 3. Runs

| Run | Shows | Bounds, and why they are enough |
|---|---|---|
| `recv` | no byte is dropped; packets handed over are the ones sent, also after a reconnect; a whole packet received is handled, also when a signal ends the loops, unless a monitoring call never returns (`CompletePacketsHandled`); the receive path is the packet channel (`ChannelSpec`) | packet of 3, buffer of 7, recv of at most 5: the tightest sizes `SizeAssumption` allows, and a recv that can bring the end of one packet, a whole one and more; 3 packets on each of 2 connections |
| `history` | the ring holds the last packets saved, the newest included, in whatever order their timestamps come; while these are in order it is the window (`WindowSpec`) | 3 slots, 6 saves: filled, wrapped, emptied by eviction; timestamps up to 2 late with retention 2 |
| `history_reordered` (violated) | a packet a millisecond older than the oldest one held costs all that is held | 4 slots, late by 1 |
| `workers` | packets whole; every reading in exactly one place while connected; the stream is as promised (`StreamSpec`); what is sampled is sent | 2 modules, 3 sensors of 2 periods, packets of 2 pieces and room for one, so that `send` waits inside every packet; the server may go at any time, the clock be set back at any time |
| `packets` | nothing doubled or reordered in the log, nothing truncated below the limit, nothing lost but by the causes `AcceptedReachesFile` names; its file keeps its bound; a kill costs one flush interval (`KillLosesOneInterval`); every packet in the ring is in the log or its buffer (`LogBacksHistory`) | 4 packets, ring, log buffer and file limit of 2: eviction, full buffer, full file and several flushes; started at boot (the cutoff is still wrapped) and later, packets up to 1 late; with or without memory for the ring |
| `monitor` | frames whole; table and sockets agree; nothing is ever written into the equipment's connection after a failed `bind` (`EquipmentUntouched`); an anomaly reaches every client connected when it was handled (`AnomalyDelivered`) | 3 clients for 2 entries, so one is refused or reuses an entry; reports of a length and 2 pieces, room for 2, so that `send` waits or fails inside a report; both kinds of socket, both outcomes of `bind` |
| `server` | stops only when told (or when `accept` fails); calls the monitoring side correctly (`MonSpec` as a property); shuts down; reports; serves clients; accepts the next equipment; gives the entries of clients that are gone back (`EntriesReclaimed`) | 2 clients for 1 entry, one of which need not read; a report of a length and one piece, room for one, so that `send` waits inside it; an equipment held and one waiting; both outcomes of `bind`, so that the equipment may be descriptor 0 |
| `registry` | one entry per sensor, the table is never outgrown, the reports are those promised (`ReportSpec`) | a sensor with and one without a class, one normal value and two abnormal ones; window of 2, so that it wraps |
| `codec` | every message is decoded as sent | up to 4 readings; lengths that take one and two bytes; the smallest and largest timestamp; system bytes that wrap |
| `tables` | a reading is flagged by the server exactly when the equipment drew it abnormal; sensors and tiles of the page correspond one to one and each sensor has one unit in the log, which is the page's for the two kinds of tile that show one (`KnownEverywhere`); what all sensors produce fits the packet, the report's text and the log buffer (`BuffersFit`) | all 128 sensors, the real tables and the real buffer sizes |
| `bridge` | in step with the frames, browsers get the reports in order, every whole report is forwarded, the bridge reconnects | 2 connections, 2 reports of different sizes each, cut anywhere |
| `dashboard` | store, tile and panel agree after any report or click; the log is the newest anomalies, one more than its limit at most | 3 reports, 2 tiles, an unknown id, sparkline and log of 2, so that both overflow |

`CHECK_DEADLOCK FALSE` appears where the bounds end the behaviour (`history*`:
`MaxSaves`, `dashboard`: `MaxMessages`, `bridge`: `MaxConns`) and where SIGPIPE ends
the equipment (`workers`).

`monitor` uses symmetry of the clients: it checks safety only, and no definition
names a client. `server` does not, since it has liveness and one client differs.

### The run that is violated

`history_reordered`. `save_to_storage` subtracts the oldest timestamp held from the
one just saved, in `uint64_t` (history_storage.c:28). A thread reads `now` before it
waits for `socket_mutex` (run_equipment.c:122, :152), so a packet may arrive after
one a millisecond newer. When that newer one is the oldest held, as when the ring has
just begun or eviction has left little in it, the difference wraps, is larger than the
retention, and everything held but the new packet is evicted, where the comment says
"Ready for 10min history" (history_storage.c:13). Behind a long history a packet that is a
little late does no harm. `history` shows what still holds in both cases.

### Where text and code differ

Met while modelling; the model follows the code.

| The text | The code | In the model |
|---|---|---|
| equipment_report.md:149, a sensor is rescheduled once its value is sent | when it is sampled (run_equipment.c:143) | `Scan` changes `due`; `ReadingsConserved` shows that it costs nothing while connected |
| README.md:287, the buffer is written to disk | in the first `RETENTION_SEC` after boot the cutoff wraps: a flush writes nothing and empties the buffer (file_logger.c:127) | `CutoffWrapped`, the exception of `AcceptedReachesFile` |
| README.md:287, every second | only when a packet arrives (file_logger.c:167): when the equipment stops, the last packets wait in the buffer for the next one or for the shutdown | guard of the flush in `AddToLogBuffer`; `KillLosesOneInterval` says what a kill can cost |
| README.md:287, the buffer is written to disk | the shutdown tries once; when `fopen` fails then, the buffer is lost (file_logger.c:173) | the exception `pc = "exited" /\ retrying` of `AcceptedReachesFile` |
| README.md:287, the buffer is written to disk | the results of `fprintf`, `fflush`, `fsync` and `fclose` are ignored and the buffer is emptied all the same (file_logger.c:133-155): a full disk or an I/O error loses the batch or a part of it | `DiskFails`, the exception `i \in lost` of `AcceptedReachesFile` |
| file_logger.c:116, the file is reset above 1 GB | from 200 MB on (file_logger.c:21, as README.md:288 says) | `MaxLogSize` |
| history_storage.h:7, a packet a millisecond, so 600000 in ten minutes | eight threads, each up to one a millisecond: 2257 a second while their sensors fall due at different times, for which 650000 slots hold under five minutes | the ring may be full before the retention, `HeldIsSuffix` |
| README.md:353, `[length][JSON]` | on a non-blocking socket EAGAIN drops the rest of a report and the next one follows (monitor_server.c:162) | `SendWouldBlock`; `FramesWhole` is about blocking sockets |
| json_builder.c:110, the flag is reset after transmission | when the JSON is built, with no client as well | `BuildPeriodicJson` |
| README.md:296, a report every second | not while a connected equipment is silent (run_server.c:32) | the premise of `ReportsWhileActive` |
| run_server.c:56, graceful shutdown | a client that does not read blocks the one thread in `send` | `HeldUp`, the exception of `ShutdownCompletes` |
| run_server.c:71, equipment reconnection loop | one connection at a time, and one whose host has vanished never ends, since `recv` says EAGAIN for ever (run_server.c:31-37): the equipment started anew waits in the backlog until the server is restarted | `Occupied`, the exception of `EquipmentAccepted` |
| connection_issues.md:30, receiving and accepting clients do not obstruct each other | equipments that come and go for ever, none sending a packet, keep the loop from every call of `monitor_accept_clients` (run_server.c:73-88) | the exception `[]<>(pc = "close")` of `ClientsServed` |
| run_server.c:56, graceful shutdown | packets the equipment has sent and the server has not received are given up (run_server.c:27) | `~running` in `CompletePacketsHandled` |
| connection_issues.md:33, the process does not end | any error of `accept` but EAGAIN ends it (run_server.c:84) | `AcceptFails`, `equip = "failed"` |
| README.md:121, the length counts the 10-byte header | the body only (packet.c:14) | `Secs2Codec` |
| README.md:106, the power consumption of the machine is 2000 to 10000 W; sensor_id_system.md:25, 2 to 10 kW | the values are 2000 to 10000, the log prints kW beside them (file_logger.c:56) | `SensorRows`' classes and `LogUnits` as the code has them; no property speaks of a unit being right for a value |
| README.md:85, force in kgf | the log prints N (file_logger.c:30), as README.md:284 and sensor_id_system.md:4 say; the values are the same 0.2 to 5 | `LogUnits` |
| app.js:298, the unit of the sensor selected | for Temp and Volt only, none for the other tiles | `ShowsUnit` |
| app.js:231, at most 100 entries | 101: trimmed before the entry is added | `Trimmed` tests the length before the entry is added |

### Fairness

- `ModuleWorkers`: weak fairness of every thread (the scheduler runs it), strong
  fairness of `Lock`: each thread sleeps a millisecond outside the mutex in every
  round (run_equipment.c:163), so one that waits is given it sooner or later; weak
  fairness of `ServerReads`, since `SampleSent` asks about a server that receives.
  The clock need not advance.
- `RunServer`: the main thread runs, seconds pass, and the clients in `Readers`
  read until they leave. The client outside `Readers` promises nothing, nor do the
  equipment and the operator. Strong fairness of `SendError`: the host of a client that
  has closed its end answers data with a reset, so `send` to it does not succeed for
  ever. That a call of `monitor_send_all` returns is not assumed: `HeldUp` is the state in
  which it waits, and every promise excepts staying there for ever (`[]HeldUp`).
- `Bridge`: the event loop runs each callback that is due. The server, the browsers
  and the network promise nothing.
- `RecvBuffer`: the server thread runs; no packet need come, and `MonitorCalls` has no
  fairness, since the call of `monitor_periodic_task` before `process_buffer` may wait in
  `send` for ever.
- The other modules are checked for safety only and have none.

## 4. Proofs

All hold for every value of the constants the named assumption allows.

`RecvBuffer_proofs`, for every `FixedSize`, `BufferSize`, `RecvMax` with
`FixedSize - 1 + RecvMax <= BufferSize` (`SizeAssumption`; the code has
4095 + 2048 <= 8192, three constants in three files):
`TypeCorrect`, `NeverDrops`, `AlwaysAligned`, and `ImplementsChannel`, the
refinement of `PacketChannel`. `NoByteDropped` and `PacketsAligned` are not
inductive: that a chunk fits follows only from `recv` being called with less than
one packet in the buffer (`RoomBeforeRecv`, which the extraction loop restores),
and that a packet is the right one only from the buffer being the stream's
unhandled tail in order (`BufferIsTail`). `IInv` adds these two and
`OpenIsConnected`.

`HistoryStorage_proofs`, for every ring size, retention, lag and wrap
(`HistoryAssumption`): `TypeCorrect`, `AlwaysSuffix` (the ring holds the last
`count` packets saved, in order) and `NewestNeverEvicted`. The strengthening says
that `tail` follows `head` by `count` slots, that the ring is empty only before
the first save, and that during an eviction `now` is the newest packet's own
timestamp, so the loop's condition is false for it before the ring is empty,
whatever the others' timestamps are. `ImplementsWindow` is the refinement of
`HistoryWindow`, for histories in timestamp order: while the loop runs, the window
is already that of the packets not older than the retention (`Fresh`), and each round
removes one packet that is not among them. It needs that what is left of an ordered
sequence is a suffix of it (`RecentIsEnd`), and that the unsigned difference is the
age of a packet when the newest is not older than it.

`Equipment_proofs`, first for `ModuleWorkers`, for any modules, sensors, periods, packet and socket sizes
(`WorkersAssumption`): `TypeCorrect`, `PacketsWhole` and `NoReadingLost`.
`WireAtomic` says what the wire looks like, which a step can only keep if it knows
where the wire ends. `WireInv` adds it: past the lock there is only the owner of the
mutex (`MutexHeld`), so at most one thread is in `send`; while connected the wire
ends with the `part` pieces that thread has sent and no others (`SenderAtEnd`), and
with a whole packet when there is none (`WholeBetween`); where a send was cut off,
the connection is down and nothing is appended any more. The step that appends
needs the remainder of the wire's length by `Parts` to go up by one or back to zero
(`ModStep`). For `ReadingsConserved`, `IInv` adds that every reading taken is older
than its sensor's deadline (`SampledBeforeDue`), so the one a scan takes is new, also
after the clock was set back; that the batches of two threads hold different sensors
(`BatchIsOwn`), so a packet going out takes from no other batch; and that a packet
being sent is the batch of its thread with the time of its scan (`PacketIsBatch`).
`ImplementsStream` is the refinement of `PacketStream`, where a packet appears with its
last piece. `SInv` adds that the packets on the wire are numbered as they lie
(`Numbered`), that the pieces at its end are the current packet's (`PiecesAtEnd`), that
every packet sent has its sensors due a period later (`SentBeforeDue`), and that a
batch waiting for the mutex is later than all its module has sent (`BatchIsLater`).
The proof attempt showed the promise could be stronger than the one first stated,
which excepted a clock set back: a scan takes no sensor before its deadline, so the
order holds then too.

Then for `SensorTables` (`TablesAssumption`). `AbnormalAlwaysDetected`: for any
`DeltaParts`, the code's 10000 included, a value is outside the range of its class
exactly when it was drawn abnormal. It needs that the class of the sensor followed no
longer changes (`Finished`), that every class is at least two wide, so a half width is
not zero (`ClassRange`, `HalfWidth`), and that a part of a width lies in it
(`PartOfWidth`). `EverySensorKnown` and `BuffersLargeEnough` rest on `TablesInv`: the
sensor at position `i` is a unit of the row whose positions it is among. The
functions `RowStart`, `RowModule` and `RowType` give the rows' first positions and keys; that
the layout and `init_sensors` have these rows is looked up row by row (`RowsOf`,
`LayoutOf`), as is the unit of each in the log (`LogAgrees`). Then a decoded id names one
row (`RowKeysDiffer`) and its tile is its position (`TileOf`), so that no two share one
and, with as many tiles as sensors (`TileCountIs`), none is left over. `BuffersLargeEnough` has sizes
as hypotheses: 128 sensors, a packet of 1568 bytes, a report buffer of 10557, 8000
entries of the log buffer; the code's sizes (128, 4096, 32768, 10000) satisfy them. No
more than a packet per millisecond and thread is used (`DueIs`, `PacketsBounded`), so unlike the
2257 of the tables it does not depend on the periods; the longest number of a report
is the most abnormal power consumption, ten characters (`LongestIs`).

`Secs2Codec_proofs`, for any base above 2, packet size, number of sensors and values in
the range of their fields (`CodecAssumption`; the code has base 256, packets of 4096 bytes
and needs 14 + 18 + 12 * 128 = 1568): `AlwaysDecoded`, and `StaysInPacket`, that neither side
leaves the packet, which neither tests. A number is what its big-endian digits make
(`NumberIs`: the decoder's recursion reads `n \div Power[k]` after all but `k` digits), so an
item read where it was written is the one written (`HeaderAt`, `ItemAt`). `CodecInv` says
where the body stands in the packet once it is sent, and that the parser's offset is
behind exactly the readings it has taken (`SensorsRead`): it is after the same parts as
the encoder's was, whether a length took one byte or two.

`MonitorServer_proofs`, for any clients, table, report length and socket room
(`MonitorAssumption`): `TableAlwaysMatches`, `EquipmentNeverTouched`,
`FramesAlwaysWhole`. The table is related to the sockets client
by client (`TableInv`), and a new client's entry needs the smallest of the free ones
to exist (`FirstFreeIsFree`, from the library's theorem on well-founded sets). For
descriptor 0, `ZeroInv` says that between two reports it is still the input or no
entry is 0 any more, and that the walk has freed the entries it has passed. For
frames, `FrameInv` says what each client expects: the piece `part` if it is the one
being served, else the start of a frame.

The same module has the proofs of what is built on `MonitorServer`. For
`ReportDelivery`: `AnomalyAlwaysDelivered`. `OwedInv` says that a client that is
owed an anomaly is in the table, and either the flag is still set or the report that
carries it has yet to come to its entry; that the last piece is the one that counts
needs `FrameInv`. Its steps are steps of `MonitorServer` (`StepIsMonStep`), so what is
proved there holds too (`DeliveryUsesMonitor`). For `RunServer`: `ServerUsesMonitor`,
that every behaviour of the main loop is one of `MonSpec`: a report is under way only
inside the two calls of `monitor_periodic_task` (`SendingInTask`). So the properties of
the monitoring side hold in the server (`ServerKeepsMonitor`). `ServerStaysUp` is
inductive with the same fact.

`SensorRegistry_proofs`, for any sensors, readings, classes and windows
(`RegistryAssumption`): `TypeCorrect`, `OneEntryAlways`, `SumsAlwaysExact` and
`ImplementsReport`. That the table does not outgrow `states[]`, which no line of the
code checks, is the pigeonhole theorem: the ids of the entries inject into the sensors
there are. The refinement of
`SensorReport` maps an entry to its readings, oldest first (`Ordered`), and adds
`SumsExact`: the running sum is that of the window, and an entry whose window is not
full has its next slot behind its last reading. `AveragedReadings` is the core: one
update of the ring appends the reading, drops the first of a full window and keeps
the sum. That a sum grows by what is appended and shrinks by what is dropped
(`SumAppend`, `SumTail`) is an induction over the sequence.

`HandlePacket_proofs`, for any buffer and file size, flush interval above zero and
lateness (`LoggerAssumption`): `LoggerLosesOneInterval`, and
`HandlingLosesOneInterval` for the logger driven by `handle_packet`. The invariant
adds that during a flush everything in the buffer is older than the call that began
it (`BufferStamped`), which is what `lastFlush` is set to; and that the packet saved
and not yet logged belongs to the running interval (`SavedInv`), since no flush begins
between the two calls. `LoggedInOrder` and `AcceptedIsWritten` rest on what the loop
of the flush has written when it has passed entry `i` (`Written`, `LinesAre`): the kept
entries, in order, so file and buffer stay one rising sequence, and nothing is left
out when the cutoff has not wrapped, since every packet is stamped later than any
uptime (`Boot`, seconds since 1970 against seconds since boot) and its write has not failed
(`Reaches`): whichever entries of a batch a failing disk takes, the others are in the file. `LogBacksTheRing` composes
this with the ring's own invariant, which holds in `HandlePacket` since its steps are
steps of `HistoryStorage` (`SameSteps`): what the ring holds was logged, or was given
up (`unlogged`: full buffer, wrapped cutoff, failed write,
full file begun anew), or is the packet of the call under way.

`Monitoring_proofs`, for `Bridge`, any number and sizes of reports, connections and browsers
(`BridgeAssumption`): `AlwaysInStep` and `AlwaysInOrder`. The stream is cut at the ends of
the reports (`End`, a sum, with its own induction). The strengthening says where the
connection stands between two ends (`Framed`), when the forwarding loop may run
(`Looping`), and that what an open browser was sent last is the last report forwarded,
or one of an earlier connection when nothing was forwarded on this one (`LastSeen`).
The step that forwards needs the buffer to begin with a header (`HeaderInFront`) and
the cut behind its report to leave the rest of the stream (`StreamCut`).

The same module, for `Dashboard`, any tiles, messages and limits (`DashboardAssumption`):
`ViewsAlwaysAgree` and `LogAlwaysNewest`. The panel is drawn again only at the end of a
report (`PanelShowsActive`), but a tile with each reading: the invariant says that tiles
agree with the store between two readings too (`TilesShowStore`), that only a sensor
known to the store is selected (`ActiveIsKnown`). `LogIsNewest` gives the log's length, so it
is inductive as it stands.

The library's induction theorems take an operator as a parameter, which no prover
here instantiates. Where a proof needs induction it takes the least counterexample
of a set of numbers (`LeastOf`, from `WFMin`), and recursion is written as recursive
functions, never as `RECURSIVE` operators; that such a function has the values its
definition says is proved the same way (`EndReaches`, `LoopReaches`, `FilterReaches`,
`SumReaches`, `HornerReaches`). Powers are such a function too (`Power`), and the powers of
ten of `Digits` a table: the provers know nothing of `^`.

Every invariant and every property of steps that a run checks is proved, but for
what is only model-checked: everything about liveness, `ENABLED` and fairness, which the
prover does not handle (`SampleSent`, `CompletePacketsHandled`, `ShutdownCompletes`,
`ReportsWhileActive`, `ClientsServed`, `EquipmentAccepted`, `EntriesReclaimed`, `Reconnects`,
`WholeReportForwarded`).

Type invariants are checked in the runs `recv` and `workers`; `HistoryStorage`,
`MonitorServer` and `SensorRegistry` have theirs proved (`TypeCorrect`,
`MonTypeCorrect`), which is why no run repeats them.

## 5. Not modelled

- `process_sensor`, `parse_sensor_list`, `build_json`,
  `generate_sensor_data_with_period`: called nowhere.
- A failing `socket` of the monitoring side (`FD_SET` of -1 is undefined; a failing
  `bind` or `listen` is modelled). The model takes the standard input to be open when
  the server starts; a server started without it would give descriptor 0 to its
  first socket, or for a moment to the log file.
- `HandlePacket` does not read the packet: a packet that does not decode is not sent
  by this equipment (`Secs2Codec`), and what it does to the sensor states is
  `SensorRegistry`'s.
- How long the ring lasts: it depends on how often sensors of different periods fall
  due together, which the code does not determine.
- The drift of `float` running sums; random number generation.
- `server/test`, debug printing, `.env` reading, page layout and chart set-up: they
  keep no state the rest depends on.
- Dashboard reconnection: there is none in the code, so after a restart of the bridge
  the page shows old values until it is reloaded (app.js:146).

## 6. Plan

Order: what everything else rests on first. Done: receive path, history, threads,
log, monitoring, main loop, sensor states, codec, tables, bridge, dashboard; the
composition of history and log in `handle_packet`, the delivery of anomalies, a
failing `bind`, the buffers; the proofs above.

Proved since: `Bridge`, `Dashboard`, the order and completeness of the log, the
refinements `HistoryWindow`, `PacketStream` and `SensorReport`, the codec, the values, and
what the tables promise.

Left: only the liveness properties, which stay with TLC.
