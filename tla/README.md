# Formal models of the IoT monitoring system

TLA+ models of the C server of this repository (`server/`) and of what talks to
it: its sensors (`sensors/`), its authentication service (`auth-service/`) and an
operator's client and dashboard (`operator-client/`). TLC runs check them on small
instances; TLAPS proofs establish their safety for every value of the constants.
Paths below are relative to `src/`.

    tlc -workers 2 -config MCSensorManager.cfg MCSensorManager
    tlapm SensorManagerProofs.tla

## 1. The system

Sensors (Python threads) and operators (a Java client behind a web dashboard)
hold TCP connections to one C server. The server runs one detached thread per
connection; a LOGIN is vouched for by a separate Python service. Commands and
replies are lines of text; besides replies, an operator receives `ALERTA` lines
that other threads push to its socket.

    sensors -- REGISTER_SENSOR, MEASUREMENT --> server thread
                                                  | sensor_manager.c   (sensor_mutex)
                                                  | alert_engine.c     (alert_mutex)
                                                  | broadcast_alert    (operator_mutex,
                                                  |                     one write_mutex per context)
                                                  | protocol.c         (one static reply buffer)
    browser <-- WebSocket -- operator client <-- replies, ALERTA -- server thread
                                                  | auth_client.c --> auth_server.py

### Inventory

| Component | State | Operations | What is hard | What makes it correct |
|---|---|---|---|---|
| Sensor manager (`server/src/sensor_manager.c`) | `sensors[50]`, `sensor_count`, under `sensor_mutex` | register, add_measurement, get_sensor_type, get_active_sensors | ids are truncated to 31 characters; the table fills up; a pointer into the table is used after the unlock | a map from ids to first type and last reading; one slot per sensor; a published slot keeps id and type |
| Alert engine (`server/src/alert_engine.c`) | `thresholds[100]`, `active_alerts[100]`, under `alert_mutex` | register_threshold (only from `main`), check_measurement, get_active_alerts | one measurement fires several thresholds in a loop; a full list is shifted inside that loop | evaluation of a measurement is atomic; the list is the latest alerts; the returned count says whether to broadcast |
| Connection threads and operator registry (`server/src/server.c`) | a context per connection (descriptor, `write_mutex`), `operator_clients[100]`, `operator_write_mutexes[100]`, `operator_count`, under `operator_mutex` | accept, recv, register_operator, broadcast_alert, send_complete_response, remove_operator, close, free | nested mutexes, blocking sends while they are held, reuse of descriptors, slots never reused, resets and SIGPIPE, 60 s receive timeout | no use of a freed context or of another client's socket; one writer per socket; alerts reach all operators, only operators, once, in one order; commands are answered |
| Command parser and reply builder (`server/src/protocol.c`) | `strtok`'s static position; the static `resp_buf[512]` | protocol_parse, protocol_build_* | every thread parses with the same position, builds in the same buffer and sends from it, without a mutex; a reply is cut at 511 bytes | a client's command has its own arguments and gets its own reply |
| Measurement pipeline (`server/src/server.c:151-185`) | none of its own | register; store, then check, then broadcast: three critical sections | threads overtake each other between them | a measurement is judged in one step, and operators are told of it iff an alert is on record |
| Authentication (`server/src/auth_client.c`, `auth-service/`) | user database (not written while it runs), one client at a time | connect, ask, read; accept, verify, answer | no timeout on the answer; one exception ends the service | a LOGIN is answered |
| Sensor nodes (`sensors/`) | per thread: socket and place in `run()` | connect, register, measure, sleep, retry | answers awaited without a timeout; a restarted server has forgotten the sensors; the server's 60 s timeout | a sensor on a live connection is registered, its last reading is the one stored, and it goes on measuring |
| Operator client (`operator-client/`) | socket, reader thread, `running`, cache | LOGIN, poll, read, publish, disconnect | an `ALERTA` line before the answer to LOGIN; polls answered together; a list without an end-of-line; end of stream without notice | the dashboard shows what the server has |
| Browser dashboard (`dashboard.js`) | sensors and alerts shown | initial fetch, subscriptions | the fetch races the pushes | shows the latest |
| Web security and configuration, logger | none / a file under its own leaf mutex | - | - | - |

## 2. Modules

| Module | Models | Kind |
|---|---|---|
| `SensorDirectory` | what the sensor manager promises: a bounded map from ids to first type and last reading | abstract specification |
| `SensorManager` | `sensor_manager.c`: the array, its linear searches, the truncation of ids | detailed; refines `SensorDirectory` |
| `AlertEngine` | `alert_engine.c` and the calls of `main.c` that configure it | detailed |
| `MeasurementFeed` | what the server promises of a measurement: judged in one step, told of, answered | abstract specification |
| `MeasurementPipeline` | `handle_client`'s cases REGISTER_SENSOR and MEASUREMENT: sensor table, alert engine and broadcast as a thread calls them | composition; extends `AlertEngine`, refines `MeasurementFeed` |
| `AlertLog` | what the server promises operators: one log of alerts, which each is sent from its login on | abstract specification |
| `ConnectionThreads` | `server.c`: `start_server`'s accept loop, `handle_client`, the operator registry, mutexes, and the sockets as seen from `server.c` | detailed; refines `AlertLog` |
| `ResponseBuffer` | the builds of `protocol.c` in its static buffer and the reads of it by `send_complete_response` | detailed |
| `CommandParser` | `protocol_parse` over `strtok`'s shared position, between the two builds of a command | composition; extends and refines `ResponseBuffer` |
| `SensorNode` | `sensor_base.py`'s loop in several sensors, with the server's table, its restarts and the network's faults | detailed |
| `OperatorSession` | one operator's session: a connection's thread of the server, the auth service, `ServerConnectionService`, and a page of the dashboard | detailed |
| `MC...` | finite instances for TLC | |
| `...Proofs` | theorems about the module of that name | |

Each model module also holds, before some definitions, a faulty variant of that
definition (the module's header lists them). None is part of a specification;
section 5 says which property each one violates.

### SensorManager

`sensors` is `sensors[0 .. sensor_count-1]` as a sequence. Every function of the
file locks `sensor_mutex` first and unlocks it before it returns and blocks on
nothing else, so one call is one action, and concurrent callers are interleaved
by the choice of the next call. `Stored[id]` is what `strncpy(..., 31)` leaves of
an id; comparisons are between what was stored and what is sent, as in the code.
`answer` is the call that returned last with its result; `acknowledged` is a
history variable: ids whose registration returned 0. The queries change nothing.
`sensor_manager_cleanup` follows an accept loop without an exit and is left out.

### AlertEngine

`main_pc` walks through the registrations of `main()`, which precede any
connection. `BeginCheck` is `alert_engine_check_measurement` up to the lock,
`RaiseAlert` and `SkipThreshold` are one iteration of its loop, `EndCheck` is the
unlock and the return. An alert's `timestamp` is the number of the call that
raised it (the code has one-second `time()` stamps) and `message` the index of the
threshold whose text it carries. `calls` and `raised` are histories. A threshold
without a type would be refused; `main()` registers none.
`alert_engine_resolve_alert` has no caller in the repository.

### MeasurementPipeline and MeasurementFeed

`step` is where a thread is in its command: `idle`; `stored`, after
`sensor_manager_add_measurement` has returned 0; `check`, inside
`alert_engine_check_measurement` (the actions of the extended `AlertEngine`);
`tell`, before `broadcast_alert`; `telling`, inside it; `reply`. None of the mutexes is
held between these, which is where threads overtake each other. `Serves[t]` are the sensors on
the connection of `t`: `run_sensors.py` gives every sensor thread ids and a connection of its
own. `table` is the map that `SensorManager` is shown to implement, with room for
`MAX_SENSORS`; `told` is the history of broadcasts. `Room` leaves place within `MaxCalls`
for the checks that are about to begin.

`Tell` waits for `operator_mutex`, which another thread's broadcast may hold, and takes
it; `EndTell` gives it back when all sends have returned, which they need not: a send
to an operator that does not read blocks. `Dies` is SIGPIPE in a send of a broadcast
or of an answer, and ends everything (`alive`). To whom a broadcast sends, and when a
send raises SIGPIPE, is the subject of `ConnectionThreads`.

In `MeasurementFeed` storing, judging by all thresholds, telling and answering are
one step each. The mapping: `FeedPhase` is `step` with `check` as `stored` and
`telling` as `reply`;
`FeedRecord` has one entry for each finished check, with the thresholds whose
alerts it has raised; `FeedTold` are the measurements of `told`; `FeedExceeds` is
what the configured thresholds say of a value. Thus the loop stutters and the
return of the check (`Leave`) is `Judge`.

### ConnectionThreads and AlertLog

A member of `Conn` is one accepted connection. `pc` is where its thread is:

| `pc` | in `handle_client` |
|---|---|
| `recv` | blocked in or about to call `recv` |
| `login` | credentials accepted, about to enter `register_operator` |
| `broadcast`, `scan`, `push` | `broadcast_alert`: before its lock; at the top of its loop; inside `send` with the operator's `write_mutex` |
| `reply`, `send` | before `pthread_mutex_lock(&context->write_mutex)`; inside `send_complete_response` |
| `remove`, `close`, `release`, `done` | before `remove_operator`; before `CLOSE_SOCKET`; before destroy and free; thread over |

Commands are abstracted to three kinds: a `login` whose credentials the service
accepts, a `measure` that raises an alert, and any `other` (a refused LOGIN and a
measurement without alert included), which only gets a reply. Slots hold
descriptors and mutex owners as in the two arrays; a descriptor is the lowest free
one, as the kernel gives it, so it is reused. The remote end `peer` is `open`,
`fin` (closed in order), `rst` (reset, not yet reported by a system call) or `dead`
(reported). A `send` blocks while `SockBuf` messages are unread; to `fin` it
succeeds and may provoke a reset; to `rst` it fails once; to `dead` it raises
SIGPIPE, whose default ends the process (`alive`). `stream` is the history of
alerts and role replies accepted for the peer, `published` that of the alerts whose
broadcast has begun, `commands` and `logins` count commands. A remote end that
closes (`PeerCloses`) has read what it will ever read: `unread` is 0 from then on.

A few steps are coarser than the code: `register_operator` and `remove_operator`
are one action each, since they hold `operator_mutex` from their first to their
last access and wait for nothing; the accept loop's failure paths (no memory, no
thread) close the descriptor they have just got and are not modelled; a message is
sent by one `send`, since `send_complete_response` repeats it until all is sent
and what other threads could do in between is excluded by the `write_mutex`.

`AlertLog` knows nothing of slots, descriptors or mutexes: there is a `log`, and
`next` gives, for every client that listens, the entry that it is sent next. An
alert may only be published when all have been sent the ones before. The mapping:
`log` is `published`, `received` is `stream`, and `Cursor` gives to every `Reachable`
operator (in the table, its connection open) the last entry while a running
broadcast is `Behind` its slot, and the entry to come otherwise. Thus `BeginBroadcast` is
`Publish`, `register_operator` is `Join` unless the table is full, a push to an open
connection is `Deliver`, an answer `Answer`, and `remove_operator` or the closing of
the remote end, whichever is first, is `Leave`; everything else stutters.

### ResponseBuffer

A build (`snprintf` into `resp_buf`) has a first and a last step. `resp_buf` is the
set of texts that some of its bytes may come from: when builds overlap, any of
their texts or a mixture (`Torn`) may be read - that is the data race's outcome
taken as a nondeterministic choice. `handle_client` first builds a 404 for every
command (`BeginDefault`), then the reply of the case, then `strlen` and `send` read
the buffer one after the other. `over`, `disturbed` and `recent` remember which
other builds have overlapped.

### CommandParser

`olds` is `strtok`'s position: a thread, in whose `raw_buffer` it is, and the number
of the next argument there. `Tokenize` is the first call, with the buffer; each
`strtok(NULL, " ")` is a load of the position (`Load`) and, after that, either a
token and the next position (`Take`) or the end (`Finish`). In another thread's
buffer, which its owner may be overwriting, both outcomes are possible. `args[t]`
says where each argument of the command was found, so "its own arguments" is
`Own(t)`; `overlapped` remembers whether another thread has parsed meanwhile.
`Exchange` and `Reply` are the steps of `ResponseBuffer`. A token beyond `MAX_ARGS`
ends the parse, as in the code.

### SensorNode

`pc` is where `run()` is:

| `pc` | in `sensor_base.py` |
|---|---|
| `connect`, `register`, `registering` | in `_connect`; before and after the `sendall` of REGISTER_SENSOR |
| `measure`, `measuring`, `sleep` | before the first and after each `sendall` of MEASUREMENT; in `time.sleep(interval)` |
| `retry` | in `time.sleep(retry_interval)` after a network error |
| `ended`, `interrupted` | the thread has ended by a `ValueError`; by an interrupt |

`conn` is the sensor's connection: `none`, `open`, `closed` (ended by the server or
reset; noticed at the next wait for an answer) or `silent` (the other side has
vanished without a word). A sensor waits for each answer, so one `request` and one
`answer` are enough. Of a reading only which of the last two it was is kept, which
tells a stale one from the present one. `Crash` ends the server and empties its
table (answers already sent may still arrive), `Start` starts it again,
`ReceiveTimesOut` is the server's `SO_RCVTIMEO` against a `Slow` sensor or one that has
ended, and
`ConnectionLost` is a reset or silence, with a request or an answer on its way
lost or not. `Interrupt` ends one sensor (each may be a process of its own) or, one
after the other, all.

### OperatorSession

`version` numbers the states of the server's sensors, so that "the dashboard shows
the present sensors" is a comparison of numbers. Three queues connect the parts:
`requests` (commands the server has not received), `lines` (what the client has
not read) and `topic` (what Spring has sent to the page and no callback has got).
`pc` is where the client is:

| `pc` | in `ServerConnectionService` |
|---|---|
| `start` | before `connect` |
| `login`, `identify` | in `authenticate`, waiting for the answer to that command |
| `reading`, `ended` | the reader thread runs; it has left its loop |
| `failed` | `connect` or `authenticate` has given up, for good |

A LOGIN goes to the auth service. `AskService` is `auth_client_verify` up to its
`read`, or its failure to connect (503), or the 400 of a LOGIN whose arguments another
thread's parse has taken. `stage` is where the thread is in a LOGIN: `verify`, in that
`read`; `register`, before `operator_mutex`. `auth` says whom the service, which is
sequential, is serving: nobody, us, others that connected before us, or that it has
ended by an exception, for good. `Refused` is the return of `auth_client_verify` without
a role. With one, `register_operator` takes one of the `MaxOperators` slots, or finds
none left (`turnedAway`), and the answer is OK in both cases: `operator_count` never
goes down, and others take slots too (`OthersLogIn`). The answer follows (`SendReply`),
and another thread's alert may come between (`PushAlert`). `recv` may return several
polls at once; only the first is answered (`HandleCommand`).

What is sent is what the buffer of all threads holds at that time. `SendForeign` sends
what another thread has built there: any text that a command can leave in it
(`ForeignTexts`, an older list and a text cut before its end-of-line included), or the
beginning of it and then a rest, as the length measured before has it. `races` counts
such replies.

A list of sensors from version `LongFrom` on does not fit the reply buffer: its line
is `open`, `readLine` does not return it, and what is sent next continues it (`Put`),
until something with an end-of-line does, or the stream ends.

The server may end the connection at any moment; the client then reads an end of
stream (`eof`) or an exception (`reset`, which may also lose what was not yet read),
and never connects again. `disconnect` is the shutdown of the application.
`pollSensors` writes every two seconds, whatever has become of the reader.
A page is opened at most once; its first request is answered from the cache and
may be rendered late or fail. `WebSocketConfig` does not ask Spring to preserve the
order of publication, so `Render` takes any of the messages on their way. A lost
WebSocket loses them, and `dashboard.js` subscribes again.

The other threads of the server appear here only through what they do to this
session: they send alerts, take slots, hold `operator_mutex` and overwrite replies.
How they do it is the subject of `ConnectionThreads` and `ResponseBuffer`.

## 3. Runs

| Run | Bounds | What it shows |
|---|---|---|
| `MCSensorManager` | 3 ids, 2 types, 2 readings, 2 slots | the table implements the map; it fills up with one sensor too many, and sensors re-register with another type |
| `MCMeasurementPipeline` | 2 threads, 4 calls, 6 measurements of 4 sensors, room for 3 sensors, 3 thresholds, list of 3 | a measurement is evaluated atomically and in series, told of iff on record, and answered, while threads overtake each other; a reading above both limits raises two alerts, so two such calls overflow the list inside a call; a broadcast may never end, or end the process (200,000 states) |
| `MCConnectionThreads` | 2 connections, 2 descriptors, 2 slots, 4 commands, 1 unread message | login, alert, reply and departure in every order; two operators that both measure are the least with which two broadcasts race to two operators; a connection accepted after the other has ended takes over its descriptor |
| `MCConnectionLiveness` | 2 connections, 2 commands, 1 unread message | liveness under `FairSpec`; a broadcast can block on an operator that has not read |
| `MCCommandParser` | 2 threads, 3 commands, 2 own kinds, `ping`, `unknown`, 2 arguments at most | what the shared position and the shared buffer still guarantee, with two races in a row |
| `MCOperatorSession` | 1 change of the sensors, 1 alert, 1 lost WebSocket, 1 slot for operators, 1 overwritten reply, 2 items per queue | safety and liveness of the session under its `FairSpec`; the bounds let two messages pass each other, two polls be answered together, another operator take the last slot, an alert fall before, inside and after the handshake, and an overwritten reply spoil either answer, bring an older list, or be cut and continued (319,000 states). A second change of the sensors, with a list that is too long by itself, is beyond five minutes with all of this; `MCLongList` has such a list, and the theorems have any number |
| `MCSensorNode` | 3 sensors, one of them slow and one with an invalid id; 2 slots, 1 crash, 1 fault | safety and liveness of the sensors under their `FairSpec`; whoever registers first after a restart, one finds the table full |
| `MCSensorManagerLongId` | an id of 32 characters and its truncation | **violated**: acknowledged, then unknown (section 6) |
| `MCLoginSlots` | one slot, 2 connections | **violated**: answered OK, in no slot |
| `MCBrokenPipe` | 2 connections | **violated**: one reset client ends the server |
| `MCSharedAnswers` | 2 threads | **violated**: a client gets another command's answer |
| `MCLongList` | the first change makes the list too long; no other hazard | **violated**: the dashboard never shows it |

Bounds in guards: `MaxCommands`, `MaxLogins` (per connection), `MaxCalls`,
`MaxCrashes` and `MaxFaults`; each connection is accepted at most once. They are
parameters, and the theorems hold for all their values except where they say
`MaxLogins <= 1`. The state machines are symmetric in connections and threads, and
`SYMMETRY` is used in safety runs only. Races need two actors, which is what the
instances have. `Finished` and `Over` let behaviours that have used up their
bounds stutter, so deadlock is checked: no combination of `operator_mutex`, the
`write_mutex`es and full sockets stops all threads and remote ends. The exceptions
are `MCOperatorSession` and `MCLongList`, where a client that could not connect or
log in does stop for good, and `MCSensorNode`, where sensors that have been
interrupted do, all as in the code. In `OperatorSession`, `MaxVersion`,
`MaxAlerts`, `MaxDrops` and `MaxRaces` bound what happens, and `Capacity` stands for the
buffers of TCP and of Spring. `MAX_SENSORS` and `MaxOperators` are sizes of tables (50
and 100 in the code), so small here that they fill up.

### Properties

* `SensorManager`: `UniqueIds`, `SlotsAreFrozen` (why the pointer returned by
  `sensor_manager_get_sensor_type` is safe), `AcknowledgedIsKnown`,
  `ImplementsDirectory`.
* `AlertEngine`, checked inside the pipeline: `ActiveAreLatest`,
  `EvaluationIsAtomic`, `RecordIsSerial`, `ReturnTellsRaised`.
* `MeasurementPipeline`: `TableAgreesWithEngine` (the table shows the value checked
  last, although storing and checking are two steps), `ImplementsFeed`, and, under
  fairness, `RaisedIsTold`.
* `ConnectionThreads`: `ContextsOutliveUse`, `OneWriterPerSocket`,
  `AlertsOnlyToOperators`, `OperatorsStayListed`, `BroadcastReachesAll`,
  `NoCircularWait` (no circle of threads waits for each other's mutexes),
  `ImplementsLog`, and, under fairness, `CommandsAnswered` and `GoneClientsReleased`.
* `ResponseBuffer`, checked with the parser between its builds: `UndisturbedIsOwn`,
  `AnswersAreRecent`.
* `CommandParser`: `AloneIsOwn`.
* `SensorNode`: `RegisteredWhileConnected`, `LatestIsStored`, `EndedNeverMeasured` (what
  becomes of an invalid id), and, under fairness, `MeasuringGoesOn`.
* `OperatorSession`: `ReaderIsRegistered` and `GivesUpOnlyIfOvertaken` (in which ways a
  client and the server can come to disagree about its login: a full table, an early
  alert, a reply overwritten by another thread, and no other), `AlertsArriveOnce`,
  `CacheNeverOlder` (as long as no reply is overwritten), and, under fairness,
  `DashboardCatchesUp`, `AlertsAreShown` and `LoginSettles`. The first two of these three
  are about a page of a live session; what they exempt (a list that is too long, a
  reset that loses lines, an alert published while the page is not subscribed) the
  code really loses. `LoginSettles` names the places where a LOGIN can wait for ever.

### Fairness

`FairThreads` has weak fairness on each thread's next step. The scheduler runs
every runnable thread; `recv` returns within 60 seconds by `SO_RCVTIMEO`
(`configure_receive_timeout`), so even a silent connection makes progress. Weak
fairness does not promise a mutex to a thread that others keep taking; commands
are finitely many in a behaviour, so a mutex is free for good in the end. Hence
`CommandsAnswered` says that no thread waits for ever on a finite load, and says
nothing of fairness between threads under an unbounded one; the wait of a LOGIN for
the auth service is not in it (that is `LoginSettles`). `FairSpec` adds that
remote ends that are open keep reading. Both liveness properties allow the death
of the process by SIGPIPE, which is a finding of its own. No fairness is put on
remote ends closing, on new connections or on the arrival of commands.

`FairPipelineSpec` has weak fairness on each thread once it has stored a measurement, up
to the lock of its broadcast. It is kept waiting by `alert_mutex`, which is held for a
bounded loop, and by `operator_mutex`, which is held over the blocking sends of
another broadcast. Of those nothing is assumed: `EndTell` has no fairness, and the
premise of `RaisedIsTold`, that `operator_mutex` is free time and again, says where
the code relies on operators that read (or go away). Calls are finitely many, so
nobody is overtaken for ever. The property also allows the death of the process.
Nothing is assumed of the arrival of commands.

`SensorNode!FairSpec` has weak fairness on each sensor's thread, on the server
thread of each connection and on `Start`: somebody starts a server that has ended.
That is an assumption about its operation, and without it nothing could go on. That
a server thread answers assumes that operators read: a measurement that raises an
alert is broadcast before it is answered, and both that broadcast and one that holds
`operator_mutex` before it may block on an operator that does not. `MeasuringGoesOn`
holds under this assumption, beside the exemptions that it states.
Nothing is assumed of interrupts, timeouts, crashes or the network; in particular a
silent connection may stay silent, which `MeasuringGoesOn` exempts.

`OperatorSession!FairSpec` has weak fairness on the server thread (`Serve`), on the
accept of the auth service when nobody else is served (`AcceptUs`), on the client's
`Read`, `pollSensors` (`@Scheduled`), the page's fetch and subscription
(`fetchSensorsOnce` always settles; the STOMP client reconnects), and on the oldest
message on its way to the page. Nothing is assumed of the answers of the auth service,
to us or to others: its `recv` and our `read` have no timeout, so either may last for
ever. Nor is anything assumed of `operator_mutex` (`register_operator`), of changes of
the sensors, of alerts, of users or of failures; that the service ends at an exception
is one of its outcomes.

## 4. Proofs

All theorems are about the specifications that TLC checks; no definition is
replaced in a configuration. The assumptions are the `ASSUME`s of the modules
(evaluated by TLC on every run) and, where stated, a hypothesis of the theorem.

**SensorManagerProofs.** `TypeCorrect` and `SlotsFrozen` are direct: a call
appends, or changes `reading` and `is_active` of one slot. `IdsUnique` and
`AcknowledgedKnown` assume `ShortIds` (every id fits its slot; without it TLC
refutes the latter) and rest on the conjunction of both with typing. `Refines`
proves that every call maps to a call on the map: `DirectoryAt` turns the map's
`CHOOSE` into "the slot with this id" by uniqueness, `DirectorySize` shows
that the map has as many entries as the table slots (so a full table is a full
map), and one lemma per case of each call does the rest.

**AlertEngineProofs.** `Exclusion` (only the owner of `alert_mutex` is in the loop,
one call per thread, no call before `main()` has finished) carries `TypeCorrect`.
`ActiveLatest` is by the lemma that `add_active_alert` keeps the list a tail of the
record. For the loop the inductive invariant is `Engine`: `Recorded` (alerts of the
running call come from thresholds already passed), `Evaluated` (a finished call
has raised exactly what fires; the running one, exactly that below `i`) and
`Counted`. Released from its clause about the running call, `Evaluated` is
`EvaluationIsAtomic`: hence `Atomic`, `Serial`, `ReturnsTell`.

**MeasurementPipelineProofs.** Every step of the pipeline is one of `AlertEngine` or
leaves it alone (`PipelineRefinesEngine`), so `Engine` holds of it too. `Commands` says
what a thread's command has got at each `step`, `Ledger` what the table shows of a
sensor there: between store and check, the value about to be checked; otherwise,
the one checked last. That a sensor has one connection (`ServesAssumption`) is what
keeps other threads off its entry. This gives `TableAgrees`. `PipelineImplementsFeed`
adds `Loaded` (the thresholds are those configured), `Named` (an alert names one of
them) and `Told` (what was told has been checked); then each action maps to one
lemma: arrivals and answers to themselves, a loop iteration to a stutter (the
record only has finished checks), as are the end of a broadcast and that of the
process, `Leave` to `Judge`, where `Evaluated` says that the
alerts of the call are those of `FeedExceeds`.

**ResponseBufferProofs.** `Control` relates `pc` and the command; `Overlaps` says
that builds in progress know of each other; `Alone` that an undisturbed reply is
the only text in the buffer until it is sent; `Fresh` that what can be read from
the end of the 404 on has been built since the command was received. The last two
give `Undisturbed` and `Recent`. `Fresh` needs every command to end a build of its
own before it reads, which the unconditional 404 provides.

**CommandParserProofs.** `ParserRefinesBuffer`: the parse is a stutter of
`ResponseBuffer`, whose theorems therefore hold with the parser as well. `Undivided`
says that while nobody else parses, `olds` is just behind the arguments found so
far (and, inside a call, so is `loaded`); it needs no assumption on where `olds` was
before, since the first call is given the buffer. `ParsedAlone` follows.

**ConnectionThreadsProofs.** `TypeCorrect` holds for any number of logins.
`Descriptors` (a thread has a descriptor of its own from accept to close),
`Mutexes` (who holds which mutex at which `pc`) and `Table` (a slot in use belongs
to a thread in session, one slot each, with its own descriptor) are preserved by
every action if a connection logs in at most once (`Sessions`). `Table` is what
makes `remove_operator`'s search by descriptor find the thread's own slot. The
invariant gives `ContextsOutlive` and `OneWriter`: the writer to a socket holds the
`write_mutex` of the context that owns it, also after the descriptor was reused.

The second part is about `stream`. `Sent` says of every alert on a stream that it was
sent by a broadcast that began, and of the running broadcast that its alert is on
the streams of slots below `i` only; `Reached` that those of them that were open
have got it; `Latest` that a running broadcast's alert is the newest on every stream
that has it; `Roles` that a connection answered OK has a slot, unless the table was
full. `PushGoesToOwner` and `ReplyGoesHome` show, from `Table` and `Descriptors`, that a
`send` on a descriptor reaches the connection whose context is in the slot. They
give `OnlyToOperators`, `StayListed` and `ReachesAll`, and what operators can see
of alerts without knowing of the log: none comes twice (`AtMostOnce`), and no two of them
see two alerts in different orders (`TotallyOrdered`), all for `MaxLogins <= 1`.

The third part is about the whole. `NoThreadsInACircle` follows from `Mutexes` and
`Table` alone: whoever holds a `write_mutex` is inside `send`, and whoever is waited
for with `operator_mutex` is the broadcast, which waits for a `write_mutex` only. So
a thread that waits does so, in the end, for a remote end to read, never for
itself. `ThreadsImplementLog` adds two invariants to those of the first parts:
`Counted` (no connection has had more commands than there may be, which is why `Conn`
is assumed to be finite there) and `Entries` (an alert is in `published` once, and a
running broadcast's is the last). Then one lemma per kind of step: `BeginPublishes`,
where `Mutexes` says that no other broadcast runs, so that nobody is behind;
`RegisterJoins`, where it says that none runs over the slot that is added;
`PushDelivers` and `ReplyAnswers`, with `PushGoesToOwner` and `ReplyGoesHome`;
`RemovingLeaves` and `ClosingLeaves`; and `QuietActions` and `PassingSteps` for those
that leave every cursor where it is, the end of a broadcast and a slot passed over
among them: such a slot is empty, or its connection is closed.

**SensorNodeProofs.** `Agreement` has two parts per sensor: `InStep`, what is on its
connection at each `pc` (nothing unless it waits, and then a request or an answer,
of the right kind), and `Served`, what the server has done for it if the connection
is still open. `Crash` preserves `Served` because it closes every open connection
with the table it empties. A third part, `Validated`, says how far a sensor with an
invalid id gets. `Registration`, `Latest` and `Ended` follow; `NodeTypes` includes the
bound on the table.

**OperatorSessionProofs.** A session is `Undisturbed` while its client has not been turned
away and no reply to it was overwritten; once it is not it never is again
(`RacesCount`). `Registered` rests on `Handshake`: while the server has not
registered the operator of an undisturbed session, nothing but a refusal has been or
will be sent on the connection, and the client has not got past its LOGIN; and on `Quiet`: while a LOGIN
is on its way or being verified nothing else is, and no poll is sent before the
handshake is over. `TypeCorrect` needs `Content`: no version in a line, a reply or a
message is ahead of the server's. `CacheGrows` needs `Ascending`: the versions in
`lines` and `reply` ascend from the cached one, through coalesced polls and open
lines. The page's actions touch neither `Handshake` nor `Ascending`.
`HandshakeSpoiltByOthers` needs `Unspoilt`: as long as no alert has come and no reply was
overwritten, a registered client that is in its handshake has been sent nothing but OKs, which in turn needs that
it sends no GET_SENSORS before it runs (`Commands`). `AlertsOnce` needs `Once`: lines,
topic and feed hold each alert so far in one place at most, whatever is overwritten. What a queue holds after a
line is put behind it, continued, or taken out of it is the subject of
`AppendHolds`, `PutHolds`, `TakenHolds` and `TailHolds`.

**Model-checked only.** Every invariant and action property of a passing run is
proved. What TLC alone shows is absence of deadlock (`NoCircularWait`, which is
proved, is the part of it that is about mutexes) and the liveness properties
`CommandsAnswered`, `GoneClientsReleased`, `RaisedIsTold`, `MeasuringGoesOn`,
`DashboardCatchesUp`, `AlertsAreShown` and `LoginSettles`: liveness under fairness is
out of the prover's reach, as are `ENABLED` and induction over data.

## 5. What refutes each property

A property is kept only if a plausible fault in the code violates it:

| Property | Faulty variant | The fault |
|---|---|---|
| `SensorManager!TypeOK` | `TableFullOffByOne` | `>` for `>=` at the limit |
| `UniqueIds` | `MatchesMissingLast` | the search stops one slot early |
| `AcknowledgedIsKnown` | `RegisterFullAsOk` | a full table answers OK |
| `SlotsAreFrozen` | `RegisterOverwritesType` | re-registration updates the type |
| `ImplementsDirectory` | `MeasurementRegisters` | a measurement registers its sensor |
| `AlertEngine!TypeOK` | `AddWithoutRoom` | no shift when the list is full |
| `ActiveAreLatest` | `AddDroppingNewest` | the shift drops the wrong end |
| `EvaluationIsAtomic` | `EndAfterFirstAlert` | `break` after the first alert |
| `RecordIsSerial` | `BeginWithoutLock` | the lock is missing |
| `ReturnTellsRaised` | `SkipResettingCount` | the count is reset in the loop |
| `TableAgreesWithEngine` | `StoreCheckingRises` | only a value above the last one is checked |
| `ImplementsFeed` | `LeaveIfSeveral` | `> 1` for `> 0` before the broadcast |
| `RaisedIsTold` | `TellUnlessBusy` | `trylock`: no broadcast while another one runs |
| `ConnectionThreads!TypeOK` | `RegisterPastTheEnd` | no check of the limit |
| `ContextsOutliveUse` | `ReturnWithoutRemoving` | an error path that skips `remove_operator` |
| `OneWriterPerSocket` | `ReplyWithoutLock` | the reply is sent without `write_mutex` |
| `AlertsOnlyToOperators` | `RemoveNothing` | the slot outlives the connection |
| `OperatorsStayListed` | `RegisterWithoutCount` | `operator_count++` is missing |
| `BroadcastReachesAll` | `EndBeforeLastSlot` | the loop stops one slot early |
| `NoCircularWait` | `SendFailsLocked` | an error path that keeps the `write_mutex` |
| `ImplementsLog` | `RegisterWithoutLock` | the table is extended without its mutex, inside a broadcast |
| `CommandsAnswered` | `PushRetried` | a failed push is retried |
| `GoneClientsReleased` | `TimeoutIgnored` | a failed `recv` is retried |
| `ResponseBuffer!TypeOK`, `AnswersAreRecent` | `ReceiveUnbuilt` | an unknown command reads the buffer without building |
| `UndisturbedIsOwn` | `DefaultIsFinal` | the 404 is sent for every command |
| `AloneIsOwn` | `TokenizeOnwards` | `strtok` is not restarted with the buffer |
| `SensorNode!TypeOK` | `FullTooLate` | `>` for `>=` at the limit |
| `RegisteredWhileConnected` | `ConnectWithoutRegistering` | a sensor that reconnects does not register again |
| `LatestIsStored` | `SendWithoutWaiting` | the answer to a measurement is not awaited |
| `EndedNeverMeasured` | `SendUnvalidated` | the id is not validated before the measurement is sent |
| `MeasuringGoesOn` | `RecvIgnoringEnd` | the end of the stream is taken for an answer |
| `OperatorSession!TypeOK` | `IdentifyWithoutRunning` | the reader is started without `running = true` |
| `ReaderIsRegistered` | `AcceptAnyAnswer` | the answer to LOGIN is not looked at |
| `GivesUpOnlyIfOvertaken` | `IdentifyUnknown` | OPERATOR_IDENTIFY is not recognised and answered 404 |
| `AlertsArriveOnce` | `PublishTwice` | after a loss of the WebSocket the page is subscribed twice |
| `CacheNeverOlder` | `ReadAnyLine` | lines are handled out of order, as by a pool of threads |
| `DashboardCatchesUp` | `PollOnce` | polling stops after the first answer |
| `AlertsAreShown` | `ConsumeMisspelt` | the prefix of alerts is not recognised |
| `LoginSettles` | `AskAgain` | a thread whose service has ended goes on waiting for it |

## 6. Findings

Five runs are expected to fail, each against a sentence or a line of the repository:

1. `MCSensorManagerLongId`: `sensors/sensor_base.py:9` accepts ids of 32 characters,
   `sensor_manager.c:45` keeps 31. Such a sensor is answered OK, and every
   measurement is then answered "Sensor not registered"; each registration takes
   another slot.
2. `MCLoginSlots`: slots of departed operators are not reused, so after 100 logins
   an operator is answered OK, logged as "registered for alerts" (`server.c:197`) and
   never sent an alert.
3. `MCBrokenPipe`: a `send` to a connection already reported as reset raises
   SIGPIPE, neither handled nor masked, so that the server ends, where
   `server.c:65` means to end that connection only.
4. `MCSharedAnswers`: replies of concurrent commands are built in one buffer
   (`protocol.c:7`), although `README.md:24` promises synchronization of shared data.
5. `MCLongList`: a list of more than 501 bytes (about 16 sensors; `start-demo.sh` runs
   15) is cut with its end-of-line (`protocol.c:65`), which `PROTOCOL.md:12` promises.
   `readLine` does not return it, later lists continue it, and only an alert's
   end-of-line would end it; `PROTOCOL.md:237` promises an update every 2 seconds.

Known limits of what holds:

* *A second LOGIN on one connection.* It takes a second slot, and
  `remove_operator` clears only the first match, so a slot with a freed mutex and a
  closed descriptor remains. With `MaxLogins = 2` TLC finds `ContextsOutliveUse`
  and `ImplementsLog` violated. The operator client sends LOGIN once per
  connection, which is why `MaxLogins = 1` is the bound here and the hypothesis
  of the theorems about more than types.
* *A remote end that stops reading.* Under `FairThreads` alone `CommandsAnswered`
  fails: a broadcast blocks in `send` with `operator_mutex` held and, once other
  threads want to log in, broadcast or leave, they wait for it. An alert that was
  raised is then never told (the premise of `RaisedIsTold`), and sensors wait for
  answers (the assumption of `MeasuringGoesOn`).
* *An alert before the answer to LOGIN.* The server has registered the operator by
  then, so a broadcast may overtake the answer; the client takes the alert for a
  refusal and gives up for good, while the server keeps it registered. The only
  other thing that makes it do so is a reply overwritten by another thread
  (`GivesUpOnlyIfOvertaken`).
* *Overwritten replies to an operator* (finding 4). They can end a handshake, start
  a reader that is not registered, take the cache back to an older list until the
  next poll, and leave a LOGIN waiting for the end of its line. With the exemptions
  for `races` dropped TLC finds `ReaderIsRegistered`, `GivesUpOnlyIfOvertaken`,
  `CacheNeverOlder` and `LoginSettles` violated.
* *A full table of operators* (finding 2). With `turnedAway` dropped TLC finds
  `ReaderIsRegistered` violated: the client believes to be an operator and is not.
* *A LOGIN that waits for ever.* A client of the auth service that connects and sends
  nothing keeps the service for itself (`auth_server.py:22`), as does a database that
  does not answer; `auth_client.c:72` waits without a timeout, and so does the
  operator client, whose `connect()` has not returned. `operator_mutex` held by a
  stuck broadcast, and a cut answer, do the same. `LoginSettles` says that there is
  no fourth place.
* *A list that is too long takes an alert with it.* The alert whose end-of-line ends
  an open list is read as part of that list and not shown (`AlertsAreShown` speaks of
  alerts that are lines of their own).
* *A service that ends.* While the auth service cannot be reached LOGIN is answered
  503; one that ends before it has answered is taken for a refusal (401), which the
  operator cannot tell from wrong credentials (`LoginSettles` holds either way). Nothing
  starts it again.
* *Two parses at a time.* They may take each other's arguments, or those of a command
  another thread has finished: with `overlapped` dropped TLC finds `AloneIsOwn`
  violated.
* *Record and broadcast.* Two threads may put alerts on record in one order and
  broadcast them in the other; each is told of once (`ImplementsFeed`).
* *Sensors that stop.* An id that `ID_PATTERN` does not match is registered, and
  ends its sensor's thread with a `ValueError` at its first measurement, and keeps
  its slot, in which no reading ever is (`EndedNeverMeasured`). A connection that goes silent blocks its sensor for ever, and a sensor
  that finds the table full is refused for ever (the exemptions of
  `MeasuringGoesOn`). A measurement answered 404 would be printed and never lead
  to a new registration. `RegisteredWhileConnected` says that a restart does not
  bring it about; a truncated id does (finding 1), and so may a crossed parse
  (`strtok`) and an overwritten reply (finding 4), which are outside `SensorNode`.
* *An orderly end.* `dashboard.js:96` expects a "notification of lost connection",
  but the client publishes one only on an exception: when the stream simply ends
  the page shows the last sensors without notice.
* *No order between messages to the page.* A page may show an older state of the
  sensors after a newer one; the next poll repairs it (`DashboardCatchesUp`), the
  cache itself never goes back (`CacheNeverOlder`).
* `PROTOCOL.md:267-269` gives the thresholds as `>=`, `main.c:34-38` and
  `PROTOCOL.md:138-142` as `>`. `PROTOCOL.md` also describes range checks, a LOGIN of
  sensors and reply formats that the code does not have. The models follow the code.

## 7. Not modelled, and why

* Commands that TCP splits: a sensor waits for each answer, and about 79 polls would
  have to queue behind a stalled thread before `recv`'s 1023 bytes cut one.
* A sensor's old connection whose thread still processes a command while the
  sensor has connected again: `SensorNode` forgets the old connection, and
  `Serves` gives a sensor to one thread. The old thread ends when it next reads.
* The setup of `start_server` before its loop, and the loop's failure paths.
* The browser user's login (`AuthService.java`), which keeps no state between
  requests; `AuthController`, `SecurityConfig` and `WebSocketConfig`: declarative.
* Rendering, tabs and counters of the dashboard; the parsing of a SENSORS line and
  of answers by the sensors; `generate_value`: data or layout.
* The logger: pure output; its mutex is a leaf, nothing is locked under it.
* Functions without a caller: `sensor_manager_is_sensor_registered`,
  `alert_engine_resolve_alert`, `protocol_build_alert`, `protocol_is_http`; the
  cleanups, which follow a loop without an exit.
* Windows branches (`#ifdef _WIN32`): another socket layer with the same structure.

## 8. What could come next

1. Two logins on one connection in the proofs of `ConnectionThreads`: which of the
   properties survive, with `remove_operator` as it is.
2. A sensor's old connection beside its new one, in `SensorNode`: how long a stale
   reading may stand in the table.
3. Split commands, in `CommandParser`: which answers a command cut in two gets.
