# A verification project for the Ritex adapter

The repository is a C++ program that polls the controller (KSU) of a pumping
station over a half-duplex serial line. One binary is both the command-line
client and the daemon: the first command for a device forks a daemon, later
ones are handed to it over a UNIX socket. This directory holds TLA+ modules
that model it, the TLC runs that check them, and proofs for TLAPS.

## 1. Inventory

| Component | State it keeps | Operations | Talks to |
|---|---|---|---|
| Client process (`Adapter::Run`, `DaemonCommChannel`) | one connection | connect with retries, send the command line, read one reply | server thread, by socket |
| Server thread (`DaemonCommServer`) | `m_connectSock`, `m_clientSock`, `m_canProcessCommands` | accept, receive, parse and compile, `Execute()`, wait for the result, reply, cancel | device, processor thread (condition variable), clients |
| Processor thread (`ComTrafficProcessor`) | `m_nextState`, `m_writeMode`, `m_motorStatus`, `m_isAutoMode`, fault fields, `m_doRun`, `m_isDataCapture`, `m_pendingCmdQueue`, `m_nextModeLoopCycle`, echo FIFO | listen to the traffic, capture the station, execute commands, cycle through the modes, read and write packets | station (serial line), device, server thread |
| Device (`RitexDevice`, `Device`) | table of settings, offset table, `m_isFirstSettingsPacket`, `m_isDiviationReported` | create and execute commands, report data, faults, motor state, time deviation and settings | processor thread, loggers |
| Commands (`DeviceCommand`, `CmdExternal`, `CmdTestDevice`, `CmdStartMeasurement`) | listeners, raw result | `Execute`, `SetReply`, notify listeners | device, server thread |
| Loggers (`LoggerThread`, `EventLoggerThread`, `DataLoggerThread`) | queue of records, gateway connection | `EnqueData`, send to the database gateway, reconnect | processor thread (producer), gateway process |
| Adapter start-up (`Adapter::Run` in the daemon, `BecomeDaemon`, `createLock`) | lock socket, parameter filter | take the lock, fork twice, read the filters and settings, start the threads, clean up | all of the above |
| Command line (`CmdLineParser`, `CmdLineCommand`) | tokens, parameters | parse, compile, join the arguments again | client, server thread |
| Packets (`DataPacket`, `Utils`) | address, command, mode tag, payload | raw encoding, CRC-16 | processor thread |
| Gateway library (`gateway/`) | connections, wire encodings, caches | encode commands and data, sockets, database access | loggers |

### What is hard

* Three threads share `m_clientSock`, `m_canProcessCommands`, `m_doRun`, the
  pending queue and `m_startMutex`, each with its own locking or none.
* A one-shot daemon ends by itself while clients are still connecting.
* The serial line is shared with the station's own operator panel. The daemon
  must wait for a window, capture the station, set a password, and give it back.
  Any answer may be lost, late, refused, or of another kind than the one expected.
* What the daemon believes of the station (`m_writeMode`, `m_motorStatus`,
  `m_isAutoMode`, the fault fields, the settings) is a copy that may be stale, and
  a data packet shows its mode at most by its length, which the daemon does not look at.
* Events and data go through queues to a process that may be absent.
* Several runs for a device may start at once. The lock is a descriptor that `fork()`
  copies, the daemon may fail at eight places before it listens, and nobody
  tells the clients, who retry.
* The same line is parsed by the client and, joined and split again, by the daemon,
  which asserts what the client has only checked.

### What makes each part correct

* Command path: the reply goes to the client whose command was executed, once; a
  command is executed at most once; the server never waits for a result that
  cannot come; the daemon ends when its processor does.
* Station protocol: a change of motor, fault and setting is reported once and in
  order; data is stored under the mode it was measured in; the station is given
  back in the mode the operator chose; a success answer means the station accepted.
* Loggers: records are stored in order, none twice, and none is lost without a failure.
* Line: the echo of what was sent is removed from what is read, and nothing else.
* Settings: an event says who changed what, from which value to which, also across a
  restart; the database ends with what the station shows.
* Start-up: one daemon for a device; nobody waits for a daemon that does not come;
  no lock outlives its daemon.
* Command line: the daemon makes of a line what the client made of it, and no line
  that the client accepts aborts the daemon.
* Tables and encodings: every parameter is read from bytes of its own and recorded once;
  a damaged frame is refused; the gateway reads what the loggers wrote.

## 2. Plan

Modules in the order in which they are written, the most important behaviour
first. "done" says what this state of the project has.

| # | Module | Models | Abstract specification | Proofs | |
|---|---|---|---|---|---|
| 1 | `CommandPath` | clients, server thread, processor thread, start and end of the daemon | `CommandService` | safety invariants and the refinement | done |
| 2 | `StationLink` | the protocol with the station: traffic, capture, commands, mode cycle, reports | | every safety invariant, under `Disciplined` | done |
| 3 | `LoggerThreads` | the two loggers, the gateway, creation and clean-up | `RecordStream` | invariant and refinement | done |
| 4 | `EchoCancel` | the bytes of an exchange, echo cancellation, framing | | buffer bound, `EchoOnlyAtAddress`, `CleanExchange` | done |
| 5 | `Settings` | remembered settings, their events, recovery after a restart | | every safety invariant | done |
| 6 | `DaemonStart` | the lock on an abstract socket, the forks, the failures of the start, the clients that retry | `AdapterLock` | mutual exclusion and the refinement | done |
| 7 | `DeviceTables`, `Frames`, `Checksums` | tables and look-ups, samples, events; frames; the CRC | reference definitions in `Inputs` and `MCInputs` | the rows of a filter are recorded once each; a packet is read as it was sent; none for the CRC, which uses `Bitwise` | done |
| 8 | `CmdLine`, `GatewayWire`, `StationClock` | parsing and rejoining a command line; the bytes sent to the gateway; deviation of the clock | reading back what was written, counting what goes wrong, in `Inputs` | a line means the same to both sides and does not end the daemon; commands of any length are read as they were sent; one report for each time the clock goes wrong | done |

`StationLink` is the inside of what `CommandPath` has as outcomes (`OpenWindow`,
`CaptureSucceeds`, `Exchange`, `ModeCycle`), `EchoCancel` is the inside of one
exchange of `StationLink`, and the events of `StationLink` and `Settings` are the
records of `LoggerThreads`. `DaemonStart` ends where `CommandPath` begins, with a server
that listens and clients that connect. `CmdLine` is what `CommandPath` calls parsing
and compiling, `DeviceTables` is what `StationLink` calls a packet, and `GatewayWire` is
what `LoggerThreads` writes. The modules are checked one by one: a product of them
is out of TLC's reach, and each makes explicit what it takes from the others.

## 3. The modules

Names follow the source. A definition stands for the lines that `PROJECT.json`
gives for it under `map`. Operators that a comment calls *mutant of* are not
part of a model: each is a plausible error in the definition it names, kept beside
it to show that a property notices. `MC...` modules give constants values. Of the
modules without state, `Inputs` chooses lines, gateway commands, frames, data packets and clock packets and states the properties of
`CmdLine`, `GatewayWire`, `Frames`, `DeviceTables` and `StationClock`; `MCInputs` does both for `Checksums`, beside giving
the constants of `Inputs` values.

### CommandPath

Four kinds of process: clients (`client`, `kind`, `unread`), the server thread
(`server`, `clientSock`, `canProcess`), the processor thread (`proc`,
`nextState`, `queue`, `cur`, ...) and the main thread, which only joins the
server. A step is what a thread does between two points at which another thread
can see a difference: the two halves of `Start()` (set `m_doRun`, signal) are two
actions, and so are reading the queue and writing `m_doRun` on line 735 of
`ComTrafficProcessor.cpp`. What is done under one mutex is one action.

`startMutex` is there because the unlock of `m_startMutex` is inside the wait
loop: a thread that does not have to wait keeps the mutex. `SendResponseToClient`
looks at `m_clientSock` when it runs, from whichever thread.
`ComTrafficProcessor::Create` may fail before it sets `m_fd` (`ExecuteNoPort`) or after,
when the thread cannot be created (`ExecuteNoThread`): then `isRunning()` is true without a
processor, the measurement counts as started though its client was told that it failed, and
the next custom command is queued for nobody while the server waits for its result.
`CustomCommandsAnswered` excludes that (`proc = "none"`); without the exclusion TLC finds it.
Cancellation takes effect only at cancellation points (`CancelServer`).

`CommandService` says what a client may count on: one command at a time,
execution at most once, an answer after the execution, to the client that asked.

### StationLink

The controller, its operator and the line are environment actions; the processor
thread is the rest, with `pc` saying which packet it waits for. A packet is a
record with the fields the daemon looks at. `NoAnswer` is a timeout, a damaged
packet or one of unknown length. `known`, `accepted`, `window`, `lastMotor` and
`event` are what an observer remembers; no action of the daemon reads them.

The daemon speaks only in the pause after a data packet. `Orderly` says that the
panel does respect the attempt: it is silent from the window until the capture
has succeeded or failed. With `MaxLine = 1` a packet of the traffic is read
before the next one is sent. Both are assumptions about the station, stated because
the safety and the liveness of the protocol depend on them. Run `late` lets an answer
come after its timeout. Without `Orderly`, `CommandIsAnswered` of run `station_live` fails: a
stray packet read in place of an answer leaves the line one behind, and a failed capture
is repeated without draining it (`ComTrafficProcessor.cpp:731`).

### EchoCancel

One exchange over and over, byte by byte. `out`, `port` and `coming` are the bytes
to be transmitted, received and still to come; a received byte carries its origin,
which the code does not see. `read()` returns any number of the bytes asked for,
by reading before or after more have arrived. Lost, damaged and stray bytes and
short writes are faults, of which there are `MaxFaults`. The roll back of `Read`
compares the buffer backwards with a FIFO popped forwards (`EchoMatches`), as the
code does; that this is harmless is what `EchoOnlyAtAddress` says.
`write()` and `read()` errors, end of file and the opening of the port are left out.

### Settings

`value`, `isSet` and `first` are the daemon's; `station` is what the controller
has; `queue` and `db` carry the events. `UpdateSettingsValues` takes, for each
setting, the row with the latest second; where several rows share it, the query
gives them in no order, so `ReadBack` may take any. If the query fails, the daemon
does not start, so there is no such step. A settings packet is compared with the
station as it is when the packet is read.

A capture (`capture`) ends with a write of the daemon's own: `SetPassword` writes setting 44, the
password it has just read, and the answer to it has all settings and is compared at once
(`WritePassword`, `Capture`). Setting 44 is compared like the others, so when the station showed
another value of it before - the operator has entered one - the daemon reports its own write as
"HND". `byDaemon` remembers it, and `HandMeansHand` lets it pass for that setting and that value
only; without this TLC finds the report, after an operator's change, a packet and a capture.
The request or its answer may be lost (`CaptureFails`): the capture is tried again, and the packet
compared then has the write of the attempt before. `PasswordValue` does not change: a station has one
password. The panel is locked from the write to the answer.

### LoggerThreads

The main thread creates and destroys the loggers, the processor makes records
(`EnqueData`), each logger runs `Check` ... `Close`, and the gateway stores,
refuses, stops and starts. A record is a number. What runs under `m_queueMutex` is one step;
`mutex` records that line 140 would leave it locked. Waking is nondeterministic
after the deadline: `pthread_cond_timedwait` gets a deadline that is not renewed,
so a logger without records spins. `Cancel` takes effect at cancellation points.
`write()` to a closed connection ends the process (no MSG_NOSIGNAL), and
a virtual call during destruction ends it too. A destroyed logger whose queue is not
empty fails `assert(m_queue.empty())` (`LoggerThread.hpp:283`): state `assertFails` of `main`,
which TLC reaches, since nothing empties the queue of a logger that is cancelled.

`RecordStream` is a queue for each logger that loses records only while it may.

### DaemonStart

One run of the program has up to three processes: the `client` the user started,
the `child` between the two forks, and the `daemon`. The lock and the listening socket are
names in the abstract namespace, taken as long as some process has the descriptor open:
`holders` says which processes of a run have the lock, `listener` whose daemon has the
socket. `BecomeDaemon` closes every descriptor but those of the lock and the log, so
the daemon keeps the lock; the client that forked it keeps a copy until it ends. Each
step of the start may fail where the code looks at a result: no `dup2` target, a database
that does not open, threads that cannot be created, a name that is taken. `Crash` is
the end of a working daemon by a signal or an assertion, `Kill` the user's interrupt.

`DeviceOf` is the number a run was given and `Canonical` says whether it was typed as `%d`
would print it: the client asks for the socket named after the text (`m_deviceIdRaw`), the
daemon binds the one named after the number. Device 0 is let through by `Run` and aborts
the daemon at an assertion; it is the disjunct of `Reopen` that any device may take.
How the daemon's work ends (`ServerEnds`) is left to `CommandPath`.

`AdapterLock` gives a device to one run at a time and lets only its owner work for it.

### CmdLine

An argument is the sequence of words between its blanks, and a line through the socket
is one sequence of words, so that joining is concatenation and splitting gives
arguments of one word. What the texts are worth (`strtol`, `split`, the lists of ports and
rates) are constants. `Parse` takes one `Turn` after the other over getopt's tokens, with one line for each
case of the nested switches in the source. `Compile` and `CreateCommand`
follow `CmdLineCommand` and `RitexDevice`, failing assertions and the template that
stays NULL included. The assumption on `Lines` is only that a line has arguments and an argument words. Options are whole words: abbreviations and `--long=value`, which
getopt also takes, are not modelled. Only the first line of a process is: `optind` is set
to 1 for each, but a scan that ended inside an argument leaves getopt's own position
behind for the next line the daemon gets.

### DeviceTables

Packets are bytes here. The tables are the source's without names and descriptions.
`CreateOffsetTable` and `ReportDataPacket` are what becomes of a packet that was accepted,
`ReportFault`, `ReportStationState` and `ReportDeviation` are the events, with one character
standing for a text. The filter comes from the database, so that `Inputs` asks nothing of it but numbers: rows in
any order, parameters that no packet has, and a parameter that is wanted twice.

### Frames and Checksums

`CreateRawPacket` writes a frame, `ReadPacket` looks for an address and `ReadFrame` is the acceptance of what
follows. The checksum is a parameter of `Frames`; `Checksums` has the real one, bit by bit. It needs `Bitwise`,
which no module with proofs can use, and nothing else about a frame does.

### StationClock

`CheckAndReportTimeDiviation` takes its state, the flag and the events, as an argument. Its
limit comes from `TimeLimit`: `sync_time` is given in minutes but used as seconds, since the
multiplication waits for a `GetParameter` that always returns false.

### GatewayWire

Values are written and read as bytes; a stream knows whether a read failed. A record is
a tuple of the fields its struct has, a command a mark and its records. `bin_read` makes an
`rdp_command_t` of an RDE too; the loggers never send one, and `CommandsAssumption` has none. It
also asks that an int holds the size of a command, since `write_item` refuses a larger one
(`gateway/data.cpp:94`), and that no text holds a zero, since they are C strings when they are made.
`SampleCommand` and `EventCommand` are the loggers' `BindParams`; `FloatBits` is the float of
a sixteen-bit value.

## 4. What is checked

| Run | Instance | Distinct states | Shows |
|---|---|---|---|
| `safety` | 3 clients, backlog 2, all kinds of command, a station that may fall silent | 672,553 | replies to the requester, one at a time, executed once, no lost start, waits justified, refinement of `CommandService` |
| `live` | 2 clients, backlog 1 | 64,536 | a measuring daemon that has a processor answers; the end of the processor ends the daemon, or the server hangs in `Start()` |
| `exit` | as `live` | | **violated**: the end of the processor may leave the daemon hanging |
| `modes` | operator's modes 0 and 2, commands on and set, losses, refusals, auto and manual | 360,824 | the remembered mode is the station's; data is stored under its mode; success is true |
| `faults` | one fault, a motor that switches, losses, refusals | 1,987,288 | no false all-clear; motor events and memory agree |
| `station_live` | one command at a time, refusals, no loss | 37,584 | commands are answered, cycles are made |
| `late` | answers after their timeout | | **violated**: a late answer is taken for the next one |
| `logger` | 2 loggers, 2 records each, every failure | 113,393 | refinement of `RecordStream`, the mutex, clean-up ends, queues empty |
| `line` | request of 6 bytes, answer of 8, two faults | 119,458 | echo only at the address, clean exchanges succeed, no own echo is a packet, recovery |
| `settings` | a one-byte setting, one that no packet has and the password, 2 changes, 2 losses or restarts, 2 seconds | 1,064,933 | events form a chain, "HND" means by hand or the daemon's password, nothing is reported twice, the database ends right |
| `startup` | 3 runs for one device, one of them with the number typed as 01, 2 attempts to connect, every failure, kills and crashes | 91,959 | refinement of `AdapterLock`: one daemon at a time; nobody is left waiting; no lock is left behind |
| `inputs` | 9,864 command lines and every line of up to 3 arguments, 66 filters in 7 modes, 15 frames with 24 damages everywhere and with other bytes before and after, sequences of up to 4 clock packets, pairs of gateway commands and every cut of one | 30,396 | a line means the same to both sides and does not abort the daemon; each row of a filter is recorded once, from bytes of its own; a packet is read as it was sent; damage is detected; a wrong clock is reported once; what is written is read, and what is cut off is refused |

The types of `CommandPath`, `LoggerThreads`, `EchoCancel`, `Settings` and `DaemonStart`, and the inductive
invariants, are proved (section 5) and not run.

The violated runs show disagreements between the code and what it says of itself;
`PROJECT.json` quotes them under `findings`. Others need no run. Action `Crash` of
`StationLink` is the null pointer of line 711, one lost packet away. `CmdLine` shows that
`-exit` never compiles, that a rate of 75, 110 or 300 is accepted and opens the port at 9600
(`OpenCommPort`), and that a `-cmd` without a rate leaves the speed uninitialised.
Section 3 says what a processor that cannot be created does to the server, and a capture to the password's events.
A line whose blanks hide an option may end the daemon: in
`retex -cmd "5 99 x x 5 -sp q -a debug 5" 2 5 x 5 -sp q -a debug 5` the first argument after `-cmd` is the device's
number to the client (`strtol` stops at the blank) and a whole command of type 99 to the daemon, which splits it,
makes its command of that and fails the assertion on line 344 of `RitexDevice.cpp`. That is what the premise of
`LineNeverAbortsDaemon` is about; without it the property is false.
`MAX_ACK_INDEX` is computed from the other table (`ComTrafficProcessor.cpp:86`), so that the
last kind of answer, the stored info, is never recognised. `m_ackParams` has one row for each
mode, while the indices above it count one for all of them, so that the last index, which
"MUST be aligned" (line 42), is not; nothing depends on it because the comparison on line
475 never holds. A start of the measurements that fails leaves its rows in the offset
table, and the next one records every value twice; `RecordedOnce` is about the first.

### Bounds

* Three clients are a served one, a waiting one and one that arrives when the daemon
  ends; a fourth finds the same states. `Backlog` is 5 in the code; 2 makes it full.
* One operator's mode other than 0 gives the cycle a mode to come back to; the seven
  modes of the cycle are all there. One fault code suffices to be confused with none.
* Two records are a transaction of one and of two, a record in hand with another
  behind it, and a gap with a record after it.
* Two faults make a FIFO out of step and disturb the attempt to recover. With
  more of them `OwnEchoIsNoPacket` is not claimed: a disturbance that replays the whole of
  a request, byte by byte, cannot be told from a packet.
* Bytes: `ByteValues = 2` and `MaxValue = 2` give a value that does not fit into a
  byte, as 256 does not in the code. Two changes are a change and its reversal, or the
  operator's and a client's. Two restarts or losses are a loss before a restart, and the
  restart of a daemon that has read the database itself. The station starts with one set of
  values (`AtFirst`); the operator may change them before there is a daemon, which is one of the
  two changes. Any number of captures may fail.
* `MaxClock = 1` gives events in the same and in different seconds.
* Three runs are one that owns the device, one that takes it over while the first ends,
  and one that only ever retries. Runs for different devices share nothing. `MaxTries` is
  100 in the code; 2 has an attempt that is repeated and a last one.
* Command lines have each field right, wrong, empty and with a blank; the short lines have
  every option in every position. The lists of parameters are complete, incomplete, with a
  value given twice, with one that ends in a blank, and with an option that is not read.
* Filters are the whole list of channels, every choice of six, two of which no packet has, and all
  of these with a parameter that is wanted twice.
  Damages are bursts of up to 16 bits at every position, which is what a CRC of 16 bits detects
  by its theory; the property is that both ends compute it over the same bytes.
* A clock packet is exact, at the limit, beyond it on either side, or without the time. Texts have
  every length modulo the alignment; channels and values include negative and two-byte ones.

### Fairness

* `CommandPath`: each thread that can take a step takes one, and a living client
  sends and reads. Nobody is assumed to start or to be killed. `StationFairness`: a station that
  keeps reporting opens a window and is captured again and again.
* `StationLink`: the thread runs (WF `Processor`); the panel asks for data
  (SF `Report`); the controller leaves a capture nobody uses (WF `Release`); a
  station that is asked again and again agrees again and again (SF of the accepting
  branches); clients leave a pause between commands again and again (SF `StartCycle`:
  the code empties the queue of commands before it looks at the cycle).
* `LoggerThreads`: threads run; a gateway that is up answers.
* `EchoCancel`: the thread and the line run on. `Recovers` has the further
  condition `PromptStep`: from some time on each byte is read before the next
  arrives. Without it TLC finds a loop in which the answer to a request
  precedes the echo of the next one for ever. The code has it by its speed: a byte takes
  milliseconds on the line.
* `Settings`: a daemon that ended is started again, tries to capture and releases, and the
  logger stores what it has; a station that is asked for a capture again and again answers again and
  again (SF `Capture`).
* `DaemonStart`: processes that were forked run, and a client whose daemon is gone reads the
  end of the file. Nobody is assumed to start the program, to be answered or to be killed.

Deadlock is checked in `line` only. Elsewhere the system may stop: clients have
all been served, or the daemon has ended, or a bound is reached.

## 5. What is proved

TLAPS checks these for every value of the constants; the bounds of section 4 do not
apply.

* `CommandPath_proofs`: `IInv` says who has the command being served - the server
  before it is pushed, the queue, the processor - and what that says about both
  threads' counters, the replies and `canProcess`. The safety properties are not
  inductive: that the reply goes to the right client (`RightRequester`) follows from the server
  waiting in `wait` while the processor has a command (`CurInv`), which needs that the
  queue is empty when a command is pushed (`ServerInv`), which needs that
  no wait ends before its command does (`WaitInv`, `CurInv`). From it: `TypeCorrect`,
  `RightRequester`, `OneAtATime`, `RepliesOnce`, `OkIsExecuted`, `StartNotLost`,
  `JustifiedWait` and the action property `NothingDropped`. Assumed: `None` is no client and no
  kind, the backlog is positive.
* `LoggerThreads_proofs`: `IInv` bounds a transaction by its queue, which makes the
  break with the locked mutex unreachable (`MutexIsReleased`), and ties `conn` to an
  outage. On top of it each step maps to a step or a stutter of `RecordStream`
  (`LoggersImplementStream`): records in hand and in the queue are the channel.
* `CommandService_proofs`: every step of the three threads is a step or a stutter of `CommandService`
  (`ImplementsService`), where the phase of a client is computed from who has its command and what
  was written to its socket (`Phase`). The lemmas say, for each step, whose phase it changes and
  how; `IInv` of `CommandPath_proofs` supplies that only the client being served can change.
* `StationLink_proofs`. `TypeCorrect` and `MotorReported` need no assumption; `MotorInv` says that without a
  command that switches the motor `lastMotor` is unknown or `motorStatus`. The other four hold under
  `Disciplined`: answers in time (`~Late`), one packet on the line at a time (`MaxLine <= 1`), and a
  panel that is silent during an attempt (`Orderly`) or a motor that does not move. The inductive invariant
  `LinkInv` has three parts. `LineInv` says which packets may be on the line in each state of the
  daemon, and that they show the mode the controller is in: nothing but one answer while the daemon talks.
  `AcceptInv` says that the answer to a command that was not accepted is a refusal, and `ModeInv` how the
  step of the cycle, `mode` and `writeMode` belong together; `ModeIsKnown` is about the state `listen` and holds
  there only because `ModeInv` says what holds in every other. Each hypothesis is needed: TLC finds a violation of
  `OkMeansAccepted` with late answers (run `late`), without `Orderly` when the motor moves, and without
  `Orderly` on a line that holds four packets: the answers left over from attempts that failed are taken for the
  answers of a new one.
* `EchoCancel_proofs`: the buffer is empty at the address, so that Read asks for one
  byte there and the roll back compares one byte. The packet goes on only when that byte
  is not taken off, and it is taken off as long as the FIFO is not empty
  (`EchoEndsAtAddress`). `TypeCorrect` contains that no `read()` overruns the buffer.
  `CleanGivesAnswer` needs more: in an undisturbed exchange all bytes are one stream, the echo of
  the request and then the answer, and `CleanInv` says that `got`, `buffer`, `port`, `out` and `coming`
  are consecutive parts of it, the FIFO being the rest of the request. Each `read()` moves bytes from one
  part to the next; the last field is complete exactly when the answer is. Assumed beyond the form
  of packets: two packets with the same header have the same length (`HeaderAssumption`), which the length field is for.
* `Settings_proofs`: after the first packet, a remembered value differs from the
  station's only for settings that somebody changed since, unseen; that it is the daemon only for the
  password, and only while the station has the password it wrote, makes `HandIsHand` inductive. Assumed:
  the password is a setting of a packet and has two bytes, and its value is one of a setting. `ChainInv` ties
  the event a setting had last to the value remembered and to the rows on their way and in the
  database, across the end and the start of daemons; `Chained` and `NotRepeated` follow.
* `DaemonStart_proofs`: only a run that finds the lock free opens it, and it hands it only to its own
  processes, each of which has it from its first step to the last that matters (`Handed`). So
  two runs with the lock of one device are the same run (`OneOwner`). From these and the types
  `ImplementsLock`: every step is a step or a stutter of `AdapterLock`, where the owner of a device is the
  run that has its lock; the lemmas say how the owner changes when one run opens or closes a
  descriptor. `NeverTwoDaemons` follows: for any number of runs and devices no two daemons work
  for one device. Assumed: devices are natural numbers, `None` is no run, there is an attempt.

* `Inputs_proofs`: `LinesMeanTheSame`, `NoLineAborts`, `SentIsRead`, `FramesAreRead`, `PacketsAreRecorded` and `ReportedOnce`, for all lines, commands, filters and packets that satisfy
  the assumptions of `Inputs`. No action changes an input, so the invariants follow from facts about the operators. A sequence is
  flattened, summed and read item by item by functions defined by recursion, about which only an induction over data can
  say anything, and the library's induction theorems cannot be used here. `SetInduction` replaces them: a set of
  naturals that has 0 and the successor of each member is all of them. It is about a set, not a predicate, and is proved by
  counting: if n were missing, the successor would inject the members below n into themselves without
  hitting 0. Each induction is then about the set of those i for which a statement holds, and the lemmas that use
  it show that `FlattenSeq` and the recursive readers are what their equations say. `FieldIsReadBack` is
  two's complement (`Digits`), the cut of the padding (`TextIsUnpadded`) and the alignment (`Padding`);
  `RecordsAreReadBack` shows that the size in front lets the reader take as many records as were written, each
  being at least a word; `CommandIsReadBack` adds the marks. That a command that is cut off is refused needs
  what a reader makes of bytes that are no record: when the size asks for more than there is, the packet would have to
  end where fewer than no bytes are left, and whatever was read leaves a stream (`LargerThanTheRest`); a cut inside the
  end mark is refused by `Expect`. `ReportedOnce` is an induction over the packets: the flag says whether the clock was
  wrong when it was last seen (`Wrong`), so that the next event is the next time that it goes wrong (`OneMorePacket`).
  `NoLineAborts` needs to know where the daemon finds the texts of a command in a line that was joined and
  split. `Known` is the invariant of the parser's loop: what the state says of the arguments read so
  far, and of which of them the fields are. By induction over the arguments `AcceptedLine` gives the form of
  every line that the parser accepts, so the client's line and the daemon's words both have five texts and then `-sp`.
  An argument before the `-sp` hides no option (the premise), so the daemon's
  five texts begin where the client's do and end before the same `-sp`: the words of five arguments
  fit into five places only if each has one word (`FiveSingles`), and then the texts are the same
  (`DaemonSeesTheCommand`). What the client could make a command of, the daemon can (`DaemonDoesNotAbort`).
  Nothing is assumed of what texts are worth as numbers.
  `PacketsAreRecorded` says of every filter and every packet that the records are those of the filter's rows, each
  once, in their order, with their channels and values. That the places of the tables are apart and inside
  the packet of their mode is checked row by row (`SensorsApart`, `SensorsInside`, `SettingsRows`); what
  `FindGarameter` finds is the row with the parameter (`Found`), so `CreateOffsetTable`
  has a row for each row of the filter that some packet has, in the filter's order (`TableOfFilter`). `ReportDataPacket` is
  then followed along the table: after i rows there are as many records as rows of the mode among
  them, and the last one is that of the last such row (`CountedUpto`, `WantedIsRecorded`).
  `FramesAreRead` says where the parts of a frame are (`FrameParts`), that the first address on the line is the
  frame's (`FirstAddress`), and that what is read from there on are these parts (`Between`). Its
  only condition on the noise before the frame is that it has no address: from an address in it, `ReadPacket` would read
  a length and lose step, which `EchoCancel` shows. Assumed of the checksum: it is a natural number.

Only model-checked: all liveness (fairness and ENABLED are out of the prover's
reach), `DamageIsDetected`, and `OwnEchoIsNoPacket`. The last two are no theorems for every packet. A burst that
hits the length of a frame makes the reader look for the checksum in another place, where the
data could be such that it fits; for the frames of the run it never does. And
`OwnEchoIsNoPacket` is false for some larger number of disturbances (section 4), and with one lost byte
for an answer whose data contain the bytes of a request: once its address is lost, the reader takes
the request inside it.

Some definitions changed for the proofs, without changing what TLC finds. `Phase` of `CommandPath` was a
CASE whose arms overlapped, which TLA+ leaves open and TLC resolves by order; it is a nested IF
now. `Report` of `Settings` took the order of the events from a recursive selection; it says now that the order is the
table's. The readers of `GatewayWire`, `ClockReports` and `Parse` were folds and are recursive functions,
the tables of `GatewayWire` are records, those of the parser are CASEs, `FindGarameter` chooses from a set, `ReportDataPacket` is a
recursive function, the clock, the frames and the CRC have modules of their own, and `ReadFrame` is a definition of its own.

## 6. What is not modelled

* Logging and crash reports: no state that anything depends on. The lists that `-a`, `-p` and
  `-cmd` print: constant texts; which line prints which is in `CmdLine`, the channels that `-d`
  prints are in `DeviceTables`.
* The gateway library except its encodings: its threads, queues, caches and database are
  linked and never called. Of the encodings, the text form and the settings.
* Opening and configuring the port except its speed, `write()` and `read()` errors on it, and end of file.
* Command-line options other than whole words, and the position getopt keeps between lines.
* `IncrementEventCount` and the pid file, which only leave a trace.
* `GetAckForCmd`, because the comparison it is for never holds.
* Data values of a packet in `StationLink`: a packet is its kind and the fields that decide what the
  daemon does. Memory allocation failures.
