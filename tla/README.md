# AsterKV in TLA+

Specifications of AsterKV, a key-value server with a write-ahead log: what its
storage engine and its TCP server do, checked with TLC on small instances, and
theorems about them checked with TLAPS. Paths are relative to the repository.

## The system

| Part | State | Operations | Talks to |
|---|---|---|---|
| WAL-backed storage (`src/wal/wal_backed_storage.cpp`, `wal_replay.cpp`, `wal_file_reader.cpp`) | next sequence number, mutex, the map of the in-memory storage | `recover`, `set`, `remove`, `get`, `exists` | file writer, reader, in-memory storage |
| WAL file writer (`wal_file_writer.cpp`) | file descriptor, closed flag, sync policy | `open`, `appendRecord`, `flush`, `close`, destructor | the file system |
| WAL record codec (`wal_record_codec.cpp`, `wal_record.cpp`) | none | `serialize`, `deserialize`, `validateWalRecord` | |
| In-memory storage (`storage/in_memory_storage.cpp`) | map, mutex | `set`, `get`, `remove`, `exists` | |
| TCP line server (`network/tcp_server.cpp`) | worker slots, active counter, a buffer and a clock per worker | `run`, `runOnce`, one thread per client | pipeline, kernel sockets, stop flag |
| Shutdown controller (`server/signal_shutdown_controller.cpp`) | the flag | signal handler, `install`, `stopRequested` | polled by the TCP server |
| Server runtime (`server/tcp_server_runtime.cpp`) | owns all of the above | `run`: recover, install handlers, serve | |
| Pipeline and dispatcher (`pipeline/`, `execution/`) | none | `processLine`, `dispatch` | parser, storage engine, serializer |
| Parser and commands (`protocol/parser.cpp`, `command/`) | none | `parseCommandLine` | |
| Serializer, renderer (`protocol/response_serializer.cpp`, `client/`) | none | `serialize...`, `parseProtocolResponse`, `renderPrettyResponse` | |
| TCP line client (`network/tcp_client.cpp`), `astercli` | one socket per command | `sendCommandLine`, REPL | TCP line server |
| Configuration, endpoints (`config/`, `tcp_endpoint.cpp`) | the options read so far | `parseServerConfig`, `parseTcpEndpoint` | |
| `asterd` | one process per command line | `main`, `runListenMode` | configuration, runtime |
| Logging, status and result types | a logger pointer; values | | |

A worker thread of the TCP server runs `LocalPipeline::processLine` and with it
`set` and `remove` of the storage engine, so several workers meet in its mutex;
`get` and `exists` go past that mutex to the map. The main thread accepts,
counts, rejects and joins. The signal handler only sets a flag. The file is
written by one process at a time and read by the next one's `recover`.

Hard to test: crashes and short writes between the log, the fsync and the map;
restarting from what they leave; two workers in the storage engine; the counter
that main tests while workers change it; a signal between a test and a blocking
call; clients that say nothing or read nothing, die, or get a part of a
response; log lines cut anywhere; a second process on the same endpoint or
file. `PROJECT.json` lists these hazards at their lines.

What makes each part correct:

- storage engine: an acknowledged mutation survives what the sync policy says
  it survives; the map is what the file replays to; the server can start again
  from every file it wrote; numbers do not go back; errors release the mutex;
- TCP server: never more workers than the limit, and no rejection while there
  is a free slot; every line is answered before the end of the connection;
  nothing runs after `run` returned; every connection, join and stop ends;
- client, server and pipeline together: one atomic map, whatever fails between
  them, and neither waits for the other for ever;
- file writer and codec: an OK of `appendRecord`, `flush` or `close` means what
  the policy says, and a broken line is never read as a record nobody wrote;
- `asterd`: it starts with the options that were declared, or refuses them, and
  serves the map of its own log.

How the modules stand to each other:

- KVStore is the abstract specification of WalStorage, and AtomicStore that of
  Service, which uses KVStore in turn for its storage engine;
- WalFile looks at the file of WalStorage symbol by symbol, one writer at a
  time, with the whole life cycle of a writer;
- Service keeps of TcpServer what one connection sees; TcpServer has the
  threads, the timeouts and several lines per connection;
- Asterd composes ServerConfig with the life of `TcpServerRuntime::run`, for
  several processes.

## Modules

### KVStore: what the storage engine promises

A map `kv`, the maps `survivors` that a loss of power may leave, and a mutation
in doubt per client. `Begin`, `Persist`, `Settle`, then `Commit` (visible and
acknowledged in one step) or `Reject`; `ProcessCrash` keeps `kv` or at most one
mutation in doubt; `PowerFailure` falls back to a survivor. With `Durable` a
commit needs that the map is its only survivor. There is no log and no lock.

### WalStorage: what it does

| Variable | Code |
|---|---|
| `mode` | life of the process: `down`, `replaying` (in `recover`), `up`, `refused` (start failed) |
| `fileExists`, `wal`, `synced` | the file: its pieces in order, and how many are forced to disk |
| `storage` | `InMemoryStorage::values_` |
| `nextSequenceNumber`, `mutex` | the members of `WalBackedStorage` |
| `replayed` | position of `replayRecords` |
| `pc`, `req` | where each worker thread is in `set` or `remove`, and with which arguments |
| `acked` | history: under `fsync_every_write`, the mutations answered OK and the place of their record |

The actions follow the code in its order: `BeginMutation` takes the mutex (and
for `remove` tests the key: `RemoveMissing` is the early return), `AppendRecord`
is `writeAll`, `SyncRecord` is `fsync` under `fsync_every_write`,
`ApplyMutation` changes the map and the number and returns. `AppendFails` and
`SyncFails` are the early returns: they give the mutex back and leave the map
and the number as they are, and in the file whatever was written. `RecoverWithoutFile`,
`ReadLog`, `RefuseLog`, `ReplayRecord` and `FinishRecovery` are `recover`;
replay changes the map record by record, and is refused by a DEL of an absent
key. `Shutdown` is the destructor, `Kill` and `PowerLoss` the environment.

A record is sequence number, key and value (`NoValue` for a DEL); its text is
left out. What matters of the text is what a short write makes of it: nothing,
a line without newline, a line that is no record, or a SET with a shorter value,
since `deserialize` accepts any even number of hex digits and `getline` accepts a
last line without newline. `Faults` selects what can go wrong in an instance: `open`
(for append), `write` (fails), `tear` (a part of the line gets into the file), `sync` (fsync fails),
`kill`, `power`.

`get` and `exists` read the map in one step under the mutex of
`InMemoryStorage`, so they are observations of `storage`, not actions: a
property of every state of `storage` is a property of every answer.

### TcpServer: threads, sockets and the stop flag

| Variable | Code |
|---|---|
| `main`, `scan`, `newest` | the main thread in `run`, `joinFinishedClientWorkers`, `acceptClient`; `connectedClient` |
| `stop` | `shutdownRequested` |
| `active`, `workers`, `finished` | `activeClientWorkers`, the vector of slots, their `finished` flags |
| `phase`, `buf`, `tail`, `idle` | each worker: place in `serveClient`, complete lines and an unterminated one in `pendingInput`, seconds since `lastActivity` |
| `left` | history: why the worker left `serveClient` |
| `backlog`, `sock`, `peer`, `inbox`, `outbox` | the kernel: queue of the listening socket, both ends and both directions of each connection |
| `asked`, `answered` | history: lines sent and responses to them |

A connection is one name from `connect` to the join of its worker. Main's loop
is `LoopCheck`, `Reap` for each slot, `EnterAccept`, `Accept` (or
`AcceptFails`), `Admit` or `RejectClient`; after the loop `JoinWorker` and
`Return`. A worker is `WorkerCheck`, `RecvData`, `RecvTimeout` (one second
without data, or EINTR), `RecvEnd` (and the last line), `RecvError`, `ProcessLine`,
`SendResponse`, `SendBlocked` (one second without room), `SendFails`, then
`Decrement`, `Finish` and `CloseClient` in this order, because the socket is a
capture of the thread's lambda. `Signal` sets the flag and may or may not wake
a main thread that is at `accept`. Executing a line is one step here; what it
does to the storage engine is WalStorage. The relaxed memory orders of the
counter and the `finished` flag are modelled as sequentially consistent: each
is one variable, tested by one thread, and the join orders the rest.

The client is any client: it sends lines, half closes, reads, leaves
(`Impatient`) or does nothing.

### Text and Protocol: command lines and responses

A text is a sequence of symbols. A symbol is a byte, or a run of bytes of which
no part means anything to the reader (a command name, a key, an error message).
Protocol has `parseCommandLine` with the validation behind it, `serialize...`
for the four kinds of responses, `parseProtocolResponse` and what `astercli`
prints. A value is spelled out byte by byte, because a bulk response counts
them and a connection may cut them. There is no state and no run of its own:
Service uses every operator.

### AtomicStore: what a caller may rely on

A map, and per caller a command, the answer of its execution and how the call
returned. `Invoke`, then `Execute` or `Refuse`, then `Return` with success,
with an error of the server, or with a failed connection; `End` for a caller
that stops or is killed. Success has the answer of an execution between call
and return; an error means there was none; after a failed connection it is
open whether there was one, but there will be none later.

### Service: astercli against asterd

| Variable | Code |
|---|---|
| `pc`, `line`, `sent` | a process in `TcpLineClient::sendCommandLine`: connect, send of the line, of the newline, shutdown, `readResponse` |
| `printed`, `hadFailure`, `exit` | standard output, the flag of `runConnectReplMode`, the exit code |
| `maxClientWorkers`, `server` | the option; life of `asterd`: up, stop flag set with main still in `accept`, joining, down |
| `conn`, `worker` | the connection in queue, being served or closed; its worker thread |
| `got`, `answer`, `out` | what the worker received, its response, and how much of it was sent |
| `kv`, `pending` | the storage engine |

A connection has the name of its process, because `astercli` opens one for each
command and returns only when the server has closed it. The storage engine is
the instance `Engine` of KVStore (`Begin`, `Commit`, `Reject`, `ProcessCrash`).
That is sound where WalStorage implements KVStore: without torn writes and
failed fsyncs. The fault `engine` is a mutation that fails as a whole, `kill`
is SIGKILL of `asterd`, which may leave the mutation in doubt executed and a
response half sent, `die` is SIGKILL of an `astercli` that has no prompt.
A stop cuts responses too: `sendAll` returns success for a response it has sent
half. A close of the server while input of the client is unread may reach the
client as a reset, which loses what was sent: the call fails. A restart keeps
the map and may have another limit.

`Linearizable` is the refinement to AtomicStore. What makes it fail is subtle:
were a bulk response readable without its last byte, a stop would make a
client print a value that nobody stored; were the answer of `remove` taken from
the test before the mutex, two clients would both delete one key.
`NoMutualWait` is about the ring main -> workers -> clients -> main: the client
shuts down its write side before it reads, and that is what ends the worker.

### WalCodec and WalFile: the text of the log and the writer

WalCodec has `serialize` and `deserialize` with the hexadecimal fields, and the
reader that splits the file into lines. Key and value are bytes, and every
digit is a symbol.

| Variable | Code |
|---|---|
| `pieces`, `synced` | the file: what each write left, as a record and the number of symbols of its line; how many are forced to disk |
| `syncPolicy`, `fileDescriptor`, `isClosed` | members of `WalFileWriter` |
| `pc`, `call` | the system call it is in (`fsync` or `close`), for which call |
| `wrote` | history: this writer has written |

A write may break after any number of symbols, a loss of power cuts the unforced
rest anywhere, and the next writer continues in the middle of the line. A write
that is cut by the death of the process is `AppendBreaks` and then `Kill`.
A descriptor is `stale` when `close` has failed: the system has released the
number, the writer keeps it and is not closed, and its later calls fail. An
fsync that succeeds forces the whole file: a kernel that drops dirty pages
after a failed fsync is not modelled.

WalStorage looks at the file more coarsely: there, a line that continues a
broken one never parses. WalFile shows the one case where it does: a value that
was cut is followed, at the end of the file, by the first symbol of the next
line, which is a hexadecimal digit. `ReadsBack` says that nothing worse exists.

### ServerConfig and Asterd: options and processes

ServerConfig has what a line of the configuration file and an option of the
command line do to `TcpServerOptions`: trimming, the first `=`, comments,
endpoints, the numeric ranges (with the widths of the integer types scaled
down), log levels and policies. A value that is refused is an empty set.

| Variable | Code |
|---|---|
| `command`, `index`, `options` | the arguments, or the lines of the file; how far they are read; `TcpServerOptions` |
| `pc` | off, reading options, launch of the runtime, `recover`, `createListeningSocket`, serving |
| `outcome` | how the process ended: usage, refused, failed, stopped, killed |
| `memory`, `log` | the map of the process and the WAL files, for one key |
| `behind` | history: another process has appended to the log since this one read it |

Two processes are started with any command lines, one after the other or at the
same time; `recover` and binding the socket are two steps, in the order of the
code. `ServesItsLog` says what ADR 0035 promises ("On startup, `asterd` replays the
WAL file before accepting TCP clients") for every server that no other process
has overtaken, and `NotOvertaken` who can do that. The file has no lock, the
endpoint takes its place. It leaves two cases open, both in the code:

- servers with one file on two endpoints append to it side by side;
- a process started while the old server runs recovers the log, waits between
  recovery and bind, and binds when the old server has stopped. It serves a map
  without what was appended in between; if it deletes a key that the old server
  deleted, the log has two DELs and the next start is refused.

Options other than endpoint and file are forgotten at `Launch`, where
`OptionsAsDeclared` has compared them; the policy is WalStorage's subject, limit
and timeout TcpServer's.

### MCWalStorage, MCTcpServer, MCService, MCWalFile, MCAsterd

Small instances: symmetry sets, the command lines, records and configuration
files that TLC tries; and what documents say that the code does not do: each is
a definition with a run of its own, which TLC refutes.

### The proof modules

WalStorageProofs (types, locks, the log), WalRefinementProofs (recovery and the
refinement of KVStore), TcpServerProofs, AsterdProofs, WalFileProofs (the writer's
promises, and what the reader makes of its files), ServiceProofs (types, calls,
who waits for whom, failures), TextProofs (numbers, beginnings and parts of
texts) and ServiceRefinementProofs (what is read of a response and of a command
line, and the refinement of AtomicStore). The invariants that the proofs need and that speak
of the state stand at the end of the module they are about.

## Runs

| Run | Checks | Instance |
|---|---|---|
| `wal_crash` | `TypeOK`, `SeqDense`, `NeverRefused`, `MemoryMatchesLog`, `Implements` | every write synced; failed writes, kills, power losses; 2 clients, 2 keys, 2 values, 4 records |
| `wal_relaxed` | `NeverRefused`, `Implements` | `fsync_on_flush`, same faults, clients and records; a power loss may lose what was answered |
| `wal_faults` | `AckedInLog`, `SeqNonDecreasing`, `DurableReads`, `MutexReleased`, `RecoveryEnds` | all faults, 2 clients, 2 keys, 3 records, fair threads |
| `tcp_slots` | `TypeOK`, `SlotsExact`, `RejectedForCause`, `ReturnedQuiet` | 3 clients that may leave at any time, 2 slots, accept failures |
| `tcp_live` | `AnsweredBeforeEof`, `ConnectionEnds`, `JoinCompletes`, `StopCompletes`, `BacklogServed` | 2 clients, 1 slot, accept failures, fair threads |
| `service` | `TypeOK`, `NoMutualWait`, `NoWaitingCircle`, `Linearizable`, `FailureReachesExitCode` | a process with a prompt that writes and makes mistakes, processes for one command that read and delete; limits of 1 and 2; stops, kills, failing mutations |
| `wal_text` | `TypeOK`, `PromiseKept`, `ReadsBack` | 3 policies, all faults, a SET with two bytes, a DEL and an invalid record, 3 pieces of which 2 broken |
| `asterd` | `TypeOK`, `OptionsAsDeclared`, `ServesItsLog`, `NotOvertaken` | 2 processes, every pair of 10 good lines, every bad line first or second, 10 argument lists, 2 endpoints, 1 file, 3 records |

`Implements` says that WalStorage implements KVStore under the mapping in the
module: `kv` is the map while the process is up and what the file replays to
while it is not, `survivors` what its prefixes from `synced` on replay to.
`Linearizable` says that Service implements AtomicStore: `call` and `request`
are read off `pc` and `line`.

Runs that TLC refutes, each against a sentence of the repository (quoted in
`PROJECT.json`):

- `wal_del_retried`: DEL, fsync fails, the client repeats DEL: the log has two,
  and the next start is refused at the second;
- `wal_value_cut`: a SET cut in its value is recovered with a shorter value;
- `tcp_signal_lost`: a signal between the test of the flag and `accept`, or
  taken by a worker thread, does not end the server before the next client;
- `tcp_slot_kept`: a client that does not read holds its worker for ever.

Three more sentences of the documents are not what the model of the code does,
and have no run: after a failed fsync two records have the same number, though
the storage roadmap says numbers increase (they never go back:
`SeqNonDecreasing`); after a short write the next record continues the broken
line, though the format says one record per line; and a start without a file
creates it, though the recovery document says the first mutation does.

`SeqDense`, `NeverRefused`, `MemoryMatchesLog` and `Implements` speak of
instances without `tear` and `sync`; the WAL runs that are refuted show that
they fail with them. `DurableReads` excepts what the last `recover` found: a
killed process may leave records that nobody has forced to disk, and `recover`
shows them without forcing them.

### Bounds

`MaxRecords` stops requests that would make the file longer: 4 records are a
SET, its overwrite, a DEL and one in flight, with crashes anywhere; two clients
are one in the mutex and one waiting. `Lines` bounds what a client sends on one
connection (an unterminated line comes on top), `SocketBuffer` = 1 makes a
second unread response block, three clients for two slots make a rejection, and
names are used again once a connection is over. A chatting client keeps its slot in the code as well:
the bound on `Lines` is what makes `ConnectionEnds` speak of clients that fall
silent.

In `service` two processes are enough for a race on one key, for a rejection
(limit 1) and for two mutations in the engine (limit 2); the value has ten
bytes, so that a cut may fall into the two digits of its length as well as into
the value. A client without a prompt is killed there, one with a prompt is not.
In `wal_text` the value has two bytes, so that one cut leaves another value, a
second an odd number of digits; `MaxPieces` = 3 is a cut line, its continuation
and what follows, and `MaxBroken` bounds the cut ones. In `asterd` ports are up
to 5, 32-bit numbers up to 8, sizes up to 9, so each limit has a number on both
sides; one process at a time reads options, which touches nothing shared; three
records are SET, DEL and one more of the process that came second.

`CHECK_DEADLOCK FALSE` is in the TCP configurations because the server does
stop: `run` returns; and in `service` because a prompt ends and a killed client
does not come back.

### Fairness

`WalStorage!FairSpec`: `recover` and the steps of `set` and `remove` between
the lock and the return go on (they are straight-line code on an operating
system that schedules the threads and completes its calls). No fairness for
requests, faults, or for who gets the mutex next.
`TcpServer!ServerFair`: the main thread and each worker go on; a blocked `accept`
is not enabled, so nothing makes it return. A receive or send with nothing to
do is enabled because of the one-second socket timeouts. That clients read
(`Reading`) is a premise of the two properties that are about such clients. No
fairness for connecting, sending or signals.
Service, WalFile and Asterd state no fairness. That client and server do not
wait for each other are two state properties: `NoMutualWait`, some thread of the two
can always take a step, and `NoWaitingCircle`, which names who sleeps in `recv` until
whom, and is proved. That threads which can go on do so is TcpServer's
liveness.

## Proofs

The theorems hold for all values of the constants that satisfy the named
assumptions; TLC evaluates these in every run of the module.

| Module | Theorem | Says |
|---|---|---|
| WalStorageProofs | `TypeCorrect` | `TypeOK` |
| | `AcknowledgedStaysInLog` | `AckedInLog` |
| | `SequenceNumbersOrdered` | `SeqNonDecreasing` |
| | `ReadsAreDurable` | `DurableReads`, if every write is synced |
| WalRefinementProofs | `SequenceNumbersDense` | `SeqDense` |
| | `StartIsNeverRefused` | `NeverRefused` |
| | `MapMatchesLog` | `MemoryMatchesLog` |
| | `ImplementsStore` | `Implements`: WalStorage implements KVStore |
| TcpServerProofs | `TypeCorrect` | `TypeOK` |
| | `SlotsAreExact` | `SlotsExact` |
| | `RejectionsHaveCause` | `RejectedForCause` |
| | `ReturnIsQuiet` | `ReturnedQuiet` |
| | `EofIsAnswered` | `AnsweredBeforeEof` |
| AsterdProofs | `TypeCorrect` | `TypeOK` |
| | `OptionsAreDeclared` | `OptionsAsDeclared` |
| | `LogsAreServed` | `ServesItsLog` |
| | `EndpointsProtectLogs` | `NotOvertaken` |
| WalFileProofs | `TypeCorrect` | `TypeOK` |
| | `PromisesAreKept` | `PromiseKept` |
| | `FieldsReadBack` | a hexadecimal field reads back as it was written |
| | `FilesReadBack` | `ReadsBack` |
| ServiceProofs | `TypeCorrect` | `TypeOK` |
| | `FailuresAreReported` | `FailureReachesExitCode` |
| | `NobodyWaitsInCircle` | `NoWaitingCircle` |
| TextProofs | `NumberOfDecimal` | a number is what its digits are read as |
| ServiceRefinementProofs | `ResponsesAreRead` | a part of a response is printed only as the response may be |
| | `LinesAreTokenized` | a line is taken apart into its tokens, whatever the blanks |
| | `CommandsCanBeTyped` | every command of AtomicStore is what some line is parsed as |
| | `ServiceIsAtomic` | `Linearizable`: Service implements AtomicStore |

### Assumptions

Sentinels differ from data (`SentinelAssumption` of each module); options and
bounds are in their ranges; there are finitely many connections (TcpServer: a
process has finitely many descriptors); values are sequences of their bytes;
the smaller integer types are smaller than the larger ones (ServerConfig). Service
assumes that what users type is a command line that is parsed as some request or
refused (`InputAssumption`, about the texts that are typed, not about a state: TLC
evaluates it for the lines of the run, and `CommandsCanBeTyped` shows that it leaves
out no command whose key and value have no blanks).
The theorems about recovery and the refinement of KVStore have the condition
`CleanFaults` (no torn writes, no failed fsyncs), `ImplementsStore` as a hypothesis
and the others in the property itself: the runs
`wal_del_retried` and `wal_value_cut` show that the code does not have these
properties without it. `DurableReads` is about `fsync_every_write`, which its
statement names.

### Arguments

**WalStorage.** `AckedInLog` is not inductive: the step that acknowledges needs
to know that the last record of the file is the whole record of its own
request, and forced to disk. `AckInv` says so, and rests on `LockInv`: between
append and return a client holds the mutex, so nobody else appends.
`ShownInv` adds that a process which is not running shows nothing, so that
recovery starts from an empty map, and each value it shows was in the file.
`SeqInv` adds that the next number is not below a number in the file.

`CleanInv` is the argument for the absence of corruption: the log is the record
of a legal history (`LegalLog`: whole records, dense numbers, a DEL only of a
key whose last record is a SET), and memory is what it leads to: after
`replayed` records during recovery, after all records but the one in flight when
up. It uses the relation `Reflects` instead of the function `Contents`, which
chooses; `Replayable` connects the two for every beginning of the file.

**WalStorage implements KVStore.** `kv` is the map while the process is up and
what the file replays to while it is not. An append is `Persist`: it adds one
survivor, and `Contents` of the longer file is `Contents` of the shorter one
with one key changed, because nobody else is past the append. A sync is
`Settle`: what is not forced leaves `survivors`. `ApplyMutation` is `Commit`,
`RemoveMissing` and the failures are `Reject`, a kill is `ProcessCrash` (the map
is then read off the file, which may have the mutation in flight), a loss of
power `PowerFailure`, `Shutdown` is `SettleAll` or a stutter, and the steps of
recovery are stutters: what a refused or running recovery has in its map is not
shown.

**TcpServer.** `SlotInv` ties the vector of slots, the flags and the phase of
each thread to the counter; `SocketInv` says who owns each socket: the queue of
the kernel, main between accept and its decision, or one worker until it has
exited. `RejectedForCause` is an action property of the two: the counter that main
tested may be stale, but workers only count down. `LinesInv` is a count: the lines
answered, being answered, in the buffer and in the socket are the lines sent,
as long as a worker serves and the flag is not set.

**Asterd.** `OptionsAreDeclared` needs that every entry, for every option that
was set before, does the same: nothing, a refusal, or an assignment of one text
to one member (`LineShape`, `EntryShape`). Then the options after n entries are
the last value of each (`ReadInv`), by one entry at a time. `LogsAreServed` and
`EndpointsProtectLogs` use `EndpointInv` (one process serves on an endpoint) and
`LogInv`: from the recovery on, a process that nobody overtook has the map of
its log. Replay is a function of the last record here, so an append is one case.

**WalFile.** `PromiseKept` in one state does not follow from `PromiseKept` in
the state before: `close` forces the file to disk in one step and returns in a later
one. `ForcedInv` keeps what this writer has written forced from the first to the
second, and while it is closed; `WriterInv` that nothing is open or under way
without a writer. `TypeCorrect` needs that a line is not empty, for every record,
and that what a power loss leaves of a piece is a beginning of the same line.

`ReadsBack` follows from the types alone: it is about every file that is a sequence
of beginnings of lines, whatever order of faults made it. `FilesReadBack` is an induction over the pieces
with three cases for the file so far. A whole piece gives one line, its five
fields are what `Split` finds between the separators, and each reads back as it
was written (`AreWhole`). A broken piece runs on into what follows. If nothing but first
symbols follows (`AreCut`), the line is the piece with these digits behind it: five fields
only if the cut fell into the last one, so that the others are those of the record
and the value is another; a DEL and an invalid record have none and stay the same.
If a longer piece follows, the rest of its version stands behind the beginning of a
line, where no line that is accepted has it: the file is refused (`AreSpoilt`).

**Service.** `CallInv` ties how far a process is in `sendCommandLine` to what
asterd has of its connection; `CapacityInv` counts the workers; `FailureInv` says that
a process with a failure behind it has not reported success. `NoWaitingCircle` needs
`CallInv` (a process that reads has sent everything, its end of input included, so
that its worker has something to take) and `QueueInv`: a call that is past
`connect` has a connection, and a connection in the queue has a server that is
not down yet.

**Service implements AtomicStore.** A read is executed at `ExecuteRead`; a
write when the engine commits it, or when `remove` finds no key; it is refused when
the engine fails. A client that is turned away is refused at `Reject`; a line
that never arrives is never executed, and its call fails. A server that is killed may execute what it
has in flight, and that is a step of AtomicStore too. `AnswerInv` is what makes it
work: a connection has its answer once its command has been executed or
refused and not before, and nothing is sent without one, so that no call
returns with another call's answer and no command is executed twice.

**What is read of a response** (`ResponsesAreRead`) is the other half. A
connection may be cut at every symbol. A line response that is cut is printed
as a beginning of the line, which is either the whole or not taken for a success
with another meaning (`Printable`); a bulk response announces its length, so
a cut in the value is noticed, and a cut in the length leaves either no number
or a number for which there are no bytes. For that the length must be read as it
was written, for lengths of any size: `NumberOfDecimal`, and that a proper
beginning of the digits is never read as zero (`DecimalBegins`).

**What is read of a command line** (`LinesAreTokenized`): a line is one field, or
another line with a blank and a field after it (`LineEnds`, by induction), and a
field more is a token more or, if it is empty, none. So a line can be put together from
any tokens, and every command has one (`CommandsCanBeTyped`).

**Induction.** The provers have none over data. TextProofs gets it from what they do
have: if a set contains 0 and with each number the next, a number outside would
make the finite interval up to it have an injection into itself that is not onto,
so by cardinality there is none (`SetInduction`). A function that is defined by
recursion exists and is unique by the same induction (`RecursionExists`), which
gives the equations of `Decimal`, `NumberOf`, `Split`, `TextOf` and `NonEmpty`. A set of texts
with the empty one and with each text the one that is a symbol longer has all
texts (`TextInduction`).

### Model-checked only

- liveness: `RecoveryEnds`, `MutexReleased`, `ConnectionEnds`, `JoinCompletes`,
  `StopCompletes`, `BacklogServed`; the prover does not reach it;
- `NoMutualWait`, which is about ENABLED; what it rests on, who waits for whom, is
  `NoWaitingCircle`;
- that the lines of the run are commands about its keys and values: `InputAssumption`.

## Not modelled

- blocks of the file that reach the disk out of order: a power loss keeps a
  prefix of what was appended, whatever was forced included;
- the directory entry of a new file, which the code never forces to disk;
- wrap-around of the 64-bit sequence number;
- `runOnce`, which nothing calls (its condition after `acceptClient` is the
  wrong way round), thread creation that fails, `sigaction` that fails, the fixed
  backlog of 16;
- a `close` that fails and whose number is then another file of the process;
- in Service: responses above the client's limit of bytes, a network that fails
  by itself (only processes do), a process that dies in the middle of a line
  (TcpServer has it), the lines that `astercli` answers itself (help, blank lines),
  the endpoint argument of `astercli` (ServerConfig has the parser);
- the local modes of both executables: they run the pipeline in one thread,
  on a map of their own;
- in the texts: of the spellings of a command or a log level those that differ in
  case only are represented by one or two (`Spellings`, `LogLevels`); of a log line
  the carriage return that the reader would take off and the number that it would
  find too large, which the writer never writes (`WellFormed`);
- Status and Result: values without state, which the other modules use as
  outcomes; the logger writes lines and changes nothing (its levels are in
  ServerConfig); `asterctl` prints its version.

## Plan

Done: the storage engine, the TCP server, the writer and the text of the log,
the protocol, client and server together, options and processes; proofs of
every safety property of the runs that pass, but the one about ENABLED. Left are:

1. a process of `astercli` that dies in the middle of a line, and responses above the
   client's limit, in Service;
2. blocks of the file that reach the disk out of order, in WalStorage and WalFile;
3. the wrap-around of the sequence number, for which the log needs records
   that start at any number.
