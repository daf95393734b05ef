------------------------------- MODULE Asterd -------------------------------
(***************************************************************************)
(* Processes of asterd on one machine, from their arguments to their exit  *)
(* code: main, the configuration, TcpServerRuntime::run and the two things *)
(* that processes share, the port they listen on and the WAL file.         *)
(*                                                                         *)
(* What happens between the accept loop and its workers is in TcpServer,   *)
(* what a failing write or a power loss does to the file in WalStorage.    *)
(* Here every record is written whole, and all of them are about one key:  *)
(* a record is the value that SET gave it, or NoValue for DEL.             *)
(***************************************************************************)
EXTENDS ServerConfig, FiniteSetsExt

CONSTANTS
  Proc,          \* processes
  Commands,      \* the command lines that each process may be started with
  Value,         \* values of the key
  NoValue,       \* the key is absent
  NoFile,        \* no file with this name
  Places,        \* file names whose parent directory exists
  Addresses,     \* hosts that are IPv4 addresses of the machine
  Faults,        \* what may go wrong: {"open", "kill"}
  MaxRecords     \* bound on the records of a file

ASSUME AsterdAssumption ==
  /\ NoPath \notin Places
  /\ NoValue \notin Value
  /\ Faults \subseteq {"open", "kill"}
  /\ MaxRecords \in Nat

\* A file that is there, if only an empty one, is not taken for a missing one; a
\* command line ends.
ASSUME SentinelAssumption ==
  /\ NoFile \notin Seq(Value \cup {NoValue})
  /\ \A p \in Proc : \A c \in Commands[p] : Len(c.lines) \in Nat

VARIABLES
  command,   \* [mode, lines]: the arguments, with the lines of the configuration file
  index,     \* the next line, or the next argument
  options,   \* TcpServerOptions
  pc,        \* off, options, launch, recover, listen, serve
  outcome,   \* how the process ended last: none, usage, refused, failed, stopped, killed
  memory,    \* the key in the storage of the process
  log,       \* the files
  behind     \* history: another process has appended to the log since this one read it

vars == <<command, index, options, pc, outcome, memory, log, behind>>

NoCommand == [mode |-> "none", lines |-> <<>>]
Wal(p)    == options[p].walFilePath
Serving   == {p \in Proc : pc[p] = "serve"}
Started   == {"recover", "listen", "serve"}

Members == DOMAIN defaultServerOptions

OptionsType(o) ==
  /\ DOMAIN o = Members
  /\ o.endpoint.port \in 1..MaxPort /\ o.endpoint.host # <<>>
  /\ o.maxClientWorkers \in 1..MaxSize
  /\ o.clientIdleTimeoutSeconds \in 1..MaxUint32
  /\ o.logLevel \in {LogLevels[w] : w \in DOMAIN LogLevels}
  /\ o.walSyncPolicy \in SyncPolicies

TypeOK ==
  /\ DOMAIN command = Proc /\ DOMAIN options = Proc
  /\ \A p \in Proc : command[p] \in Commands[p] \cup {NoCommand} /\ OptionsType(options[p])
  /\ index \in [Proc -> Nat]
  /\ pc \in [Proc -> {"off", "options", "launch"} \cup Started]
  /\ outcome \in [Proc -> {"none", "usage", "refused", "failed", "stopped", "killed"}]
  /\ memory \in [Proc -> Value \cup {NoValue}]
  /\ log \in [Places -> {NoFile} \cup Seq(Value \cup {NoValue})]
  /\ behind \in [Proc -> BOOLEAN]

Init ==
  /\ command = [p \in Proc |-> NoCommand]
  /\ index = [p \in Proc |-> 1]
  /\ options = [p \in Proc |-> defaultServerOptions]
  /\ pc = [p \in Proc |-> "off"]
  /\ outcome = [p \in Proc |-> "none"]
  /\ memory = [p \in Proc |-> NoValue]
  /\ log = [f \in Places |-> NoFile]
  /\ behind = [p \in Proc |-> FALSE]

\* replayRecords: the last record decides, but a DEL of an absent key is an error.
After(records, i)  == IF i = 0 THEN NoValue ELSE records[i]
Replays(records)   == \A i \in 1..Len(records) : records[i] = NoValue => After(records, i - 1) # NoValue
Replayed(records)  == After(records, Len(records))
RecordsOf(f)       == IF log[f] = NoFile THEN <<>> ELSE log[f]

-----------------------------------------------------------------------------
(* main *)

\* The process ends; its memory and its sockets are gone.
End(p, how) ==
  /\ pc' = [pc EXCEPT ![p] = "off"]
  /\ outcome' = [outcome EXCEPT ![p] = how]
  /\ options' = [options EXCEPT ![p] = defaultServerOptions]
  /\ memory' = [memory EXCEPT ![p] = NoValue]
  /\ behind' = [behind EXCEPT ![p] = FALSE]
  /\ UNCHANGED <<command, index, log>>

\* A process starts; main looks at the first argument.  (Bound: one process at a
\* time reads its options, which touches nothing that processes share.)
Start(p) ==
  /\ pc[p] = "off"
  /\ \A q \in Proc : pc[q] \notin {"options", "launch"}
  /\ \E c \in Commands[p] :
       /\ command' = [command EXCEPT ![p] = c]
       /\ pc' = [pc EXCEPT ![p] = "options"]
  /\ index' = [index EXCEPT ![p] = 1]
  /\ outcome' = [outcome EXCEPT ![p] = "none"]
  /\ UNCHANGED <<options, memory, log, behind>>

\* --help, --version, --local, no argument at all: success; an argument that main does
\* not know: failure.
MainEnds(p) ==
  /\ pc[p] = "options"
  /\ \/ command[p].mode \in {"help", "local"} /\ End(p, "usage")
     \/ command[p].mode = "unknown" /\ End(p, "refused")

\* loadServerConfig: the file cannot be opened or read.
ConfigUnreadable(p) ==
  /\ pc[p] = "options" /\ command[p].mode = "unreadable"
  /\ End(p, "refused")

\* The options o after entry i of a command: a line of the file; the address; an option.
Entry(c, i, o) ==
  CASE c.mode = "config"          -> ParseConfigLine(o, c.lines[i])
    [] c.mode = "listen" /\ i = 1 -> Assign(o, "endpoint", c.lines[i])
    [] c.mode = "listen" /\ i > 1 -> ApplyOption(o, c.lines, i)

Reading(p) == pc[p] = "options" /\ command[p].mode \in {"config", "listen"}
More(p)    == Reading(p) /\ index[p] <= Len(command[p].lines)
Read(p)    == Entry(command[p], index[p], options[p])
Width(p)   == IF command[p].mode = "listen" /\ index[p] > 1 THEN 2 ELSE 1

\* Mutant: the first entry about a member of the options is the one that counts.
ReadEntryKeepsFirst(p) ==
  /\ More(p)
  /\ \E o \in Read(p) :
       options' = [options EXCEPT ![p] = [m \in DOMAIN o |->
                     IF @[m] = defaultServerOptions[m] THEN o[m] ELSE @[m]]]
  /\ index' = [index EXCEPT ![p] = @ + Width(p)]
  /\ UNCHANGED <<command, pc, outcome, memory, log, behind>>

\* parseServerConfig, runListenModeFromArguments: the next line, or the next option
\* with its argument.
ReadEntry(p) ==
  /\ More(p)
  /\ \E o \in Read(p) : options' = [options EXCEPT ![p] = o]
  /\ index' = [index EXCEPT ![p] = @ + Width(p)]
  /\ UNCHANGED <<command, pc, outcome, memory, log, behind>>

\* The first entry that is not understood ends the process; so does --listen alone.
RefuseEntry(p) ==
  /\ Reading(p)
  /\ \/ More(p) /\ Read(p) = {}
     \/ command[p].mode = "listen" /\ command[p].lines = <<>>
  /\ End(p, "refused")

\* All is read.
EndOfOptions(p) ==
  /\ Reading(p) /\ ~More(p)
  /\ command[p].mode = "listen" => command[p].lines # <<>>
  /\ pc' = [pc EXCEPT ![p] = "launch"]
  /\ UNCHANGED <<command, index, options, outcome, memory, log, behind>>

\* runListenMode: the runtime is built with the options.  (Here only the endpoint and
\* the file matter from now on, and the others are forgotten.)
Launch(p) ==
  /\ pc[p] = "launch"
  /\ pc' = [pc EXCEPT ![p] = IF Wal(p) = NoPath THEN "listen" ELSE "recover"]
  /\ command' = [command EXCEPT ![p] = NoCommand]
  /\ index' = [index EXCEPT ![p] = 1]
  /\ options' = [options EXCEPT ![p] = [defaultServerOptions EXCEPT
                   !.endpoint = options[p].endpoint, !.walFilePath = Wal(p)]]
  /\ UNCHANGED <<outcome, memory, log, behind>>

-----------------------------------------------------------------------------
(* TcpServerRuntime::run *)

\* Mutant: the file is emptied when it is opened.
RecoverTruncates(p) ==
  /\ pc[p] = "recover" /\ Wal(p) \in Places /\ Replays(RecordsOf(Wal(p)))
  /\ memory' = [memory EXCEPT ![p] = Replayed(RecordsOf(Wal(p)))]
  /\ log' = [log EXCEPT ![Wal(p)] = <<>>]
  /\ pc' = [pc EXCEPT ![p] = "listen"]
  /\ UNCHANGED <<command, index, options, outcome, behind>>

\* recover: the file is read and replayed, and opened for append, or created.
Recover(p) ==
  /\ pc[p] = "recover" /\ Wal(p) \in Places /\ Replays(RecordsOf(Wal(p)))
  /\ memory' = [memory EXCEPT ![p] = Replayed(RecordsOf(Wal(p)))]
  /\ log' = [log EXCEPT ![Wal(p)] = RecordsOf(Wal(p))]
  /\ pc' = [pc EXCEPT ![p] = "listen"]
  /\ UNCHANGED <<command, index, options, outcome, behind>>

\* No directory for the file, a log that does not replay, or no descriptor.
RecoverFails(p) ==
  /\ pc[p] = "recover"
  /\ \/ Wal(p) \notin Places
     \/ Wal(p) \in Places /\ ~Replays(RecordsOf(Wal(p)))
     \/ "open" \in Faults
  /\ End(p, "failed")

\* Two sockets may not listen on one endpoint, SO_REUSEADDR or not.
Bindable(p) ==
  /\ options[p].endpoint.host \in Addresses
  /\ \A q \in Serving : options[q].endpoint # options[p].endpoint

\* Mutant: the socket is shared with whoever listens already.
ListenShared(p) ==
  /\ pc[p] = "listen"
  /\ options[p].endpoint.host \in Addresses
  /\ pc' = [pc EXCEPT ![p] = "serve"]
  /\ UNCHANGED <<command, index, options, outcome, memory, log, behind>>

\* createListeningSocket, after the recovery.
Listen(p) ==
  /\ pc[p] = "listen" /\ Bindable(p)
  /\ pc' = [pc EXCEPT ![p] = "serve"]
  /\ UNCHANGED <<command, index, options, outcome, memory, log, behind>>

\* No address, or the endpoint is taken.
ListenFails(p) ==
  /\ pc[p] = "listen" /\ ~Bindable(p)
  /\ End(p, "failed")

\* A worker executes SET, or DEL of a key that is there.
Mutate(p) ==
  /\ pc[p] = "serve"
  /\ \E v \in Value \cup {NoValue} :
       /\ v = NoValue => memory[p] # NoValue
       /\ memory' = [memory EXCEPT ![p] = v]
       /\ \/ Wal(p) = NoPath /\ UNCHANGED <<log, behind>>
          \/ /\ Wal(p) # NoPath /\ Len(log[Wal(p)]) < MaxRecords
             /\ log' = [log EXCEPT ![Wal(p)] = Append(@, v)]
             /\ behind' = [q \in Proc |-> \/ behind[q]
                                          \/ q # p /\ Wal(q) = Wal(p) /\ pc[q] \in {"listen", "serve"}]
  /\ UNCHANGED <<command, index, options, pc, outcome>>

\* The signal: run returns when the workers have, and main with success.
Stop(p) ==
  /\ pc[p] = "serve"
  /\ End(p, "stopped")

\* A signal before the handlers are installed, or SIGKILL.
Kill(p) ==
  /\ "kill" \in Faults
  /\ pc[p] \in Started
  /\ End(p, "killed")

-----------------------------------------------------------------------------
Next == \E p \in Proc :
  \/ Start(p) \/ MainEnds(p) \/ ConfigUnreadable(p) \/ ReadEntry(p) \/ RefuseEntry(p) \/ EndOfOptions(p) \/ Launch(p)
  \/ Recover(p) \/ RecoverFails(p) \/ Listen(p) \/ ListenFails(p)
  \/ Mutate(p) \/ Stop(p) \/ Kill(p)

Spec == Init /\ [][Next]_vars

-----------------------------------------------------------------------------
(* Properties *)

\* What a command line declares, as a whole: an entry is understood or not, whatever
\* precedes it, and the last entry about a member of the options decides on it.
Entries(c) == {i \in 1..Len(c.lines) : c.mode = "config" \/ i = 1 \/ i % 2 = 0}

\* No entry gives a member this value.
Blank == [endpoint |-> [host |-> <<>>, port |-> 0], maxClientWorkers |-> 0,
          clientIdleTimeoutSeconds |-> 0, logLevel |-> "unset", walFilePath |-> NoPath,
          walSyncPolicy |-> "unset"]

Sets(c, i)     == Entry(c, i, Blank)
About(c, n, m) == {i \in Entries(c) : i < n /\ \E o \in Sets(c, i) : o[m] # Blank[m]}

\* The value of member m, of which the entries at the places S are.
Latest(c, m, S) ==
  IF S = {} THEN defaultServerOptions[m] ELSE (CHOOSE o \in Sets(c, Max(S)) : TRUE)[m]

\* What the entries before place n declare.
DeclaredBefore(c, n) == [m \in Members |-> Latest(c, m, About(c, n, m))]

Understood(c) ==
  /\ c.mode \in {"config", "listen"}
  /\ c.mode = "listen" => c.lines # <<>>
  /\ \A i \in Entries(c) : Sets(c, i) # {}

Declared(c) == DeclaredBefore(c, Len(c.lines) + 1)

\* asterd starts with the options that its arguments or its file declare, and refuses
\* them exactly if some entry cannot be understood, wherever it stands: the reading
\* entry by entry, with its early return, comes to the same in both forms.
OptionsAsDeclared ==
  \A p \in Proc :
    /\ pc[p] = "launch" => Understood(command[p]) /\ options[p] = Declared(command[p])
    /\ outcome[p] = "refused" => ~Understood(command[p])

\* docs/decisions/0035-asterd-wal-file-recovery.md: "On startup, `asterd` replays the
\* WAL file before accepting TCP clients".  A process that serves has the map that its
\* log would be recovered to, whatever processes were started, failed or were killed
\* on the same file, unless another process has appended to it since it was read.
ServesItsLog ==
  \A p \in Serving :
    Wal(p) # NoPath /\ ~behind[p] =>
      Replays(log[Wal(p)]) /\ Replayed(log[Wal(p)]) = memory[p]

\* There is no lock on the file: the endpoint is what keeps a second process away from
\* a server.  Nobody appends to the log of a server that is up to date, except a server
\* with the same file on another endpoint.  (A process that is not yet listening has no
\* such protection: what the old server appends after its recovery it never reads.)
NotOvertaken ==
  [][\A p \in Serving :
       ~behind[p] /\ behind'[p] =>
         \E q \in Serving : q # p /\ Wal(q) = Wal(p) /\ options[q].endpoint # options[p].endpoint]_vars

-----------------------------------------------------------------------------
(* The vocabulary of the proofs *)

\* Up to the entry that is read next every entry is understood, and the options are
\* what these declare; that entry is one at which an option may stand.
ReadOf(p) ==
  /\ pc[p] = "options" =>
       /\ index[p] \in Nat \ {0}
       /\ command[p].mode = "config" \/ index[p] = 1 \/ index[p] % 2 = 0
       /\ options[p] = DeclaredBefore(command[p], index[p])
       /\ \A i \in Entries(command[p]) : i < index[p] => Sets(command[p], i) # {}
  /\ pc[p] = "launch" => Understood(command[p]) /\ options[p] = Declared(command[p])
  /\ outcome[p] = "refused" => pc[p] = "off" /\ ~Understood(command[p])
  /\ pc[p] = "off" => options[p] = defaultServerOptions
ReadInv == \A p \in Proc : ReadOf(p)

\* A process has the map of its log from the recovery on, before it listens.
LogOf(p) ==
  pc[p] \in {"listen", "serve"} /\ Wal(p) # NoPath =>
    /\ Wal(p) \in Places /\ log[Wal(p)] # NoFile
    /\ ~behind[p] => Replays(log[Wal(p)]) /\ Replayed(log[Wal(p)]) = memory[p]
LogInv == \A p \in Proc : LogOf(p)

\* Each endpoint has one process that serves on it.
EndpointInv ==
  \A p, q \in Serving : options[p].endpoint = options[q].endpoint => p = q
=============================================================================
