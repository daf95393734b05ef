---------------------------- MODULE ServerConfig ----------------------------
(***************************************************************************)
(* The options of asterd: what one line of a configuration file, and one   *)
(* option of the command line, does to TcpServerOptions.                   *)
(*                                                                         *)
(* A line is a text (see Text): the symbols are "=", "#", ":", blanks,     *)
(* digits and words.  The widths of the integer types are scaled down.     *)
(*                                                                         *)
(* What a text stands for is a set: one value, or none if it is refused.   *)
(***************************************************************************)
EXTENDS Text

CONSTANTS
  MaxPort,       \* maxTcpPort
  MaxUint32,     \* the largest std::uint32_t
  MaxSize        \* the largest std::size_t

ASSUME ServerConfigAssumption ==
  /\ MaxPort \in Nat \ {0} /\ MaxUint32 \in Nat \ {0} /\ MaxSize \in Nat
  /\ MaxUint32 < MaxSize /\ MaxPort < MaxUint32

NoPath == <<>>

defaultServerOptions ==
  [endpoint                 |-> [host |-> <<"127.0.0.1">>, port |-> 1],
   maxClientWorkers         |-> 1,
   clientIdleTimeoutSeconds |-> 1,
   logLevel                 |-> "info",
   walFilePath              |-> NoPath,
   walSyncPolicy            |-> "fsync_every_write"]

Blanks == {" ", "\t", "\r"}

Trim(text) ==
  LET used == {i \in 1..Len(text) : text[i] \notin Blanks} IN
  IF used = {} THEN <<>>
  ELSE LET first == CHOOSE i \in used : \A j \in used : i <= j
           last  == CHOOSE i \in used : \A j \in used : j <= i
       IN SubSeq(text, first, last)

-----------------------------------------------------------------------------
(* Values *)

\* std::from_chars into an unsigned number: digits only, all of the text, in range.
Unsigned(text, max) ==
  IF text # <<>> /\ \A i \in 1..Len(text) : IsDigit(text[i])
  THEN {NumberOf(text)} \cap 0..max
  ELSE {}

\* Mutant: zero is a number too.
PositiveOrZero(text, max) == {n \in Unsigned(text, MaxSize) : n <= max}

\* parsePositiveSizeValue; with the smaller maximum, parsePositiveUint32Value.
Positive(text, max) == {n \in Unsigned(text, MaxSize) : 0 < n /\ n <= max}

\* parseTcpEndpoint.  Whether the host is an address shows when the socket is bound.
Endpoint(text) ==
  LET parts == Split(text, ":") IN
  IF Len(parts) # 2 THEN {}
  ELSE {[host |-> parts[1], port |-> n] :
          n \in {k \in Unsigned(parts[2], MaxUint32) : parts[1] # <<>> /\ k \in 1..MaxPort}}

\* logLevelFromString: every name, and two of them in the other cases that
\* equalsIgnoreCase accepts; a text that is not listed is one that it refuses.
LogLevels ==
  [debug |-> "debug", info |-> "info", warn |-> "warn", warning |-> "warn", error |-> "error",
   critical |-> "critical", off |-> "off", INFO |-> "info", Warning |-> "warn"]
LogLevel(text) == {LogLevels[w] : w \in {v \in DOMAIN LogLevels : text = <<v>>}}

\* walSyncPolicyFromString, in lower case only.
SyncPolicies == {"none", "fsync_on_flush", "fsync_every_write"}
SyncPolicy(text) == {w \in SyncPolicies : text = <<w>>}

Path(text) == {text} \ {NoPath}

\* What the text stands for as a value of that member of TcpServerOptions.
Meaning(member, text) ==
  CASE member = "endpoint"                 -> Endpoint(text)
    [] member = "maxClientWorkers"         -> Positive(text, MaxSize)
    [] member = "clientIdleTimeoutSeconds" -> Positive(text, MaxUint32)
    [] member = "logLevel"                 -> LogLevel(text)
    [] member = "walFilePath"              -> Path(text)
    [] member = "walSyncPolicy"            -> SyncPolicy(text)

\* The options after such an entry.
Assign(options, member, text) == {[options EXCEPT ![member] = v] : v \in Meaning(member, text)}

-----------------------------------------------------------------------------
(* A line of the file, an option of the command line *)

ConfigKeys ==
  [listen |-> "endpoint", max_clients |-> "maxClientWorkers",
   idle_timeout_seconds |-> "clientIdleTimeoutSeconds", log_level |-> "logLevel",
   wal_file |-> "walFilePath", wal_sync |-> "walSyncPolicy"]

IsCommentOrEmptyLine(line) == Trim(line) = <<>> \/ Trim(line)[1] = "#"

\* applyConfigEntry.
ApplyConfigEntry(options, key, value) ==
  UNION {Assign(options, ConfigKeys[k], Trim(value)) :
           k \in {w \in DOMAIN ConfigKeys : Trim(key) = <<w>>}}

\* parseConfigLine: the first "=" ends the key; the value may hold another, or a "#".
ParseConfigLine(options, line) ==
  LET separators == Positions(line, "=") IN
  CASE IsCommentOrEmptyLine(line) -> {options}
    [] ~IsCommentOrEmptyLine(line) /\ separators = <<>> -> {}
    [] OTHER -> ApplyConfigEntry(options, Prefix(line, separators[1] - 1),
                                 SubSeq(line, separators[1] + 1, Len(line)))

\* runListenModeFromArguments: the member that an option sets, by the option's name.
OptionMembers ==
  {<<"--max-clients", "maxClientWorkers">>, <<"--idle-timeout", "clientIdleTimeoutSeconds">>,
   <<"--log-level", "logLevel">>, <<"--wal-file", "walFilePath">>, <<"--wal-sync", "walSyncPolicy">>}
OptionMember(name) == {o[2] : o \in {q \in OptionMembers : name = <<q[1]>>}}

\* The option at a place in the arguments, and the argument after it.
ApplyOption(options, arguments, i) ==
  UNION {Assign(options, member, arguments[i + 1]) :
           member \in {k \in OptionMember(arguments[i]) : i < Len(arguments)}}
=============================================================================
