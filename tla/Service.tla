------------------------------ MODULE Service ------------------------------
(***************************************************************************)
(* astercli and asterd together.  A process of astercli sends each command *)
(* line that it reads on a connection of its own (TcpLineClient) and       *)
(* prints the answer; asterd accepts or rejects the connection, receives,  *)
(* parses, executes on the storage engine, answers and closes.             *)
(*                                                                         *)
(* The other modules are used for what they establish.  Of TcpServer this  *)
(* module keeps what a single connection sees: one worker per connection,  *)
(* never more than maxClientWorkers, a slot that is free before its client *)
(* can see the close.  The storage engine is KVStore.  The protocol is     *)
(* Protocol, symbol by symbol, because connections may cut a text.         *)
(*                                                                         *)
(* A connection has the name of its process: the next one is opened when   *)
(* the last one is closed on both sides.                                   *)
(***************************************************************************)
EXTENDS Protocol, FiniteSets

CONSTANTS
  Cli,               \* processes of astercli
  Repl,              \* those with a prompt; the others are started for one command
  Input,             \* the command lines that each process may read
  Key, Value,        \* keys and values that occur in them
  NoValue,           \* the key is absent
  NoAnswer,          \* nothing was answered on the connection
  NoMutation,        \* the storage engine is not at work for the connection
  Capacities,        \* TcpLineServerOptions::maxClientWorkers at some start of asterd
  Faults             \* what may go wrong: {"engine", "kill", "idle", "die"}

ASSUME ServiceAssumption ==
  /\ Repl \subseteq Cli
  /\ Capacities \subseteq Nat \ {0} /\ Capacities # {}
  /\ Faults \subseteq {"engine", "kill", "idle", "die"}
  /\ \A v \in Value : v \in Seq({v[i] : i \in DOMAIN v})   \* the sequence of its bytes

\* The responses there are.
Answers ==
  {Pong, CommandOk, Number(0), Number(1)} \cup {Bulk(v) : v \in Value}
  \cup {Failure(code) : code \in {"invalid_argument", "not_found", "unavailable"}}

\* An absent value, answer or mutation is none of those there are.
ASSUME SentinelAssumption ==
  /\ NoValue \notin Value
  /\ NoAnswer \notin Answers
  /\ NoMutation \notin [key : Key, value : Value \cup {NoValue}]

VARIABLES
  \* asterd
  maxClientWorkers,
  server,      \* up; stopping: the flag is set and accept sleeps on; draining; down
  conn,        \* server side of each connection: none, queued, open, closed
  worker,      \* its worker thread: none, recv, execute, engine, send
  got,         \* how much of the client's input it has received
  answer,      \* its response to the line
  out,         \* how much of the response is on its way: nothing, part or whole
  kv,          \* the map of the storage engine
  pending,     \* the mutation that set or remove has under way
  \* astercli
  pc,          \* where the process is in sendCommandLine, or how the call ended
  line,        \* the command line
  sent,        \* what it has sent: 1 the line, 2 the newline, 3 the end of input
  printed,     \* what it printed on standard output for the line
  hadFailure,  \* runConnectReplMode: some command has failed
  exit         \* exit code of the process: running, success or failure

asterd   == <<maxClientWorkers, server, conn, worker, got, answer, out, kv, pending>>
astercli == <<pc, line, sent, printed, hadFailure, exit>>
vars     == <<asterd, astercli>>

Ended   == {"none", "ok", "error", "failed"}
Calling == {"connect", "sendLine", "sendNewline", "shutdown", "read"}
Serving == {x \in Cli : worker[x] # "none"}
Stopped == server # "up"

AsterdType ==
  /\ maxClientWorkers \in Capacities
  /\ server \in {"up", "stopping", "draining", "down"}
  /\ conn \in [Cli -> {"none", "queued", "open", "closed"}]
  /\ worker \in [Cli -> {"none", "recv", "execute", "engine", "send"}]
  /\ got \in [Cli -> 0..2]
  /\ out \in [Cli -> {"nothing", "part", "whole"}]
  /\ kv \in [Key -> Value \cup {NoValue}]
  /\ pending \in [Cli -> {NoMutation} \cup [key : Key, value : Value \cup {NoValue}]]

CliType ==
  /\ pc \in [Cli -> Calling \cup Ended \cup {"over", "gone"}]
  /\ sent \in [Cli -> 0..3]
  /\ DOMAIN line = Cli /\ \A x \in Cli : line[x] \in Input[x] \cup {<<>>}
  /\ exit \in [Cli -> {"running", "success", "failure"}]

TypeOK ==
  /\ AsterdType /\ CliType
  /\ hadFailure \in [Cli -> BOOLEAN]
  /\ Cardinality(Serving) <= maxClientWorkers
  /\ \A x \in Cli : got[x] <= sent[x] /\ (worker[x] # "none" <=> conn[x] = "open")

Init ==
  /\ maxClientWorkers \in Capacities
  /\ server = "up"
  /\ conn = [x \in Cli |-> "none"]
  /\ worker = [x \in Cli |-> "none"]
  /\ got = [x \in Cli |-> 0]
  /\ answer = [x \in Cli |-> NoAnswer]
  /\ out = [x \in Cli |-> "nothing"]
  /\ kv = [k \in Key |-> NoValue]
  /\ pending = [x \in Cli |-> NoMutation]
  /\ pc = [x \in Cli |-> "none"]
  /\ line = [x \in Cli |-> <<>>]
  /\ sent = [x \in Cli |-> 0]
  /\ printed = [x \in Cli |-> <<>>]
  /\ hadFailure = [x \in Cli |-> FALSE]
  /\ exit = [x \in Cli |-> "running"]

\* What each line is parsed to.
Parsed     == [text \in UNION {Input[x] : x \in Cli} |-> ParseCommandLine(text)]
Request(x) == IF line[x] = <<>> THEN NoRequest ELSE Parsed[line[x]]

\* The storage engine.  What a loss of power may leave is not looked at here.
Engine == INSTANCE KVStore WITH
            Client    <- Cli,
            survivors <- [Key -> Value \cup {NoValue}],
            Durable   <- FALSE

Atomic == INSTANCE AtomicStore WITH
            Caller  <- Cli,
            request <- [x \in Cli |-> Request(x)],
            call    <- [x \in Cli |-> IF pc[x] \in Calling THEN "waiting" ELSE pc[x]]

\* What the lines say: a command about these keys and values, or none.
ASSUME InputAssumption ==
  \A x \in Cli : \A text \in Input[x] : ParseCommandLine(text) \in Atomic!Requests

-----------------------------------------------------------------------------
(* astercli *)

Go(x, p) == pc' = [pc EXCEPT ![x] = p]

\* EXIT_FAILURE or EXIT_SUCCESS.
Code(failed) == IF failed THEN "failure" ELSE "success"

\* runConnectReplMode: a line that is not for astercli itself becomes a call of
\* sendCommandLine.  runConnectSingleCommandMode: a new process, for one command.
NextLine(x) ==
  /\ pc[x] \in Ended
  /\ \E text \in Input[x] : line' = [line EXCEPT ![x] = text]
  /\ Go(x, "connect")
  /\ printed' = [printed EXCEPT ![x] = <<>>]
  /\ exit' = [exit EXCEPT ![x] = "running"]
  /\ UNCHANGED <<asterd, sent, hadFailure>>

\* exit, quit, or the end of the input.
Exit(x) ==
  /\ x \in Repl
  /\ pc[x] \in Ended
  /\ exit' = [exit EXCEPT ![x] = Code(hadFailure[x])]
  /\ Go(x, "over")
  /\ printed' = [printed EXCEPT ![x] = <<>>]
  /\ UNCHANGED <<asterd, line, sent, hadFailure>>

\* sendCommandLine returns: its socket and its texts are gone, and so is what the
\* server had on the connection, which it has closed.
ReturnsWith(x, outcome, text) ==
  /\ Go(x, outcome)
  /\ printed' = [printed EXCEPT ![x] = text]
  /\ line' = [line EXCEPT ![x] = <<>>]
  /\ sent' = [sent EXCEPT ![x] = 0]
  /\ conn' = [conn EXCEPT ![x] = "none"]
  /\ got' = [got EXCEPT ![x] = 0]
  /\ answer' = [answer EXCEPT ![x] = NoAnswer]
  /\ out' = [out EXCEPT ![x] = "nothing"]
  /\ exit' = [exit EXCEPT ![x] = IF x \in Repl THEN "running" ELSE Code(outcome # "ok")]
  /\ UNCHANGED <<maxClientWorkers, server, worker, kv, pending>>

\* Mutant: only the last command decides on the exit code.
ReturnForgets(x, outcome, text) ==
  /\ ReturnsWith(x, outcome, text)
  /\ hadFailure' = [hadFailure EXCEPT ![x] = x \in Repl /\ outcome # "ok"]

\* The process reports an error; one with a prompt goes on, and remembers.
Return(x, outcome, text) ==
  /\ ReturnsWith(x, outcome, text)
  /\ hadFailure' = [hadFailure EXCEPT ![x] = hadFailure[x] \/ (x \in Repl /\ outcome # "ok")]

\* validateCommandLine: an empty line is no command, and a line end inside the line
\* would end it on the server.
Sendable(text) == text # <<>> /\ \A i \in 1..Len(text) : text[i] \notin {"\r", "\n"}

\* The listening socket takes a connection as long as it is open.
Connect(x) ==
  /\ pc[x] = "connect"
  /\ \/ /\ Sendable(line[x]) /\ server # "down"
        /\ conn' = [conn EXCEPT ![x] = "queued"]
        /\ Go(x, "sendLine")
        /\ UNCHANGED <<maxClientWorkers, server, worker, got, answer, out, kv, pending,
                       line, sent, printed, hadFailure, exit>>
     \/ ~Sendable(line[x]) /\ Return(x, "failed", <<>>)
     \/ server = "down" /\ Return(x, "failed", <<>>)

\* Each send may succeed or fail once the server has closed the connection.
Send(x, n, next) ==
  \/ /\ sent' = [sent EXCEPT ![x] = n]
     /\ Go(x, next)
     /\ UNCHANGED <<asterd, line, printed, hadFailure, exit>>
  \/ conn[x] = "closed" /\ Return(x, "failed", <<>>)

\* Mutant: the client does not end its input before it reads.
SendWithoutEnd(x) ==
  \/ pc[x] = "sendLine" /\ Send(x, 1, "sendNewline")
  \/ pc[x] = "sendNewline" /\ Send(x, 2, "read")

\* sendCommand: the line, the newline and the end of input are three calls.
SendCommand(x) ==
  \/ pc[x] = "sendLine" /\ Send(x, 1, "sendNewline")
  \/ pc[x] = "sendNewline" /\ Send(x, 2, "shutdown")
  \/ pc[x] = "shutdown" /\ Send(x, 3, "read")

\* The texts that the client may receive up to the end of the connection.
Received(x) ==
  LET text == Serialize(answer[x]) IN
  CASE out[x] = "nothing" -> {<<>>}
    [] out[x] = "part"    -> {Prefix(text, n) : n \in 0..(Len(text) - 1)}
    [] out[x] = "whole"   -> {text}

\* readResponse and printUserResponse.  If the server closed before it had received
\* everything, a reset may come first.
ReadResponse(x) ==
  /\ pc[x] = "read" /\ conn[x] = "closed"
  /\ \/ \E text \in Received(x) :
          LET kind == ParseProtocolResponse(text).kind IN
          \/ kind \notin {"invalid", "error"} /\ Return(x, "ok", Printed(text))
          \/ kind = "error" /\ Return(x, "error", <<>>)
          \/ kind = "invalid" /\ Return(x, "failed", <<>>)
     \/ got[x] < 2 /\ Return(x, "failed", <<>>)

\* A process is killed: the kernel closes its socket.  (Bound: one without a prompt.)
Die(x) ==
  /\ "die" \in Faults
  /\ x \notin Repl
  /\ pc[x] \in Calling \ {"connect"}
  /\ Go(x, "gone")
  /\ out' = [out EXCEPT ![x] = "nothing"]
  /\ UNCHANGED <<maxClientWorkers, server, conn, worker, got, answer, kv, pending,
                 line, sent, printed, hadFailure, exit>>

-----------------------------------------------------------------------------
(* asterd: connections *)

\* Nothing more will come from the client than what it has sent.
InputEnds(x) == sent[x] = 3 \/ pc[x] = "gone"

\* A response for a client; nothing arrives at one that is gone.
Deliver(x, much) == out' = [out EXCEPT ![x] = IF pc[x] = "gone" THEN "nothing" ELSE much]

\* Mutant: the capacity test allows one worker too many.
AdmitOneMore(x) ==
  /\ Cardinality(Serving) <= maxClientWorkers
  /\ conn' = [conn EXCEPT ![x] = "open"]
  /\ worker' = [worker EXCEPT ![x] = "recv"]
  /\ UNCHANGED <<answer, out>>

\* There is capacity, and a worker starts.
Admit(x) ==
  /\ Cardinality(Serving) < maxClientWorkers
  /\ conn' = [conn EXCEPT ![x] = "open"]
  /\ worker' = [worker EXCEPT ![x] = "recv"]
  /\ UNCHANGED <<answer, out>>

\* There is none: the client is told so and disconnected.
Reject(x) ==
  /\ Cardinality(Serving) >= maxClientWorkers
  /\ conn' = [conn EXCEPT ![x] = "closed"]
  /\ answer' = [answer EXCEPT ![x] = Failure("unavailable")]
  /\ Deliver(x, "whole")
  /\ UNCHANGED worker

\* accept returns a connection; after a stop it may return a last one.
Accept(x) ==
  /\ server \in {"up", "stopping"}
  /\ conn[x] = "queued"
  /\ Admit(x) \/ Reject(x)
  /\ server' = IF Stopped THEN "draining" ELSE "up"
  /\ UNCHANGED <<maxClientWorkers, got, kv, pending, astercli>>

\* The signal: it ends accept, or it does not.
Signal ==
  /\ server = "up"
  /\ server' \in {"stopping", "draining"}
  /\ UNCHANGED <<maxClientWorkers, conn, worker, got, answer, out, kv, pending, astercli>>

\* All workers are joined; the listening socket closes with its queue.
RunReturns ==
  /\ server = "draining" /\ Serving = {}
  /\ server' = "down"
  /\ conn' = [x \in Cli |-> IF conn[x] = "queued" THEN "closed" ELSE conn[x]]
  /\ UNCHANGED <<maxClientWorkers, worker, got, answer, out, kv, pending, astercli>>

\* asterd starts again, maybe with another limit, and recovers what the engine kept.
Restart ==
  /\ server = "down"
  /\ server' = "up"
  /\ maxClientWorkers' \in Capacities
  /\ UNCHANGED <<conn, worker, got, answer, out, kv, pending, astercli>>

\* asterd is killed.  A mutation under way may have reached the log, and is then
\* executed as far as anybody can tell; a response may be cut.
Kill ==
  /\ "kill" \in Faults
  /\ server # "down"
  /\ server' = "down"
  /\ conn' = [x \in Cli |-> IF conn[x] = "none" THEN "none" ELSE "closed"]
  /\ worker' = [x \in Cli |-> "none"]
  /\ Engine!ProcessCrash
  /\ \/ kv' = kv /\ UNCHANGED answer
     \/ \E x \in Cli : /\ pending[x] # NoMutation
                       /\ kv' = Engine!Applied(pending[x])
                       /\ answer' = [answer EXCEPT ![x] = Atomic!Answer(kv, Request(x))]
  /\ out' \in {o \in [Cli -> {"nothing", "part", "whole"}] :
                 \A x \in Cli : o[x] = out[x] \/ (o[x] = "part" /\ worker[x] = "send")}
  /\ UNCHANGED <<maxClientWorkers, got, astercli>>

-----------------------------------------------------------------------------
(* asterd: the worker of a connection *)

Work(x, w) == worker' = [worker EXCEPT ![x] = w]

\* serveClient returns; the slot and the socket are given back.
Leave(x) ==
  /\ Work(x, "none")
  /\ conn' = [conn EXCEPT ![x] = "closed"]

\* recv returns a part of what was sent; a complete line is executed.
Receive(x) ==
  /\ worker[x] = "recv"
  /\ \E n \in 1..2 :
       /\ got[x] < n /\ n <= sent[x]
       /\ got' = [got EXCEPT ![x] = n]
       /\ Work(x, IF n = 2 THEN "execute" ELSE "recv")
  /\ UNCHANGED <<maxClientWorkers, server, conn, answer, out, kv, pending, astercli>>

\* Mutant: the worker does not take the end of the input for the end.
ReceiveEndWaits(x) ==
  /\ worker[x] = "recv" /\ InputEnds(x)
  /\ got[x] = 1 /\ sent[x] = 1 /\ answer[x] = NoAnswer /\ ~Stopped
  /\ Work(x, "execute")
  /\ UNCHANGED <<maxClientWorkers, server, conn, got, answer, out, kv, pending, astercli>>

\* The end of the input: a line without its newline is executed, unless the
\* server was stopped.
ReceiveEnd(x) ==
  /\ worker[x] = "recv" /\ InputEnds(x)
  /\ got[x] = sent[x] \/ got[x] = 2
  /\ \/ got[x] = 1 /\ answer[x] = NoAnswer /\ ~Stopped /\ Work(x, "execute") /\ UNCHANGED conn
     \/ (got[x] # 1 \/ answer[x] # NoAnswer \/ Stopped) /\ Leave(x)
  /\ UNCHANGED <<maxClientWorkers, server, got, answer, out, kv, pending, astercli>>

\* The stop flag, the idle timeout, or the reset of a client that is gone.
GiveUp(x) ==
  /\ worker[x] = "recv"
  /\ Stopped \/ "idle" \in Faults \/ pc[x] = "gone"
  /\ Leave(x)
  /\ UNCHANGED <<maxClientWorkers, server, got, answer, out, kv, pending, astercli>>

\* The line has its response.
Respond(x, response) ==
  /\ answer' = [answer EXCEPT ![x] = response]
  /\ Work(x, "send")
  /\ UNCHANGED <<maxClientWorkers, server, conn, got, out, astercli>>

MutationOf(q) ==
  [key |-> Atomic!KeyOf(q), value |-> IF q.type = "Set" THEN q.arguments[2] ELSE NoValue]

\* processLine: a line that is no command, and the commands that do not write.
\* GET and EXISTS read the map at one moment.
ExecuteRead(x) ==
  /\ worker[x] = "execute"
  /\ LET q == Request(x) IN
     \/ q.type = "invalid" /\ Respond(x, Failure("invalid_argument"))
     \/ q.type = "Ping" /\ Respond(x, Pong)
     \/ /\ q.type = "Get"
        /\ LET value == kv[Atomic!KeyOf(q)] IN
           Respond(x, IF value = NoValue THEN Failure("not_found") ELSE Bulk(value))
     \/ /\ q.type = "Exists"
        /\ Respond(x, Number(IF kv[Atomic!KeyOf(q)] = NoValue THEN 0 ELSE 1))
  /\ UNCHANGED <<kv, pending>>

\* SET and DEL call the storage engine.
ExecuteWrite(x) ==
  /\ worker[x] = "execute"
  /\ Request(x).type \in {"Set", "Del"}
  /\ Engine!Begin(x)
  /\ pending'[x] = MutationOf(Request(x))
  /\ Work(x, "engine")
  /\ UNCHANGED <<maxClientWorkers, server, conn, got, answer, out, astercli>>

\* Mutant: remove answers by what it saw before it had the mutex.
EngineCommitsUnchecked(x) ==
  /\ worker[x] = "engine"
  /\ Engine!Commit(x)
  /\ Respond(x, IF pending[x].value = NoValue THEN Number(1) ELSE CommandOk)

\* set or remove succeeds.
EngineCommits(x) ==
  /\ worker[x] = "engine"
  /\ pending[x].value = NoValue => kv[pending[x].key] # NoValue
  /\ Engine!Commit(x)
  /\ Respond(x, IF pending[x].value = NoValue THEN Number(1) ELSE CommandOk)

\* remove answers NotFound, or the engine fails without an effect.
EngineRejects(x) ==
  /\ worker[x] = "engine"
  /\ Engine!Reject(x)
  /\ \/ /\ pending[x].value = NoValue /\ kv[pending[x].key] = NoValue
        /\ Respond(x, Number(0))
     \/ "engine" \in Faults /\ Respond(x, Failure("unavailable"))

\* sendAll: the response, or a part of it if the server is stopped while the
\* socket is full, or the client is gone.  Then the next recv, or the end if this
\* was the line without a newline.
SendResponse(x) ==
  /\ worker[x] = "send"
  /\ Deliver(x, "whole") \/ (Stopped /\ Deliver(x, "part"))
  /\ \/ got[x] = 2 /\ Work(x, "recv") /\ UNCHANGED conn
     \/ (got[x] = 1 \/ pc[x] = "gone") /\ Leave(x)
  /\ UNCHANGED <<maxClientWorkers, server, got, answer, kv, pending, astercli>>

-----------------------------------------------------------------------------
Call(x) ==
  Connect(x) \/ SendCommand(x) \/ ReadResponse(x)

Worker(x) ==
  \/ Receive(x) \/ ReceiveEnd(x) \/ ExecuteRead(x) \/ ExecuteWrite(x)
  \/ EngineCommits(x) \/ EngineRejects(x) \/ SendResponse(x)

Next ==
  \/ \E x \in Cli : NextLine(x) \/ Exit(x) \/ Call(x) \/ Die(x)
  \/ \E x \in Cli : Accept(x) \/ Worker(x) \/ GiveUp(x)
  \/ Signal \/ RunReturns \/ Restart \/ Kill

Spec == Init /\ [][Next]_vars

-----------------------------------------------------------------------------
(* Properties *)

\* astercli and asterd together are the atomic map: commands of concurrent
\* processes take effect one at a time between call and return, at most once;
\* what is printed on success is the answer of that execution, whatever part of
\* the text a stop or a crash has cut off; an error of the server, a rejection
\* at the client limit included, means that nothing was changed; and a command
\* whose connection failed is not executed after the call has returned.
Linearizable == Atomic!AtomicSpec

\* A process in which any command failed does not exit with success, even if
\* later commands succeed: it remembers.
FailureReachesExitCode ==
  [][\A x \in Repl : hadFailure[x] \/ pc[x] \in {"error", "failed"} =>
       hadFailure'[x] /\ exit'[x] # "success"]_vars

\* The two programs never wait for each other: whenever a call is under way, the
\* client can go on, or its worker can, or main can accept it; or main has left
\* its loop and only waits for workers of calls that can go on.  The client shuts down its
\* write side before it reads to the end, so the worker sees the end of the input
\* and closes.  The timeouts of the server are not needed for it, nor those of the
\* client, which readResponse ignores.
NoMutualWait ==
  \A x \in Cli : pc[x] \in Calling =>
    \/ ENABLED Call(x) \/ ENABLED Worker(x) \/ ENABLED Accept(x)
    \/ /\ conn[x] = "queued" /\ server = "draining"
       /\ ENABLED RunReturns \/ \E y \in Serving : ENABLED Worker(y) \/ ENABLED Call(y)

\* The client sleeps in recv until the server sends or closes.
ClientWaits(x) == pc[x] = "read" /\ conn[x] # "closed"

\* The worker sleeps in recv until the client sends or ends its input.
WorkerWaits(x) == worker[x] = "recv" /\ got[x] = sent[x] /\ ~InputEnds(x)

\* There is no circle of waiting: a client that waits has a worker that does not, or
\* is in the queue of a server that has not closed it; and a worker that waits, and
\* for which a stopping main waits in join, has a client that is still sending.
\* (NoMutualWait says the same of what can happen next, this of who waits for whom.)
NoWaitingCircle ==
  \A x \in Cli :
    /\ ClientWaits(x) => \/ worker[x] # "none" /\ ~WorkerWaits(x)
                         \/ conn[x] = "queued" /\ server # "down"
    /\ WorkerWaits(x) => pc[x] \in {"sendLine", "sendNewline", "shutdown"}

-----------------------------------------------------------------------------
(* The vocabulary of the proofs *)

\* How far a process has come in a call, and the server with its connection.
CallOf(x) ==
  /\ pc[x] \in Ended \cup {"connect", "over"} => conn[x] = "none" /\ sent[x] = 0
  /\ pc[x] = "sendLine" => sent[x] = 0
  /\ pc[x] = "sendNewline" => sent[x] = 1
  /\ pc[x] = "shutdown" => sent[x] = 2
  /\ pc[x] = "read" => sent[x] = 3
  /\ got[x] <= sent[x]
  /\ worker[x] # "none" <=> conn[x] = "open"
CallInv == \A x \in Cli : CallOf(x)

\* A call that is past connect has a connection; the queue is gone when asterd is.
QueueOf(x) ==
  /\ pc[x] \in Calling \ {"connect"} => conn[x] # "none"
  /\ conn[x] = "queued" => server # "down"
QueueInv == \A x \in Cli : QueueOf(x)

\* The workers are within the capacity of this start of asterd, and none outlives it.
CapacityInv ==
  /\ IsFiniteSet(Serving) /\ Cardinality(Serving) <= maxClientWorkers
  /\ server = "down" => Serving = {}

\* A process that remembers a failure has not reported success.
FailureInv ==
  \A x \in Repl :
    /\ pc[x] \in {"error", "failed"} => hadFailure[x]
    /\ hadFailure[x] => exit[x] # "success"

\* What has become of the command of a connection: its answer is there once it has been
\* executed or refused and not before, and nothing is sent without one.
AnswerOf(x) ==
  /\ pc[x] \in Calling => printed[x] = <<>>
  /\ out[x] # "nothing" \/ worker[x] = "send" => answer[x] # NoAnswer
  /\ \/ conn[x] \in {"none", "queued"} \/ worker[x] \in {"execute", "engine"}
     \/ worker[x] = "recv" /\ got[x] # 2
     => answer[x] = NoAnswer
  /\ worker[x] = "engine" => Request(x).type \in {"Set", "Del"}
  /\ pending[x] = IF worker[x] = "engine" THEN MutationOf(Request(x)) ELSE NoMutation
AnswerInv ==
  /\ answer \in [Cli -> Answers \cup {NoAnswer}]
  /\ printed = [x \in Cli |-> printed[x]]
  /\ \A x \in Cli : AnswerOf(x)
=============================================================================
