---------------------------- MODULE AtomicStore ----------------------------
(***************************************************************************)
(* What asterd promises to the programs that call it: a map on which every *)
(* command is executed at one moment between its call and its return, or   *)
(* not at all.  There are no connections, no texts and no threads here.    *)
(*                                                                         *)
(* A caller that is told of success had its command executed and gets the  *)
(* answer of that execution.  A caller that is told of an error by the     *)
(* server knows that nothing changed.  A caller whose connection failed    *)
(* does not know whether its command was executed, but knows that it will  *)
(* not be executed later.  A caller that is gone may leave its command.    *)
(***************************************************************************)
EXTENDS Protocol

CONSTANTS
  Caller,      \* programs that send commands, one at a time
  Key, Value,  \* keys and values; a value is the sequence of its bytes
  NoValue,     \* the key is absent
  NoAnswer     \* the command has not been executed

VARIABLES
  kv,          \* the map
  request,     \* the command of each caller
  answer,      \* what its execution answered
  call,        \* none, waiting, or how the call returned; over: the caller has ended,
               \* gone: it was killed
  printed      \* what the caller was told on success

atomicVars == <<kv, request, answer, call, printed>>

Requests ==
  {NoRequest} \cup [type : {"Ping"}, arguments : {<<>>}]
  \cup [type : {"Get", "Del", "Exists"}, arguments : {<<<<k>>>> : k \in Key}]
  \cup [type : {"Set"}, arguments : {<<<<k>>, v>> : k \in Key, v \in Value}]

KeyOf(q) == q.arguments[1][1]

\* The answer to command q on map m.
Answer(m, q) ==
  CASE q.type = "Ping"   -> Pong
    [] q.type = "Set"    -> CommandOk
    [] q.type = "Get"    -> IF m[KeyOf(q)] = NoValue THEN Failure("not_found") ELSE Bulk(m[KeyOf(q)])
    [] q.type = "Del"    -> Number(IF m[KeyOf(q)] = NoValue THEN 0 ELSE 1)
    [] q.type = "Exists" -> Number(IF m[KeyOf(q)] = NoValue THEN 0 ELSE 1)

Effect(m, q) ==
  CASE q.type = "Set" -> [m EXCEPT ![KeyOf(q)] = q.arguments[2]]
    [] q.type = "Del" -> [m EXCEPT ![KeyOf(q)] = NoValue]
    [] OTHER          -> m

\* A word such as OK may be cut by a stopping server; a value may not.
Printable(a) ==
  CASE a.kind = "error"  -> {}
    [] a.kind = "simple" -> {Prefix(a.value, n) : n \in 1..Len(a.value)}
    [] OTHER             -> {a.value}

AtomicInit ==
  /\ kv = [k \in Key |-> NoValue]
  /\ request = [c \in Caller |-> NoRequest]
  /\ answer = [c \in Caller |-> NoAnswer]
  /\ call = [c \in Caller |-> "none"]
  /\ printed = [c \in Caller |-> <<>>]

Returned == {"none", "ok", "error", "failed"}

Invoke(c) ==
  /\ call[c] \in Returned
  /\ call' = [call EXCEPT ![c] = "waiting"]
  /\ UNCHANGED <<kv, answer>>
  /\ \E q \in Requests : request' = [request EXCEPT ![c] = q]
  /\ printed' = [printed EXCEPT ![c] = <<>>]

Open(c) == call[c] \in {"waiting", "gone"} /\ answer[c] = NoAnswer

Execute(c) ==
  /\ Open(c)
  /\ request[c] # NoRequest
  /\ UNCHANGED <<request, call, printed>>
  /\ answer' = [answer EXCEPT ![c] = Answer(kv, request[c])]
  /\ kv' = Effect(kv, request[c])

\* The server answers with an error: the command does nothing.
Refuse(c) ==
  /\ Open(c)
  /\ UNCHANGED <<kv, request, call, printed>>
  /\ \E code \in {"invalid_argument", "unavailable"} :
       answer' = [answer EXCEPT ![c] = Failure(code)]

Return(c) ==
  /\ call[c] = "waiting"
  /\ \/ /\ call' = [call EXCEPT ![c] = "ok"]
        /\ answer[c] # NoAnswer
        /\ \E text \in Printable(answer[c]) : printed' = [printed EXCEPT ![c] = text]
     \/ /\ call' = [call EXCEPT ![c] = "error"]
        /\ answer[c] # NoAnswer /\ answer[c].kind = "error"
        /\ UNCHANGED printed
     \/ /\ call' = [call EXCEPT ![c] = "failed"]
        /\ UNCHANGED printed
  /\ request' = [request EXCEPT ![c] = NoRequest]
  /\ answer' = [answer EXCEPT ![c] = NoAnswer]
  /\ UNCHANGED kv

\* The caller needs no more answers, or is killed while it waits for one.
End(c) ==
  /\ \/ call[c] \in Returned /\ call' = [call EXCEPT ![c] = "over"]
     \/ call[c] = "waiting" /\ call' = [call EXCEPT ![c] = "gone"]
  /\ printed' = [printed EXCEPT ![c] = <<>>]
  /\ UNCHANGED <<kv, request, answer>>

AtomicNext ==
  \E c \in Caller : Invoke(c) \/ Execute(c) \/ Refuse(c) \/ Return(c) \/ End(c)

AtomicSpec == AtomicInit /\ [][AtomicNext]_atomicVars
=============================================================================
