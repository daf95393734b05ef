--------------------------- MODULE ServiceProofs ----------------------------
(***************************************************************************)
(* Proofs about Service: the types of both programs, the capacity, who     *)
(* waits for whom, and the exit code of astercli.                          *)
(***************************************************************************)
EXTENDS Service, TLAPS, FiniteSetTheorems

-----------------------------------------------------------------------------
(* Types *)

\* The initial states are well-typed.
LEMMA InitType == Init => AsterdType /\ CliType /\ hadFailure \in [Cli -> BOOLEAN]
BY DEF Init, AsterdType, CliType, Calling, Ended

\* The return of a call leaves well-typed states.
LEMMA ReturnType ==
  ASSUME AsterdType, CliType, NEW x \in Cli, NEW outcome \in {"ok", "error", "failed"}, NEW text,
         Return(x, outcome, text)
  PROVE  (AsterdType /\ CliType)'
<1>1. exit' \in [Cli -> {"running", "success", "failure"}]
  BY DEF Return, ReturnsWith, CliType, Code
<1>2. AsterdType'
  BY DEF Return, ReturnsWith, AsterdType
<1>3. CliType'
  BY <1>1 DEF Return, ReturnsWith, CliType, Go, Ended
<1> QED
  BY <1>2, <1>3

\* A send succeeds, or fails because the server has closed the connection.
LEMMA SendIs ==
  ASSUME NEW x \in Cli, SendCommand(x)
  PROVE  \/ conn[x] = "closed" /\ Return(x, "failed", <<>>)
         \/ /\ UNCHANGED <<asterd, line, printed, hadFailure, exit>>
            /\ \/ pc[x] = "sendLine" /\ sent' = [sent EXCEPT ![x] = 1] /\ Go(x, "sendNewline")
               \/ pc[x] = "sendNewline" /\ sent' = [sent EXCEPT ![x] = 2] /\ Go(x, "shutdown")
               \/ pc[x] = "shutdown" /\ sent' = [sent EXCEPT ![x] = 3] /\ Go(x, "read")
BY DEF SendCommand, Send

\* So do the steps of astercli.
LEMMA ClientType ==
  ASSUME AsterdType, CliType, NEW x \in Cli, NextLine(x) \/ Exit(x) \/ Call(x) \/ Die(x)
  PROVE  (AsterdType /\ CliType)'
<1>1. CASE NextLine(x)
  <2>1. AsterdType'
    BY <1>1 DEF NextLine, AsterdType, asterd
  <2>2. CliType'
    BY <1>1 DEF NextLine, CliType, Go, Calling
  <2> QED
    BY <2>1, <2>2
<1>2. CASE Exit(x)
  <2>1. AsterdType'
    BY <1>2 DEF Exit, AsterdType, asterd
  <2>2. CliType'
    BY <1>2 DEF Exit, CliType, Go, Code
  <2> QED
    BY <2>1, <2>2
<1>3. CASE Connect(x)
  <2>1. CASE \E text : Return(x, "failed", text)
    BY <2>1, ReturnType
  <2>2. CASE ~\E text : Return(x, "failed", text)
    BY <1>3, <2>2, SMTT(30) DEF Connect, AsterdType, CliType, Go, Calling
  <2> QED
    BY <2>1, <2>2
<1>4. CASE SendCommand(x)
  <2>1. CASE Return(x, "failed", <<>>)
    BY <2>1, ReturnType
  <2>2. CASE ~Return(x, "failed", <<>>)
    <3>1. UNCHANGED <<asterd, line, exit>>
      BY <1>4, <2>2, SendIs
    <3>2. /\ sent' \in [Cli -> 0..3]
          /\ pc' \in [Cli -> Calling \cup Ended \cup {"over", "gone"}]
      BY <1>4, <2>2, SendIs DEF CliType, Go, Calling
    <3> QED
      BY <3>1, <3>2 DEF AsterdType, CliType, asterd
  <2> QED
    BY <2>1, <2>2
<1>5. CASE ReadResponse(x)
  <2>1. \E text : Return(x, "ok", text) \/ Return(x, "error", text) \/ Return(x, "failed", text)
    BY <1>5 DEF ReadResponse
  <2> QED
    BY <2>1, ReturnType
<1>6. CASE Die(x)
  BY <1>6 DEF Die, AsterdType, CliType, Go
<1> QED
  BY <1>1, <1>2, <1>3, <1>4, <1>5, <1>6 DEF Call

\* The map after a mutation is a map.
LEMMA AppliedType ==
  ASSUME AsterdType, NEW x \in Cli, pending[x] # NoMutation
  PROVE  Engine!Applied(pending[x]) \in [Key -> Value \cup {NoValue}]
<1>1. pending[x] \in [key : Key, value : Value \cup {NoValue}]
  BY DEF AsterdType
<1> QED
  BY <1>1 DEF AsterdType, Engine!Applied

\* So do the steps of the workers.
LEMMA WorkerType ==
  ASSUME AsterdType, CliType, NEW x \in Cli, Worker(x) \/ GiveUp(x)
  PROVE  (AsterdType /\ CliType)'
<1>1. CASE Receive(x)
  BY <1>1 DEF Receive, AsterdType, CliType, astercli, Work
<1>2. CASE ReceiveEnd(x) \/ GiveUp(x)
  BY <1>2 DEF ReceiveEnd, GiveUp, AsterdType, CliType, astercli, Work, Leave
<1>3. CASE ExecuteRead(x)
  <2>1. \E response : Respond(x, response)
    BY <1>3 DEF ExecuteRead
  <2>2. UNCHANGED <<kv, pending>>
    BY <1>3 DEF ExecuteRead
  <2> QED
    BY <2>1, <2>2 DEF Respond, AsterdType, CliType, astercli, Work
<1>4. CASE ExecuteWrite(x)
  BY <1>4 DEF ExecuteWrite, Engine!Begin, Engine!Mutation, AsterdType, CliType, astercli, Work
<1>5. CASE EngineCommits(x)
  <2>1. kv' \in [Key -> Value \cup {NoValue}] /\ pending' = [pending EXCEPT ![x] = NoMutation]
    BY <1>5 DEF EngineCommits, Engine!Commit
  <2>2. \E response : Respond(x, response)
    BY <1>5 DEF EngineCommits
  <2> QED
    BY <2>1, <2>2 DEF Respond, AsterdType, CliType, astercli, Work
<1>6. CASE EngineRejects(x)
  <2>1. kv' = kv /\ pending' = [pending EXCEPT ![x] = NoMutation]
    BY <1>6 DEF EngineRejects, Engine!Reject
  <2>2. \E response : Respond(x, response)
    BY <1>6 DEF EngineRejects
  <2> QED
    BY <2>1, <2>2 DEF Respond, AsterdType, CliType, astercli, Work
<1>7. CASE SendResponse(x)
  BY <1>7 DEF SendResponse, Deliver, AsterdType, CliType, astercli, Work, Leave
<1> QED
  BY <1>1, <1>2, <1>3, <1>4, <1>5, <1>6, <1>7 DEF Worker

\* And so do the steps of main and of the process.
LEMMA MainType ==
  ASSUME AsterdType, CliType, (\E x \in Cli : Accept(x)) \/ Signal \/ RunReturns \/ Restart \/ Kill
  PROVE  (AsterdType /\ CliType)'
<1>1. CASE \E x \in Cli : Accept(x)
  BY <1>1 DEF Accept, Admit, Reject, Deliver, AsterdType, CliType, astercli
<1>2. CASE Signal \/ RunReturns \/ Restart
  BY <1>2 DEF Signal, RunReturns, Restart, AsterdType, CliType, astercli
<1>3. CASE Kill
  <2>1. kv' \in [Key -> Value \cup {NoValue}]
    BY <1>3, AppliedType DEF Kill, AsterdType
  <2>2. pending' = [x \in Cli |-> NoMutation]
    BY <1>3 DEF Kill, Engine!ProcessCrash, Engine!Nothing
  <2>3. out' \in [Cli -> {"nothing", "part", "whole"}]
    BY <1>3 DEF Kill
  <2> QED
    BY <1>3, <2>1, <2>2, <2>3 DEF Kill, AsterdType, CliType, astercli
<1> QED
  BY <1>1, <1>2, <1>3

\* Every step leaves a well-typed state.
LEMMA StepType == AsterdType /\ CliType /\ [Next]_vars => (AsterdType /\ CliType)'
<1> SUFFICES ASSUME AsterdType, CliType, [Next]_vars
             PROVE  (AsterdType /\ CliType)'
  OBVIOUS
<1>1. CASE UNCHANGED vars
  BY <1>1 DEF vars, asterd, astercli, AsterdType, CliType
<1> QED
  BY <1>1, ClientType, WorkerType, MainType DEF Next

-----------------------------------------------------------------------------
(* The call and its connection *)

\* It is so at first.
LEMMA InitCall == Init => CallInv
BY DEF Init, CallInv, CallOf, Ended

\* A process and its connection stay as they are while others act.
LEMMA OthersCall ==
  ASSUME CallInv, NEW x \in Cli,
         \A y \in Cli \ {x} : /\ pc'[y] = pc[y] /\ sent'[y] = sent[y] /\ conn'[y] = conn[y]
                             /\ got'[y] = got[y] /\ worker'[y] = worker[y],
         CallOf(x)'
  PROVE  CallInv'
<1>1. ASSUME NEW y \in Cli \ {x}
      PROVE  CallOf(y)'
  BY <1>1 DEF CallInv, CallOf
<1> QED
  BY <1>1 DEF CallInv

\* A call returns when the server is done with the connection, or has never had one.
LEMMA ReturnCall ==
  ASSUME AsterdType, CliType, CallInv, NEW x \in Cli, NEW outcome \in {"ok", "error", "failed"},
         NEW text, Return(x, outcome, text), conn[x] # "open"
  PROVE  CallInv'
<1>1. /\ pc'[x] = outcome /\ sent'[x] = 0 /\ conn'[x] = "none" /\ got'[x] = 0
      /\ worker'[x] = worker[x]
  BY DEF Return, ReturnsWith, Go, AsterdType, CliType
<1>2. worker[x] = "none"
  BY DEF CallInv, CallOf
<1>3. CallOf(x)'
  BY <1>1, <1>2 DEF CallOf
<1> QED
  BY <1>3, OthersCall DEF Return, ReturnsWith, Go

\* The steps of astercli.
LEMMA ClientCall ==
  ASSUME AsterdType, CliType, CallInv, NEW x \in Cli, NextLine(x) \/ Exit(x) \/ Call(x) \/ Die(x)
  PROVE  CallInv'
<1>1. CASE NextLine(x) \/ Exit(x)
  <2>1. /\ pc[x] \in Ended /\ pc'[x] \in {"connect", "over"}
        /\ UNCHANGED <<sent, conn, got, worker>> /\ \A y \in Cli \ {x} : pc'[y] = pc[y]
    BY <1>1 DEF NextLine, Exit, asterd, Go, CliType
  <2>2. CallOf(x)'
    BY <2>1 DEF CallInv, CallOf, Ended
  <2> QED
    BY <2>1, <2>2, OthersCall
<1>2. CASE Connect(x)
  <2>1. CASE \E text : Return(x, "failed", text)
    <3>1. conn[x] = "none"
      BY <1>2 DEF Connect, CallInv, CallOf
    <3> QED
      BY <2>1, <3>1, ReturnCall
  <2>2. CASE ~\E text : Return(x, "failed", text)
    <3>1. /\ pc[x] = "connect" /\ pc'[x] = "sendLine" /\ conn'[x] = "queued"
          /\ UNCHANGED <<sent, got, worker>>
          /\ \A y \in Cli \ {x} : pc'[y] = pc[y] /\ conn'[y] = conn[y]
      BY <1>2, <2>2 DEF Connect, Go, CliType, AsterdType
    <3>2. CallOf(x)'
      BY <3>1 DEF CallInv, CallOf, Ended
    <3> QED
      BY <3>1, <3>2, OthersCall
  <2> QED
    BY <2>1, <2>2
<1>3. CASE SendCommand(x)
  <2>1. CASE conn[x] = "closed" /\ Return(x, "failed", <<>>)
    BY <2>1, ReturnCall
  <2>2. CASE ~(conn[x] = "closed" /\ Return(x, "failed", <<>>))
    <3>1. UNCHANGED <<conn, got, worker>>
      BY <1>3, <2>2, SendIs DEF asterd
    <3>2. \A y \in Cli \ {x} : pc'[y] = pc[y] /\ sent'[y] = sent[y]
      BY <1>3, <2>2, SendIs DEF Go, CliType
    <3>3. \/ pc[x] = "sendLine" /\ sent'[x] = 1 /\ pc'[x] = "sendNewline"
          \/ pc[x] = "sendNewline" /\ sent'[x] = 2 /\ pc'[x] = "shutdown"
          \/ pc[x] = "shutdown" /\ sent'[x] = 3 /\ pc'[x] = "read"
      BY <1>3, <2>2, SendIs DEF Go, CliType
    <3>4. got[x] \in 0..2
      BY DEF AsterdType
    <3>5. CallOf(x)'
      BY <3>1, <3>3, <3>4 DEF CallInv, CallOf, Ended
    <3> QED
      BY <3>1, <3>2, <3>5, OthersCall
  <2> QED
    BY <2>1, <2>2
<1>4. CASE ReadResponse(x)
  <2>1. \E text : Return(x, "ok", text) \/ Return(x, "error", text) \/ Return(x, "failed", text)
    BY <1>4 DEF ReadResponse
  <2>2. conn[x] # "open"
    BY <1>4 DEF ReadResponse
  <2> QED
    BY <2>1, <2>2, ReturnCall
<1>5. CASE Die(x)
  <2>1. /\ pc'[x] = "gone" /\ UNCHANGED <<sent, conn, got, worker>>
        /\ \A y \in Cli \ {x} : pc'[y] = pc[y]
    BY <1>5 DEF Die, Go, CliType
  <2>2. CallOf(x)'
    BY <2>1 DEF CallInv, CallOf, Ended
  <2> QED
    BY <2>1, <2>2, OthersCall
<1> QED
  BY <1>1, <1>2, <1>3, <1>4, <1>5 DEF Call

\* The steps of a worker: it has a connection that is open, and leaves it closed.
LEMMA WorkerCall ==
  ASSUME AsterdType, CliType, CallInv, NEW x \in Cli, Worker(x) \/ GiveUp(x)
  PROVE  CallInv'
<1>1. UNCHANGED <<pc, sent>>
  BY DEF Worker, Receive, ReceiveEnd, ExecuteRead, ExecuteWrite, EngineCommits, EngineRejects,
         SendResponse, GiveUp, Respond, astercli
<1>2. worker[x] # "none" /\ conn[x] = "open"
  BY DEF Worker, Receive, ReceiveEnd, ExecuteRead, ExecuteWrite, EngineCommits, EngineRejects,
         SendResponse, GiveUp, CallInv, CallOf
<1>3. /\ got'[x] <= sent[x]
      /\ \A y \in Cli \ {x} : got'[y] = got[y]
  BY DEF Worker, Receive, ReceiveEnd, ExecuteRead, ExecuteWrite, EngineCommits, EngineRejects,
         SendResponse, GiveUp, Respond, CallInv, CallOf, AsterdType
<1>4. /\ worker'[x] # "none" <=> conn'[x] = "open"
      /\ conn'[x] \in {"open", "closed"}
      /\ \A y \in Cli \ {x} : worker'[y] = worker[y] /\ conn'[y] = conn[y]
  <2>1. CASE Leave(x)
    BY <2>1 DEF Leave, Work, AsterdType
  <2>2. CASE UNCHANGED conn /\ \E w \in {"recv", "execute", "engine", "send"} : Work(x, w)
    BY <1>2, <2>2 DEF Work, AsterdType
  <2>3. \/ Leave(x)
        \/ UNCHANGED conn /\ \E w \in {"recv", "execute", "engine", "send"} : Work(x, w)
    BY DEF Worker, Receive, ReceiveEnd, ExecuteRead, ExecuteWrite, EngineCommits, EngineRejects,
           SendResponse, GiveUp, Respond
  <2> QED
    BY <2>1, <2>2, <2>3
<1>5. CallOf(x)'
  BY <1>1, <1>2, <1>3, <1>4 DEF CallInv, CallOf
<1> QED
  BY <1>1, <1>3, <1>4, <1>5, OthersCall

\* The steps of main and of the process.
LEMMA MainCall ==
  ASSUME AsterdType, CliType, CallInv, CapacityInv,
         (\E x \in Cli : Accept(x)) \/ Signal \/ RunReturns \/ Restart \/ Kill
  PROVE  CallInv'
<1>1. CASE Signal \/ Restart
  BY <1>1 DEF Signal, Restart, astercli, CallInv, CallOf
<1>2. CASE \E x \in Cli : Accept(x)
  <2>1. PICK x \in Cli : Accept(x)
    BY <1>2
  <2>2. UNCHANGED <<pc, sent, got>> /\ conn[x] = "queued"
    BY <2>1 DEF Accept, astercli
  <2>3. /\ worker'[x] # "none" <=> conn'[x] = "open"
        /\ \A y \in Cli \ {x} : worker'[y] = worker[y] /\ conn'[y] = conn[y]
    BY <2>1, <2>2 DEF Accept, Admit, Reject, AsterdType, CallInv, CallOf
  <2>4. CallOf(x)'
    BY <2>2, <2>3 DEF CallInv, CallOf
  <2> QED
    BY <2>2, <2>3, <2>4, OthersCall
<1>3. CASE RunReturns
  <2>1. UNCHANGED <<pc, sent, got, worker>> /\ Serving = {}
    BY <1>3 DEF RunReturns, astercli
  <2>2. \A x \in Cli : conn'[x] = IF conn[x] = "queued" THEN "closed" ELSE conn[x]
    BY <1>3 DEF RunReturns
  <2> QED
    BY <2>1, <2>2 DEF CallInv, CallOf
<1>4. CASE Kill
  <2>1. UNCHANGED <<pc, sent, got>>
    BY <1>4 DEF Kill, astercli
  <2>2. \A x \in Cli : worker'[x] = "none" /\ conn'[x] = IF conn[x] = "none" THEN "none" ELSE "closed"
    BY <1>4 DEF Kill
  <2> QED
    BY <2>1, <2>2 DEF CallInv, CallOf
<1> QED
  BY <1>1, <1>2, <1>3, <1>4

\* Every step preserves it.
LEMMA StepCall == AsterdType /\ CliType /\ CallInv /\ CapacityInv /\ [Next]_vars => CallInv'
<1> SUFFICES ASSUME AsterdType, CliType, CallInv, CapacityInv, [Next]_vars
             PROVE  CallInv'
  OBVIOUS
<1>1. CASE UNCHANGED vars
  BY <1>1 DEF vars, asterd, astercli, CallInv, CallOf
<1> QED
  BY <1>1, ClientCall, WorkerCall, MainCall DEF Next

-----------------------------------------------------------------------------
(* The capacity *)

\* At first no worker runs.
LEMMA InitCapacity == Init => CapacityInv
<1> SUFFICES ASSUME Init
             PROVE  CapacityInv
  OBVIOUS
<1>1. Serving = {}
  BY DEF Init, Serving
<1>2. maxClientWorkers \in Nat
  BY ServiceAssumption DEF Init
<1> QED
  BY <1>1, <1>2, FS_EmptySet DEF CapacityInv

\* Fewer workers are within the capacity.
LEMMA FewerCapacity ==
  ASSUME AsterdType, CapacityInv, Serving' \in SUBSET Serving,
         UNCHANGED <<maxClientWorkers, server>>
  PROVE  CapacityInv'
<1>1. /\ IsFiniteSet(Serving') /\ Cardinality(Serving') <= Cardinality(Serving)
      /\ Cardinality(Serving') \in Nat /\ Cardinality(Serving) \in Nat
  BY FS_Subset, FS_CardinalityType DEF CapacityInv
<1>2. maxClientWorkers \in Nat
  BY ServiceAssumption DEF AsterdType
<1> QED
  BY <1>1, <1>2 DEF CapacityInv

\* accept admits a connection below the capacity only.
LEMMA AcceptCapacity ==
  ASSUME AsterdType, CallInv, CapacityInv, NEW x \in Cli, Accept(x)
  PROVE  CapacityInv'
<1>1. server' # "down" /\ maxClientWorkers' = maxClientWorkers
  BY DEF Accept
<1>2. maxClientWorkers \in Nat
  BY ServiceAssumption DEF AsterdType
<1>3. CASE Admit(x)
  <2>1. worker[x] = "none"
    BY DEF Accept, CallInv, CallOf
  <2>2. Serving' = Serving \cup {x} /\ x \notin Serving
    BY <1>3, <2>1 DEF Admit, Serving, AsterdType
  <2>3. /\ IsFiniteSet(Serving \cup {x})
        /\ Cardinality(Serving \cup {x}) = Cardinality(Serving) + 1
        /\ Cardinality(Serving) \in Nat
    BY <2>2, FS_AddElement, FS_CardinalityType DEF CapacityInv
  <2>4. Cardinality(Serving) < maxClientWorkers
    BY <1>3 DEF Admit
  <2> QED
    BY <1>1, <1>2, <2>2, <2>3, <2>4 DEF CapacityInv
<1>4. CASE Reject(x)
  <2>1. Serving' = Serving
    BY <1>4 DEF Reject, Serving
  <2> QED
    BY <1>1, <2>1 DEF CapacityInv
<1> QED
  BY <1>3, <1>4 DEF Accept

\* The other steps of main and of the process.
LEMMA MainCapacity ==
  ASSUME AsterdType, CallInv, CapacityInv, Signal \/ RunReturns \/ Restart \/ Kill
  PROVE  CapacityInv'
<1>1. CASE Signal
  <2>1. Serving' = Serving /\ maxClientWorkers' = maxClientWorkers /\ server' # "down"
    BY <1>1 DEF Signal, Serving
  <2> QED
    BY <2>1 DEF CapacityInv
<1>2. CASE RunReturns
  <2>1. Serving' = Serving /\ Serving = {} /\ maxClientWorkers' = maxClientWorkers
    BY <1>2 DEF RunReturns, Serving
  <2> QED
    BY <2>1 DEF CapacityInv
<1>3. CASE Restart
  <2>1. Serving' = {} /\ maxClientWorkers' \in Nat
    BY <1>3, ServiceAssumption DEF Restart, CapacityInv, Serving
  <2> QED
    BY <2>1, FS_EmptySet DEF CapacityInv
<1>4. CASE Kill
  <2>1. Serving' = {} /\ maxClientWorkers' \in Nat
    BY <1>4, ServiceAssumption DEF Kill, Serving, AsterdType
  <2> QED
    BY <2>1, FS_EmptySet DEF CapacityInv
<1> QED
  BY <1>1, <1>2, <1>3, <1>4

\* A process of astercli starts no worker, and a worker none but itself.
LEMMA ThreadCapacity ==
  ASSUME AsterdType, CapacityInv, NEW x \in Cli,
         NextLine(x) \/ Exit(x) \/ Call(x) \/ Die(x) \/ Worker(x) \/ GiveUp(x)
  PROVE  CapacityInv'
<1>1. CASE NextLine(x) \/ Exit(x) \/ Call(x) \/ Die(x)
  <2>1. UNCHANGED <<worker, maxClientWorkers, server>>
    BY <1>1 DEF NextLine, Exit, Call, Connect, SendCommand, Send, ReadResponse, Die, Return,
                ReturnsWith, asterd
  <2> QED
    BY <2>1, FewerCapacity DEF Serving
<1>2. CASE Worker(x) \/ GiveUp(x)
  <2>1. UNCHANGED <<maxClientWorkers, server>>
    BY <1>2 DEF Worker, Receive, ReceiveEnd, ExecuteRead, ExecuteWrite, EngineCommits, EngineRejects,
                SendResponse, GiveUp, Respond
  <2>2. worker[x] # "none" /\ \A y \in Cli \ {x} : worker'[y] = worker[y]
    BY <1>2 DEF Worker, Receive, ReceiveEnd, ExecuteRead, ExecuteWrite, EngineCommits, EngineRejects,
                SendResponse, GiveUp, Respond, Leave, Work, AsterdType
  <2>3. Serving' \in SUBSET Serving
    BY <2>2 DEF Serving
  <2> QED
    BY <2>1, <2>3, FewerCapacity
<1> QED
  BY <1>1, <1>2

\* Every step preserves it.
LEMMA StepCapacity == AsterdType /\ CallInv /\ CapacityInv /\ [Next]_vars => CapacityInv'
<1> SUFFICES ASSUME AsterdType, CallInv, CapacityInv, [Next]_vars
             PROVE  CapacityInv'
  OBVIOUS
<1>1. CASE UNCHANGED vars
  BY <1>1, FewerCapacity DEF vars, asterd, Serving
<1> QED
  BY <1>1, AcceptCapacity, MainCapacity, ThreadCapacity DEF Next

-----------------------------------------------------------------------------
(* The exit code *)

\* The flag is one, at first and after every step.
LEMMA InitFlag == Init => hadFailure \in [Cli -> BOOLEAN]
BY DEF Init

\* A return sets it or leaves it.
LEMMA StepFlag == hadFailure \in [Cli -> BOOLEAN] /\ [Next]_vars => hadFailure' \in [Cli -> BOOLEAN]
<1> SUFFICES ASSUME hadFailure \in [Cli -> BOOLEAN], [Next]_vars
             PROVE  hadFailure' \in [Cli -> BOOLEAN]
  OBVIOUS
<1>1. CASE UNCHANGED hadFailure
  BY <1>1
<1>2. CASE \E x \in Cli : \E outcome, text : Return(x, outcome, text)
  BY <1>2 DEF Return
<1>3. CASE UNCHANGED vars
  BY <1>1, <1>3 DEF vars, astercli
<1>4. ASSUME NEW x \in Cli, NextLine(x) \/ Exit(x) \/ Die(x) \/ Call(x)
      PROVE  hadFailure' \in [Cli -> BOOLEAN]
  <2>1. UNCHANGED hadFailure \/ \E outcome, text : Return(x, outcome, text)
    BY <1>4 DEF NextLine, Exit, Die, Call, Connect, SendCommand, Send, ReadResponse
  <2> QED
    BY <1>1, <1>2, <2>1
<1>5. ASSUME NEW x \in Cli, Worker(x) \/ GiveUp(x) \/ Accept(x)
      PROVE  UNCHANGED hadFailure
  BY <1>5 DEF Worker, Receive, ReceiveEnd, ExecuteRead, ExecuteWrite, EngineCommits, EngineRejects,
              SendResponse, GiveUp, Accept, Respond, astercli
<1>6. CASE Signal \/ RunReturns \/ Restart \/ Kill
  BY <1>1, <1>6 DEF Signal, RunReturns, Restart, Kill, astercli
<1> QED
  BY <1>1, <1>3, <1>4, <1>5, <1>6 DEF Next

\* At first nothing has failed.
LEMMA InitFailure == Init => FailureInv
BY ServiceAssumption DEF Init, FailureInv

\* What a step does to the memory and the exit code of a process with a prompt: nothing,
\* if it neither fails nor ends.
FailureKept(x) ==
  /\ hadFailure[x] => hadFailure'[x]
  /\ pc'[x] \in {"error", "failed"} => hadFailure'[x]
  /\ hadFailure'[x] => exit'[x] # "success"

\* A process whose exit code and memory stay, and whose call does not return.
LEMMA QuietFailure ==
  ASSUME FailureInv, NEW x \in Repl,
         hadFailure'[x] = hadFailure[x], exit'[x] = exit[x],
         pc'[x] = pc[x] \/ pc'[x] \notin {"error", "failed"}
  PROVE  FailureKept(x)
BY DEF FailureInv, FailureKept

\* The return of a call is remembered if it failed, and the exit code is still open.
LEMMA ReturnFailure ==
  ASSUME CliType, hadFailure \in [Cli -> BOOLEAN], FailureInv, NEW x \in Repl,
         NEW y \in Cli, NEW outcome \in {"ok", "error", "failed"}, NEW text, Return(y, outcome, text)
  PROVE  FailureKept(x)
<1>1. x \in Cli
  BY ServiceAssumption
<1>2. CASE y = x
  <2>1. exit'[x] = "running" /\ pc'[x] = outcome
    BY <1>1, <1>2 DEF Return, ReturnsWith, Go, CliType
  <2>2. hadFailure'[x] <=> hadFailure[x] \/ outcome # "ok"
    BY <1>1, <1>2 DEF Return
  <2> QED
    BY <2>1, <2>2 DEF FailureKept
<1>3. CASE y # x
  <2>1. exit'[x] = exit[x] /\ pc'[x] = pc[x] /\ hadFailure'[x] = hadFailure[x]
    BY <1>1, <1>3 DEF Return, ReturnsWith, Go, CliType
  <2> QED
    BY <2>1, QuietFailure
<1> QED
  BY <1>2, <1>3

\* No step loses a failure or turns it into a success.
LEMMA StepFailure ==
  ASSUME CliType, hadFailure \in [Cli -> BOOLEAN], FailureInv, [Next]_vars, NEW x \in Repl
  PROVE  FailureKept(x)
<1>1. x \in Cli
  BY ServiceAssumption
<1>2. CASE UNCHANGED <<pc, hadFailure, exit>>
  BY <1>2, QuietFailure
<1>3. ASSUME NEW y \in Cli, \E outcome \in {"ok", "error", "failed"} : \E text : Return(y, outcome, text)
      PROVE  FailureKept(x)
  BY <1>3, ReturnFailure
<1>4. ASSUME NEW y \in Cli, NextLine(y)
      PROVE  FailureKept(x)
  <2>1. /\ hadFailure' = hadFailure /\ pc'[y] = "connect" /\ exit'[y] = "running"
        /\ \A z \in Cli \ {y} : pc'[z] = pc[z] /\ exit'[z] = exit[z]
    BY <1>4 DEF NextLine, Go, CliType
  <2>2. CASE y = x
    BY <2>1, <2>2 DEF FailureKept
  <2>3. CASE y # x
    BY <1>1, <2>1, <2>3, QuietFailure
  <2> QED
    BY <2>2, <2>3
<1>5. ASSUME NEW y \in Cli, Exit(y)
      PROVE  FailureKept(x)
  <2>1. /\ hadFailure' = hadFailure /\ pc'[y] = "over" /\ exit'[y] = Code(hadFailure[y])
        /\ \A z \in Cli \ {y} : pc'[z] = pc[z] /\ exit'[z] = exit[z]
    BY <1>5 DEF Exit, Go, CliType
  <2>2. CASE y = x
    BY <2>1, <2>2 DEF FailureKept, Code
  <2>3. CASE y # x
    BY <1>1, <2>1, <2>3, QuietFailure
  <2> QED
    BY <2>2, <2>3
<1>6. ASSUME NEW y \in Cli, Call(y)
      PROVE  FailureKept(x)
  <2>1. CASE \E outcome \in {"ok", "error", "failed"} : \E text : Return(y, outcome, text)
    BY <1>3, <2>1
  <2>2. CASE ~\E outcome \in {"ok", "error", "failed"} : \E text : Return(y, outcome, text)
    <3>1. UNCHANGED <<hadFailure, exit>> /\ (Connect(y) \/ SendCommand(y))
      BY <1>6, <2>2, SendIs DEF Call, Connect, ReadResponse
    <3>2. \E p \in {"sendLine", "sendNewline", "shutdown", "read"} : Go(y, p)
      BY <3>1, <2>2, SendIs DEF Connect
    <3>3. pc'[x] = pc[x] \/ pc'[x] \notin {"error", "failed"}
      BY <1>1, <3>2 DEF Go, CliType
    <3> QED
      BY <3>1, <3>3, QuietFailure
  <2> QED
    BY <2>1, <2>2
<1>7. ASSUME NEW y \in Cli, Die(y)
      PROVE  FailureKept(x)
  <2>1. UNCHANGED <<hadFailure, exit>> /\ Go(y, "gone")
    BY <1>7 DEF Die
  <2>2. pc'[x] = pc[x] \/ pc'[x] \notin {"error", "failed"}
    BY <1>1, <2>1 DEF Go, CliType
  <2> QED
    BY <2>1, <2>2, QuietFailure
<1>8. ASSUME NEW y \in Cli, Worker(y) \/ GiveUp(y) \/ Accept(y)
      PROVE  UNCHANGED <<pc, hadFailure, exit>>
  BY <1>8 DEF Worker, Receive, ReceiveEnd, ExecuteRead, ExecuteWrite, EngineCommits, EngineRejects,
              SendResponse, GiveUp, Accept, Respond, astercli
<1>9. Signal \/ RunReturns \/ Restart \/ Kill => UNCHANGED <<pc, hadFailure, exit>>
  BY DEF Signal, RunReturns, Restart, Kill, astercli
<1>10. CASE UNCHANGED vars
  BY <1>2, <1>10 DEF vars, astercli
<1> QED
  BY <1>2, <1>4, <1>5, <1>6, <1>7, <1>8, <1>9, <1>10 DEF Next

-----------------------------------------------------------------------------
(* Who waits for whom *)

\* It is so at first.
LEMMA InitQueue == Init => QueueInv
BY DEF Init, QueueInv, QueueOf, Calling

\* A process and its connection stay as they are while others act and asterd is not going down.
LEMMA OthersQueue ==
  ASSUME QueueInv, NEW x \in Cli, server' = server \/ server' # "down",
         \A y \in Cli \ {x} : pc'[y] = pc[y] /\ conn'[y] = conn[y],
         QueueOf(x)'
  PROVE  QueueInv'
<1>1. ASSUME NEW y \in Cli \ {x}
      PROVE  QueueOf(y)'
  BY <1>1 DEF QueueInv, QueueOf
<1> QED
  BY <1>1 DEF QueueInv

\* A call returns without a connection.
LEMMA ReturnQueue ==
  ASSUME AsterdType, CliType, QueueInv, NEW x \in Cli, NEW outcome \in {"ok", "error", "failed"},
         NEW text, Return(x, outcome, text)
  PROVE  QueueInv'
<1>1. pc'[x] = outcome /\ conn'[x] = "none" /\ server' = server
  BY DEF Return, ReturnsWith, Go, AsterdType, CliType
<1>2. QueueOf(x)'
  BY <1>1 DEF QueueOf, Calling
<1> QED
  BY <1>1, <1>2, OthersQueue DEF Return, ReturnsWith, Go

\* The steps of astercli.
LEMMA ClientQueue ==
  ASSUME AsterdType, CliType, QueueInv, NEW x \in Cli, NextLine(x) \/ Exit(x) \/ Call(x) \/ Die(x)
  PROVE  QueueInv'
<1>1. CASE \E outcome \in {"ok", "error", "failed"} : \E text : Return(x, outcome, text)
  BY <1>1, ReturnQueue
<1>2. CASE NextLine(x) \/ Exit(x) \/ Die(x)
  <2>1. /\ pc'[x] \in {"connect", "over", "gone"} /\ UNCHANGED <<conn, server>>
        /\ \A y \in Cli \ {x} : pc'[y] = pc[y]
    BY <1>2 DEF NextLine, Exit, Die, asterd, Go, CliType
  <2>2. QueueOf(x)'
    BY <2>1 DEF QueueInv, QueueOf, Calling
  <2> QED
    BY <2>1, <2>2, OthersQueue
<1>3. CASE Connect(x) /\ ~\E text : Return(x, "failed", text)
  <2>1. /\ pc'[x] = "sendLine" /\ conn'[x] = "queued" /\ server' = server /\ server # "down"
        /\ \A y \in Cli \ {x} : pc'[y] = pc[y] /\ conn'[y] = conn[y]
    BY <1>3 DEF Connect, Go, CliType, AsterdType
  <2>2. QueueOf(x)'
    BY <2>1 DEF QueueOf
  <2> QED
    BY <2>1, <2>2, OthersQueue
<1>4. CASE SendCommand(x) /\ ~Return(x, "failed", <<>>)
  <2>1. UNCHANGED <<conn, server>>
    BY <1>4, SendIs DEF asterd
  <2>2. /\ pc[x] \in Calling \ {"connect"} /\ \A y \in Cli \ {x} : pc'[y] = pc[y]
    BY <1>4, SendIs DEF Go, CliType, Calling
  <2>3. QueueOf(x)'
    BY <2>1, <2>2 DEF QueueInv, QueueOf
  <2> QED
    BY <2>1, <2>2, <2>3, OthersQueue
<1> QED
  BY <1>1, <1>2, <1>3, <1>4 DEF Call, ReadResponse

\* The steps of asterd: a connection that there is stays one; the queue is emptied when it
\* goes down.
LEMMA ServerQueue ==
  ASSUME AsterdType, QueueInv, CallInv,
         \/ \E x \in Cli : Accept(x) \/ Worker(x) \/ GiveUp(x)
         \/ Signal \/ RunReturns \/ Restart \/ Kill
  PROVE  QueueInv'
<1>1. UNCHANGED pc
  BY DEF Worker, Receive, ReceiveEnd, ExecuteRead, ExecuteWrite, EngineCommits, EngineRejects,
         SendResponse, GiveUp, Accept, Respond, Signal, RunReturns, Restart, Kill, astercli
<1>2. ASSUME NEW x \in Cli, Worker(x) \/ GiveUp(x)
      PROVE  QueueInv'
  <2>1. server' = server /\ worker[x] # "none"
    BY <1>2 DEF Worker, Receive, ReceiveEnd, ExecuteRead, ExecuteWrite, EngineCommits, EngineRejects,
                SendResponse, GiveUp, Respond
  <2>2. conn' = conn \/ conn' = [conn EXCEPT ![x] = "closed"]
    BY <1>2 DEF Worker, Receive, ReceiveEnd, ExecuteRead, ExecuteWrite, EngineCommits, EngineRejects,
                SendResponse, GiveUp, Respond, Leave
  <2> QED
    BY <1>1, <2>1, <2>2 DEF QueueInv, QueueOf, AsterdType
<1>3. ASSUME NEW x \in Cli, Accept(x)
      PROVE  QueueInv'
  <2>1. server' # "down" /\ conn' \in {[conn EXCEPT ![x] = "open"], [conn EXCEPT ![x] = "closed"]}
    BY <1>3 DEF Accept, Admit, Reject
  <2> QED
    BY <1>1, <2>1 DEF QueueInv, QueueOf, AsterdType
<1>4. CASE Signal \/ Restart
  <2>1. server' # "down" /\ UNCHANGED conn
    BY <1>4 DEF Signal, Restart
  <2> QED
    BY <1>1, <2>1 DEF QueueInv, QueueOf
<1>5. CASE RunReturns
  <2>1. conn' = [x \in Cli |-> IF conn[x] = "queued" THEN "closed" ELSE conn[x]]
    BY <1>5 DEF RunReturns
  <2> QED
    BY <1>1, <2>1 DEF QueueInv, QueueOf
<1>6. CASE Kill
  <2>1. conn' = [x \in Cli |-> IF conn[x] = "none" THEN "none" ELSE "closed"]
    BY <1>6 DEF Kill
  <2> QED
    BY <1>1, <2>1 DEF QueueInv, QueueOf
<1> QED
  BY <1>2, <1>3, <1>4, <1>5, <1>6

\* Every step preserves it.
LEMMA StepQueue == AsterdType /\ CliType /\ CallInv /\ QueueInv /\ [Next]_vars => QueueInv'
<1> SUFFICES ASSUME AsterdType, CliType, CallInv, QueueInv, [Next]_vars
             PROVE  QueueInv'
  OBVIOUS
<1>1. CASE UNCHANGED vars
  BY <1>1 DEF vars, asterd, astercli, QueueInv, QueueOf
<1> QED
  BY <1>1, ClientQueue, ServerQueue DEF Next

\* Whoever waits has somebody to wait for.
LEMMA WaitsEnd ==
  ASSUME AsterdType, CliType, CallInv, QueueInv
  PROVE  NoWaitingCircle
<1> SUFFICES ASSUME NEW x \in Cli
             PROVE  /\ ClientWaits(x) => \/ worker[x] # "none" /\ ~WorkerWaits(x)
                                         \/ conn[x] = "queued" /\ server # "down"
                    /\ WorkerWaits(x) => pc[x] \in {"sendLine", "sendNewline", "shutdown"}
  BY DEF NoWaitingCircle
<1>1. CallOf(x) /\ QueueOf(x)
  BY DEF CallInv, QueueInv
<1>2. conn[x] \in {"none", "queued", "open", "closed"}
  BY DEF AsterdType
<1>3. pc[x] \in Calling \cup Ended \cup {"over", "gone"}
  BY DEF CliType
<1>4. ASSUME ClientWaits(x)
      PROVE  \/ worker[x] # "none" /\ ~WorkerWaits(x)
             \/ conn[x] = "queued" /\ server # "down"
  <2>1. pc[x] = "read" /\ sent[x] = 3 /\ conn[x] \in {"queued", "open"}
    BY <1>1, <1>2, <1>4 DEF ClientWaits, CallOf, QueueOf, Calling
  <2>2. ~WorkerWaits(x)
    BY <2>1 DEF WorkerWaits, InputEnds
  <2>3. CASE conn[x] = "queued"
    BY <1>1, <2>3 DEF QueueOf
  <2>4. CASE conn[x] = "open"
    BY <1>1, <2>2, <2>4 DEF CallOf
  <2> QED
    BY <2>1, <2>3, <2>4
<1>5. ASSUME WorkerWaits(x)
      PROVE  pc[x] \in {"sendLine", "sendNewline", "shutdown"}
  <2>1. conn[x] = "open" /\ pc[x] # "gone" /\ sent[x] # 3
    BY <1>1, <1>5 DEF WorkerWaits, CallOf, InputEnds
  <2> QED
    BY <1>1, <1>3, <2>1 DEF CallOf, Calling
<1> QED
  BY <1>4, <1>5

-----------------------------------------------------------------------------
(* Theorems *)

\* The invariant behind the theorems below.
Inv == /\ AsterdType /\ CliType /\ hadFailure \in [Cli -> BOOLEAN]
       /\ CallInv /\ QueueInv /\ CapacityInv /\ FailureInv

\* It holds in every state of every behaviour.
LEMMA Invariant == Spec => []Inv
<1>1. Init => Inv
  BY InitType, InitFlag, InitCall, InitQueue, InitCapacity, InitFailure DEF Inv
<1>2. Inv /\ [Next]_vars => Inv'
  <2> SUFFICES ASSUME Inv, [Next]_vars
               PROVE  Inv'
    OBVIOUS
  <2>1. (AsterdType /\ CliType)'
    BY StepType DEF Inv
  <2>2. hadFailure' \in [Cli -> BOOLEAN]
    BY StepFlag DEF Inv
  <2>3. CallInv' /\ QueueInv' /\ CapacityInv'
    BY StepCall, StepQueue, StepCapacity DEF Inv
  <2>4. FailureInv'
    BY StepFailure DEF Inv, FailureInv, FailureKept
  <2> QED
    BY <2>1, <2>2, <2>3, <2>4 DEF Inv
<1> QED
  BY <1>1, <1>2, PTL DEF Spec

\* The states of both programs are well-typed; the workers never exceed the capacity
\* that asterd was started with, however often it is restarted with another one.
THEOREM TypeCorrect == Spec => []TypeOK
<1>1. Inv => TypeOK
  <2> SUFFICES ASSUME Inv
               PROVE  TypeOK
    OBVIOUS
  <2>1. \A x \in Cli : got[x] <= sent[x] /\ (worker[x] # "none" <=> conn[x] = "open")
    BY DEF Inv, CallInv, CallOf
  <2> QED
    BY <2>1 DEF Inv, TypeOK, CapacityInv
<1> QED
  BY <1>1, Invariant, PTL

\* The two programs never wait for each other in a circle, for any number of processes
\* and any limit: each is in a state in which it need not wait, or waits for one that need not.
THEOREM NobodyWaitsInCircle == Spec => []NoWaitingCircle
<1>1. Inv => NoWaitingCircle
  BY WaitsEnd DEF Inv
<1> QED
  BY <1>1, Invariant, PTL

\* A process of astercli with a prompt that has seen a command fail does not exit with
\* success, for any number of processes and any commands after it.
THEOREM FailuresAreReported == Spec => FailureReachesExitCode
<1>1. Inv /\ [Next]_vars =>
        \A x \in Repl : hadFailure[x] \/ pc[x] \in {"error", "failed"} =>
          hadFailure'[x] /\ exit'[x] # "success"
  BY StepFailure DEF Inv, FailureInv, FailureKept
<1> QED
  BY <1>1, Invariant, PTL DEF Spec, FailureReachesExitCode

=============================================================================
