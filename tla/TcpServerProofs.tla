-------------------------- MODULE TcpServerProofs ---------------------------
(***************************************************************************)
(* Proofs about TcpServer, for every number of connections, clients,       *)
(* workers and lines, every idle timeout and every size of the sockets.    *)
(***************************************************************************)
EXTENDS TcpServer, TLAPS, FiniteSetTheorems

-----------------------------------------------------------------------------
(* Types *)

\* The initial states have the right types.
LEMMA InitType == Init => TypeOK
<1> SUFFICES ASSUME Init PROVE TypeOK
  OBVIOUS
<1>1. stop \in BOOLEAN
  BY Zenon DEF Init
<1>2. ServerType /\ ThreadType /\ NetworkType
  BY OptionsAssumption DEF Init, ServerType, ThreadType, NetworkType, Phases, Serving
<1> QED
  BY <1>1, <1>2 DEF TypeOK

\* The flag is set or stays as it is.
LEMMA StopType == TypeOK /\ [Next]_vars => stop' \in BOOLEAN
<1> SUFFICES ASSUME TypeOK, [Next]_vars PROVE stop' \in BOOLEAN
  OBVIOUS
<1>1. CASE Main \/ AcceptFails
  <2>1. UNCHANGED stop
    BY <1>1, Zenon DEF Main, LoopCheck, EnterAccept, Accept, Admit, RejectClient, Return, Reap,
                       JoinWorker, AcceptFails, server
  <2> QED
    BY <2>1, Zenon DEF TypeOK
<1>2. CASE Signal
  BY <1>2, Zenon DEF Signal
<1>3. ASSUME NEW x \in Conn, Client(x)
      PROVE  stop' \in BOOLEAN
  <2>1. UNCHANGED stop
    BY <1>3, Zenon DEF Client, Connect, SendLine, HalfClose, ReadResponse, SeeEnd, Quit, Forget,
                       server
  <2> QED
    BY <2>1, Zenon DEF TypeOK
<1>4. ASSUME NEW x \in Conn, Worker(x)
      PROVE  stop' \in BOOLEAN
  <2>1. UNCHANGED stop
    BY <1>4, Zenon DEF Worker, WorkerCheck, RecvData, RecvTimeout, RecvEnd, RecvError, ProcessLine,
                       SendResponse, SendBlocked, SendFails, Decrement, Finish, CloseClient, server
  <2> QED
    BY <2>1, Zenon DEF TypeOK
<1>5. CASE UNCHANGED vars
  BY <1>5, Zenon DEF vars, server, TypeOK
<1> QED
  BY <1>1, <1>2, <1>3, <1>4, <1>5, Zenon DEF Next

\* The counts of a connection, and how the types and LinesInv bound them.
LEMMA Counts ==
  ASSUME TypeOK, LinesInv, NEW x \in Conn
  PROVE  /\ asked[x] \in Nat /\ answered[x] \in Nat /\ inbox[x] \in Nat /\ buf[x] \in Nat
         /\ asked[x] <= Lines + 1 /\ inbox[x] <= Lines /\ buf[x] <= Lines
         /\ answered[x] + inbox[x] + buf[x] <= asked[x]
         /\ inbox[x] <= asked[x] /\ answered[x] <= asked[x]
         /\ phase[x] \in {"send", "sendFinal"} =>
              answered[x] + inbox[x] + buf[x] + 1 <= asked[x]
<1> DEFINE t == IF tail[x] = "none" THEN 0 ELSE 1
           p == IF phase[x] \in {"send", "sendFinal"} THEN 1 ELSE 0
<1>1. /\ asked[x] \in 0..(Lines + 1) /\ answered[x] \in 0..(Lines + 1)
      /\ inbox[x] \in 0..Lines /\ buf[x] \in 0..Lines
  BY DEF TypeOK, ThreadType, NetworkType
<1>2. answered[x] + inbox[x] + buf[x] + t + p <= asked[x]
  BY DEF LinesInv, LinesOf, Known
<1>3. t \in {0, 1} /\ p \in {0, 1}
  OBVIOUS
<1>4. phase[x] \in {"send", "sendFinal"} => p = 1
  OBVIOUS
<1> HIDE DEF t, p
<1> QED
  BY <1>1, <1>2, <1>3, <1>4, OptionsAssumption

\* Closed sockets hold nothing.
LEMMA DrainedType ==
  ASSUME ThreadType, NetworkType, NEW X, Drained(X)
  PROVE  /\ inbox' \in [Conn -> 0..Lines]
         /\ tail' \in [Conn -> {"none", "wire", "read"}]
         /\ asked' \in [Conn -> 0..(Lines + 1)]
         /\ answered' \in [Conn -> 0..(Lines + 1)]
<1>1. 0 \in 0..Lines /\ 0 \in 0..(Lines + 1)
  BY OptionsAssumption
<1>2. \A x \in Conn :
        /\ inbox[x] \in 0..Lines
        /\ tail[x] \in {"none", "wire", "read"}
        /\ asked[x] \in 0..(Lines + 1)
        /\ answered[x] \in 0..(Lines + 1)
  BY DEF ThreadType, NetworkType
<1> QED
  BY <1>1, <1>2 DEF Drained

\* The close of a socket keeps the types.
LEMMA CloseType ==
  ASSUME ThreadType, NetworkType, NEW x \in Conn,
         NEW out \in [Conn -> 0..SocketBuffer], CloseSocket(x, out)
  PROVE  /\ inbox' \in [Conn -> 0..Lines]
         /\ tail' \in [Conn -> {"none", "wire", "read"}]
         /\ asked' \in [Conn -> 0..(Lines + 1)]
         /\ answered' \in [Conn -> 0..(Lines + 1)]
         /\ outbox' \in [Conn -> 0..SocketBuffer]
         /\ sock' \in [Conn -> {"none", "backlog", "accepted", "closed"}]
<1>1. 0 \in 0..SocketBuffer
  BY OptionsAssumption
<1>2. [out EXCEPT ![x] = 0] \in [Conn -> 0..SocketBuffer]
  BY <1>1
<1>3. outbox' \in [Conn -> 0..SocketBuffer]
  BY <1>2 DEF CloseSocket
<1>4. sock' \in [Conn -> {"none", "backlog", "accepted", "closed"}]
  BY DEF CloseSocket, NetworkType
<1> QED
  BY <1>3, <1>4, DrainedType DEF CloseSocket

\* Every action of a client keeps the types.
LEMMA ClientType ==
  ASSUME TypeOK, LinesInv, NEW x \in Conn, Client(x)
  PROVE  ServerType' /\ ThreadType' /\ NetworkType'
<1>0. ServerType /\ ThreadType /\ NetworkType /\ UNCHANGED server
  BY DEF TypeOK, Client, Connect, SendLine, HalfClose, ReadResponse, SeeEnd, Quit, Forget
<1>1. ServerType'
  BY <1>0 DEF ServerType, server
<1>2. ThreadType'
  <2>1. UNCHANGED thread \/ HalfClose(x)
    BY DEF Client, Connect, SendLine, ReadResponse, SeeEnd, Quit, Forget, thread
  <2> QED
    BY <1>0, <2>1 DEF ThreadType, thread, HalfClose
<1> USE <1>0, <1>1, <1>2, OptionsAssumption DEF NetworkType
<1>3. CASE Connect(x)
  BY <1>3 DEF Connect
<1>4. CASE SendLine(x)
  <2>1. asked[x] < Lines /\ inbox[x] <= asked[x]
    <3>1. inbox[x] <= asked[x]
      BY Counts
    <3> QED
      BY <1>4, <3>1 DEF SendLine
  <2>2. inbox[x] + 1 \in 0..Lines /\ asked[x] + 1 \in 0..(Lines + 1)
    BY <2>1, Counts
  <2> QED
    BY <1>4, <2>2 DEF SendLine
<1>5. CASE HalfClose(x)
  <2>1. asked[x] + 1 \in 0..(Lines + 1)
    BY <1>5 DEF HalfClose, LinesInv, LinesOf
  <2> QED
    BY <1>5, <2>1, ZenonT(30) DEF HalfClose
<1>6. CASE ReadResponse(x)
  <2>1. outbox[x] - 1 \in 0..SocketBuffer
    BY <1>6 DEF ReadResponse
  <2> QED
    BY <1>6, <2>1 DEF ReadResponse
<1>7. CASE SeeEnd(x)
  BY <1>7 DEF SeeEnd
<1>8. CASE Quit(x)
  BY <1>8, SMTT(30) DEF Quit
<1>9. CASE Forget(x)
  BY <1>9 DEF Forget
<1> QED
  BY <1>1, <1>2, <1>3, <1>4, <1>5, <1>6, <1>7, <1>8, <1>9 DEF Client

\* Every action of the main thread, and the signal, keep the types.
LEMMA MainType ==
  ASSUME TypeOK, SlotInv, SocketInv, LinesInv, Main \/ AcceptFails \/ Signal
  PROVE  ServerType' /\ ThreadType' /\ NetworkType'
<1>0. ServerType /\ ThreadType /\ NetworkType
  BY DEF TypeOK
<1>C. ASSUME NEW x \in Conn, NEW out \in [Conn -> 0..SocketBuffer], CloseSocket(x, out),
             backlog' \in Seq(Conn), UNCHANGED <<peer, phase, buf, idle, left>>
      PROVE  ThreadType' /\ NetworkType'
  BY <1>0, <1>C, CloseType DEF ThreadType, NetworkType
<1>1. CASE LoopCheck
  BY <1>0, <1>1 DEF LoopCheck, ServerType, ThreadType, NetworkType, thread, network
<1>2. CASE EnterAccept
  BY <1>0, <1>2 DEF EnterAccept, ServerType, ThreadType, NetworkType, thread, network
<1>3. CASE Accept
  <2>1. Head(backlog) \in Conn /\ Tail(backlog) \in Seq(Conn)
    BY <1>0, <1>3 DEF Accept, NetworkType
  <2> QED
    BY <1>0, <1>3, <2>1 DEF Accept, ServerType, ThreadType, NetworkType, thread
<1>4. CASE Admit
  <2>1. newest \in Conn
    BY <1>0, <1>4 DEF Admit, SocketInv, ServerType
  <2>2. active + 1 \in 0..MaxClientWorkers
    BY <1>0, <1>4, OptionsAssumption DEF Admit, ServerType
  <2>3. "check" \in Phases
    BY DEF Phases, Serving
  <2> QED
    BY <1>0, <1>4, <2>1, <2>2, <2>3 DEF Admit, ServerType, ThreadType, NetworkType, network
<1>5. CASE RejectClient
  <2>1. newest \in Conn
    BY <1>0, <1>5 DEF RejectClient, SocketInv, ServerType
  <2>2. /\ [outbox EXCEPT ![newest] = 1] \in [Conn -> 0..SocketBuffer]
        /\ outbox \in [Conn -> 0..SocketBuffer]
    <3>1. 1 \in 0..SocketBuffer
      BY OptionsAssumption
    <3> QED
      BY <1>0, <3>1 DEF NetworkType
  <2>3. ServerType'
    BY <1>0, <1>5 DEF RejectClient, ServerType
  <2>4. backlog' \in Seq(Conn) /\ UNCHANGED <<peer, phase, buf, idle, left>>
    BY <1>0, <1>5 DEF RejectClient, NetworkType
  <2> QED
    BY <1>C, <1>5, <2>1, <2>2, <2>3, <2>4 DEF RejectClient
<1>6. CASE Return
  <2>1. ServerType'
    BY <1>0, <1>6 DEF Return, ServerType
  <2>2. ThreadType'
    BY <1>0, <1>6, DrainedType DEF Return, ThreadType
  <2>3. backlog' \in Seq(Conn) /\ sock' \in [Conn -> {"none", "backlog", "accepted", "closed"}]
    BY <1>0, <1>6 DEF Return, NetworkType
  <2>4. NetworkType'
    BY <1>0, <1>6, <2>3, DrainedType DEF Return, NetworkType
  <2> QED
    BY <2>1, <2>2, <2>4
<1>J. ASSUME NEW x \in Conn, Joined(x)
      PROVE  ThreadType' /\ workers' \subseteq Conn /\ finished' \subseteq workers'
  BY <1>0, <1>J DEF Joined, ServerType, ThreadType, Phases
<1>7. ASSUME NEW x \in Conn, Reap(x)
      PROVE  ServerType' /\ ThreadType' /\ NetworkType'
  <2>1. CASE Joined(x)
    BY <1>0, <1>7, <1>J, <2>1 DEF Reap, ServerType, NetworkType, network, Joined
  <2>2. CASE UNCHANGED <<workers, finished, thread>>
    BY <1>0, <1>7, <2>2 DEF Reap, ServerType, ThreadType, NetworkType, thread, network
  <2> QED
    BY <1>7, <2>1, <2>2 DEF Reap
<1>8. ASSUME NEW x \in Conn, JoinWorker(x)
      PROVE  ServerType' /\ ThreadType' /\ NetworkType'
  BY <1>0, <1>8, <1>J DEF JoinWorker, ServerType, NetworkType, network, Joined
<1>9. CASE AcceptFails
  <2>1. ServerType' /\ UNCHANGED <<peer, phase, buf, idle, left>>
    BY <1>0, <1>9 DEF AcceptFails, ServerType
  <2>2. CASE UNCHANGED <<backlog, sock, outbox, tail, inbox, asked, answered>>
    BY <1>0, <2>1, <2>2 DEF ThreadType, NetworkType
  <2>3. CASE backlog # <<>> /\ backlog' = Tail(backlog) /\ CloseSocket(Head(backlog), outbox)
    <3>1. Head(backlog) \in Conn /\ Tail(backlog) \in Seq(Conn)
      BY <1>0, <2>3 DEF NetworkType
    <3>2. outbox \in [Conn -> 0..SocketBuffer]
      BY <1>0 DEF NetworkType
    <3> QED
      BY <1>C, <2>1, <2>3, <3>1, <3>2
  <2> QED
    BY <1>9, <2>2, <2>3 DEF AcceptFails
<1>10. CASE Signal
  BY <1>0, <1>10 DEF Signal, ServerType, ThreadType, NetworkType, thread, network
<1> QED
  BY <1>1, <1>2, <1>3, <1>4, <1>5, <1>6, <1>7, <1>8, <1>9, <1>10 DEF Main

\* Every action of a worker keeps the types.
LEMMA WorkerType ==
  ASSUME TypeOK, SlotInv, SocketInv, LinesInv, NEW x \in Conn, Worker(x)
  PROVE  ServerType' /\ ThreadType' /\ NetworkType'
<1>0. ServerType /\ ThreadType /\ NetworkType
  BY DEF TypeOK
<1>P. Serving \subseteq Phases /\ {"finish", "close", "exited"} \subseteq Phases
  BY DEF Phases
<1>S. Serving = {"check", "recv", "process", "send", "sendFinal", "dec"}
  BY DEF Serving
<1>L. ASSUME NEW why \in {"eof", "idle", "stop", "error"}, Leave(x, why)
      PROVE  ThreadType'
  BY <1>0, <1>P, <1>S, <1>L, OptionsAssumption DEF Leave, Go, ThreadType
<1>G. ASSUME NEW p \in Serving, Continue(x, p), idle' \in [Conn -> 0..IdleTimeout]
      PROVE  ThreadType'
  BY <1>0, <1>P, <1>G DEF Continue, Go, ThreadType
<1>I. idle \in [Conn -> 0..IdleTimeout] /\ Waited(x) \in 0..IdleTimeout
  BY <1>0, OptionsAssumption DEF Waited, ThreadType
<1>A. ASSUME AfterSend(x)
      PROVE  ThreadType'
  BY <1>A, <1>L, <1>G, <1>I, <1>S DEF AfterSend
<1>1. CASE WorkerCheck(x)
  <2>1. ThreadType'
    BY <1>1, <1>L, <1>G, <1>I, <1>S DEF WorkerCheck
  <2> QED
    BY <1>0, <1>1, <2>1 DEF WorkerCheck, server, network, ServerType, NetworkType
<1>2. CASE RecvData(x)
  <2>1. PICK n \in 0..inbox[x] :
          /\ buf' = [buf EXCEPT ![x] = n]
          /\ inbox' = [inbox EXCEPT ![x] = @ - n]
    BY <1>2 DEF RecvData
  <2>2. n \in 0..Lines /\ inbox[x] - n \in 0..Lines
    BY <2>1, Counts, OptionsAssumption
  <2>3. ThreadType'
    BY <1>0, <1>2, <1>P, <1>S, <2>1, <2>2, OptionsAssumption DEF RecvData, Go, ThreadType
  <2>4. NetworkType'
    BY <1>0, <1>2, <2>1, <2>2 DEF RecvData, NetworkType
  <2> QED
    BY <1>0, <1>2, <2>3, <2>4 DEF RecvData, server, ServerType
<1>3. CASE RecvTimeout(x)
  <2>1. ThreadType'
    BY <1>3, <1>L, <1>G, <1>I, <1>S DEF RecvTimeout
  <2> QED
    BY <1>0, <1>3, <2>1 DEF RecvTimeout, server, network, ServerType, NetworkType
<1>4. CASE RecvEnd(x)
  <2>1. ThreadType'
    BY <1>0, <1>4, <1>L, <1>P, <1>S DEF RecvEnd, Go, ThreadType
  <2> QED
    BY <1>0, <1>4, <2>1 DEF RecvEnd, server, network, ServerType, NetworkType
<1>5. CASE RecvError(x) \/ SendFails(x)
  <2>1. ThreadType'
    BY <1>5, <1>L DEF RecvError, SendFails
  <2> QED
    BY <1>0, <1>5, <2>1 DEF RecvError, SendFails, server, network, ServerType, NetworkType
<1>6. CASE ProcessLine(x)
  <2>1. buf[x] > 0 => buf[x] - 1 \in 0..Lines
    BY Counts, OptionsAssumption
  <2>2. ThreadType'
    BY <1>0, <1>6, <1>P, <1>S, <2>1 DEF ProcessLine, Go, ThreadType
  <2> QED
    BY <1>0, <1>6, <2>2 DEF ProcessLine, server, network, ServerType, NetworkType
<1>7. CASE SendResponse(x)
  <2>1. ThreadType'
    BY <1>7, <1>A DEF SendResponse
  <2>2. answered[x] + 1 \in 0..(Lines + 1)
    BY <1>7, Counts, OptionsAssumption DEF SendResponse
  <2>3. outbox[x] < SocketBuffer => outbox[x] + 1 \in 0..SocketBuffer
    BY <1>0, OptionsAssumption DEF NetworkType
  <2>4. NetworkType'
    BY <1>0, <1>7, <2>2, <2>3 DEF SendResponse, NetworkType
  <2> QED
    BY <1>0, <1>7, <2>1, <2>4 DEF SendResponse, server, ServerType
<1>8. CASE SendBlocked(x)
  <2>1. ThreadType'
    BY <1>0, <1>8, <1>A, <1>I DEF SendBlocked, ThreadType
  <2> QED
    BY <1>0, <1>8, <2>1 DEF SendBlocked, server, network, ServerType, NetworkType
<1>9. CASE Decrement(x)
  <2>1. active - 1 \in 0..MaxClientWorkers
    <3>1. active # 0
      <4>1. x \in {y \in Conn : phase[y] \in Serving}
        BY <1>9, <1>S DEF Decrement
      <4>2. IsFiniteSet({y \in Conn : phase[y] \in Serving})
        BY FiniteAssumption, FS_Subset
      <4>3. Cardinality({y \in Conn : phase[y] \in Serving}) # 0
        BY <4>1, <4>2, FS_EmptySet
      <4> QED
        BY <4>3 DEF SlotInv, SlotsExact
    <3> QED
      BY <1>0, <3>1, OptionsAssumption DEF ServerType
  <2>2. ServerType'
    BY <1>0, <1>9, <2>1 DEF Decrement, ServerType
  <2> QED
    BY <1>0, <1>9, <1>P, <2>2 DEF Decrement, Go, network, ThreadType, NetworkType
<1>10. CASE Finish(x)
  <2>1. x \in workers
    BY <1>10 DEF Finish, SlotInv
  <2>2. ServerType'
    BY <1>0, <1>10, <2>1 DEF Finish, ServerType
  <2> QED
    BY <1>0, <1>10, <1>P, <2>2 DEF Finish, Go, network, ThreadType, NetworkType
<1>11. CASE CloseClient(x)
  <2>1. outbox \in [Conn -> 0..SocketBuffer] /\ CloseSocket(x, outbox)
    BY <1>0, <1>11 DEF CloseClient, NetworkType
  <2>2. NetworkType'
    BY <1>0, <1>11, <2>1, CloseType DEF CloseClient, NetworkType
  <2>3. ThreadType'
    BY <1>0, <1>11, <1>P, <2>1, CloseType DEF CloseClient, Go, ThreadType
  <2> QED
    BY <1>0, <1>11, <2>2, <2>3 DEF CloseClient, server, ServerType
<1> QED
  BY <1>1, <1>2, <1>3, <1>4, <1>5, <1>6, <1>7, <1>8, <1>9, <1>10, <1>11 DEF Worker

\* Every step keeps the types.
LEMMA StepType ==
  TypeOK /\ SlotInv /\ SocketInv /\ LinesInv /\ [Next]_vars => TypeOK'
<1> SUFFICES ASSUME TypeOK, SlotInv, SocketInv, LinesInv, [Next]_vars
             PROVE  TypeOK'
  OBVIOUS
<1>1. stop' \in BOOLEAN
  BY StopType
<1>2. ServerType' /\ ThreadType' /\ NetworkType'
  <2>1. CASE UNCHANGED vars
    BY <2>1 DEF TypeOK, vars, server, thread, network, ServerType, ThreadType, NetworkType
  <2> QED
    BY <2>1, ClientType, MainType, WorkerType DEF Next
<1> QED
  BY <1>1, <1>2, Zenon DEF TypeOK

-----------------------------------------------------------------------------
(* Slots *)

\* The threads that count as active.
ServingNow == {x \in Conn : phase[x] \in Serving}

\* There are finitely many of them.
LEMMA ServingFinite ==
  /\ IsFiniteSet(ServingNow) /\ IsFiniteSet(ServingNow')
  /\ Cardinality(ServingNow) \in Nat
<1>1. ServingNow \subseteq Conn /\ ServingNow' \subseteq Conn
  BY DEF ServingNow
<1> QED
  BY <1>1, FiniteAssumption, FS_Subset, FS_CardinalityType

\* Initially there is no slot.
LEMMA InitSlots == Init => SlotInv
<1> SUFFICES ASSUME Init PROVE SlotInv
  OBVIOUS
<1>1. ServingNow = {} /\ active = 0
  BY DEF Init, Serving, ServingNow
<1>2. SlotsExact
  <2>1. Cardinality(ServingNow) = 0
    BY <1>1, FS_EmptySet
  <2> QED
    BY <1>1, <2>1, OptionsAssumption DEF SlotsExact, ServingNow
<1> QED
  BY <1>2 DEF Init, SlotInv

\* A step that moves one thread within serveClient keeps the slots.
LEMMA WithinServing ==
  ASSUME TypeOK, SlotInv, NEW x \in Conn, NEW p \in Serving,
         phase[x] \in Serving, Go(x, p), UNCHANGED server
  PROVE  SlotInv'
<1>1. phase' = [phase EXCEPT ![x] = p] /\ phase \in [Conn -> Phases]
  BY DEF Go, TypeOK, ThreadType
<1>2. {y \in Conn : phase'[y] \in Serving} = {y \in Conn : phase[y] \in Serving}
  BY <1>1
<1>3. \A y \in Conn : y # x => phase'[y] = phase[y]
  BY <1>1
<1>4. phase'[x] = p /\ p \notin {"none", "close", "exited"} /\ phase[x] \notin {"none", "close", "exited"}
  BY <1>1 DEF Serving
<1> QED
  BY <1>2, <1>3, <1>4 DEF SlotInv, SlotsExact, server

\* Every action of a worker keeps the slots: it gives its own back once.
LEMMA WorkerSlots ==
  ASSUME TypeOK, SlotInv, NEW x \in Conn, Worker(x)
  PROVE  SlotInv'
<1>0. phase \in [Conn -> Phases] /\ active \in Nat
  BY OptionsAssumption DEF TypeOK, ThreadType, ServerType
<1>1. CASE Decrement(x)
  <2>1. /\ phase' = [phase EXCEPT ![x] = "finish"] /\ phase[x] = "dec" /\ active' = active - 1
        /\ UNCHANGED <<main, workers, finished>>
    BY <1>1 DEF Decrement, Go
  <2>2. ServingNow' = ServingNow \ {x} /\ x \in ServingNow
    BY <1>0, <2>1 DEF ServingNow, Serving
  <2>3. Cardinality(ServingNow') = Cardinality(ServingNow) - 1
    BY <2>2, ServingFinite, FS_RemoveElement
  <2>4. active = Cardinality(ServingNow) /\ active <= MaxClientWorkers
    BY DEF SlotInv, SlotsExact, ServingNow
  <2>5. SlotsExact'
    BY <1>0, <2>1, <2>3, <2>4, OptionsAssumption DEF SlotsExact, ServingNow
  <2> QED
    BY <1>0, <2>1, <2>5 DEF SlotInv
<1>2. CASE Finish(x)
  <2>1. /\ phase' = [phase EXCEPT ![x] = "close"] /\ phase[x] = "finish"
        /\ finished' = finished \cup {x} /\ UNCHANGED <<main, active, workers>>
    BY <1>2 DEF Finish, Go
  <2>2. {y \in Conn : phase'[y] \in Serving} = {y \in Conn : phase[y] \in Serving}
    BY <1>0, <2>1 DEF Serving
  <2> QED
    BY <1>0, <2>1, <2>2 DEF SlotInv, SlotsExact
<1>3. CASE CloseClient(x)
  <2>1. /\ phase' = [phase EXCEPT ![x] = "exited"] /\ phase[x] = "close"
        /\ UNCHANGED <<main, active, workers, finished>>
    BY <1>3 DEF CloseClient, Go, server
  <2>2. {y \in Conn : phase'[y] \in Serving} = {y \in Conn : phase[y] \in Serving}
    BY <1>0, <2>1 DEF Serving
  <2> QED
    BY <1>0, <2>1, <2>2 DEF SlotInv, SlotsExact
<1>4. CASE ~(Decrement(x) \/ Finish(x) \/ CloseClient(x))
  <2>1. /\ UNCHANGED server /\ phase[x] \in Serving
        /\ (\E p \in Serving : Go(x, p)) \/ UNCHANGED phase
    BY <1>4 DEF Worker, WorkerCheck, RecvData, RecvTimeout, RecvEnd, RecvError, ProcessLine,
       SendResponse, SendBlocked, SendFails, AfterSend, Continue, Leave, Serving
  <2>2. CASE UNCHANGED phase
    BY <2>1, <2>2 DEF SlotInv, SlotsExact, server
  <2> QED
    BY <2>1, <2>2, WithinServing
<1> QED
  BY <1>1, <1>2, <1>3, <1>4

\* Every action of the main thread keeps the slots: it takes one for a new
\* worker and forgets a worker that has exited.
LEMMA MainSlots ==
  ASSUME TypeOK, SlotInv, SocketInv, Main \/ AcceptFails \/ Signal
  PROVE  SlotInv'
<1>0. /\ phase \in [Conn -> Phases] /\ active \in Nat
      /\ workers \subseteq Conn /\ finished \subseteq workers
  BY OptionsAssumption DEF TypeOK, ThreadType, ServerType
<1>J. ASSUME NEW x \in Conn, Joined(x), UNCHANGED <<main, active>>
      PROVE  SlotInv'
  <2>1. /\ phase' = [phase EXCEPT ![x] = "none"] /\ phase[x] = "exited"
        /\ workers' = workers \ {x} /\ finished' = finished \ {x}
    BY <1>J DEF Joined
  <2>2. {y \in Conn : phase'[y] \in Serving} = {y \in Conn : phase[y] \in Serving}
    BY <1>0, <2>1 DEF Serving
  <2>3. \A y \in Conn : y # x => phase'[y] = phase[y]
    BY <1>0, <2>1
  <2>4. phase'[x] = "none"
    BY <1>0, <2>1
  <2> QED
    BY <1>J, <2>1, <2>2, <2>3, <2>4 DEF SlotInv, SlotsExact
<1>U. ASSUME UNCHANGED <<active, workers, finished, phase>>, main' = "returned" => workers = {}
      PROVE  SlotInv'
  BY <1>U DEF SlotInv, SlotsExact
<1>1. CASE LoopCheck \/ EnterAccept \/ Accept \/ Return \/ AcceptFails \/ Signal
  <2>1. UNCHANGED <<active, workers, finished, phase>>
    BY <1>1 DEF LoopCheck, EnterAccept, Accept, Return, AcceptFails, Signal, thread
  <2>2. main' = "returned" => workers = {}
    BY <1>1 DEF LoopCheck, EnterAccept, Accept, Return, AcceptFails, Signal, SlotInv
  <2> QED
    BY <1>U, <2>1, <2>2
<1>2. CASE RejectClient
  BY <1>2, <1>U DEF RejectClient
<1>3. CASE Admit
  <2>1. newest \in Conn /\ phase[newest] = "none"
    BY <1>3 DEF Admit, SocketInv, TypeOK, ServerType
  <2>2. /\ phase' = [phase EXCEPT ![newest] = "check"] /\ active' = active + 1
        /\ workers' = workers \cup {newest} /\ UNCHANGED finished /\ main' = "check"
        /\ active < MaxClientWorkers
    BY <1>3 DEF Admit
  <2>3. ServingNow' = ServingNow \cup {newest} /\ newest \notin ServingNow
    BY <1>0, <2>1, <2>2 DEF ServingNow, Serving
  <2>4. Cardinality(ServingNow') = Cardinality(ServingNow) + 1
    BY <2>3, ServingFinite, FS_AddElement
  <2>5. active = Cardinality(ServingNow)
    BY DEF SlotInv, SlotsExact, ServingNow
  <2>6. SlotsExact'
    BY <1>0, <2>2, <2>4, <2>5, OptionsAssumption DEF SlotsExact, ServingNow
  <2> QED
    BY <1>0, <2>1, <2>2, <2>6 DEF SlotInv
<1>4. ASSUME NEW x \in Conn, Reap(x) \/ JoinWorker(x)
      PROVE  SlotInv'
  <2>1. CASE Joined(x)
    BY <1>4, <1>J, <2>1 DEF Reap, JoinWorker
  <2>2. CASE ~Joined(x)
    BY <1>4, <1>U, <2>2 DEF Reap, JoinWorker, thread
  <2> QED
    BY <2>1, <2>2
<1> QED
  BY <1>1, <1>2, <1>3, <1>4 DEF Main

\* Every step keeps the slots.
LEMMA StepSlots == TypeOK /\ SlotInv /\ SocketInv /\ [Next]_vars => SlotInv'
<1> SUFFICES ASSUME TypeOK, SlotInv, SocketInv, [Next]_vars
             PROVE  SlotInv'
  OBVIOUS
<1>1. CASE UNCHANGED <<server, phase>>
  BY <1>1 DEF SlotInv, SlotsExact, server
<1>2. (\E x \in Conn : Client(x)) \/ UNCHANGED vars => UNCHANGED <<server, phase>>
  BY DEF Client, Connect, SendLine, HalfClose, ReadResponse, SeeEnd, Quit, Forget, vars, thread
<1> QED
  BY <1>1, <1>2, MainSlots, WorkerSlots DEF Next

-----------------------------------------------------------------------------
(* Sockets *)

\* Initially there is no socket.
LEMMA InitSockets == Init => SocketInv
BY SentinelAssumption DEF Init, SocketInv

\* Every action of a client keeps who owns which socket.
LEMMA ClientSockets ==
  ASSUME TypeOK, SlotInv, SocketInv, NEW x \in Conn, Client(x)
  PROVE  SocketInv'
<1>0. /\ sock \in [Conn -> {"none", "backlog", "accepted", "closed"}]
      /\ backlog \in Seq(Conn) /\ Len(backlog) \in Nat
  BY DEF TypeOK, NetworkType
<1>U. UNCHANGED <<main, newest, phase>>
  BY DEF Client, Connect, SendLine, HalfClose, ReadResponse, SeeEnd, Quit, Forget, server, thread
<1>1. CASE UNCHANGED <<backlog, sock>>
  BY <1>1, <1>U DEF SocketInv
<1>2. CASE Connect(x)
  <2>1. /\ sock[x] = "none" /\ main # "returned"
        /\ sock' = [sock EXCEPT ![x] = "backlog"] /\ backlog' = Append(backlog, x)
    BY <1>2 DEF Connect
  <2>2. /\ Len(backlog') = Len(backlog) + 1 /\ backlog'[Len(backlog) + 1] = x
        /\ \A i \in 1..Len(backlog) : backlog'[i] = backlog[i] /\ backlog[i] # x
    <3>1. \A i \in 1..Len(backlog) : backlog[i] # x
      BY <2>1 DEF SocketInv
    <3>2. /\ Len(backlog') = Len(backlog) + 1 /\ backlog'[Len(backlog) + 1] = x
          /\ \A i \in 1..Len(backlog) : backlog'[i] = backlog[i]
      BY <1>0, <2>1
    <3> QED
      BY <3>1, <3>2
  <2>3. \A y \in Conn : sock'[y] = "backlog" <=> \E i \in 1..Len(backlog') : backlog'[i] = y
    <3>1. ASSUME NEW y \in Conn, y # x
          PROVE  sock'[y] = "backlog" <=> \E i \in 1..Len(backlog') : backlog'[i] = y
      BY <1>0, <2>1, <2>2, <3>1 DEF SocketInv
    <3>2. sock'[x] = "backlog" /\ \E i \in 1..Len(backlog') : backlog'[i] = x
      BY <1>0, <2>1, <2>2
    <3> QED
      BY <3>1, <3>2
  <2>4. \A i, j \in 1..Len(backlog') : backlog'[i] = backlog'[j] => i = j
    BY <1>0, <2>2 DEF SocketInv
  <2>5. \A y \in Conn : sock'[y] \in {"accepted", "closed"} <=> sock[y] \in {"accepted", "closed"}
    BY <1>0, <2>1
  <2>6. \A y \in Conn : sock'[y] = "accepted" <=> sock[y] = "accepted"
    BY <1>0, <2>1
  <2>7. \A y \in Conn : sock'[y] = "closed" <=> sock[y] = "closed"
    BY <1>0, <2>1
  <2> QED
    BY <1>U, <2>1, <2>3, <2>4, <2>6, <2>7 DEF SocketInv
<1>3. CASE Forget(x)
  <2>1. /\ sock[x] = "closed" /\ x \notin workers
        /\ sock' = [sock EXCEPT ![x] = "none"] /\ UNCHANGED backlog
    BY <1>3 DEF Forget
  <2>2. phase[x] = "none"
    BY <2>1 DEF SlotInv
  <2>3. \A y \in Conn : y # x => sock'[y] = sock[y]
    BY <1>0, <2>1
  <2>4. sock'[x] = "none"
    BY <1>0, <2>1
  <2> QED
    BY <1>U, <2>1, <2>2, <2>3, <2>4 DEF SocketInv
<1> QED
  BY <1>1, <1>2, <1>3 DEF Client, SendLine, HalfClose, ReadResponse, SeeEnd, Quit

\* Every action of a worker keeps it: only the worker's own close takes its
\* socket away.
LEMMA WorkerSockets ==
  ASSUME TypeOK, SocketInv, NEW x \in Conn, Worker(x)
  PROVE  SocketInv'
<1>0. /\ sock \in [Conn -> {"none", "backlog", "accepted", "closed"}]
      /\ phase \in [Conn -> Phases]
  BY DEF TypeOK, NetworkType, ThreadType
<1>1. UNCHANGED <<main, newest, backlog>>
  BY DEF Worker, WorkerCheck, RecvData, RecvTimeout, RecvEnd, RecvError, ProcessLine,
         SendResponse, SendBlocked, SendFails, Decrement, Finish, CloseClient, server, network
<1>2. CASE CloseClient(x)
  <2>1. /\ phase[x] = "close" /\ phase' = [phase EXCEPT ![x] = "exited"]
        /\ sock' = [sock EXCEPT ![x] = "closed"]
    BY <1>2 DEF CloseClient, CloseSocket, Go
  <2>2. sock[x] = "accepted" /\ x # newest
    BY <2>1 DEF SocketInv
  <2>3. \A y \in Conn : y # x => sock'[y] = sock[y] /\ phase'[y] = phase[y]
    BY <1>0, <2>1
  <2>4. sock'[x] = "closed" /\ phase'[x] = "exited"
    BY <1>0, <2>1
  <2> QED
    BY <1>1, <2>2, <2>3, <2>4 DEF SocketInv
<1>3. CASE ~CloseClient(x)
  <2>1. /\ UNCHANGED sock
        /\ phase[x] \notin {"none", "exited"}
        /\ (\E p \in Phases \ {"none", "exited"} : Go(x, p)) \/ UNCHANGED phase
    BY <1>3 DEF Worker, WorkerCheck, RecvData, RecvTimeout, RecvEnd, RecvError, ProcessLine,
       SendResponse, SendBlocked, SendFails, AfterSend, Continue, Leave, Decrement, Finish,
       Serving, Phases, network
  <2>2. /\ \A y \in Conn : y # x => phase'[y] = phase[y]
        /\ phase'[x] \notin {"none", "exited"}
    BY <1>0, <2>1 DEF Go
  <2> QED
    BY <1>1, <2>1, <2>2 DEF SocketInv
<1> QED
  BY <1>2, <1>3

\* Every action of the main thread keeps it: accept takes the oldest of the
\* queue, and what is accepted is given to a worker or closed.
LEMMA MainSockets ==
  ASSUME TypeOK, SlotInv, SocketInv, Main \/ AcceptFails \/ Signal
  PROVE  SocketInv'
<1>0. /\ sock \in [Conn -> {"none", "backlog", "accepted", "closed"}]
      /\ backlog \in Seq(Conn) /\ Len(backlog) \in Nat
      /\ phase \in [Conn -> Phases] /\ newest \in Conn \cup {NoConn}
  BY DEF TypeOK, NetworkType, ThreadType, ServerType
<1>H. ASSUME backlog # <<>>, backlog' = Tail(backlog),
             NEW s \in {"accepted", "closed"}, sock' = [sock EXCEPT ![Head(backlog)] = s]
      PROVE  /\ Head(backlog) \in Conn /\ sock[Head(backlog)] = "backlog"
             /\ phase[Head(backlog)] = "none"
             /\ \A y \in Conn : sock'[y] = "backlog" <=> \E i \in 1..Len(backlog') : backlog'[i] = y
             /\ \A i, j \in 1..Len(backlog') : backlog'[i] = backlog'[j] => i = j
             /\ \A y \in Conn : y # Head(backlog) => sock'[y] = sock[y]
             /\ sock'[Head(backlog)] = s
  <2> DEFINE h == Head(backlog)
  <2>1. /\ Len(backlog) > 0 /\ h = backlog[1] /\ h \in Conn /\ 1 \in 1..Len(backlog)
        /\ Len(backlog') = Len(backlog) - 1
        /\ \A i \in 1..Len(backlog') : backlog'[i] = backlog[i + 1] /\ i + 1 \in 1..Len(backlog)
    BY <1>0, <1>H
  <2>2. sock[h] = "backlog"
    BY <2>1 DEF SocketInv
  <2>3. phase[h] = "none"
    BY <2>1, <2>2 DEF SocketInv
  <2>4. \A i \in 1..Len(backlog') : backlog'[i] # h
    BY <1>0, <2>1 DEF SocketInv
  <2>5. \A y \in Conn : y # h => sock'[y] = sock[y]
    BY <1>0, <1>H
  <2>6. sock'[h] = s
    BY <1>0, <1>H, <2>1
  <2>7. ASSUME NEW y \in Conn
        PROVE  sock'[y] = "backlog" <=> \E i \in 1..Len(backlog') : backlog'[i] = y
    <3>1. CASE y = h
      BY <1>H, <2>4, <2>6, <3>1
    <3>2. CASE y # h
      <4>1. ASSUME NEW i \in 1..Len(backlog), backlog[i] = y
            PROVE  \E j \in 1..Len(backlog') : backlog'[j] = y
        <5>1. i # 1
          BY <2>1, <3>2, <4>1
        <5>2. i - 1 \in 1..Len(backlog') /\ (i - 1) + 1 = i
          BY <1>0, <2>1, <5>1
        <5> QED
          BY <2>1, <4>1, <5>2
      <4>2. ASSUME NEW j \in 1..Len(backlog'), backlog'[j] = y
            PROVE  \E i \in 1..Len(backlog) : backlog[i] = y
        BY <2>1, <4>2
      <4> QED
        BY <2>5, <3>2, <4>1, <4>2 DEF SocketInv
    <3> QED
      BY <3>1, <3>2
  <2>8. \A i, j \in 1..Len(backlog') : backlog'[i] = backlog'[j] => i = j
    BY <1>0, <2>1 DEF SocketInv
  <2> QED
    BY <2>1, <2>2, <2>3, <2>5, <2>6, <2>7, <2>8
<1>U. ASSUME UNCHANGED <<newest, phase, backlog, sock>>, main # "admit", main' \notin {"admit", "returned"}
      PROVE  SocketInv'
  BY <1>U DEF SocketInv
<1>1. CASE LoopCheck \/ EnterAccept
  BY <1>1, <1>U DEF LoopCheck, EnterAccept, thread, network
<1>2. CASE Signal
  BY <1>2, <1>U DEF Signal, thread, network, SocketInv
<1>3. CASE Accept
  <2>1. /\ main = "accept" /\ main' = "admit" /\ newest' = Head(backlog) /\ UNCHANGED phase
        /\ backlog # <<>> /\ backlog' = Tail(backlog)
        /\ sock' = [sock EXCEPT ![Head(backlog)] = "accepted"]
    BY <1>3 DEF Accept, thread
  <2>2. newest = NoConn /\ NoConn \notin Conn
    BY <2>1, SentinelAssumption DEF SocketInv
  <2> QED
    BY <1>H, <2>1, <2>2 DEF SocketInv
<1>4. CASE AcceptFails
  <2>1. main = "accept" /\ main' = "joinAll" /\ UNCHANGED <<newest, phase>>
    BY <1>4 DEF AcceptFails
  <2>2. CASE UNCHANGED <<backlog, sock>>
    BY <1>U, <2>1, <2>2
  <2>3. CASE backlog # <<>> /\ backlog' = Tail(backlog) /\ CloseSocket(Head(backlog), outbox)
    <3>1. sock' = [sock EXCEPT ![Head(backlog)] = "closed"]
      BY <2>3 DEF CloseSocket
    <3> QED
      BY <1>H, <2>1, <2>3, <3>1 DEF SocketInv
  <2> QED
    BY <1>4, <2>2, <2>3 DEF AcceptFails
<1>5. CASE Admit
  <2>1. newest \in Conn /\ sock[newest] = "accepted" /\ NoConn \notin Conn
    BY <1>0, <1>5, SentinelAssumption DEF Admit, SocketInv
  <2>2. /\ phase' = [phase EXCEPT ![newest] = "check"] /\ newest' = NoConn /\ main' = "check"
        /\ UNCHANGED <<backlog, sock>>
    BY <1>5 DEF Admit, network
  <2> QED
    BY <1>0, <2>1, <2>2 DEF SocketInv
<1>6. CASE RejectClient
  <2>1. newest \in Conn /\ sock[newest] = "accepted" /\ NoConn \notin Conn /\ phase[newest] = "none"
    BY <1>0, <1>6, SentinelAssumption DEF RejectClient, SocketInv
  <2>2. /\ sock' = [sock EXCEPT ![newest] = "closed"] /\ newest' = NoConn /\ main' = "check"
        /\ UNCHANGED <<backlog, phase>>
    BY <1>6 DEF RejectClient, CloseSocket
  <2>3. \A y \in Conn : y # newest => sock'[y] = sock[y]
    BY <1>0, <2>2
  <2>4. sock'[newest] = "closed"
    BY <1>0, <2>1, <2>2
  <2> QED
    BY <2>1, <2>2, <2>3, <2>4 DEF SocketInv
<1>7. CASE Return
  <2>1. /\ main = "joinAll" /\ main' = "returned" /\ backlog' = <<>> /\ UNCHANGED <<newest, phase>>
        /\ sock' = [x \in Conn |-> IF sock[x] = "backlog" THEN "closed" ELSE sock[x]]
    BY <1>7 DEF Return
  <2>2. \A y \in Conn : /\ sock'[y] # "backlog"
                        /\ sock'[y] = "accepted" <=> sock[y] = "accepted"
                        /\ sock[y] = "closed" => sock'[y] = "closed"
    BY <2>1
  <2> QED
    BY <2>1, <2>2 DEF SocketInv
<1>8. ASSUME NEW x \in Conn, Reap(x) \/ JoinWorker(x)
      PROVE  SocketInv'
  <2>1. /\ UNCHANGED <<main, newest, backlog, sock>>
        /\ UNCHANGED phase \/ (phase[x] = "exited" /\ phase' = [phase EXCEPT ![x] = "none"])
    BY <1>8 DEF Reap, JoinWorker, Joined, network, thread
  <2>2. \A y \in Conn : phase'[y] \in {"none", "exited"} <=> phase[y] \in {"none", "exited"}
    BY <1>0, <2>1
  <2>3. \A y \in Conn : /\ phase'[y] = "exited" => phase[y] = "exited"
                        /\ phase[y] = "none" => phase'[y] = "none"
    BY <1>0, <2>1
  <2> QED
    BY <2>1, <2>2, <2>3 DEF SocketInv
<1> QED
  BY <1>1, <1>2, <1>3, <1>4, <1>5, <1>6, <1>7, <1>8 DEF Main

\* Every step keeps who owns which socket.
LEMMA StepSockets == TypeOK /\ SlotInv /\ SocketInv /\ [Next]_vars => SocketInv'
<1> SUFFICES ASSUME TypeOK, SlotInv, SocketInv, [Next]_vars
             PROVE  SocketInv'
  OBVIOUS
<1>1. CASE UNCHANGED vars
  BY <1>1 DEF SocketInv, vars, server, thread, network
<1> QED
  BY <1>1, MainSockets, ClientSockets, WorkerSockets DEF Next

-----------------------------------------------------------------------------
(* Lines *)

\* Initially there are no lines.
LEMMA InitLines == Init => LinesInv
BY OptionsAssumption DEF Init, LinesInv, LinesOf, Known

\* A step that does not touch the lines of a connection keeps them, also when
\* it sets the flag or moves the thread to where it has no line in its hands.
LEMMA Elsewhere ==
  ASSUME NEW y \in Conn, LinesOf(y), stop => stop',
         sock'[y] = sock[y] \/ sock'[y] \in {"backlog", "accepted"},
         peer'[y] = peer[y], buf'[y] = buf[y], tail'[y] = tail[y],
         phase'[y] = phase[y] \/ {phase'[y], phase[y]} \subseteq {"none", "check", "recv", "exited"},
         left'[y] = left[y], inbox'[y] = inbox[y],
         asked'[y] = asked[y], answered'[y] = answered[y]
  PROVE  LinesOf(y)'
<1>1. Known(y)' = Known(y)
  BY DEF Known
<1> QED
  BY <1>1 DEF LinesOf

\* A connection that the server has closed has no lines.
LEMMA ClosedLines ==
  ASSUME NEW x \in Conn, NEW X, x \in X, Drained(X), sock'[x] = "closed",
         buf'[x] = 0, phase'[x] \in {"none", "exited"}, left'[x] = "no"
  PROVE  LinesOf(x)'
<1>1. asked'[x] = 0 /\ answered'[x] = 0 /\ inbox'[x] = 0 /\ tail'[x] = "none"
  BY DEF Drained
<1>2. Known(x)' = 0
  BY <1>1 DEF Known
<1> QED
  BY <1>1, <1>2, OptionsAssumption DEF LinesOf

\* A step of the main thread keeps the lines: it closes connections that no
\* worker has, and otherwise leaves the lines alone.
LEMMA MainLines ==
  ASSUME TypeOK, SlotInv, SocketInv, LinesInv, Main \/ AcceptFails \/ Signal
  PROVE  LinesInv'
<1>0. /\ phase \in [Conn -> Phases] /\ newest \in Conn \cup {NoConn}
      /\ sock \in [Conn -> {"none", "backlog", "accepted", "closed"}]
      /\ backlog \in Seq(Conn)
  BY DEF TypeOK, ThreadType, ServerType, NetworkType
<1>U. ASSUME UNCHANGED <<peer, buf, tail, left, inbox, asked, answered, phase>>,
             stop => stop',
             \A y \in Conn : sock'[y] = sock[y] \/ sock'[y] = "accepted"
      PROVE  LinesInv'
  BY <1>U, Elsewhere DEF LinesInv
<1>C. ASSUME NEW x \in Conn, phase[x] = "none", Drained({x}),
             sock' = [sock EXCEPT ![x] = "closed"],
             UNCHANGED <<stop, phase, buf, left, peer>>
      PROVE  LinesInv'
  <2>1. buf[x] = 0 /\ left[x] = "no"
    BY <1>C DEF LinesInv, LinesOf
  <2>2. LinesOf(x)'
    <3>1. sock'[x] = "closed"
      BY <1>0, <1>C
    <3> QED
      BY <1>C, <2>1, <3>1, ClosedLines
  <2>3. ASSUME NEW y \in Conn, y # x
        PROVE  LinesOf(y)'
    <3>1. /\ sock'[y] = sock[y] /\ tail'[y] = tail[y] /\ inbox'[y] = inbox[y]
          /\ asked'[y] = asked[y] /\ answered'[y] = answered[y]
      BY <1>0, <1>C, <2>3 DEF Drained
    <3> QED
      BY <1>C, <3>1, Elsewhere DEF LinesInv
  <2> QED
    BY <2>2, <2>3 DEF LinesInv
<1>1. CASE LoopCheck \/ EnterAccept \/ Signal
  BY <1>1, <1>U DEF LoopCheck, EnterAccept, Signal, thread, network
<1>2. CASE Accept
  <2>1. \A y \in Conn : sock'[y] = sock[y] \/ sock'[y] = "accepted"
    BY <1>0, <1>2 DEF Accept
  <2> QED
    BY <1>2, <1>U, <2>1 DEF Accept, thread
<1>3. CASE AcceptFails
  <2>1. UNCHANGED <<stop, phase, buf, left, peer>>
    BY <1>3 DEF AcceptFails
  <2>2. CASE UNCHANGED <<sock, tail, inbox, asked, answered>>
    BY <1>U, <2>1, <2>2
  <2>3. CASE backlog # <<>> /\ CloseSocket(Head(backlog), outbox)
    <3>1. Head(backlog) \in Conn /\ sock[Head(backlog)] = "backlog"
      <4>1. 1 \in 1..Len(backlog) /\ Head(backlog) = backlog[1] /\ Head(backlog) \in Conn
        BY <1>0, <2>3
      <4> QED
        BY <4>1 DEF SocketInv
    <3>2. phase[Head(backlog)] = "none"
      BY <3>1 DEF SocketInv
    <3> QED
      BY <1>C, <2>1, <2>3, <3>1, <3>2 DEF CloseSocket
  <2> QED
    BY <1>3, <2>2, <2>3 DEF AcceptFails
<1>4. CASE Admit
  <2>1. newest \in Conn /\ phase[newest] = "none"
    BY <1>0, <1>4 DEF Admit, SocketInv
  <2>2. /\ phase' = [phase EXCEPT ![newest] = "check"]
        /\ UNCHANGED <<stop, sock, peer, buf, tail, left, inbox, asked, answered>>
    BY <1>4 DEF Admit, network
  <2>3. \A y \in Conn : phase'[y] = phase[y] \/ (phase'[y] = "check" /\ phase[y] = "none")
    BY <1>0, <2>1, <2>2
  <2> QED
    BY <2>2, <2>3, Elsewhere DEF LinesInv
<1>5. CASE RejectClient
  <2>1. newest \in Conn /\ phase[newest] = "none"
    BY <1>0, <1>5 DEF RejectClient, SocketInv
  <2> QED
    BY <1>5, <1>C, <2>1 DEF RejectClient, CloseSocket
<1>6. CASE Return
  <2>1. /\ UNCHANGED <<stop, phase, buf, left, peer>>
        /\ sock' = [x \in Conn |-> IF sock[x] = "backlog" THEN "closed" ELSE sock[x]]
        /\ Drained({x \in Conn : sock[x] = "backlog"})
    BY <1>6 DEF Return
  <2>2. ASSUME NEW x \in Conn, sock[x] = "backlog"
        PROVE  LinesOf(x)'
    <3>1. phase[x] = "none"
      BY <2>2 DEF SocketInv
    <3>2. buf[x] = 0 /\ left[x] = "no"
      BY <3>1 DEF LinesInv, LinesOf
    <3> QED
      BY <2>1, <2>2, <3>1, <3>2, ClosedLines
  <2>3. ASSUME NEW y \in Conn, sock[y] # "backlog"
        PROVE  LinesOf(y)'
    <3>1. /\ sock'[y] = sock[y] /\ tail'[y] = tail[y] /\ inbox'[y] = inbox[y]
          /\ asked'[y] = asked[y] /\ answered'[y] = answered[y]
      BY <2>1, <2>3 DEF Drained
    <3> QED
      BY <2>1, <3>1, Elsewhere DEF LinesInv
  <2> QED
    BY <2>2, <2>3 DEF LinesInv
<1>7. ASSUME NEW x \in Conn, Reap(x) \/ JoinWorker(x)
      PROVE  LinesInv'
  <2>1. UNCHANGED <<stop, sock, peer, buf, tail, left, inbox, asked, answered>>
    BY <1>7 DEF Reap, JoinWorker, Joined, network, thread
  <2>2. CASE UNCHANGED phase
    BY <1>U, <2>1, <2>2
  <2>3. CASE phase[x] = "exited" /\ phase' = [phase EXCEPT ![x] = "none"]
    <3>1. \A y \in Conn : phase'[y] = phase[y] \/ (phase'[y] = "none" /\ phase[y] = "exited")
      BY <1>0, <2>3
    <3> QED
      BY <2>1, <3>1, Elsewhere DEF LinesInv
  <2> QED
    BY <1>7, <2>2, <2>3 DEF Reap, JoinWorker, Joined, thread
<1> QED
  BY <1>1, <1>2, <1>3, <1>4, <1>5, <1>6, <1>7 DEF Main

\* A client adds a line to what it has asked and to its connection at once.
LEMMA ClientLines ==
  ASSUME TypeOK, SocketInv, LinesInv, NEW x \in Conn, Client(x)
  PROVE  LinesInv'
<1>0. /\ sock \in [Conn -> {"none", "backlog", "accepted", "closed"}]
      /\ peer \in [Conn -> {"none", "open", "half", "gone"}]
      /\ inbox \in [Conn -> 0..Lines]
      /\ asked \in [Conn -> 0..(Lines + 1)]
      /\ tail \in [Conn -> {"none", "wire", "read"}]
      /\ answered[x] \in Nat /\ buf[x] \in Nat
  BY Counts DEF TypeOK, ThreadType, NetworkType
<1>1. UNCHANGED <<stop, phase, buf, left, answered>>
  BY DEF Client, Connect, SendLine, HalfClose, ReadResponse, SeeEnd, Quit, Forget, server, thread
<1>2. ASSUME NEW y \in Conn, y # x
      PROVE  LinesOf(y)'
  <2>1. /\ sock'[y] = sock[y] /\ peer'[y] = peer[y] /\ tail'[y] = tail[y]
        /\ inbox'[y] = inbox[y] /\ asked'[y] = asked[y]
    BY <1>0, <1>2 DEF Client, Connect, SendLine, HalfClose, ReadResponse, SeeEnd, Quit, Forget, thread
  <2> QED
    BY <1>1, <2>1, Elsewhere DEF LinesInv
<1>3. LinesOf(x)'
  <2>0. LinesOf(x)
    BY DEF LinesInv
  <2>1. CASE Connect(x)
    <3>1. /\ sock[x] = "none" /\ sock'[x] = "backlog" /\ peer'[x] = "open"
          /\ UNCHANGED <<tail, inbox, asked>>
      BY <1>0, <2>1 DEF Connect, thread
    <3>2. phase[x] = "none"
      BY <3>1 DEF SocketInv
    <3>3. Known(x)' = Known(x)
      BY <1>1, <3>1 DEF Known
    <3> QED
      BY <1>1, <2>0, <3>1, <3>2, <3>3, OptionsAssumption DEF LinesOf
  <2>2. CASE Forget(x)
    <3>1. /\ sock[x] = "closed" /\ sock'[x] = "none" /\ peer'[x] = "none"
          /\ UNCHANGED <<tail, inbox, asked>>
      BY <1>0, <2>2 DEF Forget, thread
    <3>2. Known(x)' = Known(x)
      BY <1>1, <3>1 DEF Known
    <3> QED
      BY <1>1, <2>0, <3>1, <3>2 DEF LinesOf
  <2>3. CASE SeeEnd(x) \/ Quit(x) \/ ReadResponse(x)
    <3>1. /\ UNCHANGED <<sock, tail, inbox, asked>>
          /\ peer'[x] = peer[x] \/ (peer'[x] = "gone" /\ peer[x] # "none")
      BY <1>0, <2>3 DEF SeeEnd, Quit, ReadResponse, Held, thread
    <3>2. Known(x)' = Known(x)
      BY <1>1, <3>1 DEF Known
    <3> QED
      BY <1>1, <2>0, <3>1, <3>2 DEF LinesOf
  <2>4. CASE SendLine(x)
    <3>1. /\ peer[x] = "open" /\ sock[x] # "closed" /\ asked[x] < Lines
          /\ inbox'[x] = inbox[x] + 1 /\ asked'[x] = asked[x] + 1
          /\ UNCHANGED <<sock, peer, tail>>
      BY <1>0, <2>4 DEF SendLine, thread
    <3>2. sock[x] # "none"
      BY <2>0, <3>1 DEF LinesOf
    <3>3. Known(x)' = Known(x) + 1 /\ Known(x) \in Nat /\ asked[x] \in Nat
      BY <1>0, <1>1, <3>1 DEF Known
    <3> QED
      BY <1>1, <2>0, <3>1, <3>2, <3>3, OptionsAssumption DEF LinesOf
  <2>5. CASE HalfClose(x)
    <3>1. /\ peer[x] = "open" /\ peer'[x] = "half" /\ sock[x] # "closed"
          /\ UNCHANGED <<sock, inbox>>
          /\ \/ tail'[x] = tail[x] /\ asked'[x] = asked[x]
             \/ tail'[x] = "wire" /\ asked'[x] = asked[x] + 1
      BY <1>0, <2>5 DEF HalfClose
    <3>2. sock[x] # "none" /\ tail[x] = "none" /\ phase[x] # "sendFinal" /\ left[x] # "eof"
      BY <2>0, <3>1 DEF LinesOf
    <3>3. Known(x) \in Nat /\ asked[x] \in Nat
      BY <1>0 DEF Known
    <3>4. \/ Known(x)' = Known(x) /\ asked'[x] = asked[x]
          \/ Known(x)' = Known(x) + 1 /\ asked'[x] = asked[x] + 1
      BY <1>0, <1>1, <3>1, <3>2 DEF Known
    <3> QED
      BY <1>1, <2>0, <3>1, <3>2, <3>3, <3>4 DEF LinesOf
  <2> QED
    BY <2>1, <2>2, <2>3, <2>4, <2>5 DEF Client
<1> QED
  BY <1>2, <1>3 DEF LinesInv

\* serveClient returns: what it left unread or unanswered makes no difference
\* any more, and an orderly end has answered everything.
LEMMA LeaveLines ==
  ASSUME TypeOK, LinesInv, NEW x \in Conn, NEW why \in {"eof", "idle", "stop", "error"},
         left[x] = "no", sock[x] = "accepted", Leave(x, why),
         UNCHANGED <<stop, sock, peer, inbox, asked>>,
         answered'[x] \in Nat,
         answered'[x] + inbox[x] + (IF tail[x] = "none" THEN 0 ELSE 1) <= asked[x],
         why = "eof" => peer[x] # "open" /\ (~stop => answered'[x] = asked[x])
  PROVE  LinesOf(x)'
<1>0. /\ phase'[x] = "dec" /\ left'[x] = why /\ buf'[x] = 0
      /\ tail'[x] = (IF tail[x] = "read" THEN "none" ELSE tail[x])
      /\ inbox[x] \in Nat /\ asked[x] \in Nat
  BY Counts DEF Leave, Go, TypeOK, ThreadType
<1>1. Known(x)' = answered'[x] + inbox[x] + (IF tail'[x] = "none" THEN 0 ELSE 1)
  BY <1>0 DEF Known
<1>2. Known(x)' <= asked[x]
  BY <1>0, <1>1
<1> QED
  BY <1>0, <1>2 DEF LinesInv, LinesOf

\* A worker takes every line it receives through to its response.
LEMMA WorkerLines ==
  ASSUME TypeOK, SlotInv, SocketInv, LinesInv, NEW x \in Conn, Worker(x)
  PROVE  LinesInv'
<1>0. /\ phase \in [Conn -> Phases]
      /\ buf \in [Conn -> 0..Lines]
      /\ tail \in [Conn -> {"none", "wire", "read"}]
      /\ left \in [Conn -> {"no", "eof", "idle", "stop", "error"}]
      /\ sock \in [Conn -> {"none", "backlog", "accepted", "closed"}]
      /\ inbox \in [Conn -> 0..Lines]
      /\ asked \in [Conn -> 0..(Lines + 1)]
      /\ answered \in [Conn -> 0..(Lines + 1)]
  BY DEF TypeOK, ThreadType, NetworkType
<1>1. LinesOf(x) /\ UNCHANGED <<stop, peer>>
  BY DEF LinesInv, Worker, WorkerCheck, RecvData, RecvTimeout, RecvEnd, RecvError, ProcessLine,
         SendResponse, SendBlocked, SendFails, Decrement, Finish, CloseClient, server, network
<1>2. sock[x] = "accepted"
  <2>1. phase[x] \notin {"none", "exited"}
    BY DEF Worker, WorkerCheck, RecvData, RecvTimeout, RecvEnd, RecvError, ProcessLine,
           SendResponse, SendBlocked, SendFails, Decrement, Finish, CloseClient
  <2> QED
    BY <2>1 DEF SocketInv
<1>3. /\ answered[x] \in Nat /\ inbox[x] \in Nat /\ buf[x] \in Nat /\ asked[x] \in Nat
      /\ Known(x) \in Nat
  BY Counts DEF Known
<1>4. ASSUME NEW y \in Conn, y # x
      PROVE  LinesOf(y)'
  <2>1. /\ phase'[y] = phase[y] /\ buf'[y] = buf[y] /\ tail'[y] = tail[y] /\ left'[y] = left[y]
    BY <1>0, <1>4
    DEF Worker, WorkerCheck, RecvData, RecvTimeout, RecvEnd, RecvError, ProcessLine,
        SendResponse, SendBlocked, SendFails, AfterSend, Continue, Leave, Go, Decrement, Finish,
        CloseClient, CloseSocket, Drained
  <2>2. /\ sock'[y] = sock[y] /\ inbox'[y] = inbox[y]
        /\ asked'[y] = asked[y] /\ answered'[y] = answered[y]
    BY <1>0, <1>4
    DEF Worker, WorkerCheck, RecvData, RecvTimeout, RecvEnd, RecvError, ProcessLine,
        SendResponse, SendBlocked, SendFails, Decrement, Finish,
        CloseClient, CloseSocket, Drained, network
  <2> QED
    BY <1>1, <2>1, <2>2, Elsewhere DEF LinesInv
<1>L. ASSUME NEW why \in {"eof", "idle", "stop", "error"}, Leave(x, why),
             phase[x] \in {"check", "recv", "send", "sendFinal"},
             UNCHANGED network,
             why = "eof" => peer[x] # "open" /\ (~stop => answered[x] = asked[x])
      PROVE  LinesOf(x)'
  <2>1. left[x] = "no"
    BY <1>1, <1>L DEF LinesOf
  <2>2. answered[x] + inbox[x] + (IF tail[x] = "none" THEN 0 ELSE 1) <= asked[x]
    BY <1>1, <1>3 DEF LinesOf, Known
  <2> QED
    BY <1>1, <1>2, <1>3, <1>L, <2>1, <2>2, LeaveLines DEF network
<1>M. ASSUME UNCHANGED <<network, buf, tail, left>>,
             phase[x] \in {"check", "recv"}, phase'[x] \in {"check", "recv"}
      PROVE  LinesOf(x)'
  BY <1>1, <1>M, Elsewhere DEF network
<1>5. LinesOf(x)'
  <2>1. CASE WorkerCheck(x)
    BY <1>0, <1>L, <1>M, <2>1 DEF WorkerCheck, Continue, Go
  <2>2. CASE RecvTimeout(x)
    BY <1>0, <1>L, <1>M, <2>2 DEF RecvTimeout, Continue, Go
  <2>3. CASE RecvError(x) \/ SendFails(x)
    BY <1>L, <2>3 DEF RecvError, SendFails
  <2>4. CASE RecvData(x)
    <3>1. PICK n \in 0..inbox[x] :
            /\ buf' = [buf EXCEPT ![x] = n]
            /\ inbox' = [inbox EXCEPT ![x] = @ - n]
            /\ tail' = [tail EXCEPT ![x] = IF @ = "wire" /\ n = inbox[x] THEN "read" ELSE @]
      BY <2>4 DEF RecvData
    <3>2. /\ buf'[x] = n /\ inbox'[x] = inbox[x] - n /\ n \in Nat
          /\ (tail'[x] = "none" <=> tail[x] = "none")
          /\ phase[x] = "recv" /\ phase'[x] = "process"
          /\ UNCHANGED <<sock, left, asked, answered>>
      BY <1>0, <1>3, <2>4, <3>1 DEF RecvData, Go
    <3>3. buf[x] = 0 /\ left[x] = "no"
      BY <1>1, <3>2 DEF LinesOf
    <3>4. Known(x)' = Known(x)
      BY <1>3, <3>2, <3>3 DEF Known
    <3> QED
      BY <1>1, <1>2, <3>2, <3>3, <3>4 DEF LinesOf
  <2>5. CASE RecvEnd(x)
    <3>1. /\ phase[x] = "recv" /\ inbox[x] = 0 /\ tail[x] # "wire" /\ peer[x] # "open"
          /\ UNCHANGED network
      BY <2>5 DEF RecvEnd, NoInput
    <3>2. buf[x] = 0 /\ left[x] = "no"
      BY <1>1, <3>1 DEF LinesOf
    <3>3. CASE Leave(x, "eof") /\ (tail[x] # "read" \/ stop)
      <4>1. ~stop => tail[x] = "none"
        BY <1>0, <3>1, <3>3
      <4>2. ~stop => answered[x] = asked[x]
        BY <1>1, <1>3, <3>1, <3>2, <4>1 DEF LinesOf, Known
      <4> QED
        BY <1>L, <3>1, <3>3, <4>2
    <3>4. CASE /\ tail[x] = "read"
               /\ tail' = [tail EXCEPT ![x] = "none"]
               /\ Go(x, "sendFinal")
               /\ UNCHANGED <<buf, idle, left>>
      <4>1. tail'[x] = "none" /\ phase'[x] = "sendFinal"
        BY <1>0, <3>4 DEF Go
      <4>2. Known(x)' = Known(x)
        BY <1>3, <3>1, <3>4, <4>1 DEF Known, network
      <4> QED
        BY <1>1, <1>2, <3>1, <3>2, <3>4, <4>1, <4>2 DEF LinesOf, network
    <3> QED
      BY <2>5, <3>3, <3>4 DEF RecvEnd
  <2>6. CASE ProcessLine(x)
    <3>1. /\ phase[x] = "process" /\ UNCHANGED <<network, tail, left>>
          /\ \/ buf'[x] = buf[x] - 1 /\ buf[x] > 0 /\ phase'[x] = "send"
             \/ buf'[x] = 0 /\ buf[x] = 0 /\ phase'[x] = "check"
      BY <1>0, <2>6 DEF ProcessLine, Go
    <3>2. Known(x)' = Known(x)
      BY <1>3, <3>1 DEF Known, network
    <3> QED
      BY <1>1, <1>2, <3>1, <3>2 DEF LinesOf, network
  <2>7. CASE SendResponse(x)
    <3>1. /\ answered'[x] = answered[x] + 1 /\ UNCHANGED <<sock, inbox, asked>>
      BY <1>0, <2>7 DEF SendResponse
    <3>2. CASE phase[x] = "send" /\ Continue(x, "process")
      <4>1. phase'[x] = "process" /\ UNCHANGED <<buf, tail, left>>
        BY <1>0, <3>2 DEF Continue, Go
      <4>2. Known(x)' = Known(x)
        BY <1>3, <3>1, <3>2, <4>1 DEF Known
      <4> QED
        BY <1>1, <1>2, <3>1, <3>2, <4>1, <4>2 DEF LinesOf
    <3>3. CASE phase[x] = "sendFinal" /\ Leave(x, "eof")
      <4>1. inbox[x] = 0 /\ tail[x] = "none" /\ peer[x] # "open" /\ buf[x] = 0 /\ left[x] = "no"
        BY <1>1, <3>3 DEF LinesOf
      <4>2. Known(x) = answered[x] + 1
        BY <1>3, <3>3, <4>1 DEF Known
      <4>3. answered'[x] <= asked[x] /\ (~stop => answered'[x] = asked[x])
        BY <1>1, <3>1, <4>1, <4>2 DEF LinesOf
      <4>4. answered'[x] + inbox[x] + (IF tail[x] = "none" THEN 0 ELSE 1) <= asked[x]
        BY <1>3, <3>1, <4>1, <4>3
      <4> QED
        BY <1>1, <1>2, <1>3, <3>1, <3>3, <4>1, <4>3, <4>4, LeaveLines
    <3> QED
      BY <2>7, <3>2, <3>3 DEF SendResponse, AfterSend
  <2>8. CASE SendBlocked(x)
    <3>1. UNCHANGED network /\ phase[x] \in {"send", "sendFinal"}
      BY <2>8 DEF SendBlocked
    <3>2. CASE UNCHANGED <<phase, buf, tail, left>>
      BY <1>1, <3>1, <3>2, Elsewhere DEF network
    <3>3. CASE stop /\ phase[x] = "send" /\ Continue(x, "process")
      <4>1. phase'[x] = "process" /\ UNCHANGED <<buf, tail, left>>
        BY <1>0, <3>3 DEF Continue, Go
      <4>2. Known(x)' = Known(x) - 1
        BY <1>3, <3>1, <3>3, <4>1 DEF Known, network
      <4>3. Known(x)' <= asked[x]
        BY <1>1, <1>3, <4>2 DEF LinesOf
      <4> QED
        BY <1>1, <1>2, <3>1, <3>3, <4>1, <4>3 DEF LinesOf, network
    <3>4. CASE stop /\ phase[x] = "sendFinal" /\ Leave(x, "eof")
      <4>1. peer[x] # "open"
        BY <1>1, <3>4 DEF LinesOf
      <4> QED
        BY <1>L, <3>1, <3>4, <4>1
    <3> QED
      BY <2>8, <3>2, <3>3, <3>4 DEF SendBlocked, AfterSend
  <2>9. CASE Decrement(x) \/ Finish(x)
    <3>1. /\ phase[x] \in {"dec", "finish"} /\ phase'[x] \in {"finish", "close"}
          /\ UNCHANGED <<network, buf, tail, left>>
      BY <1>0, <2>9 DEF Decrement, Finish, Go
    <3>2. Known(x)' = Known(x)
      BY <3>1 DEF Known, network
    <3> QED
      BY <1>1, <1>2, <3>1, <3>2 DEF LinesOf, network
  <2>10. CASE CloseClient(x)
    <3>1. /\ phase[x] = "close" /\ phase'[x] = "exited" /\ left'[x] = "no" /\ UNCHANGED buf
          /\ Drained({x}) /\ sock'[x] = "closed"
      BY <1>0, <2>10 DEF CloseClient, CloseSocket, Go
    <3>2. buf[x] = 0
      BY <1>1, <3>1 DEF LinesOf
    <3> QED
      BY <3>1, <3>2, ClosedLines
  <2> QED
    BY <2>1, <2>2, <2>3, <2>4, <2>5, <2>6, <2>7, <2>8, <2>9, <2>10 DEF Worker
<1> QED
  BY <1>4, <1>5 DEF LinesInv

\* Every step keeps the lines.
LEMMA StepLines ==
  TypeOK /\ SlotInv /\ SocketInv /\ LinesInv /\ [Next]_vars => LinesInv'
<1> SUFFICES ASSUME TypeOK, SlotInv, SocketInv, LinesInv, [Next]_vars
             PROVE  LinesInv'
  OBVIOUS
<1>1. CASE UNCHANGED vars
  <2>1. \A y \in Conn : LinesOf(y)'
    BY <1>1, Elsewhere DEF LinesInv, vars, server, thread, network
  <2> QED
    BY <2>1 DEF LinesInv
<1> QED
  BY <1>1, MainLines, ClientLines, WorkerLines DEF Next

-----------------------------------------------------------------------------
(* Theorems *)

\* The invariant behind the theorems below.
LEMMA Invariant == Spec => [](TypeOK /\ SlotInv /\ SocketInv /\ LinesInv)
<1>1. Init => TypeOK /\ SlotInv /\ SocketInv /\ LinesInv
  BY InitType, InitSlots, InitSockets, InitLines
<1>2. TypeOK /\ SlotInv /\ SocketInv /\ LinesInv /\ [Next]_vars
        => (TypeOK /\ SlotInv /\ SocketInv /\ LinesInv)'
  BY StepType, StepSlots, StepSockets, StepLines
<1> QED
  BY <1>1, <1>2, PTL DEF Spec

\* Every state of every behaviour is well-typed; no socket, counter or buffer
\* of the server leaves its range.
THEOREM TypeCorrect == Spec => []TypeOK
BY Invariant, PTL

\* activeClientWorkers is the number of threads in serveClient or just out of
\* it, and never above maxClientWorkers, for any number of clients and workers.
THEOREM SlotsAreExact == Spec => []SlotsExact
<1>1. SlotInv => SlotsExact
  BY DEF SlotInv
<1> QED
  BY <1>1, Invariant, PTL

\* A client is rejected only if the clients that are connected, or whose socket
\* the server still has, are more than the slots.
THEOREM RejectionsHaveCause == Spec => []RejectedForCause
<1>1. TypeOK /\ SlotInv /\ SocketInv => RejectedForCause
  <2> SUFFICES ASSUME TypeOK, SlotInv, SocketInv, main = "admit", active >= MaxClientWorkers
               PROVE  Cardinality(Present) > MaxClientWorkers
    BY DEF RejectedForCause
  <2>1. newest \in Conn /\ phase[newest] = "none"
    BY DEF SocketInv, TypeOK, ServerType
  <2>2. newest \notin ServingNow
    BY <2>1 DEF ServingNow, Serving
  <2>3. ServingNow \cup {newest} \in SUBSET Present
    BY <2>1 DEF ServingNow, Serving, SocketInv, Present
  <2>4. IsFiniteSet(Present) /\ Cardinality(Present) \in Nat
    <3>1. Present \in SUBSET Conn
      BY DEF Present
    <3> QED
      BY <3>1, FiniteAssumption, FS_Subset, FS_CardinalityType
  <2>5. Cardinality(ServingNow \cup {newest}) = Cardinality(ServingNow) + 1
    BY <2>2, ServingFinite, FS_AddElement
  <2>6. Cardinality(ServingNow \cup {newest}) <= Cardinality(Present)
    BY <2>3, <2>4, FS_Subset
  <2>7. active = Cardinality(ServingNow)
    BY DEF SlotInv, SlotsExact, ServingNow
  <2> QED
    BY <2>4, <2>5, <2>6, <2>7, ServingFinite, OptionsAssumption
<1> QED
  BY <1>1, Invariant, PTL

\* When run has returned there is no worker thread and no connected client: the
\* pipeline and the storage engine may be destroyed.
THEOREM ReturnIsQuiet == Spec => []ReturnedQuiet
<1>1. TypeOK /\ SlotInv /\ SocketInv => ReturnedQuiet
  <2> SUFFICES ASSUME TypeOK, SlotInv, SocketInv, main = "returned", NEW x \in Conn
               PROVE  phase[x] = "none" /\ sock[x] \in {"none", "closed"}
    BY DEF ReturnedQuiet
  <2>1. phase[x] = "none"
    BY DEF SlotInv
  <2>2. newest = NoConn /\ x # NoConn
    BY SentinelAssumption DEF SocketInv
  <2>3. sock[x] # "accepted" /\ sock[x] # "backlog"
    BY <2>1, <2>2 DEF SocketInv
  <2>4. sock[x] \in {"none", "backlog", "accepted", "closed"}
    BY DEF TypeOK, NetworkType
  <2> QED
    BY <2>1, <2>3, <2>4
<1> QED
  BY <1>1, Invariant, PTL

\* A connection that ends with its input had a response to every line, its
\* unterminated last one too, unless the server was stopped.
THEOREM EofIsAnswered == Spec => []AnsweredBeforeEof
<1>1. LinesInv => AnsweredBeforeEof
  BY DEF LinesInv, LinesOf, AnsweredBeforeEof
<1> QED
  BY <1>1, Invariant, PTL

=============================================================================
