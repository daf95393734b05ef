----------------------------- MODULE TcpServer -----------------------------
(***************************************************************************)
(* Network::TcpLineServer::run: the accept loop of the main thread, the    *)
(* client workers it starts, counts, rejects and joins, the stop flag that *)
(* SignalShutdownController sets from a signal handler, and the sockets in *)
(* between.                                                                *)
(*                                                                         *)
(* A connection is known by the same name from connect() to the end of its *)
(* worker thread; names are used again, so a worker's slot, its thread and *)
(* its socket are all indexed by the connection.  A connection carries     *)
(* lines one way and one response per line the other way; the text of      *)
(* both is left out.                                                       *)
(***************************************************************************)
EXTENDS Integers, Sequences, FiniteSets

CONSTANTS
  Conn,               \* connections that can exist at the same time
  NoConn,             \* not a connection
  Clients,            \* number of clients; each uses one connection at a time
  MaxClientWorkers,   \* TcpLineServerOptions::maxClientWorkers
  IdleTimeout,        \* TcpLineServerOptions::clientIdleTimeoutSeconds
  SocketBuffer,       \* responses a connection holds that its client has not read
  Lines,              \* bound: lines sent on one connection
  Impatient,          \* TRUE: clients may drop a connection before its end
  Faults              \* what may go wrong: {"accept"}

ASSUME SentinelAssumption == NoConn \notin Conn
ASSUME FiniteAssumption == IsFiniteSet(Conn)   \* a process has finitely many descriptors
ASSUME OptionsAssumption ==
  /\ Clients \in Nat
  /\ MaxClientWorkers \in Nat \ {0}   \* validateOptions
  /\ IdleTimeout \in Nat \ {0}
  /\ SocketBuffer \in Nat \ {0}
  /\ Lines \in Nat
  /\ Impatient \in BOOLEAN
  /\ Faults \subseteq {"accept"}

VARIABLES
  main,      \* where the main thread is in run and acceptClient
  scan,      \* workers joinFinishedClientWorkers has still to look at
  newest,    \* connectedClient: accepted, and not admitted or rejected yet
  stop,      \* shutdownRequested
  active,    \* activeClientWorkers
  workers,   \* connections with a ClientWorkerSlot
  finished,  \* workers whose finished flag is set
  phase,     \* where each worker thread is
  buf,       \* lines in pendingInput
  tail,      \* an unterminated last line: none, on the "wire", or "read"
  idle,      \* seconds since lastActivity, up to IdleTimeout
  left,      \* why the worker left serveClient
  backlog,   \* connections the kernel holds for accept
  sock,      \* server side of the socket
  peer,      \* client side: open, half closed (still reading), gone
  inbox,     \* lines in the socket that the server has not received
  outbox,    \* responses in the socket that the client has not read
  asked,     \* lines sent on the connection
  answered   \* responses sent to them

server  == <<main, scan, newest, stop, active, workers, finished>>
thread  == <<phase, buf, tail, idle, left>>
network == <<backlog, sock, peer, inbox, outbox, asked, answered>>
vars    == <<server, thread, network>>

\* A worker counts as active from its start to its decrement.
Serving == {"check", "recv", "process", "send", "sendFinal", "dec"}
Phases  == Serving \cup {"none", "finish", "close", "exited"}

ServerType ==
  /\ main \in {"check", "reap", "accept", "admit", "joinAll", "returned"}
  /\ scan \subseteq workers
  /\ workers \subseteq Conn
  /\ finished \subseteq workers
  /\ newest \in Conn \cup {NoConn}
  /\ active \in 0..MaxClientWorkers

ThreadType ==
  /\ phase \in [Conn -> Phases]
  /\ buf \in [Conn -> 0..Lines]
  /\ tail \in [Conn -> {"none", "wire", "read"}]
  /\ idle \in [Conn -> 0..IdleTimeout]
  /\ left \in [Conn -> {"no", "eof", "idle", "stop", "error"}]

NetworkType ==
  /\ backlog \in Seq(Conn)
  /\ sock \in [Conn -> {"none", "backlog", "accepted", "closed"}]
  /\ peer \in [Conn -> {"none", "open", "half", "gone"}]
  /\ inbox \in [Conn -> 0..Lines]
  /\ outbox \in [Conn -> 0..SocketBuffer]
  /\ asked \in [Conn -> 0..(Lines + 1)]
  /\ answered \in [Conn -> 0..(Lines + 1)]

TypeOK == stop \in BOOLEAN /\ ServerType /\ ThreadType /\ NetworkType

Init ==
  /\ main = "check" /\ scan = {} /\ newest = NoConn
  /\ stop = FALSE
  /\ active = 0 /\ workers = {} /\ finished = {}
  /\ phase = [x \in Conn |-> "none"]
  /\ buf = [x \in Conn |-> 0]
  /\ tail = [x \in Conn |-> "none"]
  /\ idle = [x \in Conn |-> 0]
  /\ left = [x \in Conn |-> "no"]
  /\ backlog = <<>>
  /\ sock = [x \in Conn |-> "none"]
  /\ peer = [x \in Conn |-> "none"]
  /\ inbox = [x \in Conn |-> 0]
  /\ outbox = [x \in Conn |-> 0]
  /\ asked = [x \in Conn |-> 0]
  /\ answered = [x \in Conn |-> 0]

-----------------------------------------------------------------------------
(* Clients and the network (outside the server) *)

Held(x) == peer[x] \in {"open", "half"}

Connect(x) ==
  /\ sock[x] = "none"
  /\ main # "returned"
  /\ Cardinality({y \in Conn : Held(y)}) < Clients
  /\ sock' = [sock EXCEPT ![x] = "backlog"]
  /\ peer' = [peer EXCEPT ![x] = "open"]
  /\ backlog' = Append(backlog, x)
  /\ UNCHANGED <<server, thread, inbox, outbox, asked, answered>>

SendLine(x) ==
  /\ peer[x] = "open" /\ sock[x] # "closed"
  /\ asked[x] < Lines
  /\ inbox' = [inbox EXCEPT ![x] = @ + 1]
  /\ asked' = [asked EXCEPT ![x] = @ + 1]
  /\ UNCHANGED <<server, thread, backlog, sock, peer, outbox, answered>>

\* No more input, possibly after a last line without its newline.
HalfClose(x) ==
  /\ peer[x] = "open" /\ sock[x] # "closed"
  /\ peer' = [peer EXCEPT ![x] = "half"]
  /\ \/ UNCHANGED <<tail, asked>>
     \/ /\ tail' = [tail EXCEPT ![x] = "wire"]
        /\ asked' = [asked EXCEPT ![x] = @ + 1]
  /\ UNCHANGED <<server, phase, buf, idle, left, backlog, sock, inbox, outbox, answered>>

ReadResponse(x) ==
  /\ Held(x)
  /\ outbox[x] > 0
  /\ outbox' = [outbox EXCEPT ![x] = @ - 1]
  /\ UNCHANGED <<server, thread, backlog, sock, peer, inbox, asked, answered>>

\* The client has read everything and sees the end of the connection.
SeeEnd(x) ==
  /\ Held(x)
  /\ sock[x] = "closed" /\ outbox[x] = 0
  /\ peer' = [peer EXCEPT ![x] = "gone"]
  /\ UNCHANGED <<server, thread, backlog, sock, inbox, outbox, asked, answered>>

\* The client closes its side without waiting for the server.
Quit(x) ==
  /\ Impatient
  /\ Held(x)
  /\ peer' = [peer EXCEPT ![x] = "gone"]
  /\ outbox' = [outbox EXCEPT ![x] = 0]
  /\ UNCHANGED <<server, thread, backlog, sock, inbox, asked, answered>>

\* Nobody knows the connection any more: its name may be used again.
Forget(x) ==
  /\ peer[x] = "gone" /\ sock[x] = "closed" /\ x \notin workers
  /\ sock' = [sock EXCEPT ![x] = "none"]
  /\ peer' = [peer EXCEPT ![x] = "none"]
  /\ UNCHANGED <<server, thread, backlog, inbox, outbox, asked, answered>>

-----------------------------------------------------------------------------
(* The signal handler *)

\* The handler sets the flag.  A main thread that is blocked in accept returns
\* with EINTR if the signal is delivered to it.  It sleeps on if the signal
\* comes between its test of the flag and accept, or to a worker thread.
Signal ==
  /\ main # "returned"
  /\ stop' = TRUE
  /\ \/ main = "accept" /\ main' = "joinAll"
     \/ UNCHANGED main
  /\ UNCHANGED <<scan, newest, active, workers, finished, thread, network>>

-----------------------------------------------------------------------------
(* The main thread: run *)

\* while (!isStopRequested) joinFinishedClientWorkers
LoopCheck ==
  /\ main = "check"
  /\ \/ stop /\ main' = "joinAll" /\ UNCHANGED scan
     \/ ~stop /\ main' = "reap" /\ scan' = workers
  /\ UNCHANGED <<newest, stop, active, workers, finished, thread, network>>

Joined(x) ==
  /\ phase[x] = "exited"
  /\ workers' = workers \ {x}
  /\ finished' = finished \ {x}
  /\ phase' = [phase EXCEPT ![x] = "none"]
  /\ UNCHANGED <<buf, tail, idle, left>>

\* Mutant: every worker is joined, whether it has finished or not.
ReapEveryWorker(x) ==
  /\ main = "reap" /\ x \in scan
  /\ scan' = scan \ {x}
  /\ Joined(x)
  /\ UNCHANGED <<main, newest, stop, active, network>>

\* Look at one worker: join it (and wait for its thread) iff it has finished.
Reap(x) ==
  /\ main = "reap" /\ x \in scan
  /\ scan' = scan \ {x}
  /\ \/ x \in finished /\ Joined(x)
     \/ x \notin finished /\ UNCHANGED <<workers, finished, thread>>
  /\ UNCHANGED <<main, newest, stop, active, network>>

\* All looked at: acceptClient tests the flag, then blocks in accept, which has
\* no timeout.
EnterAccept ==
  /\ main = "reap" /\ scan = {}
  /\ main' = IF stop THEN "joinAll" ELSE "accept"
  /\ UNCHANGED <<scan, newest, stop, active, workers, finished, thread, network>>

Accept ==
  /\ main = "accept" /\ backlog # <<>>
  /\ newest' = Head(backlog)
  /\ backlog' = Tail(backlog)
  /\ sock' = [sock EXCEPT ![Head(backlog)] = "accepted"]
  /\ main' = "admit"
  /\ UNCHANGED <<scan, stop, active, workers, finished, thread,
                 peer, inbox, outbox, asked, answered>>

\* The server side of the connections X is gone, with what was sent to it.
Drained(X) ==
  /\ inbox' = [x \in Conn |-> IF x \in X THEN 0 ELSE inbox[x]]
  /\ tail' = [x \in Conn |-> IF x \in X THEN "none" ELSE tail[x]]
  /\ asked' = [x \in Conn |-> IF x \in X THEN 0 ELSE asked[x]]
  /\ answered' = [x \in Conn |-> IF x \in X THEN 0 ELSE answered[x]]

\* close(): if the client sent more than was received, the kernel resets the
\* connection and what the client has not read may be lost.
CloseSocket(x, out) ==
  /\ sock' = [sock EXCEPT ![x] = "closed"]
  /\ \/ outbox' = out
     \/ (inbox[x] > 0 \/ tail[x] = "wire") /\ outbox' = [out EXCEPT ![x] = 0]
  /\ Drained({x})

\* accept fails, or the new socket cannot be configured and is closed: run
\* joins its workers and returns the error.
AcceptFails ==
  /\ "accept" \in Faults
  /\ main = "accept"
  /\ main' = "joinAll"
  /\ \/ UNCHANGED <<backlog, sock, outbox, tail, inbox, asked, answered>>
     \/ /\ backlog # <<>>
        /\ backlog' = Tail(backlog)
        /\ CloseSocket(Head(backlog), outbox)
  /\ UNCHANGED <<scan, newest, stop, active, workers, finished,
                 phase, buf, idle, left, peer>>

\* Mutant: one worker too many.
AdmitOneMore ==
  /\ main = "admit"
  /\ active <= MaxClientWorkers
  /\ active' = active + 1
  /\ workers' = workers \cup {newest}
  /\ phase' = [phase EXCEPT ![newest] = "check"]
  /\ newest' = NoConn
  /\ main' = "check"
  /\ UNCHANGED <<scan, stop, finished, buf, tail, idle, left, network>>

\* hasWorkerCapacity: count the worker and start its thread.
Admit ==
  /\ main = "admit"
  /\ active < MaxClientWorkers
  /\ active' = active + 1
  /\ workers' = workers \cup {newest}
  /\ phase' = [phase EXCEPT ![newest] = "check"]
  /\ newest' = NoConn
  /\ main' = "check"
  /\ UNCHANGED <<scan, stop, finished, buf, tail, idle, left, network>>

\* No capacity: send the error response to the fresh socket and close it.
RejectClient ==
  /\ main = "admit"
  /\ active >= MaxClientWorkers
  /\ CloseSocket(newest, IF Held(newest) THEN [outbox EXCEPT ![newest] = 1] ELSE outbox)
  /\ newest' = NoConn
  /\ main' = "check"
  /\ UNCHANGED <<scan, stop, active, workers, finished,
                 phase, buf, idle, left, backlog, peer>>

JoinWorker(x) ==
  /\ main = "joinAll" /\ x \in workers
  /\ Joined(x)
  /\ scan' = {}
  /\ UNCHANGED <<main, newest, stop, active, network>>

\* Mutant: run returns without joining its workers.
ReturnUnjoined ==
  /\ main = "joinAll"
  /\ main' = "returned"
  /\ backlog' = <<>>
  /\ sock' = [x \in Conn |-> IF sock[x] = "backlog" THEN "closed" ELSE sock[x]]
  /\ Drained({x \in Conn : sock[x] = "backlog"})
  /\ UNCHANGED <<scan, newest, stop, active, workers, finished,
                 phase, buf, idle, left, peer, outbox>>

\* All joined: run returns, the listening socket closes with its backlog.
Return ==
  /\ main = "joinAll" /\ workers = {}
  /\ main' = "returned"
  /\ backlog' = <<>>
  /\ sock' = [x \in Conn |-> IF sock[x] = "backlog" THEN "closed" ELSE sock[x]]
  /\ Drained({x \in Conn : sock[x] = "backlog"})
  /\ UNCHANGED <<scan, newest, stop, active, workers, finished,
                 phase, buf, idle, left, peer, outbox>>

-----------------------------------------------------------------------------
(* A worker thread: serveClient and the end of the thread *)

Go(x, p) == phase' = [phase EXCEPT ![x] = p]

\* serveClient goes on at p.
Continue(x, p) == Go(x, p) /\ UNCHANGED <<buf, tail, left>>

\* serveClient returns: pendingInput and lastActivity are gone.
Leave(x, why) ==
  /\ Go(x, "dec")
  /\ left' = [left EXCEPT ![x] = why]
  /\ buf' = [buf EXCEPT ![x] = 0]
  /\ tail' = [tail EXCEPT ![x] = IF @ = "read" THEN "none" ELSE @]
  /\ idle' = [idle EXCEPT ![x] = 0]

NoInput(x) == inbox[x] = 0 /\ tail[x] # "wire"

\* Seconds since lastActivity after one more.
Waited(x) == IF idle[x] < IdleTimeout THEN idle[x] + 1 ELSE IdleTimeout

\* while (!isStopRequested)
WorkerCheck(x) ==
  /\ phase[x] = "check"
  /\ \/ stop /\ Leave(x, "stop")
     \/ ~stop /\ Continue(x, "recv") /\ UNCHANGED idle
  /\ UNCHANGED <<server, network>>

\* recv returns some of what has arrived; lastActivity is now.
RecvData(x) ==
  /\ phase[x] = "recv" /\ ~NoInput(x)
  /\ \E n \in 0..inbox[x] :
       /\ n = 0 => inbox[x] = 0
       /\ buf' = [buf EXCEPT ![x] = n]
       /\ inbox' = [inbox EXCEPT ![x] = @ - n]
       /\ tail' = [tail EXCEPT ![x] = IF @ = "wire" /\ n = inbox[x] THEN "read" ELSE @]
  /\ idle' = [idle EXCEPT ![x] = 0]
  /\ Go(x, "process")
  /\ UNCHANGED <<server, left, backlog, sock, peer, outbox, asked, answered>>

\* Mutant: a silent client is never disconnected.
RecvTimeoutForever(x) ==
  /\ phase[x] = "recv" /\ NoInput(x) /\ peer[x] = "open"
  /\ \/ stop /\ Leave(x, "stop")
     \/ ~stop /\ idle' = [idle EXCEPT ![x] = Waited(x)] /\ Continue(x, "check")
  /\ UNCHANGED <<server, network>>

\* A second without input (or EINTR): stop, or idle for too long, or go on.
RecvTimeout(x) ==
  /\ phase[x] = "recv" /\ NoInput(x) /\ peer[x] = "open"
  /\ \/ stop /\ Leave(x, "stop")
     \/ ~stop /\ Waited(x) = IdleTimeout /\ Leave(x, "idle")
     \/ /\ ~stop /\ Waited(x) < IdleTimeout
        /\ idle' = [idle EXCEPT ![x] = Waited(x)]
        /\ Continue(x, "check")
  /\ UNCHANGED <<server, network>>

\* Mutant: what is left in pendingInput at the end is dropped.
RecvEndDropsLine(x) ==
  /\ phase[x] = "recv" /\ NoInput(x) /\ peer[x] \in {"half", "gone"}
  /\ Leave(x, "eof")
  /\ UNCHANGED <<server, network>>

\* recv returns 0, the end of input: what is left in pendingInput is a last
\* line, and is executed unless the flag is set.
RecvEnd(x) ==
  /\ phase[x] = "recv" /\ NoInput(x) /\ peer[x] \in {"half", "gone"}
  /\ \/ /\ tail[x] = "read" /\ ~stop
        /\ tail' = [tail EXCEPT ![x] = "none"]
        /\ Go(x, "sendFinal")
        /\ UNCHANGED <<buf, idle, left>>
     \/ (tail[x] # "read" \/ stop) /\ Leave(x, "eof")
  /\ UNCHANGED <<server, network>>

\* The client is gone and its reset arrived first.
RecvError(x) ==
  /\ phase[x] = "recv" /\ peer[x] = "gone"
  /\ Leave(x, "error")
  /\ UNCHANGED <<server, network>>

\* processBufferedLines: execute the next line, without looking at the flag.
ProcessLine(x) ==
  /\ phase[x] = "process"
  /\ \/ buf[x] > 0 /\ buf' = [buf EXCEPT ![x] = @ - 1] /\ Go(x, "send")
     \/ buf[x] = 0 /\ UNCHANGED buf /\ Go(x, "check")
  /\ UNCHANGED <<server, tail, idle, left, network>>

AfterSend(x) ==
  \/ phase[x] = "send" /\ Continue(x, "process") /\ UNCHANGED idle
  \/ phase[x] = "sendFinal" /\ Leave(x, "eof")

\* sendAll: the response fits in the socket, or the client is no longer there.
SendResponse(x) ==
  /\ phase[x] \in {"send", "sendFinal"}
  /\ \/ /\ peer[x] # "gone" /\ outbox[x] < SocketBuffer
        /\ outbox' = [outbox EXCEPT ![x] = @ + 1]
     \/ peer[x] = "gone" /\ UNCHANGED outbox
  /\ answered' = [answered EXCEPT ![x] = @ + 1]
  /\ AfterSend(x)
  /\ UNCHANGED <<server, backlog, sock, peer, inbox, asked>>

\* Mutant: sendAll does not look at the flag while it waits.
SendBlockedForever(x) ==
  /\ phase[x] \in {"send", "sendFinal"}
  /\ peer[x] # "gone" /\ outbox[x] = SocketBuffer
  /\ idle' = [idle EXCEPT ![x] = Waited(x)]
  /\ UNCHANGED <<server, phase, buf, tail, left, network>>

\* sendAll: a second without progress: try again, but on stop report success
\* without having sent the response.
SendBlocked(x) ==
  /\ phase[x] \in {"send", "sendFinal"}
  /\ peer[x] # "gone" /\ outbox[x] = SocketBuffer
  /\ \/ stop /\ AfterSend(x)
     \/ /\ ~stop
        /\ idle' = [idle EXCEPT ![x] = Waited(x)]
        /\ UNCHANGED <<phase, buf, tail, left>>
  /\ UNCHANGED <<server, network>>

SendFails(x) ==
  /\ phase[x] \in {"send", "sendFinal"}
  /\ peer[x] = "gone"
  /\ Leave(x, "error")
  /\ UNCHANGED <<server, network>>

\* Mutant: the socket is closed before the worker gives its slot back.
DecrementAfterClose(x) ==
  /\ phase[x] = "dec"
  /\ \/ /\ sock[x] = "accepted"
        /\ CloseSocket(x, outbox)
        /\ UNCHANGED <<active, phase>>
     \/ /\ sock[x] = "closed"
        /\ active' = active - 1
        /\ Go(x, "finish")
        /\ UNCHANGED <<sock, tail, inbox, outbox, asked, answered>>
  /\ UNCHANGED <<main, scan, newest, stop, workers, finished, buf, idle,
                 left, backlog, peer>>

\* Mutant: the slot is never given back.
DecrementForgotten(x) ==
  /\ phase[x] = "dec"
  /\ Go(x, "finish")
  /\ UNCHANGED <<server, buf, tail, idle, left, network>>

\* activeClientWorkers.fetch_sub
Decrement(x) ==
  /\ phase[x] = "dec"
  /\ active' = active - 1
  /\ Go(x, "finish")
  /\ UNCHANGED <<main, scan, newest, stop, workers, finished,
                 buf, tail, idle, left, network>>

\* finished->store
Finish(x) ==
  /\ phase[x] = "finish"
  /\ finished' = finished \cup {x}
  /\ Go(x, "close")
  /\ UNCHANGED <<main, scan, newest, stop, active, workers,
                 buf, tail, idle, left, network>>

\* The lambda is destroyed, and the UniqueFd it captured with it.
CloseClient(x) ==
  /\ phase[x] = "close"
  /\ CloseSocket(x, outbox)
  /\ Go(x, "exited")
  /\ left' = [left EXCEPT ![x] = "no"]
  /\ UNCHANGED <<server, buf, idle, backlog, peer>>

-----------------------------------------------------------------------------
Client(x) ==
  \/ Connect(x) \/ SendLine(x) \/ HalfClose(x) \/ ReadResponse(x)
  \/ SeeEnd(x)  \/ Quit(x)     \/ Forget(x)

Main ==
  \/ LoopCheck \/ EnterAccept \/ Accept \/ Admit \/ RejectClient \/ Return
  \/ \E x \in Conn : Reap(x) \/ JoinWorker(x)

Worker(x) ==
  \/ WorkerCheck(x) \/ RecvData(x) \/ RecvTimeout(x) \/ RecvEnd(x) \/ RecvError(x)
  \/ ProcessLine(x)
  \/ SendResponse(x) \/ SendBlocked(x) \/ SendFails(x)
  \/ Decrement(x) \/ Finish(x) \/ CloseClient(x)

Next ==
  \/ Main \/ AcceptFails \/ Signal
  \/ \E x \in Conn : Client(x) \/ Worker(x)

Spec == Init /\ [][Next]_vars

\* The threads of the server keep running; nobody has to connect, send, read or
\* signal anything.
ServerFair == Spec /\ WF_vars(Main) /\ \A x \in Conn : WF_vars(Worker(x))

\* Clients read what the server sends them.
Reading == \A x \in Conn : WF_vars(ReadResponse(x))

-----------------------------------------------------------------------------
(* Properties *)

\* activeClientWorkers is the number of threads in serveClient or just out of
\* it, and main starts none above maxClientWorkers: main counts a worker up
\* before its thread starts and each thread counts itself down once, with no
\* lock around the test.
SlotsExact ==
  /\ active = Cardinality({x \in Conn : phase[x] \in Serving})
  /\ active <= MaxClientWorkers

\* The client to be rejected, those that are connected, and those that have gone
\* and whose socket the server still has.
Present == {x \in Conn : \/ x = newest \/ Held(x)
                         \/ phase[x] \in Serving /\ sock[x] = "accepted"}

\* Nobody is rejected while there is room: at a rejection the one to reject and
\* the clients that are connected are more than the slots, counting among them
\* those that have gone and whose socket the server still has.  A worker gives
\* its slot back before its client can see the close and connect again.
RejectedForCause ==
  main = "admit" /\ active >= MaxClientWorkers => Cardinality(Present) > MaxClientWorkers

\* When run has returned no worker thread is left that could still use the
\* pipeline, the storage engine or the counter, and no client is connected.
ReturnedQuiet ==
  main = "returned" =>
    \A x \in Conn : phase[x] = "none" /\ sock[x] \in {"none", "closed"}

\* A connection that the worker left at the end of its input had a response to
\* every line, the unterminated last one too, unless the server was stopped.
AnsweredBeforeEof ==
  \A x \in Conn : left[x] = "eof" /\ ~stop => answered[x] = asked[x]

\* If clients read their responses every connection ends at some time, with
\* their input or by the idle timeout: no slot is held for ever.
ConnectionEnds ==
  Reading => \A x \in Conn : sock[x] = "accepted" ~> sock[x] # "accepted"

\* When run leaves its loop, after an accept failure too (when no flag tells the
\* workers to stop), it gets all workers joined and returns.
JoinCompletes == Reading => (main = "joinAll" ~> main = "returned")

\* The same after a stop even if no client ever reads: a worker that waits in
\* send looks at the flag.
StopCompletes == main = "joinAll" /\ stop ~> main = "returned"

\* A client that connects is accepted or rejected whatever the other clients
\* do or fail to do, or the accept loop ends: joinFinishedClientWorkers waits
\* for no worker that still serves.
BacklogServed ==
  \A x \in Conn : sock[x] = "backlog" ~> sock[x] # "backlog" \/ main = "joinAll"
-----------------------------------------------------------------------------
(* Why the properties hold: the invariants the proofs are built on *)

\* A connection has a slot exactly while it has a thread, a finished one
\* exactly when its thread is past the store of the flag, and the counter is
\* the number of threads that have not decremented it.
SlotInv ==
  /\ \A x \in Conn : x \in workers <=> phase[x] # "none"
  /\ \A x \in Conn : x \in finished <=> phase[x] \in {"close", "exited"}
  /\ SlotsExact
  /\ main = "returned" => workers = {}

\* Who owns a socket: the queue of the kernel, the main thread between accept
\* and its decision, or one worker until it has exited.
SocketInv ==
  /\ main = "admit" <=> newest # NoConn
  /\ \A x \in Conn : phase[x] = "exited" => sock[x] = "closed"
  /\ \A x \in Conn :
       sock[x] = "accepted" <=> x = newest \/ phase[x] \notin {"none", "exited"}
  /\ \A x \in Conn : x = newest => phase[x] = "none"
  /\ \A x \in Conn : sock[x] = "backlog" <=> \E i \in 1..Len(backlog) : backlog[i] = x
  /\ \A i, j \in 1..Len(backlog) : backlog[i] = backlog[j] => i = j
  /\ main = "returned" => backlog = <<>>

\* Lines of the connection that are on their way through the server, with
\* those that are answered.
Known(x) ==
  answered[x] + inbox[x] + buf[x] + (IF tail[x] = "none" THEN 0 ELSE 1)
              + (IF phase[x] \in {"send", "sendFinal"} THEN 1 ELSE 0)

\* No line is lost or made up while a worker serves and the flag is not set.
LinesOf(x) ==
  /\ sock[x] \in {"none", "closed"} =>
       asked[x] = 0 /\ answered[x] = 0 /\ inbox[x] = 0 /\ tail[x] = "none"
  /\ sock[x] = "none" => peer[x] = "none"
  /\ peer[x] = "open" => asked[x] <= Lines /\ tail[x] = "none"
  /\ buf[x] # 0 => phase[x] \in {"process", "send"}
  /\ phase[x] = "sendFinal" => inbox[x] = 0 /\ tail[x] = "none" /\ peer[x] # "open"
  /\ left[x] # "no" <=> phase[x] \in {"dec", "finish", "close"}
  /\ Known(x) <= asked[x]
  /\ left[x] = "no" /\ ~stop => Known(x) = asked[x]
  /\ left[x] = "eof" => peer[x] # "open" /\ (~stop => answered[x] = asked[x])

LinesInv == \A x \in Conn : LinesOf(x)
=============================================================================
