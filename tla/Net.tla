-------------------------------- MODULE Net --------------------------------
(***************************************************************************)
(* net (src/src/modules/net/NetModule.cpp): a Server or a client Socket,   *)
(* each with a thread of its own that blocks in accept() or recv()         *)
(* and posts what it sees to the event loop.  close() and destroy() close  *)
(* the descriptor and join that thread while JavaScript waits.  The kernel *)
(* does not wake a thread blocked on a descriptor another thread closes:   *)
(* accept() and recv() return when a peer connects, sends or hangs up.     *)
(*                                                                         *)
(* Assigning to a std::thread that is joinable, and destroying one, calls  *)
(* std::terminate().  Using freed data, or the runtime of the main thread  *)
(* from another thread while it runs JavaScript, is undefined: the process *)
(* goes on or crashes.                                                     *)
(*                                                                         *)
(* Left out: addresses and ports, the reference counts of the emitters,    *)
(* calls that throw before they change anything, and the methods of the    *)
(* sockets a server accepts, which have no prototype in their own context. *)
(***************************************************************************)
EXTENDS Naturals, Sequences

CONSTANTS
    MaxPeers,       \* bound: connections peers open to the server
    MaxChunks,      \* bound: chunks the peer of the socket sends
    MaxConnects     \* bound: successful connect() calls

VARIABLES
    server,         \* NetServerData
    socket,         \* NetSocketData of the client socket
    peers,          \* connections to the server: opened in all, waiting for
                    \* accept(), and accepted with a read thread in its loop
    wire,           \* what recv() of the client socket will return
    netMain,        \* where the main thread is
    leaving,        \* main() left its loop: the runtime is being freed
    netQueue,       \* callbacks posted to the event loop
    heard,          \* events the emitter of the client socket emitted
    reused,         \* listen() on a closed server, or a second connect()
    netFate

threadVars == <<peers, wire>>
vars == <<server, socket, threadVars, netMain, leaving, netQueue, heard,
          reused, netFate>>

SocketEvent == {"connect", "data", "end"}
Life == {"none", "live", "finalizing", "freed"}

NetServerData ==
    [life : Life, listening : BOOLEAN, closed : BOOLEAN, fd : BOOLEAN,
     listener : BOOLEAN, late : Nat,
     thread : {"none", "test", "call", "accept", "failed", "serve", "ended"}]
NetSocketData ==
    [life : Life, connected : BOOLEAN, destroyed : BOOLEAN, fd : BOOLEAN,
     shut : BOOLEAN,
     thread : {"none", "test", "call", "recv", "emit", "last", "ended"}]
Peers == [opened : 0..MaxPeers, waiting : Nat, reading : Nat]
Wire  == [chunks : Nat, sent : 0..MaxChunks, fin : BOOLEAN,
          connects : 0..MaxConnects]

TypeOK ==
    /\ server \in NetServerData /\ socket \in NetSocketData
    /\ peers \in Peers /\ wire \in Wire
    /\ netMain \in {"js", "idle", "listen", "connect", "write",
                    "joinServer", "joinSocket"}
    /\ leaving \in BOOLEAN /\ reused \in BOOLEAN
    /\ netQueue \in Seq(SocketEvent \cup {"connection"})
    /\ heard \in Seq(SocketEvent)
    /\ netFate \in {"alive", "crashed", "terminated", "killed", "gone"}

Start ==
    /\ server = [life |-> "none", listening |-> FALSE, closed |-> FALSE,
                 fd |-> FALSE, listener |-> FALSE, late |-> 0,
                 thread |-> "none"]
    /\ socket = [life |-> "none", connected |-> FALSE, destroyed |-> FALSE,
                 fd |-> FALSE, shut |-> FALSE, thread |-> "none"]
    /\ peers = [opened |-> 0, waiting |-> 0, reading |-> 0]
    /\ wire = [chunks |-> 0, sent |-> 0, fin |-> FALSE, connects |-> 0]
    /\ netMain = "js" /\ leaving = FALSE
    /\ netQueue = << >> /\ heard = << >>
    /\ reused = FALSE

Init == Start /\ netFate = "alive"

\* A step of a live process, which may crash if cond makes it undefined.
Undefined(cond) ==
    /\ netFate = "alive"
    /\ netFate' \in IF cond THEN {"alive", "crashed"} ELSE {"alive"}

Defined == Undefined(FALSE)

Terminated == netFate = "alive" /\ netFate' = "terminated"

Post(e) == netQueue' = Append(netQueue, e)

Script == netMain = "js" /\ ~leaving

\* Bound: a script creates a server or a client socket.  They share nothing
\* but the main thread.
OneObject == server.life = "none" /\ socket.life = "none"

-----------------------------------------------------------------------------
(* The server: operations of the main thread                               *)

createServer ==
    /\ Script /\ Defined
    /\ OneObject
    /\ \E l \in BOOLEAN :
        server' = [server EXCEPT !.life = "live", !.listener = l]
    /\ UNCHANGED <<socket, threadVars, netMain, leaving, netQueue, heard, reused>>

\* The test for a server that listens already; the main thread then waits
\* for the I/O pool to create, bind and listen on the descriptor.
serverListen ==
    /\ Script /\ Defined
    /\ server.life = "live" /\ ~server.listening
    /\ netMain' = "listen"
    /\ reused' = (reused \/ server.closed)
    /\ UNCHANGED <<server, socket, threadVars, leaving, netQueue, heard>>

serverSocketFails ==
    /\ netMain = "listen" /\ Defined
    /\ netMain' = "js"
    /\ UNCHANGED <<server, socket, threadVars, leaving, netQueue, heard, reused>>

startAcceptThread ==
    /\ netMain = "listen"
    /\ IF server.thread = "none" THEN Defined ELSE Terminated
    /\ server' = [server EXCEPT !.fd = TRUE, !.listening = TRUE,
                                !.thread = "test"]
    /\ netMain' = "js"
    /\ UNCHANGED <<socket, threadVars, leaving, netQueue, heard, reused>>

\* NetServerData::close() up to the join.  It does nothing the second time;
\* the finalizer calls it from the destructor, which then destroys a thread.
closeServer(last) ==
    /\ netMain = "js" /\ (last \/ ~leaving)
    /\ server.life = "live"
    /\ IF server.closed
       THEN /\ last
            /\ server' = [server EXCEPT !.life = "freed"]
            /\ IF server.thread = "none" THEN Defined ELSE Terminated
            /\ UNCHANGED netMain
       ELSE /\ server' = [server EXCEPT !.closed = TRUE, !.fd = FALSE,
                              !.listening = FALSE,
                              !.life = IF last THEN "finalizing" ELSE "live"]
            /\ Defined
            /\ netMain' = "joinServer"
    /\ UNCHANGED <<socket, threadVars, leaving, netQueue, heard, reused>>

serverClose == closeServer(FALSE)

ServerFinalizer == closeServer(TRUE)

\* Slip: close() does not wait for the accept thread.
joinAcceptThreadNot ==
    /\ netMain = "joinServer" /\ Defined
    /\ server' = [server EXCEPT !.life = IF @ = "live" THEN "live" ELSE "freed"]
    /\ netMain' = "js"
    /\ UNCHANGED <<socket, threadVars, leaving, netQueue, heard, reused>>

\* The join at the end of close().
joinAcceptThread ==
    /\ netMain = "joinServer" /\ Defined
    /\ server.thread \in {"none", "ended"}
    /\ server' = [server EXCEPT !.thread = "none",
                      !.life = IF @ = "live" THEN "live" ELSE "freed"]
    /\ netMain' = "js"
    /\ UNCHANGED <<socket, threadVars, leaving, netQueue, heard, reused>>

-----------------------------------------------------------------------------
(* The accept thread                                                       *)

acceptVars == <<socket, wire, netMain, leaving, heard, reused>>

Serving == server.listening /\ ~server.closed

\* The condition of the loop, and the descriptor accept() is called with.
acceptLoopTest ==
    /\ Defined
    /\ \/ /\ server.thread = "test"
          /\ server' = [server EXCEPT !.thread =
                            IF Serving THEN "call" ELSE "ended"]
       \/ /\ server.thread = "call"
          /\ server' = [server EXCEPT !.thread =
                            IF server.fd THEN "accept" ELSE "failed"]
    /\ UNCHANGED <<acceptVars, peers, netQueue>>

acceptConnection ==
    /\ server.thread = "accept" /\ Defined
    /\ peers.waiting > 0
    /\ peers' = [peers EXCEPT !.waiting = @ - 1]
    /\ server' = [server EXCEPT !.thread = "serve",
                      !.late = IF server.closed THEN @ + 1 ELSE @]
    /\ UNCHANGED <<acceptVars, netQueue>>

\* Slip: the loop goes on after every error.
acceptErrorContinues ==
    /\ server.thread \in {"accept", "failed"} /\ Defined
    /\ server' = [server EXCEPT !.thread = "call"]
    /\ UNCHANGED <<acceptVars, peers, netQueue>>

acceptError ==
    /\ server.thread \in {"accept", "failed"} /\ Defined
    /\ server' = [server EXCEPT !.thread =
                      IF Serving THEN "test" ELSE "ended"]
    /\ UNCHANGED <<acceptVars, peers, netQueue>>

\* A context and a socket object in the main runtime, a read thread, and a
\* callback for the connection listener.
serveConnection ==
    /\ server.thread = "serve"
    /\ Undefined(netMain = "js")
    /\ peers' = [peers EXCEPT !.reading = @ + 1]
    /\ server' = [server EXCEPT !.thread = "test"]
    /\ IF server.listener THEN Post("connection") ELSE UNCHANGED netQueue
    /\ UNCHANGED acceptVars

\* The read thread of an accepted socket drops what it receives, for that
\* socket has no emitter, and ends when recv() fails or the peer hangs up.
acceptedSocketEnds ==
    /\ peers.reading > 0 /\ Defined
    /\ peers' = [peers EXCEPT !.reading = @ - 1]
    /\ UNCHANGED <<acceptVars, server, netQueue>>

\* A descriptor some accept() uses takes connections although it was closed.
PeerConnects ==
    /\ Defined
    /\ server.fd \/ server.thread = "accept"
    /\ peers.opened < MaxPeers
    /\ peers' = [peers EXCEPT !.opened = @ + 1, !.waiting = @ + 1]
    /\ UNCHANGED <<acceptVars, server, netQueue>>

-----------------------------------------------------------------------------
(* The client socket: operations of the main thread                        *)

sockVars == <<server, peers, leaving, heard>>

createConnection ==
    /\ Script /\ Defined
    /\ OneObject
    /\ socket' = [socket EXCEPT !.life = "live"]
    /\ UNCHANGED <<sockVars, wire, netMain, netQueue, reused>>

socketConnect ==
    /\ Script /\ Defined
    /\ socket.life = "live" /\ ~socket.connected
    /\ wire.connects < MaxConnects
    /\ netMain' = "connect"
    /\ reused' = (reused \/ socket.thread # "none" \/ socket.destroyed)
    /\ UNCHANGED <<sockVars, socket, wire, netQueue>>

connectFails ==
    /\ netMain = "connect" /\ Defined
    /\ netMain' = "js"
    /\ UNCHANGED <<sockVars, socket, wire, netQueue, reused>>

\* The connect event is posted before the read thread starts.
startReadThread ==
    /\ netMain = "connect"
    /\ IF socket.thread = "none" THEN Defined ELSE Terminated
    /\ socket' = [socket EXCEPT !.fd = TRUE, !.connected = TRUE,
                                !.shut = FALSE, !.thread = "test"]
    /\ wire' = [wire EXCEPT !.chunks = 0, !.fin = FALSE, !.connects = @ + 1]
    /\ Post("connect")
    /\ netMain' = "js"
    /\ UNCHANGED <<sockVars, reused>>

\* write() hands the bytes to the I/O pool and waits for send().
socketWrite ==
    /\ Script /\ Defined
    /\ socket.life = "live" /\ socket.connected
    /\ netMain' = "write"
    /\ UNCHANGED <<sockVars, socket, wire, netQueue, reused>>

\* Nothing ignores SIGPIPE, which send() raises after end(), and may raise
\* after the peer hung up.
sendReturns ==
    /\ netMain = "write" /\ netFate = "alive"
    /\ netFate' \in IF socket.shut THEN {"killed"}
                    ELSE IF wire.fin THEN {"alive", "killed"} ELSE {"alive"}
    /\ netMain' = "js"
    /\ UNCHANGED <<sockVars, socket, wire, netQueue, reused>>

\* end() shuts the write side down, after a write() if it has data.
socketEnd ==
    /\ Script /\ Defined
    /\ socket.life = "live" /\ socket.connected /\ socket.fd
    /\ socket' = [socket EXCEPT !.shut = TRUE]
    /\ UNCHANGED <<sockVars, wire, netMain, netQueue, reused>>

\* NetSocketData::destroy() up to the join, and its caller the destructor.
destroy(last) ==
    /\ netMain = "js" /\ (last \/ ~leaving)
    /\ socket.life = "live"
    /\ IF socket.destroyed
       THEN /\ last
            /\ socket' = [socket EXCEPT !.life = "freed"]
            /\ IF socket.thread = "none" THEN Defined ELSE Terminated
            /\ UNCHANGED netMain
       ELSE /\ socket' = [socket EXCEPT !.destroyed = TRUE, !.fd = FALSE,
                              !.connected = FALSE,
                              !.life = IF last THEN "finalizing" ELSE "live"]
            /\ Defined
            /\ netMain' = "joinSocket"
    /\ UNCHANGED <<sockVars, wire, netQueue, reused>>

socketDestroy == destroy(FALSE)

SocketFinalizer == destroy(TRUE)

joinReadThread ==
    /\ netMain = "joinSocket" /\ Defined
    /\ socket.thread \in {"none", "ended"}
    /\ socket' = [socket EXCEPT !.thread = "none",
                      !.life = IF @ = "live" THEN "live" ELSE "freed"]
    /\ netMain' = "js"
    /\ UNCHANGED <<sockVars, wire, netQueue, reused>>

-----------------------------------------------------------------------------
(* The read thread of the client socket, and its peer                      *)

readVars == <<server, peers, netMain, leaving, heard, reused>>

readLoopTest ==
    /\ Defined
    /\ \/ /\ socket.thread = "test"
          /\ socket' = [socket EXCEPT !.thread =
                 IF socket.connected /\ ~socket.destroyed THEN "call" ELSE "last"]
       \/ /\ socket.thread = "call" /\ socket.fd
          /\ socket' = [socket EXCEPT !.thread = "recv"]
    /\ UNCHANGED <<readVars, wire, netQueue>>

recvData ==
    /\ socket.thread = "recv" /\ wire.chunks > 0 /\ Defined
    /\ wire' = [wire EXCEPT !.chunks = @ - 1]
    /\ socket' = [socket EXCEPT !.thread = "emit"]
    /\ UNCHANGED <<readVars, netQueue>>

\* End of stream, an error, or a descriptor that is already closed.
recvEnds ==
    /\ Defined
    /\ \/ socket.thread = "recv" /\ wire.chunks = 0 /\ wire.fin
       \/ socket.thread = "call" /\ ~socket.fd
    /\ socket' = [socket EXCEPT !.connected = FALSE, !.thread = "last"]
    /\ UNCHANGED <<readVars, wire, netQueue>>

\* The values of the event are made on this thread.
emitData ==
    /\ socket.thread = "emit"
    /\ Undefined(netMain = "js")
    /\ Post("data")
    /\ socket' = [socket EXCEPT !.thread = "test"]
    /\ UNCHANGED <<readVars, wire>>

emitEnd ==
    /\ socket.thread = "last" /\ Defined
    /\ Post("end")
    /\ socket' = [socket EXCEPT !.thread = "ended"]
    /\ UNCHANGED <<readVars, wire>>

PeerSends ==
    /\ socket.connected \/ socket.thread = "recv"
    /\ Defined
    /\ ~wire.fin
    /\ \/ /\ wire.sent < MaxChunks
          /\ wire' = [wire EXCEPT !.chunks = @ + 1, !.sent = @ + 1]
       \/ wire' = [wire EXCEPT !.fin = TRUE]
    /\ UNCHANGED <<readVars, socket, netQueue>>

-----------------------------------------------------------------------------
(* The main thread between calls, and the whole                            *)

\* JavaScript returns to the event loop.
Return ==
    /\ Script /\ Defined
    /\ netMain' = "idle"
    /\ UNCHANGED <<server, socket, threadVars, leaving, netQueue, heard, reused>>

\* A callback runs: listeners of the emitter, or the connection listener.
\* Both go through data, which the finalizer may have freed.
Deliver ==
    /\ netMain = "idle" /\ ~leaving
    /\ netQueue # << >>
    /\ LET e == Head(netQueue)
       IN  /\ Undefined(IF e = "connection" THEN server.life = "freed"
                                            ELSE socket.life = "freed")
           /\ heard' = IF e = "connection" THEN heard ELSE Append(heard, e)
    /\ netQueue' = Tail(netQueue)
    /\ netMain' = "js"
    /\ UNCHANGED <<server, socket, threadVars, leaving, reused>>

\* main() leaves when the queue is empty, whatever its sockets wait for, and
\* freeing the runtime runs the finalizers.
Leave ==
    /\ netMain = "idle" /\ netQueue = << >> /\ Defined
    /\ leaving' = TRUE
    /\ netMain' = "js"
    /\ UNCHANGED <<server, socket, threadVars, netQueue, heard, reused>>

Gone ==
    /\ leaving /\ netMain = "js"
    /\ server.life \in {"none", "freed"} /\ socket.life \in {"none", "freed"}
    /\ netFate = "alive" /\ netFate' = "gone"
    /\ UNCHANGED <<server, socket, threadVars, netMain, leaving, netQueue,
                   heard, reused>>

ServerStep ==
    \/ createServer \/ serverListen \/ serverSocketFails
    \/ startAcceptThread \/ serverClose \/ ServerFinalizer \/ joinAcceptThread
AcceptStep ==
    \/ acceptLoopTest \/ acceptConnection \/ acceptError \/ serveConnection
    \/ acceptedSocketEnds
SocketStep ==
    \/ createConnection \/ socketConnect \/ connectFails \/ startReadThread
    \/ socketWrite \/ sendReturns \/ socketEnd
    \/ socketDestroy \/ SocketFinalizer \/ joinReadThread
ReadStep ==
    readLoopTest \/ recvData \/ recvEnds \/ emitData \/ emitEnd
MainStep == Return \/ Deliver \/ Leave \/ Gone

Next ==
    \/ ServerStep \/ AcceptStep \/ SocketStep \/ ReadStep \/ MainStep
    \/ PeerConnects \/ PeerSends

\* The scheduler runs both threads; nothing makes a peer do anything.
Fairness ==
    /\ WF_vars(acceptLoopTest \/ acceptConnection \/ serveConnection
               \/ (server.thread = "failed" /\ acceptError))
    /\ WF_vars(ReadStep)
    /\ WF_vars(joinAcceptThread \/ joinReadThread)

Spec == Init /\ [][Next]_vars /\ Fairness

-----------------------------------------------------------------------------
(* Properties                                                              *)

\* What the emitter of a client socket sees, and will see, is a connect event,
\* data events and one end event, and the same again for each later connect().
EventsInOrder ==
    LET w == heard \o netQueue
        Mine == {i \in DOMAIN w : w[i] # "connection"}
        Before(j, i) == j < i /\ \A k \in Mine : k < i => k <= j
    IN  netFate = "alive" =>
        \A i \in Mine :
            (w[i] = "connect") = \A j \in Mine : Before(j, i) => w[j] = "end"

\* The process is terminated only if the script listens on a closed server
\* or connects a socket that had a connection before.
TerminateOnlyOnReuse == netFate = "terminated" => reused

\* Once close() started, at most one more connection is taken.
AtMostOneLate == server.late <= 1

Safety == EventsInOrder /\ TerminateOnlyOnReuse /\ AtMostOneLate

\* close() returns if the accept thread is not blocked or a peer connects;
\* destroy() if the read thread is not blocked or the peer sends or hangs up.
CloseReturns ==
    /\ (netMain = "joinServer"
            /\ (server.thread # "accept" \/ peers.waiting > 0))
       ~> (netMain # "joinServer" \/ netFate # "alive")
    /\ (netMain = "joinSocket"
            /\ (socket.thread # "recv" \/ wire.chunks > 0 \/ wire.fin))
       ~> (netMain # "joinSocket" \/ netFate # "alive")

=============================================================================
