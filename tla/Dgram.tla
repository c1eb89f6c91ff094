------------------------------- MODULE Dgram -------------------------------
(***************************************************************************)
(* dgram (src/src/modules/dgram/DgramModule.cpp): a UDP socket whose       *)
(* receive thread posts one message event per datagram.  As in net, the    *)
(* kernel does not wake a recvfrom() whose descriptor is closed, close()   *)
(* joins that thread while JavaScript waits, and the callbacks go through  *)
(* data that the finalizer may have freed.                                 *)
(*                                                                         *)
(* A datagram is a number, in the order of sending.  The network loses     *)
(* datagrams and delivers them in any order.  Left out: addresses, socket  *)
(* options, reference counts, and calls that throw before they change      *)
(* anything.                                                               *)
(***************************************************************************)
EXTENDS Naturals, Sequences

CONSTANT MaxDatagrams   \* bound: datagrams sent to the socket

VARIABLES
    udp,        \* DgramSocketData
    flying,     \* datagrams in the network or in the receive buffer
    datagrams,  \* datagrams sent so far
    taken,      \* the datagram in the buffer of the thread, and the number
                \* of datagrams it took after close() began
    udpMain,    \* "js", "idle", "send", "join" or "exit" while freeing
    udpQueue,   \* message callbacks
    messages,   \* datagrams whose message event was emitted
    udpFate

network == <<flying, datagrams>>
vars == <<udp, network, taken, udpMain, udpQueue, messages, udpFate>>

TypeOK ==
    /\ udp \in [life : {"none", "live", "finalizing", "freed"},
                bound : BOOLEAN, closed : BOOLEAN, fd : BOOLEAN,
                thread : {"none", "test", "call", "recv", "failed", "emit",
                          "ended"}]
    /\ datagrams \in 0..MaxDatagrams
    /\ flying \subseteq 1..datagrams
    /\ taken \in [last : 0..MaxDatagrams, late : Nat]
    /\ udpMain \in {"js", "idle", "send", "join", "exit"}
    /\ udpQueue \in Seq(1..MaxDatagrams) /\ messages \in Seq(1..MaxDatagrams)
    /\ udpFate \in {"alive", "crashed", "terminated", "gone"}

Start ==
    /\ udp = [life |-> "none", bound |-> FALSE, closed |-> FALSE,
              fd |-> FALSE, thread |-> "none"]
    /\ flying = {} /\ datagrams = 0
    /\ taken = [last |-> 0, late |-> 0]
    /\ udpMain = "js" /\ udpQueue = << >> /\ messages = << >>

Init == Start /\ udpFate = "alive"

Undefined(cond) ==
    /\ udpFate = "alive"
    /\ udpFate' \in IF cond THEN {"alive", "crashed"} ELSE {"alive"}

Defined == Undefined(FALSE)

-----------------------------------------------------------------------------
(* Operations of the main thread                                           *)

\* createSocket() opens the descriptor; if that fails the object has no data
\* and every method does nothing.
createSocket ==
    /\ udpMain = "js" /\ Defined
    /\ udp.life = "none"
    /\ udp' = [udp EXCEPT !.life = "live", !.fd = TRUE]
    /\ UNCHANGED <<network, taken, udpMain, udpQueue, messages>>

\* Slip: bind() does not look whether the socket is bound.
socketBindUnchecked ==
    /\ udpMain = "js"
    /\ udp.life = "live" /\ udp.fd
    /\ IF udp.thread = "none" THEN Defined
                              ELSE udpFate = "alive" /\ udpFate' = "terminated"
    /\ udp' = [udp EXCEPT !.bound = TRUE, !.thread = "test"]
    /\ UNCHANGED <<network, taken, udpMain, udpQueue, messages>>

\* bind() fails on a socket that was closed, whose descriptor is -1, so a
\* thread is started once.  A second thread would terminate the process.
socketBind ==
    /\ udpMain = "js"
    /\ udp.life = "live" /\ ~udp.bound /\ udp.fd
    /\ IF udp.thread = "none" THEN Defined
                              ELSE udpFate = "alive" /\ udpFate' = "terminated"
    /\ udp' = [udp EXCEPT !.bound = TRUE, !.thread = "test"]
    /\ UNCHANGED <<network, taken, udpMain, udpQueue, messages>>

\* send() waits for sendto() in the I/O pool.
socketSend ==
    /\ udpMain = "js" /\ Defined
    /\ udp.life = "live" /\ udp.bound
    /\ udpMain' = "send"
    /\ UNCHANGED <<udp, network, taken, udpQueue, messages>>

sendtoReturns ==
    /\ udpMain = "send" /\ Defined
    /\ udpMain' = "js"
    /\ UNCHANGED <<udp, network, taken, udpQueue, messages>>

\* DgramSocketData::close() up to its join; the second call does nothing.
\* The finalizer deletes the data, whose destructor calls close().
close(last) ==
    /\ udpMain = "js" \/ (last /\ udpMain = "exit")
    /\ Defined
    /\ udp.life = "live"
    /\ IF udp.closed
       THEN /\ last
            /\ udp' = [udp EXCEPT !.life = "freed"]
            /\ UNCHANGED udpMain
       ELSE /\ udp' = [udp EXCEPT !.closed = TRUE, !.bound = FALSE,
                           !.fd = FALSE,
                           !.life = IF last THEN "finalizing" ELSE "live"]
            /\ udpMain' = IF udpMain = "exit" THEN "exit" ELSE "join"
    /\ UNCHANGED <<network, taken, udpQueue, messages>>

socketClose == close(FALSE)

SocketFinalizer == close(TRUE)

joinReceiveThread ==
    /\ udpMain = "join" \/ (udpMain = "exit" /\ udp.life = "finalizing")
    /\ Defined
    /\ udp.thread \in {"none", "ended"}
    /\ udp' = [udp EXCEPT !.thread = "none",
                          !.life = IF @ = "live" THEN "live" ELSE "freed"]
    /\ udpMain' = IF udpMain = "exit" THEN "exit" ELSE "js"
    /\ UNCHANGED <<network, taken, udpQueue, messages>>

-----------------------------------------------------------------------------
(* The receive thread                                                      *)

Receiving == udp.bound /\ ~udp.closed

receiveLoopTest ==
    /\ Defined
    /\ \/ /\ udp.thread = "test"
          /\ udp' = [udp EXCEPT !.thread = IF Receiving THEN "call" ELSE "ended"]
       \/ /\ udp.thread = "call"
          /\ udp' = [udp EXCEPT !.thread = IF udp.fd THEN "recv" ELSE "failed"]
    /\ UNCHANGED <<network, taken, udpMain, udpQueue, messages>>

recvfrom(d) ==
    /\ udp.thread = "recv" /\ Defined
    /\ d \in flying
    /\ flying' = flying \ {d}
    /\ taken' = [last |-> d,
                 late |-> IF udp.closed THEN taken.late + 1 ELSE taken.late]
    /\ udp' = [udp EXCEPT !.thread = "emit"]
    /\ UNCHANGED <<datagrams, udpMain, udpQueue, messages>>

recvfromFails ==
    /\ udp.thread \in {"recv", "failed"} /\ Defined
    /\ udp' = [udp EXCEPT !.thread = IF Receiving THEN "test" ELSE "ended"]
    /\ UNCHANGED <<network, taken, udpMain, udpQueue, messages>>

\* The values of the event are made in the main runtime, on this thread.
emitMessage ==
    /\ udp.thread = "emit"
    /\ Undefined(udpMain = "js")
    /\ udpQueue' = Append(udpQueue, taken.last)
    /\ udp' = [udp EXCEPT !.thread = "test"]
    /\ UNCHANGED <<network, taken, udpMain, messages>>

-----------------------------------------------------------------------------
(* The network, the event loop, and the whole                              *)

NetworkSends ==
    /\ Defined
    /\ udp.fd \/ udp.thread = "recv"
    /\ datagrams < MaxDatagrams
    /\ datagrams' = datagrams + 1
    /\ flying' = flying \cup {datagrams'}
    /\ UNCHANGED <<udp, taken, udpMain, udpQueue, messages>>

NetworkLoses(d) ==
    /\ d \in flying /\ Defined
    /\ flying' = flying \ {d}
    /\ UNCHANGED <<udp, datagrams, taken, udpMain, udpQueue, messages>>

Deliver ==
    /\ udpMain = "idle" /\ udpQueue # << >>
    /\ Undefined(udp.life = "freed")
    /\ messages' = Append(messages, Head(udpQueue))
    /\ udpQueue' = Tail(udpQueue)
    /\ udpMain' = "js"
    /\ UNCHANGED <<udp, network, taken>>

\* JavaScript returns to the loop, or main() leaves it: the queue is empty.
MainLoop ==
    /\ Defined
    /\ \/ udpMain = "js" /\ udpMain' = "idle"
       \/ udpMain = "idle" /\ udpQueue = << >> /\ udpMain' = "exit"
    /\ UNCHANGED <<udp, network, taken, udpQueue, messages>>

Gone ==
    /\ udpMain = "exit" /\ udp.life \in {"none", "freed"}
    /\ udpFate = "alive" /\ udpFate' = "gone"
    /\ UNCHANGED <<udp, network, taken, udpMain, udpQueue, messages>>

ReceiveStep ==
    \/ receiveLoopTest \/ emitMessage
    \/ \E d \in 1..MaxDatagrams : recvfrom(d)

Next ==
    \/ createSocket \/ socketBind \/ socketSend \/ sendtoReturns
    \/ socketClose \/ SocketFinalizer \/ joinReceiveThread
    \/ ReceiveStep \/ recvfromFails
    \/ NetworkSends \/ (\E d \in 1..MaxDatagrams : NetworkLoses(d))
    \/ Deliver \/ MainLoop \/ Gone

\* The scheduler runs the thread; nothing makes a datagram arrive.
Fairness ==
    /\ WF_vars(ReceiveStep \/ (udp.thread = "failed" /\ recvfromFails))
    /\ WF_vars(joinReceiveThread)

Spec == Init /\ [][Next]_vars /\ Fairness

\* The datagrams of the message events, emitted and still queued.
Seen == messages \o udpQueue

\* A datagram is emitted at most once, at most one is taken after close(), and
\* no sequence of calls makes the process terminate itself.
Safety ==
    /\ \A i, j \in DOMAIN Seen : Seen[i] = Seen[j] => i = j
    /\ \A i \in DOMAIN Seen : Seen[i] \notin flying
    /\ taken.late <= 1
    /\ udpFate # "terminated"

\* close() returns unless the thread is blocked and no datagram ever comes.
CloseReturns ==
    (udpMain = "join" /\ udp.thread # "recv")
        ~> (udpMain # "join" \/ udpFate # "alive")

=============================================================================
