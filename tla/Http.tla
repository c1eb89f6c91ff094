-------------------------------- MODULE Http --------------------------------
(***************************************************************************)
(* http (src/src/modules/http/HTTPModule.cpp): a server thread accepts one *)
(* client at a time, reads one request, and calls the request listener of  *)
(* the script itself, on its own thread, in the runtime of the main thread.*)
(* Two threads that run JavaScript in one runtime, and a listener that was *)
(* freed, are undefined: the process goes on or crashes.                   *)
(*                                                                         *)
(* A response object closes the client's descriptor when it is finalized   *)
(* (.cpp:74-76), and the loop closes the same number at its end (.cpp:317).*)
(* The kernel hands the smallest free number to the next open() or         *)
(* accept() of any thread.                                                 *)
(*                                                                         *)
(* Clients are numbered in the order of their connections.  Left out: what *)
(* requests and headers say, emitters, the client side, which is a stub,   *)
(* and whether the objects of a fresh context have the methods of their    *)
(* class: here the listener can always call them.                          *)
(***************************************************************************)
EXTENDS Naturals, FiniteSets, FiniteSetsExt

CONSTANTS
    MaxClients,     \* bound: connections to the server
    Fd              \* descriptor numbers

VARIABLES
    web,        \* HTTPServerData
    clients,    \* connections opened so far
    request,    \* the client the server thread works for and its descriptor
    response,   \* HTTPResponseData of each client
    files,      \* the kernel's table: who has each number
    webMain,    \* "js", "idle", "join" or "exit" while freeing
    stray,      \* a response was written to a descriptor of someone else
    listens,    \* listen() calls that got a socket since the last close()
    webFate

vars == <<web, clients, request, response, files, webMain, stray, listens,
          webFate>>

Client == 1..MaxClients
Nobody == 0
Other  == MaxClients + 1

HTTPServerData ==
    [life : {"none", "live", "freed"}, listening : BOOLEAN, fd : BOOLEAN,
     listener : {"set", "freed"},
     thread : {"none", "start", "test", "call", "accept", "failed", "read",
               "listen", "release", "close", "ended"}]
HTTPResponseData ==
    [state : {"none", "live", "freed"}, fd : Fd, kept : BOOLEAN]

TypeOK ==
    /\ web \in HTTPServerData
    /\ clients \in 0..MaxClients
    /\ request \in [client : 0..MaxClients, fd : Fd]
    /\ response \in [Client -> HTTPResponseData]
    /\ files \in [Fd -> Nobody..Other]
    /\ webMain \in {"js", "idle", "join", "exit"}
    /\ stray \in BOOLEAN
    /\ listens \in 0..2
    /\ webFate \in {"alive", "crashed", "terminated", "killed", "gone"}

Start ==
    /\ web = [life |-> "none", listening |-> FALSE, fd |-> FALSE,
              listener |-> "set", thread |-> "none"]
    /\ clients = 0
    /\ request = [client |-> 0, fd |-> Min(Fd)]
    /\ response = [c \in Client |-> [state |-> "none", fd |-> Min(Fd),
                                     kept |-> FALSE]]
    /\ files = [f \in Fd |-> Nobody]
    /\ webMain = "js" /\ stray = FALSE /\ listens = 0

Init == Start /\ webFate = "alive"

Undefined(cond) ==
    /\ webFate = "alive"
    /\ webFate' \in IF cond THEN {"alive", "crashed"} ELSE {"alive"}

Defined == Undefined(FALSE)

FreeFd == {f \in Fd : files[f] = Nobody}

-----------------------------------------------------------------------------
(* Operations of the main thread                                           *)

createServer ==
    /\ webMain = "js" /\ Defined
    /\ web.life = "none"
    /\ web' = [web EXCEPT !.life = "live"]
    /\ UNCHANGED <<clients, request, response, files, webMain, stray, listens>>

\* socket() or bind() or listen() fails: a server that listened before has
\* lost its descriptor, and its thread calls accept() with -1.
listenFails ==
    /\ webMain = "js" /\ Defined
    /\ web.life = "live"
    /\ web' = [web EXCEPT !.fd = FALSE]
    /\ UNCHANGED <<clients, request, response, files, webMain, stray, listens>>

\* listen() does not ask whether the server listens: a second call assigns
\* to the thread object of the first.
serverListen ==
    /\ webMain = "js"
    /\ web.life = "live" /\ listens < 2
    /\ IF web.thread = "none" THEN Defined
                              ELSE webFate = "alive" /\ webFate' = "terminated"
    /\ web' = [web EXCEPT !.fd = TRUE, !.listening = TRUE, !.thread = "start"]
    /\ listens' = listens + 1
    /\ UNCHANGED <<clients, request, response, files, webMain, stray>>

\* server.close() up to its join.
serverClose ==
    /\ webMain = "js" /\ Defined
    /\ web.life = "live"
    /\ web' = [web EXCEPT !.listening = FALSE, !.fd = FALSE]
    /\ webMain' = "join"
    /\ UNCHANGED <<clients, request, response, files, stray, listens>>

\* Slip: the join is forgotten.
joinServerThreadNot ==
    /\ webMain = "join" /\ Defined
    /\ webMain' = "js"
    /\ listens' = 0
    /\ UNCHANGED <<web, clients, request, response, files, stray>>

joinServerThread ==
    /\ webMain = "join" /\ Defined
    /\ web.thread \in {"none", "ended"}
    /\ web' = [web EXCEPT !.thread = "none"]
    /\ webMain' = "js"
    /\ listens' = 0
    /\ UNCHANGED <<clients, request, response, files, stray>>

\* ~HTTPServerData(): the descriptor and the listener go first, listening is
\* reset after that and only if there is a thread to join.
ServerFinalizer ==
    /\ webMain = "exit" /\ Defined
    /\ web.life = "live"
    /\ \/ /\ web.listener = "set"
          /\ web' = [web EXCEPT !.fd = FALSE, !.listener = "freed"]
       \/ /\ web.listener = "freed" /\ web.thread # "none" /\ web.listening
          /\ web' = [web EXCEPT !.listening = FALSE]
       \/ /\ web.listener = "freed"
          /\ web.thread \in {"none", "ended"}
          /\ web' = [web EXCEPT !.thread = "none", !.life = "freed"]
    /\ UNCHANGED <<clients, request, response, files, webMain, stray, listens>>

-----------------------------------------------------------------------------
(* The server thread                                                       *)

threadFrame == <<clients, webMain, listens>>

\* A context in the main runtime; the loop condition; accept()'s argument.
serverLoop ==
    /\ \/ /\ web.thread = "start"
          /\ Undefined(webMain = "js")
          /\ web' = [web EXCEPT !.thread = "test"]
       \/ /\ web.thread = "test" /\ Defined
          /\ web' = [web EXCEPT !.thread =
                         IF web.listening THEN "call" ELSE "ended"]
       \/ /\ web.thread = "call" /\ Defined
          /\ web' = [web EXCEPT !.thread = IF web.fd THEN "accept" ELSE "failed"]
    /\ UNCHANGED <<threadFrame, request, response, files, stray>>

acceptFails ==
    /\ web.thread \in {"accept", "failed"} /\ Defined
    /\ web' = [web EXCEPT !.thread = IF web.listening THEN "test" ELSE "ended"]
    /\ UNCHANGED <<threadFrame, request, response, files, stray>>

acceptClient ==
    /\ web.thread = "accept" /\ Defined
    /\ request.client < clients
    /\ FreeFd # {}
    /\ LET f == Min(FreeFd)
           c == request.client + 1
       IN  /\ request' = [client |-> c, fd |-> f]
           /\ files' = [files EXCEPT ![f] = c]
    /\ web' = [web EXCEPT !.thread = "read"]
    /\ UNCHANGED <<threadFrame, response, stray>>

\* read() returns once the client has sent something or has hung up, which no
\* client must do.  Nothing was read, or the request and response objects are
\* made and the listener is called if the server has one.
readRequest ==
    /\ web.thread = "read"
    /\ \/ /\ Defined
          /\ web' = [web EXCEPT !.thread = "close"]
          /\ UNCHANGED response
       \/ /\ Undefined(webMain = "js" \/ web.listener = "freed")
          /\ response' = [response EXCEPT ![request.client] =
                 [@ EXCEPT !.state = "live", !.fd = request.fd]]
          /\ \E t \in {"listen", "release"} : web' = [web EXCEPT !.thread = t]
    /\ UNCHANGED <<threadFrame, request, files, stray>>

\* The listener returns, and may have kept the response for later.
listenerReturns ==
    /\ web.thread = "listen" /\ Undefined(webMain = "js")
    /\ \E keep \in BOOLEAN :
        response' = [response EXCEPT ![request.client].kept = keep]
    /\ web' = [web EXCEPT !.thread = "release"]
    /\ UNCHANGED <<threadFrame, request, files, stray>>

\* ResponseFinalizer: the destructor closes whatever has that number now.
Finalize(c) ==
    /\ response' = [response EXCEPT ![c].state = "freed"]
    /\ files' = [files EXCEPT ![response[c].fd] = Nobody]

\* The thread drops its reference to the response.
releaseResponse ==
    /\ web.thread = "release" /\ Undefined(webMain = "js")
    /\ IF response[request.client].kept THEN UNCHANGED <<response, files>>
                                        ELSE Finalize(request.client)
    /\ web' = [web EXCEPT !.thread = "close"]
    /\ UNCHANGED <<threadFrame, request, stray>>

\* close(clientFd) at the end of the loop body.
closeClient ==
    /\ web.thread = "close" /\ Defined
    /\ files' = [files EXCEPT ![request.fd] = Nobody]
    /\ web' = [web EXCEPT !.thread = "test"]
    /\ UNCHANGED <<threadFrame, request, response, stray>>

-----------------------------------------------------------------------------
(* JavaScript that uses a response, on either thread                       *)

\* Where the script can reach the response of client c.
Reachable(c) ==
    \/ web.thread = "listen" /\ request.client = c
    \/ webMain = "js" /\ response[c].kept

\* res.end() writes the head and the body that writeHead() and write() have put
\* together, again if it is called again.  A client that hung up makes the
\* write raise SIGPIPE.
responseEnd(c) ==
    /\ response[c].state = "live" /\ Reachable(c)
    /\ webFate = "alive"
    /\ webFate' \in {"alive", "killed"} \cup
           IF web.thread = "listen" /\ webMain = "js" THEN {"crashed"} ELSE {}
    /\ stray' = (stray \/ files[response[c].fd] \notin {c, Nobody})
    /\ UNCHANGED <<web, clients, request, response, files, webMain, listens>>

\* The script drops a response it kept.
DropResponse(c) ==
    /\ webMain = "js" /\ Undefined(web.thread = "listen")
    /\ response[c].state = "live" /\ response[c].kept
    /\ web.thread # "release" \/ request.client # c
    /\ Finalize(c)
    /\ UNCHANGED <<web, clients, request, webMain, stray, listens>>

-----------------------------------------------------------------------------
(* Everything else                                                         *)

ClientConnects ==
    /\ Defined
    /\ web.fd \/ web.thread = "accept"
    /\ clients < MaxClients
    /\ clients' = clients + 1
    /\ UNCHANGED <<web, request, response, files, webMain, stray, listens>>

\* Another part of the process opens a descriptor.
OtherOpens ==
    /\ Defined
    /\ FreeFd # {}
    /\ \A f \in Fd : files[f] # Other
    /\ files' = [files EXCEPT ![Min(FreeFd)] = Other]
    /\ UNCHANGED <<web, clients, request, response, webMain, stray, listens>>

\* JavaScript returns to the loop, a callback starts it again, or main()
\* leaves the loop and the runtime is freed.
MainLoop ==
    /\ Defined
    /\ \/ webMain = "js" /\ webMain' = "idle"
       \/ webMain = "idle" /\ webMain' \in {"js", "exit"}
    /\ UNCHANGED <<web, clients, request, response, files, stray, listens>>

Gone ==
    /\ webMain = "exit" /\ web.life \in {"none", "freed"}
    /\ webFate = "alive" /\ webFate' = "gone"
    /\ UNCHANGED <<web, clients, request, response, files, webMain, stray,
                   listens>>

\* The steps of the thread that wait for nobody but a client that has
\* connected.
ServerStep ==
    \/ serverLoop \/ acceptClient \/ listenerReturns
    \/ releaseResponse \/ closeClient

Next ==
    \/ createServer \/ listenFails \/ serverListen \/ serverClose
    \/ joinServerThread \/ ServerFinalizer
    \/ ServerStep \/ acceptFails \/ readRequest
    \/ (\E c \in Client : responseEnd(c) \/ DropResponse(c))
    \/ ClientConnects \/ OtherOpens \/ MainLoop \/ Gone

\* A client waits and accept() has no number for it, or accept() was given -1.
CannotAccept ==
    web.thread = "failed" \/ (request.client < clients /\ FreeFd = {})

\* The scheduler runs the thread and its listener returns; nothing makes a
\* client connect, send a request or hang up.
Fairness ==
    /\ WF_vars(ServerStep \/ (CannotAccept /\ acceptFails))
    /\ WF_vars(joinServerThread)

Spec == Init /\ [][Next]_vars /\ Fairness

\* A response reaches its own client unless the script kept it after its
\* listener returned, and the process is terminated only by a second listen()
\* on a server that was not closed in between.
Safety ==
    /\ stray => \E c \in Client : response[c].kept
    /\ webFate = "terminated" => listens > 1

\* The thread is in accept() and no client waits, or it is in read().
Blocked ==
    \/ web.thread = "accept" /\ request.client = clients
    \/ web.thread = "read"

\* A close() that never returns ends up waiting for good for a thread that is
\* blocked: no client comes, or one that came says nothing and stays.
CloseReturns ==
    <>[](webMain = "join" /\ webFate = "alive") => <>[]Blocked

=============================================================================
