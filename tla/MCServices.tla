----------------------------- MODULE MCServices -----------------------------
(***************************************************************************)
(* The modules of the runtime that keep threads of their own or wait for   *)
(* the I/O pool, side by side.  They share no state but the main thread,   *)
(* and a behaviour starts the process for one of them: the others are gone *)
(* from the start.  The constants are the parameters of the instances.     *)
(***************************************************************************)
EXTENDS Naturals

CONSTANTS
    MaxPeers, MaxConnects,              \* Net
    MaxChunks,                          \* Net and Processes
    MaxDatagrams,                       \* Dgram
    MaxClients, Fd,                     \* Http
    Stream, MaxForks,                   \* Processes
    MaxOps, Path, PoolSize,             \* AsyncIO
    Line, MaxBreakpoints, MaxDebuggers  \* Debugger

\* The bounds are numbers, descriptors are numbers of which there is one, and
\* the events of a child are not named as its streams.
ASSUME BoundAssumption ==
    /\ MaxPeers \in Nat /\ MaxConnects \in Nat /\ MaxChunks \in Nat
    /\ MaxDatagrams \in Nat /\ MaxClients \in Nat /\ MaxForks \in Nat
    /\ MaxOps \in Nat /\ PoolSize \in Nat
    /\ MaxBreakpoints \in Nat /\ MaxDebuggers \in Nat
    /\ Fd \subseteq Nat /\ Fd # {}
    /\ "exit" \notin Stream /\ "online" \notin Stream

VARIABLES
    server, socket, peers, wire, netMain, leaving, netQueue, heard, reused,
    netFate,
    udp, flying, datagrams, taken, udpMain, udpQueue, messages, udpFate,
    web, clients, request, response, files, webMain, stray, listens, webFate,
    child, waiter, reader, pipe, written, holding, workers, procMain,
    procQueue, shown, procFate,
    op, poolQueue, disk, ioMain, ioLast, ioQueue, called, ioFate,
    serverRunning, cdp, debuggers, speaking, breakpoints, nextId, removed,
    dbgMain, dbgFate

N == INSTANCE Net
U == INSTANCE Dgram
H == INSTANCE Http
P == INSTANCE Processes
A == INSTANCE AsyncIO
B == INSTANCE Debugger

In(part, which) == IF part = which THEN "alive" ELSE "gone"

Init ==
    /\ N!Start /\ U!Start /\ H!Start /\ P!Start /\ A!Start /\ B!Start
    /\ \E which \in {"net", "dgram", "http", "processes", "io", "debugger"} :
        /\ netFate = In("net", which) /\ udpFate = In("dgram", which)
        /\ webFate = In("http", which) /\ procFate = In("processes", which)
        /\ ioFate = In("io", which) /\ dbgFate = In("debugger", which)

netVars  == <<server, socket, peers, wire, netMain, leaving, netQueue, heard,
              reused, netFate>>
udpVars  == <<udp, flying, datagrams, taken, udpMain, udpQueue, messages,
              udpFate>>
webVars  == <<web, clients, request, response, files, webMain, stray, listens,
              webFate>>
procVars == <<child, waiter, reader, pipe, written, holding, workers, procMain,
              procQueue, shown, procFate>>
ioVars   == <<op, poolQueue, disk, ioMain, ioLast, ioQueue, called, ioFate>>
dbgVars  == <<serverRunning, cdp, debuggers, speaking, breakpoints, nextId,
              removed, dbgMain, dbgFate>>
vars == <<netVars, udpVars, webVars, procVars, ioVars, dbgVars>>

Next ==
    \/ N!Next /\ UNCHANGED <<udpVars, webVars, procVars, ioVars, dbgVars>>
    \/ U!Next /\ UNCHANGED <<netVars, webVars, procVars, ioVars, dbgVars>>
    \/ H!Next /\ UNCHANGED <<netVars, udpVars, procVars, ioVars, dbgVars>>
    \/ P!Next /\ UNCHANGED <<netVars, udpVars, webVars, ioVars, dbgVars>>
    \/ A!Next /\ UNCHANGED <<netVars, udpVars, webVars, procVars, dbgVars>>
    \/ B!Next /\ UNCHANGED <<netVars, udpVars, webVars, procVars, ioVars>>

Fairness == N!Fairness /\ U!Fairness /\ H!Fairness /\ A!Fairness /\ B!Fairness

Spec == Init /\ [][Next]_vars /\ Fairness

\* The variables of every module keep their types.
TypesOK ==
    N!TypeOK /\ U!TypeOK /\ H!TypeOK /\ P!TypeOK /\ A!TypeOK /\ B!TypeOK

\* net: the events of a client socket come in order, a server takes at most
\* one connection after close(), and only the reuse of an object terminates
\* the process (Net!Safety).
NetSafety == N!Safety

\* dgram: no datagram is emitted twice, at most one is taken after close(),
\* and no sequence of calls terminates the process (Dgram!Safety).
DgramSafety == U!Safety

\* http: a response reaches its own client unless the script kept it, and only
\* a second listen() terminates the process (Http!Safety).
HttpSafety == H!Safety

\* child_process and cluster: the output of a child is seen as a prefix, its
\* exit once; a worker's channel is closed once (Processes!Safety).
ProcessSafety == P!Safety

\* io and fs: callbacks run in the order of the calls, and a read that nothing
\* overlaps sees the last write (AsyncIO!Safety).
FileSafety == A!Safety

\* debugger: breakpoints are exactly the ones set and not removed, and only a
\* server that was not stopped terminates the process (Debugger!Safety).
DebuggerSafety == B!Safety

\* close(), destroy() and stopCDPServer() return unless the thread they join is
\* blocked: in accept(), recv() or read(), with a peer that does not come or
\* stays silent (Net!CloseReturns, Dgram!CloseReturns, Http!CloseReturns,
\* Debugger!StopReturns).
ClosesReturn ==
    N!CloseReturns /\ U!CloseReturns /\ H!CloseReturns /\ B!StopReturns

\* fs and io: the callback of a file operation started before main() left its
\* loop runs (AsyncIO!CallbacksRun).
FileCallbacksRun == A!CallbacksRun

=============================================================================
