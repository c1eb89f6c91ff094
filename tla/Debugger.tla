------------------------------ MODULE Debugger ------------------------------
(***************************************************************************)
(* The integrated debugger (src/src/debugging/IntegratedDebugger.cpp): a   *)
(* list of breakpoints, and a thread that answers one CDP client after the *)
(* other.  Thread and flag are static: stopping joins a thread that may be *)
(* blocked in accept() or recv(), a server whose socket fails leaves the   *)
(* flag set, and a thread that is still joinable when the process ends     *)
(* calls std::terminate().  Left out: the text of requests and answers,    *)
(* call stacks, and stepping, which does nothing.                          *)
(***************************************************************************)
EXTENDS Naturals, Sequences

CONSTANTS
    Line,           \* places a breakpoint may be set at
    MaxBreakpoints, \* bound: calls of setBreakpoint()
    MaxDebuggers    \* bound: clients that connect

VARIABLES
    serverRunning,  \* the flag
    cdp,            \* where the server thread is, "none" if not joinable
    debuggers,      \* clients: connected in all, and waiting for accept()
    speaking,       \* the client in service has sent something or hung up
    breakpoints,    \* the vector: records [id, line]
    nextId,         \* nextBreakpointId
    removed,        \* identifiers that were removed
    dbgMain,        \* "js", "stop" while joining, "exit"
    dbgFate

serverVars == <<cdp, debuggers, speaking>>
listVars == <<breakpoints, nextId, removed>>
vars == <<serverRunning, serverVars, listVars, dbgMain, dbgFate>>

TypeOK ==
    /\ serverRunning \in BOOLEAN
    /\ cdp \in {"none", "bind", "test", "accept", "recv", "ended"}
    /\ debuggers \in [come : 0..MaxDebuggers, waiting : 0..MaxDebuggers]
    /\ speaking \in BOOLEAN
    /\ breakpoints \in Seq([id : 1..nextId - 1, line : Line])
    /\ nextId \in 1..MaxBreakpoints + 1
    /\ removed \subseteq 1..MaxBreakpoints
    /\ dbgMain \in {"js", "stop", "exit"}
    /\ dbgFate \in {"alive", "terminated", "killed", "gone"}

Start ==
    /\ serverRunning = FALSE
    /\ cdp = "none" /\ debuggers = [come |-> 0, waiting |-> 0]
    /\ speaking = FALSE
    /\ breakpoints = << >> /\ nextId = 1 /\ removed = {}
    /\ dbgMain = "js"

Init == Start /\ dbgFate = "alive"

Alive == dbgFate = "alive"
Script == dbgMain = "js" /\ Alive

startCDPServer ==
    /\ Script /\ ~serverRunning
    /\ serverRunning' = TRUE
    /\ dbgFate' = IF cdp = "none" THEN "alive" ELSE "terminated"
    /\ cdp' = "bind"
    /\ UNCHANGED <<debuggers, speaking, listVars, dbgMain>>

stopCDPServer ==
    /\ Script /\ serverRunning
    /\ serverRunning' = FALSE
    /\ dbgMain' = "stop"
    /\ UNCHANGED <<serverVars, listVars, dbgFate>>

\* Slip: a thread that is done is not joined.
joinServerThreadIfBusy ==
    /\ dbgMain = "stop" /\ Alive
    /\ cdp \in {"none", "ended"}
    /\ dbgMain' = "js"
    /\ UNCHANGED <<serverRunning, serverVars, listVars, dbgFate>>

joinServerThread ==
    /\ dbgMain = "stop" /\ Alive
    /\ cdp \in {"none", "ended"}
    /\ cdp' = "none"
    /\ dbgMain' = "js"
    /\ UNCHANGED <<serverRunning, debuggers, speaking, listVars, dbgFate>>

\* A slip: the counter is incremented before it is read.
NewIdAfter == nextId + 1

NewId == nextId

setBreakpoint(line) ==
    /\ Script /\ nextId <= MaxBreakpoints
    /\ breakpoints' = Append(breakpoints, [id |-> NewId, line |-> line])
    /\ nextId' = nextId + 1
    /\ UNCHANGED <<serverRunning, serverVars, removed, dbgMain, dbgFate>>

\* std::remove_if and erase: the other breakpoints move up in their order.
removeBreakpoint(id) ==
    /\ Script
    /\ \E i \in DOMAIN breakpoints : breakpoints[i].id = id
    /\ \E n \in 0..Len(breakpoints) : \E kept \in [1..n -> DOMAIN breakpoints] :
        /\ \A j, k \in 1..n : j < k => kept[j] < kept[k]
        /\ {kept[k] : k \in 1..n} =
               {i \in DOMAIN breakpoints : breakpoints[i].id # id}
        /\ breakpoints' = [k \in 1..n |-> breakpoints[kept[k]]]
    /\ removed' = removed \cup {id}
    /\ UNCHANGED <<serverRunning, serverVars, nextId, dbgMain, dbgFate>>

\* socket(), bind() or listen() fails, and the thread ends with the flag set.
cdpServerStarts ==
    /\ cdp = "bind" /\ Alive
    /\ cdp' \in {"test", "ended"}
    /\ UNCHANGED <<serverRunning, debuggers, speaking, listVars, dbgMain, dbgFate>>

\* The loop: the flag, then accept(), which returns with a client.
cdpServerLoop ==
    /\ Alive
    /\ \/ /\ cdp = "test"
          /\ cdp' = IF serverRunning THEN "accept" ELSE "ended"
          /\ UNCHANGED debuggers
       \/ /\ cdp = "accept" /\ debuggers.waiting > 0
          /\ debuggers' = [debuggers EXCEPT !.waiting = @ - 1]
          /\ cdp' = "recv"
    /\ speaking' = FALSE
    /\ UNCHANGED <<serverRunning, listVars, dbgMain, dbgFate>>

\* accept() returns with an error: back to the flag, whatever client waits.
acceptFails ==
    /\ cdp = "accept" /\ Alive
    /\ cdp' = "test"
    /\ UNCHANGED <<serverRunning, debuggers, speaking, listVars, dbgMain, dbgFate>>

\* One request is read and answered with the same text, whatever it was.  The
\* answer to a client that has hung up may raise SIGPIPE.
cdpServerAnswers ==
    /\ cdp = "recv" /\ speaking /\ Alive
    /\ cdp' = "test"
    /\ dbgFate' \in {"alive", "killed"}
    /\ UNCHANGED <<serverRunning, debuggers, speaking, listVars, dbgMain>>

ClientConnects ==
    /\ cdp \in {"test", "accept", "recv"} /\ Alive
    /\ debuggers.come < MaxDebuggers
    /\ debuggers' = [come |-> debuggers.come + 1, waiting |-> debuggers.waiting + 1]
    /\ UNCHANGED <<serverRunning, cdp, speaking, listVars, dbgMain, dbgFate>>

ClientSpeaks ==
    /\ cdp = "recv" /\ ~speaking /\ Alive
    /\ speaking' = TRUE
    /\ UNCHANGED <<serverRunning, cdp, debuggers, listVars, dbgMain, dbgFate>>

\* main() returns and the static objects are destroyed.
Exit ==
    /\ Script
    /\ dbgMain' = "exit"
    /\ dbgFate' = IF cdp = "none" THEN "gone" ELSE "terminated"
    /\ UNCHANGED <<serverRunning, serverVars, listVars>>

Next ==
    \/ startCDPServer \/ stopCDPServer \/ joinServerThread
    \/ (\E l \in Line : setBreakpoint(l))
    \/ (\E id \in 1..MaxBreakpoints : removeBreakpoint(id))
    \/ cdpServerStarts \/ cdpServerLoop \/ acceptFails \/ cdpServerAnswers
    \/ ClientConnects \/ ClientSpeaks \/ Exit

\* The scheduler runs the thread; nothing makes a client connect or speak, nor
\* accept() fail.
Fairness ==
    /\ WF_vars(cdpServerStarts \/ cdpServerLoop \/ cdpServerAnswers)
    /\ WF_vars(joinServerThread)

Spec == Init /\ [][Next]_vars /\ Fairness

\* The process terminates itself only if it ends without stopCDPServer(), even
\* when the server never came up; a breakpoint is in force from the call that
\* set it to the call that removed it, and no other is touched.
Safety ==
    /\ dbgFate = "terminated" => serverRunning
    /\ {breakpoints[i].id : i \in DOMAIN breakpoints} = 1..nextId - 1 \ removed
    /\ \A i, j \in DOMAIN breakpoints :
            i < j => breakpoints[i].id < breakpoints[j].id

\* The thread is in accept() and no client waits, or in recv() and the client
\* in service is silent.
Blocked ==
    \/ cdp = "accept" /\ debuggers.waiting = 0
    \/ cdp = "recv" /\ ~speaking

\* A stopCDPServer() that never returns ends up waiting for good for a thread
\* that is blocked; there is no other way for the join to hang.
StopReturns ==
    <>[](dbgMain = "stop" /\ Alive) => <>[]Blocked

=============================================================================
