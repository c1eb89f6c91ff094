----------------------------- MODULE TaskService -----------------------------
(***************************************************************************)
(* What a ThreadPoolExecutor promises its callers, without threads, mutex, *)
(* condition variable or counters (ThreadPoolExecutor.h:14-21 and the      *)
(* comments of its public methods).                                        *)
(*                                                                         *)
(* A task is accepted while the service is open and refused afterwards.    *)
(* Accepted tasks start in the order of their acceptance, at most PoolSize *)
(* at a time, and each of them completes; a graceful shutdown returns only *)
(* when all of them did.  An immediate shutdown abandons the backlog and   *)
(* returns when the tasks in progress completed.                           *)
(***************************************************************************)
EXTENDS Naturals, Sequences, FiniteSets, SequencesExt

CONSTANTS
    Task,       \* the tasks callers may submit
    PoolSize    \* how many tasks may be in progress at once

VARIABLES
    backlog,      \* accepted tasks not started yet, oldest first
    inProgress,   \* the tasks being executed
    outcome,      \* what the caller's future says of each task
    phase         \* "open", "closing" (a shutdown was called) or "returned"

vars == <<backlog, inProgress, outcome, phase>>

Outcome == {"none", "pending", "ready", "broken", "refused"}

TypeOK ==
    /\ backlog \in Seq(Task)
    /\ inProgress \subseteq Task
    /\ outcome \in [Task -> Outcome]
    /\ phase \in {"open", "closing", "returned"}

Init ==
    /\ backlog = << >>
    /\ inProgress = {}
    /\ outcome = [t \in Task |-> "none"]
    /\ phase = "open"

Accept(t) ==
    /\ phase = "open"
    /\ outcome[t] = "none"
    /\ backlog' = Append(backlog, t)
    /\ outcome' = [outcome EXCEPT ![t] = "pending"]
    /\ UNCHANGED <<inProgress, phase>>

Refuse(t) ==
    /\ phase # "open"
    /\ outcome[t] = "none"
    /\ outcome' = [outcome EXCEPT ![t] = "refused"]
    /\ UNCHANGED <<backlog, inProgress, phase>>

Start ==
    /\ backlog # << >>
    /\ Cardinality(inProgress) < PoolSize
    /\ inProgress' = inProgress \cup {Head(backlog)}
    /\ backlog' = Tail(backlog)
    /\ UNCHANGED <<outcome, phase>>

Complete(t) ==
    /\ t \in inProgress
    /\ inProgress' = inProgress \ {t}
    /\ outcome' = [outcome EXCEPT ![t] = "ready"]
    /\ UNCHANGED <<backlog, phase>>

Close ==
    /\ phase # "closing"
    /\ phase' = "closing"
    /\ UNCHANGED <<backlog, inProgress, outcome>>

CloseNow ==
    /\ phase # "closing"
    /\ phase' = "closing"
    /\ backlog' = << >>
    /\ outcome' = [t \in Task |-> IF t \in ToSet(backlog) THEN "broken"
                                                          ELSE outcome[t]]
    /\ UNCHANGED inProgress

Return ==
    /\ phase = "closing"
    /\ backlog = << >>
    /\ inProgress = {}
    /\ phase' = "returned"
    /\ UNCHANGED <<backlog, inProgress, outcome>>

Next ==
    \/ \E t \in Task : Accept(t) \/ Refuse(t) \/ Complete(t)
    \/ Start \/ Close \/ CloseNow \/ Return

(***************************************************************************)
(* Tasks terminate and a task that can start does: nothing is promised     *)
(* about callers, who need not submit or shut down.                        *)
(***************************************************************************)
Fairness ==
    /\ WF_vars(Start)
    /\ \A t \in Task : WF_vars(Complete(t))

Spec == Init /\ [][Next]_vars /\ Fairness
=============================================================================
