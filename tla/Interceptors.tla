----------------------------- MODULE Interceptors ------------------------------
(***************************************************************************)
(* `handle_intercepted_htlc` of simln-lib/src/sim_node.rs: the HTLC that   *)
(* was just added is shown to every registered interceptor at once, one    *)
(* task each in a JoinSet, and the answers are joined in the order they    *)
(* come.  A failure triggers the other interceptors' shutdown and is       *)
(* returned once all of them have ended; a critical error is returned at   *)
(* once; the simulation's shutdown triggers the interceptors and waits for *)
(* them.  The module is one call; PaymentNetwork takes its result.         *)
(*                                                                         *)
(* An interceptor is external code: it may hold the HTLC for as long as it *)
(* likes and give any answer at any time, shut down or not (the            *)
(* LatencyInterceptor of the repository answers "proceed" either way).     *)
(***************************************************************************)
EXTENDS Naturals, FiniteSets

CONSTANTS Interceptor,   \* the registered interceptors
          Key, Value,    \* custom record keys and values
          NoRecord       \* no value under a key

ASSUME RecordAssumption == NoRecord \notin Value

CustomRecords == [Key -> Value \cup {NoRecord}]

Empty == [k \in Key |-> NoRecord]

\* What a finished task may hold: records, an error, or a panic (JoinError).
Answer == [kind : {"proceed"}, records : CustomRecords]
            \cup [kind : {"fail", "critical", "panic"}, records : {Empty}]

Running == [kind |-> "running", records |-> Empty]

VARIABLES incoming,     \* request.incoming_custom_records
          task,         \* Interceptor -> Running or its Answer
          joined,       \* interceptors whose result was taken from the JoinSet
          triggered,    \* has interceptor_trigger fired?
          shutdown,     \* has the simulation's shutdown_listener fired?
          pc,           \* "wait": in the select loop, "drain": in the inner loop
          failure,      \* interceptor_failure is Some
          attached,     \* attached_custom_records
          result        \* what the call returned

vars == <<incoming, task, joined, triggered, shutdown, pc, failure, attached, result>>

Pending == [kind |-> "pending", records |-> Empty]

Init ==
    /\ incoming \in CustomRecords
    /\ task = [i \in Interceptor |-> Running]
    /\ joined = {}
    /\ triggered = FALSE
    /\ shutdown = FALSE
    /\ pc = "start"
    /\ failure = FALSE
    /\ attached = Empty
    /\ result = Pending

-----------------------------------------------------------------------------
Finished == {i \in Interceptor : task[i] # Running}

Return(kind, records) ==
    /\ pc' = "returned"
    /\ result' = [kind |-> kind, records |-> records]

\* Without interceptors the records pass through, otherwise tasks are spawned.
Start ==
    /\ pc = "start"
    /\ IF Interceptor = {}
       THEN Return("proceed", incoming)
       ELSE pc' = "wait" /\ UNCHANGED result
    /\ UNCHANGED <<incoming, task, joined, triggered, shutdown, failure, attached>>

\* An interceptor's task ends; dropping the JoinSet aborts those still running.
Finish(i, a) ==
    /\ pc \in {"wait", "drain"}
    /\ task[i] = Running
    /\ task' = [task EXCEPT ![i] = a]
    /\ UNCHANGED <<incoming, joined, triggered, shutdown, pc, failure, attached, result>>

SimulationShutdown ==
    /\ pc # "returned"
    /\ ~ shutdown
    /\ shutdown' = TRUE
    /\ UNCHANGED <<incoming, task, joined, triggered, pc, failure, attached, result>>

-----------------------------------------------------------------------------
(* The select loop.  It is biased: a finished task is joined before the    *)
(* shutdown signal is looked at.                                           *)

Conflict(records) ==
    \E k \in Key : /\ records[k] # NoRecord
                   /\ attached[k] # NoRecord
                   /\ attached[k] # records[k]

Merge(records) ==
    [k \in Key |-> IF records[k] # NoRecord THEN records[k] ELSE attached[k]]

\* Mutant: a conflicting record replaces the one attached before.
JoinProceed_last_wins(i) ==
    /\ attached' = Merge(task[i].records)
    /\ UNCHANGED <<pc, result>>

JoinProceed(i) ==
    IF Conflict(task[i].records)
    THEN Return("critical", Empty) /\ UNCHANGED attached
    ELSE attached' = Merge(task[i].records) /\ UNCHANGED <<pc, result>>

\* Mutant: a failed HTLC is returned without waiting for the others.
JoinFail_at_once ==
    /\ failure' = TRUE
    /\ triggered' = TRUE
    /\ Return("fail", Empty)

JoinFail ==
    /\ failure' = TRUE
    /\ triggered' = TRUE
    /\ UNCHANGED <<pc, result>>

Join(i) ==
    /\ pc = "wait"
    /\ i \in Finished \ joined
    /\ joined' = joined \cup {i}
    /\ \/ /\ task[i].kind = "proceed"
          /\ JoinProceed(i)
          /\ UNCHANGED <<failure, triggered>>
       \/ /\ task[i].kind = "fail"
          /\ JoinFail
          /\ UNCHANGED attached
       \/ /\ task[i].kind \in {"critical", "panic"}
          /\ Return("critical", Empty)
          /\ UNCHANGED <<failure, triggered, attached>>
    /\ UNCHANGED <<incoming, task, shutdown>>

\* Every task was joined: the recorded failure, or the records.
JoinedAll ==
    /\ pc = "wait"
    /\ joined = Interceptor
    /\ IF failure THEN Return("fail", Empty) ELSE Return("proceed", attached)
    /\ UNCHANGED <<incoming, task, joined, triggered, shutdown, failure, attached>>

\* Mutant: the interceptors are waited for but not told to stop.
SeeShutdown_untold ==
    /\ pc = "wait"
    /\ shutdown
    /\ Finished \subseteq joined
    /\ joined # Interceptor
    /\ pc' = "drain"
    /\ UNCHANGED <<incoming, task, joined, triggered, shutdown, failure, attached, result>>

SeeShutdown ==
    /\ pc = "wait"
    /\ shutdown
    /\ Finished \subseteq joined
    /\ joined # Interceptor
    /\ triggered' = TRUE
    /\ pc' = "drain"
    /\ UNCHANGED <<incoming, task, joined, shutdown, failure, attached, result>>

\* The inner loop throws the results away.
Drain(i) ==
    /\ pc = "drain"
    /\ i \in Finished \ joined
    /\ joined' = joined \cup {i}
    /\ UNCHANGED <<incoming, task, triggered, shutdown, pc, failure, attached, result>>

DrainedAll ==
    /\ pc = "drain"
    /\ joined = Interceptor
    /\ IF failure THEN Return("fail", Empty) ELSE Return("proceed", attached)
    /\ UNCHANGED <<incoming, task, joined, triggered, shutdown, failure, attached>>

-----------------------------------------------------------------------------
HandlerStep ==
    \/ Start \/ JoinedAll \/ SeeShutdown \/ DrainedAll
    \/ \E i \in Interceptor : Join(i) \/ Drain(i)

Next ==
    \/ HandlerStep
    \/ SimulationShutdown
    \/ \E i \in Interceptor, a \in Answer : Finish(i, a)

Spec == Init /\ [][Next]_vars

\* The handler runs, and an interceptor that is told to stop does stop
\* ("Interceptors should listen on this signal and shutdown").
FairSpec ==
    /\ Spec
    /\ WF_vars(HandlerStep)
    /\ \A i \in Interceptor : WF_vars(triggered /\ \E a \in Answer : Finish(i, a))

-----------------------------------------------------------------------------
TypeOK ==
    /\ incoming \in CustomRecords
    /\ task \in [Interceptor -> Answer \cup {Running}]
    /\ joined \subseteq Finished
    /\ triggered \in BOOLEAN
    /\ shutdown \in BOOLEAN
    /\ pc \in {"start", "wait", "drain", "returned"}
    /\ failure \in BOOLEAN
    /\ attached \in CustomRecords
    /\ result \in {Pending} \cup Answer

(***************************************************************************)
(* While the simulation is not shutting down the verdict does not depend   *)
(* on the order in which interceptors answer: the HTLC proceeds only if    *)
(* every interceptor let it, with exactly the records they attached and no *)
(* two values for a key, and it fails only if one failed it.               *)
(***************************************************************************)
VerdictIsUnanimous ==
    pc = "returned" /\ ~ shutdown /\ Interceptor # {} =>
        /\ result.kind = "proceed" =>
              /\ \A i \in Interceptor : task[i].kind = "proceed"
              /\ \A k \in Key : {result.records[k]} \cup {task[i].records[k] : i \in Interceptor}
                                   \in {{NoRecord}} \cup {{v} : v \in Value}
                                          \cup {{v, NoRecord} : v \in Value}
              /\ \A k \in Key : result.records[k] = NoRecord =>
                                   \A i \in Interceptor : task[i].records[k] = NoRecord
        /\ result.kind = "fail" => \E i \in Interceptor : task[i].kind = "fail"

(***************************************************************************)
(* The call does not return while an interceptor still works on the HTLC,  *)
(* except to report a critical error ("waits for them to shutdown").       *)
(***************************************************************************)
ReturnsLast ==
    pc = "returned" /\ result.kind # "critical" => joined = Interceptor

(***************************************************************************)
(* A failure or a shutdown ends the call: the handler tells the            *)
(* interceptors to stop, so no HTLC is held back by one that only waits.   *)
(***************************************************************************)
StopEndsCall == (failure \/ (shutdown /\ pc # "start")) ~> pc = "returned"

===============================================================================
