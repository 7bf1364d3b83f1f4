---------------------------- MODULE PaymentProducer ----------------------------
(***************************************************************************)
(* `setup_payment_events`, `produce_payment_events`, `generate_payment`    *)
(* and `get_payment_delay` of simln-lib/src/lib.rs: one task that pops the *)
(* earliest payment event from a heap, sleeps until it is due, pushes the  *)
(* source's next event and spawns the payment.                             *)
(*                                                                         *)
(* Time is counted in ticks, Second of them to a second.  An executor is a *)
(* record                                                                  *)
(*     source  : the paying node, a number that stands for its public key  *)
(*     start   : start delay in seconds, or None                           *)
(*     count   : number of payments to make, or None                       *)
(*     waits   : the seconds next_payment_wait may return                  *)
(*     amounts : the amounts payment_amount may return                     *)
(*     fails   : may its generators return an error?                       *)
(* in the order of setup_payment_events, sorted by source.  Destinations   *)
(* are left out: the executor an event was made by stands for it.          *)
(***************************************************************************)
EXTENDS Integers, FiniteSets, Sequences

CONSTANTS Configuration, \* the lists of executors a simulation may be given
          None,          \* start or count not given
          Second,        \* ticks in a second
          Overshoot,     \* ticks a sleep may take longer than asked for
          Horizon        \* bound: of an activity without a count, events after
                         \* this time are not popped

Executor == [source  : Nat, start : Nat \cup {None}, count : Nat \cup {None},
             waits   : (SUBSET Nat) \ {{}},
             amounts : (SUBSET Nat) \ {{}},
             fails   : BOOLEAN]

ASSUME ProducerAssumption ==
    /\ Second \in Nat \ {0}
    /\ Overshoot \in Nat
    /\ Horizon \in Nat
    /\ Configuration \subseteq Seq(Executor)
    /\ \A c \in Configuration : \A d, e \in DOMAIN c :
          d <= e => c[d].source <= c[e].source

VARIABLES executors,     \* the executors of this simulation
          now,           \* the simulation clock
          heap,          \* the events: per slot, see below
          completed,     \* Source -> payments_completed of its tracker
          pc,            \* "pop", "sleep" or "ended"
          current,       \* slot of the event being waited for
          wake,          \* when the sleep was asked to end
          shutdown,      \* has the trigger fired?
          sent           \* the payments spawned, in order

vars == <<executors, now, heap, completed, pc, current, wake, shutdown, sent>>

(***************************************************************************)
(* Every pop pushes one event or none, so each event of the heap is kept   *)
(* in the slot of the executor whose first event it descends from.         *)
(***************************************************************************)
Id == DOMAIN executors

Event == [made_by : Id, execution_time : Int, amount : Nat]

Empty == [made_by |-> 0, execution_time |-> 0, amount |-> 0]

source(slot) == executors[slot].source

Source == {source(e) : e \in Id}

\* payments_tracker keeps one executor per source: the last one inserted.
Tracked(s) == CHOOSE e \in Id : /\ executors[e].source = s
                                /\ \A d \in Id : executors[d].source = s => d <= e

-----------------------------------------------------------------------------
(* The delay to an executor's next event, given the payments completed.    *)
get_payment_delay(calls, e) ==
    IF calls # 0 \/ executors[e].start = None THEN executors[e].waits
    ELSE {executors[e].start}

\* The events generate_payment may push for executor e.
generate_payment(calls, e, base_time) ==
    {[made_by |-> e, execution_time |-> base_time + w * Second, amount |-> a] :
        w \in get_payment_delay(calls, e), a \in executors[e].amounts}

Init ==
    /\ executors \in Configuration
    /\ now = 0
    /\ heap \in [Id -> UNION {generate_payment(0, e, 0) : e \in Id}]
    /\ \A e \in Id : heap[e] \in generate_payment(0, e, 0)
    /\ completed = [s \in Source |-> 0]
    /\ pc = "pop"
    /\ current = 0
    /\ wake = 0
    /\ shutdown = FALSE
    /\ sent = <<>>

-----------------------------------------------------------------------------
Queued == {k \in Id : heap[k] # Empty /\ k # current}

\* PaymentEvent's order: by time, ties by source.
Before(j, k) ==
    \/ heap[j].execution_time < heap[k].execution_time
    \/ heap[j].execution_time = heap[k].execution_time /\ source(j) <= source(k)

\* Mutant: a heap without Reverse pops the latest event first.
Earliest_reversed(k) == k \in Queued /\ \A j \in Queued : Before(j, k)

Earliest(k) == k \in Queued /\ \A j \in Queued : Before(k, j)

\* Mutant: an event that is overdue has no case of its own.
wait_time_overdue(k) == heap[k].execution_time - now

\* The time to wait for an event in whole seconds, rounded half up.
wait_time(k) ==
    LET elapsed == heap[k].execution_time - now
    IN  IF elapsed < 0 THEN 0
        ELSE ((2 * elapsed + Second) \div (2 * Second)) * Second

\* Mutant: the count is met one payment late.
CountMet_late(s) == executors[Tracked(s)].count = completed[s] - 1

CountMet(s) == executors[Tracked(s)].count = completed[s]

Ends == pc' = "ended" /\ shutdown' = TRUE /\ current' = 0

\* Mutant: the event is pushed back when the count is met.
PopCounted_pushed_back(k) ==
    /\ pc = "pop" /\ ~ shutdown
    /\ Earliest(k)
    /\ CountMet(source(k))
    /\ \E ev \in generate_payment(completed[source(k)], Tracked(source(k)), now) :
          heap' = [heap EXCEPT ![k] = ev]
    /\ UNCHANGED <<executors, now, completed, pc, current, wake, shutdown, sent>>

\* The count of the event's source is met: the event is dropped.
PopCounted(k) ==
    /\ pc = "pop" /\ ~ shutdown
    /\ Earliest(k)
    /\ CountMet(source(k))
    /\ heap' = [heap EXCEPT ![k] = Empty]
    /\ UNCHANGED <<executors, now, completed, pc, current, wake, shutdown, sent>>

\* A zero amount: the event is replaced at once.
PopZero(k) ==
    /\ pc = "pop" /\ ~ shutdown
    /\ Earliest(k)
    /\ ~ CountMet(source(k))
    /\ heap[k].amount = 0
    /\ \E ev \in generate_payment(completed[source(k)], Tracked(source(k)), now) :
          heap' = [heap EXCEPT ![k] = ev]
    /\ UNCHANGED <<executors, now, completed, pc, current, wake, shutdown, sent>>

Pop(k) ==
    /\ pc = "pop" /\ ~ shutdown
    /\ Earliest(k)
    /\ executors[Tracked(source(k))].count = None => heap[k].execution_time <= Horizon
    /\ ~ CountMet(source(k))
    /\ heap[k].amount # 0
    /\ completed' = [completed EXCEPT ![source(k)] = @ + 1]
    /\ current' = k
    /\ wake' = now + wait_time(k)
    /\ pc' = "sleep"
    /\ UNCHANGED <<executors, now, heap, shutdown, sent>>

\* The sleep is over: queue the source's next event and spawn the payment.
Dispatch ==
    /\ pc = "sleep" /\ ~ shutdown
    /\ now' \in IF wake = now THEN {now} ELSE wake .. wake + Overshoot
    /\ sent' = Append(sent, [slot |-> current, made_by |-> heap[current].made_by,
                             due |-> heap[current].execution_time, at |-> now'])
    /\ \E ev \in generate_payment(completed[source(current)],
                                  Tracked(source(current)), now') :
          heap' = [heap EXCEPT ![current] = ev]
    /\ current' = 0
    /\ pc' = "pop"
    /\ UNCHANGED <<executors, completed, wake, shutdown>>

\* A generator fails, after a zero amount or after the sleep.
GenerateFails ==
    /\ ~ shutdown
    /\ \/ pc = "sleep" /\ executors[Tracked(source(current))].fails
       \/ /\ pc = "pop"
          /\ \E k \in Id : /\ Earliest(k)
                           /\ ~ CountMet(source(k))
                           /\ heap[k].amount = 0
                           /\ executors[Tracked(source(k))].fails
    /\ now' = IF pc = "sleep" THEN wake ELSE now
    /\ Ends
    /\ UNCHANGED <<executors, heap, completed, wake, sent>>

\* The heap is empty: the task ends and fires the trigger.
Exhausted ==
    /\ pc = "pop" /\ ~ shutdown
    /\ Queued = {}
    /\ Ends
    /\ UNCHANGED <<executors, now, heap, completed, wake, sent>>

Shutdown ==
    /\ ~ shutdown
    /\ shutdown' = TRUE
    /\ UNCHANGED <<executors, now, heap, completed, pc, current, wake, sent>>

\* Both select! calls look at the listener first.
Stop ==
    /\ pc # "ended" /\ shutdown
    /\ Ends
    /\ UNCHANGED <<executors, now, heap, completed, wake, sent>>

-----------------------------------------------------------------------------
TaskStep ==
    \/ \E k \in Id : PopCounted(k) \/ PopZero(k) \/ Pop(k)
    \/ Dispatch \/ GenerateFails \/ Exhausted \/ Stop

Next == TaskStep \/ Shutdown

Spec == Init /\ [][Next]_vars

\* The runtime polls the task, and a sleep ends.
FairSpec == Spec /\ WF_vars(TaskStep)

-----------------------------------------------------------------------------
TypeOK ==
    /\ executors \in Configuration
    /\ now \in Nat
    /\ heap \in [Id -> Event \cup {Empty}]
    /\ completed \in [Source -> Nat]
    /\ pc \in {"pop", "sleep", "ended"}
    /\ current \in Id \cup {0}
    /\ current # 0 <=> pc = "sleep"
    /\ wake \in Nat
    /\ pc = "sleep" => wake >= now
    /\ shutdown \in BOOLEAN
    /\ \A i \in DOMAIN sent : sent[i] \in [slot : Id, made_by : Id, due : Int, at : Nat]

(***************************************************************************)
(* One task sleeping for one event at a time, in whole seconds, delays no  *)
(* other event: every payment goes out within half a second of its time,   *)
(* plus what a sleep may overshoot, however many sources there are.        *)
(***************************************************************************)
Punctual ==
    \A i \in DOMAIN sent :
        /\ 2 * (sent[i].due - sent[i].at) <= Second
        /\ 2 * (sent[i].at - sent[i].due) <= Second + 2 * Overshoot

PaymentsOf(e) == {i \in DOMAIN sent : sent[i].made_by = e}

(***************************************************************************)
(* An activity makes no more payments than its count, and when the         *)
(* producer runs out of events every activity has made exactly its own     *)
(* ("count": the total number of payments to send).                        *)
(***************************************************************************)
ActivityHonoured ==
    \A e \in Id :
        executors[e].count # None =>
            /\ Cardinality(PaymentsOf(e)) <= executors[e].count
            /\ ~ shutdown /\ pc = "pop" /\ Queued = {} =>
                   Cardinality(PaymentsOf(e)) = executors[e].count

(***************************************************************************)
(* When every activity has a count, the producer comes to an end by        *)
(* itself, which is what ends the simulation.                              *)
(***************************************************************************)
CountedEnds == (\A e \in Id : executors[e].count # None) => <>(pc = "ended")

===============================================================================
