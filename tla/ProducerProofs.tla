---------------------------- MODULE ProducerProofs ----------------------------
(***************************************************************************)
(* TypeOK, Punctual and ActivityHonoured of PaymentProducer, for any       *)
(* number of activities, any waits and amounts, any length of a second and *)
(* any overshoot of a sleep.                                               *)
(*                                                                         *)
(* That one task keeps all sources on time rests on the order of the heap: *)
(* while it sleeps for the earliest event, no other event is due before,   *)
(* so that no event in the heap is ever overdue by more than one sleep was *)
(* rounded up and took too long (OnTime).  ActivityHonoured is proved for  *)
(* the configurations in which no two activities have one source; with     *)
(* two it fails, as the run producer_shared shows.                         *)
(***************************************************************************)
EXTENDS PaymentProducer, FiniteSetTheorems, WellFoundedInduction, TLAPS

-----------------------------------------------------------------------------
(* The inductive invariants.                                               *)

Sent == [slot : Id, made_by : Id, due : Int, at : Nat]

\* The type invariant, with the payments sent as a sequence.
TypeInv == TypeOK /\ sent \in Seq(Sent)

Waiting == {j \in Id : heap[j] # Empty}

Overdue(j, t) == 2 * (t - heap[j].execution_time)

\* No event is overdue by more than half a second and an overshoot, nor will
\* any be when the sleep ends.
OnTime ==
    /\ pc # "ended" => \A j \in Waiting : Overdue(j, now) <= Second + 2 * Overshoot
    /\ pc = "sleep" =>
          /\ heap[current] # Empty
          /\ - Overdue(current, wake) <= Second
          /\ wake > now => \A j \in Waiting : Overdue(j, wake) <= Second

\* payments_tracker has one activity per source.
OneEach == \A d, e \in Id : executors[d].source = executors[e].source => d = e

\* The payment that is counted but not sent yet.
Ahead(e) == IF pc = "sleep" /\ current = e THEN 1 ELSE 0

\* A slot keeps the events of its own executor, the tracker counts what was
\* sent and what is being waited for, and a slot is emptied when the count
\* is met.
CountInv ==
    /\ \A e \in Waiting : heap[e].made_by = e
    /\ \A e \in Id :
         /\ Cardinality(PaymentsOf(e)) + Ahead(e) <= completed[source(e)]
         /\ ~ shutdown => Cardinality(PaymentsOf(e)) + Ahead(e) = completed[source(e)]
         /\ executors[e].count # None => completed[source(e)] <= executors[e].count
         /\ e \notin Waiting => executors[e].count = completed[source(e)]

-----------------------------------------------------------------------------
(* The operators of the model.                                             *)

\* A set of natural numbers has a least member.
LEMMA LeastNat ==
  ASSUME NEW U, U \subseteq Nat, U # {}
  PROVE  \E x \in U : \A y \in U : x <= y
  <1> DEFINE less == {ss \in Nat \X Nat : ss[1] < ss[2]}
  <1>1. IsWellFoundedOn(less, Nat)
    BY NatLessThanWellFounded, Zenon DEF OpToRel
  <1>2. PICK x \in U : \A y \in U : <<y, x>> \notin less
    BY <1>1, WFMin, Zenon
  <1>3. ASSUME NEW y \in U, y < x PROVE FALSE
    <2>1. <<y, x>> \in Nat \X Nat /\ <<y, x>>[1] = y /\ <<y, x>>[2] = x
      OBVIOUS
    <2>2. <<y, x>> \in less
      BY <1>3, <2>1
    <2>3. QED BY <1>2, <2>2
  <1>4. QED BY <1>3

\* The executors and their fields.
LEMMA Executors ==
  ASSUME TypeOK
  PROVE  /\ executors \in Seq(Executor) /\ Id = 1 .. Len(executors) /\ Len(executors) \in Nat
         /\ \A e \in Id : executors[e] \in Executor /\ source(e) \in Source
         /\ 0 \notin Id /\ Id \subseteq Nat
  BY ProducerAssumption DEF TypeOK, Id, Source, source

\* payments_tracker has an executor for every source.
LEMMA TrackedIs ==
  ASSUME TypeOK, NEW s \in Source
  PROVE  /\ Tracked(s) \in Id /\ executors[Tracked(s)].source = s
         /\ \A d \in Id : executors[d].source = s => d <= Tracked(s)
  <1> DEFINE all == {d \in Id : executors[d].source = s}
             n == Len(executors)
  <1>1. Id = 1 .. n /\ n \in Nat
    BY Executors
  <1>2. {n - d : d \in all} \subseteq Nat /\ {n - d : d \in all} # {}
    BY <1>1 DEF Source, source
  <1>3. PICK x \in {n - d : d \in all} : \A y \in {n - d : d \in all} : x <= y
    BY <1>2, LeastNat
  <1>4. PICK e \in all : x = n - e
    BY <1>3
  <1>5. \A d \in all : n - e <= n - d
    BY <1>3, <1>4
  <1>6. \A d \in all : d <= e
    BY <1>1, <1>5
  <1>7. \E m \in Id : /\ executors[m].source = s
                     /\ \A d \in Id : executors[d].source = s => d <= m
    BY <1>6
  <1>8. QED BY <1>7 DEF Tracked

\* An event that is generated is due now or later.
LEMMA Generated ==
  ASSUME TypeOK, NEW calls \in Nat, NEW e \in Id, NEW t \in Nat,
         NEW ev \in generate_payment(calls, e, t)
  PROVE  /\ ev \in Event /\ ev # Empty /\ ev.made_by = e /\ ev.execution_time >= t
  <1>1. /\ executors[e] \in Executor /\ 0 \notin Id
    BY Executors
  <1>2. \A w \in get_payment_delay(calls, e) : w \in Nat
    BY <1>1 DEF get_payment_delay, Executor
  <1>3. PICK w \in get_payment_delay(calls, e), a \in executors[e].amounts :
             ev = [made_by |-> e, execution_time |-> t + w * Second, amount |-> a]
    BY DEF generate_payment
  <1>4. w * Second \in Nat
    BY <1>2, <1>3, ProducerAssumption
  <1>5. a \in Nat
    BY <1>1, <1>3 DEF Executor
  <1>6. ev.made_by = e /\ ev.execution_time = t + w * Second /\ ev.amount = a
    BY <1>3
  <1>7. ev \in Event
    BY <1>3, <1>4, <1>5 DEF Event
  <1>8. ev # Empty
    BY <1>1, <1>6 DEF Empty
  <1>9. QED BY <1>4, <1>6, <1>7, <1>8

\* Rounding to whole seconds is off by half a second at most.
LEMMA Rounded ==
  ASSUME NEW x \in Nat, NEW s \in Nat \ {0}
  PROVE  LET w == ((2 * x + s) \div (2 * s)) * s
         IN  w \in Nat /\ 2 * w <= 2 * x + s /\ 2 * x - 2 * w <= s
  <1> DEFINE q == (2 * x + s) \div (2 * s)
  <1>1. \A a \in Nat, b \in Nat \ {0} : a \div b \in Nat /\ b * (a \div b) <= a /\ a < b * (a \div b) + b
    OBVIOUS
  <1>2. 2 * x + s \in Nat /\ 2 * s \in Nat \ {0}
    OBVIOUS
  <1>3. q \in Nat /\ (2 * s) * q <= 2 * x + s /\ 2 * x + s < (2 * s) * q + 2 * s
    BY <1>1, <1>2
  <1> HIDE DEF q
  <1>4. q * s \in Nat /\ (2 * s) * q = 2 * (q * s)
    BY <1>3
  <1>5. 2 * (q * s) <= 2 * x + s /\ 2 * x - 2 * (q * s) <= s
    BY <1>3, <1>4
  <1>6. QED BY <1>4, <1>5 DEF q

-----------------------------------------------------------------------------
(* Types.                                                                  *)

\* Every executor has its first event.
LEMMA InitType == Init => TypeInv /\ Waiting = Id /\ \A e \in Id : heap[e].made_by = e
  <1> SUFFICES ASSUME Init
               PROVE  TypeInv /\ Waiting = Id /\ \A e \in Id : heap[e].made_by = e
    OBVIOUS
  <1>1. executors \in Seq(Executor) /\ Id = 1 .. Len(executors)
    BY ProducerAssumption DEF Init, Id
  <1>2. ASSUME NEW e \in Id
        PROVE  heap[e] \in Event /\ heap[e] # Empty /\ heap[e].made_by = e
    <2>1. PICK w \in get_payment_delay(0, e), a \in executors[e].amounts :
               heap[e] = [made_by |-> e, execution_time |-> 0 + w * Second, amount |-> a]
      BY DEF Init, generate_payment
    <2>2. w \in Nat /\ a \in Nat
      <3>1. executors[e] \in Executor
        BY <1>1
      <3>2. QED BY <2>1, <3>1 DEF get_payment_delay, Executor
    <2>3. 0 + w * Second \in Int
      BY <2>2, ProducerAssumption
    <2>4. heap[e] \in Event /\ heap[e].made_by = e
      BY <2>1, <2>2, <2>3 DEF Event
    <2>5. QED BY <1>1, <2>4 DEF Empty
  <1>3. heap \in [Id -> Event \cup {Empty}]
    BY <1>2 DEF Init
  <1>4. completed \in [Source -> Nat] /\ sent = <<>>
    BY DEF Init
  <1>5. TypeOK
    <2>1. executors \in Configuration /\ now \in Nat /\ wake \in Nat
      BY DEF Init
    <2>2. current = 0 /\ pc = "pop" /\ shutdown \in BOOLEAN
      BY DEF Init
    <2>3. \A i \in DOMAIN sent : sent[i] \in [slot : Id, made_by : Id, due : Int, at : Nat]
      BY <1>4
    <2>4. QED BY <1>3, <1>4, <2>1, <2>2, <2>3 DEF TypeOK
  <1>6. sent \in Seq(Sent)
    BY <1>4
  <1>7. QED BY <1>2, <1>5, <1>6 DEF TypeInv, Waiting

\* The executors do not change, and neither does what is defined from them.
LEMMA SameExecutors ==
  ASSUME UNCHANGED executors
  PROVE  UNCHANGED <<Id, Source, Event, Sent>> /\ \A e : source(e)' = source(e) /\ \A s : Tracked(s)' = Tracked(s)
  BY DEF Id, Source, Event, Sent, source, Tracked

\* The sleep that Pop asks for ends at or after now.
LEMMA WaitTime ==
  ASSUME TypeOK, NEW k \in Waiting
  PROVE  /\ wait_time(k) \in Nat
         /\ 2 * (heap[k].execution_time - (now + wait_time(k))) <= Second
         /\ wait_time(k) > 0 => 2 * (now + wait_time(k) - heap[k].execution_time) <= Second
  <1>1. heap[k].execution_time \in Int /\ now \in Nat /\ Second \in Nat \ {0}
    BY ProducerAssumption DEF Waiting, TypeOK, Event
  <1> DEFINE x == heap[k].execution_time - now
  <1>2. x \in Int
    BY <1>1
  <1>3. CASE x < 0
    <2>1. wait_time(k) = 0
      BY <1>3 DEF wait_time
    <2>2. QED BY <1>1, <1>3, <2>1
  <1>4. CASE x >= 0
    <2>1. x \in Nat
      BY <1>2, <1>4
    <2>2. PICK w : w = ((2 * x + Second) \div (2 * Second)) * Second
      OBVIOUS
    <2>3. wait_time(k) = w
      BY <1>2, <1>4, <2>2 DEF wait_time
    <2>4. w \in Nat /\ 2 * w <= 2 * x + Second /\ 2 * x - 2 * w <= Second
      BY <1>1, <2>1, <2>2, Rounded
    <2>5. QED BY <1>1, <2>3, <2>4
  <1>5. QED BY <1>2, <1>3, <1>4

\* A queued event is one that is waiting.
LEMMA EarliestWaits ==
  ASSUME TypeOK, NEW k, Earliest(k)
  PROVE  /\ k \in Waiting /\ k \in Id /\ source(k) \in Source /\ heap[k] \in Event
         /\ Tracked(source(k)) \in Id /\ completed[source(k)] \in Nat
  <1>1. k \in Waiting /\ k \in Id /\ heap[k] \in Event
    BY DEF Earliest, Queued, Waiting, TypeOK
  <1>2. source(k) \in Source
    BY <1>1 DEF Source
  <1>3. QED BY <1>1, <1>2, TrackedIs DEF TypeOK

\* The event that is slept for.
LEMMA CurrentIs ==
  ASSUME TypeOK, pc = "sleep"
  PROVE  /\ current \in Id /\ source(current) \in Source /\ Tracked(source(current)) \in Id
         /\ completed[source(current)] \in Nat
  <1>1. current \in Id
    BY DEF TypeOK
  <1>2. source(current) \in Source
    BY <1>1 DEF Source
  <1>3. QED BY <1>1, <1>2, TrackedIs DEF TypeOK

\* A slot gets a new event, or none.
LEMMA SlotType ==
  ASSUME TypeOK, NEW k \in Id, NEW ev \in Event \cup {Empty}
  PROVE  /\ [heap EXCEPT ![k] = ev] \in [Id -> Event \cup {Empty}]
         /\ \A j \in Id : [heap EXCEPT ![k] = ev][j] = IF j = k THEN ev ELSE heap[j]
  BY DEF TypeOK

\* The sleep ends at wake or, if it was one, up to Overshoot later.
LEMMA DispatchTime ==
  ASSUME TypeOK, Dispatch
  PROVE  now' \in Nat /\ now' >= wake /\ (wake = now => now' = now) /\ now' <= wake + Overshoot
  <1>1. now \in Nat /\ wake \in Nat /\ Overshoot \in Nat
    BY ProducerAssumption DEF TypeOK
  <1>2. now' \in IF wake = now THEN {now} ELSE wake .. wake + Overshoot
    BY DEF Dispatch
  <1>3. QED BY <1>1, <1>2

\* What Dispatch sends, and the event it puts in its place.
LEMMA DispatchSends ==
  ASSUME TypeInv, Dispatch, heap[current] # Empty
  PROVE  /\ \E r \in Sent : /\ sent' = Append(sent, r) /\ r.made_by = heap[current].made_by
                            /\ r.due = heap[current].execution_time /\ r.at = now'
         /\ sent' \in Seq(Sent)
         /\ \E ev \in Event : /\ heap' = [heap EXCEPT ![current] = ev] /\ ev # Empty
                              /\ ev.made_by = Tracked(source(current)) /\ ev.execution_time >= now'
  <1>1. /\ current \in Id /\ source(current) \in Source /\ Tracked(source(current)) \in Id
        /\ completed[source(current)] \in Nat
    BY CurrentIs DEF Dispatch, TypeInv
  <1>2. now' \in Nat
    BY DispatchTime DEF TypeInv
  <1>3. PICK r : r = [slot |-> current, made_by |-> heap[current].made_by,
                      due |-> heap[current].execution_time, at |-> now']
    OBVIOUS
  <1>4. heap[current] \in Event
    BY <1>1 DEF TypeInv, TypeOK
  <1>5. r \in Sent
    BY <1>1, <1>2, <1>3, <1>4 DEF Sent, Event
  <1>6. sent' = Append(sent, r)
    BY <1>3 DEF Dispatch
  <1>7. sent' \in Seq(Sent)
    BY <1>5, <1>6 DEF TypeInv
  <1>8. PICK ev \in generate_payment(completed[source(current)], Tracked(source(current)), now') :
             heap' = [heap EXCEPT ![current] = ev]
    BY DEF Dispatch
  <1>9. /\ ev \in Event /\ ev # Empty /\ ev.made_by = Tracked(source(current))
        /\ ev.execution_time >= now'
    BY <1>1, <1>2, <1>8, Generated DEF TypeInv
  <1>10. QED BY <1>3, <1>5, <1>6, <1>7, <1>8, <1>9

\* An event that is popped is the earliest one in the heap.
LEMMA EarliestFirst ==
  ASSUME TypeOK, pc = "pop", NEW k, Earliest(k)
  PROVE  \A j \in Waiting : heap[k].execution_time <= heap[j].execution_time
  <1>1. current = 0
    BY DEF TypeOK
  <1>2. ASSUME NEW j \in Waiting
        PROVE  heap[k].execution_time <= heap[j].execution_time
    <2>1. j \in Id /\ heap[j] \in Event /\ j # current
      BY <1>1, Executors DEF Waiting, TypeOK
    <2>2. j \in Queued
      BY <2>1 DEF Queued, Waiting
    <2>3. Before(k, j)
      BY <2>2 DEF Earliest
    <2>4. heap[k] \in Event
      BY EarliestWaits
    <2>5. heap[k].execution_time \in Int /\ heap[j].execution_time \in Int
      BY <2>1, <2>4 DEF Event
    <2>6. QED BY <2>3, <2>5 DEF Before
  <1>3. QED BY <1>2

\* PopCounted empties a slot, PopZero fills it again with an event that is
\* due now or later.
LEMMA PopReplaces ==
  ASSUME TypeOK, NEW k \in Id, PopCounted(k) \/ PopZero(k)
  PROVE  \E ev \in Event \cup {Empty} :
            /\ heap' = [heap EXCEPT ![k] = ev]
            /\ ev # Empty => /\ ev \in Event /\ ev.made_by = Tracked(source(k))
                             /\ ev.execution_time >= now
            /\ ev = Empty => CountMet(source(k))
  <1>1. CASE PopCounted(k)
    BY <1>1 DEF PopCounted
  <1>2. CASE PopZero(k)
    <2>1. PICK ev \in generate_payment(completed[source(k)], Tracked(source(k)), now) :
               heap' = [heap EXCEPT ![k] = ev]
      BY <1>2 DEF PopZero
    <2>2. Earliest(k) /\ now \in Nat
      BY <1>2 DEF PopZero, TypeOK
    <2>3. Tracked(source(k)) \in Id /\ completed[source(k)] \in Nat
      BY <2>2, EarliestWaits
    <2>4. ev \in Event /\ ev # Empty /\ ev.made_by = Tracked(source(k)) /\ ev.execution_time >= now
      BY <2>1, <2>2, <2>3, Generated
    <2>5. QED BY <2>1, <2>4
  <1>3. QED BY <1>1, <1>2

\* Every step keeps the types.
LEMMA StepType ==
  ASSUME TypeInv, OnTime, [Next]_vars
  PROVE  TypeInv'
  <1>0. TypeOK /\ sent \in Seq(Sent)
    BY DEF TypeInv
  <1>1. UNCHANGED executors
    BY DEF Next, TaskStep, PopCounted, PopZero, Pop, Dispatch, GenerateFails, Exhausted, Stop,
           Shutdown, vars
  <1>2. UNCHANGED <<Id, Source, Event, Sent>> /\ UNCHANGED Empty
    BY <1>1, SameExecutors DEF Empty
  <1>3. sent' \in Seq(Sent)
    <2>1. CASE Dispatch
      <3>1. heap[current] # Empty
        BY <2>1 DEF Dispatch, OnTime
      <3>2. sent' \in Seq(Sent)
        BY <2>1, <3>1, DispatchSends
      <3>3. QED BY <3>2
    <2>2. CASE ~ Dispatch
      <3>1. UNCHANGED sent
        BY <2>2 DEF Next, TaskStep, PopCounted, PopZero, Pop, GenerateFails, Exhausted, Stop,
               Shutdown, vars
      <3>2. QED BY <1>0, <3>1
    <2>3. QED BY <2>1, <2>2
  <1>4. \A i \in DOMAIN sent' : sent'[i] \in Sent
    BY <1>3
  <1>5. heap' \in [Id -> Event \cup {Empty}]
    <2>1. CASE Dispatch
      <3>1. heap[current] # Empty /\ current \in Id
        BY <1>0, <2>1, CurrentIs DEF Dispatch, OnTime
      <3>2. PICK ev \in Event : heap' = [heap EXCEPT ![current] = ev]
        BY <2>1, <3>1, DispatchSends
      <3>3. QED BY <1>0, <3>1, <3>2, SlotType
    <2>2. ASSUME NEW k \in Id, PopCounted(k) \/ PopZero(k)
          PROVE  heap' \in [Id -> Event \cup {Empty}]
      <3>1. PICK ev \in Event \cup {Empty} : heap' = [heap EXCEPT ![k] = ev]
        BY <1>0, <2>2, PopReplaces
      <3>2. QED BY <1>0, <3>1, SlotType
    <2>3. CASE UNCHANGED heap
      BY <1>0, <2>3 DEF TypeOK
    <2>4. QED
      BY <2>1, <2>2, <2>3 DEF Next, TaskStep, Pop, GenerateFails, Exhausted, Stop, Shutdown, vars
  <1>6. completed' \in [Source -> Nat]
    <2>1. ASSUME NEW k \in Id, Pop(k)
          PROVE  completed' \in [Source -> Nat]
      <3>1. source(k) \in Source /\ completed[source(k)] \in Nat
        BY <1>0, <2>1, EarliestWaits DEF Pop
      <3>2. completed' = [completed EXCEPT ![source(k)] = completed[source(k)] + 1]
        BY <2>1 DEF Pop
      <3>3. QED BY <1>0, <3>1, <3>2 DEF TypeOK
    <2>2. CASE UNCHANGED completed
      BY <1>0, <2>2 DEF TypeOK
    <2>3. QED
      BY <2>1, <2>2 DEF Next, TaskStep, PopCounted, PopZero, Dispatch, GenerateFails, Exhausted,
         Stop, Shutdown, vars
  <1>7. /\ now' \in Nat /\ wake' \in Nat /\ (pc' = "sleep" => wake' >= now')
        /\ pc' \in {"pop", "sleep", "ended"} /\ shutdown' \in BOOLEAN
        /\ current' \in Id \cup {0} /\ (current' # 0 <=> pc' = "sleep")
    <2> USE <1>0
    <2>0. /\ now \in Nat /\ wake \in Nat /\ (pc = "sleep" => wake >= now)
          /\ pc \in {"pop", "sleep", "ended"} /\ shutdown \in BOOLEAN
          /\ current \in Id \cup {0} /\ (current # 0 <=> pc = "sleep") /\ 0 \notin Id
      BY Executors DEF TypeOK
    <2>1. ASSUME NEW k \in Id, PopCounted(k) \/ PopZero(k)
          PROVE  UNCHANGED <<now, wake, pc, shutdown, current>>
      BY <2>1 DEF PopCounted, PopZero
    <2>2. ASSUME NEW k \in Id, Pop(k)
          PROVE  /\ now' \in Nat /\ wake' \in Nat /\ (pc' = "sleep" => wake' >= now')
                 /\ pc' \in {"pop", "sleep", "ended"} /\ shutdown' \in BOOLEAN
                 /\ current' \in Id \cup {0} /\ (current' # 0 <=> pc' = "sleep")
      <3>1. k \in Waiting
        BY <2>2, EarliestWaits DEF Pop
      <3>2. wait_time(k) \in Nat
        BY <3>1, WaitTime
      <3>3. now' = now /\ wake' = now + wait_time(k) /\ pc' = "sleep" /\ current' = k /\ shutdown' = shutdown
        BY <2>2 DEF Pop
      <3>4. QED BY <2>0, <3>2, <3>3
    <2>3. CASE Dispatch
      <3>1. now' \in Nat
        BY <2>3, DispatchTime
      <3>2. wake' = wake /\ pc' = "pop" /\ current' = 0 /\ shutdown' = shutdown
        BY <2>3 DEF Dispatch
      <3>3. QED BY <2>0, <3>1, <3>2
    <2>4. CASE GenerateFails \/ Exhausted \/ Stop
      <3>1. /\ now' = now \/ now' = wake
            /\ wake' = wake /\ pc' = "ended" /\ current' = 0 /\ shutdown' = TRUE
        BY <2>4 DEF GenerateFails, Exhausted, Stop, Ends
      <3>2. now' \in Nat
        BY <2>0, <3>1
      <3>3. QED BY <2>0, <3>1, <3>2
    <2>5. CASE Shutdown
      <3>1. UNCHANGED <<now, wake, pc, current>> /\ shutdown' = TRUE
        BY <2>5 DEF Shutdown
      <3>2. QED BY <2>0, <3>1
    <2>6. CASE UNCHANGED <<now, wake, pc, shutdown, current>>
      BY <2>0, <2>6
    <2>7. QED
      BY <2>1, <2>2, <2>3, <2>4, <2>5, <2>6 DEF Next, TaskStep, vars
  <1>8. executors' \in Configuration
    BY <1>0, <1>1 DEF TypeOK
  <1>9. TypeOK'
    BY <1>2, <1>4, <1>5, <1>6, <1>7, <1>8 DEF TypeOK, Sent
  <1>10. QED BY <1>2, <1>3, <1>9 DEF TypeInv

-----------------------------------------------------------------------------
(* Punctuality.                                                            *)

\* The first events are due now or later.
LEMMA InitOnTime == Init => OnTime
  <1> SUFFICES ASSUME Init PROVE OnTime
    OBVIOUS
  <1>1. TypeOK /\ now = 0 /\ pc = "pop"
    BY InitType DEF Init, TypeInv
  <1>2. ASSUME NEW j \in Waiting
        PROVE  Overdue(j, now) <= Second + 2 * Overshoot
    <2>1. j \in Id /\ heap[j] \in generate_payment(0, j, 0)
      BY DEF Waiting, Init
    <2>2. heap[j] \in Event /\ heap[j].execution_time >= 0
      BY <1>1, <2>1, Generated
    <2>3. heap[j].execution_time \in Int
      BY <2>2 DEF Event
    <2>4. QED BY <1>1, <2>2, <2>3, ProducerAssumption DEF Overdue
  <1>3. QED BY <1>1, <1>2 DEF OnTime

\* A slot is refilled with an event that is due at t or later, or emptied:
\* no event is overdue at t if none was.
LEMMA RefillOnTime ==
  ASSUME TypeOK, NEW k \in Id, NEW ev \in Event \cup {Empty}, heap' = [heap EXCEPT ![k] = ev],
         UNCHANGED executors, NEW t \in Nat, ev # Empty => ev \in Event /\ ev.execution_time >= t,
         \A j \in Waiting : Overdue(j, t) <= Second + 2 * Overshoot
  PROVE  \A j \in Waiting' : 2 * (t - heap'[j].execution_time) <= Second + 2 * Overshoot
  <1> SUFFICES ASSUME NEW j \in Waiting'
               PROVE  2 * (t - heap'[j].execution_time) <= Second + 2 * Overshoot
    OBVIOUS
  <1>1. j \in Id /\ heap'[j] # Empty
    BY SameExecutors DEF Waiting, Empty
  <1>2. heap'[j] = IF j = k THEN ev ELSE heap[j]
    BY <1>1, SlotType
  <1>3. CASE j = k
    <2>1. ev \in Event /\ ev.execution_time >= t
      BY <1>1, <1>2, <1>3
    <2>2. ev.execution_time \in Int
      BY <2>1 DEF Event
    <2>3. QED BY <1>2, <1>3, <2>1, <2>2, ProducerAssumption
  <1>4. CASE j # k
    <2>1. j \in Waiting
      BY <1>1, <1>2, <1>4 DEF Waiting
    <2>2. QED BY <1>2, <1>4, <2>1 DEF Overdue
  <1>5. QED BY <1>3, <1>4

\* When the sleep ends no event is overdue.
LEMMA DispatchOnTime ==
  ASSUME TypeOK, OnTime, Dispatch
  PROVE  /\ \A j \in Waiting : Overdue(j, now') <= Second + 2 * Overshoot
         /\ 2 * (heap[current].execution_time - now') <= Second
         /\ current \in Waiting
  <1>1. pc = "sleep" /\ now \in Nat /\ wake \in Nat /\ wake >= now /\ Overshoot \in Nat /\ Second \in Nat
    BY ProducerAssumption DEF Dispatch, TypeOK
  <1>2. now' \in Nat /\ now' >= wake /\ (wake = now => now' = now) /\ now' <= wake + Overshoot
    BY DispatchTime
  <1>3. current \in Waiting
    BY <1>1, CurrentIs DEF OnTime, Waiting
  <1>4. \A j \in Waiting : heap[j].execution_time \in Int
    BY DEF Waiting, TypeOK, Event
  <1>5. ASSUME NEW j \in Waiting
        PROVE  Overdue(j, now') <= Second + 2 * Overshoot
    <2>1. CASE wake = now
      <3>1. Overdue(j, now) <= Second + 2 * Overshoot
        BY <1>1 DEF OnTime
      <3>2. QED BY <1>2, <2>1, <3>1
    <2>2. CASE wake > now
      <3>1. Overdue(j, wake) <= Second
        BY <1>1, <2>2 DEF OnTime
      <3>2. QED BY <1>1, <1>2, <1>4, <3>1 DEF Overdue
    <2>3. QED BY <1>1, <2>1, <2>2
  <1>6. 2 * (heap[current].execution_time - now') <= Second
    <2>1. - Overdue(current, wake) <= Second
      BY <1>1 DEF OnTime
    <2>2. heap[current].execution_time \in Int
      BY <1>3, <1>4
    <2>3. QED BY <1>1, <1>2, <2>1, <2>2 DEF Overdue
  <1>7. QED BY <1>3, <1>5, <1>6

\* No step makes an event late: a sleep ends before any other event is due,
\* and what is pushed is due when it is pushed or later.
LEMMA StepOnTime ==
  ASSUME TypeInv, OnTime, [Next]_vars
  PROVE  OnTime'
  <1>0. TypeOK /\ TypeOK' /\ now \in Nat
    BY StepType DEF TypeInv, TypeOK
  <1>1. UNCHANGED executors
    BY DEF Next, TaskStep, PopCounted, PopZero, Pop, Dispatch, GenerateFails, Exhausted, Stop,
           Shutdown, vars
  <1>2. ASSUME NEW k \in Id, PopCounted(k) \/ PopZero(k)
        PROVE  OnTime'
    <2>1. PICK ev \in Event \cup {Empty} :
             /\ heap' = [heap EXCEPT ![k] = ev]
             /\ ev # Empty => ev \in Event /\ ev.execution_time >= now
      BY <1>0, <1>2, PopReplaces
    <2>2. pc = "pop" /\ pc' = "pop" /\ now' = now
      BY <1>2 DEF PopCounted, PopZero
    <2>3. \A j \in Waiting : Overdue(j, now) <= Second + 2 * Overshoot
      BY <2>2 DEF OnTime
    <2>4. \A j \in Waiting' : 2 * (now - heap'[j].execution_time) <= Second + 2 * Overshoot
      BY <1>0, <1>1, <2>1, <2>3, RefillOnTime
    <2>5. QED BY <2>2, <2>4 DEF OnTime, Overdue
  <1>3. ASSUME NEW k \in Id, Pop(k)
        PROVE  OnTime'
    <2>1. pc = "pop" /\ Earliest(k) /\ now' = now /\ heap' = heap /\ wake' = now + wait_time(k)
          /\ current' = k /\ pc' = "sleep"
      BY <1>3 DEF Pop
    <2>2. Waiting' = Waiting /\ k \in Waiting
      BY <1>0, <1>1, <2>1, EarliestWaits, SameExecutors DEF Waiting, Empty
    <2>3. \A j \in Waiting : heap[j].execution_time \in Int /\ heap[j] # Empty
      BY <1>0 DEF Waiting, TypeOK, Event
    <2>4. \A j \in Waiting : heap[k].execution_time <= heap[j].execution_time
      BY <1>0, <2>1, EarliestFirst
    <2>5. /\ wait_time(k) \in Nat
          /\ 2 * (heap[k].execution_time - (now + wait_time(k))) <= Second
          /\ wait_time(k) > 0 => 2 * (now + wait_time(k) - heap[k].execution_time) <= Second
      BY <1>0, <2>2, WaitTime
    <2> HIDE DEF wait_time
    <2>6. PICK w \in Nat : w = wait_time(k)
      BY <2>5
    <2>7. \A j \in Waiting' : 2 * (now' - heap'[j].execution_time) <= Second + 2 * Overshoot
      BY <2>1, <2>2 DEF OnTime, Overdue
    <2>8. 2 * (heap[k].execution_time - (now + w)) <= Second
      BY <2>5, <2>6
    <2>9. - (2 * ((now + w) - heap[k].execution_time)) <= Second
      BY <1>0, <2>2, <2>3, <2>8
    <2>10. ASSUME now + w > now, NEW j \in Waiting
           PROVE  2 * ((now + w) - heap[j].execution_time) <= Second
      <3>1. w > 0
        BY <1>0, <2>10
      <3>2. 2 * ((now + w) - heap[k].execution_time) <= Second
        BY <1>0, <2>2, <2>3, <2>5, <2>6, <3>1
      <3>3. /\ heap[k].execution_time \in Int /\ heap[j].execution_time \in Int
            /\ heap[k].execution_time <= heap[j].execution_time /\ Second \in Nat
        BY <2>2, <2>3, <2>4, ProducerAssumption
      <3>4. QED BY <1>0, <3>2, <3>3
    <2>11. wake' = now + w /\ heap'[current'] = heap[k] /\ heap[k] # Empty
      BY <2>1, <2>2, <2>3, <2>6
    <2>12. UNCHANGED Empty
      BY DEF Empty
    <2>13. QED BY <2>1, <2>2, <2>7, <2>9, <2>10, <2>11, <2>12 DEF OnTime, Overdue
  <1>4. CASE Dispatch
    <2>1. current \in Waiting /\ \A j \in Waiting : Overdue(j, now') <= Second + 2 * Overshoot
      BY <1>0, <1>4, DispatchOnTime
    <2>2. PICK ev \in Event : /\ heap' = [heap EXCEPT ![current] = ev] /\ ev.execution_time >= now'
      BY <1>4, <2>1, DispatchSends DEF Waiting
    <2>3. now' \in Nat /\ current \in Id
      BY <1>0, <1>4, <2>1, DispatchTime DEF Waiting
    <2>4. \A j \in Waiting' : 2 * (now' - heap'[j].execution_time) <= Second + 2 * Overshoot
      BY <1>0, <1>1, <2>1, <2>2, <2>3, RefillOnTime
    <2>5. pc' = "pop"
      BY <1>4 DEF Dispatch
    <2>6. QED BY <2>4, <2>5 DEF OnTime, Overdue
  <1>5. CASE GenerateFails \/ Exhausted \/ Stop
    <2>1. pc' = "ended"
      BY <1>5 DEF GenerateFails, Exhausted, Stop, Ends
    <2>2. QED BY <2>1 DEF OnTime
  <1>6. CASE Shutdown \/ UNCHANGED vars
    <2>1. UNCHANGED <<executors, now, heap, pc, current, wake>>
      BY <1>6 DEF Shutdown, vars
    <2>2. QED BY <2>1 DEF OnTime, Waiting, Overdue, Id, Empty
  <1>7. QED BY <1>2, <1>3, <1>4, <1>5, <1>6 DEF Next, TaskStep

\* A payment that is sent was on time when its sleep ended.
LEMMA StepPunctual ==
  ASSUME TypeInv, OnTime, Punctual, [Next]_vars
  PROVE  Punctual'
  <1>1. CASE Dispatch
    <2>1. /\ \A j \in Waiting : Overdue(j, now') <= Second + 2 * Overshoot
          /\ 2 * (heap[current].execution_time - now') <= Second
          /\ current \in Waiting
      BY <1>1, DispatchOnTime DEF TypeInv
    <2>2. PICK r \in Sent : /\ sent' = Append(sent, r)
                            /\ r.due = heap[current].execution_time /\ r.at = now'
      BY <1>1, <2>1, DispatchSends DEF Waiting
    <2>3. 2 * (r.due - r.at) <= Second /\ 2 * (r.at - r.due) <= Second + 2 * Overshoot
      BY <2>1, <2>2 DEF Overdue
    <2>4. \A i \in DOMAIN sent' : (i \in DOMAIN sent /\ sent'[i] = sent[i]) \/ sent'[i] = r
      BY <2>2 DEF TypeInv
    <2>5. QED BY <2>3, <2>4 DEF Punctual
  <1>2. CASE UNCHANGED sent
    BY <1>2 DEF Punctual
  <1>3. QED
    BY <1>1, <1>2 DEF Next, TaskStep, PopCounted, PopZero, Pop, GenerateFails, Exhausted, Stop,
       Shutdown, vars

-----------------------------------------------------------------------------
(* Counts.                                                                 *)

\* With one activity per source, the tracker of a source is its activity's.
LEMMA OwnTracker ==
  ASSUME TypeOK, OneEach, NEW e \in Id
  PROVE  /\ source(e) \in Source /\ Tracked(source(e)) = e /\ completed[source(e)] \in Nat
         /\ \A d \in Id : d # e => source(d) # source(e)
         /\ executors[e].count \in Nat \cup {None}
  <1>1. source(e) \in Source /\ executors[e] \in Executor
    BY Executors
  <1>2. Tracked(source(e)) \in Id /\ executors[Tracked(source(e))].source = executors[e].source
    BY <1>1, TrackedIs DEF source
  <1>3. Tracked(source(e)) = e
    BY <1>2 DEF OneEach
  <1>4. \A d \in Id : d # e => source(d) # source(e)
    BY DEF OneEach, source
  <1>5. QED BY <1>1, <1>3, <1>4 DEF TypeOK, Executor

\* The payments of an activity are finitely many.
LEMMA PaymentsFinite ==
  ASSUME sent \in Seq(Sent), NEW e
  PROVE  IsFiniteSet(PaymentsOf(e)) /\ Cardinality(PaymentsOf(e)) \in Nat
  <1>1. Len(sent) \in Nat /\ DOMAIN sent = 1 .. Len(sent)
    OBVIOUS
  <1>2. IsFiniteSet(1 .. Len(sent))
    BY <1>1, FS_Interval
  <1>3. PaymentsOf(e) \subseteq 1 .. Len(sent)
    BY <1>1 DEF PaymentsOf
  <1>4. QED BY <1>2, <1>3, FS_Subset, FS_CardinalityType

\* One payment more is one more of its activity, and none of the others.
LEMMA PaymentAdded ==
  ASSUME sent \in Seq(Sent), NEW r \in Sent, sent' = Append(sent, r), NEW e
  PROVE  Cardinality(PaymentsOf(e)') = Cardinality(PaymentsOf(e)) + (IF r.made_by = e THEN 1 ELSE 0)
  <1> DEFINE n == Len(sent) + 1
  <1>1. /\ n \in Nat /\ DOMAIN sent = 1 .. Len(sent) /\ DOMAIN sent' = DOMAIN sent \cup {n}
        /\ n \notin DOMAIN sent /\ sent'[n] = r /\ \A i \in DOMAIN sent : sent'[i] = sent[i]
    OBVIOUS
  <1>2. IsFiniteSet(PaymentsOf(e)) /\ Cardinality(PaymentsOf(e)) \in Nat
    BY PaymentsFinite
  <1> HIDE DEF n
  <1>3. CASE r.made_by = e
    <2>1. PaymentsOf(e)' = PaymentsOf(e) \cup {n} /\ n \notin PaymentsOf(e)
      BY <1>1, <1>3 DEF PaymentsOf
    <2>2. Cardinality(PaymentsOf(e) \cup {n}) = Cardinality(PaymentsOf(e)) + 1
      BY <1>2, <2>1, FS_AddElement
    <2>3. QED BY <1>3, <2>1, <2>2
  <1>4. CASE r.made_by # e
    <2>1. PaymentsOf(e)' = PaymentsOf(e)
      BY <1>1, <1>4 DEF PaymentsOf
    <2>2. QED BY <1>2, <1>4, <2>1
  <1>5. QED BY <1>3, <1>4

\* Nothing is counted and nothing is sent.
LEMMA InitCount == Init => CountInv
  <1> SUFFICES ASSUME Init PROVE CountInv
    OBVIOUS
  <1>1. Waiting = Id /\ (\A e \in Id : heap[e].made_by = e) /\ TypeOK
    BY InitType DEF TypeInv
  <1>2. pc = "pop" /\ sent = <<>> /\ \A e \in Id : completed[source(e)] = 0
    BY <1>1, Executors DEF Init
  <1>3. \A e \in Id : PaymentsOf(e) = {}
    BY <1>2 DEF PaymentsOf
  <1>4. \A e \in Id : Cardinality(PaymentsOf(e)) = 0 /\ Ahead(e) = 0
    BY <1>2, <1>3, FS_EmptySet DEF Ahead
  <1>5. \A e \in Id : executors[e].count # None => executors[e].count \in Nat
    BY <1>1, Executors DEF Executor
  <1>6. QED BY <1>1, <1>2, <1>4, <1>5 DEF CountInv

\* The counts of one activity.
CountOf(e, paid, done) ==
    /\ paid + Ahead(e) <= done
    /\ ~ shutdown => paid + Ahead(e) = done
    /\ executors[e].count # None => done <= executors[e].count
    /\ e \notin Waiting => executors[e].count = done

\* A payment is counted when it is popped and sent when its sleep ends.
LEMMA StepCount ==
  ASSUME TypeInv, OnTime, OneEach, CountInv, [Next]_vars
  PROVE  CountInv'
  <1>0. TypeOK /\ sent \in Seq(Sent) /\ TypeOK' /\ sent' \in Seq(Sent')
    BY StepType DEF TypeInv
  <1>1. UNCHANGED executors
    BY DEF Next, TaskStep, PopCounted, PopZero, Pop, Dispatch, GenerateFails, Exhausted, Stop,
           Shutdown, vars
  <1>2. /\ Id' = Id /\ Empty' = Empty /\ \A e \in Id : source(e)' = source(e)
        /\ \A e \in Id : executors'[e] = executors[e]
    BY <1>1, SameExecutors DEF Empty
  <1>3. \A e \in Id : CountOf(e, Cardinality(PaymentsOf(e)), completed[source(e)])
    BY DEF CountInv, CountOf
  <1>4. \A e \in Waiting : heap[e].made_by = e
    BY DEF CountInv
  <1>5. \A e \in Id : Cardinality(PaymentsOf(e)) \in Nat /\ completed[source(e)] \in Nat
    BY <1>0, PaymentsFinite, OwnTracker
  <1>6. SUFFICES /\ \A e \in Waiting' : heap'[e].made_by = e
                 /\ \A e \in Id : CountOf(e, Cardinality(PaymentsOf(e)), completed[source(e)])'
    BY <1>2 DEF CountInv, CountOf
  <1>7. ASSUME NEW k \in Id, PopCounted(k) \/ PopZero(k)
        PROVE  /\ \A e \in Waiting' : heap'[e].made_by = e
               /\ \A e \in Id : CountOf(e, Cardinality(PaymentsOf(e)), completed[source(e)])'
    <2>1. PICK ev \in Event \cup {Empty} :
             /\ heap' = [heap EXCEPT ![k] = ev]
             /\ ev # Empty => ev \in Event /\ ev.made_by = Tracked(source(k))
             /\ ev = Empty => CountMet(source(k))
      BY <1>0, <1>7, PopReplaces
    <2>2. UNCHANGED <<completed, pc, current, shutdown, sent>>
      BY <1>7 DEF PopCounted, PopZero
    <2>3. Tracked(source(k)) = k
      BY <1>0, OwnTracker
    <2>4. \A j \in Id : heap'[j] = IF j = k THEN ev ELSE heap[j]
      BY <1>0, <2>1, SlotType
    <2>5. \A j \in Id : j # k => (j \in Waiting' <=> j \in Waiting)
      BY <1>2, <2>4 DEF Waiting
    <2>6. \A e \in Waiting' : heap'[e].made_by = e
      BY <1>2, <1>4, <2>1, <2>3, <2>4, <2>5 DEF Waiting
    <2>7. k \notin Waiting' => executors[k].count = completed[source(k)]
      BY <1>2, <2>1, <2>3, <2>4 DEF Waiting, CountMet
    <2>8. \A e \in Id : Ahead(e)' = Ahead(e) /\ PaymentsOf(e)' = PaymentsOf(e)
                        /\ completed'[source(e)'] = completed[source(e)]
      BY <1>2, <2>2 DEF Ahead, PaymentsOf
    <2>9. ASSUME NEW e \in Id
          PROVE  CountOf(e, Cardinality(PaymentsOf(e)), completed[source(e)])'
      <3>1. Ahead(e)' = Ahead(e) /\ PaymentsOf(e)' = PaymentsOf(e)
            /\ completed'[source(e)'] = completed[source(e)] /\ executors'[e] = executors[e]
            /\ shutdown' = shutdown
        BY <1>2, <2>2, <2>8
      <3>2. e \notin Waiting' => executors[e].count = completed[source(e)]
        BY <1>3, <2>5, <2>7 DEF CountOf
      <3>3. QED BY <1>3, <3>1, <3>2 DEF CountOf
    <2>10. QED BY <2>6, <2>9
  <1>8. ASSUME NEW k \in Id, Pop(k)
        PROVE  /\ \A e \in Waiting' : heap'[e].made_by = e
               /\ \A e \in Id : CountOf(e, Cardinality(PaymentsOf(e)), completed[source(e)])'
    <2>1. /\ pc = "pop" /\ Earliest(k) /\ heap' = heap /\ current' = k /\ pc' = "sleep"
          /\ ~ CountMet(source(k)) /\ UNCHANGED <<shutdown, sent>>
          /\ completed' = [completed EXCEPT ![source(k)] = completed[source(k)] + 1]
      BY <1>8 DEF Pop
    <2>2. k \in Waiting /\ Waiting' = Waiting
      BY <1>0, <1>2, <2>1, EarliestWaits DEF Waiting
    <2>3. Tracked(source(k)) = k /\ source(k) \in Source /\ completed \in [Source -> Nat]
          /\ executors[k].count \in Nat \cup {None}
      BY <1>0, OwnTracker DEF TypeOK
    <2>4. executors[k].count # completed[source(k)]
      BY <2>1, <2>3 DEF CountMet
    <2>5. ASSUME NEW e \in Id
          PROVE  CountOf(e, Cardinality(PaymentsOf(e)), completed[source(e)])'
      <3>1. PaymentsOf(e)' = PaymentsOf(e) /\ executors'[e] = executors[e] /\ shutdown' = shutdown
        BY <1>2, <2>1 DEF PaymentsOf
      <3>2. Ahead(e) = 0 /\ Ahead(e)' = IF e = k THEN 1 ELSE 0
        BY <2>1 DEF Ahead
      <3>3. CASE e = k
        <4>1. completed'[source(e)'] = completed[source(e)] + 1
          BY <1>2, <2>1, <2>3, <3>3
        <4>2. executors[e].count # None => completed[source(e)] + 1 <= executors[e].count
          BY <1>3, <1>5, <2>3, <2>4, <3>3 DEF CountOf
        <4>3. QED BY <1>3, <1>5, <2>2, <3>1, <3>2, <3>3, <4>1, <4>2 DEF CountOf
      <3>4. CASE e # k
        <4>1. source(e) # source(k) /\ source(e) \in Source
          BY <1>0, <3>4, OwnTracker
        <4>2. completed'[source(e)'] = completed[source(e)]
          BY <1>2, <2>1, <2>3, <4>1
        <4>3. QED BY <1>3, <1>5, <2>2, <3>1, <3>2, <3>4, <4>2 DEF CountOf
      <3>5. QED BY <3>3, <3>4
    <2>6. QED BY <1>4, <2>1, <2>2, <2>5
  <1>9. CASE Dispatch
    <2>1. pc = "sleep" /\ pc' = "pop" /\ UNCHANGED <<completed, shutdown>> /\ ~ shutdown
      BY <1>9 DEF Dispatch
    <2>2. current \in Waiting /\ current \in Id /\ Tracked(source(current)) = current
      BY <1>0, <2>1, CurrentIs, OwnTracker DEF OnTime, Waiting
    <2>3. PICK r \in Sent : sent' = Append(sent, r) /\ r.made_by = heap[current].made_by
      BY <1>9, <2>2, DispatchSends DEF Waiting
    <2>4. PICK ev \in Event : /\ heap' = [heap EXCEPT ![current] = ev] /\ ev # Empty
                              /\ ev.made_by = Tracked(source(current))
      BY <1>9, <2>2, DispatchSends DEF Waiting
    <2>5. \A j \in Id : heap'[j] = IF j = current THEN ev ELSE heap[j]
      BY <1>0, <2>2, <2>4, SlotType
    <2>6. Waiting' = Waiting
      BY <1>2, <2>2, <2>4, <2>5 DEF Waiting
    <2>7. \A e \in Waiting' : heap'[e].made_by = e
      BY <1>4, <2>2, <2>4, <2>5, <2>6 DEF Waiting
    <2>8. r.made_by = current
      BY <1>4, <2>2, <2>3
    <2>9. ASSUME NEW e \in Id
          PROVE  CountOf(e, Cardinality(PaymentsOf(e)), completed[source(e)])'
      <3>1. Cardinality(PaymentsOf(e)') = Cardinality(PaymentsOf(e)) + (IF current = e THEN 1 ELSE 0)
        BY <1>0, <2>3, <2>8, PaymentAdded
      <3>2. Ahead(e) = (IF current = e THEN 1 ELSE 0) /\ Ahead(e)' = 0
        BY <2>1 DEF Ahead
      <3>3. completed'[source(e)'] = completed[source(e)] /\ executors'[e] = executors[e]
        BY <1>2, <2>1
      <3>4. Cardinality(PaymentsOf(e)') = completed[source(e)]
        BY <1>3, <1>5, <2>1, <3>1, <3>2 DEF CountOf
      <3>5. QED BY <1>3, <1>5, <2>1, <2>6, <3>2, <3>3, <3>4 DEF CountOf
    <2>10. QED BY <2>7, <2>9
  <1>10. CASE GenerateFails \/ Exhausted \/ Stop \/ Shutdown \/ UNCHANGED vars
    <2>1. /\ UNCHANGED <<heap, completed, sent>>
          /\ \/ pc' = "ended" /\ shutdown' = TRUE
             \/ UNCHANGED <<pc, current>> /\ (shutdown' = TRUE \/ shutdown' = shutdown)
      BY <1>10 DEF GenerateFails, Exhausted, Stop, Shutdown, Ends, vars
    <2>2. Waiting' = Waiting
      BY <1>2, <2>1 DEF Waiting
    <2>3. ASSUME NEW e \in Id
          PROVE  CountOf(e, Cardinality(PaymentsOf(e)), completed[source(e)])'
      <3>1. /\ PaymentsOf(e)' = PaymentsOf(e) /\ completed'[source(e)'] = completed[source(e)]
            /\ executors'[e] = executors[e]
        BY <1>2, <2>1 DEF PaymentsOf
      <3>2. Ahead(e)' \in {0, 1} /\ Ahead(e)' <= Ahead(e) /\ Ahead(e) \in {0, 1}
            /\ (~ shutdown' => Ahead(e)' = Ahead(e) /\ ~ shutdown)
        BY <2>1 DEF Ahead
      <3>3. QED BY <1>3, <1>5, <2>2, <3>1, <3>2 DEF CountOf
    <2>4. QED BY <1>4, <2>1, <2>2, <2>3
  <1>11. QED BY <1>7, <1>8, <1>9, <1>10 DEF Next, TaskStep

\* What the counts say of the payments.
LEMMA CountsHonour ==
  ASSUME TypeInv, OneEach, CountInv
  PROVE  ActivityHonoured
  <1> SUFFICES ASSUME NEW e \in Id, executors[e].count # None
               PROVE  /\ Cardinality(PaymentsOf(e)) <= executors[e].count
                      /\ ~ shutdown /\ pc = "pop" /\ Queued = {} =>
                             Cardinality(PaymentsOf(e)) = executors[e].count
    BY DEF ActivityHonoured
  <1>1. /\ Cardinality(PaymentsOf(e)) \in Nat /\ completed[source(e)] \in Nat
        /\ executors[e].count \in Nat /\ Ahead(e) \in {0, 1}
    BY PaymentsFinite, OwnTracker DEF TypeInv, Ahead
  <1>2. Cardinality(PaymentsOf(e)) <= executors[e].count
    BY <1>1 DEF CountInv
  <1>3. ASSUME ~ shutdown, pc = "pop", Queued = {}
        PROVE  Cardinality(PaymentsOf(e)) = executors[e].count
    <2>1. e # current
      BY <1>3, Executors DEF TypeInv, TypeOK
    <2>2. e \notin Waiting
      BY <1>3, <2>1 DEF Queued, Waiting
    <2>3. Ahead(e) = 0
      BY <1>3 DEF Ahead
    <2>4. QED BY <1>1, <1>3, <2>2, <2>3 DEF CountInv
  <1>4. QED BY <1>2, <1>3

-----------------------------------------------------------------------------
(* The theorems.                                                           *)

(***************************************************************************)
(* TypeOK: among the rest, the task waits for an event of the heap exactly *)
(* while it sleeps, and never for a time that is past.                     *)
(***************************************************************************)
THEOREM ProducerTyped == Spec => []TypeOK
  <1>1. Init => TypeInv /\ OnTime
    BY InitType, InitOnTime
  <1>2. TypeInv /\ OnTime /\ [Next]_vars => TypeInv' /\ OnTime'
    BY StepType, StepOnTime
  <1>3. TypeInv => TypeOK
    BY DEF TypeInv
  <1>4. QED BY <1>1, <1>2, <1>3, PTL DEF Spec

(***************************************************************************)
(* Punctual: one task that sleeps for one event at a time sends every      *)
(* payment within half a second of its time, plus one overshoot, however   *)
(* many activities there are and whatever they wait.                       *)
(***************************************************************************)
THEOREM ProducerPunctual == Spec => []Punctual
  <1>1. Init => TypeInv /\ OnTime /\ Punctual
    BY InitType, InitOnTime DEF Init, Punctual
  <1>2. TypeInv /\ OnTime /\ Punctual /\ [Next]_vars => TypeInv' /\ OnTime' /\ Punctual'
    BY StepType, StepOnTime, StepPunctual
  <1>3. QED BY <1>1, <1>2, PTL DEF Spec

\* No two activities of a configuration have one source.
DistinctSources ==
    \A c \in Configuration : \A d, e \in DOMAIN c : c[d].source = c[e].source => d = e

(***************************************************************************)
(* ActivityHonoured: an activity with a count makes that many payments and *)
(* no more, if it is the only one of its source.                           *)
(***************************************************************************)
THEOREM CountsHonoured ==
  ASSUME DistinctSources
  PROVE  Spec => []ActivityHonoured
  <1> DEFINE Inv == TypeInv /\ OnTime /\ OneEach /\ CountInv
  <1>1. Init => Inv
    <2>1. Init => OneEach
      BY DEF Init, DistinctSources, OneEach, Id
    <2>2. QED BY <2>1, InitType, InitOnTime, InitCount
  <1>2. Inv /\ [Next]_vars => Inv'
    <2>1. ASSUME Inv, [Next]_vars PROVE OneEach'
      <3>1. UNCHANGED executors
        BY <2>1 DEF Next, TaskStep, PopCounted, PopZero, Pop, Dispatch, GenerateFails, Exhausted,
           Stop, Shutdown, vars
      <3>2. QED BY <2>1, <3>1 DEF OneEach, Id
    <2>2. QED BY <2>1, StepType, StepOnTime, StepCount
  <1>3. Inv => ActivityHonoured
    BY CountsHonour
  <1>4. QED BY <1>1, <1>2, <1>3, PTL DEF Spec

===============================================================================
