--------------------------- MODULE InterceptorProofs ---------------------------
(***************************************************************************)
(* VerdictIsUnanimous and ReturnsLast of Interceptors, for any number of   *)
(* interceptors, any records and any order of the answers.                 *)
(*                                                                         *)
(* The verdict is given in one step but made up over all of them: the      *)
(* invariant says what the handler knows of the answers it has joined.     *)
(***************************************************************************)
EXTENDS Interceptors, TLAPS

\* Every answer joined so far was a proceed or a failure, failures are
\* remembered, and the attached records agree with those of each proceed.
SoFar ==
    /\ \A i \in joined : task[i].kind = "proceed" \/ (failure /\ task[i].kind = "fail")
    /\ failure => \E i \in joined : task[i].kind = "fail"
    /\ \A i \in joined : task[i].kind = "proceed" =>
          \A k \in Key : task[i].records[k] \in {NoRecord, attached[k]}

IInv ==
    /\ TypeOK
    /\ pc \in {"start", "wait"} => SoFar
    /\ pc = "drain" => shutdown
    /\ VerdictIsUnanimous
    /\ ReturnsLast

\* An answer is none of the two states of a task without one.
LEMMA AnswerType ==
  ASSUME NEW a \in Answer
  PROVE  /\ a # Running /\ a # Pending
         /\ a.kind \in {"proceed", "fail", "critical", "panic"} /\ a.records \in CustomRecords
  BY DEF Answer, Running, Pending, CustomRecords, Empty

\* What the handler returns is an answer.
LEMMA Returned ==
  ASSUME NEW records \in CustomRecords
  PROVE  /\ [kind |-> "proceed", records |-> records] \in Answer
         /\ [kind |-> "fail", records |-> Empty] \in Answer
         /\ [kind |-> "critical", records |-> Empty] \in Answer
  BY DEF Answer, Empty, CustomRecords

\* The invariant holds initially.
LEMMA InitIInv == Init => IInv
  <1> SUFFICES ASSUME Init PROVE IInv
    OBVIOUS
  <1>1. TypeOK
    BY DEF Init, TypeOK, CustomRecords, Empty, Finished
  <1>2. QED BY <1>1 DEF Init, IInv, SoFar, VerdictIsUnanimous, ReturnsLast

\* An interceptor answers: nothing is known of it yet.
LEMMA FinishIInv ==
  ASSUME IInv, NEW i \in Interceptor, NEW a \in Answer, Finish(i, a)
  PROVE  IInv'
  <1>1. i \notin joined /\ \A j \in joined : task'[j] = task[j]
    BY DEF IInv, TypeOK, Finish, Finished
  <1>2. TypeOK'
    BY <1>1, AnswerType DEF IInv, TypeOK, Finish, Finished
  <1>3. SoFar => SoFar'
    BY <1>1 DEF SoFar, Finish
  <1>4. QED BY <1>2, <1>3 DEF IInv, Finish, VerdictIsUnanimous, ReturnsLast

\* The handler joins one more answer.
LEMMA JoinIInv ==
  ASSUME IInv, NEW i \in Interceptor, Join(i)
  PROVE  IInv'
  <1>1. /\ SoFar /\ pc = "wait" /\ task[i] \in Answer
        /\ task[i].records \in CustomRecords /\ attached \in CustomRecords
    BY AnswerType DEF IInv, TypeOK, Join, Finished
  <1>2. CASE pc' = "returned" /\ result' = [kind |-> "critical", records |-> Empty]
             /\ UNCHANGED <<attached, failure, triggered>>
    <2>1. TypeOK'
      BY <1>1, <1>2, Returned DEF IInv, TypeOK, Join, Finished
    <2>2. QED BY <1>2, <2>1 DEF IInv, Join, VerdictIsUnanimous, ReturnsLast
  <1>3. CASE task[i].kind = "proceed" /\ ~ Conflict(task[i].records)
             /\ attached' = Merge(task[i].records) /\ UNCHANGED <<pc, result, failure, triggered>>
    <2>1. attached' \in CustomRecords
      BY <1>1, <1>3 DEF Merge, CustomRecords
    <2>2. TypeOK'
      BY <1>3, <2>1 DEF IInv, TypeOK, Join, Finished
    <2>3. \A k \in Key : /\ attached[k] # NoRecord => attached'[k] = attached[k]
                         /\ task[i].records[k] \in {NoRecord, attached'[k]}
      BY <1>1, <1>3 DEF Merge, Conflict, CustomRecords
    <2>4. SoFar'
      BY <1>1, <1>3, <2>3 DEF SoFar, Join
    <2>5. QED BY <1>1, <1>3, <2>2, <2>4 DEF IInv, Join, VerdictIsUnanimous, ReturnsLast
  <1>4. CASE task[i].kind = "fail" /\ JoinFail /\ UNCHANGED attached
    <2>1. TypeOK'
      BY <1>4 DEF IInv, TypeOK, Join, JoinFail, Finished
    <2>2. SoFar'
      BY <1>1, <1>4 DEF SoFar, Join, JoinFail
    <2>3. QED BY <1>1, <1>4, <2>1, <2>2 DEF IInv, Join, JoinFail, VerdictIsUnanimous, ReturnsLast
  <1>5. QED BY <1>2, <1>3, <1>4 DEF Join, JoinProceed, Return

\* The handler has joined every answer and gives its verdict.
LEMMA JoinedAllIInv ==
  ASSUME IInv, JoinedAll
  PROVE  IInv'
  <1>1. TypeOK'
    BY Returned DEF IInv, TypeOK, JoinedAll, Return, Finished
  <1>2. SoFar /\ joined = Interceptor /\ UNCHANGED <<task, failure, shutdown, joined>>
    BY DEF IInv, JoinedAll
  <1>3. CASE failure
    BY <1>1, <1>2, <1>3 DEF IInv, JoinedAll, Return, SoFar, VerdictIsUnanimous, ReturnsLast
  <1>4. CASE ~ failure
    <2>1. pc' = "returned" /\ result' = [kind |-> "proceed", records |-> attached]
      BY <1>4 DEF JoinedAll, Return
    <2>2. \A i \in Interceptor : task[i].kind = "proceed"
      BY <1>2, <1>4 DEF SoFar
    <2>3. \A i \in Interceptor, k \in Key : task[i].records[k] \in {NoRecord, attached[k]}
      BY <1>2, <2>2 DEF SoFar
    <2>4. ASSUME NEW k \in Key, Interceptor # {}
          PROVE  {attached[k]} \cup {task[i].records[k] : i \in Interceptor}
                   \in {{NoRecord}} \cup {{v} : v \in Value} \cup {{v, NoRecord} : v \in Value}
      <3> DEFINE all == {attached[k]} \cup {task[i].records[k] : i \in Interceptor}
      <3>1. all \subseteq {NoRecord, attached[k]} /\ attached[k] \in all
        BY <2>3
      <3>2. all = {attached[k]} \/ all = {attached[k], NoRecord}
        BY <3>1
      <3>3. attached[k] \in Value \cup {NoRecord}
        BY DEF IInv, TypeOK, CustomRecords
      <3>4. QED BY <3>2, <3>3
    <2>5. VerdictIsUnanimous'
      <3>1. result'.kind = "proceed" /\ result'.records = attached
        BY <2>1
      <3>2. \A k \in Key : attached[k] = NoRecord => \A i \in Interceptor : task[i].records[k] = NoRecord
        BY <2>3
      <3>3. \A k : {result'.records[k]} \cup {task'[i].records[k] : i \in Interceptor}
                    = {attached[k]} \cup {task[i].records[k] : i \in Interceptor}
        BY <1>2, <3>1
      <3>4. QED BY <1>2, <2>2, <2>4, <3>1, <3>2, <3>3 DEF VerdictIsUnanimous
    <2>6. QED BY <1>1, <1>2, <2>1, <2>5 DEF IInv, ReturnsLast
  <1>5. QED BY <1>3, <1>4

\* The other steps of the handler, and the simulation's shutdown.
LEMMA OtherIInv ==
  ASSUME IInv,
         \/ Start \/ SeeShutdown \/ DrainedAll \/ SimulationShutdown \/ UNCHANGED vars
         \/ \E i \in Interceptor : Drain(i)
  PROVE  IInv'
  <1>1. CASE Start
    <2>1. TypeOK'
      BY <1>1, Returned DEF IInv, TypeOK, Start, Return, Finished
    <2>2. SoFar' /\ (Interceptor = {} => joined' = Interceptor)
      BY <1>1 DEF IInv, TypeOK, Start, SoFar, Finished
    <2>3. QED BY <1>1, <2>1, <2>2 DEF IInv, Start, Return, VerdictIsUnanimous, ReturnsLast
  <1>2. CASE SeeShutdown
    BY <1>2 DEF SeeShutdown, IInv, TypeOK, Finished, VerdictIsUnanimous, ReturnsLast
  <1>3. CASE DrainedAll
    <2>1. TypeOK'
      BY <1>3, Returned DEF IInv, TypeOK, DrainedAll, Return, Finished
    <2>2. QED BY <1>3, <2>1 DEF IInv, DrainedAll, Return, VerdictIsUnanimous, ReturnsLast
  <1>4. CASE SimulationShutdown
    BY <1>4 DEF SimulationShutdown, IInv, TypeOK, Finished, SoFar, VerdictIsUnanimous, ReturnsLast
  <1>5. ASSUME NEW i \in Interceptor, Drain(i) PROVE IInv'
    <2>1. TypeOK'
      BY <1>5 DEF Drain, IInv, TypeOK, Finished
    <2>2. pc' = "drain" /\ shutdown'
      BY <1>5 DEF Drain, IInv
    <2>3. QED BY <2>1, <2>2 DEF IInv, VerdictIsUnanimous, ReturnsLast
  <1>6. CASE UNCHANGED vars
    <2>1. TypeOK'
      BY <1>6 DEF vars, IInv, TypeOK, Finished
    <2>2. (SoFar => SoFar') /\ ReturnsLast'
      BY <1>6 DEF vars, IInv, SoFar, ReturnsLast
    <2>3. VerdictIsUnanimous'
      <3>1. pc' = pc /\ shutdown' = shutdown /\ result' = result /\ task' = task
        BY <1>6 DEF vars
      <3>2. \A k : {result'.records[k]} \cup {task'[i].records[k] : i \in Interceptor}
                    = {result.records[k]} \cup {task[i].records[k] : i \in Interceptor}
        BY <3>1
      <3>3. QED BY <3>1, <3>2 DEF IInv, VerdictIsUnanimous
    <2>4. QED BY <1>6, <2>1, <2>2, <2>3 DEF vars, IInv
  <1>7. QED BY <1>1, <1>2, <1>3, <1>4, <1>5, <1>6

\* Every step of the specification preserves the invariant.
LEMMA StepIInv == IInv /\ [Next]_vars => IInv'
  BY FinishIInv, JoinIInv, JoinedAllIInv, OtherIInv DEF Next, HandlerStep

\* The invariant holds in every behaviour.
THEOREM InvariantHolds == Spec => []IInv
  BY InitIInv, StepIInv, PTL DEF Spec

(***************************************************************************)
(* The verdict of handle_intercepted_htlc does not depend on the order of  *)
(* the answers: an HTLC proceeds only if every interceptor let it, with    *)
(* the records they agree on, and fails only if one of them failed it.     *)
(***************************************************************************)
THEOREM VerdictUnanimous == Spec => []VerdictIsUnanimous
  <1>1. IInv => VerdictIsUnanimous
    BY DEF IInv
  <1>2. QED BY <1>1, InvariantHolds, PTL

(***************************************************************************)
(* handle_intercepted_htlc returns with every interceptor's task joined,   *)
(* unless it reports a critical error.                                     *)
(***************************************************************************)
THEOREM HandlerReturnsLast == Spec => []ReturnsLast
  <1>1. IInv => ReturnsLast
    BY DEF IInv
  <1>2. QED BY <1>1, InvariantHolds, PTL

===============================================================================
