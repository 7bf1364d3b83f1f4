------------------------------ MODULE NodeProofs ------------------------------
(***************************************************************************)
(* The nodes of the simulation, the simulated one and the four that are    *)
(* reached over RPC: HashesInUseDiffer, ResultsAreOwn and HolderIsServed   *)
(* of SimNode, for any number of calls with any hashes, and LockDiscipline *)
(* and ResultsAreTrue of RpcNode, for every set of payments and each of    *)
(* the four backends.                                                      *)
(*                                                                         *)
(* SimNode: a hash leaves the in_flight map when the tracking of its       *)
(* payment starts, so that the map alone does not keep a second payment of *)
(* that hash out of the network.  The lock does: whoever took an entry     *)
(* holds it until the payment has reported or the simulation ends.         *)
(*                                                                         *)
(* RpcNode: the two properties are inductive together with the type        *)
(* invariant.  That a poll reports the truth needs nothing but the node's  *)
(* answer, that the hash belongs to a payment the node has is carried from *)
(* send_payment to track_payment, and a call gives the client back on      *)
(* every path because all its exits go through RpcReturn or Again.         *)
(***************************************************************************)
EXTENDS SimNode, RpcNode, TLAPS

-----------------------------------------------------------------------------
(* The simulated node.                                                     *)

\* A call's own variables agree with each other.
CallInv(p) ==
    /\ track[p] # "idle" => send[p] = "ok"
    /\ network[p] # "idle" => send[p] = "ok" /\ route[p] = "one"
    /\ send[p] = "dispatch" => route[p] = "one"
    /\ send[p] # "ok" => oneshot[p] = "empty"
    /\ network[p] = "idle" => oneshot[p] \in {"empty", "RouteNotFound"}
    /\ network[p] = "running" => oneshot[p] = "empty"
    /\ network[p] = "done" => oneshot[p] # "empty"
    /\ send[p] = "ok" /\ network[p] = "idle" => oneshot[p] = "RouteNotFound"
    /\ track[p] # "returned" => result[p] = "none" /\ scored[p] = "none"
    /\ track[p] = "returned" /\ ~ shutdown => network[p] # "running"

\* The map has the payment's entry from the insertion until it is tracked,
\* and no entry under its hash while the payment is being waited for.
EntryInv(p) ==
    /\ in_flight[PaymentHash[p]] = p <=>
          send[p] \in {"dispatch", "ok"} /\ track[p] \in {"idle", "lock"}
    /\ track[p] = "wait" => taken[p] = p /\ in_flight[PaymentHash[p]] = NoPayment

IInv ==
    /\ TypeOK
    /\ \A p \in Payment : CallInv(p)
    /\ \A p \in Payment : EntryInv(p)
    /\ ResultsAreOwn

\* The invariant holds initially.
LEMMA InitIInv == Init => IInv
  <1> SUFFICES ASSUME Init PROVE IInv
    OBVIOUS
  <1>1. TypeOK
    BY NodeAssumption, PaymentAssumption DEF Init, TypeOK
  <1>2. \A p \in Payment : CallInv(p)
    BY DEF Init, CallInv
  <1>3. \A p \in Payment : EntryInv(p)
    BY NodeAssumption, PaymentAssumption DEF Init, EntryInv
  <1>4. ResultsAreOwn
    BY DEF Init, ResultsAreOwn, Outcome
  <1>5. QED BY <1>1, <1>2, <1>3, <1>4 DEF IInv

\* Before a payment is inserted: routes are looked for.
LEMMA RouteIInv ==
  ASSUME IInv, NEW p \in Payment, StartSend(p) \/ FindRoute(p)
  PROVE  IInv'
  <1>1. TypeOK'
    BY DEF IInv, TypeOK, StartSend, FindRoute
  <1>2. \A q \in Payment : CallInv(q)'
    BY DEF IInv, TypeOK, CallInv, StartSend, FindRoute
  <1>3. \A q \in Payment : EntryInv(q)'
    BY DEF IInv, TypeOK, EntryInv, StartSend, FindRoute
  <1>4. ResultsAreOwn'
    BY DEF IInv, ResultsAreOwn, StartSend, FindRoute
  <1>5. QED BY <1>1, <1>2, <1>3, <1>4 DEF IInv

\* send_payment refuses the payment, or inserts and dispatches it.
LEMMA SendPaymentIInv ==
  ASSUME IInv, NEW p \in Payment, SendPayment(p)
  PROVE  IInv'
  <1> USE NodeAssumption, PaymentAssumption
  <1>1. TypeOK'
    BY DEF IInv, TypeOK, SendPayment, Insert, DispatchPayment
  <1>2. \A q \in Payment : CallInv(q)'
    BY DEF IInv, TypeOK, CallInv, SendPayment, Insert, DispatchPayment
  <1>3. \A q \in Payment : EntryInv(q)'
    BY DEF IInv, TypeOK, CallInv, EntryInv, SendPayment, Insert, DispatchPayment, HashExists, Unlocked
  <1>4. ResultsAreOwn'
    BY DEF IInv, TypeOK, CallInv, ResultsAreOwn, SendPayment, Outcome
  <1>5. QED BY <1>1, <1>2, <1>3, <1>4 DEF IInv

\* send_to_route refuses the payment, inserts it, or dispatches it.
LEMMA SendToRouteIInv ==
  ASSUME IInv, NEW p \in Payment, SendToRoute(p)
  PROVE  IInv'
  <1> USE NodeAssumption, PaymentAssumption
  <1>1. TypeOK'
    BY DEF IInv, TypeOK, SendToRoute, Insert, DispatchPayment
  <1>2. \A q \in Payment : CallInv(q)'
    BY DEF IInv, TypeOK, CallInv, SendToRoute, Insert, DispatchPayment
  <1>3. \A q \in Payment : EntryInv(q)'
    BY DEF IInv, TypeOK, CallInv, EntryInv, SendToRoute, Insert, DispatchPayment, HashExists, Unlocked
  <1>4. ResultsAreOwn'
    BY DEF IInv, ResultsAreOwn, SendToRoute
  <1>5. QED BY <1>1, <1>2, <1>3, <1>4 DEF IInv

\* The network reports, the simulation shuts down, or nothing happens.
LEMMA OutsideIInv ==
  ASSUME IInv, Shutdown \/ UNCHANGED vars \/ \E p \in Payment : Report(p) \/ StartTrack(p)
  PROVE  IInv'
  <1>1. TypeOK'
    <2>1. CASE Shutdown
      BY <2>1 DEF IInv, TypeOK, Shutdown
    <2>2. CASE UNCHANGED vars
      BY <2>2 DEF IInv, TypeOK, vars
    <2>3. ASSUME NEW p \in Payment, Report(p) PROVE TypeOK'
      BY <2>3 DEF IInv, TypeOK, Report
    <2>4. ASSUME NEW p \in Payment, StartTrack(p) PROVE TypeOK'
      BY <2>4 DEF IInv, TypeOK, StartTrack
    <2>5. QED BY <2>1, <2>2, <2>3, <2>4
  <1>2. \A q \in Payment : CallInv(q)'
    BY DEF IInv, TypeOK, CallInv, Shutdown, Report, StartTrack, vars, Outcome
  <1>3. \A q \in Payment : EntryInv(q)'
    BY DEF IInv, TypeOK, EntryInv, Shutdown, Report, StartTrack, vars
  <1>4. ResultsAreOwn'
    BY DEF IInv, TypeOK, CallInv, ResultsAreOwn, Shutdown, Report, StartTrack, vars, Outcome
  <1>5. QED BY <1>1, <1>2, <1>3, <1>4 DEF IInv

\* A call that starts to wait takes its own entry: the map has one.
LEMMA TakeIInv ==
  ASSUME IInv, NEW p \in Payment, TakeInFlight(p)
  PROVE  IInv'
  <1> USE NodeAssumption, PaymentAssumption
  <1>1. in_flight[PaymentHash[p]] = p /\ send[p] = "ok" /\ lock = NoPayment
    BY DEF IInv, CallInv, EntryInv, TakeInFlight, Unlocked
  <1>2. /\ in_flight' = [in_flight EXCEPT ![PaymentHash[p]] = NoPayment]
        /\ taken' = [taken EXCEPT ![p] = p]
        /\ lock' = p
        /\ track' = [track EXCEPT ![p] = "wait"]
        /\ UNCHANGED <<shutdown, route, send, network, oneshot, scored, result>>
    BY <1>1 DEF TakeInFlight, HashExists
  <1>3. TypeOK'
    BY <1>1, <1>2 DEF IInv, TypeOK
  <1>4. \A q \in Payment : CallInv(q)'
    BY <1>1, <1>2 DEF IInv, TypeOK, CallInv, TakeInFlight
  <1>5. \A q \in Payment : EntryInv(q)'
    BY <1>1, <1>2 DEF IInv, TypeOK, EntryInv
  <1>6. ResultsAreOwn'
    BY <1>2 DEF IInv, ResultsAreOwn
  <1>7. QED BY <1>3, <1>4, <1>5, <1>6 DEF IInv

\* A call that waits returns its own payment's result, and unlocks the map.
LEMMA ReturnIInv ==
  ASSUME IInv, NEW p \in Payment, TrackStops(p) \/ TrackResult(p)
  PROVE  IInv'
  <1>1. taken[p] = p /\ track[p] = "wait" /\ lock = p /\ send[p] = "ok"
        /\ lock' = NoPayment /\ track' = [track EXCEPT ![p] = "returned"]
        /\ UNCHANGED <<shutdown, in_flight, route, send, network, oneshot, taken>>
    BY DEF IInv, TypeOK, CallInv, EntryInv, TrackStops, TrackResult, Return
  <1>2. \/ /\ shutdown /\ result' = [result EXCEPT ![p] = "err"] /\ scored' = scored
        \/ /\ oneshot[p] = "closed" /\ result' = [result EXCEPT ![p] = "err"] /\ scored' = scored
        \/ /\ oneshot[p] \in Outcome \cup {"RouteNotFound"}
           /\ result' = [result EXCEPT ![p] = oneshot[p]]
           /\ scored' = IF oneshot[p] \in {"Success", "IndexFailure"}
                        THEN [scored EXCEPT ![p] = oneshot[p]] ELSE scored
    BY <1>1 DEF IInv, TypeOK, CallInv, TrackStops, TrackResult, Return, Outcome
  <1>3. shutdown \/ network[p] # "running"
    BY <1>1 DEF IInv, CallInv, TrackStops, TrackResult
  <1>4. TypeOK'
    BY <1>1, <1>2, NodeAssumption, PaymentAssumption DEF IInv, TypeOK, Outcome
  <1>5. \A q \in Payment : CallInv(q)'
    BY <1>1, <1>2, <1>3 DEF IInv, TypeOK, CallInv
  <1>6. \A q \in Payment : EntryInv(q)'
    BY <1>1, NodeAssumption, PaymentAssumption DEF IInv, TypeOK, EntryInv
  <1>7. ResultsAreOwn'
    BY <1>1, <1>2 DEF IInv, TypeOK, CallInv, ResultsAreOwn, Outcome
  <1>8. QED BY <1>4, <1>5, <1>6, <1>7 DEF IInv

\* Every step of the specification preserves the invariant.
LEMMA StepIInv == IInv /\ [Next]_vars => IInv'
  BY RouteIInv, SendPaymentIInv, SendToRouteIInv, OutsideIInv, TakeIInv, ReturnIInv
  DEF Next, SendStep, TrackStep

\* The invariant holds in every behaviour.
THEOREM InvariantHolds == Spec => []IInv
  BY InitIInv, StepIInv, PTL DEF Spec

(***************************************************************************)
(* send_payment and send_to_route never put two payments of one hash into  *)
(* the network, as long as nobody asks for a shutdown: of two such         *)
(* payments at most one has the entry of the map, at most one holds the    *)
(* lock, and while one holds it the hash has no entry.                     *)
(***************************************************************************)
THEOREM HashesDiffer == Spec => []HashesInUseDiffer
  <1>1. IInv => HashesInUseDiffer
    <2> SUFFICES ASSUME IInv, ~ shutdown, NEW p \in Payment, NEW q \in Payment,
                        network[p] = "running", network[q] = "running",
                        PaymentHash[p] = PaymentHash[q]
                 PROVE  p = q
      BY DEF HashesInUseDiffer
    <2>1. ASSUME NEW r \in Payment, network[r] = "running"
          PROVE  \/ in_flight[PaymentHash[r]] = r
                 \/ lock = r /\ in_flight[PaymentHash[r]] = NoPayment
      BY <2>1 DEF IInv, TypeOK, CallInv, EntryInv
    <2>2. QED BY <2>1, NodeAssumption, PaymentAssumption
  <1>2. QED BY <1>1, InvariantHolds, PTL

(***************************************************************************)
(* track_payment returns the outcome of the payment it is asked for and of *)
(* no other one, and an error only for one that was not reported.          *)
(***************************************************************************)
THEOREM TrackedResultsAreOwn == Spec => []ResultsAreOwn
  <1>1. IInv => ResultsAreOwn
    BY DEF IInv
  <1>2. QED BY <1>1, InvariantHolds, PTL

(***************************************************************************)
(* The safety half of "every call returns": for any number of calls with   *)
(* any hashes, a track_payment that holds the lock waits for the network   *)
(* only, never for a call that waits for the lock.                         *)
(***************************************************************************)
THEOREM LockHolderServed == Spec => []HolderIsServed
  <1>1. IInv => HolderIsServed
    <2> SUFFICES ASSUME IInv, NEW p \in Payment, lock = p
                 PROVE  taken[p] = p /\ (network[p] = "running" \/ oneshot[p] # "empty")
      BY DEF HolderIsServed
    <2>1. track[p] = "wait" /\ network[p] \in {"idle", "running", "done"}
      BY DEF IInv, TypeOK
    <2>2. QED BY <2>1 DEF IInv, CallInv, EntryInv
  <1>2. QED BY <1>1, InvariantHolds, PTL

-----------------------------------------------------------------------------
(* The nodes that are reached over RPC.  The two specifications share the  *)
(* variables of LightningNode, and no theorem is about both.               *)

\* Between the two requests of eclair's send_payment the node has the payment.
ConfirmedIsHeld == \A p \in Payment : call[p] = "confirming" => server[p] # "none"

\* ldk's client has no lock that a call could wait for.
AcquiresALock == \A p \in Payment : call[p] \in {"send_lock", "track_lock"} => HasLock

RpcInv == /\ RpcTypeOK /\ LockDiscipline /\ ResultsAreTrue
          /\ ConfirmedIsHeld /\ AcquiresALock

\* The three parts of the invariant hold initially.
LEMMA InitRpcInv == RpcInit => RpcInv
  BY PaymentAssumption
  DEF RpcInit, RpcInv, ConfirmedIsHeld, AcquiresALock,
      RpcTypeOK, LockDiscipline, ResultsAreTrue, Requesting, Result, FailureReason, Kind

\* A call that returns leaves the client to others; what it returns has to
\* be true of the payment, and a call that goes on to be tracked has a hash.
LEMMA ReturnRpcInv ==
  ASSUME RpcInv, NEW p \in Payment, NEW step \in {"sent", "done", "panicked"}, NEW r \in Result,
         RpcReturn(p, step, r),
         r = "Success" => server[p] = "succeeded",
         r \in FailureReason => server[p] = "failed",
         r \in {"Hash", "InvalidPaymentHash", "Unknown", "TrackPaymentError"} => server[p] # "none",
         step = "sent" => r = "Hash"
  PROVE  RpcInv'
  <1>1. RpcTypeOK'
    BY DEF RpcInv, RpcTypeOK, RpcReturn, Goto, Released, Requesting
  <1>2. LockDiscipline'
    BY PaymentAssumption DEF RpcInv, RpcTypeOK, LockDiscipline, RpcReturn, Goto, Released, Requesting, HasLock
  <1>3. ResultsAreTrue'
    BY DEF RpcInv, RpcTypeOK, ResultsAreTrue, RpcReturn, Goto
  <1>4. ConfirmedIsHeld'
    BY DEF RpcInv, RpcTypeOK, ConfirmedIsHeld, RpcReturn, Goto
  <1>5. AcquiresALock'
    BY DEF RpcInv, RpcTypeOK, AcquiresALock, HasLock, RpcReturn, Goto
  <1>6. QED BY <1>1, <1>2, <1>3, <1>4, <1>5 DEF RpcInv

\* A call that goes on without returning: it takes the client, keeps it, or
\* gives it back after a poll, as the step it goes to demands.
LEMMA GotoRpcInv ==
  ASSUME RpcInv, NEW p \in Payment,
         NEW step \in Requesting \cup {"send_lock", "waiting", "track_lock"},
         Goto(p, step), UNCHANGED <<kind, shutdown, result, server>>,
         IF HasLock /\ step \in Requesting THEN lock \in {p, NoPayment} /\ lock' = p
                                          ELSE lock' = Released(p),
         step \in {"waiting", "track_lock", "polling", "subscribing", "streaming"}
           => result[p] = "Hash" /\ server[p] # "none",
         step = "confirming" => server[p] # "none",
         step \in {"send_lock", "track_lock"} => HasLock
  PROVE  RpcInv'
  <1>1. RpcTypeOK'
    BY DEF RpcInv, RpcTypeOK, Goto, Released, Requesting
  <1>2. LockDiscipline'
    BY PaymentAssumption DEF RpcInv, RpcTypeOK, LockDiscipline, Goto, Released, Requesting, HasLock
  <1>3. ResultsAreTrue'
    BY DEF RpcInv, RpcTypeOK, ResultsAreTrue, Goto, Requesting
  <1>4. ConfirmedIsHeld'
    BY DEF RpcInv, RpcTypeOK, ConfirmedIsHeld, Goto
  <1>5. AcquiresALock'
    BY DEF RpcInv, RpcTypeOK, AcquiresALock, HasLock, Goto
  <1>6. QED BY <1>1, <1>2, <1>3, <1>4, <1>5 DEF RpcInv

\* send_payment, in each of the four backends.
LEMMA SendRpcInv ==
  ASSUME RpcInv, NEW p \in Payment,
         LndSend(p) \/ ClnSend(p) \/ EclairSend(p) \/ EclairConfirm(p) \/ LdkSend(p)
  PROVE  RpcInv'
  <1> USE DEF Refused, Sent
  <1>1. ASSUME NEW e \in SendError, Refused(p, e),
               e = "InvalidPaymentHash" => server[p] # "none"
        PROVE  RpcInv'
    BY <1>1, ReturnRpcInv DEF SendError, FailureReason, Result
  <1>2. ASSUME Sent(p), server[p] # "none" PROVE RpcInv'
    BY <1>2, ReturnRpcInv DEF FailureReason, Result
  <1>3. CASE LndSend(p)
    BY <1>1, <1>2, <1>3 DEF LndSend, status_to_lightning_error, string_to_payment_hash, SendError
  <1>4. CASE ClnSend(p)
    BY <1>1, <1>2, <1>4 DEF ClnSend, key_send_error, SendError
  <1>5. CASE EclairSend(p)
    <2>1. CASE Refused(p, "SendPaymentError")
      BY <1>1, <2>1 DEF SendError
    <2>2. CASE server[p] # "none" /\ Goto(p, "confirming") /\ UNCHANGED <<kind, shutdown, lock, result, server>>
      <3>1. lock = p /\ HasLock
        BY <1>5 DEF EclairSend, RpcInv, LockDiscipline, HasLock, Requesting
      <3>2. QED BY <2>2, <3>1, GotoRpcInv DEF Requesting
    <2>3. QED BY <1>5, <2>1, <2>2 DEF EclairSend
  <1>6. CASE EclairConfirm(p)
    <2>1. server[p] # "none"
      BY <1>6 DEF EclairConfirm, RpcInv, ConfirmedIsHeld
    <2>2. CASE RpcReturn(p, "panicked", "none")
      BY <2>2, ReturnRpcInv DEF FailureReason, Result
    <2>3. QED BY <1>1, <1>2, <1>6, <2>1, <2>2 DEF EclairConfirm, SendError
  <1>7. CASE LdkSend(p)
    BY <1>1, <1>2, <1>7 DEF LdkSend, ldk_server_error_to_send_error, string_to_payment_hash, SendError
  <1>8. QED BY <1>3, <1>4, <1>5, <1>6, <1>7

\* track_payment, in each of the four backends.
LEMMA TrackRpcInv ==
  ASSUME RpcInv, NEW p \in Payment,
         \/ ClnPoll(p) \/ EclairPoll(p) \/ LdkPoll(p)
         \/ LndSubscribe(p) \/ LndMessage(p) \/ SeeShutdown(p)
  PROVE  RpcInv'
  <1> USE DEF Tracked
  <1>0. server[p] # "none"
    BY DEF RpcInv, ResultsAreTrue, ClnPoll, EclairPoll, LdkPoll, Polled, LndSubscribe, LndMessage,
           SeeShutdown
  <1>1. ASSUME NEW r \in {"TrackPaymentError", "Unknown"}, Tracked(p, r) PROVE RpcInv'
    BY <1>0, <1>1, ReturnRpcInv DEF FailureReason, Result
  <1>2. ASSUME Tracked(p, "Success"), server[p] = "succeeded" PROVE RpcInv'
    BY <1>2, ReturnRpcInv DEF FailureReason, Result
  <1>3. ASSUME NEW r \in FailureReason, Tracked(p, r), server[p] = "failed" PROVE RpcInv'
    BY <1>3, ReturnRpcInv DEF FailureReason, Result
  <1>4. ASSUME Polled(p, "Success", "UnexpectedError") PROVE RpcInv'
    <2>1. CASE Again(p)
      <3>1. result[p] = "Hash" /\ server[p] # "none"
        BY <1>4 DEF Polled, RpcInv, ResultsAreTrue
      <3>2. QED BY <2>1, <3>1, GotoRpcInv DEF Again, Requesting
    <2>2. QED BY <1>1, <1>2, <1>3, <1>4, <2>1 DEF Polled, FailureReason
  <1>5. CASE LndSubscribe(p)
    <2>1. CASE Goto(p, "streaming") /\ UNCHANGED <<kind, shutdown, lock, result, server>>
      <3>1. result[p] = "Hash" /\ server[p] # "none"
        BY <1>5 DEF LndSubscribe, RpcInv, ResultsAreTrue
      <3>2. IF HasLock THEN lock = p ELSE lock # p
        BY <1>5 DEF LndSubscribe, RpcInv, LockDiscipline, Requesting
      <3>3. QED BY <2>1, <3>1, <3>2, GotoRpcInv DEF Requesting, Released
    <2>2. QED BY <1>1, <1>5, <2>1 DEF LndSubscribe
  <1>6. CASE LndMessage(p)
    BY <1>1, <1>2, <1>3, <1>6 DEF LndMessage
  <1>7. CASE SeeShutdown(p)
    BY <1>1, <1>7 DEF SeeShutdown
  <1>8. QED BY <1>4, <1>5, <1>6, <1>7 DEF ClnPoll, EclairPoll, LdkPoll

\* The rest of the simulation and the remote node.
LEMMA OtherRpcInv ==
  ASSUME RpcInv, NEW p \in Payment,
         \/ RpcStartSend(p) \/ RpcStartTrack(p) \/ Acquire(p) \/ Wake(p)
         \/ Accept(p) \/ Resolve(p) \/ RpcShutdown \/ UNCHANGED rpc_vars
  PROVE  RpcInv'
  <1>1. CASE RpcStartSend(p)
    <2>1. CASE RpcReturn(p, "done", "SendPaymentError")
      BY <2>1, ReturnRpcInv DEF Result, SendError, FailureReason
    <2>2. CASE /\ Goto(p, IF HasLock THEN "send_lock" ELSE "sending")
               /\ UNCHANGED <<kind, shutdown, lock, result, server>>
      <3>1. lock # p
        BY <1>1 DEF RpcStartSend, RpcInv, LockDiscipline, Requesting
      <3>2. QED BY <2>2, <3>1, GotoRpcInv DEF Requesting, Released
    <2>3. QED BY <1>1, <2>1, <2>2 DEF RpcStartSend
  <1>2. CASE RpcStartTrack(p)
    <2>1. lock # p /\ result[p] = "Hash" /\ server[p] # "none"
      BY <1>2 DEF RpcStartTrack, RpcInv, LockDiscipline, ResultsAreTrue, Requesting
    <2>2. QED BY <1>2, <2>1, GotoRpcInv DEF RpcStartTrack, Requesting, Released, HasLock
  <1>3. CASE Acquire(p)
    <2>1. HasLock
      BY <1>3 DEF Acquire, RpcInv, AcquiresALock
    <2>2. call[p] = "track_lock" => result[p] = "Hash" /\ server[p] # "none"
      BY DEF RpcInv, ResultsAreTrue
    <2>3. QED BY <1>3, <2>1, <2>2, GotoRpcInv DEF Acquire, Requesting
  <1>4. CASE Wake(p)
    <2>1. lock # p /\ result[p] = "Hash" /\ server[p] # "none"
      BY <1>4 DEF Wake, RpcInv, LockDiscipline, ResultsAreTrue, Requesting
    <2>2. QED BY <1>4, <2>1, GotoRpcInv DEF Wake, Requesting, Released
  <1>5. CASE Accept(p)
    BY <1>5 DEF Accept, RpcInv, RpcTypeOK, LockDiscipline, ResultsAreTrue, ConfirmedIsHeld, HasLock,
                Requesting, AcquiresALock
  <1>6. CASE Resolve(p)
    BY <1>6 DEF Resolve, RpcInv, RpcTypeOK, LockDiscipline, ResultsAreTrue, ConfirmedIsHeld, HasLock,
                AcquiresALock
  <1>7. CASE RpcShutdown
    BY <1>7 DEF RpcShutdown, RpcInv, RpcTypeOK, LockDiscipline, ResultsAreTrue, ConfirmedIsHeld, HasLock,
                AcquiresALock
  <1>8. CASE UNCHANGED rpc_vars
    BY <1>8 DEF rpc_vars, RpcInv, RpcTypeOK, LockDiscipline, ResultsAreTrue, ConfirmedIsHeld, HasLock,
                AcquiresALock
  <1>9. QED BY <1>1, <1>2, <1>3, <1>4, <1>5, <1>6, <1>7, <1>8

\* Every step of the specification preserves the invariant.
LEMMA StepRpcInv == RpcInv /\ [RpcNext]_rpc_vars => RpcInv'
  <1> SUFFICES ASSUME RpcInv, [RpcNext]_rpc_vars PROVE RpcInv'
    OBVIOUS
  <1>1. CASE RpcShutdown \/ UNCHANGED rpc_vars
    <2>1. CASE Payment = {}
      BY <1>1, <2>1 DEF RpcShutdown, rpc_vars, RpcInv, RpcTypeOK, LockDiscipline, ResultsAreTrue,
                        ConfirmedIsHeld, AcquiresALock
    <2>2. CASE Payment # {}
      BY <1>1, <2>2, OtherRpcInv
    <2>3. QED BY <2>1, <2>2
  <1>2. ASSUME NEW p \in Payment,
               \/ RpcStartSend(p) \/ RpcStartTrack(p) \/ Acquire(p) \/ Wake(p)
               \/ Accept(p) \/ Resolve(p)
        PROVE  RpcInv'
    BY <1>2, OtherRpcInv
  <1>3. ASSUME NEW p \in Payment, Answered(p) \/ LndMessage(p) \/ SeeShutdown(p)
        PROVE  RpcInv'
    BY <1>3, SendRpcInv, TrackRpcInv DEF Answered
  <1>4. QED BY <1>1, <1>2, <1>3 DEF RpcNext

\* The invariant holds in every behaviour.
THEOREM RpcInvariantHolds == RpcSpec => []RpcInv
  BY InitRpcInv, StepRpcInv, PTL DEF RpcSpec

(***************************************************************************)
(* The client's mutex is held exactly while its holder talks to the node:  *)
(* a call of lnd.rs, cln.rs or eclair.rs never ends with the client, and   *)
(* never uses it without the guard.                                        *)
(***************************************************************************)
THEOREM LockIsDisciplined == RpcSpec => []LockDiscipline
  <1>1. RpcInv => LockDiscipline
    BY DEF RpcInv
  <1>2. QED BY <1>1, RpcInvariantHolds, PTL

(***************************************************************************)
(* send_payment and track_payment of the four backends: Success and a      *)
(* reason for a failure are said only of payments that the node settled or *)
(* gave up, and a hash, a hash that cannot be read, Unknown and a failed   *)
(* tracking only of payments that the node has taken.  It does not say     *)
(* that a payment with Unknown has failed, nor that one with an error of   *)
(* send_payment was not sent: neither is so.                               *)
(***************************************************************************)
THEOREM RpcResultsAreTrue == RpcSpec => []ResultsAreTrue
  <1>1. RpcInv => ResultsAreTrue
    BY DEF RpcInv
  <1>2. QED BY <1>1, RpcInvariantHolds, PTL

===============================================================================
