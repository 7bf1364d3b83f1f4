-------------------------------- MODULE SimNode --------------------------------
(***************************************************************************)
(* `SimNode` of simln-lib/src/sim_node.rs: the send_payment, send_to_route *)
(* and track_payment calls of one node, which share its in_flight map      *)
(* behind a mutex, and the oneshot channel through which the network's     *)
(* task reports a payment's outcome.                                       *)
(*                                                                         *)
(* track_payment takes the lock in the scrutinee of its match, so that the *)
(* guard lives until the match ends: the node's map stays locked while a   *)
(* payment is being tracked.  The network is external to this module, it   *)
(* reports any outcome at any time; the lock of the network is held for    *)
(* one synchronous call (or one look at the channels) and is not a state   *)
(* of its own.  A payment is tracked by its sender, once its send call has *)
(* returned Ok, as lib.rs does.                                            *)
(***************************************************************************)
EXTENDS LightningNode, Naturals, FiniteSets

CONSTANTS Hash,          \* payment hashes
          PaymentHash,   \* Payment -> Hash
          ToRoute        \* the payments sent with send_to_route

ASSUME NodeAssumption ==
    /\ PaymentHash \in [Payment -> Hash]
    /\ ToRoute \subseteq Payment

\* The lock is that of in_flight; only track_payment keeps it over an await.
VARIABLES in_flight,     \* Hash -> the payment it was inserted for, or NoPayment
          route,         \* Payment -> what pathfinding found
          send,          \* Payment -> its send call
          network,       \* Payment -> the network's task for it
          oneshot,       \* Payment -> what its oneshot channel holds
          track,         \* Payment -> its track_payment call
          taken,         \* Payment -> the entry its track_payment call took
          scored         \* Payment -> what the scorer learned from it

vars == <<shutdown, lock, in_flight, route, send, network, oneshot, track, taken, result, scored>>

Outcome == {"Success", "IndexFailure", "Unknown"}

\* Mutant: the guard is dropped before the call waits for the outcome.
Unlocked_early == TRUE

Unlocked == lock = NoPayment

Init ==
    /\ shutdown = FALSE
    /\ lock = NoPayment
    /\ in_flight = [h \in Hash |-> NoPayment]
    /\ route = [p \in Payment |-> "none"]
    /\ send = [p \in Payment |-> "idle"]
    /\ network = [p \in Payment |-> "idle"]
    /\ oneshot = [p \in Payment |-> "empty"]
    /\ track = [p \in Payment |-> "idle"]
    /\ taken = [p \in Payment |-> NoPayment]
    /\ result = [p \in Payment |-> "none"]
    /\ scored = [p \in Payment |-> "none"]

-----------------------------------------------------------------------------
(* send_payment looks for a route on the blocking pool; send_to_route is   *)
(* given one.  A route has one path, "many" or none.                       *)

StartSend(p) ==
    /\ send[p] = "idle"
    /\ send' = [send EXCEPT ![p] = IF p \in ToRoute THEN "routed" ELSE "routing"]
    /\ route' \in IF p \in ToRoute
                  THEN {[route EXCEPT ![p] = r] : r \in {"one", "many"}}
                  ELSE {route}
    /\ UNCHANGED <<shutdown, lock, in_flight, network, oneshot, track, taken, result, scored>>

FindRoute(p) ==
    /\ send[p] = "routing"
    /\ \/ /\ send' = [send EXCEPT ![p] = "routed"]
          /\ \E r \in {"one", "many", "not_found"} : route' = [route EXCEPT ![p] = r]
       \/ send' = [send EXCEPT ![p] = "err"] /\ UNCHANGED route
    /\ UNCHANGED <<shutdown, lock, in_flight, network, oneshot, track, taken, result, scored>>

Insert(p) == in_flight' = [in_flight EXCEPT ![PaymentHash[p]] = p]

\* dispatch_payment spawns the task that will report on the oneshot.
DispatchPayment(p) == network' = [network EXCEPT ![p] = "running"]

HashExists(p) == in_flight[PaymentHash[p]] # NoPayment

\* send_payment under the in_flight lock, which it keeps until it returns.
SendPayment(p) ==
    /\ p \notin ToRoute
    /\ send[p] = "routed"
    /\ Unlocked
    /\ \/ /\ HashExists(p) \/ route[p] = "many"
          /\ send' = [send EXCEPT ![p] = "err"]
          /\ UNCHANGED <<in_flight, network, oneshot>>
       \/ /\ ~ HashExists(p) /\ route[p] = "not_found"
          /\ oneshot' = [oneshot EXCEPT ![p] = "RouteNotFound"]
          /\ Insert(p)
          /\ send' = [send EXCEPT ![p] = "ok"]
          /\ UNCHANGED network
       \/ /\ ~ HashExists(p) /\ route[p] = "one"
          /\ Insert(p)
          /\ DispatchPayment(p)
          /\ send' = [send EXCEPT ![p] = "ok"]
          /\ UNCHANGED oneshot
    /\ UNCHANGED <<shutdown, lock, route, track, taken, result, scored>>

\* Mutant: an entry of the same hash is replaced.
SendToRoute_replaces(p) ==
    /\ p \in ToRoute
    /\ \/ /\ send[p] = "routed" /\ route[p] = "many"
          /\ send' = [send EXCEPT ![p] = "err"]
          /\ UNCHANGED <<in_flight, network>>
       \/ /\ send[p] = "routed" /\ route[p] = "one" /\ Unlocked
          /\ send' = [send EXCEPT ![p] = "dispatch"]
          /\ Insert(p)
          /\ UNCHANGED network
       \/ /\ send[p] = "dispatch"
          /\ DispatchPayment(p)
          /\ send' = [send EXCEPT ![p] = "ok"]
          /\ UNCHANGED in_flight
    /\ UNCHANGED <<shutdown, lock, route, oneshot, track, taken, result, scored>>

\* send_to_route refuses other than one path, and unlocks before it dispatches.
SendToRoute(p) ==
    /\ p \in ToRoute
    /\ \/ /\ send[p] = "routed" /\ route[p] = "many"
          /\ send' = [send EXCEPT ![p] = "err"]
          /\ UNCHANGED <<in_flight, network>>
       \/ /\ send[p] = "routed" /\ route[p] = "one" /\ Unlocked
          /\ IF HashExists(p)
             THEN send' = [send EXCEPT ![p] = "err"] /\ UNCHANGED in_flight
             ELSE send' = [send EXCEPT ![p] = "dispatch"] /\ Insert(p)
          /\ UNCHANGED network
       \/ /\ send[p] = "dispatch"
          /\ DispatchPayment(p)
          /\ send' = [send EXCEPT ![p] = "ok"]
          /\ UNCHANGED in_flight
    /\ UNCHANGED <<shutdown, lock, route, oneshot, track, taken, result, scored>>

-----------------------------------------------------------------------------
(* The network's task reports once, or is gone without a report.           *)

Report(p) ==
    /\ network[p] = "running"
    /\ network' = [network EXCEPT ![p] = "done"]
    /\ \E o \in Outcome \cup {"closed"} : oneshot' = [oneshot EXCEPT ![p] = o]
    /\ UNCHANGED <<shutdown, lock, in_flight, route, send, track, taken, result, scored>>

Shutdown ==
    /\ ~ shutdown
    /\ shutdown' = TRUE
    /\ UNCHANGED <<lock, in_flight, route, send, network, oneshot, track, taken, result, scored>>

-----------------------------------------------------------------------------
(* track_payment.                                                          *)

StartTrack(p) ==
    /\ send[p] = "ok"
    /\ track[p] = "idle"
    /\ track' = [track EXCEPT ![p] = "lock"]
    /\ UNCHANGED <<shutdown, lock, in_flight, route, send, network, oneshot, taken, result, scored>>

\* Mutant: the lock is not released when the call returns.
Return_locked(p, r) ==
    /\ track' = [track EXCEPT ![p] = "returned"]
    /\ result' = [result EXCEPT ![p] = r]
    /\ UNCHANGED lock

Return(p, r) ==
    /\ track' = [track EXCEPT ![p] = "returned"]
    /\ result' = [result EXCEPT ![p] = r]
    /\ lock' = NoPayment

\* The entry is taken out of the map and the lock is kept; the call fails if
\* there is none.
TakeInFlight(p) ==
    /\ track[p] = "lock"
    /\ Unlocked
    /\ IF HashExists(p)
       THEN /\ in_flight' = [in_flight EXCEPT ![PaymentHash[p]] = NoPayment]
            /\ taken' = [taken EXCEPT ![p] = in_flight[PaymentHash[p]]]
            /\ lock' = p
            /\ track' = [track EXCEPT ![p] = "wait"]
            /\ UNCHANGED result
       ELSE Return(p, "err") /\ UNCHANGED <<in_flight, taken>>
    /\ UNCHANGED <<shutdown, route, send, network, oneshot, scored>>

TrackStops(p) ==
    /\ track[p] = "wait"
    /\ shutdown
    /\ Return(p, "err")
    /\ UNCHANGED <<shutdown, in_flight, route, send, network, oneshot, taken, scored>>

\* The result of the entry that was taken is returned and the scorer told.
TrackResult(p) ==
    LET received == oneshot[taken[p]]
    IN  /\ track[p] = "wait"
        /\ ~ shutdown
        /\ received # "empty"
        /\ Return(p, IF \/ received = "closed"
                        \/ route[taken[p]] = "not_found" /\ received # "RouteNotFound"
                     THEN "err" ELSE received)
        /\ scored' = IF received \in {"Success", "IndexFailure"}
                     THEN [scored EXCEPT ![p] = received]
                     ELSE scored
        /\ UNCHANGED <<shutdown, in_flight, route, send, network, oneshot, taken>>

-----------------------------------------------------------------------------
SendStep(p) == FindRoute(p) \/ SendPayment(p) \/ SendToRoute(p)

TrackStep(p) == TakeInFlight(p) \/ TrackStops(p) \/ TrackResult(p)

Next ==
    \/ Shutdown
    \/ \E p \in Payment : \/ StartSend(p) \/ SendStep(p)
                          \/ Report(p)
                          \/ StartTrack(p) \/ TrackStep(p)

Spec == Init /\ [][Next]_vars

\* The runtime polls the calls and the mutex serves them in turn.  lib.rs
\* tracks every payment it has sent.
FairSpec ==
    /\ Spec
    /\ \A p \in Payment : /\ SF_vars(SendStep(p))
                          /\ WF_vars(StartTrack(p))
                          /\ SF_vars(TrackStep(p))

\* In addition, the network reports every payment.
ReportingSpec == FairSpec /\ \A p \in Payment : WF_vars(Report(p))

-----------------------------------------------------------------------------
TypeOK ==
    /\ shutdown \in BOOLEAN
    /\ lock \in Payment \cup {NoPayment}
    /\ in_flight \in [Hash -> Payment \cup {NoPayment}]
    /\ route \in [Payment -> {"none", "one", "many", "not_found"}]
    /\ send \in [Payment -> {"idle", "routing", "routed", "dispatch", "ok", "err"}]
    /\ network \in [Payment -> {"idle", "running", "done"}]
    /\ oneshot \in [Payment -> Outcome \cup {"empty", "closed", "RouteNotFound"}]
    /\ track \in [Payment -> {"idle", "lock", "wait", "returned"}]
    /\ result \in [Payment -> Outcome \cup {"none", "err", "RouteNotFound"}]
    /\ scored \in [Payment -> {"none", "Success", "IndexFailure"}]
    /\ taken \in [Payment -> Payment \cup {NoPayment}]
    /\ \A p \in Payment : lock = p <=> track[p] = "wait"

(***************************************************************************)
(* As long as nobody asks for a shutdown, the node never has two payments  *)
(* of the same hash in the network, although the hash is forgotten when    *)
(* tracking starts and not when it ends (send_to_route and send_payment:   *)
(* "Check for payment hash collision").                                    *)
(***************************************************************************)
HashesInUseDiffer ==
    ~ shutdown =>
        \A p, q \in Payment :
            /\ network[p] = "running" /\ network[q] = "running"
            /\ PaymentHash[p] = PaymentHash[q]
            => p = q

(***************************************************************************)
(* A tracked payment returns the outcome of that payment and of no other   *)
(* one, every payment sent is found when it is tracked, and the scorer     *)
(* learns what was returned.                                               *)
(***************************************************************************)
ResultsAreOwn ==
    \A p \in Payment :
        /\ result[p] \in Outcome \cup {"RouteNotFound"} => oneshot[p] = result[p]
        /\ result[p] = "err" => shutdown \/ oneshot[p] = "closed"
        /\ scored[p] # "none" => result[p] = scored[p]

(***************************************************************************)
(* Whoever keeps the node's lock over an await waits for nothing that      *)
(* needs the lock: its own payment is in the network, or the outcome is in *)
(* the oneshot already.  So no calls of a node wait for each other in a    *)
(* circle, although track_payment waits with the lock held.                *)
(***************************************************************************)
HolderIsServed ==
    \A p \in Payment :
        lock = p => taken[p] = p /\ (network[p] = "running" \/ oneshot[p] # "empty")

(***************************************************************************)
(* Every send call returns and every track call returns, if the network    *)
(* reports its payments.                                                   *)
(***************************************************************************)
CallsReturn ==
    \A p \in Payment : /\ send[p] = "routed" ~> send[p] \in {"ok", "err"}
                       /\ send[p] = "ok" ~> track[p] = "returned"

(***************************************************************************)
(* "We handle each output separately because they can take a long time to  *)
(* resolve": a payment that takes for ever does not keep the node from     *)
(* sending others.  Does not hold, see the findings.                       *)
(***************************************************************************)
SendsAreNotHeldUp ==
    \A p \in Payment : send[p] = "routed" ~> send[p] \in {"ok", "err"}

===============================================================================
