---------------------------- MODULE PaymentNetwork ----------------------------
(***************************************************************************)
(* Payments on the simulated network of simln-lib/src/sim_node.rs:         *)
(* `SimGraph::dispatch_payment` spawns one `propagate_payment` task per    *)
(* payment, and the tasks run concurrently.  A task adds its HTLCs hop by  *)
(* hop (`add_htlcs`), asks the interceptors after every hop, and then      *)
(* removes them backwards (`remove_htlcs`), settling or failing them.  The *)
(* channels' mutex is taken for one hop at a time, so one step below is    *)
(* one critical section and other payments act between any two of them.    *)
(*                                                                         *)
(* Interceptors are outside this module: an interception ends with any of  *)
(* the results handle_intercepted_htlc can return.  Custom records are     *)
(* left out, nothing in the network reads them.                            *)
(***************************************************************************)
EXTENDS SimulatedChannel, Sequences

CONSTANTS Node,             \* public keys
          Hash,             \* payment hashes
          Scid,             \* short channel ids of the graph
          Channel,          \* Scid -> fixed part of the channel
          Payment,          \* the payments that may be dispatched
          Source,           \* Payment -> sending node
          Hops,             \* Payment -> hops of the route's only path
          PathCount,        \* Payment -> number of paths in the route
          PaymentHash,      \* Payment -> payment hash
          HasInterceptors,  \* are interceptors registered?
          Msat,             \* amounts that occur
          Height            \* expiry heights that occur

(***************************************************************************)
(* A route is given by the HTLCs it asks for: amount and expiry of a hop   *)
(* are those of the HTLC added on it.  The fee of a hop is then the        *)
(* difference to the next one, and the last hop's "fee" is the amount      *)
(* paid, as in LDK; the amount sent over the first hop is the sum of all   *)
(* of them.  Routes need not be connected or even exist in the graph: the  *)
(* caller of send_to_route is free to pass any path.                       *)
(***************************************************************************)
RouteHop(scids) ==
    [short_channel_id : scids, pubkey : Node, amount : Msat, expiry : Height]

ASSUME NetworkAssumption ==
    /\ IsFiniteSet(Payment)
    /\ Msat \subseteq Nat
    /\ Height \subseteq Nat
    /\ HasInterceptors \in BOOLEAN
    /\ \A s \in Scid :
          /\ Channel[s].node_1 \in Node /\ Channel[s].node_2 \in Node
          /\ Channel[s].capacity_msat \in Nat
          /\ Channel[s].policy \in [Ends(Channel[s]) -> ChannelPolicy]
    /\ \A p \in Payment :
          /\ Source[p] \in Node
          /\ PaymentHash[p] \in Hash
          /\ PathCount[p] \in Nat
          /\ Len(Hops[p]) \in Nat \ {0}
          /\ \A i \in 1 .. Len(Hops[p]) :
                Hops[p][i] \in RouteHop({Hops[p][i].short_channel_id})
          /\ \A i \in 1 .. Len(Hops[p]) - 1 :
                /\ Hops[p][i].amount >= Hops[p][i + 1].amount
                /\ Hops[p][i].expiry >= Hops[p][i + 1].expiry

\* SimGraph::new refuses a graph with an invalid channel.
ASSUME GraphAssumption == \A s \in Scid : channel_validate(Channel[s])

VARIABLES channels,         \* Scid -> sides of the channel
          shutdown,         \* has the shutdown trigger fired?
          pc,               \* Payment -> where its task is
          hop,              \* Payment -> hop it works on; once it has reported,
                            \* the number of HTLCs it has left behind
          outgoing_node,    \* Payment -> locals of add_htlcs
          outgoing_amount,
          outgoing_cltv,
          fail_idx,         \* hops are counted from 1 and 0 is None
          success,          \* Payment -> does remove_htlcs settle or fail?
          error,            \* Payment -> the error that ended it, "Ok" if none
          outcome,          \* Payment -> PaymentOutcome to report
          intercepted,      \* the InterceptRequests sent
          resolved          \* the InterceptResolutions sent

taskVars == <<pc, hop, outgoing_node, outgoing_amount, outgoing_cltv, fail_idx,
              success, error, outcome>>

vars == <<channels, shutdown, taskVars, intercepted, resolved>>

-----------------------------------------------------------------------------
LastHop(p) == Len(Hops[p])

fee_msat(p, i) ==
    IF i = LastHop(p) THEN Hops[p][i].amount
    ELSE Hops[p][i].amount - Hops[p][i + 1].amount

cltv_expiry_delta(p, i) ==
    IF i = LastHop(p) THEN Hops[p][i].expiry
    ELSE Hops[p][i].expiry - Hops[p][i + 1].expiry

\* The node that offers the HTLC of hop i, remove_htlcs' incoming_node.
IncomingNode(p, i) == IF i = 1 THEN Source[p] ELSE Hops[p][i - 1].pubkey

\* What an interceptor is told to identify an HTLC by.
HtlcEvent(p, i, index) ==
    [payment |-> p, hop |-> i, forwarding_node |-> Hops[p][i].pubkey,
     channel_id |-> Hops[p][i].short_channel_id, index |-> index]

PaymentOutcome ==
    {[kind |-> k, index |-> 0] : k \in {"None", "Success", "Unknown"}}
      \cup [kind : {"IndexFailure"}, index : Nat]

IndexFailure(idx) ==
    [kind |-> "IndexFailure", index |-> IF idx = 0 THEN 0 ELSE idx - 1]

Init ==
    /\ channels = [s \in Scid |-> SimulatedChannel_new(Channel[s])]
    /\ shutdown = FALSE
    /\ pc = [p \in Payment |-> "idle"]
    /\ hop = [p \in Payment |-> 0]
    /\ outgoing_node = [p \in Payment |-> Source[p]]
    /\ outgoing_amount = [p \in Payment |-> 0]
    /\ outgoing_cltv = [p \in Payment |-> 0]
    /\ fail_idx = [p \in Payment |-> 0]
    /\ success = [p \in Payment |-> FALSE]
    /\ error = [p \in Payment |-> "Ok"]
    /\ outcome = [p \in Payment |-> [kind |-> "None", index |-> 0]]
    /\ intercepted = {}
    /\ resolved = {}

-----------------------------------------------------------------------------
(* dispatch_payment: a route that has not exactly one path is refused and  *)
(* the sender dropped, otherwise a task is spawned.                        *)

DispatchRefused(p) ==
    /\ pc[p] = "idle"
    /\ PathCount[p] # 1
    /\ pc' = [pc EXCEPT ![p] = "dropped"]
    /\ UNCHANGED <<channels, shutdown, hop, outgoing_node, outgoing_amount,
                   outgoing_cltv, fail_idx, success, error, outcome,
                   intercepted, resolved>>

Dispatch(p) ==
    /\ pc[p] = "idle"
    /\ PathCount[p] = 1
    /\ pc' = [pc EXCEPT ![p] = "add"]
    /\ hop' = [hop EXCEPT ![p] = 1]
    /\ outgoing_node' = [outgoing_node EXCEPT ![p] = Source[p]]
    /\ outgoing_amount' = [outgoing_amount EXCEPT ![p] = Hops[p][1].amount]
    /\ outgoing_cltv' = [outgoing_cltv EXCEPT ![p] = Hops[p][1].expiry]
    /\ UNCHANGED <<channels, shutdown, fail_idx, success, error, outcome,
                   intercepted, resolved>>

-----------------------------------------------------------------------------
(* How add_htlcs ends, and what propagate_payment does next.               *)

\* Mutant: a critical error only ends the payment.
EndCritical_silent(p, idx, err) ==
    /\ pc' = [pc EXCEPT ![p] = "report"]
    /\ hop' = [hop EXCEPT ![p] = idx]
    /\ error' = [error EXCEPT ![p] = err]
    /\ outcome' = [outcome EXCEPT ![p] = [kind |-> "Unknown", index |-> 0]]
    /\ UNCHANGED <<shutdown, outgoing_node, outgoing_amount, outgoing_cltv, success>>

\* Mutant: a critical error ends the task before it has reported.
EndCritical_unreported(p, idx, err) ==
    /\ shutdown' = TRUE
    /\ pc' = [pc EXCEPT ![p] = "dropped"]
    /\ hop' = [hop EXCEPT ![p] = idx]
    /\ error' = [error EXCEPT ![p] = err]
    /\ UNCHANGED <<outcome, outgoing_node, outgoing_amount, outgoing_cltv, success>>

\* A critical error: trigger the shutdown, report Unknown, leave the HTLCs.
EndCritical(p, idx, err) ==
    /\ shutdown' = TRUE
    /\ pc' = [pc EXCEPT ![p] = "report"]
    /\ hop' = [hop EXCEPT ![p] = idx]
    /\ error' = [error EXCEPT ![p] = err]
    /\ outcome' = [outcome EXCEPT ![p] = [kind |-> "Unknown", index |-> 0]]
    /\ UNCHANGED <<outgoing_node, outgoing_amount, outgoing_cltv, success>>

\* A forwarding error: fail the HTLCs back from hop idx, if there are any.
EndFailed(p, idx, err) ==
    /\ pc' = [pc EXCEPT ![p] = IF idx = 0 THEN "report" ELSE "remove"]
    /\ hop' = [hop EXCEPT ![p] = idx]
    /\ success' = [success EXCEPT ![p] = FALSE]
    /\ error' = [error EXCEPT ![p] = err]
    /\ outcome' = [outcome EXCEPT ![p] = IndexFailure(idx)]
    /\ UNCHANGED <<shutdown, outgoing_node, outgoing_amount, outgoing_cltv>>

\* Every hop has its HTLC: settle them from the last one.
EndAdded(p) ==
    /\ pc' = [pc EXCEPT ![p] = "remove"]
    /\ hop' = [hop EXCEPT ![p] = LastHop(p)]
    /\ success' = [success EXCEPT ![p] = TRUE]
    /\ outcome' = [outcome EXCEPT ![p] = [kind |-> "Success", index |-> 0]]
    /\ UNCHANGED <<shutdown, outgoing_node, outgoing_amount, outgoing_cltv, error>>

-----------------------------------------------------------------------------
(* One iteration of add_htlcs under the channels' lock.                    *)

HopHtlc(p) ==
    [amount_msat |-> outgoing_amount[p], cltv_expiry |-> outgoing_cltv[p]]

AddError(p) ==
    LET s == Hops[p][hop[p]].short_channel_id
    IN  IF s \notin Scid THEN "ChannelNotFound"
        ELSE add_htlc_error(Channel[s], channels[s], outgoing_node[p],
                            PaymentHash[p], HopHtlc(p))

\* The next channel's policy, checked by the node the HTLC was forwarded to.
ForwardError(p) ==
    LET i == hop[p]
        next_scid == Hops[p][i + 1].short_channel_id
    IN  IF i = LastHop(p) THEN "Ok"
        ELSE IF next_scid \notin Scid THEN "Ok"
        ELSE channel_check_forward(Channel[next_scid], Hops[p][i].pubkey,
                cltv_expiry_delta(p, i), outgoing_amount[p] - fee_msat(p, i),
                fee_msat(p, i))

\* Mutant: the failure index is not moved past the hop just added.
AddHtlc_stale_index(p) ==
    LET s == Hops[p][hop[p]].short_channel_id
    IN  /\ pc[p] = "add"
        /\ AddError(p) = "Ok"
        /\ channels' = [channels EXCEPT ![s] =
              add_htlc(Channel[s], @, outgoing_node[p], PaymentHash[p], HopHtlc(p))]
        /\ fail_idx' = [fail_idx EXCEPT ![p] = IF hop[p] > 1 THEN hop[p] - 1 ELSE hop[p]]

(* The HTLC is added and the hop becomes the one to fail back from.        *)
AddHtlc(p) ==
    LET s == Hops[p][hop[p]].short_channel_id
    IN  /\ pc[p] = "add"
        /\ AddError(p) = "Ok"
        /\ channels' = [channels EXCEPT ![s] =
              add_htlc(Channel[s], @, outgoing_node[p], PaymentHash[p], HopHtlc(p))]
        /\ fail_idx' = [fail_idx EXCEPT ![p] = hop[p]]

AddRefused(p) ==
    /\ pc[p] = "add"
    /\ \/ /\ AddError(p) \in ForwardingError
          /\ EndFailed(p, fail_idx[p], AddError(p))
       \/ /\ AddError(p) \in CriticalError
          /\ EndCritical(p, fail_idx[p], AddError(p))
    /\ UNCHANGED <<channels, fail_idx, intercepted, resolved>>

AddThenRefused(p) ==
    /\ AddHtlc(p)
    /\ \/ /\ ForwardError(p) \in ForwardingError
          /\ EndFailed(p, fail_idx'[p], ForwardError(p))
       \/ /\ ForwardError(p) \in CriticalError
          /\ EndCritical(p, hop[p], ForwardError(p))
    /\ UNCHANGED <<intercepted, resolved>>

\* Mutant: the interceptors are told the index of the next HTLC.
AddThenIntercept_next_index(p) ==
    /\ AddHtlc(p)
    /\ ForwardError(p) = "Ok"
    /\ pc' = [pc EXCEPT ![p] = "intercept"]
    /\ intercepted' =
         IF HasInterceptors
         THEN intercepted \cup
                {HtlcEvent(p, hop[p], channels'[Hops[p][hop[p]].short_channel_id]
                                         [outgoing_node[p]].index)}
         ELSE intercepted
    /\ UNCHANGED <<shutdown, hop, outgoing_node, outgoing_amount, outgoing_cltv,
                   success, error, outcome, resolved>>

AddThenIntercept(p) ==
    /\ AddHtlc(p)
    /\ ForwardError(p) = "Ok"
    /\ pc' = [pc EXCEPT ![p] = "intercept"]
    /\ intercepted' =
         IF HasInterceptors
         THEN intercepted \cup
                {HtlcEvent(p, hop[p], channels[Hops[p][hop[p]].short_channel_id]
                                         [outgoing_node[p]].index)}
         ELSE intercepted
    /\ UNCHANGED <<shutdown, hop, outgoing_node, outgoing_amount, outgoing_cltv,
                   success, error, outcome, resolved>>

-----------------------------------------------------------------------------
(* The interceptors have answered, without the lock.                       *)

\* Mutant: the loop over the hops ends one short of the receiver.
InterceptProceed_short(p) ==
    /\ pc[p] = "intercept"
    /\ IF hop[p] >= LastHop(p) - 1 THEN EndAdded(p)
       ELSE /\ pc' = [pc EXCEPT ![p] = "add"]
            /\ hop' = [hop EXCEPT ![p] = @ + 1]
            /\ outgoing_node' = [outgoing_node EXCEPT ![p] = Hops[p][hop[p]].pubkey]
            /\ outgoing_amount' = [outgoing_amount EXCEPT ![p] = @ - fee_msat(p, hop[p])]
            /\ outgoing_cltv' =
                  [outgoing_cltv EXCEPT ![p] = @ - cltv_expiry_delta(p, hop[p])]
            /\ UNCHANGED <<shutdown, success, error, outcome>>
    /\ UNCHANGED <<channels, fail_idx, intercepted, resolved>>

InterceptProceed(p) ==
    /\ pc[p] = "intercept"
    /\ IF hop[p] = LastHop(p) THEN EndAdded(p)
       ELSE /\ pc' = [pc EXCEPT ![p] = "add"]
            /\ hop' = [hop EXCEPT ![p] = @ + 1]
            /\ outgoing_node' = [outgoing_node EXCEPT ![p] = Hops[p][hop[p]].pubkey]
            /\ outgoing_amount' = [outgoing_amount EXCEPT ![p] = @ - fee_msat(p, hop[p])]
            /\ outgoing_cltv' =
                  [outgoing_cltv EXCEPT ![p] = @ - cltv_expiry_delta(p, hop[p])]
            /\ UNCHANGED <<shutdown, success, error, outcome>>
    /\ UNCHANGED <<channels, fail_idx, intercepted, resolved>>

InterceptFail(p) ==
    /\ pc[p] = "intercept"
    /\ HasInterceptors
    /\ EndFailed(p, fail_idx[p], "InterceptorForwardingError")
    /\ UNCHANGED <<channels, fail_idx, intercepted, resolved>>

\* InterceptorError stands for DuplicateCustomRecord too.
InterceptCritical(p) ==
    /\ pc[p] = "intercept"
    /\ HasInterceptors
    /\ EndCritical(p, hop[p], "InterceptorError")
    /\ UNCHANGED <<channels, fail_idx, intercepted, resolved>>

-----------------------------------------------------------------------------
(* One iteration of remove_htlcs: the HTLC goes under the lock, then the   *)
(* interceptors are told.  An error ends the loop and fires the trigger,   *)
(* and the outcome settled before is still reported.                       *)

RemoveError(p) ==
    LET s == Hops[p][hop[p]].short_channel_id
    IN  IF s \notin Scid THEN "ChannelNotFound"
        ELSE remove_htlc_error(Channel[s], channels[s], IncomingNode(p, hop[p]),
                               PaymentHash[p], success[p])

\* Mutant: a success is propagated to the last hop only.
RemoveHtlc_settle_last(p) ==
    LET s == Hops[p][hop[p]].short_channel_id
    IN  channels' = [channels EXCEPT ![s] =
           remove_htlc(Channel[s], @, IncomingNode(p, hop[p]), PaymentHash[p],
                       success[p] /\ hop[p] = LastHop(p))]

\* Mutant: the HTLC goes and no balance changes.
RemoveHtlc_unsettled(p) ==
    LET s == Hops[p][hop[p]].short_channel_id
    IN  channels' = [channels EXCEPT ![s] =
           [@ EXCEPT ![IncomingNode(p, hop[p])] = remove_outgoing_htlc(@, PaymentHash[p])]]

RemoveHtlc(p) ==
    LET s == Hops[p][hop[p]].short_channel_id
    IN  channels' = [channels EXCEPT ![s] =
           remove_htlc(Channel[s], @, IncomingNode(p, hop[p]), PaymentHash[p],
                       success[p])]

\* An error other than the sanity check leaves the HTLC where it is.
Remove(p) ==
    LET i == hop[p]
        s == Hops[p][i].short_channel_id
        index == channels[s][IncomingNode(p, i)].in_flight[PaymentHash[p]].index
    IN  /\ pc[p] = "remove"
        /\ IF RemoveError(p) = "Ok"
           THEN /\ RemoveHtlc(p)
                /\ pc' = [pc EXCEPT ![p] = "notify"]
                /\ resolved' = IF HasInterceptors
                               THEN resolved \cup {HtlcEvent(p, i, index)}
                               ELSE resolved
                /\ UNCHANGED <<shutdown, hop, error>>
           ELSE /\ IF RemoveError(p) = "SanityCheckFailed"
                   THEN RemoveHtlc(p) /\ hop' = [hop EXCEPT ![p] = @ - 1]
                   ELSE UNCHANGED <<channels, hop>>
                /\ pc' = [pc EXCEPT ![p] = "report"]
                /\ shutdown' = TRUE
                /\ error' = [error EXCEPT ![p] = RemoveError(p)]
                /\ UNCHANGED resolved
        /\ UNCHANGED <<outgoing_node, outgoing_amount, outgoing_cltv, fail_idx,
                       success, outcome, intercepted>>

\* Mutant: the loop over the hops stops one short of the source.
Notified_stops_short(p) ==
    /\ pc[p] = "notify"
    /\ pc' = [pc EXCEPT ![p] = IF hop[p] <= 2 THEN "report" ELSE "remove"]
    /\ hop' = [hop EXCEPT ![p] = @ - 1]
    /\ UNCHANGED <<channels, shutdown, outgoing_node, outgoing_amount,
                   outgoing_cltv, fail_idx, success, error, outcome,
                   intercepted, resolved>>

\* Mutant: the loop over the hops does not move on.
Notified_same_hop(p) ==
    /\ pc[p] = "notify"
    /\ pc' = [pc EXCEPT ![p] = IF hop[p] = 1 THEN "report" ELSE "remove"]
    /\ UNCHANGED <<channels, shutdown, hop, outgoing_node, outgoing_amount,
                   outgoing_cltv, fail_idx, success, error, outcome,
                   intercepted, resolved>>

Notified(p) ==
    /\ pc[p] = "notify"
    /\ pc' = [pc EXCEPT ![p] = IF hop[p] = 1 THEN "report" ELSE "remove"]
    /\ hop' = [hop EXCEPT ![p] = @ - 1]
    /\ UNCHANGED <<channels, shutdown, outgoing_node, outgoing_amount,
                   outgoing_cltv, fail_idx, success, error, outcome,
                   intercepted, resolved>>

NotifyFailed(p) ==
    /\ pc[p] = "notify"
    /\ HasInterceptors
    /\ shutdown' = TRUE
    /\ pc' = [pc EXCEPT ![p] = "report"]
    /\ hop' = [hop EXCEPT ![p] = @ - 1]
    /\ error' = [error EXCEPT ![p] = "InterceptorError"]
    /\ UNCHANGED <<channels, outgoing_node, outgoing_amount, outgoing_cltv,
                   fail_idx, success, outcome, intercepted, resolved>>

\* The result goes to the sender's oneshot and the task ends.
Report(p) ==
    /\ pc[p] = "report"
    /\ pc' = [pc EXCEPT ![p] = "done"]
    /\ UNCHANGED <<channels, shutdown, hop, outgoing_node, outgoing_amount,
                   outgoing_cltv, fail_idx, success, error, outcome,
                   intercepted, resolved>>

-----------------------------------------------------------------------------
\* What the task of one payment does once it has been spawned.
TaskStep(p) ==
    \/ AddRefused(p) \/ AddThenRefused(p) \/ AddThenIntercept(p)
    \/ InterceptProceed(p) \/ InterceptFail(p) \/ InterceptCritical(p)
    \/ Remove(p) \/ Notified(p) \/ NotifyFailed(p)
    \/ Report(p)

Next == \E p \in Payment : DispatchRefused(p) \/ Dispatch(p) \/ TaskStep(p)

Spec == Init /\ [][Next]_vars

\* The runtime runs every spawned task, the mutex is fair, and interceptors
\* answer; whether a payment is dispatched at all is up to the callers.
FairSpec == Spec /\ \A p \in Payment : WF_vars(TaskStep(p))

-----------------------------------------------------------------------------
\* The hops on which the task of p has an HTLC in flight.
Held(p) ==
    CASE pc[p] \in {"idle", "dropped"}                       -> {}
      [] pc[p] \in {"add", "notify"}                         -> 1 .. hop[p] - 1
      [] pc[p] \in {"intercept", "remove", "report", "done"} -> 1 .. hop[p]

HtlcKey(p, i) ==
    <<Hops[p][i].short_channel_id, IncomingNode(p, i), PaymentHash[p]>>

TypeOK ==
    /\ channels = [s \in Scid |-> channels[s]]
    /\ \A s \in Scid : SidesTyped(Channel[s], channels[s], Hash)
    /\ shutdown \in BOOLEAN
    /\ pc \in [Payment -> {"idle", "dropped", "add", "intercept", "remove",
                           "notify", "report", "done"}]
    /\ hop \in [Payment -> Nat]
    /\ outgoing_node \in [Payment -> Node]
    /\ outgoing_amount \in [Payment -> Nat]
    /\ outgoing_cltv \in [Payment -> Nat]
    /\ fail_idx \in [Payment -> Nat]
    /\ success \in [Payment -> BOOLEAN]
    /\ error \in [Payment -> {"Ok"} \cup ForwardingError \cup CriticalError]
    /\ outcome \in [Payment -> PaymentOutcome]

(***************************************************************************)
(* Interleaved payments never break a channel's sanity check, which would  *)
(* shut the simulation down (SimulatedChannel::sanity_check).              *)
(***************************************************************************)
ChannelsSane ==
    \A s \in Scid : Channel[s].capacity_msat % 2 = 0 =>
                        sanity_check(Channel[s], channels[s])

(***************************************************************************)
(* Interleaved payments never exceed what a counterparty accepts in        *)
(* flight (ChannelState::check_outgoing_addition).                         *)
(***************************************************************************)
ChannelsWithinLimits == \A s \in Scid : WithinLimits(Channel[s], channels[s])

(***************************************************************************)
(* Every HTLC in flight belongs to exactly one hop of one payment, and     *)
(* every hop a task still has to resolve has its HTLC in flight with the   *)
(* right amount: no task removes an HTLC twice or another task's HTLC,     *)
(* even when payments share a hash, and no HTLC is forgotten.  A removal   *)
(* therefore never ends in PaymentHashNotFound.                            *)
(***************************************************************************)
HtlcOwnership ==
    /\ \A p \in Payment : \A i \in Held(p) :
          LET s == Hops[p][i].short_channel_id
              n == IncomingNode(p, i)
          IN  /\ s \in Scid
              /\ n \in Ends(Channel[s])
              /\ PaymentHash[p] \in DOMAIN channels[s][n].in_flight
              /\ channels[s][n].in_flight[PaymentHash[p]].amount_msat = Hops[p][i].amount
    /\ \A p, q \in Payment : \A i \in Held(p), j \in Held(q) :
          HtlcKey(p, i) = HtlcKey(q, j) => p = q /\ i = j
    /\ \A s \in Scid : \A n \in Ends(Channel[s]) :
          \A h \in DOMAIN channels[s][n].in_flight :
             \E p \in Payment : \E i \in Held(p) : HtlcKey(p, i) = <<s, n, h>>

(***************************************************************************)
(* Hops of all payments as pairs <<payment, hop>>: those with an HTLC in   *)
(* flight and those that were settled in favour of their receiver.         *)
(***************************************************************************)
RouteHops == UNION {{p} \X (1 .. LastHop(p)) : p \in Payment}

HeldHops == {x \in RouteHops : x[2] \in Held(x[1])}

SettledHops ==
    {x \in RouteHops : outcome[x[1]].kind = "Success" /\ x[2] \notin Held(x[1])}

HopAmount == [x \in RouteHops |-> Hops[x[1]][x[2]].amount]

\* The sum of the amounts that n sends over channel s in these hops.
Sent(hops, s, n) ==
    SumFunctionOnSet(HopAmount,
        {x \in hops : /\ Hops[x[1]][x[2]].short_channel_id = s
                      /\ IncomingNode(x[1], x[2]) = n})

(***************************************************************************)
(* At every moment a node's balance is what it started with, less what it  *)
(* has in flight and what its settled HTLCs paid, plus what its            *)
(* counterparty's settled HTLCs paid: funds move along the whole route of  *)
(* a payment that reports success and nowhere else (propagate_payment).    *)
(***************************************************************************)
LedgerMatchesOutcomes ==
    \A s \in Scid : \A n \in Ends(Channel[s]) :
        channels[s][n].local_balance_msat + Sent(HeldHops, s, n) + Sent(SettledHops, s, n)
            = (Channel[s].capacity_msat \div 2)
                 + Sent(SettledHops, s, Counterparty(Channel[s], n))

(***************************************************************************)
(* A payment that has reported leaves HTLCs behind only after a critical   *)
(* error, and every critical error has fired the shutdown trigger          *)
(* (propagate_payment: "it will still notify the payment outcome and will  *)
(* use the shutdown trigger to signal that we should exit").               *)
(***************************************************************************)
StuckOnlyAfterShutdown ==
    \A p \in Payment :
        pc[p] \in {"report", "done"} =>
            /\ hop[p] > 0 => error[p] \in CriticalError
            /\ error[p] \in CriticalError => shutdown

(***************************************************************************)
(* Interceptors can tell HTLCs apart: two events carry the same forwarding *)
(* node, channel and index exactly when they are about the same hop of the *)
(* same payment, so a resolution always finds the interception it belongs  *)
(* to (HtlcRef in InterceptRequest and InterceptResolution).  On routes    *)
(* that follow the channels: a hop whose node is not the other end of its  *)
(* channel makes the sender the forwarding node of its own HTLC.           *)
(***************************************************************************)
EventsAgree ==
    \A e, f \in intercepted \cup resolved :
        (/\ e.forwarding_node = f.forwarding_node
         /\ e.channel_id = f.channel_id
         /\ e.index = f.index)
            <=> (e.payment = f.payment /\ e.hop = f.hop)

(***************************************************************************)
(* The network drives every channel through the channel's own operations   *)
(* only: seen from one channel, whatever the tasks do is a behaviour of    *)
(* ChannelContract (Contract(s)!Spec for every s, with the always outside  *)
(* of the quantifier).                                                     *)
(***************************************************************************)
Contract(s) == INSTANCE ChannelContract WITH Channel <- Channel[s], sides <- channels[s]

ChannelsKeepContract ==
    /\ \A s \in Scid : Contract(s)!Init
    /\ [][\A s \in Scid : [Contract(s)!Next]_(channels[s])]_channels

(***************************************************************************)
(* A payment is all or nothing and is decided once: it becomes a success   *)
(* only at a moment when every hop of its route has its HTLC in flight,    *)
(* nothing that happens afterwards changes the outcome, a removal that     *)
(* fails and a shutdown included, and a task reports only what it has      *)
(* decided (propagate_payment).                                            *)
(***************************************************************************)
OutcomeIsFinal ==
    [][\A p \in Payment :
          /\ outcome[p].kind # "None" => outcome'[p] = outcome[p]
          /\ outcome'[p].kind = "Success" /\ outcome[p].kind # "Success" =>
                Held(p) = 1 .. LastHop(p)
          /\ pc[p] = "report" => outcome[p].kind # "None"]_vars

(***************************************************************************)
(* A payment that is dispatched to a task eventually reports its outcome   *)
(* and ends, whatever the other payments do.                               *)
(***************************************************************************)
EveryPaymentReports == \A p \in Payment : pc[p] = "add" ~> pc[p] = "done"

(***************************************************************************)
(* The steps a payment over LastHop(p) hops can still take: on the way out *)
(* an addition and an interception at each hop, on the way back a removal  *)
(* and a notification, and then the report.                                *)
(***************************************************************************)
StepsLeft(p) ==
    LET wayBack == 2 * LastHop(p) + 1
    IN  CASE pc[p] = "idle"                -> 2 * wayBack
          [] pc[p] = "add"                 -> wayBack + 2 * (LastHop(p) - hop[p]) + 2
          [] pc[p] = "intercept"           -> wayBack + 2 * (LastHop(p) - hop[p]) + 1
          [] pc[p] = "remove"              -> 2 * hop[p] + 1
          [] pc[p] = "notify"              -> 2 * hop[p]
          [] pc[p] = "report"              -> 1
          [] pc[p] \in {"done", "dropped"} -> 0

(***************************************************************************)
(* However the tasks interleave and wherever a route fails, every critical *)
(* section brings its own payment closer to its report and no other one    *)
(* further from it: a payment over L hops ends within 4 L + 2 steps, and   *)
(* neither the loops of add_htlcs and remove_htlcs nor two payments that   *)
(* fail each other's HTLCs can run forever (propagate_payment).            *)
(***************************************************************************)
EveryStepAdvances ==
    [][\E p \in Payment :
          /\ StepsLeft(p)' \in 0 .. StepsLeft(p) - 1
          /\ \A q \in Payment \ {p} : StepsLeft(q)' = StepsLeft(q)]_vars

(***************************************************************************)
(* "we do not currently include on-chain fees or reserve so these values   *)
(* should exactly match": no payment on a graph that SimGraph::new accepts *)
(* ends in a failed sanity check.  Does not hold, see the findings.        *)
(***************************************************************************)
NoSanityFailure == \A p \in Payment : error[p] # "SanityCheckFailed"

===============================================================================
