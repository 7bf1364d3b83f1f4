-------------------------------- MODULE RpcNode --------------------------------
(***************************************************************************)
(* The nodes that sim-ln reaches over RPC: LndNode (lnd.rs), ClnNode       *)
(* (cln.rs), EclairNode (eclair.rs) and LdkServerNode (ldk_server.rs), one *)
(* of them at a time.  All four implement the send_payment and             *)
(* track_payment calls of LightningNode; lib.rs makes them from one task   *)
(* per payment, so that the calls of several payments overlap.             *)
(*                                                                         *)
(* The first three share one client behind a mutex.  cln and eclair take   *)
(* it for each poll of track_payment, lnd for the whole of track_payment,  *)
(* and ldk's client needs no lock.  Every backend's select is biased       *)
(* towards the shutdown signal, but the lock and the request in the arm of *)
(* a poll are not interrupted by it.                                       *)
(*                                                                         *)
(* The remote node is external: it accepts a payment or not, resolves it   *)
(* or not, and a request may fail whatever the node did with it.  What it  *)
(* says about a payment is true when it says it.  For eclair server is the *)
(* status of the payment's first part, the only one that is looked at.     *)
(*                                                                         *)
(* A definition that SimNode has under the same name starts with Rpc here. *)
(***************************************************************************)
EXTENDS LightningNode

\* The lock is that of the client.
VARIABLES kind,         \* the node's implementation, fixed
          call,         \* Payment -> where its calls are
          server        \* Payment -> what the remote node did with it

rpc_vars == <<kind, shutdown, lock, call, result, server>>

Kind == {"lnd", "cln", "eclair", "ldk"}

\* A tokio Mutex around the client, which ldk's client does without.
HasLock == kind # "ldk"

\* The call talks to the remote node.
Requesting == {"sending", "confirming", "polling", "subscribing", "streaming"}

SendError == {"SendPaymentError", "PermanentError", "InvalidPaymentHash"}

\* Why a node gave a payment up, as far as its backend can tell.
FailureReason == {"UnexpectedError", "PaymentExpired", "RouteNotFound",
                  "IncorrectPaymentDetails", "InsufficientBalance"}

Result == SendError \cup FailureReason
            \cup {"none", "Hash", "Success", "Unknown", "TrackPaymentError"}

RpcInit ==
    /\ kind \in Kind
    /\ shutdown = FALSE
    /\ lock = NoPayment
    /\ call = [p \in Payment |-> "idle"]
    /\ result = [p \in Payment |-> "none"]
    /\ server = [p \in Payment |-> "none"]

-----------------------------------------------------------------------------
(* Steps shared by the backends.                                           *)

Released(p) == IF lock = p THEN NoPayment ELSE lock

Goto(p, step) == call' = [call EXCEPT ![p] = step]

\* The call returns r; its guard, if it has one, is dropped.
RpcReturn(p, step, r) ==
    /\ Goto(p, step)
    /\ result' = [result EXCEPT ![p] = r]
    /\ lock' = Released(p)
    /\ UNCHANGED <<kind, shutdown, server>>

\* self.client.lock().await: the guard lives until the call returns, or to
\* the end of a poll.
Acquire(p) ==
    /\ call[p] \in {"send_lock", "track_lock"}
    /\ lock = NoPayment
    /\ lock' = p
    /\ Goto(p, IF call[p] = "send_lock" THEN "sending"
               ELSE IF kind = "lnd" THEN "subscribing" ELSE "polling")
    /\ UNCHANGED <<kind, shutdown, result, server>>

\* A task that was spawned before a shutdown may first be polled after it.
\* lnd refuses an amount that is no i64 before it takes the lock.
RpcStartSend(p) ==
    /\ call[p] = "idle"
    /\ \/ kind = "lnd" /\ RpcReturn(p, "done", "SendPaymentError")
       \/ /\ Goto(p, IF HasLock THEN "send_lock" ELSE "sending")
          /\ UNCHANGED <<kind, shutdown, lock, result, server>>

\* lib.rs tracks a payment whose send_payment returned a hash.
RpcStartTrack(p) ==
    /\ call[p] = "sent"
    /\ Goto(p, IF kind = "lnd" THEN "track_lock" ELSE "waiting")
    /\ UNCHANGED <<kind, shutdown, lock, result, server>>

Sent(p) == RpcReturn(p, "sent", "Hash")
Refused(p, e) == RpcReturn(p, "done", e)
Tracked(p, r) == RpcReturn(p, "done", r)

-----------------------------------------------------------------------------
(* send_payment.  A failed request says nothing about what the node did;   *)
(* an answer that names the payment comes from a node that has it.         *)

status_to_lightning_error(code) ==
    IF code = "Unavailable" THEN "SendPaymentError" ELSE "PermanentError"

string_to_payment_hash(p) == Sent(p) \/ Refused(p, "InvalidPaymentHash")

\* send_payment_v2 or its stream fails, the stream ends with no payment, or
\* its first message names the hash.
LndSend(p) ==
    /\ kind = "lnd" /\ call[p] = "sending"
    /\ \/ \E code \in {"Unavailable", "Internal"} : Refused(p, status_to_lightning_error(code))
       \/ Refused(p, "SendPaymentError")
       \/ server[p] # "none" /\ string_to_payment_hash(p)

key_send_error(code) ==
    IF code \in {"-1", "203"} THEN "PermanentError" ELSE "SendPaymentError"

ClnSend(p) ==
    /\ kind = "cln" /\ call[p] = "sending"
    /\ \/ \E code \in {"-1", "203", "205"} : Refused(p, key_send_error(code))
       \/ server[p] # "none" /\ (Sent(p) \/ Refused(p, "InvalidPaymentHash"))

\* sendtonode answers with an identifier, and getsentinfo has to tell the
\* hash of the payment under the same guard.
EclairSend(p) ==
    /\ kind = "eclair" /\ call[p] = "sending"
    /\ \/ Refused(p, "SendPaymentError")
       \/ /\ server[p] # "none"
          /\ Goto(p, "confirming")
          /\ UNCHANGED <<kind, shutdown, lock, result, server>>

\* payment_parts[0] of an empty list panics: the task ends with no result.
EclairConfirm(p) ==
    /\ kind = "eclair" /\ call[p] = "confirming"
    /\ Sent(p) \/ Refused(p, "InvalidPaymentHash") \/ RpcReturn(p, "panicked", "none")

ldk_server_error_to_send_error(code) ==
    IF code \in {"LightningError", "InternalError", "InternalServerError"}
    THEN "SendPaymentError" ELSE "PermanentError"

LdkSend(p) ==
    /\ kind = "ldk" /\ call[p] = "sending"
    /\ \/ \E code \in {"LightningError", "AuthError"} :
             Refused(p, ldk_server_error_to_send_error(code))
       \/ server[p] # "none" /\ string_to_payment_hash(p)

-----------------------------------------------------------------------------
(* track_payment.  cln, eclair and ldk sleep half a second between polls.  *)

\* Mutant: only the stream is raced against the shutdown signal.
SeeShutdown_stream(p) ==
    /\ shutdown /\ call[p] = "streaming"
    /\ Tracked(p, "TrackPaymentError")

\* The biased arm of every backend's select.
SeeShutdown(p) ==
    /\ shutdown /\ call[p] \in {"waiting", "streaming"}
    /\ Tracked(p, "TrackPaymentError")

\* The sleep ends before a shutdown does.
Wake(p) ==
    /\ call[p] = "waiting" /\ ~ shutdown
    /\ Goto(p, IF HasLock THEN "track_lock" ELSE "polling")
    /\ UNCHANGED <<kind, shutdown, lock, result, server>>

\* Mutant: the guard outlives the poll.
Again_locked(p) ==
    /\ server[p] = "pending"
    /\ Goto(p, "waiting")
    /\ UNCHANGED <<kind, shutdown, lock, result, server>>

\* The payment is pending, or not listed yet: the loop goes round.
Again(p) ==
    /\ server[p] = "pending"
    /\ Goto(p, "waiting")
    /\ lock' = Released(p)
    /\ UNCHANGED <<kind, shutdown, result, server>>

\* The answer of a poll.  A failed request, a status that is none of the
\* three and a bad number of parts end the tracking.
Polled(p, success, failure) ==
    /\ call[p] = "polling"
    /\ \/ Tracked(p, "TrackPaymentError")
       \/ Again(p)
       \/ server[p] = "succeeded" /\ Tracked(p, success)
       \/ server[p] = "failed" /\ Tracked(p, failure)

\* Mutant: a status that is not Complete is a failure.
ClnPoll_hasty(p) ==
    /\ kind = "cln" /\ call[p] = "polling"
    /\ \/ server[p] = "succeeded" /\ Tracked(p, "Success")
       \/ server[p] # "succeeded" /\ Tracked(p, "UnexpectedError")

ClnPoll(p) == kind = "cln" /\ Polled(p, "Success", "UnexpectedError")

EclairPoll(p) == kind = "eclair" /\ Polled(p, "Success", "UnexpectedError")

\* Mutant: a failed payment is looked at again, in case it is retried.
LdkPoll_retries(p) ==
    /\ kind = "ldk" /\ call[p] = "polling"
    /\ \/ Tracked(p, "TrackPaymentError")
       \/ server[p] = "succeeded" /\ Tracked(p, "Success")
       \/ /\ server[p] # "succeeded"
          /\ Goto(p, "waiting")
          /\ UNCHANGED <<kind, shutdown, lock, result, server>>

LdkPoll(p) == kind = "ldk" /\ Polled(p, "Success", "UnexpectedError")

\* track_payment_v2 opens a stream, or not.
LndSubscribe(p) ==
    /\ call[p] = "subscribing"
    /\ \/ Tracked(p, "TrackPaymentError")
       \/ /\ Goto(p, "streaming")
          /\ UNCHANGED <<kind, shutdown, lock, result, server>>

\* The stream's first message.  It is wanted when the payment is resolved, and
\* asked for with no_inflight_updates, but the answer's status is not relied
\* on: one that is neither of the two ends in "Unknown", and a failure without
\* a reason in an error.
LndMessage(p) ==
    /\ call[p] = "streaming" /\ ~ shutdown
    /\ \/ Tracked(p, "TrackPaymentError")
       \/ Tracked(p, "Unknown")
       \/ server[p] = "succeeded" /\ Tracked(p, "Success")
       \/ server[p] = "failed" /\ \E r \in FailureReason : Tracked(p, r)

-----------------------------------------------------------------------------
(* The remote node and the rest of the simulation.                         *)

Accept(p) ==
    /\ call[p] = "sending" /\ server[p] = "none"
    /\ server' = [server EXCEPT ![p] = "pending"]
    /\ UNCHANGED <<kind, shutdown, lock, call, result>>

Resolve(p) ==
    /\ server[p] = "pending"
    /\ \E r \in {"succeeded", "failed"} : server' = [server EXCEPT ![p] = r]
    /\ UNCHANGED <<kind, shutdown, lock, call, result>>

RpcShutdown ==
    /\ ~ shutdown
    /\ shutdown' = TRUE
    /\ UNCHANGED <<kind, lock, call, result, server>>

Answered(p) ==
    \/ LndSend(p) \/ ClnSend(p) \/ EclairSend(p) \/ EclairConfirm(p) \/ LdkSend(p)
    \/ ClnPoll(p) \/ EclairPoll(p) \/ LdkPoll(p) \/ LndSubscribe(p)

RpcNext ==
    \/ RpcShutdown
    \/ \E p \in Payment :
         \/ RpcStartSend(p) \/ RpcStartTrack(p) \/ Acquire(p)
         \/ Answered(p) \/ LndMessage(p) \/ Wake(p) \/ SeeShutdown(p)
         \/ Accept(p) \/ Resolve(p)

\* The runtime polls every call, the mutex is fair (tokio's is a queue) and
\* the remote node answers every request, but it need not resolve a payment.
RpcFairness ==
    \A p \in Payment : /\ SF_rpc_vars(Acquire(p))
                       /\ WF_rpc_vars(Answered(p))
                       /\ WF_rpc_vars(Wake(p))
                       /\ WF_rpc_vars(SeeShutdown(p))

RpcSpec == RpcInit /\ [][RpcNext]_rpc_vars /\ RpcFairness

-----------------------------------------------------------------------------
RpcTypeOK ==
    /\ kind \in Kind
    /\ shutdown \in BOOLEAN
    /\ lock \in Payment \cup {NoPayment}
    /\ call \in [Payment -> Requesting \cup {"idle", "send_lock", "sent", "waiting",
                                             "track_lock", "done", "panicked"}]
    /\ result \in [Payment -> Result]
    /\ server \in [Payment -> {"none", "pending", "succeeded", "failed"}]

(***************************************************************************)
(* The client is used by one call at a time and the lock tells which: the  *)
(* mutex is held exactly while its holder talks to the node, across both   *)
(* requests of eclair's send_payment and across the stream of lnd's        *)
(* track_payment, and is free once the call has returned, an error or a    *)
(* panic included.                                                         *)
(***************************************************************************)
LockDiscipline ==
    \A p \in Payment : lock = p <=> HasLock /\ call[p] \in Requesting

(***************************************************************************)
(* What each result tells of the payment, however the polls, the lock, the *)
(* shutdown and the node's own steps interleave.  Success: the node        *)
(* settled it.  A reason for a failure: the node gave it up, so neither is *)
(* said of a payment that is pending.  A hash, a hash that cannot be read, *)
(* lnd's Unknown and a failed tracking: the node has taken the payment,    *)
(* and it may be pending, settled or given up.  Nothing is promised of the *)
(* other two errors of send_payment.  lib.rs promises more in two places:  *)
(* Unknown is documented as a failure, and InvalidPaymentHash is recorded  *)
(* as "never dispatched", the opposite of what is shown here.  Only        *)
(* payments with a hash are tracked.                                       *)
(***************************************************************************)
ResultsAreTrue ==
    \A p \in Payment :
        /\ result[p] = "Success" => server[p] = "succeeded"
        /\ result[p] \in FailureReason => server[p] = "failed"
        /\ result[p] \in {"Hash", "InvalidPaymentHash", "Unknown", "TrackPaymentError"}
           => server[p] # "none"
        /\ call[p] \in {"sent", "waiting", "track_lock", "polling", "subscribing", "streaming"}
           => result[p] = "Hash"

(***************************************************************************)
(* After a shutdown no call waits for a payment or for the client: the     *)
(* simulation is not held up by payments that never resolve, nor by the    *)
(* calls that queue for the lock behind them.                              *)
(***************************************************************************)
ShutdownEndsCalls ==
    shutdown ~> \A p \in Payment : call[p] \in {"idle", "sent", "done", "panicked"}

(***************************************************************************)
(* A node that is polled serves all of its payments: one that never        *)
(* resolves delays neither the sending of another one nor the report of    *)
(* another one that has resolved, although all polls share the client's    *)
(* lock.  (lnd is the exception: its track_payment keeps the client.)      *)
(***************************************************************************)
PollingServesAll ==
    kind # "lnd" =>
        \A p \in Payment :
            /\ call[p] = "send_lock" ~> call[p] \in {"sent", "done", "panicked"}
            /\ call[p] = "waiting" /\ server[p] # "pending" ~> call[p] = "done"

===============================================================================
