----------------------------- MODULE ChannelState -----------------------------
(***************************************************************************)
(* One side of a simulated channel: `ChannelPolicy` and `ChannelState` of  *)
(* simln-lib/src/sim_node.rs, as operators on values.                      *)
(*                                                                         *)
(* A state s of one side is a record                                       *)
(*     local_balance_msat : liquidity this side may still send             *)
(*     in_flight          : payment hash -> outgoing HTLC and its index    *)
(*     index              : index of the next outgoing HTLC                *)
(*                                                                         *)
(* A method that can fail is split in two: the error it returns ("Ok" when *)
(* there is none) and the state it leaves.  Sums of amounts are at most    *)
(* twice the capacity, so they fit a u64 for every capacity up to 2^63     *)
(* msat, four times the bitcoin supply; only the fee product can overflow, *)
(* which the code checks for and which MaxU64 bounds here.                 *)
(***************************************************************************)
EXTENDS Naturals, FiniteSets, Functions

CONSTANT MaxU64      \* the largest u64, the bound of the checked fee product

ASSUME MaxU64Assumption == MaxU64 \in Nat

-----------------------------------------------------------------------------
(* Errors.  A forwarding error fails the payment, a critical one the run.  *)

ForwardingError ==
    {"InsufficientCltvDelta", "InsufficientFee", "MoreThanMaximum",
     "LessThanMinimum", "ExceedsInFlightCount", "ExceedsInFlightTotal",
     "InsufficientBalance", "ExpiryInSeconds", "InterceptorForwardingError"}

CriticalError ==
    {"FeeOverflow", "PaymentHashExists", "PaymentHashNotFound",
     "SanityCheckFailed", "NodeNotFound", "ChannelNotFound",
     "ZeroAmountHtlc", "InterceptorError", "DuplicateCustomRecord"}

-----------------------------------------------------------------------------
(* Policies and HTLCs.                                                     *)

ChannelPolicy ==
    [max_htlc_count     : Nat,
     max_in_flight_msat : Nat,
     min_htlc_size_msat : Nat,
     max_htlc_size_msat : Nat,
     cltv_expiry_delta  : Nat,
     base_fee           : Nat,
     fee_rate_prop      : Nat]

policy_validate(policy, capacity_msat) ==
    /\ policy.max_in_flight_msat <= capacity_msat
    /\ policy.max_htlc_size_msat <= capacity_msat

Htlc == [amount_msat : Nat, cltv_expiry : Nat]

InFlightHtlc == [amount_msat : Nat, cltv_expiry : Nat, index : Nat]

-----------------------------------------------------------------------------
(* State of one side.                                                      *)

NoHtlcs == [h \in {} |-> 0]

ChannelState_new(local_balance_msat) ==
    [local_balance_msat |-> local_balance_msat,
     in_flight          |-> NoHtlcs,
     index              |-> 0]

\* The sum of the amounts in flight.
in_flight_total(s) ==
    SumFunction([h \in DOMAIN s.in_flight |-> s.in_flight[h].amount_msat])

(* Is this side's policy met by a forward that leaves through it?          *)
check_htlc_forward(policy, cltv_delta, amt, fee) ==
    LET prop_fee     == amt * policy.fee_rate_prop
        expected_fee == (prop_fee \div 1000000) + policy.base_fee
    IN  IF cltv_delta < policy.cltv_expiry_delta THEN "InsufficientCltvDelta"
        ELSE IF prop_fee > MaxU64 \/ expected_fee > MaxU64 THEN "FeeOverflow"
        ELSE IF fee < expected_fee THEN "InsufficientFee"
        ELSE "Ok"

(***************************************************************************)
(* The limits an added HTLC has to meet, in the order the code tests them: *)
(* sizes are the sender's own, the in-flight limits are its counterparty's.*)
(***************************************************************************)
check_outgoing_addition(s, policy, counterparty, htlc) ==
    IF htlc.amount_msat > policy.max_htlc_size_msat THEN "MoreThanMaximum"
    ELSE IF htlc.amount_msat < policy.min_htlc_size_msat THEN "LessThanMinimum"
    ELSE IF Cardinality(DOMAIN s.in_flight) + 1 > counterparty.max_htlc_count
         THEN "ExceedsInFlightCount"
    ELSE IF in_flight_total(s) + htlc.amount_msat > counterparty.max_in_flight_msat
         THEN "ExceedsInFlightTotal"
    ELSE IF htlc.amount_msat > s.local_balance_msat THEN "InsufficientBalance"
    ELSE IF htlc.cltv_expiry > 500000000 THEN "ExpiryInSeconds"
    ELSE "Ok"

\* Mutant: the in-flight limits are read from the sender's own policy.
add_outgoing_error_own_limits(s, policy, counterparty, hash, htlc) ==
    LET fwd_err == check_outgoing_addition(s, policy, policy, htlc)
    IN  IF fwd_err # "Ok" THEN fwd_err
        ELSE IF hash \in DOMAIN s.in_flight THEN "PaymentHashExists"
        ELSE "Ok"

(* The duplicate test comes after the limits: a repeated hash that also    *)
(* breaks a limit is an ordinary forwarding failure.                       *)
add_outgoing_error(s, policy, counterparty, hash, htlc) ==
    LET fwd_err == check_outgoing_addition(s, policy, counterparty, htlc)
    IN  IF fwd_err # "Ok" THEN fwd_err
        ELSE IF hash \in DOMAIN s.in_flight THEN "PaymentHashExists"
        ELSE "Ok"

add_outgoing_htlc(s, hash, htlc) ==
    [local_balance_msat |-> s.local_balance_msat - htlc.amount_msat,
     in_flight |-> [h \in DOMAIN s.in_flight \cup {hash} |->
                      IF h = hash
                      THEN [amount_msat |-> htlc.amount_msat,
                            cltv_expiry |-> htlc.cltv_expiry,
                            index       |-> s.index]
                      ELSE s.in_flight[h]],
     index     |-> s.index + 1]

remove_outgoing_error(s, hash) ==
    IF hash \in DOMAIN s.in_flight THEN "Ok" ELSE "PaymentHashNotFound"

remove_outgoing_htlc(s, hash) ==
    [s EXCEPT !.in_flight = [h \in DOMAIN s.in_flight \ {hash} |-> s.in_flight[h]]]

\* Mutant: the sender is refunded whatever the outcome.
settle_outgoing_htlc_always(s, amt, success) ==
    [s EXCEPT !.local_balance_msat = @ + amt]

\* Mutant: a success debits the sender, who has paid when the HTLC was added.
settle_outgoing_htlc_debits_again(s, amt, success) ==
    [s EXCEPT !.local_balance_msat = IF success THEN @ - amt ELSE @ + amt]

settle_outgoing_htlc(s, amt, success) ==
    [s EXCEPT !.local_balance_msat = @ + (IF success THEN 0 ELSE amt)]

settle_incoming_htlc(s, amt, success) ==
    [s EXCEPT !.local_balance_msat = @ + (IF success THEN amt ELSE 0)]

===============================================================================
