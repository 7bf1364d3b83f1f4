---------------------------- MODULE RandomActivity ----------------------------
(***************************************************************************)
(* simln-lib/src/random_activity.rs: `NetworkGraphView`, which draws the   *)
(* destinations of random payments, and `RandomPaymentActivity`, which     *)
(* draws their amounts, as operators.  Amounts and capacities are in msat. *)
(* A constructor or method that can fail is its error, "Ok" if none; a     *)
(* draw is the set of values that it can return.                           *)
(*                                                                         *)
(* The logarithms of payment_amount are only compared, which is to compare *)
(* their arguments.                                                        *)
(***************************************************************************)
EXTENDS Naturals, FiniteSets

CONSTANT MaxU64      \* the largest u64

ASSUME MaxU64Assumption == MaxU64 \in Nat

-----------------------------------------------------------------------------
(* RandomPaymentActivity.                                                  *)

\* A product of u64s, unchecked: it wraps in a release build.
min_required_capacity(expected_payment_amt) == (2 * expected_payment_amt) % (MaxU64 + 1)

validate_capacity(node_capacity_msat, expected_payment_amt) ==
    IF node_capacity_msat < min_required_capacity(expected_payment_amt)
    THEN "InsufficientCapacity" ELSE "Ok"

RandomPaymentActivity_error(source_capacity_msat, expected_payment_amt, multiplier) ==
    IF 0 \in {source_capacity_msat, expected_payment_amt, multiplier}
    THEN "ValueError"
    ELSE validate_capacity(source_capacity_msat, expected_payment_amt)

payment_limit(source_capacity, destination_capacity) ==
    (IF source_capacity < destination_capacity THEN source_capacity ELSE destination_capacity) \div 2

\* sigma_square < 0, whatever the draw.
payment_amount_error(source_capacity, destination_capacity, expected_payment_amt) ==
    IF payment_limit(source_capacity, destination_capacity) < expected_payment_amt
    THEN "PaymentGenerationError" ELSE "Ok"

-----------------------------------------------------------------------------
(* NetworkGraphView: nodes is a function from public keys to capacities.   *)

NetworkGraphView_error(nodes) ==
    IF Cardinality(DOMAIN nodes) < 2 THEN "ValueError"
    ELSE IF \E n \in DOMAIN nodes : nodes[n] = 0 THEN "InsufficientCapacity"
    ELSE "Ok"

\* The picker draws until the node is not the source; a weight of zero is
\* never drawn.  With no such node the loop does not end.
choose_destination(nodes, source) == {n \in DOMAIN nodes \ {source} : nodes[n] > 0}

===============================================================================
