------------------------------- MODULE MCChannel -------------------------------
(***************************************************************************)
(* One channel with asymmetric policies, two ends and a stranger, and any  *)
(* calls, for TLC.  Capacity is the only parameter of the cfg that varies. *)
(***************************************************************************)
EXTENDS ChannelContract

CONSTANTS Alice, Bob, Stranger, h1, h2, MCCapacity, MaxIndex

MCNode == {Alice, Bob, Stranger}

\* Bob accepts one HTLC more than Alice, Alice more value than Bob.
MCChannelAB ==
    [node_1 |-> Alice, node_2 |-> Bob, capacity_msat |-> MCCapacity,
     policy |-> [n \in {Alice, Bob} |->
        [max_htlc_count     |-> IF n = Alice THEN 1 ELSE 2,
         max_in_flight_msat |-> IF n = Alice THEN 6 ELSE 5,
         min_htlc_size_msat |-> IF n = Alice THEN 2 ELSE 1,
         max_htlc_size_msat |-> IF n = Alice THEN 4 ELSE 6,
         cltv_expiry_delta  |-> 1,
         base_fee           |-> 0,
         fee_rate_prop      |-> 0]]]

MCHash == {h1, h2}

MCMsat == 0 .. 5

MCHeight == {40, 500000001}

\* The bound on the number of additions in one direction.
IndexBound == \A n \in Ends(Channel) : sides[n].index <= MaxIndex

===============================================================================
