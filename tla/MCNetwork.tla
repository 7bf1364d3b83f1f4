------------------------------- MODULE MCNetwork -------------------------------
(***************************************************************************)
(* Three nodes in a line, Alice -- Bob -- Carol, and the payments the cfg  *)
(* selects, for TLC.                                                       *)
(***************************************************************************)
EXTENDS PaymentNetwork

CONSTANTS Alice, Bob, Carol,       \* nodes
          ab, bc, nowhere,         \* two channels and an id of no channel
          h1, h2,                  \* payment hashes
          Capacity                 \* capacity of both channels

MCNode == {Alice, Bob, Carol}

MCHash == {h1, h2}

MCScid == {ab, bc}

\* Bob charges 1 msat plus a rate that overflows for large amounts, and
\* accepts only one HTLC at a time from each of his peers.
MCPolicy(n) ==
    [max_htlc_count     |-> IF n = Bob THEN 1 ELSE 2,
     max_in_flight_msat |-> 5,
     min_htlc_size_msat |-> 1,
     max_htlc_size_msat |-> 5,
     cltv_expiry_delta  |-> 1,
     base_fee           |-> IF n = Bob THEN 1 ELSE 0,
     fee_rate_prop      |-> IF n = Bob THEN 100000 ELSE 0]

MCChannel ==
    [s \in MCScid |->
       LET a == IF s = ab THEN Alice ELSE Bob
           b == IF s = ab THEN Bob ELSE Carol
       IN  [node_1 |-> a, node_2 |-> b, capacity_msat |-> Capacity,
            policy |-> [n \in {a, b} |-> MCPolicy(n)]]]

H(s, n, amount, expiry) ==
    [short_channel_id |-> s, pubkey |-> n, amount |-> amount, expiry |-> expiry]

\* The payments a cfg can choose from: source, hash, number of paths and hops.
P(source, hash, paths, hops) ==
    [source |-> source, hash |-> hash, paths |-> paths, hops |-> hops]

Catalogue ==
    [AliceToCarol   |-> P(Alice, h1, 1, <<H(ab, Bob, 3, 3), H(bc, Carol, 2, 2)>>),
     CarolToAlice   |-> P(Carol, h2, 1, <<H(bc, Bob, 4, 3), H(ab, Alice, 3, 2)>>),
     SameHash       |-> P(Bob, h1, 1, <<H(bc, Carol, 3, 2)>>),
     AliceToBob     |-> P(Alice, h2, 1, <<H(ab, Bob, 2, 2)>>),
     Cycle          |-> P(Alice, h2, 1, <<H(ab, Bob, 2, 4), H(ab, Alice, 1, 2),
                                          H(ab, Bob, 1, 1)>>),
     DeltaTooSmall  |-> P(Alice, h2, 1, <<H(ab, Bob, 3, 2), H(bc, Carol, 2, 2)>>),
     FeeOverflows   |-> P(Alice, h2, 1, <<H(ab, Bob, 5, 3), H(bc, Carol, 4, 2)>>),
     ZeroAmount     |-> P(Carol, h2, 1, <<H(bc, Bob, 1, 3), H(ab, Alice, 0, 2)>>),
     UnknownChannel |-> P(Alice, h1, 1, <<H(ab, Bob, 3, 3), H(nowhere, Carol, 2, 2)>>),
     Disconnected   |-> P(Alice, h2, 1, <<H(ab, Alice, 3, 3), H(bc, Carol, 2, 2)>>),
     TwoPaths       |-> P(Alice, h2, 2, <<H(ab, Bob, 2, 2)>>)]

MCSource == [p \in Payment |-> Catalogue[p].source]
MCHops == [p \in Payment |-> Catalogue[p].hops]
MCPathCount == [p \in Payment |-> Catalogue[p].paths]
MCPaymentHash == [p \in Payment |-> Catalogue[p].hash]

\* The amounts and heights of the chosen payments.
MCMsat == UNION {{MCHops[p][i].amount : i \in DOMAIN MCHops[p]} : p \in Payment}
MCHeight == UNION {{MCHops[p][i].expiry : i \in DOMAIN MCHops[p]} : p \in Payment}

===============================================================================
