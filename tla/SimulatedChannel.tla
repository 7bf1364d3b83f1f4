--------------------------- MODULE SimulatedChannel ---------------------------
(***************************************************************************)
(* `SimulatedChannel` of simln-lib/src/sim_node.rs: two sides, one         *)
(* capacity.  The fixed part of a channel is a record c                    *)
(*     node_1, node_2 : public keys of the two ends                        *)
(*     capacity_msat  : total capacity                                     *)
(*     policy         : public key -> ChannelPolicy                        *)
(* and its changing part a function sides from the two public keys to the  *)
(* ChannelState of that end.  A method that can fail is an error operator  *)
(* and a state operator, as in ChannelState.                               *)
(***************************************************************************)
EXTENDS ChannelState

Ends(c) == {c.node_1, c.node_2}

Counterparty(c, n) == IF n = c.node_1 THEN c.node_2 ELSE c.node_1

\* Each end starts with half of the capacity, rounded down.
SimulatedChannel_new(c) ==
    [n \in Ends(c) |-> ChannelState_new(c.capacity_msat \div 2)]

channel_validate(c) ==
    /\ c.node_1 # c.node_2
    /\ \A n \in Ends(c) : policy_validate(c.policy[n], c.capacity_msat)

\* What the channel holds in all: both balances and everything in flight.
channel_balance(c, sides) ==
    LET total(n) == sides[n].local_balance_msat + in_flight_total(sides[n])
    IN  total(c.node_1) + total(c.node_2)

sanity_check(c, sides) == channel_balance(c, sides) = c.capacity_msat

add_htlc_error(c, sides, sending_node, hash, htlc) ==
    IF htlc.amount_msat = 0 THEN "ZeroAmountHtlc"
    ELSE IF ~ sanity_check(c, sides) THEN "SanityCheckFailed"
    ELSE IF sending_node \notin Ends(c) THEN "NodeNotFound"
    ELSE add_outgoing_error(sides[sending_node], c.policy[sending_node],
                            c.policy[Counterparty(c, sending_node)], hash, htlc)

\* Mutant: the index is the number of HTLCs in flight, so it is used again.
add_htlc_reused_index(c, sides, sending_node, hash, htlc) ==
    [sides EXCEPT ![sending_node] =
        [add_outgoing_htlc(@, hash, htlc) EXCEPT
            !.index = 1 + Cardinality(DOMAIN sides[sending_node].in_flight)]]

\* The state left by an addition that returns no error.
add_htlc(c, sides, sending_node, hash, htlc) ==
    [sides EXCEPT ![sending_node] = add_outgoing_htlc(@, hash, htlc)]

settle_htlc(c, sides, sending_node, amount_msat, success) ==
    [n \in Ends(c) |->
        IF n = sending_node
        THEN settle_outgoing_htlc(sides[n], amount_msat, success)
        ELSE settle_incoming_htlc(sides[n], amount_msat, success)]

(***************************************************************************)
(* The state left by a removal that finds its HTLC: the closing sanity     *)
(* check comes after the balances have moved and undoes nothing.           *)
(***************************************************************************)
remove_htlc(c, sides, sending_node, hash, success) ==
    LET amount_msat == sides[sending_node].in_flight[hash].amount_msat
    IN  settle_htlc(c,
            [sides EXCEPT ![sending_node] = remove_outgoing_htlc(@, hash)],
            sending_node, amount_msat, success)

remove_htlc_error(c, sides, sending_node, hash, success) ==
    IF sending_node \notin Ends(c) THEN "NodeNotFound"
    ELSE IF remove_outgoing_error(sides[sending_node], hash) # "Ok"
         THEN remove_outgoing_error(sides[sending_node], hash)
    ELSE IF ~ sanity_check(c, remove_htlc(c, sides, sending_node, hash, success))
         THEN "SanityCheckFailed"
    ELSE "Ok"

channel_check_forward(c, forwarding_node, cltv_delta, amount_msat, fee_msat) ==
    IF forwarding_node \notin Ends(c) THEN "NodeNotFound"
    ELSE check_htlc_forward(c.policy[forwarding_node], cltv_delta, amount_msat, fee_msat)

-----------------------------------------------------------------------------
(* What is true of the two sides of a channel, for any set of hashes.      *)

SideTyped(s, Hash) ==
    \E hashes \in SUBSET Hash :
        s \in [local_balance_msat : Nat,
               in_flight          : [hashes -> InFlightHtlc],
               index              : Nat]

SidesTyped(c, sides, Hash) ==
    /\ sides = [n \in Ends(c) |-> sides[n]]
    /\ \A n \in Ends(c) : SideTyped(sides[n], Hash)

WithinLimits(c, sides) ==
    \A n \in Ends(c) :
        /\ Cardinality(DOMAIN sides[n].in_flight)
              <= c.policy[Counterparty(c, n)].max_htlc_count
        /\ in_flight_total(sides[n])
              <= c.policy[Counterparty(c, n)].max_in_flight_msat
        /\ \A h \in DOMAIN sides[n].in_flight :
              /\ sides[n].in_flight[h].amount_msat > 0
              /\ sides[n].in_flight[h].amount_msat >= c.policy[n].min_htlc_size_msat
              /\ sides[n].in_flight[h].amount_msat <= c.policy[n].max_htlc_size_msat

IndexesDistinct(c, sides) ==
    \A n \in Ends(c) :
        /\ \A h \in DOMAIN sides[n].in_flight :
              sides[n].in_flight[h].index < sides[n].index
        /\ \A g, h \in DOMAIN sides[n].in_flight :
              sides[n].in_flight[g].index = sides[n].in_flight[h].index => g = h

===============================================================================
