--------------------------- MODULE ChannelContract ----------------------------
(***************************************************************************)
(* What one simulated channel promises to whoever calls it: callers add    *)
(* and remove HTLCs in any order, with any sender, hash, amount and        *)
(* expiry, and the channel keeps its funds, its limits and its HTLC        *)
(* indexes right.  A call that returns an error leaves the state as it is  *)
(* and is a stuttering step.  PaymentNetwork implements this specification *)
(* for every one of its channels.                                          *)
(***************************************************************************)
EXTENDS SimulatedChannel

CONSTANTS Node,      \* public keys, the two ends and strangers
          Hash,      \* payment hashes
          Channel,   \* the fixed part of the channel, see SimulatedChannel
          Msat,      \* amounts a caller may ask for
          Height     \* expiry heights a caller may ask for

ASSUME ChannelAssumption ==
    /\ Channel.node_1 \in Node
    /\ Channel.node_2 \in Node
    /\ Channel.capacity_msat \in Nat
    /\ Channel.policy \in [Ends(Channel) -> ChannelPolicy]
    /\ channel_validate(Channel)
    /\ Msat \subseteq Nat
    /\ Height \subseteq Nat

VARIABLE sides       \* ChannelState of each end

-----------------------------------------------------------------------------

Init == sides = SimulatedChannel_new(Channel)

AddHtlc(sending_node, hash, htlc) ==
    /\ add_htlc_error(Channel, sides, sending_node, hash, htlc) = "Ok"
    /\ sides' = add_htlc(Channel, sides, sending_node, hash, htlc)

\* A removal that finds its HTLC moves the funds, sane or not.
RemoveHtlc(sending_node, hash, success) ==
    /\ remove_htlc_error(Channel, sides, sending_node, hash, success)
          \in {"Ok", "SanityCheckFailed"}
    /\ sides' = remove_htlc(Channel, sides, sending_node, hash, success)

Next ==
    \E n \in Node, h \in Hash :
        \/ \E amt \in Msat, cltv \in Height :
               AddHtlc(n, h, [amount_msat |-> amt, cltv_expiry |-> cltv])
        \/ \E success \in BOOLEAN : RemoveHtlc(n, h, success)

Spec == Init /\ [][Next]_sides

-----------------------------------------------------------------------------
(* Every side is a ChannelState whose map is keyed by payment hashes.      *)
TypeOK == SidesTyped(Channel, sides, Hash)

EvenCapacity == Channel.capacity_msat % 2 = 0

(***************************************************************************)
(* The sanity check of SimulatedChannel never fails: balances and HTLCs in *)
(* flight add up to the capacity after every sequence of additions,        *)
(* settlements and failures.                                               *)
(***************************************************************************)
SanityCheck == sanity_check(Channel, sides)

(***************************************************************************)
(* The HTLCs a node has in flight stay within what its counterparty        *)
(* accepts (max_htlc_count, max_in_flight_msat) and every one is within    *)
(* the sizes the sender advertises, however additions and removals         *)
(* alternate (check_outgoing_addition).                                    *)
(***************************************************************************)
InFlightLimits == WithinLimits(Channel, sides)

(***************************************************************************)
(* Two HTLCs that the same node has in flight have different indexes, all  *)
(* below the next one, so an index names one HTLC of a sender for ever     *)
(* (ChannelState::index, "unique identifier for htlcs proposed by this     *)
(* node").                                                                 *)
(***************************************************************************)
IndexesUnique == IndexesDistinct(Channel, sides)

\* What a step leaves alone: the counters never go back, and an HTLC that is
\* in flight before and after the step is the same.
HtlcsKept ==
    \A n \in Ends(Channel) :
        /\ sides'[n].index >= sides[n].index
        /\ \A h \in DOMAIN sides[n].in_flight \cap DOMAIN sides'[n].in_flight :
              sides'[n].in_flight[h] = sides[n].in_flight[h]

(***************************************************************************)
(* An index is handed out once: the counter never goes back, and an HTLC   *)
(* in flight keeps its amount, expiry and index until it is removed        *)
(* (add_outgoing_htlc refuses a hash that is in flight).                   *)
(***************************************************************************)
HtlcsAreFixed == [][HtlcsKept]_sides

===============================================================================
