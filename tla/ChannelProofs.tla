----------------------------- MODULE ChannelProofs -----------------------------
(***************************************************************************)
(* The contract of a simulated channel, proved for every channel SimGraph  *)
(* accepts, every set of hashes and every sequence of calls.               *)
(***************************************************************************)
EXTENDS ChannelContract, ChannelLemmas

IInv == SidesInv(Channel, sides, Hash)

\* SimulatedChannel::validate has accepted the channel.
LEMMA ChannelIsValid == ValidChannel(Channel)
BY ChannelAssumption DEF ValidChannel

\* Every step of the contract preserves the inductive invariant.
LEMMA StepPreserves == IInv /\ [Next]_sides => IInv'
<1> SUFFICES ASSUME IInv, [Next]_sides PROVE IInv'
  OBVIOUS
<1> USE DEF IInv
<1>1. ASSUME NEW n \in Node, NEW h \in Hash, NEW amt \in Msat, NEW cltv \in Height,
             AddHtlc(n, h, [amount_msat |-> amt, cltv_expiry |-> cltv])
      PROVE  IInv'
  <2>1. [amount_msat |-> amt, cltv_expiry |-> cltv] \in Htlc
    BY ChannelAssumption DEF Htlc
  <2>2. QED
    BY <1>1, <2>1, AddPreserves, ChannelIsValid DEF AddHtlc
<1>2. ASSUME NEW n \in Node, NEW h \in Hash, NEW success \in BOOLEAN,
             RemoveHtlc(n, h, success)
      PROVE  IInv'
  <2>1. n \in Ends(Channel) /\ h \in DOMAIN sides[n].in_flight
    BY <1>2 DEF RemoveHtlc, remove_htlc_error, remove_outgoing_error
  <2>2. QED
    BY <1>2, <2>1, RemovePreserves, ChannelIsValid DEF RemoveHtlc
<1>3. CASE UNCHANGED sides
  BY <1>3
<1>4. QED
  BY <1>1, <1>2, <1>3 DEF Next

\* The invariant holds in every behaviour.
LEMMA InductiveInvariant == Spec => []IInv
<1>1. Init => IInv
  BY NewChannelInv, ChannelIsValid DEF Init, IInv
<1>2. QED
  BY <1>1, StepPreserves, PTL DEF Spec

(***************************************************************************)
(* The state of a channel keeps its type: in particular no balance goes    *)
(* below zero, which the unsigned arithmetic of the code relies on.        *)
(***************************************************************************)
THEOREM ChannelTyped == Spec => []TypeOK
<1>1. IInv => TypeOK
  BY DEF IInv, SidesInv, TypeOK
<1>2. QED
  BY <1>1, InductiveInvariant, PTL

(***************************************************************************)
(* A channel whose capacity is even never fails its sanity check,          *)
(* whatever its callers do.                                                *)
(***************************************************************************)
THEOREM ChannelSane ==
    ASSUME EvenCapacity
    PROVE  Spec => []SanityCheck
<1>1. IInv => SanityCheck
  <2> SUFFICES ASSUME IInv PROVE SanityCheck
    OBVIOUS
  <2>1. channel_balance(Channel, sides) = 2 * (Channel.capacity_msat \div 2)
    BY DEF IInv, SidesInv, FundsKept
  <2>2. 2 * (Channel.capacity_msat \div 2) = Channel.capacity_msat
    BY ChannelAssumption DEF EvenCapacity
  <2>3. QED
    BY <2>1, <2>2 DEF SanityCheck, sanity_check
<1>2. QED
  BY <1>1, InductiveInvariant, PTL

(***************************************************************************)
(* The HTLCs in flight never exceed the counterparty's limits.             *)
(***************************************************************************)
THEOREM ChannelLimited == Spec => []InFlightLimits
<1>1. IInv => InFlightLimits
  BY DEF IInv, SidesInv, InFlightLimits
<1>2. QED
  BY <1>1, InductiveInvariant, PTL

(***************************************************************************)
(* An index names at most one HTLC in flight of each sender.               *)
(***************************************************************************)
THEOREM ChannelIndexed == Spec => []IndexesUnique
<1>1. IInv => IndexesUnique
  BY DEF IInv, SidesInv, IndexesUnique
<1>2. QED
  BY <1>1, InductiveInvariant, PTL

(***************************************************************************)
(* No step changes an HTLC that stays in flight or takes an index back:    *)
(* an addition takes a hash that is free, a removal touches one HTLC only. *)
(***************************************************************************)
THEOREM ChannelHtlcsFixed == Spec => HtlcsAreFixed
<1>1. ASSUME IInv, NEW n \in Node, NEW h \in Hash, NEW htlc, AddHtlc(n, h, htlc)
      PROVE  HtlcsKept
  <2>1. n \in Ends(Channel) /\ h \notin DOMAIN sides[n].in_flight
    BY <1>1 DEF AddHtlc, add_htlc_error, add_outgoing_error
  <2>2. SidesTyped(Channel, sides, Hash)
    BY <1>1 DEF IInv, SidesInv
  <2>3. \A m \in Ends(Channel) : sides[m].index \in Nat
    BY <2>2 DEF SidesTyped, SideTyped
  <2>4. /\ \A m \in Ends(Channel) : m # n => sides'[m] = sides[m]
        /\ \A g \in DOMAIN sides[n].in_flight : sides'[n].in_flight[g] = sides[n].in_flight[g]
        /\ sides'[n].index = sides[n].index + 1
    BY <1>1, <2>1, <2>2, AddEffect DEF AddHtlc
  <2>5. QED
    BY <2>3, <2>4 DEF HtlcsKept
<1>2. ASSUME IInv, NEW n \in Node, NEW h \in Hash, NEW success \in BOOLEAN,
             RemoveHtlc(n, h, success)
      PROVE  HtlcsKept
  <2>1. n \in Ends(Channel) /\ h \in DOMAIN sides[n].in_flight
    BY <1>2 DEF RemoveHtlc, remove_htlc_error, remove_outgoing_error
  <2>2. SidesTyped(Channel, sides, Hash)
    BY <1>2 DEF IInv, SidesInv
  <2>3. \A m \in Ends(Channel) : sides[m].index \in Nat
    BY <2>2 DEF SidesTyped, SideTyped
  <2>4. /\ \A m \in Ends(Channel) : /\ sides'[m].index = sides[m].index
                                    /\ m # n => sides'[m].in_flight = sides[m].in_flight
        /\ DOMAIN sides'[n].in_flight = DOMAIN sides[n].in_flight \ {h}
        /\ \A g \in DOMAIN sides[n].in_flight \ {h} :
              sides'[n].in_flight[g] = sides[n].in_flight[g]
    BY <1>2, <2>1, <2>2, RemoveEffect DEF RemoveHtlc
  <2>5. QED
    BY <2>3, <2>4 DEF HtlcsKept
<1>3. IInv /\ [Next]_sides => [HtlcsKept]_sides
  BY <1>1, <1>2 DEF Next
<1>4. QED
  BY <1>3, InductiveInvariant, PTL DEF Spec, HtlcsAreFixed

===============================================================================
