-------------------------------- MODULE MCSetup --------------------------------
(***************************************************************************)
(* Configurations for TLC, in families that each vary what one part of the *)
(* setup looks at: the options, the answers of real nodes for random and   *)
(* for defined activity, and the channels of a simulated network.          *)
(***************************************************************************)
EXTENDS SimulationSetup

Keys == {"A", "B", "C"}

Given == [exists |-> TRUE, relative |-> TRUE, in_data_dir |-> FALSE, json_files |-> 0]

Base == [file |-> Given, expected_pmt_amt |-> 1000, multiplier |-> 1,
         latency |-> FALSE, virtual_time |-> FALSE, total_time |-> TRUE,
         nodes |-> <<>>, sim_network |-> <<>>, activity |-> <<>>, exclude |-> {}]

Pk(id) == [type |-> "PublicKey", id |-> id]
Alias(id) == [type |-> "Alias", id |-> id]
Value(v) == [type |-> "Value", min |-> v, max |-> v]
RangeOf(lo, hi) == [type |-> "Range", min |-> lo, max |-> hi]

Flow(source, destination, amount) ==
    [source |-> source, destination |-> destination, amount |-> amount, interval |-> Value(5)]

-----------------------------------------------------------------------------
(* Real nodes.  "D" and "E" are in the graph and not ours, and share an    *)
(* alias; "F" has none.                                                    *)

Raw(kind, keysend) ==
    IF kind = "eclair"
    THEN {<<"unheard_of", "optional">>} \cup IF keysend THEN {<<"keysend", "mandatory">>} ELSE {}
    ELSE {9} \cup IF keysend THEN {55} ELSE {}

GraphSeenBy(kind, keys) ==
    {[pubkey |-> k, features |-> Raw(kind, k # "C"), announced |-> k # "F",
      alias |-> CASE k \in {"D", "E"} -> "twin" [] k = "F" -> "" [] OTHER -> k] : k \in keys}

ChannelList(kind, msat) ==
    CASE kind = "lnd" -> <<msat \div 1000>>
      [] kind = "cln" -> [source |-> <<msat \div 2>>, destination |-> <<msat \div 2>>]
      [] kind = "eclair" -> <<<<msat \div 2000>>, <<msat \div 2000>>>>
      [] kind = "ldk" -> <<[outbound |-> msat, inbound |-> 0]>>

Node(kind, id, pubkey, network, keysend, msat, keys) ==
    [kind |-> kind, id |-> id, pubkey |-> pubkey, alias |-> pubkey, networks |-> <<network>>,
     features |-> Raw(kind, keysend), channels |-> ChannelList(kind, msat),
     graph |-> GraphSeenBy(kind, keys)]

\* Which of three nodes are random sources: capacities around 2, 4 and 8
\* times the expected amount, and around the limit of a u64.
RandomReal ==
    {[Base EXCEPT !.expected_pmt_amt = e,
                  !.nodes = <<Node("lnd", Pk("A"), "A", "regtest", ks, a, Keys),
                              Node(k, Alias("b"), "B", "regtest", TRUE, b, Keys),
                              Node("eclair", Pk("B"), "C", "regtest", TRUE, 8000, Keys)>>] :
        e \in {1000, 2000, MaxU64 \div 2 + 1, MaxU64 - 1}, ks \in BOOLEAN, k \in {"cln", "ldk"},
        a \in {0, 2000, 4000}, b \in {2000, 4000, 8000}}

\* Identities, networks and what each node knows of the others.
ConnectReal ==
    {[Base EXCEPT !.nodes = <<Node(k, id, "A", net, TRUE, 8000, Keys),
                              Node("ldk", Pk("A"), p, "regtest", TRUE, 8000, seen)>>] :
        k \in {"lnd", "cln", "eclair", "ldk"}, id \in {Pk("A"), Pk("B"), Alias("B"), Alias("a")},
        net \in {"mainnet", "main", "simnet", "testnet4", "signet", "regtest"}, p \in {"A", "B"},
        seen \in {{}, Keys}}

TwoChains ==
    [Base EXCEPT !.nodes = <<[Node("lnd", Pk("A"), "A", "regtest", TRUE, 8000, Keys)
                                EXCEPT !.networks = <<"regtest", "regtest">>]>>]

Unknown == [Base EXCEPT !.nodes = <<Node("lnd", Pk("A"), "A", "regtest", TRUE, 8000, {"B", "C"}),
                                    Node("cln", Pk("B"), "B", "regtest", TRUE, 8000, Keys)>>]

DefinedReal ==
    {[Base EXCEPT !.nodes = <<Node("lnd", Pk("A"), "A", "regtest", TRUE, 8000, Keys \cup {"D"}),
                              Node(k, Alias(b), "B", "regtest", FALSE, 8000, Keys \cup {"D", "E", "F"})>>,
                  !.activity = <<Flow(s, d, amount), Flow(Pk("A"), Alias("A"), Value(1))>>] :
        k \in {"cln", "ldk"}, b \in {"B", "twin"}, s \in {Pk("A"), Alias("B"), Alias(""), Pk("D")},
        d \in {Pk("A"), Pk("B"), Pk("C"), Pk("E"), Pk("G"), Alias("B"), Alias("C"), Alias("twin"), Alias("")},
        amount \in {Value(0), Value(3), RangeOf(0, 2), RangeOf(2, 2)}}

-----------------------------------------------------------------------------
(* Simulated networks: a line A - B - C and a channel A - C.               *)

Chan(scid, n1, n2, a1, a2, msat, max) ==
    [scid |-> scid, node_1 |-> n1, node_2 |-> n2, alias |-> [n \in {n1, n2} |-> IF n = n1 THEN a1 ELSE a2],
     capacity_msat |-> msat,
     policy |-> [n \in {n1, n2} |-> [max_in_flight_msat |-> max, max_htlc_size_msat |-> max]]]

Triangle(scid, n1, msat, max, a, b) ==
    <<Chan(1, "A", "B", "a", "b", 8000, 8000), Chan(scid, n1, "C", b, "c", msat, max),
      Chan(3, "A", "C", a, "c", 8000, 8000)>>

Sim ==
    {[Base EXCEPT !.sim_network = Triangle(scid, n1, msat, max, "a", "b"), !.exclude = x] :
        scid \in {1, 2}, n1 \in {"B", "C"}, msat \in {2000, 4000, 8000, 8500}, max \in {2000, 8500},
        x \in {{}, {"B"}, {"A", "B"}, Keys}}

DefinedSim ==
    {[Base EXCEPT !.sim_network = Triangle(2, "B", 8000, 8000, a, b),
                  !.activity = <<Flow(Alias(s), d, Value(3))>>] :
        a \in {"a", "b", "z", ""}, b \in {"b", "y", "c"}, s \in {"a", "z", "b"},
        d \in {Alias("a"), Alias("b"), Alias("y"), Alias("c"), Pk("B"), Pk("D")}}

Options ==
    {[Base EXCEPT !.latency = l, !.virtual_time = v, !.total_time = t, !.exclude = x, !.activity = acts,
                  !.nodes = nodes, !.sim_network = net] :
        l \in BOOLEAN, v \in BOOLEAN, t \in BOOLEAN, x \in {{}, {"B"}},
        acts \in {<<>>, <<Flow(Alias("a"), Alias("c"), Value(3))>>},
        nodes \in {<<>>, <<Node("lnd", Alias("a"), "A", "regtest", TRUE, 8000, Keys)>>},
        net \in {<<>>, Triangle(2, "B", 8000, 8000, "a", "b")}}

Files ==
    {[Base EXCEPT !.file = [exists |-> e, relative |-> r, in_data_dir |-> d, json_files |-> n],
                  !.expected_pmt_amt = amt, !.multiplier = m,
                  !.sim_network = Triangle(2, "B", 8000, 8000, "a", "b")] :
        e \in BOOLEAN, r \in BOOLEAN, d \in BOOLEAN, n \in {0, 2}, amt \in {0, 1, MaxU64}, m \in {0, 1}}

\* A line A - B - C that ends in a channel of 1 to 4 times the expected amount.
SmallChannel ==
    {[Base EXCEPT !.sim_network = <<Chan(1, "A", "B", "a", "b", 8000, 8000),
                                    Chan(2, "B", "C", "b", "c", msat, msat)>>] :
        msat \in {1000, 2000, 3000, 4000}}

MCConfig ==
    RandomReal \cup ConnectReal \cup DefinedReal \cup {TwoChains, Unknown}
    \cup SmallChannel \cup Sim \cup DefinedSim \cup Options \cup Files

===============================================================================
