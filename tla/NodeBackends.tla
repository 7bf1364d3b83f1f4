----------------------------- MODULE NodeBackends -----------------------------
(***************************************************************************)
(* What LndNode (lnd.rs), ClnNode (cln.rs), EclairNode (eclair.rs) and     *)
(* LdkServerNode (ldk_server.rs) make of the answers of their nodes before *)
(* a simulation starts: the constructors, and the get_node_info,           *)
(* channel_capacities and get_graph queries.  Their payment calls are in   *)
(* RpcNode.                                                                *)
(*                                                                         *)
(* A connection c is a record of what the simulation file says             *)
(*     kind, id : the backend and its NodeId (eclair's is parsed, ldk's is *)
(*                not)                                                     *)
(* and of what the node answers, in the backend's own format               *)
(*     pubkey, alias, networks, features, channels, graph                  *)
(* Any request may also fail, which is left to SimulationSetup.            *)
(***************************************************************************)
EXTENDS Naturals, Sequences

LOCAL INSTANCE SequencesExt

NodeInfo(pubkey, alias, features) == [pubkey |-> pubkey, alias |-> alias, features |-> features]

\* A public key has to be the node's; an alias replaces the node's.
NodeId_error(id, pubkey) ==
    IF id.type = "PublicKey" /\ id.id # pubkey THEN "ValidationError" ELSE "Ok"

NodeId_alias(id, alias) == IF id.type = "Alias" THEN id.id ELSE alias

-----------------------------------------------------------------------------
(* Features, as sets of bits.                                              *)

\* lnd and ldk list bit numbers, which are set in a vector of bytes.
parse_node_features(bits) == {8 * (f \div 8) + (f % 8) : f \in bits}

\* The two names that matter here, of the 22 in the table.
feature_mapping == [basic_mpp |-> 16, keysend |-> 54]

\* eclair names its features, each with a level; other names are dropped.
parse_json_to_node_features(activated) ==
    {feature_mapping[f[1]] + (IF f[2] = "mandatory" THEN 0 ELSE 1) :
        f \in {g \in activated : g[1] \in DOMAIN feature_mapping}}

\* LDK's NodeFeatures: a feature is supported by its even or its odd bit.
supports_keysend(features) == features \cap {54, 55} # {}

-----------------------------------------------------------------------------
(* Constructors: the error, and then the node's info and network.          *)

\* The names that bitcoin::Network parses.
BitcoinNetwork == {"bitcoin", "testnet", "testnet4", "signet", "regtest"}

\* The names of bitcoind, which Network::from_core_arg takes.
CoreArg == [main |-> "bitcoin", test |-> "testnet", testnet4 |-> "testnet4",
            signet |-> "signet", regtest |-> "regtest"]

Bitcoin(network) == IF network = "mainnet" THEN "bitcoin" ELSE network

LndNode_error(c) ==
    IF NodeId_error(c.id, c.pubkey) # "Ok" THEN "ValidationError"
    ELSE IF Len(c.networks) # 1 THEN "GetInfoError"
    ELSE IF c.networks[1] = "simnet" THEN "ValidationError"
    ELSE IF Bitcoin(c.networks[1]) \notin BitcoinNetwork THEN "GetInfoError"
    ELSE "Ok"

LndNode_new(c) == NodeInfo(c.pubkey, NodeId_alias(c.id, c.alias), parse_node_features(c.features))

ClnNode_error(c) ==
    IF NodeId_error(c.id, c.pubkey) # "Ok" THEN "ValidationError"
    ELSE IF c.networks[1] \notin DOMAIN CoreArg THEN "GetInfoError"
    ELSE "Ok"

ClnNode_new(c) == NodeInfo(c.pubkey, NodeId_alias(c.id, c.alias), c.features)

\* The connection's id is not looked at.
EclairNode_error(c) ==
    IF Bitcoin(c.networks[1]) \notin BitcoinNetwork THEN "ValidationError" ELSE "Ok"

EclairNode_new(c) == NodeInfo(c.pubkey, c.alias, parse_json_to_node_features(c.features))

network_from_proto(network) ==
    IF Bitcoin(network) \in BitcoinNetwork \ {"testnet4"} THEN "Ok" ELSE "GetInfoError"

LdkServerNode_error(c) == network_from_proto(c.networks[1])

LdkServerNode_new(c) == NodeInfo(c.pubkey, c.alias, parse_node_features(c.features))

connect_error(c) ==
    CASE c.kind = "lnd" -> LndNode_error(c)
      [] c.kind = "cln" -> ClnNode_error(c)
      [] c.kind = "eclair" -> EclairNode_error(c)
      [] c.kind = "ldk" -> LdkServerNode_error(c)

get_info(c) ==
    CASE c.kind = "lnd" -> LndNode_new(c)
      [] c.kind = "cln" -> ClnNode_new(c)
      [] c.kind = "eclair" -> EclairNode_new(c)
      [] c.kind = "ldk" -> LdkServerNode_new(c)

get_network(c) == IF c.kind = "cln" THEN CoreArg[c.networks[1]] ELSE Bitcoin(c.networks[1])

-----------------------------------------------------------------------------
(* channel_capacities, in msat.                                            *)

Sum(amounts) == FoldSeq(+, 0, amounts)

MsatPerSat == 1000

\* list_channels gives capacities in satoshis.
LndCapacities(channels) == Sum([i \in DOMAIN channels |-> MsatPerSat * channels[i]])

\* The channels listed for the node as a source, and as a destination.
ClnCapacities(channels) == Sum(channels.source) + Sum(channels.destination)

\* What is ours in each active commitment of each channel.
EclairCapacities(channels) ==
    Sum([i \in DOMAIN channels |-> Sum([j \in DOMAIN channels[i] |-> MsatPerSat * channels[i][j]])])

LdkCapacities(channels) ==
    Sum([i \in DOMAIN channels |-> channels[i].outbound + channels[i].inbound])

channel_capacities(c) ==
    CASE c.kind = "lnd" -> LndCapacities(c.channels)
      [] c.kind = "cln" -> ClnCapacities(c.channels)
      [] c.kind = "eclair" -> EclairCapacities(c.channels)
      [] c.kind = "ldk" -> LdkCapacities(c.channels)

-----------------------------------------------------------------------------
(* get_graph and get_node_info: the node's view of the network is a set of *)
(* nodes, each known by a record of pubkey, alias and features.            *)

GraphOf(nodes, Info(_)) ==
    [pk \in {n.pubkey : n \in nodes} |-> Info(CHOOSE n \in nodes : n.pubkey = pk)]

LndGraph(c) == GraphOf(c.graph, LAMBDA n : NodeInfo(n.pubkey, n.alias, parse_node_features(n.features)))

ClnGraph(c) == GraphOf(c.graph, LAMBDA n : NodeInfo(n.pubkey, n.alias, n.features))

EclairGraph(c) ==
    GraphOf(c.graph, LAMBDA n : NodeInfo(n.pubkey, n.alias, parse_json_to_node_features(n.features)))

\* ldk's graph has nodes of which no announcement was seen.
parse_announcement_info(n) ==
    IF n.announced THEN NodeInfo(n.pubkey, n.alias, parse_node_features(n.features))
    ELSE NodeInfo(n.pubkey, "", {})

LdkGraph(c) == GraphOf(c.graph, parse_announcement_info)

get_graph(c) ==
    CASE c.kind = "lnd" -> LndGraph(c)
      [] c.kind = "cln" -> ClnGraph(c)
      [] c.kind = "eclair" -> EclairGraph(c)
      [] c.kind = "ldk" -> LdkGraph(c)

\* The infos that get_node_info finds, one or none: a node that is not in
\* the graph is an error.  ldk answers for itself without a request.
LndNodeInfo(c, pk) == {LndGraph(c)[n] : n \in {pk} \cap DOMAIN LndGraph(c)}

ClnNodeInfo(c, pk) == {ClnGraph(c)[n] : n \in {pk} \cap DOMAIN ClnGraph(c)}

EclairNodeInfo(c, pk) == {EclairGraph(c)[n] : n \in {pk} \cap DOMAIN EclairGraph(c)}

LdkNodeInfo(c, pk) ==
    IF pk = c.pubkey THEN {LdkServerNode_new(c)}
    ELSE {LdkGraph(c)[n] : n \in {pk} \cap DOMAIN LdkGraph(c)}

get_node_info(c, pk) ==
    CASE c.kind = "lnd" -> LndNodeInfo(c, pk)
      [] c.kind = "cln" -> ClnNodeInfo(c, pk)
      [] c.kind = "eclair" -> EclairNodeInfo(c, pk)
      [] c.kind = "ldk" -> LdkNodeInfo(c, pk)

===============================================================================
