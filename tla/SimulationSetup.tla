--------------------------- MODULE SimulationSetup ---------------------------
(***************************************************************************)
(* From the command line to a running simulation: main.rs and parsing.rs   *)
(* of sim-cli, which read and validate the simulation file and connect to  *)
(* its nodes or build its network, and internal_run of simln-lib/lib.rs up *)
(* to the point where every executor has its first payment event.          *)
(*                                                                         *)
(* The simulation file and the options are a record config, chosen in      *)
(* Init; the constant Config is the set of those that are considered.      *)
(*     file, expected_pmt_amt,      multiplier, latency, virtual_time,     *)
(*     total_time, nodes, sim_network, activity, exclude                   *)
(* nodes is a sequence of connections (NodeBackends), sim_network one of   *)
(* channels (SimulatedChannel, with a scid, aliases and a flag for the     *)
(* capacity that is excluded), activity one of records of source,          *)
(* destination, amount and interval.                                       *)
(*                                                                         *)
(* A HashMap's order of iteration is arbitrary: the choice of the client   *)
(* that describes the graph and the order in which clients are asked for   *)
(* their capacity are open.  So is whether a request of a real node fails, *)
(* and what a range of amounts yields when it is sampled.                  *)
(***************************************************************************)
EXTENDS NodeBackends, RandomActivity

CONSTANT Config      \* the configurations

Range(s) == {s[i] : i \in DOMAIN s}

\* A connection of the file is of one of four kinds.
ASSUME ConfigAssumption ==
    \A c \in Config :
        /\ c.nodes \in Seq(Range(c.nodes))
        /\ \A n \in Range(c.nodes) : n.kind \in {"lnd", "cln", "eclair", "ldk"}

Channel == INSTANCE SimulatedChannel

VARIABLES config,    \* the simulation file and the options
          phase,     \* what is done next
          error,     \* why the setup failed, "Ok" if it did not
          made,      \* connections made so far
          clients,   \* pubkey -> node under our control
          nodes_info,\* pubkey -> NodeInfo, to resolve activities
          graph,     \* pubkey -> NodeInfo, as one client knows the network
          activity,  \* the validated activities
          todo,      \* nodes to be asked, or kits without a first event
          active,    \* pubkey -> NodeInfo and capacity, for random activity
          kits,      \* the executor kits
          spawned,   \* are the data collection tasks running?
          shutdown   \* has the shutdown trigger fired?

vars == <<config, phase, error, made, clients, nodes_info, graph, activity,
          todo, active, kits, spawned, shutdown>>

NoNodes == [n \in {} |-> 0]

-----------------------------------------------------------------------------
(* The simulation file and the command line.                               *)

\* A fixed amount, or a range [min, max) that is sampled.
values(v) == IF v.type = "Value" THEN {v.min} ELSE v.min .. (v.max - 1)

value_or_range_ok(v) == v.type = "Range" => v.min < v.max

\* The path as given, then below the data directory; failing that, the user
\* is asked to choose from the json files found there.
read_sim_path_ok(file) ==
    \/ file.exists
    \/ file.relative /\ file.in_data_dir
    \/ file.json_files > 0

parse_sim_params_ok(c) ==
    /\ read_sim_path_ok(c.file)
    /\ \A a \in Range(c.activity) : value_or_range_ok(a.amount) /\ value_or_range_ok(a.interval)

\* clap's value parsers.
cli_parse_ok(c) == c.expected_pmt_amt \in 1 .. (MaxU64 - 1) /\ c.multiplier > 0

\* Real nodes or a simulated network, not both; the options that are for a
\* simulated network only; exclusions for random activity only.
Cli_validate(c) ==
    /\ (c.nodes = <<>>) # (c.sim_network = <<>>)
    /\ c.nodes # <<>> => ~ c.latency /\ ~ c.virtual_time
    /\ c.virtual_time => c.total_time
    /\ c.exclude # {} => c.sim_network # <<>> /\ c.activity = <<>>

-----------------------------------------------------------------------------
(* The simulated network, from its sequence of channels.                   *)

\* Every simulated node supports keysend.
node_info(pubkey, alias) == NodeInfo(pubkey, alias, {55})

ChannelNodes(channels) == UNION {Channel!Ends(channels[i]) : i \in DOMAIN channels}

Having(channels, pk) == {i \in DOMAIN channels : pk \in Channel!Ends(channels[i])}

\* nodes_info is overwritten channel by channel: the last alias stays.
LastInfo(channels, pk) ==
    LET i == CHOOSE i \in Having(channels, pk) : \A j \in Having(channels, pk) : j <= i
    IN  node_info(pk, channels[i].alias[pk])

\* SimGraph::nodes is filled by the first channel of a node.
FirstInfo(channels, pk) ==
    LET i == CHOOSE i \in Having(channels, pk) : \A j \in Having(channels, pk) : i <= j
    IN  node_info(pk, channels[i].alias[pk])

exclude_capacity(channel, exclude) == Channel!Ends(channel) \cap exclude # {}

SimGraph_ok(channels) ==
    /\ \A i \in DOMAIN channels : Channel!channel_validate(channels[i])
    /\ \A i, j \in DOMAIN channels : channels[i].scid = channels[j].scid => i = j

\* LDK refuses an htlc_maximum_msat above the capacity, which it is told in
\* satoshis, rounded down.
populate_network_graph_ok(channels) ==
    \A i \in DOMAIN channels :
        \A n \in Channel!Ends(channels[i]) :
            channels[i].policy[n].max_htlc_size_msat
                <= MsatPerSat * (channels[i].capacity_msat \div MsatPerSat)

\* The client of a simulated node answers from the SimGraph.
SimClient(c, pk) ==
    [kind |-> "sim", pubkey |-> pk, info |-> FirstInfo(c.sim_network, pk), network |-> "regtest"]

ln_node_from_graph(c) == [pk \in ChannelNodes(c.sim_network) |-> SimClient(c, pk)]

list_nodes(c) == [pk \in ChannelNodes(c.sim_network) |-> FirstInfo(c.sim_network, pk)]

\* Mutant: the capacity towards an excluded node counts.
lookup_node_all(c, pk) ==
    [i \in DOMAIN c.sim_network |->
        IF i \in Having(c.sim_network, pk) THEN c.sim_network[i].capacity_msat ELSE 0]

\* The capacities of the node's channels, 0 for those of others and those
\* towards an excluded node.
lookup_node(c, pk) ==
    [i \in DOMAIN c.sim_network |->
        IF /\ i \in Having(c.sim_network, pk)
           /\ ~ exclude_capacity(c.sim_network[i], c.exclude)
        THEN c.sim_network[i].capacity_msat ELSE 0]

-----------------------------------------------------------------------------
(* A client, real or simulated.                                            *)

RealClient(c) ==
    [kind |-> c.kind, pubkey |-> c.pubkey, info |-> get_info(c), network |-> get_network(c), rpc |-> c]

IsReal(client) == client.kind # "sim"

Capacities(client) ==
    IF IsReal(client) THEN channel_capacities(client.rpc)
    ELSE Sum(lookup_node(config, client.pubkey))

Infos(client, pk) ==
    IF IsReal(client) THEN get_node_info(client.rpc, pk)
    ELSE {FirstInfo(config.sim_network, pk)}

Graph(client) == IF IsReal(client) THEN get_graph(client.rpc) ELSE list_nodes(config)

-----------------------------------------------------------------------------
(* Activities are resolved to nodes.                                       *)

\* Aliases are optional, but no two of our nodes share one.
add_node_to_maps_ok(infos) ==
    \A m, n \in DOMAIN infos :
        infos[m].alias # "" /\ infos[m].alias = infos[n].alias => m = n

Named(infos, id) ==
    {infos[n] : n \in {m \in DOMAIN infos :
        IF id.type = "PublicKey" THEN m = id.id
        ELSE infos[m].alias = id.id}}

\* alias_node_map has no entry for a node without an alias.
NamedOurs(id) == IF id.type = "Alias" /\ id.id = "" THEN {} ELSE Named(nodes_info, id)

\* Mutant: any of the nodes with the alias will do.
ResolveDestination_any(id) ==
    IF NamedOurs(id) # {} THEN NamedOurs(id)
    ELSE {n \in Named(graph, id) : n = CHOOSE m \in Named(graph, id) : TRUE}

\* Our own node, or the only one of that name in the graph.
ResolveDestination(id) ==
    IF NamedOurs(id) # {} THEN NamedOurs(id)
    ELSE {n \in Named(graph, id) : Named(graph, id) = {n}}

validate_activities_ok(acts) ==
    \A a \in Range(acts) : NamedOurs(a.source) # {} /\ ResolveDestination(a.destination) # {}

validate_activities(acts) ==
    [i \in DOMAIN acts |->
        [source |-> CHOOSE n \in NamedOurs(acts[i].source) : TRUE,
         destination |-> CHOOSE n \in ResolveDestination(acts[i].destination) : TRUE,
         amount |-> acts[i].amount]]

-----------------------------------------------------------------------------
(* Validation of the simulation.                                           *)

validate_node_network_ok ==
    /\ DOMAIN clients # {}
    /\ \A m, n \in DOMAIN clients : clients[m].network = clients[n].network
    /\ \A n \in DOMAIN clients : clients[n].network # "bitcoin"

random_activity_ok ==
    /\ Cardinality(DOMAIN clients) > 1
    /\ \A n \in DOMAIN clients : supports_keysend(clients[n].info.features)

\* The amount that is checked is one sample of the activity's range.
payment_flow_ok(flow, sample) ==
    /\ sample # 0
    /\ flow.source.pubkey \in DOMAIN clients
    /\ supports_keysend(flow.destination.features)

-----------------------------------------------------------------------------
(* main and create_simulation, create_simulation_with_network.             *)

Init ==
    /\ config \in Config
    /\ phase = "file" /\ error = "Ok"
    /\ made = 0
    /\ clients = NoNodes /\ nodes_info = NoNodes /\ graph = NoNodes
    /\ activity = <<>>
    /\ todo = {} /\ active = NoNodes /\ kits = {}
    /\ spawned = FALSE /\ shutdown = FALSE

Fail(e) ==
    /\ phase' = "failed" /\ error' = e
    /\ UNCHANGED <<config, made, clients, nodes_info, graph, activity, todo, active, kits, spawned, shutdown>>

Enter(next) == phase' = next /\ UNCHANGED <<config, error, spawned, shutdown>>

ParseSimParams ==
    /\ phase = "file"
    /\ IF cli_parse_ok(config) /\ parse_sim_params_ok(config)
       THEN /\ Enter("validate")
            /\ UNCHANGED <<made, clients, nodes_info, graph, activity, todo, active, kits>>
       ELSE Fail("ParseError")

\* Also makes the directory for the results.
ValidateCli ==
    /\ phase = "validate"
    /\ IF Cli_validate(config)
       THEN \/ Fail("IoError")
            \/ /\ Enter(IF config.sim_network = <<>> THEN "connect" ELSE "build")
               /\ UNCHANGED <<made, clients, nodes_info, graph, activity, todo, active, kits>>
       ELSE Fail("CliError")

\* get_clients: one connection after the other, keyed by public key.
Connect ==
    /\ phase = "connect" /\ made < Len(config.nodes)
    /\ LET c == config.nodes[made + 1]
           with(f, v) == [n \in DOMAIN f \cup {c.pubkey} |-> IF n = c.pubkey THEN v ELSE f[n]]
       IN  \/ Fail("ConnectionError")
           \/ connect_error(c) # "Ok" /\ Fail(connect_error(c))
           \/ /\ connect_error(c) = "Ok"
              /\ made' = made + 1
              /\ clients' = with(clients, RealClient(c))
              /\ nodes_info' = with(nodes_info, get_info(c))
              /\ Enter(IF made' = Len(config.nodes) THEN "graph" ELSE "connect")
              /\ UNCHANGED <<graph, activity, todo, active, kits>>

\* Excluded nodes take part in the network, not in the simulation.
BuildNetwork ==
    /\ phase = "build"
    /\ IF SimGraph_ok(config.sim_network) /\ populate_network_graph_ok(config.sim_network)
       THEN /\ nodes_info' = [pk \in ChannelNodes(config.sim_network) |-> LastInfo(config.sim_network, pk)]
            /\ clients' = [pk \in ChannelNodes(config.sim_network) \ config.exclude |->
                               ln_node_from_graph(config)[pk]]
            /\ Enter("graph")
            /\ UNCHANGED <<made, graph, activity, todo, active, kits>>
       ELSE Fail("SimulatedNetworkError")

\* get_validated_activities asks whichever client comes first.
GetGraph ==
    /\ phase = "graph"
    /\ \/ DOMAIN clients = {} /\ Fail("GetGraphError")
       \/ \E n \in DOMAIN clients :
             \/ IsReal(clients[n]) /\ Fail("GetGraphError")
             \/ /\ graph' = Graph(clients[n])
                /\ Enter("resolve")
                /\ UNCHANGED <<made, clients, nodes_info, activity, todo, active, kits>>

Resolve ==
    /\ phase = "resolve"
    /\ IF add_node_to_maps_ok(nodes_info) /\ validate_activities_ok(config.activity)
       THEN /\ activity' = validate_activities(config.activity)
            /\ Enter("run")
            /\ UNCHANGED <<made, clients, nodes_info, graph, todo, active, kits>>
       ELSE Fail("ValidationError")

-----------------------------------------------------------------------------
(* internal_run.  Its first two steps fail with nothing running; then the  *)
(* data collection is spawned, and a failure has to shut it down.          *)

\* Mutant: the error of the executors is returned as those before it.
FailRunning_bare(e) == Fail(e)

FailRunning(e) ==
    /\ phase' = "failed" /\ error' = e
    /\ shutdown' = TRUE
    /\ UNCHANGED <<config, made, clients, nodes_info, graph, activity, todo, active, kits, spawned>>

\* For now, no activity signals random activity.
IsRandom == activity = <<>>

DefinedKit(i) ==
    [id |-> i, source |-> activity[i].source, destination |-> activity[i].destination,
     amount |-> activity[i].amount]

Run ==
    /\ phase = "run"
    /\ \/ ~ validate_node_network_ok /\ Fail("ValidationError")
       \/ /\ validate_node_network_ok /\ IsRandom
          /\ IF random_activity_ok
             THEN /\ phase' = "collect" /\ spawned' = TRUE
                  /\ todo' = DOMAIN clients
                  /\ UNCHANGED <<config, error, made, clients, nodes_info, graph, activity, active, kits, shutdown>>
             ELSE Fail("ValidationError")
       \/ /\ validate_node_network_ok /\ ~ IsRandom
          /\ \E sample \in [DOMAIN activity -> UNION {values(a.amount) : a \in Range(activity)}] :
                /\ \A i \in DOMAIN activity : sample[i] \in values(activity[i].amount)
                /\ IF \A i \in DOMAIN activity : payment_flow_ok(activity[i], sample[i])
                   THEN /\ phase' = "events" /\ spawned' = TRUE
                        /\ kits' = {DefinedKit(i) : i \in DOMAIN activity}
                        /\ todo' = kits'
                        /\ UNCHANGED <<config, error, made, clients, nodes_info, graph, activity, active, shutdown>>
                   ELSE Fail("ValidationError")

\* The first pass of random_activity_nodes, over the clients in any order.
\* Sums of capacities that are no u64 are left out.
Collect(pk) ==
    /\ phase = "collect" /\ pk \in todo
    /\ Capacities(clients[pk]) \in 0 .. MaxU64
    /\ LET capacity == Capacities(clients[pk])
           eligible == validate_capacity(capacity, config.expected_pmt_amt) = "Ok"
       IN  \/ IsReal(clients[pk]) /\ FailRunning("LightningError")
           \/ /\ eligible /\ Infos(clients[pk], pk) = {}
              /\ FailRunning("GetNodeInfoError")
           \/ /\ ~ eligible
              /\ todo' = todo \ {pk}
              /\ UNCHANGED <<config, phase, error, made, clients, nodes_info, graph, activity, active, kits, spawned, shutdown>>
           \/ \E info \in Infos(clients[pk], pk) :
                 /\ eligible
                 /\ todo' = todo \ {pk}
                 /\ active' = [n \in DOMAIN active \cup {pk} |->
                                 IF n = pk THEN [info |-> info, capacity |-> capacity \div 2] ELSE active[n]]
                 /\ UNCHANGED <<config, phase, error, made, clients, nodes_info, graph, activity, kits, spawned, shutdown>>

View == [n \in DOMAIN active |-> active[n].capacity]

ActivityErrors ==
    {RandomPaymentActivity_error(View[n], config.expected_pmt_amt, config.multiplier) : n \in DOMAIN active}

RandomKit(n) == [source |-> active[n].info, capacity |-> active[n].capacity]

\* Mutant: a node that turns out to have too little capacity is no source,
\* but remains in the network's view.
MakeKits_skips ==
    /\ phase = "collect" /\ todo = {}
    /\ IF NetworkGraphView_error(View) # "Ok" THEN FailRunning(NetworkGraphView_error(View))
       ELSE /\ kits' = {RandomKit(n) : n \in {m \in DOMAIN active :
                             validate_capacity(View[m], config.expected_pmt_amt) = "Ok"}}
            /\ todo' = kits'
            /\ Enter("events")
            /\ UNCHANGED <<made, clients, nodes_info, graph, activity, active>>

\* The second pass: every node found becomes a kit, or the setup fails.
MakeKits ==
    /\ phase = "collect" /\ todo = {}
    /\ \/ NetworkGraphView_error(View) # "Ok" /\ FailRunning(NetworkGraphView_error(View))
       \/ /\ NetworkGraphView_error(View) = "Ok"
          /\ \E e \in ActivityErrors \ {"Ok"} : FailRunning(e)
       \/ /\ NetworkGraphView_error(View) = "Ok" /\ ActivityErrors = {"Ok"}
          /\ kits' = {RandomKit(n) : n \in DOMAIN active}
          /\ todo' = kits'
          /\ Enter("events")
          /\ UNCHANGED <<made, clients, nodes_info, graph, activity, active>>

\* setup_payment_events: the kit's first draw.  The kits are sorted first,
\* but their draws do not depend on one another.
FirstEvent(k) ==
    /\ phase = "events" /\ k \in todo
    /\ \/ /\ IsRandom
          /\ \E d \in choose_destination(View, k.source.pubkey) :
                /\ payment_amount_error(k.capacity, View[d], config.expected_pmt_amt) # "Ok"
                /\ FailRunning("PaymentGenerationError")
       \/ /\ IsRandom => \E d \in choose_destination(View, k.source.pubkey) :
                              payment_amount_error(k.capacity, View[d], config.expected_pmt_amt) = "Ok"
          /\ todo' = todo \ {k}
          /\ Enter(IF todo' = {} THEN "running" ELSE "events")
          /\ UNCHANGED <<made, clients, nodes_info, graph, activity, active, kits>>

\* run_simulation's ctrl-c handler is set before the simulation runs.
CtrlC ==
    /\ phase \in {"run", "collect", "events"} /\ ~ shutdown
    /\ shutdown' = TRUE
    /\ UNCHANGED <<config, phase, error, made, clients, nodes_info, graph, activity, todo, active, kits, spawned>>

Next ==
    \/ ParseSimParams \/ ValidateCli \/ Connect \/ BuildNetwork \/ GetGraph \/ Resolve
    \/ Run \/ MakeKits \/ CtrlC
    \/ \E pk \in DOMAIN clients : Collect(pk)
    \/ \E k \in kits : FirstEvent(k)

Spec == Init /\ [][Next]_vars

-----------------------------------------------------------------------------
(***************************************************************************)
(* A simulation runs on one network, which is not mainnet; with sources    *)
(* that it controls and, where the activity is defined, destinations that  *)
(* take keysend payments; on virtual time only if the run is bounded and   *)
(* no real node takes part; and an excluded node is no source, nor does    *)
(* the capacity of its channels count for its neighbours, whose capacity   *)
(* is half of what their other channels have.                              *)
(***************************************************************************)
RunIsSound ==
    phase = "running" =>
        /\ \E net \in BitcoinNetwork \ {"bitcoin"} : \A n \in DOMAIN clients : clients[n].network = net
        /\ config.virtual_time => config.total_time /\ \A n \in DOMAIN clients : ~ IsReal(clients[n])
        /\ kits # {}
        /\ \A k \in kits :
             /\ k.source.pubkey \in DOMAIN clients \ config.exclude
             /\ ~ IsRandom => supports_keysend(k.destination.features)
             /\ IsRandom /\ config.sim_network # <<>> =>
                   LET open == {i \in DOMAIN config.sim_network :
                                   /\ k.source.pubkey \in Channel!Ends(config.sim_network[i])
                                   /\ Channel!Ends(config.sim_network[i]) \subseteq DOMAIN clients}
                   IN  k.capacity = Sum([i \in DOMAIN config.sim_network |->
                            IF i \in open THEN config.sim_network[i].capacity_msat ELSE 0]) \div 2

(***************************************************************************)
(* Random activity never gets stuck once it runs: every source has a node  *)
(* other than itself to pay, so that choose_destination returns, and       *)
(* whichever it draws the amount can be generated; capacities are halved,  *)
(* rounded and checked at three places to get there.                       *)
(***************************************************************************)
EveryDrawSucceeds ==
    phase = "running" /\ IsRandom =>
        \A k \in kits :
            LET drawn == choose_destination(View, k.source.pubkey)
            IN  /\ drawn # {}
                /\ \A d \in drawn :
                     payment_amount_error(k.capacity, View[d], config.expected_pmt_amt) = "Ok"

(***************************************************************************)
(* A defined activity is run between the nodes that the file names: the    *)
(* source is ours, and the destination is either ours or the only node of  *)
(* that name in the graph that was consulted.                              *)
(***************************************************************************)
ActivitiesAsNamed ==
    \A i \in DOMAIN activity :
        LET named(info, id) == id.id = IF id.type = "PublicKey" THEN info.pubkey ELSE info.alias
            destination == activity[i].destination
        IN  /\ named(activity[i].source, config.activity[i].source)
            /\ activity[i].source \in Range(nodes_info)
            /\ named(destination, config.activity[i].destination)
            /\ \A n \in DOMAIN graph :
                 named(graph[n], config.activity[i].destination)
                 => n = destination.pubkey \/ destination \in Range(nodes_info)

(***************************************************************************)
(* A setup that fails leaves nothing behind: when run returns an error the *)
(* data collection has not been spawned or has been told to stop.          *)
(***************************************************************************)
NothingLeftRunning == phase = "failed" /\ spawned => shutdown

===============================================================================
