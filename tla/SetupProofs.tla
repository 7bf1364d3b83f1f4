------------------------------ MODULE SetupProofs ------------------------------
(***************************************************************************)
(* EveryDrawSucceeds, NothingLeftRunning, ActivitiesAsNamed and RunIsSound *)
(* of SimulationSetup, for every set of configurations and every width of  *)
(* the integers.                                                           *)
(*                                                                         *)
(* EveryDrawSucceeds is not inductive, for it speaks of the last phase     *)
(* only.  What carries it there is that every node of the view has passed  *)
(* the second validation of its capacity, and that every kit without a     *)
(* pending first event has drawn one amount successfully.  The latter is   *)
(* needed: twice the expected amount may have wrapped, in which case the   *)
(* validation shows nothing, and it takes an amount that was drawn to know *)
(* that it has not.                                                        *)
(*                                                                         *)
(* The last two speak of the end of the setup too; SetupInv says what each *)
(* phase leaves to the next one: clients for the nodes that are simulated, *)
(* names of the graph, activities resolved so far, kits made so far.       *)
(***************************************************************************)
EXTENDS SimulationSetup, TLAPS

\* The wrapping product is the product if that is a u64.
LEMMA RequiredCapacity ==
  ASSUME NEW e \in Nat, 2 * e <= MaxU64
  PROVE  min_required_capacity(e) = 2 * e
  BY MaxU64Assumption DEF min_required_capacity

\* One amount that could be drawn shows that the product has not wrapped,
\* and then every validated pair of nodes allows a draw.
LEMMA OneDrawShowsAll ==
  ASSUME NEW e \in Nat, NEW a \in 0 .. MaxU64, NEW b \in Nat,
         payment_amount_error(a, b, e) = "Ok",
         NEW c \in Nat, NEW d \in Nat,
         validate_capacity(c, e) = "Ok", validate_capacity(d, e) = "Ok"
  PROVE  payment_amount_error(c, d, e) = "Ok"
  <1>1. 2 * e <= MaxU64
    BY MaxU64Assumption DEF payment_amount_error, payment_limit
  <1>2. c >= 2 * e /\ d >= 2 * e
    BY <1>1, RequiredCapacity DEF validate_capacity
  <1>3. QED
    BY <1>2 DEF payment_amount_error, payment_limit

-----------------------------------------------------------------------------
(* The inductive invariant, by parts.                                      *)

\* The command line was parsed.
Parsed == phase \notin {"file", "failed"} => config.expected_pmt_amt \in Nat

\* The capacities of the view are u64s.
ViewIsU64 == \A n \in DOMAIN active : active[n].capacity \in 0 .. MaxU64

\* Every node of the view is a kit, and was validated.
ViewIsValid ==
    phase \in {"events", "running"} /\ IsRandom =>
        /\ kits = {RandomKit(n) : n \in DOMAIN active}
        /\ \A n \in DOMAIN active : validate_capacity(View[n], config.expected_pmt_amt) = "Ok"
        /\ \A n \in DOMAIN active : View[n] > 0

\* A kit that has its first event could draw one.
Drew(k) ==
    \E d \in choose_destination(View, k.source.pubkey) :
        payment_amount_error(k.capacity, View[d], config.expected_pmt_amt) = "Ok"

KitsDrew ==
    /\ phase \in {"events", "running"} /\ IsRandom => \A k \in kits \ todo : Drew(k)
    /\ phase = "running" => todo = {}

DrawInv == Parsed /\ ViewIsU64 /\ ViewIsValid /\ KitsDrew

\* The steps after which no kit exists, and that leave the view as it is.
LEMMA EarlyDrawInv ==
  ASSUME DrawInv, phase' \notin {"events", "running"},
         UNCHANGED <<config, active>>,
         phase' \notin {"file", "failed"} => config.expected_pmt_amt \in Nat
  PROVE  DrawInv'
  BY DEF DrawInv, Parsed, ViewIsU64, ViewIsValid, KitsDrew

\* internal_run asks a client for its capacity.
LEMMA CollectDrawInv ==
  ASSUME DrawInv, NEW pk, Collect(pk)
  PROVE  DrawInv'
  <1> DEFINE capacity == Capacities(clients[pk])
  <1>1. CASE phase' = "failed" /\ UNCHANGED <<config, active>>
    BY <1>1, EarlyDrawInv
  <1>2. CASE UNCHANGED <<config, phase, active>>
    BY <1>2, EarlyDrawInv DEF Collect, DrawInv, Parsed
  <1>3. ASSUME NEW info, UNCHANGED <<config, phase>>, phase = "collect",
               capacity \in 0 .. MaxU64,
               active' = [n \in DOMAIN active \cup {pk} |->
                   IF n = pk THEN [info |-> info, capacity |-> capacity \div 2] ELSE active[n]]
        PROVE  DrawInv'
    <2>1. capacity \div 2 \in 0 .. MaxU64
      BY <1>3, MaxU64Assumption
    <2>2. ViewIsU64'
      BY <1>3, <2>1 DEF DrawInv, ViewIsU64
    <2>3. QED BY <1>3, <2>2 DEF DrawInv, Parsed, ViewIsValid, KitsDrew
  <1>4. QED BY <1>1, <1>2, <1>3 DEF Collect, FailRunning

\* The second pass of random_activity_nodes.
LEMMA MakeKitsDrawInv ==
  ASSUME DrawInv, MakeKits
  PROVE  DrawInv'
  <1>1. CASE phase' = "failed" /\ UNCHANGED <<config, active>>
    BY <1>1, EarlyDrawInv
  <1>2. CASE /\ ActivityErrors = {"Ok"} /\ kits' = {RandomKit(n) : n \in DOMAIN active}
             /\ todo' = kits' /\ Enter("events") /\ UNCHANGED <<activity, active>>
    <2>1. Parsed' /\ ViewIsU64' /\ KitsDrew'
      BY <1>2 DEF MakeKits, Enter, DrawInv, Parsed, ViewIsU64, KitsDrew
    <2>2. ASSUME NEW n \in DOMAIN active
          PROVE  validate_capacity(View[n], config.expected_pmt_amt) = "Ok" /\ View[n] # 0
      BY <1>2 DEF ActivityErrors, RandomPaymentActivity_error
    <2>3. \A n \in DOMAIN active : View[n] \in Nat
      BY MaxU64Assumption DEF DrawInv, ViewIsU64, View
    <2>4. UNCHANGED <<View, config>> /\ \A n : RandomKit(n)' = RandomKit(n)
      BY <1>2 DEF View, RandomKit, Enter
    <2>5. ViewIsValid'
      BY <1>2, <2>2, <2>3, <2>4 DEF ViewIsValid
    <2>6. QED BY <2>1, <2>5 DEF DrawInv
  <1>3. QED BY <1>1, <1>2 DEF MakeKits, FailRunning

\* setup_payment_events.
LEMMA FirstEventDrawInv ==
  ASSUME DrawInv, NEW k \in kits, FirstEvent(k)
  PROVE  DrawInv'
  <1>1. CASE phase' = "failed" /\ UNCHANGED <<config, active>>
    BY <1>1, EarlyDrawInv
  <1>2. CASE /\ IsRandom => Drew(k)
             /\ todo' = todo \ {k} /\ Enter(IF todo' = {} THEN "running" ELSE "events")
             /\ UNCHANGED <<activity, active, kits>>
    <2>1. UNCHANGED <<View, config, IsRandom>> /\ \A n : RandomKit(n)' = RandomKit(n)
      BY <1>2 DEF View, RandomKit, Enter, IsRandom
    <2>2. phase = "events" /\ phase' \in {"events", "running"} /\ (phase' = "running" => todo' = {})
      BY <1>2 DEF FirstEvent, Enter
    <2>3. Parsed' /\ ViewIsU64'
      BY <1>2, <2>2 DEF Enter, DrawInv, Parsed, ViewIsU64
    <2>4. ViewIsValid'
      BY <1>2, <2>1, <2>2 DEF DrawInv, ViewIsValid
    <2>5. KitsDrew'
      BY <1>2, <2>1, <2>2 DEF DrawInv, KitsDrew, Drew
    <2>6. QED BY <2>3, <2>4, <2>5 DEF DrawInv
  <1>3. QED BY <1>1, <1>2 DEF FirstEvent, FailRunning, Drew

\* The invariant holds initially.
LEMMA InitDrawInv == Init => DrawInv
  BY DEF Init, DrawInv, Parsed, ViewIsU64, ViewIsValid, KitsDrew, NoNodes

\* Every step preserves it.
LEMMA StepDrawInv == DrawInv /\ [Next]_vars => DrawInv'
  <1> SUFFICES ASSUME DrawInv, [Next]_vars PROVE DrawInv'
    OBVIOUS
  <1>1. CASE ParseSimParams
    BY <1>1, EarlyDrawInv DEF ParseSimParams, Fail, Enter, cli_parse_ok
  <1>2. CASE ValidateCli \/ BuildNetwork \/ GetGraph \/ Resolve
    BY <1>2, EarlyDrawInv DEF ValidateCli, BuildNetwork, GetGraph, Resolve, Fail, Enter, DrawInv, Parsed
  <1>3. CASE Connect
    BY <1>3, EarlyDrawInv DEF Connect, Fail, Enter, DrawInv, Parsed
  <1>4. CASE Run
    <2>1. CASE phase' \in {"failed", "collect"} /\ UNCHANGED <<config, active>>
      BY <1>4, <2>1, EarlyDrawInv DEF Run, DrawInv, Parsed
    <2>2. CASE /\ ~ IsRandom /\ phase' = "events" /\ UNCHANGED <<config, activity, active>>
      BY <1>4, <2>2 DEF Run, DrawInv, Parsed, ViewIsU64, ViewIsValid, KitsDrew, IsRandom
    <2>3. QED BY <1>4, <2>1, <2>2 DEF Run, Fail
  <1>5. ASSUME NEW pk \in DOMAIN clients, Collect(pk) PROVE DrawInv'
    BY <1>5, CollectDrawInv
  <1>6. CASE MakeKits
    BY <1>6, MakeKitsDrawInv
  <1>7. ASSUME NEW k \in kits, FirstEvent(k) PROVE DrawInv'
    BY <1>7, FirstEventDrawInv
  <1>8. CASE CtrlC \/ UNCHANGED vars
    BY <1>8 DEF CtrlC, vars, DrawInv, Parsed, ViewIsU64, ViewIsValid, KitsDrew, Drew, View, RandomKit, IsRandom
  <1>9. QED BY <1>1, <1>2, <1>3, <1>4, <1>5, <1>6, <1>7, <1>8 DEF Next

\* Every kit of a running simulation can draw, because one of its draws
\* succeeded and all nodes of the view were validated alike.
LEMMA DrawInvSuffices == DrawInv => EveryDrawSucceeds
  <1> SUFFICES ASSUME DrawInv, phase = "running", IsRandom, NEW k \in kits
               PROVE  LET drawn == choose_destination(View, k.source.pubkey)
                      IN  /\ drawn # {}
                          /\ \A d \in drawn :
                               payment_amount_error(k.capacity, View[d], config.expected_pmt_amt) = "Ok"
    BY DEF EveryDrawSucceeds
  <1> DEFINE drawn == choose_destination(View, k.source.pubkey)
             e == config.expected_pmt_amt
  <1>1. e \in Nat
    BY DEF DrawInv, Parsed
  <1>2. PICK n \in DOMAIN active : k = RandomKit(n)
    BY DEF DrawInv, ViewIsValid
  <1>3. \A m \in DOMAIN active : View[m] \in 0 .. MaxU64 /\ validate_capacity(View[m], e) = "Ok"
    BY DEF DrawInv, ViewIsU64, ViewIsValid, View
  <1>4. k.capacity = View[n]
    BY <1>2 DEF RandomKit, View
  <1>5. drawn \subseteq DOMAIN active
    BY DEF choose_destination, View
  <1>6. PICK d \in drawn : payment_amount_error(k.capacity, View[d], e) = "Ok"
    BY DEF DrawInv, KitsDrew, Drew
  <1>7. ASSUME NEW m \in drawn PROVE payment_amount_error(k.capacity, View[m], e) = "Ok"
    <2>1. View[n] \in 0 .. MaxU64 /\ View[d] \in Nat /\ View[n] \in Nat /\ View[m] \in Nat
      BY <1>3, <1>5, MaxU64Assumption
    <2>2. validate_capacity(View[n], e) = "Ok" /\ validate_capacity(View[m], e) = "Ok"
      BY <1>3, <1>5
    <2>3. QED BY <1>1, <1>4, <1>6, <2>1, <2>2, OneDrawShowsAll
  <1>8. QED BY <1>6, <1>7

(***************************************************************************)
(* Random activity that runs never gets stuck: no configuration, and no    *)
(* answer of a node, lets setup_payment_events end with a kit whose        *)
(* choose_destination would not return or whose payment_amount would fail  *)
(* later.                                                                  *)
(***************************************************************************)
THEOREM RandomActivityDraws == Spec => []EveryDrawSucceeds
  BY InitDrawInv, StepDrawInv, DrawInvSuffices, PTL DEF Spec

-----------------------------------------------------------------------------
(* NothingLeftRunning.                                                     *)

\* Data collection is spawned by the last step of validation.
SpawnInv ==
    /\ spawned => phase \in {"collect", "events", "running", "failed"}
    /\ NothingLeftRunning

\* Every step preserves it.
LEMMA StepSpawnInv == SpawnInv /\ [Next]_vars => SpawnInv'
  <1> SUFFICES ASSUME SpawnInv, [Next]_vars PROVE SpawnInv'
    OBVIOUS
  <1> USE DEF SpawnInv, NothingLeftRunning
  <1>1. CASE ParseSimParams \/ ValidateCli \/ BuildNetwork \/ GetGraph \/ Resolve
    BY <1>1 DEF ParseSimParams, ValidateCli, BuildNetwork, GetGraph, Resolve, Fail, Enter
  <1>2. CASE Connect
    BY <1>2 DEF Connect, Fail, Enter
  <1>3. CASE Run
    BY <1>3 DEF Run, Fail
  <1>4. ASSUME NEW pk \in DOMAIN clients, Collect(pk) PROVE SpawnInv'
    BY <1>4 DEF Collect, FailRunning
  <1>5. CASE MakeKits
    BY <1>5 DEF MakeKits, FailRunning, Enter
  <1>6. ASSUME NEW k \in kits, FirstEvent(k) PROVE SpawnInv'
    BY <1>6 DEF FirstEvent, FailRunning, Enter
  <1>7. CASE CtrlC \/ UNCHANGED vars
    BY <1>7 DEF CtrlC, vars
  <1>8. QED BY <1>1, <1>2, <1>3, <1>4, <1>5, <1>6, <1>7 DEF Next

(***************************************************************************)
(* A run that returns an error has told the data collection to stop if it  *)
(* was spawned, on each of the error paths of internal_run.                *)
(***************************************************************************)
THEOREM FailedRunStops == Spec => []NothingLeftRunning
  <1>1. Init => SpawnInv
    BY DEF Init, SpawnInv, NothingLeftRunning
  <1>2. SpawnInv => NothingLeftRunning
    BY DEF SpawnInv
  <1>3. QED BY <1>1, <1>2, StepSpawnInv, PTL DEF Spec

-----------------------------------------------------------------------------
(* ActivitiesAsNamed and RunIsSound.                                       *)

Backend == {"lnd", "cln", "eclair", "ldk"}

\* A map from public keys has every node under its own.
Keyed(infos) == \A n \in DOMAIN infos : infos[n].pubkey = n

\* Every backend keeps the public key of the node that it connects to.
LEMMA InfoKeyed ==
  ASSUME NEW c, c.kind \in Backend
  PROVE  get_info(c).pubkey = c.pubkey
  BY DEF Backend, get_info, LndNode_new, ClnNode_new, EclairNode_new, LdkServerNode_new, NodeInfo

\* A backend that connects has a network that bitcoin::Network knows.
LEMMA NetworkKnown ==
  ASSUME NEW c, c.kind \in Backend, connect_error(c) = "Ok"
  PROVE  get_network(c) \in BitcoinNetwork
  BY DEF Backend, connect_error, get_network, LndNode_error, ClnNode_error, EclairNode_error,
     CoreArg, BitcoinNetwork, LdkServerNode_error, network_from_proto

\* A graph is keyed by public key, whichever backend describes it.
LEMMA GraphKeyed ==
  ASSUME NEW c, c.kind \in Backend
  PROVE  Keyed(get_graph(c))
  <1>1. ASSUME NEW pk \in {n.pubkey : n \in c.graph}
        PROVE  (CHOOSE n \in c.graph : n.pubkey = pk).pubkey = pk
    OBVIOUS
  <1>2. CASE c.kind = "lnd"
    BY <1>1, <1>2 DEF get_graph, LndGraph, GraphOf, NodeInfo, Keyed
  <1>3. CASE c.kind = "cln"
    BY <1>1, <1>3 DEF get_graph, ClnGraph, GraphOf, NodeInfo, Keyed
  <1>4. CASE c.kind = "eclair"
    BY <1>1, <1>4 DEF get_graph, EclairGraph, GraphOf, NodeInfo, Keyed
  <1>5. CASE c.kind = "ldk"
    BY <1>1, <1>5 DEF get_graph, LdkGraph, GraphOf, parse_announcement_info, NodeInfo, Keyed
  <1>6. QED BY <1>2, <1>3, <1>4, <1>5 DEF Backend

\* get_node_info finds the node that it is asked for.
LEMMA NodeInfoKeyed ==
  ASSUME NEW c, c.kind \in Backend, NEW pk, NEW info \in get_node_info(c, pk)
  PROVE  info.pubkey = pk
  <1>1. Keyed(get_graph(c))
    BY GraphKeyed
  <1>2. CASE c.kind = "lnd"
    BY <1>1, <1>2 DEF get_graph, get_node_info, LndNodeInfo, Keyed
  <1>3. CASE c.kind = "cln"
    BY <1>1, <1>3 DEF get_graph, get_node_info, ClnNodeInfo, Keyed
  <1>4. CASE c.kind = "eclair"
    BY <1>1, <1>4 DEF get_graph, get_node_info, EclairNodeInfo, Keyed
  <1>5. CASE c.kind = "ldk"
    BY <1>1, <1>5 DEF get_graph, get_node_info, LdkNodeInfo, LdkServerNode_new, NodeInfo, Keyed
  <1>6. QED BY <1>2, <1>3, <1>4, <1>5 DEF Backend

\* So do the nodes of a simulated network.
LEMMA SimKeyed ==
  ASSUME NEW channels, NEW pk
  PROVE  FirstInfo(channels, pk).pubkey = pk /\ LastInfo(channels, pk).pubkey = pk
  BY DEF FirstInfo, LastInfo, node_info, NodeInfo

-----------------------------------------------------------------------------
(* The inductive invariant, by parts.                                      *)

\* What was validated is known from then on, and activities are resolved last.
ConfigInv ==
    /\ config \in Config /\ made \in Nat
    /\ phase \notin {"file", "validate", "failed"} => Cli_validate(config)
    /\ phase = "connect" => config.sim_network = <<>>
    /\ phase = "build" => config.sim_network # <<>>
    /\ phase \in {"file", "validate", "connect", "build", "graph", "resolve"} => activity = <<>>
    /\ activity = <<>> \/ DOMAIN activity # {}

\* Clients answer for the node they are kept under; a simulation has either
\* real or simulated ones, the latter without the excluded nodes.
ClientsInv ==
    /\ phase \in {"file", "validate", "build"} => DOMAIN clients = {}
    /\ \A n \in DOMAIN clients :
          /\ clients[n].network \in BitcoinNetwork
          /\ n \notin config.exclude
          /\ IsReal(clients[n]) => config.sim_network = <<>> /\ clients[n].rpc.kind \in Backend
          /\ ~ IsReal(clients[n]) => config.sim_network # <<>> /\ clients[n].pubkey = n
    /\ config.sim_network # <<>> /\ phase \notin {"file", "validate", "build", "failed"} =>
          DOMAIN clients = ChannelNodes(config.sim_network) \ config.exclude

KeysInv == Keyed(nodes_info) /\ Keyed(graph)

\* A node of the view is one of ours, with half of its capacity.
ActiveInv ==
    \A n \in DOMAIN active :
        /\ n \in DOMAIN clients /\ active[n].info.pubkey = n
        /\ config.sim_network # <<>> => active[n].capacity = Sum(lookup_node(config, n)) \div 2

\* The network was validated before anything is spawned, and a kit comes from
\* the view or from a validated activity.
KitsInv ==
    /\ phase \in {"collect", "events", "running"} => validate_node_network_ok
    /\ phase = "collect" => IsRandom
    /\ phase \in {"events", "running"} =>
          /\ kits # {}
          /\ IsRandom => kits = {RandomKit(n) : n \in DOMAIN active}
          /\ ~ IsRandom => \A k \in kits : /\ k.source.pubkey \in DOMAIN clients
                                           /\ supports_keysend(k.destination.features)

SetupInv == ConfigInv /\ ClientsInv /\ KeysInv /\ ActiveInv /\ KitsInv /\ ActivitiesAsNamed

\* The invariant holds initially.
LEMMA InitSetupInv == Init => SetupInv
  BY DEF Init, SetupInv, ConfigInv, ClientsInv, KeysInv, Keyed, ActiveInv, KitsInv,
     ActivitiesAsNamed, NoNodes, IsRandom

\* A failure leaves everything but the phase as it is.
LEMMA FailSetupInv ==
  ASSUME SetupInv, phase' = "failed",
         UNCHANGED <<config, made, clients, nodes_info, graph, activity, active, kits>>
  PROVE  SetupInv'
  <1>1. ConfigInv' /\ KeysInv' /\ KitsInv'
    BY DEF SetupInv, ConfigInv, KeysInv, Keyed, KitsInv
  <1>2. ClientsInv'
    BY DEF SetupInv, ClientsInv, IsReal
  <1>3. ActiveInv'
    BY DEF SetupInv, ActiveInv
  <1>4. ActivitiesAsNamed'
    BY DEF SetupInv, ActivitiesAsNamed
  <1>5. QED BY <1>1, <1>2, <1>3, <1>4 DEF SetupInv

\* The file and the options are fine.
LEMMA EnterSetupInv ==
  ASSUME SetupInv, ConfigInv', phase \in {"file", "validate"},
         phase' \in {"validate", "build", "connect"},
         UNCHANGED <<config, made, clients, nodes_info, graph, activity, active, kits>>
  PROVE  SetupInv'
  <1>1. KeysInv' /\ KitsInv'
    BY DEF SetupInv, KeysInv, Keyed, KitsInv
  <1>2. ClientsInv'
    BY DEF SetupInv, ConfigInv, ClientsInv, IsReal
  <1>3. ActiveInv'
    BY DEF SetupInv, ActiveInv
  <1>4. ActivitiesAsNamed'
    BY DEF SetupInv, ActivitiesAsNamed
  <1>5. QED BY <1>1, <1>2, <1>3, <1>4 DEF SetupInv

\* get_clients makes one connection.
LEMMA ConnectSetupInv ==
  ASSUME SetupInv, Connect
  PROVE  SetupInv'
  <1>1. PICK c : c = config.nodes[made + 1]
    OBVIOUS
  <1>2. c.kind \in Backend
    <2>1. config.nodes \in Seq(Range(config.nodes)) /\ made \in Nat /\ made < Len(config.nodes)
      BY ConfigAssumption DEF Connect, SetupInv, ConfigInv
    <2>2. made + 1 \in DOMAIN config.nodes
      BY <2>1
    <2>3. QED BY <1>1, <2>2, ConfigAssumption DEF SetupInv, ConfigInv, Range, Backend
  <1>3. CASE phase' = "failed" /\ UNCHANGED <<config, made, clients, nodes_info, graph, activity, active, kits>>
    BY <1>3, FailSetupInv
  <1>4. CASE /\ connect_error(c) = "Ok" /\ made' = made + 1
             /\ clients' = [n \in DOMAIN clients \cup {c.pubkey} |->
                               IF n = c.pubkey THEN RealClient(c) ELSE clients[n]]
             /\ nodes_info' = [n \in DOMAIN nodes_info \cup {c.pubkey} |->
                               IF n = c.pubkey THEN get_info(c) ELSE nodes_info[n]]
             /\ phase' \in {"graph", "connect"}
             /\ UNCHANGED <<config, graph, activity, active, kits>>
    <2>1. phase = "connect" /\ config.sim_network = <<>> /\ activity = <<>> /\ Cli_validate(config)
      BY DEF Connect, SetupInv, ConfigInv
    <2>2. config.exclude = {}
      BY <2>1 DEF Cli_validate
    <2>3. ConfigInv'
      BY <1>4, <2>1 DEF SetupInv, ConfigInv
    <2>4. /\ RealClient(c).network \in BitcoinNetwork /\ IsReal(RealClient(c))
          /\ RealClient(c).rpc.kind \in Backend
      BY <1>2, <1>4, NetworkKnown DEF RealClient, IsReal, Backend
    <2>5. ClientsInv'
      <3>1. ASSUME NEW n \in DOMAIN clients'
            PROVE  /\ clients'[n].network \in BitcoinNetwork
                   /\ IsReal(clients'[n]) => clients'[n].rpc.kind \in Backend
                   /\ IsReal(clients'[n])
        <4>1. CASE n = c.pubkey
          BY <1>4, <2>4, <4>1
        <4>2. CASE n # c.pubkey
          BY <1>4, <2>1, <4>2 DEF SetupInv, ClientsInv
        <4>3. QED BY <4>1, <4>2
      <3>2. QED BY <1>4, <2>1, <2>2, <3>1 DEF ClientsInv, IsReal
    <2>6. KeysInv'
      BY <1>2, <1>4, InfoKeyed DEF SetupInv, KeysInv, Keyed
    <2>7. ActiveInv'
      BY <1>4, <2>1 DEF SetupInv, ActiveInv
    <2>8. KitsInv' /\ ActivitiesAsNamed'
      BY <1>4, <2>1 DEF KitsInv, ActivitiesAsNamed
    <2>9. QED BY <2>3, <2>5, <2>6, <2>7, <2>8 DEF SetupInv
  <1>5. QED BY <1>1, <1>3, <1>4 DEF Connect, Fail, Enter

\* create_simulation_with_network makes a client for every node that is not
\* excluded.
LEMMA BuildSetupInv ==
  ASSUME SetupInv, BuildNetwork
  PROVE  SetupInv'
  <1> DEFINE net == config.sim_network
  <1>1. CASE Fail("SimulatedNetworkError")
    BY <1>1, FailSetupInv DEF Fail
  <1>2. CASE /\ nodes_info' = [pk \in ChannelNodes(net) |-> LastInfo(net, pk)]
             /\ clients' = [pk \in ChannelNodes(net) \ config.exclude |-> ln_node_from_graph(config)[pk]]
             /\ Enter("graph") /\ UNCHANGED <<made, graph, activity, todo, active, kits>>
    <2>1. /\ net # <<>> /\ activity = <<>> /\ Cli_validate(config) /\ DOMAIN clients = {}
          /\ phase' = "graph" /\ UNCHANGED config
      BY <1>2 DEF BuildNetwork, Enter, SetupInv, ConfigInv, ClientsInv
    <2>2. ConfigInv'
      BY <1>2, <2>1 DEF SetupInv, ConfigInv
    <2>3. ASSUME NEW n \in DOMAIN clients'
          PROVE  clients'[n] = SimClient(config, n) /\ n \notin config.exclude
      BY <1>2 DEF ln_node_from_graph
    <2>4. ClientsInv'
      <3>1. ASSUME NEW n \in DOMAIN clients'
            PROVE  /\ clients'[n].network \in BitcoinNetwork /\ ~ IsReal(clients'[n])
                   /\ clients'[n].pubkey = n /\ n \notin config'.exclude
        BY <2>1, <2>3, <3>1 DEF SimClient, IsReal, BitcoinNetwork
      <3>2. DOMAIN clients' = ChannelNodes(config'.sim_network) \ config'.exclude
        BY <1>2, <2>1
      <3>3. QED BY <2>1, <3>1, <3>2 DEF ClientsInv, IsReal
    <2>5. KeysInv'
      BY <1>2, SimKeyed DEF SetupInv, KeysInv, Keyed
    <2>6. ActiveInv' /\ KitsInv' /\ ActivitiesAsNamed'
      BY <1>2, <2>1 DEF SetupInv, ActiveInv, KitsInv, ActivitiesAsNamed
    <2>7. QED BY <2>2, <2>4, <2>5, <2>6 DEF SetupInv
  <1>3. QED BY <1>1, <1>2 DEF BuildNetwork

\* get_validated_activities asks a client for its graph.
LEMMA GetGraphSetupInv ==
  ASSUME SetupInv, GetGraph
  PROVE  SetupInv'
  <1>1. CASE Fail("GetGraphError")
    BY <1>1, FailSetupInv DEF Fail
  <1>2. ASSUME NEW n \in DOMAIN clients, graph' = Graph(clients[n]), Enter("resolve"),
               UNCHANGED <<made, clients, nodes_info, activity, todo, active, kits>>
        PROVE  SetupInv'
    <2>1. phase = "graph" /\ phase' = "resolve" /\ activity = <<>> /\ UNCHANGED config
      BY <1>2 DEF GetGraph, Enter, SetupInv, ConfigInv
    <2>2. Keyed(Graph(clients[n]))
      BY <1>2, GraphKeyed, SimKeyed DEF SetupInv, ClientsInv, Graph, Keyed, list_nodes
    <2>3. ConfigInv' /\ KeysInv'
      BY <1>2, <2>1, <2>2 DEF SetupInv, ConfigInv, KeysInv, Keyed
    <2>4. ClientsInv'
      BY <1>2, <2>1 DEF SetupInv, ClientsInv, IsReal
    <2>5. ActiveInv'
      BY <1>2, <2>1 DEF SetupInv, ActiveInv
    <2>6. KitsInv' /\ ActivitiesAsNamed'
      BY <1>2, <2>1 DEF KitsInv, ActivitiesAsNamed
    <2>7. QED BY <2>3, <2>4, <2>5, <2>6 DEF SetupInv
  <1>3. QED BY <1>1, <1>2 DEF GetGraph

\* validate_activities takes the node that the file names.
LEMMA ResolvedAsNamed ==
  ASSUME KeysInv, NEW acts, validate_activities_ok(acts), NEW i \in DOMAIN acts
  PROVE  LET named(info, id) == id.id = IF id.type = "PublicKey" THEN info.pubkey ELSE info.alias
             a == validate_activities(acts)[i]
         IN  /\ named(a.source, acts[i].source) /\ a.source \in Range(nodes_info)
             /\ named(a.destination, acts[i].destination)
             /\ \A n \in DOMAIN graph : named(graph[n], acts[i].destination)
                   => n = a.destination.pubkey \/ a.destination \in Range(nodes_info)
  <1> DEFINE named(info, id) == id.id = IF id.type = "PublicKey" THEN info.pubkey ELSE info.alias
  <1>1. PICK s, d : s = acts[i].source /\ d = acts[i].destination
    OBVIOUS
  <1>2. PICK src, dst : /\ src = validate_activities(acts)[i].source
                        /\ dst = validate_activities(acts)[i].destination
    OBVIOUS
  <1>3. NamedOurs(s) # {} /\ ResolveDestination(d) # {}
    BY <1>1 DEF validate_activities_ok, Range
  <1>4. src \in NamedOurs(s) /\ dst \in ResolveDestination(d)
    <2>1. src = (CHOOSE n \in NamedOurs(s) : TRUE) /\ dst = (CHOOSE n \in ResolveDestination(d) : TRUE)
      BY <1>1, <1>2 DEF validate_activities
    <2>2. QED BY <1>3, <2>1
  <1>5. ASSUME NEW infos, Keyed(infos), NEW id, NEW m
        PROVE  m \in Named(infos, id) <=> \E n \in DOMAIN infos : m = infos[n] /\ named(m, id)
    BY <1>5 DEF Named, Keyed
  <1>6. Keyed(nodes_info) /\ Keyed(graph)
    BY DEF KeysInv
  <1>7. \A id : \A m \in NamedOurs(id) : named(m, id) /\ m \in Range(nodes_info)
    <2>1. ASSUME NEW id, NEW m \in NamedOurs(id)
          PROVE  \E n \in DOMAIN nodes_info : m = nodes_info[n] /\ named(m, id)
      <3>1. m \in Named(nodes_info, id)
        BY <2>1 DEF NamedOurs
      <3>2. QED BY <1>5, <1>6, <3>1
    <2>2. QED BY <2>1 DEF Range
  <1>8. CASE NamedOurs(d) # {}
    <2>1. dst \in NamedOurs(d)
      BY <1>4, <1>8 DEF ResolveDestination
    <2>2. named(dst, d) /\ dst \in Range(nodes_info) /\ named(src, s) /\ src \in Range(nodes_info)
      BY <1>4, <1>7, <2>1
    <2>3. QED BY <1>1, <1>2, <2>2
  <1>9. CASE NamedOurs(d) = {}
    <2>1. dst \in Named(graph, d) /\ Named(graph, d) = {dst}
      BY <1>4, <1>9 DEF ResolveDestination
    <2>2. named(dst, d)
      BY <1>5, <1>6, <2>1
    <2>3. ASSUME NEW n \in DOMAIN graph, named(graph[n], d) PROVE n = dst.pubkey
      <3>1. graph[n] \in Named(graph, d)
        BY <1>5, <1>6, <2>3
      <3>2. graph[n] = dst
        BY <2>1, <3>1
      <3>3. QED BY <1>6, <3>2 DEF Keyed
    <2>4. QED BY <1>1, <1>2, <1>4, <1>7, <2>2, <2>3
  <1>10. QED BY <1>8, <1>9

\* get_validated_activities resolves the names.
LEMMA ResolveSetupInv ==
  ASSUME SetupInv, Resolve
  PROVE  SetupInv'
  <1>1. CASE Fail("ValidationError")
    BY <1>1, FailSetupInv DEF Fail
  <1>2. CASE /\ validate_activities_ok(config.activity)
             /\ activity' = validate_activities(config.activity) /\ Enter("run")
             /\ UNCHANGED <<made, clients, nodes_info, graph, todo, active, kits>>
    <2>1. phase = "resolve" /\ phase' = "run" /\ UNCHANGED config
      BY <1>2 DEF Resolve, Enter
    <2>2. ConfigInv' /\ KeysInv'
      <3>1. \A acts : DOMAIN acts = {} => validate_activities(acts) = <<>>
        BY DEF validate_activities
      <3>2. \A acts : DOMAIN validate_activities(acts) = DOMAIN acts
        BY DEF validate_activities
      <3>3. QED BY <1>2, <2>1, <3>1, <3>2 DEF SetupInv, ConfigInv, KeysInv, Keyed
    <2>3. ClientsInv'
      BY <1>2, <2>1 DEF SetupInv, ClientsInv, IsReal
    <2>4. ActiveInv'
      BY <1>2, <2>1 DEF SetupInv, ActiveInv
    <2>5. KitsInv'
      BY <2>1 DEF KitsInv
    <2>6. ActivitiesAsNamed'
      <3>1. PICK acts : acts = config.activity
        OBVIOUS
      <3>2. activity' = validate_activities(acts) /\ config'.activity = acts
            /\ DOMAIN activity' = DOMAIN acts /\ validate_activities_ok(acts)
        BY <1>2, <2>1, <3>1 DEF validate_activities
      <3>3. ASSUME NEW i \in DOMAIN acts
            PROVE  LET named(info, id) == id.id = IF id.type = "PublicKey" THEN info.pubkey ELSE info.alias
                       a == validate_activities(acts)[i]
                   IN  /\ named(a.source, acts[i].source) /\ a.source \in Range(nodes_info)
                       /\ named(a.destination, acts[i].destination)
                       /\ \A n \in DOMAIN graph : named(graph[n], acts[i].destination)
                             => n = a.destination.pubkey \/ a.destination \in Range(nodes_info)
        BY <3>2, ResolvedAsNamed DEF SetupInv
      <3>4. PICK vs : vs = validate_activities(acts)
        OBVIOUS
      <3>5. QED BY <1>2, <3>2, <3>3, <3>4 DEF ActivitiesAsNamed
    <2>7. QED BY <2>2, <2>3, <2>4, <2>5, <2>6 DEF SetupInv
  <1>3. QED BY <1>1, <1>2 DEF Resolve

\* The steps of internal_run leave what was set up before it as it is.
LEMMA LateSetupInv ==
  ASSUME SetupInv, phase \in {"run", "collect", "events"},
         phase' \in {"run", "collect", "events", "running"},
         UNCHANGED <<config, made, clients, nodes_info, graph, activity>>, ActiveInv', KitsInv'
  PROVE  SetupInv'
  <1>1. ConfigInv' /\ KeysInv'
    BY DEF SetupInv, ConfigInv, KeysInv, Keyed
  <1>2. ClientsInv'
    BY DEF SetupInv, ClientsInv, IsReal
  <1>3. ActivitiesAsNamed'
    BY DEF SetupInv, ActivitiesAsNamed
  <1>4. QED BY <1>1, <1>2, <1>3 DEF SetupInv

\* internal_run validates, and makes the kits of defined activities.
LEMMA RunSetupInv ==
  ASSUME SetupInv, Run
  PROVE  SetupInv'
  <1>1. CASE Fail("ValidationError")
    BY <1>1, FailSetupInv DEF Fail
  <1>2. CASE /\ validate_node_network_ok /\ IsRandom /\ phase' = "collect"
             /\ UNCHANGED <<config, made, clients, nodes_info, graph, activity, active, kits>>
    <2>1. ActiveInv'
      BY <1>2 DEF SetupInv, ActiveInv
    <2>2. KitsInv'
      BY <1>2 DEF KitsInv, validate_node_network_ok, IsRandom
    <2>3. QED BY <1>2, <2>1, <2>2, LateSetupInv DEF Run
  <1>3. ASSUME validate_node_network_ok, ~ IsRandom, NEW sample,
               \A i \in DOMAIN activity : payment_flow_ok(activity[i], sample[i]),
               phase' = "events", kits' = {DefinedKit(i) : i \in DOMAIN activity},
               UNCHANGED <<config, made, clients, nodes_info, graph, activity, active>>
        PROVE  SetupInv'
    <2>1. ActiveInv'
      BY <1>3 DEF SetupInv, ActiveInv
    <2>2. kits' # {}
      BY <1>3 DEF SetupInv, ConfigInv, IsRandom
    <2>3. \A k \in kits' : k.source.pubkey \in DOMAIN clients /\ supports_keysend(k.destination.features)
      BY <1>3 DEF DefinedKit, payment_flow_ok
    <2>4. KitsInv'
      BY <1>3, <2>2, <2>3 DEF KitsInv, validate_node_network_ok, IsRandom
    <2>5. QED BY <1>3, <2>1, <2>4, LateSetupInv DEF Run
  <1>4. QED BY <1>1, <1>2, <1>3 DEF Run

\* A client is asked for its capacity and its info.
LEMMA CollectSetupInv ==
  ASSUME SetupInv, NEW pk \in DOMAIN clients, Collect(pk)
  PROVE  SetupInv'
  <1> DEFINE capacity == Capacities(clients[pk])
  <1>1. CASE phase' = "failed" /\ UNCHANGED <<config, made, clients, nodes_info, graph, activity, active, kits>>
    BY <1>1, FailSetupInv
  <1>2. CASE UNCHANGED <<config, phase, made, clients, nodes_info, graph, activity, active, kits>>
    <2>1. ActiveInv' /\ KitsInv'
      BY <1>2 DEF SetupInv, ActiveInv, KitsInv, validate_node_network_ok, IsRandom, RandomKit
    <2>2. QED BY <1>2, <2>1, LateSetupInv DEF Collect
  <1>3. ASSUME NEW info \in Infos(clients[pk], pk),
               active' = [n \in DOMAIN active \cup {pk} |->
                   IF n = pk THEN [info |-> info, capacity |-> capacity \div 2] ELSE active[n]],
               UNCHANGED <<config, phase, made, clients, nodes_info, graph, activity, kits>>
        PROVE  SetupInv'
    <2>1. info.pubkey = pk
      <3>1. CASE IsReal(clients[pk])
        BY <1>3, <3>1, NodeInfoKeyed DEF Infos, SetupInv, ClientsInv
      <3>2. CASE ~ IsReal(clients[pk])
        BY <1>3, <3>2, SimKeyed DEF Infos
      <3>3. QED BY <3>1, <3>2
    <2>2. config.sim_network # <<>> => capacity = Sum(lookup_node(config, pk))
      BY DEF Capacities, SetupInv, ClientsInv
    <2>3. ActiveInv'
      <3>1. ASSUME NEW n \in DOMAIN active'
            PROVE  /\ n \in DOMAIN clients' /\ active'[n].info.pubkey = n
                   /\ config'.sim_network # <<>> =>
                         active'[n].capacity = Sum(lookup_node(config', n)) \div 2
        <4>1. CASE n = pk
          BY <1>3, <2>1, <2>2, <4>1
        <4>2. CASE n # pk
          <5>1. n \in DOMAIN active /\ active'[n] = active[n]
            BY <1>3, <4>2
          <5>2. QED BY <1>3, <5>1 DEF SetupInv, ActiveInv
        <4>3. QED BY <4>1, <4>2
      <3>2. QED BY <3>1 DEF ActiveInv
    <2>4. KitsInv'
      BY <1>3 DEF Collect, SetupInv, KitsInv, validate_node_network_ok, IsRandom
    <2>5. QED BY <1>3, <2>3, <2>4, LateSetupInv DEF Collect
  <1>4. QED BY <1>1, <1>2, <1>3 DEF Collect, FailRunning

\* The nodes found become kits.
LEMMA MakeKitsSetupInv ==
  ASSUME SetupInv, MakeKits
  PROVE  SetupInv'
  <1>1. CASE phase' = "failed" /\ UNCHANGED <<config, made, clients, nodes_info, graph, activity, active, kits>>
    BY <1>1, FailSetupInv
  <1>2. CASE /\ ActivityErrors = {"Ok"} /\ kits' = {RandomKit(n) : n \in DOMAIN active}
             /\ Enter("events") /\ UNCHANGED <<made, clients, nodes_info, graph, activity, active>>
    <2>1. phase = "collect" /\ phase' = "events" /\ UNCHANGED config
      BY <1>2 DEF MakeKits, Enter
    <2>2. DOMAIN active # {}
      BY <1>2 DEF ActivityErrors
    <2>3. kits' # {} /\ \A n : RandomKit(n)' = RandomKit(n)
      BY <1>2, <2>2 DEF RandomKit
    <2>4. ActiveInv'
      BY <1>2, <2>1 DEF SetupInv, ActiveInv
    <2>5. KitsInv'
      BY <1>2, <2>1, <2>3 DEF SetupInv, KitsInv, validate_node_network_ok, IsRandom
    <2>6. QED BY <1>2, <2>1, <2>4, <2>5, LateSetupInv
  <1>3. QED BY <1>1, <1>2 DEF MakeKits, FailRunning

\* A kit draws its first event.
LEMMA FirstEventSetupInv ==
  ASSUME SetupInv, NEW k \in kits, FirstEvent(k)
  PROVE  SetupInv'
  <1>1. CASE phase' = "failed" /\ UNCHANGED <<config, made, clients, nodes_info, graph, activity, active, kits>>
    BY <1>1, FailSetupInv
  <1>2. CASE /\ phase' \in {"events", "running"}
             /\ UNCHANGED <<config, made, clients, nodes_info, graph, activity, active, kits>>
    <2>1. phase = "events" /\ \A n : RandomKit(n)' = RandomKit(n)
      BY <1>2 DEF FirstEvent, RandomKit
    <2>2. ActiveInv'
      BY <1>2 DEF SetupInv, ActiveInv
    <2>3. KitsInv'
      BY <1>2, <2>1 DEF SetupInv, KitsInv, validate_node_network_ok, IsRandom
    <2>4. QED BY <1>2, <2>1, <2>2, <2>3, LateSetupInv
  <1>3. QED BY <1>1, <1>2 DEF FirstEvent, FailRunning, Enter

\* Every step preserves the invariant.
LEMMA StepSetupInv == SetupInv /\ [Next]_vars => SetupInv'
  <1> SUFFICES ASSUME SetupInv, [Next]_vars PROVE SetupInv'
    OBVIOUS
  <1>1. CASE ParseSimParams
    <2>1. CASE phase' = "failed" /\ UNCHANGED <<config, made, clients, nodes_info, graph, activity, active, kits>>
      BY <2>1, FailSetupInv
    <2>2. CASE Enter("validate") /\ UNCHANGED <<made, clients, nodes_info, graph, activity, active, kits>>
      BY <1>1, <2>2, EnterSetupInv DEF ParseSimParams, Enter, SetupInv, ConfigInv
    <2>3. QED BY <1>1, <2>1, <2>2 DEF ParseSimParams, Fail
  <1>2. CASE ValidateCli
    <2>1. CASE phase' = "failed" /\ UNCHANGED <<config, made, clients, nodes_info, graph, activity, active, kits>>
      BY <2>1, FailSetupInv
    <2>2. CASE /\ Cli_validate(config)
               /\ Enter(IF config.sim_network = <<>> THEN "connect" ELSE "build")
               /\ UNCHANGED <<made, clients, nodes_info, graph, activity, active, kits>>
      BY <1>2, <2>2, EnterSetupInv DEF ValidateCli, Enter, SetupInv, ConfigInv
    <2>3. QED BY <1>2, <2>1, <2>2 DEF ValidateCli, Fail
  <1>3. CASE CtrlC \/ UNCHANGED vars
    <2>1. UNCHANGED <<config, phase, made, clients, nodes_info, graph, activity, active, kits>>
      BY <1>3 DEF CtrlC, vars
    <2>2. ConfigInv' /\ KeysInv'
      BY <2>1 DEF SetupInv, ConfigInv, KeysInv, Keyed
    <2>3. ClientsInv'
      BY <2>1 DEF SetupInv, ClientsInv, IsReal
    <2>4. ActiveInv' /\ KitsInv'
      BY <2>1 DEF SetupInv, ActiveInv, KitsInv, validate_node_network_ok, IsRandom, RandomKit
    <2>5. ActivitiesAsNamed'
      BY <2>1 DEF SetupInv, ActivitiesAsNamed
    <2>6. QED BY <2>2, <2>3, <2>4, <2>5 DEF SetupInv
  <1>4. QED
    BY <1>1, <1>2, <1>3, ConnectSetupInv, BuildSetupInv, GetGraphSetupInv, ResolveSetupInv,
       RunSetupInv, CollectSetupInv, MakeKitsSetupInv, FirstEventSetupInv DEF Next

(***************************************************************************)
(* A defined activity is run between the nodes that the file names,        *)
(* however aliases and public keys are mixed and whichever client's graph  *)
(* is consulted.                                                           *)
(***************************************************************************)
THEOREM ActivitiesNamed == Spec => []ActivitiesAsNamed
  <1>1. SetupInv => ActivitiesAsNamed
    BY DEF SetupInv
  <1>2. QED BY <1>1, InitSetupInv, StepSetupInv, PTL DEF Spec

\* The capacity that lookup_node counts is that of the channels between nodes
\* of the simulation.
LEMMA CountedCapacity ==
  ASSUME NEW c, NEW n, NEW ours, n \in ours,
         ours = ChannelNodes(c.sim_network) \ c.exclude
  PROVE  lookup_node(c, n) =
           [i \in DOMAIN c.sim_network |->
               IF /\ n \in Channel!Ends(c.sim_network[i])
                  /\ Channel!Ends(c.sim_network[i]) \subseteq ours
               THEN c.sim_network[i].capacity_msat ELSE 0]
  <1>1. ASSUME NEW i \in DOMAIN c.sim_network
        PROVE  /\ i \in Having(c.sim_network, n) <=> n \in Channel!Ends(c.sim_network[i])
               /\ ~ exclude_capacity(c.sim_network[i], c.exclude)
                  <=> Channel!Ends(c.sim_network[i]) \subseteq ours
    BY DEF Having, exclude_capacity, ChannelNodes
  <1>2. QED BY <1>1 DEF lookup_node

(***************************************************************************)
(* A simulation that runs is sound: one network that is not mainnet,       *)
(* virtual time only without real nodes, sources that are ours and not     *)
(* excluded, defined activities with willing destinations, and capacities  *)
(* without the channels of excluded nodes.                                 *)
(***************************************************************************)
THEOREM RunsAreSound == Spec => []RunIsSound
  <1>1. ASSUME SetupInv, phase = "running" PROVE RunIsSound
    <2>1. /\ validate_node_network_ok /\ Cli_validate(config) /\ kits # {}
          /\ \A n \in DOMAIN clients : clients[n].network \in BitcoinNetwork
      BY <1>1 DEF SetupInv, ConfigInv, ClientsInv, KitsInv
    <2>2. \E net \in BitcoinNetwork \ {"bitcoin"} : \A n \in DOMAIN clients : clients[n].network = net
      BY <2>1 DEF validate_node_network_ok
    <2>3. config.virtual_time => config.total_time /\ \A n \in DOMAIN clients : ~ IsReal(clients[n])
      BY <1>1, <2>1 DEF Cli_validate, SetupInv, ClientsInv
    <2>4. \A n \in DOMAIN clients : n \notin config.exclude
      BY <1>1 DEF SetupInv, ClientsInv
    <2>5. CASE ~ IsRandom
      BY <1>1, <2>1, <2>2, <2>3, <2>4, <2>5 DEF RunIsSound, SetupInv, KitsInv
    <2>6. CASE IsRandom
      <3>1. ASSUME NEW k \in kits
            PROVE  \E n \in DOMAIN active : /\ k.source.pubkey = n /\ n \in DOMAIN clients
                                            /\ k.capacity = active[n].capacity
        BY <1>1, <2>6, <3>1 DEF SetupInv, KitsInv, ActiveInv, RandomKit
      <3>2. ASSUME NEW k \in kits, config.sim_network # <<>>
            PROVE  k.capacity = Sum([i \in DOMAIN config.sim_network |->
                     IF i \in {j \in DOMAIN config.sim_network :
                                  /\ k.source.pubkey \in Channel!Ends(config.sim_network[j])
                                  /\ Channel!Ends(config.sim_network[j]) \subseteq DOMAIN clients}
                     THEN config.sim_network[i].capacity_msat ELSE 0]) \div 2
        <4>1. PICK n \in DOMAIN active : /\ k.source.pubkey = n /\ n \in DOMAIN clients
                                         /\ k.capacity = active[n].capacity
          BY <3>1, <3>2
        <4>2. k.capacity = Sum(lookup_node(config, n)) \div 2
          BY <1>1, <3>2, <4>1 DEF SetupInv, ActiveInv
        <4>3. DOMAIN clients = ChannelNodes(config.sim_network) \ config.exclude
          BY <1>1, <3>2 DEF SetupInv, ClientsInv
        <4>4. lookup_node(config, n) =
                [i \in DOMAIN config.sim_network |->
                    IF /\ n \in Channel!Ends(config.sim_network[i])
                       /\ Channel!Ends(config.sim_network[i]) \subseteq DOMAIN clients
                    THEN config.sim_network[i].capacity_msat ELSE 0]
          BY <4>1, <4>3, CountedCapacity
        <4>5. lookup_node(config, n) =
                [i \in DOMAIN config.sim_network |->
                     IF i \in {j \in DOMAIN config.sim_network :
                                  /\ k.source.pubkey \in Channel!Ends(config.sim_network[j])
                                  /\ Channel!Ends(config.sim_network[j]) \subseteq DOMAIN clients}
                     THEN config.sim_network[i].capacity_msat ELSE 0]
          BY <4>1, <4>4
        <4>6. QED BY <4>2, <4>5
      <3>3. \A k \in kits : k.source.pubkey \in DOMAIN clients \ config.exclude
        BY <2>4, <3>1
      <3>4. QED BY <2>1, <2>2, <2>3, <2>6, <3>2, <3>3 DEF RunIsSound
    <2>7. QED BY <2>5, <2>6
  <1>2. SetupInv => RunIsSound
    BY <1>1 DEF RunIsSound
  <1>3. QED BY <1>2, InitSetupInv, StepSetupInv, PTL DEF Spec

===============================================================================
