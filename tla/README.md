# sim-ln in TLA+

A model of [sim-ln](../src/README.md), a payment simulator for the Lightning
Network. The simulator generates payments from configured or random activity,
hands them to nodes, tracks their outcome and writes the results. The nodes are
real ones, reached by RPC, or nodes of a network that the simulator simulates
in memory. The modules here model the way from the command line to a running
simulation, the nodes of both kinds, the simulated network, the payment producer
and the results pipeline. TLC checks them on small instances, and TLAPS proves
for every instance the safety properties of each: the contract of a channel and
that the network of payments implements it, who owns an HTLC, the interceptors'
verdict, the payment calls of simulated nodes and of RPC nodes, the way of a
payment through the pipeline, the punctuality of the producer and what the setup
lets run.

## The system's parts

| Part | State | Operations | What makes it correct |
|---|---|---|---|
| Simulated channel (`sim_node.rs`, `ChannelState`, `SimulatedChannel`) | per end: balance, HTLCs in flight by hash, next index | add, remove and settle an HTLC, check a forward, sanity check | funds are conserved, limits hold, an index names one HTLC |
| Payment propagation (`SimGraph`, `add_htlcs`, `remove_htlcs`, `propagate_payment`) | all channels behind one mutex, one task per payment | add hop by hop, ask interceptors, remove backwards, report | no HTLC is lost, removed twice or left behind; balances match outcomes |
| HTLC interception (`handle_intercepted_htlc`) | a `JoinSet`, an interceptor trigger, merged custom records | join answers, pass a failure or a shutdown on | the verdict does not depend on the order of the answers, the call ends |
| Simulated node (`SimNode`) | `in_flight` map behind a mutex, a oneshot per payment | `send_payment`, `send_to_route`, `track_payment` | each call gets its own payment's result |
| Payment producer (`lib.rs`) | a heap of events, a tracker per source, the clock | pop, sleep, replenish, spawn | payments leave on time, counts are met |
| Results pipeline (`lib.rs`, `batched_writer.rs`) | two channels of size one, five kinds of tasks, the results file | produce, send, track, consume, flush, shut down | each payment is reported once, a shutdown ends everything |
| Activities (`defined_activity.rs`, `random_activity.rs`) | a view of nodes and capacities, a capacity per source | validate, draw a destination, an amount, a wait | a generator that was built can always draw |
| Node backends (`lnd.rs`, `cln.rs`, `eclair.rs`, `ldk_server.rs`) | an RPC client, behind a mutex but for ldk | connect, describe nodes, capacities and the graph, send, track by polling or by a stream | what is reported is true, the client is given back, a shutdown ends every call |
| Configuration and validation (`sim-cli`, `lib.rs`) | options, clients, names, activities | parse, validate, connect or build, resolve names, make executors | what runs is what the file asks for; a failure leaves nothing behind |

How they interact: the producer spawns a `send_payment` task per payment, which
calls a node and puts the output on a channel; the results producer takes it
from there and spawns a tracking task, which waits for the node's
`track_payment` and puts the result on a second channel, from which the consumer
reports and writes it. A simulated node finds a route, records the payment in
`in_flight` and has the graph spawn a propagation task, which reports through a
oneshot that `track_payment` waits for. A shutdown trigger is shared by all:
Ctrl-C, the total time, the end of the producer, a failed task or a critical
error of the simulated network fires it.

What is hard here: many payments interleave on the same channels with the lock
released between two hops; errors leave partial state to be cleaned up;
interceptors hold HTLCs for any time and answer in any order while a shutdown
may arrive; locks and channels are held across awaits; the shutdown races the
results; polls and sends compete for one client; names, graphs and capacities
come from nodes that need not agree. `PROJECT.json` lists these hazards at the
lines where they bite.

## Modules

    ChannelState  <-- SimulatedChannel  <-- ChannelContract  <-- MCChannel
         (operators, no variables)      <-- PaymentNetwork   <-- MCNetwork
                                        <-- ChannelLemmas
    ChannelContract, ChannelLemmas  <-- ChannelProofs
    PaymentNetwork, ChannelLemmas   <-- NetworkProofs
    PaymentProducer  <-- MCProducer, ProducerProofs
    ResultsPipeline  <-- PipelineProofs
    Interceptors     <-- InterceptorProofs
    LightningNode  <-- SimNode  <-- MCSimNode
                   <-- RpcNode
    SimNode, RpcNode  <-- NodeProofs
    NodeBackends, RandomActivity  <-- SimulationSetup  <-- MCSetup
         (operators, no variables)                     <-- SetupProofs

**ChannelState** and **SimulatedChannel** are operators on values. A method that
can fail is two operators, the error it returns and the state it leaves; errors
are tested in the code's order. `in_flight_total` is the sum over the map of HTLCs
in flight, the `SumFunction` of the community modules.

**ChannelContract** is the abstract specification of one channel: any caller
adds and removes anything. **PaymentNetwork** is shown to implement it for every
channel of a graph (`ChannelsKeepContract`). It has one state machine per
payment; a step is one critical section of the channels' mutex, or an await
without it. `pc` is `idle` -> `add` -> `intercept` -> ... -> `remove` ->
`notify` -> ... -> `report` -> `done`. Routes are constants, given by the HTLCs
they ask for; they need not be valid, as `send_to_route` accepts any path.

**Interceptors** is one call of `handle_intercepted_htlc`; PaymentNetwork takes
any of its results. **LightningNode** has the variables that all nodes share: the
shutdown, a node's mutex and the results of its calls. **SimNode** is the calls made on one node; the network is
reduced to "reports any outcome at any time". A step is what a call does
between two points where it may wait. The lock of `in_flight` is a variable,
because `track_payment` holds it while it waits (the guard is a temporary of the
`match` scrutinee).

**PaymentProducer** counts time in ticks, `Second` of them to a second, so that
the rounding of waits to whole seconds is visible. Every pop pushes at most one
event, so the heap is one slot per executor. **ResultsPipeline** has the tasks of
`Simulation::run`. A function that returns drops its channel ends before its
task fires the trigger, and this is a step of its own. A send task may also panic,
as eclair's `send_payment` does on an empty answer (`eclair.rs:158`): it then ends
with neither an output nor a trigger, and the others go on.

**RpcNode** is the payment calls made on one RPC node of any of the four kinds:
the variable `kind` is chosen once. The kinds differ in when they take the
client's lock, how long they keep it, and how they learn the outcome; `call` is
`idle` -> `send_lock` -> `sending` (-> `confirming`, eclair) -> `sent` ->
`waiting` -> `track_lock` -> `polling` -> `waiting` ... -> `done` for the
polling backends and `sent` -> `track_lock` -> `subscribing` -> `streaming` ->
`done` for lnd. The remote node is external: it may fail any request after
having acted on it, and need not resolve a payment. Nothing it says about a
payment is false; without that assumption nothing could be said of a client.

**NodeBackends** is what the backends' constructors and queries make of the
answers of their nodes: networks and their names (bitcoind's for cln, those that
`bitcoin::Network` parses for lnd and eclair, an enumeration for ldk), features in three formats,
capacities in three units, the graph with and without announcements.
**RandomActivity** is the constructors of the random generators and what their
draws can return; the logarithms of `payment_amount` are only compared, so their
arguments are compared. The product `2 * expected_payment_amt` wraps, as it does
in a release build. **SimulationSetup** puts both together: a state machine with one
step per await of `main`, `create_simulation` or
`create_simulation_with_network`, and `internal_run`, up to the point where
every executor has its first event, where PaymentProducer begins. A
configuration is chosen in `Init`. What a `HashMap` yields first, what a range
yields, and whether a request fails are open.

Definitions whose name ends in a word after an existing name
(`write_unforced`, `Notified_stops_short`) are mutants: plausible bugs, used to
see that a property fails when the code is wrong. They are marked `Mutant`.

## Runs

Each run is `tlc -config <cfg> <module>`. All passing runs are exhaustive for
their constants.

| Run | Checks | Result |
|---|---|---|
| `channel` | funds, limits, indexes of one channel under any calls | pass |
| `network` | three crossing payments, two with one hash, interceptors that hold, fail and break: ownership of HTLCs, cleanup, balances against outcomes, event identity, payments that are all or nothing and decided once, refinement of ChannelContract, progress with every step, termination | pass |
| `network_errors` | seven broken routes that compete for one slot, without interceptors: cleanup or shutdown, limits | pass |
| `network_odd` | "these values should exactly match" | violated: an odd capacity loses a msat |
| `interceptors` | order independence, waiting for all, ending on failure or shutdown | pass |
| `pipeline` | no duplicate, no silent loss, file follows reports, no circle of waiting tasks, shutdown ends the run, payments are reported | pass |
| `producer` | punctuality with a shared, rounded, overshooting sleep; exact counts; end of the producer | pass |
| `producer_shared` | "count" with two activities of one node | violated: the trackers are per source |
| `sim_node` | own results, one hash in the network once, calls return | pass |
| `sim_node_held` | outputs are handled separately | violated: a tracked payment locks its node |
| `rpc_node` | two payments on each kind of RPC node: the lock is held exactly while its holder talks to the node, what each result tells of the payment is so, a shutdown ends all calls, and a polled node serves every payment | pass |
| `setup` | the setup for every configuration of `MCSetup`: sound runs, random activity that can draw, activities between the nodes they name, clean failures | pass |

A violated run states what a document or comment of the repository says; the
quotation and the code that disagrees are in `PROJECT.json`, "findings". Smaller
disagreements between code and comments, met while modelling and without a run
of their own:

* `sim_node.rs:889` calls the `HtlcRef` a unique identifier; both ends of a
  channel count their HTLCs from zero, so it is unique only together with the
  forwarding node, which is what `EventsAgree` checks.
* `sim_node.rs:869` says that resolutions are of previously intercepted HTLCs; an
  HTLC refused by the next channel's policy is removed, and notified, without
  having been intercepted.
* `sim_node.rs:965` says that an interceptor's forwarding error is returned; once
  the shutdown was seen the answers still to come are thrown away and the HTLC
  proceeds. `VerdictIsUnanimous` is stated for the time before.
* `lib.rs:792` says that `run` waits for its tasks; it does not when the setup
  fails.
* `lib.rs:654` says that the heap holds one event per source; it holds one per
  activity, which is the cause of `producer_shared` too.
* `README.md:290` promises a full list of the payments made; the producer fires
  the trigger as soon as it is out of events, and payments that are in flight
  then are not reported. `EachPaymentOnce` excludes losses before the trigger.
* `ARCHITECTURE.md:72` says that every `recv` selects on the shutdown; the one of
  `produce_simulation_results` does not and ends only when every `send_payment`
  call has returned. `ShutdownEndsRun` therefore assumes that calls return.
* `lib.rs:1005` says that random activity runs on the nodes with sufficient
  capacity. The first pass asks for twice the expected amount, halves the
  capacity, and `RandomPaymentActivity::new` asks the half for the same again
  (line 1052): a node between two and four times the expected amount is not
  skipped but ends the simulation.
* `lib.rs:465` says of `NotDispatched` that "the payment was never dispatched". Every
  error of `send_payment` but a permanent one is recorded as that
  (`lib.rs:1325`), and a request may fail after the node has acted on it: eclair's
  fails when the payment was sent and only the request for its hash does not
  succeed (`eclair.rs:157`), and panics on an empty answer (158).
  `ResultsAreTrue` shows the opposite of the comment for `InvalidPaymentHash`: the
  node always has the payment. Eclair's `track_payment` looks at the first part
  only (187).
* `lib.rs:463` says of `Unknown` that the payment failed. lnd's `track_payment` ends
  with it for every status but succeeded and failed, in flight included
  (`lnd.rs:212`). The request asks for no updates of payments in flight, so it takes
  a node that sends one all the same; the payment goes on then, and
  `ResultsAreTrue` says of `Unknown` only that the node has it.
* The README says that a node's `id` must match if it is a public key; eclair's
  is not looked at, and ldk's connection is checked by nothing but its network.
* lnd's `track_payment` keeps the client's lock until the payment resolves, so a
  node with a payment in flight sends no other (`lnd.rs:177`); `PollingServesAll`
  is stated for the other three.
* A range of amounts is checked for zero by drawing one sample (`lib.rs:729`).
* A node with channels under several aliases is known by the last one to
  activities and by the first one to the graph (`parsing.rs:294`,
  `sim_node.rs:1120`). The check for a duplicated node (`parsing.rs:431`) is
  unreachable, as the nodes come out of a map.
* `populate_network_graph` tells LDK the capacity in satoshis, rounded down, so a
  channel that accepts HTLCs up to its capacity is refused unless that is a
  multiple of 1000 msat.
* The README's `start_secs` (default 0) is not what `get_payment_delay` does: an
  activity without it waits one interval.

### Bounds

* Channel: 8 msat, amounts 0..5, two hashes, at most three additions per
  direction (`MaxIndex`, a state constraint). Policies are asymmetric, and each
  limit (size, count, total, balance, expiry) is met and missed.
* Network: three nodes in a line, two channels of 10 msat. A two-hop route has a
  first, a last and a forwarding hop; two payments per hop are enough to compete.
  `MaxU64` is small so that the fee product overflows for one route. One more
  node or payment multiplies the states without a new kind of meeting.
  Amounts and expiries are those of the chosen routes. All of a route's outcomes
  are met in `network`: success, a refusal, a failing and a breaking interceptor
  before the decision, and a failing notification after it.
* Interceptors: three, one record key with two values: conflict, agreement, and
  an answer before, between and after the others.
* Pipeline: two payments and channels of one slot, which the code has: one
  payment fills a channel while the other waits for it. A batch of two is
  filled, left partial and flushed. (Three payments give the same results.)
* Producer: three sources, four ticks to a second, sleeps that overshoot by a
  tick. The simulation starts with one of two configurations: defined and random
  activities of which some never end, whose events after `Horizon` are not
  popped, or activities that all have a count.
* Node: three calls, two of one hash.
* RPC node: two payments, each kind of node. One payment that is never resolved
  and one that has to get past it is all there is to a lock; the proofs cover
  any number.
* Setup: `MaxU64` is 65535, so that capacities around 2, 4 and 8 times the expected
  amount, and expected amounts whose double wraps, are small numbers. The
  families of `MCSetup` each vary what one part looks at: which of three nodes
  have capacity, what kinds and networks and identities two nodes have, which of
  six nodes with shared and missing aliases are named, which channels of a
  triangle are valid and excluded, all combinations of options, all paths.

`CHECK_DEADLOCK FALSE` is set where the system ends: payments are done, the call
has returned, the simulation has stopped.

### Fairness

* Tasks: tokio polls every task that can make progress (weak fairness of each
  task's steps). Nothing makes a caller dispatch a payment or a user end the
  simulation.
* Tokio's mutex serves its waiters in order; in SimNode this is strong fairness of
  the calls, whose lock is taken and released by others meanwhile. In
  PaymentNetwork a critical section is one step and weak fairness is enough.
* Interceptors: in `network` they answer; in `interceptors` only one that was
  told to stop must end, as the trait's documentation asks.
* Nodes: `track_payment` returns on the shutdown signal in each implementation,
  which is what `ShutdownEndsCalls` of the rpc_node run shows. `NodesAnswer` adds
  that calls return at all. In RpcNode, requests are answered and the mutex is
  fair (strong fairness of `Acquire`), but no payment need be resolved. In
  SimNode, `ReportingSpec` adds that the network reports,
  which is what `EveryPaymentReports` of the network run shows.

## Proofs

`ChannelProofs` proves, of `ChannelContract` and for all nodes, hashes,
capacities, policies, amounts and sequences of calls:

* `ChannelTyped`: the type invariant. Balances stay natural numbers, that is, no
  unsigned subtraction underflows.
* `ChannelSane`: the sanity check never fails on a channel of even capacity. The
  assumption is needed: see `network_odd`.
* `ChannelLimited`: the counterparty's limits and the sender's sizes hold.
* `ChannelIndexed`: an index names one HTLC in flight of a sender.
* `ChannelHtlcsFixed`: `HtlcsAreFixed`, about steps. No step takes an index back or
  changes an HTLC that stays in flight.

Assumptions: `ChannelAssumption` (the ends are nodes, policies have their type,
and `SimulatedChannel::validate` has accepted the channel) and
`MaxU64Assumption`.

The inductive invariant is `SidesInv` of `ChannelLemmas`: types, finite maps,
`FundsKept` (balances and HTLCs sum to twice half the capacity), limits and
indexes. The parts need each other: a removal keeps the balance natural because
the HTLC's amount is, and keeps the sum because the map is finite and the
amount is the one that was locked; the index argument needs that every index in
the map is below the counter. The lemmas `AddTotal` and `RemoveTotal` say how one
HTLC changes the total; `AddPreserves`,
`RemovePreserves` and `NewChannelInv` are stated on values, for any channel, so
that the proofs about PaymentNetwork can use them too.

Sums over finite sets, the `SumFunction` of the community modules, are recursive
functions, and the library's induction theorems take a predicate, which the
provers cannot instantiate. `SubsetInduction` takes a set of sets in its place: a
set `B` that has a finite `S`'s subset whenever it has all smaller ones has all of
them. With it `SumIsCount` shows that a sum is the cardinality of a disjoint union
(the recursive function exists, as the counts satisfy its equation, and any two
agree), and `SumEmpty` and `SumMore` say of sums what the other proofs use.

`NetworkProofs` proves, of `PaymentNetwork` and for every graph that
`SimGraph::new` accepts, every set of payments and every route:

* `NetworkTyped`, `NetworkSane` and `NetworkLimited`: balances stay natural
  numbers, channels of even capacity stay sane and limits hold, however the
  payments interleave.
* `HtlcsOwned`: `HtlcOwnership`. Each HTLC in flight is one hop's of one payment,
  and each hop a task has still to resolve has its HTLC.
* `StuckHtlcsEndTheRun`: HTLCs are left behind only by a critical error, which
  has fired the trigger.
* `LedgerKept`: `LedgerMatchesOutcomes`. Every balance is at every moment what the
  payments made of it: money moves along the routes of successful payments.
* `PaymentsAreAtomic`: `OutcomeIsFinal`, about steps. A payment is decided once, and
  a success only while every hop of its route is held.
* `PaymentsAdvance`: `EveryStepAdvances`, about steps. Each critical section lowers
  its own payment's `StepsLeft`, a natural number that starts at 4 L + 2 for a
  route of L hops, and no other payment's. This is the safety half of
  `EveryPaymentReports`: no task can go round for ever. That a task which can take
  a step does take it is fairness and stays with TLC.
* `InterceptorsTellHtlcsApart`: `EventsAgree`, assuming `RoutesFollowChannels`: a
  hop leads to the other end of its channel, as in every route that pathfinding
  returns. The assumption is needed. `send_to_route` takes any route, and if a
  hop names the sender as the next node, the sender's own HTLC and one that
  comes back over the channel can carry the same node, channel and index.
* `NetworkImplementsContract`: `ChannelsKeepContract`, the refinement. The initial
  channels are the contract's, and every step is a step of the contract of one
  channel and leaves the others alone.

The inductive invariant is `NetworkInv`: every channel has `SidesInv`
(`ChannelsInv`), a task's locals are those of its route at its hop (`TasksInv`),
ownership, and facts about the events (`EventsInv`): an event's index is below the
counter of its channel's side, and on a side an index is one hop's. What
an action does to the channels is one of three things: nothing (`Quiet`), one
hop's addition (`Adds`) or one hop's removal (`Removes`). `StepKind` shows this
once, and each part of the invariant is then shown for the three kinds instead
of for every action. Ownership is the part that cannot stand alone:
that a removal finds its HTLC needs ownership, that the HTLC is of the hop's
amount needs the locals, and that an addition harms no other task needs that the
channel refuses a hash it has.

The books need two things more. `OutcomesInv` says that the outcome to be reported
is a success exactly when the task settles, and that it is open exactly while the
task still adds; `OutcomeStep` then gives that a success is decided only when all
hops are held (`Decides`), so that at the moment of the decision no hop counts as
settled that was not (`HopsAfterStep`). An addition moves one amount from the
balance to the hops held, a removal from the hops held to the settled ones or
back to the balance (`AddsKeepLedger`, `RemovesKeepLedger`), with the sums of
`ChannelLemmas` over the hops of all payments. For `StepsLeft` the actions are
reduced to the moves of a task's program counter and hop (`TaskMoves`).

`PipelineProofs` proves `TypeOK`, `EachPaymentOnce`, `FileFollowsReports` and
`NobodyWaitsInACircle` of ResultsPipeline for any payments, channel capacity and batch size
(`PipelineTyped`, `PaymentsOnce`, `FileKeepsUp`, `PipelineNeverStuck`). `EachPaymentOnce` counts copies in
five places. The invariant says it by places: no sequence has a payment twice
and no payment is in two places (`OnceInv`), which every hand-over from one place
to the next preserves. That none is lost needs `CalmInv`: before a shutdown
the consumer ends only when nobody can send to it any more. `FileInv` ties the
writer's counter to its buffer.

`PipelineNeverStuck` is `NobodyWaitsInACircle`, for channels of any size: deadlock
freedom stated with the guards of the tasks' steps, as `ENABLED` is outside of the
prover's reach. A sender waits for a full output channel, which the results
producer empties; that one and the trackers wait for a full results channel, which
the consumer empties; and the consumer waits only for those that can still send
(`OutputMoves`, `ResultsMove`). The invariant is `ClosedInv`: a channel whose receiver
has gone holds nothing.

`ProducerProofs` proves `TypeOK`, `Punctual` and `ActivityHonoured` of
PaymentProducer for any number of activities, any waits, any length of a second
and any overshoot (`ProducerTyped`, `ProducerPunctual`, `CountsHonoured`). The
invariant behind punctuality is `OnTime`: no event in the heap is overdue by more
than half a second and one overshoot, and when the task's sleep ends none will be
overdue by more than half a second. A sleep is for the earliest event and is
rounded by half a second at most (`Rounded`), so no event is overdue at its end by
more than that; an event that is overdue already is not slept for; and whatever is
pushed is due when it is pushed or later. Delays therefore do not add up.
`CountsHonoured` assumes that no two activities have one source
(`DistinctSources`): with two it is false, as `producer_shared` shows. Its
invariant `CountInv` says that a tracker is ahead of the payments sent by the one
that is being slept for.

`InterceptorProofs` proves `VerdictIsUnanimous` and `ReturnsLast` of Interceptors for
any number of interceptors and any records (`VerdictUnanimous`,
`HandlerReturnsLast`). The verdict is given in one step and made up over all of
them; the invariant `SoFar` says what holds of the answers joined so far: each was
a proceed or a failure, a failure is remembered, and the attached records
agree with those of every proceed.

`NodeProofs` proves `HashesInUseDiffer` and `ResultsAreOwn` of SimNode for any
number of calls and any hashes (`HashesDiffer`, `TrackedResultsAreOwn`). The
invariant has the agreement of a call's own variables (`CallInv`) and when the map
has its entry (`EntryInv`): from the insertion until it is tracked, and nothing
under its hash while it is waited for. The proof shows that the exclusion of two
payments of one hash rests on the lock that `track_payment` keeps: the same lock
that `sim_node_held` shows to hold up other payments. A version that unlocks
earlier has to keep the hash in the map until the payment is over. `LockHolderServed`
(`HolderIsServed`) adds why keeping the lock is no deadlock: its holder waits for
the network's task of its own payment, which runs or has reported and needs no
lock of the node.

`NodeProofs` also proves `LockDiscipline` and `ResultsAreTrue` of RpcNode for every
set of payments (`LockIsDisciplined`, `RpcResultsAreTrue`). `ResultsAreTrue` says
of every result what it tells: `Success` and the reasons for a failure what the
node did, a hash, `InvalidPaymentHash`, `Unknown` and `TrackPaymentError` that the node
has the payment, and the other two errors of `send_payment` nothing, as the request
may have failed before or after the node acted on it. The invariant is the two, the
types, and two facts that carry a call from one step to the next: a call waits
for a lock only if there is one, and between eclair's two requests the node has
the payment. Every exit of a call goes through `RpcReturn`, and every
other step through `Goto`, so that two lemmas (`ReturnRpcInv`, `GotoRpcInv`) do the
work and the backends' steps are shown to be instances of them.

`SetupProofs` proves `EveryDrawSucceeds` and `NothingLeftRunning` of
SimulationSetup for every set of configurations and every `MaxU64`
(`RandomActivityDraws`, `FailedRunStops`). The first needs an argument: if the
product in `validate_capacity` wraps, the validation of a node shows nothing. But
then no amount can be drawn at all, and every executor draws one before the
simulation runs; a successful draw shows that the product has not wrapped
(`OneDrawShowsAll`), and then the validation of every node shows that all other
draws succeed. The invariant `DrawInv` says that every node of the view was
validated and that every executor past its first event has drawn.

It also proves `ActivitiesAsNamed` and `RunIsSound` (`ActivitiesNamed`,
`RunsAreSound`), from `SetupInv`, which says what each phase leaves to the next:
what was validated (`ConfigInv`), that a client answers for the node it is kept
under and is of the kind the file asks for (`ClientsInv`), that the maps of names
are keyed by public key (`KeysInv`), that a node of the view is ours and has half
its open capacity (`ActiveInv`), and where kits come from (`KitsInv`). The half is
rounded down: an earlier form of `RunIsSound` said that twice the capacity is the
sum, which held for the configurations of `MCSetup` and was refuted by the proof
attempt.

Assumptions: `NetworkAssumption` and `GraphAssumption` (types of the constants, a
finite number of payments, and that every channel was validated), `PipelineAssumption`, `ProducerAssumption`,
`ConfigAssumption` and `NodeAssumption` (types of the constants; executors come
sorted by source and a node is of one of the four kinds), `RecordAssumption` and
`PaymentAssumption` (a value that is no record or payment) and `MaxU64Assumption`. Two
theorems have a hypothesis of their own, `RoutesFollowChannels` and
`DistinctSources`, which the constants of the runs `network` and `producer`
satisfy.

Every invariant and every action property of the passing runs is proved. Only
model-checked are the liveness properties, `EveryPaymentReports`, `StopEndsCall`,
`ShutdownEndsRun`, `ProducedIsReported`, `CountedEnds`, `CallsReturn`,
`ShutdownEndsCalls` and `PollingServesAll`: fairness and `ENABLED` are outside of the
prover's reach. `EveryStepAdvances`, `NobodyWaitsInACircle` and `HolderIsServed` are what
can be proved towards the first, the third and fourth, and the sixth of them.
The type invariants of PaymentNetwork, Interceptors, SimNode, RpcNode and
ResultsPipeline, and `HolderIsServed`, are proved and not checked by a run.

## Not modelled

* LDK's pathfinding and scorer: external. Routes are constants, and SimNode
  records what the scorer is told.
* The RPC servers: external; requests fail or are answered at any time.
* Random activity's distributions: floating point and probability. That
  `choose_destination` ends needs probability as well; `EveryDrawSucceeds` shows
  that there is something to draw.
* The text of configuration files, TLS and credentials, serializers, logging.
* A sum of capacities that is no u64: the setup is followed up to it.
* The virtual-time runtime, a configuration of tokio.
* Branches that cannot be reached: a missing node in the results producer, a
  tracked payment without a hash, a route with one path and no first path.

## Plan

Done: the modules, runs and proofs above, in this order: channel, network,
interceptors, pipeline, producer, node, RPC nodes, setup.

Left, if the project is extended: compose SimNode with the reports of
PaymentNetwork, and PaymentProducer as the producer of ResultsPipeline, and prove
the steps of such compositions from the invariants above. What each part assumes
of the other is stated and shown on its own side now: SimNode that the network
reports (`EveryPaymentReports`, `OutcomeIsFinal`), ResultsPipeline that calls return on a
shutdown (`ShutdownEndsCalls`).
