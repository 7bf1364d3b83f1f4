----------------------------- MODULE NetworkProofs -----------------------------
(***************************************************************************)
(* Proofs about PaymentNetwork, for every graph SimGraph::new accepts and  *)
(* every set of payments: what interleaved payments do to the channels, to *)
(* the HTLCs in flight and to the events the interceptors are sent.        *)
(*                                                                         *)
(* Seen from outside a task's locals there are three kinds of steps: one   *)
(* adds the HTLC of a hop, one removes it, and every other step leaves     *)
(* channels and events alone.  The tasks' locals are treated first         *)
(* (TaskStepTyped), then every step is shown to be of one of the three     *)
(* kinds (StepKind), and the invariants of the channels, of the HTLCs and  *)
(* of the events, the books and the refinement of ChannelContract are      *)
(* shown for a step of each kind.                                          *)
(***************************************************************************)
EXTENDS PaymentNetwork, ChannelLemmas

\* Every channel keeps the invariant of ChannelLemmas.
ChannelsInv ==
    /\ channels = [s \in Scid |-> channels[s]]
    /\ \A s \in Scid : SidesInv(Channel[s], channels[s], Hash)

(***************************************************************************)
(* The locals of a task.  While it adds, they are those of the route's     *)
(* HTLC at its hop, and fail_idx is the last hop that has one; once it has *)
(* reported, what it leaves behind is the work of a critical error.        *)
(***************************************************************************)
TaskInv(p) ==
    /\ pc[p] = "idle" => fail_idx[p] = 0
    /\ pc[p] \in {"add", "intercept"} =>
          /\ hop[p] \in 1 .. LastHop(p)
          /\ outgoing_node[p] = IncomingNode(p, hop[p])
          /\ outgoing_amount[p] = Hops[p][hop[p]].amount
          /\ outgoing_cltv[p] = Hops[p][hop[p]].expiry
    /\ pc[p] = "add" => fail_idx[p] = hop[p] - 1
    /\ pc[p] = "intercept" => fail_idx[p] = hop[p]
    /\ pc[p] \in {"remove", "notify"} => hop[p] \in 1 .. LastHop(p)
    /\ pc[p] \in {"report", "done"} =>
          /\ hop[p] \in 0 .. LastHop(p)
          /\ hop[p] > 0 => error[p] \in CriticalError
    /\ error[p] \in CriticalError => shutdown

TasksTyped ==
    /\ shutdown \in BOOLEAN
    /\ pc \in [Payment -> {"idle", "dropped", "add", "intercept", "remove",
                           "notify", "report", "done"}]
    /\ hop \in [Payment -> Nat]
    /\ outgoing_node \in [Payment -> Node]
    /\ outgoing_amount \in [Payment -> Nat]
    /\ outgoing_cltv \in [Payment -> Nat]
    /\ fail_idx \in [Payment -> Nat]
    /\ success \in [Payment -> BOOLEAN]
    /\ error \in [Payment -> {"Ok"} \cup ForwardingError \cup CriticalError]
    /\ outcome \in [Payment -> PaymentOutcome]

TasksInv == TasksTyped /\ \A p \in Payment : TaskInv(p)

-----------------------------------------------------------------------------
Events == intercepted \cup resolved

HopChannel(p, i) == Hops[p][i].short_channel_id

\* The HTLC that hop i of p has in flight.
HeldHtlc(p, i) ==
    channels[HopChannel(p, i)][IncomingNode(p, i)].in_flight[PaymentHash[p]]

\* Two hops whose HTLCs are numbered by the same side of the same channel.
SameSide(p, i, q, j) ==
    HopChannel(p, i) = HopChannel(q, j) /\ IncomingNode(p, i) = IncomingNode(q, j)

\* An event names a hop of the network and an index its side has given out.
EventTyped(e) ==
    /\ e.payment \in Payment
    /\ e.hop \in 1 .. LastHop(e.payment)
    /\ e.index \in Nat
    /\ e = HtlcEvent(e.payment, e.hop, e.index)
    /\ e.channel_id \in Scid
    /\ IncomingNode(e.payment, e.hop) \in Ends(Channel[e.channel_id])
    /\ e.index < channels[e.channel_id][IncomingNode(e.payment, e.hop)].index

\* The hops on which p may have offered an HTLC so far.
Offered(p) ==
    CASE pc[p] = "idle"      -> {}
      [] pc[p] = "add"       -> 1 .. hop[p] - 1
      [] pc[p] = "intercept" -> 1 .. hop[p]
      [] OTHER               -> 1 .. LastHop(p)

\* A task sends no event about a hop before it has added the HTLC there.
EventAfterAdd(e) == e.hop \in Offered(e.payment)

\* On one side, an event has the index of an HTLC in flight exactly when it
\* is about that HTLC.
EventsOfHeld ==
    \A e \in Events : \A p \in Payment : \A i \in Held(p) :
        SameSide(e.payment, e.hop, p, i) =>
            (e.index = HeldHtlc(p, i).index <=> (e.payment = p /\ e.hop = i))

\* On one side, two events have the same index exactly when they are about
\* the same hop of the same payment.
EventsOfSide ==
    \A e, f \in Events :
        SameSide(e.payment, e.hop, f.payment, f.hop) =>
            (e.index = f.index <=> (e.payment = f.payment /\ e.hop = f.hop))

EventsInv ==
    /\ \A e \in Events : EventTyped(e) /\ EventAfterAdd(e)
    /\ EventsOfHeld
    /\ EventsOfSide

NetworkInv == ChannelsInv /\ TasksInv /\ HtlcOwnership /\ EventsInv

-----------------------------------------------------------------------------
(* Routes and tasks.                                                       *)

\* The HTLC that hop i of p asks for.
RouteHtlc(p, i) ==
    [amount_msat |-> Hops[p][i].amount, cltv_expiry |-> Hops[p][i].expiry]

\* SimGraph::new has accepted every channel.
LEMMA ChannelsValid == \A s \in Scid : ValidChannel(Channel[s])
BY NetworkAssumption, GraphAssumption DEF ValidChannel

(* The hops of a route are typed, and taking the fee and the delta of a    *)
(* hop off its amount and expiry gives those of the next one.              *)
LEMMA RouteFacts ==
    ASSUME NEW p \in Payment
    PROVE  /\ LastHop(p) \in Nat
           /\ 1 \in 1 .. LastHop(p)
           /\ Source[p] \in Node
           /\ PaymentHash[p] \in Hash
           /\ \A i \in 1 .. LastHop(p) :
                 /\ Hops[p][i].amount \in Msat
                 /\ Hops[p][i].amount \in Nat
                 /\ Hops[p][i].expiry \in Height
                 /\ Hops[p][i].expiry \in Nat
                 /\ Hops[p][i].pubkey \in Node
                 /\ IncomingNode(p, i) \in Node
                 /\ RouteHtlc(p, i) \in Htlc
           /\ \A i \in 1 .. LastHop(p) : i # LastHop(p) =>
                 /\ i + 1 \in 1 .. LastHop(p)
                 /\ IncomingNode(p, i + 1) = Hops[p][i].pubkey
                 /\ Hops[p][i].amount - fee_msat(p, i) = Hops[p][i + 1].amount
                 /\ Hops[p][i].expiry - cltv_expiry_delta(p, i) = Hops[p][i + 1].expiry
<1>1. /\ LastHop(p) \in Nat
      /\ LastHop(p) # 0
      /\ Source[p] \in Node
      /\ PaymentHash[p] \in Hash
      /\ Msat \subseteq Nat
      /\ Height \subseteq Nat
  BY NetworkAssumption DEF LastHop
<1>2. \A i \in 1 .. LastHop(p) :
         /\ Hops[p][i].amount \in Msat
         /\ Hops[p][i].expiry \in Height
         /\ Hops[p][i].pubkey \in Node
  BY NetworkAssumption DEF RouteHop, LastHop
<1>3. \A i \in 1 .. LastHop(p) :
         /\ Hops[p][i].amount \in Nat
         /\ Hops[p][i].expiry \in Nat
         /\ RouteHtlc(p, i) \in Htlc
  BY <1>1, <1>2 DEF RouteHtlc, Htlc
<1>4. \A i \in 1 .. LastHop(p) : IncomingNode(p, i) \in Node
  BY <1>1, <1>2 DEF IncomingNode
<1>5. ASSUME NEW i \in 1 .. LastHop(p), i # LastHop(p)
      PROVE  /\ i + 1 \in 1 .. LastHop(p)
             /\ IncomingNode(p, i + 1) = Hops[p][i].pubkey
             /\ Hops[p][i].amount - fee_msat(p, i) = Hops[p][i + 1].amount
             /\ Hops[p][i].expiry - cltv_expiry_delta(p, i) = Hops[p][i + 1].expiry
  <2>1. i + 1 \in 1 .. LastHop(p) /\ i + 1 # 1 /\ (i + 1) - 1 = i
    BY <1>1, <1>5
  <2>2. IncomingNode(p, i + 1) = Hops[p][i].pubkey
    BY <2>1 DEF IncomingNode
  <2>3. /\ Hops[p][i].amount \in Nat /\ Hops[p][i + 1].amount \in Nat
        /\ Hops[p][i].expiry \in Nat /\ Hops[p][i + 1].expiry \in Nat
    BY <2>1, <1>3
  <2>4. QED
    BY <2>1, <2>2, <2>3, <1>5 DEF fee_msat, cltv_expiry_delta
<1>6. 1 \in 1 .. LastHop(p)
  BY <1>1
<1>7. QED
  BY <1>1, <1>2, <1>3, <1>4, <1>5, <1>6

\* The outcomes that are reported.
LEMMA OutcomeTyped ==
    /\ \A idx \in Nat : IndexFailure(idx) \in PaymentOutcome
    /\ \A k \in {"None", "Success", "Unknown"} :
          [kind |-> k, index |-> 0] \in PaymentOutcome
BY DEF IndexFailure, PaymentOutcome

\* No error is both a forwarding error and a critical one.
LEMMA ErrorKinds == ForwardingError \cap CriticalError = {}
BY DEF ForwardingError, CriticalError

\* A removal fails with a critical error only.
LEMMA RemoveErrorCritical ==
    ASSUME NEW p, RemoveError(p) # "Ok"
    PROVE  RemoveError(p) \in CriticalError
BY DEF RemoveError, remove_htlc_error, remove_outgoing_error, CriticalError

\* What a step of p does to the locals of the other tasks.
OthersKept(p) ==
    /\ shutdown => shutdown'
    /\ \A q \in Payment \ {p} :
          /\ pc'[q] = pc[q] /\ hop'[q] = hop[q]
          /\ outgoing_node'[q] = outgoing_node[q]
          /\ outgoing_amount'[q] = outgoing_amount[q]
          /\ outgoing_cltv'[q] = outgoing_cltv[q]
          /\ fail_idx'[q] = fail_idx[q] /\ error'[q] = error[q]

\* A task's facts survive the steps of the others.
LEMMA TasksFromOwn ==
    ASSUME NEW p \in Payment, TasksInv, TasksTyped', TaskInv(p)', OthersKept(p)
    PROVE  TasksInv'
<1> SUFFICES ASSUME NEW q \in Payment, q # p PROVE TaskInv(q)'
  BY DEF TasksInv
<1>1. TaskInv(q)
  BY DEF TasksInv
<1>2. /\ shutdown => shutdown'
      /\ pc'[q] = pc[q] /\ hop'[q] = hop[q]
      /\ outgoing_node'[q] = outgoing_node[q]
      /\ outgoing_amount'[q] = outgoing_amount[q]
      /\ outgoing_cltv'[q] = outgoing_cltv[q]
      /\ fail_idx'[q] = fail_idx[q] /\ error'[q] = error[q]
  BY DEF OthersKept
<1>3. QED
  BY <1>1, <1>2 DEF TaskInv, IncomingNode

\* The three ways in which add_htlcs ends keep the task's facts.
LEMMA EndsKeepTask ==
    ASSUME NEW p \in Payment, TasksInv, pc[p] \in {"add", "intercept"},
           fail_idx' \in [Payment -> Nat],
           \A q \in Payment \ {p} : fail_idx'[q] = fail_idx[q],
           \/ \E idx \in 0 .. LastHop(p), err \in ForwardingError : EndFailed(p, idx, err)
           \/ \E idx \in 0 .. LastHop(p), err \in CriticalError : EndCritical(p, idx, err)
           \/ EndAdded(p)
    PROVE  TasksInv'
<1>1. TasksTyped /\ TaskInv(p)
  BY DEF TasksInv
<1>2. LastHop(p) \in Nat /\ LastHop(p) >= 1
  BY RouteFacts
<1>3. ASSUME NEW idx \in 0 .. LastHop(p), NEW err \in ForwardingError, EndFailed(p, idx, err)
      PROVE  TasksInv'
  <2>1. IndexFailure(idx) \in PaymentOutcome /\ idx \in Nat /\ err \notin CriticalError
    BY <1>2, OutcomeTyped, ErrorKinds
  <2>2. TasksTyped'
    BY <1>1, <1>3, <2>1 DEF EndFailed, TasksTyped
  <2>3. TaskInv(p)'
    BY <1>1, <1>2, <1>3, <2>1 DEF EndFailed, TasksTyped, TaskInv
  <2>4. OthersKept(p)
    BY <1>1, <1>3 DEF EndFailed, TasksTyped, OthersKept
  <2>5. QED
    BY <2>2, <2>3, <2>4, TasksFromOwn
<1>4. ASSUME NEW idx \in 0 .. LastHop(p), NEW err \in CriticalError, EndCritical(p, idx, err)
      PROVE  TasksInv'
  <2>1. [kind |-> "Unknown", index |-> 0] \in PaymentOutcome /\ idx \in Nat
    BY <1>2, OutcomeTyped
  <2>2. TasksTyped'
    BY <1>1, <1>4, <2>1 DEF EndCritical, TasksTyped
  <2>3. TaskInv(p)'
    BY <1>1, <1>2, <1>4, <2>1 DEF EndCritical, TasksTyped, TaskInv
  <2>4. OthersKept(p)
    BY <1>1, <1>4 DEF EndCritical, TasksTyped, OthersKept
  <2>5. QED
    BY <2>2, <2>3, <2>4, TasksFromOwn
<1>5. CASE EndAdded(p)
  <2>1. [kind |-> "Success", index |-> 0] \in PaymentOutcome
    BY OutcomeTyped
  <2>2. TasksTyped'
    BY <1>1, <1>2, <1>5, <2>1 DEF EndAdded, TasksTyped
  <2>3. TaskInv(p)'
    BY <1>1, <1>2, <1>5 DEF EndAdded, TasksTyped, TaskInv
  <2>4. OthersKept(p)
    BY <1>1, <1>5 DEF EndAdded, TasksTyped, OthersKept
  <2>5. QED
    BY <2>2, <2>3, <2>4, TasksFromOwn
<1>6. QED
  BY <1>3, <1>4, <1>5

(***************************************************************************)
(* Every step keeps the locals of the tasks in order.                      *)
(***************************************************************************)
LEMMA TasksStep == TasksInv /\ [Next]_vars => TasksInv'
<1> SUFFICES ASSUME TasksInv, [Next]_vars PROVE TasksInv'
  OBVIOUS
<1>1. CASE UNCHANGED vars
  BY <1>1 DEF vars, taskVars, TasksInv, TasksTyped, TaskInv, IncomingNode
<1>2. ASSUME NEW p \in Payment, DispatchRefused(p) \/ Dispatch(p) \/ TaskStep(p)
      PROVE  TasksInv'
  <2>1. TasksTyped /\ TaskInv(p)
    BY DEF TasksInv
  <2>2. LastHop(p) \in Nat /\ LastHop(p) >= 1 /\ 1 \in 1 .. LastHop(p)
    BY RouteFacts
  <2>3. CASE DispatchRefused(p)
    <3>1. TasksTyped' /\ OthersKept(p)
      BY <2>1, <2>3 DEF DispatchRefused, TasksTyped, OthersKept
    <3>2. TaskInv(p)'
      BY <2>1, <2>3 DEF DispatchRefused, TasksTyped, TaskInv
    <3>3. QED
      BY <3>1, <3>2, TasksFromOwn
  <2>4. CASE Dispatch(p)
    <3>1. /\ Source[p] \in Node
          /\ Hops[p][1].amount \in Nat
          /\ Hops[p][1].expiry \in Nat
          /\ IncomingNode(p, 1) = Source[p]
      BY <2>2, RouteFacts DEF IncomingNode
    <3>2. TasksTyped' /\ OthersKept(p)
      BY <2>1, <2>4, <3>1 DEF Dispatch, TasksTyped, OthersKept
    <3>3. TaskInv(p)'
      <4>1. /\ pc'[p] = "add" /\ hop'[p] = 1
            /\ outgoing_node'[p] = Source[p]
            /\ outgoing_amount'[p] = Hops[p][1].amount
            /\ outgoing_cltv'[p] = Hops[p][1].expiry
            /\ fail_idx'[p] = 0
            /\ error'[p] = error[p] /\ shutdown' = shutdown
        BY <2>1, <2>4 DEF Dispatch, TasksTyped, TaskInv
      <4>2. QED
        BY <2>1, <2>2, <3>1, <4>1 DEF TaskInv, IncomingNode, LastHop
    <3>4. QED
      BY <3>2, <3>3, TasksFromOwn
  <2>5. CASE AddRefused(p)
    <3>1. fail_idx[p] \in 0 .. LastHop(p)
      BY <2>1, <2>2, <2>5 DEF AddRefused, TaskInv, TasksTyped
    <3>2. fail_idx' = fail_idx /\ pc[p] = "add"
      BY <2>5 DEF AddRefused
    <3>3. QED
      BY <2>1, <2>5, <3>1, <3>2, EndsKeepTask DEF AddRefused, TasksTyped
  <2>6. CASE AddThenRefused(p)
    <3>1. /\ pc[p] = "add"
          /\ hop[p] \in 0 .. LastHop(p)
          /\ fail_idx' = [fail_idx EXCEPT ![p] = hop[p]]
      BY <2>1, <2>2, <2>6 DEF AddThenRefused, AddHtlc, TaskInv, TasksTyped
    <3>2. /\ fail_idx' \in [Payment -> Nat]
          /\ fail_idx'[p] = hop[p]
          /\ \A q \in Payment \ {p} : fail_idx'[q] = fail_idx[q]
      BY <2>1, <3>1 DEF TasksTyped
    <3>3. QED
      BY <2>6, <3>1, <3>2, EndsKeepTask DEF AddThenRefused
  <2>7. CASE AddThenIntercept(p)
    <3>1. TasksTyped' /\ OthersKept(p)
      BY <2>1, <2>7 DEF AddThenIntercept, AddHtlc, TasksTyped, OthersKept
    <3>2. /\ pc[p] = "add" /\ pc'[p] = "intercept" /\ hop'[p] = hop[p]
          /\ outgoing_node'[p] = outgoing_node[p]
          /\ outgoing_amount'[p] = outgoing_amount[p]
          /\ outgoing_cltv'[p] = outgoing_cltv[p]
          /\ fail_idx'[p] = hop[p]
          /\ error'[p] = error[p] /\ shutdown' = shutdown
      BY <2>1, <2>7 DEF AddThenIntercept, AddHtlc, TasksTyped
    <3>3. TaskInv(p)'
      BY <2>1, <3>2 DEF TaskInv, IncomingNode
    <3>4. QED
      BY <3>1, <3>3, TasksFromOwn
  <2>8. CASE InterceptProceed(p)
    <3>1. pc[p] = "intercept" /\ fail_idx' = fail_idx
      BY <2>8 DEF InterceptProceed
    <3>2. CASE hop[p] = LastHop(p)
      BY <2>1, <2>8, <3>1, <3>2, EndsKeepTask DEF InterceptProceed, TasksTyped
    <3>3. CASE hop[p] # LastHop(p)
      <4>1. /\ hop[p] \in 1 .. LastHop(p)
            /\ outgoing_amount[p] = Hops[p][hop[p]].amount
            /\ outgoing_cltv[p] = Hops[p][hop[p]].expiry
            /\ fail_idx[p] = hop[p]
        BY <2>1, <3>1 DEF TaskInv
      <4>2. /\ hop[p] + 1 \in 1 .. LastHop(p)
            /\ IncomingNode(p, hop[p] + 1) = Hops[p][hop[p]].pubkey
            /\ Hops[p][hop[p]].pubkey \in Node
            /\ outgoing_amount[p] - fee_msat(p, hop[p]) = Hops[p][hop[p] + 1].amount
            /\ outgoing_cltv[p] - cltv_expiry_delta(p, hop[p]) = Hops[p][hop[p] + 1].expiry
        BY <3>3, <4>1, RouteFacts
      <4>3. /\ Hops[p][hop[p] + 1].amount \in Nat
            /\ Hops[p][hop[p] + 1].expiry \in Nat
        BY <4>2, RouteFacts
      <4>4. /\ pc' = [pc EXCEPT ![p] = "add"]
            /\ hop' = [hop EXCEPT ![p] = hop[p] + 1]
            /\ outgoing_node' = [outgoing_node EXCEPT ![p] = Hops[p][hop[p]].pubkey]
            /\ outgoing_amount' = [outgoing_amount EXCEPT ![p] = Hops[p][hop[p] + 1].amount]
            /\ outgoing_cltv' = [outgoing_cltv EXCEPT ![p] = Hops[p][hop[p] + 1].expiry]
            /\ UNCHANGED <<shutdown, success, error, outcome, fail_idx>>
        BY <2>8, <3>3, <4>2 DEF InterceptProceed
      <4>5. TasksTyped' /\ OthersKept(p)
        BY <2>1, <4>2, <4>3, <4>4 DEF TasksTyped, OthersKept
      <4>6. /\ pc'[p] = "add" /\ hop'[p] = hop[p] + 1
            /\ outgoing_node'[p] = IncomingNode(p, hop[p] + 1)
            /\ outgoing_amount'[p] = Hops[p][hop[p] + 1].amount
            /\ outgoing_cltv'[p] = Hops[p][hop[p] + 1].expiry
            /\ fail_idx'[p] = hop[p]
            /\ error'[p] = error[p] /\ shutdown' = shutdown
            /\ hop[p] \in Nat
        BY <2>1, <4>1, <4>2, <4>4 DEF TasksTyped
      <4>7. TaskInv(p)'
        BY <2>1, <4>2, <4>6 DEF TaskInv, IncomingNode, LastHop
      <4>8. QED
        BY <4>5, <4>7, TasksFromOwn
    <3>4. QED
      BY <3>2, <3>3
  <2>9. CASE InterceptFail(p)
    <3>1. pc[p] = "intercept" /\ fail_idx' = fail_idx /\ fail_idx[p] \in 0 .. LastHop(p)
      BY <2>1, <2>2, <2>9 DEF InterceptFail, TaskInv, TasksTyped
    <3>2. "InterceptorForwardingError" \in ForwardingError
      BY DEF ForwardingError
    <3>3. QED
      BY <2>1, <2>9, <3>1, <3>2, EndsKeepTask DEF InterceptFail, TasksTyped
  <2>10. CASE InterceptCritical(p)
    <3>1. pc[p] = "intercept" /\ fail_idx' = fail_idx /\ hop[p] \in 0 .. LastHop(p)
      BY <2>1, <2>2, <2>10 DEF InterceptCritical, TaskInv, TasksTyped
    <3>2. "InterceptorError" \in CriticalError
      BY DEF CriticalError
    <3>3. QED
      BY <2>1, <2>10, <3>1, <3>2, EndsKeepTask DEF InterceptCritical, TasksTyped
  <2>11. CASE Remove(p)
    <3>1. pc[p] = "remove" /\ hop[p] \in 1 .. LastHop(p)
      BY <2>1, <2>11 DEF Remove, TaskInv
    <3>2. CASE RemoveError(p) = "Ok"
      <4>1. TasksTyped' /\ OthersKept(p)
        BY <2>1, <2>11, <3>2 DEF Remove, TasksTyped, OthersKept
      <4>2. TaskInv(p)'
        BY <2>1, <2>11, <3>1, <3>2 DEF Remove, TasksTyped, TaskInv
      <4>3. QED
        BY <4>1, <4>2, TasksFromOwn
    <3>3. CASE RemoveError(p) # "Ok"
      <4>1. RemoveError(p) \in CriticalError
        BY <3>3, RemoveErrorCritical
      <4>2. /\ pc' = [pc EXCEPT ![p] = "report"]
            /\ shutdown' = TRUE
            /\ error' = [error EXCEPT ![p] = RemoveError(p)]
            /\ hop' = hop \/ hop' = [hop EXCEPT ![p] = hop[p] - 1]
            /\ UNCHANGED <<outgoing_node, outgoing_amount, outgoing_cltv, fail_idx,
                           success, outcome>>
        BY <2>11, <3>3 DEF Remove
      <4>3. TasksTyped' /\ OthersKept(p)
        BY <2>1, <2>2, <3>1, <4>1, <4>2 DEF TasksTyped, OthersKept
      <4>4. TaskInv(p)'
        BY <2>1, <2>2, <3>1, <4>1, <4>2 DEF TasksTyped, TaskInv
      <4>5. QED
        BY <4>3, <4>4, TasksFromOwn
    <3>4. QED
      BY <3>2, <3>3
  <2>12. CASE Notified(p)
    <3>1. pc[p] = "notify" /\ hop[p] \in 1 .. LastHop(p)
      BY <2>1, <2>12 DEF Notified, TaskInv
    <3>2. TasksTyped' /\ OthersKept(p)
      BY <2>1, <2>2, <2>12, <3>1 DEF Notified, TasksTyped, OthersKept
    <3>3. TaskInv(p)'
      BY <2>1, <2>2, <2>12, <3>1 DEF Notified, TasksTyped, TaskInv
    <3>4. QED
      BY <3>2, <3>3, TasksFromOwn
  <2>13. CASE NotifyFailed(p)
    <3>1. pc[p] = "notify" /\ hop[p] \in 1 .. LastHop(p) /\ "InterceptorError" \in CriticalError
      BY <2>1, <2>13 DEF NotifyFailed, TaskInv, CriticalError
    <3>2. TasksTyped' /\ OthersKept(p)
      BY <2>1, <2>2, <2>13, <3>1 DEF NotifyFailed, TasksTyped, OthersKept
    <3>3. TaskInv(p)'
      BY <2>1, <2>2, <2>13, <3>1 DEF NotifyFailed, TasksTyped, TaskInv
    <3>4. QED
      BY <3>2, <3>3, TasksFromOwn
  <2>14. CASE Report(p)
    <3>1. TasksTyped' /\ OthersKept(p)
      BY <2>1, <2>14 DEF Report, TasksTyped, OthersKept
    <3>2. TaskInv(p)'
      BY <2>1, <2>14 DEF Report, TasksTyped, TaskInv
    <3>3. QED
      BY <3>1, <3>2, TasksFromOwn
  <2>15. QED
    BY <1>2, <2>3, <2>4, <2>5, <2>6, <2>7, <2>8, <2>9, <2>10, <2>11, <2>12,
       <2>13, <2>14 DEF TaskStep
<1>3. QED
  BY <1>1, <1>2 DEF Next

-----------------------------------------------------------------------------
(* The three kinds of steps.                                               *)

\* A step that touches neither a channel nor the events.
Quiet ==
    /\ UNCHANGED <<channels, intercepted, resolved>>
    /\ \A q \in Payment : Held(q)' = Held(q) /\ Offered(q) \subseteq Offered(q)'

\* Task p adds the HTLC of hop i and may tell the interceptors.
Adds(p, i) ==
    LET s == HopChannel(p, i)
        n == IncomingNode(p, i)
    IN  /\ s \in Scid
        /\ add_htlc_error(Channel[s], channels[s], n, PaymentHash[p], RouteHtlc(p, i)) = "Ok"
        /\ channels' = [channels EXCEPT ![s] =
              add_htlc(Channel[s], channels[s], n, PaymentHash[p], RouteHtlc(p, i))]
        /\ i \notin Offered(p) /\ i \in Offered(p)'
        /\ i \notin Held(p) /\ Held(p)' = Held(p) \cup {i}
        /\ \/ Events' = Events
           \/ Events' = Events \cup {HtlcEvent(p, i, channels[s][n].index)}

\* Task p removes the HTLC of hop i, if it is there, and may tell them.
Removes(p, i) ==
    LET s == HopChannel(p, i)
        n == IncomingNode(p, i)
    IN  /\ remove_htlc_error(Channel[s], channels[s], n, PaymentHash[p], success[p])
              \in {"Ok", "SanityCheckFailed"}
        /\ channels' = [channels EXCEPT ![s] =
              remove_htlc(Channel[s], channels[s], n, PaymentHash[p], success[p])]
        /\ success[p] \in BOOLEAN
        /\ i \in Offered(p)'
        /\ i \in Held(p) /\ Held(p)' = Held(p) \ {i}
        /\ \/ Events' = Events
           \/ Events' = Events \cup {HtlcEvent(p, i, HeldHtlc(p, i).index)}

OthersHold(p) ==
    /\ \A q \in Payment \ {p} : Held(q)' = Held(q)
    /\ \A q \in Payment : Offered(q) \subseteq Offered(q)'

\* The hops a task holds are hops of its route.
LEMMA HeldInRoute ==
    ASSUME TasksInv, NEW p \in Payment
    PROVE  /\ Held(p) \subseteq 1 .. LastHop(p)
           /\ Offered(p) \subseteq 1 .. LastHop(p)
<1>1. LastHop(p) \in Nat
  BY RouteFacts
<1>2. /\ TaskInv(p)
      /\ hop[p] \in Nat
      /\ pc[p] \in {"idle", "dropped", "add", "intercept", "remove", "notify",
                    "report", "done"}
  BY DEF TasksInv, TasksTyped
<1>3. QED
  BY <1>1, <1>2 DEF TaskInv, Held, Offered

\* A step of p leaves what the other tasks hold.
LEMMA OthersHoldLemma ==
    ASSUME TasksInv, NEW p \in Payment, OthersKept(p), Offered(p) \subseteq Offered(p)'
    PROVE  OthersHold(p)
<1>1. \A q \in Payment \ {p} : pc'[q] = pc[q] /\ hop'[q] = hop[q]
  BY DEF OthersKept
<1>2. \A q \in Payment \ {p} : Held(q)' = Held(q) /\ Offered(q)' = Offered(q)
  BY <1>1 DEF Held, Offered, LastHop
<1>3. QED
  BY <1>2 DEF OthersHold

(***************************************************************************)
(* Every step of the network adds one HTLC, removes one, or is quiet.      *)
(***************************************************************************)
LEMMA StepKind ==
    ASSUME TasksInv, HtlcOwnership, [Next]_vars
    PROVE  \/ Quiet
           \/ \E p \in Payment : \E i \in 1 .. LastHop(p) :
                 (Adds(p, i) \/ Removes(p, i)) /\ OthersHold(p)
<1>1. CASE UNCHANGED vars
  BY <1>1 DEF vars, taskVars, Quiet, Held, Offered, LastHop
<1>2. ASSUME NEW p \in Payment, DispatchRefused(p) \/ Dispatch(p) \/ TaskStep(p)
      PROVE  \/ Quiet
             \/ \E i \in 1 .. LastHop(p) :
                   (Adds(p, i) \/ Removes(p, i)) /\ OthersHold(p)
  <2>1. /\ TasksTyped /\ TaskInv(p)
        /\ pc[p] \in {"idle", "dropped", "add", "intercept", "remove", "notify",
                      "report", "done"}
        /\ hop[p] \in Nat
    BY DEF TasksInv, TasksTyped
  <2>2. LastHop(p) \in Nat
    BY RouteFacts
  <2>3. ASSUME UNCHANGED <<channels, intercepted, resolved>>,
               OthersKept(p), Held(p)' = Held(p), Offered(p) \subseteq Offered(p)'
        PROVE  Quiet
    BY <2>3, OthersHoldLemma DEF Quiet, OthersHold
  <2>4. CASE DispatchRefused(p)
    <3>1. OthersKept(p) /\ UNCHANGED <<channels, intercepted, resolved>>
      BY <2>1, <2>4 DEF DispatchRefused, TasksTyped, OthersKept
    <3>2. pc[p] = "idle" /\ pc'[p] = "dropped"
      BY <2>1, <2>4 DEF DispatchRefused, TasksTyped
    <3>3. Held(p)' = Held(p) /\ Offered(p) \subseteq Offered(p)'
      BY <3>2 DEF Held, Offered
    <3>4. QED
      BY <2>3, <3>1, <3>3
  <2>5. CASE Dispatch(p)
    <3>1. OthersKept(p) /\ UNCHANGED <<channels, intercepted, resolved>>
      BY <2>1, <2>5 DEF Dispatch, TasksTyped, OthersKept
    <3>2. pc[p] = "idle" /\ pc'[p] = "add" /\ hop'[p] = 1
      BY <2>1, <2>5 DEF Dispatch, TasksTyped
    <3>3. Held(p)' = Held(p) /\ Offered(p) \subseteq Offered(p)'
      BY <3>2 DEF Held, Offered
    <3>4. QED
      BY <2>3, <3>1, <3>3
  <2>6. CASE AddRefused(p)
    <3>1. OthersKept(p) /\ UNCHANGED <<channels, intercepted, resolved>>
      BY <2>1, <2>6 DEF AddRefused, EndFailed, EndCritical, TasksTyped, OthersKept
    <3>2. /\ pc[p] = "add" /\ pc'[p] \in {"report", "remove"}
          /\ hop'[p] = hop[p] - 1
          /\ hop[p] \in 1 .. LastHop(p)
      BY <2>1, <2>6 DEF AddRefused, EndFailed, EndCritical, TasksTyped, TaskInv
    <3>3. Held(p)' = Held(p) /\ Offered(p) \subseteq Offered(p)'
      BY <2>1, <2>2, <3>2 DEF Held, Offered, LastHop
    <3>4. QED
      BY <2>3, <3>1, <3>3
  <2>7. CASE AddThenRefused(p) \/ AddThenIntercept(p)
    <3> DEFINE i == hop[p]
               s == HopChannel(p, i)
               n == IncomingNode(p, i)
    <3>1. /\ AddHtlc(p) /\ pc[p] = "add"
          /\ i \in 1 .. LastHop(p)
          /\ n = outgoing_node[p]
          /\ HopHtlc(p) = RouteHtlc(p, i)
      BY <2>1, <2>7 DEF AddThenRefused, AddThenIntercept, AddHtlc, TaskInv, HopHtlc, RouteHtlc
    <3>2. /\ s \in Scid
          /\ add_htlc_error(Channel[s], channels[s], n, PaymentHash[p], RouteHtlc(p, i)) = "Ok"
      <4>1. AddError(p) = "Ok"
        BY <3>1 DEF AddHtlc
      <4>2. QED
        BY <3>1, <4>1 DEF AddError, HopChannel
    <3>3. channels' = [channels EXCEPT ![s] =
             add_htlc(Channel[s], channels[s], n, PaymentHash[p], RouteHtlc(p, i))]
      BY <3>1 DEF AddHtlc, HopChannel
    <3>4. fail_idx' = [fail_idx EXCEPT ![p] = i]
      BY <3>1 DEF AddHtlc
    <3>5. /\ OthersKept(p)
          /\ pc'[p] \in {"report", "remove", "intercept"}
          /\ hop'[p] = hop[p]
      <4>1. CASE AddThenIntercept(p)
        BY <2>1, <3>4, <4>1 DEF AddThenIntercept, TasksTyped, OthersKept
      <4>2. CASE AddThenRefused(p)
        <5>1. fail_idx'[p] = hop[p]
          BY <2>1, <3>4 DEF TasksTyped
        <5>2. CASE EndFailed(p, fail_idx'[p], ForwardError(p))
          BY <2>1, <3>4, <5>1, <5>2 DEF EndFailed, TasksTyped, OthersKept
        <5>3. CASE EndCritical(p, hop[p], ForwardError(p))
          BY <2>1, <3>4, <5>3 DEF EndCritical, TasksTyped, OthersKept
        <5>4. QED
          BY <4>2, <5>2, <5>3 DEF AddThenRefused
      <4>3. QED
        BY <2>7, <4>1, <4>2
    <3>6. /\ i \notin Held(p) /\ Held(p)' = Held(p) \cup {i}
          /\ i \notin Offered(p) /\ i \in Offered(p)'
          /\ Offered(p) \subseteq Offered(p)'
      BY <2>1, <2>2, <3>1, <3>5 DEF Held, Offered, LastHop
    <3>7. \/ Events' = Events
          \/ Events' = Events \cup {HtlcEvent(p, i, channels[s][n].index)}
      <4>1. CASE AddThenRefused(p)
        BY <4>1 DEF AddThenRefused, Events
      <4>2. CASE AddThenIntercept(p)
        BY <3>1, <4>2 DEF AddThenIntercept, Events, HopChannel
      <4>3. QED
        BY <2>7, <4>1, <4>2
    <3>8. Adds(p, i)
      BY <3>2, <3>3, <3>6, <3>7 DEF Adds
    <3>9. OthersHold(p)
      BY <3>5, <3>6, OthersHoldLemma
    <3>10. QED
      BY <3>1, <3>8, <3>9
  <2>8. CASE InterceptProceed(p)
    <3>1. OthersKept(p) /\ UNCHANGED <<channels, intercepted, resolved>>
      BY <2>1, <2>8 DEF InterceptProceed, EndAdded, TasksTyped, OthersKept
    <3>2. pc[p] = "intercept" /\ hop[p] \in 1 .. LastHop(p)
      BY <2>1, <2>8 DEF InterceptProceed, TaskInv
    <3>3. \/ pc'[p] = "remove" /\ hop'[p] = hop[p]
          \/ pc'[p] = "add" /\ hop'[p] = hop[p] + 1
      BY <2>1, <2>8 DEF InterceptProceed, EndAdded, TasksTyped
    <3>4. Held(p)' = Held(p) /\ Offered(p) \subseteq Offered(p)'
      BY <2>1, <2>2, <3>2, <3>3 DEF Held, Offered, LastHop
    <3>5. QED
      BY <2>3, <3>1, <3>4
  <2>9. CASE InterceptFail(p) \/ InterceptCritical(p)
    <3>1. OthersKept(p) /\ UNCHANGED <<channels, intercepted, resolved>>
      BY <2>1, <2>9 DEF InterceptFail, InterceptCritical, EndFailed, EndCritical,
                        TasksTyped, OthersKept
    <3>2. /\ pc[p] = "intercept" /\ hop[p] \in 1 .. LastHop(p)
          /\ pc'[p] \in {"report", "remove"} /\ hop'[p] = hop[p]
      BY <2>1, <2>9 DEF InterceptFail, InterceptCritical, EndFailed, EndCritical,
                        TasksTyped, TaskInv
    <3>3. Held(p)' = Held(p) /\ Offered(p) \subseteq Offered(p)'
      BY <2>1, <2>2, <3>2 DEF Held, Offered, LastHop
    <3>4. QED
      BY <2>3, <3>1, <3>3
  <2>10. CASE Remove(p)
    <3> DEFINE i == hop[p]
               s == HopChannel(p, i)
               n == IncomingNode(p, i)
    <3>1. pc[p] = "remove" /\ i \in 1 .. LastHop(p) /\ i \in Held(p) /\ success[p] \in BOOLEAN
      BY <2>1, <2>10 DEF Remove, TaskInv, Held, TasksTyped
    <3>2. /\ s \in Scid /\ n \in Ends(Channel[s])
          /\ PaymentHash[p] \in DOMAIN channels[s][n].in_flight
      BY <3>1 DEF HtlcOwnership, HopChannel
    <3>3. /\ RemoveError(p) = remove_htlc_error(Channel[s], channels[s], n,
                                                PaymentHash[p], success[p])
          /\ RemoveError(p) \in {"Ok", "SanityCheckFailed"}
      BY <3>2 DEF RemoveError, remove_htlc_error, remove_outgoing_error, HopChannel
    <3>4. RemoveHtlc(p)
      BY <2>10, <3>3 DEF Remove
    <3>5. channels' = [channels EXCEPT ![s] =
             remove_htlc(Channel[s], channels[s], n, PaymentHash[p], success[p])]
      BY <3>4 DEF RemoveHtlc, HopChannel
    <3>6. /\ OthersKept(p)
          /\ \/ pc'[p] = "notify" /\ hop'[p] = hop[p]
             \/ pc'[p] = "report" /\ hop'[p] = hop[p] - 1
      BY <2>1, <2>10, <3>3 DEF Remove, TasksTyped, OthersKept
    <3>7. /\ Held(p)' = Held(p) \ {i}
          /\ i \in Offered(p)'
          /\ Offered(p) \subseteq Offered(p)'
      BY <2>1, <2>2, <3>1, <3>6 DEF Held, Offered, LastHop
    <3>8. \/ Events' = Events
          \/ Events' = Events \cup {HtlcEvent(p, i, HeldHtlc(p, i).index)}
      BY <2>10 DEF Remove, Events, HeldHtlc, HopChannel
    <3>9. Removes(p, i)
      BY <3>1, <3>3, <3>5, <3>7, <3>8 DEF Removes
    <3>10. OthersHold(p)
      BY <3>6, <3>7, OthersHoldLemma
    <3>11. QED
      BY <3>1, <3>9, <3>10
  <2>11. CASE Notified(p) \/ NotifyFailed(p)
    <3>1. OthersKept(p) /\ UNCHANGED <<channels, intercepted, resolved>>
      BY <2>1, <2>11 DEF Notified, NotifyFailed, TasksTyped, OthersKept
    <3>2. /\ pc[p] = "notify" /\ hop[p] \in 1 .. LastHop(p)
          /\ pc'[p] \in {"report", "remove"} /\ hop'[p] = hop[p] - 1
      BY <2>1, <2>11 DEF Notified, NotifyFailed, TasksTyped, TaskInv
    <3>3. Held(p)' = Held(p) /\ Offered(p) \subseteq Offered(p)'
      BY <2>1, <2>2, <3>2 DEF Held, Offered, LastHop
    <3>4. QED
      BY <2>3, <3>1, <3>3
  <2>12. CASE Report(p)
    <3>1. OthersKept(p) /\ UNCHANGED <<channels, intercepted, resolved>>
      BY <2>1, <2>12 DEF Report, TasksTyped, OthersKept
    <3>2. pc[p] = "report" /\ pc'[p] = "done" /\ hop'[p] = hop[p]
      BY <2>1, <2>12 DEF Report, TasksTyped
    <3>3. Held(p)' = Held(p) /\ Offered(p) \subseteq Offered(p)'
      BY <2>1, <3>2 DEF Held, Offered, LastHop
    <3>4. QED
      BY <2>3, <3>1, <3>3
  <2>13. QED
    BY <1>2, <2>4, <2>5, <2>6, <2>7, <2>8, <2>9, <2>10, <2>11, <2>12 DEF TaskStep
<1>3. QED
  BY <1>1, <1>2 DEF Next

-----------------------------------------------------------------------------
(* What a step of each kind does to the sides of the channels.             *)

\* Everything but what side n of channel s has in flight is as it was.
OtherSidesKept(s, n) ==
    \A t \in Scid : \A m \in Ends(Channel[t]) :
        t # s \/ m # n => /\ channels'[t][m].in_flight = channels[t][m].in_flight
                          /\ channels'[t][m].index = channels[t][m].index

\* An addition is the channel's own operation: one HTLC more in the direction
\* of the hop, under the payment's hash, and the next index.
LEMMA AddsEffect ==
    ASSUME ChannelsInv, NEW p \in Payment, NEW i \in 1 .. LastHop(p), Adds(p, i)
    PROVE  LET s == HopChannel(p, i)
               n == IncomingNode(p, i)
               h == PaymentHash[p]
           IN  /\ s \in Scid /\ n \in Ends(Channel[s])
               /\ h \notin DOMAIN channels[s][n].in_flight
               /\ OtherSidesKept(s, n)
               /\ DOMAIN channels'[s][n].in_flight = DOMAIN channels[s][n].in_flight \cup {h}
               /\ channels'[s][n].in_flight[h].amount_msat = Hops[p][i].amount
               /\ channels'[s][n].in_flight[h].index = channels[s][n].index
               /\ \A g \in DOMAIN channels[s][n].in_flight :
                     channels'[s][n].in_flight[g] = channels[s][n].in_flight[g]
               /\ channels'[s][n].index = channels[s][n].index + 1
               /\ ChannelsInv'
<1> DEFINE s   == HopChannel(p, i)
           n   == IncomingNode(p, i)
           h   == PaymentHash[p]
           new == add_htlc(Channel[s], channels[s], n, h, RouteHtlc(p, i))
<1>1. /\ s \in Scid
      /\ add_htlc_error(Channel[s], channels[s], n, h, RouteHtlc(p, i)) = "Ok"
      /\ channels' = [channels EXCEPT ![s] = new]
  BY DEF Adds
<1>2. n \in Ends(Channel[s]) /\ h \notin DOMAIN channels[s][n].in_flight
  BY <1>1, AddChecks
<1>3. /\ SidesInv(Channel[s], channels[s], Hash)
      /\ SidesTyped(Channel[s], channels[s], Hash)
      /\ DOMAIN channels = Scid
  BY <1>1 DEF ChannelsInv, SidesInv
<1>4. channels'[s] = new /\ \A t \in Scid : t # s => channels'[t] = channels[t]
  BY <1>1, <1>3
<1>5. /\ \A m \in Ends(Channel[s]) : m # n => new[m] = channels[s][m]
      /\ DOMAIN new[n].in_flight = DOMAIN channels[s][n].in_flight \cup {h}
      /\ new[n].in_flight[h].amount_msat = RouteHtlc(p, i).amount_msat
      /\ new[n].in_flight[h].index = channels[s][n].index
      /\ \A g \in DOMAIN channels[s][n].in_flight :
            new[n].in_flight[g] = channels[s][n].in_flight[g]
      /\ new[n].index = channels[s][n].index + 1
  BY <1>2, <1>3, AddEffect
<1>6. h \in Hash /\ RouteHtlc(p, i) \in Htlc
  BY RouteFacts
<1>7. SidesInv(Channel[s], new, Hash)
  BY <1>1, <1>3, <1>6, ChannelsValid, AddPreserves
<1> HIDE DEF new, s, n, h
<1>8. OtherSidesKept(s, n)
  BY <1>4, <1>5 DEF OtherSidesKept
<1>9. ChannelsInv'
  <2>1. channels' = [t \in Scid |-> channels'[t]]
    BY <1>1, <1>3
  <2>2. \A t \in Scid : SidesInv(Channel[t], channels'[t], Hash)
    BY <1>4, <1>7 DEF ChannelsInv
  <2>3. QED
    BY <2>1, <2>2 DEF ChannelsInv
<1>10. RouteHtlc(p, i).amount_msat = Hops[p][i].amount
  BY DEF RouteHtlc
<1>11. QED
  BY <1>1, <1>2, <1>4, <1>5, <1>8, <1>9, <1>10 DEF s, n, h

\* A removal takes the HTLC of the hop out and nothing else.
LEMMA RemovesEffect ==
    ASSUME ChannelsInv, HtlcOwnership, NEW p \in Payment, NEW i \in 1 .. LastHop(p),
           Removes(p, i)
    PROVE  LET s == HopChannel(p, i)
               n == IncomingNode(p, i)
               h == PaymentHash[p]
           IN  /\ s \in Scid /\ n \in Ends(Channel[s])
               /\ h \in DOMAIN channels[s][n].in_flight
               /\ OtherSidesKept(s, n)
               /\ DOMAIN channels'[s][n].in_flight = DOMAIN channels[s][n].in_flight \ {h}
               /\ \A g \in DOMAIN channels[s][n].in_flight \ {h} :
                     channels'[s][n].in_flight[g] = channels[s][n].in_flight[g]
               /\ channels'[s][n].index = channels[s][n].index
               /\ ChannelsInv'
<1> DEFINE s   == HopChannel(p, i)
           n   == IncomingNode(p, i)
           h   == PaymentHash[p]
           new == remove_htlc(Channel[s], channels[s], n, h, success[p])
<1>1. /\ success[p] \in BOOLEAN
      /\ channels' = [channels EXCEPT ![s] = new]
      /\ i \in Held(p)
  BY DEF Removes
<1>2. s \in Scid /\ n \in Ends(Channel[s]) /\ h \in DOMAIN channels[s][n].in_flight
  BY <1>1 DEF HtlcOwnership, HopChannel
<1>3. /\ SidesInv(Channel[s], channels[s], Hash)
      /\ SidesTyped(Channel[s], channels[s], Hash)
      /\ DOMAIN channels = Scid
  BY <1>2 DEF ChannelsInv, SidesInv
<1>4. channels'[s] = new /\ \A t \in Scid : t # s => channels'[t] = channels[t]
  BY <1>1, <1>2, <1>3
<1>5. /\ \A m \in Ends(Channel[s]) :
            /\ new[m].index = channels[s][m].index
            /\ m # n => new[m].in_flight = channels[s][m].in_flight
      /\ DOMAIN new[n].in_flight = DOMAIN channels[s][n].in_flight \ {h}
      /\ \A g \in DOMAIN channels[s][n].in_flight \ {h} :
            new[n].in_flight[g] = channels[s][n].in_flight[g]
  BY <1>2, <1>3, RemoveEffect
<1>6. SidesInv(Channel[s], new, Hash)
  BY <1>1, <1>2, <1>3, ChannelsValid, RemovePreserves
<1> HIDE DEF new, s, n, h
<1>7. OtherSidesKept(s, n)
  BY <1>4, <1>5 DEF OtherSidesKept
<1>8. ChannelsInv'
  <2>1. channels' = [t \in Scid |-> channels'[t]]
    BY <1>1, <1>3
  <2>2. \A t \in Scid : SidesInv(Channel[t], channels'[t], Hash)
    BY <1>4, <1>6 DEF ChannelsInv
  <2>3. QED
    BY <2>1, <2>2 DEF ChannelsInv
<1>9. QED
  BY <1>1, <1>2, <1>4, <1>5, <1>7, <1>8 DEF s, n, h

-----------------------------------------------------------------------------
(* Ownership of the HTLCs in flight.                                       *)

\* The HTLC of a hop that is held is in flight, with the hop's amount.
LEMMA HeldFacts ==
    ASSUME HtlcOwnership, NEW q \in Payment, NEW j \in Held(q)
    PROVE  /\ HopChannel(q, j) \in Scid
           /\ IncomingNode(q, j) \in Ends(Channel[HopChannel(q, j)])
           /\ PaymentHash[q] \in DOMAIN channels[HopChannel(q, j)][IncomingNode(q, j)].in_flight
           /\ HeldHtlc(q, j).amount_msat = Hops[q][j].amount
BY DEF HtlcOwnership, HopChannel, HeldHtlc

\* A step that leaves the channels and what a task holds alone.
LEMMA QuietKeepsOwnership ==
    ASSUME HtlcOwnership, channels' = channels, \A q \in Payment : Held(q)' = Held(q)
    PROVE  HtlcOwnership'
<1>1. \A q \in Payment : \A j \in Held(q)' :
         /\ Hops[q][j].short_channel_id \in Scid
         /\ IncomingNode(q, j) \in Ends(Channel[Hops[q][j].short_channel_id])
         /\ PaymentHash[q] \in DOMAIN
               channels'[Hops[q][j].short_channel_id][IncomingNode(q, j)].in_flight
         /\ channels'[Hops[q][j].short_channel_id][IncomingNode(q, j)].in_flight
               [PaymentHash[q]].amount_msat = Hops[q][j].amount
  BY DEF HtlcOwnership
<1>2. \A q, r \in Payment : \A j \in Held(q)', k \in Held(r)' :
         HtlcKey(q, j) = HtlcKey(r, k) => q = r /\ j = k
  BY DEF HtlcOwnership
<1>3. \A t \in Scid : \A m \in Ends(Channel[t]) :
         \A g \in DOMAIN channels'[t][m].in_flight :
            \E q \in Payment : \E j \in Held(q)' : HtlcKey(q, j) = <<t, m, g>>
  BY DEF HtlcOwnership
<1>4. QED
  BY <1>1, <1>2, <1>3 DEF HtlcOwnership, HtlcKey, IncomingNode

\* An added HTLC belongs to the task that added it, as its place was free.
LEMMA AddsKeepOwnership ==
    ASSUME ChannelsInv, TasksInv, HtlcOwnership, NEW p \in Payment,
           NEW i \in 1 .. LastHop(p), Adds(p, i), OthersHold(p)
    PROVE  HtlcOwnership'
<1> DEFINE s == HopChannel(p, i)
           n == IncomingNode(p, i)
           h == PaymentHash[p]
<1>1. /\ s \in Scid /\ n \in Ends(Channel[s])
      /\ h \notin DOMAIN channels[s][n].in_flight
      /\ OtherSidesKept(s, n)
      /\ DOMAIN channels'[s][n].in_flight = DOMAIN channels[s][n].in_flight \cup {h}
      /\ channels'[s][n].in_flight[h].amount_msat = Hops[p][i].amount
      /\ \A g \in DOMAIN channels[s][n].in_flight :
            channels'[s][n].in_flight[g] = channels[s][n].in_flight[g]
  BY AddsEffect
<1>2. /\ Held(p)' = Held(p) \cup {i} /\ i \notin Held(p)
      /\ \A q \in Payment \ {p} : Held(q)' = Held(q)
  BY DEF Adds, OthersHold
<1>3. HtlcKey(p, i) = <<s, n, h>>
  BY DEF HtlcKey, HopChannel
\* What was in flight still is, unchanged.
<1>4. \A t \in Scid : \A m \in Ends(Channel[t]) :
         \A g \in DOMAIN channels[t][m].in_flight :
            /\ g \in DOMAIN channels'[t][m].in_flight
            /\ channels'[t][m].in_flight[g] = channels[t][m].in_flight[g]
  BY <1>1 DEF OtherSidesKept
\* No task holds the key of the new HTLC.
<1>5. \A q \in Payment : \A j \in Held(q) : HtlcKey(q, j) # <<s, n, h>>
  BY <1>1 DEF HtlcOwnership, HtlcKey
<1> HIDE DEF s, n, h
<1>6. \A q \in Payment : \A j \in Held(q)' : j \in Held(q) \/ (q = p /\ j = i)
  BY <1>2
<1>7. (\A q \in Payment : \A j \in Held(q) :
          LET t == Hops[q][j].short_channel_id
              m == IncomingNode(q, j)
          IN  /\ t \in Scid
              /\ m \in Ends(Channel[t])
              /\ PaymentHash[q] \in DOMAIN channels[t][m].in_flight
              /\ channels[t][m].in_flight[PaymentHash[q]].amount_msat = Hops[q][j].amount)'
  <2> SUFFICES ASSUME NEW q \in Payment, NEW j \in Held(q)'
               PROVE  LET t == Hops[q][j].short_channel_id
                          m == IncomingNode(q, j)
                      IN  /\ t \in Scid
                          /\ m \in Ends(Channel[t])
                          /\ PaymentHash[q] \in DOMAIN channels'[t][m].in_flight
                          /\ channels'[t][m].in_flight[PaymentHash[q]].amount_msat
                                = Hops[q][j].amount
    BY DEF IncomingNode
  <2>1. CASE j \in Held(q)
    <3>1. /\ HopChannel(q, j) \in Scid
          /\ IncomingNode(q, j) \in Ends(Channel[HopChannel(q, j)])
          /\ PaymentHash[q] \in DOMAIN channels[HopChannel(q, j)][IncomingNode(q, j)].in_flight
          /\ HeldHtlc(q, j).amount_msat = Hops[q][j].amount
      BY <2>1, HeldFacts
    <3>2. QED
      BY <3>1, <1>4 DEF HopChannel, HeldHtlc
  <2>2. CASE q = p /\ j = i
    BY <2>2, <1>1 DEF s, n, h, HopChannel
  <2>3. QED
    BY <2>1, <2>2, <1>6
<1>8. \A q, r \in Payment : \A j \in Held(q)', k \in Held(r)' :
         HtlcKey(q, j) = HtlcKey(r, k) => q = r /\ j = k
  <2> SUFFICES ASSUME NEW q \in Payment, NEW r \in Payment, NEW j \in Held(q)',
                      NEW k \in Held(r)', HtlcKey(q, j) = HtlcKey(r, k)
               PROVE  q = r /\ j = k
    OBVIOUS
  <2>1. CASE j \in Held(q) /\ k \in Held(r)
    BY <2>1 DEF HtlcOwnership
  <2>2. CASE q = p /\ j = i
    BY <2>2, <1>3, <1>5, <1>6
  <2>3. CASE r = p /\ k = i
    BY <2>3, <1>3, <1>5, <1>6
  <2>4. QED
    BY <2>1, <2>2, <2>3, <1>6
<1>9. \A t \in Scid : \A m \in Ends(Channel[t]) :
         \A g \in DOMAIN channels'[t][m].in_flight :
            \E q \in Payment : \E j \in Held(q)' : HtlcKey(q, j) = <<t, m, g>>
  <2> SUFFICES ASSUME NEW t \in Scid, NEW m \in Ends(Channel[t]),
                      NEW g \in DOMAIN channels'[t][m].in_flight
               PROVE  \E q \in Payment : \E j \in Held(q)' : HtlcKey(q, j) = <<t, m, g>>
    OBVIOUS
  <2>1. CASE g \in DOMAIN channels[t][m].in_flight
    <3>1. PICK q \in Payment : \E j \in Held(q) : HtlcKey(q, j) = <<t, m, g>>
      BY <2>1 DEF HtlcOwnership
    <3>2. QED
      BY <3>1, <1>2
  <2>2. CASE t = s /\ m = n /\ g = h
    BY <2>2, <1>2, <1>3
  <2>3. QED
    BY <2>1, <2>2, <1>1 DEF OtherSidesKept
<1>10. QED
  BY <1>7, <1>8, <1>9 DEF HtlcOwnership, HtlcKey, IncomingNode

\* A removed HTLC was the task's own, and was no other task's.
LEMMA RemovesKeepOwnership ==
    ASSUME ChannelsInv, TasksInv, HtlcOwnership, NEW p \in Payment,
           NEW i \in 1 .. LastHop(p), Removes(p, i), OthersHold(p)
    PROVE  HtlcOwnership'
<1> DEFINE s == HopChannel(p, i)
           n == IncomingNode(p, i)
           h == PaymentHash[p]
<1>1. /\ s \in Scid /\ n \in Ends(Channel[s])
      /\ OtherSidesKept(s, n)
      /\ DOMAIN channels'[s][n].in_flight = DOMAIN channels[s][n].in_flight \ {h}
      /\ \A g \in DOMAIN channels[s][n].in_flight \ {h} :
            channels'[s][n].in_flight[g] = channels[s][n].in_flight[g]
  BY RemovesEffect
<1>2. /\ Held(p)' = Held(p) \ {i} /\ i \in Held(p)
      /\ \A q \in Payment \ {p} : Held(q)' = Held(q)
  BY DEF Removes, OthersHold
<1>3. HtlcKey(p, i) = <<s, n, h>>
  BY DEF HtlcKey, HopChannel
<1>4. \A q \in Payment : \A j \in Held(q)' : j \in Held(q) /\ ~ (q = p /\ j = i)
  BY <1>2
\* What another hop holds is not the HTLC that goes.
<1>5. \A q \in Payment : \A j \in Held(q)' : HtlcKey(q, j) # <<s, n, h>>
  <2>1. \A q \in Payment : \A j \in Held(q) : HtlcKey(q, j) = HtlcKey(p, i) => q = p /\ j = i
    BY <1>2 DEF HtlcOwnership
  <2>2. QED
    BY <2>1, <1>3, <1>4
<1>6. \A t \in Scid : \A m \in Ends(Channel[t]) :
         \A g \in DOMAIN channels[t][m].in_flight : <<t, m, g>> # <<s, n, h>> =>
            /\ g \in DOMAIN channels'[t][m].in_flight
            /\ channels'[t][m].in_flight[g] = channels[t][m].in_flight[g]
  BY <1>1 DEF OtherSidesKept
<1>7. \A t \in Scid : \A m \in Ends(Channel[t]) :
         \A g \in DOMAIN channels'[t][m].in_flight :
            g \in DOMAIN channels[t][m].in_flight /\ <<t, m, g>> # <<s, n, h>>
  BY <1>1 DEF OtherSidesKept
<1> HIDE DEF s, n, h
<1>8. (\A q \in Payment : \A j \in Held(q) :
          LET t == Hops[q][j].short_channel_id
              m == IncomingNode(q, j)
          IN  /\ t \in Scid
              /\ m \in Ends(Channel[t])
              /\ PaymentHash[q] \in DOMAIN channels[t][m].in_flight
              /\ channels[t][m].in_flight[PaymentHash[q]].amount_msat = Hops[q][j].amount)'
  <2> SUFFICES ASSUME NEW q \in Payment, NEW j \in Held(q)'
               PROVE  LET t == Hops[q][j].short_channel_id
                          m == IncomingNode(q, j)
                      IN  /\ t \in Scid
                          /\ m \in Ends(Channel[t])
                          /\ PaymentHash[q] \in DOMAIN channels'[t][m].in_flight
                          /\ channels'[t][m].in_flight[PaymentHash[q]].amount_msat
                                = Hops[q][j].amount
    BY DEF IncomingNode
  <2>1. j \in Held(q) /\ HtlcKey(q, j) # <<s, n, h>>
    BY <1>4, <1>5
  <2>2. /\ HopChannel(q, j) \in Scid
        /\ IncomingNode(q, j) \in Ends(Channel[HopChannel(q, j)])
        /\ PaymentHash[q] \in DOMAIN channels[HopChannel(q, j)][IncomingNode(q, j)].in_flight
        /\ HeldHtlc(q, j).amount_msat = Hops[q][j].amount
    BY <2>1, HeldFacts
  <2>3. HtlcKey(q, j) = <<HopChannel(q, j), IncomingNode(q, j), PaymentHash[q]>>
    BY DEF HtlcKey, HopChannel
  <2>4. QED
    BY <2>1, <2>2, <2>3, <1>6 DEF HopChannel, HeldHtlc
<1>9. \A q, r \in Payment : \A j \in Held(q)', k \in Held(r)' :
         HtlcKey(q, j) = HtlcKey(r, k) => q = r /\ j = k
  BY <1>4 DEF HtlcOwnership
<1>10. \A t \in Scid : \A m \in Ends(Channel[t]) :
         \A g \in DOMAIN channels'[t][m].in_flight :
            \E q \in Payment : \E j \in Held(q)' : HtlcKey(q, j) = <<t, m, g>>
  <2> SUFFICES ASSUME NEW t \in Scid, NEW m \in Ends(Channel[t]),
                      NEW g \in DOMAIN channels'[t][m].in_flight
               PROVE  \E q \in Payment : \E j \in Held(q)' : HtlcKey(q, j) = <<t, m, g>>
    OBVIOUS
  <2>1. PICK q \in Payment : \E j \in Held(q) : HtlcKey(q, j) = <<t, m, g>>
    BY <1>7 DEF HtlcOwnership
  <2>2. PICK j \in Held(q) : HtlcKey(q, j) = <<t, m, g>>
    BY <2>1
  <2>3. ~ (q = p /\ j = i)
    BY <2>2, <1>3, <1>7
  <2>4. j \in Held(q)'
    BY <2>3, <1>2
  <2>5. QED
    BY <2>2, <2>4
<1>11. QED
  BY <1>8, <1>9, <1>10 DEF HtlcOwnership, HtlcKey, IncomingNode

-----------------------------------------------------------------------------
(* The events the interceptors are sent.                                   *)

\* The fields of an event.
LEMMA EventFields ==
    ASSUME NEW p, NEW i, NEW k
    PROVE  /\ HtlcEvent(p, i, k).payment = p
           /\ HtlcEvent(p, i, k).hop = i
           /\ HtlcEvent(p, i, k).index = k
           /\ HtlcEvent(p, i, k).channel_id = HopChannel(p, i)
           /\ HtlcEvent(p, i, k).forwarding_node = Hops[p][i].pubkey
BY DEF HtlcEvent, HopChannel

\* What a typed event says, with its channel named by its hop.
LEMMA EventFacts ==
    ASSUME NEW e, EventTyped(e)
    PROVE  LET s == HopChannel(e.payment, e.hop)
               n == IncomingNode(e.payment, e.hop)
           IN  /\ e.payment \in Payment /\ e.hop \in 1 .. LastHop(e.payment)
               /\ e.channel_id = s /\ s \in Scid /\ n \in Ends(Channel[s])
               /\ e.index \in Nat /\ e.index < channels[s][n].index
<1>1. e.channel_id = HopChannel(e.payment, e.hop)
  BY EventFields DEF EventTyped
<1>2. QED
  BY <1>1 DEF EventTyped

\* The index of an HTLC in flight is one its side has given out.
LEMMA IndexFacts ==
    ASSUME ChannelsInv, NEW s \in Scid, NEW n \in Ends(Channel[s])
    PROVE  /\ channels[s][n].index \in Nat
           /\ \A h \in DOMAIN channels[s][n].in_flight :
                 /\ channels[s][n].in_flight[h].index \in Nat
                 /\ channels[s][n].in_flight[h].index < channels[s][n].index
           /\ \A g, h \in DOMAIN channels[s][n].in_flight :
                 channels[s][n].in_flight[g].index = channels[s][n].in_flight[h].index
                    => g = h
<1>1. /\ SideTyped(channels[s][n], Hash)
      /\ IndexesDistinct(Channel[s], channels[s])
  BY DEF ChannelsInv, SidesInv, SidesTyped
<1>2. /\ channels[s][n].index \in Nat
      /\ \A h \in DOMAIN channels[s][n].in_flight :
            channels[s][n].in_flight[h].index \in Nat
  BY <1>1 DEF SideTyped, InFlightHtlc
<1>3. QED
  BY <1>1, <1>2 DEF IndexesDistinct

\* An event stays typed when no side takes an index back.
LEMMA EventStaysTyped ==
    ASSUME ChannelsInv, ChannelsInv', NEW e, EventTyped(e), EventAfterAdd(e),
           \A q \in Payment : Offered(q) \subseteq Offered(q)',
           \A t \in Scid : \A m \in Ends(Channel[t]) :
              channels[t][m].index <= channels'[t][m].index
    PROVE  EventTyped(e)' /\ EventAfterAdd(e)'
<1> DEFINE s == HopChannel(e.payment, e.hop)
           n == IncomingNode(e.payment, e.hop)
<1>1. /\ e.payment \in Payment /\ e.hop \in 1 .. LastHop(e.payment)
      /\ e.channel_id = s /\ s \in Scid /\ n \in Ends(Channel[s])
      /\ e.index \in Nat /\ e.index < channels[s][n].index
      /\ e = HtlcEvent(e.payment, e.hop, e.index)
  BY EventFacts DEF EventTyped
<1>2. channels[s][n].index \in Nat /\ channels'[s][n].index \in Nat
  <2>1. \A t \in Scid : \A m \in Ends(Channel[t]) : channels[t][m].index \in Nat
    BY IndexFacts
  <2>2. \A t \in Scid : \A m \in Ends(Channel[t]) : channels'[t][m].index \in Nat
    BY DEF ChannelsInv, SidesInv, SidesTyped, SideTyped
  <2>3. QED
    BY <1>1, <2>1, <2>2
<1>3. e.index < channels'[s][n].index
  BY <1>1, <1>2
<1>4. EventTyped(e)'
  BY <1>1, <1>3 DEF EventTyped, HtlcEvent, IncomingNode, LastHop
<1>5. EventAfterAdd(e)'
  BY <1>1 DEF EventAfterAdd
<1>6. QED
  BY <1>4, <1>5

\* A quiet step.
LEMMA QuietKeepsEvents ==
    ASSUME ChannelsInv, ChannelsInv', EventsInv, Quiet
    PROVE  EventsInv'
<1>1. /\ Events' = Events /\ channels' = channels
      /\ \A q \in Payment : Held(q)' = Held(q) /\ Offered(q) \subseteq Offered(q)'
  BY DEF Quiet, Events
<1>2. \A t \in Scid : \A m \in Ends(Channel[t]) :
         channels[t][m].index <= channels'[t][m].index
  BY <1>1, IndexFacts
<1>3. \A e \in Events' : EventTyped(e)' /\ EventAfterAdd(e)'
  BY <1>1, <1>2, EventStaysTyped DEF EventsInv
<1>4. EventsOfHeld'
  <2>1. \A p, i : HeldHtlc(p, i)' = HeldHtlc(p, i)
    BY <1>1 DEF HeldHtlc, HopChannel, IncomingNode
  <2>2. EventsOfHeld
    BY DEF EventsInv
  <2>3. QED
    BY <1>1, <2>1, <2>2 DEF EventsOfHeld, SameSide, HopChannel, IncomingNode
<1>5. EventsOfSide'
  BY <1>1 DEF EventsInv, EventsOfSide, SameSide, HopChannel, IncomingNode
<1>6. QED
  BY <1>3, <1>4, <1>5 DEF EventsInv

(***************************************************************************)
(* An addition: the new HTLC, and the event about it, get an index that is *)
(* above all those of its side.                                            *)
(***************************************************************************)
LEMMA AddsKeepEvents ==
    ASSUME ChannelsInv, ChannelsInv', TasksInv, HtlcOwnership, EventsInv,
           NEW p \in Payment, NEW i \in 1 .. LastHop(p), Adds(p, i), OthersHold(p)
    PROVE  EventsInv'
<1> DEFINE s == HopChannel(p, i)
           n == IncomingNode(p, i)
           h == PaymentHash[p]
<1>k. PICK k : k = channels[s][n].index
  OBVIOUS
<1>x. PICK x : x = HtlcEvent(p, i, k)
  OBVIOUS
<1>1. /\ s \in Scid /\ n \in Ends(Channel[s])
      /\ h \notin DOMAIN channels[s][n].in_flight
      /\ OtherSidesKept(s, n)
      /\ channels'[s][n].in_flight[h].index = k
      /\ \A g \in DOMAIN channels[s][n].in_flight :
            channels'[s][n].in_flight[g] = channels[s][n].in_flight[g]
      /\ channels'[s][n].index = k + 1
  BY <1>k, AddsEffect
<1>2. /\ Held(p)' = Held(p) \cup {i} /\ i \notin Held(p)
      /\ i \notin Offered(p) /\ i \in Offered(p)'
      /\ \A q \in Payment \ {p} : Held(q)' = Held(q)
      /\ \A q \in Payment : Offered(q) \subseteq Offered(q)'
      /\ Events' = Events \/ Events' = Events \cup {x}
  BY <1>k, <1>x DEF Adds, OthersHold
<1>3. k \in Nat
  BY <1>1, <1>k, IndexFacts
<1>4. x.payment = p /\ x.hop = i /\ x.index = k /\ x.channel_id = s
  BY <1>x, EventFields
<1>5. x = HtlcEvent(x.payment, x.hop, x.index)
  BY <1>4, <1>x
<1> HIDE DEF s, n, h
<1>6. \A t \in Scid : \A m \in Ends(Channel[t]) :
         channels[t][m].index <= channels'[t][m].index
  <2>1. \A t \in Scid : \A m \in Ends(Channel[t]) : channels[t][m].index \in Nat
    BY IndexFacts
  <2>2. QED
    BY <2>1, <1>1, <1>3, <1>k DEF OtherSidesKept
<1>7. \A e \in Events : EventTyped(e)' /\ EventAfterAdd(e)'
  BY <1>2, <1>6, EventStaysTyped DEF EventsInv
<1>8. EventTyped(x)' /\ EventAfterAdd(x)'
  <2>1. k < channels'[s][n].index
    BY <1>1, <1>3
  <2>2. EventTyped(x)'
    BY <1>1, <1>3, <1>4, <1>5, <2>1 DEF EventTyped, HtlcEvent, LastHop, IncomingNode, n
  <2>3. QED
    BY <2>2, <1>2, <1>4 DEF EventAfterAdd
\* An old event about the same side has a smaller index, and another hop.
<1>9. ASSUME NEW e \in Events, SameSide(e.payment, e.hop, p, i)
      PROVE  e.index # k /\ ~ (e.payment = p /\ e.hop = i)
  <2>1. EventTyped(e) /\ EventAfterAdd(e)
    BY DEF EventsInv
  <2>2. e.index \in Nat /\ e.index < channels[s][n].index
    BY <2>1, <1>9, EventFacts DEF SameSide, s, n
  <2>3. ~ (e.payment = p /\ e.hop = i)
    BY <2>1, <1>2 DEF EventAfterAdd
  <2>4. QED
    BY <2>2, <2>3, <1>3, <1>k
\* The HTLCs that were in flight keep their indexes, all below the new one.
<1>10. ASSUME NEW q \in Payment, NEW j \in Held(q)
       PROVE  /\ HeldHtlc(q, j)' = HeldHtlc(q, j)
              /\ SameSide(p, i, q, j) => HeldHtlc(q, j).index # k
  <2>1. /\ HopChannel(q, j) \in Scid
        /\ IncomingNode(q, j) \in Ends(Channel[HopChannel(q, j)])
        /\ PaymentHash[q] \in DOMAIN channels[HopChannel(q, j)][IncomingNode(q, j)].in_flight
    BY HeldFacts
  <2>2. HeldHtlc(q, j)' = HeldHtlc(q, j)
    <3>1. channels'[HopChannel(q, j)][IncomingNode(q, j)].in_flight[PaymentHash[q]]
            = channels[HopChannel(q, j)][IncomingNode(q, j)].in_flight[PaymentHash[q]]
      BY <2>1, <1>1 DEF OtherSidesKept
    <3>2. QED
      BY <3>1 DEF HeldHtlc, HopChannel, IncomingNode
  <2>3. SameSide(p, i, q, j) => HeldHtlc(q, j).index # k
    BY <2>1, <1>1, <1>3, <1>k, IndexFacts DEF SameSide, HeldHtlc, s, n
  <2>4. QED
    BY <2>2, <2>3
<1>11. HeldHtlc(p, i)'.index = k
  BY <1>1 DEF HeldHtlc, HopChannel, IncomingNode, s, n, h
<1>12. \A e \in Events' : e \in Events \/ e = x
  BY <1>2
<1>13. \A q \in Payment : \A j \in Held(q)' : j \in Held(q) \/ (q = p /\ j = i)
  BY <1>2
<1>14. EventsOfHeld /\ EventsOfSide
  BY DEF EventsInv
<1>15. ASSUME NEW e \in Events', NEW q \in Payment, NEW j \in Held(q)',
              SameSide(e.payment, e.hop, q, j)
       PROVE  e.index = HeldHtlc(q, j)'.index <=> (e.payment = q /\ e.hop = j)
  <2>1. CASE e \in Events /\ j \in Held(q)
    BY <2>1, <1>10, <1>14, <1>15 DEF EventsOfHeld
  <2>2. CASE e \in Events /\ q = p /\ j = i
    BY <2>2, <1>9, <1>11, <1>15
  <2>3. CASE e = x /\ j \in Held(q)
    BY <2>3, <1>2, <1>4, <1>10, <1>15
  <2>4. CASE e = x /\ q = p /\ j = i
    BY <2>4, <1>4, <1>11
  <2>5. QED
    BY <2>1, <2>2, <2>3, <2>4, <1>12, <1>13
<1>16. ASSUME NEW e \in Events', NEW f \in Events',
              SameSide(e.payment, e.hop, f.payment, f.hop)
       PROVE  e.index = f.index <=> (e.payment = f.payment /\ e.hop = f.hop)
  <2>1. CASE e \in Events /\ f \in Events
    BY <2>1, <1>14, <1>16 DEF EventsOfSide
  <2>2. CASE e \in Events /\ f = x
    BY <2>2, <1>4, <1>9, <1>16
  <2>3. CASE e = x /\ f \in Events
    <3>1. SameSide(f.payment, f.hop, p, i)
      BY <2>3, <1>4, <1>16 DEF SameSide
    <3>2. QED
      BY <2>3, <3>1, <1>4, <1>9
  <2>4. CASE e = x /\ f = x
    BY <2>4
  <2>5. QED
    BY <2>1, <2>2, <2>3, <2>4, <1>12
<1>17. EventsOfHeld'
  BY <1>15 DEF EventsOfHeld, SameSide, HopChannel, IncomingNode
<1>18. EventsOfSide'
  BY <1>16 DEF EventsOfSide, SameSide, HopChannel, IncomingNode
<1>19. QED
  BY <1>7, <1>8, <1>12, <1>17, <1>18 DEF EventsInv

(***************************************************************************)
(* A removal: the event about it has the index of the HTLC that went, so   *)
(* it agrees with the earlier events about that hop and with no other.     *)
(***************************************************************************)
LEMMA RemovesKeepEvents ==
    ASSUME ChannelsInv, ChannelsInv', TasksInv, HtlcOwnership, EventsInv,
           NEW p \in Payment, NEW i \in 1 .. LastHop(p), Removes(p, i), OthersHold(p)
    PROVE  EventsInv'
<1> DEFINE s == HopChannel(p, i)
           n == IncomingNode(p, i)
           h == PaymentHash[p]
<1>k. PICK k : k = HeldHtlc(p, i).index
  OBVIOUS
<1>x. PICK x : x = HtlcEvent(p, i, k)
  OBVIOUS
<1>1. /\ s \in Scid /\ n \in Ends(Channel[s])
      /\ h \in DOMAIN channels[s][n].in_flight
      /\ OtherSidesKept(s, n)
      /\ \A g \in DOMAIN channels[s][n].in_flight \ {h} :
            channels'[s][n].in_flight[g] = channels[s][n].in_flight[g]
      /\ channels'[s][n].index = channels[s][n].index
  BY RemovesEffect
<1>2. /\ Held(p)' = Held(p) \ {i} /\ i \in Held(p)
      /\ i \in Offered(p)'
      /\ \A q \in Payment \ {p} : Held(q)' = Held(q)
      /\ \A q \in Payment : Offered(q) \subseteq Offered(q)'
      /\ Events' = Events \/ Events' = Events \cup {x}
  BY <1>k, <1>x DEF Removes, OthersHold
<1>3. k \in Nat /\ k < channels[s][n].index /\ k = channels[s][n].in_flight[h].index
  BY <1>1, <1>k, IndexFacts DEF HeldHtlc
<1>4. x.payment = p /\ x.hop = i /\ x.index = k /\ x.channel_id = s
  BY <1>x, EventFields
<1>5. x = HtlcEvent(x.payment, x.hop, x.index)
  BY <1>4, <1>x
<1> HIDE DEF s, n, h
<1>6. \A t \in Scid : \A m \in Ends(Channel[t]) :
         channels[t][m].index <= channels'[t][m].index
  <2>1. \A t \in Scid : \A m \in Ends(Channel[t]) : channels[t][m].index \in Nat
    BY IndexFacts
  <2>2. QED
    BY <2>1, <1>1 DEF OtherSidesKept
<1>7. \A e \in Events : EventTyped(e)' /\ EventAfterAdd(e)'
  BY <1>2, <1>6, EventStaysTyped DEF EventsInv
<1>8. EventTyped(x)' /\ EventAfterAdd(x)'
  <2>1. k < channels'[s][n].index
    BY <1>1, <1>3
  <2>2. EventTyped(x)'
    BY <1>1, <1>3, <1>4, <1>5, <2>1 DEF EventTyped, HtlcEvent, LastHop, IncomingNode, n
  <2>3. QED
    BY <2>2, <1>2, <1>4 DEF EventAfterAdd
\* What the tasks hold after the step is what they held, but for this hop,
\* and on this side none of it has the index of the HTLC that went.
<1>9. ASSUME NEW q \in Payment, NEW j \in Held(q)'
      PROVE  /\ j \in Held(q) /\ ~ (q = p /\ j = i)
             /\ HeldHtlc(q, j)' = HeldHtlc(q, j)
             /\ SameSide(p, i, q, j) => HeldHtlc(q, j).index # k
  <2>1. j \in Held(q) /\ ~ (q = p /\ j = i)
    BY <1>2
  <2>2. /\ HopChannel(q, j) \in Scid
        /\ IncomingNode(q, j) \in Ends(Channel[HopChannel(q, j)])
        /\ PaymentHash[q] \in DOMAIN channels[HopChannel(q, j)][IncomingNode(q, j)].in_flight
    BY <2>1, HeldFacts
  <2>3. HtlcKey(q, j) # HtlcKey(p, i)
    BY <2>1, <1>2 DEF HtlcOwnership
  <2>4. SameSide(p, i, q, j) => PaymentHash[q] # h
    BY <2>3 DEF HtlcKey, SameSide, HopChannel, h
  <2>5. HeldHtlc(q, j)' = HeldHtlc(q, j)
    <3>1. channels'[HopChannel(q, j)][IncomingNode(q, j)].in_flight[PaymentHash[q]]
            = channels[HopChannel(q, j)][IncomingNode(q, j)].in_flight[PaymentHash[q]]
      BY <2>2, <2>4, <1>1 DEF OtherSidesKept, SameSide, s, n
    <3>2. QED
      BY <3>1 DEF HeldHtlc, HopChannel, IncomingNode
  <2>6. SameSide(p, i, q, j) => HeldHtlc(q, j).index # k
    BY <2>2, <2>4, <1>1, <1>3, IndexFacts DEF SameSide, HeldHtlc, s, n
  <2>7. QED
    BY <2>1, <2>5, <2>6
<1>10. \A e \in Events' : e \in Events \/ e = x
  BY <1>2
<1>11. EventsOfHeld /\ EventsOfSide
  BY DEF EventsInv
\* An old event has the index that went exactly when it is about this hop.
<1>12. ASSUME NEW e \in Events, SameSide(e.payment, e.hop, p, i)
       PROVE  e.index = k <=> (e.payment = p /\ e.hop = i)
  BY <1>2, <1>k, <1>11, <1>12 DEF EventsOfHeld
<1>13. ASSUME NEW e \in Events', NEW q \in Payment, NEW j \in Held(q)',
              SameSide(e.payment, e.hop, q, j)
       PROVE  e.index = HeldHtlc(q, j)'.index <=> (e.payment = q /\ e.hop = j)
  <2>1. CASE e \in Events
    BY <2>1, <1>9, <1>11, <1>13 DEF EventsOfHeld
  <2>2. CASE e = x
    BY <2>2, <1>4, <1>9, <1>13
  <2>3. QED
    BY <2>1, <2>2, <1>10
<1>14. ASSUME NEW e \in Events', NEW f \in Events',
              SameSide(e.payment, e.hop, f.payment, f.hop)
       PROVE  e.index = f.index <=> (e.payment = f.payment /\ e.hop = f.hop)
  <2>1. CASE e \in Events /\ f \in Events
    BY <2>1, <1>11, <1>14 DEF EventsOfSide
  <2>2. CASE e \in Events /\ f = x
    BY <2>2, <1>4, <1>12, <1>14
  <2>3. CASE e = x /\ f \in Events
    <3>1. SameSide(f.payment, f.hop, p, i)
      BY <2>3, <1>4, <1>14 DEF SameSide
    <3>2. QED
      BY <2>3, <3>1, <1>4, <1>12
  <2>4. CASE e = x /\ f = x
    BY <2>4
  <2>5. QED
    BY <2>1, <2>2, <2>3, <2>4, <1>10
<1>15. EventsOfHeld'
  BY <1>13 DEF EventsOfHeld, SameSide, HopChannel, IncomingNode
<1>16. EventsOfSide'
  BY <1>14 DEF EventsOfSide, SameSide, HopChannel, IncomingNode
<1>17. QED
  BY <1>7, <1>8, <1>10, <1>15, <1>16 DEF EventsInv

-----------------------------------------------------------------------------
(* The inductive invariant and what follows from it.                       *)

\* The new channels are empty and no task has started.
LEMMA InitInv == Init => NetworkInv
<1> SUFFICES ASSUME Init PROVE NetworkInv
  OBVIOUS
<1>1. ChannelsInv
  BY ChannelsValid, NewChannelInv DEF Init, ChannelsInv
<1>2. TasksInv
  <2>1. \A p \in Payment : Source[p] \in Node
    BY RouteFacts
  <2>2. [kind |-> "None", index |-> 0] \in PaymentOutcome
    BY OutcomeTyped
  <2>3. TasksTyped
    BY <2>1, <2>2 DEF Init, TasksTyped
  <2>4. "Ok" \notin CriticalError
    BY DEF CriticalError
  <2>5. \A p \in Payment : TaskInv(p)
    BY <2>4 DEF Init, TaskInv
  <2>6. QED
    BY <2>3, <2>5 DEF TasksInv
<1>3. \A p \in Payment : Held(p) = {}
  BY DEF Init, Held
<1>4. \A s \in Scid : \A n \in Ends(Channel[s]) : DOMAIN channels[s][n].in_flight = {}
  <2> SUFFICES ASSUME NEW s \in Scid, NEW n \in Ends(Channel[s])
               PROVE  DOMAIN channels[s][n].in_flight = {}
    OBVIOUS
  <2>1. channels[s][n] = ChannelState_new(Channel[s].capacity_msat \div 2)
    BY DEF Init, SimulatedChannel_new
  <2>2. channels[s][n].in_flight = NoHtlcs
    BY <2>1 DEF ChannelState_new
  <2>3. QED
    BY <2>2 DEF NoHtlcs
<1>5. HtlcOwnership
  BY <1>3, <1>4 DEF HtlcOwnership
<1>6. EventsInv
  BY DEF Init, EventsInv, Events, EventsOfHeld, EventsOfSide
<1>7. QED
  BY <1>1, <1>2, <1>5, <1>6 DEF NetworkInv

\* Every step of the network preserves the invariant.
LEMMA StepInv == NetworkInv /\ [Next]_vars => NetworkInv'
<1> SUFFICES ASSUME NetworkInv, [Next]_vars PROVE NetworkInv'
  OBVIOUS
<1>1. ChannelsInv /\ TasksInv /\ HtlcOwnership /\ EventsInv
  BY DEF NetworkInv
<1>2. TasksInv'
  BY <1>1, TasksStep
<1>3. CASE Quiet
  <2>1. channels' = channels /\ \A q \in Payment : Held(q)' = Held(q)
    BY <1>3 DEF Quiet
  <2>2. ChannelsInv'
    BY <1>1, <2>1 DEF ChannelsInv
  <2>3. HtlcOwnership'
    BY <1>1, <2>1, QuietKeepsOwnership
  <2>4. EventsInv'
    BY <1>1, <1>3, <2>2, QuietKeepsEvents
  <2>5. QED
    BY <1>2, <2>2, <2>3, <2>4 DEF NetworkInv
<1>4. ASSUME NEW p \in Payment, NEW i \in 1 .. LastHop(p), Adds(p, i), OthersHold(p)
      PROVE  NetworkInv'
  <2>1. ChannelsInv'
    BY <1>1, <1>4, AddsEffect
  <2>2. HtlcOwnership'
    BY <1>1, <1>4, AddsKeepOwnership
  <2>3. EventsInv'
    BY <1>1, <1>4, <2>1, AddsKeepEvents
  <2>4. QED
    BY <1>2, <2>1, <2>2, <2>3 DEF NetworkInv
<1>5. ASSUME NEW p \in Payment, NEW i \in 1 .. LastHop(p), Removes(p, i), OthersHold(p)
      PROVE  NetworkInv'
  <2>1. ChannelsInv'
    BY <1>1, <1>5, RemovesEffect
  <2>2. HtlcOwnership'
    BY <1>1, <1>5, RemovesKeepOwnership
  <2>3. EventsInv'
    BY <1>1, <1>5, <2>1, RemovesKeepEvents
  <2>4. QED
    BY <1>2, <2>1, <2>2, <2>3 DEF NetworkInv
<1>6. QED
  BY <1>1, <1>3, <1>4, <1>5, StepKind

\* The invariant holds in every behaviour.
LEMMA NetworkInvariant == Spec => []NetworkInv
BY InitInv, StepInv, PTL DEF Spec

(***************************************************************************)
(* The network keeps its type: in particular no balance and no local of a  *)
(* task, all unsigned in the code, goes below zero.                        *)
(***************************************************************************)
THEOREM NetworkTyped == Spec => []TypeOK
<1>1. NetworkInv => TypeOK
  BY DEF NetworkInv, ChannelsInv, SidesInv, TasksInv, TasksTyped, TypeOK
<1>2. QED
  BY <1>1, NetworkInvariant, PTL

(***************************************************************************)
(* Whatever payments run and however they interleave, a channel of even    *)
(* capacity passes its sanity check.                                       *)
(***************************************************************************)
THEOREM NetworkSane == Spec => []ChannelsSane
<1>1. NetworkInv => ChannelsSane
  <2> SUFFICES ASSUME NetworkInv, NEW s \in Scid, Channel[s].capacity_msat % 2 = 0
               PROVE  sanity_check(Channel[s], channels[s])
    BY DEF ChannelsSane
  <2>1. channel_balance(Channel[s], channels[s]) = 2 * (Channel[s].capacity_msat \div 2)
    BY DEF NetworkInv, ChannelsInv, SidesInv, FundsKept
  <2>2. 2 * (Channel[s].capacity_msat \div 2) = Channel[s].capacity_msat
    BY NetworkAssumption
  <2>3. QED
    BY <2>1, <2>2 DEF sanity_check
<1>2. QED
  BY <1>1, NetworkInvariant, PTL

(***************************************************************************)
(* Interleaved payments never exceed a counterparty's limits.              *)
(***************************************************************************)
THEOREM NetworkLimited == Spec => []ChannelsWithinLimits
<1>1. NetworkInv => ChannelsWithinLimits
  BY DEF NetworkInv, ChannelsInv, SidesInv, ChannelsWithinLimits
<1>2. QED
  BY <1>1, NetworkInvariant, PTL

(***************************************************************************)
(* Every HTLC in flight belongs to exactly one hop of one payment, for any *)
(* routes, connected or not, and any sharing of hashes.                    *)
(***************************************************************************)
THEOREM HtlcsOwned == Spec => []HtlcOwnership
<1>1. NetworkInv => HtlcOwnership
  BY DEF NetworkInv
<1>2. QED
  BY <1>1, NetworkInvariant, PTL

(***************************************************************************)
(* A payment that has reported leaves HTLCs behind only after a critical   *)
(* error, and every critical error has fired the shutdown trigger.         *)
(***************************************************************************)
THEOREM StuckHtlcsEndTheRun == Spec => []StuckOnlyAfterShutdown
<1>1. NetworkInv => StuckOnlyAfterShutdown
  BY DEF NetworkInv, TasksInv, TaskInv, StuckOnlyAfterShutdown
<1>2. QED
  BY <1>1, NetworkInvariant, PTL

-----------------------------------------------------------------------------
(* Balances and outcomes.                                                  *)

\* A payment that reports success is the one whose HTLCs are settled, and
\* a task has made up its mind when it no longer adds.
OutcomeInv(p) ==
    /\ outcome[p].kind = "Success" <=> success[p]
    /\ outcome[p].kind = "None" <=> pc[p] \in {"idle", "dropped", "add", "intercept"}

OutcomesInv == \A p \in Payment : OutcomeInv(p)

\* A step decides on success only when every hop of the route is held.
Decides(q) ==
    \/ success'[q] = success[q]
    \/ success'[q] /\ Held(q) = 1 .. LastHop(q) /\ Held(q)' = Held(q)

\* A step of one task leaves the others' locals alone.
LEMMA TaskKeepsOthers ==
    ASSUME TasksInv, NEW p \in Payment, DispatchRefused(p) \/ Dispatch(p) \/ TaskStep(p)
    PROVE  \A q \in Payment \ {p} : pc'[q] = pc[q]
<1>1. pc \in [Payment -> {"idle", "dropped", "add", "intercept", "remove",
                          "notify", "report", "done"}]
  BY DEF TasksInv, TasksTyped
<1>2. \E next : pc' = [pc EXCEPT ![p] = next]
  BY DEF DispatchRefused, Dispatch, TaskStep, AddRefused, AddThenRefused, AddThenIntercept,
         InterceptProceed, InterceptFail, InterceptCritical, Remove, Notified, NotifyFailed,
         Report, EndFailed, EndCritical, EndAdded
<1>3. QED
  BY <1>1, <1>2

\* What a step does to the outcome of the task that takes it.
LEMMA OwnOutcome ==
    ASSUME TasksInv, OutcomesInv, NEW p \in Payment,
           DispatchRefused(p) \/ Dispatch(p) \/ TaskStep(p)
    PROVE  /\ OutcomeInv(p)'
           /\ \/ success'[p] = success[p]
              \/ EndAdded(p) /\ pc[p] = "intercept" /\ hop[p] = LastHop(p)
           /\ outcome'[p] = outcome[p] \/ pc[p] \in {"add", "intercept"}
           /\ \A q \in Payment \ {p} : success'[q] = success[q] /\ outcome'[q] = outcome[q]
<1>1. /\ pc \in [Payment -> {"idle", "dropped", "add", "intercept", "remove",
                             "notify", "report", "done"}]
      /\ success \in [Payment -> BOOLEAN]
      /\ outcome \in [Payment -> PaymentOutcome]
      /\ OutcomeInv(p)
  BY DEF TasksInv, TasksTyped, OutcomesInv
<1>2. ASSUME NEW idx, NEW err, EndFailed(p, idx, err), pc[p] \in {"add", "intercept"}
      PROVE  /\ OutcomeInv(p)' /\ success'[p] = success[p]
             /\ \A q \in Payment \ {p} : success'[q] = success[q] /\ outcome'[q] = outcome[q]
  BY <1>1, <1>2 DEF EndFailed, OutcomeInv, IndexFailure
<1>3. ASSUME NEW idx, NEW err, EndCritical(p, idx, err), pc[p] \in {"add", "intercept"}
      PROVE  /\ OutcomeInv(p)' /\ success'[p] = success[p]
             /\ \A q \in Payment \ {p} : success'[q] = success[q] /\ outcome'[q] = outcome[q]
  BY <1>1, <1>3 DEF EndCritical, OutcomeInv
<1>4. ASSUME EndAdded(p)
      PROVE  /\ OutcomeInv(p)'
             /\ \A q \in Payment \ {p} : success'[q] = success[q] /\ outcome'[q] = outcome[q]
  BY <1>1, <1>4 DEF EndAdded, OutcomeInv
<1>5. ASSUME UNCHANGED <<success, outcome>>,
             pc'[p] \in {"idle", "dropped", "add", "intercept"} <=>
                pc[p] \in {"idle", "dropped", "add", "intercept"}
      PROVE  OutcomeInv(p)'
  BY <1>1, <1>5 DEF OutcomeInv
<1>6. CASE DispatchRefused(p) \/ Dispatch(p)
  BY <1>1, <1>5, <1>6 DEF DispatchRefused, Dispatch
<1>7. CASE AddRefused(p)
  BY <1>2, <1>3, <1>7 DEF AddRefused
<1>8. CASE AddThenRefused(p)
  BY <1>2, <1>3, <1>8 DEF AddThenRefused, AddHtlc
<1>9. CASE AddThenIntercept(p)
  BY <1>1, <1>5, <1>9 DEF AddThenIntercept, AddHtlc
<1>10. CASE InterceptProceed(p)
  BY <1>1, <1>4, <1>5, <1>10 DEF InterceptProceed
<1>11. CASE InterceptFail(p)
  BY <1>2, <1>11 DEF InterceptFail
<1>12. CASE InterceptCritical(p)
  BY <1>3, <1>12 DEF InterceptCritical
<1>13. CASE Remove(p)
  BY <1>1, <1>5, <1>13 DEF Remove
<1>14. CASE Notified(p) \/ NotifyFailed(p) \/ Report(p)
  BY <1>1, <1>5, <1>14 DEF Notified, NotifyFailed, Report
<1>15. QED
  BY <1>6, <1>7, <1>8, <1>9, <1>10, <1>11, <1>12, <1>13, <1>14 DEF TaskStep

\* Every step keeps outcomes and settlements in agreement.
LEMMA OutcomeStep ==
    ASSUME TasksInv, OutcomesInv, [Next]_vars
    PROVE  OutcomesInv' /\ \A q \in Payment : Decides(q)
<1>1. CASE UNCHANGED vars
  BY <1>1 DEF vars, taskVars, OutcomesInv, OutcomeInv, Decides
<1>2. ASSUME NEW p \in Payment, DispatchRefused(p) \/ Dispatch(p) \/ TaskStep(p)
      PROVE  OutcomesInv' /\ \A q \in Payment : Decides(q)
  <2>1. /\ OutcomeInv(p)'
        /\ \A q \in Payment \ {p} : success'[q] = success[q] /\ outcome'[q] = outcome[q]
    BY <1>2, OwnOutcome
  <2>2. \A q \in Payment \ {p} : pc'[q] = pc[q]
    BY <1>2, TaskKeepsOthers
  <2>3. OutcomesInv'
    BY <2>1, <2>2 DEF OutcomesInv, OutcomeInv
  <2>4. Decides(p)
    <3>1. CASE success'[p] = success[p]
      BY <3>1 DEF Decides
    <3>2. CASE EndAdded(p) /\ pc[p] = "intercept" /\ hop[p] = LastHop(p)
      <4>1. pc'[p] = "remove" /\ hop'[p] = LastHop(p) /\ success'[p]
        BY <3>2 DEF EndAdded, TasksInv, TasksTyped
      <4>2. Held(p) = 1 .. LastHop(p) /\ Held(p)' = 1 .. LastHop(p)
        BY <3>2, <4>1 DEF Held, LastHop
      <4>3. QED
        BY <4>1, <4>2 DEF Decides
    <3>3. QED
      BY <1>2, <3>1, <3>2, OwnOutcome
  <2>5. QED
    BY <2>1, <2>3, <2>4 DEF Decides
<1>3. QED
  BY <1>1, <1>2 DEF Next

-----------------------------------------------------------------------------
\* There are finitely many hops in all, each with an amount.
LEMMA RouteHopsFinite ==
    /\ IsFiniteSet(RouteHops)
    /\ \A x \in RouteHops : HopAmount[x] \in Nat
    /\ \A p \in Payment : \A i \in 1 .. LastHop(p) :
          <<p, i>> \in RouteHops /\ HopAmount[<<p, i>>] = Hops[p][i].amount
<1> DEFINE of(p) == {p} \X (1 .. LastHop(p))
           f == [p \in Payment |-> of(p)]
           T == {of(p) : p \in Payment}
<1>1. IsFiniteSet(Payment)
  BY NetworkAssumption
<1>2. f \in Surjection(Payment, T)
  BY DEF Surjection
<1>3. IsFiniteSet(T)
  BY <1>1, <1>2, FS_Surjection, Zenon
<1>4. ASSUME NEW U \in T PROVE IsFiniteSet(U)
  <2>1. PICK p \in Payment : U = of(p)
    BY <1>4
  <2>2. LastHop(p) \in Nat
    BY RouteFacts
  <2>3. QED
    BY <2>1, <2>2, UnitsOfOne
<1>5. IsFiniteSet(RouteHops)
  BY <1>3, <1>4, FS_UNION, Zenon DEF RouteHops
<1>6. ASSUME NEW p \in Payment, NEW i \in 1 .. LastHop(p)
      PROVE  /\ <<p, i>> \in RouteHops
             /\ HopAmount[<<p, i>>] = Hops[p][i].amount
             /\ HopAmount[<<p, i>>] \in Nat
  <2>1. <<p, i>> \in RouteHops
    BY DEF RouteHops
  <2>2. HopAmount[<<p, i>>] = Hops[p][i].amount
    BY <2>1 DEF HopAmount
  <2>3. QED
    BY <2>1, <2>2, RouteFacts
<1>7. ASSUME NEW x \in RouteHops
      PROVE  HopAmount[x] \in Nat
  <2>1. PICK p \in Payment : x \in of(p)
    BY DEF RouteHops
  <2>2. PICK i \in 1 .. LastHop(p) : x = <<p, i>>
    BY <2>1
  <2>3. QED
    BY <2>2, <1>6
<1>8. QED
  BY <1>5, <1>6, <1>7

\* One hop more adds its amount on its channel, in its direction.
LEMMA SentMore ==
    ASSUME NEW hops \in SUBSET RouteHops, NEW p \in Payment, NEW i \in 1 .. LastHop(p),
           <<p, i>> \notin hops, NEW s, NEW n
    PROVE  /\ Sent(hops, s, n) \in Nat
           /\ Sent(hops \cup {<<p, i>>}, s, n)
                = IF HopChannel(p, i) = s /\ IncomingNode(p, i) = n
                  THEN Sent(hops, s, n) + Hops[p][i].amount
                  ELSE Sent(hops, s, n)
<1> DEFINE On(x) == /\ Hops[x[1]][x[2]].short_channel_id = s
                    /\ IncomingNode(x[1], x[2]) = n
           H == {x \in hops : On(x)}
           x == <<p, i>>
<1>1. IsFiniteSet(H)
  BY RouteHopsFinite, FS_Subset
<1>2. \A y \in H : HopAmount[y] \in Nat
  BY RouteHopsFinite
<1>3. HopAmount[x] = Hops[p][i].amount /\ HopAmount[x] \in Nat /\ x \notin H
  BY RouteHopsFinite
<1>4. /\ SumFunctionOnSet(HopAmount, H) \in Nat
      /\ SumFunctionOnSet(HopAmount, H \cup {x}) = SumFunctionOnSet(HopAmount, H) + HopAmount[x]
  <2> HIDE DEF H, x
  <2>1. QED
    BY <1>1, <1>2, <1>3, SumMore
<1>5. Sent(hops, s, n) = SumFunctionOnSet(HopAmount, H)
  BY DEF Sent
<1>6. On(x) <=> HopChannel(p, i) = s /\ IncomingNode(p, i) = n
  BY DEF HopChannel
<1>7. CASE On(x)
  <2>1. {y \in hops \cup {x} : On(y)} = H \cup {x}
    BY <1>7
  <2>2. Sent(hops \cup {x}, s, n) = SumFunctionOnSet(HopAmount, H \cup {x})
    BY <2>1 DEF Sent
  <2>3. QED
    BY <1>3, <1>4, <1>5, <1>6, <1>7, <2>2
<1>8. CASE ~On(x)
  <2>1. {y \in hops \cup {x} : On(y)} = H
    BY <1>8
  <2>2. Sent(hops \cup {x}, s, n) = SumFunctionOnSet(HopAmount, H)
    BY <2>1 DEF Sent
  <2>3. QED
    BY <1>4, <1>5, <1>6, <1>8, <2>2
<1>9. QED
  BY <1>7, <1>8

\* The sets of hops after a step that changes what one task holds.
LEMMA HopsAfterStep ==
    ASSUME TasksInv, OutcomesInv, OutcomesInv', \A q \in Payment : Decides(q),
           NEW p \in Payment, NEW i \in 1 .. LastHop(p),
           \A q \in Payment \ {p} : Held(q)' = Held(q)
    PROVE  /\ (i \notin Held(p) /\ Held(p)' = Held(p) \cup {i} /\ ~success[p]) =>
                 /\ HeldHops' = HeldHops \cup {<<p, i>>}
                 /\ SettledHops' = SettledHops
           /\ (i \in Held(p) /\ Held(p)' = Held(p) \ {i}) =>
                 /\ HeldHops' = HeldHops \ {<<p, i>>}
                 /\ SettledHops' = IF success[p] THEN SettledHops \cup {<<p, i>>}
                                   ELSE SettledHops
           /\ Held(p)' = Held(p) => HeldHops' = HeldHops /\ SettledHops' = SettledHops
<1>1. /\ HeldHops = {x \in RouteHops : x[2] \in Held(x[1])}
      /\ HeldHops' = {x \in RouteHops : x[2] \in Held(x[1])'}
  BY DEF HeldHops
<1>2. ASSUME NEW x \in RouteHops
      PROVE  /\ x[1] \in Payment /\ x[2] \in 1 .. LastHop(x[1]) /\ x = <<x[1], x[2]>>
  BY DEF RouteHops
<1>3. /\ SettledHops = {x \in RouteHops : success[x[1]] /\ x[2] \notin Held(x[1])}
      /\ SettledHops' = {x \in RouteHops : success'[x[1]] /\ x[2] \notin Held(x[1])'}
  BY <1>2 DEF SettledHops, OutcomesInv, OutcomeInv
<1>4. <<p, i>> \in RouteHops /\ <<p, i>>[1] = p /\ <<p, i>>[2] = i
  BY RouteHopsFinite
<1>5. ASSUME NEW q \in Payment \ {p}, NEW j \in 1 .. LastHop(q)
      PROVE  /\ j \in Held(q)' <=> j \in Held(q)
             /\ (success'[q] /\ j \notin Held(q)') <=> (success[q] /\ j \notin Held(q))
  BY DEF Decides
<1>6. \A x \in RouteHops : x[1] = p => (x = <<p, i>> <=> x[2] = i)
  BY <1>2
<1>7. ASSUME i \notin Held(p), Held(p)' = Held(p) \cup {i}, ~success[p]
      PROVE  HeldHops' = HeldHops \cup {<<p, i>>} /\ SettledHops' = SettledHops
  <2>1. success'[p] = success[p]
    BY <1>7 DEF Decides
  <2>2. HeldHops' = HeldHops \cup {<<p, i>>}
    BY <1>1, <1>2, <1>4, <1>5, <1>6, <1>7
  <2>3. SettledHops' = SettledHops
    BY <1>2, <1>3, <1>5, <1>7, <2>1
  <2>4. QED
    BY <2>2, <2>3
<1>8. ASSUME i \in Held(p), Held(p)' = Held(p) \ {i}
      PROVE  /\ HeldHops' = HeldHops \ {<<p, i>>}
             /\ SettledHops' = IF success[p] THEN SettledHops \cup {<<p, i>>}
                               ELSE SettledHops
  <2>1. success'[p] = success[p]
    BY <1>8 DEF Decides
  <2>2. HeldHops' = HeldHops \ {<<p, i>>}
    BY <1>1, <1>2, <1>4, <1>5, <1>6, <1>8
  <2>3. CASE success[p]
    BY <1>2, <1>3, <1>4, <1>5, <1>6, <1>8, <2>1, <2>2, <2>3
  <2>4. CASE ~success[p]
    BY <1>2, <1>3, <1>5, <1>8, <2>1, <2>2, <2>4
  <2>5. QED
    BY <2>3, <2>4
<1>9. ASSUME Held(p)' = Held(p)
      PROVE  HeldHops' = HeldHops /\ SettledHops' = SettledHops
  <2>1. HeldHops' = HeldHops
    BY <1>1, <1>2, <1>5, <1>9
  <2>2. ASSUME NEW j \in 1 .. LastHop(p)
        PROVE  (success'[p] /\ j \notin Held(p)') <=> (success[p] /\ j \notin Held(p))
    BY <1>9 DEF Decides
  <2>3. SettledHops' = SettledHops
    BY <1>2, <1>3, <1>5, <2>2
  <2>4. QED
    BY <2>1, <2>3
<1>10. QED
  BY <1>7, <1>8, <1>9

\* A task that adds has not decided to settle.
LEMMA UnofferedUndecided ==
    ASSUME TasksInv, OutcomesInv, NEW p \in Payment, NEW i \in 1 .. LastHop(p),
           i \notin Offered(p)
    PROVE  ~success[p]
<1>1. pc[p] \in {"idle", "add", "intercept"}
  BY DEF Offered
<1>2. QED
  BY <1>1 DEF OutcomesInv, OutcomeInv

\* The entry of one side in the books.
Balanced(s, n) ==
    channels[s][n].local_balance_msat + Sent(HeldHops, s, n) + Sent(SettledHops, s, n)
        = (Channel[s].capacity_msat \div 2)
             + Sent(SettledHops, s, Counterparty(Channel[s], n))

\* Balances are natural numbers and so are the sums.
LEMMA LedgerTyped ==
    ASSUME ChannelsInv, NEW s \in Scid, NEW n \in Ends(Channel[s])
    PROVE  channels[s][n].local_balance_msat \in Nat
BY DEF ChannelsInv, SidesInv, SidesTyped, SideTyped

\* What is sent over a side in any of these hops is an amount.
LEMMA SentTyped ==
    ASSUME NEW hops \in SUBSET RouteHops, NEW s, NEW n
    PROVE  Sent(hops, s, n) \in Nat
<1> DEFINE H == {x \in hops : /\ Hops[x[1]][x[2]].short_channel_id = s
                              /\ IncomingNode(x[1], x[2]) = n}
<1>1. IsFiniteSet(H) /\ \A y \in H : HopAmount[y] \in Nat
  BY RouteHopsFinite, FS_Subset
<1>2. SumFunctionOnSet(HopAmount, H) = Cardinality(Units(HopAmount, H))
  <2> HIDE DEF H
  <2>1. QED
    BY <1>1, SumIsCount
<1>3. IsFiniteSet(Units(HopAmount, H))
  <2> HIDE DEF H
  <2>1. QED
    BY <1>1, UnitsFinite
<1>4. QED
  BY <1>2, <1>3, FS_CardinalityType DEF Sent

(***************************************************************************)
(* An addition moves its amount from the sender's balance to what it has   *)
(* in flight.                                                              *)
(***************************************************************************)
LEMMA AddsKeepLedger ==
    ASSUME ChannelsInv, LedgerMatchesOutcomes, NEW p \in Payment, NEW i \in 1 .. LastHop(p),
           Adds(p, i), HeldHops' = HeldHops \cup {<<p, i>>}, SettledHops' = SettledHops
    PROVE  LedgerMatchesOutcomes'
<1> DEFINE s0  == HopChannel(p, i)
           n0  == IncomingNode(p, i)
           amt == Hops[p][i].amount
<1>1. /\ s0 \in Scid /\ n0 \in Ends(Channel[s0]) /\ amt \in Nat
  BY AddsEffect, RouteFacts
<1>2. \A s \in Scid : s # s0 => channels'[s] = channels[s]
  BY DEF Adds, ChannelsInv
<1>3. /\ SidesTyped(Channel[s0], channels[s0], Hash)
      /\ channels'[s0] = add_htlc(Channel[s0], channels[s0], n0, PaymentHash[p], RouteHtlc(p, i))
      /\ RouteHtlc(p, i).amount_msat = amt
  BY <1>1 DEF Adds, ChannelsInv, SidesInv, RouteHtlc
<1>4. <<p, i>> \notin HeldHops /\ HeldHops \in SUBSET RouteHops /\ SettledHops \in SUBSET RouteHops
  BY DEF Adds, HeldHops, SettledHops
<1> SUFFICES ASSUME NEW s \in Scid, NEW n \in Ends(Channel[s])
             PROVE  channels'[s][n].local_balance_msat
                       + Sent(HeldHops', s, n) + Sent(SettledHops', s, n)
                     = (Channel[s].capacity_msat \div 2)
                         + Sent(SettledHops', s, Counterparty(Channel[s], n))
  BY DEF LedgerMatchesOutcomes
<1>5. Balanced(s, n)
  BY DEF LedgerMatchesOutcomes, Balanced
<1>6. channels[s][n].local_balance_msat \in Nat
  BY LedgerTyped
<1>7. channels'[s][n].local_balance_msat
         = IF s = s0 /\ n = n0 THEN channels[s][n].local_balance_msat - amt
           ELSE channels[s][n].local_balance_msat
  <2> HIDE DEF s0, n0, amt
  <2>1. CASE s = s0
    BY <1>1, <1>3, <2>1, AddBalances
  <2>2. CASE s # s0
    BY <1>2, <2>2
  <2>3. QED
    BY <2>1, <2>2
<1>8. /\ Sent(HeldHops, s, n) \in Nat
      /\ Sent(HeldHops', s, n) = IF s = s0 /\ n = n0 THEN Sent(HeldHops, s, n) + amt
                                 ELSE Sent(HeldHops, s, n)
  BY <1>4, SentMore
<1>9. Sent(SettledHops, s, n) \in Nat
  BY <1>4, SentTyped
<1> HIDE DEF s0, n0, amt
<1>10. QED
  BY <1>1, <1>5, <1>6, <1>7, <1>8, <1>9 DEF Balanced

(***************************************************************************)
(* A removal moves the amount in flight to the receiver, and books it as   *)
(* settled, or back to the sender.                                         *)
(***************************************************************************)
LEMMA RemovesKeepLedger ==
    ASSUME ChannelsInv, HtlcOwnership, LedgerMatchesOutcomes,
           NEW p \in Payment, NEW i \in 1 .. LastHop(p),
           Removes(p, i), HeldHops' = HeldHops \ {<<p, i>>},
           SettledHops' = IF success[p] THEN SettledHops \cup {<<p, i>>} ELSE SettledHops
    PROVE  LedgerMatchesOutcomes'
<1> DEFINE s0  == HopChannel(p, i)
           n0  == IncomingNode(p, i)
           amt == Hops[p][i].amount
<1>1. /\ s0 \in Scid /\ n0 \in Ends(Channel[s0]) /\ amt \in Nat
      /\ PaymentHash[p] \in DOMAIN channels[s0][n0].in_flight
      /\ channels[s0][n0].in_flight[PaymentHash[p]].amount_msat = amt
      /\ i \in Held(p) /\ success[p] \in BOOLEAN
  BY HeldFacts, RouteFacts DEF Removes, HeldHtlc
<1>2. \A s \in Scid : s # s0 => channels'[s] = channels[s]
  BY DEF Removes, ChannelsInv
<1>3. /\ SidesTyped(Channel[s0], channels[s0], Hash)
      /\ channels'[s0] = remove_htlc(Channel[s0], channels[s0], n0, PaymentHash[p], success[p])
  BY <1>1 DEF Removes, ChannelsInv, SidesInv
<1>4. /\ HeldHops' \in SUBSET RouteHops /\ SettledHops \in SUBSET RouteHops
      /\ <<p, i>> \notin HeldHops' /\ <<p, i>> \notin SettledHops
      /\ HeldHops = HeldHops' \cup {<<p, i>>}
  <2>1. <<p, i>> \in HeldHops /\ <<p, i>> \notin SettledHops
    BY <1>1, RouteHopsFinite DEF HeldHops, SettledHops
  <2>2. HeldHops \subseteq RouteHops /\ SettledHops \subseteq RouteHops
    BY DEF HeldHops, SettledHops
  <2>3. QED
    BY <2>1, <2>2
<1> SUFFICES ASSUME NEW s \in Scid, NEW n \in Ends(Channel[s])
             PROVE  channels'[s][n].local_balance_msat
                       + Sent(HeldHops', s, n) + Sent(SettledHops', s, n)
                     = (Channel[s].capacity_msat \div 2)
                         + Sent(SettledHops', s, Counterparty(Channel[s], n))
  BY DEF LedgerMatchesOutcomes
<1> DEFINE o == Counterparty(Channel[s], n)
           half == Channel[s].capacity_msat \div 2
<1>5. Balanced(s, n)
  BY DEF LedgerMatchesOutcomes, Balanced
<1>6. channels[s][n].local_balance_msat \in Nat /\ half \in Nat
  BY LedgerTyped, NetworkAssumption
<1>7. channels'[s][n].local_balance_msat
         = IF s # s0 \/ success[p] = (n = n0) THEN channels[s][n].local_balance_msat
           ELSE channels[s][n].local_balance_msat + amt
  <2>1. CASE s = s0
    <3> HIDE DEF s0, n0, amt
    <3>1. QED
      BY <1>1, <1>3, <2>1, RemoveBalances
  <2>2. CASE s # s0
    BY <1>2, <2>2
  <2>3. QED
    BY <2>1, <2>2
<1>8. /\ Sent(HeldHops', s, n) \in Nat
      /\ Sent(HeldHops, s, n) = IF s = s0 /\ n = n0 THEN Sent(HeldHops', s, n) + amt
                                ELSE Sent(HeldHops', s, n)
  <2> DEFINE H == HeldHops'
  <2>1. /\ H \in SUBSET RouteHops /\ <<p, i>> \notin H
        /\ HeldHops = H \cup {<<p, i>>}
    BY <1>4
  <2> HIDE DEF H
  <2>2. /\ Sent(H, s, n) \in Nat
        /\ Sent(HeldHops, s, n) = IF s0 = s /\ n0 = n THEN Sent(H, s, n) + amt ELSE Sent(H, s, n)
    BY <2>1, SentMore
  <2>3. QED
    BY <2>2 DEF H
<1>9. ASSUME NEW m
      PROVE  /\ Sent(SettledHops, s, m) \in Nat
             /\ Sent(SettledHops', s, m)
                  = IF success[p] /\ s = s0 /\ m = n0 THEN Sent(SettledHops, s, m) + amt
                    ELSE Sent(SettledHops, s, m)
  <2>1. Sent(SettledHops, s, m) \in Nat
    BY <1>4, SentTyped
  <2>2. CASE success[p]
    <3>1. SettledHops' = SettledHops \cup {<<p, i>>}
      BY <2>2
    <3>2. Sent(SettledHops \cup {<<p, i>>}, s, m)
             = IF s0 = s /\ n0 = m THEN Sent(SettledHops, s, m) + amt
               ELSE Sent(SettledHops, s, m)
      <4> DEFINE S == SettledHops
      <4>1. S \in SUBSET RouteHops /\ <<p, i>> \notin S
        BY <1>4
      <4> HIDE DEF S
      <4>2. Sent(S \cup {<<p, i>>}, s, m)
               = IF HopChannel(p, i) = s /\ IncomingNode(p, i) = m
                 THEN Sent(S, s, m) + Hops[p][i].amount ELSE Sent(S, s, m)
        BY <4>1, SentMore
      <4>3. QED
        BY <4>2 DEF S
    <3>3. Sent(SettledHops', s, m) = Sent(SettledHops \cup {<<p, i>>}, s, m)
      BY <3>1, Zenon
    <3>4. QED
      BY <2>1, <2>2, <3>2, <3>3
  <2>3. CASE ~success[p]
    BY <2>1, <2>3
  <2>4. QED
    BY <2>2, <2>3
<1>10. s = s0 => o # n /\ (n = n0 <=> o # n0)
  <2>1. Channel[s].node_1 # Channel[s].node_2
    BY GraphAssumption DEF channel_validate
  <2>2. QED
    BY <1>1, <2>1, TwoEnds
<1> DEFINE b1 == channels'[s][n].local_balance_msat
           b0 == channels[s][n].local_balance_msat
           h1 == Sent(HeldHops', s, n)
           h0 == Sent(HeldHops, s, n)
           t1 == Sent(SettledHops', s, n)
           t0 == Sent(SettledHops, s, n)
           r1 == Sent(SettledHops', s, o)
           r0 == Sent(SettledHops, s, o)
<1>11. b0 + h0 + t0 = half + r0
  BY <1>5 DEF Balanced
<1>12. b0 \in Nat /\ h1 \in Nat /\ t0 \in Nat /\ r0 \in Nat /\ half \in Nat /\ amt \in Nat
  BY <1>1, <1>6, <1>8, <1>9
<1>13. /\ b1 = IF s # s0 \/ success[p] = (n = n0) THEN b0 ELSE b0 + amt
       /\ h0 = IF s = s0 /\ n = n0 THEN h1 + amt ELSE h1
       /\ t1 = IF success[p] /\ s = s0 /\ n = n0 THEN t0 + amt ELSE t0
       /\ r1 = IF success[p] /\ s = s0 /\ o = n0 THEN r0 + amt ELSE r0
  BY <1>7, <1>8, <1>9
<1>14. success[p] \in BOOLEAN
  BY <1>1
<1> HIDE DEF s0, n0, amt, o, half, b1, b0, h1, h0, t1, t0, r1, r0
<1>15. b1 + h1 + t1 = half + r1
  BY <1>10, <1>11, <1>12, <1>13, <1>14
<1>16. QED
  BY <1>15 DEF b1, h1, t1, r1, half, o

\* Nothing has been sent in the beginning.
LEMMA LedgerInit == Init => OutcomesInv /\ LedgerMatchesOutcomes
<1> SUFFICES ASSUME Init PROVE OutcomesInv /\ LedgerMatchesOutcomes
  OBVIOUS
<1>1. OutcomesInv
  BY DEF Init, OutcomesInv, OutcomeInv
<1>2. HeldHops = {}
  BY DEF Init, HeldHops, RouteHops, Held
<1>3. SettledHops = {}
  BY DEF Init, SettledHops, RouteHops
<1>4. ASSUME NEW s, NEW n PROVE Sent({}, s, n) = 0
  <2>1. {x \in {} : /\ Hops[x[1]][x[2]].short_channel_id = s
                    /\ IncomingNode(x[1], x[2]) = n} = {}
    OBVIOUS
  <2>2. QED
    BY <2>1, SumEmpty DEF Sent
<1>5. ASSUME NEW s \in Scid, NEW n \in Ends(Channel[s])
      PROVE  Balanced(s, n)
  <2>1. channels[s][n].local_balance_msat = Channel[s].capacity_msat \div 2
    BY DEF Init, SimulatedChannel_new, ChannelState_new
  <2>2. Channel[s].capacity_msat \div 2 \in Nat
    BY NetworkAssumption
  <2>3. QED
    BY <1>2, <1>3, <1>4, <2>1, <2>2 DEF Balanced
<1>6. QED
  BY <1>1, <1>5 DEF LedgerMatchesOutcomes, Balanced

\* Every step keeps the books.
LEMMA LedgerStep ==
    ASSUME NetworkInv, OutcomesInv, LedgerMatchesOutcomes, [Next]_vars
    PROVE  OutcomesInv' /\ LedgerMatchesOutcomes'
<1>1. ChannelsInv /\ TasksInv /\ HtlcOwnership
  BY DEF NetworkInv
<1>2. OutcomesInv' /\ \A q \in Payment : Decides(q)
  BY <1>1, OutcomeStep
<1>3. CASE Quiet
  <2>1. HeldHops' = HeldHops /\ SettledHops' = SettledHops
    <3>1. CASE Payment = {}
      BY <3>1 DEF HeldHops, SettledHops, RouteHops
    <3>2. CASE Payment # {}
      <4>1. PICK p \in Payment : TRUE
        BY <3>2
      <4>2. 1 \in 1 .. LastHop(p)
        BY RouteFacts
      <4>3. QED
        BY <1>1, <1>2, <1>3, <4>1, <4>2, HopsAfterStep DEF Quiet
    <3>3. QED
      BY <3>1, <3>2
  <2>2. channels' = channels
    BY <1>3 DEF Quiet
  <2>3. QED
    BY <1>2, <2>1, <2>2 DEF LedgerMatchesOutcomes
<1>4. ASSUME NEW p \in Payment, NEW i \in 1 .. LastHop(p), Adds(p, i), OthersHold(p)
      PROVE  LedgerMatchesOutcomes'
  <2>1. ~success[p]
    BY <1>1, <1>4, UnofferedUndecided DEF Adds
  <2>2. HeldHops' = HeldHops \cup {<<p, i>>} /\ SettledHops' = SettledHops
    BY <1>1, <1>2, <1>4, <2>1, HopsAfterStep DEF Adds, OthersHold
  <2>3. QED
    BY <1>1, <1>4, <2>2, AddsKeepLedger
<1>5. ASSUME NEW p \in Payment, NEW i \in 1 .. LastHop(p), Removes(p, i), OthersHold(p)
      PROVE  LedgerMatchesOutcomes'
  <2>1. /\ HeldHops' = HeldHops \ {<<p, i>>}
        /\ SettledHops' = IF success[p] THEN SettledHops \cup {<<p, i>>} ELSE SettledHops
    BY <1>1, <1>2, <1>5, HopsAfterStep DEF Removes, OthersHold
  <2>2. QED
    BY <1>1, <1>5, <2>1, RemovesKeepLedger
<1>6. QED
  BY <1>1, <1>2, <1>3, <1>4, <1>5, StepKind

(***************************************************************************)
(* At every moment every balance of the network is what the payments made  *)
(* of it: the half the side started with, less what it has in flight and   *)
(* what its settled HTLCs paid, plus what its counterparty's settled HTLCs *)
(* paid.  A payment that fails or is given up moves nothing for good.      *)
(***************************************************************************)
THEOREM LedgerKept == Spec => []LedgerMatchesOutcomes
<1>1. NetworkInv /\ OutcomesInv /\ LedgerMatchesOutcomes /\ [Next]_vars
         => OutcomesInv' /\ LedgerMatchesOutcomes'
  BY LedgerStep
<1>2. QED
  BY <1>1, LedgerInit, NetworkInvariant, PTL DEF Spec

(***************************************************************************)
(* A payment is all or nothing on every graph and between any payments: it *)
(* is decided once, a success only while every hop of its route is held,   *)
(* and what its task reports is what it decided.                           *)
(***************************************************************************)
THEOREM PaymentsAreAtomic == Spec => OutcomeIsFinal
<1>1. ASSUME NetworkInv, OutcomesInv, [Next]_vars, NEW q \in Payment
      PROVE  /\ outcome[q].kind # "None" => outcome'[q] = outcome[q]
             /\ outcome'[q].kind = "Success" /\ outcome[q].kind # "Success" =>
                   Held(q) = 1 .. LastHop(q)
             /\ pc[q] = "report" => outcome[q].kind # "None"
  <2>1. TasksInv /\ OutcomeInv(q)
    BY <1>1 DEF NetworkInv, OutcomesInv
  <2>2. OutcomeInv(q)' /\ Decides(q)
    BY <1>1, <2>1, OutcomeStep DEF OutcomesInv
  <2>3. outcome'[q] = outcome[q] \/ pc[q] \in {"add", "intercept"}
    <3>1. CASE UNCHANGED vars
      BY <3>1 DEF vars, taskVars
    <3>2. ASSUME NEW p \in Payment, DispatchRefused(p) \/ Dispatch(p) \/ TaskStep(p)
          PROVE  outcome'[q] = outcome[q] \/ pc[q] \in {"add", "intercept"}
      BY <1>1, <2>1, <3>2, OwnOutcome
    <3>3. QED
      BY <1>1, <3>1, <3>2 DEF Next
  <2>4. QED
    BY <2>1, <2>2, <2>3 DEF OutcomeInv, Decides
<1>2. NetworkInv /\ OutcomesInv /\ [Next]_vars =>
         OutcomesInv' /\
         [\A p \in Payment :
             /\ outcome[p].kind # "None" => outcome'[p] = outcome[p]
             /\ outcome'[p].kind = "Success" /\ outcome[p].kind # "Success" =>
                   Held(p) = 1 .. LastHop(p)
             /\ pc[p] = "report" => outcome[p].kind # "None"]_vars
  BY <1>1, OutcomeStep DEF NetworkInv
<1>3. QED
  BY <1>2, LedgerInit, NetworkInvariant, PTL DEF Spec, OutcomeIsFinal

-----------------------------------------------------------------------------
(* Every task gets nearer to its report.                                   *)

\* Where a task that ends its additions at hop i goes to.
TurnsBack(p) ==
    /\ pc[p] \in {"add", "intercept"}
    /\ \/ pc'[p] = "report"
       \/ pc'[p] = "remove" /\ hop'[p] \in 1 .. LastHop(p)

\* The moves of a task.
Moves(p) ==
    \/ pc[p] = "idle" /\ pc'[p] = "dropped"
    \/ pc[p] = "idle" /\ pc'[p] = "add" /\ hop'[p] = 1
    \/ pc[p] = "add" /\ pc'[p] = "intercept" /\ hop'[p] = hop[p]
    \/ /\ pc[p] = "intercept" /\ pc'[p] = "add"
       /\ hop[p] # LastHop(p) /\ hop'[p] = hop[p] + 1
    \/ TurnsBack(p)
    \/ pc[p] = "remove" /\ pc'[p] = "notify" /\ hop'[p] = hop[p]
    \/ pc[p] \in {"remove", "notify"} /\ pc'[p] = "report"
    \/ pc[p] = "notify" /\ pc'[p] = "remove" /\ hop'[p] = hop[p] - 1
    \/ pc[p] = "report" /\ pc'[p] = "done"

\* A step of a task is one of its moves, and the others stay where they are.
LEMMA TaskMoves ==
    ASSUME TasksInv, NEW p \in Payment, DispatchRefused(p) \/ Dispatch(p) \/ TaskStep(p)
    PROVE  Moves(p) /\ \A q \in Payment \ {p} : pc'[q] = pc[q] /\ hop'[q] = hop[q]
<1>1. /\ pc \in [Payment -> {"idle", "dropped", "add", "intercept", "remove",
                             "notify", "report", "done"}]
      /\ hop \in [Payment -> Nat]
      /\ fail_idx \in [Payment -> Nat]
      /\ TaskInv(p)
      /\ LastHop(p) \in Nat /\ LastHop(p) >= 1
  BY RouteFacts DEF TasksInv, TasksTyped
<1> DEFINE OthersStay == \A q \in Payment \ {p} : pc'[q] = pc[q] /\ hop'[q] = hop[q]
<1>2. CASE DispatchRefused(p) \/ Dispatch(p)
  BY <1>1, <1>2 DEF DispatchRefused, Dispatch, Moves
<1>3. ASSUME pc[p] \in {"add", "intercept"},
             \/ \E idx \in 0 .. LastHop(p) : \E err : EndFailed(p, idx, err)
             \/ \E idx, err : EndCritical(p, idx, err)
             \/ EndAdded(p)
      PROVE  TurnsBack(p) /\ OthersStay
  BY <1>1, <1>3 DEF EndFailed, EndCritical, EndAdded, TurnsBack
<1>4. CASE AddRefused(p)
  <2>1. pc[p] = "add" /\ fail_idx[p] \in 0 .. LastHop(p)
    BY <1>1, <1>4 DEF AddRefused, TaskInv
  <2>2. TurnsBack(p) /\ OthersStay
    BY <1>3, <1>4, <2>1 DEF AddRefused
  <2>3. QED
    BY <2>2 DEF Moves
<1>5. CASE AddThenRefused(p)
  <2>1. pc[p] = "add" /\ fail_idx'[p] \in 0 .. LastHop(p)
    BY <1>1, <1>5 DEF AddThenRefused, AddHtlc, TaskInv
  <2>2. TurnsBack(p) /\ OthersStay
    BY <1>3, <1>5, <2>1 DEF AddThenRefused
  <2>3. QED
    BY <2>2 DEF Moves
<1>6. CASE AddThenIntercept(p)
  BY <1>1, <1>6 DEF AddThenIntercept, AddHtlc, Moves
<1>7. CASE InterceptProceed(p)
  <2>1. CASE hop[p] = LastHop(p)
    BY <1>3, <1>7, <2>1 DEF InterceptProceed, Moves
  <2>2. CASE hop[p] # LastHop(p)
    BY <1>1, <1>7, <2>2 DEF InterceptProceed, Moves
  <2>3. QED
    BY <2>1, <2>2
<1>8. CASE InterceptFail(p) \/ InterceptCritical(p)
  <2>1. pc[p] = "intercept" /\ fail_idx[p] \in 0 .. LastHop(p)
    BY <1>1, <1>8 DEF InterceptFail, InterceptCritical, TaskInv
  <2>2. TurnsBack(p) /\ OthersStay
    BY <1>3, <1>8, <2>1 DEF InterceptFail, InterceptCritical
  <2>3. QED
    BY <2>2 DEF Moves
<1>9. CASE Remove(p)
  BY <1>1, <1>9 DEF Remove, Moves
<1>10. CASE Notified(p) \/ NotifyFailed(p) \/ Report(p)
  BY <1>1, <1>10 DEF Notified, NotifyFailed, Report, Moves
<1>11. QED
  BY <1>2, <1>4, <1>5, <1>6, <1>7, <1>8, <1>9, <1>10 DEF TaskStep

\* Every move takes a task at least one step nearer to its end.
LEMMA MovesAdvance ==
    ASSUME TasksInv, TasksInv', NEW p \in Payment, Moves(p)
    PROVE  StepsLeft(p)' \in 0 .. StepsLeft(p) - 1
<1>1. /\ LastHop(p) \in Nat /\ LastHop(p) >= 1
      /\ hop[p] \in Nat /\ hop'[p] \in Nat
  BY RouteFacts DEF TasksInv, TasksTyped
<1>2. /\ pc[p] \in {"add", "intercept", "remove", "notify"} => hop[p] \in 1 .. LastHop(p)
      /\ pc'[p] \in {"add", "intercept", "remove", "notify"} => hop'[p] \in 1 .. LastHop(p)
  BY DEF TasksInv, TaskInv, LastHop
<1>3. LastHop(p)' = LastHop(p)
  BY DEF LastHop
<1>4. CASE pc[p] = "idle"
  BY <1>1, <1>2, <1>3, <1>4 DEF Moves, TurnsBack, StepsLeft
<1>5. CASE pc[p] = "add"
  BY <1>1, <1>2, <1>3, <1>5 DEF Moves, TurnsBack, StepsLeft
<1>6. CASE pc[p] = "intercept"
  BY <1>1, <1>2, <1>3, <1>6 DEF Moves, TurnsBack, StepsLeft
<1>7. CASE pc[p] = "remove"
  BY <1>1, <1>2, <1>3, <1>7 DEF Moves, TurnsBack, StepsLeft
<1>8. CASE pc[p] = "notify"
  BY <1>1, <1>2, <1>3, <1>8 DEF Moves, TurnsBack, StepsLeft
<1>9. CASE pc[p] = "report"
  BY <1>1, <1>3, <1>9 DEF Moves, TurnsBack, StepsLeft
<1>10. QED
  BY <1>4, <1>5, <1>6, <1>7, <1>8, <1>9 DEF Moves, TurnsBack

(***************************************************************************)
(* No payment takes more than 4 L + 2 steps on a route of L hops, whatever *)
(* the others do to the channels it needs: each of its critical sections   *)
(* lowers StepsLeft, which starts at 4 L + 2 and does not go below zero,   *)
(* and no step of another payment changes it.                              *)
(***************************************************************************)
THEOREM PaymentsAdvance == Spec => EveryStepAdvances
<1>1. NetworkInv /\ NetworkInv' /\ [Next]_vars =>
         [\E p \in Payment :
             /\ StepsLeft(p)' \in 0 .. StepsLeft(p) - 1
             /\ \A q \in Payment \ {p} : StepsLeft(q)' = StepsLeft(q)]_vars
  <2> SUFFICES ASSUME NetworkInv, NetworkInv', NEW p \in Payment,
                      DispatchRefused(p) \/ Dispatch(p) \/ TaskStep(p)
               PROVE  /\ StepsLeft(p)' \in 0 .. StepsLeft(p) - 1
                      /\ \A q \in Payment \ {p} : StepsLeft(q)' = StepsLeft(q)
    BY DEF Next
  <2>1. TasksInv /\ TasksInv'
    BY DEF NetworkInv
  <2>2. Moves(p) /\ \A q \in Payment \ {p} : pc'[q] = pc[q] /\ hop'[q] = hop[q]
    BY <2>1, TaskMoves
  <2>3. StepsLeft(p)' \in 0 .. StepsLeft(p) - 1
    BY <2>1, <2>2, MovesAdvance
  <2>4. \A q \in Payment \ {p} : StepsLeft(q)' = StepsLeft(q)
    BY <2>2 DEF StepsLeft, LastHop
  <2>5. QED
    BY <2>3, <2>4
<1>2. QED
  BY <1>1, NetworkInvariant, PTL DEF Spec, EveryStepAdvances

-----------------------------------------------------------------------------
(***************************************************************************)
(* The routes find_route and the dispatchers build: the node a hop leads   *)
(* to is the other end of the hop's channel.  A caller of send_to_route    *)
(* can pass other routes, and for those an event's forwarding node may be  *)
(* the sender itself, so that both directions of a channel are confused.   *)
(***************************************************************************)
RoutesFollowChannels ==
    \A p \in Payment : \A i \in 1 .. LastHop(p) :
        LET s == HopChannel(p, i)
            n == IncomingNode(p, i)
        IN  s \in Scid /\ n \in Ends(Channel[s]) =>
                Hops[p][i].pubkey = Counterparty(Channel[s], n)

(***************************************************************************)
(* On such routes the forwarding node, channel and index of an event name  *)
(* one hop of one payment for ever: an index is not used again when its    *)
(* HTLC has gone.                                                          *)
(***************************************************************************)
THEOREM InterceptorsTellHtlcsApart ==
    ASSUME RoutesFollowChannels
    PROVE  Spec => []EventsAgree
<1>1. NetworkInv => EventsAgree
  <2> SUFFICES ASSUME NetworkInv, NEW e \in intercepted \cup resolved,
                      NEW f \in intercepted \cup resolved
               PROVE  (/\ e.forwarding_node = f.forwarding_node
                       /\ e.channel_id = f.channel_id
                       /\ e.index = f.index)
                          <=> (e.payment = f.payment /\ e.hop = f.hop)
    BY DEF EventsAgree
  <2>1. ASSUME NEW g \in intercepted \cup resolved
        PROVE  /\ g.payment \in Payment /\ g.hop \in 1 .. LastHop(g.payment)
               /\ g.channel_id = HopChannel(g.payment, g.hop)
               /\ g.channel_id \in Scid
               /\ IncomingNode(g.payment, g.hop) \in Ends(Channel[g.channel_id])
               /\ g.forwarding_node = Hops[g.payment][g.hop].pubkey
               /\ g.forwarding_node
                    = Counterparty(Channel[g.channel_id], IncomingNode(g.payment, g.hop))
    <3>1. EventTyped(g)
      BY DEF NetworkInv, EventsInv, Events
    <3>2. /\ g.payment \in Payment /\ g.hop \in 1 .. LastHop(g.payment)
          /\ g.channel_id = HopChannel(g.payment, g.hop)
          /\ g.channel_id \in Scid
          /\ IncomingNode(g.payment, g.hop) \in Ends(Channel[g.channel_id])
      BY <3>1, EventFacts
    <3>3. g.forwarding_node = Hops[g.payment][g.hop].pubkey
      BY <3>1, EventFields DEF EventTyped
    <3>4. QED
      BY <3>2, <3>3 DEF RoutesFollowChannels
  <2>2. EventsOfSide /\ e \in Events /\ f \in Events
    BY DEF NetworkInv, EventsInv, Events
  <2>3. ASSUME e.channel_id = f.channel_id, e.forwarding_node = f.forwarding_node
        PROVE  IncomingNode(e.payment, e.hop) = IncomingNode(f.payment, f.hop)
    <3>1. Channel[e.channel_id].node_1 # Channel[e.channel_id].node_2
      BY <2>1, GraphAssumption DEF channel_validate
    <3>2. /\ IncomingNode(e.payment, e.hop) \in Ends(Channel[e.channel_id])
          /\ IncomingNode(f.payment, f.hop) \in Ends(Channel[e.channel_id])
          /\ Counterparty(Channel[e.channel_id], IncomingNode(e.payment, e.hop))
               = Counterparty(Channel[e.channel_id], IncomingNode(f.payment, f.hop))
      BY <2>1, <2>3
    <3>3. QED
      BY <3>1, <3>2 DEF Counterparty, Ends
  <2>4. ASSUME e.forwarding_node = f.forwarding_node, e.channel_id = f.channel_id,
               e.index = f.index
        PROVE  e.payment = f.payment /\ e.hop = f.hop
    <3>1. SameSide(e.payment, e.hop, f.payment, f.hop)
      BY <2>1, <2>3, <2>4 DEF SameSide
    <3>2. QED
      BY <2>2, <2>4, <3>1 DEF EventsOfSide
  <2>5. ASSUME e.payment = f.payment, e.hop = f.hop
        PROVE  /\ e.forwarding_node = f.forwarding_node
               /\ e.channel_id = f.channel_id
               /\ e.index = f.index
    <3>1. SameSide(e.payment, e.hop, f.payment, f.hop)
      BY <2>5 DEF SameSide
    <3>2. e.index = f.index
      BY <2>2, <2>5, <3>1 DEF EventsOfSide
    <3>3. QED
      BY <2>1, <2>5, <3>2
  <2>6. QED
    BY <2>4, <2>5
<1>2. QED
  BY <1>1, NetworkInvariant, PTL

-----------------------------------------------------------------------------
(* The refinement of ChannelContract.  The contract has its own copy of    *)
(* the operators of SimulatedChannel, so each is first shown to be equal.  *)

\* in_flight_total.
LEMMA SameTotal ==
    ASSUME NEW s, NEW side
    PROVE  Contract(s)!in_flight_total(side) = in_flight_total(side)
  BY Zenon DEF Contract!in_flight_total, in_flight_total, Contract!SumFunction, SumFunction,
     Contract!SumFunctionOnSet, SumFunctionOnSet, Contract!FoldFunctionOnSet, FoldFunctionOnSet,
     Contract!MapThenFoldSet, MapThenFoldSet

\* sanity_check.
LEMMA SameSanity ==
    ASSUME NEW s, NEW c, NEW sides
    PROVE  Contract(s)!sanity_check(c, sides) = sanity_check(c, sides)
<1>1. Contract(s)!channel_balance(c, sides) = channel_balance(c, sides)
  BY SameTotal, Zenon DEF Contract!channel_balance, channel_balance
<1>2. QED
  BY <1>1, Zenon DEF Contract!sanity_check, sanity_check

\* The ends of a channel.
LEMMA SameEnds ==
    ASSUME NEW s, NEW c, NEW n
    PROVE  /\ Contract(s)!Ends(c) = Ends(c)
           /\ Contract(s)!Counterparty(c, n) = Counterparty(c, n)
BY Zenon DEF Contract!Ends, Ends, Contract!Counterparty, Counterparty

\* add_htlc and its errors.
LEMMA SameAdd ==
    ASSUME NEW s, NEW c, NEW sides, NEW n, NEW h, NEW htlc
    PROVE  /\ Contract(s)!add_htlc_error(c, sides, n, h, htlc)
                 = add_htlc_error(c, sides, n, h, htlc)
           /\ Contract(s)!add_htlc(c, sides, n, h, htlc) = add_htlc(c, sides, n, h, htlc)
<1>1. ASSUME NEW side, NEW policy, NEW counterparty
      PROVE  Contract(s)!check_outgoing_addition(side, policy, counterparty, htlc)
                = check_outgoing_addition(side, policy, counterparty, htlc)
  <2>1. Contract(s)!Cardinality(DOMAIN side.in_flight) = Cardinality(DOMAIN side.in_flight)
    BY Zenon DEF Contract!Cardinality, Cardinality
  <2>2. Contract(s)!in_flight_total(side) = in_flight_total(side)
    BY SameTotal, Zenon
  <2>3. QED
    BY <2>1, <2>2, SMT DEF Contract!check_outgoing_addition, check_outgoing_addition
<1>2. ASSUME NEW side, NEW policy, NEW counterparty
      PROVE  Contract(s)!add_outgoing_error(side, policy, counterparty, h, htlc)
                = add_outgoing_error(side, policy, counterparty, h, htlc)
  BY <1>1, Zenon DEF Contract!add_outgoing_error, add_outgoing_error
<1>3. Contract(s)!add_htlc_error(c, sides, n, h, htlc) = add_htlc_error(c, sides, n, h, htlc)
  BY <1>2, SameEnds, SameSanity, Zenon DEF Contract!add_htlc_error, add_htlc_error
<1>4. Contract(s)!add_htlc(c, sides, n, h, htlc) = add_htlc(c, sides, n, h, htlc)
  BY Zenon DEF Contract!add_htlc, Contract!add_outgoing_htlc, add_htlc, add_outgoing_htlc
<1>5. QED
  BY <1>3, <1>4

\* remove_htlc and its errors.
LEMMA SameRemove ==
    ASSUME NEW s, NEW c, NEW sides, NEW n, NEW h, NEW ok
    PROVE  /\ Contract(s)!remove_htlc_error(c, sides, n, h, ok)
                 = remove_htlc_error(c, sides, n, h, ok)
           /\ Contract(s)!remove_htlc(c, sides, n, h, ok) = remove_htlc(c, sides, n, h, ok)
<1>1. Contract(s)!remove_htlc(c, sides, n, h, ok) = remove_htlc(c, sides, n, h, ok)
  BY Zenon DEF Contract!remove_htlc, Contract!settle_htlc, Contract!remove_outgoing_htlc,
     Contract!settle_incoming_htlc, Contract!settle_outgoing_htlc, Contract!Ends,
     remove_htlc, settle_htlc, remove_outgoing_htlc, settle_incoming_htlc,
     settle_outgoing_htlc, Ends
<1>2. Contract(s)!remove_htlc_error(c, sides, n, h, ok) = remove_htlc_error(c, sides, n, h, ok)
  BY <1>1, SameEnds, SameSanity, Zenon
     DEF Contract!remove_htlc_error, Contract!remove_outgoing_error,
         remove_htlc_error, remove_outgoing_error
<1>3. QED
  BY <1>1, <1>2

\* An addition of the network is one of the contract.
LEMMA ContractAdds ==
    ASSUME ChannelsInv, NEW p \in Payment, NEW i \in 1 .. LastHop(p), Adds(p, i),
           NEW s \in Scid
    PROVE  Contract(s)!Next \/ channels'[s] = channels[s]
<1> DEFINE n == IncomingNode(p, i)
           h == PaymentHash[p]
<1>1. /\ n \in Node /\ h \in Hash
      /\ Hops[p][i].amount \in Msat /\ Hops[p][i].expiry \in Height
  BY RouteFacts
<1>2. s # HopChannel(p, i) => channels'[s] = channels[s]
  BY DEF Adds, ChannelsInv
<1> SUFFICES ASSUME s = HopChannel(p, i) PROVE Contract(s)!Next
  BY <1>2
<1>3. /\ add_htlc_error(Channel[s], channels[s], n, h, RouteHtlc(p, i)) = "Ok"
      /\ channels'[s] = add_htlc(Channel[s], channels[s], n, h, RouteHtlc(p, i))
  BY DEF Adds, ChannelsInv
<1> HIDE DEF n, h
<1>4. Contract(s)!AddHtlc(n, h, RouteHtlc(p, i))
  <2>1. Contract(s)!add_htlc_error(Channel[s], channels[s], n, h, RouteHtlc(p, i)) = "Ok"
    BY <1>3, SameAdd, SMT
  <2>2. channels'[s] = Contract(s)!add_htlc(Channel[s], channels[s], n, h, RouteHtlc(p, i))
    BY <1>3, SameAdd, SMT
  <2>3. QED
    BY <2>1, <2>2, Zenon DEF Contract!AddHtlc
<1>5. \E amt \in Msat, cltv \in Height :
         Contract(s)!AddHtlc(n, h, [amount_msat |-> amt, cltv_expiry |-> cltv])
  BY <1>1, <1>4, Zenon DEF RouteHtlc
<1>6. QED
  BY <1>1, <1>5, Zenon DEF Contract!Next

\* So is a removal, which finds the HTLC it is after.
LEMMA ContractRemoves ==
    ASSUME ChannelsInv, HtlcOwnership, NEW p \in Payment, NEW i \in 1 .. LastHop(p),
           Removes(p, i), NEW s \in Scid
    PROVE  Contract(s)!Next \/ channels'[s] = channels[s]
<1> DEFINE n == IncomingNode(p, i)
           h == PaymentHash[p]
<1>1. n \in Node /\ h \in Hash
  BY RouteFacts
<1>2. s # HopChannel(p, i) => channels'[s] = channels[s]
  BY DEF Removes, ChannelsInv
<1> SUFFICES ASSUME s = HopChannel(p, i) PROVE Contract(s)!Next
  BY <1>2
<1>3. /\ remove_htlc_error(Channel[s], channels[s], n, h, success[p])
            \in {"Ok", "SanityCheckFailed"}
      /\ success[p] \in BOOLEAN
      /\ channels'[s] = remove_htlc(Channel[s], channels[s], n, h, success[p])
  BY DEF Removes, ChannelsInv
<1> HIDE DEF n, h
<1>4. Contract(s)!RemoveHtlc(n, h, success[p])
  <2>1. Contract(s)!remove_htlc_error(Channel[s], channels[s], n, h, success[p])
           \in {"Ok", "SanityCheckFailed"}
    BY <1>3, SameRemove, SMT
  <2>2. channels'[s] = Contract(s)!remove_htlc(Channel[s], channels[s], n, h, success[p])
    BY <1>3, SameRemove, SMT
  <2>3. QED
    BY <2>1, <2>2, Zenon DEF Contract!RemoveHtlc
<1>5. QED
  BY <1>1, <1>3, <1>4, Zenon DEF Contract!Next

(***************************************************************************)
(* The network implements ChannelContract for each of its channels: a      *)
(* channel starts as the contract says, and every step of any task is, for *)
(* every channel, an operation of the contract or leaves it alone.  What   *)
(* ChannelProofs shows of the contract holds of every channel of every     *)
(* network.                                                                *)
(***************************************************************************)
THEOREM NetworkImplementsContract == Spec => ChannelsKeepContract
<1>1. Init => \A s \in Scid : Contract(s)!Init
  <2> SUFFICES ASSUME Init, NEW s \in Scid PROVE Contract(s)!Init
    OBVIOUS
  <2>1. channels[s] = SimulatedChannel_new(Channel[s])
    BY DEF Init
  <2>2. Contract(s)!SimulatedChannel_new(Channel[s]) = SimulatedChannel_new(Channel[s])
    BY Zenon DEF Contract!SimulatedChannel_new, Contract!ChannelState_new, Contract!NoHtlcs,
                 Contract!Ends, SimulatedChannel_new, ChannelState_new, NoHtlcs, Ends
  <2>3. QED
    BY <2>1, <2>2, Zenon DEF Contract!Init
<1>2. NetworkInv /\ [Next]_vars
         => [\A s \in Scid : [Contract(s)!Next]_(channels[s])]_channels
  <2> SUFFICES ASSUME NetworkInv, [Next]_vars, NEW s \in Scid
               PROVE  Contract(s)!Next \/ channels'[s] = channels[s]
    BY Zenon
  <2>1. ChannelsInv /\ TasksInv /\ HtlcOwnership
    BY DEF NetworkInv
  <2>2. CASE Quiet
    BY <2>2 DEF Quiet
  <2>3. ASSUME NEW p \in Payment, NEW i \in 1 .. LastHop(p), Adds(p, i)
        PROVE  Contract(s)!Next \/ channels'[s] = channels[s]
    BY <2>1, <2>3, ContractAdds, Zenon
  <2>4. ASSUME NEW p \in Payment, NEW i \in 1 .. LastHop(p), Removes(p, i)
        PROVE  Contract(s)!Next \/ channels'[s] = channels[s]
    BY <2>1, <2>4, ContractRemoves, Zenon
  <2>5. QED
    BY <2>1, <2>2, <2>3, <2>4, StepKind
<1>3. QED
  BY <1>1, <1>2, NetworkInvariant, PTL DEF Spec, ChannelsKeepContract

===============================================================================
