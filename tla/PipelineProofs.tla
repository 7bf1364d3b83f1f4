---------------------------- MODULE PipelineProofs ----------------------------
(***************************************************************************)
(* TypeOK, EachPaymentOnce, FileFollowsReports and NobodyWaitsInACircle of *)
(* ResultsPipeline, for any set of payments, any channel capacity and any  *)
(* batch size.                                                             *)
(*                                                                         *)
(* EachPaymentOnce counts the copies of a payment.  The inductive form     *)
(* says where they can be: what is past send_payment is in one of five     *)
(* places, at one position of it, and none of it exists before its sender  *)
(* has ended (OnceInv).  That nothing is lost needs, besides, that the     *)
(* consumer does not end by itself while somebody can still send to it     *)
(* (CalmInv).  FileFollowsReports needs the counter of the BatchedWriter   *)
(* to be the number of records in the buffer (FileInv), and                *)
(* NobodyWaitsInACircle that a channel without a receiver is empty         *)
(* (ClosedInv).                                                            *)
(***************************************************************************)
EXTENDS ResultsPipeline, FiniteSetTheorems, SequenceTheorems, TLAPS

-----------------------------------------------------------------------------
(* The inductive invariant, by parts.                                      *)

In(p, s) == \E i \in DOMAIN s : s[i] = p

Distinct(s) == \A i, j \in DOMAIN s : s[i] = s[j] => i = j

Tracked(p) == tracker[p] \in {"track", "send"}

\* Payment p is past its send_payment task.
Downstream(p) ==
    In(p, output) \/ psr_payment = p \/ Tracked(p) \/ In(p, results) \/ In(p, reported)

\* No two of the five places hold payment p.
OnePlace(p) ==
    /\ In(p, output) => ~ (psr_payment = p \/ Tracked(p) \/ In(p, results) \/ In(p, reported))
    /\ psr_payment = p => ~ (Tracked(p) \/ In(p, results) \/ In(p, reported))
    /\ Tracked(p) => ~ (In(p, results) \/ In(p, reported))
    /\ In(p, results) => ~ In(p, reported)

OnceInv ==
    /\ Distinct(output) /\ Distinct(results) /\ Distinct(reported)
    /\ \A p \in Payment : OnePlace(p)
    /\ \A p \in Payment : Downstream(p) => sender[p] = "ended"

\* Nobody was told to stop, and the consumer has not failed.
Calm == ~ shutdown /\ csr # "trigger"

CalmInv ==
    /\ csr = "failed" => shutdown
    /\ csr = "ended" /\ ~ shutdown => /\ psr \in {"trigger", "ended"}
                                      /\ \A p \in Payment : ~ Tracked(p)
    /\ Calm => \A p \in Payment : sender[p] = "ended" => Downstream(p)

FileInv ==
    WriteResults =>
        /\ csr \in {"open", "run"} => /\ writer.disk \o writer.buffered = reported
                                      /\ Len(writer.buffered) = writer.counter
                                      /\ writer.counter < BatchSize
        /\ csr = "ended" => writer.disk = reported

PipelineInv == TypeOK /\ OnceInv /\ CalmInv /\ FileInv

-----------------------------------------------------------------------------
(* Sequences: what a channel and the list of reports hold.                 *)

\* Append adds one member, and keeps the members different if it was none.
LEMMA InAppend ==
  ASSUME NEW S, NEW s \in Seq(S), NEW x \in S
  PROVE  /\ Append(s, x) \in Seq(S) /\ Len(Append(s, x)) = Len(s) + 1
         /\ \A p : In(p, Append(s, x)) <=> In(p, s) \/ p = x
         /\ Distinct(s) /\ ~ In(x, s) => Distinct(Append(s, x))
  <1> DEFINE t == Append(s, x)
  <1>1. /\ t \in Seq(S) /\ DOMAIN t = 1 .. Len(s) + 1 /\ Len(t) = Len(s) + 1
        /\ DOMAIN s = 1 .. Len(s) /\ Len(s) \in Nat
        /\ t[Len(s) + 1] = x /\ \A i \in 1 .. Len(s) : t[i] = s[i]
    OBVIOUS
  <1> HIDE DEF t
  <1>2. \A i \in DOMAIN t : i \in DOMAIN s \/ i = Len(s) + 1
    BY <1>1
  <1>3. ASSUME NEW p PROVE In(p, t) <=> In(p, s) \/ p = x
    BY <1>1, <1>2 DEF In
  <1>4. ASSUME Distinct(s), ~ In(x, s) PROVE Distinct(t)
    BY <1>1, <1>2, <1>4 DEF In, Distinct
  <1>5. QED BY <1>1, <1>3, <1>4 DEF t

\* Tail takes the first member away, and it was there once if the members differ.
LEMMA InTail ==
  ASSUME NEW S, NEW s \in Seq(S), s # <<>>
  PROVE  /\ Head(s) \in S /\ Tail(s) \in Seq(S) /\ Len(Tail(s)) = Len(s) - 1
         /\ In(Head(s), s)
         /\ \A p : In(p, s) <=> In(p, Tail(s)) \/ p = Head(s)
         /\ Distinct(s) => Distinct(Tail(s)) /\ ~ In(Head(s), Tail(s))
  <1> DEFINE t == Tail(s)
  <1>1. /\ t \in Seq(S) /\ Len(t) = Len(s) - 1 /\ DOMAIN t = 1 .. Len(s) - 1
        /\ DOMAIN s = 1 .. Len(s) /\ Len(s) \in Nat \ {0}
        /\ Head(s) = s[1] /\ Head(s) \in S
        /\ \A i \in 1 .. Len(s) - 1 : t[i] = s[i + 1]
    OBVIOUS
  <1> HIDE DEF t
  <1>2. \A i \in DOMAIN s : i = 1 \/ (i - 1 \in DOMAIN t /\ t[i - 1] = s[i])
    BY <1>1
  <1>3. \A i \in DOMAIN t : i + 1 \in DOMAIN s /\ t[i] = s[i + 1] /\ i + 1 # 1
    BY <1>1
  <1>4. 1 \in DOMAIN s /\ s[1] = Head(s)
    BY <1>1
  <1>5. ASSUME NEW p PROVE In(p, s) <=> In(p, t) \/ p = Head(s)
    BY <1>2, <1>3, <1>4 DEF In
  <1>6. ASSUME Distinct(s) PROVE Distinct(t) /\ ~ In(Head(s), t)
    <2>1. ASSUME NEW i \in DOMAIN t, NEW j \in DOMAIN t, t[i] = t[j] PROVE i = j
      BY <1>1, <1>3, <1>6, <2>1 DEF Distinct
    <2>2. ~ In(Head(s), t)
      BY <1>3, <1>4, <1>6 DEF Distinct, In
    <2>3. QED BY <2>1, <2>2 DEF Distinct
  <1>7. QED BY <1>1, <1>4, <1>5, <1>6 DEF t, In

\* Nothing is in a channel whose receiver has gone.
LEMMA InEmpty == (\A p : ~ In(p, <<>>)) /\ Distinct(<<>>)
  BY DEF In, Distinct

-----------------------------------------------------------------------------
(* BatchedWriter.                                                          *)

\* A forced write, or the flush of a full batch, empties the buffer to the file.
LEMMA FlushType ==
  ASSUME NEW w \in [counter : 0 .. BatchSize, buffered : Seq(Payment), disk : Seq(Payment)]
  PROVE  /\ flush(w) \in [counter : 0 .. BatchSize, buffered : Seq(Payment), disk : Seq(Payment)]
         /\ flush(w).disk \o flush(w).buffered = w.disk \o w.buffered
         /\ flush(w).disk = w.disk \o w.buffered
         /\ flush(w).buffered = <<>> /\ flush(w).counter = 0
  <1>1. w.disk \o w.buffered \in Seq(Payment)
    BY ConcatProperties
  <1>2. (w.disk \o w.buffered) \o <<>> = w.disk \o w.buffered
    BY <1>1, ConcatEmptySeq
  <1>3. QED BY <1>1, <1>2, PipelineAssumption DEF flush

\* A record that is serialized goes to the end of the buffer.
LEMMA SerializeType ==
  ASSUME NEW w \in [counter : 0 .. BatchSize, buffered : Seq(Payment), disk : Seq(Payment)],
         NEW p \in Payment
  PROVE  /\ serialize(w, p) \in [counter : 0 .. BatchSize, buffered : Seq(Payment), disk : Seq(Payment)]
         /\ serialize(w, p).disk \o serialize(w, p).buffered = Append(w.disk \o w.buffered, p)
         /\ Len(serialize(w, p).buffered) = Len(w.buffered) + 1
         /\ w.counter < BatchSize => serialize(w, p).counter = w.counter + 1
  <1> DEFINE v == serialize(w, p)
  <1>1. /\ v.counter = (w.counter % BatchSize) + 1 /\ v.buffered = Append(w.buffered, p)
        /\ v.disk = w.disk
    BY DEF serialize
  <1>2. w.counter \in Nat /\ BatchSize \in Nat \ {0}
    BY PipelineAssumption
  <1>3. v.counter \in 0 .. BatchSize /\ (w.counter < BatchSize => v.counter = w.counter + 1)
    <2>1. \A a \in Nat, b \in Nat \ {0} : a % b \in 0 .. b - 1 /\ (a < b => a % b = a)
      OBVIOUS
    <2>2. w.counter % BatchSize \in 0 .. BatchSize - 1
          /\ (w.counter < BatchSize => w.counter % BatchSize = w.counter)
      BY <1>2, <2>1
    <2>3. QED BY <1>1, <1>2, <2>2
  <1>4. v.disk \o v.buffered = Append(w.disk \o w.buffered, p)
    <2>1. w.disk \in Seq(Payment) /\ w.buffered \in Seq(Payment) /\ <<p>> \in Seq(Payment)
      OBVIOUS
    <2>2. w.disk \o (w.buffered \o <<p>>) = (w.disk \o w.buffered) \o <<p>>
      BY <2>1, ConcatAssociative
    <2>3. QED BY <1>1, <2>1, <2>2, AppendIsConcat, ConcatProperties
  <1>5. v.buffered \in Seq(Payment) /\ Len(v.buffered) = Len(w.buffered) + 1
    BY <1>1, InAppend
  <1>6. v \in [counter : 0 .. BatchSize, buffered : Seq(Payment), disk : Seq(Payment)]
    BY <1>1, <1>3, <1>5 DEF serialize
  <1>7. QED BY <1>3, <1>4, <1>5, <1>6

-----------------------------------------------------------------------------
(* Types.                                                                  *)

\* The types hold initially.
LEMMA InitType == Init => TypeOK
  BY PipelineAssumption DEF Init, TypeOK, BatchedWriter_new

\* One entry of a function changes.
LEMMA UpdateType ==
  ASSUME NEW T, NEW f \in [Payment -> T], NEW p \in Payment, NEW v \in T
  PROVE  [f EXCEPT ![p] = v] \in [Payment -> T]
  OBVIOUS

\* The steps that move no payment between channels.
LEMMA QuietType ==
  ASSUME TypeOK, UNCHANGED <<output, psr_payment, results, writer, reported>>,
         cause' \in {cause, "setup", "interrupt", "timer", "producer", "sender", "psr", "csr"},
         run' \in {"setup", "wait", "returned", "failed"},
         producer' \in {"none", "run", "trigger", "ended"},
         timer' \in {"none", "run", "ended"}, logger' \in {"run", "ended"},
         sender' \in [Payment -> {"none", "call", "output", "trigger", "ended", "panicked"}],
         dispatched' \in [Payment -> BOOLEAN],
         psr' = psr \/ (psr # "send" /\ psr' \in {"trigger", "ended"}),
         tracker' \in [Payment -> {"none", "track", "send", "ended"}],
         csr' \in {"open", "run", "trigger", "ended", "failed"}
  PROVE  TypeOK'
  BY DEF TypeOK

\* Every step keeps the types.
LEMMA StepType == TypeOK /\ [Next]_vars => TypeOK'
  <1> SUFFICES ASSUME TypeOK, [Next]_vars PROVE TypeOK'
    OBVIOUS
  <1> USE DEF runVars, sendVars, psrVars, csrVars
  <1>1. CASE SetupDone \/ SetupFails \/ RunReturns \/ Interrupt \/ TimerEnds \/ LoggerEnds
             \/ ProducerReturns \/ ProducerTriggers
    BY <1>1, QuietType DEF SetupDone, SetupFails, RunReturns, Interrupt, TimerEnds, LoggerEnds,
       ProducerReturns, ProducerTriggers, Trigger, TypeOK
  <1>2. CASE PsrClosed \/ PsrTriggers \/ CsrTriggers
    BY <1>2, QuietType DEF PsrClosed, PsrTriggers, CsrTriggers, Trigger, TypeOK
  <1>3. ASSUME NEW p \in Payment,
               ProducePayment(p) \/ SendReturns(p) \/ SenderTriggers(p) \/ TrackReturns(p)
               \/ TrackerStops(p)
        PROVE  TypeOK'
    <2>1. \A v \in {"none", "call", "output", "trigger", "ended", "panicked"} : [sender EXCEPT ![p] = v]
             \in [Payment -> {"none", "call", "output", "trigger", "ended", "panicked"}]
      BY UpdateType DEF TypeOK
    <2>2. \A v \in {"none", "track", "send", "ended"} : [tracker EXCEPT ![p] = v]
             \in [Payment -> {"none", "track", "send", "ended"}]
      BY UpdateType DEF TypeOK
    <2>3. \A v \in BOOLEAN : [dispatched EXCEPT ![p] = v] \in [Payment -> BOOLEAN]
      BY UpdateType DEF TypeOK
    <2>4. CASE ProducePayment(p)
      BY <2>1, <2>4, QuietType DEF ProducePayment, TypeOK
    <2>5. CASE SendReturns(p)
      <3>1. dispatched' \in [Payment -> BOOLEAN]
        BY <2>3, <2>5 DEF SendReturns, TypeOK
      <3>2. sender' \in [Payment -> {"none", "call", "output", "trigger", "ended", "panicked"}]
        BY <2>1, <2>5 DEF SendReturns
      <3>3. QED BY <2>5, <3>1, <3>2, QuietType DEF SendReturns, TypeOK
    <2>6. CASE SenderTriggers(p)
      BY <2>1, <2>6, QuietType DEF SenderTriggers, Trigger, TypeOK
    <2>7. CASE TrackReturns(p) \/ TrackerStops(p)
      <3>1. tracker' \in [Payment -> {"none", "track", "send", "ended"}]
        BY <2>2, <2>7 DEF TrackReturns, TrackerStops
      <3>2. UNCHANGED <<cause, runVars, sendVars, psrVars, results, csrVars>>
        BY <2>7 DEF TrackReturns, TrackerStops
      <3>3. QED BY <3>1, <3>2, QuietType DEF TypeOK
    <2>8. QED BY <1>3, <2>4, <2>5, <2>6, <2>7
  <1>4. ASSUME NEW p \in Payment, OutputSend(p) PROVE TypeOK'
    <2>1. CASE OutputOpen
      <3>1. Append(output, p) \in Seq(Payment) /\ Len(Append(output, p)) = Len(output) + 1
        BY InAppend DEF TypeOK
      <3>2. Len(output) + 1 <= ChannelSize
        BY <1>4, <2>1, PipelineAssumption DEF OutputSend, TypeOK
      <3>3. output' \in Seq(Payment) /\ Len(output') <= ChannelSize
        BY <1>4, <2>1, <3>1, <3>2 DEF OutputSend
      <3>4. sender' \in [Payment -> {"none", "call", "output", "trigger", "ended", "panicked"}]
        BY <1>4, <2>1, UpdateType DEF OutputSend, TypeOK
      <3>5. QED BY <1>4, <3>3, <3>4 DEF OutputSend, TypeOK
    <2>2. CASE ~ OutputOpen
      BY <1>4, <2>2, QuietType DEF OutputSend, TypeOK
    <2>3. QED BY <2>1, <2>2
  <1>5. ASSUME NEW p \in Payment, TrackerSend(p) PROVE TypeOK'
    <2>1. Append(results, p) \in Seq(Payment) /\ Len(Append(results, p)) = Len(results) + 1
      BY InAppend DEF TypeOK
    <2>2. Len(results) + 1 <= ChannelSize
      BY <1>5, PipelineAssumption DEF TrackerSend, TypeOK
    <2>3. QED BY <1>5, <2>1, <2>2 DEF TrackerSend, TypeOK
  <1>6. CASE PsrReceive
    <2>1. /\ Head(output) \in Payment /\ Tail(output) \in Seq(Payment)
          /\ Len(Tail(output)) <= ChannelSize
      BY <1>6, InTail, PipelineAssumption DEF PsrReceive, TypeOK
    <2>2. CASE dispatched[Head(output)]
      <3>1. tracker' \in [Payment -> {"none", "track", "send", "ended"}]
        BY <1>6, <2>1, <2>2, UpdateType DEF PsrReceive, TypeOK
      <3>2. QED BY <1>6, <2>1, <2>2, <3>1 DEF PsrReceive, TypeOK
    <2>3. CASE ~ dispatched[Head(output)]
      BY <1>6, <2>1, <2>3 DEF PsrReceive, TypeOK
    <2>4. QED BY <2>2, <2>3
  <1>7. CASE PsrSend
    <2>1. psr_payment \in Payment
      BY <1>7 DEF PsrSend, TypeOK
    <2>2. /\ Append(results, psr_payment) \in Seq(Payment)
          /\ Len(Append(results, psr_payment)) = Len(results) + 1
      BY <2>1, InAppend DEF TypeOK
    <2>3. Len(results) + 1 <= ChannelSize
      BY <1>7, PipelineAssumption DEF PsrSend, TypeOK
    <2>4. QED BY <1>7, <2>2, <2>3, PipelineAssumption DEF PsrSend, TypeOK
  <1>8. CASE PsrStops
    BY <1>8, PipelineAssumption DEF PsrStops, TypeOK
  <1>9. CASE CsrOpens
    <2>1. results' \in Seq(Payment) /\ Len(results') <= ChannelSize
      <3>1. results' = results \/ results' = <<>>
        BY <1>9 DEF CsrOpens
      <3>2. CASE results' = results
        BY <3>2 DEF TypeOK
      <3>3. CASE results' = <<>>
        BY <3>3, PipelineAssumption
      <3>4. QED BY <3>1, <3>2, <3>3
    <2>2. csr' \in {"open", "run", "trigger", "ended", "failed"}
      BY <1>9 DEF CsrOpens
    <2>3. QED BY <1>9, <2>1, <2>2 DEF CsrOpens, TypeOK
  <1>10. ASSUME results # <<>>
         PROVE  /\ Head(results) \in Payment /\ Tail(results) \in Seq(Payment)
                /\ Len(Tail(results)) <= ChannelSize
                /\ Append(reported, Head(results)) \in Seq(Payment)
    <2>1. /\ Head(results) \in Payment /\ Tail(results) \in Seq(Payment)
          /\ Len(Tail(results)) = Len(results) - 1
      BY <1>10, InTail DEF TypeOK
    <2>2. Len(Tail(results)) <= ChannelSize
      BY <2>1, PipelineAssumption DEF TypeOK
    <2>3. QED BY <2>1, <2>2, InAppend DEF TypeOK
  <1>11. CASE CsrReceive
    <2>1. Head(results) \in Payment
      BY <1>10, <1>11 DEF CsrReceive
    <2>2. serialize(writer, Head(results))
             \in [counter : 0 .. BatchSize, buffered : Seq(Payment), disk : Seq(Payment)]
      BY <2>1, SerializeType DEF TypeOK
    <2>3. queue(writer, Head(results))
             \in [counter : 0 .. BatchSize, buffered : Seq(Payment), disk : Seq(Payment)]
      BY <2>2, FlushType DEF queue, write
    <2>4. writer' \in [counter : 0 .. BatchSize, buffered : Seq(Payment), disk : Seq(Payment)]
      BY <1>11, <2>3 DEF CsrReceive, TypeOK
    <2>5. QED BY <1>10, <1>11, <2>4 DEF CsrReceive, TypeOK
  <1>12. CASE CsrReceiveFails
    <2>1. writer' \in [counter : 0 .. BatchSize, buffered : Seq(Payment), disk : Seq(Payment)]
      BY <1>12, FlushType DEF CsrReceiveFails, write, TypeOK
    <2>2. QED BY <1>10, <1>12, <2>1, PipelineAssumption DEF CsrReceiveFails, TypeOK
  <1>13. CASE CsrFlushFails
    <2>1. Head(results) \in Payment
      BY <1>10, <1>13 DEF CsrFlushFails
    <2>2. serialize(writer, Head(results))
             \in [counter : 0 .. BatchSize, buffered : Seq(Payment), disk : Seq(Payment)]
      BY <2>1, SerializeType DEF TypeOK
    <2>3. writer' \in [counter : 0 .. BatchSize, buffered : Seq(Payment), disk : Seq(Payment)]
      <3>1. ASSUME NEW w \in [counter : 0 .. BatchSize, buffered : Seq(Payment), disk : Seq(Payment)]
            PROVE  [w EXCEPT !.counter = 0]
                      \in [counter : 0 .. BatchSize, buffered : Seq(Payment), disk : Seq(Payment)]
        BY PipelineAssumption
      <3>2. QED BY <1>13, <2>2, <3>1 DEF CsrFlushFails
    <2>4. QED BY <1>10, <1>13, <2>3, PipelineAssumption DEF CsrFlushFails, TypeOK
  <1>14. CASE CsrStops
    <2>1. writer' \in [counter : 0 .. BatchSize, buffered : Seq(Payment), disk : Seq(Payment)]
      BY <1>14, FlushType, PipelineAssumption DEF CsrStops, write, TypeOK
    <2>2. csr' \in {"open", "run", "trigger", "ended", "failed"}
      BY <1>14 DEF CsrStops
    <2>3. results' \in Seq(Payment) /\ Len(results') <= ChannelSize
      BY <1>14, PipelineAssumption DEF CsrStops
    <2>4. QED BY <1>14, <2>1, <2>2, <2>3 DEF CsrStops, TypeOK
  <1>15. CASE UNCHANGED vars
    BY <1>15 DEF vars, TypeOK
  <1>16. QED
    BY <1>1, <1>2, <1>3, <1>4, <1>5, <1>6, <1>7, <1>8, <1>9, <1>11, <1>12, <1>13, <1>14,
       <1>15 DEF Next

-----------------------------------------------------------------------------
(* The places of a payment.                                                *)

PlacesInv == OnceInv /\ CalmInv

\* No payment is anywhere yet.
LEMMA InitPlaces == Init => PlacesInv
  BY InEmpty, PipelineAssumption
     DEF Init, PlacesInv, OnceInv, CalmInv, OnePlace, Downstream, Tracked, Calm, shutdown

\* Once the shutdown is asked for it stays so, and a failed consumer asks for it.
LEMMA CalmOnlyEnds ==
  ASSUME TypeOK, [Next]_vars
  PROVE  (shutdown => shutdown') /\ (Calm' => Calm)
  <1> USE DEF runVars, sendVars, psrVars, csrVars, shutdown, Calm, Trigger
  <1>1. CASE SetupDone \/ SetupFails \/ RunReturns \/ Interrupt \/ TimerEnds \/ LoggerEnds
             \/ ProducerReturns \/ ProducerTriggers
    BY <1>1 DEF SetupDone, SetupFails, RunReturns, Interrupt, TimerEnds, LoggerEnds,
       ProducerReturns, ProducerTriggers
  <1>2. CASE PsrReceive \/ PsrClosed \/ PsrSend \/ PsrStops \/ PsrTriggers
    BY <1>2 DEF PsrReceive, PsrClosed, PsrSend, PsrStops, PsrTriggers
  <1>3. CASE CsrOpens \/ CsrReceive \/ CsrReceiveFails \/ CsrFlushFails \/ CsrStops \/ CsrTriggers
    BY <1>3 DEF CsrOpens, CsrReceive, CsrReceiveFails, CsrFlushFails, CsrStops, CsrTriggers
  <1>4. ASSUME NEW p \in Payment,
               \/ ProducePayment(p) \/ SendReturns(p) \/ OutputSend(p) \/ SenderTriggers(p)
               \/ TrackReturns(p) \/ TrackerSend(p) \/ TrackerStops(p)
        PROVE  (shutdown => shutdown') /\ (Calm' => Calm)
    BY <1>4 DEF ProducePayment, SendReturns, OutputSend, SenderTriggers, TrackReturns, TrackerSend,
       TrackerStops
  <1>5. CASE UNCHANGED vars
    BY <1>5 DEF vars
  <1>6. QED BY <1>1, <1>2, <1>3, <1>4, <1>5 DEF Next

\* The steps that add no payment to any place: nothing is duplicated.
LEMMA ShrinkOnce ==
  ASSUME OnceInv,
         Distinct(output'), Distinct(results'), Distinct(reported'),
         \A p \in Payment : In(p, output') => In(p, output),
         \A p \in Payment : psr_payment' = p => psr_payment = p,
         \A p \in Payment : Tracked(p)' => Tracked(p),
         \A p \in Payment : In(p, results') => In(p, results),
         \A p \in Payment : In(p, reported') => In(p, reported),
         \A p \in Payment : sender[p] = "ended" => sender'[p] = "ended"
  PROVE  OnceInv'
  BY DEF OnceInv, OnePlace, Downstream

\* The steps that take none away, as long as nothing fails: nothing is lost.
LEMMA KeepCalm ==
  ASSUME TypeOK, [Next]_vars, CalmInv,
         csr' = "failed" => shutdown',
         csr' = "ended" /\ ~ shutdown' => /\ psr' \in {"trigger", "ended"}
                                          /\ \A p \in Payment : ~ Tracked(p)',
         Calm' => \A p \in Payment : Downstream(p) => Downstream(p)',
         Calm' => \A p \in Payment : sender'[p] = "ended" => sender[p] = "ended" \/ Downstream(p)'
  PROVE  CalmInv'
  <1>1. (shutdown => shutdown') /\ (Calm' => Calm)
    BY CalmOnlyEnds
  <1>2. QED BY <1>1 DEF CalmInv

\* send_payment puts its payment into the output channel.
LEMMA OutputSendPlaces ==
  ASSUME TypeOK, PlacesInv, NEW q \in Payment, OutputSend(q), [Next]_vars
  PROVE  PlacesInv'
  <1> USE DEF runVars, psrVars, csrVars
  <1>1. CASE OutputOpen
    <2>1. /\ output' = Append(output, q) /\ sender' = [sender EXCEPT ![q] = "ended"]
          /\ sender[q] = "output"
          /\ UNCHANGED <<cause, psr, psr_payment, tracker, results, csr, reported>>
      BY <1>1 DEF OutputSend
    <2>2. \A p : In(p, output') <=> In(p, output) \/ p = q
      BY <2>1, InAppend DEF TypeOK
    <2>3. ~ Downstream(q)
      BY <2>1 DEF PlacesInv, OnceInv
    <2>4. Distinct(output')
      BY <2>1, <2>3, InAppend DEF TypeOK, PlacesInv, OnceInv, Downstream
    <2>5. \A p \in Payment : sender'[p] = IF p = q THEN "ended" ELSE sender[p]
      BY <2>1 DEF TypeOK
    <2>6. \A p \in Payment : Tracked(p)' <=> Tracked(p)
      BY <2>1 DEF Tracked
    <2>7. OnceInv'
      BY <2>1, <2>2, <2>3, <2>4, <2>5, <2>6 DEF PlacesInv, OnceInv, OnePlace, Downstream
    <2>8. CalmInv'
      BY <2>1, <2>2, <2>5, <2>6, KeepCalm DEF PlacesInv, CalmInv, Downstream, shutdown, Calm
    <2>9. QED BY <2>7, <2>8 DEF PlacesInv
  <1>2. CASE ~ OutputOpen
    <2>1. /\ sender' = [sender EXCEPT ![q] = "trigger"] /\ sender[q] = "output"
          /\ UNCHANGED <<cause, output, psr, psr_payment, tracker, results, csr, reported>>
      BY <1>2 DEF OutputSend
    <2>2. \A p \in Payment : sender'[p] = "ended" <=> sender[p] = "ended"
      BY <2>1 DEF TypeOK
    <2>3. \A p \in Payment : Tracked(p)' <=> Tracked(p)
      BY <2>1 DEF Tracked
    <2>4. OnceInv'
      BY <2>1, <2>2, <2>3, ShrinkOnce DEF PlacesInv, OnceInv
    <2>5. CalmInv'
      BY <2>1, <2>2, <2>3, KeepCalm DEF PlacesInv, CalmInv, Downstream, shutdown
    <2>6. QED BY <2>4, <2>5 DEF PlacesInv
  <1>3. QED BY <1>1, <1>2

\* produce_simulation_results takes a payment out of the output channel: to
\* its tracker, or to the results if the node did not accept it.
LEMMA PsrReceivePlaces ==
  ASSUME TypeOK, PlacesInv, PsrReceive, [Next]_vars
  PROVE  PlacesInv'
  <1> USE DEF runVars, psrVars, csrVars
  <1>1. PICK q : q = Head(output)
    OBVIOUS
  <1>2. /\ q \in Payment /\ In(q, output)
        /\ \A p : In(p, output) <=> In(p, output') \/ p = q
        /\ Distinct(output') /\ ~ In(q, output')
    BY <1>1, InTail DEF PsrReceive, TypeOK, PlacesInv, OnceInv
  <1>3. /\ psr = "recv" /\ psr_payment \notin Payment
        /\ UNCHANGED <<cause, sender, results, csr, reported>>
    BY DEF PsrReceive, TypeOK
  <1>4. csr = "ended" => shutdown
    BY <1>3 DEF PlacesInv, CalmInv
  <1>5. CASE dispatched[q]
    <2>1. tracker' = [tracker EXCEPT ![q] = "track"] /\ UNCHANGED <<psr, psr_payment>>
      BY <1>1, <1>5 DEF PsrReceive
    <2>2. \A p \in Payment : Tracked(p)' <=> Tracked(p) \/ p = q
      BY <1>2, <2>1 DEF Tracked, TypeOK
    <2>3. OnceInv'
      BY <1>2, <1>3, <2>1, <2>2 DEF PlacesInv, OnceInv, OnePlace, Downstream
    <2>4. CalmInv'
      BY <1>2, <1>3, <1>4, <2>1, <2>2, KeepCalm DEF PlacesInv, CalmInv, Downstream, shutdown
    <2>5. QED BY <2>3, <2>4 DEF PlacesInv
  <1>6. CASE ~ dispatched[q]
    <2>1. psr' = "send" /\ psr_payment' = q /\ UNCHANGED tracker
      BY <1>1, <1>6 DEF PsrReceive
    <2>2. \A p \in Payment : Tracked(p)' <=> Tracked(p)
      BY <2>1 DEF Tracked
    <2>3. OnceInv'
      BY <1>2, <1>3, <2>1, <2>2 DEF PlacesInv, OnceInv, OnePlace, Downstream
    <2>4. CalmInv'
      BY <1>2, <1>3, <1>4, <2>1, <2>2, KeepCalm DEF PlacesInv, CalmInv, Downstream, shutdown
    <2>5. QED BY <2>3, <2>4 DEF PlacesInv
  <1>7. QED BY <1>5, <1>6

\* It passes on a payment that the node did not accept.
LEMMA PsrSendPlaces ==
  ASSUME TypeOK, PlacesInv, PsrSend, [Next]_vars
  PROVE  PlacesInv'
  <1> USE DEF runVars, sendVars, csrVars
  <1>1. PICK q : q = psr_payment
    OBVIOUS
  <1>2. /\ q \in Payment /\ psr_payment' = NoPayment /\ results' = Append(results, q)
        /\ csr \in {"open", "run"}
        /\ UNCHANGED <<cause, sender, output, tracker, csr, reported>>
    BY <1>1 DEF PsrSend, ResultsOpen, TypeOK
  <1>3. ~ In(q, results)
    BY <1>1, <1>2 DEF PlacesInv, OnceInv, OnePlace
  <1>4. Distinct(results') /\ \A p : In(p, results') <=> In(p, results) \/ p = q
    BY <1>2, <1>3, InAppend DEF TypeOK, PlacesInv, OnceInv
  <1>5. \A p \in Payment : (Tracked(p)' <=> Tracked(p)) /\ psr_payment' # p
    BY <1>2, PipelineAssumption DEF Tracked
  <1>6. OnceInv'
    BY <1>1, <1>2, <1>3, <1>4, <1>5 DEF PlacesInv, OnceInv, OnePlace, Downstream
  <1>7. CalmInv'
    BY <1>1, <1>2, <1>4, <1>5, KeepCalm DEF PlacesInv, CalmInv, Downstream, shutdown
  <1>8. QED BY <1>6, <1>7 DEF PlacesInv

\* track_payment_result passes on its result.
LEMMA TrackerSendPlaces ==
  ASSUME TypeOK, PlacesInv, NEW q \in Payment, TrackerSend(q), [Next]_vars
  PROVE  PlacesInv'
  <1> USE DEF runVars, sendVars, psrVars, csrVars
  <1>1. /\ tracker[q] = "send" /\ results' = Append(results, q)
        /\ tracker' = [tracker EXCEPT ![q] = "ended"] /\ csr \in {"open", "run"}
        /\ UNCHANGED <<cause, sender, output, psr, psr_payment, csr, reported>>
    BY DEF TrackerSend, ResultsOpen
  <1>2. Tracked(q) /\ \A p \in Payment : Tracked(p)' <=> Tracked(p) /\ p # q
    BY <1>1 DEF Tracked, TypeOK
  <1>3. ~ In(q, results)
    BY <1>2 DEF PlacesInv, OnceInv, OnePlace
  <1>4. Distinct(results') /\ \A p : In(p, results') <=> In(p, results) \/ p = q
    BY <1>1, <1>3, InAppend DEF TypeOK, PlacesInv, OnceInv
  <1>5. OnceInv'
    BY <1>1, <1>2, <1>3, <1>4 DEF PlacesInv, OnceInv, OnePlace, Downstream
  <1>6. CalmInv'
    BY <1>1, <1>2, <1>4, KeepCalm DEF PlacesInv, CalmInv, Downstream, shutdown
  <1>7. QED BY <1>5, <1>6 DEF PlacesInv

\* consume_simulation_results reports a payment, and may fail on it.
LEMMA CsrReceivePlaces ==
  ASSUME TypeOK, PlacesInv, CsrReceive \/ CsrReceiveFails \/ CsrFlushFails, [Next]_vars
  PROVE  PlacesInv'
  <1> USE DEF runVars, sendVars, psrVars
  <1>1. PICK q : q = Head(results)
    OBVIOUS
  <1>2. /\ results # <<>> /\ csr = "run" /\ reported' = Append(reported, q)
        /\ UNCHANGED <<cause, sender, output, psr, psr_payment, tracker>>
        /\ \/ results' = Tail(results) /\ csr' = "run"
           \/ results' = <<>> /\ csr' = "trigger"
    BY <1>1 DEF CsrReceive, CsrReceiveFails, CsrFlushFails
  <1>3. /\ q \in Payment /\ In(q, results)
        /\ \A p : In(p, results) <=> In(p, Tail(results)) \/ p = q
        /\ Distinct(Tail(results)) /\ ~ In(q, Tail(results))
    BY <1>1, <1>2, InTail DEF TypeOK, PlacesInv, OnceInv
  <1>4. ~ In(q, reported)
    BY <1>3 DEF PlacesInv, OnceInv, OnePlace
  <1>5. Distinct(reported') /\ \A p : In(p, reported') <=> In(p, reported) \/ p = q
    BY <1>2, <1>3, <1>4, InAppend DEF TypeOK, PlacesInv, OnceInv
  <1>6. Distinct(results') /\ ~ In(q, results') /\ \A p : In(p, results') => In(p, results)
    BY <1>2, <1>3, InEmpty
  <1>7. \A p \in Payment : Tracked(p)' <=> Tracked(p)
    BY <1>2 DEF Tracked
  <1>8. OnceInv'
    BY <1>2, <1>3, <1>5, <1>6, <1>7 DEF PlacesInv, OnceInv, OnePlace, Downstream
  <1>9. Calm' => \A p : In(p, results) => In(p, results') \/ In(p, reported')
    BY <1>2, <1>3, <1>5 DEF Calm
  <1>10. CalmInv'
    BY <1>2, <1>5, <1>7, <1>9, KeepCalm DEF PlacesInv, CalmInv, Downstream, shutdown
  <1>11. QED BY <1>8, <1>10 DEF PlacesInv

\* Giving up: told to stop, or the consumer has failed.
LEMMA StopsPlaces ==
  ASSUME TypeOK, PlacesInv, PsrStops \/ \E p \in Payment : TrackerStops(p), [Next]_vars
  PROVE  PlacesInv'
  <1> USE DEF runVars, sendVars, csrVars
  <1>1. CASE PsrStops
    <2>1. /\ psr = "send" /\ psr_payment' = NoPayment /\ output' = <<>>
          /\ psr' \in {"trigger", "ended"} /\ (shutdown \/ csr \notin {"open", "run"})
          /\ UNCHANGED <<cause, sender, tracker, results, csr, reported>>
      BY <1>1 DEF PsrStops, ResultsOpen
    <2>2. ~ Calm'
      BY <2>1 DEF Calm, shutdown, PlacesInv, CalmInv, TypeOK
    <2>3. \A p \in Payment : (Tracked(p)' <=> Tracked(p)) /\ psr_payment' # p
      BY <2>1, PipelineAssumption DEF Tracked
    <2>4. OnceInv'
      BY <2>1, <2>3, InEmpty, ShrinkOnce DEF PlacesInv, OnceInv
    <2>5. CalmInv'
      BY <2>1, <2>2, <2>3, KeepCalm DEF PlacesInv, CalmInv, shutdown
    <2>6. QED BY <2>4, <2>5 DEF PlacesInv
  <1>2. ASSUME NEW q \in Payment, TrackerStops(q) PROVE PlacesInv'
    <2>1. /\ tracker[q] = "send" /\ tracker' = [tracker EXCEPT ![q] = "ended"]
          /\ shutdown \/ csr \notin {"open", "run"}
          /\ UNCHANGED <<cause, sender, output, psr, psr_payment, results, csr, reported>>
      BY <1>2 DEF TrackerStops, ResultsOpen, psrVars
    <2>2. Tracked(q) /\ \A p \in Payment : Tracked(p)' <=> Tracked(p) /\ p # q
      BY <2>1 DEF Tracked, TypeOK
    <2>3. ~ Calm'
      BY <2>1, <2>2 DEF Calm, shutdown, PlacesInv, CalmInv, TypeOK
    <2>4. OnceInv'
      BY <2>1, <2>2, ShrinkOnce DEF PlacesInv, OnceInv
    <2>5. CalmInv'
      BY <2>1, <2>2, <2>3, KeepCalm DEF PlacesInv, CalmInv, shutdown
    <2>6. QED BY <2>4, <2>5 DEF PlacesInv
  <1>3. QED BY <1>1, <1>2

\* consume_simulation_results fails to open its file, or returns: it drops the
\* results, of which there are none unless it failed or was told to stop.
LEMMA CsrStopsPlaces ==
  ASSUME TypeOK, PlacesInv, CsrOpens \/ CsrStops, [Next]_vars
  PROVE  PlacesInv'
  <1> USE DEF runVars, sendVars, psrVars
  <1>1. /\ UNCHANGED <<cause, sender, output, psr, psr_payment, tracker, reported>>
        /\ csr \in {"open", "run"}
        /\ \/ csr' = "run" /\ results' = results
           \/ csr' = "trigger" /\ results' = <<>>
           \/ csr' = "ended" /\ results' = <<>> /\ (shutdown \/ ResultsClosed)
    BY DEF CsrOpens, CsrStops
  <1>2. \A p \in Payment : Tracked(p)' <=> Tracked(p)
    BY <1>1 DEF Tracked
  <1>3. Distinct(results') /\ \A p : In(p, results') => In(p, results)
    BY <1>1, InEmpty DEF PlacesInv, OnceInv
  <1>4. Calm' => \A p : In(p, results) => In(p, results')
    BY <1>1 DEF Calm, shutdown, ResultsClosed
  <1>5. OnceInv'
    BY <1>1, <1>2, <1>3, ShrinkOnce DEF PlacesInv, OnceInv
  <1>6. csr' = "ended" /\ ~ shutdown' => /\ psr' \in {"trigger", "ended"}
                                         /\ \A p \in Payment : ~ Tracked(p)'
    BY <1>1, <1>2 DEF shutdown, ResultsClosed, Tracked
  <1>7. CalmInv'
    BY <1>1, <1>2, <1>4, <1>6, KeepCalm DEF PlacesInv, CalmInv, Downstream
  <1>8. QED BY <1>5, <1>7 DEF PlacesInv

\* All other steps leave the payments where they are.
LEMMA QuietPlaces ==
  ASSUME TypeOK, PlacesInv, [Next]_vars,
         UNCHANGED <<output, psr_payment, results, reported>>,
         \A p \in Payment : Tracked(p)' <=> Tracked(p),
         \A p \in Payment : sender[p] = "ended" => sender'[p] = "ended",
         \A p \in Payment : sender'[p] = "ended" => sender[p] = "ended" \/ shutdown',
         csr' = csr \/ (csr' = "failed" /\ shutdown'),
         psr' = psr \/ psr' \in {"trigger", "ended"}
  PROVE  PlacesInv'
  <1>1. OnceInv'
    BY ShrinkOnce DEF PlacesInv, OnceInv
  <1>2. shutdown => shutdown'
    BY CalmOnlyEnds
  <1>3. CalmInv'
    BY <1>2, KeepCalm DEF PlacesInv, CalmInv, Downstream, Calm
  <1>4. QED BY <1>1, <1>3 DEF PlacesInv

\* Every step preserves the places.
LEMMA StepPlaces == TypeOK /\ PlacesInv /\ [Next]_vars => PlacesInv'
  <1> SUFFICES ASSUME TypeOK, PlacesInv, [Next]_vars PROVE PlacesInv'
    OBVIOUS
  <1> USE DEF runVars, sendVars, psrVars, csrVars
  <1>1. CASE SetupDone \/ SetupFails \/ RunReturns \/ Interrupt \/ TimerEnds \/ LoggerEnds
             \/ ProducerReturns \/ ProducerTriggers
    <2>1. UNCHANGED <<sendVars, psrVars, tracker, results, csrVars>>
      BY <1>1 DEF SetupDone, SetupFails, RunReturns, Interrupt, TimerEnds, LoggerEnds,
         ProducerReturns, ProducerTriggers
    <2>2. QED BY <2>1, QuietPlaces DEF Tracked
  <1>2. CASE PsrClosed \/ PsrTriggers
    BY <1>2, QuietPlaces DEF PsrClosed, PsrTriggers, Tracked
  <1>3. CASE CsrTriggers
    <2>1. /\ csr' = "failed" /\ UNCHANGED <<sendVars, psrVars, tracker, results, reported>>
          /\ shutdown'
      BY <1>3 DEF CsrTriggers, Trigger, shutdown
    <2>2. QED BY <2>1, QuietPlaces DEF Tracked
  <1>4. ASSUME NEW q \in Payment, ProducePayment(q) \/ SendReturns(q) \/ SenderTriggers(q)
        PROVE  PlacesInv'
    <2>1. /\ UNCHANGED <<output, psrVars, tracker, results, csrVars>>
          /\ sender[q] # "ended"
          /\ \/ \E v \in {"call", "trigger", "output", "panicked"} : sender' = [sender EXCEPT ![q] = v]
             \/ sender' = [sender EXCEPT ![q] = "ended"] /\ shutdown'
      BY <1>4 DEF ProducePayment, SendReturns, SenderTriggers, Trigger, shutdown
    <2>2. \A p \in Payment : sender[p] = "ended" => sender'[p] = "ended"
      BY <2>1 DEF TypeOK
    <2>3. \A p \in Payment : sender'[p] = "ended" => sender[p] = "ended" \/ shutdown'
      BY <2>1 DEF TypeOK
    <2>4. QED BY <2>1, <2>2, <2>3, QuietPlaces DEF Tracked
  <1>5. ASSUME NEW q \in Payment, TrackReturns(q) PROVE PlacesInv'
    <2>1. \A p \in Payment : Tracked(p)' <=> Tracked(p)
      BY <1>5 DEF TrackReturns, Tracked, TypeOK
    <2>2. QED BY <1>5, <2>1, QuietPlaces DEF TrackReturns
  <1>6. CASE UNCHANGED vars
    BY <1>6, QuietPlaces DEF vars, Tracked
  <1>7. QED
    BY <1>1, <1>2, <1>3, <1>4, <1>5, <1>6, OutputSendPlaces, PsrReceivePlaces, PsrSendPlaces,
       TrackerSendPlaces, CsrReceivePlaces, StopsPlaces, CsrStopsPlaces DEF Next

-----------------------------------------------------------------------------
(* The results file.                                                       *)

\* The file and the list of reports are empty.
LEMMA InitFile == Init => FileInv
  BY PipelineAssumption, ConcatEmptySeq DEF Init, FileInv, BatchedWriter_new

\* A result that is received is reported, and in the buffer or, with a full
\* batch, in the file.
LEMMA CsrReceiveFile ==
  ASSUME TypeOK, FileInv, CsrReceive
  PROVE  FileInv'
  <1> SUFFICES ASSUME WriteResults PROVE FileInv'
    BY DEF FileInv
  <1>1. PICK q : q = Head(results)
    OBVIOUS
  <1>2. PICK v : v = serialize(writer, q)
    OBVIOUS
  <1>3. /\ csr = "run" /\ csr' = "run" /\ reported' = Append(reported, q)
        /\ writer' = IF v.counter = BatchSize THEN flush(v) ELSE v
    BY <1>1, <1>2 DEF CsrReceive, queue, write
  <1>4. /\ writer.disk \o writer.buffered = reported
        /\ Len(writer.buffered) = writer.counter /\ writer.counter < BatchSize
    BY <1>3 DEF FileInv
  <1>5. q \in Payment
    BY <1>1, InTail DEF CsrReceive, TypeOK
  <1>6. /\ v \in [counter : 0 .. BatchSize, buffered : Seq(Payment), disk : Seq(Payment)]
        /\ v.disk \o v.buffered = Append(reported, q)
        /\ Len(v.buffered) = v.counter
    BY <1>2, <1>4, <1>5, SerializeType DEF TypeOK
  <1>7. CASE v.counter = BatchSize
    <2>1. /\ writer'.disk \o writer'.buffered = reported'
          /\ writer'.buffered = <<>> /\ writer'.counter = 0
      BY <1>3, <1>6, <1>7, FlushType
    <2>2. Len(writer'.buffered) = writer'.counter /\ writer'.counter < BatchSize
      BY <2>1, PipelineAssumption
    <2>3. QED BY <1>3, <2>1, <2>2 DEF FileInv
  <1>8. CASE v.counter # BatchSize
    <2>1. v.counter < BatchSize
      BY <1>6, <1>8, PipelineAssumption
    <2>2. writer' = v
      BY <1>3, <1>8
    <2>3. QED BY <1>3, <1>6, <2>1, <2>2 DEF FileInv
  <1>9. QED BY <1>7, <1>8

\* Every step preserves the relation of the file and the reports.
LEMMA StepFile == TypeOK /\ FileInv /\ [Next]_vars => FileInv'
  <1> SUFFICES ASSUME TypeOK, FileInv, [Next]_vars PROVE FileInv'
    OBVIOUS
  <1> USE DEF csrVars
  <1>1. CASE UNCHANGED <<writer, reported>> /\ (csr' = csr \/ csr' \in {"trigger", "failed"}
                                                \/ (csr = "open" /\ csr' = "run"))
    BY <1>1 DEF FileInv
  <1>2. CASE SetupDone \/ SetupFails \/ RunReturns \/ Interrupt \/ TimerEnds \/ LoggerEnds
             \/ ProducerReturns \/ ProducerTriggers
    BY <1>1, <1>2 DEF SetupDone, SetupFails, RunReturns, Interrupt, TimerEnds, LoggerEnds,
       ProducerReturns, ProducerTriggers
  <1>3. CASE PsrReceive \/ PsrClosed \/ PsrSend \/ PsrStops \/ PsrTriggers
    BY <1>1, <1>3 DEF PsrReceive, PsrClosed, PsrSend, PsrStops, PsrTriggers
  <1>4. ASSUME NEW p \in Payment,
               \/ ProducePayment(p) \/ SendReturns(p) \/ OutputSend(p) \/ SenderTriggers(p)
               \/ TrackReturns(p) \/ TrackerSend(p) \/ TrackerStops(p)
        PROVE  FileInv'
    BY <1>1, <1>4 DEF ProducePayment, SendReturns, OutputSend, SenderTriggers, TrackReturns,
       TrackerSend, TrackerStops
  <1>5. CASE CsrOpens \/ CsrTriggers
    BY <1>1, <1>5 DEF CsrOpens, CsrTriggers
  <1>6. CASE CsrReceiveFails \/ CsrFlushFails
    BY <1>6 DEF CsrReceiveFails, CsrFlushFails, FileInv
  <1>7. CASE CsrStops
    <2>1. csr = "run" /\ UNCHANGED reported
          /\ (csr' = "trigger" \/ (csr' = "ended" /\ writer' = flush(writer)))
      BY <1>7 DEF CsrStops, write
    <2>2. flush(writer).disk = writer.disk \o writer.buffered
      BY FlushType DEF TypeOK
    <2>3. QED BY <2>1, <2>2 DEF FileInv
  <1>8. CASE UNCHANGED vars
    BY <1>1, <1>8 DEF vars
  <1>9. QED
    BY <1>2, <1>3, <1>4, <1>5, <1>6, <1>7, <1>8, CsrReceiveFile DEF Next

-----------------------------------------------------------------------------
(* The theorems.                                                           *)

\* The three parts together are inductive.
THEOREM PipelineInvariant == Spec => []PipelineInv
  <1>1. Init => PipelineInv
    BY InitType, InitPlaces, InitFile DEF PipelineInv, PlacesInv
  <1>2. PipelineInv /\ [Next]_vars => PipelineInv'
    BY StepType, StepPlaces, StepFile DEF PipelineInv, PlacesInv
  <1>3. QED BY <1>1, <1>2, PTL DEF Spec

\* The type invariant: among others, neither channel ever holds more than its
\* capacity, and the counter of the BatchedWriter stays within a batch.
THEOREM PipelineTyped == Spec => []TypeOK
  <1>1. PipelineInv => TypeOK
    BY DEF PipelineInv
  <1>2. QED BY <1>1, PipelineInvariant, PTL

\* The results file follows the reports: the records that BatchedWriter has
\* written and buffered are the reported payments, in order, and all of them
\* are in the file when consume_simulation_results has returned Ok.
THEOREM FileKeepsUp == Spec => []FileFollowsReports
  <1>1. PipelineInv => FileFollowsReports
    BY DEF PipelineInv, FileInv, FileFollowsReports
  <1>2. QED BY <1>1, PipelineInvariant, PTL

\* The places of a payment, counted.
LEMMA CopiesAre ==
  ASSUME NEW p, NEW c
  PROVE  c \in Copies(p) <=>
           \/ c = <<"sender", 1>> /\ sender[p] \in {"call", "output"}
           \/ \E i \in DOMAIN output : c = <<"output", i>> /\ output[i] = p
           \/ c = <<"psr", 1>> /\ psr_payment = p
           \/ c = <<"tracker", 1>> /\ Tracked(p)
           \/ \E i \in DOMAIN results : c = <<"results", i>> /\ results[i] = p
           \/ \E i \in DOMAIN reported : c = <<"reported", i>> /\ reported[i] = p
  BY DEF Copies, Tracked

\* However the tasks interleave, a payment is never duplicated between
\* send_payment and the report, and never lost while nothing has failed and
\* nobody has asked for a shutdown.
THEOREM PaymentsOnce == Spec => []EachPaymentOnce
  <1>1. ASSUME PipelineInv, NEW p \in Payment
        PROVE  /\ Cardinality(Copies(p)) <= 1
               /\ (/\ sender[p] \notin {"none", "trigger", "panicked"}
                   /\ ~ shutdown
                   /\ csr # "trigger") => Cardinality(Copies(p)) = 1
    <2>1. OnePlace(p) /\ (Downstream(p) => sender[p] = "ended")
      BY <1>1 DEF PipelineInv, OnceInv
    <2>2. Distinct(output) /\ Distinct(results) /\ Distinct(reported)
      BY <1>1 DEF PipelineInv, OnceInv
    <2>3. ASSUME NEW c \in Copies(p), NEW d \in Copies(p) PROVE c = d
      <3>1. CASE sender[p] \in {"call", "output"}
        BY <2>1, <3>1, CopiesAre DEF Downstream, In
      <3>2. CASE In(p, output)
        BY <2>1, <2>2, <3>2, CopiesAre DEF Downstream, In, OnePlace, Distinct
      <3>3. CASE psr_payment = p
        BY <2>1, <3>3, CopiesAre DEF Downstream, In, OnePlace
      <3>4. CASE Tracked(p)
        BY <2>1, <3>4, CopiesAre DEF Downstream, In, OnePlace
      <3>5. CASE In(p, results)
        BY <2>1, <2>2, <3>5, CopiesAre DEF Downstream, In, OnePlace, Distinct
      <3>6. CASE In(p, reported)
        BY <2>1, <2>2, <3>6, CopiesAre DEF Downstream, In, OnePlace, Distinct
      <3>7. QED BY <3>1, <3>2, <3>3, <3>4, <3>5, <3>6, CopiesAre DEF In
    <2>4. Copies(p) = {} \/ \E c : Copies(p) = {c}
      BY <2>3
    <2>5. Cardinality(Copies(p)) <= 1
      <3>1. CASE Copies(p) = {}
        BY <3>1, FS_EmptySet
      <3>2. ASSUME NEW c, Copies(p) = {c} PROVE Cardinality(Copies(p)) = 1
        BY <3>2, FS_Singleton
      <3>3. QED BY <2>4, <3>1, <3>2
    <2>6. ASSUME sender[p] \notin {"none", "trigger", "panicked"}, ~ shutdown, csr # "trigger"
          PROVE  Cardinality(Copies(p)) = 1
      <3>1. sender[p] \in {"call", "output"} \/ Downstream(p)
        BY <1>1, <2>6 DEF PipelineInv, CalmInv, Calm, TypeOK
      <3>2. Copies(p) # {}
        BY <3>1, CopiesAre DEF Downstream, In
      <3>3. QED BY <2>4, <3>2, FS_Singleton
    <2>7. QED BY <2>5, <2>6
  <1>2. PipelineInv => EachPaymentOnce
    BY <1>1 DEF EachPaymentOnce
  <1>3. QED BY <1>2, PipelineInvariant, PTL

-----------------------------------------------------------------------------
(* Tasks that wait for each other.                                         *)

\* A channel whose receiver has gone holds nothing.
ClosedInv ==
    /\ psr \in {"trigger", "ended"} => output = <<>>
    /\ csr \in {"trigger", "ended", "failed"} => results = <<>>

\* No step leaves anything in a channel without a receiver.
LEMMA StepClosed == TypeOK /\ ClosedInv /\ [Next]_vars => ClosedInv'
  <1> SUFFICES ASSUME TypeOK, ClosedInv, [Next]_vars PROVE ClosedInv'
    OBVIOUS
  <1> USE DEF runVars, sendVars, psrVars, csrVars, ClosedInv
  <1>1. CASE SetupDone \/ SetupFails \/ RunReturns \/ Interrupt \/ TimerEnds \/ LoggerEnds
             \/ ProducerReturns \/ ProducerTriggers
    BY <1>1 DEF SetupDone, SetupFails, RunReturns, Interrupt, TimerEnds, LoggerEnds,
       ProducerReturns, ProducerTriggers
  <1>2. CASE PsrReceive \/ PsrClosed \/ PsrSend \/ PsrStops \/ PsrTriggers
    BY <1>2 DEF PsrReceive, PsrClosed, PsrSend, PsrStops, PsrTriggers, ResultsOpen
  <1>3. CASE CsrOpens \/ CsrReceive \/ CsrReceiveFails \/ CsrFlushFails \/ CsrStops \/ CsrTriggers
    BY <1>3 DEF CsrOpens, CsrReceive, CsrReceiveFails, CsrFlushFails, CsrStops, CsrTriggers
  <1>4. ASSUME NEW p \in Payment,
               \/ ProducePayment(p) \/ SendReturns(p) \/ OutputSend(p) \/ SenderTriggers(p)
               \/ TrackReturns(p) \/ TrackerSend(p) \/ TrackerStops(p)
        PROVE  ClosedInv'
    BY <1>4 DEF ProducePayment, SendReturns, OutputSend, SenderTriggers, TrackReturns, TrackerSend,
       TrackerStops, OutputOpen, ResultsOpen
  <1>5. CASE UNCHANGED vars
    BY <1>5 DEF vars
  <1>6. QED BY <1>1, <1>2, <1>3, <1>4, <1>5 DEF Next

\* A full channel is not an empty one.
LEMMA FullIsNotEmpty ==
  ASSUME NEW s \in Seq(Payment), ~ (Len(s) < ChannelSize)
  PROVE  s # <<>>
  <1>1. Len(<<>>) = 0 /\ 0 < ChannelSize
    BY PipelineAssumption
  <1>2. QED BY <1>1

\* The consumer waits for nobody but those who can still send to it: a send
\* to it that has to wait means that the consumer itself can go on.
LEMMA ResultsMove ==
  ASSUME TypeOK, ~ ResultsReady \/ (ClosedInv /\ results # <<>>)
  PROVE  CsrCanMove
  <1>1. csr \in {"open", "run"} /\ (csr = "run" => results # <<>>)
    <2>1. CASE ~ ResultsReady
      BY <2>1, FullIsNotEmpty DEF TypeOK, ResultsReady, ResultsOpen
    <2>2. CASE ClosedInv /\ results # <<>>
      BY <2>2 DEF TypeOK, ClosedInv
    <2>3. QED BY <2>1, <2>2
  <1>2. QED BY <1>1 DEF CsrCanMove

\* What is in the output channel is received, or psr waits for the consumer.
LEMMA OutputMoves ==
  ASSUME TypeOK, ClosedInv, output # <<>> \/ psr = "send"
  PROVE  PipelineCanMove
  <1>1. psr \in {"recv", "send"}
    BY DEF TypeOK, ClosedInv
  <1>2. CASE psr = "recv"
    BY <1>2 DEF PsrCanMove, PipelineCanMove
  <1>3. CASE psr = "send"
    BY <1>3, ResultsMove DEF PsrCanMove, PipelineCanMove
  <1>4. QED BY <1>1, <1>2, <1>3

(***************************************************************************)
(* For any number of payments and channels of any size, the tasks of the   *)
(* pipeline never wait for each other in a circle: a send_payment task     *)
(* that waits for the output channel has psr to empty it, psr and the      *)
(* trackers that wait for the results channel have the consumer, and the   *)
(* consumer waits only for those that are still to send.  After a shutdown *)
(* the last sender to go lets psr end, and psr the consumer.               *)
(***************************************************************************)
THEOREM PipelineNeverStuck == Spec => []NobodyWaitsInACircle
  <1>1. ASSUME TypeOK, ClosedInv, PassedOn PROVE PipelineCanMove
    <2>1. CASE output # <<>> \/ psr = "send"
      BY <1>1, <2>1, OutputMoves
    <2>2. CASE results # <<>>
      BY <1>1, <2>2, ResultsMove DEF PipelineCanMove
    <2>3. ASSUME NEW p \in Payment, sender[p] = "output" PROVE PipelineCanMove
      <3>1. SenderCanMove(p) \/ output # <<>>
        BY <1>1, <2>3, FullIsNotEmpty DEF SenderCanMove, TypeOK
      <3>2. QED BY <1>1, <3>1, OutputMoves DEF PipelineCanMove
    <2>4. ASSUME NEW p \in Payment, tracker[p] = "send" PROVE PipelineCanMove
      BY <1>1, <2>4, ResultsMove DEF TrackerCanMove, PipelineCanMove
    <2>5. QED BY <1>1, <2>1, <2>2, <2>3, <2>4 DEF PassedOn
  <1>2. ASSUME TypeOK, ClosedInv, shutdown, run # "setup", ~ PipelineCanMove,
               producer \notin {"run", "trigger"}, timer # "run", logger # "run", ~ NodeIsAsked
        PROVE  TasksEnded
    <2>1. ~ PassedOn
      BY <1>1, <1>2
    <2>2. \A p \in Payment : /\ sender[p] \in {"none", "ended", "panicked"}
                              /\ tracker[p] \in {"none", "ended"}
      BY <1>2, <2>1 DEF TypeOK, PassedOn, NodeIsAsked, PipelineCanMove, SenderCanMove
    <2>3. psr = "ended"
      <3>1. OutputClosed
        BY <1>2, <2>2 DEF OutputClosed
      <3>2. QED BY <1>2, <2>1, <3>1 DEF TypeOK, PassedOn, PipelineCanMove, PsrCanMove
    <2>4. csr \in {"ended", "failed"}
      BY <1>2 DEF TypeOK, PipelineCanMove, CsrCanMove
    <2>5. QED BY <1>2, <2>2, <2>3, <2>4 DEF TypeOK, TasksEnded
  <1>3. TypeOK /\ ClosedInv => NobodyWaitsInACircle
    BY <1>1, <1>2 DEF NobodyWaitsInACircle
  <1>4. Init => ClosedInv
    BY DEF Init, ClosedInv
  <1>5. QED BY <1>3, <1>4, StepClosed, PipelineTyped, PTL DEF Spec

===============================================================================
