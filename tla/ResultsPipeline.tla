---------------------------- MODULE ResultsPipeline ----------------------------
(***************************************************************************)
(* The tasks of one `Simulation::run` in simln-lib/src/lib.rs and the two  *)
(* bounded channels between them:                                          *)
(*                                                                         *)
(*   produce_payment_events -> one send_payment task per payment           *)
(*        -> output channel -> produce_simulation_results ("psr")          *)
(*        -> one track_payment_result task per payment                     *)
(*        -> results channel -> consume_simulation_results ("csr")         *)
(*        -> PaymentResultLogger and BatchedWriter                         *)
(*                                                                         *)
(* Every task may fire the shutdown trigger, and most of them listen to    *)
(* it.  Which payments the producer makes, and when, is PaymentProducer's  *)
(* subject; the nodes are external: a send_payment or track_payment call   *)
(* answers when and what it likes.  A function that returns drops its      *)
(* channel ends before its task fires the trigger, which is a step of its  *)
(* own here.                                                               *)
(***************************************************************************)
EXTENDS Naturals, Sequences, FiniteSets

CONSTANTS Payment,        \* the payments the producer may dispatch
          NoPayment,      \* not a payment
          ChannelSize,    \* capacity of the output and results channels, 1
          WriteResults,   \* cfg.write_results is Some
          BatchSize,      \* its batch_size
          TotalTime       \* cfg.total_time is Some

ASSUME PipelineAssumption ==
    /\ NoPayment \notin Payment
    /\ ChannelSize \in Nat \ {0}
    /\ BatchSize \in Nat \ {0}
    /\ WriteResults \in BOOLEAN
    /\ TotalTime \in BOOLEAN

VARIABLES cause,       \* who fired the shutdown trigger first, "none" so far
          run,         \* where run() is
          producer,    \* the produce_payment_events task
          timer,       \* the total_time task
          logger,      \* the run_results_logger task
          sender,      \* Payment -> its send_payment task
          dispatched,  \* Payment -> did the node accept it? (SimulationOutput)
          output,      \* the output channel
          psr,         \* the produce_simulation_results task
          psr_payment, \* the failed payment psr is about to forward
          tracker,     \* Payment -> its track_payment_result task
          results,     \* the results channel
          csr,         \* the consume_simulation_results task
          writer,      \* BatchedWriter: counter, buffered and written records
          reported     \* the payments given to the PaymentResultLogger

runVars == <<run, producer, timer, logger>>
sendVars == <<sender, dispatched, output>>
psrVars == <<psr, psr_payment>>
csrVars == <<csr, writer, reported>>

vars == <<cause, runVars, sendVars, psrVars, tracker, results, csrVars>>

shutdown == cause # "none"

Trigger(who) == cause' = IF cause = "none" THEN who ELSE cause

-----------------------------------------------------------------------------
(* BatchedWriter.  The records of a csv writer are buffered until a flush. *)

BatchedWriter_new == [counter |-> 0, buffered |-> <<>>, disk |-> <<>>]

flush(w) == [counter |-> 0, buffered |-> <<>>, disk |-> w.disk \o w.buffered]

\* Mutant: only a full batch is written, also on exit.
write_unforced(w, force) == IF w.counter = BatchSize THEN flush(w) ELSE w

write(w, force) == IF force \/ w.counter = BatchSize THEN flush(w) ELSE w

serialize(w, p) ==
    [w EXCEPT !.buffered = Append(@, p), !.counter = (@ % BatchSize) + 1]

queue(w, p) == write(serialize(w, p), FALSE)

-----------------------------------------------------------------------------
(* internal_run has validated its input and spawned the data collection.   *)
Init ==
    /\ cause = "none"
    /\ run = "setup"
    /\ producer = "none"
    /\ timer = "none"
    /\ logger = "run"
    /\ sender = [p \in Payment |-> "none"]
    /\ dispatched = [p \in Payment |-> FALSE]
    /\ output = <<>>
    /\ psr = "recv"
    /\ psr_payment = NoPayment
    /\ tracker = [p \in Payment |-> "none"]
    /\ results = <<>>
    /\ csr = "open"
    /\ writer = BatchedWriter_new
    /\ reported = <<>>

\* The activities are set up: spawn the producer and the timer.
SetupDone ==
    /\ run = "setup"
    /\ run' = "wait"
    /\ producer' = "run"
    /\ timer' = IF TotalTime THEN "run" ELSE "ended"
    /\ UNCHANGED <<cause, logger, sendVars, psrVars, tracker, results, csrVars>>

\* The setup failed: run returns its error without waiting for the tasks.
SetupFails ==
    /\ run = "setup"
    /\ Trigger("setup")
    /\ run' = "failed"
    /\ UNCHANGED <<producer, timer, logger, sendVars, psrVars, tracker, results, csrVars>>

TasksEnded ==
    /\ producer \in {"none", "ended"} /\ timer \in {"none", "ended"} /\ logger = "ended"
    /\ psr = "ended" /\ csr \in {"ended", "failed"}
    /\ \A p \in Payment : /\ sender[p] \in {"none", "ended", "panicked"}
                          /\ tracker[p] \in {"none", "ended"}

RunReturns ==
    /\ run = "wait"
    /\ TasksEnded
    /\ run' = "returned"
    /\ UNCHANGED <<cause, producer, timer, logger, sendVars, psrVars, tracker, results, csrVars>>

\* Ctrl-C, or a critical error of the simulated network.
Interrupt ==
    /\ ~ shutdown
    /\ Trigger("interrupt")
    /\ UNCHANGED <<runVars, sendVars, psrVars, tracker, results, csrVars>>

-----------------------------------------------------------------------------
(* The total_time task and the results logger.                             *)

TimerEnds ==
    /\ timer = "run"
    /\ timer' = "ended"
    /\ Trigger("timer")
    /\ UNCHANGED <<run, producer, logger, sendVars, psrVars, tracker, results, csrVars>>

LoggerEnds ==
    /\ logger = "run"
    /\ shutdown
    /\ logger' = "ended"
    /\ UNCHANGED <<cause, run, producer, timer, sendVars, psrVars, tracker, results, csrVars>>

-----------------------------------------------------------------------------
(* The producer spawns payments until it is out of events, fails or is     *)
(* told to stop; whichever it was, its task then fires the trigger.        *)

ProducePayment(p) ==
    /\ producer = "run"
    /\ ~ shutdown
    /\ sender[p] = "none"
    /\ sender' = [sender EXCEPT ![p] = "call"]
    /\ UNCHANGED <<cause, runVars, dispatched, output, psrVars, tracker, results, csrVars>>

ProducerReturns ==
    /\ producer = "run"
    /\ producer' = "trigger"
    /\ UNCHANGED <<cause, run, timer, logger, sendVars, psrVars, tracker, results, csrVars>>

ProducerTriggers ==
    /\ producer = "trigger"
    /\ producer' = "ended"
    /\ Trigger("producer")
    /\ UNCHANGED <<run, timer, logger, sendVars, psrVars, tracker, results, csrVars>>

-----------------------------------------------------------------------------
(* send_payment: call the node, then pass the output on, without listening *)
(* to the shutdown signal.  A failed task fires the trigger.  A call that  *)
(* panics (EclairNode::send_payment does, on an empty answer) ends its     *)
(* task with neither output nor trigger, and the runtime keeps the panic   *)
(* from the other tasks.                                                   *)

SendReturns(p) ==
    /\ sender[p] = "call"
    /\ \/ sender' = [sender EXCEPT ![p] = "trigger"] /\ UNCHANGED dispatched
       \/ sender' = [sender EXCEPT ![p] = "panicked"] /\ UNCHANGED dispatched
       \/ /\ sender' = [sender EXCEPT ![p] = "output"]
          /\ \E ok \in BOOLEAN : dispatched' = [dispatched EXCEPT ![p] = ok]
    /\ UNCHANGED <<cause, runVars, output, psrVars, tracker, results, csrVars>>

\* Mutant: the receiver outlives the task that reads from it.
OutputOpen_leaked == TRUE

\* The receiver of the output channel lives as long as psr's function.
OutputOpen == psr \in {"recv", "send"}

OutputSend(p) ==
    /\ sender[p] = "output"
    /\ OutputOpen => Len(output) < ChannelSize
    /\ IF OutputOpen
       THEN /\ output' = Append(output, p)
            /\ sender' = [sender EXCEPT ![p] = "ended"]
       ELSE /\ sender' = [sender EXCEPT ![p] = "trigger"]
            /\ UNCHANGED output
    /\ UNCHANGED <<cause, runVars, dispatched, psrVars, tracker, results, csrVars>>

SenderTriggers(p) ==
    /\ sender[p] = "trigger"
    /\ sender' = [sender EXCEPT ![p] = "ended"]
    /\ Trigger("sender")
    /\ UNCHANGED <<runVars, dispatched, output, psrVars, tracker, results, csrVars>>

-----------------------------------------------------------------------------
(* produce_simulation_results.  It does not listen to the shutdown signal  *)
(* while it receives, only while it sends.                                 *)

\* Mutant: run keeps its own sender while it waits for the tasks.
OutputClosed_sender_kept == run \notin {"setup", "wait"}

OutputClosed ==
    /\ run # "setup"
    /\ producer # "run"
    /\ \A p \in Payment : sender[p] \notin {"call", "output"}

PsrReceive ==
    /\ psr = "recv"
    /\ output # <<>>
    /\ output' = Tail(output)
    /\ IF dispatched[Head(output)]
       THEN /\ tracker' = [tracker EXCEPT ![Head(output)] = "track"]
            /\ UNCHANGED psrVars
       ELSE /\ psr' = "send"
            /\ psr_payment' = Head(output)
            /\ UNCHANGED tracker
    /\ UNCHANGED <<cause, runVars, sender, dispatched, results, csrVars>>

\* Every sender is gone and the channel is empty.
PsrClosed ==
    /\ psr = "recv"
    /\ output = <<>>
    /\ OutputClosed
    /\ psr' = "ended"
    /\ UNCHANGED <<cause, runVars, sendVars, psr_payment, tracker, results, csrVars>>

\* The receiver of the results channel lives as long as csr's function.
ResultsOpen == csr \in {"open", "run"}

PsrSend ==
    /\ psr = "send"
    /\ ~ shutdown
    /\ ResultsOpen
    /\ Len(results) < ChannelSize
    /\ results' = Append(results, psr_payment)
    /\ psr' = "recv"
    /\ psr_payment' = NoPayment
    /\ UNCHANGED <<cause, runVars, sendVars, tracker, csrVars>>

\* Told to stop, or the results receiver is gone: return, dropping the receiver
\* of the output channel and what is in it.
PsrStops ==
    /\ psr = "send"
    /\ shutdown \/ ~ ResultsOpen
    /\ psr' = IF shutdown THEN "ended" ELSE "trigger"
    /\ psr_payment' = NoPayment
    /\ output' = <<>>
    /\ UNCHANGED <<cause, runVars, sender, dispatched, tracker, results, csrVars>>

PsrTriggers ==
    /\ psr = "trigger"
    /\ psr' = "ended"
    /\ Trigger("psr")
    /\ UNCHANGED <<runVars, sendVars, psr_payment, tracker, results, csrVars>>

-----------------------------------------------------------------------------
(* track_payment_result: wait for the outcome, then pass the result on.    *)
(* An error of the node is a result too; an error of the channel is lost.  *)

TrackReturns(p) ==
    /\ tracker[p] = "track"
    /\ tracker' = [tracker EXCEPT ![p] = "send"]
    /\ UNCHANGED <<cause, runVars, sendVars, psrVars, results, csrVars>>

\* Mutant: a result that finds the channel full is dropped.
TrackerSend_drops(p) ==
    /\ tracker[p] = "send"
    /\ ~ shutdown
    /\ ResultsOpen
    /\ results' = IF Len(results) < ChannelSize THEN Append(results, p) ELSE results
    /\ tracker' = [tracker EXCEPT ![p] = "ended"]
    /\ UNCHANGED <<cause, runVars, sendVars, psrVars, csrVars>>

TrackerSend(p) ==
    /\ tracker[p] = "send"
    /\ ~ shutdown
    /\ ResultsOpen
    /\ Len(results) < ChannelSize
    /\ results' = Append(results, p)
    /\ tracker' = [tracker EXCEPT ![p] = "ended"]
    /\ UNCHANGED <<cause, runVars, sendVars, psrVars, csrVars>>

TrackerStops(p) ==
    /\ tracker[p] = "send"
    /\ shutdown \/ ~ ResultsOpen
    /\ tracker' = [tracker EXCEPT ![p] = "ended"]
    /\ UNCHANGED <<cause, runVars, sendVars, psrVars, results, csrVars>>

-----------------------------------------------------------------------------
(* consume_simulation_results.  An error, of the file or of its directory, *)
(* ends it and its task fires the trigger.                                 *)

CsrOpens ==
    /\ csr = "open"
    /\ \/ csr' = "run" /\ UNCHANGED results
       \/ WriteResults /\ csr' = "trigger" /\ results' = <<>>
    /\ UNCHANGED <<cause, runVars, sendVars, psrVars, tracker, writer, reported>>

CsrReceive ==
    /\ csr = "run"
    /\ ~ shutdown
    /\ results # <<>>
    /\ results' = Tail(results)
    /\ reported' = Append(reported, Head(results))
    /\ writer' = IF WriteResults THEN queue(writer, Head(results)) ELSE writer
    /\ UNCHANGED <<cause, runVars, sendVars, psrVars, tracker, csr>>

\* The record cannot be serialized: what was buffered before is flushed, if
\* possible, and the error returned.
CsrReceiveFails ==
    /\ csr = "run"
    /\ ~ shutdown
    /\ results # <<>>
    /\ WriteResults
    /\ results' = <<>>
    /\ reported' = Append(reported, Head(results))
    /\ writer' \in {write(writer, TRUE), writer}
    /\ csr' = "trigger"
    /\ UNCHANGED <<cause, runVars, sendVars, psrVars, tracker>>

\* The batch is full and cannot be flushed: the records stay in the buffer.
CsrFlushFails ==
    /\ csr = "run"
    /\ ~ shutdown
    /\ results # <<>>
    /\ WriteResults
    /\ serialize(writer, Head(results)).counter = BatchSize
    /\ results' = <<>>
    /\ reported' = Append(reported, Head(results))
    /\ writer' = [serialize(writer, Head(results)) EXCEPT !.counter = 0]
    /\ csr' = "trigger"
    /\ UNCHANGED <<cause, runVars, sendVars, psrVars, tracker>>

ResultsClosed ==
    /\ results = <<>>
    /\ psr \in {"trigger", "ended"}
    /\ \A p \in Payment : tracker[p] \notin {"track", "send"}

\* Told to stop, or every sender of results is gone: flush and return.
CsrStops ==
    /\ csr = "run"
    /\ shutdown \/ ResultsClosed
    /\ results' = <<>>
    /\ \/ csr' = "ended" /\ writer' = write(writer, TRUE)
       \/ WriteResults /\ csr' = "trigger" /\ writer' = [writer EXCEPT !.counter = 0]
    /\ UNCHANGED <<cause, runVars, sendVars, psrVars, tracker, reported>>

CsrTriggers ==
    /\ csr = "trigger"
    /\ csr' = "failed"
    /\ Trigger("csr")
    /\ UNCHANGED <<runVars, sendVars, psrVars, tracker, results, writer, reported>>

-----------------------------------------------------------------------------
Next ==
    \/ SetupDone \/ SetupFails \/ RunReturns \/ Interrupt
    \/ TimerEnds \/ LoggerEnds
    \/ ProducerReturns \/ ProducerTriggers
    \/ PsrReceive \/ PsrClosed \/ PsrSend \/ PsrStops \/ PsrTriggers
    \/ CsrOpens \/ CsrReceive \/ CsrReceiveFails \/ CsrFlushFails \/ CsrStops
    \/ CsrTriggers
    \/ \E p \in Payment :
          \/ ProducePayment(p)
          \/ SendReturns(p) \/ OutputSend(p) \/ SenderTriggers(p)
          \/ TrackReturns(p) \/ TrackerSend(p) \/ TrackerStops(p)

Spec == Init /\ [][Next]_vars

(***************************************************************************)
(* The runtime polls every task that can run.  Nobody has to end the       *)
(* simulation, but a task that is told to stop does.  track_payment        *)
(* returns on the shutdown signal in every LightningNode of the            *)
(* repository (ShutdownEndsCalls of RpcNode).                              *)
(***************************************************************************)
TasksFair ==
    /\ WF_vars(SetupDone \/ SetupFails)
    /\ WF_vars(RunReturns)
    /\ WF_vars(shutdown /\ (TimerEnds \/ LoggerEnds))
    /\ WF_vars(shutdown /\ ProducerReturns)
    /\ WF_vars(ProducerTriggers)
    /\ WF_vars(PsrReceive \/ PsrClosed \/ PsrSend \/ PsrStops \/ PsrTriggers)
    /\ WF_vars(CsrOpens \/ CsrReceive \/ CsrStops \/ CsrTriggers)
    /\ \A p \in Payment :
          /\ WF_vars(OutputSend(p) \/ SenderTriggers(p))
          /\ WF_vars(shutdown /\ TrackReturns(p))
          /\ WF_vars(TrackerSend(p) \/ TrackerStops(p))

FairSpec == Spec /\ TasksFair

\* In addition, every call to a node returns.
NodesAnswer == \A p \in Payment : WF_vars(SendReturns(p)) /\ WF_vars(TrackReturns(p))

AnsweredSpec == FairSpec /\ NodesAnswer

-----------------------------------------------------------------------------
TypeOK ==
    /\ cause \in {"none", "setup", "interrupt", "timer", "producer", "sender", "psr", "csr"}
    /\ run \in {"setup", "wait", "returned", "failed"}
    /\ producer \in {"none", "run", "trigger", "ended"}
    /\ timer \in {"none", "run", "ended"}
    /\ logger \in {"run", "ended"}
    /\ sender \in [Payment -> {"none", "call", "output", "trigger", "ended", "panicked"}]
    /\ dispatched \in [Payment -> BOOLEAN]
    /\ output \in Seq(Payment) /\ Len(output) <= ChannelSize
    /\ psr \in {"recv", "send", "trigger", "ended"}
    /\ psr_payment \in Payment \cup {NoPayment}
    /\ psr_payment \in Payment <=> psr = "send"
    /\ tracker \in [Payment -> {"none", "track", "send", "ended"}]
    /\ results \in Seq(Payment) /\ Len(results) <= ChannelSize
    /\ csr \in {"open", "run", "trigger", "ended", "failed"}
    /\ writer \in [counter : 0 .. BatchSize, buffered : Seq(Payment), disk : Seq(Payment)]
    /\ reported \in Seq(Payment)

\* Everything in the pipeline that stands for payment p.
Copies(p) ==
    {<<"sender", 1>> : x \in {x \in {1} : sender[p] \in {"call", "output"}}}
      \cup {<<"output", i>> : i \in {i \in DOMAIN output : output[i] = p}}
      \cup {<<"psr", 1>> : x \in {x \in {1} : psr_payment = p}}
      \cup {<<"tracker", 1>> : x \in {x \in {1} : tracker[p] \in {"track", "send"}}}
      \cup {<<"results", i>> : i \in {i \in DOMAIN results : results[i] = p}}
      \cup {<<"reported", i>> : i \in {i \in DOMAIN reported : reported[i] = p}}

(***************************************************************************)
(* A payment is never duplicated on its way through the tasks and          *)
(* channels, so it is reported at most once; and it is never lost while    *)
(* nothing has failed (its own call has not panicked, no task has met an   *)
(* error) and nobody has asked for a shutdown, however the tasks           *)
(* interleave.                                                             *)
(***************************************************************************)
EachPaymentOnce ==
    \A p \in Payment :
        /\ Cardinality(Copies(p)) <= 1
        /\ (/\ sender[p] \notin {"none", "trigger", "panicked"}
            /\ ~ shutdown
            /\ csr # "trigger") => Cardinality(Copies(p)) = 1

(***************************************************************************)
(* The results file follows the reports: while the consumer runs, written  *)
(* and buffered records are the reported payments in order with less than  *)
(* a batch waiting, and a consumer that ends without an error has written  *)
(* all of them (BatchedWriter::queue and the forced write on every exit).  *)
(***************************************************************************)
FileFollowsReports ==
    WriteResults =>
        /\ csr \in {"open", "run"} => /\ writer.disk \o writer.buffered = reported
                                     /\ Len(writer.buffered) < BatchSize
        /\ csr = "ended" => writer.disk = reported

(***************************************************************************)
(* The tasks of the pipeline that need neither the clock nor a node to go  *)
(* on: the guards of their steps.                                          *)
(***************************************************************************)
SenderCanMove(p) ==
    \/ sender[p] = "output" /\ (OutputOpen => Len(output) < ChannelSize)
    \/ sender[p] = "trigger"

ResultsReady == shutdown \/ ~ ResultsOpen \/ Len(results) < ChannelSize

TrackerCanMove(p) == tracker[p] = "send" /\ ResultsReady

PsrCanMove ==
    \/ psr = "recv" /\ (output # <<>> \/ OutputClosed)
    \/ psr = "send" /\ ResultsReady
    \/ psr = "trigger"

CsrCanMove ==
    \/ csr \in {"open", "trigger"}
    \/ csr = "run" /\ (shutdown \/ results # <<>> \/ ResultsClosed)

PipelineCanMove ==
    \/ PsrCanMove \/ CsrCanMove
    \/ \E p \in Payment : SenderCanMove(p) \/ TrackerCanMove(p)

\* A payment is in a channel, or in a task that is about to pass it on.
PassedOn ==
    \/ output # <<>> \/ psr = "send" \/ results # <<>>
    \/ \E p \in Payment : sender[p] = "output" \/ tracker[p] = "send"

NodeIsAsked == \E p \in Payment : sender[p] = "call" \/ tracker[p] = "track"

(***************************************************************************)
(* Full channels never make the tasks wait for each other in a circle: as  *)
(* long as a payment is on its way some task of the pipeline can go on,    *)
(* and after a shutdown some task can, until all of them have ended or     *)
(* wait for a node (internal_run waits for them with tasks.wait()).        *)
(***************************************************************************)
NobodyWaitsInACircle ==
    /\ PassedOn => PipelineCanMove
    /\ shutdown /\ run # "setup" =>
          \/ PipelineCanMove \/ producer \in {"run", "trigger"}
          \/ timer = "run" \/ logger = "run"
          \/ NodeIsAsked \/ TasksEnded

(***************************************************************************)
(* Once a shutdown is asked for, by whoever it is, every task ends and run *)
(* returns, if the calls to the nodes return.  Nobody waits for a channel  *)
(* whose other end has gone.                                               *)
(***************************************************************************)
ShutdownEndsRun == shutdown /\ run = "wait" ~> run = "returned"

(***************************************************************************)
(* A payment that is produced is eventually reported, or its call panics,  *)
(* or the simulation is shut down, if the calls to the nodes end: a        *)
(* bounded channel that is full never blocks the pipeline for good, and    *)
(* the panic of one task does not keep another payment from its report.    *)
(***************************************************************************)
ProducedIsReported ==
    \A p \in Payment :
        sender[p] = "call" ~> \/ shutdown \/ sender[p] = "panicked"
                              \/ \E i \in DOMAIN reported : reported[i] = p

===============================================================================
