----------------------------- MODULE TxPipeline -----------------------------
(***************************************************************************)
(* The path of a transaction through the gateway: the FIFO queue           *)
(* (gateway/core/txqueue.go), the workers that take transactions from it   *)
(* and have them endorsed (gateway/core/api.go), the bounded channel to    *)
(* the batch submitter (gateway/core/batch_submitter.go), the orderer, the *)
(* blocks that report what became of a transaction, and Stop.              *)
(*                                                                         *)
(* A transaction is its hash. A gateway worker or a submission worker      *)
(* holds at most one. The ledger may also carry copies submitted by other  *)
(* gateways, and an orderer may take a submission whose caller got an      *)
(* error.                                                                  *)
(***************************************************************************)
EXTENDS Integers, FiniteSets, Sequences, Functions

CONSTANTS
  Txs,          \* transaction hashes
  Workers,      \* worker goroutines of the gateway
  Submitters,   \* worker goroutines of the batch submitter
  ChanSize,     \* capacity of endorsementChan, not zero
  Foreign,      \* whether other gateways submit the same transactions
  MaxSends,     \* bound: transactions the gate lets through
  MaxBlockTxs   \* bound: transactions of a block

VARIABLES
  pendingQueue, queuedMap, inProgressMap, done,   \* TxQueue
  pc, job,              \* gateway worker -> where it is, what it processes
  endorsementChan,      \* sequence of endorsed transactions
  spc, sjob,            \* submission worker -> where it is, what it submits
  cancelled,            \* the context of Run was cancelled
  stop,                 \* how far Gateway.Stop is
  ordered,              \* tx -> copies the orderer took and did not yet cut
  committed,            \* transactions with a valid copy in the ledger
  observed,             \* committed transactions the nonce gate knows of
  completing,           \* the hashes TxQueue.Handle has still to complete
  sends,                \* how often a transaction was enqueued
  early                 \* reported by a block while held by this gateway

queueVars == <<pendingQueue, queuedMap, inProgressMap, done>>
workerVars == <<pc, job>>
submitterVars == <<endorsementChan, spc, sjob>>
ledgerVars == <<ordered, committed>>
handleVars == <<observed, completing, early>>
vars == <<queueVars, workerVars, submitterVars, cancelled, stop, ledgerVars,
          handleVars, sends>>

AnyTx == CHOOSE t \in Txs : TRUE

Init ==
  /\ pendingQueue = <<>> /\ queuedMap = {} /\ inProgressMap = {} /\ done = FALSE
  /\ pc = [w \in Workers |-> "dequeue"] /\ job = [w \in Workers |-> AnyTx]
  /\ endorsementChan = <<>>
  /\ spc = [s \in Submitters |-> "select"] /\ sjob = [s \in Submitters |-> AnyTx]
  /\ cancelled = FALSE /\ stop = "running"
  /\ ordered = [t \in Txs |-> 0] /\ committed = {}
  /\ observed = {} /\ completing = <<>> /\ early = {}
  /\ sends = 0

-----------------------------------------------------------------------------
(* The queue *)

Asleep == {w \in Workers : pc[w] = "asleep"}

\* Mutant: Signal only when the queue was empty.
SignalIfEmpty(p) ==
  IF Asleep = {} \/ pendingQueue # <<>> THEN {p}
  ELSE {[p EXCEPT ![w] = "woken"] : w \in Asleep}

\* cond.Signal: one sleeping worker, if there is one, is woken.
Signal(p) ==
  IF Asleep = {} THEN {p} ELSE {[p EXCEPT ![w] = "woken"] : w \in Asleep}

\* cond.Broadcast
Broadcast(p) == [w \in Workers |-> IF w \in Asleep THEN "woken" ELSE p[w]]

\* Mutant: only queued transactions are refused.
QueuedRefused(t) == t \notin queuedMap

\* Enqueue refuses a transaction it tracks, with no effect.
NotTracked(t) == t \notin queuedMap /\ t \notin inProgressMap

\* Enqueue, the end of SendTransaction. The gate refuses a transaction whose
\* nonce it knows to be used. A request may still be running, or arrive over a
\* WebSocket, after the queue was closed.
Enqueue(t) ==
  /\ sends < MaxSends /\ t \notin observed /\ NotTracked(t)
  /\ sends' = sends + 1
  /\ pendingQueue' = Append(pendingQueue, t)
  /\ queuedMap' = queuedMap \union {t}
  /\ pc' \in Signal(pc)
  /\ UNCHANGED <<inProgressMap, done, job, submitterVars, cancelled, stop,
                 ledgerVars, handleVars>>

InDequeue(w) == pc[w] \in {"dequeue", "woken"}

DequeueTx(w) ==
  /\ InDequeue(w) /\ pendingQueue # <<>>
  /\ LET t == Head(pendingQueue) IN
     /\ pendingQueue' = Tail(pendingQueue)
     /\ queuedMap' = queuedMap \ {t}
     /\ inProgressMap' = inProgressMap \union {t}
     /\ job' = [job EXCEPT ![w] = t]
  /\ pc' = [pc EXCEPT ![w] = "executing"]
  /\ UNCHANGED <<done, submitterVars, cancelled, stop, ledgerVars, handleVars, sends>>

DequeueWaits(w) ==
  /\ InDequeue(w) /\ pendingQueue = <<>> /\ ~done
  /\ pc' = [pc EXCEPT ![w] = "asleep"]
  /\ UNCHANGED <<queueVars, job, submitterVars, cancelled, stop, ledgerVars,
                 handleVars, sends>>

DequeueClosed(w) ==
  /\ InDequeue(w) /\ pendingQueue = <<>> /\ done
  /\ pc' = [pc EXCEPT ![w] = "gone"]
  /\ UNCHANGED <<queueVars, job, submitterVars, cancelled, stop, ledgerVars,
                 handleVars, sends>>

\* Mutant: Complete also forgets the transaction while it is queued.
CompleteQueued(t) ==
  /\ inProgressMap' = inProgressMap \ {t}
  /\ queuedMap' = queuedMap \ {t}
  /\ UNCHANGED <<pendingQueue, done>>

\* Complete leaves a transaction that is still queued alone.
Complete(t) ==
  /\ inProgressMap' = inProgressMap \ {t}
  /\ UNCHANGED <<pendingQueue, queuedMap, done>>

-----------------------------------------------------------------------------
(* The workers: processTx *)

\* Every endorsement was obtained.
Endorsed(w) ==
  /\ pc[w] = "executing"
  /\ pc' = [pc EXCEPT ![w] = "sending"]
  /\ UNCHANGED <<queueVars, job, submitterVars, cancelled, stop, ledgerVars,
                 handleVars, sends>>

\* Mutant: the transaction is queued whatever the room.
SendsRegardless(w) ==
  /\ pc[w] = "sending"
  /\ endorsementChan' = Append(endorsementChan, job[w])
  /\ pc' = [pc EXCEPT ![w] = "dequeue"]
  /\ job' = [job EXCEPT ![w] = AnyTx]
  /\ UNCHANGED <<queueVars, spc, sjob, cancelled, stop, ledgerVars, handleVars, sends>>

\* SubmitFabricTx: there is room in the channel.
SubmitFabricTx(w) ==
  /\ pc[w] = "sending" /\ Len(endorsementChan) < ChanSize
  /\ endorsementChan' = Append(endorsementChan, job[w])
  /\ pc' = [pc EXCEPT ![w] = "dequeue"]
  /\ job' = [job EXCEPT ![w] = AnyTx]
  /\ UNCHANGED <<queueVars, spc, sjob, cancelled, stop, ledgerVars, handleVars, sends>>

\* Mutant: a failed transaction is only logged.
FailureLogged(w) ==
  /\ pc[w] = "executing" \/ (pc[w] = "sending" /\ cancelled)
  /\ pc' = [pc EXCEPT ![w] = "dequeue"]
  /\ job' = [job EXCEPT ![w] = AnyTx]
  /\ UNCHANGED <<queueVars, submitterVars, cancelled, stop, ledgerVars,
                 handleVars, sends>>

\* processTx failed: no endorsement, or the context was cancelled while the
\* channel was full (a select with both ready may choose either).
ProcessFails(w) ==
  /\ pc[w] = "executing" \/ (pc[w] = "sending" /\ cancelled)
  /\ Complete(job[w])
  /\ pc' = [pc EXCEPT ![w] = "dequeue"]
  /\ job' = [job EXCEPT ![w] = AnyTx]
  /\ UNCHANGED <<submitterVars, cancelled, stop, ledgerVars, handleVars, sends>>

WorkerNext(w) ==
  \/ DequeueTx(w) \/ DequeueWaits(w) \/ DequeueClosed(w)
  \/ Endorsed(w) \/ SubmitFabricTx(w) \/ ProcessFails(w)

-----------------------------------------------------------------------------
(* The batch submitter *)

StopChanClosed == stop \in {"stopping", "closed"}

\* The select of the worker may take an endorsement even if stopChan is closed.
TakeEndorsed(s) ==
  /\ spc[s] = "select" /\ endorsementChan # <<>>
  /\ sjob' = [sjob EXCEPT ![s] = Head(endorsementChan)]
  /\ endorsementChan' = Tail(endorsementChan)
  /\ spc' = [spc EXCEPT ![s] = "submitting"]
  /\ UNCHANGED <<queueVars, workerVars, cancelled, stop, ledgerVars, handleVars, sends>>

SubmitterStops(s) ==
  /\ spc[s] = "select" /\ StopChanClosed
  /\ spc' = [spc EXCEPT ![s] = "gone"]
  /\ UNCHANGED <<queueVars, workerVars, endorsementChan, sjob, cancelled, stop,
                 ledgerVars, handleVars, sends>>

SubmitterIdle(s) ==
  /\ spc' = [spc EXCEPT ![s] = "select"]
  /\ sjob' = [sjob EXCEPT ![s] = AnyTx]
  /\ UNCHANGED endorsementChan

\* The orderer took the transaction.
Submitted(s) ==
  /\ spc[s] = "submitting"
  /\ ordered' = [ordered EXCEPT ![sjob[s]] = @ + 1]
  /\ SubmitterIdle(s)
  /\ UNCHANGED <<queueVars, workerVars, cancelled, stop, committed, handleVars, sends>>

\* Mutant: a failed submission is only logged.
SubmitFailureLogged(s) ==
  /\ spc[s] = "submitting"
  /\ UNCHANGED <<queueVars, ordered>>
  /\ SubmitterIdle(s)
  /\ UNCHANGED <<workerVars, cancelled, stop, committed, handleVars, sends>>

\* Submit returned an error, though the orderer may have taken the transaction.
SubmitFails(s) ==
  /\ spc[s] = "submitting"
  /\ \/ UNCHANGED ordered
     \/ ordered' = [ordered EXCEPT ![sjob[s]] = @ + 1]
  /\ Complete(sjob[s])
  /\ SubmitterIdle(s)
  /\ UNCHANGED <<workerVars, cancelled, stop, committed, handleVars, sends>>

SubmitterNext(s) ==
  TakeEndorsed(s) \/ SubmitterStops(s) \/ Submitted(s) \/ SubmitFails(s)

-----------------------------------------------------------------------------
(* Blocks *)

\* The transactions this gateway has in its hands.
HeldBy(t) ==
  Cardinality({w \in Workers : pc[w] \in {"executing", "sending"} /\ job[w] = t})
  + Cardinality({i \in DOMAIN endorsementChan : endorsementChan[i] = t})
  + Cardinality({s \in Submitters : spc[s] = "submitting" /\ sjob[s] = t})
Held(t) == HeldBy(t) > 0

BlockContents == UNION {Injection(1..n, Txs) : n \in 1..MaxBlockTxs}

\* Gateway.Handle: a block is cut from what the orderer has, some of it valid,
\* and the gate observes it. A second copy of a transaction is invalid, since
\* its nonce is used; a first copy is too if another value it read has changed.
Handle(txs, valid) ==
  /\ completing = <<>>
  /\ \A t \in Range(txs) : ordered[t] > 0 \/ Foreign
  /\ valid \subseteq Range(txs) \ committed
  /\ ordered' = [t \in Txs |-> IF t \in Range(txs) /\ ordered[t] > 0
                               THEN ordered[t] - 1 ELSE ordered[t]]
  /\ committed' = committed \union valid
  /\ observed' = observed \union valid
  /\ completing' = txs
  /\ UNCHANGED <<queueVars, workerVars, submitterVars, cancelled, stop, early, sends>>

\* TxQueue.Handle takes the lock for each transaction anew.
HandleNext ==
  /\ completing # <<>>
  /\ Complete(Head(completing))
  /\ completing' = Tail(completing)
  /\ early' = IF Held(Head(completing)) THEN early \union {Head(completing)} ELSE early
  /\ UNCHANGED <<workerVars, submitterVars, cancelled, stop, ledgerVars, observed, sends>>

-----------------------------------------------------------------------------
(* Shutdown *)

\* The context of App.Run is cancelled: a signal, or a component that failed.
Cancel ==
  /\ ~cancelled
  /\ cancelled' = TRUE
  /\ UNCHANGED <<queueVars, workerVars, submitterVars, stop, ledgerVars,
                 handleVars, sends>>

\* Gateway.Stop. Run cancels the context first; other callers need not.
StopBegin ==
  /\ stop = "running"
  /\ stop' = "closing"
  /\ done' = TRUE
  /\ pc' = Broadcast(pc)
  /\ UNCHANGED <<pendingQueue, queuedMap, inProgressMap, job, submitterVars,
                 cancelled, ledgerVars, handleVars, sends>>

\* Mutant: the batch submitter is stopped before the workers are done.
NoWait == TRUE

\* wg.Wait()
WorkersDone == \A w \in Workers : pc[w] = "gone"

StopSubmitter ==
  /\ stop = "closing" /\ WorkersDone
  /\ stop' = "stopping"
  /\ UNCHANGED <<queueVars, workerVars, submitterVars, cancelled, ledgerVars,
                 handleVars, sends>>

\* <-doneChan, then Close.
StopEnd ==
  /\ stop = "stopping" /\ \A s \in Submitters : spc[s] = "gone"
  /\ stop' = "closed"
  /\ UNCHANGED <<queueVars, workerVars, submitterVars, cancelled, ledgerVars,
                 handleVars, sends>>

StopNext == StopBegin \/ StopSubmitter \/ StopEnd

Next ==
  \/ \E t \in Txs : Enqueue(t)
  \/ \E w \in Workers : WorkerNext(w)
  \/ \E s \in Submitters : SubmitterNext(s)
  \/ \E txs \in BlockContents : \E valid \in SUBSET Range(txs) : Handle(txs, valid)
  \/ HandleNext
  \/ Cancel
  \/ StopNext

Spec == Init /\ [][Next]_vars

-----------------------------------------------------------------------------
(* Properties *)

\* Every variable has its type, and the channel keeps within its capacity.
TypeOK ==
  /\ pendingQueue \in Seq(Txs) /\ queuedMap \in SUBSET Txs
  /\ inProgressMap \in SUBSET Txs /\ done \in BOOLEAN
  /\ pc \in [Workers -> {"dequeue", "asleep", "woken", "executing", "sending", "gone"}]
  /\ job \in [Workers -> Txs]
  /\ endorsementChan \in Seq(Txs) /\ Len(endorsementChan) <= ChanSize
  /\ spc \in [Submitters -> {"select", "submitting", "gone"}]
  /\ sjob \in [Submitters -> Txs]
  /\ cancelled \in BOOLEAN
  /\ stop \in {"running", "closing", "stopping", "closed"}
  /\ ordered \in [Txs -> Nat] /\ committed \in SUBSET Txs
  /\ observed \in SUBSET committed /\ completing \in Seq(Txs)
  /\ sends \in 0..MaxSends /\ early \in SUBSET Txs

\* queuedMap mirrors pendingQueue, which holds no transaction twice, and no
\* transaction counts as queued and as in progress at once, however Enqueue,
\* Dequeue and the completions of failures and of blocks interleave (the
\* O(1) lookups of Enqueue and IsPending stand for a search of the queue).
Mirrors ==
  /\ queuedMap = Range(pendingQueue)
  /\ IsInjective(pendingQueue)
  /\ queuedMap \cap inProgressMap = {}

\* Unless a block reported a transaction while this gateway still held it, at
\* most one copy of it is on its way through workers, channel and submitters,
\* and as long as one is, the queue tracks it, so that a resubmission is
\* refused.
OneOnTheWay ==
  \A t \in Txs \ early :
    /\ HeldBy(t) <= 1
    /\ Held(t) => t \in inProgressMap

\* What the batch submitter's Completer is for: a transaction in inProgressMap
\* is held, or ordered, or about to be completed by Handle. None is left there
\* "waiting for a commit that won't come", however it failed.
NoLeak ==
  \A t \in inProgressMap :
    Held(t) \/ ordered[t] > 0 \/ t \in Range(completing)

\* No worker sleeps in Dequeue while there are more transactions queued than
\* workers on their way to take them: one Signal for each Enqueue is enough,
\* though a worker that was not asleep may take the transaction before the one
\* that was woken for it.
NoLostWakeup ==
  Asleep # {} => Len(pendingQueue) <= Cardinality({w \in Workers : InDequeue(w)})

\* txqueue.go and batch_submitter.go keep track of every transaction: the maps mirror
\* the list, one copy is on its way and is tracked, none is left behind, and no
\* worker sleeps beside work that nobody was woken for.
PipelineKeepsTrack == TypeOK /\ Mirrors /\ OneOnTheWay /\ NoLeak /\ NoLostWakeup

=============================================================================
