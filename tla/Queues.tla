------------------------------- MODULE Queues -------------------------------
(***************************************************************************)
(* The transaction queues of the gateway, whichever is configured          *)
(* (gateway/app/wiring.go): the dependency-aware queue of TxQueueV2, the   *)
(* FIFO queue with the pipeline behind it (TxPipeline), and the queue that *)
(* is ordered by a dependency graph (DepGraphQueue).  The initial state    *)
(* chooses the queue; the others keep their initial states.                *)
(***************************************************************************)
EXTENDS TxQueueV2, TLC

CONSTANTS
  Configured,         \* the queues to choose from
  a, b, t1, t2, t3, t4,
  x, y, None       \* keys; the absent value of the dependency graph's queue

VARIABLES
  queue,                                                               \* the choice
  pendingQueue, queuedMap, inProgressMap, pDone, pPc, pJob,            \* TxPipeline
  endorsementChan, spc, sjob, cancelled, stop, ordered, committed,
  observed, completing, sends, early,
  tracked, admitted, endorsing, endorsed, nodes, unfinished, outgoing, \* DepGraphQueue
  released, ready, commitSeq, lastWrite, recent, gDone, work, pool,
  ledger, stored, count

pipelineVars == <<pendingQueue, queuedMap, inProgressMap, pDone, pPc, pJob,
                  endorsementChan, spc, sjob, cancelled, stop, ordered, committed,
                  observed, completing, sends, early>>
graphQueueVars == <<tracked, admitted, endorsing, endorsed, nodes, unfinished, outgoing,
                    released, ready, commitSeq, lastWrite, recent, gDone, work, pool,
                    ledger, stored, count>>
allVars == <<queue, vars, pipelineVars, graphQueueVars>>

\* Two accounts, transactions of one of them and transfers between them, which
\* share both participants.
MCAddresses == {a, b}
MCParticipants ==
  [h \in Hashes |-> CASE h = t1 -> {a}
                      [] h = t4 -> {b}
                      [] OTHER -> {a, b}]
\* The workers are interchangeable.
WorkerSymmetry == Permutations(Workers)

PTxs == {t1, t2}
Pipeline == INSTANCE TxPipeline WITH
  Txs <- PTxs, Workers <- {"w1", "w2"}, Submitters <- {"s1"}, ChanSize <- 1,
  Foreign <- TRUE, MaxSends <- 2, MaxBlockTxs <- 2,
  done <- pDone, pc <- pPc, job <- pJob

\* The pipeline with one worker, when no other gateway submits.
LonePipeline == INSTANCE TxPipeline WITH
  Txs <- PTxs, Workers <- {"w1"}, Submitters <- {"s1"}, ChanSize <- 1,
  Foreign <- FALSE, MaxSends <- 2, MaxBlockTxs <- 1,
  done <- pDone, pc <- pPc, job <- pJob

\* t1 and t2 contend for x, t3 writes y.
Touched == [h \in {t1, t2, t3} |-> IF h = t3 THEN {y} ELSE {x}]
Graph == INSTANCE DepGraphQueue WITH
  Txs <- {t1, t2, t3}, Keys <- {x, y}, Reads <- Touched, Writes <- Touched,
  Format <- [h \in {t1, t2, t3} |-> "fabricx"],
  Endorsers <- {"e1", "e2"}, Workers <- {"w1", "w2"},
  ChanSize <- 2, Threshold <- 2, Window <- 1, MaxAdmitted <- 3, MaxBlockTxs <- 2,
  Foreign <- {}, Ambiguous <- {}, done <- gDone

\* The same queue with one worker of each kind, when another gateway submits t1
\* too, and submissions may fail although the transaction was ordered.
OpenGraph == INSTANCE DepGraphQueue WITH
  Txs <- {t1, t2}, Keys <- {x}, Reads <- Touched, Writes <- Touched,
  Format <- [h \in {t1, t2} |-> "fabricx"],
  Endorsers <- {"e1"}, Workers <- {"w1"},
  ChanSize <- 1, Threshold <- 1, Window <- 1, MaxAdmitted <- 3, MaxBlockTxs <- 1,
  Foreign <- {t1}, Ambiguous <- {t1}, done <- gDone

QueuesInit ==
  /\ queue \in Configured
  /\ Init
  /\ IF queue = "lone_pipeline" THEN LonePipeline!Init ELSE Pipeline!Init
  /\ IF queue = "open_graph" THEN OpenGraph!Init ELSE Graph!Init

\* The transactions nobody sends: of the dependency-aware queue's behaviours some
\* have two transfers, which are linked twice, the others two transactions that
\* do not conflict, and a transfer that waits for both.
Unused == [v2 |-> {t4}, v2_disjoint |-> {t3}]

\* A step of one queue leaves the others alone.
OfV2(A) == queue \in DOMAIN Unused /\ A /\ UNCHANGED <<queue, pipelineVars, graphQueueVars>>
OfPipeline(q, A) == queue = q /\ A /\ UNCHANGED <<queue, vars, graphQueueVars>>
OfGraph(q, A) == queue = q /\ A /\ UNCHANGED <<queue, vars, pipelineVars>>

V2Step ==
  /\ OfV2(Next)
  /\ \A h \in Unused[queue] \cap Hashes : hashMap'[h] = NoEntry /\ h \notin Range(todo')

PipelineStep ==
  \/ OfPipeline("pipeline", Pipeline!Next)
  \/ OfPipeline("lone_pipeline", LonePipeline!Next)

GraphStep ==
  \/ OfGraph("graph", Graph!Next)
  \/ OfGraph("open_graph", OpenGraph!Next)

QueuesNext == V2Step \/ PipelineStep \/ GraphStep

QueuesSpec == QueuesInit /\ [][QueuesNext]_allVars

\* The fairness of the queues (see their modules). The choice never changes, so
\* that fairness of a disjunction over the queues is fairness of each.
OutcomeKnown(h) ==
  \/ OfV2(submitted[h] > 0 /\ Outcome(h))
  \/ OfPipeline("lone_pipeline",
                h \in PTxs /\ ordered[h] > 0 /\ LonePipeline!Handle(<<h>>, {h} \ committed))
TakesTurn ==
  \/ OfV2(\E w \in Workers : WorkerNext(w))
  \/ OfPipeline("lone_pipeline", LonePipeline!DequeueTx("w1"))
Worker ==
  \/ OfPipeline("lone_pipeline", LonePipeline!WorkerNext("w1"))
  \/ OfGraph("open_graph", OpenGraph!Work("w1"))
Submitter ==
  \/ OfPipeline("lone_pipeline", LonePipeline!SubmitterNext("s1"))
  \/ OfGraph("open_graph", OpenGraph!Endorse("e1"))
Handles ==
  \/ OfV2(HandleNext)
  \/ OfPipeline("lone_pipeline", LonePipeline!HandleNext)
  \/ OfGraph("open_graph", OpenGraph!Handle)
Continues ==
  \/ OfPipeline("lone_pipeline", LonePipeline!StopSubmitter \/ LonePipeline!StopEnd)
  \/ OfGraph("open_graph", OpenGraph!batchLoop)
QueuesFairness ==
  /\ \A h \in Hashes : SF_allVars(OutcomeKnown(h))
  /\ SF_allVars(TakesTurn)
  /\ SF_allVars(OfPipeline("lone_pipeline", LonePipeline!SubmitFabricTx("w1")))
  /\ WF_allVars(Worker) /\ WF_allVars(Submitter) /\ WF_allVars(Handles) /\ WF_allVars(Continues)
  /\ WF_allVars(OfGraph("open_graph", OpenGraph!Manager))
  /\ WF_allVars(OfGraph("open_graph", OpenGraph!markReady))
  /\ WF_allVars(OfGraph("open_graph", OpenGraph!CommitBlock))
  /\ WF_allVars(OfGraph("open_graph", OpenGraph!StoreBlock))
QueuesFairSpec == QueuesSpec /\ QueuesFairness

-----------------------------------------------------------------------------
(* The properties of the other two queues; those of TxQueueV2 are in its     *)
(* module, where each is explained.                                          *)

\* The FIFO queue and its workers keep track of every transaction: the maps mirror
\* the queue and the channel keeps its capacity, at most one copy of a transaction
\* is on its way (unless a block reported it too early), none is left in
\* inProgressMap with nobody to complete it, and no worker sleeps in Dequeue while
\* transactions are queued that nobody was woken for.
PipelineKeepsTrack ==
  queue = "pipeline" => Pipeline!PipelineKeepsTrack

\* No two transactions that the dependency graph's queue has served touch a key,
\* from Dequeue until Handle has seen the block, and reuse of the endorsement made
\* at Enqueue never costs a transaction its validity (ReusableEndorsement and the
\* window of committed writes).
GraphServesSafely == queue = "graph" => Graph!GraphServesSafely

\* A transaction the chosen queue tracks, and whether the queue is being closed.
IsTracked(h) ==
  CASE queue = "lone_pipeline" -> h \in queuedMap \union inProgressMap
    [] queue = "open_graph" -> h \in DOMAIN tracked /\ tracked[h] # None
    [] OTHER -> hashMap[h] # NoEntry
Closing == done \/ gDone \/ stop # "running"

\* Whichever queue is configured, and whatever happens to a transaction on its way
\* (failures, blocks that carry it before it was served, resubmissions, other
\* gateways), it does not stay tracked for good and nothing that waits behind it
\* does: no deadlock, no lost wake-up, no forgotten promotion, node or completion.
\* Starvation by an endless stream of queue jumpers is outside: the number of
\* transactions is bounded.
Drains == \A h \in Hashes : IsTracked(h) ~> ~IsTracked(h) \/ Closing

\* Gateway.Stop returns with no worker left, even when the context was not
\* cancelled and the channel is full; Close of the dependency graph's queue wakes
\* every worker and stops every endorse worker.
StopReturns ==
  (gDone \/ stop = "closing") ~>
    \/ queue = "lone_pipeline" /\ stop = "closed" /\ \A w \in DOMAIN pPc : pPc[w] = "gone"
    \/ /\ queue = "open_graph" /\ \A w \in DOMAIN work : work[w].pc = "stopped"
       /\ \A e \in DOMAIN endorsing : endorsing[e] = None
=============================================================================
