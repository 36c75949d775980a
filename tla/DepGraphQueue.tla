--------------------------- MODULE DepGraphQueue ---------------------------
(***************************************************************************)
(* The dependency-graph queue (gateway/core/depgraph_queue.go,             *)
(* depgraph_adapter.go) with its parties: the clients that enqueue, the    *)
(* endorse workers, the batcher, the dependency manager of the committer   *)
(* (external), the gateway's workers, the orderer and committer (external) *)
(* and the block synchronizer that calls Handle.                           *)
(*                                                                         *)
(* Folded channels: endorsed also stands for the batcher's pending slice   *)
(* and for incoming, validated for the manager that takes nodes back.  All *)
(* are first in first out with one reader, so a later flush, or a later    *)
(* release, stands for the time spent in them.                             *)
(* An endorsement is the height of the state it was executed on.           *)
(***************************************************************************)
EXTENDS Integers, Sequences, FiniteSets, Functions

CONSTANTS
  Txs, Keys,
  Reads, Writes,   \* transaction -> the keys it reads, writes
  Format,          \* transaction -> "fabricx", "classic" or "none": what its endorsement carries
  Endorsers,       \* the endorse workers
  Workers,         \* the gateway's workers
  ChanSize,        \* capacity of the admitted channel
  Threshold,       \* batchThreshold
  Window,          \* reuseWindow
  MaxAdmitted,     \* accepted calls of Enqueue (bound)
  MaxBlockTxs,     \* transactions of a block (bound)
  Foreign,         \* transactions that another gateway may submit
  Ambiguous,       \* the transactions whose submission may fail although they were ordered
  None

VARIABLES
  tracked,      \* transaction -> its trackedTx, or None
  admitted,     \* channel of transactions
  endorsing,    \* endorse worker -> what it is doing, or None
  endorsed,     \* channel of transactions
  nodes,        \* the nodes the manager was given: their transactions
  unfinished,   \* nodes not fed back
  outgoing,     \* channel of released nodes
  released,     \* nodes that were sent to outgoing
  ready,        \* sequence of transactions
  commitSeq,    \* blocks Handle has seen
  lastWrite,    \* key -> commitSeq of its last write, 0 if not in the map
  recent,       \* slot -> the keys of that block
  done,
  work,         \* gateway worker -> what it is doing
  pool,         \* endorsed transactions on their way to a block
  ledger,       \* the committed blocks: sequences of [tx, valid]
  stored,       \* blocks in the endorser's store
  count         \* accepted calls of Enqueue

queueVars == <<tracked, admitted, endorsing, endorsed, ready, done>>
graphVars == <<nodes, unfinished, outgoing, released>>
reuseVars == <<commitSeq, lastWrite, recent>>
chainVars == <<pool, ledger, stored>>
vars == <<queueVars, graphVars, reuseVars, chainVars, work, count>>

Idle == [pc |-> "idle"]

Init ==
  /\ tracked = [h \in Txs |-> None] /\ admitted = <<>> /\ endorsed = <<>> /\ ready = <<>>
  /\ endorsing = [e \in Endorsers |-> None] /\ done = FALSE
  /\ nodes = <<>> /\ unfinished = {} /\ outgoing = <<>> /\ released = {}
  /\ commitSeq = 0 /\ lastWrite = [k \in Keys |-> 0] /\ recent = [i \in 0 .. Window - 1 |-> {}]
  /\ work = [w \in Workers |-> Idle]
  /\ pool = {} /\ ledger = <<>> /\ stored = 0 /\ count = 0

-----------------------------------------------------------------------------
(* Read-write sets (depgraph_adapter.go) *)

\* An endorsement of classic Fabric is converted: its reads and its writes all
\* become read-writes.
txContent(h) ==
  IF Format[h] = "classic"
  THEN [readsOnly |-> {}, readWrites |-> Reads[h] \cup Writes[h], blindWrites |-> {}]
  ELSE [readsOnly |-> Reads[h] \ Writes[h], readWrites |-> Reads[h] \cap Writes[h],
        blindWrites |-> Writes[h] \ Reads[h]]

readWriteKeys(h) ==
  [reads |-> txContent(h).readsOnly \cup txContent(h).readWrites,
   writes |-> txContent(h).readWrites \cup txContent(h).blindWrites]

-----------------------------------------------------------------------------
(* The endorser and the ledger *)

\* The transactions of the first n blocks that were committed as valid.
Committed(n) == {e.tx : e \in {f \in UNION {Range(ledger[b]) : b \in 1 .. n} : f.valid}}

\* A transaction whose nonce was used does not execute again.
Executes(h) == h \notin Committed(stored)

\* The committer's check: nothing that was read has been written since, in the
\* blocks of the ledger or before it in its own block.
Valid(e, before) ==
  /\ e.tx \notin Committed(Len(ledger))
  /\ \A b \in e.at + 1 .. Len(ledger) : \A f \in Range(ledger[b]) :
        f.valid => Writes[f.tx] \cap Reads[e.tx] = {}
  /\ \A f \in before : f.valid => Writes[f.tx] \cap Reads[e.tx] = {} /\ f.tx # e.tx

\* The block of the endorsed transactions txs, with these verdicts.
Block(txs, valid) == [i \in DOMAIN txs |-> [tx |-> txs[i].tx, valid |-> valid[i]]]

CommitBlock ==
  /\ \E txs \in UNION {Injection(1 .. n, pool) : n \in 1 .. MaxBlockTxs} :
       /\ \E valid \in [DOMAIN txs -> BOOLEAN] :
            /\ \A i \in DOMAIN txs :
                 valid[i] = Valid(txs[i], {Block(txs, valid)[j] : j \in 1 .. i - 1})
            /\ ledger' = Append(ledger, Block(txs, valid))
       /\ pool' = pool \ Range(txs)
  /\ UNCHANGED <<queueVars, graphVars, reuseVars, stored, work, count>>

\* The endorser's store is given a block before the gateway is.
StoreBlock ==
  /\ stored < Len(ledger) /\ stored' = stored + 1
  /\ UNCHANGED <<queueVars, graphVars, reuseVars, pool, ledger, work, count>>

\* Another gateway submits a transaction, on the committed state.
ForeignSubmit(h) ==
  /\ h \in Foreign /\ h \notin Committed(Len(ledger)) /\ count < MaxAdmitted
  /\ pool' = pool \cup {[tx |-> h, at |-> Len(ledger)]} /\ count' = count + 1
  /\ UNCHANGED <<queueVars, graphVars, reuseVars, ledger, stored, work>>

-----------------------------------------------------------------------------
(* Enqueue, endorse, batch *)

NewEntry == [node |-> 0, end |-> None, readSeq |-> 0, kept |-> FALSE]

\* ErrQueueClosed, ErrTransactionAlreadyPending and ErrQueueFull change nothing.
Enqueue(h) ==
  /\ ~done /\ tracked[h] = None /\ Len(admitted) < ChanSize /\ count < MaxAdmitted
  /\ admitted' = Append(admitted, h)
  /\ tracked' = [tracked EXCEPT ![h] = NewEntry] /\ count' = count + 1
  /\ UNCHANGED <<endorsing, endorsed, ready, done, graphVars, reuseVars, chainVars, work>>

\* endorseLoop takes a transaction and submitToManager loads commitSeq.
TakeAdmitted(e) ==
  /\ ~done /\ endorsing[e] = None /\ admitted # <<>>
  /\ endorsing' = [endorsing EXCEPT ![e] = [tx |-> Head(admitted), seq |-> commitSeq, at |-> None]]
  /\ admitted' = Tail(admitted)
  /\ UNCHANGED <<tracked, endorsed, ready, done, graphVars, reuseVars, chainVars, work, count>>

\* ExecuteTransaction.
Execute(e) ==
  /\ endorsing[e] # None /\ endorsing[e].at = None /\ Executes(endorsing[e].tx)
  /\ endorsing' = [endorsing EXCEPT ![e].at = stored]
  /\ UNCHANGED <<tracked, admitted, endorsed, ready, done, graphVars, reuseVars, chainVars, work, count>>

\* drop: the execution fails, its result carries no read-write set, or the queue is
\* closed before it can be sent.
EndorseFails(e) ==
  /\ endorsing[e] # None
  /\ endorsing[e].at = None \/ Format[endorsing[e].tx] = "none" \/ done
  /\ tracked' = [tracked EXCEPT ![endorsing[e].tx] = None]
  /\ endorsing' = [endorsing EXCEPT ![e] = None]
  /\ UNCHANGED <<admitted, endorsed, ready, done, graphVars, reuseVars, chainVars, work, count>>

\* Mutant: commitSeq is loaded after the execution.
LoadedAfter(x) ==
  IF tracked[x.tx] = None THEN tracked
  ELSE [tracked EXCEPT ![x.tx].end = x.at, ![x.tx].readSeq = commitSeq, ![x.tx].kept = TRUE]

keepEndorsement(x) ==
  IF tracked[x.tx] = None THEN tracked
  ELSE [tracked EXCEPT ![x.tx].end = x.at, ![x.tx].readSeq = x.seq, ![x.tx].kept = TRUE]

\* submitToManager, from the endorsement on.
submitToManager(e) ==
  /\ endorsing[e] # None /\ endorsing[e].at # None /\ Format[endorsing[e].tx] # "none" /\ ~done
  /\ tracked' = keepEndorsement(endorsing[e])
  /\ endorsed' = Append(endorsed, endorsing[e].tx)
  /\ endorsing' = [endorsing EXCEPT ![e] = None]
  /\ UNCHANGED <<admitted, ready, done, graphVars, reuseVars, chainVars, work, count>>

\* batchLoop sends at the threshold, or fewer on the timeout.
batchLoop ==
  /\ ~done
  /\ \E n \in 1 .. Threshold :
       /\ n <= Len(endorsed)
       /\ nodes' = nodes \o SubSeq(endorsed, 1, n)
       /\ endorsed' = SubSeq(endorsed, n + 1, Len(endorsed))
       /\ unfinished' = unfinished \cup (Len(nodes) + 1 .. Len(nodes) + n)
  /\ UNCHANGED <<tracked, admitted, endorsing, ready, done, outgoing, released, reuseVars, chainVars, work, count>>

-----------------------------------------------------------------------------
(* The dependency manager *)

Conflict(h, k) ==
  \/ readWriteKeys(h).writes \cap (readWriteKeys(k).reads \cup readWriteKeys(k).writes) # {}
  \/ readWriteKeys(h).reads \cap readWriteKeys(k).writes # {}

\* A node is released when no earlier one that conflicts is unfinished.
Release(n) ==
  /\ ~done /\ n \in unfinished \ released
  /\ \A m \in unfinished : m < n => ~Conflict(nodes[m], nodes[n])
  /\ outgoing' = Append(outgoing, n) /\ released' = released \cup {n}
  /\ UNCHANGED <<queueVars, nodes, unfinished, reuseVars, chainVars, work, count>>

-----------------------------------------------------------------------------
(* Released nodes *)

\* Mutant: a node that nothing waits for is not handed back.
OrphanKept(n) == unfinished

OrphanReleased(n) == unfinished \ {n}

\* Mutant: the node is handed back as soon as its transaction is ready.
HandedBackAtOnce(n) == unfinished \ {n}

\* The node is kept until its transaction is over.
NodeKept(n) == unfinished

\* drainReleased: the node of an untracked transaction is handed back.
markReady ==
  /\ ~done /\ outgoing # <<>> /\ outgoing' = Tail(outgoing)
  /\ LET n == Head(outgoing)  h == nodes[n] IN
     \/ /\ tracked[h] # None
        /\ tracked' = [tracked EXCEPT ![h].node = n] /\ ready' = Append(ready, h)
        /\ unfinished' = NodeKept(n)
     \/ /\ tracked[h] = None
        /\ unfinished' = OrphanReleased(n)
        /\ UNCHANGED <<tracked, ready>>
  /\ UNCHANGED <<admitted, endorsing, endorsed, done, nodes, released, reuseVars, chainVars, work, count>>

\* Mutant: the nodes of untracked transactions only are handed back.
NothingTaken(hs) == {}

\* takeNodes: the nodes of those of hs that are tracked and have one.
takeNodes(hs) == {tracked[h].node : h \in {k \in hs : tracked[k] # None}} \ {0}

Untracked(hs) == [h \in Txs |-> IF h \in hs THEN None ELSE tracked[h]]

\* Complete, with the rest of what the caller does.
Completed(h) ==
  /\ unfinished' = unfinished \ takeNodes({h})
  /\ tracked' = Untracked({h})

-----------------------------------------------------------------------------
(* Handle *)

\* The keys noted for a block: what the valid tracked transactions wrote.
WrittenBy(block) ==
  UNION {readWriteKeys(e.tx).writes :
           e \in {f \in Range(block) : f.valid /\ tracked[f.tx] # None /\ tracked[f.tx].kept}}

recordCommitted(block) ==
  LET seq == commitSeq + 1
      slot == recent[seq % Window]
      old == {k \in slot : lastWrite[k] = seq - Window}
      new == WrittenBy(block)
  IN
  /\ commitSeq' = seq
  /\ lastWrite' = [k \in Keys |-> IF k \in new THEN seq ELSE IF k \in old THEN 0 ELSE lastWrite[k]]
  /\ recent' = [recent EXCEPT ![seq % Window] = new]

Handle ==
  /\ commitSeq < stored
  /\ LET block == ledger[commitSeq + 1]
         hs == {e.tx : e \in Range(block)}
     IN
     /\ recordCommitted(block)
     /\ unfinished' = unfinished \ takeNodes(hs)
     /\ tracked' = Untracked(hs)
  /\ UNCHANGED <<admitted, endorsing, endorsed, ready, done, nodes, outgoing, released, chainVars, work, count>>

-----------------------------------------------------------------------------
(* The gateway's workers (core/api.go worker, processTx) *)

Dequeue(w) ==
  /\ work[w].pc = "idle" /\ ready # <<>>
  /\ work' = [work EXCEPT ![w] = [pc |-> "served", tx |-> Head(ready)]]
  /\ ready' = Tail(ready)
  /\ UNCHANGED <<tracked, admitted, endorsing, endorsed, done, graphVars, reuseVars, chainVars, count>>

\* Mutant: Dequeue returns false only when nothing is tracked any more.
StopsWhenUntracked(w) ==
  /\ work[w].pc = "idle" /\ ready = <<>> /\ done /\ \A h \in Txs : tracked[h] = None
  /\ work' = [work EXCEPT ![w] = [pc |-> "stopped"]]
  /\ UNCHANGED <<queueVars, graphVars, reuseVars, chainVars, count>>

\* Dequeue returns false.
WorkerStops(w) ==
  /\ work[w].pc = "idle" /\ ready = <<>> /\ done
  /\ work' = [work EXCEPT ![w] = [pc |-> "stopped"]]
  /\ UNCHANGED <<queueVars, graphVars, reuseVars, chainVars, count>>

\* Mutant: the age of the endorsement is not looked at.
AnyAge(h) == \A k \in readWriteKeys(h).reads : lastWrite[k] <= tracked[h].readSeq

\* Nothing that the endorsement of h read was overwritten, as far as the window reaches.
Fresh(h) ==
  /\ commitSeq - tracked[h].readSeq < Window
  /\ \A k \in readWriteKeys(h).reads : lastWrite[k] <= tracked[h].readSeq

\* The endorsement is handed over once, reusable or not.
ReusableEndorsement(w) ==
  /\ work[w].pc = "served"
  /\ LET h == work[w].tx
         kept == tracked[h] # None /\ tracked[h].end # None
     IN
     /\ work' = [work EXCEPT ![w] = IF kept /\ Fresh(h)
                                    THEN [pc |-> "submit", tx |-> h, at |-> tracked[h].end]
                                    ELSE [pc |-> "execute", tx |-> h]]
     /\ tracked' = IF kept THEN [tracked EXCEPT ![h].end = None] ELSE tracked
  /\ UNCHANGED <<admitted, endorsing, endorsed, ready, done, graphVars, reuseVars, chainVars, count>>

ExecuteEthTx(w) ==
  /\ work[w].pc = "execute" /\ Executes(work[w].tx)
  /\ work' = [work EXCEPT ![w] = [pc |-> "submit", tx |-> @.tx, at |-> stored]]
  /\ UNCHANGED <<queueVars, graphVars, reuseVars, chainVars, count>>

Submit(w) ==
  /\ work[w].pc = "submit"
  /\ pool' = pool \cup {[tx |-> work[w].tx, at |-> work[w].at]}
  /\ work' = [work EXCEPT ![w] = Idle]
  /\ UNCHANGED <<queueVars, graphVars, reuseVars, ledger, stored, count>>

\* The execution or the submission fails, the latter maybe after the transaction
\* was ordered: Complete.
ProcessFails(w) ==
  /\ work[w].pc \in {"execute", "submit"}
  /\ Completed(work[w].tx)
  /\ pool' \in {pool} \cup (IF work[w].tx \in Ambiguous /\ work[w].pc = "submit"
                            THEN {pool \cup {[tx |-> work[w].tx, at |-> work[w].at]}} ELSE {})
  /\ work' = [work EXCEPT ![w] = Idle]
  /\ UNCHANGED <<admitted, endorsing, endorsed, ready, done, nodes, outgoing, released, reuseVars,
                 ledger, stored, count>>

\* shutdown.
Close ==
  /\ ~done /\ done' = TRUE
  /\ UNCHANGED <<tracked, admitted, endorsing, endorsed, ready, graphVars, reuseVars, chainVars, work, count>>

-----------------------------------------------------------------------------

Endorse(e) == TakeAdmitted(e) \/ Execute(e) \/ EndorseFails(e) \/ submitToManager(e)

Work(w) == \/ Dequeue(w) \/ WorkerStops(w) \/ ReusableEndorsement(w)
           \/ ExecuteEthTx(w) \/ Submit(w) \/ ProcessFails(w)

Manager == \E n \in 1 .. MaxAdmitted : Release(n)

Next ==
  \/ \E h \in Txs : Enqueue(h) \/ ForeignSubmit(h)
  \/ \E e \in Endorsers : Endorse(e)
  \/ \E w \in Workers : Work(w)
  \/ batchLoop \/ Manager \/ markReady \/ Handle \/ CommitBlock \/ StoreBlock \/ Close

Spec == Init /\ [][Next]_vars

-----------------------------------------------------------------------------
(* Properties *)

\* What has been served and is not over: with a worker, on its way to a block, or
\* in a block Handle has not seen.
InFlight == {work[w].tx : w \in {v \in Workers : work[v].pc \in {"served", "execute", "submit"}}}
            \cup {e.tx : e \in pool}
            \cup UNION {{e.tx : e \in Range(ledger[b])} : b \in commitSeq + 1 .. Len(ledger)}

\* "two transactions touching the same key are never in flight at once": from Dequeue
\* until Handle has seen the block, when nothing reaches the ledger behind the queue's back.
NeverClash == \A h, k \in InFlight : h # k => ~(Writes[h] \cap (Reads[k] \cup Writes[k]) # {})

\* An endorsement that is kept from the first execution, and one made after Dequeue,
\* both pass the committer's check: reuse never costs a transaction its validity.
NoConflictAborts == \A b \in 1 .. Len(ledger) : \A e \in Range(ledger[b]) : e.valid

\* depgraph_queue.go serves no two conflicting transactions at once, and no
\* endorsement that it kept or had made anew is refused at the commit.
GraphServesSafely == NeverClash /\ NoConflictAborts

=============================================================================
