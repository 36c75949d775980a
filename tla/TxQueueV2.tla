----------------------------- MODULE TxQueueV2 -----------------------------
(***************************************************************************)
(* The dependency-aware transaction queue of the gateway                   *)
(* (gateway/core/txqueue_v2.go) with the parties that call it: clients     *)
(* that enqueue, the pool of workers that dequeue and endorse, the batch   *)
(* submitter that reports a failed submission, and the block synchronizer  *)
(* that reports what was committed, which need not have come through this  *)
(* gateway.                                                                *)
(*                                                                         *)
(* An entry (a txEntry) is a number, given out in the order of Enqueue; a  *)
(* transaction enqueued again after it completed gets a new entry.         *)
(* blocks[e] and isBlockedBy[e] are the slices of the code as bags: how    *)
(* many times an entry occurs in them.                                     *)
(***************************************************************************)
EXTENDS Integers, FiniteSets, Sequences, Functions

CONSTANTS
  Hashes,        \* transaction hashes
  Addresses,     \* sender and recipient addresses
  Participants,  \* hash -> its participants (participantsForTx)
  Workers,       \* the worker goroutines of the gateway
  MaxEntries,    \* bound: how many times Enqueue accepts a transaction
  MaxBlockTxs    \* bound: transactions of a block

ASSUME QueueAssumption ==
  /\ MaxEntries \in Nat /\ MaxBlockTxs \in Nat
  /\ Hashes # {} /\ IsFiniteSet(Hashes) /\ IsFiniteSet(Addresses)
  /\ Participants \in [Hashes -> SUBSET Addresses]

ASSUME WorkersFinite == IsFiniteSet(Workers)

VARIABLES
  hashOf,        \* entry -> its hash
  state,         \* entry -> "none" (not created), "ready", "waiting", "pending"
  blocks,        \* entry -> entry -> occurrences in txEntry.blocks
  isBlockedBy,   \* entry -> entry -> occurrences in txEntry.isBlockedBy
  alloc,         \* entries created so far
  readyList,     \* sequence of entries
  waitingList,   \* set of entries: only its length is ever read
  hashMap,       \* hash -> entry, NoEntry if not tracked
  pendingMap,    \* hashes handed to a worker
  done,          \* Close was called
  pc,            \* worker -> where it is
  job,           \* worker -> the hash it processes
  submitted,     \* hash -> submissions whose outcome is not known yet
  todo,          \* the hashes Handle has still to complete, under the lock
  promoted       \* Handle's totalPromoted

entryVars == <<hashOf, state, blocks, isBlockedBy, alloc>>
listVars == <<readyList, waitingList, hashMap, pendingMap>>
queueVars == <<entryVars, listVars, done>>
workerVars == <<pc, job>>
lockVars == <<todo, promoted>>
vars == <<queueVars, workerVars, submitted, lockVars>>

Entries == 1..MaxEntries
NoEntry == 0
\* The value of a hash that was not set yet and is never read.
AnyHash == CHOOSE h \in Hashes : TRUE
NoBag == [f \in Entries |-> 0]

\* The entries reachable through hashMap and participantMap, which Enqueue and
\* completeUnlocked keep in step.
Tracked == {hashMap[h] : h \in Hashes} \ {NoEntry}

\* How many addresses two transactions share.
Shared(h, k) == Cardinality(Participants[h] \cap Participants[k])

\* The mutex is free: Handle holds it for the whole block.
Unlocked == todo = <<>>

Init ==
  /\ hashOf = [e \in Entries |-> AnyHash]
  /\ state = [e \in Entries |-> "none"]
  /\ blocks = [e \in Entries |-> NoBag]
  /\ isBlockedBy = [e \in Entries |-> NoBag]
  /\ alloc = 0
  /\ readyList = <<>> /\ waitingList = {}
  /\ hashMap = [h \in Hashes |-> NoEntry] /\ pendingMap = {}
  /\ done = FALSE
  /\ pc = [w \in Workers |-> "dequeue"]
  /\ job = [w \in Workers |-> AnyHash]
  /\ submitted = [h \in Hashes |-> 0]
  /\ todo = <<>> /\ promoted = 0

\* Mutant: one Signal, however many transactions were promoted.
SignalOnly(p, n) ==
  LET asleep == {w \in Workers : p[w] = "asleep"} IN
  IF n = 0 \/ asleep = {} THEN {p}
  ELSE {[p EXCEPT ![w] = "woken"] : w \in asleep}

\* Mutant: promotions wake nobody.
NeverWoken(p, n) == {p}

\* What p, the workers' control state, becomes after n transactions were made
\* ready: nothing, cond.Signal or cond.Broadcast.
Woken(p, n) ==
  LET asleep == {w \in Workers : p[w] = "asleep"} IN
  IF n = 0 \/ asleep = {} THEN {p}
  ELSE IF n = 1 THEN {[p EXCEPT ![w] = "woken"] : w \in asleep}
  ELSE {[w \in Workers |-> IF w \in asleep THEN "woken" ELSE p[w]]}

-----------------------------------------------------------------------------
(* Enqueue *)

\* Mutant: a transaction handed to a worker no longer conflicts.
PendingIgnored(h, states) ==
  {f \in Tracked : state[f] \in states \ {"pending"} /\ Shared(h, hashOf[f]) > 0}

\* Mutant: a waiting transaction conflicts like one in flight.
WaitingConflicts(h, states) ==
  {f \in Tracked : /\ state[f] \in states \/ "ready" \in states
                   /\ Shared(h, hashOf[f]) > 0}

\* Tracked entries that share a participant with h and are in one of states.
Conflicts(h, states) ==
  {f \in Tracked : state[f] \in states /\ Shared(h, hashOf[f]) > 0}

\* Enqueue of an untracked transaction (a tracked one is refused, with no
\* effect). It waits for the ready and pending transactions it conflicts with,
\* once each; the waiting ones wait for it, once per shared participant.
Enqueue(h) ==
  LET e == alloc + 1
      inFlight == Conflicts(h, {"ready", "pending"})
      waiting == Conflicts(h, {"waiting"})
      times(f) == IF f \in waiting THEN Shared(h, hashOf[f]) ELSE 0
      isIn(f) == IF f \in inFlight THEN 1 ELSE 0
  IN
  /\ Unlocked /\ alloc < MaxEntries /\ hashMap[h] = NoEntry
  /\ alloc' = e
  /\ hashOf' = [hashOf EXCEPT ![e] = h]
  /\ hashMap' = [hashMap EXCEPT ![h] = e]
  /\ isBlockedBy' = [f \in Entries |->
       IF f = e THEN [g \in Entries |-> isIn(g)]
                ELSE [isBlockedBy[f] EXCEPT ![e] = times(f)]]
  /\ blocks' = [f \in Entries |->
       IF f = e THEN [g \in Entries |-> times(g)]
                ELSE [blocks[f] EXCEPT ![e] = isIn(f)]]
  /\ \/ /\ inFlight # {}
        /\ state' = [state EXCEPT ![e] = "waiting"]
        /\ waitingList' = waitingList \union {e}
        /\ UNCHANGED <<readyList, pc>>
     \/ /\ inFlight = {}
        /\ state' = [state EXCEPT ![e] = "ready"]
        /\ readyList' = Append(readyList, e)
        /\ pc' \in Woken(pc, 1)
        /\ UNCHANGED waitingList
  /\ UNCHANGED <<pendingMap, done, job, submitted, lockVars>>

-----------------------------------------------------------------------------
(* completeUnlocked *)

\* Mutant: one occurrence is removed, though a pair that shares both
\* participants is linked twice.
RemoveOnce(e, f) ==
  [isBlockedBy[f] EXCEPT ![e] = IF blocks[e][f] > 0 THEN @ - 1 ELSE @]

\* f.isBlockedBy after e was removed from it once per occurrence of f in
\* e.blocks.
Unblocked(e, f) ==
  [isBlockedBy[f] EXCEPT ![e] = IF @ > blocks[e][f] THEN @ - blocks[e][f] ELSE 0]

\* The entries that completing e promotes. Each is promoted once: f occurs in
\* e.blocks as often as e in f.isBlockedBy (LinksMatch), so that only the last
\* removal leaves it without blockers.
Promoted(e) ==
  {f \in Entries : blocks[e][f] > 0 /\ Unblocked(e, f) = NoBag}

NumPromoted(h) ==
  IF hashMap[h] = NoEntry THEN 0 ELSE Cardinality(Promoted(hashMap[h]))

\* The order in which e.blocks lists the promoted ones depends on the iteration
\* over a Go map, and is left open. The slice of e is never read again: nothing
\* leads to e but the lists it may still be in.
completeUnlocked(h) ==
  LET e == hashMap[h] IN
  /\ pendingMap' = pendingMap \ {h}
  /\ \/ e = NoEntry /\ UNCHANGED <<entryVars, readyList, waitingList, hashMap>>
     \/ /\ e # NoEntry
        /\ isBlockedBy' = [f \in Entries |-> Unblocked(e, f)]
        /\ state' = [f \in Entries |-> IF f \in Promoted(e) THEN "ready" ELSE state[f]]
        /\ waitingList' = waitingList \ Promoted(e)
        /\ \E order \in Injection(1..Cardinality(Promoted(e)), Promoted(e)) :
             readyList' = readyList \o order
        /\ hashMap' = [hashMap EXCEPT ![h] = NoEntry]
        /\ blocks' = [blocks EXCEPT ![e] = NoBag]
        /\ UNCHANGED <<hashOf, alloc>>

\* Complete, called by a worker that failed or by the batch submitter; p is the
\* workers' control state its caller leaves behind.
Complete(h, p) ==
  /\ Unlocked
  /\ completeUnlocked(h)
  /\ pc' \in Woken(p, NumPromoted(h))
  /\ UNCHANGED <<done, lockVars>>

-----------------------------------------------------------------------------
(* Dequeue and the worker loop *)

InDequeue(w) == pc[w] \in {"dequeue", "woken"} /\ Unlocked

DequeueTx(w) ==
  /\ InDequeue(w) /\ readyList # <<>>
  /\ LET e == Head(readyList) IN
     /\ readyList' = Tail(readyList)
     /\ state' = [state EXCEPT ![e] = "pending"]
     /\ pendingMap' = pendingMap \union {hashOf[e]}
     /\ job' = [job EXCEPT ![w] = hashOf[e]]
  /\ pc' = [pc EXCEPT ![w] = "busy"]
  /\ UNCHANGED <<hashOf, blocks, isBlockedBy, alloc, waitingList, hashMap,
                 done, submitted, lockVars>>

DequeueWaits(w) ==
  /\ InDequeue(w) /\ readyList = <<>> /\ ~done
  /\ pc' = [pc EXCEPT ![w] = "asleep"]
  /\ UNCHANGED <<queueVars, job, submitted, lockVars>>

DequeueClosed(w) ==
  /\ InDequeue(w) /\ readyList = <<>> /\ done
  /\ pc' = [pc EXCEPT ![w] = "gone"]
  /\ UNCHANGED <<queueVars, job, submitted, lockVars>>

Dequeue(w) == DequeueTx(w) \/ DequeueWaits(w) \/ DequeueClosed(w)

\* processTx endorsed the transaction and passed it to the batch submitter.
WorkerSubmits(w) ==
  /\ pc[w] = "busy"
  /\ submitted' = [submitted EXCEPT ![job[w]] = @ + 1]
  /\ pc' = [pc EXCEPT ![w] = "dequeue"]
  /\ job' = [job EXCEPT ![w] = AnyHash]
  /\ UNCHANGED <<queueVars, lockVars>>

\* processTx failed.
WorkerFails(w) ==
  /\ pc[w] = "busy"
  /\ Complete(job[w], [pc EXCEPT ![w] = "dequeue"])
  /\ job' = [job EXCEPT ![w] = AnyHash]
  /\ UNCHANGED submitted

\* The batch submitter could not submit the transaction.
SubmitFails(h) ==
  /\ submitted[h] > 0
  /\ submitted' = [submitted EXCEPT ![h] = @ - 1]
  /\ Complete(h, pc)
  /\ UNCHANGED job

-----------------------------------------------------------------------------
(* Handle and Close *)

BlockContents == UNION {Injection(1..n, Hashes) : n \in 1..MaxBlockTxs}

\* Handle of a committed block: it takes the lock, and completes the
\* transactions one after the other.
HandleBegin(txs) ==
  /\ Unlocked
  /\ todo' = txs /\ promoted' = 0
  /\ submitted' = [h \in Hashes |->
       IF h \in Range(txs) /\ submitted[h] > 0 THEN submitted[h] - 1 ELSE submitted[h]]
  /\ UNCHANGED <<queueVars, workerVars>>

\* The workers are woken once, after the last transaction.
HandleNext ==
  LET total == promoted + NumPromoted(Head(todo)) IN
  /\ todo # <<>>
  /\ completeUnlocked(Head(todo))
  /\ todo' = Tail(todo)
  /\ \/ todo' = <<>> /\ promoted' = 0 /\ pc' \in Woken(pc, total)
     \/ todo' # <<>> /\ promoted' = total /\ UNCHANGED pc
  /\ UNCHANGED <<done, job, submitted>>

Close ==
  /\ Unlocked /\ ~done
  /\ done' = TRUE
  /\ pc' \in Woken(pc, 2)
  /\ UNCHANGED <<entryVars, listVars, job, submitted, lockVars>>

WorkerNext(w) == Dequeue(w) \/ WorkerSubmits(w) \/ WorkerFails(w)

Next ==
  \/ \E h \in Hashes : Enqueue(h) \/ SubmitFails(h)
  \/ \E w \in Workers : WorkerNext(w)
  \/ \E txs \in BlockContents : HandleBegin(txs)
  \/ HandleNext
  \/ Close

Spec == Init /\ [][Next]_vars

\* The specification with the fairness the liveness property assumes. A
\* goroutine that asks for the mutex gets it in the end, however often others
\* take it before (sync.Mutex has a starvation mode): strong fairness. Every
\* submission is reported in the end, by a block or as a failure.
Outcome(h) ==
  SubmitFails(h) \/ \E txs \in BlockContents : h \in Range(txs) /\ HandleBegin(txs)
Fairness ==
  /\ WF_vars(HandleNext)
  /\ \A w \in Workers : SF_vars(WorkerNext(w))
  /\ \A h \in Hashes : SF_vars(submitted[h] > 0 /\ Outcome(h))
FairSpec == Spec /\ Fairness

-----------------------------------------------------------------------------
(* Properties *)

Bag == [Entries -> Nat]

\* Every variable has its type: in particular the slices of an entry hold
\* entries, and hashMap leads to an entry that exists.
TypeOK ==
  /\ hashOf \in [Entries -> Hashes]
  /\ state \in [Entries -> {"none", "ready", "waiting", "pending"}]
  /\ blocks \in [Entries -> Bag] /\ isBlockedBy \in [Entries -> Bag]
  /\ alloc \in 0..MaxEntries
  /\ readyList \in Seq(Entries) /\ waitingList \in SUBSET Entries
  /\ hashMap \in [Hashes -> 0..alloc] /\ pendingMap \in SUBSET Hashes
  /\ done \in BOOLEAN
  /\ pc \in [Workers -> {"dequeue", "asleep", "woken", "busy", "gone"}]
  /\ job \in [Workers -> Hashes]
  /\ submitted \in [Hashes -> Nat]
  /\ todo \in Seq(Hashes) /\ promoted \in Nat

\* What the queue is for ("transactions touching the same participants are
\* processed sequentially"): of the transactions it tracks, no two that share
\* a participant are both ready or handed to a worker, whatever was enqueued,
\* completed, failed or committed elsewhere before.
ConflictsSerial ==
  \A e, f \in Tracked :
    e # f /\ Shared(hashOf[e], hashOf[f]) > 0
      => {state[e], state[f]} \cap {"waiting"} # {}

\* The invariants of the txEntry comment, for every entry, a completed one that
\* is still in a list included: exactly the ready ones are in readyList, once
\* each, exactly the waiting ones in waitingList, and an entry waits if and
\* only if something blocks it.
ListsMatchStates ==
  /\ Range(readyList) = {e \in Entries : state[e] = "ready"}
  /\ \A i, j \in DOMAIN readyList : readyList[i] = readyList[j] => i = j
  /\ waitingList = {e \in Entries : state[e] = "waiting"}
  /\ \A e \in Entries : state[e] = "waiting" <=> isBlockedBy[e] # NoBag

\* The two ends of a dependency agree, so that completing a transaction frees
\* all it blocks, and only tracked transactions block: nothing waits for one
\* that Complete will never be called for.
LinksMatch ==
  /\ \A e, f \in Entries : isBlockedBy[e][f] > 0 => f \in Tracked
  /\ \A e, f \in Entries : isBlockedBy[e][f] = blocks[f][e]

\* Queue jumping never closes a circle: in every group of tracked transactions
\* some transaction waits for none of the group.
NoCircularWait ==
  \A S \in (SUBSET Tracked) \ {{}} :
    \E e \in S : \A f \in S : isBlockedBy[e][f] = 0

\* No wake-up is lost: while a worker sleeps in cond.Wait, every ready
\* transaction has a worker that was woken and has not run yet. One Signal for
\* one transaction and one Broadcast for several are enough.
NoLostWakeup ==
  Unlocked /\ (\E w \in Workers : pc[w] = "asleep")
    => Len(readyList) <= Cardinality({w \in Workers : pc[w] = "woken"})

=============================================================================
