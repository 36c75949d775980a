------------------------------ MODULE TestNode ------------------------------
(***************************************************************************)
(* Snapshots and reverts of the test node (gateway/testimpl): the fence    *)
(* between evm_snapshot/evm_revert and the transactions, over the whole    *)
(* path that a transaction takes: submission under the fence, the nonce    *)
(* gate, the queue, the ledger, and the handlers that see its block, in    *)
(* their order: the endorser's state, the block store, the gate, the       *)
(* queue.                                                                  *)
(*                                                                         *)
(* One sender; its nonce is the state.  epoch counts the reverts: a        *)
(* transaction carries the epoch it was accepted in.                       *)
(***************************************************************************)
EXTENDS Integers, Sequences, FiniteSets

CONSTANTS
  MaxNonce,        \* nonces submitted (bound)
  MaxBlock,        \* blocks cut (bound)
  MaxReverts,      \* reverts (bound)
  Priming,         \* whether hardhat_set* transactions are submitted
  ConcurrentMine   \* whether blocks are mined while a rewind is in progress

VARIABLES
  rewinding,           \* txFence.rewinding
  apc, op, target,     \* the rewind in progress: its step, kind and height
  snapshots,           \* EvmAPI.snapshots
  next, parked,        \* the gate: cached nonce (-1: none), parked transactions
  queue,               \* the transactions the queue tracks
  sent,                \* submitted and not yet in a block: [tx, ver]
  ledgerH, ledgerVer,  \* the ledger: its height, and the version of the nonce key
  blocks,              \* blocks cut and not yet handled by all handlers
  hpc,                 \* which handler sees the first of them next
  kvs, history,        \* the endorser's state, and earlier ones by height
  storeH, rows,        \* the block store: its tip, height -> valid transactions
  epoch, stale         \* reverts so far; a transaction outlived one

vars == <<rewinding, apc, op, target, snapshots, next, parked, queue, sent, ledgerH,
          ledgerVer, blocks, hpc, kvs, history, storeH, rows, epoch, stale>>
apiVars == <<rewinding, apc, op, target, snapshots>>
gateVars == <<next, parked>>
stateVars == <<kvs, history, storeH, rows>>
ledgerVars == <<sent, ledgerH, ledgerVer, blocks>>

NoTx == [n |-> -1, e |-> 0, prime |-> TRUE]

Init ==
  /\ rewinding = FALSE
  /\ apc = "idle" /\ op = "none" /\ target = 0
  /\ snapshots = {}
  /\ next = -1 /\ parked = {}
  /\ queue = {} /\ sent = {}
  /\ ledgerH = 0 /\ ledgerVer = 0
  /\ blocks = <<>> /\ hpc = "kvs"
  /\ kvs = [h |-> 0, nonce |-> 0, ver |-> 0]
  /\ history = [h \in {} |-> kvs]
  /\ storeH = 0 /\ rows = [h \in {0} |-> {}]
  /\ epoch = 0 /\ stale = FALSE

Extend(f, h, v) == [g \in DOMAIN f \cup {h} |-> IF g = h THEN v ELSE f[g]]
Only(f, S) == [g \in DOMAIN f \cap S |-> f[g]]

-----------------------------------------------------------------------------
(* Transactions *)

Seed == IF next = -1 THEN kvs.nonce ELSE next

\* Mutant: the submission does not look at the fence.
SubmitUnfenced(n) ==
  LET tx == [n |-> n, e |-> epoch, prime |-> FALSE] IN
  /\ tx \notin queue \cup parked
  /\ next' = Seed
  /\ queue' = IF n = Seed THEN queue \cup {tx} ELSE queue
  /\ parked' = IF n > Seed THEN {t \in parked : t.n # n} \cup {tx} ELSE parked
  /\ UNCHANGED <<apiVars, ledgerVars, hpc, stateVars, epoch, stale>>

\* SendTransaction and SendRawTransaction under the fence, through the gate: the
\* expected nonce is queued, a later one parked, an earlier one rejected.
Submit(n) ==
  LET tx == [n |-> n, e |-> epoch, prime |-> FALSE] IN
  /\ ~rewinding
  /\ tx \notin queue \cup parked
  /\ next' = Seed
  /\ queue' = IF n = Seed THEN queue \cup {tx} ELSE queue
  /\ parked' = IF n > Seed THEN {t \in parked : t.n # n} \cup {tx} ELSE parked
  /\ UNCHANGED <<apiVars, ledgerVars, hpc, stateVars, epoch, stale>>

\* A worker endorses on the current state and submits.
WorkerSubmits(tx) ==
  /\ tx \in queue /\ \A s \in sent : s.tx # tx
  /\ \A i \in DOMAIN blocks : blocks[i].tx # tx
  /\ tx.n = kvs.nonce
  /\ sent' = sent \cup {[tx |-> tx, ver |-> kvs.ver]}
  /\ UNCHANGED <<apiVars, gateVars, queue, ledgerH, ledgerVer, blocks, hpc, stateVars, epoch, stale>>

\* The worker drops the transaction: endorsement or submission fails.
WorkerFails(tx) ==
  /\ tx \in queue /\ \A s \in sent : s.tx # tx
  /\ \A i \in DOMAIN blocks : blocks[i].tx # tx
  /\ queue' = queue \ {tx}
  /\ UNCHANGED <<apiVars, gateVars, ledgerVars, hpc, stateVars, epoch, stale>>

\* prime: the transaction goes straight to the submitter.
Prime ==
  LET tx == [n |-> -1, e |-> epoch, prime |-> TRUE] IN
  /\ Priming
  /\ \A s \in sent : ~s.tx.prime
  /\ sent' = sent \cup {[tx |-> tx, ver |-> kvs.ver]}
  /\ UNCHANGED <<apiVars, gateVars, queue, ledgerH, ledgerVer, blocks, hpc, stateVars, epoch, stale>>

-----------------------------------------------------------------------------
(* The ledger: a block of one transaction, or an empty one *)

OrderBlock(s) ==
  LET valid == s.tx.prime \/ s.ver = ledgerVer IN
  /\ s \in sent
  /\ ledgerH < MaxBlock
  /\ sent' = sent \ {s}
  /\ ledgerH' = ledgerH + 1
  /\ ledgerVer' = IF valid /\ ~s.tx.prime THEN ledgerVer + 1 ELSE ledgerVer
  /\ blocks' = Append(blocks, [h |-> ledgerH + 1, tx |-> s.tx, valid |-> valid])
  /\ UNCHANGED <<apiVars, gateVars, queue, hpc, stateVars, epoch, stale>>

\* mineBlocks cuts an empty block (and waits for it, which is why a client that
\* waits for its calls does not rewind at the same time).
Mine ==
  /\ ledgerH < MaxBlock
  /\ ConcurrentMine \/ apc = "idle"
  /\ ledgerH' = ledgerH + 1
  /\ blocks' = Append(blocks, [h |-> ledgerH + 1, tx |-> NoTx, valid |-> FALSE])
  /\ UNCHANGED <<apiVars, gateVars, queue, sent, ledgerVer, hpc, stateVars, epoch, stale>>

-----------------------------------------------------------------------------
(* The handlers of a block, in the order of the synchronizer's chain *)

TheBlock == blocks[1]
Nonced == TheBlock.valid /\ ~TheBlock.tx.prime

KvsHandle ==
  /\ blocks # <<>> /\ hpc = "kvs"
  /\ history' = Extend(history, kvs.h, kvs)
  /\ kvs' = [h |-> TheBlock.h,
             nonce |-> IF Nonced THEN TheBlock.tx.n + 1 ELSE kvs.nonce,
             ver |-> IF Nonced THEN kvs.ver + 1 ELSE kvs.ver]
  /\ stale' = (stale \/ (TheBlock.valid /\ TheBlock.tx.e # epoch))
  /\ hpc' = "chain"
  /\ UNCHANGED <<apiVars, gateVars, queue, ledgerVars, storeH, rows, epoch>>

ChainHandle ==
  /\ blocks # <<>> /\ hpc = "chain"
  /\ rows' = Extend(rows, TheBlock.h, IF TheBlock.valid THEN {TheBlock.tx} ELSE {})
  /\ storeH' = TheBlock.h
  /\ hpc' = "gate"
  /\ UNCHANGED <<apiVars, gateVars, queue, ledgerVars, kvs, history, epoch, stale>>

Released(n) == {t \in parked : t.n = n}

\* Observe: the nonce moves on and the transaction parked at it is queued.
GateObserve ==
  /\ blocks # <<>> /\ hpc = "gate"
  /\ LET n == IF TheBlock.tx.n + 1 > next THEN TheBlock.tx.n + 1 ELSE next IN
     IF Nonced THEN /\ next' = n
                    /\ parked' = {t \in parked : t.n > n}
                    /\ queue' = queue \cup Released(n)
     ELSE UNCHANGED <<next, parked, queue>>
  /\ hpc' = "queue"
  /\ UNCHANGED <<apiVars, ledgerVars, stateVars, epoch, stale>>

\* The queue completes the transactions of the block.
QueueHandle ==
  /\ blocks # <<>> /\ hpc = "queue"
  /\ queue' = queue \ {TheBlock.tx}
  /\ blocks' = Tail(blocks)
  /\ hpc' = "kvs"
  /\ UNCHANGED <<apiVars, gateVars, sent, ledgerH, ledgerVer, stateVars, epoch, stale>>

-----------------------------------------------------------------------------
(* evm_snapshot and evm_revert, one at a time under EvmAPI.mu *)

beginRewind(kind, bn) ==
  /\ apc = "idle"
  /\ ConcurrentMine \/ \A i \in DOMAIN blocks : blocks[i].tx # NoTx
  /\ kind = "revert" => epoch < MaxReverts
  /\ kind = "snapshot" => bn = 0
  /\ rewinding' = TRUE
  /\ apc' = "drain" /\ op' = kind /\ target' = bn
  /\ UNCHANGED <<snapshots, gateVars, queue, ledgerVars, hpc, stateVars, epoch, stale>>

\* InFlight is zero.
Drained ==
  /\ apc = "drain"
  /\ queue = {}
  /\ apc' = "go"
  /\ UNCHANGED <<rewinding, op, target, snapshots, gateVars, queue, ledgerVars, hpc, stateVars, epoch, stale>>

\* Mutant: the timeout returns without reopening the fence.
DrainStuck ==
  /\ apc = "drain"
  /\ queue # {}
  /\ apc' = "idle"
  /\ UNCHANGED <<rewinding, op, target, snapshots, gateVars, queue, ledgerVars, hpc, stateVars, epoch, stale>>

\* The caller gives up, or drainTimeout passes.
DrainTimeout ==
  /\ apc = "drain"
  /\ queue # {}
  /\ apc' = "idle" /\ rewinding' = FALSE
  /\ UNCHANGED <<op, target, snapshots, gateVars, queue, ledgerVars, hpc, stateVars, epoch, stale>>

Snapshot ==
  /\ apc = "go" /\ op = "snapshot"
  /\ snapshots' = snapshots \cup {storeH}
  /\ apc' = "idle" /\ rewinding' = FALSE
  /\ UNCHANGED <<op, target, gateVars, queue, ledgerVars, hpc, stateVars, epoch, stale>>

\* Mutant: the gate keeps its nonce and its parked transactions.
ResetNothing == UNCHANGED gateVars

ResetNonces == next' = -1 /\ parked' = {}

\* The current height, one of an earlier snapshot, or a past one without a
\* snapshot of its own, which falls back to the nearest before it.
Restorable(h) ==
  \/ h = kvs.h \/ h \in DOMAIN history
  \/ h < kvs.h /\ \E g \in DOMAIN history : g < h

SourceOf(h) == CHOOSE g \in DOMAIN history :
                 g <= h /\ \A f \in DOMAIN history : f <= h => f <= g

\* The endorser's state goes back, with the current versions.
RevertKvs ==
  /\ apc = "go" /\ op = "revert" /\ target \in snapshots /\ Restorable(target)
  /\ IF target = kvs.h THEN UNCHANGED <<kvs, history>>
     ELSE /\ kvs' = [h |-> target, nonce |-> history[SourceOf(target)].nonce,
                     ver |-> kvs.ver]
          /\ history' = Only(history, 0..SourceOf(target) - 1)
  /\ epoch' = epoch + 1
  /\ apc' = "store"
  /\ UNCHANGED <<rewinding, op, target, snapshots, gateVars, queue, ledgerVars, hpc,
                 storeH, rows, stale>>

\* An unknown snapshot ID, or no such height in the endorser's state: an error,
\* with the gate reset all the same.
RevertFails ==
  /\ apc = "go" /\ op = "revert" /\ ~(target \in snapshots /\ Restorable(target))
  /\ ResetNonces
  /\ apc' = "idle" /\ rewinding' = FALSE
  /\ UNCHANGED <<op, target, snapshots, queue, ledgerVars, hpc, stateVars, epoch, stale>>

\* Mutant: the block store is left as it is.
RevertStoreForgotten ==
  /\ apc = "store"
  /\ snapshots' = {s \in snapshots : s <= target}
  /\ ResetNonces
  /\ apc' = "idle" /\ rewinding' = FALSE
  /\ UNCHANGED <<op, target, queue, ledgerVars, hpc, stateVars, epoch, stale>>

\* The rows above the height go; later snapshots are forgotten, the gate is
\* reset and the fence reopens.
RevertStore ==
  /\ apc = "store"
  /\ rows' = Only(rows, 0..target)
  /\ storeH' = target
  /\ snapshots' = {s \in snapshots : s <= target}
  /\ ResetNonces
  /\ apc' = "idle" /\ rewinding' = FALSE
  /\ UNCHANGED <<op, target, queue, ledgerVars, hpc, kvs, history, epoch, stale>>

-----------------------------------------------------------------------------

Handlers == KvsHandle \/ ChainHandle \/ GateObserve \/ QueueHandle
Rewind == Drained \/ DrainTimeout \/ Snapshot \/ RevertKvs \/ RevertFails \/ RevertStore

Next ==
  \/ \E n \in 0..MaxNonce : Submit(n)
  \/ \E tx \in queue : WorkerSubmits(tx) \/ WorkerFails(tx)
  \/ Prime
  \/ \E s \in sent : OrderBlock(s)
  \/ Mine
  \/ Handlers
  \/ \E kind \in {"snapshot", "revert"}, bn \in 0..MaxBlock : beginRewind(kind, bn)
  \/ Rewind

Spec == Init /\ [][Next]_vars

-----------------------------------------------------------------------------
(* Properties *)

\* A transaction that was accepted before a revert is never applied to the
\* reverted state: the fence and the drain leave none behind, in the gate, the
\* queue or the ledger.
NoTransactionOutlivesRevert == ~stale

\* Between blocks, the nonce that transactions execute on is the number of
\* transactions that the block store shows: the two reverts agree.
StateMatchesRecord ==
  apc \in {"idle", "drain"} /\ hpc = "kvs" =>
    kvs.nonce = Cardinality({h \in DOMAIN rows : rows[h] # {}})

\* Between blocks and rewinds, the gate expects the nonce of the state, so that
\* after a revert the rewound nonces are accepted and not rejected as too low.
GateFollowsState ==
  apc = "idle" /\ hpc = "kvs" /\ next # -1 => next = kvs.nonce

=============================================================================
