----------------------------- MODULE ChainStore -----------------------------
(***************************************************************************)
(* The gateway's block chain store (gateway/core/chain.go,                 *)
(* gateway/storage: SQLite tables; gateway/storage/trie: the state trie)   *)
(* under redelivered blocks, failed inserts and crashes, with the queries  *)
(* of the JSON-RPC layer over it (gateway/api/eth.go, models.go).          *)
(*                                                                         *)
(* A block of the ledger is a sequence of transactions                     *)
(* [hash, outcome, logs]: outcome is "success", "reverted", "invalid"      *)
(* (rejected by the committer), "other" (no Ethereum transaction) or       *)
(* "unparsable" (committed, but not to be converted).                      *)
(* The hash of block n is n on the delivery path, -n (a placeholder made   *)
(* from the number) on the notification path, and 0 is the zero hash.  The *)
(* world state is the last writer and the set of senders that have a       *)
(* nonce; a state root is the state itself.                                *)
(***************************************************************************)
EXTENDS Integers, Sequences, FiniteSets, SequencesExt, FiniteSetsExt, Functions, TLC

CONSTANTS
  BlockOptions,  \* the blocks the ledger may grow by
  MaxBlocks,     \* length of the ledger (bound)
  MaxFaults,     \* failed commits and inserts, and crashes (bound)
  WithTrie,
  Hybrid,        \* the feed goes over to notifications and a failed handler ends the process
  None

VARIABLES
  ledger,        \* the source blocks
  next,          \* the block the synchronizer delivers next
  path,          \* who delivers: "new" (delivery, no block yet), "delivery" or "live" (notifications)
  blocks,        \* table: number -> [hash, parent, root]
  txs,           \* table: hash -> [block, index, status, valid]
  logs,          \* table: set of [hash, index, block]
  trieNodes,     \* roots that are in the trie database
  trieRoot,      \* trie.Store.root
  prevHash,      \* Chain.prevHash
  cached,        \* Store.CachedBlockNumber
  pc,            \* how far Chain.Handle is: "idle", "trie", "insert", "publish"
  faults,
  query          \* a call of eth_getBlockReceipts on its way, or None

tables == <<blocks, txs, logs>>
memory == <<trieRoot, prevHash, cached>>
feed == <<ledger, next, path>>
vars == <<feed, tables, trieNodes, memory, pc, faults, query>>

GenesisHash == MaxBlocks + 1
NoState == [last |-> None, nonces |-> {}]

Init ==
  /\ ledger = <<>> /\ next = 1 /\ path = "new"
  /\ blocks = <<>> /\ txs = <<>> /\ logs = {}
  /\ trieNodes = {NoState} /\ trieRoot = NoState
  /\ prevHash = 0 /\ cached = 0 /\ pc = "idle" /\ faults = 0 /\ query = None

Latest == Max({0} \cup DOMAIN blocks)

-----------------------------------------------------------------------------
(* The ledger and the synchronizer *)

Valid(tx) == tx.outcome \in {"success", "reverted"}

\* A nonce is used once; a rejected transaction may be submitted again.
MayFollow(block) ==
  \A i \in DOMAIN block : Valid(block[i]) =>
    \A b \in DOMAIN ledger : \A j \in DOMAIN ledger[b] :
      Valid(ledger[b][j]) => ledger[b][j].hash # block[i].hash

Grow ==
  /\ Len(ledger) < MaxBlocks
  /\ \E block \in BlockOptions : MayFollow(block) /\ ledger' = Append(ledger, block)
  /\ UNCHANGED <<next, path, tables, trieNodes, memory, pc, faults, query>>

\* The Ethereum transactions of a block, by their index.
EthTxs(block) == {i \in DOMAIN block : block[i].outcome # "other"}

\* Notifications leave out the blocks without Ethereum transactions.
LeftOut(block) == path = "live" /\ EthTxs(block) = {}

Skip ==
  /\ pc = "idle" /\ next <= Len(ledger) /\ LeftOut(ledger[next]) /\ next' = next + 1
  /\ UNCHANGED <<ledger, path, tables, trieNodes, memory, pc, faults, query>>

\* The hybrid synchronizer goes over to notifications, once delivery has proven itself.
GoLive ==
  /\ Hybrid /\ path = "delivery" /\ pc = "idle" /\ path' = "live"
  /\ UNCHANGED <<ledger, next, tables, trieNodes, memory, pc, faults, query>>

HashOf(n) == IF path = "live" THEN -n ELSE n

\* Mutant: a new feed starts after the block that was being handled.
ResumeAfter(height) == {next + 1}

\* A new feed starts at the height of the chain, or after it.
Resume(height) == {Max({height, 1}), height + 1}

-----------------------------------------------------------------------------
(* ConvertToDomain *)

\* Mutant: a committed transaction succeeded.
CommittedSucceeds(tx) == IF Valid(tx) THEN 1 ELSE 0

\* ExecutionOutcome: a transaction that was not committed never ran.
Status(tx) == IF tx.outcome = "success" THEN 1 ELSE 0

\* Mutant: logs are numbered within their transaction.
NumberedPerTx(block, i) ==
  IF Status(block[i]) = 1 THEN {k : k \in 0 .. block[i].logs - 1} ELSE {}

\* The numbers of a transaction's logs, counted through the block; only a successful one has any.
LogIndexes(block, i) ==
  LET before == FoldLeft(LAMBDA n, tx : IF Status(tx) = 1 THEN n + tx.logs ELSE n, 0,
                         SubSeq(block, 1, i - 1))
  IN IF Status(block[i]) = 1 THEN {before + k : k \in 0 .. block[i].logs - 1} ELSE {}

-----------------------------------------------------------------------------
(* The trie *)

\* Mutant: the write set of a rejected transaction is applied too.
AllApplied(state, block) ==
  FoldLeft(LAMBDA s, tx : [last |-> tx.hash, nonces |-> s.nonces \cup {tx.hash}], state, block)

applyWrites(state, block) ==
  FoldLeft(LAMBDA s, tx :
             CASE tx.outcome = "success" -> [last |-> tx.hash, nonces |-> s.nonces \cup {tx.hash}]
               [] tx.outcome = "reverted" -> [s EXCEPT !.nonces = @ \cup {tx.hash}]
               [] OTHER -> s,
           state, block)

\* Mutant: the new nodes are not flushed to the database.
NotFlushed(root) == trieNodes

Flushed(root) == trieNodes \cup {root}

\* trie.Store.Commit.
TrieCommit ==
  /\ pc = "trie"
  /\ LET root == IF WithTrie THEN applyWrites(trieRoot, ledger[next]) ELSE NoState IN
     /\ trieRoot' = root /\ trieNodes' = IF WithTrie THEN Flushed(root) ELSE trieNodes
  /\ pc' = "insert"
  /\ UNCHANGED <<feed, tables, prevHash, cached, faults, query>>

-----------------------------------------------------------------------------
(* Chain.Handle *)

Converts(block) == \A i \in DOMAIN block : block[i].outcome # "unparsable"

Arrived == pc = "idle" /\ next <= Len(ledger) /\ ~LeftOut(ledger[next])

Handle ==
  /\ Arrived /\ Converts(ledger[next]) /\ pc' = "trie"
  /\ UNCHANGED <<feed, tables, trieNodes, memory, faults, query>>

\* ConvertToDomain fails, and does so each time the block is delivered again.
ConvertFails ==
  /\ Arrived /\ ~Converts(ledger[next]) /\ ~Hybrid /\ next' \in Resume(cached)
  /\ UNCHANGED <<ledger, path, tables, trieNodes, memory, pc, faults, query>>

\* The trie's Commit fails and keeps its root.
CommitFails ==
  /\ WithTrie /\ pc = "trie" /\ ~Hybrid /\ faults < MaxFaults /\ faults' = faults + 1
  /\ pc' = "idle" /\ next' \in Resume(cached)
  /\ UNCHANGED <<ledger, path, tables, trieNodes, memory, query>>

\* ON CONFLICT (block_number) DO NOTHING.
BlocksWith(n) == IF n \in DOMAIN blocks THEN blocks
                 ELSE (n :> [hash |-> HashOf(n), parent |-> prevHash, root |-> trieRoot]) @@ blocks

\* Mutant: a row of the same hash is replaced.
RowsReplaced(n, block) ==
  [h \in {block[i].hash : i \in EthTxs(block)} |->
     LET i == Min({j \in EthTxs(block) : block[j].hash = h}) IN
     [block |-> n, index |-> i, status |-> 0, valid |-> Valid(block[i])]] @@ txs

\* ON CONFLICT (tx_hash) DO NOTHING: a hash keeps its first row, in the block too.
TxsWith(n, block) ==
  txs @@ [h \in {block[i].hash : i \in EthTxs(block)} |->
            LET i == Min({j \in EthTxs(block) : block[j].hash = h}) IN
            [block |-> n, index |-> i, status |-> Status(block[i]), valid |-> Valid(block[i])]]

\* ON CONFLICT (tx_hash, log_index) DO NOTHING.
LogsWith(n, block) ==
  logs \cup {l \in [hash : {block[i].hash : i \in EthTxs(block)}, index : 0 .. 3, block : {n}] :
               /\ \E i \in EthTxs(block) : block[i].hash = l.hash /\ l.index \in LogIndexes(block, i)
               /\ ~\E m \in logs : m.hash = l.hash /\ m.index = l.index}

\* The UNIQUE constraint on the parent of a new block.
Unique(n) == n \in DOMAIN blocks \/ \A m \in DOMAIN blocks : blocks[m].parent # prevHash

\* The cached number only grows.
CachedAfter(n) == Max({n, cached})

\* Store.InsertBlock: one transaction of the database.
InsertBlock ==
  /\ pc = "insert" /\ Unique(next)
  /\ blocks' = BlocksWith(next)
  /\ txs' = TxsWith(next, ledger[next])
  /\ logs' = LogsWith(next, ledger[next])
  /\ cached' = CachedAfter(next) /\ pc' = "publish"
  /\ UNCHANGED <<feed, trieNodes, trieRoot, prevHash, faults, query>>

\* Mutant: prevHash advances although the insert failed.
FailurePublished ==
  /\ pc = "insert" /\ ~Hybrid /\ faults < MaxFaults /\ faults' = faults + 1
  /\ prevHash' = HashOf(next) /\ pc' = "idle" /\ next' \in Resume(cached)
  /\ UNCHANGED <<ledger, path, tables, trieNodes, trieRoot, cached, query>>

\* InsertBlock fails, or the constraint does.  As in the cases above Handle returns the
\* error and the delivery starts anew (the hybrid synchronizer panics instead: Restart).
InsertFails ==
  /\ pc = "insert" /\ ~Hybrid /\ (faults < MaxFaults \/ ~Unique(next))
  /\ faults' = IF Unique(next) THEN faults + 1 ELSE faults
  /\ pc' = "idle" /\ next' \in Resume(cached)
  /\ UNCHANGED <<ledger, path, tables, trieNodes, memory, query>>

\* prevHash advances once the block is stored.
Published(n) == HashOf(n)

Publish ==
  /\ pc = "publish"
  /\ prevHash' = Published(next) /\ pc' = "idle" /\ next' = next + 1
  /\ path' = IF path = "new" THEN "delivery" ELSE path
  /\ UNCHANGED <<ledger, tables, trieNodes, trieRoot, cached, faults, query>>

\* Mutant: the chain starts from nothing.
SeededEmpty == NoState

\* NewChain: what the latest block says.
Seeded == IF blocks = <<>> THEN NoState ELSE blocks[Latest].root

\* A crash anywhere, and NewChain.
Restart ==
  /\ faults < MaxFaults /\ faults' = faults + 1
  /\ trieRoot' = Seeded /\ cached' = Latest
  /\ prevHash' = IF blocks = <<>> THEN 0 ELSE blocks[Latest].hash
  /\ pc' = "idle" /\ next' \in Resume(Latest) /\ query' = None /\ path' = "new"
  /\ UNCHANGED <<ledger, tables, trieNodes>>

\* A test node's ledger has no genesis block: an empty store gets one, at start-up.
EnsureGenesisBlock ==
  /\ blocks = <<>> /\ ledger = <<>> /\ ~Hybrid
  /\ prevHash' = GenesisHash
  /\ blocks' = (0 :> [hash |-> GenesisHash, parent |-> 0, root |-> NoState])
  /\ UNCHANGED <<feed, txs, logs, trieNodes, trieRoot, cached, pc, faults, query>>

-----------------------------------------------------------------------------
(* Queries: each is a read of the tables of its own *)

TxsOf(n) == {h \in DOMAIN txs : txs[h].block = n}

\* eth_getBlockReceipts: the block, its transactions, then its logs.
GetBlockReceipts(n) ==
  /\ query = None /\ n \in DOMAIN blocks
  /\ query' = [block |-> n, hashes |-> None, logs |-> None]
  /\ UNCHANGED <<feed, tables, trieNodes, memory, pc, faults>>

GetTransactionsByBlockNumber ==
  /\ query # None /\ query.hashes = None
  /\ query' = [query EXCEPT !.hashes = TxsOf(query.block)]
  /\ UNCHANGED <<feed, tables, trieNodes, memory, pc, faults>>

GetLogs ==
  /\ query # None /\ query.hashes # None /\ query.logs = None
  /\ query' = [query EXCEPT !.logs = {l \in logs : l.block = query.block /\ l.hash \in query.hashes}]
  /\ UNCHANGED <<feed, tables, trieNodes, memory, pc, faults>>

Answered ==
  /\ query # None /\ query.logs # None /\ query' = None
  /\ UNCHANGED <<feed, tables, trieNodes, memory, pc, faults>>

-----------------------------------------------------------------------------

Query == GetTransactionsByBlockNumber \/ GetLogs \/ Answered

Next ==
  \/ Grow \/ GoLive \/ Skip \/ Handle \/ TrieCommit \/ InsertBlock \/ Publish
  \/ ConvertFails \/ CommitFails \/ InsertFails
  \/ Restart \/ EnsureGenesisBlock
  \/ \E n \in 1 .. MaxBlocks : GetBlockReceipts(n)
  \/ Query

Spec == Init /\ [][Next]_vars

\* The goroutine of the synchronizer, which keeps delivering.
Applies == Skip \/ Handle \/ TrieCommit \/ InsertBlock \/ InsertFails \/ Publish

-----------------------------------------------------------------------------
(* Properties *)

\* "UNIQUE enforces valid chain linkage": the parent of each stored block is the hash of
\* the stored block before it, whatever was redelivered, refused or cut off by a crash.
Linked ==
  \A n \in DOMAIN blocks :
    LET below == {m \in DOMAIN blocks : m < n} IN
    blocks[n].parent = IF below = {} THEN 0 ELSE blocks[Max(below)].hash

\* "Re-delivering an already-stored block is safe": the state root of each stored block
\* is that of the ledger up to it, each block applied once.
RootIsState ==
  \A n \in DOMAIN blocks :
    blocks[n].root = IF WithTrie THEN FoldLeft(LAMBDA s, b :
                                   FoldLeft(LAMBDA t, tx :
                                     IF ~Valid(tx) THEN t
                                     ELSE [last |-> IF tx.outcome = "success" THEN tx.hash ELSE t.last,
                                           nonces |-> t.nonces \cup {tx.hash}], s, b),
                                   NoState, SubSeq(ledger, 1, n))
                     ELSE NoState

\* "a crash between them never leaves SQL ahead of the MPT": NewChain finds the root it
\* is seeded with in the trie database at any moment.
NeverAhead == \A n \in DOMAIN blocks : blocks[n].root \in trieNodes

\* Each log number of a block is given out once, and the logs of a block are all there,
\* also those of a transaction whose hash an earlier block used.
LogsComplete ==
  \A n \in DOMAIN blocks \ {0} :
    {l.index : l \in {m \in logs : m.block = n}}
      = 0 .. FoldLeft(LAMBDA k, tx : IF tx.outcome = "success" THEN k + tx.logs ELSE k, 0, ledger[n]) - 1

\* A block's receipts, read in three queries between inserts, have the logs the ledger has.
ReceiptsAgree ==
  query # None /\ query.logs # None =>
    {l.hash : l \in query.logs} =
      {h \in query.hashes : \E i \in DOMAIN ledger[query.block] :
         /\ ledger[query.block][i].hash = h /\ ledger[query.block][i].logs > 0
         /\ ledger[query.block][i].outcome = "success"}

\* What has been stored of a transaction does not change in a step.
TxsKept == \A h \in DOMAIN txs : h \in DOMAIN txs' /\ txs'[h] = txs[h]
=============================================================================
