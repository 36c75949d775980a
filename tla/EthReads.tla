------------------------------ MODULE EthReads ------------------------------
(***************************************************************************)
(* The read side of the JSON-RPC interface: eth_blockNumber, the block and *)
(* transaction lookups and the state queries, while blocks keep arriving.  *)
(*                                                                         *)
(* A block passes the handlers in order: the endorser's state, the chain   *)
(* tables, the cached block number.  A request is answered by one or more  *)
(* reads, and blocks may arrive between two of them.  After the switch to  *)
(* live updates empty blocks are not delivered, so block numbers have gaps.*)
(*                                                                         *)
(* The state is abstracted to the number of the block that wrote it, a     *)
(* transaction to its block and index, the hash of a block to its number.  *)
(***************************************************************************)
EXTENDS Integers, FiniteSets, FiniteSetsExt

CONSTANTS
  MaxBlock,      \* bound: the highest block number
  MaxTxs,        \* bound: transactions in a block
  MaxInt64       \* the largest int64, scaled down

VARIABLES
  state,         \* the block the endorser's state is at
  blocks,        \* the chain tables: the transactions in each stored block
  cached,        \* Store.CachedBlockNumber
  arriving,      \* the block that is being handled
  stage,         \* the handler it has reached
  req,           \* the request that is being answered
  step,          \* "idle", "first" or "second" read, "done"
  num,           \* the block number that the first read has found
  answer,        \* what the request returns
  floor          \* what could be seen when the request was made

chainVars == <<state, blocks, cached, arriving, stage>>
reqVars == <<req, step, num, answer, floor>>
vars == <<chainVars, reqVars>>

MaxUint64 == 2 * MaxInt64 + 1
Nil == -1
NotFound == -2

\* rpc.BlockNumber: numbers, and tags below zero, from pending (-1) to earliest.
Earliest == -5
Refs == Earliest..MaxBlock
Hashes == 0..(MaxBlock + 1)     \* one more than there are blocks: an unknown hash

NumberMethods == {"blockByNumber", "countByNumber", "txByNumberAndIndex", "stateByNumber"}
HashMethods == {"blockByHash", "countByHash", "txByHashAndIndex", "stateByHash"}
Idle == [method |-> "none", ref |-> 0, index |-> 0]
Nothing == [num |-> NotFound, value |-> {}]

Init ==
  /\ state = 0 /\ blocks = [n \in {0} |-> 0] /\ cached = 0
  /\ arriving = Nil /\ stage = "idle"
  /\ req = Idle /\ step = "idle" /\ num = Nil /\ answer = Nothing
  /\ floor = [head |-> 0, cached |-> 0]

LastStored == Max(DOMAIN blocks)

-----------------------------------------------------------------------------
(* Blocks *)

\* The next block that is delivered.  The state may have taken a block already that a
\* restart has kept from the tables: it is delivered again, and with it, now that
\* the synchronizer catches up, the empty blocks before it.
Deliver(n) ==
  /\ stage = "idle" /\ n > LastStored /\ (state > LastStored => n <= state)
  /\ arriving' = n /\ stage' = "state"
  /\ UNCHANGED <<state, blocks, cached, reqVars>>

\* The endorser's state takes the block; one that it already has is skipped.
StateHandle ==
  /\ state' = Max({state, arriving})
  /\ UNCHANGED <<blocks, cached>>

\* InsertBlock: one SQL transaction.
Insert(txs) ==
  /\ arriving < state => txs = 0
  /\ blocks' = [n \in DOMAIN blocks \cup {arriving} |-> IF n = arriving THEN txs ELSE blocks[n]]
  /\ UNCHANGED <<state, cached>>

\* The cached number follows the commit.
Cache ==
  /\ cached' = Max({cached, arriving})
  /\ UNCHANGED <<state, blocks>>

\* Mutant: the chain is registered ahead of the endorser's state.
ChainFirst == <<"insert", "cache", "state">>

\* Mutant: the cached number is raised before the commit.
CacheFirst == <<"state", "cache", "insert">>

\* extraHandlers (the endorser's state) come before the chain.
Handlers == <<"state", "insert", "cache">>

Handle(h) ==
  \/ h = "state" /\ StateHandle
  \/ h = "insert" /\ \E txs \in 0..MaxTxs : Insert(txs)
  \/ h = "cache" /\ Cache

Stages == <<"state", "chain", "cached">>
At(i) == stage = Stages[i]

BlockStep(i) ==
  /\ At(i) /\ Handle(Handlers[i])
  /\ IF i = 3 THEN stage' = "idle" /\ arriving' = Nil
              ELSE stage' = Stages[i + 1] /\ UNCHANGED arriving
  /\ UNCHANGED reqVars

\* The process dies and starts again: tables and state are on disk, the cached
\* number is read from the tables, and the synchronizer resumes after the last
\* stored block.  Requests in flight are lost.
Restart ==
  /\ cached' = LastStored /\ arriving' = Nil /\ stage' = "idle"
  /\ req' = Idle /\ step' = "idle" /\ num' = Nil /\ answer' = Nothing
  /\ UNCHANGED <<state, blocks, floor>>

-----------------------------------------------------------------------------
(* Block references *)

\* Mutant: zero is taken for an absent number.
ZeroIsLatest(n) == IF n <= 0 THEN Nil ELSE n

rpcBlockNumberToBigInt(n) == IF n = Earliest THEN 0 ELSE IF n < 0 THEN Nil ELSE n

blockNumberToUint64(n) == IF n = Earliest THEN 0 ELSE IF n < 0 THEN MaxUint64 ELSE n

\* int64(n), the parameter of the SQL statements.
Int64(n) == IF n > MaxInt64 THEN n - MaxUint64 - 1 ELSE n

\* resolveBlockNumber reads the cached number for the sentinel.
resolveBlockNumber(n) == IF n # MaxUint64 THEN n ELSE cached

-----------------------------------------------------------------------------
(* The store's queries *)

BlockNumberByHash(h) == IF h \in DOMAIN blocks THEN h ELSE NotFound
BlockRow(n) == IF Int64(n) \in DOMAIN blocks THEN Int64(n) ELSE NotFound
BlockRowByHash(h) == IF h \in DOMAIN blocks THEN h ELSE NotFound
LatestRow == LastStored
TxRows(n) == IF n \in DOMAIN blocks THEN {<<n, i>> : i \in 0..(blocks[n] - 1)} ELSE {}
TxRowsByHash(h) == TxRows(h)
CountRows(n) == Cardinality(TxRows(Int64(n)))
CountRowsByHash(h) == Cardinality(TxRowsByHash(h))
TxRow(n, i) == {t \in TxRows(Int64(n)) : t[2] = i}
TxRowByHash(h, i) == {t \in TxRowsByHash(h) : t[2] = i}

\* The state as of a block: what the last block up to it has left.
StateAt(n) == IF n = Nil \/ n > state THEN state
              ELSE Max({b \in DOMAIN blocks \cup {state} : b <= n})

-----------------------------------------------------------------------------
(* Requests *)

Ask(m, r, i) ==
  /\ step \in {"idle", "done"}
  /\ req' = [method |-> m, ref |-> r, index |-> i]
  /\ step' = "first" /\ num' = Nil /\ answer' = Nothing
  /\ floor' = [head |-> LastStored, cached |-> cached]
  /\ UNCHANGED chainVars

AskAny ==
  \/ Ask("blockNumber", 0, 0)
  \/ \E m \in NumberMethods, r \in Refs : Ask(m, r, 0)
  \/ \E m \in HashMethods, r \in Hashes : Ask(m, r, 0)
  \/ \E r \in Refs : Ask("txByNumberAndIndex", r, 1)
  \/ \E r \in Hashes : Ask("txByHashAndIndex", r, 1)

Return(a) ==
  /\ answer' = a /\ step' = "done"
  /\ UNCHANGED <<chainVars, req, num, floor>>

\* The first read has found block n, or no block.
Found(n) ==
  IF n = NotFound THEN Return(Nothing)
  ELSE num' = n /\ step' = "second" /\ UNCHANGED <<chainVars, req, answer, floor>>

First(m) == step = "first" /\ req.method = m
Second(ms) == step = "second" /\ req.method \in ms

BlockNumber == First("blockNumber") /\ Return([num |-> cached, value |-> {}])

\* GetBlockByNumber has a query of its own for the sentinel.
GetBlockByNumber ==
  /\ First("blockByNumber")
  /\ LET n == blockNumberToUint64(req.ref)
     IN  Found(IF n = MaxUint64 THEN LatestRow ELSE BlockRow(n))

GetBlockByHash == First("blockByHash") /\ Found(BlockRowByHash(req.ref))

\* Mutant: the transactions of the block that is latest by now.
LatestRowTxs(n) == TxRows(IF blockNumberToUint64(req.ref) = MaxUint64 THEN LatestRow ELSE n)

\* The second query of the block lookups, by the number or hash of the block found.
Transactions(n) == IF req.method = "blockByHash" THEN TxRowsByHash(n) ELSE TxRows(n)

WithTransactions ==
  /\ Second({"blockByNumber", "blockByHash"})
  /\ Return([num |-> num, value |-> Transactions(num)])

\* The sentinel is resolved first, the rows are counted or looked up next.
ResolveNumber ==
  /\ \/ First("countByNumber")
     \/ First("txByNumberAndIndex")
  /\ Found(resolveBlockNumber(blockNumberToUint64(req.ref)))

GetBlockTxCountByNumber ==
  /\ Second({"countByNumber"})
  /\ Return([num |-> num, value |-> {CountRows(num)}])

GetTransactionByBlockNumberAndIndex ==
  /\ Second({"txByNumberAndIndex"})
  /\ Return([num |-> num, value |-> TxRow(num, req.index)])

GetBlockTxCountByHash ==
  /\ First("countByHash")
  /\ Return([num |-> req.ref, value |-> {CountRowsByHash(req.ref)}])

GetTransactionByBlockHashAndIndex ==
  /\ First("txByHashAndIndex")
  /\ Return([num |-> req.ref, value |-> TxRowByHash(req.ref, req.index)])

\* blockNumberOrHashToBlockNumber: a hash is looked up in the chain tables.
BlockNumberOrHash ==
  \/ First("stateByNumber") /\ Found(rpcBlockNumberToBigInt(req.ref))
  \/ First("stateByHash") /\ Found(BlockNumberByHash(req.ref))

\* GetBalance, GetCode, GetStorageAt, GetTransactionCount, Call and EstimateGas
\* read the endorser's state.
ReadState ==
  /\ Second({"stateByNumber", "stateByHash"})
  /\ Return([num |-> num, value |-> {StateAt(num)}])

Reads ==
  \/ BlockNumber \/ GetBlockByNumber \/ GetBlockByHash \/ WithTransactions
  \/ ResolveNumber \/ GetBlockTxCountByNumber \/ GetTransactionByBlockNumberAndIndex
  \/ GetBlockTxCountByHash \/ GetTransactionByBlockHashAndIndex
  \/ BlockNumberOrHash \/ ReadState

Next ==
  \/ \E n \in 1..MaxBlock : Deliver(n)
  \/ \E i \in 1..3 : BlockStep(i)
  \/ Restart
  \/ AskAny
  \/ Reads

Spec == Init /\ [][Next]_vars

-----------------------------------------------------------------------------
(* Properties *)

Done(ms) == step = "done" /\ req.method \in ms
Tagged == req.ref < 0 /\ req.ref # Earliest

\* A state query at "latest" (or pending, safe, finalized) never answers from
\* before a block that any lookup could have shown when the query was made:
\* whoever has seen a receipt reads its effects.  The order of the handlers,
\* kept across restarts, gives this.
StateNotBehind ==
  Done({"stateByNumber"}) /\ Tagged =>
    answer.num = Nil /\ \A s \in answer.value : s >= floor.head

\* A state query at a block that is stored, by number, by hash or as "earliest",
\* answers with what that very block has left, however far the chain has moved on
\* between the reads.
StateOfThatBlock ==
  Done({"stateByNumber", "stateByHash"}) /\ ~ (req.method = "stateByNumber" /\ Tagged) =>
    LET n == IF req.ref = Earliest THEN 0 ELSE req.ref
    IN  n \in DOMAIN blocks /\ n <= floor.head => answer.value = {n}

\* Every tag other than "earliest" finds a stored block, in every lookup, no older
\* than eth_blockNumber has shown before; the two reads it may take never meet a
\* number that the tables do not have yet.
TagsFindABlock ==
  Done({"blockNumber", "blockByNumber", "countByNumber", "txByNumberAndIndex"})
    /\ (Tagged \/ req.method = "blockNumber") =>
      answer.num \in DOMAIN blocks /\ answer.num >= floor.cached

\* The transactions that are returned, or counted, are those of the block that is
\* returned: the header and the rows are read by two queries.
OfOneBlock ==
  /\ Done({"blockByNumber", "blockByHash"}) /\ answer # Nothing => answer.value = TxRows(answer.num)
  /\ Done({"countByNumber"}) /\ (Tagged \/ answer.num <= floor.head) => answer.value = {Cardinality(TxRows(answer.num))}

=============================================================================
