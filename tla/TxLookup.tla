------------------------------ MODULE TxLookup ------------------------------
(***************************************************************************)
(* Gateway.TransactionByHash (gateway/core/api.go) beside the nonce gate,  *)
(* the queue and the block database: a lookup asks the queue, then the     *)
(* gate, then the database, each under its own lock, while transactions    *)
(* move between the three.                                                 *)
(*                                                                         *)
(* The module adds to NonceGate the database, which Chain fills before the *)
(* gateway handles the block (gateway/app/app.go:238-254).                 *)
(***************************************************************************)
EXTENDS NonceGate, Sequences, TLC

CONSTANTS
  s1, v1   \* a sender and a variant, for the bounds of a scope

VARIABLES
  scope,     \* which part of the system is active in this behaviour
  db,        \* transactions in the block database
  lookup,    \* "idle", or where the lookup looks next, or its answer
  wanted,    \* the transaction looked up
  queued,    \* ghost: since the lookup began the transaction was in the queue
             \* or the database, or left the queue with its block
  held       \* ghost: ... was in the queue, the gate or the database

lookupVars == <<lookup, wanted, queued, held>>

\* The transactions of each scope (bounds): all those of one sender; a few of each
\* sender; and two of one sender, of which one is looked up.
Scopes ==
  [nonces  |-> {tx \in Txs : tx.from = s1},
   senders |-> {tx \in Txs : tx.nonce < (IF tx.from = s1 THEN 2 ELSE 1) /\ tx.variant = v1},
   lookups |-> {tx \in Txs : tx.nonce < 2 /\ tx.variant = v1 /\ tx.from = s1}]

Looking == scope = "lookups"

\* The calls of Admit are alike.
CallSymmetry == Permutations(Clients)

\* The places a lookup asks, in its order.
Order == <<"queue", "gate", "store">>

\* The transactions found in a place.
Holds(place) ==
  CASE place = "queue" -> queue [] place = "gate" -> byHash [] place = "store" -> db

LookupInit ==
  /\ Init
  /\ db = {tx \in Txs : tx.nonce < store[tx.from] /\ tx.variant = AnyTx.variant}
  /\ lookup = "idle" /\ wanted = AnyTx /\ queued = FALSE /\ held = FALSE
  /\ scope \in DOMAIN Scopes
  /\ \A s \in Senders : \A n \in 0 .. store[s] - 1 :
       \E tx \in Scopes[scope] : tx.from = s /\ tx.nonce = n

\* Chain.Handle: the block is inserted.
ChainHandle ==
  /\ Looking /\ stage = "applied" /\ ~(block \subseteq db)
  /\ db' = db \union block
  /\ UNCHANGED <<vars, scope, lookupVars>>

\* MUTANT: the gateway handles a block before the chain.
GatewayFirst == TRUE

\* The synchronizer hands a block to the chain before the gateway.
ChainFirst == Looking /\ stage' = "observed" => block \subseteq db

\* The looked-up transaction is completed by the queue's Handle.
LeavesWithBlock == stage = "observed" /\ wanted \in block

\* The step stays within the scope; beside lookups there is one call of Admit.
Bounded ==
  /\ queue' \union byHash' \union block' \subseteq Scopes[scope]
  /\ \A c \in Clients : pc'[c] # "idle" => call'[c] \in Scopes[scope]
  /\ Looking => \A c, d \in Clients : c = d \/ pc'[c] = "idle" \/ pc'[d] = "idle"

\* A step of the gate, the queue or the ledger, with the ghosts of the lookup.
GatewayStep ==
  /\ Next
  /\ Bounded
  /\ ChainFirst
  /\ queued' = (queued /\ (wanted \in queue \ queue' => LeavesWithBlock))
  /\ held' = (held /\ wanted \in queue' \union byHash' \union db)
  /\ UNCHANGED <<db, scope, lookup, wanted>>

\* TransactionByHash is called.
LookupBegins(tx) ==
  /\ Looking /\ lookup = "idle"
  /\ wanted' = tx /\ lookup' = Order[1]
  /\ queued' = (tx \in queue \union db)
  /\ held' = (tx \in queue \union byHash \union db)
  /\ UNCHANGED <<vars, scope, db>>

\* One of TxQueue.IsPending, nonceGate.IsPending and store.GetTransactionByHash.
LookupAsks(i) ==
  /\ lookup = Order[i]
  /\ lookup' = IF wanted \in Holds(Order[i]) THEN "found"
                ELSE IF i < Len(Order) THEN Order[i + 1] ELSE "nil"
  /\ UNCHANGED <<vars, scope, db, wanted, queued, held>>

LookupReturns ==
  /\ lookup \in {"found", "nil"}
  /\ lookup' = "idle" /\ wanted' = AnyTx /\ queued' = FALSE /\ held' = FALSE
  /\ UNCHANGED <<vars, scope, db>>

LookupNext ==
  \/ GatewayStep
  \/ ChainHandle
  \/ \E tx \in Txs : LookupBegins(tx)
  \/ \E i \in 1..Len(Order) : LookupAsks(i)
  \/ LookupReturns

LookupSpec == LookupInit /\ [][LookupNext]_<<vars, scope, db, lookupVars>>

-----------------------------------------------------------------------------
\* A transaction that was queued when the lookup began is not reported as
\* unknown while its block commits: the queue lets it go only after the
\* database has it, and TransactionByHash asks the database after the queue.
QueuedIsFound == lookup = "nil" => ~queued

\* "State 3 (Not Found): Transaction in neither location": a lookup answers nil
\* only if at some moment the transaction was neither pending (queued or parked)
\* nor in the database.
PendingIsFound == lookup = "nil" => ~held
=============================================================================
