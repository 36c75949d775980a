----------------------------- MODULE NonceGate -----------------------------
(***************************************************************************)
(* The nonce gate of the gateway (gateway/core/nonce_parking.go) between   *)
(* the clients that call Admit, the block synchronizer that calls Observe, *)
(* the reaper, the state store an unknown sender's nonce is read from, and *)
(* the transaction queue it feeds.                                         *)
(*                                                                         *)
(* Every block reaches the store of the endorser first and the gateway     *)
(* last (gateway/app/app.go:240), so that a nonce read from the store may  *)
(* be ahead of what the gate observed, and, read before a block and used   *)
(* after it, behind. The queue is abstracted to the set of transactions    *)
(* that are in it.                                                         *)
(***************************************************************************)
EXTENDS Integers, FiniteSets, FiniteSetsExt

CONSTANTS
  Senders,      \* sender addresses
  Variants,     \* different transactions of a sender with one nonce
  Clients,      \* concurrent calls of Admit
  MaxNonce,     \* bound: nonces are 0..MaxNonce-1
  MaxParked,    \* nonceGate.maxPerSender
  MaxSenders,   \* nonceGate.maxSenders
  MaxPerBlock   \* bound: valid transactions of a sender in a block

ASSUME GateAssumption ==
  /\ MaxNonce \in Nat /\ MaxParked \in Nat /\ MaxSenders \in Nat
  /\ MaxPerBlock \in Nat
  /\ Senders # {} /\ IsFiniteSet(Senders) /\ Variants # {}

ASSUME SomeNonce == MaxNonce > 0
ASSUME ClientsFinite == IsFiniteSet(Clients)

VARIABLES
  senders,   \* senderCache.entries: a function on the cached senders
  byHash,    \* the keys of nonceGate.byHash: transactions
  queue,     \* transactions in the transaction queue
  refusing,  \* the queue refuses new transactions: it is closed, or full
  store,     \* sender -> its nonce in the state store
  block,     \* the transactions of the block being dispatched
  stage,     \* how far it is: "none", "applied" to the store, "observed"
  pc,        \* client -> "idle", "read" (off the lock), "relock"
  call,      \* client -> the transaction of its Admit
  seed       \* client -> the nonce it read

gateVars == <<senders, byHash>>
queueVars == <<queue, refusing>>
ledgerVars == <<store, block, stage>>
clientVars == <<pc, call, seed>>
vars == <<gateVars, queueVars, ledgerVars, clientVars>>

Nonces == 0..MaxNonce - 1
Txs == [from : Senders, nonce : Nonces, variant : Variants]
AnyTx == CHOOSE tx \in Txs : TRUE

\* senderState without lastSeen: parked is a function on the parked nonces.
NewEntry == [known |-> FALSE, next |-> 0, parked |-> <<>>, refs |-> 0]

Init ==
  /\ senders = <<>> /\ byHash = {}
  /\ queue = {} /\ refusing = FALSE
  /\ store \in [Senders -> 0..MaxNonce] /\ block = {} /\ stage = "none"
  /\ pc = [c \in Clients |-> "idle"]
  /\ call = [c \in Clients |-> AnyTx]
  /\ seed = [c \in Clients |-> 0]

-----------------------------------------------------------------------------
(* senderCache *)

\* f without the elements of X in its domain.
Without(f, X) == [x \in DOMAIN f \ X |-> f[x]]

\* f with the value v at x.
With(f, x, v) == [y \in DOMAIN f \union {x} |-> IF y = x THEN v ELSE f[y]]

entryOf(cache, from) == IF from \in DOMAIN cache THEN cache[from] ELSE NewEntry

\* An entry with another reference, and with one less.
pinned(ss) == [ss EXCEPT !.refs = @ + 1]
unpinned(ss) == [ss EXCEPT !.refs = @ - 1]

acquire(cache, from) == With(cache, from, pinned(entryOf(cache, from)))

release(cache, from) ==
  LET ss == unpinned(cache[from]) IN
  IF ss.refs > 0 \/ ss.known \/ DOMAIN ss.parked # {}
    THEN With(cache, from, ss)
    ELSE Without(cache, {from})

\* MUTANT: the nonce last learnt wins, a stale seed too.
RaiseAlways(ss, n) == [ss EXCEPT !.known = TRUE, !.next = n]

raise(ss, n) ==
  IF ~ss.known \/ n > ss.next THEN [ss EXCEPT !.known = TRUE, !.next = n] ELSE ss

\* The parked transactions of a cache.
ParkedTxs(cache) ==
  UNION {{[from |-> s, nonce |-> n, variant |-> cache[s].parked[n]] :
            n \in DOMAIN cache[s].parked} : s \in DOMAIN cache}

-----------------------------------------------------------------------------
(* Admit *)

\* queue.Enqueue: refused when the queue is closed, is full or holds the transaction.
Enqueue(txs) == queue' = IF refusing THEN queue ELSE queue \union txs

\* A transaction may be parked at n: it replaces one, or the sender's limit is
\* not reached.
HasRoom(ss, n) ==
  n \in DOMAIN ss.parked \/ Cardinality(DOMAIN ss.parked) < MaxParked

\* MUTANT: the hash of the replaced transaction stays in the index.
IndexBoth(ss, tx) == byHash \union {tx}

\* park's update of byHash: the replaced transaction gives way to tx.
Indexed(ss, tx) ==
  (byHash \ {old \in Txs : /\ old.from = tx.from /\ old.nonce = tx.nonce
                           /\ tx.nonce \in DOMAIN ss.parked
                           /\ old.variant = ss.parked[tx.nonce]}) \union {tx}

\* park's update of the entry.
park(ss, tx) == [ss EXCEPT !.parked = With(@, tx.nonce, tx.variant)]

\* Admit from the point where the sender's next nonce is known, to its end: the
\* deferred release included. cache is the sender cache with the entry pinned.
Settle(tx, cache) ==
  LET from == tx.from
      ss == cache[from]
  IN
  \/ /\ tx.nonce < ss.next
     /\ senders' = release(cache, from)
     /\ UNCHANGED <<byHash, queue>>
  \/ /\ tx.nonce = ss.next
     /\ Enqueue({tx})
     /\ senders' = release(cache, from)
     /\ UNCHANGED byHash
  \/ /\ tx.nonce > ss.next /\ ~HasRoom(ss, tx.nonce)
     /\ senders' = release(cache, from)
     /\ UNCHANGED <<byHash, queue>>
  \/ /\ tx.nonce > ss.next /\ HasRoom(ss, tx.nonce)
     /\ senders' = release(
          [cache EXCEPT ![from] = park(ss, tx)], from)
     /\ byHash' = Indexed(ss, tx)
     /\ UNCHANGED queue

\* Admit finds the sender's nonce in the cache.
AdmitCached(c, tx) ==
  /\ pc[c] = "idle"
  /\ entryOf(senders, tx.from).known
  /\ Settle(tx, acquire(senders, tx.from))
  /\ UNCHANGED <<refusing, ledgerVars, clientVars>>

\* Admit pins an entry without a nonce and releases the lock to read the store.
AdmitReserve(c, tx) ==
  /\ pc[c] = "idle"
  /\ ~entryOf(senders, tx.from).known
  /\ senders' = acquire(senders, tx.from)
  /\ pc' = [pc EXCEPT ![c] = "read"] /\ call' = [call EXCEPT ![c] = tx]
  /\ UNCHANGED <<byHash, queueVars, ledgerVars, seed>>

\* NonceAt succeeds.
NonceAt(c) ==
  /\ pc[c] = "read"
  /\ seed' = [seed EXCEPT ![c] = store[call[c].from]]
  /\ pc' = [pc EXCEPT ![c] = "relock"]
  /\ UNCHANGED <<gateVars, queueVars, ledgerVars, call>>

\* The call of client c is over.
Return(c) ==
  /\ pc' = [pc EXCEPT ![c] = "idle"]
  /\ call' = [call EXCEPT ![c] = AnyTx] /\ seed' = [seed EXCEPT ![c] = 0]

\* NonceAt fails, and with it Admit.
NonceAtFails(c) ==
  /\ pc[c] = "read"
  /\ senders' = release(senders, call[c].from)
  /\ Return(c)
  /\ UNCHANGED <<byHash, queueVars, ledgerVars>>

\* Admit takes the lock again with the nonce it read.
AdmitSeeded(c) ==
  /\ pc[c] = "relock"
  /\ Settle(call[c], [senders EXCEPT ![call[c].from] = raise(@, seed[c])])
  /\ Return(c)
  /\ UNCHANGED <<refusing, ledgerVars>>

-----------------------------------------------------------------------------
(* Observe and the rest of a block's way *)

\* A block is ordered and applied to the store: for each sender up to
\* MaxPerBlock valid transactions, from its nonce on, submitted through this
\* gateway or another one.
CommitBlock(chosen) ==
  LET txs == UNION {{[from |-> s, nonce |-> store[s] + i - 1, variant |-> chosen[s][i]] :
                       i \in DOMAIN chosen[s]} : s \in Senders}
  IN
  /\ stage = "none" /\ txs # {} /\ txs \subseteq Txs
  /\ store' = [s \in Senders |-> store[s] + Cardinality(DOMAIN chosen[s])]
  /\ block' = txs /\ stage' = "applied"
  /\ UNCHANGED <<gateVars, queueVars, clientVars>>

\* The highest valid nonce of a sender in the block.
highest(from) == Max({tx.nonce : tx \in {t \in block : t.from = from}})

\* MUTANT: parked transactions are looked at only when the block moved the nonce.
ObservedIfMoved(from) ==
  LET ss == raise(entryOf(senders, from), highest(from) + 1) IN
  IF ss = entryOf(senders, from) THEN ss
    ELSE [ss EXCEPT !.parked = Without(@, 0..ss.next)]

\* MUTANT: the transaction after the released one is taken out too.
ObservedOneMore(from) ==
  LET ss == raise(entryOf(senders, from), highest(from) + 1) IN
  [ss EXCEPT !.parked = Without(@, 0..ss.next + 1)]

\* What Observe makes of the entry of a sender in the block, pinned and
\* released again: raised, with the parked transactions up to next taken out.
observed(from) ==
  LET ss == raise(entryOf(senders, from), highest(from) + 1) IN
  [ss EXCEPT !.parked = Without(@, 0..ss.next)]

Observe ==
  LET from == {tx.from : tx \in block}
      after == [s \in DOMAIN senders \union from |->
                  IF s \in from THEN observed(s) ELSE senders[s]]
      gone == ParkedTxs(senders) \ ParkedTxs(after)
  IN
  /\ stage = "applied"
  /\ senders' = after
  /\ byHash' = byHash \ gone
  /\ Enqueue({tx \in gone : tx.nonce = after[tx.from].next})
  /\ stage' = "observed"
  /\ UNCHANGED <<refusing, store, block, clientVars>>

\* TxQueue.Handle, after Observe.
QueueHandle ==
  /\ stage = "observed"
  /\ queue' = queue \ block
  /\ block' = {} /\ stage' = "none"
  /\ UNCHANGED <<gateVars, refusing, store, clientVars>>

\* A transaction leaves the queue without a valid commit: its endorsement or
\* submission failed or Fabric invalidated it.
QueueDrops(tx) ==
  /\ tx \in queue
  /\ queue' = queue \ {tx}
  /\ UNCHANGED <<gateVars, refusing, ledgerVars, clientVars>>

\* The queue is closed, or its channel is full until its workers have made room.
QueueRefusal ==
  /\ refusing' = ~refusing
  /\ UNCHANGED <<gateVars, queue, ledgerVars, clientVars>>

-----------------------------------------------------------------------------
(* The reaper *)

\* MUTANT: a sender held by an Admit off the lock is evicted.
EvictHeld(expired, evicted) ==
  /\ expired = {} /\ \A s \in evicted : DOMAIN senders[s].parked = {}
  /\ Cardinality(evicted) = Cardinality(DOMAIN senders) - MaxSenders
  /\ senders' = Without(senders, evicted)
  /\ UNCHANGED <<byHash, queueVars, ledgerVars, clientVars>>

\* senderCache.prune with the lock held. Which parked transactions are older
\* than the ttl (expired) and which senders were seen least recently (evicted)
\* is left open.
prune(expired, evicted) ==
  LET unparked == [s \in DOMAIN senders |-> [senders[s] EXCEPT !.parked =
        Without(@, {tx.nonce : tx \in {t \in expired : t.from = s}})]]
      evictable == {s \in DOMAIN senders :
        unparked[s].refs = 0 /\ DOMAIN unparked[s].parked = {}}
      over == Cardinality(DOMAIN senders) - MaxSenders
  IN
  /\ evicted \subseteq evictable
  /\ \/ over <= 0 /\ evicted = {}
     \/ over > 0 /\ \/ Cardinality(evicted) = over
                    \/ Cardinality(evicted) < over /\ evicted = evictable
  /\ senders' = Without(unparked, evicted)
  /\ byHash' = byHash \ expired
  /\ UNCHANGED <<queueVars, ledgerVars, clientVars>>

Prune == \E expired \in SUBSET ParkedTxs(senders), evicted \in SUBSET DOMAIN senders :
           prune(expired, evicted)

VariantSeqs == UNION {[1..k -> Variants] : k \in 0..MaxPerBlock}

Next ==
  \/ \E c \in Clients, tx \in Txs : AdmitCached(c, tx) \/ AdmitReserve(c, tx)
  \/ \E c \in Clients : NonceAt(c) \/ NonceAtFails(c) \/ AdmitSeeded(c)
  \/ \E chosen \in [Senders -> VariantSeqs] : CommitBlock(chosen)
  \/ Observe
  \/ QueueHandle
  \/ \E tx \in queue : QueueDrops(tx)
  \/ QueueRefusal
  \/ Prune

Spec == Init /\ [][Next]_vars

-----------------------------------------------------------------------------
(* Properties *)

Entry(ss) ==
  /\ DOMAIN ss = {"known", "next", "parked", "refs"}
  /\ ss.known \in BOOLEAN /\ ss.next \in 0..MaxNonce /\ ss.refs \in Nat
  /\ DOMAIN ss.parked \subseteq Nonces
  /\ \A n \in DOMAIN ss.parked : ss.parked[n] \in Variants
  /\ Cardinality(DOMAIN ss.parked) <= MaxParked

\* Every variable has its type; no sender parks more than its limit.
TypeOK ==
  /\ DOMAIN senders \subseteq Senders
  /\ \A s \in DOMAIN senders : Entry(senders[s])
  /\ byHash \subseteq Txs /\ queue \subseteq Txs /\ refusing \in BOOLEAN
  /\ store \in [Senders -> 0..MaxNonce]
  /\ block \subseteq Txs /\ stage \in {"none", "applied", "observed"}
  /\ pc \in [Clients -> {"idle", "read", "relock"}]
  /\ call \in [Clients -> Txs] /\ seed \in [Clients -> 0..MaxNonce]

\* The cached nonce never lies: it is never beyond the store, and once every
\* applied block was observed it is the store's, whichever way the entry came
\* about: a seed read before, during or after the block, an Observe of a sender
\* nobody admitted, or an eviction and a new seed.
CacheCoherent ==
  \A s \in DOMAIN senders : senders[s].known =>
    /\ senders[s].next <= store[s]
    /\ stage # "applied" => senders[s].next = store[s]

\* Nothing is stranded: once the applied blocks were observed, every parked
\* transaction really waits for a nonce that is still to come. A parked
\* transaction at or below the next nonce would never be released again
\* ("this is the only signal that will ever release it").
ParkedInFuture ==
  stage # "applied" => \A tx \in ParkedTxs(senders) : tx.nonce > store[tx.from]

\* The index by hash holds exactly the parked transactions: IsPending answers
\* for each of them, and a replaced, released, spent or expired one leaves no
\* entry behind.
IndexMatches == byHash = ParkedTxs(senders)

\* An Admit that is off the lock finds the entry it pinned, with exactly the
\* references of the calls that hold it; and the cache keeps no entry that
\* nobody holds and that knows nothing.
PinnedStays ==
  /\ \A c \in Clients : pc[c] # "idle" => call[c].from \in DOMAIN senders
  /\ \A s \in DOMAIN senders :
       /\ senders[s].refs = Cardinality({c \in Clients : pc[c] # "idle" /\ call[c].from = s})
       /\ senders[s].refs > 0 \/ senders[s].known

\* While a sender stays cached its expected nonce never falls, so that no
\* transaction at a spent nonce is admitted again.
NextNeverFalls ==
  [][\A s \in DOMAIN senders \cap DOMAIN senders' :
       senders[s].known => senders'[s].known /\ senders'[s].next >= senders[s].next]_vars

\* A parked transaction leaves the gate for a reason: it goes to the queue (unless
\* that is closed or full just then: Observe drops it), its nonce is spent, another one replaced it, or the
\* reaper let it expire.
ParkedLeaveForAReason ==
  [][\A tx \in ParkedTxs(senders) \ ParkedTxs(senders') :
       \/ tx \in queue' \/ refusing
       \/ tx.nonce < store[tx.from]
       \/ \E other \in ParkedTxs(senders') :
            other.from = tx.from /\ other.nonce = tx.nonce
       \/ Prune]_vars
=============================================================================
