--------------------------- MODULE NonceGateProofs ---------------------------
(***************************************************************************)
(* Proofs about NonceGate, for any senders, clients and nonces: its        *)
(* inductive invariant, that Admit keeps it, in one step with the nonce in *)
(* the cache and in three with a read of the store off the lock, that a    *)
(* block and the reaper do, and the properties of the gate that follow.    *)
(* The last section is about the lookups of TxLookup beside the gate.      *)
(***************************************************************************)
EXTENDS TxLookup, FiniteSetTheorems, TLAPS

\* Zenon proves most steps; the others name Z3 and its time.
USE ZenonT(30)


\* The senders with a transaction in the block.
BlockSenders == {tx.from : tx \in block}

Settled(s) == stage # "applied" \/ s \notin BlockSenders

\* The calls of Admit that have the entry of s pinned.
Holders(s) == {c \in Clients : pc[c] # "idle" /\ call[c].from = s}

\* The parked transactions of a sender: a function on some of the nonces.
Parking == UNION {[N -> Variants] : N \in SUBSET Nonces}

EntryRec == [known : BOOLEAN, next : 0..MaxNonce, parked : Parking, refs : Nat]

EntryType ==
  /\ DOMAIN senders \subseteq Senders
  /\ \A s \in DOMAIN senders :
       senders[s] \in EntryRec /\ Cardinality(DOMAIN senders[s].parked) <= MaxParked

OtherType ==
  /\ queue \subseteq Txs /\ refusing \in BOOLEAN
  /\ store \in [Senders -> 0..MaxNonce]
  /\ block \subseteq Txs /\ stage \in {"none", "applied", "observed"}
  /\ pc \in [Clients -> {"idle", "read", "relock"}]
  /\ call \in [Clients -> Txs] /\ seed \in [Clients -> 0..MaxNonce]

\* What an entry e says of sender s is true.
Truthful(s, e) ==
  /\ DOMAIN e.parked # {} => e.known
  /\ e.known => e.next <= store[s]
  /\ e.known /\ Settled(s) => e.next = store[s] /\ \A n \in DOMAIN e.parked : n > e.next

AllTruthful == \A s \in DOMAIN senders : Truthful(s, senders[s])

\* A nonce read from the store is behind it at most, and if a block has made it
\* stale the entry has been given a nonce by Observe since.
SeedInv ==
  \A c \in Clients : pc[c] = "relock" =>
    /\ seed[c] <= store[call[c].from]
    /\ Settled(call[c].from) /\ ~senders[call[c].from].known
         => seed[c] = store[call[c].from]

\* The nonces of a block end where the store now is.
BlockInv ==
  stage = "applied" => \A s \in BlockSenders : s \in Senders /\ highest(s) + 1 = store[s]

IInv ==
  /\ EntryType /\ OtherType /\ PinnedStays /\ AllTruthful /\ SeedInv /\ BlockInv
  /\ IndexMatches

-----------------------------------------------------------------------------
(* Facts about the operators *)

\* Setting one entry of a cache, or one parked transaction.
LEMMA Put ==
  ASSUME NEW f, NEW x, NEW v
  PROVE  /\ DOMAIN With(f, x, v) = DOMAIN f \union {x}
         /\ With(f, x, v)[x] = v
         /\ \A y \in DOMAIN f : y # x => With(f, x, v)[y] = f[y]
BY DEF With

\* Removing entries.
LEMMA Removed ==
  ASSUME NEW f, NEW X
  PROVE  /\ DOMAIN Without(f, X) = DOMAIN f \ X
         /\ \A y \in DOMAIN f \ X : Without(f, X)[y] = f[y]
BY DEF Without

\* A sender nobody knows has an entry of the right type, with nothing in it.
LEMMA NewEntryType ==
  /\ NewEntry \in EntryRec /\ DOMAIN NewEntry.parked = {}
  /\ NewEntry.known = FALSE /\ NewEntry.refs = 0
<1>1. <<>> \in [{} -> Variants]
  BY SMTT(30)
<1>2. <<>> \in Parking
  BY <1>1 DEF Parking
<1>3. 0 \in 0..MaxNonce
  BY GateAssumption, SMTT(30) DEF GateAssumption
<1> QED
  BY <1>1, <1>2, <1>3 DEF NewEntry, EntryRec

\* Removing parked transactions leaves some of them.
LEMMA ParkingRemoved ==
  ASSUME NEW f \in Parking, NEW X
  PROVE  /\ Without(f, X) \in Parking
         /\ DOMAIN f \in SUBSET Nonces
         /\ IsFiniteSet(DOMAIN f) /\ Cardinality(DOMAIN f) \in Nat
         /\ Cardinality(DOMAIN Without(f, X)) <= Cardinality(DOMAIN f)
<1>1. PICK N \in SUBSET Nonces : f \in [N -> Variants]
  BY DEF Parking
<1>2. Without(f, X) \in [N \ X -> Variants]
  BY <1>1 DEF Without
<1>3. Without(f, X) \in Parking
  BY <1>2 DEF Parking
<1>4. IsFiniteSet(Nonces)
  BY FS_Interval, GateAssumption, SMTT(30) DEF Nonces, GateAssumption
<1>5. IsFiniteSet(N)
  BY <1>4, FS_Subset
<1>6. Cardinality(N) \in Nat /\ Cardinality(N \ X) <= Cardinality(N)
  <2>1. N \ X \in SUBSET N
    OBVIOUS
  <2> QED
    BY <1>5, <2>1, FS_Subset, FS_CardinalityType
<1> QED
  BY <1>1, <1>2, <1>3, <1>5, <1>6

\* Parking one more transaction.
LEMMA ParkingPut ==
  ASSUME NEW f \in Parking, NEW n \in Nonces, NEW v \in Variants
  PROVE  /\ With(f, n, v) \in Parking
         /\ Cardinality(DOMAIN With(f, n, v)) =
              IF n \in DOMAIN f THEN Cardinality(DOMAIN f) ELSE Cardinality(DOMAIN f) + 1
<1>1. PICK N \in SUBSET Nonces : f \in [N -> Variants]
  BY DEF Parking
<1>2. With(f, n, v) \in [N \union {n} -> Variants]
  BY <1>1 DEF With
<1>3. With(f, n, v) \in Parking
  BY <1>2 DEF Parking
<1>4. IsFiniteSet(N)
  BY <1>1, ParkingRemoved
<1> QED
  BY <1>1, <1>2, <1>3, <1>4, FS_AddElement

\* The calls that hold an entry are counted.
LEMMA HoldersFinite ==
  ASSUME NEW S \in SUBSET Clients
  PROVE  /\ IsFiniteSet(S) /\ Cardinality(S) \in Nat
         /\ Cardinality(S) = 0 <=> S = {}
BY ClientsFinite, FS_Subset, FS_CardinalityType, FS_EmptySet DEF ClientsFinite

\* PinnedStays in terms of Holders.
LEMMA PinnedIs ==
  PinnedStays <=>
    /\ \A c \in Clients : pc[c] # "idle" => call[c].from \in DOMAIN senders
    /\ \A s \in DOMAIN senders :
         /\ senders[s].refs = Cardinality(Holders(s))
         /\ senders[s].refs > 0 \/ senders[s].known
BY DEF PinnedStays, Holders

\* What the parked transactions of a cache are.
LEMMA ParkedMember ==
  ASSUME NEW cache, NEW tx
  PROVE  tx \in ParkedTxs(cache) <=>
           \E s \in DOMAIN cache : \E n \in DOMAIN cache[s].parked :
             tx = [from |-> s, nonce |-> n, variant |-> cache[s].parked[n]]
BY SMTT(30) DEF ParkedTxs

\* Setting an entry that is there.
LEMMA PutIn ==
  ASSUME NEW f, NEW x \in DOMAIN f, NEW v
  PROVE  /\ DOMAIN With(f, x, v) = DOMAIN f
         /\ With(f, x, v)[x] = v
         /\ \A y \in DOMAIN f : y # x => With(f, x, v)[y] = f[y]
BY DEF With

\* An entry that release leaves in the cache.
Stays(ss) == ss.refs > 0 \/ ss.known \/ DOMAIN ss.parked # {}

\* Releasing an entry that stays: it knows its nonce, is held by another call or
\* has parked transactions.
LEMMA ReleaseKeeps ==
  ASSUME NEW cache, NEW s \in DOMAIN cache, Stays(unpinned(cache[s]))
  PROVE  /\ DOMAIN release(cache, s) = DOMAIN cache
         /\ release(cache, s)[s] = unpinned(cache[s])
         /\ \A t \in DOMAIN cache : t # s => release(cache, s)[t] = cache[t]
<1>1. release(cache, s) = With(cache, s, unpinned(cache[s]))
  BY DEF release, Stays
<1> QED
  BY <1>1, PutIn, SMTT(30)

\* Releasing an entry that goes.
LEMMA ReleaseDrops ==
  ASSUME NEW cache, NEW s \in DOMAIN cache, ~Stays(unpinned(cache[s]))
  PROVE  /\ DOMAIN release(cache, s) = DOMAIN cache \ {s}
         /\ \A t \in DOMAIN cache : t # s => release(cache, s)[t] = cache[t]
<1>1. release(cache, s) = Without(cache, {s})
  BY DEF release, Stays
<1>2. \A t \in DOMAIN cache : t # s => t \in DOMAIN cache \ {s}
  OBVIOUS
<1>3. /\ DOMAIN Without(cache, {s}) = DOMAIN cache \ {s}
      /\ \A t \in DOMAIN cache \ {s} : Without(cache, {s})[t] = cache[t]
  BY Removed, Zenon
<1> QED
  BY <1>1, <1>2, <1>3, Zenon

\* The parts of a transaction.
LEMMA TxParts ==
  ASSUME NEW tx \in Txs
  PROVE  /\ tx.from \in Senders /\ tx.nonce \in Nonces /\ tx.variant \in Variants
         /\ tx = [from |-> tx.from, nonce |-> tx.nonce, variant |-> tx.variant]
         /\ tx.nonce \in Nat /\ tx.nonce \in 0..MaxNonce
BY GateAssumption, SMTT(30) DEF Txs, Nonces, GateAssumption

\* What acquire does to an entry.
LEMMA PinFields ==
  ASSUME NEW e \in EntryRec
  PROVE  /\ pinned(e) \in EntryRec /\ pinned(e).refs = e.refs + 1 /\ e.refs \in Nat
         /\ pinned(e).known = e.known /\ pinned(e).next = e.next
         /\ pinned(e).parked = e.parked
BY SMTT(30) DEF EntryRec, pinned

\* What release does to one.
LEMMA UnpinFields ==
  ASSUME NEW e \in EntryRec, e.refs > 0
  PROVE  /\ unpinned(e) \in EntryRec /\ unpinned(e).refs = e.refs - 1 /\ e.refs \in Nat
         /\ unpinned(e).known = e.known /\ unpinned(e).next = e.next
         /\ unpinned(e).parked = e.parked
BY SMTT(30) DEF EntryRec, unpinned

\* What a nonce from the store or from a block does to one.
LEMMA RaiseFields ==
  ASSUME NEW e \in EntryRec, NEW n \in 0..MaxNonce
  PROVE  /\ raise(e, n) \in EntryRec /\ raise(e, n).known
         /\ raise(e, n).parked = e.parked /\ raise(e, n).refs = e.refs
         /\ raise(e, n).next = IF ~e.known \/ n > e.next THEN n ELSE e.next
         /\ e.next \in Nat /\ n \in Nat
<1>1. MaxNonce \in Nat
  BY GateAssumption DEF GateAssumption
<1>2. e.next \in Nat /\ n \in Nat /\ e.known \in BOOLEAN
  BY <1>1, SMTT(30) DEF EntryRec
<1>3. CASE ~e.known \/ n > e.next
  <2>1. raise(e, n) = [e EXCEPT !.known = TRUE, !.next = n]
    BY <1>3 DEF raise
  <2> QED
    BY <1>2, <1>3, <2>1 DEF EntryRec
<1>4. CASE ~(~e.known \/ n > e.next)
  <2>1. raise(e, n) = e
    BY <1>4 DEF raise
  <2> QED
    BY <1>2, <1>4, <2>1
<1> QED
  BY <1>3, <1>4

\* What parking a transaction for which there is room does to one.
LEMMA ParkFields ==
  ASSUME NEW e \in EntryRec, NEW tx \in Txs, HasRoom(e, tx.nonce),
         Cardinality(DOMAIN e.parked) <= MaxParked
  PROVE  /\ park(e, tx) \in EntryRec
         /\ park(e, tx).known = e.known /\ park(e, tx).next = e.next
         /\ park(e, tx).refs = e.refs
         /\ park(e, tx).parked = With(e.parked, tx.nonce, tx.variant)
         /\ Cardinality(DOMAIN park(e, tx).parked) <= MaxParked
<1> DEFINE q == With(e.parked, tx.nonce, tx.variant)
<1>1. e.parked \in Parking
  BY DEF EntryRec
<1>2. /\ q \in Parking
      /\ Cardinality(DOMAIN q) = IF tx.nonce \in DOMAIN e.parked
           THEN Cardinality(DOMAIN e.parked) ELSE Cardinality(DOMAIN e.parked) + 1
  BY <1>1, TxParts, ParkingPut
<1>3. Cardinality(DOMAIN e.parked) \in Nat /\ MaxParked \in Nat
  BY <1>1, ParkingRemoved, GateAssumption DEF GateAssumption
<1>4. Cardinality(DOMAIN q) <= MaxParked
  BY <1>2, <1>3, SMTT(30) DEF HasRoom
<1> HIDE DEF q
<1>5. park(e, tx) = [e EXCEPT !.parked = q]
  BY DEF park, q
<1> QED
  BY <1>2, <1>4, <1>5 DEF EntryRec, q

\* The cache changes in one entry.
LEMMA OneEntry ==
  ASSUME EntryType, AllTruthful, UNCHANGED ledgerVars,
         NEW f \in Senders, NEW e \in EntryRec,
         Cardinality(DOMAIN e.parked) <= MaxParked, Truthful(f, e),
         DOMAIN senders' = DOMAIN senders \union {f}, senders'[f] = e,
         \A t \in DOMAIN senders : t # f => senders'[t] = senders[t]
  PROVE  EntryType' /\ AllTruthful'
<1>1. EntryType'
  BY DEF EntryType
<1>2. \A s \in DOMAIN senders' : Truthful(s, senders'[s])
  BY DEF AllTruthful
<1>3. AllTruthful'
  <2> SUFFICES ASSUME NEW s \in DOMAIN senders' PROVE Truthful(s, senders[s])'
    BY DEF AllTruthful
  <2>1. Truthful(s, senders'[s])
    BY <1>2
  <2> QED
    BY <2>1 DEF Truthful, Settled, BlockSenders, ledgerVars
<1> QED
  BY <1>1, <1>3

\* The index follows the parked transactions of the one sender that parks.
LEMMA IndexStep ==
  ASSUME IndexMatches, NEW f \in DOMAIN senders, DOMAIN senders' = DOMAIN senders,
         \A t \in DOMAIN senders : t # f => senders'[t].parked = senders[t].parked,
         NEW tx \in Txs, tx.from = f, NEW e, e.parked = senders[f].parked,
         EntryType,
         \/ senders'[f].parked = senders[f].parked /\ byHash' = byHash
         \/ /\ senders'[f].parked = With(senders[f].parked, tx.nonce, tx.variant)
            /\ byHash' = Indexed(e, tx)
  PROVE  IndexMatches'
<1>1. CASE senders'[f].parked = senders[f].parked /\ byHash' = byHash
  BY <1>1, SMTT(30) DEF IndexMatches, ParkedTxs
<1>2. CASE /\ senders'[f].parked = With(senders[f].parked, tx.nonce, tx.variant)
           /\ byHash' = Indexed(e, tx)
  <2> DEFINE q == senders[f].parked
  <2>0. \A n \in DOMAIN q : n \in Nonces /\ q[n] \in Variants
    BY SMTT(30) DEF EntryType, EntryRec, Parking
  <2>1. /\ DOMAIN senders'[f].parked = DOMAIN q \union {tx.nonce}
        /\ senders'[f].parked[tx.nonce] = tx.variant
        /\ \A n \in DOMAIN q : n # tx.nonce => senders'[f].parked[n] = q[n]
    <3> DEFINE r == With(q, tx.nonce, tx.variant)
    <3>1. senders'[f].parked = r
      BY <1>2
    <3>2. /\ DOMAIN r = DOMAIN q \union {tx.nonce} /\ r[tx.nonce] = tx.variant
          /\ \A n \in DOMAIN q : n # tx.nonce => r[n] = q[n]
      BY DEF With
    <3> HIDE DEF r, q
    <3> QED
      BY <3>1, <3>2
  <2>2. \A x \in ParkedTxs(senders') : x \in byHash'
    <3> SUFFICES ASSUME NEW t \in DOMAIN senders, NEW n \in DOMAIN senders'[t].parked,
                        NEW x, x = [from |-> t, nonce |-> n, variant |-> senders'[t].parked[n]]
                 PROVE  x \in Indexed(e, tx)
      BY <1>2, ParkedMember, SMTT(30)
    <3>1. CASE t = f /\ n = tx.nonce
      BY <2>1, <3>1, TxParts, SMTT(30) DEF Indexed
    <3>2. CASE t # f \/ n # tx.nonce
      <4>1. n \in DOMAIN senders[t].parked /\ senders'[t].parked[n] = senders[t].parked[n]
        BY <2>1, <3>2, SMTT(30)
      <4>2. x \in byHash
        BY <4>1, ParkedMember DEF IndexMatches
      <4>3. x.from = t /\ x.nonce = n
        OBVIOUS
      <4> QED
        BY <3>2, <4>2, <4>3 DEF Indexed
    <3> QED
      BY <3>1, <3>2
  <2>3. \A x \in byHash' : x \in ParkedTxs(senders')
    <3> SUFFICES ASSUME NEW x \in Indexed(e, tx) PROVE x \in ParkedTxs(senders')
      BY <1>2
    <3>1. CASE x = tx
      BY <2>1, <3>1, TxParts, ParkedMember, SMTT(30)
    <3>2. CASE x # tx
      <4>1. x \in ParkedTxs(senders)
        BY <3>2 DEF Indexed, IndexMatches
      <4>0. PICK t \in DOMAIN senders : \E n \in DOMAIN senders[t].parked :
              x = [from |-> t, nonce |-> n, variant |-> senders[t].parked[n]]
        BY <4>1, ParkedMember, SMTT(30)
      <4>2. PICK n \in DOMAIN senders[t].parked :
              x = [from |-> t, nonce |-> n, variant |-> senders[t].parked[n]]
        BY <4>0
      <4>3. t # f \/ n # tx.nonce
        <5> SUFFICES ASSUME t = f, n = tx.nonce PROVE FALSE
          OBVIOUS
        <5>1. /\ x.from = tx.from /\ x.nonce = tx.nonce
              /\ tx.nonce \in DOMAIN e.parked /\ x.variant = e.parked[tx.nonce]
          BY <4>2
        <5>2. x \in Txs
          BY <2>0, <4>2 DEF Txs, EntryType
        <5> QED
          BY <3>2, <5>1, <5>2 DEF Indexed
      <4>4. n \in DOMAIN senders'[t].parked /\ senders'[t].parked[n] = senders[t].parked[n]
        BY <2>1, <4>3
      <4> QED
        BY <4>2, <4>4, ParkedMember
    <3> QED
      BY <3>1, <3>2
  <2>4. IndexMatches' <=> byHash' = ParkedTxs(senders')
    BY DEF IndexMatches, ParkedTxs
  <2> QED
    BY <2>2, <2>3, <2>4
<1> QED
  BY <1>1, <1>2

-----------------------------------------------------------------------------
(* Admit *)

\* The part of Admit after the nonce is known, the deferred release included:
\* the entry stays, one reference less, and tx may have been parked in it.
LEMMA SettleEffect ==
  ASSUME NEW cache, NEW tx \in Txs, NEW f \in DOMAIN cache, f = tx.from,
         NEW e \in EntryRec, e = cache[f], e.known, e.refs > 0,
         Cardinality(DOMAIN e.parked) <= MaxParked, queue \subseteq Txs,
         Settle(tx, cache)
  PROVE  /\ queue' \subseteq Txs
         /\ DOMAIN senders' = DOMAIN cache
         /\ \A t \in DOMAIN cache : t # f => senders'[t] = cache[t]
         /\ senders'[f] \in EntryRec /\ senders'[f].known
         /\ senders'[f].next = e.next /\ senders'[f].refs = e.refs - 1
         /\ Cardinality(DOMAIN senders'[f].parked) <= MaxParked
         /\ \/ senders'[f].parked = e.parked /\ byHash' = byHash
            \/ /\ tx.nonce > e.next
               /\ senders'[f].parked = With(e.parked, tx.nonce, tx.variant)
               /\ byHash' = Indexed(e, tx)
<1>1. CASE /\ senders' = release(cache, f) /\ byHash' = byHash
           /\ queue' = queue \/ Enqueue({tx})
  <2> DEFINE u == unpinned(e)
  <2>1. /\ u \in EntryRec /\ u.refs = e.refs - 1 /\ u.known = e.known
        /\ u.next = e.next /\ u.parked = e.parked
    BY UnpinFields
  <2>2. /\ DOMAIN release(cache, f) = DOMAIN cache /\ release(cache, f)[f] = u
        /\ \A t \in DOMAIN cache : t # f => release(cache, f)[t] = cache[t]
    <3>1. Stays(unpinned(cache[f]))
      BY <2>1 DEF Stays
    <3> QED
      BY <3>1, ReleaseKeeps
  <2> HIDE DEF u
  <2>3. senders'[f] = u
    BY <1>1, <2>2
  <2>4. queue' \subseteq Txs
    BY <1>1 DEF Enqueue
  <2> QED
    BY <1>1, <2>1, <2>2, <2>3, <2>4
<1>2. CASE /\ tx.nonce > e.next /\ HasRoom(e, tx.nonce)
           /\ senders' = release([cache EXCEPT ![f] = park(e, tx)], f)
           /\ byHash' = Indexed(e, tx) /\ UNCHANGED queue
  <2> DEFINE g == park(e, tx)
             cache2 == [cache EXCEPT ![f] = g]
             u == unpinned(g)
  <2>1. /\ g \in EntryRec /\ g.known = e.known /\ g.next = e.next /\ g.refs = e.refs
        /\ g.parked = With(e.parked, tx.nonce, tx.variant)
        /\ Cardinality(DOMAIN g.parked) <= MaxParked
    BY <1>2, ParkFields
  <2>2. /\ DOMAIN cache2 = DOMAIN cache /\ cache2[f] = g
        /\ \A t \in DOMAIN cache : t # f => cache2[t] = cache[t]
    OBVIOUS
  <2>3. senders' = release(cache2, f)
    BY <1>2
  <2> HIDE DEF g, cache2
  <2>4. /\ u \in EntryRec /\ u.refs = g.refs - 1 /\ u.known = g.known
        /\ u.next = g.next /\ u.parked = g.parked
    BY <2>1, UnpinFields
  <2>5. /\ DOMAIN release(cache2, f) = DOMAIN cache2 /\ release(cache2, f)[f] = u
        /\ \A t \in DOMAIN cache2 : t # f => release(cache2, f)[t] = cache2[t]
    <3>1. Stays(unpinned(cache2[f])) /\ f \in DOMAIN cache2
      BY <2>1, <2>2, <2>4 DEF Stays
    <3> QED
      BY <2>2, <3>1, ReleaseKeeps, SMTT(30)
  <2> HIDE DEF u
  <2>6. senders'[f] = u /\ DOMAIN senders' = DOMAIN cache
    BY <2>2, <2>3, <2>5
  <2>7. \A t \in DOMAIN cache : t # f => senders'[t] = cache[t]
    BY <2>2, <2>3, <2>5
  <2> QED
    BY <1>2, <2>1, <2>4, <2>6, <2>7
<1> QED
  BY <1>1, <1>2, Zenon DEF Settle

\* What a step does to the cached nonces: those that stay never fall.
Grows ==
  \A s \in DOMAIN senders \cap DOMAIN senders' :
    senders[s].known => senders'[s].known /\ senders'[s].next >= senders[s].next

\* No parked transaction goes, unless for another one at its nonce.
ParkedStay ==
  \A s \in DOMAIN senders : \A n \in DOMAIN senders[s].parked :
    s \in DOMAIN senders' /\ n \in DOMAIN senders'[s].parked

\* The end of an Admit, whether its nonce was cached or read. refs is what the
\* entry had before, next what it has now.
LEMMA AdmitEnds ==
  ASSUME IInv, UNCHANGED ledgerVars, NEW tx \in Txs, NEW f \in DOMAIN senders, f = tx.from,
         NEW cache, DOMAIN cache = DOMAIN senders,
         \A t \in DOMAIN senders : t # f => cache[t] = senders[t],
         NEW e \in EntryRec, e = cache[f], e.known, e.refs > 0,
         e.parked = senders[f].parked, Truthful(f, e), Settle(tx, cache)
  PROVE  /\ EntryType' /\ AllTruthful' /\ IndexMatches' /\ queue' \subseteq Txs
         /\ DOMAIN senders' = DOMAIN senders
         /\ \A t \in DOMAIN senders : t # f => senders'[t] = senders[t]
         /\ senders'[f].known /\ senders'[f].refs = e.refs - 1
         /\ senders'[f].next = e.next
         /\ \A n \in DOMAIN senders[f].parked : n \in DOMAIN senders'[f].parked
<1>0. /\ EntryType /\ AllTruthful /\ IndexMatches /\ queue \subseteq Txs
      /\ f \in Senders /\ Cardinality(DOMAIN e.parked) <= MaxParked
  BY DEF IInv, EntryType, OtherType
<1>1. /\ queue' \subseteq Txs
      /\ DOMAIN senders' = DOMAIN cache
      /\ \A t \in DOMAIN cache : t # f => senders'[t] = cache[t]
      /\ senders'[f] \in EntryRec /\ senders'[f].known
      /\ senders'[f].next = e.next /\ senders'[f].refs = e.refs - 1
      /\ Cardinality(DOMAIN senders'[f].parked) <= MaxParked
      /\ \/ senders'[f].parked = e.parked /\ byHash' = byHash
         \/ /\ tx.nonce > e.next
            /\ senders'[f].parked = With(e.parked, tx.nonce, tx.variant)
            /\ byHash' = Indexed(e, tx)
  BY <1>0, SettleEffect, SMTT(30)
<1>2. IndexMatches'
  BY <1>0, <1>1, IndexStep, SMTT(30)
<1>3. Truthful(f, senders'[f])
  <2>1. CASE senders'[f].parked = e.parked
    BY <1>1, <2>1 DEF Truthful
  <2>2. CASE tx.nonce > e.next /\ senders'[f].parked = With(e.parked, tx.nonce, tx.variant)
    <3>1. \A n \in DOMAIN senders'[f].parked : n \in DOMAIN e.parked \/ n = tx.nonce
      BY <2>2 DEF With
    <3> QED
      BY <1>1, <2>2, <3>1 DEF Truthful
  <2> QED
    BY <1>1, <2>1, <2>2
<1>4. EntryType' /\ AllTruthful'
  BY <1>0, <1>1, <1>3, OneEntry, SMTT(30)
<1>5. \A n \in DOMAIN e.parked : n \in DOMAIN senders'[f].parked
  <2>1. DOMAIN e.parked \subseteq DOMAIN With(e.parked, tx.nonce, tx.variant)
    BY DEF With
  <2> QED
    BY <1>1, <2>1
<1> QED
  BY <1>1, <1>2, <1>4, <1>5

\* Pinning the entry of a sender, a new one if there is none.
LEMMA AcquireEffect ==
  ASSUME EntryType, NEW f \in Senders
  PROVE  /\ DOMAIN acquire(senders, f) = DOMAIN senders \union {f}
         /\ acquire(senders, f)[f] = pinned(entryOf(senders, f))
         /\ \A t \in DOMAIN senders : t # f => acquire(senders, f)[t] = senders[t]
         /\ entryOf(senders, f) \in EntryRec
         /\ Cardinality(DOMAIN entryOf(senders, f).parked) <= MaxParked
<1>1. acquire(senders, f) = With(senders, f, pinned(entryOf(senders, f)))
  BY DEF acquire
<1>3. entryOf(senders, f) \in EntryRec /\ Cardinality(DOMAIN entryOf(senders, f).parked) <= MaxParked
  <2>1. Cardinality({}) <= MaxParked
    BY FS_EmptySet, GateAssumption, SMTT(30) DEF GateAssumption
  <2>2. CASE f \notin DOMAIN senders
    <3>1. entryOf(senders, f) = NewEntry
      BY <2>2 DEF entryOf
    <3> QED
      BY <2>1, <3>1, NewEntryType
  <2>3. CASE f \in DOMAIN senders
    BY <2>3 DEF entryOf, EntryType
  <2> QED
    BY <2>2, <2>3
<1>4. /\ DOMAIN With(senders, f, pinned(entryOf(senders, f))) = DOMAIN senders \union {f}
      /\ With(senders, f, pinned(entryOf(senders, f)))[f] = pinned(entryOf(senders, f))
      /\ \A t \in DOMAIN senders : t # f =>
           With(senders, f, pinned(entryOf(senders, f)))[t] = senders[t]
  BY DEF With
<1> QED
  BY <1>1, <1>3, <1>4

\* Cached nonces are numbers.
LEMMA NextTypes ==
  ASSUME EntryType
  PROVE  \A s \in DOMAIN senders : senders[s].next \in Nat
BY GateAssumption, SMTT(30) DEF EntryType, EntryRec, GateAssumption

\* A seed stays good while its call, the store and the block stay, if no entry
\* that knew its nonce forgets it.
LEMMA SeedsKept ==
  ASSUME SeedInv, PinnedStays, UNCHANGED <<ledgerVars, clientVars>>,
         \A s \in DOMAIN senders : senders[s].known => senders'[s].known
  PROVE  SeedInv'
<1> SUFFICES ASSUME NEW c \in Clients, pc[c] = "relock"
             PROVE  /\ seed[c] <= store[call[c].from]
                    /\ Settled(call[c].from)' /\ ~senders'[call[c].from].known
                         => seed[c] = store[call[c].from]
  BY DEF SeedInv, clientVars, ledgerVars
<1>1. call[c].from \in DOMAIN senders
  BY DEF PinnedStays
<1>2. Settled(call[c].from)' <=> Settled(call[c].from)
  BY DEF Settled, BlockSenders, clientVars, ledgerVars
<1> QED
  BY <1>1, <1>2 DEF SeedInv

\* Admit of a sender in the cache.
LEMMA AdmitCachedKeeps ==
  ASSUME IInv, NEW c \in Clients, NEW tx \in Txs, AdmitCached(c, tx)
  PROVE  IInv' /\ Grows /\ ParkedStay
<1> DEFINE f == tx.from
           e == pinned(senders[f])
           cache == acquire(senders, f)
<1>1. f \in Senders /\ UNCHANGED <<refusing, ledgerVars, clientVars>>
  BY TxParts DEF AdmitCached
<1>2. f \in DOMAIN senders /\ entryOf(senders, f) = senders[f] /\ senders[f].known
  BY NewEntryType DEF AdmitCached, entryOf
<1>3. senders[f] \in EntryRec
  BY <1>2 DEF IInv, EntryType
<1>4. /\ e \in EntryRec /\ e.known /\ e.refs = senders[f].refs + 1 /\ senders[f].refs \in Nat
      /\ e.parked = senders[f].parked /\ e.next = senders[f].next
  BY <1>2, <1>3, PinFields
<1>5. /\ DOMAIN cache = DOMAIN senders /\ cache[f] = e
      /\ \A t \in DOMAIN senders : t # f => cache[t] = senders[t]
  BY <1>1, <1>2, AcquireEffect DEF IInv
<1>6. Truthful(f, e)
  BY <1>2, <1>4 DEF IInv, AllTruthful, Truthful
<1>7. Settle(tx, cache)
  BY DEF AdmitCached
<1> HIDE DEF cache, e
<1>8. e.refs > 0
  BY <1>4, SMTT(30)
<1>9. /\ EntryType' /\ AllTruthful' /\ IndexMatches' /\ queue' \subseteq Txs
      /\ DOMAIN senders' = DOMAIN senders
      /\ \A t \in DOMAIN senders : t # f => senders'[t] = senders[t]
      /\ senders'[f].known /\ senders'[f].refs = e.refs - 1
      /\ senders'[f].next = e.next
      /\ \A n \in DOMAIN senders[f].parked : n \in DOMAIN senders'[f].parked
  <2>1. /\ tx \in Txs /\ f \in DOMAIN senders /\ f = tx.from
        /\ e.parked = senders[f].parked /\ e.known /\ e \in EntryRec /\ e = cache[f]
    BY <1>2, <1>4, <1>5
  <2>2. UNCHANGED ledgerVars
    BY <1>1
  <2> HIDE DEF f
  <2> QED
    BY <1>5, <1>6, <1>7, <1>8, <2>1, <2>2, AdmitEnds
<1>10. senders'[f].refs = senders[f].refs
  BY <1>4, <1>9, SMTT(30)
<1> HIDE DEF f
<1>11. PinnedStays'
  <2>1. (\A s : Holders(s)' = Holders(s)) /\ pc' = pc /\ call' = call
    BY <1>1 DEF Holders, clientVars
  <2>2. \A s \in DOMAIN senders' :
          /\ senders'[s].refs = Cardinality(Holders(s)')
          /\ senders'[s].refs > 0 \/ senders'[s].known
    BY <1>9, <1>10, <2>1, PinnedIs DEF IInv
  <2>3. \A d \in Clients : pc[d] # "idle" => call[d].from \in DOMAIN senders'
    BY <1>9 DEF IInv, PinnedStays
  <2> QED
    BY <2>1, <2>2, <2>3 DEF PinnedStays, Holders
<1>12. SeedInv'
  BY <1>1, <1>2, <1>9, SeedsKept DEF IInv
<1>13. BlockInv' /\ OtherType'
  BY <1>1, <1>9 DEF IInv, BlockInv, BlockSenders, highest, OtherType, clientVars, ledgerVars
<1>14. Grows
  BY <1>4, <1>9, NextTypes, SMTT(30) DEF IInv, Grows
<1>15. ParkedStay
  BY <1>9 DEF ParkedStay
<1> QED
  BY <1>9, <1>11, <1>12, <1>13, <1>14, <1>15 DEF IInv

\* Who holds an entry before and after a call begins.
LEMMA HoldersBegin ==
  ASSUME OtherType, NEW c \in Clients, NEW tx \in Txs, pc[c] = "idle",
         pc' = [pc EXCEPT ![c] = "read"], call' = [call EXCEPT ![c] = tx]
  PROVE  /\ Cardinality(Holders(tx.from)') = Cardinality(Holders(tx.from)) + 1
         /\ \A s : s # tx.from => Holders(s)' = Holders(s)
<1>1. \A s : Holders(s)' = IF s = tx.from THEN Holders(s) \union {c} ELSE Holders(s)
  BY DEF Holders, OtherType
<1>2. c \notin Holders(tx.from) /\ IsFiniteSet(Holders(tx.from))
  BY HoldersFinite DEF Holders
<1>3. Cardinality(Holders(tx.from) \union {c}) = Cardinality(Holders(tx.from)) + 1
  BY <1>2, FS_AddElement
<1> QED
  BY <1>1, <1>3

\* Who holds an entry before and after a call ends.
LEMMA HoldersEnd ==
  ASSUME OtherType, NEW c \in Clients, pc[c] # "idle", Return(c), NEW f, f = call[c].from
  PROVE  /\ Cardinality(Holders(f)') = Cardinality(Holders(f)) - 1
         /\ \A s : s # f => Holders(s)' = Holders(s)
         /\ Cardinality(Holders(f)) \in Nat \ {0}
         /\ Holders(f)' \in SUBSET Clients
<1>1. \A s : Holders(s)' = Holders(s) \ {c}
  BY DEF Holders, OtherType, Return
<1>2. \A s : s # f => c \notin Holders(s)
  BY DEF Holders
<1>3. c \in Holders(f) /\ IsFiniteSet(Holders(f))
      /\ Holders(f) \in SUBSET Clients
  BY HoldersFinite DEF Holders
<1>4. Cardinality(Holders(f) \ {c}) = Cardinality(Holders(f)) - 1
  BY <1>3, FS_RemoveElement
<1>5. Cardinality(Holders(f)) \in Nat \ {0}
  BY <1>3, HoldersFinite
<1>6. \A s : s # f => Holders(s)' = Holders(s)
  BY <1>1, <1>2
<1>7. Holders(f)' = Holders(f) \ {c}
  BY <1>1
<1> QED
  BY <1>3, <1>4, <1>5, <1>6, <1>7

\* A sender that is not in the cache is held by nobody.
LEMMA NobodyHolds ==
  ASSUME PinnedStays, NEW s, s \notin DOMAIN senders
  PROVE  Holders(s) = {} /\ Cardinality(Holders(s)) = 0
<1>1. Holders(s) = {}
  BY DEF PinnedStays, Holders
<1> QED
  BY <1>1, FS_EmptySet

\* The variables outside the gate and the clients stay.
LEMMA BlockKept ==
  ASSUME BlockInv, UNCHANGED ledgerVars
  PROVE  BlockInv'
BY DEF BlockInv, BlockSenders, highest, ledgerVars

\* The parked transactions depend on the entries' parked fields only.
LEMMA SameParked ==
  ASSUME NEW old, NEW new,
         \A s \in DOMAIN old : DOMAIN old[s].parked # {} =>
           s \in DOMAIN new /\ new[s].parked = old[s].parked,
         \A s \in DOMAIN new : DOMAIN new[s].parked # {} =>
           s \in DOMAIN old /\ new[s].parked = old[s].parked
  PROVE  ParkedTxs(new) = ParkedTxs(old)
<1>1. \A tx : tx \in ParkedTxs(old) => tx \in ParkedTxs(new)
  BY ParkedMember, SMTT(30)
<1>2. \A tx : tx \in ParkedTxs(new) => tx \in ParkedTxs(old)
  BY ParkedMember, SMTT(30)
<1> QED
  BY <1>1, <1>2

\* Admit pins an entry and leaves the lock.
LEMMA AdmitReserveKeeps ==
  ASSUME IInv, NEW c \in Clients, NEW tx \in Txs, AdmitReserve(c, tx)
  PROVE  IInv' /\ Grows /\ ParkedStay
<1> DEFINE f == tx.from
           old == entryOf(senders, f)
           e == pinned(old)
<1>1. /\ f \in Senders /\ UNCHANGED <<byHash, queueVars, ledgerVars, seed>>
      /\ pc[c] = "idle" /\ pc' = [pc EXCEPT ![c] = "read"]
      /\ call' = [call EXCEPT ![c] = tx] /\ ~old.known
      /\ senders' = acquire(senders, f)
  BY TxParts DEF AdmitReserve
<1>2. /\ DOMAIN senders' = DOMAIN senders \union {f} /\ senders'[f] = e
      /\ \A t \in DOMAIN senders : t # f => senders'[t] = senders[t]
      /\ old \in EntryRec /\ Cardinality(DOMAIN old.parked) <= MaxParked
  BY <1>1, AcquireEffect DEF IInv
<1>3. DOMAIN old.parked = {}
  <2>1. CASE f \in DOMAIN senders
    BY <1>1, <2>1 DEF IInv, AllTruthful, Truthful, entryOf
  <2>2. CASE f \notin DOMAIN senders
    BY <2>2, NewEntryType DEF entryOf
  <2> QED
    BY <2>1, <2>2
<1>4. old.refs = Cardinality(Holders(f))
  <2>1. CASE f \in DOMAIN senders
    BY <2>1, PinnedIs DEF IInv, entryOf
  <2>2. CASE f \notin DOMAIN senders
    BY <2>2, NewEntryType, NobodyHolds DEF IInv, entryOf
  <2> QED
    BY <2>1, <2>2
<1>5. f \in DOMAIN senders => old = senders[f]
  BY DEF entryOf
<1> HIDE DEF old
<1>6. /\ e \in EntryRec /\ e.refs = old.refs + 1 /\ old.refs \in Nat
      /\ e.known = old.known /\ e.parked = old.parked
  BY <1>2, PinFields
<1> HIDE DEF e
<1>7. Truthful(f, e)
  BY <1>1, <1>3, <1>6, SMTT(30) DEF Truthful
<1>8. EntryType' /\ AllTruthful'
  BY <1>1, <1>2, <1>6, <1>7, OneEntry DEF IInv
<1>9. IndexMatches'
  <2>1. ParkedTxs(senders') = ParkedTxs(senders)
    <3>1. \A s \in DOMAIN senders : DOMAIN senders[s].parked # {} =>
            s \in DOMAIN senders' /\ senders'[s].parked = senders[s].parked
      BY <1>2, <1>3, <1>5
    <3>2. \A s \in DOMAIN senders' : DOMAIN senders'[s].parked # {} =>
            s \in DOMAIN senders /\ senders'[s].parked = senders[s].parked
      BY <1>2, <1>3, <1>6
    <3> QED
      BY <3>1, <3>2, SameParked
  <2> QED
    BY <1>1, <2>1 DEF IInv, IndexMatches, ParkedTxs
<1>10. PinnedStays'
  <2>1. /\ Cardinality(Holders(f)') = Cardinality(Holders(f)) + 1
        /\ \A s : s # f => Holders(s)' = Holders(s)
    BY <1>1, HoldersBegin DEF IInv
  <2>2. \A d \in Clients : pc'[d] # "idle" => call'[d].from \in DOMAIN senders'
    BY <1>1, <1>2, SMTT(30) DEF IInv, PinnedStays, OtherType
  <2>3. \A s \in DOMAIN senders' :
          /\ senders'[s].refs = Cardinality(Holders(s)')
          /\ senders'[s].refs > 0 \/ senders'[s].known
    <3>1. senders'[f].refs = Cardinality(Holders(f)') /\ senders'[f].refs > 0
      BY <1>2, <1>4, <1>6, <2>1, SMTT(30)
    <3>2. \A s \in DOMAIN senders : s # f =>
            /\ senders'[s].refs = Cardinality(Holders(s)')
            /\ senders'[s].refs > 0 \/ senders'[s].known
      BY <1>2, <2>1, PinnedIs DEF IInv
    <3> QED
      BY <1>2, <3>1, <3>2
  <2> QED
    BY <2>2, <2>3 DEF PinnedStays, Holders
<1>11. SeedInv'
  <2> SUFFICES ASSUME NEW d \in Clients, pc'[d] = "relock"
               PROVE  /\ seed'[d] <= store'[call'[d].from]
                      /\ Settled(call[d].from)' /\ ~senders'[call'[d].from].known
                           => seed'[d] = store'[call'[d].from]
    BY DEF SeedInv
  <2>1. d # c /\ pc[d] = "relock" /\ call'[d] = call[d] /\ seed' = seed /\ store' = store
    BY <1>1 DEF IInv, OtherType, ledgerVars
  <2>2. call[d].from \in DOMAIN senders
    BY <2>1 DEF IInv, PinnedStays
  <2>3. senders'[call[d].from].known = senders[call[d].from].known
    BY <1>2, <1>5, <1>6, <2>2
  <2>4. Settled(call[d].from)' <=> Settled(call[d].from)
    BY <1>1, <2>1 DEF Settled, BlockSenders, ledgerVars
  <2> QED
    BY <2>1, <2>3, <2>4 DEF IInv, SeedInv
<1>12. OtherType' /\ BlockInv'
  BY <1>1, BlockKept DEF IInv, OtherType, ledgerVars, queueVars
<1>13. Grows
  <2>1. \A s \in DOMAIN senders : senders[s].known => s # f
    BY <1>1, <1>5
  <2>2. \A s \in DOMAIN senders : senders[s].next >= senders[s].next
    BY NextTypes, SMTT(30) DEF IInv
  <2> QED
    BY <1>2, <2>1, <2>2 DEF Grows
<1>14. ParkedStay
  BY <1>2, <1>3, <1>5 DEF ParkedStay
<1> QED
  BY <1>8, <1>9, <1>10, <1>11, <1>12, <1>13, <1>14 DEF IInv

\* NonceAt returns the store's nonce.
LEMMA NonceAtKeeps ==
  ASSUME IInv, NEW c \in Clients, NonceAt(c)
  PROVE  IInv'
<1>1. /\ UNCHANGED <<gateVars, queueVars, ledgerVars, call>>
      /\ pc[c] = "read" /\ pc' = [pc EXCEPT ![c] = "relock"]
      /\ seed' = [seed EXCEPT ![c] = store[call[c].from]]
  BY DEF NonceAt
<1>2. call[c].from \in Senders /\ store[call[c].from] \in 0..MaxNonce
  BY TxParts DEF IInv, OtherType
<1>3. OtherType' /\ BlockInv'
  BY <1>1, <1>2, BlockKept, SMTT(30) DEF IInv, OtherType, ledgerVars, queueVars
<1>4. EntryType' /\ AllTruthful' /\ IndexMatches'
  BY <1>1, SMTT(30) DEF IInv, EntryType, AllTruthful, Truthful, Settled, BlockSenders, IndexMatches,
     ParkedTxs, gateVars, ledgerVars
<1>5. PinnedStays'
  <2>1. \A d \in Clients : pc'[d] # "idle" <=> pc[d] # "idle"
    BY <1>1 DEF IInv, OtherType
  <2>2. \A s : Holders(s)' = Holders(s)
    BY <1>1, <2>1 DEF Holders
  <2> QED
    BY <1>1, <2>1, <2>2, PinnedIs, SMTT(30) DEF IInv, PinnedStays, Holders, gateVars
<1>6. SeedInv'
  <2> SUFFICES ASSUME NEW d \in Clients, pc'[d] = "relock"
               PROVE  /\ seed'[d] <= store[call[d].from]
                      /\ Settled(call[d].from) /\ ~senders[call[d].from].known
                           => seed'[d] = store[call[d].from]
    BY <1>1 DEF SeedInv, Settled, BlockSenders, ledgerVars, gateVars
  <2>1. CASE d = c
    BY <1>1, <1>2, <2>1, GateAssumption, SMTT(30) DEF IInv, OtherType, GateAssumption
  <2>2. CASE d # c
    BY <1>1, <2>2 DEF IInv, OtherType, SeedInv
  <2> QED
    BY <2>1, <2>2
<1> QED
  BY <1>3, <1>4, <1>5, <1>6 DEF IInv

\* A call ends: its entry has one reference less, or went with the last one.
LEMMA CallEnds ==
  ASSUME IInv, NEW c \in Clients, pc[c] # "idle", Return(c), UNCHANGED ledgerVars,
         NEW f, f = call[c].from, DOMAIN senders' \subseteq DOMAIN senders,
         \A t \in DOMAIN senders : t # f => t \in DOMAIN senders' /\ senders'[t] = senders[t],
         f \in DOMAIN senders' =>
           /\ senders'[f].refs = senders[f].refs - 1
           /\ senders'[f].refs > 0 \/ senders'[f].known
           /\ senders[f].known => senders'[f].known,
         f \notin DOMAIN senders' => senders[f].refs = 1
  PROVE  PinnedStays' /\ SeedInv'
<1>0. /\ \A d \in Clients : d # c => pc'[d] = pc[d] /\ call'[d] = call[d] /\ seed'[d] = seed[d]
      /\ pc'[c] = "idle" /\ f \in DOMAIN senders
  BY DEF Return, IInv, OtherType, PinnedStays
<1>1. /\ Cardinality(Holders(f)') = Cardinality(Holders(f)) - 1
      /\ \A s : s # f => Holders(s)' = Holders(s)
      /\ Cardinality(Holders(f)) \in Nat \ {0} /\ Holders(f)' \in SUBSET Clients
  BY HoldersEnd, SMTT(30) DEF IInv
<1>2. senders[f].refs = Cardinality(Holders(f))
  BY <1>0, PinnedIs DEF IInv
<1>3. f \notin DOMAIN senders' => Holders(f)' = {}
  <2>1. Cardinality(Holders(f)') = 0 <=> Holders(f)' = {}
    BY <1>1, HoldersFinite
  <2> QED
    BY <1>1, <1>2, <2>1, SMTT(30)
<1>4. \A d \in Clients : pc'[d] # "idle" => call'[d].from \in DOMAIN senders'
  <2> SUFFICES ASSUME NEW d \in Clients, pc'[d] # "idle"
               PROVE  call'[d].from \in DOMAIN senders'
    OBVIOUS
  <2>1. d # c /\ call[d].from \in DOMAIN senders /\ call'[d].from = call[d].from
    BY <1>0 DEF IInv, PinnedStays
  <2>2. CASE call[d].from = f
    BY <1>3, <2>1, <2>2 DEF Holders
  <2> QED
    BY <2>1, <2>2
<1>5. \A s \in DOMAIN senders' :
        /\ senders'[s].refs = Cardinality(Holders(s)')
        /\ senders'[s].refs > 0 \/ senders'[s].known
  <2>1. f \in DOMAIN senders' =>
          /\ senders'[f].refs = Cardinality(Holders(f)')
          /\ senders'[f].refs > 0 \/ senders'[f].known
    BY <1>1, <1>2
  <2>2. \A s \in DOMAIN senders : s # f =>
          /\ senders'[s].refs = Cardinality(Holders(s)')
          /\ senders'[s].refs > 0 \/ senders'[s].known
    BY <1>1, PinnedIs, SMTT(30) DEF IInv
  <2> QED
    BY <2>1, <2>2
<1>6. PinnedStays'
  BY <1>4, <1>5 DEF PinnedStays, Holders
<1>7. SeedInv'
  <2> SUFFICES ASSUME NEW d \in Clients, pc'[d] = "relock"
               PROVE  /\ seed'[d] <= store'[call'[d].from]
                      /\ Settled(call[d].from)' /\ ~senders'[call'[d].from].known
                           => seed'[d] = store'[call'[d].from]
    BY DEF SeedInv
  <2>1. /\ d # c /\ pc[d] = "relock" /\ call'[d] = call[d] /\ seed'[d] = seed[d]
        /\ store' = store
    BY <1>0 DEF ledgerVars
  <2>2. call[d].from \in DOMAIN senders' /\ call[d].from \in DOMAIN senders
    BY <1>4, <2>1
  <2>3. senders[call[d].from].known => senders'[call[d].from].known
    BY <2>2
  <2>4. Settled(call[d].from)' <=> Settled(call[d].from)
    BY <2>1 DEF Settled, BlockSenders, ledgerVars
  <2> QED
    BY <2>1, <2>3, <2>4 DEF IInv, SeedInv
<1> QED
  BY <1>6, <1>7

\* The types of a client after its call.
LEMMA ReturnType ==
  ASSUME OtherType, NEW c \in Clients, Return(c), UNCHANGED <<refusing, ledgerVars>>,
         queue' \subseteq Txs
  PROVE  OtherType'
<1>1. call[c] \in Txs
  BY DEF OtherType
<1>2. AnyTx \in Txs
  BY <1>1 DEF AnyTx
<1>3. 0 \in 0..MaxNonce
  BY GateAssumption, SMTT(30) DEF GateAssumption
<1> QED
  BY <1>2, <1>3 DEF OtherType, Return, ledgerVars

\* NonceAt fails and Admit gives its entry back.
LEMMA NonceAtFailsKeeps ==
  ASSUME IInv, NEW c \in Clients, NonceAtFails(c)
  PROVE  IInv' /\ Grows /\ ParkedStay
<1>1. PICK f : f = call[c].from
  OBVIOUS
<1>2. /\ pc[c] # "idle" /\ Return(c) /\ senders' = release(senders, f)
      /\ UNCHANGED <<byHash, queueVars, ledgerVars>>
  BY <1>1 DEF NonceAtFails
<1>3. f \in DOMAIN senders /\ f \in Senders /\ senders[f] \in EntryRec
  BY <1>1, <1>2, SMTT(30) DEF IInv, PinnedStays, EntryType
<1>4. senders[f].refs > 0
  BY <1>1, <1>2, <1>3, HoldersEnd, PinnedIs, SMTT(30) DEF IInv
<1> DEFINE u == unpinned(senders[f])
<1>5. /\ u \in EntryRec /\ u.refs = senders[f].refs - 1 /\ senders[f].refs \in Nat
      /\ u.known = senders[f].known /\ u.next = senders[f].next
      /\ u.parked = senders[f].parked
  BY <1>3, <1>4, UnpinFields
<1>6. /\ OtherType' /\ BlockInv'
  BY <1>2, ReturnType, BlockKept DEF IInv, OtherType, queueVars
<1>7. \A s \in DOMAIN senders : senders[s].next >= senders[s].next
  BY NextTypes, SMTT(30) DEF IInv
<1>8. CASE Stays(u)
  <2>1. /\ DOMAIN senders' = DOMAIN senders /\ senders'[f] = u
        /\ \A t \in DOMAIN senders : t # f => senders'[t] = senders[t]
    <3>1. /\ DOMAIN release(senders, f) = DOMAIN senders
          /\ release(senders, f)[f] = unpinned(senders[f])
          /\ \A t \in DOMAIN senders : t # f => release(senders, f)[t] = senders[t]
      BY <1>3, <1>8, ReleaseKeeps
    <3> QED
      BY <1>2, <3>1
  <2> HIDE DEF u
  <2>2. Truthful(f, u) /\ Cardinality(DOMAIN u.parked) <= MaxParked
    BY <1>3, <1>5 DEF IInv, AllTruthful, Truthful, EntryType
  <2>3. EntryType' /\ AllTruthful'
    BY <1>2, <1>3, <1>5, <2>1, <2>2, OneEntry, SMTT(30) DEF IInv
  <2>4. u.refs > 0 \/ u.known
    BY <1>3, <1>5, <1>8 DEF Stays, IInv, AllTruthful, Truthful
  <2>5. PinnedStays' /\ SeedInv'
    <3>1. /\ DOMAIN senders' \subseteq DOMAIN senders /\ f \in DOMAIN senders'
          /\ \A t \in DOMAIN senders : t # f => t \in DOMAIN senders' /\ senders'[t] = senders[t]
          /\ senders'[f].refs = senders[f].refs - 1
          /\ senders'[f].refs > 0 \/ senders'[f].known
          /\ senders[f].known => senders'[f].known
      BY <1>3, <1>5, <2>1, <2>4
    <3> QED
      BY <1>1, <1>2, <1>3, <3>1, CallEnds, SMTT(30)
  <2>6. ParkedTxs(senders') = ParkedTxs(senders)
    BY <1>5, <2>1, SameParked
  <2>7. IndexMatches'
    BY <1>2, <2>6 DEF IInv, IndexMatches, ParkedTxs
  <2>8. Grows /\ ParkedStay
    BY <1>5, <1>7, <2>1 DEF Grows, ParkedStay
  <2> QED
    BY <1>6, <2>3, <2>5, <2>7, <2>8 DEF IInv
<1>9. CASE ~Stays(u)
  <2>1. /\ DOMAIN senders' = DOMAIN senders \ {f}
        /\ \A t \in DOMAIN senders : t # f => senders'[t] = senders[t]
    BY <1>2, <1>3, <1>9, ReleaseDrops, ZenonT(30)
  <2> HIDE DEF u
  <2>2. senders[f].refs = 1 /\ DOMAIN senders[f].parked = {}
    BY <1>4, <1>5, <1>9, SMTT(30) DEF Stays
  <2>3. EntryType'
    BY <2>1 DEF IInv, EntryType
  <2>4. AllTruthful'
    <3> SUFFICES ASSUME NEW s \in DOMAIN senders' PROVE Truthful(s, senders[s])'
      BY DEF AllTruthful
    <3>1. Truthful(s, senders'[s])
      BY <2>1 DEF IInv, AllTruthful
    <3> QED
      BY <1>2, <3>1 DEF Truthful, Settled, BlockSenders, ledgerVars
  <2>5. PinnedStays' /\ SeedInv'
    BY <1>1, <1>2, <1>3, <2>1, <2>2, CallEnds, SMTT(30)
  <2>6. ParkedTxs(senders') = ParkedTxs(senders)
    BY <2>1, <2>2, SameParked
  <2>7. IndexMatches'
    BY <1>2, <2>6 DEF IInv, IndexMatches, ParkedTxs
  <2>8. Grows /\ ParkedStay
    BY <1>7, <2>1, <2>2 DEF Grows, ParkedStay
  <2> QED
    BY <1>6, <2>3, <2>4, <2>5, <2>7, <2>8, SMTT(30) DEF IInv
<1> QED
  BY <1>8, <1>9

\* Admit takes the lock again: its seed is good, or the entry knows better.
LEMMA AdmitSeededKeeps ==
  ASSUME IInv, NEW c \in Clients, AdmitSeeded(c)
  PROVE  IInv' /\ Grows /\ ParkedStay
<1>1. PICK tx : tx = call[c]
  OBVIOUS
<1>2. PICK f : f = tx.from
  OBVIOUS
<1>3. /\ pc[c] = "relock" /\ pc[c] # "idle" /\ Return(c) /\ UNCHANGED <<refusing, ledgerVars>>
      /\ tx \in Txs /\ seed[c] \in 0..MaxNonce
  BY <1>1 DEF AdmitSeeded, IInv, OtherType
<1>4. f \in DOMAIN senders /\ f \in Senders /\ senders[f] \in EntryRec
  BY <1>1, <1>2, <1>3, SMTT(30) DEF IInv, PinnedStays, EntryType
<1>5. senders[f].refs > 0
  BY <1>1, <1>2, <1>3, <1>4, HoldersEnd, PinnedIs, SMTT(30) DEF IInv
<1> DEFINE e == raise(senders[f], seed[c])
           cache == [senders EXCEPT ![f] = e]
<1>6. /\ e \in EntryRec /\ e.known /\ e.parked = senders[f].parked
      /\ e.refs = senders[f].refs /\ senders[f].next \in Nat /\ seed[c] \in Nat
      /\ e.next = IF ~senders[f].known \/ seed[c] > senders[f].next
                    THEN seed[c] ELSE senders[f].next
  BY <1>3, <1>4, RaiseFields
<1>7. /\ DOMAIN cache = DOMAIN senders /\ cache[f] = e
      /\ \A t \in DOMAIN senders : t # f => cache[t] = senders[t]
  BY <1>4
<1>8. Settle(tx, cache)
  BY <1>1, <1>2 DEF AdmitSeeded
<1> HIDE DEF e, cache
<1>9. Truthful(f, e)
  <2>1. store[f] \in Nat
    BY <1>4, GateAssumption, SMTT(30) DEF IInv, OtherType, GateAssumption
  <2>2. /\ seed[c] <= store[f]
        /\ Settled(f) /\ ~senders[f].known => seed[c] = store[f]
    BY <1>1, <1>2, <1>3 DEF IInv, SeedInv
  <2>3. Truthful(f, senders[f])
    BY <1>4 DEF IInv, AllTruthful
  <2>4. CASE ~senders[f].known
    BY <1>6, <2>2, <2>3, <2>4 DEF Truthful
  <2>5. CASE senders[f].known
    BY <1>6, <2>1, <2>2, <2>3, <2>5, SMTT(30) DEF Truthful
  <2> QED
    BY <2>4, <2>5
<1>10. e.refs > 0
  BY <1>5, <1>6
<1>11. /\ EntryType' /\ AllTruthful' /\ IndexMatches' /\ queue' \subseteq Txs
       /\ DOMAIN senders' = DOMAIN senders
       /\ \A t \in DOMAIN senders : t # f => senders'[t] = senders[t]
       /\ senders'[f].known /\ senders'[f].refs = e.refs - 1
       /\ senders'[f].next = e.next
       /\ \A n \in DOMAIN senders[f].parked : n \in DOMAIN senders'[f].parked
  <2>1. /\ tx \in Txs /\ f \in DOMAIN senders /\ f = tx.from
        /\ e.parked = senders[f].parked /\ e.known /\ e \in EntryRec /\ e = cache[f]
    BY <1>2, <1>3, <1>4, <1>6, <1>7
  <2>2. UNCHANGED ledgerVars
    BY <1>3
  <2> QED
    BY <1>7, <1>8, <1>9, <1>10, <2>1, <2>2, AdmitEnds, SMTT(30)
<1>12. PinnedStays' /\ SeedInv'
  <2>1. /\ DOMAIN senders' \subseteq DOMAIN senders /\ f \in DOMAIN senders'
        /\ \A t \in DOMAIN senders : t # f => t \in DOMAIN senders' /\ senders'[t] = senders[t]
        /\ senders'[f].refs = senders[f].refs - 1
        /\ senders'[f].refs > 0 \/ senders'[f].known
        /\ senders[f].known => senders'[f].known
    BY <1>4, <1>6, <1>11
  <2>2. f = call[c].from /\ UNCHANGED ledgerVars
    BY <1>1, <1>2, <1>3
  <2> QED
    BY <1>3, <2>1, <2>2, CallEnds, SMTT(30)
<1>13. OtherType' /\ BlockInv'
  BY <1>3, <1>11, ReturnType, BlockKept DEF IInv
<1>14. Grows
  <2>1. senders'[f].next >= senders[f].next \/ ~senders[f].known
    BY <1>6, <1>11, SMTT(30)
  <2> QED
    BY <1>11, <2>1, NextTypes, SMTT(30) DEF IInv, Grows
<1>15. ParkedStay
  BY <1>11 DEF ParkedStay
<1> QED
  BY <1>11, <1>12, <1>13, <1>14, <1>15 DEF IInv


-----------------------------------------------------------------------------
(* Blocks *)

\* The transactions of a sender in a block: as many as were chosen, from its
\* nonce on.
LEMMA ChosenCount ==
  ASSUME NEW chosen \in [Senders -> VariantSeqs], NEW s \in Senders
  PROVE  /\ Cardinality(DOMAIN chosen[s]) \in Nat
         /\ DOMAIN chosen[s] = 1..Cardinality(DOMAIN chosen[s])
<1>1. chosen[s] \in VariantSeqs
  OBVIOUS
<1>2. PICK k \in 0..MaxPerBlock : chosen[s] \in [1..k -> Variants]
  BY <1>1 DEF VariantSeqs
<1>3. k \in Nat /\ DOMAIN chosen[s] = 1..k
  BY <1>2, GateAssumption, SMTT(30) DEF GateAssumption
<1>4. Cardinality(1..k) = k
  BY <1>3, FS_Interval, SMTT(30)
<1> QED
  BY <1>3, <1>4

\* The greatest of a set of numbers.
LEMMA MaxIs ==
  ASSUME NEW S, NEW m \in S, S \subseteq Int, \A x \in S : x <= m
  PROVE  Max(S) = m
<1>1. \E x \in S : \A y \in S : x >= y
  OBVIOUS
<1>2. Max(S) \in S /\ \A y \in S : Max(S) >= y
  BY <1>1 DEF Max
<1>3. PICK x : x = Max(S)
  OBVIOUS
<1>4. x \in Int /\ m \in Int /\ x >= m /\ x <= m
  BY <1>2, <1>3
<1>5. x = m
  BY <1>4, SMTT(30)
<1> QED
  BY <1>3, <1>5

\* A block is applied to the store.
LEMMA CommitBlockKeeps ==
  ASSUME IInv, NEW chosen \in [Senders -> VariantSeqs], CommitBlock(chosen)
  PROVE  IInv'
<1> DEFINE K(s) == Cardinality(DOMAIN chosen[s])
           T(s, i) == [from |-> s, nonce |-> store[s] + i - 1, variant |-> chosen[s][i]]
<1>1. /\ UNCHANGED <<gateVars, queueVars, clientVars>> /\ stage = "none"
      /\ store' = [s \in Senders |-> store[s] + K(s)]
      /\ stage' = "applied" /\ block' \subseteq Txs
      /\ block' = UNION {{T(s, i) : i \in DOMAIN chosen[s]} : s \in Senders}
  BY DEF CommitBlock
<1>2. \A s \in Senders : /\ K(s) \in Nat /\ DOMAIN chosen[s] = 1..K(s)
                         /\ store[s] \in Nat
  BY ChosenCount, GateAssumption, SMTT(30) DEF IInv, OtherType, GateAssumption
<1> HIDE DEF K
<1>3. \A tx : tx \in block' <=> \E s \in Senders : \E i \in 1..K(s) : tx = T(s, i)
  <2>1. \A tx : tx \in block' <=> \E s \in Senders : \E i \in DOMAIN chosen[s] : tx = T(s, i)
    BY <1>1, SMTT(30)
  <2> QED
    BY <1>2, <2>1
<1>4. \A s : s \in BlockSenders' <=> s \in Senders /\ K(s) > 0
  <2>1. ASSUME NEW s \in BlockSenders' PROVE s \in Senders /\ K(s) > 0
    <3>1. PICK tx \in block' : s = tx.from
      BY <2>1 DEF BlockSenders
    <3>2. PICK t \in Senders : \E i \in 1..K(t) : tx = T(t, i)
      BY <1>3, <3>1
    <3>3. PICK i \in 1..K(t) : tx = T(t, i)
      BY <3>2
    <3>4. t = s /\ K(t) \in Nat
      BY <1>2, <3>1, <3>3
    <3> QED
      BY <3>3, <3>4, SMTT(30)
  <2>2. ASSUME NEW s \in Senders, K(s) > 0 PROVE s \in BlockSenders'
    <3>1. 1 \in 1..K(s)
      BY <1>2, <2>2, SMTT(30)
    <3>2. T(s, 1) \in block' /\ T(s, 1).from = s
      BY <1>3, <3>1
    <3> QED
      BY <3>2 DEF BlockSenders
  <2> QED
    BY <2>1, <2>2
<1>5. ASSUME NEW s \in Senders, K(s) > 0
      PROVE  highest(s)' + 1 = store'[s] /\ store'[s] \in 0..MaxNonce
  <2> DEFINE S == {tx.nonce : tx \in {t \in block' : t.from = s}}
             m == store[s] + K(s) - 1
  <2>1. K(s) \in Nat /\ store[s] \in Nat /\ K(s) \in 1..K(s) /\ m \in Int
    BY <1>2, <1>5, SMTT(30)
  <2>2. T(s, K(s)) \in block' /\ T(s, K(s)).from = s /\ T(s, K(s)).nonce = m
    BY <1>3, <2>1
  <2>3. m \in S
    BY <2>2
  <2>4. \A x \in S : x \in Int /\ x <= m
    <3> SUFFICES ASSUME NEW tx \in block', tx.from = s PROVE tx.nonce \in Int /\ tx.nonce <= m
      OBVIOUS
    <3>1. PICK t \in Senders : \E i \in 1..K(t) : tx = T(t, i)
      BY <1>3
    <3>2. PICK i \in 1..K(t) : tx = T(t, i)
      BY <3>1
    <3>3. t = s /\ tx.nonce = store[s] + i - 1 /\ i \in 1..K(s)
      BY <3>2
    <3> QED
      BY <2>1, <3>3, SMTT(30)
  <2>5. m \in Nonces
    BY <1>1, <2>2 DEF Txs
  <2> HIDE DEF m, S
  <2>6. Max(S) = m
    BY <2>3, <2>4, MaxIs
  <2>7. highest(s)' = m
    BY <2>6 DEF highest, S
  <2>8. store'[s] = store[s] + K(s)
    BY <1>1
  <2> QED
    BY <2>1, <2>5, <2>7, <2>8, GateAssumption, SMTT(30) DEF m, Nonces, GateAssumption
<1>6. \A s \in Senders : /\ store'[s] \in Nat /\ store[s] <= store'[s]
                         /\ s \notin BlockSenders' => store'[s] = store[s]
  BY <1>1, <1>2, <1>4, SMTT(30)
<1>7. OtherType'
  <2>1. store' \in [Senders -> 0..MaxNonce]
    BY <1>1, <1>4, <1>5, <1>6 DEF IInv, OtherType
  <2> QED
    BY <1>1, <2>1 DEF IInv, OtherType, queueVars, clientVars
<1>8. BlockInv'
  BY <1>4, <1>5 DEF BlockInv
<1>9. EntryType' /\ IndexMatches'
  BY <1>1, SMTT(30) DEF IInv, EntryType, IndexMatches, ParkedTxs, gateVars
<1>10. PinnedStays'
  BY <1>1 DEF IInv, PinnedStays, gateVars, clientVars
<1>11. AllTruthful'
  <2> SUFFICES ASSUME NEW s \in DOMAIN senders PROVE Truthful(s, senders[s])'
    BY <1>1 DEF AllTruthful, gateVars
  <2>1. s \in Senders /\ Truthful(s, senders[s]) /\ Settled(s) /\ senders' = senders
    BY <1>1 DEF IInv, EntryType, AllTruthful, Settled, gateVars
  <2>2. senders[s].next \in Nat
    BY GateAssumption, SMTT(30) DEF IInv, EntryType, EntryRec, GateAssumption
  <2>3. s \in Senders /\ store[s] \in Nat /\ store'[s] \in Nat /\ store[s] <= store'[s]
        /\ (Settled(s)' => store'[s] = store[s])
    BY <1>1, <1>2, <1>6, <2>1 DEF Settled
  <2> QED
    BY <2>1, <2>2, <2>3 DEF Truthful
<1>12. SeedInv'
  <2> SUFFICES ASSUME NEW c \in Clients, pc[c] = "relock"
               PROVE  /\ seed[c] <= store'[call[c].from]
                      /\ Settled(call[c].from)' /\ ~senders[call[c].from].known
                           => seed[c] = store'[call[c].from]
    BY <1>1 DEF SeedInv, clientVars, gateVars
  <2>1. PICK f \in Senders : f = call[c].from
    BY TxParts DEF IInv, OtherType
  <2>2. /\ seed[c] <= store[f] /\ (~senders[f].known => seed[c] = store[f])
    BY <1>1, <2>1 DEF IInv, SeedInv, Settled
  <2>3. seed[c] \in Nat
    BY GateAssumption, SMTT(30) DEF IInv, OtherType, GateAssumption
  <2>4. Settled(call[c].from)' => f \notin BlockSenders'
    BY <1>1, <2>1 DEF Settled, clientVars
  <2>5. /\ store[f] \in Nat /\ store'[f] \in Nat /\ store[f] <= store'[f]
        /\ f \notin BlockSenders' => store'[f] = store[f]
    BY <1>2, <1>6
  <2>6. seed[c] <= store'[f]
    BY <2>2, <2>3, <2>5, SMTT(30)
  <2>7. Settled(call[c].from)' /\ ~senders[f].known => seed[c] = store'[f]
    BY <2>2, <2>4, <2>5
  <2> QED
    BY <2>1, <2>6, <2>7
<1> QED
  BY <1>7, <1>8, <1>9, <1>10, <1>11, <1>12, SMTT(30) DEF IInv

\* Parked transactions are transactions.
LEMMA ParkedAreTxs ==
  ASSUME EntryType
  PROVE  ParkedTxs(senders) \subseteq Txs
<1> SUFFICES ASSUME NEW s \in DOMAIN senders, NEW n \in DOMAIN senders[s].parked
             PROVE  [from |-> s, nonce |-> n, variant |-> senders[s].parked[n]] \in Txs
  BY ParkedMember, SMTT(30)
<1>1. s \in Senders /\ senders[s].parked \in Parking
  BY DEF EntryType, EntryRec
<1>2. n \in Nonces /\ senders[s].parked[n] \in Variants
  BY <1>1 DEF Parking
<1> QED
  BY <1>1, <1>2 DEF Txs

\* Taking parked transactions out of an entry.
LEMMA UnparkFields ==
  ASSUME NEW e \in EntryRec, NEW X, Cardinality(DOMAIN e.parked) <= MaxParked
  PROVE  LET u == [e EXCEPT !.parked = Without(@, X)] IN
         /\ u \in EntryRec /\ u.known = e.known /\ u.next = e.next /\ u.refs = e.refs
         /\ DOMAIN u.parked = DOMAIN e.parked \ X
         /\ \A n \in DOMAIN u.parked : u.parked[n] = e.parked[n]
         /\ Cardinality(DOMAIN u.parked) <= MaxParked
<1> DEFINE u == [e EXCEPT !.parked = Without(@, X)]
           q == Without(e.parked, X)
<1>1. e.parked \in Parking /\ MaxParked \in Nat
  BY GateAssumption DEF EntryRec, GateAssumption
<1>2. /\ q \in Parking /\ Cardinality(DOMAIN e.parked) \in Nat
      /\ Cardinality(DOMAIN q) <= Cardinality(DOMAIN e.parked)
  BY <1>1, ParkingRemoved
<1>3. Cardinality(DOMAIN q) \in Nat
  BY <1>2, ParkingRemoved
<1>4. Cardinality(DOMAIN q) <= MaxParked
  BY <1>1, <1>2, <1>3, SMTT(30)
<1>5. DOMAIN q = DOMAIN e.parked \ X /\ \A n \in DOMAIN q : q[n] = e.parked[n]
  BY DEF Without
<1> HIDE DEF q
<1>6. u = [e EXCEPT !.parked = q]
  BY DEF q
<1>7. /\ u \in EntryRec /\ u.known = e.known /\ u.next = e.next /\ u.refs = e.refs
      /\ u.parked = q
  BY <1>2, <1>6 DEF EntryRec
<1> HIDE DEF u
<1>8. /\ u \in EntryRec /\ u.known = e.known /\ u.next = e.next /\ u.refs = e.refs
      /\ DOMAIN u.parked = DOMAIN e.parked \ X
      /\ \A n \in DOMAIN u.parked : u.parked[n] = e.parked[n]
      /\ Cardinality(DOMAIN u.parked) <= MaxParked
  BY <1>4, <1>5, <1>7, SMTT(30)
<1> QED
  BY <1>8 DEF u

\* What Observe makes of an entry: it has the nonce of the store.
LEMMA ObservedFields ==
  ASSUME IInv, stage = "applied", NEW s \in BlockSenders
  PROVE  /\ s \in Senders /\ observed(s) \in EntryRec
         /\ observed(s).known /\ observed(s).next = store[s]
         /\ observed(s).refs = entryOf(senders, s).refs
         /\ DOMAIN observed(s).parked = DOMAIN entryOf(senders, s).parked \ (0..store[s])
         /\ \A n \in DOMAIN observed(s).parked :
              observed(s).parked[n] = entryOf(senders, s).parked[n]
         /\ Cardinality(DOMAIN observed(s).parked) <= MaxParked
<1> DEFINE old == entryOf(senders, s)
           ss == raise(old, store[s])
<1>1. s \in Senders /\ highest(s) + 1 = store[s]
  BY DEF IInv, BlockInv
<1>2. store[s] \in 0..MaxNonce /\ store[s] \in Nat
  BY <1>1, GateAssumption, SMTT(30) DEF IInv, OtherType, GateAssumption
<1>3. old \in EntryRec /\ Cardinality(DOMAIN old.parked) <= MaxParked
  BY <1>1, AcquireEffect DEF IInv
<1>4. old.known => old.next <= store[s]
  <2>1. CASE s \in DOMAIN senders
    BY <2>1 DEF IInv, AllTruthful, Truthful, entryOf
  <2>2. CASE s \notin DOMAIN senders
    BY <2>2, NewEntryType DEF entryOf
  <2> QED
    BY <2>1, <2>2
<1>5. observed(s) = [ss EXCEPT !.parked = Without(@, 0..ss.next)]
  BY <1>1 DEF observed
<1> HIDE DEF old
<1>6. /\ ss \in EntryRec /\ ss.known /\ ss.parked = old.parked /\ ss.refs = old.refs
      /\ ss.next = (IF ~old.known \/ store[s] > old.next THEN store[s] ELSE old.next)
      /\ old.next \in Nat
  BY <1>2, <1>3, RaiseFields
<1> HIDE DEF ss
<1>7. ss.next = store[s]
  BY <1>2, <1>4, <1>6, SMTT(30)
<1>8. Cardinality(DOMAIN ss.parked) <= MaxParked
  BY <1>3, <1>6
<1> DEFINE u == [ss EXCEPT !.parked = Without(@, 0..ss.next)]
<1>9. /\ u \in EntryRec /\ u.known = ss.known /\ u.next = ss.next /\ u.refs = ss.refs
      /\ DOMAIN u.parked = DOMAIN ss.parked \ (0..ss.next)
      /\ \A n \in DOMAIN u.parked : u.parked[n] = ss.parked[n]
      /\ Cardinality(DOMAIN u.parked) <= MaxParked
  BY <1>6, <1>8, UnparkFields
<1>10. observed(s) = u
  BY <1>5
<1> HIDE DEF u
<1> QED
  BY <1>1, <1>6, <1>7, <1>9, <1>10 DEF old

\* The cache after Observe.
LEMMA ObserveEffect ==
  ASSUME IInv, Observe
  PROVE  /\ stage = "applied" /\ stage' = "observed"
         /\ UNCHANGED <<refusing, store, block, clientVars>>
         /\ DOMAIN senders' = DOMAIN senders \union BlockSenders
         /\ \A s \in BlockSenders : senders'[s] = observed(s)
         /\ \A s \in DOMAIN senders : s \notin BlockSenders => senders'[s] = senders[s]
         /\ byHash' = byHash \ (ParkedTxs(senders) \ ParkedTxs(senders'))
         /\ Enqueue({tx \in ParkedTxs(senders) \ ParkedTxs(senders') :
                       tx.nonce = senders'[tx.from].next})
<1> DEFINE after == [s \in DOMAIN senders \union BlockSenders |->
                       IF s \in BlockSenders THEN observed(s) ELSE senders[s]]
<1>1. senders' = after /\ stage = "applied" /\ stage' = "observed"
  BY DEF Observe, BlockSenders
<1>2. /\ UNCHANGED <<refusing, store, block, clientVars>>
      /\ byHash' = byHash \ (ParkedTxs(senders) \ ParkedTxs(after))
      /\ Enqueue({tx \in ParkedTxs(senders) \ ParkedTxs(after) :
                    tx.nonce = after[tx.from].next})
  BY DEF Observe, BlockSenders
<1> QED
  BY <1>1, <1>2

\* A sender that only the block names has an entry without parked transactions.
LEMMA EntryOfNew ==
  ASSUME NEW s, s \notin DOMAIN senders
  PROVE  DOMAIN entryOf(senders, s).parked = {} /\ entryOf(senders, s).refs = 0
BY NewEntryType DEF entryOf

\* What is parked after Observe was parked before.
LEMMA ObserveParks ==
  ASSUME IInv, Observe
  PROVE  ParkedTxs(senders') \subseteq ParkedTxs(senders)
<1> SUFFICES ASSUME NEW s \in DOMAIN senders', NEW n \in DOMAIN senders'[s].parked
             PROVE  [from |-> s, nonce |-> n, variant |-> senders'[s].parked[n]]
                      \in ParkedTxs(senders)
  BY ParkedMember, SMTT(30)
<1>1. CASE s \in BlockSenders
  <2>1. /\ DOMAIN senders'[s].parked = DOMAIN entryOf(senders, s).parked \ (0..store[s])
        /\ senders'[s].parked[n] = entryOf(senders, s).parked[n]
    BY <1>1, ObserveEffect, ObservedFields, SMTT(30)
  <2>2. s \in DOMAIN senders
    BY <2>1, EntryOfNew
  <2>3. entryOf(senders, s) = senders[s]
    BY <2>2 DEF entryOf
  <2> QED
    BY <2>1, <2>2, <2>3, ParkedMember
<1>2. CASE s \notin BlockSenders
  BY <1>2, ObserveEffect, ParkedMember
<1> QED
  BY <1>1, <1>2

\* Observe settles the senders of the block.
LEMMA ObserveKeeps ==
  ASSUME IInv, Observe
  PROVE  IInv'
<1>1. /\ stage = "applied" /\ stage' = "observed"
      /\ UNCHANGED <<refusing, store, block, clientVars>>
      /\ DOMAIN senders' = DOMAIN senders \union BlockSenders
      /\ \A s \in BlockSenders : senders'[s] = observed(s)
      /\ \A s \in DOMAIN senders : s \notin BlockSenders => senders'[s] = senders[s]
      /\ byHash' = byHash \ (ParkedTxs(senders) \ ParkedTxs(senders'))
  BY ObserveEffect
<1>2. EntryType'
  BY <1>1, ObservedFields, SMTT(30) DEF IInv, EntryType
<1>3. OtherType'
  <2>1. queue' \subseteq Txs
    BY ParkedAreTxs, ObserveEffect DEF IInv, OtherType, Enqueue
  <2> QED
    BY <1>1, <2>1 DEF IInv, OtherType, clientVars
<1>4. PinnedStays'
  <2>1. /\ \A s : Holders(s)' = Holders(s)
        /\ pc' = pc /\ call' = call
    BY <1>1 DEF Holders, clientVars
  <2>2. \A c \in Clients : pc'[c] # "idle" => call'[c].from \in DOMAIN senders'
    BY <1>1, <2>1 DEF IInv, PinnedStays
  <2>3. ASSUME NEW s \in DOMAIN senders'
        PROVE  /\ senders'[s].refs = Cardinality(Holders(s)')
               /\ senders'[s].refs > 0 \/ senders'[s].known
    <3>1. CASE s \in BlockSenders /\ s \in DOMAIN senders
      BY <1>1, <2>1, <3>1, ObservedFields, PinnedIs, SMTT(30) DEF IInv, entryOf
    <3>2. CASE s \notin DOMAIN senders
      BY <1>1, <2>1, <2>3, <3>2, ObservedFields, EntryOfNew, NobodyHolds, SMTT(30) DEF IInv
    <3>3. CASE s \notin BlockSenders
      BY <1>1, <2>1, <2>3, <3>3, PinnedIs DEF IInv
    <3> QED
      BY <3>1, <3>2, <3>3, SMTT(30)
  <2> QED
    BY <2>2, <2>3 DEF PinnedStays, Holders
<1>5. AllTruthful'
  <2> SUFFICES ASSUME NEW s \in DOMAIN senders' PROVE Truthful(s, senders[s])'
    BY DEF AllTruthful
  <2>1. CASE s \in BlockSenders
    <3>1. /\ senders'[s].known /\ senders'[s].next = store[s] /\ s \in Senders
          /\ DOMAIN senders'[s].parked = DOMAIN entryOf(senders, s).parked \ (0..store[s])
          /\ senders'[s].parked \in Parking
      BY <1>1, <2>1, ObservedFields, SMTT(30) DEF EntryRec
    <3>2. store[s] \in Nat
      BY <3>1, GateAssumption, SMTT(30) DEF IInv, OtherType, GateAssumption
    <3>3. \A n \in DOMAIN senders'[s].parked : n \in Nat /\ n > store[s]
      <4>1. \A n \in DOMAIN senders'[s].parked : n \in Nonces
        BY <3>1, ParkingRemoved
      <4>2. \A n \in DOMAIN senders'[s].parked : n \in Nat /\ n \notin 0..store[s]
        BY <3>1, <4>1, GateAssumption, SMTT(30) DEF Nonces, GateAssumption
      <4> QED
        BY <3>2, <4>2, SMTT(30)
    <3> QED
      BY <1>1, <3>1, <3>2, <3>3, SMTT(30) DEF Truthful
  <2>2. CASE s \notin BlockSenders
    BY <1>1, <2>2 DEF IInv, AllTruthful, Truthful, Settled
  <2> QED
    BY <2>1, <2>2
<1>6. SeedInv'
  <2> SUFFICES ASSUME NEW c \in Clients, pc[c] = "relock"
               PROVE  /\ seed[c] <= store[call[c].from]
                      /\ ~senders'[call[c].from].known => seed[c] = store[call[c].from]
    BY <1>1 DEF SeedInv, clientVars
  <2>1. call[c].from \in DOMAIN senders
    BY DEF IInv, PinnedStays
  <2>2. CASE call[c].from \in BlockSenders
    <3>1. senders'[call[c].from].known
      BY <1>1, <2>2, ObservedFields
    <3> QED
      BY <3>1 DEF IInv, SeedInv
  <2>3. CASE call[c].from \notin BlockSenders
    BY <1>1, <2>1, <2>3 DEF IInv, SeedInv, Settled
  <2> QED
    BY <2>2, <2>3
<1>7. IndexMatches'
  <2>1. byHash' = ParkedTxs(senders')
    BY <1>1, ObserveParks DEF IInv, IndexMatches
  <2> QED
    BY <2>1 DEF IndexMatches, ParkedTxs
<1>8. BlockInv'
  BY <1>1 DEF BlockInv
<1> QED
  BY <1>2, <1>3, <1>4, <1>5, <1>6, <1>7, <1>8 DEF IInv

\* The queue's steps leave the gate alone.
LEMMA QueueKeeps ==
  ASSUME IInv, QueueHandle \/ QueueRefusal \/ UNCHANGED vars \/ \E tx \in queue : QueueDrops(tx)
  PROVE  IInv'
<1>1. UNCHANGED <<gateVars, clientVars, store>> /\ queue' \subseteq queue /\ refusing' \in BOOLEAN
  BY DEF QueueHandle, QueueRefusal, QueueDrops, vars, ledgerVars, queueVars, IInv, OtherType
<1>2. \/ block' = block /\ stage' = stage
      \/ stage = "observed" /\ block' = {} /\ stage' = "none"
  BY DEF QueueHandle, QueueRefusal, QueueDrops, vars, ledgerVars
<1>3. OtherType'
  BY <1>1, <1>2 DEF IInv, OtherType, clientVars
<1>4. EntryType' /\ IndexMatches' /\ PinnedStays'
  BY <1>1, SMTT(30) DEF IInv, EntryType, IndexMatches, ParkedTxs, PinnedStays, gateVars, clientVars
<1>5. \A s : Settled(s)' <=> Settled(s)
  BY <1>2 DEF Settled, BlockSenders
<1>6. AllTruthful'
  BY <1>1, <1>5 DEF IInv, AllTruthful, Truthful, gateVars
<1>7. SeedInv'
  <2> SUFFICES ASSUME NEW c \in Clients, pc[c] = "relock"
               PROVE  /\ seed[c] <= store[call[c].from]
                      /\ Settled(call[c].from)' /\ ~senders[call[c].from].known
                           => seed[c] = store[call[c].from]
    BY <1>1 DEF SeedInv, clientVars, gateVars
  <2>1. Settled(call[c].from)' <=> Settled(call[c].from)
    BY <1>1, <1>2 DEF Settled, BlockSenders, clientVars
  <2> QED
    BY <2>1 DEF IInv, SeedInv
<1>8. BlockInv'
  BY <1>1, <1>2 DEF IInv, BlockInv, BlockSenders, highest
<1> QED
  BY <1>3, <1>4, <1>6, <1>7, <1>8 DEF IInv

-----------------------------------------------------------------------------
(* The reaper *)

\* The reaper takes out what expired and evicts entries that hold nothing.
LEMMA PruneKeeps ==
  ASSUME IInv, NEW expired \in SUBSET ParkedTxs(senders),
         NEW evicted \in SUBSET DOMAIN senders, prune(expired, evicted)
  PROVE  IInv' /\ Grows
<1> DEFINE X(s) == {tx.nonce : tx \in {t \in expired : t.from = s}}
           u(s) == [senders[s] EXCEPT !.parked = Without(@, X(s))]
           unparked == [s \in DOMAIN senders |-> u(s)]
<1>1. /\ senders' = Without(unparked, evicted) /\ byHash' = byHash \ expired
      /\ UNCHANGED <<queueVars, ledgerVars, clientVars>>
      /\ evicted \subseteq {s \in DOMAIN senders :
           unparked[s].refs = 0 /\ DOMAIN unparked[s].parked = {}}
  BY DEF prune
<1>2. \A s \in DOMAIN senders : /\ unparked[s] = u(s)
                                /\ s \in evicted => u(s).refs = 0 /\ DOMAIN u(s).parked = {}
  BY <1>1, ZenonT(30)
<1>3. DOMAIN senders' = DOMAIN senders \ evicted /\ \A s \in DOMAIN senders' : senders'[s] = u(s)
  BY <1>1 DEF Without
<1>4. \A s \in DOMAIN senders :
        /\ u(s) \in EntryRec /\ u(s).known = senders[s].known
        /\ u(s).next = senders[s].next /\ u(s).refs = senders[s].refs
        /\ DOMAIN u(s).parked = DOMAIN senders[s].parked \ X(s)
        /\ \A n \in DOMAIN u(s).parked : u(s).parked[n] = senders[s].parked[n]
        /\ Cardinality(DOMAIN u(s).parked) <= MaxParked
  <2> SUFFICES ASSUME NEW s \in DOMAIN senders
               PROVE  /\ u(s) \in EntryRec /\ u(s).known = senders[s].known
                      /\ u(s).next = senders[s].next /\ u(s).refs = senders[s].refs
                      /\ DOMAIN u(s).parked = DOMAIN senders[s].parked \ X(s)
                      /\ \A n \in DOMAIN u(s).parked : u(s).parked[n] = senders[s].parked[n]
                      /\ Cardinality(DOMAIN u(s).parked) <= MaxParked
    BY Zenon
  <2>1. senders[s] \in EntryRec /\ Cardinality(DOMAIN senders[s].parked) <= MaxParked
    BY DEF IInv, EntryType
  <2> HIDE DEF X
  <2> QED
    BY <2>1, UnparkFields, ZenonT(30)
<1> HIDE DEF u, unparked
<1>5. EntryType'
  BY <1>3, <1>4 DEF IInv, EntryType
<1>6. OtherType' /\ BlockInv'
  BY <1>1, BlockKept DEF IInv, OtherType, queueVars, ledgerVars, clientVars
<1>7. AllTruthful'
  <2> SUFFICES ASSUME NEW s \in DOMAIN senders' PROVE Truthful(s, senders[s])'
    BY DEF AllTruthful
  <2>1. Truthful(s, senders[s]) /\ s \in DOMAIN senders
    BY <1>3 DEF IInv, AllTruthful
  <2>2. /\ senders'[s].known = senders[s].known /\ senders'[s].next = senders[s].next
        /\ DOMAIN senders'[s].parked \subseteq DOMAIN senders[s].parked
    BY <1>3, <1>4, <2>1
  <2>3. Truthful(s, senders'[s])
    BY <2>1, <2>2 DEF Truthful
  <2> QED
    BY <1>1, <2>3 DEF Truthful, Settled, BlockSenders, ledgerVars
<1>8. PinnedStays'
  <2>1. (\A s : Holders(s)' = Holders(s)) /\ pc' = pc /\ call' = call
    BY <1>1 DEF Holders, clientVars
  <2>2. ASSUME NEW c \in Clients, pc[c] # "idle" PROVE call[c].from \in DOMAIN senders'
    <3>1. call[c].from \in DOMAIN senders
      BY <2>2 DEF IInv, PinnedStays
    <3>2. PICK f \in DOMAIN senders : f = call[c].from
      BY <3>1
    <3>3. c \in Holders(f) /\ Holders(f) \in SUBSET Clients
      BY <2>2, <3>2 DEF Holders
    <3>4. senders[f].refs # 0
      BY <3>2, <3>3, HoldersFinite, PinnedIs DEF IInv
    <3>5. f \notin evicted
      BY <1>2, <1>4, <3>4, SMTT(30)
    <3> QED
      BY <1>3, <3>2, <3>5
  <2>3. \A s \in DOMAIN senders' :
          /\ senders'[s].refs = Cardinality(Holders(s)')
          /\ senders'[s].refs > 0 \/ senders'[s].known
    <3> SUFFICES ASSUME NEW s \in DOMAIN senders'
                 PROVE  /\ senders'[s].refs = Cardinality(Holders(s)')
                        /\ senders'[s].refs > 0 \/ senders'[s].known
      OBVIOUS
    <3>1. /\ s \in DOMAIN senders /\ senders'[s].refs = senders[s].refs
          /\ senders'[s].known = senders[s].known
      BY <1>3, <1>4
    <3>2. /\ senders[s].refs = Cardinality(Holders(s))
          /\ senders[s].refs > 0 \/ senders[s].known
      BY <3>1, PinnedIs DEF IInv
    <3> QED
      BY <2>1, <3>1, <3>2
  <2> QED
    BY <2>1, <2>2, <2>3 DEF PinnedStays, Holders
<1>9. SeedInv'
  <2> SUFFICES ASSUME NEW c \in Clients, pc[c] = "relock"
               PROVE  /\ seed[c] <= store[call[c].from]
                      /\ Settled(call[c].from)' /\ ~senders'[call[c].from].known
                           => seed[c] = store[call[c].from]
    BY <1>1 DEF SeedInv, clientVars, ledgerVars
  <2>1. call[c].from \in DOMAIN senders'
    BY <1>1, <1>8 DEF PinnedStays, clientVars
  <2>2. senders'[call[c].from].known = senders[call[c].from].known
    BY <1>3, <1>4, <2>1
  <2>3. Settled(call[c].from)' <=> Settled(call[c].from)
    BY <1>1 DEF Settled, BlockSenders, clientVars, ledgerVars
  <2> QED
    BY <2>2, <2>3 DEF IInv, SeedInv
<1>10. IndexMatches'
  <2>1. ASSUME NEW s \in DOMAIN senders, NEW n \in DOMAIN senders[s].parked
        PROVE  n \in X(s) <=> [from |-> s, nonce |-> n, variant |-> senders[s].parked[n]] \in expired
    <3> DEFINE tx == [from |-> s, nonce |-> n, variant |-> senders[s].parked[n]]
    <3>1. ASSUME tx \in expired PROVE n \in X(s)
      <4>1. tx.from = s /\ tx.nonce = n
        OBVIOUS
      <4> HIDE DEF tx
      <4> QED
        BY <3>1, <4>1
    <3>2. ASSUME n \in X(s) PROVE tx \in expired
      <4>1. PICK t \in expired : t.from = s /\ t.nonce = n
        BY <3>2
      <4>2. t \in ParkedTxs(senders)
        OBVIOUS
      <4>3. PICK s2 \in DOMAIN senders : \E n2 \in DOMAIN senders[s2].parked :
              t = [from |-> s2, nonce |-> n2, variant |-> senders[s2].parked[n2]]
        BY <4>2, ParkedMember, SMTT(30)
      <4>4. PICK n2 \in DOMAIN senders[s2].parked :
              t = [from |-> s2, nonce |-> n2, variant |-> senders[s2].parked[n2]]
        BY <4>3
      <4>5. s2 = s /\ n2 = n
        BY <4>1, <4>4
      <4>6. t = tx
        BY <4>4, <4>5
      <4> QED
        BY <4>6
    <3> QED
      BY <3>1, <3>2
  <2> HIDE DEF X
  <2>2. \A tx \in ParkedTxs(senders') : tx \in byHash'
    <3> SUFFICES ASSUME NEW s \in DOMAIN senders', NEW n \in DOMAIN senders'[s].parked
                 PROVE  [from |-> s, nonce |-> n, variant |-> senders'[s].parked[n]] \in byHash'
      BY ParkedMember, SMTT(30)
    <3>1. /\ s \in DOMAIN senders /\ n \in DOMAIN senders[s].parked /\ n \notin X(s)
          /\ senders'[s].parked[n] = senders[s].parked[n]
      BY <1>3, <1>4, SMTT(30)
    <3>2. [from |-> s, nonce |-> n, variant |-> senders[s].parked[n]] \in byHash
      BY <3>1, ParkedMember DEF IInv, IndexMatches
    <3> QED
      BY <1>1, <2>1, <3>1, <3>2
  <2>3. \A tx \in byHash' : tx \in ParkedTxs(senders')
    <3> SUFFICES ASSUME NEW tx \in byHash, tx \notin expired PROVE tx \in ParkedTxs(senders')
      BY <1>1
    <3>1. tx \in ParkedTxs(senders)
      BY DEF IInv, IndexMatches
    <3>2. PICK s \in DOMAIN senders : \E n \in DOMAIN senders[s].parked :
            tx = [from |-> s, nonce |-> n, variant |-> senders[s].parked[n]]
      BY <3>1, ParkedMember, SMTT(30)
    <3>3. PICK n \in DOMAIN senders[s].parked :
            tx = [from |-> s, nonce |-> n, variant |-> senders[s].parked[n]]
      BY <3>2
    <3>4. n \notin X(s)
      BY <2>1, <3>3
    <3>5. n \in DOMAIN u(s).parked /\ u(s).parked[n] = senders[s].parked[n]
      BY <1>4, <3>4
    <3>6. s \in DOMAIN senders' /\ senders'[s] = u(s)
      BY <1>2, <1>3, <3>5
    <3> QED
      BY <3>3, <3>5, <3>6, ParkedMember
  <2>4. byHash' = ParkedTxs(senders')
    BY <2>2, <2>3
  <2> QED
    BY <2>4 DEF IndexMatches, ParkedTxs
<1>11. Grows
  BY <1>3, <1>4, NextTypes, SMTT(30) DEF IInv, Grows
<1> QED
  BY <1>5, <1>6, <1>7, <1>8, <1>9, <1>10, <1>11, SMTT(30) DEF IInv

-----------------------------------------------------------------------------
(* The theorems *)

\* newNonceGate establishes the invariant.
LEMMA GateInit == Init => IInv
<1> SUFFICES ASSUME Init PROVE IInv
  OBVIOUS
<1>1. DOMAIN senders = {} /\ stage = "none" /\ \A c \in Clients : pc[c] = "idle"
  BY SMTT(30) DEF Init
<1>2. EntryType /\ AllTruthful /\ PinnedStays /\ SeedInv /\ BlockInv
  BY <1>1 DEF EntryType, AllTruthful, PinnedStays, SeedInv, BlockInv
<1>3. IndexMatches
  <2>1. ParkedTxs(senders) = {}
    BY <1>1 DEF ParkedTxs
  <2> QED
    BY <2>1 DEF Init, IndexMatches
<1>4. OtherType
  <2>1. 0 \in 0..MaxNonce
    BY GateAssumption, SMTT(30) DEF GateAssumption
  <2>2. AnyTx \in Txs
    <3>1. PICK s \in Senders, v \in Variants : TRUE
      BY GateAssumption DEF GateAssumption
    <3>2. 0 \in Nonces
      BY SomeNonce, GateAssumption, SMTT(30) DEF SomeNonce, Nonces, GateAssumption
    <3>3. [from |-> s, nonce |-> 0, variant |-> v] \in Txs
      BY <3>2 DEF Txs
    <3> QED
      BY <3>3 DEF AnyTx
  <2> QED
    BY <2>1, <2>2 DEF Init, OtherType
<1> QED
  BY <1>2, <1>3, <1>4 DEF IInv

\* Every step keeps the invariant.
LEMMA GateStep == IInv /\ [Next]_vars => IInv'
<1> SUFFICES ASSUME IInv, [Next]_vars PROVE IInv'
  OBVIOUS
<1>1. CASE \E c \in Clients, tx \in Txs : AdmitCached(c, tx) \/ AdmitReserve(c, tx)
  BY <1>1, AdmitCachedKeeps, AdmitReserveKeeps
<1>2. CASE \E c \in Clients : NonceAt(c) \/ NonceAtFails(c) \/ AdmitSeeded(c)
  BY <1>2, NonceAtKeeps, NonceAtFailsKeeps, AdmitSeededKeeps
<1>3. CASE \E chosen \in [Senders -> VariantSeqs] : CommitBlock(chosen)
  BY <1>3, CommitBlockKeeps
<1>4. CASE Prune
  BY <1>4, PruneKeeps DEF Prune
<1> QED
  BY <1>1, <1>2, <1>3, <1>4, ObserveKeeps, QueueKeeps DEF Next

\* The inductive invariant holds throughout.
THEOREM GateInvariance == Spec => []IInv
BY GateInit, GateStep, PTL DEF Spec

\* The types, and that no sender parks more than its limit.
THEOREM GateTypes == Spec => []TypeOK
<1>1. IInv => TypeOK
  <2> SUFFICES ASSUME IInv PROVE TypeOK
    OBVIOUS
  <2>1. byHash \subseteq Txs
    BY ParkedAreTxs DEF IInv, IndexMatches
  <2>2. ASSUME NEW s \in DOMAIN senders PROVE Entry(senders[s])
    <3>1. /\ senders[s] \in EntryRec /\ senders[s].parked \in Parking
          /\ Cardinality(DOMAIN senders[s].parked) <= MaxParked
      BY DEF IInv, EntryType, EntryRec
    <3>2. /\ DOMAIN senders[s].parked \subseteq Nonces
          /\ \A n \in DOMAIN senders[s].parked : senders[s].parked[n] \in Variants
      BY <3>1 DEF Parking
    <3>3. /\ DOMAIN senders[s] = {"known", "next", "parked", "refs"}
          /\ senders[s].known \in BOOLEAN /\ senders[s].next \in 0..MaxNonce
          /\ senders[s].refs \in Nat
      BY <3>1 DEF EntryRec
    <3> QED
      BY <3>1, <3>2, <3>3 DEF Entry
  <2> QED
    BY <2>1, <2>2 DEF TypeOK, IInv, EntryType, OtherType
<1> QED
  BY <1>1, GateInvariance, PTL

\* The nonce a sender's transactions are admitted by is never beyond the
\* committed one, and equals it whenever the applied blocks were observed: a
\* stale seed, a concurrent Admit, an Observe or an eviction never leaves a
\* wrong one behind.
THEOREM NonceIsTrue == Spec => []CacheCoherent
<1>1. IInv => CacheCoherent
  BY DEF IInv, AllTruthful, Truthful, Settled, CacheCoherent
<1> QED
  BY <1>1, GateInvariance, PTL

\* No parked transaction is stranded at or below the next nonce.
THEOREM NothingStranded == Spec => []ParkedInFuture
<1>1. IInv => ParkedInFuture
  <2> SUFFICES ASSUME IInv, stage # "applied", NEW tx \in ParkedTxs(senders)
               PROVE  tx.nonce > store[tx.from]
    BY DEF ParkedInFuture
  <2>1. PICK s \in DOMAIN senders : \E n \in DOMAIN senders[s].parked :
          tx = [from |-> s, nonce |-> n, variant |-> senders[s].parked[n]]
    BY ParkedMember, SMTT(30)
  <2>2. PICK n \in DOMAIN senders[s].parked :
          tx = [from |-> s, nonce |-> n, variant |-> senders[s].parked[n]]
    BY <2>1
  <2>3. n > store[s]
    BY DEF IInv, AllTruthful, Truthful, Settled
  <2> QED
    BY <2>2, <2>3
<1> QED
  BY <1>1, GateInvariance, PTL

\* The index by hash is exactly what is parked.
THEOREM IndexExact == Spec => []IndexMatches
<1>1. IInv => IndexMatches
  BY DEF IInv
<1> QED
  BY <1>1, GateInvariance, PTL

\* No Admit off the lock loses its entry to a release or to the reaper, and the
\* reference counts count the calls.
THEOREM PinsCounted == Spec => []PinnedStays
<1>1. IInv => PinnedStays
  BY DEF IInv
<1> QED
  BY <1>1, GateInvariance, PTL

-----------------------------------------------------------------------------
(* The action properties *)

\* Observe raises the nonces of the block's senders and leaves the others.
LEMMA ObserveGrows == ASSUME IInv, Observe PROVE Grows
<1> SUFFICES ASSUME NEW s \in DOMAIN senders, senders[s].known
             PROVE  senders'[s].known /\ senders'[s].next >= senders[s].next
  BY DEF Grows
<1>1. CASE s \in BlockSenders
  <2>1. senders'[s].known /\ senders'[s].next = store[s] /\ s \in Senders
    BY <1>1, ObserveEffect, ObservedFields
  <2>2. senders[s].next <= store[s]
    BY DEF IInv, AllTruthful, Truthful
  <2>3. senders[s].next \in Int /\ store[s] \in Int
    BY <2>1, NextTypes, GateAssumption, SMTT(30) DEF IInv, OtherType, GateAssumption
  <2> QED
    BY <2>1, <2>2, <2>3
<1>2. CASE s \notin BlockSenders
  BY <1>2, ObserveEffect, NextTypes, SMTT(30) DEF IInv
<1> QED
  BY <1>1, <1>2

\* A transaction Observe takes out goes to the queue, or its nonce is spent.
LEMMA ObserveReason ==
  ASSUME IInv, Observe, NEW tx \in ParkedTxs(senders) \ ParkedTxs(senders')
  PROVE  tx \in queue' \/ refusing \/ tx.nonce < store[tx.from]
<1>1. PICK s \in DOMAIN senders : \E n \in DOMAIN senders[s].parked :
        tx = [from |-> s, nonce |-> n, variant |-> senders[s].parked[n]]
  BY ParkedMember, SMTT(30)
<1>2. PICK n \in DOMAIN senders[s].parked :
        tx = [from |-> s, nonce |-> n, variant |-> senders[s].parked[n]]
  BY <1>1
<1>3. tx.from = s /\ tx.nonce = n
  BY <1>2
<1>4. DOMAIN senders' = DOMAIN senders \union BlockSenders
  BY ObserveEffect
<1>5. s \in BlockSenders
  <2> SUFFICES ASSUME s \notin BlockSenders PROVE FALSE
    OBVIOUS
  <2>1. s \in DOMAIN senders' /\ senders'[s] = senders[s]
    BY <1>4, ObserveEffect
  <2> QED
    BY <1>2, <2>1, ParkedMember
<1>6. /\ senders'[s] = observed(s) /\ observed(s).next = store[s] /\ s \in Senders
      /\ DOMAIN observed(s).parked = DOMAIN senders[s].parked \ (0..store[s])
      /\ \A m \in DOMAIN observed(s).parked : observed(s).parked[m] = senders[s].parked[m]
  BY <1>5, ObserveEffect, ObservedFields DEF entryOf
<1>7. n \in 0..store[s]
  <2> SUFFICES ASSUME n \notin 0..store[s] PROVE FALSE
    OBVIOUS
  <2>1. n \in DOMAIN senders'[s].parked /\ senders'[s].parked[n] = senders[s].parked[n]
    BY <1>6
  <2>2. s \in DOMAIN senders'
    BY <1>4
  <2>3. tx = [from |-> s, nonce |-> n, variant |-> senders'[s].parked[n]]
    BY <1>2, <2>1
  <2> QED
    BY <2>1, <2>2, <2>3, ParkedMember
<1>8. store[s] \in Nat
  BY <1>6, GateAssumption, SMTT(30) DEF IInv, OtherType, GateAssumption
<1>9. CASE n < store[s]
  BY <1>3, <1>9
<1>10. CASE n = store[s]
  <2>1. tx.nonce = senders'[tx.from].next
    BY <1>3, <1>6, <1>10
  <2>2. Enqueue({t \in ParkedTxs(senders) \ ParkedTxs(senders') :
                   t.nonce = senders'[t.from].next})
    BY ObserveEffect
  <2> QED
    BY <2>1, <2>2 DEF Enqueue
<1> QED
  BY <1>7, <1>8, <1>9, <1>10, SMTT(30)

\* What stays at its nonce was at most replaced.
LEMMA StayedOrReplaced ==
  ASSUME ParkedStay, NEW tx \in ParkedTxs(senders)
  PROVE  \E other \in ParkedTxs(senders') : other.from = tx.from /\ other.nonce = tx.nonce
<1>1. PICK s \in DOMAIN senders : \E n \in DOMAIN senders[s].parked :
        tx = [from |-> s, nonce |-> n, variant |-> senders[s].parked[n]]
  BY ParkedMember, SMTT(30)
<1>2. PICK n \in DOMAIN senders[s].parked :
        tx = [from |-> s, nonce |-> n, variant |-> senders[s].parked[n]]
  BY <1>1
<1>3. s \in DOMAIN senders' /\ n \in DOMAIN senders'[s].parked
  BY DEF ParkedStay
<1> DEFINE other == [from |-> s, nonce |-> n, variant |-> senders'[s].parked[n]]
<1>4. other \in ParkedTxs(senders')
  BY <1>3, ParkedMember
<1>5. other.from = tx.from /\ other.nonce = tx.nonce
  BY <1>2
<1> QED
  BY <1>4, <1>5

\* A step that leaves the cache alone.
LEMMA CacheSame == ASSUME IInv, senders' = senders PROVE Grows /\ ParkedStay
<1>1. \A s \in DOMAIN senders : senders[s].next >= senders[s].next
  BY NextTypes, SMTT(30) DEF IInv
<1> QED
  BY <1>1 DEF Grows, ParkedStay

\* Every step by what it does to the cache.
LEMMA StepEffect ==
  ASSUME IInv, [Next]_vars
  PROVE  Grows /\ (ParkedStay \/ Observe \/ Prune)
<1>1. CASE \E c \in Clients, tx \in Txs : AdmitCached(c, tx) \/ AdmitReserve(c, tx)
  BY <1>1, AdmitCachedKeeps, AdmitReserveKeeps, SMTT(30)
<1>2. CASE \E c \in Clients : NonceAtFails(c) \/ AdmitSeeded(c)
  BY <1>2, NonceAtFailsKeeps, AdmitSeededKeeps
<1>3. CASE Prune
  BY <1>3, PruneKeeps DEF Prune
<1>4. CASE Observe
  BY <1>4, ObserveGrows
<1>5. CASE \/ \E c \in Clients : NonceAt(c)
           \/ \E chosen \in [Senders -> VariantSeqs] : CommitBlock(chosen)
           \/ QueueHandle \/ (\E tx \in queue : QueueDrops(tx)) \/ QueueRefusal
           \/ UNCHANGED vars
  <2>1. senders' = senders
    BY <1>5 DEF NonceAt, CommitBlock, QueueHandle, QueueDrops, QueueRefusal, vars, gateVars
  <2> QED
    BY <2>1, CacheSame
<1> QED
  BY <1>1, <1>2, <1>3, <1>4, <1>5 DEF Next

\* The nonce expected of a cached sender never falls, whatever seed a slow Admit
\* brings back.
THEOREM NonceNeverFalls == Spec => NextNeverFalls
<1>1. ASSUME IInv, [Next]_vars
      PROVE  [\A s \in DOMAIN senders \cap DOMAIN senders' :
                senders[s].known => senders'[s].known /\ senders'[s].next >= senders[s].next]_vars
  BY <1>1, StepEffect DEF Grows
<1> QED
  BY <1>1, GateInvariance, PTL DEF Spec, NextNeverFalls

\* No step of the gate loses a parked transaction.
THEOREM ParkedNotLost == Spec => ParkedLeaveForAReason
<1>1. ASSUME IInv, [Next]_vars
      PROVE  [\A tx \in ParkedTxs(senders) \ ParkedTxs(senders') :
                \/ tx \in queue' \/ refusing
                \/ tx.nonce < store[tx.from]
                \/ \E other \in ParkedTxs(senders') :
                     other.from = tx.from /\ other.nonce = tx.nonce
                \/ Prune]_vars
  <2>1. ParkedStay \/ Observe \/ Prune
    BY <1>1, StepEffect
  <2>2. CASE ParkedStay
    BY <2>2, StayedOrReplaced
  <2>3. CASE Observe
    BY <1>1, <2>3, ObserveReason
  <2>4. CASE Prune
    BY <2>4
  <2> QED
    BY <2>1, <2>2, <2>3, <2>4
<1> QED
  BY <1>1, GateInvariance, PTL DEF Spec, ParkedLeaveForAReason

-----------------------------------------------------------------------------
(* Lookups *)

allLookupVars == <<vars, scope, db, lookupVars>>

\* By construction a behaviour with a lookup is one of the gate: LookupSpec only adds
\* to its steps, and bounds them.  The theorems above, about Spec, hold of it too.
LEMMA LookupsOnlyRead == LookupSpec => Spec
<1>1. LookupInit => Init
  BY DEF LookupInit
<1>2. [LookupNext]_allLookupVars => [Next]_vars
  BY SMTT(30) DEF LookupNext, GatewayStep, ChainHandle, LookupBegins, LookupAsks, LookupReturns, allLookupVars
<1> QED
  BY <1>1, <1>2, PTL DEF LookupSpec, Spec, allLookupVars

\* A block that the gate observed is in the database, and a transaction that was
\* queued or stored when its lookup began is in the queue or in the database: in
\* the database from the moment the lookup has asked the queue in vain.
LookupInv ==
  /\ ~Looking => lookup = "idle" /\ ~queued
  /\ Looking /\ stage = "observed" => block \subseteq db
  /\ queued => wanted \in queue \union db
  /\ lookup \in {"gate", "store"} /\ queued => wanted \in db
  /\ lookup = "nil" => ~queued

\* A step that ends with an observed block did not change the block.
LEMMA ObservedKeepsBlock ==
  ASSUME Next, stage' = "observed"
  PROVE  block' = block
<1>1. ASSUME NEW c \in Clients, NEW tx \in Txs, AdmitCached(c, tx) \/ AdmitReserve(c, tx)
      PROVE  block' = block
  BY <1>1 DEF AdmitCached, AdmitReserve, ledgerVars
<1>2. ASSUME NEW c \in Clients, NonceAt(c) \/ NonceAtFails(c) \/ AdmitSeeded(c)
      PROVE  block' = block
  BY <1>2 DEF NonceAt, NonceAtFails, AdmitSeeded, ledgerVars
<1>3. \A chosen \in [Senders -> VariantSeqs] : ~CommitBlock(chosen)
  BY DEF CommitBlock
<1>4. CASE Observe
  BY <1>4 DEF Observe
<1>5. ~QueueHandle
  BY DEF QueueHandle
<1>6. CASE QueueRefusal \/ Prune \/ \E tx \in queue : QueueDrops(tx)
  BY <1>6 DEF QueueRefusal, Prune, prune, QueueDrops, ledgerVars
<1> QED
  BY <1>1, <1>2, <1>3, <1>4, <1>5, <1>6 DEF Next

\* The gate, the queue and the ledger keep LookupInv: what leaves the queue with
\* its block is in the database, which had the block before the gate.
LEMMA GatewayStepKeeps ==
  ASSUME LookupInv, GatewayStep
  PROVE  LookupInv'
<1>1. /\ Next /\ ChainFirst /\ UNCHANGED <<db, scope, lookup, wanted>>
      /\ queued' = (queued /\ (wanted \in queue \ queue' => LeavesWithBlock))
  BY DEF GatewayStep
<1>2. queued' => queued /\ (wanted \in queue' \/ wanted \notin queue \/ LeavesWithBlock)
  BY <1>1
<1>3. LeavesWithBlock /\ Looking => wanted \in db
  BY DEF LookupInv, LeavesWithBlock
<1>4. Looking' /\ stage' = "observed" => block' \subseteq db'
  BY <1>1, ObservedKeepsBlock, SMTT(30) DEF Looking, ChainFirst
<1>5. queued' => wanted' \in queue' \union db'
  BY <1>1, <1>2, <1>3 DEF LookupInv
<1> QED
  BY <1>1, <1>2, <1>4, <1>5 DEF Looking, LookupInv

\* A lookup begins, asks in its order, and ends.
LEMMA LookupStepKeeps ==
  ASSUME LookupInv,
         \/ ChainHandle \/ LookupReturns
         \/ \E tx \in Txs : LookupBegins(tx)
         \/ \E i \in 1..Len(Order) : LookupAsks(i)
  PROVE  LookupInv'
<1>1. CASE ChainHandle
  BY <1>1 DEF Looking, ChainHandle, LookupInv, vars, ledgerVars, queueVars, lookupVars
<1>2. CASE LookupReturns
  BY <1>2 DEF LookupReturns, LookupInv, vars, ledgerVars, queueVars
<1>3. ASSUME NEW tx \in Txs, LookupBegins(tx) PROVE LookupInv'
  BY <1>3 DEF Looking, LookupBegins, LookupInv, vars, ledgerVars, queueVars, Order
<1>4. ASSUME NEW i \in 1..Len(Order), LookupAsks(i) PROVE LookupInv'
  <2>1. Order[1] = "queue" /\ Order[2] = "gate" /\ Order[3] = "store" /\ Len(Order) = 3
    BY DEF Order
  <2>2. /\ UNCHANGED <<queue, block, stage, scope, db, wanted, queued>>
        /\ lookup = Order[i]
        /\ lookup' = IF wanted \in Holds(Order[i]) THEN "found"
                     ELSE IF i < Len(Order) THEN Order[i + 1] ELSE "nil"
    BY <1>4 DEF LookupAsks, vars, ledgerVars, queueVars
  <2>3. CASE i = 1
    <3>1. lookup' = IF wanted \in queue THEN "found" ELSE "gate"
      BY <2>1, <2>2, <2>3, SMTT(30) DEF Holds
    <3> QED
      BY <2>1, <2>2, <2>3, <3>1, SMTT(30) DEF Looking, LookupInv
  <2>4. CASE i = 2
    <3>1. lookup' \in {"found", "store"}
      BY <2>1, <2>2, <2>4, SMTT(30)
    <3> QED
      BY <2>1, <2>2, <2>4, <3>1 DEF Looking, LookupInv
  <2>5. CASE i = 3
    <3>1. lookup' = IF wanted \in db THEN "found" ELSE "nil"
      BY <2>1, <2>2, <2>5, SMTT(30) DEF Holds
    <3> QED
      BY <2>1, <2>2, <2>5, <3>1 DEF Looking, LookupInv
  <2> QED
    BY <2>1, <2>3, <2>4, <2>5, SMTT(30)
<1> QED
  BY <1>1, <1>2, <1>3, <1>4, SMTT(30)

\* Gateway.TransactionByHash: a transaction that was queued when its lookup began
\* is found, whether its block commits meanwhile or not.
THEOREM QueuedFound == LookupSpec => []QueuedIsFound
<1>1. LookupInit => LookupInv
  BY DEF LookupInit, Init, LookupInv
<1>2. LookupInv /\ [LookupNext]_allLookupVars => LookupInv'
  <2> SUFFICES ASSUME LookupInv, [LookupNext]_allLookupVars PROVE LookupInv'
    OBVIOUS
  <2>1. CASE UNCHANGED allLookupVars
    BY <2>1 DEF Looking, allLookupVars, LookupInv, vars, ledgerVars, queueVars, lookupVars
  <2> QED
    BY <2>1, GatewayStepKeeps, LookupStepKeeps DEF LookupNext
<1>3. LookupInv => QueuedIsFound
  BY DEF LookupInv, QueuedIsFound
<1> QED
  BY <1>1, <1>2, <1>3, PTL DEF LookupSpec, allLookupVars
=============================================================================
