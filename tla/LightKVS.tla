------------------------------ MODULE LightKVS ------------------------------
(***************************************************************************)
(* The in-memory store of the endorser (endorser/storage/lightkvs.go): one *)
(* atomic pointer to the current snapshot and a ring of the snapshots      *)
(* before it.  The writer stores into the ring and then swaps the current  *)
(* pointer; a reader takes no lock: it loads the current pointer and then  *)
(* loads the ring slot by slot, while the writer goes on.                  *)
(*                                                                         *)
(* states and count are history variables: the reference state at every    *)
(* height delivered, and how often the ledger wrote each key.              *)
(***************************************************************************)
EXTENDS KvsRecords, FiniteSets

CONSTANTS
  Readers,
  HistorySize,     \* slots of the ring, at least one
  MaxBlock,        \* the last height delivered (bound)
  GenesisWrites    \* whether block 0 may write

VARIABLES
  Current, History, NextIndex,
  pending,   \* the snapshot between the store into the ring and the swap
  rpc,       \* reader: "idle", "scan", "open", "refused"
  ask,       \* reader: the height it asks for
  slot,      \* reader: the next slot of the ring it loads
  height,    \* reader: the height its view is for, -2 if it has none
  snap,      \* reader: the snapshot it reads
  states, count, last,  \* history variables; last is the block at the tip
  failed     \* an identical redelivery of the tip was rejected

vars == <<Current, History, NextIndex, pending, rpc, ask, slot, height, snap,
          states, count, last, failed>>

NoSnap == [n |-> 0, data |-> NoData, placeholder |-> TRUE, none |-> TRUE]
Latest == -1                                    \* a nil block number
Tip == IF Current.placeholder THEN -1 ELSE Current.n
Busy == pending # NoSnap

Init ==
  /\ Current = [n |-> 0, data |-> NoData, placeholder |-> TRUE, none |-> FALSE]
  /\ History = [i \in 0..HistorySize - 1 |-> NoSnap]
  /\ NextIndex = 0
  /\ pending = NoSnap
  /\ rpc = [r \in Readers |-> "idle"]
  /\ ask = [r \in Readers |-> Latest]
  /\ slot = [r \in Readers |-> 0]
  /\ height = [r \in Readers |-> -2]
  /\ snap = [r \in Readers |-> NoSnap]
  /\ states = [h \in {-1} |-> NoState]
  /\ count = [k \in Keys |-> 0]
  /\ last = <<>>
  /\ failed = FALSE

readerVars == <<rpc, ask, slot, height, snap>>
ghostVars == <<states, count, last>>

-----------------------------------------------------------------------------
(* The writer: Handle, called with one block at a time. *)

Extend(f, n, s) == [h \in DOMAIN f \cup {n} |-> IF h = n THEN s ELSE f[h]]

Committed(n, txs) ==
  /\ states' = Extend(states, n, Effect(states[Tip], txs))
  /\ count' = Counted(count, txs)
  /\ last' = txs

Successor(n, txs) ==
  [n |-> n, data |-> applyUpdates(Current.data, collectWrites(n, txs)),
   placeholder |-> FALSE, none |-> FALSE]

\* A block at or below the tip changes nothing; the tip itself is verified.
\* (A block older than the tip is dropped before its content is looked at.)
HandleReplay(n, txs) ==
  /\ ~Busy
  /\ n = Tip
  /\ failed' = (failed \/ (txs = last
                   /\ ~verifyReplay(Current.data, collectWrites(n, txs))))
  /\ UNCHANGED <<Current, History, NextIndex, pending, readerVars, ghostVars>>

\* Mutant: the ring does not move on to the next slot.
StoreInPlace(n, txs) ==
  /\ ~Busy
  /\ n > Tip
  /\ n = 0 /\ ~GenesisWrites => ValidWrites(txs) = <<>>
  /\ History' = [History EXCEPT ![NextIndex] = Current]
  /\ pending' = Successor(n, txs)
  /\ last' = txs
  /\ UNCHANGED <<Current, NextIndex, readerVars, states, count, failed>>

\* Mutant: the next slot does not wrap around.
StoreNoWrap(n, txs) ==
  /\ ~Busy
  /\ n > Tip
  /\ n = 0 /\ ~GenesisWrites => ValidWrites(txs) = <<>>
  /\ History' = [History EXCEPT ![NextIndex] = Current]
  /\ NextIndex' = NextIndex + 1
  /\ pending' = Successor(n, txs)
  /\ last' = txs
  /\ UNCHANGED <<Current, readerVars, states, count, failed>>

\* applyBlock up to the store into the ring and the step to the next slot.
HandleStore(n, txs) ==
  /\ ~Busy
  /\ n > Tip
  /\ n = 0 /\ ~GenesisWrites => ValidWrites(txs) = <<>>
  /\ History' = [History EXCEPT ![NextIndex] = Current]
  /\ NextIndex' = (NextIndex + 1) % HistorySize
  /\ pending' = Successor(n, txs)
  /\ last' = txs
  /\ UNCHANGED <<Current, readerVars, states, count, failed>>

\* applyBlock's last statement: the swap.
HandleSwap ==
  /\ Busy
  /\ Current' = pending
  /\ pending' = NoSnap
  /\ Committed(pending.n, last)
  /\ UNCHANGED <<History, NextIndex, readerVars, failed>>

-----------------------------------------------------------------------------
(* The readers: NewSnapshot, Close. *)

\* The snapshot that was loaded serves a nil height and one at or past it.
OpenCurrent(r, bn) ==
  /\ rpc[r] = "idle"
  /\ bn = Latest \/ bn >= Current.n
  /\ rpc' = [rpc EXCEPT ![r] = "open"]
  /\ ask' = [ask EXCEPT ![r] = bn]
  /\ snap' = [snap EXCEPT ![r] = Current]
  /\ height' = [height EXCEPT ![r] = Tip]
  /\ UNCHANGED <<Current, History, NextIndex, pending, slot, ghostVars, failed>>

\* An older height: the ring is searched, which takes one load per slot.
BeginScan(r, bn) ==
  /\ rpc[r] = "idle"
  /\ bn # Latest /\ bn < Current.n
  /\ rpc' = [rpc EXCEPT ![r] = "scan"]
  /\ ask' = [ask EXCEPT ![r] = bn]
  /\ slot' = [slot EXCEPT ![r] = 0]
  /\ UNCHANGED <<Current, History, NextIndex, pending, height, snap, ghostVars, failed>>

\* Mutant: the search settles for a snapshot at or before the height.
MatchOlder(s, bn) == ~s.none /\ s.n <= bn

Matches(s, bn) == ~s.none /\ s.n = bn

ScanHit(r) ==
  /\ rpc[r] = "scan" /\ slot[r] < HistorySize
  /\ Matches(History[slot[r]], ask[r])
  /\ rpc' = [rpc EXCEPT ![r] = "open"]
  /\ snap' = [snap EXCEPT ![r] = History[slot[r]]]
  /\ height' = [height EXCEPT ![r] = ask[r]]
  /\ UNCHANGED <<Current, History, NextIndex, pending, ask, slot, ghostVars, failed>>

ScanMiss(r) ==
  /\ rpc[r] = "scan" /\ slot[r] < HistorySize
  /\ ~Matches(History[slot[r]], ask[r])
  /\ slot' = [slot EXCEPT ![r] = @ + 1]
  /\ rpc' = [rpc EXCEPT ![r] = IF slot[r] + 1 = HistorySize THEN "refused" ELSE @]
  /\ UNCHANGED <<Current, History, NextIndex, pending, ask, height, snap, ghostVars, failed>>

Close(r) ==
  /\ rpc[r] \in {"open", "refused"}
  /\ rpc' = [rpc EXCEPT ![r] = "idle"]
  /\ ask' = [ask EXCEPT ![r] = Latest]
  /\ slot' = [slot EXCEPT ![r] = 0]
  /\ snap' = [snap EXCEPT ![r] = NoSnap]
  /\ height' = [height EXCEPT ![r] = -2]
  /\ UNCHANGED <<Current, History, NextIndex, pending, ghostVars, failed>>

-----------------------------------------------------------------------------

Next ==
  \/ \E n \in 0..MaxBlock, txs \in Contents : HandleStore(n, txs) \/ HandleReplay(n, txs)
  \/ HandleSwap
  \/ \E r \in Readers : \/ \E bn \in -1..MaxBlock : OpenCurrent(r, bn) \/ BeginScan(r, bn)
                        \/ ScanHit(r) \/ ScanMiss(r) \/ Close(r)

Spec == Init /\ [][Next]_vars

-----------------------------------------------------------------------------
(* Properties *)

\* The pointers of the store: a ring of snapshots, a slot to write next.
TypeOK ==
  /\ Current.n \in 0..MaxBlock /\ ~Current.none
  /\ NextIndex \in 0..HistorySize - 1
  /\ DOMAIN History = 0..HistorySize - 1
  /\ \A r \in Readers : /\ rpc[r] \in {"idle", "scan", "open", "refused"}
                        /\ slot[r] \in 0..HistorySize
                        /\ rpc[r] = "open" => ~snap[r].none

\* The version of a record is the number of times the ledger wrote its key, less
\* one, whatever was delivered twice, deleted or written twice in a block: the
\* committer checks the endorser's read sets against those versions.
VersionsFollowLedger ==
  \A k \in Keys :
    /\ k \in DOMAIN Current.data <=> count[k] > 0
    /\ k \in DOMAIN Current.data => Current.data[k].version = count[k] - 1

\* A read of a delivered height is refused only when that height has left the
\* ring: at least HistorySize blocks were committed after it, and one more is,
\* or is being, committed.
RefusedOnlyIfEvicted ==
  \A r \in Readers : rpc[r] = "refused" /\ ask[r] \in DOMAIN states =>
    Cardinality({h \in DOMAIN states : h > ask[r]}) + (IF Busy THEN 1 ELSE 0) > HistorySize

\* What each reader sees: the store implements the versioned store with it.
View == [r \in Readers |-> IF rpc[r] = "open" THEN Visible(snap[r].data) ELSE NoState]

=============================================================================
