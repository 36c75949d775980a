-------------------------- MODULE RevertibleLightKVS --------------------------
(***************************************************************************)
(* The store of the test node (endorser/storage/revertible_lightkvs.go):   *)
(* LightKVS with an oldest-first list of snapshots instead of a ring, and  *)
(* RevertToBlock, which brings back the values of an earlier height and    *)
(* keeps the versions.  Handle, NewSnapshot and RevertToBlock run          *)
(* concurrently: Handle and NewSnapshot look at the current snapshot       *)
(* before they take the lock.                                              *)
(*                                                                         *)
(* states, count, ledger and last are history variables.  The ledger does  *)
(* not revert: it goes on from its own height.                             *)
(***************************************************************************)
EXTENDS KvsRecords

CONSTANTS
  Readers,
  HistorySize,   \* the length of the window, possibly 0
  MaxBlock,      \* the last height delivered (bound)
  Funded,        \* whether the test accounts are funded at startup
  RacingReverts, \* whether a revert may overtake a reader of a height it drops
  GapReverts     \* whether a revert may ask for a height without a snapshot

VARIABLES
  Current, History,
  pending,   \* the block between Handle's guard and the lock
  rpc, ask, height, snap,
  states, count, ledger, last,
  failed     \* an identical redelivery of the tip was rejected

vars == <<Current, History, pending, rpc, ask, height, snap, states, count,
          ledger, last, failed>>
readerVars == <<rpc, ask, height, snap>>
ghostVars == <<states, count, ledger, last>>

NoSnap == [n |-> 0, data |-> NoData, placeholder |-> TRUE]
NoBlock == [n |-> -1, txs |-> <<>>]
Latest == -1
Tip == IF Current.placeholder THEN -1 ELSE Current.n

Init ==
  /\ Current = NoSnap
  /\ History = <<>>
  /\ pending = NoBlock
  /\ rpc = [r \in Readers |-> "idle"]
  /\ ask = [r \in Readers |-> Latest]
  /\ height = [r \in Readers |-> -2]
  /\ snap = [r \in Readers |-> NoSnap]
  /\ states = [h \in {-1} |-> NoState]
  /\ count = [k \in Keys |-> 0]
  /\ ledger = -1
  /\ last = <<>>
  /\ failed = FALSE

Below(f, n) == [h \in {g \in DOMAIN f : g < n} |-> f[h]]
Extend(f, n, s) == [h \in DOMAIN f \cup {n} |-> IF h = n THEN s ELSE f[h]]
StateAt(h) ==
  states[CHOOSE g \in DOMAIN states : /\ g <= h
                                      /\ \A f \in DOMAIN states : f <= h => f <= g]

-----------------------------------------------------------------------------
(* Handle *)

\* The block passes the guard on the current height.
HandleNew(n, txs) ==
  /\ pending = NoBlock
  /\ n > Tip /\ n > ledger
  /\ n = 0 => ValidWrites(txs) = <<>>
  /\ pending' = [n |-> n, txs |-> txs]
  /\ UNCHANGED <<Current, History, readerVars, ghostVars, failed>>

\* FundTestAccounts: before the synchronizer starts, a synthetic block at the
\* current height, which the placeholder has too.
FundTestAccounts(txs) ==
  /\ Funded
  /\ pending = NoBlock /\ Current.placeholder
  /\ ValidWrites(txs) # <<>>
  /\ pending' = [n |-> Current.n, txs |-> txs]
  /\ UNCHANGED <<Current, History, readerVars, ghostVars, failed>>

\* The tip is delivered again, before any revert: it is verified.
HandleReplay(n, txs) ==
  /\ pending = NoBlock
  /\ n = Tip /\ n = ledger
  /\ failed' = (failed \/ (txs = last
                   /\ ~verifyReplay(Current.data, collectWrites(n, txs))))
  /\ UNCHANGED <<Current, History, pending, readerVars, ghostVars>>

\* Mutant: a full window drops its newest snapshot.
DropNewest(h, s) ==
  IF HistorySize = 0 THEN h
  ELSE IF Len(h) = HistorySize THEN Append(Front(h), s)
  ELSE Append(h, s)

\* The list after a snapshot is appended; a full window forgets its oldest.
Preserve(h, s) ==
  IF HistorySize = 0 THEN h
  ELSE IF Len(h) = HistorySize THEN Append(Tail(h), s)
  ELSE Append(h, s)

\* applyBlockSequential, under the lock.
HandleApply ==
  /\ pending # NoBlock
  /\ LET n == pending.n
         txs == pending.txs IN
     /\ Current' = [n |-> n, data |-> applyUpdates(Current.data, collectWrites(n, txs)),
                    placeholder |-> FALSE]
     /\ History' = Preserve(History, Current)
     /\ states' = Extend(states, n, Effect(StateAt(Tip), txs))
     /\ count' = Counted(count, txs)
     /\ ledger' = n
     /\ last' = txs
  /\ pending' = NoBlock
  /\ UNCHANGED <<readerVars, failed>>

-----------------------------------------------------------------------------
(* RevertToBlock *)

\* The last snapshot at exactly that height, else the nearest one before it.
Exact(bn) == {i \in DOMAIN History : History[i].n = bn}
Older(bn) == {i \in DOMAIN History : History[i].n < bn}
Nearest(bn) ==
  CHOOSE i \in Older(bn) : \A j \in Older(bn) :
    \/ History[j].n < History[i].n
    \/ History[j].n = History[i].n /\ i <= j

Target(bn) == IF Exact(bn) # {} THEN CHOOSE i \in Exact(bn) : \A j \in Exact(bn) : j <= i
              ELSE Nearest(bn)

\* Mutant: the target's records come back with their versions.
MergeVersions(target) ==
  [k \in DOMAIN Current.data |->
     IF k \in DOMAIN target THEN target[k]
     ELSE [Current.data[k] EXCEPT !.value = Deleted]]

\* Mutant: a key written after the target keeps its value.
MergeKeepNew(target) ==
  [k \in DOMAIN Current.data |->
     IF k \in DOMAIN target THEN [Current.data[k] EXCEPT !.value = target[k].value]
     ELSE Current.data[k]]

\* The target's values with the current version information; a key that the
\* target does not have becomes a tombstone.
Merged(target) ==
  [k \in DOMAIN Current.data |->
     [Current.data[k] EXCEPT !.value = IF k \in DOMAIN target THEN target[k].value
                                       ELSE Deleted]]

\* Mutant: the snapshots after the target stay in the list.
KeepFuture(bn) ==
  /\ bn # Current.n
  /\ Exact(bn) # {} \/ (bn < Current.n /\ Older(bn) # {})
  /\ GapReverts \/ Exact(bn) # {}
  /\ RacingReverts \/ \A r \in Readers : rpc[r] = "search" => ask[r] < bn
  /\ Current' = [n |-> bn, data |-> Merged(History[Target(bn)].data), placeholder |-> FALSE]
  /\ states' = Extend(Below(states, bn), bn, StateAt(bn))
  /\ UNCHANGED <<History, pending, readerVars, count, ledger, last, failed>>

\* The current height, and a height without a snapshot at or before it, change
\* nothing.  The target and everything after it leave the list.
RevertToBlock(bn) ==
  /\ bn # Current.n
  /\ Exact(bn) # {} \/ (bn < Current.n /\ Older(bn) # {})
  /\ GapReverts \/ Exact(bn) # {}
  /\ RacingReverts \/ \A r \in Readers : rpc[r] = "search" => ask[r] < bn
  /\ Current' = [n |-> bn, data |-> Merged(History[Target(bn)].data), placeholder |-> FALSE]
  /\ History' = SubSeq(History, 1, Target(bn) - 1)
  /\ states' = Extend(Below(states, bn), bn, StateAt(bn))
  /\ UNCHANGED <<pending, readerVars, count, ledger, last, failed>>

-----------------------------------------------------------------------------
(* NewSnapshot, Close *)

OpenCurrent(r, bn) ==
  /\ rpc[r] = "idle"
  /\ bn = Latest \/ bn >= Current.n
  /\ rpc' = [rpc EXCEPT ![r] = "open"]
  /\ ask' = [ask EXCEPT ![r] = bn]
  /\ snap' = [snap EXCEPT ![r] = Current]
  /\ height' = [height EXCEPT ![r] = Tip]
  /\ UNCHANGED <<Current, History, pending, ghostVars, failed>>

\* The height is below the current one; the lock is not held yet.
BeginSearch(r, bn) ==
  /\ rpc[r] = "idle"
  /\ bn # Latest /\ bn < Current.n
  /\ rpc' = [rpc EXCEPT ![r] = "search"]
  /\ ask' = [ask EXCEPT ![r] = bn]
  /\ UNCHANGED <<Current, History, pending, height, snap, ghostVars, failed>>

\* Under the lock: the snapshot at that height or the nearest before it.
Search(r) ==
  /\ rpc[r] = "search"
  /\ LET found == Exact(ask[r]) \cup Older(ask[r]) # {} IN
     /\ rpc' = [rpc EXCEPT ![r] = IF found THEN "open" ELSE "refused"]
     /\ snap' = [snap EXCEPT ![r] = IF found THEN History[Target(ask[r])] ELSE @]
     /\ height' = [height EXCEPT ![r] = IF found THEN ask[r] ELSE @]
  /\ UNCHANGED <<Current, History, pending, ask, ghostVars, failed>>

Close(r) ==
  /\ rpc[r] \in {"open", "refused"}
  /\ rpc' = [rpc EXCEPT ![r] = "idle"]
  /\ ask' = [ask EXCEPT ![r] = Latest]
  /\ snap' = [snap EXCEPT ![r] = NoSnap]
  /\ height' = [height EXCEPT ![r] = -2]
  /\ UNCHANGED <<Current, History, pending, ghostVars, failed>>

-----------------------------------------------------------------------------

Next ==
  \/ \E n \in 0..MaxBlock, txs \in Contents : HandleNew(n, txs) \/ HandleReplay(n, txs)
  \/ \E txs \in Contents : FundTestAccounts(txs)
  \/ HandleApply
  \/ \E bn \in 0..MaxBlock : RevertToBlock(bn)
  \/ \E r \in Readers : \/ \E bn \in -1..MaxBlock : OpenCurrent(r, bn) \/ BeginSearch(r, bn)
                        \/ Search(r) \/ Close(r)

Spec == Init /\ [][Next]_vars

-----------------------------------------------------------------------------
(* Properties *)

\* The list is kept oldest first and below the current height, as both searches
\* rely on: after a revert nothing of the abandoned heights is left in it.
HistoryInOrder ==
  /\ Len(History) <= HistorySize
  /\ \A i \in DOMAIN History :
       /\ History[i].n < Current.n \/ History[i].placeholder
       /\ i > 1 => History[i - 1].n < History[i].n \/ History[i - 1].placeholder

\* "every key in targetSnapshot.Data is guaranteed to still be present in
\* currentSnapshot.Data": what RevertToBlock's single pass over the current keys
\* rests on, across deletes and earlier reverts.
KeysAccumulate ==
  \A i \in DOMAIN History : DOMAIN History[i].data \subseteq DOMAIN Current.data

\* After any number of reverts a record's version is still the number of times
\* the ledger wrote the key, less one, so that the transactions simulated on the
\* reverted state carry read versions that the ledger accepts.
VersionsFollowLedger ==
  \A k \in Keys :
    /\ k \in DOMAIN Current.data <=> count[k] > 0
    /\ k \in DOMAIN Current.data => Current.data[k].version = count[k] - 1

\* What each reader sees: the state of its height on the chain that was current
\* when it was opened, over later blocks and reverts.
View == [r \in Readers |-> IF rpc[r] = "open" THEN Visible(snap[r].data) ELSE NoState]

\* The state that the store serves as current is that of its height, reverts
\* included.
CurrentIsReferenceState == Visible(Current.data) = StateAt(Tip)

=============================================================================
