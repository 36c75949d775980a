----------------------------- MODULE KvsRecords -----------------------------
(***************************************************************************)
(* The records that the endorser's key-value stores keep, and what a block *)
(* does to them (endorser/storage/lightkvs.go): the functions that the     *)
(* stores share.  A map of records is a function on the keys it holds; a   *)
(* deleted key keeps a record, its tombstone.                              *)
(***************************************************************************)
EXTENDS Integers, Sequences, SequencesExt

CONSTANTS
  Keys,      \* "namespace:key" strings
  Values,    \* values written
  Contents,  \* block contents: sequences of [valid, writes] transactions
  Deleted,   \* the value of a write that deletes its key
  Absent     \* what a reader sees of a key without a live record

NoData == [k \in {} |-> 0]
NoState == [k \in Keys |-> Absent]

Written(updates) == {updates[i].key : i \in DOMAIN updates}
WritesTo(updates, k) == SelectSeq(updates, LAMBDA u : u.key = k)

\* The updates of block n, in order: the writes of its valid transactions.
collectWrites(n, txs) ==
  FlattenSeq([i \in DOMAIN txs |->
    IF ~txs[i].valid THEN <<>>
    ELSE [j \in DOMAIN txs[i].writes |->
            [key |-> txs[i].writes[j].key, value |-> txs[i].writes[j].value,
             blk |-> n, tx |-> i]]])

\* The last write of a key wins; every write takes the version after the one
\* before it, in the same block too and across a tombstone.
applyUpdates(old, updates) ==
  [k \in DOMAIN old \cup Written(updates) |->
     IF k \notin Written(updates) THEN old[k]
     ELSE LET ws == WritesTo(updates, k)
              first == IF k \in DOMAIN old THEN old[k].version + 1 ELSE 0
          IN [value |-> Last(ws).value, blk |-> Last(ws).blk, tx |-> Last(ws).tx,
              version |-> first + Len(ws) - 1]]

\* Mutant: the first write of a key is compared, not the last.
VerifyFirst(data, updates) ==
  \A k \in Written(updates) :
    LET u == Head(WritesTo(updates, k)) IN
    /\ k \in DOMAIN data
    /\ data[k].value = u.value
    /\ data[k].tx = u.tx

\* A redelivery of the block that data ends with leaves every key it writes as
\* it is stored.
verifyReplay(data, updates) ==
  \A k \in Written(updates) :
    LET u == Last(WritesTo(updates, k)) IN
    /\ k \in DOMAIN data
    /\ data[k].value = u.value
    /\ data[k].tx = u.tx

\* What the execution layer sees of a map of records: tombstones are absent.
Visible(data) ==
  [k \in Keys |-> IF k \in DOMAIN data /\ data[k].value # Deleted
                    THEN data[k].value ELSE Absent]

-----------------------------------------------------------------------------
(* The reference: what a block means, independently of any store. *)

ValidWrites(txs) ==
  FlattenSeq([i \in DOMAIN txs |-> IF txs[i].valid THEN txs[i].writes ELSE <<>>])

\* The state after a block, and the number of writes of each key.
Effect(state, txs) ==
  [k \in Keys |-> LET ws == SelectSeq(ValidWrites(txs), LAMBDA w : w.key = k) IN
                  IF ws = <<>> THEN state[k]
                  ELSE IF Last(ws).value = Deleted THEN Absent ELSE Last(ws).value]

Counted(count, txs) ==
  [k \in Keys |-> count[k] + Len(SelectSeq(ValidWrites(txs), LAMBDA w : w.key = k))]
=============================================================================
