------------------------- MODULE VersionedDBWrapper -------------------------
(***************************************************************************)
(* The sqlite-backed store (endorser/storage/versioned_db_wrapper.go): a   *)
(* snapshot is a height, and every read asks the database for the newest   *)
(* record at or below it.  The database is an SDK component, modelled from *)
(* how the wrapper uses it: all versions of every key, appended by Handle. *)
(***************************************************************************)
EXTENDS KvsRecords, FiniteSets

CONSTANTS
  Readers,
  MaxBlock,      \* the last height delivered (bound)
  FutureReads    \* whether a reader may ask for a height above the tip

VARIABLES head,      \* the last block handled, -1 before the first
          rows,      \* the versions stored: [key, value, blk, version]
          open,      \* reader -> whether it has a snapshot
          blockNumber, at,   \* the height of the snapshot, and the tip's if lower
          states     \* history variable: the reference states

vars == <<head, rows, open, blockNumber, at, states>>

Init ==
  /\ head = -1
  /\ rows = {}
  /\ open = [r \in Readers |-> FALSE]
  /\ blockNumber = [r \in Readers |-> 0]
  /\ at = [r \in Readers |-> -2]
  /\ states = [h \in {-1} |-> NoState]

BlockNumber == IF head < 0 THEN 0 ELSE head

\* The rows that a block appends: one per valid write, with consecutive versions.
Appended(n, txs) ==
  LET us == collectWrites(n, txs)
      seen(k) == {row \in rows : row.key = k}
      before(i) == {j \in 1..i - 1 : us[j].key = us[i].key}
  IN {[key |-> us[i].key, value |-> us[i].value, blk |-> n,
       version |-> Cardinality(seen(us[i].key)) + Cardinality(before(i))] : i \in DOMAIN us}

Handle(n, txs) ==
  /\ n > head
  /\ n = 0 => ValidWrites(txs) = <<>>
  /\ head' = n
  /\ rows' = rows \cup Appended(n, txs)
  /\ states' = [h \in DOMAIN states \cup {n} |->
                  IF h = n THEN Effect(states[head], txs) ELSE states[h]]
  /\ UNCHANGED <<open, blockNumber, at>>

\* Mutant: a nil height is not resolved when the snapshot is taken.
PinNothing(bn) == IF bn = -1 THEN MaxBlock ELSE bn

\* nil (-1) is the tip when the snapshot is taken; a height stays as it is.
PinFor(bn) == IF bn = -1 THEN BlockNumber ELSE bn

NewSnapshot(r, bn) ==
  /\ ~open[r]
  /\ FutureReads \/ bn <= BlockNumber
  /\ open' = [open EXCEPT ![r] = TRUE]
  /\ blockNumber' = [blockNumber EXCEPT ![r] = PinFor(bn)]
  /\ at' = [at EXCEPT ![r] = IF bn # -1 /\ bn < head THEN bn ELSE head]
  /\ UNCHANGED <<head, rows, states>>

Close(r) ==
  /\ open[r]
  /\ open' = [open EXCEPT ![r] = FALSE]
  /\ blockNumber' = [blockNumber EXCEPT ![r] = 0]
  /\ at' = [at EXCEPT ![r] = -2]
  /\ UNCHANGED <<head, rows, states>>

\* The database's lookup: the highest version of the key at or below the height.
DbGet(k, last) ==
  LET found == {row \in rows : row.key = k /\ row.blk <= last}
      top == CHOOSE row \in found : \A other \in found : other.version <= row.version
  IN IF found = {} \/ top.value = Deleted THEN Absent ELSE top.value

Get(r, k) == DbGet(k, blockNumber[r])

Next ==
  \/ \E n \in 0..MaxBlock, txs \in Contents : Handle(n, txs)
  \/ \E r \in Readers : Close(r) \/ \E bn \in -1..MaxBlock : NewSnapshot(r, bn)

Spec == Init /\ [][Next]_vars

-----------------------------------------------------------------------------

\* What each reader sees, although every read goes to the live database.
View == [r \in Readers |-> IF open[r] THEN [k \in Keys |-> Get(r, k)] ELSE NoState]

=============================================================================
