------------------------------- MODULE Stores -------------------------------
(***************************************************************************)
(* The state stores of the endorser, whichever is configured               *)
(* (endorser/app/wiring.go): the initial state chooses the store, and, for *)
(* the larger ones, which of its hazards the behaviour explores.  The      *)
(* other stores keep their initial states.                                 *)
(***************************************************************************)
EXTENDS Integers, Sequences, FiniteSets, TLC

CONSTANTS k1, v1, v2, Deleted, Absent,
          Solo,      \* the reader of the in-memory stores
          Readers    \* the readers of the others, all alike

VARIABLES
  store,                                                            \* the choice
  Current, History, NextIndex, pending, rpc, ask, slot, height,     \* LightKVS
  snap, states, count, last, failed,
  rCurrent, rHistory, rPending, rRpc, rAsk, rHeight, rSnap,         \* RevertibleLightKVS
  rStates, rCount, ledger, rLast, rFailed,
  disk, synced, historySize, openReaders, pRpc, pin, pAt, key, rec, \* PebbleKVS
  answer, pLedger, pStates, counts, minSize, losses, pFailed,
  head, rows, open, blockNumber, at, qStates                        \* VersionedDBWrapper

memoryVars == <<Current, History, NextIndex, pending, rpc, ask, slot, height, snap,
                states, count, last, failed>>
revertibleVars == <<rCurrent, rHistory, rPending, rRpc, rAsk, rHeight, rSnap,
                    rStates, rCount, ledger, rLast, rFailed>>
pebbleVars == <<disk, synced, historySize, openReaders, pRpc, pin, pAt, key, rec,
                answer, pLedger, pStates, counts, minSize, losses, pFailed>>
sqliteVars == <<head, rows, open, blockNumber, at, qStates>>
vars == <<store, memoryVars, revertibleVars, pebbleVars, sqliteVars>>

Put(k, v) == [key |-> k, value |-> v]
Tx(writes) == [valid |-> TRUE, writes |-> writes]
BadTx(writes) == [valid |-> FALSE, writes |-> writes]

\* Nothing; a write; a delete; two writes of one key in a transaction and again
\* in the next one; a write and then an invalid one.
BlockContents ==
  { <<>>,
    <<Tx(<<Put(k1, v1)>>)>>,
    <<Tx(<<Put(k1, Deleted)>>)>>,
    <<Tx(<<Put(k1, v1), Put(k1, v2)>>), Tx(<<Put(k1, v2)>>)>>,
    <<Tx(<<Put(k1, v1)>>), BadTx(<<Put(k1, v2)>>)>> }

\* Nothing; two writes of the key, then an invalid one; a delete.
DeleteOnly == <<Tx(<<Put(k1, Deleted)>>)>>
FewContents ==
  {<<>>, <<Tx(<<Put(k1, v1), Put(k1, v2)>>), BadTx(<<Put(k1, v1)>>)>>, DeleteOnly}

Memory == INSTANCE LightKVS WITH
  Keys <- {k1}, Values <- {v1, v2}, Contents <- BlockContents,
  Readers <- {Solo}, HistorySize <- 2, MaxBlock <- 3, GenesisWrites <- FALSE

Revertible == INSTANCE RevertibleLightKVS WITH
  Keys <- {k1}, Values <- {v1, v2}, Contents <- BlockContents,
  Readers <- {Solo}, HistorySize <- 2, MaxBlock <- 3,
  Funded <- TRUE, RacingReverts <- FALSE, GapReverts <- FALSE,
  Current <- rCurrent, History <- rHistory, pending <- rPending, rpc <- rRpc,
  ask <- rAsk, height <- rHeight, snap <- rSnap, states <- rStates,
  count <- rCount, last <- rLast, failed <- rFailed

Pebble == INSTANCE PebbleKVS WITH
  Keys <- {k1}, Values <- {v1, v2}, Contents <- FewContents,
  HistorySizes <- {1, 2, 4}, MaxBlock <- 5, MaxLosses <- 1, GenesisWrites <- FALSE,
  rpc <- pRpc, at <- pAt, ledger <- pLedger, states <- pStates, failed <- pFailed

Sqlite == INSTANCE VersionedDBWrapper WITH
  Keys <- {k1}, Values <- {v1, v2}, Contents <- BlockContents,
  MaxBlock <- 3, FutureReads <- FALSE, states <- qStates

-----------------------------------------------------------------------------

\* What a behaviour of the persistent store explores: one reader and a start
\* with another history size; two readers; power losses and starts (the last two
\* with consecutive heights and without deletes).
PebbleBounds ==
  [pebble         |-> [readers |-> 1, sizes |-> {1, 2}, losses |-> 0, blocks |-> 3, gaps |-> TRUE],
   pebble_readers |-> [readers |-> 2, sizes |-> {1},    losses |-> 0, blocks |-> 4, gaps |-> FALSE],
   pebble_crash   |-> [readers |-> 0, sizes |-> {1, 4}, losses |-> 1, blocks |-> 5, gaps |-> FALSE]]

Init ==
  /\ store \in {"memory", "revertible", "funded", "sqlite"} \cup DOMAIN PebbleBounds
  /\ Memory!Init
  /\ Revertible!Init
  /\ Pebble!Init
  /\ historySize \in (IF store \in DOMAIN PebbleBounds THEN PebbleBounds[store].sizes ELSE {1})
  /\ Sqlite!Init

MemoryStep ==
  /\ store = "memory"
  /\ Memory!Next
  /\ UNCHANGED <<store, revertibleVars, pebbleVars, sqliteVars>>

\* The synthetic block of funded accounts is explored without readers.
RevertibleStep ==
  /\ store \in {"revertible", "funded"}
  /\ Revertible!Next
  /\ IF store = "funded" THEN rRpc' = rRpc
     ELSE rPending'.n = 0 => Revertible!ValidWrites(rPending'.txs) = <<>>
  /\ UNCHANGED <<store, memoryVars, pebbleVars, sqliteVars>>

PebbleStep ==
  /\ store \in DOMAIN PebbleBounds
  /\ Pebble!Next
  /\ LET b == PebbleBounds[store] IN
     /\ Cardinality({r \in Readers : pRpc'[r] # "idle"}) <= b.readers
     /\ historySize' \in b.sizes
     /\ losses' <= b.losses
     /\ b.losses = 0 => synced' = synced
     /\ disk'.head <= b.blocks
     /\ b.gaps \/ /\ disk'.head <= disk.head + 1
                  /\ \A h \in DOMAIN pLedger' : pLedger'[h] # DeleteOnly
  /\ UNCHANGED <<store, memoryVars, revertibleVars, sqliteVars>>

SqliteStep ==
  /\ store = "sqlite"
  /\ Sqlite!Next
  /\ UNCHANGED <<store, memoryVars, revertibleVars, pebbleVars>>

Next == MemoryStep \/ RevertibleStep \/ PebbleStep \/ SqliteStep

Spec == Init /\ [][Next]_vars

\* The readers of the persistent stores are alike.
ReaderSymmetry == Permutations(Readers)

-----------------------------------------------------------------------------
(* The properties of the stores; each says in its module what it is about. *)

InMemory == store = "memory"
InRevertible == store \in {"revertible", "funded"}
InPebble == store \in DOMAIN PebbleBounds

\* Whichever store is configured, through deletes, redeliveries, reverts, restarts
\* and power losses: the version of a record is the number of times the ledger wrote
\* its key, less one (applyUpdates, RevertToBlock, commitBlock); a redelivery of the
\* tip with the same content is no error (verifyReplay, verifyTipReplay); a height is
\* refused only after it left the ring, and never answered with newer values
\* (NewSnapshot, pruneHistory); a Get answers for its reader's height although blocks
\* may be committed and history pruned between its two reads; reverts keep the list
\* in order and the current state that of its height.
StoresAreFaithful ==
  /\ ~failed /\ ~rFailed /\ ~pFailed
  /\ InMemory =>
       Memory!TypeOK /\ Memory!VersionsFollowLedger /\ Memory!RefusedOnlyIfEvicted
  /\ InRevertible =>
       /\ Revertible!VersionsFollowLedger /\ Revertible!CurrentIsReferenceState
       /\ Revertible!HistoryInOrder /\ Revertible!KeysAccumulate
  /\ InPebble =>
       /\ Pebble!VersionsFollowLedger /\ Pebble!AdmittedIsAnswerable /\ Pebble!WindowKept
       /\ Pebble!PinsMatchReaders /\ Pebble!GetsSeeTheirHeight

AllReaders == Readers \cup {Solo}
Over(f, none) == [r \in AllReaders |-> IF r \in DOMAIN f THEN f[r] ELSE none]

\* Whichever store is configured, it implements the versioned store: a view shows
\* the state of the height it was opened for until it is closed, although the
\* ring is searched without a lock, the list is reverted, and the persistent and
\* the sqlite stores look every key up when it is read.
Abstract == INSTANCE VersionedStore WITH
  Keys <- {k1}, Values <- {v1, v2}, Readers <- AllReaders,
  tip <- CASE InMemory -> Memory!Tip [] InRevertible -> Revertible!Tip
           [] InPebble -> disk.head [] OTHER -> head,
  states <- CASE InMemory -> states [] InRevertible -> rStates
              [] InPebble -> Pebble!Committed [] OTHER -> qStates,
  at <- Over(CASE InMemory -> height [] InRevertible -> rHeight
               [] InPebble -> pAt [] OTHER -> at, -2),
  view <- Over(CASE InMemory -> Memory!View [] InRevertible -> Revertible!View
                 [] InPebble -> Pebble!View [] OTHER -> Sqlite!View, Memory!NoState)

ViewsAreSnapshots == Abstract!Spec
=============================================================================
