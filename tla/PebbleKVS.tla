----------------------------- MODULE PebbleKVS -----------------------------
(***************************************************************************)
(* The persistent store of the endorser (endorser/storage/pebblekvs.go).   *)
(* One record per key, overwritten in place; a block that overwrites a     *)
(* record keeps the old one as a history entry, which a later block prunes *)
(* when it leaves the window and no open reader needs it.  A reader holds  *)
(* a height, not a copy: what it sees is looked up at every Get, in two    *)
(* database reads between which blocks may be committed.                   *)
(*                                                                         *)
(* A commit is one batch, written without sync: a process crash keeps it,  *)
(* a power loss may lose the blocks since the last flush (synced), which   *)
(* the ledger then delivers again.                                         *)
(*                                                                         *)
(* ledger, states, counts and minSize are history variables.               *)
(***************************************************************************)
EXTENDS KvsRecords, FiniteSets

CONSTANTS
  Readers,
  HistorySizes,   \* the history sizes a start may be configured with, all positive
  MaxBlock,       \* the last height delivered (bound)
  MaxLosses,      \* power losses (bound)
  GenesisWrites   \* whether block 0 may write

VARIABLES
  disk,         \* the database: [head, data, hist, oldest]; head -1: no checkpoint
  synced,       \* the database as last flushed
  historySize,
  openReaders,  \* height -> number of readers pinned to it
  rpc,          \* reader: "idle", "open", "mid" (between the two reads of a Get)
  pin,          \* reader: the height it is pinned to (lastBlock)
  at,           \* reader: the height its view is for, -2 if it has none
  key, rec,     \* reader: the key of its Get and what the first read returned
  answer,       \* reader: what its last Get returned, NoAnswer before
  ledger, states, counts, minSize, losses,
  failed        \* an identical redelivery of the tip was rejected

vars == <<disk, synced, historySize, openReaders, rpc, pin, at, key, rec, answer,
          ledger, states, counts, minSize, losses, failed>>
readerVars == <<openReaders, rpc, pin, at, key, rec, answer>>
ghostVars == <<ledger, states, counts, minSize, losses>>

Heights == 0..MaxBlock
NoRecord == [value |-> Deleted, blk |-> -1, tx |-> 0, version |-> -1]
NoAnswer == [key |-> "none", value |-> Absent]
currentBlock == IF disk.head < 0 THEN 0 ELSE disk.head      

Init ==
  /\ disk = [head |-> -1, data |-> NoData, hist |-> {}, oldest |-> 0]
  /\ synced = disk
  /\ historySize \in HistorySizes
  /\ openReaders = [h \in Heights |-> 0]
  /\ rpc = [r \in Readers |-> "idle"]
  /\ pin = [r \in Readers |-> 0]
  /\ at = [r \in Readers |-> -2]
  /\ key = [r \in Readers |-> NoAnswer.key]
  /\ rec = [r \in Readers |-> NoRecord]
  /\ answer = [r \in Readers |-> NoAnswer]
  /\ ledger = [h \in {} |-> <<>>]
  /\ states = [h \in {-1} |-> NoState]
  /\ counts = [h \in {-1} |-> [k \in Keys |-> 0]]
  /\ minSize = historySize
  /\ losses = 0
  /\ failed = FALSE

Extend(f, n, s) == [h \in DOMAIN f \cup {n} |-> IF h = n THEN s ELSE f[h]]

-----------------------------------------------------------------------------
(* Handle and commitBlock *)

\* Mutant: the open readers are not asked.
CutoffUnpinned(n) == n - historySize - 1

\* Mutant: the window is one block short.
CutoffEarly(n) ==
  LET pins == {h \in Heights : openReaders[h] > 0} IN
  IF \E h \in pins : h < n - historySize
    THEN CHOOSE h \in pins : \A g \in pins : h <= g
    ELSE n - historySize

\* History created at or below the cutoff goes: what left the window of the new
\* block, but nothing above the lowest pin.
Cutoff(n) ==
  LET pins == {h \in Heights : openReaders[h] > 0} IN
  IF \E h \in pins : h < n - historySize - 1
    THEN CHOOSE h \in pins : \A g \in pins : h <= g
    ELSE n - historySize - 1

\* Mutant: the bound follows the cutoff back down.
OldestFollows(n) == IF n < historySize + 1 THEN disk.oldest ELSE Cutoff(n) + 1

\* The oldest answerable height moves only forward.
NewOldest(n) ==
  IF n < historySize + 1 \/ Cutoff(n) + 1 <= disk.oldest THEN disk.oldest
  ELSE Cutoff(n) + 1

\* The records that the block overwrites, filed under the block.
stageHistory(n, updates) ==
  {[key |-> k, rec |-> disk.data[k], by |-> n] : k \in Written(updates) \cap DOMAIN disk.data}

\* The history that stays when the block is committed.
Retained(n) ==
  IF n < historySize + 1 THEN disk.hist
  ELSE {e \in disk.hist : e.by > Cutoff(n)}

\* The ledger delivers what it delivered before, in order and without a gap.
Delivers(n, txs) ==
  /\ n \in DOMAIN ledger => txs = ledger[n]
  /\ \A h \in DOMAIN ledger : h < n => h <= disk.head
  /\ n = 0 /\ ~GenesisWrites => ValidWrites(txs) = <<>>

commitBlock(n, txs) ==
  LET updates == collectWrites(n, txs) IN
  /\ n > disk.head
  /\ Delivers(n, txs)
  /\ disk' = [head |-> n,
              data |-> applyUpdates(disk.data, updates),
              hist |-> Retained(n) \cup stageHistory(n, updates),
              oldest |-> NewOldest(n)]
  /\ ledger' = Extend(ledger, n, txs)
  /\ states' = Extend(states, n, Effect(states[disk.head], txs))
  /\ counts' = Extend(counts, n, Counted(counts[disk.head], txs))
  /\ UNCHANGED <<synced, historySize, readerVars, minSize, losses, failed>>

\* Mutant: the first write of a key is compared, not the last.
VerifyTipFirst(updates) ==
  \A k \in Written(updates) :
    LET u == Head(WritesTo(updates, k)) IN
    /\ k \in DOMAIN disk.data
    /\ disk.data[k].blk = u.blk
    /\ disk.data[k].value = u.value
    /\ disk.data[k].tx = u.tx

\* The last write of every key is the stored record, and of this block.
verifyTipReplay(updates) ==
  \A k \in Written(updates) :
    LET u == Last(WritesTo(updates, k)) IN
    /\ k \in DOMAIN disk.data
    /\ disk.data[k].blk = u.blk
    /\ disk.data[k].value = u.value
    /\ disk.data[k].tx = u.tx

\* Mutant: a redelivered tip is applied again.
ReapplyTip(n) ==
  /\ n = disk.head
  /\ disk' = [disk EXCEPT !.data = applyUpdates(disk.data, collectWrites(n, ledger[n]))]
  /\ UNCHANGED <<synced, historySize, readerVars, ghostVars, failed>>

\* A redelivery of the tip is verified and changes nothing (an older block is
\* dropped unread).
HandleReplay(n) ==
  /\ n = disk.head
  /\ failed' = (failed \/ ~verifyTipReplay(collectWrites(n, ledger[n])))
  /\ UNCHANGED <<disk, synced, historySize, readerVars, ghostVars>>

-----------------------------------------------------------------------------
(* NewSnapshot, Get, Close of the readers *)

\* Mutant: a height past the tip is pinned as it was asked for.
PinAsked(bn) == IF bn = -1 THEN currentBlock ELSE bn

\* nil (-1) and a height at or past the tip are served by the tip.
PinFor(bn) == IF bn # -1 /\ bn < currentBlock THEN bn ELSE currentBlock

NewSnapshot(r, bn) ==
  /\ rpc[r] = "idle"
  /\ PinFor(bn) >= disk.oldest            \* else the height is refused
  /\ rpc' = [rpc EXCEPT ![r] = "open"]
  /\ pin' = [pin EXCEPT ![r] = PinFor(bn)]
  /\ at' = [at EXCEPT ![r] = IF PinFor(bn) > disk.head THEN disk.head ELSE PinFor(bn)]
  /\ openReaders' = [openReaders EXCEPT ![PinFor(bn)] = @ + 1]
  /\ UNCHANGED <<disk, synced, historySize, key, rec, answer, ghostVars, failed>>

\* The first read of a Get: the key's current record.
GetCurrent(r, k) ==
  /\ rpc[r] = "open"
  /\ rpc' = [rpc EXCEPT ![r] = "mid"]
  /\ key' = [key EXCEPT ![r] = k]
  /\ rec' = [rec EXCEPT ![r] = IF k \in DOMAIN disk.data THEN disk.data[k] ELSE NoRecord]
  /\ UNCHANGED <<disk, synced, historySize, openReaders, pin, at, answer, ghostVars, failed>>

Newest(entries) == CHOOSE e \in entries : \A f \in entries : f.rec.blk <= e.rec.blk

\* The newest history record of the key at or below the height.
Seek(k, h) ==
  LET entries == {e \in disk.hist : e.key = k /\ e.rec.blk <= h} IN
  IF entries = {} THEN NoRecord ELSE Newest(entries).rec

Value(record) == IF record.value = Deleted THEN Absent ELSE record.value

\* The rest of the Get: the record if it is old enough, else the history.
GetResult(r) ==
  /\ rpc[r] = "mid"
  /\ rpc' = [rpc EXCEPT ![r] = "open"]
  /\ answer' = [answer EXCEPT ![r] =
       [key |-> key[r],
        value |-> Value(IF rec[r] # NoRecord /\ rec[r].blk <= pin[r]
                          THEN rec[r] ELSE Seek(key[r], pin[r]))]]
  /\ key' = [key EXCEPT ![r] = NoAnswer.key]
  /\ rec' = [rec EXCEPT ![r] = NoRecord]
  /\ UNCHANGED <<disk, synced, historySize, openReaders, pin, at, ghostVars, failed>>

Idle(r) ==
  /\ rpc' = [rpc EXCEPT ![r] = "idle"]
  /\ pin' = [pin EXCEPT ![r] = 0]
  /\ at' = [at EXCEPT ![r] = -2]
  /\ answer' = [answer EXCEPT ![r] = NoAnswer]

\* Mutant: closing one reader drops the pins of all readers at its height.
releaseAll(r) ==
  /\ rpc[r] = "open"
  /\ Idle(r)
  /\ openReaders' = [openReaders EXCEPT ![pin[r]] = 0]
  /\ UNCHANGED <<disk, synced, historySize, key, rec, ghostVars, failed>>

releaseReader(r) ==
  /\ rpc[r] = "open"
  /\ Idle(r)
  /\ openReaders' = [openReaders EXCEPT ![pin[r]] = @ - 1]
  /\ UNCHANGED <<disk, synced, historySize, key, rec, ghostVars, failed>>

-----------------------------------------------------------------------------
(* Crashes, and starts with another configuration *)

ReadersGone ==
  /\ openReaders' = [h \in Heights |-> 0]
  /\ rpc' = [r \in Readers |-> "idle"]
  /\ pin' = [r \in Readers |-> 0]
  /\ at' = [r \in Readers |-> -2]
  /\ key' = [r \in Readers |-> NoAnswer.key]
  /\ rec' = [r \in Readers |-> NoRecord]
  /\ answer' = [r \in Readers |-> NoAnswer]

\* NewPebbleKVS on the database a process crash or a Close left.
Reopen(size) ==
  /\ historySize' = size
  /\ minSize' = IF size < minSize THEN size ELSE minSize
  /\ ReadersGone
  /\ UNCHANGED <<disk, synced, ledger, states, counts, losses, failed>>

\* The batches reach stable storage (which matters only if power is lost later).
Flush ==
  /\ losses < MaxLosses
  /\ synced' = disk
  /\ UNCHANGED <<disk, historySize, readerVars, ghostVars, failed>>

PowerLoss ==
  /\ losses < MaxLosses
  /\ losses' = losses + 1
  /\ disk' = synced
  /\ ReadersGone
  /\ UNCHANGED <<synced, historySize, ledger, states, counts, minSize, failed>>

-----------------------------------------------------------------------------

Next ==
  \/ \E n \in Heights, txs \in Contents : commitBlock(n, txs)
  \/ \E n \in Heights : HandleReplay(n)
  \/ \E r \in Readers : \/ \E bn \in -1..MaxBlock : NewSnapshot(r, bn)
                        \/ \E k \in Keys : GetCurrent(r, k)
                        \/ GetResult(r)
                        \/ releaseReader(r)
  \/ \E size \in HistorySizes : Reopen(size)
  \/ Flush
  \/ PowerLoss

Spec == Init /\ [][Next]_vars

-----------------------------------------------------------------------------
(* Properties *)

StateAt(h) ==
  states[CHOOSE g \in DOMAIN states : /\ g <= h
                                      /\ \A f \in DOMAIN states : f <= h => f <= g]

\* What a Get of k at height h returns if no commit comes between its reads.
Lookup(k, h) ==
  IF k \in DOMAIN disk.data /\ disk.data[k].blk <= h THEN disk.data[k] ELSE Seek(k, h)

\* The version of a record is the number of times the ledger wrote the key up to
\* the checkpoint, less one, through redeliveries, restarts and power losses.
VersionsFollowLedger ==
  \A k \in Keys :
    /\ k \in DOMAIN disk.data <=> counts[disk.head][k] > 0
    /\ k \in DOMAIN disk.data => disk.data[k].version = counts[disk.head][k] - 1

\* Every height that NewSnapshot admits, now, is answered with the state of that
\* height: a height whose history is pruned is refused, never answered with
\* newer values, whatever history size was in force when it was pruned.
AdmittedIsAnswerable ==
  \A h \in Heights, k \in Keys :
    disk.oldest <= h /\ h <= disk.head => Value(Lookup(k, h)) = StateAt(h)[k]

\* The window that the smallest configured size promises is kept: no height in
\* [head - size, head] is ever refused.
WindowKept == disk.oldest <= (IF disk.head > minSize THEN disk.head - minSize ELSE 0)

\* The pins are exactly the open readers, so that pruning neither overtakes a
\* reader nor waits for one that is gone.
PinsMatchReaders ==
  \A h \in Heights :
    openReaders[h] = Cardinality({r \in Readers : rpc[r] # "idle" /\ pin[r] = h})

\* A Get returns the value at the reader's height, even when blocks that
\* overwrite the key, and prune, are committed between its two reads.
GetsSeeTheirHeight ==
  \A r \in Readers : answer[r] # NoAnswer =>
    answer[r].value = StateAt(at[r])[answer[r].key]

\* The states that survived, and what each reader sees: every Get of it looks the
\* key up at the height it is pinned to.
Committed == [h \in {g \in DOMAIN states : g <= disk.head} |-> states[h]]
View == [r \in Readers |-> IF rpc[r] = "idle" THEN NoState
                           ELSE [k \in Keys |-> Value(Lookup(k, pin[r]))]]

=============================================================================
