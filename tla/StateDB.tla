------------------------------- MODULE StateDB -------------------------------
(***************************************************************************)
(* The state database that the EVM runs on (endorser/execution/            *)
(* statedb.go): a journal over a pinned view of the world state.  Reads of *)
(* the view and all writes are journal entries; the index from keys to     *)
(* their latest write is built when it is first needed and dropped by a    *)
(* revert; the rest of the EVM's runtime state is undone entry by entry.   *)
(*                                                                         *)
(* A key is a field of an account or a storage slot.  Values are abstract: *)
(* Nil stands for the empty value, which is written as a delete.           *)
(***************************************************************************)
EXTENDS Integers, Sequences, FiniteSets, FiniteSetsExt, SequencesExt

CONSTANTS
  Addrs,
  Store,        \* the pinned view: key -> value, for the keys it has
  MaxJournal,   \* length of the journal (bound)
  MaxRevisions, \* snapshots taken (bound)
  MaxLogs,      \* logs (bound)
  Nil, Code

VARIABLES
  journal,
  indexed,         \* whether writeIdx is there
  writeIdx,        \* key -> position of its latest write
  logs, refund,
  selfDestructed, newContracts,
  addresses,       \* accessList.addresses: address -> position in slots, or -1
  slots,           \* accessList.slots
  transientStorage,
  validRevisions, nextRevisionId,
  frames           \* history: what could be observed at each valid revision

runtimeVars == <<logs, refund, transientStorage>>
contractVars == <<selfDestructed, newContracts>>
accessVars == <<addresses, slots>>
revisionVars == <<validRevisions, nextRevisionId, frames>>
vars == <<journal, indexed, writeIdx, runtimeVars, contractVars, accessVars, revisionVars>>

accKey(a, typ) == <<typ, a>>
Keys == {"bal", "nonce", "code", "slot"} \X Addrs
NoIndex == [k \in {} |-> 0]

Init ==
  /\ journal = <<>>
  /\ indexed = FALSE /\ writeIdx = NoIndex
  /\ logs = 0 /\ refund = 0
  /\ selfDestructed = {} /\ newContracts = {}
  /\ addresses = [a \in {} |-> -1] /\ slots = <<>>
  /\ transientStorage = [a \in {} |-> 0]
  /\ validRevisions = <<>> /\ nextRevisionId = 0 /\ frames = <<>>

-----------------------------------------------------------------------------
(* The journal *)

WritesOf(j, k) == {i \in DOMAIN j : j[i].t = "write" /\ j[i].k = k}
IndexOf(j) == [k \in {key \in Keys : WritesOf(j, key) # {}} |-> Max(WritesOf(j, k))]

\* The index that a lookup goes through: built on demand.
LookupIdx == IF indexed THEN writeIdx ELSE IndexOf(journal)

getStateFromJournal(k) ==
  LET idx == LookupIdx IN
  IF k \in DOMAIN idx THEN [found |-> TRUE, val |-> journal[idx[k]].v]
  ELSE [found |-> FALSE, val |-> Nil]

Stored(k) == IF k \in DOMAIN Store THEN Store[k] ELSE Nil

\* The value that getState returns.
getState(k) ==
  LET j == getStateFromJournal(k) IN IF j.found THEN j.val ELSE Stored(k)

readEntry(k) == [t |-> "read", k |-> k, v |-> Stored(k)]
writeEntry(k, v) == [t |-> "write", k |-> k, v |-> v]

\* The entries that getState appends for the keys it is asked for.
ReadsOf(ks) == LET missing(k) == ~getStateFromJournal(k).found IN
               [i \in DOMAIN SelectSeq(ks, missing) |-> readEntry(SelectSeq(ks, missing)[i])]

\* Mutant: a write does not move the index.
MoveNothing(idx, pos, ws) == idx

\* putState: a write behind position pos moves the index.
Moved(idx, pos, ws) ==
  [k \in DOMAIN idx \cup {ws[i].k : i \in DOMAIN ws} |->
     IF \E i \in DOMAIN ws : ws[i].k = k THEN pos + Max({i \in DOMAIN ws : ws[i].k = k})
     ELSE idx[k]]

\* Reads, writes and marks are journalled in this order, after a lookup or not.
Record(lookup, rs, ws, marks) ==
  /\ Len(journal) + Len(rs) + Len(ws) + Len(marks) <= MaxJournal
  /\ journal' = journal \o rs \o ws \o marks
  /\ indexed' = (indexed \/ lookup)
  /\ writeIdx' = IF indexed' THEN Moved(LookupIdx, Len(journal) + Len(rs), ws) ELSE writeIdx

Untouched == UNCHANGED <<runtimeVars, contractVars, accessVars, revisionVars>>

-----------------------------------------------------------------------------
(* Accounts and storage *)

\* An empty balance is written as a delete.
Encoded(n) == IF n = 0 THEN Nil ELSE n
BalanceOf(a) == LET v == getState(accKey(a, "bal")) IN IF v = Nil THEN 0 ELSE v

\* GetBalance, GetNonce, GetCode and GetState.
Get(k) == Record(TRUE, ReadsOf(<<k>>), <<>>, <<>>) /\ Untouched

\* The committed value always comes from the view and is always a read.
GetStateAndCommittedState(a) ==
  /\ Record(TRUE, <<readEntry(accKey(a, "slot"))>>, <<>>, <<>>)
  /\ Untouched

AddBalance(a, n) ==
  LET k == accKey(a, "bal") IN
  /\ Record(TRUE, ReadsOf(<<k>>), <<writeEntry(k, Encoded(BalanceOf(a) + n))>>, <<>>)
  /\ Untouched

\* The EVM subtracts only what it has checked to be there.
SubBalance(a, n) ==
  LET k == accKey(a, "bal") IN
  /\ BalanceOf(a) >= n
  /\ Record(TRUE, ReadsOf(<<k>>), <<writeEntry(k, Encoded(BalanceOf(a) - n))>>, <<>>)
  /\ Untouched

SetNonce(a, n) == Record(FALSE, <<>>, <<writeEntry(accKey(a, "nonce"), n)>>, <<>>) /\ Untouched

SetCode(a, c) ==
  LET k == accKey(a, "code") IN
  Record(TRUE, ReadsOf(<<k>>), <<writeEntry(k, c)>>, <<>>) /\ Untouched

\* A blind write: the previous value is looked up without becoming a read.
SetState(a, v) ==
  Record(TRUE, <<>>, <<writeEntry(accKey(a, "slot"), v)>>, <<>>) /\ Untouched

\* Exist asks for the fields in turn, up to the first that is there.
ExistReads(a) ==
  LET bal == accKey(a, "bal")  nonce == accKey(a, "nonce")  code == accKey(a, "code") IN
  IF getState(bal) # Nil THEN <<bal>>
  ELSE IF getState(nonce) # Nil THEN <<bal, nonce>> ELSE <<bal, nonce, code>>

\* Mutant: an account without a balance does not exist.
ExistByBalance(a) == getState(accKey(a, "bal")) # Nil

Exist(a) == \E typ \in {"bal", "nonce", "code"} : getState(accKey(a, typ)) # Nil

AskExist(a) == Record(TRUE, ReadsOf(ExistReads(a)), <<>>, <<>>) /\ Untouched

\* Empty asks likewise, for a balance, a nonce and code that are not zero.
EmptyReads(a) ==
  LET bal == accKey(a, "bal")  nonce == accKey(a, "nonce")  code == accKey(a, "code") IN
  IF getState(bal) # Nil THEN <<bal>>
  ELSE IF getState(nonce) \notin {Nil, 0} THEN <<bal, nonce>> ELSE <<bal, nonce, code>>

AskEmpty(a) == Record(TRUE, ReadsOf(EmptyReads(a)), <<>>, <<>>) /\ Untouched

\* Marked once, with a journal entry of its own.
Marking(a) == IF a \in newContracts THEN <<>> ELSE <<[t |-> "new", a |-> a]>>

CreateWith(a, ws) ==
  /\ Record(FALSE, <<>>, ws, Marking(a))
  /\ newContracts' = newContracts \cup {a}
  /\ UNCHANGED <<selfDestructed, runtimeVars, accessVars, revisionVars>>

\* The EVM creates an account only where there is none.
CreateAccount(a) ==
  /\ ~Exist(a)
  /\ CreateWith(a, <<writeEntry(accKey(a, "bal"), Nil), writeEntry(accKey(a, "nonce"), 0)>>)

CreateContract(a) == CreateWith(a, <<writeEntry(accKey(a, "code"), Nil)>>)

\* Mutant: every contract that self-destructs is destroyed.
DestroyAlways(a) == a \in Addrs

\* EIP-6780: only a contract of this transaction is destroyed.
Destroys(a) == a \in newContracts

SelfDestruct(a) ==
  LET k == accKey(a, "bal") IN
  /\ Record(TRUE, ReadsOf(<<k>>),
            IF BalanceOf(a) # 0 THEN <<writeEntry(k, Nil)>> ELSE <<>>,
            IF Destroys(a) THEN <<[t |-> "destruct", a |-> a]>> ELSE <<>>)
  /\ selfDestructed' = IF Destroys(a) THEN selfDestructed \cup {a} ELSE selfDestructed
  /\ UNCHANGED <<newContracts, runtimeVars, accessVars, revisionVars>>

-----------------------------------------------------------------------------
(* Runtime state *)

Journalled(es) == Record(FALSE, <<>>, <<>>, es)

AddRefund(gas) ==
  /\ Journalled(<<[t |-> "refund", prev |-> refund]>>)
  /\ refund' = refund + gas
  /\ UNCHANGED <<logs, transientStorage, contractVars, accessVars, revisionVars>>

SubRefund(gas) ==
  /\ gas <= refund
  /\ Journalled(<<[t |-> "refund", prev |-> refund]>>)
  /\ refund' = refund - gas
  /\ UNCHANGED <<logs, transientStorage, contractVars, accessVars, revisionVars>>

\* Logs are not journalled; a snapshot remembers how many there are.
AddLog ==
  /\ logs < MaxLogs
  /\ logs' = logs + 1
  /\ UNCHANGED <<journal, indexed, writeIdx, refund, transientStorage, contractVars, accessVars,
                 revisionVars>>

GetTransientState(a) == IF a \in DOMAIN transientStorage THEN transientStorage[a] ELSE 0

SetTransientState(a, v) ==
  /\ Journalled(<<[t |-> "transient", a |-> a, prev |-> GetTransientState(a)]>>)
  /\ transientStorage' = [x \in DOMAIN transientStorage \cup {a} |->
                            IF x = a THEN v ELSE transientStorage[x]]
  /\ UNCHANGED <<logs, refund, contractVars, accessVars, revisionVars>>

\* accessList.contains, for one slot per address.
SlotInAccessList(a) == a \in DOMAIN addresses /\ addresses[a] # -1 /\ slots[addresses[a]] # {}

AddAddressToAccessList(a) ==
  /\ a \notin DOMAIN addresses
  /\ Journalled(<<[t |-> "address", a |-> a]>>)
  /\ addresses' = [x \in DOMAIN addresses \cup {a} |-> IF x = a THEN -1 ELSE addresses[x]]
  /\ UNCHANGED <<slots, runtimeVars, contractVars, revisionVars>>

\* Mutant: the map is numbered by the addresses that have one.
NumberedByUse == Cardinality({a \in DOMAIN addresses : addresses[a] # -1}) + 1

\* An address without a slot map gets a new one at the end.
NewSlotMap == Len(slots) + 1

AddSlotToAccessList(a) ==
  /\ ~SlotInAccessList(a)
  /\ Journalled((IF a \in DOMAIN addresses THEN <<>> ELSE <<[t |-> "address", a |-> a]>>)
                \o <<[t |-> "slot", a |-> a]>>)
  /\ IF a \notin DOMAIN addresses \/ addresses[a] = -1
     THEN /\ addresses' = [x \in DOMAIN addresses \cup {a} |->
                             IF x = a THEN NewSlotMap ELSE addresses[x]]
          /\ slots' = Append(slots, {a})
     ELSE /\ slots' = [slots EXCEPT ![addresses[a]] = {a}]
          /\ UNCHANGED addresses
  /\ UNCHANGED <<runtimeVars, contractVars, revisionVars>>

\* At the start of a transaction, before any snapshot and any use of the access list:
\* a new list, outside the journal.  Warm are the sender, the destination, the
\* precompiles, the coinbase and what the transaction lists without a slot; each
\* address that it lists with its slot gets a slot map.
Prepare(warm, listed) ==
  LET mapOf == SetToSeq(listed) IN
  /\ nextRevisionId = 0 /\ \A i \in DOMAIN journal : journal[i].t \notin {"address", "slot"}
  /\ addresses' = [x \in warm \cup listed |->
                     IF x \in listed THEN CHOOSE i \in DOMAIN mapOf : mapOf[i] = x ELSE -1]
  /\ slots' = [i \in DOMAIN mapOf |-> {mapOf[i]}]
  /\ UNCHANGED <<journal, indexed, writeIdx, runtimeVars, contractVars, revisionVars>>

-----------------------------------------------------------------------------
(* Snapshots *)

\* Everything that can be asked of the database.
Observed ==
  [vals |-> [k \in Keys |-> getState(k)], refund |-> refund, logs |-> logs,
   destructed |-> selfDestructed, new |-> newContracts,
   addrs |-> DOMAIN addresses, slots |-> {a \in Addrs : SlotInAccessList(a)},
   transient |-> [a \in Addrs |-> GetTransientState(a)]]

Snapshot ==
  /\ nextRevisionId < MaxRevisions
  /\ validRevisions' = Append(validRevisions,
       [id |-> nextRevisionId, journalIndex |-> Len(journal), logIndex |-> logs])
  /\ nextRevisionId' = nextRevisionId + 1
  /\ frames' = Append(frames, [id |-> nextRevisionId, state |-> Observed])
  /\ UNCHANGED <<journal, indexed, writeIdx, runtimeVars, contractVars, accessVars>>

\* The entries from position n on, latest first.
Undone(n) == Reverse(SubSeq(journal, n + 1, Len(journal)))

\* The oldest of the undone entries of a kind holds the value to restore.
Restored(entries, now) == IF entries = <<>> THEN now ELSE Last(entries).prev

\* Mutant: the latest of the undone entries decides.
RefundLatest(n) ==
  LET isRefund(e) == e.t = "refund" IN
  IF SelectSeq(Undone(n), isRefund) = <<>> THEN refund
  ELSE SelectSeq(Undone(n), isRefund)[1].prev

RefundBefore(n) ==
  LET isRefund(e) == e.t = "refund" IN
  Restored(SelectSeq(Undone(n), isRefund), refund)

TransientBefore(n) ==
  [a \in DOMAIN transientStorage |->
     LET ofA(e) == e.t = "transient" /\ e.a = a IN
     Restored(SelectSeq(Undone(n), ofA), transientStorage[a])]

Marked(n, kind) == {e.a : e \in {f \in ToSet(Undone(n)) : f.t = kind}}

\* deleteSlot empties the map and leaves it where it is; deleteAddress follows.
SlotsBefore(n) ==
  [i \in DOMAIN slots |->
     IF \E a \in Marked(n, "slot") \cap DOMAIN addresses : addresses[a] = i THEN {} ELSE slots[i]]

\* Mutant: the addresses that got their first slot go with the slot.
DroppedWithSlot(n) == Marked(n, "address") \cup Marked(n, "slot")

DroppedAddresses(n) == Marked(n, "address")

\* Mutant: a contract stays new when its creation is reverted.
MarksKept(n) == newContracts

ContractsBefore(n) == newContracts \ Marked(n, "new")

\* Mutant: a contract stays destroyed when the call that destroyed it is reverted.
DestructionsKept(n) == selfDestructed

DestructedBefore(n) == selfDestructed \ Marked(n, "destruct")

\* Mutant: the index survives the truncation.
IndexKept == UNCHANGED <<indexed, writeIdx>>

IndexDropped == indexed' = FALSE /\ writeIdx' = NoIndex

RevertToSnapshot(i) ==
  LET rev == validRevisions[i]
      n == rev.journalIndex IN
  /\ refund' = RefundBefore(n)
  /\ transientStorage' = TransientBefore(n)
  /\ selfDestructed' = DestructedBefore(n)
  /\ newContracts' = ContractsBefore(n)
  /\ slots' = SlotsBefore(n)
  /\ addresses' = [a \in DOMAIN addresses \ DroppedAddresses(n) |-> addresses[a]]
  /\ journal' = SubSeq(journal, 1, n)
  /\ IndexDropped
  /\ logs' = rev.logIndex
  /\ validRevisions' = SubSeq(validRevisions, 1, i - 1)
  /\ frames' = SubSeq(frames, 1, i - 1)
  /\ UNCHANGED nextRevisionId

-----------------------------------------------------------------------------

\* What the EVM asks of the accounts in A, of the contracts that come and go there, of
\* the runtime state, of the access list.
StateOps(A) ==
  \/ \E k \in Keys : k[2] \in A /\ Get(k)
  \/ \E a \in A :
       \/ GetStateAndCommittedState(a)
       \/ SetNonce(a, 1) \/ \E v \in {Nil, 1} : SetState(a, v)
       \/ AskExist(a) \/ AskEmpty(a)

ContractOps(A) ==
  \E a \in A :
    \/ AddBalance(a, 1) \/ SubBalance(a, 1) \/ SetCode(a, Code)
    \/ CreateAccount(a) \/ CreateContract(a) \/ SelfDestruct(a)

RuntimeOps(A) ==
  \/ AddRefund(1) \/ SubRefund(1) \/ AddLog
  \/ \E a \in A, v \in {0, 1} : SetTransientState(a, v)

AccessOps(A) ==
  \/ \E a \in A : AddAddressToAccessList(a) \/ AddSlotToAccessList(a)
  \/ \E warm \in SUBSET A \ {{}}, listed \in SUBSET A : Prepare(warm, listed)

Frames == Snapshot \/ \E i \in DOMAIN validRevisions : RevertToSnapshot(i)

Next == StateOps(Addrs) \/ ContractOps(Addrs) \/ RuntimeOps(Addrs) \/ AccessOps(Addrs) \/ Frames

Spec == Init /\ [][Next]_vars

-----------------------------------------------------------------------------
(* The read-write set *)

\* Result: the last write of a key.
WriteSet == [k \in DOMAIN IndexOf(journal) |-> journal[IndexOf(journal)[k]].v]

-----------------------------------------------------------------------------
(* Properties *)

\* When the index exists it names the latest write of every written key: what
\* putState maintains, and what a lookup after a revert relies on.
IndexMatchesJournal == indexed => writeIdx = IndexOf(journal)

\* The read-write set that Result builds takes the view to the state that the
\* EVM saw at the end: committing the endorsement commits what was simulated.
ResultReproducesState ==
  \A k \in Keys : getState(k) = IF k \in DOMAIN WriteSet THEN WriteSet[k] ELSE Stored(k)

\* Only a contract that is still new, over all reverts, is destroyed.
DestructedAreNew == selfDestructed \subseteq newContracts

\* Every address with slots has a slot map of its own: the maps that reverts leave
\* behind are not picked up by another address.
SlotMapsSeparate ==
  \A a \in DOMAIN addresses : addresses[a] # -1 =>
    /\ addresses[a] \in DOMAIN slots
    /\ slots[addresses[a]] \subseteq {a}
    /\ \A b \in DOMAIN addresses \ {a} : addresses[b] # addresses[a]

\* A revert restores every part of the state at once, whatever calls were nested in
\* between and reverted on their own.
Calls == INSTANCE CallFrames WITH state <- Observed, nextId <- nextRevisionId

RevertsRestore == Calls!Spec

=============================================================================
