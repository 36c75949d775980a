---------------------------- MODULE StatePriming ----------------------------
(***************************************************************************)
(* hardhat_setBalance, hardhat_setCode and hardhat_setStorageAt on a test  *)
(* node: every call commits a priming transaction through the one          *)
(* StatePrimer and waits until the value can be read.                      *)
(*                                                                         *)
(* The primer's StateDB is abstracted to the writes queued in it and the   *)
(* versions it has read; a balance and a code are read before they are     *)
(* written, a storage slot is written blindly.  Transactions are ordered,  *)
(* validated against the ledger's versions and then applied to the         *)
(* endorser's state, which the gateway reads.                              *)
(***************************************************************************)
EXTENDS Integers, Sequences

CONSTANTS
  Callers,       \* requests to the test node
  Balances, Codes, Slots,    \* the keys of the state
  Values,
  MaxUserTxs     \* bound: transactions of users that write the same keys

ASSUME KeysDiffer == Slots \cap (Balances \cup Codes) = {} /\ Balances \cap Codes = {}

ReadKeys == Balances \cup Codes
Keys == ReadKeys \cup Slots

VARIABLES
  pc,            \* where each call is
  want,          \* the key and value it asks for
  lock,          \* primeMu: the caller that holds it, or Free
  writes,        \* the writes queued in the primer's StateDB
  reads,         \* the versions it has read
  orderer,       \* the transactions that are not in a block yet
  ledger,        \* the committed value and version of each key
  blocks,        \* the writes that the endorser's state has not applied yet
  kvs,           \* the endorser's state
  sent,          \* the priming transaction of each caller
  users          \* the transactions of users so far

primerVars == <<lock, writes, reads>>
chainVars == <<orderer, ledger, blocks, kvs, users>>
vars == <<pc, want, primerVars, chainVars, sent>>

Free == "free"
ASSUME FreeIsNobody == Free \notin Callers

NoTx == [writes |-> <<>>, reads |-> <<>>]
None == <<>>                 \* the function with the empty domain
Returned == {"ok", "timeout", "error"}

Init ==
  /\ pc = [c \in Callers |-> "idle"] /\ want \in [Callers -> Keys \X Values]
  /\ lock = Free /\ writes = None /\ reads = None
  /\ \E v \in Values : ledger = [k \in Keys |-> [val |-> v, ver |-> 0]]
  /\ kvs = ledger /\ orderer = <<>> /\ blocks = <<>>
  /\ sent = [c \in Callers |-> NoTx] /\ users = 0

Goto(c, l) == pc' = [pc EXCEPT ![c] = l]
Key(c) == want[c][1]
Val(c) == want[c][2]

-----------------------------------------------------------------------------
(* The chain *)

\* Versions are checked when the transaction is validated.
Valid(tx) == \A k \in DOMAIN tx.reads : tx.reads[k] = ledger[k].ver

CutBlock ==
  /\ orderer # <<>>
  /\ orderer' = Tail(orderer)
  /\ LET tx == Head(orderer)
         new == [k \in DOMAIN tx.writes |-> [val |-> tx.writes[k], ver |-> ledger[k].ver + 1]]
     IN  IF Valid(tx)
         THEN /\ ledger' = [k \in Keys |-> IF k \in DOMAIN new THEN new[k] ELSE ledger[k]]
              /\ blocks' = Append(blocks, new)
         ELSE UNCHANGED <<ledger, blocks>>
  /\ UNCHANGED <<pc, want, primerVars, kvs, users, sent>>

Synchronize ==
  /\ blocks # <<>>
  /\ kvs' = [k \in Keys |-> IF k \in DOMAIN Head(blocks) THEN Head(blocks)[k] ELSE kvs[k]]
  /\ blocks' = Tail(blocks)
  /\ UNCHANGED <<pc, want, primerVars, orderer, ledger, users, sent>>

\* A user's transaction, endorsed on the endorser's state.
UserSends(k, v) ==
  /\ users < MaxUserTxs /\ users' = users + 1
  /\ orderer' = Append(orderer, [writes |-> [x \in {k} |-> v], reads |-> [x \in {k} |-> kvs[k].ver]])
  /\ UNCHANGED <<pc, want, primerVars, ledger, blocks, kvs, sent>>

-----------------------------------------------------------------------------
(* The primer *)

\* Reset: a new StateDB over a new snapshot, whatever was queued.
Reset(ws) == None

\* SetBalance drives the balance to the target by the difference to the one it reads,
\* and writes nothing when there is none.  SetCode reads and writes, SetStorage writes.
Applied(ws, k, v) ==
  IF k \in Balances /\ kvs[k].val = v THEN ws
  ELSE [x \in DOMAIN ws \cup {k} |-> IF x = k THEN v ELSE ws[x]]

\* Mutant: a balance is written without having been read.
ReadsNothing(k) == None

ReadBy(k) == IF k \in ReadKeys THEN [x \in {k} |-> kvs[k].ver] ELSE None

\* Commit endorses what the StateDB has recorded.
PrimingTx == [writes |-> writes, reads |-> reads]

-----------------------------------------------------------------------------
(* prime *)

Call(c) ==
  /\ pc[c] = "idle" /\ Goto(c, "confirm")
  /\ UNCHANGED <<want, primerVars, chainVars, sent>>

Readable(c) == kvs[Key(c)].val = Val(c)

\* A value that is already there needs no transaction; a broken read path ends the call.
Confirm(c) ==
  /\ pc[c] = "confirm"
  /\ \/ Readable(c) /\ Goto(c, "ok")
     \/ ~ Readable(c) /\ Goto(c, "lock")
     \/ Goto(c, "error")
  /\ UNCHANGED <<want, primerVars, chainVars, sent>>

\* Mutant: the primer is not guarded.
NoMutex(c) ==
  /\ pc[c] = "lock" /\ lock' = c /\ Goto(c, "apply")
  /\ UNCHANGED <<want, writes, reads, chainVars, sent>>

Lock(c) ==
  /\ pc[c] = "lock" /\ lock = Free
  /\ lock' = c /\ Goto(c, "apply")
  /\ UNCHANGED <<want, writes, reads, chainVars, sent>>

\* Reset and apply, on one snapshot; Reset may fail.
Apply(c) ==
  /\ pc[c] = "apply"
  /\ \/ /\ writes' = Applied(Reset(writes), Key(c), Val(c))
        /\ reads' = ReadBy(Key(c))
        /\ Goto(c, "commit") /\ UNCHANGED lock
     \/ Goto(c, "error") /\ lock' = Free /\ UNCHANGED <<writes, reads>>
  /\ UNCHANGED <<want, chainVars, sent>>

\* Commit without waiting: the transaction is handed to the orderer, or it fails and
\* what was queued stays in the StateDB.
Commit(c) ==
  /\ pc[c] = "commit"
  /\ \/ /\ orderer' = Append(orderer, PrimingTx)
        /\ sent' = [sent EXCEPT ![c] = PrimingTx]
        /\ Goto(c, "poll") /\ UNCHANGED lock
     \/ Goto(c, "error") /\ lock' = Free /\ UNCHANGED <<orderer, sent>>
  /\ UNCHANGED <<want, writes, reads, ledger, blocks, kvs, users>>

Poll(c) ==
  /\ pc[c] = "poll"
  /\ \/ Readable(c) /\ Goto(c, "ok")
     \/ Goto(c, "error")
  /\ lock' = Free
  /\ UNCHANGED <<want, writes, reads, chainVars, sent>>

\* Mutant: the wait has no deadline of its own.
WaitsOn(c) == FALSE /\ UNCHANGED vars

\* primeCommitTimeout, or the client gives up.
Timeout(c) ==
  /\ pc[c] = "poll" /\ ~ Readable(c)
  /\ Goto(c, "timeout") /\ lock' = Free
  /\ UNCHANGED <<want, writes, reads, chainVars, sent>>

prime(c) == Confirm(c) \/ Lock(c) \/ Apply(c) \/ Commit(c) \/ Poll(c)

Next ==
  \/ \E c \in Callers : Call(c) \/ prime(c) \/ Timeout(c)
  \/ CutBlock \/ Synchronize
  \/ \E k \in Keys, v \in Values : UserSends(k, v)

Spec == Init /\ [][Next]_vars

-----------------------------------------------------------------------------
(* Properties *)

\* "this transaction carries only the write we are about to make": whatever earlier
\* calls have left in the primer, by failing or by timing out, a priming transaction
\* writes nothing but the key and value of its own call.
CarriesOnlyItsWrite ==
  \A c \in Callers : \A k \in DOMAIN sent[c].writes : k = Key(c) /\ sent[c].writes[k] = Val(c)

\* A change of a balance or a code is never made on top of a value that has moved on:
\* the ledger takes the priming transaction only if the state it was computed from is
\* still the committed one, so a user's transaction in between is not undone.
NothingOverwritten ==
  [][\A c \in Callers :
       /\ CutBlock /\ Head(orderer) = sent[c] /\ Key(c) \in ReadKeys /\ sent[c].writes # None
       /\ ledger' # ledger
       => Key(c) \in DOMAIN sent[c].reads /\ sent[c].reads[Key(c)] = ledger[Key(c)].ver]_vars

=============================================================================
