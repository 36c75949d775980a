----------------------------- MODULE DualStateDB -----------------------------
(***************************************************************************)
(* The state database of the conformance tests (endorser/execution/        *)
(* dual_statedb.go): every operation goes to a go-ethereum state database  *)
(* and to StateDB, reads are answered by StateDB, and the two must stay    *)
(* the same.  The go-ethereum side is external: its state is a record, and *)
(* a snapshot is a copy of it.                                             *)
(***************************************************************************)
EXTENDS StateDB

VARIABLES
  eth,        \* what can be asked of the go-ethereum state database
  ethFrames,  \* its open snapshots: [id, state]
  ethNextId

dualVars == <<vars, eth, ethFrames, ethNextId>>

Number(v) == IF v = Nil THEN 0 ELSE v

\* What the readers answer out of StateDB.
Answers ==
  [bal |-> [a \in Addrs |-> Number(getState(accKey(a, "bal")))],
   nonce |-> [a \in Addrs |-> Number(getState(accKey(a, "nonce")))],
   code |-> [a \in Addrs |-> getState(accKey(a, "code"))],
   exist |-> {a \in Addrs : Exist(a)},
   slot |-> [a \in Addrs |-> getState(accKey(a, "slot"))],
   refund |-> refund, logs |-> logs, destructed |-> selfDestructed,
   addrs |-> DOMAIN addresses, slots |-> {a \in Addrs : SlotInAccessList(a)},
   transient |-> [a \in Addrs |-> GetTransientState(a)]]

\* Both sides start from the same world state.
DualInit == Init /\ eth = Answers /\ ethFrames = <<>> /\ ethNextId = 0

EthBecomes(e) == eth' = e /\ UNCHANGED <<ethFrames, ethNextId>>

\* A write to an account that is not there makes go-ethereum start one; it stays until
\* the end of the transaction, empty or not.
EthWrites(a, e) == EthBecomes([e EXCEPT !.exist = @ \cup {a}])

-----------------------------------------------------------------------------
(* Operations: the go-ethereum side first, then StateDB *)

\* Reads go to both sides and change neither answer.
DualRead(k) == EthBecomes(eth) /\ Get(k)
DualCommitted(a) == EthBecomes(eth) /\ GetStateAndCommittedState(a)
DualExist(a) == EthBecomes(eth) /\ AskExist(a)
DualEmpty(a) == EthBecomes(eth) /\ AskEmpty(a)

DualAddBalance(a) == EthWrites(a, [eth EXCEPT !.bal[a] = @ + 1]) /\ AddBalance(a, 1)
\* The EVM has compared the amount with the balance that StateDB answers.
DualSubBalance(a) == EthWrites(a, [eth EXCEPT !.bal[a] = @ - 1]) /\ SubBalance(a, 1)
DualSetNonce(a) == EthWrites(a, [eth EXCEPT !.nonce[a] = 1]) /\ SetNonce(a, 1)
DualSetCode(a) == EthWrites(a, [eth EXCEPT !.code[a] = Code]) /\ SetCode(a, Code)
DualSetState(a, v) == EthWrites(a, [eth EXCEPT !.slot[a] = v]) /\ SetState(a, v)

\* go-ethereum starts a new account object.  An account gets its nonce before it gets
\* storage, so one that does not exist has none.
DualCreateAccount(a) ==
  /\ eth.slot[a] = Nil
  /\ EthWrites(a, [eth EXCEPT !.bal[a] = 0, !.nonce[a] = 0, !.code[a] = Nil])
  /\ CreateAccount(a)

\* go-ethereum marks the object; the EVM has asked StateDB for the account, has made it
\* where it was missing, and has found no code there.
DualCreateContract(a) ==
  /\ Exist(a)
  /\ eth.code[a] = Nil /\ EthBecomes(eth) /\ CreateContract(a)

\* go-ethereum destroys whatever it is told to; the EVM tells it of new contracts, and
\* IsNewContract is answered by StateDB.
DualSelfDestruct(a) ==
  /\ a \in newContracts
  /\ EthBecomes([eth EXCEPT !.bal[a] = 0, !.destructed = @ \cup {a}])
  /\ SelfDestruct(a)

DualAddRefund == EthBecomes([eth EXCEPT !.refund = @ + 1]) /\ AddRefund(1)
DualSubRefund == EthBecomes([eth EXCEPT !.refund = @ - 1]) /\ SubRefund(1)
DualAddLog == EthBecomes([eth EXCEPT !.logs = @ + 1]) /\ AddLog
DualSetTransientState(a, v) ==
  EthBecomes([eth EXCEPT !.transient[a] = v]) /\ SetTransientState(a, v)
DualAddAddress(a) == EthBecomes([eth EXCEPT !.addrs = @ \cup {a}]) /\ AddAddressToAccessList(a)
DualAddSlot(a) ==
  /\ EthBecomes([eth EXCEPT !.addrs = @ \cup {a}, !.slots = @ \cup {a}])
  /\ AddSlotToAccessList(a)
DualPrepare(warm, listed) ==
  /\ EthBecomes([eth EXCEPT !.addrs = warm \cup listed, !.slots = listed])
  /\ Prepare(warm, listed)

\* Both take a snapshot; identifiers that differ are a panic.
DualSnapshot ==
  /\ Snapshot
  /\ ethFrames' = Append(ethFrames, [id |-> ethNextId, state |-> eth])
  /\ ethNextId' = ethNextId + 1
  /\ UNCHANGED eth

\* Mutant: the snapshot that was reverted to can be used again.
EthRevisionsKept(i) == SubSeq(ethFrames, 1, i)

EthRevisions(i) == SubSeq(ethFrames, 1, i - 1)

\* The go-ethereum identifier is passed to both.
DualRevert(i) ==
  /\ eth' = ethFrames[i].state
  /\ ethFrames' = EthRevisions(i)
  /\ UNCHANGED ethNextId
  /\ \E j \in DOMAIN validRevisions :
       validRevisions[j].id = ethFrames[i].id /\ RevertToSnapshot(j)

DualStateOps(A) ==
  \/ \E k \in Keys : k[2] \in A /\ DualRead(k)
  \/ \E a \in A :
       \/ DualCommitted(a) \/ DualExist(a) \/ DualEmpty(a)
       \/ DualSetNonce(a) \/ \E v \in {Nil, 1} : DualSetState(a, v)

DualContractOps(A) ==
  \E a \in A :
    \/ DualAddBalance(a) \/ DualSubBalance(a) \/ DualSetCode(a)
    \/ DualCreateAccount(a) \/ DualCreateContract(a) \/ DualSelfDestruct(a)

DualRuntimeOps(A) ==
  \/ DualAddRefund \/ DualSubRefund \/ DualAddLog
  \/ \E a \in A, v \in {0, 1} : DualSetTransientState(a, v)
  \/ \E a \in A : DualAddAddress(a) \/ DualAddSlot(a)
  \/ \E warm \in SUBSET A \ {{}}, listed \in SUBSET A : DualPrepare(warm, listed)

DualFrames == DualSnapshot \/ \E i \in DOMAIN ethFrames : DualRevert(i)

DualNext == DualStateOps(Addrs) \/ DualContractOps(Addrs) \/ DualRuntimeOps(Addrs) \/ DualFrames

DualSpec == DualInit /\ [][DualNext]_dualVars

-----------------------------------------------------------------------------
(* Properties *)

\* "This allows both state implementations to be kept in sync during execution":
\* after every operation and every revert StateDB answers what go-ethereum would.  Of
\* existence less is true: an account that StateDB knows is there on the other side too,
\* where CreateContract needs it, but go-ethereum keeps an account that a write has left
\* empty, which StateDB does not tell from none ("Exist MISMATCH").
SidesAgree ==
  /\ \A f \in DOMAIN eth \ {"exist"} : Answers[f] = eth[f]
  /\ Answers.exist \subseteq eth.exist
  /\ \A a \in eth.exist \ Answers.exist :
       eth.bal[a] = 0 /\ eth.nonce[a] = 0 /\ eth.code[a] = Nil

\* Snapshot never panics: the two sides count their snapshots alike.
SnapshotIDsAgree ==
  /\ nextRevisionId = ethNextId
  /\ Len(validRevisions) = Len(ethFrames)
  /\ \A i \in DOMAIN ethFrames : validRevisions[i].id = ethFrames[i].id
=============================================================================
