------------------------------ MODULE EvmState ------------------------------
(***************************************************************************)
(* The EVM's state database on its own, as the endorser runs it, and next  *)
(* to go-ethereum's, as the conformance tests run it.  The initial state   *)
(* chooses which, and which operations the transaction uses between its    *)
(* snapshots.                                                              *)
(***************************************************************************)
EXTENDS DualStateDB

CONSTANTS
  a1, a2,
  DestroyedAgain  \* a contract may be destroyed a second time in a call within the first

VARIABLE use

\* An account with a balance and, as hardhat_setStorageAt leaves it, a stored slot;
\* another with a balance, at which a contract can still be created.
EvmStore == (<<"bal", a1>> :> 1) @@ (<<"slot", a1>> :> 2) @@ (<<"bal", a2>> :> 1)

Bounds ==
  [accounts       |-> [addrs |-> {a1},     journal |-> 4, revisions |-> 2],
   contracts      |-> [addrs |-> {a2},     journal |-> 7, revisions |-> 2],
   runtime        |-> [addrs |-> {a1},     journal |-> 4, revisions |-> 3],
   access         |-> [addrs |-> {a1, a2}, journal |-> 5, revisions |-> 3],
   dual           |-> [addrs |-> {a2},     journal |-> 4, revisions |-> 1],
   dual_contracts |-> [addrs |-> {a2},     journal |-> 7, revisions |-> 2],
   dual_runtime   |-> [addrs |-> {a2},     journal |-> 3, revisions |-> 2]]

Dual == use \in {"dual", "dual_contracts", "dual_runtime"}

EvmInit == DualInit /\ use \in DOMAIN Bounds

\* A contract's mark is journalled each time it self-destructs, with a snapshot between
\* the two: reverting to that snapshot takes the mark away.
Remarked ==
  \E i, j \in DOMAIN journal :
    /\ i < j /\ journal[i].t = "destruct" /\ journal[j] = journal[i]
    /\ \E r \in DOMAIN validRevisions : validRevisions[r].journalIndex \in i .. j - 1

\* The bounds on the journal and on the snapshots of the chosen use.
WithinBounds ==
  /\ Len(journal') <= Bounds[use].journal
  /\ nextRevisionId' <= Bounds[use].revisions
  /\ DestroyedAgain \/ ~Remarked'
  /\ UNCHANGED use

Alone == UNCHANGED <<eth, ethFrames, ethNextId>> /\ WithinBounds

EvmNext ==
  LET A == Bounds[use].addrs IN
  \/ use = "accounts" /\ StateOps(A) /\ Alone
  \/ use \in {"accounts", "contracts"} /\ ContractOps(A) /\ Alone
  \/ use = "runtime" /\ RuntimeOps(A) /\ Alone
  \/ use = "access" /\ AccessOps(A) /\ Alone
  \/ ~Dual /\ Frames /\ Alone
  \/ use = "dual" /\ DualStateOps(A) /\ WithinBounds
  \/ use \in {"dual", "dual_contracts"} /\ DualContractOps(A) /\ WithinBounds
  \/ use = "dual_runtime" /\ DualRuntimeOps(A) /\ WithinBounds
  \/ Dual /\ DualFrames /\ WithinBounds

EvmSpec == EvmInit /\ [][EvmNext]_<<dualVars, use>>

-----------------------------------------------------------------------------

\* The journal is the state: the lazily built index points at the last write of every
\* key, the read-write set of Result takes the store to what the EVM last saw, only
\* contracts of this transaction are destroyed, accounts do not share slots.  And
\* DualStateDB's "This allows both state implementations to be kept in sync during
\* execution": after every operation and revert that goes to both, StateDB answers
\* what go-ethereum would, and the two count their snapshots alike, so that
\* Snapshot never panics.  DestroyedAgain leaves out the one sequence
\* on which the two sides part (DestructionsAgree).
JournalIsTheState ==
  /\ IndexMatchesJournal /\ ResultReproducesState /\ DestructedAreNew /\ SlotMapsSeparate
  /\ Dual => SidesAgree /\ SnapshotIDsAgree

\* "This allows both state implementations to be kept in sync during execution": after
\* every revert StateDB answers HasSelfDestructed as go-ethereum does.  It does not: a
\* new contract that self-destructs again in a call that is reverted is destroyed for
\* go-ethereum, which marks it once, and not for StateDB (SelfDestruct journals
\* every time, and the undo of any entry deletes the mark).
DestructionsAgree == Dual => selfDestructed = eth.destructed
=============================================================================
