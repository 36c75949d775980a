--------------------------- MODULE VersionedStore ---------------------------
(***************************************************************************)
(* What the endorser needs of a state store (storage.KVS): blocks are      *)
(* applied at growing heights, a reader is opened for a height and sees    *)
(* the state at that height until it is closed, whatever is committed in   *)
(* the meantime.  A store may go back to an earlier height, by a crash     *)
(* that loses the last blocks or by a revert.                              *)
(***************************************************************************)
EXTENDS Integers

CONSTANTS Keys, Values, Absent, Readers

VARIABLES tip,      \* the last height, -1 before the first block
          states,   \* the state at each height that was committed
          at,       \* reader -> the height it was opened for, -2 if closed
          view      \* reader -> the state it sees

vars == <<tip, states, at, view>>

None == -2
States == [Keys -> Values \cup {Absent}]

\* The state at height h: that of the last block at or before it.
StateAt(h) ==
  states[CHOOSE g \in DOMAIN states : /\ g <= h
                                      /\ \A f \in DOMAIN states : f <= h => f <= g]

Init ==
  /\ tip = -1
  /\ states = [h \in {-1} |-> [k \in Keys |-> Absent]]
  /\ at = [r \in Readers |-> None]
  /\ view = [r \in Readers |-> [k \in Keys |-> Absent]]

Commit ==
  /\ tip' > tip
  /\ \E s \in States :
       states' = [h \in DOMAIN states \cup {tip'} |-> IF h = tip' THEN s ELSE states[h]]
  /\ UNCHANGED <<at, view>>

Open(r) ==
  /\ at[r] = None
  /\ \E h \in -1..tip : /\ at' = [at EXCEPT ![r] = h]
                        /\ view' = [view EXCEPT ![r] = StateAt(h)]
  /\ UNCHANGED <<tip, states>>

Close(r) ==
  /\ at[r] # None
  /\ at' = [at EXCEPT ![r] = None]
  /\ view' = [view EXCEPT ![r] = [k \in Keys |-> Absent]]
  /\ UNCHANGED <<tip, states>>

\* The process dies and comes back at an earlier height, or at the same.
Restart ==
  /\ tip' <= tip
  /\ states' = [h \in {g \in DOMAIN states : g <= tip'} |-> states[h]]
  /\ at' = [r \in Readers |-> None]
  /\ view' = [r \in Readers |-> [k \in Keys |-> Absent]]

\* The state goes back to that of an earlier height; open readers stay.
Revert ==
  /\ tip' <= tip
  /\ states' = [h \in {g \in DOMAIN states : g < tip'} \cup {tip'} |->
                 IF h = tip' THEN StateAt(tip') ELSE states[h]]
  /\ UNCHANGED <<at, view>>

Next == Commit \/ (\E r \in Readers : Open(r) \/ Close(r)) \/ Restart \/ Revert

Spec == Init /\ [][Next]_vars
=============================================================================
