----------------------------- MODULE CallFrames -----------------------------
(***************************************************************************)
(* What the EVM asks of its state database: a state that operations        *)
(* change, and frames that bring the state of their beginning back, for    *)
(* every part of the state at once.                                        *)
(***************************************************************************)
EXTENDS Naturals, Sequences

VARIABLES
  state,   \* everything that can be asked of the database
  frames,  \* the open snapshots, oldest first: [id, state]
  nextId

Init == frames = <<>> /\ nextId = 0

Change == UNCHANGED <<frames, nextId>>

Snapshot ==
  /\ frames' = Append(frames, [id |-> nextId, state |-> state])
  /\ nextId' = nextId + 1
  /\ UNCHANGED state

\* The snapshot and those after it are used up.
Revert(i) ==
  /\ i \in DOMAIN frames
  /\ state' = frames[i].state
  /\ frames' = SubSeq(frames, 1, i - 1)
  /\ UNCHANGED nextId

Next == Change \/ Snapshot \/ \E i \in DOMAIN frames : Revert(i)

Spec == Init /\ [][Next]_<<state, frames, nextId>>
=============================================================================
