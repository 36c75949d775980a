------------------------------ MODULE BlockFeed ------------------------------
(***************************************************************************)
(* What a synchronizer promises the handler chain, whatever feeds it: one  *)
(* block at a time passes through the handlers in order, block numbers     *)
(* only grow within one process life, they grow without gaps until the     *)
(* feed goes live, and a new life resumes at the height of the store that  *)
(* the synchronizer reads (synchronizer.New: "delivers committed blocks to *)
(* handlers, in order").                                                   *)
(***************************************************************************)
EXTENDS Integers

CONSTANTS NumHandlers,  \* length of the handler chain
          Reader        \* the handler whose height the feed resumes from

None == -2              \* no block: block numbers are naturals, -1 is "empty"

VARIABLES height,       \* height[h]: highest block handler h has applied
          cur,          \* the block in the handler chain, or None
          stage,        \* the handler that takes cur next
          last,         \* the last block begun in this process life, or None
          live          \* the feed may skip block numbers

vars == <<height, cur, stage, last, live>>

Handlers == 1..NumHandlers

Higher(a, b) == IF a < b THEN b ELSE a

Init ==
  /\ height = [h \in Handlers |-> -1]
  /\ cur = None
  /\ stage = 1
  /\ last = None
  /\ live = FALSE

\* The blocks that may enter the chain next.
MayBegin(b) ==
  \/ last = None /\ ~live /\ b \in {height[Reader], height[Reader] + 1}
  \/ last = None /\ live /\ b >= height[Reader]
  \/ last # None /\ ~live /\ b = last + 1
  \/ last # None /\ live /\ b > last

Begin ==
  /\ cur = None
  /\ cur' \in Nat
  /\ MayBegin(cur')
  /\ stage' = 1
  /\ last' = cur'
  /\ UNCHANGED <<height, live>>

Apply ==
  /\ cur # None
  /\ height' = [height EXCEPT ![stage] = Higher(@, cur)]
  /\ IF stage = NumHandlers THEN cur' = None /\ stage' = 1
                            ELSE cur' = cur /\ stage' = stage + 1
  /\ UNCHANGED <<last, live>>

\* The feed goes live between two blocks.
GoLive ==
  /\ cur = None
  /\ live' = TRUE
  /\ UNCHANGED <<height, cur, stage, last>>

Crash ==
  /\ cur' = None
  /\ stage' = 1
  /\ last' = None
  /\ live' = FALSE
  /\ UNCHANGED height

Next == Begin \/ Apply \/ GoLive \/ Crash

Spec == Init /\ [][Next]_vars
==============================================================================
