---------------------------- MODULE GoTestEvents ----------------------------
(***************************************************************************)
(* The adapter of cmd/baseline for "go test -json": the test binary runs   *)
(* a tree of t.Run subtests and writes one event per line; the binary may  *)
(* be killed at any moment, and what it wrote until then is parsed.        *)
(*                                                                         *)
(* The stream is kept as what the parser's map keeps of it: for each name  *)
(* that appeared, its terminal status or "".                               *)
(***************************************************************************)
EXTENDS Naturals, FiniteSets, Functions

CONSTANTS Names, Parent     \* the tests, and the parent of each ("" for none)

VARIABLES
    infos,      \* name -> status, for the names that appeared in the stream
    alive       \* the binary is running

vars == <<infos, alive>>

Children(n) == {m \in Names : Parent[m] = n}
Started == DOMAIN infos
Running(n) == n \in Started /\ infos[n] = ""

Event(n, status) == infos' = [m \in Started \cup {n} |->
                                IF m = n THEN status ELSE infos[m]]

\* The "run" event and the output of a test that starts.
Start(n) ==
    /\ alive /\ n \notin Started
    /\ Parent[n] = "" \/ Running(Parent[n])
    /\ Event(n, "")
    /\ UNCHANGED alive

\* A test ends when its subtests have; the failure of one is its own, and it
\* may fail by itself.
End(n, status) ==
    /\ alive /\ Running(n)
    /\ \A m \in Children(n) : ~Running(m)
    /\ (\E m \in Children(n) \cap Started : infos[m] = "fail") => status = "fail"
    /\ Event(n, status)
    /\ UNCHANGED alive

\* The process ends: all tests are done, a panic, a timeout or a kill.
Exit ==
    /\ alive
    /\ alive' = FALSE
    /\ UNCHANGED infos

Init == infos = [m \in {} |-> ""] /\ alive = TRUE

Next ==
    \/ \E n \in Names : Start(n)
    \/ \E n \in Names, status \in {"pass", "fail", "skip"} : End(n, status)
    \/ Exit

Spec == Init /\ [][Next]_vars

(***************************************************************************)
(* ParseGoTestJSON.                                                        *)
(***************************************************************************)
HasChildren == {n \in Started : Children(n) \cap Started # {}}

UnfinishedDropped ==
    [n \in {m \in Started \ HasChildren : infos[m] # ""} |-> infos[n]]

ParseGoTestJSON ==
    [n \in Started \ HasChildren |-> IF infos[n] = "" THEN "fail" ELSE infos[n]]

Clean == "fail" \notin Range(ParseGoTestJSON)

(***************************************************************************)
(* Properties.                                                             *)
(***************************************************************************)

\* A stream that looks clean hides no test that was cut short while it ran, and
\* none that failed, among those without subtests ("surface it as a failure
\* rather than silently dropping it").
CleanMeansLeavesPassed ==
    Clean => \A n \in Started :
                Children(n) \cap Started = {} => infos[n] \in {"pass", "skip"}

=============================================================================
