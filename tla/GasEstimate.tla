----------------------------- MODULE GasEstimate -----------------------------
(***************************************************************************)
(* EstimateGas (gateway/core/endorse.go): a first probe at the ceiling,    *)
(* then guesses from the gas it used, doubled until one works.  Blocks may *)
(* be committed between the probes, each of which is a call of the         *)
(* endorser on the latest state (endorser/execution/executor.go).          *)
(*                                                                         *)
(* A state is what the call does in it: it succeeds with at least need gas *)
(* and uses used; with less it fails in one of three ways.  "catch" is a   *)
(* contract that notices that an inner call ran out of gas and reverts     *)
(* with a reason.                                                          *)
(***************************************************************************)
EXTENDS Naturals, FiniteSets

CONSTANTS
  Ceiling,       \* estimateGasCeiling
  Buffer,        \* sstoreSentryBuffer
  MaxTxGas,      \* the endorser's cap on a transaction's gas, 0 for none
  States,        \* [need, used, low]; low in {"out of gas", "empty revert", "catch"}
  MaxBlocks      \* blocks committed during the estimate (bound)

VARIABLES
  state, blocks,
  pc,            \* "ceiling", "guess" or "done"
  guess,
  result,        \* [t |-> "gas", gas], [t |-> "error", what] or [t |-> "none"]
  verified       \* history: the gas limits with which the call succeeded

vars == <<state, blocks, pc, guess, result, verified>>

Init ==
  /\ state \in States /\ blocks = 0
  /\ pc = "ceiling" /\ guess = 0
  /\ result = [t |-> "none"] /\ verified = {}

\* execute: the limit is capped.
Limit(gas) == IF MaxTxGas > 0 /\ gas > MaxTxGas THEN MaxTxGas ELSE gas

\* Call at the endorser.
Outcome(gas) == IF Limit(gas) >= state.need THEN "ok" ELSE state.low

\* Mutant: an empty revert is no error, as for a call.
EmptyIsSuccess(gas) == Outcome(gas) \in {"ok", "empty revert"}

Worked(gas) == Outcome(gas) = "ok"

Probe(gas) ==
  verified' = IF Outcome(gas) = "ok" THEN verified \cup {gas} ELSE verified

Done(r) == pc' = "done" /\ result' = r /\ UNCHANGED guess

Gas(g) == [t |-> "gas", gas |-> g]

\* Out of gas and an empty revert leave it open whether more gas helps.
ProbeCeiling ==
  /\ pc = "ceiling"
  /\ Probe(Ceiling)
  /\ IF Worked(Ceiling)
     THEN /\ pc' = "guess" /\ guess' = state.used + Buffer
          /\ UNCHANGED result
     ELSE Done([t |-> "error",
                what |-> IF Outcome(Ceiling) = "catch" THEN "reverted" ELSE "exceeds allowance"])
  /\ UNCHANGED <<state, blocks>>

\* Mutant: the guess does not grow.
NotDoubled(g) == g

Doubled(g) == 2 * g

ProbeGuess ==
  /\ pc = "guess" /\ guess < Ceiling
  /\ Probe(guess)
  /\ IF Worked(guess) THEN Done(Gas(guess))
     ELSE IF Outcome(guess) = "catch" THEN Done([t |-> "error", what |-> "reverted"])
     ELSE guess' = Doubled(guess) /\ UNCHANGED <<pc, result>>
  /\ UNCHANGED <<state, blocks>>

GiveCeiling ==
  /\ pc = "guess" /\ guess >= Ceiling
  /\ Done(Gas(Ceiling))
  /\ UNCHANGED <<state, blocks, verified>>

Block ==
  /\ pc # "done" /\ blocks < MaxBlocks
  /\ blocks' = blocks + 1 /\ state' \in States
  /\ UNCHANGED <<pc, guess, result, verified>>

Estimate == ProbeCeiling \/ ProbeGuess \/ GiveCeiling

Next == Estimate \/ Block

Spec == Init /\ [][Next]_vars /\ WF_vars(Estimate)

-----------------------------------------------------------------------------
(* Properties *)

\* "EstimateGas returns a gas limit verified to work if resubmitted": the call has
\* succeeded with the very limit that is returned, at a state of the time.
EstimateVerified == result.t = "gas" => result.gas \in verified

\* Without a block in between the limit works on the state that there is.
EstimateSufficient == result.t = "gas" /\ blocks = 0 => Outcome(result.gas) = "ok"

=============================================================================
