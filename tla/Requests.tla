------------------------------ MODULE Requests ------------------------------
(***************************************************************************)
(* What a request of a client meets in the gateway and the endorsers: the  *)
(* timestamps of a transaction (TxTimes), the endorsement of a transaction *)
(* (Endorsing), a gas estimate (GasEstimate), the endorsement API on the   *)
(* wire (EndorserRPC), the state in the query service (QueryKVS) and the   *)
(* errors the client is told (RpcErrors).                                  *)
(*                                                                         *)
(* The initial state chooses the part that a behaviour is about.  TxTimes  *)
(* has its variables; of the other parts only the chosen one has a state,  *)
(* so that they share the variables c1, ..., c9.                           *)
(***************************************************************************)
EXTENDS TxTimes, Integers, Sequences, FiniteSets

CONSTANTS Absent, NoRecord

VARIABLES part, c1, c2, c3, c4, c5, c6, c7, c8, c9

more == <<c7, c8, c9>>
parts == <<c1, c2, c3, c4, c5, c6, more>>
allVars == <<part, vars, parts>>

\* Two transactions compete for the first nonce; the third one follows.
NonceOf == [t1 |-> 0, t2 |-> 0, t3 |-> 1]
Endorse == INSTANCE Endorsing WITH
  Txs <- DOMAIN NonceOf, Nonce <- NonceOf,
  Kind <- [t1 |-> "ok", t2 |-> "revert", t3 |-> "fault"],
  Endorsers <- {"e1", "e2"}, Local <- "e1", MaxSkew <- 1, Skews <- {0}, Faulty <- {},
  skew <- c1, up <- c2, view <- c3, phase <- c4, callerCancelled <- c5,
  cancelled <- c6, answer <- c7, returned <- c8, committed <- c9

\* A transaction that the state transition refuses and one it applies; clocks at
\* the bound and past it.
Refuse == INSTANCE Endorsing WITH
  Txs <- {"t1", "t2"}, Nonce <- NonceOf, Kind <- [t1 |-> "reject", t2 |-> "ok"],
  Endorsers <- {"e1", "e2"}, Local <- "e1", MaxSkew <- 1, Skews <- {-2, 1, 2}, Faulty <- {"e1", "e2"},
  skew <- c1, up <- c2, view <- c3, phase <- c4, callerCancelled <- c5,
  cancelled <- c6, answer <- c7, returned <- c8, committed <- c9

\* From a transfer to a call that needs more than there is.
GasStates(needs, uses) ==
  {s \in [need : needs, used : uses, low : {"out of gas", "empty revert", "catch"}] :
     s.used <= s.need}
Estimate == INSTANCE GasEstimate WITH
  Ceiling <- 10, Buffer <- 1, MaxTxGas <- 0, MaxBlocks <- 2,
  States <- GasStates({2, 7, 11}, {1, 2, 6}),
  state <- c1, blocks <- c2, pc <- c3, guess <- c4, result <- c5, verified <- c6

\* The endorser caps the gas, and no block is committed meanwhile.
Capped == INSTANCE GasEstimate WITH
  Ceiling <- 10, Buffer <- 1, MaxTxGas <- 8, MaxBlocks <- 0,
  States <- GasStates(1 .. 12, 1 .. 10),
  state <- c1, blocks <- c2, pc <- c3, guess <- c4, result <- c5, verified <- c6

Wire == INSTANCE EndorserRPC WITH
  Addr <- "addr", Zero <- "zero",
  request <- c1, answer <- c2, hop <- c3, wire <- c4, asked <- c5, got <- c6

Query == INSTANCE QueryKVS WITH
  Requests <- {"r1", "r2"}, Keys <- {"x", "y"}, MaxCommits <- 2, None <- NoRecord,
  commits <- c1, views <- c2, pinned <- c3, phase <- c4, cache <- c5, height <- c6

Errors == INSTANCE RpcErrors WITH
  method <- c1, args <- c2, cause <- c3, stage <- c4, err <- c5, reply <- c6

-----------------------------------------------------------------------------

Unused == c7 = 0 /\ c8 = 0 /\ c9 = 0

\* Call arguments of which at most two are given.
FewArguments == Cardinality({f \in Errors!Fields : c2[f] # "absent"}) <= 2

RequestsInit ==
  /\ Init
  /\ \/ part \in {"times", "one_sender"} /\ c1 = 0 /\ c2 = 0 /\ c3 = 0 /\ c4 = 0 /\ c5 = 0 /\ c6 = 0 /\ Unused
     \/ part = "endorse" /\ Endorse!Init
     \/ part = "refuse" /\ Refuse!Init
     \/ part = "estimate" /\ Estimate!Init /\ Unused
     \/ part = "capped" /\ Capped!Init /\ Unused
     \/ part = "wire" /\ Wire!Init /\ Unused
     \/ part = "query" /\ Query!Init /\ Unused
     \/ part = "errors" /\ Errors!Init /\ FewArguments /\ Unused

\* Some of the properties of TxTimes are those of a single sender.
TimesStep ==
  /\ part \in {"times", "one_sender"}
  /\ Next
  /\ part = "one_sender" => \A s, t \in Senders : pc'[s] # "idle" /\ pc'[t] # "idle" => s = t
  /\ UNCHANGED <<part, parts>>

Of(p) == part = p /\ UNCHANGED <<part, vars>>
OfSmall(p) == part = p /\ UNCHANGED <<part, vars, more>>

EndorseStep == Of("endorse") /\ Endorse!Next
RefuseStep == Of("refuse") /\ Refuse!Next
EstimateStep == OfSmall("estimate") /\ Estimate!Next
CappedStep == OfSmall("capped") /\ Capped!Next
WireStep == OfSmall("wire") /\ Wire!Next
QueryStep == OfSmall("query") /\ Query!Next
ErrorsStep == OfSmall("errors") /\ Errors!Next

RequestsNext ==
  \/ TimesStep \/ EndorseStep \/ RefuseStep \/ EstimateStep \/ CappedStep
  \/ WireStep \/ QueryStep \/ ErrorsStep

\* The fairness of the parts. The endorser's simulation ends, an endorser that can
\* be reached answers and the deadline passes when it cannot; a probe is answered;
\* the engine runs a request to its end. The part never changes, so that fairness
\* of a disjunction over the parts is fairness of each.
TxOf == [r1 |-> "t1", r2 |-> "t2"]
Runs(r) ==
  \/ Of("refuse") /\ Refuse!LocalAnswers(TxOf[r])
  \/ OfSmall("query") /\ Query!Finish(r)
  \/ OfSmall("estimate") /\ Estimate!Estimate
Returns(r) ==
  \/ Of("refuse") /\ Refuse!Return(TxOf[r])
  \/ OfSmall("query") /\ (Query!Build(r) \/ Query!BuildFails(r))
RemoteEnds(r) ==
  LET t == TxOf[r] IN
  /\ Of("refuse")
  /\ Refuse!RemoteAnswers(t, "e2") \/ Refuse!RemoteCancelled(t, "e2") \/ Refuse!TimesOut(t, "e2")

RequestsSpec ==
  /\ RequestsInit /\ [][RequestsNext]_allVars
  /\ \A r \in DOMAIN TxOf : WF_allVars(Runs(r)) /\ WF_allVars(Returns(r)) /\ WF_allVars(RemoteEnds(r))

-----------------------------------------------------------------------------
(* The properties of the parts; HandledIsForgotten is TxTimes'.              *)

\* What is submitted is what was asked and endorsed: every nonce goes to one
\* transaction, in order, however stale the endorsers' views were; nothing is
\* submitted that one endorser refused; a cancellation is reported only to a caller
\* that cancelled, so that the abort of the other calls never hides the error that
\* caused it (ExecuteTransaction, isCancellation).  A remote endorser is asked and
\* answers as a local one (endorser/client, endorser/server), and reads one block of
\* the query service.
EndorsedAsAsked ==
  /\ part = "endorse" => Endorse!NoncesInOrder
  /\ part = "refuse" => Refuse!SubmittedByAll /\ Refuse!CancellationIsTheCallers
  /\ part = "wire" => Wire!AskedTheSame /\ Wire!ToldTheSame
  /\ part = "query" => Query!OneState

\* What is reported is true: the call has succeeded with the very limit EstimateGas
\* returns, and still does while no block is added; a malformed argument never
\* reaches the endorser, the error tells the client who is to blame and no estimate
\* is made of a call that failed (argsToCallMsg, classifyCallError, EstimateGas,
\* classifyValidationError).  With one sender at a time the metrics hold nothing of a
\* transaction that has left, and measure from its own start and hand-off.
ReportedIsTrue ==
  /\ part = "estimate" => Estimate!EstimateVerified /\ Estimate!EstimateSufficient
  /\ part = "capped" => Capped!EstimateSufficient
  /\ part = "errors" =>
       /\ Errors!MalformedIsRefused /\ Errors!CallTellsWhy
       /\ Errors!NoEstimateOfAFailure /\ Errors!SendTellsWhy
  /\ part = "one_sender" => NothingLeft /\ StartIsItsOwn /\ OrderingIsMeasured

\* A call of the endorsement client returns whether or not the endorsers can be
\* reached, a view of the query service is ended on every path out of the engine,
\* and the search for a gas limit ends.
Under(r) ==
  CASE part = "refuse" -> c4[TxOf[r]] = "running"
    [] part = "query" -> r \in c2
    [] part = "estimate" -> c3 # "done"
    [] OTHER -> FALSE
RequestsEnd == \A r \in DOMAIN TxOf : Under(r) ~> ~Under(r)
=============================================================================
