----------------------------- MODULE Processes ------------------------------
(***************************************************************************)
(* The processes around the gateway's core: the test node's state priming  *)
(* (StatePriming) and its snapshots and reverts (TestNode), the life of a  *)
(* process (AppLifecycle), its start from a configuration (Startup), and   *)
(* the gate of the compatibility suites (Baseline, GoTestEvents).          *)
(*                                                                         *)
(* The initial state chooses the part that a behaviour is about.           *)
(* StatePriming has its variables; of the others only the chosen one has a *)
(* state, so that they share the variables e1, ..., e19.                   *)
(***************************************************************************)
EXTENDS StatePriming

VARIABLES part, e1, e2, e3, e4, e5, e6, e7, e8, e9, e10,
          e11, e12, e13, e14, e15, e16, e17, e18, e19

\* What a part with two, four, ten or eighteen variables leaves alone.
beyond18 == <<e19>>
beyond10 == <<e11, e12, e13, e14, e15, e16, e17, e18, beyond18>>
beyond4 == <<e5, e6, e7, e8, e9, e10, beyond10>>
beyond2 == <<e3, e4, beyond4>>
parts == <<e1, e2, beyond2>>
allVars == <<part, vars, parts>>

\* A client that waits for its calls, and one that mines and primes meanwhile.
Patient == INSTANCE TestNode WITH
  MaxNonce <- 2, MaxBlock <- 3, MaxReverts <- 2, Priming <- FALSE, ConcurrentMine <- FALSE,
  rewinding <- e1, apc <- e2, op <- e3, target <- e4, snapshots <- e5, next <- e6,
  parked <- e7, queue <- e8, sent <- e9, ledgerH <- e10, ledgerVer <- e11, blocks <- e12,
  hpc <- e13, kvs <- e14, history <- e15, storeH <- e16, rows <- e17, epoch <- e18, stale <- e19
Hasty == INSTANCE TestNode WITH
  MaxNonce <- 0, MaxBlock <- 2, MaxReverts <- 1, Priming <- TRUE, ConcurrentMine <- TRUE,
  rewinding <- e1, apc <- e2, op <- e3, target <- e4, snapshots <- e5, next <- e6,
  parked <- e7, queue <- e8, sent <- e9, ledgerH <- e10, ledgerVer <- e11, blocks <- e12,
  hpc <- e13, kvs <- e14, history <- e15, storeH <- e16, rows <- e17, epoch <- e18, stale <- e19

Gateway == INSTANCE AppLifecycle WITH
  Kind <- "gateway", GrpcServer <- TRUE, MaxBlocks <- 2,
  step <- e1, phase <- e2, open <- e3, cancelled <- e4, workers <- e5, sync <- e6,
  live <- e7, ready <- e8, at <- e9, blocks <- e10, http <- e11, grpc <- e12,
  httpReq <- e13, grpcReq <- e14, timedOut <- e15, shutdown <- e16, panicked <- e17,
  starved <- e18
Endorser == INSTANCE AppLifecycle WITH
  Kind <- "standalone", GrpcServer <- TRUE, MaxBlocks <- 2,
  step <- e1, phase <- e2, open <- e3, cancelled <- e4, workers <- e5, sync <- e6,
  live <- e7, ready <- e8, at <- e9, blocks <- e10, http <- e11, grpc <- e12,
  httpReq <- e13, grpcReq <- e14, timedOut <- e15, shutdown <- e16, panicked <- e17,
  starved <- e18

Started == INSTANCE Startup WITH
  MaxEdits <- 2, MaxStarts <- 2,
  cfg <- e1, edits <- e2, cmd <- e3, starts <- e4, step <- e5, outcome <- e6, cause <- e7,
  parts <- e8, store <- e9, invoked <- e10

Suite == INSTANCE Baseline WITH
  TestIDs <- {"x"}, HookIDs <- {"h"}, Files <- {"f1", "f2"}, FirstFiles <- {"f1"},
  Messages <- {"nomethod", "race"}, Signed <- {"nomethod"},
  PatternIDs <- {"x", "h"}, PatternMsgs <- {"race"}, Matches <- {"x"}, MaxTests <- 2,
  reports <- e1, results <- e2, baseline <- e3, last <- e4

\* A test of two levels of subtests beside one of none.
GoTests == {"T", "T/f", "T/f/0", "T/f/1", "U"}
GoTest == INSTANCE GoTestEvents WITH
  Names <- GoTests,
  Parent <- [n \in GoTests |-> CASE n \in {"T/f/0", "T/f/1"} -> "T/f"
                                 [] n = "T/f" -> "T"
                                 [] OTHER -> ""],
  infos <- e1, alive <- e2

-----------------------------------------------------------------------------

Zero18 == e19 = 0
Zero10 == /\ e11 = 0 /\ e12 = 0 /\ e13 = 0 /\ e14 = 0 /\ e15 = 0 /\ e16 = 0
          /\ e17 = 0 /\ e18 = 0 /\ Zero18
Zero4 == e5 = 0 /\ e6 = 0 /\ e7 = 0 /\ e8 = 0 /\ e9 = 0 /\ e10 = 0 /\ Zero10
Zero2 == e3 = 0 /\ e4 = 0 /\ Zero4
Zero == e1 = 0 /\ e2 = 0 /\ Zero2

\* One initial state of StatePriming, for the behaviours that are not about it.
Unprimed ==
  /\ Init
  /\ want = CHOOSE f \in [Callers -> Keys \X Values] : TRUE
  /\ \A k \in Keys : kvs[k].val = CHOOSE v \in Values : TRUE

ProcessesInit ==
  \/ part = "priming" /\ Init /\ Zero
  \/ /\ Unprimed
     /\ \/ part = "patient" /\ Patient!Init
        \/ part = "hasty" /\ Hasty!Init
        \/ part = "gateway" /\ Gateway!Init /\ Zero18
        \/ part = "endorser" /\ Endorser!Init /\ Zero18
        \/ part = "started" /\ Started!Init /\ Zero10
        \/ part = "suite" /\ Suite!Init /\ Zero4
        \/ part = "gotest" /\ GoTest!Init /\ Zero2

Of(p, others) == part = p /\ UNCHANGED <<part, others>>
OfPriming == Of("priming", parts)
OfGateway == Of("gateway", <<vars, beyond18>>)
OfEndorser == Of("endorser", <<vars, beyond18>>)

ProcessesNext ==
  \/ OfPriming /\ Next
  \/ Of("patient", vars) /\ Patient!Next
  \/ Of("hasty", vars) /\ Hasty!Next
  \/ OfGateway /\ Gateway!Next
  \/ OfEndorser /\ Endorser!Next
  \/ Of("started", <<vars, beyond10>>) /\ Started!Next
  \/ Of("suite", <<vars, beyond4>>) /\ Suite!Next
  \/ Of("gotest", <<vars, beyond2>>) /\ GoTest!Next

-----------------------------------------------------------------------------
(* Fairness: goroutines run.  A part's choice never changes, so that         *)
(* fairness of a disjunction over parts is fairness of each.                 *)

\* A call of hardhat_set*: its goroutine, and the timer of its wait.  primeMu is
\* handed to every waiter in turn.  Nothing is assumed of the chain.
CallGoesOn(c) == Confirm(c) \/ Apply(c) \/ Commit(c) \/ Timeout(c) \/ (Poll(c) /\ Readable(c))

\* The goroutine of Run, and the one that rewinds, whose timer fires.
Goroutine ==
  \/ OfGateway /\ (Gateway!Serve \/ Gateway!NotSynced \/ Gateway!Wait)
  \/ OfEndorser /\ (Endorser!Serve \/ Endorser!NotSynced \/ Endorser!Wait)
  \/ Of("hasty", vars) /\ Hasty!Rewind

\* The other goroutines of a process.  gRPC requests are answered; HTTP requests need
\* not be: Shutdown does not rely on it.
HandlerGoesOn ==
  \/ OfGateway /\ (Gateway!HandlerDone \/ Gateway!HandlerFails)
  \/ OfEndorser /\ (Endorser!HandlerDone \/ Endorser!HandlerFails)
SyncEnds == (OfGateway /\ Gateway!SyncReturns) \/ (OfEndorser /\ Endorser!SyncReturns)
GrpcStops ==
  \/ OfGateway /\ (Gateway!GrpcDrain \/ Gateway!GrpcReturns)
  \/ OfEndorser /\ (Endorser!GrpcDrain \/ Endorser!GrpcReturns)
GrpcAnswers == (OfGateway /\ Gateway!GrpcAnswer) \/ (OfEndorser /\ Endorser!GrpcAnswer)
ShutdownGoesOn == (OfGateway /\ Gateway!ShutdownNext) \/ (OfEndorser /\ Endorser!ShutdownNext)

ProcessesSpec ==
  /\ ProcessesInit /\ [][ProcessesNext]_allVars
  /\ \A c \in Callers : /\ WF_allVars(OfPriming /\ CallGoesOn(c))
                        /\ SF_allVars(OfPriming /\ Lock(c))
  /\ WF_allVars(Goroutine) /\ WF_allVars(HandlerGoesOn) /\ WF_allVars(SyncEnds)
  /\ WF_allVars(GrpcStops) /\ WF_allVars(GrpcAnswers) /\ WF_allVars(ShutdownGoesOn)

-----------------------------------------------------------------------------
(* The properties of the parts; CarriesOnlyItsWrite is StatePriming's.       *)

\* On the test node no transaction accepted before a revert is applied after it, and
\* the block store and the gate agree with the state (txFence, RevertToBlock,
\* ResetNonces).  In a process that stops, workers and requests have the parts they
\* use, a store that is closed under a handler takes no process down, and a
\* construction that fails closes its connections to remote endorsers and its filter
\* goroutine (App.Shutdown, newApp, hybridx).  In one that starts all parts are built
\* for one protocol, and of what Validate accepts nothing is refused or dereferenced
\* as nil later, but for the cases Unchecked names.
ProcessesInOrder ==
  /\ part = "patient" =>
       /\ Patient!NoTransactionOutlivesRevert /\ Patient!StateMatchesRecord
       /\ Patient!GateFollowsState
  /\ part = "gateway" =>
       /\ Gateway!ShutdownNeverPanics /\ Gateway!WorkersHaveTheirParts
       /\ Gateway!RequestsHaveTheChain /\ Gateway!FailureCleansUp /\ Gateway!DrainingIsServed
  /\ part = "endorser" => Endorser!ShutdownNeverPanics
  /\ part = "started" => Started!ProtocolsAgree /\ Started!ValidatedStarts

\* The gate of the compatibility suites: the exit code of check tells whether a
\* failure is not covered, the numbers of a report add up, update settles the
\* baseline, and no annotation is lost (Diff, Reconcile, tagMatching, BuildSummary);
\* a stream of go test events that looks clean hides no leaf that was cut short.
SuiteTells ==
  [][/\ part = "suite" =>
          /\ Suite!ExitTells /\ Suite!DuplicatesAgree /\ Suite!NumbersAddUp
          /\ Suite!UpdateSettles /\ Suite!AnnotationsKept
     /\ part = "gotest" => GoTest!CleanMeansLeavesPassed]_allVars

\* A call of hardhat_set* returns, also when its transaction is invalidated or the
\* value is overwritten (primeCommitTimeout); a rewind ends and reopens the fence,
\* drained or not; Run returns once its context is done, though HTTP clients hang.
Due(c) ==
  CASE part = "priming" -> pc[c] = "confirm"
    [] part = "hasty" -> e1
    [] part \in {"gateway", "endorser"} -> e2 = "serving" /\ e4
    [] OTHER -> FALSE
Done(c) ==
  CASE part = "priming" -> pc[c] \in Returned
    [] part = "hasty" -> ~e1
    [] part \in {"gateway", "endorser"} -> e2 = "returned"
    [] OTHER -> TRUE
EverythingReturns == \A c \in Callers : Due(c) ~> Done(c)
=============================================================================
