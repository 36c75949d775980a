------------------------------ MODULE Endorsing ------------------------------
(***************************************************************************)
(* How a transaction is endorsed and committed: the gateway's endorsement  *)
(* client asks every endorser at once (gateway/core/endorse.go), each      *)
(* endorser simulates on its own view of the chain (endorser/core,         *)
(* endorser/execution/executor.go), remote ones are reached over gRPC      *)
(* (endorser/client), and the committer validates what was read.           *)
(*                                                                         *)
(* One sender account.  The committed transactions are the versions of its *)
(* nonce; a view is a number of them.                                      *)
(***************************************************************************)
EXTENDS Integers, Sequences, FiniteSets

CONSTANTS
  Txs, Nonce,      \* the nonce of each transaction
  Kind,            \* what the EVM makes of it: "ok", "revert", "fault" or "reject"
  Endorsers, Local,
  MaxSkew,         \* the timestamp bound, in both directions
  Skews,           \* how far an endorser's clock may be off (bound)
  Faulty           \* the endorsers that may fail on their own account (bound)

VARIABLES
  skew, up, view,       \* per endorser: clock, reachability, synchronized transactions
  phase,                \* per transaction: "idle", "running", "returned", "submitted", "committed", "invalid"
  callerCancelled, cancelled,   \* per transaction: the caller's context and the derived one
  answer,               \* transaction -> endorser -> response, error or "none"
  returned,             \* transaction -> what ExecuteTransaction returned
  committed             \* the valid transactions: [tx, nonce]

vars == <<skew, up, view, phase, callerCancelled, cancelled, answer, returned, committed>>

None == [t |-> "none"]
Failure(e) == [t |-> "error", err |-> e]
Response(status, reads, nonce) ==
  [t |-> "response", status |-> status, reads |-> reads, nonce |-> nonce]

Init ==
  /\ skew \in [Endorsers -> Skews] /\ up = [e \in Endorsers |-> TRUE]
  /\ view = [e \in Endorsers |-> 0]
  /\ phase = [t \in Txs |-> "idle"]
  /\ callerCancelled = [t \in Txs |-> FALSE] /\ cancelled = [t \in Txs |-> FALSE]
  /\ answer = [t \in Txs |-> [e \in Endorsers |-> None]]
  /\ returned = [t \in Txs |-> None]
  /\ committed = <<>>

LedgerNonce(v) == IF v = 0 THEN 0 ELSE committed[v].nonce

-----------------------------------------------------------------------------
(* An endorser *)

\* Mutant: only the future is bounded.
OnlyFuture(e) == skew[e] <= MaxSkew

\* The timestamp of the request against the endorser's clock.
validateRequestTimestamp(e) == -MaxSkew <= skew[e] /\ skew[e] <= MaxSkew

\* PrepareMessage: the transaction's nonce is the one of the view.
PrepareMessage(t, v) == Nonce[t] = LedgerNonce(v)

\* ApplyMessage: rejected by the state transition, or an outcome of the EVM.
ApplyMessage(t) ==
  [ok |-> "success", revert |-> "reverted", fault |-> "exec_failure", reject |-> "rejected"][Kind[t]]

Send(t, v) == IF PrepareMessage(t, v) THEN ApplyMessage(t) ELSE "rejected"

\* classify and NewResult.
Status(outcome) ==
  [success |-> 200, reverted |-> 201, exec_failure |-> 202, rejected |-> 400][outcome]

\* Mutant: the nonce is compared without becoming a read of the transaction.
ReadsNothing(v) == {}

\* The version of the nonce in the read set.
NonceRead(v) == {v}

\* Execute: a response with a read-write set, or one that carries only the fault.  A
\* revert and a failure write the next nonce as a success does.
EndorserExecute(t, e) ==
  LET outcome == IF validateRequestTimestamp(e) THEN Send(t, view[e]) ELSE "rejected" IN
  IF outcome = "rejected" THEN Response(Status(outcome), {}, -1)
  ELSE Response(Status(outcome), NonceRead(view[e]), Nonce[t] + 1)

\* Execute cannot read its state, or cannot sign what it simulated: a fault of the
\* server rides in the response too.
ServerFault == Response(500, {}, -1)

-----------------------------------------------------------------------------
(* ExecuteTransaction *)

Waiting(t, e) == phase[t] = "running" /\ answer[t][e] = None

Accepted(r) == r.t = "response" /\ r.status \in {200, 201, 202}

\* Mutant: only the local form of a cancellation is recognised.
OnlyContextCanceled(err) == err = "context canceled"

\* The message of a response that is not accepted.
Refusal(r) == Failure(IF r.status = 500 THEN "server fault" ELSE "rejected")

isCancellation(err) == err \in {"context canceled", "grpc canceled"}

\* An error, and a status that is not accepted, cancel the calls that still run.
Answer(t, e, r) ==
  /\ answer' = [answer EXCEPT ![t][e] = IF r.t = "response" /\ ~Accepted(r) THEN Refusal(r) ELSE r]
  /\ cancelled' = [cancelled EXCEPT ![t] = @ \/ ~Accepted(r)]
  /\ UNCHANGED <<skew, up, view, phase, callerCancelled, returned, committed>>

Start(t) ==
  /\ phase[t] = "idle"
  /\ phase' = [phase EXCEPT ![t] = "running"]
  /\ UNCHANGED <<skew, up, view, callerCancelled, cancelled, answer, returned, committed>>

\* The local endorser runs to its end whatever happens to the context.
LocalAnswers(t) == Waiting(t, Local) /\ Answer(t, Local, EndorserExecute(t, Local))

RemoteAnswers(t, e) ==
  e # Local /\ up[e] /\ Waiting(t, e) /\ Answer(t, e, EndorserExecute(t, e))

EndorserFaults(t, e) ==
  e \in Faulty /\ (e = Local \/ up[e]) /\ Waiting(t, e) /\ Answer(t, e, ServerFault)

\* gRPC returns a status of its own for a call whose context is cancelled.
RemoteCancelled(t, e) ==
  /\ e # Local /\ Waiting(t, e) /\ cancelled[t]
  /\ Answer(t, e, Failure("grpc canceled"))

\* A connection that breaks under the call.
RemoteBreaks(t, e) == e # Local /\ ~up[e] /\ Waiting(t, e) /\ Answer(t, e, Failure("unavailable"))

\* Mutant: a call without a deadline waits for the endorser to be ready.
WaitForReady(t, e) == FALSE

\* callTimeout passes while the endorser cannot be reached.
TimesOut(t, e) ==
  e # Local /\ ~up[e] /\ Waiting(t, e) /\ Answer(t, e, Failure("deadline exceeded"))

\* The first error that is no cancellation, or else the first; the order of the
\* endorsers is left open.
ReturnedError(errs) ==
  LET real == {err \in errs : ~isCancellation(err)} IN
  IF real # {} THEN real ELSE errs

Return(t) ==
  /\ phase[t] = "running"
  /\ \A e \in Endorsers : answer[t][e] # None
  /\ phase' = [phase EXCEPT ![t] = "returned"]
  /\ LET errs == {answer[t][e].err : e \in {f \in Endorsers : answer[t][f].t = "error"}} IN
     IF errs = {} THEN returned' = [returned EXCEPT ![t] = [t |-> "endorsed"]]
     ELSE \E err \in ReturnedError(errs) : returned' = [returned EXCEPT ![t] = Failure(err)]
  /\ UNCHANGED <<skew, up, view, callerCancelled, cancelled, answer, committed>>

CallerCancels(t) ==
  /\ phase[t] = "running" /\ ~callerCancelled[t]
  /\ callerCancelled' = [callerCancelled EXCEPT ![t] = TRUE]
  /\ cancelled' = [cancelled EXCEPT ![t] = TRUE]
  /\ UNCHANGED <<skew, up, view, phase, answer, returned, committed>>

-----------------------------------------------------------------------------
(* Submission and commit *)

Read(t) == answer[t][Local]

\* The packager takes an endorsement whose responses are the same.
Submit(t) ==
  /\ phase[t] = "returned" /\ returned[t].t = "endorsed"
  /\ \A e \in Endorsers : answer[t][e] = Read(t)
  /\ phase' = [phase EXCEPT ![t] = "submitted"]
  /\ UNCHANGED <<skew, up, view, callerCancelled, cancelled, answer, returned, committed>>

\* The committer: valid when nothing that was read has changed.
MVCC(t) == \A v \in Read(t).reads : v = Len(committed)

Commit(t) ==
  /\ phase[t] = "submitted"
  /\ IF MVCC(t)
     THEN /\ committed' = Append(committed, [tx |-> t, nonce |-> Read(t).nonce])
          /\ phase' = [phase EXCEPT ![t] = "committed"]
     ELSE /\ phase' = [phase EXCEPT ![t] = "invalid"]
          /\ UNCHANGED committed
  /\ UNCHANGED <<skew, up, view, callerCancelled, cancelled, answer, returned>>

\* An endorser's synchronizer applies the next block.
Synchronize(e) ==
  /\ view[e] < Len(committed)
  /\ view' = [view EXCEPT ![e] = @ + 1]
  /\ UNCHANGED <<skew, up, phase, callerCancelled, cancelled, answer, returned, committed>>

Reachable(e) ==
  /\ e # Local
  /\ up' = [up EXCEPT ![e] = ~@]
  /\ UNCHANGED <<skew, view, phase, callerCancelled, cancelled, answer, returned, committed>>

-----------------------------------------------------------------------------

Step(t) ==
  \/ LocalAnswers(t)
  \/ \E e \in Endorsers :
       RemoteAnswers(t, e) \/ RemoteCancelled(t, e) \/ TimesOut(t, e)
  \/ Return(t)

Next ==
  \/ \E t \in Txs : Start(t) \/ Step(t) \/ CallerCancels(t) \/ Submit(t) \/ Commit(t)
  \/ \E t \in Txs, e \in Endorsers : RemoteBreaks(t, e) \/ EndorserFaults(t, e)
  \/ \E e \in Endorsers : Synchronize(e) \/ Reachable(e)

Spec == Init /\ [][Next]_vars

-----------------------------------------------------------------------------
(* Properties *)

\* ExecuteTransaction reports a cancellation only to a caller that cancelled: the abort
\* of the other calls never hides the endorser's error that caused it.
CancellationIsTheCallers ==
  \A t \in Txs : returned[t] = Failure("grpc canceled") => callerCancelled[t]

\* The nonce check of the simulation and the validation of what it read together give every
\* nonce to one transaction, in order, however stale the endorsers' views were.
NoncesInOrder ==
  \A i \in DOMAIN committed : Nonce[committed[i].tx] = i - 1

\* One endorser that refuses is enough: nothing is submitted whose timestamp some endorser
\* found outside its bounds, or that the EVM does not apply.
SubmittedByAll ==
  \A t \in Txs : phase[t] \in {"submitted", "committed", "invalid"} =>
    /\ Kind[t] # "reject"
    /\ \A e \in Endorsers : skew[e] \in -MaxSkew .. MaxSkew

=============================================================================
