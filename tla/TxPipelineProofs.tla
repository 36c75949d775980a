-------------------------- MODULE TxPipelineProofs --------------------------
(***************************************************************************)
(* The FIFO queue with its workers and the batch submitter keeps track of  *)
(* every transaction, for any transactions, workers, submission workers    *)
(* and channel, with and without other gateways.                           *)
(***************************************************************************)
EXTENDS TxPipeline, FiniteSetTheorems, TLAPS

\* Zenon proves most steps; the others name Z3 and its time.
USE ZenonT(30)

\* Goroutines and transactions are finitely many, and there is a transaction.
Sizes ==
  /\ Txs # {} /\ IsFiniteSet(Txs) /\ IsFiniteSet(Workers) /\ IsFiniteSet(Submitters)
  /\ ChanSize \in Nat /\ MaxSends \in Nat /\ MaxBlockTxs \in Nat

-----------------------------------------------------------------------------
(* The invariant *)

WorkerHolds(w, t) == pc[w] \in {"executing", "sending"} /\ job[w] = t
SubmitterHolds(s, t) == spc[s] = "submitting" /\ sjob[s] = t

\* A worker, the channel or a submission worker holds a copy of the transaction.
Somewhere(t) ==
  \/ \E w \in Workers : WorkerHolds(w, t)
  \/ \E i \in DOMAIN endorsementChan : endorsementChan[i] = t
  \/ \E s \in Submitters : SubmitterHolds(s, t)

\* No two places hold copies of the transaction.
OnePlace(t) ==
  /\ \A w, v \in Workers : WorkerHolds(w, t) /\ WorkerHolds(v, t) => w = v
  /\ \A i, j \in DOMAIN endorsementChan :
       endorsementChan[i] = t /\ endorsementChan[j] = t => i = j
  /\ \A s, r \in Submitters : SubmitterHolds(s, t) /\ SubmitterHolds(r, t) => s = r
  /\ \A w \in Workers : WorkerHolds(w, t) =>
       /\ \A i \in DOMAIN endorsementChan : endorsementChan[i] # t
       /\ \A s \in Submitters : ~SubmitterHolds(s, t)
  /\ \A i \in DOMAIN endorsementChan : endorsementChan[i] = t =>
       \A s \in Submitters : ~SubmitterHolds(s, t)

Single == \A t \in Txs \ early : OnePlace(t)
HeldTracked == \A t \in Txs \ early : Somewhere(t) => t \in inProgressMap
TrackedGoesOn ==
  \A t \in inProgressMap : Somewhere(t) \/ ordered[t] > 0 \/ t \in Range(completing)

IInv == TypeOK /\ Mirrors /\ Single /\ HeldTracked /\ TrackedGoesOn /\ NoLostWakeup

-----------------------------------------------------------------------------
(* Sequences *)

\* What Append adds, and where.
LEMMA Appended ==
  ASSUME NEW S, NEW q \in Seq(S), NEW e \in S
  PROVE  /\ Append(q, e) \in Seq(S) /\ Len(Append(q, e)) = Len(q) + 1
         /\ DOMAIN Append(q, e) = DOMAIN q \cup {Len(q) + 1} /\ Len(q) + 1 \notin DOMAIN q
         /\ \A i \in DOMAIN q : Append(q, e)[i] = q[i]
         /\ Append(q, e)[Len(q) + 1] = e
         /\ Range(Append(q, e)) = Range(q) \cup {e}
<1>1. /\ Append(q, e) \in Seq(S) /\ Len(Append(q, e)) = Len(q) + 1
      /\ DOMAIN Append(q, e) = DOMAIN q \cup {Len(q) + 1} /\ Len(q) + 1 \notin DOMAIN q
      /\ \A i \in DOMAIN q : Append(q, e)[i] = q[i]
      /\ Append(q, e)[Len(q) + 1] = e
  BY SMTT(30)
<1>2. Range(Append(q, e)) = Range(q) \cup {e}
  BY <1>1, SMTT(30) DEF Range
<1> QED
  BY <1>1, <1>2

\* What Tail leaves.
LEMMA Rest ==
  ASSUME NEW S, NEW q \in Seq(S), q # <<>>
  PROVE  /\ Head(q) \in S /\ Tail(q) \in Seq(S) /\ Len(q) > 0 /\ Len(Tail(q)) = Len(q) - 1
         /\ 1 \in DOMAIN q /\ q[1] = Head(q)
         /\ \A i \in DOMAIN Tail(q) : i + 1 \in DOMAIN q /\ i + 1 # 1 /\ Tail(q)[i] = q[i + 1]
         /\ \A i \in DOMAIN q : i # 1 => i - 1 \in DOMAIN Tail(q) /\ q[i] = Tail(q)[i - 1]
         /\ Range(q) = Range(Tail(q)) \cup {Head(q)}
<1>1. /\ Head(q) \in S /\ Tail(q) \in Seq(S) /\ Len(q) > 0 /\ Len(Tail(q)) = Len(q) - 1
      /\ 1 \in DOMAIN q /\ q[1] = Head(q)
      /\ \A i \in DOMAIN Tail(q) : i + 1 \in DOMAIN q /\ i + 1 # 1 /\ Tail(q)[i] = q[i + 1]
      /\ \A i \in DOMAIN q : i # 1 => i - 1 \in DOMAIN Tail(q) /\ q[i] = Tail(q)[i - 1]
  BY SMTT(30)
<1>2. Range(q) = Range(Tail(q)) \cup {Head(q)}
  <2>1. ASSUME NEW i \in DOMAIN q PROVE q[i] \in Range(Tail(q)) \cup {Head(q)}
    BY <1>1, <2>1 DEF Range
  <2>2. ASSUME NEW i \in DOMAIN Tail(q) PROVE Tail(q)[i] \in Range(q)
    BY <1>1, <2>2 DEF Range
  <2>3. Head(q) \in Range(q)
    BY <1>1 DEF Range
  <2> QED
    BY <2>1, <2>2, <2>3 DEF Range
<1> QED
  BY <1>1, <1>2

\* A sequence without duplicates stays one when a new element is appended to it.
LEMMA InjectiveAppend ==
  ASSUME NEW S, NEW q \in Seq(S), NEW e \in S, IsInjective(q), e \notin Range(q)
  PROVE  IsInjective(Append(q, e))
BY Appended, SMTT(30) DEF IsInjective, Range

\* Without its first element it has lost that one and stays without duplicates.
LEMMA InjectiveTail ==
  ASSUME NEW S, NEW q \in Seq(S), q # <<>>, IsInjective(q)
  PROVE  IsInjective(Tail(q)) /\ Range(Tail(q)) = Range(q) \ {Head(q)}
<1>1. \A i \in DOMAIN Tail(q) : i + 1 \in DOMAIN q /\ i \in Int /\ Tail(q)[i] = q[i + 1] /\ i + 1 # 1
  BY Rest, SMTT(30)
<1>2. IsInjective(Tail(q))
  BY <1>1, SMTT(30) DEF IsInjective
<1>3. \A i \in DOMAIN Tail(q) : Tail(q)[i] # Head(q)
  BY <1>1, Rest, SMTT(30) DEF IsInjective
<1>4. Range(q) = Range(Tail(q)) \cup {Head(q)}
  BY Rest
<1> QED
  BY <1>2, <1>3, <1>4 DEF Range

\* The transactions of a block are a sequence.
LEMMA BlocksAreSequences ==
  ASSUME Sizes, NEW txs \in BlockContents
  PROVE  txs \in Seq(Txs)
<1>1. PICK n \in 1..MaxBlockTxs : txs \in [1..n -> Txs]
  BY DEF BlockContents, Injection
<1>2. n \in Nat
  BY SMTT(30) DEF Sizes
<1> QED
  BY <1>1, <1>2, SMTT(30)

-----------------------------------------------------------------------------
(* Types *)

\* AnyTx is a transaction.
LEMMA AnyTxIsTx == Sizes => AnyTx \in Txs
BY DEF Sizes, AnyTx

\* Signal wakes one worker that sleeps, if there is one.
LEMMA SignalWakes ==
  ASSUME TypeOK, pc' \in Signal(pc)
  PROVE  /\ pc' \in [Workers -> {"dequeue", "asleep", "woken", "executing", "sending", "gone"}]
         /\ \/ Asleep = {} /\ pc' = pc
            \/ \E w \in Asleep : pc' = [pc EXCEPT ![w] = "woken"]
BY DEF TypeOK, Signal, Asleep

\* The initial state.
LEMMA InitInv == Sizes /\ Init => IInv
<1> SUFFICES ASSUME Sizes, Init PROVE IInv
  OBVIOUS
<1>1. TypeOK
  <2>1. /\ pc \in [Workers -> {"dequeue", "asleep", "woken", "executing", "sending", "gone"}]
        /\ spc \in [Submitters -> {"select", "submitting", "gone"}]
        /\ job \in [Workers -> Txs] /\ sjob \in [Submitters -> Txs]
    BY AnyTxIsTx DEF Init
  <2>2. pendingQueue \in Seq(Txs) /\ endorsementChan \in Seq(Txs) /\ completing \in Seq(Txs)
    BY SMTT(30) DEF Init
  <2>3. Len(endorsementChan) <= ChanSize /\ sends \in 0..MaxSends /\ ordered \in [Txs -> Nat]
    BY SMTT(30) DEF Init, Sizes
  <2> QED
    BY <2>1, <2>2, <2>3 DEF Init, TypeOK
<1>2. Mirrors
  BY SMTT(30) DEF Init, Mirrors, Range, IsInjective
<1>3. ASSUME NEW t \in Txs PROVE ~Somewhere(t) /\ OnePlace(t)
  BY SMTT(30) DEF Init, Somewhere, OnePlace, WorkerHolds, SubmitterHolds
<1>4. NoLostWakeup
  BY DEF Init, NoLostWakeup, Asleep
<1> QED
  BY <1>1, <1>2, <1>3, <1>4 DEF IInv, Single, HeldTracked, TrackedGoesOn, Init

\* The steps of a worker keep the types.
LEMMA WorkerTypes ==
  ASSUME Sizes, TypeOK, NEW w \in Workers, WorkerNext(w)
  PROVE  TypeOK'
<1>1. CASE DequeueTx(w)
  <2>1. Head(pendingQueue) \in Txs /\ Tail(pendingQueue) \in Seq(Txs)
    BY <1>1, Rest DEF DequeueTx, TypeOK
  <2> QED
    BY <1>1, <2>1 DEF DequeueTx, TypeOK, submitterVars, ledgerVars, handleVars
<1>2. CASE DequeueWaits(w) \/ DequeueClosed(w) \/ Endorsed(w)
  BY <1>2 DEF DequeueWaits, DequeueClosed, Endorsed, TypeOK, queueVars, submitterVars,
    ledgerVars, handleVars
<1>3. CASE SubmitFabricTx(w)
  <2>1. /\ Append(endorsementChan, job[w]) \in Seq(Txs)
        /\ Len(Append(endorsementChan, job[w])) = Len(endorsementChan) + 1
        /\ Len(endorsementChan) \in Nat
    BY Appended, SMTT(30) DEF TypeOK
  <2>2. Len(endorsementChan') <= ChanSize /\ endorsementChan' \in Seq(Txs)
    BY <1>3, <2>1, SMTT(30) DEF SubmitFabricTx, Sizes
  <2> QED
    BY <1>3, <2>2, AnyTxIsTx DEF SubmitFabricTx, TypeOK, queueVars, ledgerVars, handleVars
<1>4. CASE ProcessFails(w)
  BY <1>4, AnyTxIsTx DEF ProcessFails, Complete, TypeOK, submitterVars, ledgerVars, handleVars
<1> QED
  BY <1>1, <1>2, <1>3, <1>4 DEF WorkerNext

\* So do those of a submission worker.
LEMMA SubmitterTypes ==
  ASSUME Sizes, TypeOK, NEW s \in Submitters, SubmitterNext(s)
  PROVE  TypeOK'
<1>1. CASE TakeEndorsed(s)
  <2>1. /\ Head(endorsementChan) \in Txs /\ Tail(endorsementChan) \in Seq(Txs)
        /\ Len(Tail(endorsementChan)) = Len(endorsementChan) - 1 /\ Len(endorsementChan) \in Nat
    BY <1>1, Rest, SMTT(30) DEF TakeEndorsed, TypeOK
  <2>2. endorsementChan' \in Seq(Txs) /\ Len(endorsementChan') <= ChanSize
    BY <1>1, <2>1, SMTT(30) DEF TakeEndorsed, TypeOK, Sizes
  <2> QED
    BY <1>1, <2>1, <2>2 DEF TakeEndorsed, TypeOK, queueVars, workerVars, ledgerVars, handleVars
<1>2. CASE SubmitterStops(s)
  BY <1>2 DEF SubmitterStops, TypeOK, queueVars, workerVars, ledgerVars, handleVars
<1>3. CASE Submitted(s) \/ SubmitFails(s)
  <2>1. ordered' \in [Txs -> Nat]
    <3>1. ordered' = ordered \/ ordered' = [ordered EXCEPT ![sjob[s]] = @ + 1]
      BY <1>3 DEF Submitted, SubmitFails
    <3>2. ordered \in [Txs -> Nat] /\ sjob[s] \in Txs /\ ordered[sjob[s]] + 1 \in Nat
      BY SMTT(30) DEF TypeOK
    <3> QED
      BY <3>1, <3>2
  <2>2. spc' \in [Submitters -> {"select", "submitting", "gone"}] /\ sjob' \in [Submitters -> Txs]
    <3>1. spc' = [spc EXCEPT ![s] = "select"] /\ sjob' = [sjob EXCEPT ![s] = AnyTx]
      BY <1>3 DEF Submitted, SubmitFails, SubmitterIdle
    <3> QED
      BY <3>1, AnyTxIsTx DEF TypeOK
  <2>3. /\ inProgressMap' \in SUBSET Txs
        /\ UNCHANGED <<pendingQueue, queuedMap, done, workerVars, endorsementChan, cancelled, stop,
                       committed, handleVars, sends>>
    BY <1>3 DEF Submitted, SubmitFails, SubmitterIdle, TypeOK, Complete, queueVars
  <2> QED
    BY <2>1, <2>2, <2>3 DEF TypeOK, workerVars, handleVars
<1> QED
  BY <1>1, <1>2, <1>3 DEF SubmitterNext

\* And all others.
LEMMA TypesKept ==
  ASSUME Sizes, TypeOK, [Next]_vars
  PROVE  TypeOK'
<1>1. ASSUME NEW t \in Txs, Enqueue(t) PROVE TypeOK'
  <2>1. pc' \in [Workers -> {"dequeue", "asleep", "woken", "executing", "sending", "gone"}]
    BY <1>1, SignalWakes DEF Enqueue
  <2>2. pendingQueue' \in Seq(Txs) /\ sends' \in 0..MaxSends
    BY <1>1, Appended, SMTT(30) DEF Enqueue, TypeOK, Sizes
  <2> QED
    BY <1>1, <2>1, <2>2 DEF Enqueue, TypeOK, submitterVars, ledgerVars, handleVars
<1>2. ASSUME NEW txs \in BlockContents, NEW valid \in SUBSET Range(txs), Handle(txs, valid)
      PROVE  TypeOK'
  <2>1. txs \in Seq(Txs)
    BY BlocksAreSequences
  <2>2. Range(txs) \subseteq Txs
    BY <2>1, SMTT(30) DEF Range
  <2>3. ordered' \in [Txs -> Nat]
    <3>1. ASSUME NEW t \in Txs
          PROVE  (IF t \in Range(txs) /\ ordered[t] > 0 THEN ordered[t] - 1 ELSE ordered[t]) \in Nat
      BY SMTT(30) DEF TypeOK
    <3> QED
      BY <1>2, <3>1 DEF Handle
  <2> QED
    BY <1>2, <2>1, <2>2, <2>3 DEF Handle, TypeOK, queueVars, workerVars, submitterVars
<1>3. CASE HandleNext
  <2>1. Head(completing) \in Txs /\ Tail(completing) \in Seq(Txs)
    BY <1>3, Rest DEF HandleNext, TypeOK
  <2> QED
    BY <1>3, <2>1 DEF HandleNext, Complete, TypeOK, workerVars, submitterVars, ledgerVars
<1>4. CASE Cancel
  BY <1>4 DEF Cancel, TypeOK, queueVars, workerVars, submitterVars, ledgerVars, handleVars
<1>5. CASE StopNext
  BY <1>5 DEF StopNext, StopBegin, StopSubmitter, StopEnd, Broadcast, TypeOK, queueVars,
    workerVars, submitterVars, ledgerVars, handleVars
<1>6. CASE UNCHANGED vars
  BY <1>6 DEF vars, TypeOK, queueVars, workerVars, submitterVars, ledgerVars, handleVars
<1> QED
  BY <1>1, <1>2, <1>3, <1>4, <1>5, <1>6, WorkerTypes, SubmitterTypes DEF Next

-----------------------------------------------------------------------------
(* Where the copies are *)

\* Places matter only through who holds what.
LEMMA SameHolders ==
  ASSUME \A w \in Workers : \A t \in Txs : WorkerHolds(w, t)' <=> WorkerHolds(w, t),
         UNCHANGED <<endorsementChan, spc, sjob>>
  PROVE  \A t \in Txs : (Somewhere(t)' <=> Somewhere(t)) /\ (OnePlace(t)' <=> OnePlace(t))
<1>1. \A s \in Submitters : \A t \in Txs : SubmitterHolds(s, t)' <=> SubmitterHolds(s, t)
  BY DEF SubmitterHolds
<1> HIDE DEF WorkerHolds, SubmitterHolds
<1>2. \A t \in Txs : Somewhere(t)' <=> Somewhere(t)
  BY <1>1 DEF Somewhere
<1>3. \A t \in Txs : OnePlace(t)' <=> OnePlace(t)
  BY <1>1 DEF OnePlace
<1> QED
  BY <1>2, <1>3

\* A step that moves no copy, and touches neither the tracking nor the ledger.
LEMMA Quiet ==
  ASSUME IInv,
         \A t \in Txs : (Somewhere(t)' <=> Somewhere(t)) /\ (OnePlace(t) => OnePlace(t)'),
         UNCHANGED <<inProgressMap, ordered, completing, early>>
  PROVE  Single' /\ HeldTracked' /\ TrackedGoesOn'
<1>1. inProgressMap \subseteq Txs
  BY DEF IInv, TypeOK
<1> QED
  BY <1>1 DEF IInv, Single, HeldTracked, TrackedGoesOn

\* A step in which the one copy of a transaction is given up and completed.
LEMMA GivenUp ==
  ASSUME IInv, NEW t \in Txs,
         \A u \in Txs : (Somewhere(u)' => Somewhere(u)) /\ (OnePlace(u) => OnePlace(u)'),
         \A u \in Txs \ {t} : Somewhere(u) => Somewhere(u)',
         OnePlace(t) => ~Somewhere(t)',
         inProgressMap' = inProgressMap \ {t},
         \A u \in Txs : ordered[u] > 0 => ordered'[u] > 0,
         UNCHANGED <<completing, early>>
  PROVE  Single' /\ HeldTracked' /\ TrackedGoesOn'
<1>1. inProgressMap \subseteq Txs
  BY DEF IInv, TypeOK
<1>2. Single'
  BY DEF IInv, Single
<1>3. HeldTracked'
  BY DEF IInv, Single, HeldTracked
<1>4. TrackedGoesOn'
  BY <1>1 DEF IInv, TrackedGoesOn
<1> QED
  BY <1>2, <1>3, <1>4

\* What the queue holds is on its way nowhere, unless a block reported it early.
LEMMA QueuedIsNowhere ==
  ASSUME IInv, NEW t \in Txs \ early, t \in queuedMap
  PROVE  ~Somewhere(t)
BY DEF IInv, Mirrors, HeldTracked

\* A worker's copy appears, moves to the channel, or is gone.
LEMMA WorkerTakes ==
  ASSUME NEW w \in Workers, NEW t \in Txs, TypeOK, InDequeue(w),
         pc' = [pc EXCEPT ![w] = "executing"], job' = [job EXCEPT ![w] = t],
         UNCHANGED submitterVars
  PROVE  /\ Somewhere(t)' /\ (~Somewhere(t) => OnePlace(t)')
         /\ \A u \in Txs \ {t} : (Somewhere(u)' <=> Somewhere(u)) /\ (OnePlace(u) => OnePlace(u)')
<1>1. \A v \in Workers : \A u \in Txs : WorkerHolds(v, u)' <=> WorkerHolds(v, u) \/ (v = w /\ u = t)
  BY DEF WorkerHolds, TypeOK, InDequeue
<1>2. \A s \in Submitters : \A u \in Txs : SubmitterHolds(s, u)' <=> SubmitterHolds(s, u)
  BY DEF SubmitterHolds, submitterVars
<1>3. endorsementChan' = endorsementChan
  BY DEF submitterVars
<1> HIDE DEF WorkerHolds, SubmitterHolds
<1>4. Somewhere(t)' /\ (~Somewhere(t) => OnePlace(t)')
  BY <1>1, <1>2, <1>3 DEF Somewhere, OnePlace
<1>5. ASSUME NEW u \in Txs \ {t}
      PROVE  (Somewhere(u)' <=> Somewhere(u)) /\ (OnePlace(u) => OnePlace(u)')
  <2>1. Somewhere(u)' <=> Somewhere(u)
    BY <1>1, <1>2, <1>3 DEF Somewhere
  <2>2. OnePlace(u) => OnePlace(u)'
    BY <1>1, <1>2, <1>3 DEF OnePlace
  <2> QED
    BY <2>1, <2>2
<1> QED
  BY <1>4, <1>5

\* The worker hands its endorsed transaction to the submission channel.
LEMMA WorkerSends ==
  ASSUME NEW w \in Workers, Sizes, TypeOK, SubmitFabricTx(w)
  PROVE  \A u \in Txs : (Somewhere(u)' <=> Somewhere(u)) /\ (OnePlace(u) => OnePlace(u)')
<1> DEFINE t == job[w]
           n == Len(endorsementChan) + 1
<1>1. t \in Txs /\ WorkerHolds(w, t)
  BY DEF TypeOK, SubmitFabricTx, WorkerHolds
<1>2. \A v \in Workers : \A u \in Txs : WorkerHolds(v, u)' <=> WorkerHolds(v, u) /\ v # w
  BY DEF WorkerHolds, TypeOK, SubmitFabricTx
<1>3. \A s \in Submitters : \A u \in Txs : SubmitterHolds(s, u)' <=> SubmitterHolds(s, u)
  BY DEF SubmitterHolds, SubmitFabricTx
<1>4. /\ DOMAIN endorsementChan' = DOMAIN endorsementChan \cup {n} /\ n \notin DOMAIN endorsementChan
      /\ \A i \in DOMAIN endorsementChan : endorsementChan'[i] = endorsementChan[i]
      /\ endorsementChan'[n] = t
  BY <1>1, Appended, SMTT(30) DEF TypeOK, SubmitFabricTx
<1>5. \A u \in Txs : WorkerHolds(w, u) <=> u = t
  BY DEF WorkerHolds, SubmitFabricTx
<1> HIDE DEF t, n, WorkerHolds, SubmitterHolds
<1>6. ASSUME NEW u \in Txs PROVE Somewhere(u)' <=> Somewhere(u)
  BY <1>1, <1>2, <1>3, <1>4, <1>5 DEF Somewhere
<1>7. ASSUME NEW u \in Txs, OnePlace(u) PROVE OnePlace(u)'
  BY <1>1, <1>2, <1>3, <1>4, <1>5, <1>7 DEF OnePlace
<1> QED
  BY <1>6, <1>7

\* The worker drops a transaction it could not endorse or send, and completes it.
LEMMA WorkerLetsGo ==
  ASSUME NEW w \in Workers, NEW t \in Txs, TypeOK, WorkerHolds(w, t),
         pc' = [pc EXCEPT ![w] = "dequeue"], job' = [job EXCEPT ![w] = AnyTx],
         UNCHANGED submitterVars
  PROVE  /\ \A u \in Txs : (Somewhere(u)' => Somewhere(u)) /\ (OnePlace(u) => OnePlace(u)')
         /\ \A u \in Txs \ {t} : Somewhere(u) => Somewhere(u)'
         /\ OnePlace(t) => ~Somewhere(t)'
<1>2. \A v \in Workers : \A u \in Txs : WorkerHolds(v, u)' <=> WorkerHolds(v, u) /\ v # w
  BY DEF WorkerHolds, TypeOK
<1>3. \A s \in Submitters : \A u \in Txs : SubmitterHolds(s, u)' <=> SubmitterHolds(s, u)
  BY DEF SubmitterHolds, submitterVars
<1>4. endorsementChan' = endorsementChan
  BY DEF submitterVars
<1>5. \A u \in Txs : WorkerHolds(w, u) <=> u = t
  BY DEF WorkerHolds
<1>6. ASSUME NEW u \in Txs PROVE OnePlace(u) => OnePlace(u)'
  BY <1>2, <1>3, <1>4 DEF OnePlace
<1>7. ASSUME NEW u \in Txs PROVE (Somewhere(u)' => Somewhere(u)) /\ (u # t => (Somewhere(u) => Somewhere(u)'))
  BY <1>2, <1>3, <1>4, <1>5 DEF Somewhere
<1>8. OnePlace(t) => ~Somewhere(t)'
  BY <1>2, <1>3, <1>4, <1>5 DEF Somewhere, OnePlace
<1> QED
  BY <1>6, <1>7, <1>8

\* A submission worker takes its copy from the channel, or lets it go.
LEMMA SubmitterTakes ==
  ASSUME NEW s \in Submitters, TypeOK, TakeEndorsed(s)
  PROVE  \A u \in Txs : (Somewhere(u)' <=> Somewhere(u)) /\ (OnePlace(u) => OnePlace(u)')
<1> DEFINE q == endorsementChan
           t == Head(q)
<1>1. /\ t \in Txs /\ 1 \in DOMAIN q /\ q[1] = t
      /\ \A i \in DOMAIN q' : i + 1 \in DOMAIN q /\ i + 1 # 1 /\ q'[i] = q[i + 1] /\ i \in Int
      /\ \A i \in DOMAIN q : i # 1 => i - 1 \in DOMAIN q' /\ q[i] = q'[i - 1]
  <2>1. q \in Seq(Txs) /\ q # <<>> /\ q' = Tail(q)
    BY DEF TypeOK, TakeEndorsed
  <2>2. \A i \in DOMAIN q' : i \in Int
    BY <2>1, SMTT(30)
  <2> QED
    BY <2>1, <2>2, Rest
<1>2. \A w \in Workers : \A u \in Txs : WorkerHolds(w, u)' <=> WorkerHolds(w, u)
  BY DEF WorkerHolds, TakeEndorsed, workerVars
<1>3. \A r \in Submitters : \A u \in Txs :
        SubmitterHolds(r, u)' <=> SubmitterHolds(r, u) \/ (r = s /\ u = t)
  BY DEF SubmitterHolds, TakeEndorsed, TypeOK
<1> HIDE DEF q, t
<1>4. ASSUME NEW u \in Txs PROVE Somewhere(u)' <=> Somewhere(u)
  <2>1. (\E i \in DOMAIN q : q[i] = u) <=> u = t \/ \E i \in DOMAIN q' : q'[i] = u
    BY <1>1, SMTT(30)
  <2>2. (\E r \in Submitters : SubmitterHolds(r, u))' <=> u = t \/ \E r \in Submitters : SubmitterHolds(r, u)
    BY <1>3
  <2> QED
    BY <1>2, <2>1, <2>2 DEF Somewhere, q
<1>5. ASSUME NEW u \in Txs, OnePlace(u) PROVE OnePlace(u)'
  <2>1. \A i, j \in DOMAIN q' : q'[i] = u /\ q'[j] = u => i = j
    BY <1>1, <1>5, SMTT(30) DEF OnePlace, q
  <2>2. u = t => \A i \in DOMAIN q' : q'[i] # u
    BY <1>1, <1>5 DEF OnePlace, q
  <2>3. u = t => \A r \in Submitters : ~SubmitterHolds(r, u)
    BY <1>1, <1>5 DEF OnePlace, q
  <2>4. \A i \in DOMAIN q' : q'[i] = u => \E j \in DOMAIN q : q[j] = u
    BY <1>1, SMTT(30)
  <2>5. u = t => \A w \in Workers : ~WorkerHolds(w, u)
    BY <1>1, <1>5 DEF OnePlace, q
  <2> HIDE DEF WorkerHolds, SubmitterHolds
  <2>6. \A r, p \in Submitters : SubmitterHolds(r, u)' /\ SubmitterHolds(p, u)' => r = p
    BY <1>3, <1>5, <2>3 DEF OnePlace
  <2>7. \A w \in Workers : WorkerHolds(w, u)' =>
          (\A i \in DOMAIN q' : q'[i] # u) /\ \A r \in Submitters : ~SubmitterHolds(r, u)'
    BY <1>2, <1>3, <1>5, <2>4, <2>5 DEF OnePlace, q
  <2>8. \A i \in DOMAIN q' : q'[i] = u => \A r \in Submitters : ~SubmitterHolds(r, u)'
    BY <1>3, <1>5, <2>2, <2>4 DEF OnePlace, q
  <2>9. \A w, v \in Workers : WorkerHolds(w, u)' /\ WorkerHolds(v, u)' => w = v
    BY <1>2, <1>5 DEF OnePlace
  <2> QED
    BY <2>1, <2>6, <2>7, <2>8, <2>9 DEF OnePlace, q
<1> QED
  BY <1>4, <1>5

\* Submitted or given up after its retries, the submission worker's copy is gone.
LEMMA SubmitterLetsGo ==
  ASSUME NEW s \in Submitters, NEW t \in Txs, TypeOK, SubmitterHolds(s, t),
         SubmitterIdle(s), UNCHANGED workerVars
  PROVE  /\ \A u \in Txs : (Somewhere(u)' => Somewhere(u)) /\ (OnePlace(u) => OnePlace(u)')
         /\ \A u \in Txs \ {t} : Somewhere(u) => Somewhere(u)'
         /\ OnePlace(t) => ~Somewhere(t)'
<1>2. \A r \in Submitters : \A u \in Txs : SubmitterHolds(r, u)' <=> SubmitterHolds(r, u) /\ r # s
  BY DEF SubmitterHolds, SubmitterIdle, TypeOK
<1>3. \A w \in Workers : \A u \in Txs : WorkerHolds(w, u)' <=> WorkerHolds(w, u)
  BY DEF WorkerHolds, workerVars
<1>4. endorsementChan' = endorsementChan
  BY DEF SubmitterIdle
<1>5. \A u \in Txs : SubmitterHolds(s, u) <=> u = t
  BY DEF SubmitterHolds
<1>6. ASSUME NEW u \in Txs PROVE OnePlace(u) => OnePlace(u)'
  BY <1>2, <1>3, <1>4 DEF OnePlace
<1>7. ASSUME NEW u \in Txs PROVE (Somewhere(u)' => Somewhere(u)) /\ (u # t => (Somewhere(u) => Somewhere(u)'))
  BY <1>2, <1>3, <1>4, <1>5 DEF Somewhere
<1>8. OnePlace(t) => ~Somewhere(t)'
  BY <1>2, <1>3, <1>4, <1>5 DEF Somewhere, OnePlace
<1> QED
  BY <1>6, <1>7, <1>8

-----------------------------------------------------------------------------
(* The steps *)

\* What a worker that waits, ends or has its endorsements does to the copies.
LEMMA PcOnly ==
  ASSUME NEW w \in Workers, TypeOK, UNCHANGED <<job, submitterVars>>,
         \/ InDequeue(w) /\ pc' = [pc EXCEPT ![w] = "asleep"]
         \/ InDequeue(w) /\ pc' = [pc EXCEPT ![w] = "gone"]
         \/ pc[w] = "executing" /\ pc' = [pc EXCEPT ![w] = "sending"]
  PROVE  \A t \in Txs : (Somewhere(t)' <=> Somewhere(t)) /\ (OnePlace(t)' <=> OnePlace(t))
<1>1. \A v \in Workers : \A t \in Txs : WorkerHolds(v, t)' <=> WorkerHolds(v, t)
  BY DEF WorkerHolds, TypeOK, InDequeue
<1>2. UNCHANGED <<endorsementChan, spc, sjob>>
  BY DEF submitterVars
<1> QED
  BY <1>1, <1>2, SameHolders

\* Dequeue keeps the invariant: it waits, returns nil, or starts tracking the head.
LEMMA DequeueKeeps ==
  ASSUME IInv, NEW w \in Workers, DequeueTx(w)
  PROVE  Mirrors' /\ Single' /\ HeldTracked' /\ TrackedGoesOn'
<1>1. TypeOK /\ Mirrors
  BY DEF IInv
<1>2. PICK t \in Txs : t = Head(pendingQueue)
  BY <1>1, Rest DEF TypeOK, DequeueTx
<1>3. /\ pendingQueue' = Tail(pendingQueue) /\ queuedMap' = queuedMap \ {t}
      /\ inProgressMap' = inProgressMap \cup {t}
      /\ pc' = [pc EXCEPT ![w] = "executing"] /\ job' = [job EXCEPT ![w] = t]
      /\ UNCHANGED <<submitterVars, ordered, completing, early>>
  BY <1>2 DEF DequeueTx, ledgerVars, handleVars
<1>4. t \in queuedMap
  BY <1>1, <1>2, Rest, SMTT(30) DEF TypeOK, Mirrors, DequeueTx, Range
<1>5. Mirrors'
  <2>1. IsInjective(Tail(pendingQueue)) /\ Range(Tail(pendingQueue)) = Range(pendingQueue) \ {t}
    BY <1>1, <1>2, InjectiveTail DEF TypeOK, Mirrors, DequeueTx
  <2> QED
    BY <1>1, <1>3, <2>1 DEF Mirrors
<1>6. /\ Somewhere(t)' /\ (~Somewhere(t) => OnePlace(t)')
      /\ \A u \in Txs \ {t} : (Somewhere(u)' <=> Somewhere(u)) /\ (OnePlace(u) => OnePlace(u)')
  BY <1>1, <1>3, WorkerTakes DEF DequeueTx
<1>7. t \notin early => OnePlace(t)'
  BY <1>4, <1>6, QueuedIsNowhere
<1>8. Single'
  BY <1>3, <1>6, <1>7 DEF IInv, Single
<1>9. HeldTracked'
  BY <1>3, <1>6 DEF IInv, HeldTracked
<1>10. TrackedGoesOn'
  BY <1>1, <1>3, <1>6 DEF IInv, TrackedGoesOn, TypeOK
<1> QED
  BY <1>5, <1>8, <1>9, <1>10

\* So does every step of a worker.
LEMMA WorkerKeeps ==
  ASSUME Sizes, IInv, NEW w \in Workers, WorkerNext(w)
  PROVE  Mirrors' /\ Single' /\ HeldTracked' /\ TrackedGoesOn'
<1>1. TypeOK /\ Mirrors
  BY DEF IInv
<1>2. CASE DequeueWaits(w) \/ DequeueClosed(w) \/ Endorsed(w)
  <2>1. \/ InDequeue(w) /\ pc' = [pc EXCEPT ![w] = "asleep"]
        \/ InDequeue(w) /\ pc' = [pc EXCEPT ![w] = "gone"]
        \/ pc[w] = "executing" /\ pc' = [pc EXCEPT ![w] = "sending"]
    BY <1>2 DEF DequeueWaits, DequeueClosed, Endorsed
  <2>2. UNCHANGED <<queueVars, job, submitterVars, ordered, completing, early>>
    BY <1>2 DEF DequeueWaits, DequeueClosed, Endorsed, ledgerVars, handleVars
  <2>3. \A t \in Txs : (Somewhere(t)' <=> Somewhere(t)) /\ (OnePlace(t) => OnePlace(t)')
    BY <1>1, <2>1, <2>2, PcOnly
  <2> QED
    BY <1>1, <2>2, <2>3, Quiet DEF Mirrors, queueVars
<1>3. CASE SubmitFabricTx(w)
  <2>1. UNCHANGED <<queueVars, ordered, completing, early>>
    BY <1>3 DEF SubmitFabricTx, ledgerVars, handleVars
  <2> QED
    BY <1>1, <1>3, <2>1, WorkerSends, Quiet DEF Mirrors, queueVars
<1>4. CASE ProcessFails(w)
  <2>1. PICK t \in Txs : t = job[w]
    BY <1>1 DEF TypeOK
  <2>2. /\ WorkerHolds(w, t) /\ inProgressMap' = inProgressMap \ {t}
        /\ pc' = [pc EXCEPT ![w] = "dequeue"] /\ job' = [job EXCEPT ![w] = AnyTx]
        /\ UNCHANGED <<pendingQueue, queuedMap, submitterVars, ordered, completing, early>>
    BY <1>4, <2>1 DEF ProcessFails, WorkerHolds, Complete, ledgerVars, handleVars
  <2>3. /\ \A u \in Txs : (Somewhere(u)' => Somewhere(u)) /\ (OnePlace(u) => OnePlace(u)')
        /\ \A u \in Txs \ {t} : Somewhere(u) => Somewhere(u)'
        /\ OnePlace(t) => ~Somewhere(t)'
    BY <1>1, <2>2, WorkerLetsGo
  <2>4. \A u \in Txs : ordered[u] > 0 => ordered'[u] > 0
    BY <2>2
  <2>5. Single' /\ HeldTracked' /\ TrackedGoesOn'
    BY <2>2, <2>3, <2>4, GivenUp
  <2> QED
    BY <1>1, <2>2, <2>5 DEF Mirrors
<1> QED
  BY <1>2, <1>3, <1>4, DequeueKeeps DEF WorkerNext

\* And every step of a submission worker.
LEMMA SubmitterKeeps ==
  ASSUME Sizes, IInv, NEW s \in Submitters, SubmitterNext(s)
  PROVE  Mirrors' /\ Single' /\ HeldTracked' /\ TrackedGoesOn'
<1>1. TypeOK /\ Mirrors
  BY DEF IInv
<1>2. CASE TakeEndorsed(s)
  <2>1. UNCHANGED <<queueVars, ordered, completing, early>>
    BY <1>2 DEF TakeEndorsed, ledgerVars, handleVars
  <2> QED
    BY <1>1, <1>2, <2>1, SubmitterTakes, Quiet DEF Mirrors, queueVars
<1>3. CASE SubmitterStops(s)
  <2>1. UNCHANGED <<queueVars, workerVars, endorsementChan, sjob, ordered, completing, early>>
    BY <1>3 DEF SubmitterStops, ledgerVars, handleVars
  <2>2. \A r \in Submitters : \A t \in Txs : SubmitterHolds(r, t)' <=> SubmitterHolds(r, t)
    BY <1>1, <1>3 DEF SubmitterStops, SubmitterHolds, TypeOK
  <2>3. \A v \in Workers : \A t \in Txs : WorkerHolds(v, t)' <=> WorkerHolds(v, t)
    BY <2>1 DEF WorkerHolds, workerVars
  <2>4. \A t \in Txs : Somewhere(t)' <=> Somewhere(t)
    BY <2>1, <2>2, <2>3 DEF Somewhere
  <2>5. \A t \in Txs : OnePlace(t) => OnePlace(t)'
    BY <2>1, <2>2, <2>3, SMTT(30) DEF OnePlace
  <2> QED
    BY <1>1, <2>1, <2>4, <2>5, Quiet DEF Mirrors, queueVars
<1>4. ASSUME Submitted(s) \/ SubmitFails(s)
      PROVE  Mirrors' /\ Single' /\ HeldTracked' /\ TrackedGoesOn'
  <2>1. PICK t \in Txs : t = sjob[s]
    BY <1>1 DEF TypeOK
  <2>2. /\ SubmitterHolds(s, t) /\ SubmitterIdle(s)
        /\ UNCHANGED <<pendingQueue, queuedMap, workerVars, completing, early>>
    BY <1>4, <2>1 DEF Submitted, SubmitFails, SubmitterHolds, Complete, queueVars, handleVars
  <2>3. /\ \A u \in Txs : (Somewhere(u)' => Somewhere(u)) /\ (OnePlace(u) => OnePlace(u)')
        /\ \A u \in Txs \ {t} : Somewhere(u) => Somewhere(u)'
        /\ OnePlace(t) => ~Somewhere(t)'
    BY <1>1, <2>2, SubmitterLetsGo
  <2>4. ordered' = ordered \/ ordered' = [ordered EXCEPT ![t] = @ + 1]
    BY <1>4, <2>1 DEF Submitted, SubmitFails
  <2>5. \A u \in Txs : ordered[u] > 0 => ordered'[u] > 0
    <3>1. ordered \in [Txs -> Nat]
      BY <1>1 DEF TypeOK
    <3>2. CASE ordered' = [ordered EXCEPT ![t] = @ + 1]
      BY <3>1, <3>2, SMTT(30)
    <3> QED
      BY <2>4, <3>2
  <2>6. CASE SubmitFails(s)
    <3>1. inProgressMap' = inProgressMap \ {t}
      BY <2>1, <2>6 DEF SubmitFails, Complete
    <3>2. Single' /\ HeldTracked' /\ TrackedGoesOn'
      BY <2>2, <2>3, <2>5, <3>1, GivenUp
    <3> QED
      BY <1>1, <2>2, <3>1, <3>2 DEF Mirrors
  <2>7. CASE Submitted(s)
    <3>1. inProgressMap' = inProgressMap /\ ordered'[t] > 0
      BY <1>1, <2>1, <2>7, SMTT(30) DEF Submitted, queueVars, TypeOK
    <3>2. Mirrors'
      BY <1>1, <2>2, <3>1 DEF Mirrors
    <3>3. Single' /\ HeldTracked'
      BY <2>2, <2>3, <3>1 DEF IInv, Single, HeldTracked
    <3>4. TrackedGoesOn'
      BY <1>1, <2>2, <2>3, <2>5, <3>1 DEF IInv, TrackedGoesOn, TypeOK
    <3> QED
      BY <3>2, <3>3, <3>4
  <2> QED
    BY <1>4, <2>6, <2>7
<1> QED
  BY <1>2, <1>3, <1>4 DEF SubmitterNext

\* Enqueue, blocks and shutdown move no copy.
LEMMA EnqueueKeeps ==
  ASSUME IInv, NEW t \in Txs, Enqueue(t)
  PROVE  Mirrors' /\ Single' /\ HeldTracked' /\ TrackedGoesOn'
<1>1. TypeOK /\ Mirrors
  BY DEF IInv
<1>2. \A w \in Workers : pc'[w] = pc[w] \/ (pc[w] = "asleep" /\ pc'[w] = "woken")
  <2>1. \/ Asleep = {} /\ pc' = pc
        \/ \E w \in Asleep : pc' = [pc EXCEPT ![w] = "woken"]
    BY <1>1, SignalWakes DEF Enqueue
  <2>2. ASSUME NEW v \in Asleep, pc' = [pc EXCEPT ![v] = "woken"], NEW w \in Workers
        PROVE  pc'[w] = pc[w] \/ (pc[w] = "asleep" /\ pc'[w] = "woken")
    BY <1>1, <2>2 DEF Asleep, TypeOK
  <2> QED
    BY <2>1, <2>2
<1>3. /\ pendingQueue' = Append(pendingQueue, t) /\ queuedMap' = queuedMap \cup {t} /\ NotTracked(t)
      /\ UNCHANGED <<inProgressMap, job, endorsementChan, spc, sjob, ordered, completing, early>>
  BY DEF Enqueue, submitterVars, ledgerVars, handleVars
<1>4. \A w \in Workers : \A u \in Txs : WorkerHolds(w, u)' <=> WorkerHolds(w, u)
  BY <1>2, <1>3 DEF WorkerHolds
<1>5. \A u \in Txs : (Somewhere(u)' <=> Somewhere(u)) /\ (OnePlace(u) => OnePlace(u)')
  BY <1>3, <1>4, SameHolders
<1>6. Single' /\ HeldTracked' /\ TrackedGoesOn'
  BY <1>3, <1>5, Quiet
<1>7. Mirrors'
  <2>1. pendingQueue \in Seq(Txs) /\ IsInjective(pendingQueue) /\ t \notin Range(pendingQueue)
    BY <1>1, <1>3 DEF TypeOK, Mirrors, NotTracked
  <2>2. /\ IsInjective(Append(pendingQueue, t))
        /\ Range(Append(pendingQueue, t)) = Range(pendingQueue) \cup {t}
    BY <2>1, InjectiveAppend, Appended, SMTT(30)
  <2> QED
    BY <1>1, <1>3, <2>2 DEF Mirrors, NotTracked
<1> QED
  BY <1>6, <1>7

\* The arrival of a block adds its transactions to those still to be handled.
LEMMA BlockKeeps ==
  ASSUME Sizes, IInv, NEW txs \in BlockContents, NEW valid \in SUBSET Range(txs), Handle(txs, valid)
  PROVE  Mirrors' /\ Single' /\ HeldTracked' /\ TrackedGoesOn'
<1>1. /\ UNCHANGED <<pendingQueue, queuedMap, inProgressMap, workerVars, endorsementChan, spc, sjob, early>>
      /\ completing = <<>> /\ completing' = txs
      /\ \A t \in Txs : t \notin Range(txs) => ordered'[t] = ordered[t]
  BY DEF Handle, queueVars, submitterVars
<1>2. \A w \in Workers : \A u \in Txs : WorkerHolds(w, u)' <=> WorkerHolds(w, u)
  BY <1>1 DEF WorkerHolds, workerVars
<1>3. \A u \in Txs : (Somewhere(u)' <=> Somewhere(u)) /\ (OnePlace(u)' <=> OnePlace(u))
  BY <1>1, <1>2, SameHolders
<1>4. Mirrors'
  BY <1>1 DEF IInv, Mirrors
<1>5. Single' /\ HeldTracked'
  BY <1>1, <1>3 DEF IInv, Single, HeldTracked
<1>6. Range(completing) = {} /\ Range(completing') = Range(txs)
  BY <1>1, SMTT(30) DEF Range
<1>7. TrackedGoesOn'
  BY <1>1, <1>3, <1>6 DEF IInv, TypeOK, TrackedGoesOn
<1> QED
  BY <1>4, <1>5, <1>7

\* What HeldBy counts.
LEMMA Counted ==
  ASSUME Sizes, TypeOK, NEW t \in Txs
  PROVE  (Held(t) <=> Somewhere(t)) /\ (OnePlace(t) => HeldBy(t) <= 1)
<1> DEFINE W == {w \in Workers : pc[w] \in {"executing", "sending"} /\ job[w] = t}
           C == {i \in DOMAIN endorsementChan : endorsementChan[i] = t}
           S == {s \in Submitters : spc[s] = "submitting" /\ sjob[s] = t}
<1>1. IsFiniteSet(W) /\ IsFiniteSet(S)
  BY FS_Subset DEF Sizes
<1>2. IsFiniteSet(C)
  <2>1. Len(endorsementChan) \in Nat /\ DOMAIN endorsementChan = 1..Len(endorsementChan)
    BY SMTT(30) DEF TypeOK
  <2>2. IsFiniteSet(1..Len(endorsementChan))
    BY <2>1, FS_Interval, SMTT(30)
  <2> QED
    BY <2>1, <2>2, FS_Subset
<1>3. HeldBy(t) = Cardinality(W) + Cardinality(C) + Cardinality(S)
  BY DEF HeldBy
<1>4. Somewhere(t) <=> W # {} \/ C # {} \/ S # {}
  BY DEF Somewhere, WorkerHolds, SubmitterHolds
<1>5. OnePlace(t) => /\ \A x, y \in W : x = y
                     /\ \A x, y \in C : x = y
                     /\ \A x, y \in S : x = y
                     /\ W # {} => C = {} /\ S = {}
                     /\ C # {} => S = {}
  BY DEF OnePlace, WorkerHolds, SubmitterHolds
<1> HIDE DEF W, C, S
<1>6. ASSUME NEW X, IsFiniteSet(X)
      PROVE  /\ Cardinality(X) \in Nat /\ (Cardinality(X) = 0 <=> X = {})
             /\ (\A x, y \in X : x = y) => Cardinality(X) <= 1
  <2>1. Cardinality(X) \in Nat /\ (Cardinality(X) = 0 <=> X = {})
    BY <1>6, FS_CardinalityType, FS_EmptySet
  <2>2. ASSUME NEW x \in X, \A y, z \in X : y = z PROVE Cardinality(X) = 1
    <3>1. X = {x}
      BY <2>2
    <3> QED
      BY <3>1, FS_Singleton
  <2> QED
    BY <2>1, <2>2, SMTT(30)
<1>7. /\ Cardinality(W) \in Nat /\ Cardinality(C) \in Nat /\ Cardinality(S) \in Nat
      /\ Cardinality(W) = 0 <=> W = {}
      /\ Cardinality(C) = 0 <=> C = {}
      /\ Cardinality(S) = 0 <=> S = {}
  BY <1>1, <1>2, <1>6
<1>8. OnePlace(t) => Cardinality(W) <= 1 /\ Cardinality(C) <= 1 /\ Cardinality(S) <= 1
  BY <1>1, <1>2, <1>5, <1>6
<1>9. Held(t) <=> Somewhere(t)
  BY <1>3, <1>4, <1>7, SMTT(30) DEF Held
<1>10. OnePlace(t) => HeldBy(t) <= 1
  BY <1>3, <1>5, <1>7, <1>8, SMTT(30)
<1> QED
  BY <1>9, <1>10

\* handleBlock completes the next transaction of the block, tracked or not.
LEMMA HandleNextKeeps ==
  ASSUME Sizes, IInv, HandleNext
  PROVE  Mirrors' /\ Single' /\ HeldTracked' /\ TrackedGoesOn'
<1>1. TypeOK /\ Mirrors
  BY DEF IInv
<1>2. PICK t \in Txs : t = Head(completing)
  BY <1>1, Rest DEF TypeOK, HandleNext
<1>3. /\ UNCHANGED <<pendingQueue, queuedMap, workerVars, endorsementChan, spc, sjob, ordered>>
      /\ inProgressMap' = inProgressMap \ {t} /\ completing' = Tail(completing)
      /\ early' = IF Held(t) THEN early \cup {t} ELSE early
  BY <1>2 DEF HandleNext, Complete, submitterVars, ledgerVars
<1>4. \A w \in Workers : \A u \in Txs : WorkerHolds(w, u)' <=> WorkerHolds(w, u)
  BY <1>3 DEF WorkerHolds, workerVars
<1>5. \A u \in Txs : (Somewhere(u)' <=> Somewhere(u)) /\ (OnePlace(u)' <=> OnePlace(u))
  BY <1>3, <1>4, SameHolders
<1>6. Range(completing) = Range(completing') \cup {t}
  BY <1>1, <1>2, <1>3, Rest DEF TypeOK, HandleNext
<1>7. Held(t) <=> Somewhere(t)
  BY <1>1, Counted
<1>8. Mirrors'
  BY <1>1, <1>3 DEF Mirrors
<1>9. Single'
  BY <1>3, <1>5 DEF IInv, Single
<1>10. HeldTracked'
  BY <1>3, <1>5, <1>7 DEF IInv, HeldTracked
<1>11. TrackedGoesOn'
  BY <1>1, <1>3, <1>5, <1>6, SMTT(30) DEF IInv, TrackedGoesOn, TypeOK
<1> QED
  BY <1>8, <1>9, <1>10, <1>11

\* Shutdown, and steps that change nothing.
LEMMA StopKeeps ==
  ASSUME IInv, Cancel \/ StopNext \/ UNCHANGED vars
  PROVE  Mirrors' /\ Single' /\ HeldTracked' /\ TrackedGoesOn'
<1>1. UNCHANGED <<pendingQueue, queuedMap, inProgressMap, job, endorsementChan, spc, sjob, ordered,
                 completing, early>>
  BY DEF Cancel, StopNext, StopBegin, StopSubmitter, StopEnd, vars, queueVars, workerVars,
    submitterVars, ledgerVars, handleVars
<1>2. \A w \in Workers : pc'[w] = pc[w] \/ (pc[w] = "asleep" /\ pc'[w] = "woken")
  <2>1. pc' = pc \/ pc' = Broadcast(pc)
    BY DEF Cancel, StopNext, StopBegin, StopSubmitter, StopEnd, vars, workerVars
  <2> QED
    BY <2>1 DEF Broadcast, Asleep
<1>3. \A w \in Workers : \A u \in Txs : WorkerHolds(w, u)' <=> WorkerHolds(w, u)
  BY <1>1, <1>2 DEF WorkerHolds
<1>4. \A u \in Txs : (Somewhere(u)' <=> Somewhere(u)) /\ (OnePlace(u) => OnePlace(u)')
  BY <1>1, <1>3, SameHolders
<1>5. Mirrors'
  BY <1>1 DEF IInv, Mirrors
<1> QED
  BY <1>1, <1>4, <1>5, Quiet

-----------------------------------------------------------------------------
(* Wake-ups *)

Awake == {w \in Workers : InDequeue(w)}

\* No step makes the queue longer than the workers that are or will be awake to
\* empty it, unless no worker sleeps.
LEMMA WakeupsKept ==
  ASSUME Sizes, IInv, [Next]_vars
  PROVE  NoLostWakeup'
<1>1. TypeOK /\ (Asleep # {} => Len(pendingQueue) <= Cardinality(Awake))
  BY DEF IInv, NoLostWakeup, Awake
<1>2. IsFiniteSet(Awake) /\ Cardinality(Awake) \in Nat /\ Len(pendingQueue) \in Nat
  BY <1>1, FS_Subset, FS_CardinalityType, SMTT(30) DEF Sizes, Awake, TypeOK
<1>3. IsFiniteSet(Awake') /\ Cardinality(Awake') \in Nat
  BY FS_Subset, FS_CardinalityType DEF Sizes, Awake
<1>4. SUFFICES ASSUME Asleep' # {} PROVE Len(pendingQueue') <= Cardinality(Awake')
  BY DEF NoLostWakeup, Awake
<1>5. CASE /\ pendingQueue' = pendingQueue
           /\ Asleep' \subseteq Asleep /\ Awake \subseteq Awake'
  <2>1. Cardinality(Awake) <= Cardinality(Awake')
    BY <1>3, <1>5, FS_Subset
  <2> QED
    BY <1>1, <1>2, <1>3, <1>4, <1>5, <2>1, SMTT(30)
<1>6. ASSUME NEW t \in Txs, Enqueue(t) PROVE Len(pendingQueue') <= Cardinality(Awake')
  <2>1. Len(pendingQueue') = Len(pendingQueue) + 1
    BY <1>1, <1>6, Appended DEF TypeOK, Enqueue
  <2>2. Asleep # {}
    BY <1>1, <1>4, <1>6, SignalWakes DEF Enqueue, Asleep
  <2>3. PICK w \in Asleep : pc' = [pc EXCEPT ![w] = "woken"]
    BY <1>1, <1>6, <2>2, SignalWakes DEF Enqueue
  <2>4. w \notin Awake /\ Awake' = Awake \cup {w}
    BY <1>1, <2>3 DEF Awake, Asleep, InDequeue, TypeOK
  <2>5. Cardinality(Awake') = Cardinality(Awake) + 1
    BY <1>2, <2>4, FS_AddElement
  <2> QED
    BY <1>1, <1>2, <2>1, <2>2, <2>5, SMTT(30)
<1>7. ASSUME NEW w \in Workers, DequeueTx(w) PROVE Len(pendingQueue') <= Cardinality(Awake')
  <2>1. Len(pendingQueue') = Len(pendingQueue) - 1
    BY <1>1, <1>7, Rest DEF TypeOK, DequeueTx
  <2>2. Asleep' = Asleep /\ w \in Awake /\ Awake' = Awake \ {w}
    BY <1>1, <1>7 DEF DequeueTx, Awake, Asleep, InDequeue, TypeOK
  <2>3. Cardinality(Awake') = Cardinality(Awake) - 1
    BY <1>2, <2>2, FS_RemoveElement
  <2> QED
    BY <1>1, <1>2, <1>4, <2>1, <2>2, <2>3, SMTT(30)
<1>8. ASSUME NEW w \in Workers, DequeueWaits(w) \/ DequeueClosed(w)
      PROVE  Len(pendingQueue') <= Cardinality(Awake')
  BY <1>3, <1>8, SMTT(30) DEF DequeueWaits, DequeueClosed, queueVars
<1>9. ASSUME NEW w \in Workers, Endorsed(w) \/ SubmitFabricTx(w) \/ ProcessFails(w)
      PROVE  Len(pendingQueue') <= Cardinality(Awake')
  <2>1. pendingQueue' = pendingQueue
    BY <1>9 DEF Endorsed, SubmitFabricTx, ProcessFails, Complete, queueVars
  <2>2. ~InDequeue(w) /\ pc[w] # "asleep"
    BY <1>9 DEF Endorsed, SubmitFabricTx, ProcessFails, InDequeue
  <2>3. pc' = [pc EXCEPT ![w] = "sending"] \/ pc' = [pc EXCEPT ![w] = "dequeue"]
    BY <1>9 DEF Endorsed, SubmitFabricTx, ProcessFails
  <2>4. Asleep' \subseteq Asleep /\ Awake \subseteq Awake'
    BY <1>1, <2>2, <2>3 DEF Asleep, Awake, InDequeue, TypeOK
  <2> QED
    BY <1>5, <2>1, <2>4
<1>10. CASE StopBegin
  BY <1>4, <1>10 DEF StopBegin, Broadcast, Asleep
<1>11. CASE UNCHANGED <<pendingQueue, pc>>
  BY <1>5, <1>11 DEF Asleep, Awake, InDequeue
<1>12. ASSUME NEW s \in Submitters, SubmitterNext(s) PROVE UNCHANGED <<pendingQueue, pc>>
  BY <1>12 DEF SubmitterNext, TakeEndorsed, SubmitterStops, Submitted, SubmitFails, Complete,
    queueVars, workerVars
<1>13. ASSUME NEW txs \in BlockContents, NEW valid \in SUBSET Range(txs), Handle(txs, valid)
       PROVE  UNCHANGED <<pendingQueue, pc>>
  BY <1>13 DEF Handle, queueVars, workerVars
<1>14. CASE HandleNext \/ Cancel \/ StopSubmitter \/ StopEnd \/ UNCHANGED vars
  <2>1. UNCHANGED <<pendingQueue, pc>>
    BY <1>14 DEF HandleNext, Complete, Cancel, StopSubmitter, StopEnd, vars, queueVars, workerVars
  <2> QED
    BY <1>11, <2>1
<1> QED
  BY <1>6, <1>7, <1>8, <1>9, <1>10, <1>11, <1>12, <1>13, <1>14, SMTT(30) DEF Next, WorkerNext, StopNext

-----------------------------------------------------------------------------
(* The theorems *)

\* Every step keeps the invariant.
LEMMA StepInv == Sizes /\ IInv /\ [Next]_vars => IInv'
<1> SUFFICES ASSUME Sizes, IInv, [Next]_vars PROVE IInv'
  OBVIOUS
<1>1. TypeOK' /\ NoLostWakeup'
  BY TypesKept, WakeupsKept DEF IInv
<1>2. Mirrors' /\ Single' /\ HeldTracked' /\ TrackedGoesOn'
  BY EnqueueKeeps, WorkerKeeps, SubmitterKeeps, BlockKeeps, HandleNextKeeps, StopKeeps DEF Next
<1> QED
  BY <1>1, <1>2 DEF IInv

\* The invariant holds in every reachable state.
THEOREM PipelineInvariance == Sizes /\ Spec => [](Sizes /\ IInv)
<1>1. Sizes /\ Init => Sizes /\ IInv
  BY InitInv
<1>2. (Sizes /\ IInv) /\ [Next]_vars => (Sizes /\ IInv)'
  <2>1. Sizes => Sizes'
    BY DEF Sizes
  <2> QED
    BY <2>1, StepInv
<1> QED
  BY <1>1, <1>2, PTL DEF Spec

\* txqueue.go, batch_submitter.go: the maps of the queue mirror its list and the
\* channel keeps its capacity; at most one copy of a transaction is on its way, and
\* is tracked; none is left in inProgressMap with nobody to complete it; and no
\* worker sleeps while transactions are queued that nobody was woken for.
THEOREM PipelineIsSound == Sizes /\ Spec => []PipelineKeepsTrack
<1>1. Sizes /\ IInv => PipelineKeepsTrack
  <2> SUFFICES ASSUME Sizes, IInv PROVE PipelineKeepsTrack
    OBVIOUS
  <2>1. TypeOK
    BY DEF IInv
  <2>2. \A t \in Txs : (Held(t) <=> Somewhere(t)) /\ (OnePlace(t) => HeldBy(t) <= 1)
    BY <2>1, Counted
  <2>3. OneOnTheWay
    BY <2>2 DEF IInv, OneOnTheWay, Single, HeldTracked
  <2>4. NoLeak
    BY <2>1, <2>2 DEF IInv, NoLeak, TrackedGoesOn, TypeOK
  <2> QED
    BY <2>3, <2>4 DEF IInv, PipelineKeepsTrack
<1> QED
  BY <1>1, PipelineInvariance, PTL

=============================================================================
