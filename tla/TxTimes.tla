------------------------------- MODULE TxTimes -------------------------------
(***************************************************************************)
(* The timestamps that the metrics keep of one transaction, from           *)
(* SendTransaction to the block: an entry of the shared map txTimes that   *)
(* the sender's goroutine, the nonce gate, a worker, a submitter and the   *)
(* notification stream write and delete, each with calls of its own and    *)
(* none under a common lock.  A time is the call of SendTransaction that   *)
(* took it.                                                                *)
(***************************************************************************)
EXTENDS Naturals, TLAPS

CONSTANTS Senders,    \* goroutines that send the transaction
          MaxSends,   \* bound: calls of SendTransaction
          Stream      \* blocks come from the notification stream, not from delivery

VARIABLES pc,        \* sender -> where its call of SendTransaction is
          call,      \* sender -> the number of its call
          sends,     \* calls so far
          stage,     \* where the transaction is
          origin,    \* the call that brought it there
          committed, \* the nonce is spent
          entry,     \* txTimes[hash]
          closing,   \* HandleBatch has still to call ObserveTxComplete
          loaded     \* the entry that a stamp has read and not yet stored

vars == <<pc, call, sends, stage, origin, committed, entry, closing, loaded>>
pipeline == <<stage, origin, committed, closing>>

None == [step1 |-> 0, step14 |-> FALSE, step15 |-> FALSE]   \* no entry

\* The stages at which the queue or the nonce gate has the transaction.
Pending == stage # "out"

Init ==
  /\ pc = [s \in Senders |-> "idle"] /\ call = [s \in Senders |-> 0] /\ sends = 0
  /\ stage = "out" /\ origin = 0 /\ committed = FALSE
  /\ entry = None /\ closing = FALSE /\ loaded = None

-----------------------------------------------------------------------------
(* SendTransaction *)

\* Mutant: a resubmission is left to the queue to refuse.
CheckNothing(s) ==
  /\ pc[s] = "idle" /\ sends < MaxSends
  /\ sends' = sends + 1
  /\ call' = [call EXCEPT ![s] = sends + 1]
  /\ pc' = [pc EXCEPT ![s] = "checked"]
  /\ UNCHANGED <<pipeline, entry, loaded>>

\* A resubmission of what is queued or parked is refused at once.
Check(s) ==
  /\ pc[s] = "idle" /\ sends < MaxSends
  /\ sends' = sends + 1
  /\ call' = [call EXCEPT ![s] = sends + 1]
  /\ pc' = [pc EXCEPT ![s] = IF Pending THEN "idle" ELSE "checked"]
  /\ UNCHANGED <<pipeline, entry, loaded>>

TrackTxStart(s) ==
  /\ pc[s] = "checked"
  /\ pc' = [pc EXCEPT ![s] = "tracked"]
  /\ entry' = [None EXCEPT !.step1 = call[s]]
  /\ UNCHANGED <<call, sends, pipeline, loaded>>

\* Admit, for a transaction the gateway does not have: enqueued, parked, or
\* refused because the queue is full or closed or the sender has too many.
AdmitNew(s) ==
  /\ pc[s] = "tracked" /\ ~Pending /\ ~committed
  /\ \/ /\ pc' = [pc EXCEPT ![s] = "idle"]
        /\ stage' \in {"queued", "parked"} /\ origin' = call[s]
     \/ /\ pc' = [pc EXCEPT ![s] = "rejected"]
        /\ UNCHANGED <<stage, origin>>
  /\ UNCHANGED <<call, sends, committed, entry, closing, loaded>>

\* Admit of a copy of a parked transaction replaces it; park forgets the old
\* one, which has the same hash.
AdmitParked(s) ==
  /\ pc[s] = "tracked" /\ stage = "parked"
  /\ pc' = [pc EXCEPT ![s] = "idle"]
  /\ origin' = call[s] /\ entry' = None
  /\ UNCHANGED <<call, sends, stage, committed, closing, loaded>>

\* Admit of a copy of a queued one: the nonce is spent, or Enqueue answers
\* ErrTransactionAlreadyPending and the entry is left to the queued one.
AdmitOther(s) ==
  /\ pc[s] = "tracked"
  /\ committed \/ (Pending /\ stage # "parked")
  /\ pc' = [pc EXCEPT ![s] = IF committed THEN "rejected" ELSE "idle"]
  /\ UNCHANGED <<call, sends, pipeline, entry, loaded>>

\* Mutant: a rejected transaction keeps its entry.
RejectAndKeep(s) ==
  /\ pc[s] = "rejected"
  /\ pc' = [pc EXCEPT ![s] = "idle"]
  /\ UNCHANGED <<call, sends, pipeline, entry, loaded>>

\* The ForgetTx of SendTransaction.
Reject(s) ==
  /\ pc[s] = "rejected"
  /\ pc' = [pc EXCEPT ![s] = "idle"]
  /\ entry' = None
  /\ UNCHANGED <<call, sends, pipeline, loaded>>

-----------------------------------------------------------------------------
(* The nonce gate, a worker and a submitter *)

Move(from, to) ==
  /\ stage = from /\ stage' = to
  /\ UNCHANGED <<pc, call, sends, origin, committed, closing>>

\* The gap is filled: Observe enqueues the parked transaction.
Release == Move("parked", "queued") /\ UNCHANGED <<entry, loaded>>

\* The reaper, or a block that spends the nonce, drops it and forgets it.
DropParked == Move("parked", "out") /\ entry' = None /\ UNCHANGED loaded

\* processTx ends.
Process == (Move("queued", "endorsed") \/ Move("queued", "failed")) /\ UNCHANGED <<entry, loaded>>

\* RecordTxSubmitted is a Load and a Store.
SubmittedLoad == Move("endorsed", "stamping") /\ loaded' = entry /\ UNCHANGED entry

\* Mutant: what was read is stored without the stamp.
StampLost ==
  /\ Move("stamping", "stamped")
  /\ entry' = IF loaded = None THEN entry ELSE loaded
  /\ loaded' = None

SubmittedStore ==
  /\ Move("stamping", "stamped")
  /\ entry' = IF loaded = None THEN entry ELSE [loaded EXCEPT !.step14 = TRUE]
  /\ loaded' = None

Submit == (Move("stamped", "ordered") \/ Move("stamped", "failed")) /\ UNCHANGED <<entry, loaded>>

\* A worker, a submitter or drop forgets the transaction, then completes it.
ForgetFailed == Move("failed", "forgotten") /\ entry' = None /\ UNCHANGED loaded

CompleteFailed == Move("forgotten", "out") /\ UNCHANGED <<entry, loaded>>

-----------------------------------------------------------------------------
(* The block *)

\* RecordTxNotified, in HandleBatch; the delivery path has no such call.
NotifiedLoad ==
  /\ Stream /\ ~closing /\ Move("ordered", "notifying")
  /\ loaded' = entry /\ UNCHANGED entry

NotifiedStore ==
  /\ Move("notifying", "notified")
  /\ entry' = IF loaded = None THEN entry ELSE [loaded EXCEPT !.step15 = TRUE]
  /\ loaded' = None

\* Gateway.Handle: the gate observes a valid transaction ...
Observe ==
  /\ stage = IF Stream THEN "notified" ELSE "ordered"
  /\ stage' = "observed" /\ committed' \in BOOLEAN
  /\ UNCHANGED <<pc, call, sends, origin, entry, closing, loaded>>

\* ... and the queue completes it.
Complete ==
  /\ stage = "observed" /\ stage' = "out"
  /\ closing' = Stream
  /\ UNCHANGED <<pc, call, sends, origin, committed, entry, loaded>>

\* Mutant: the entry is read and not deleted.
CompleteAndKeep ==
  /\ closing /\ closing' = FALSE
  /\ UNCHANGED <<pc, call, sends, stage, origin, committed, entry, loaded>>

\* The last step of HandleBatch, which handles one block at a time.
ObserveTxComplete ==
  /\ closing /\ closing' = FALSE
  /\ entry' = None
  /\ UNCHANGED <<pc, call, sends, stage, origin, committed, loaded>>

Next ==
  \/ \E s \in Senders : \/ Check(s) \/ TrackTxStart(s) \/ Reject(s)
                        \/ AdmitNew(s) \/ AdmitParked(s) \/ AdmitOther(s)
  \/ Release \/ DropParked \/ Process
  \/ SubmittedLoad \/ SubmittedStore \/ Submit \/ ForgetFailed \/ CompleteFailed
  \/ NotifiedLoad \/ NotifiedStore \/ Observe \/ Complete \/ ObserveTxComplete

Spec == Init /\ [][Next]_vars

-----------------------------------------------------------------------------
(* Properties *)

\* Once the transaction has left the gateway and no call of SendTransaction is
\* under way, the metrics hold nothing of it: "a rejected tx leaves nothing
\* behind", and ForgetTx and ObserveTxComplete cover the others.
NothingLeft ==
  stage = "out" /\ ~closing /\ (\A s \in Senders : pc[s] = "idle") => entry = None

\* With several senders an entry may be left over, but never that of the copy
\* which the gateway handled last: whichever stamp raced with whichever
\* deletion, its worker, its submitter or its block has the last word.
HandledIsForgotten ==
  stage = "out" /\ ~closing /\ entry # None => entry.step1 # origin

\* While the gateway has the transaction, the start time that is kept is that
\* of the call which brought it in: "a resubmission cannot reset the timestamp
\* of the original" (SendTransaction). There may be none, after an
\* ObserveTxComplete that came late.
StartIsItsOwn == Pending => entry.step1 \in {0, origin}

\* A notification that is measured finds the time of the hand-off: no ordering
\* latency is missed or taken from another attempt.
OrderingIsMeasured == entry.step15 => entry.step14

-----------------------------------------------------------------------------
(* Proof, for any number of senders and of calls *)

\* A call of SendTransaction that may still store its start time or bring the
\* transaction in.
Active(s) == pc[s] \in {"checked", "tracked"}

States == {"idle", "checked", "tracked", "rejected"}

\* The calls are numbered: an active one differs from every other active one
\* and from the one that brought the transaction in.
CallsDiffer ==
  /\ sends \in Nat /\ origin \in 0..sends
  /\ pc \in [Senders -> States] /\ call \in [Senders -> 0..sends]
  /\ \A s \in Senders : Active(s) => call[s] # origin
  /\ \A s, t \in Senders : Active(s) /\ Active(t) /\ s # t => call[s] # call[t]

\* The entry of the copy that was handled is gone from the ForgetTx of its
\* failure, or from its ObserveTxComplete, until another one is brought in.
EntryGone ==
  /\ stage = "forgotten" => entry = None \/ entry.step1 # origin
  /\ stage = "out" /\ ~closing => entry = None \/ entry.step1 # origin

IInv == CallsDiffer /\ EntryGone

-----------------------------------------------------------------------------

\* In the initial state no call is active and there is no entry.
LEMMA InitInv == Init => IInv
<1> SUFFICES ASSUME Init PROVE IInv
  OBVIOUS
<1>1. sends = 0 /\ origin = 0 /\ pc = [s \in Senders |-> "idle"]
  BY DEF Init
<1>2. pc \in [Senders -> States] /\ call \in [Senders -> 0..sends]
  BY DEF Init, States
<1>3. \A s \in Senders : ~Active(s)
  BY <1>1 DEF Active
<1>4. EntryGone
  BY DEF Init, EntryGone
<1> QED
  BY <1>1, <1>2, <1>3, <1>4 DEF IInv, CallsDiffer

\* A call begins: its number is new.
LEMMA CheckKeeps ==
  ASSUME IInv, NEW s \in Senders, Check(s)
  PROVE  IInv'
<1>1. sends' = sends + 1 /\ call' = [call EXCEPT ![s] = sends + 1]
  BY DEF Check
<1>2. pc' \in [Senders -> States] /\ \A t \in Senders : t # s => pc'[t] = pc[t]
  BY DEF Check, IInv, CallsDiffer, States
<1>3. call' \in [Senders -> 0..sends'] /\ origin' \in 0..sends' /\ sends' \in Nat
  BY <1>1 DEF Check, pipeline, IInv, CallsDiffer
<1>4. \A t \in Senders : Active(t)' => call'[t] # origin'
  BY <1>1, <1>2 DEF Check, pipeline, IInv, CallsDiffer, Active, States
<1>5. \A t, u \in Senders : Active(t)' /\ Active(u)' /\ t # u => call'[t] # call'[u]
  BY <1>1, <1>2 DEF IInv, CallsDiffer, Active, States
<1>6. EntryGone'
  BY DEF Check, pipeline, IInv, EntryGone
<1> QED
  BY <1>2, <1>3, <1>4, <1>5, <1>6 DEF IInv, CallsDiffer

\* A call that is active or not stores its start time, which is no other's.
LEMMA TrackKeeps ==
  ASSUME IInv, NEW s \in Senders, TrackTxStart(s)
  PROVE  IInv'
<1>1. Active(s) /\ call[s] # origin /\ entry'.step1 = call[s]
  BY DEF TrackTxStart, Active, IInv, CallsDiffer, None
<1>2. CallsDiffer'
  BY DEF TrackTxStart, pipeline, IInv, CallsDiffer, Active, States
<1>3. EntryGone'
  BY <1>1 DEF TrackTxStart, pipeline, EntryGone
<1> QED
  BY <1>2, <1>3 DEF IInv

\* Admit ends the active part of a call, which may now be the origin.
LEMMA AdmitKeeps ==
  ASSUME IInv, NEW s \in Senders, AdmitNew(s) \/ AdmitParked(s) \/ AdmitOther(s)
  PROVE  IInv'
<1>1. /\ sends' = sends /\ call' = call
      /\ pc' \in [Senders -> States] /\ \A t \in Senders : t # s => pc'[t] = pc[t]
      /\ ~Active(s)' /\ Active(s)
  BY DEF AdmitNew, AdmitParked, AdmitOther, pipeline, IInv, CallsDiffer, Active, States
<1>2. origin' \in {origin, call[s]}
  BY DEF AdmitNew, AdmitParked, AdmitOther, pipeline
<1>3. \A t \in Senders : Active(t)' => Active(t) /\ t # s
  BY <1>1 DEF Active
<1>4. CallsDiffer'
  <2>1. \A t \in Senders : Active(t)' => call'[t] # origin'
    BY <1>1, <1>2, <1>3 DEF IInv, CallsDiffer
  <2>2. \A t, u \in Senders : Active(t)' /\ Active(u)' /\ t # u => call'[t] # call'[u]
    BY <1>1, <1>3 DEF IInv, CallsDiffer
  <2>3. origin' \in 0..sends' /\ call' \in [Senders -> 0..sends'] /\ sends' \in Nat
    BY <1>1, <1>2 DEF IInv, CallsDiffer
  <2> QED
    BY <1>1, <2>1, <2>2, <2>3 DEF CallsDiffer
<1>5. EntryGone'
  BY DEF AdmitNew, AdmitParked, AdmitOther, pipeline, Pending, IInv, EntryGone
<1> QED
  BY <1>4, <1>5 DEF IInv

\* A rejected call stores nothing more and brings nothing in.
LEMMA RejectKeeps ==
  ASSUME IInv, NEW s \in Senders, Reject(s)
  PROVE  IInv'
<1>1. CallsDiffer'
  BY DEF Reject, pipeline, IInv, CallsDiffer, Active, States
<1>2. EntryGone'
  BY DEF Reject, EntryGone
<1> QED
  BY <1>1, <1>2 DEF IInv

\* The steps of the pipeline leave the calls alone; the one that ends it leaves
\* no entry of the copy behind, since on the stream ObserveTxComplete follows.
LEMMA PipelineKeeps ==
  ASSUME IInv, Stream = TRUE,
         \/ Release \/ DropParked \/ Process
         \/ SubmittedLoad \/ SubmittedStore \/ Submit \/ ForgetFailed \/ CompleteFailed
         \/ NotifiedLoad \/ NotifiedStore \/ Observe \/ Complete \/ ObserveTxComplete
  PROVE  IInv'
<1>1. UNCHANGED <<pc, call, sends, origin>>
  BY DEF Release, DropParked, Process, SubmittedLoad, SubmittedStore, Submit, ForgetFailed,
         CompleteFailed, NotifiedLoad, NotifiedStore, Observe, Complete, ObserveTxComplete, Move
<1>2. CallsDiffer'
  BY <1>1 DEF IInv, CallsDiffer, Active, States
<1>3. EntryGone'
  <2>1. CASE Release \/ DropParked \/ Process \/ Submit
    BY <2>1 DEF Release, DropParked, Process, Submit, Move, EntryGone
  <2>2. CASE SubmittedLoad \/ SubmittedStore \/ NotifiedLoad \/ NotifiedStore
    BY <2>2 DEF SubmittedLoad, SubmittedStore, NotifiedLoad, NotifiedStore, Move, EntryGone
  <2>3. CASE ForgetFailed \/ CompleteFailed
    BY <1>1, <2>3 DEF ForgetFailed, CompleteFailed, Move, IInv, EntryGone
  <2>4. CASE Observe \/ Complete \/ ObserveTxComplete
    BY <1>1, <2>4 DEF Observe, Complete, ObserveTxComplete, IInv, EntryGone
  <2> QED
    BY <2>1, <2>2, <2>3, <2>4
<1> QED
  BY <1>2, <1>3 DEF IInv

\* Every step keeps the invariant.
LEMMA NextKeeps ==
  ASSUME IInv, Stream = TRUE, [Next]_vars
  PROVE  IInv'
<1>1. CASE UNCHANGED vars
  BY <1>1 DEF vars, IInv, CallsDiffer, EntryGone, Active
<1>2. CASE \E s \in Senders : \/ Check(s) \/ TrackTxStart(s) \/ Reject(s)
                              \/ AdmitNew(s) \/ AdmitParked(s) \/ AdmitOther(s)
  BY <1>2, CheckKeeps, TrackKeeps, RejectKeeps, AdmitKeeps
<1>3. CASE \/ Release \/ DropParked \/ Process
           \/ SubmittedLoad \/ SubmittedStore \/ Submit \/ ForgetFailed \/ CompleteFailed
           \/ NotifiedLoad \/ NotifiedStore \/ Observe \/ Complete \/ ObserveTxComplete
  BY <1>3, PipelineKeeps
<1> QED
  BY <1>1, <1>2, <1>3 DEF Next

\* On the notification stream, whichever copies of a transaction are sent at
\* once and however the stamps and deletions of txTimes interleave, no entry of
\* the copy that the gateway handled last is left over.
THEOREM HandledForgotten ==
  ASSUME Stream = TRUE
  PROVE  Spec => []HandledIsForgotten
<1>1. IInv => HandledIsForgotten
  BY DEF IInv, EntryGone, HandledIsForgotten
<1>2. IInv /\ [Next]_vars => IInv'
  BY NextKeeps
<1> QED
  BY <1>1, <1>2, InitInv, PTL DEF Spec

=============================================================================
