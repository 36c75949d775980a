------------------------- MODULE StatePrimingProofs -------------------------
(***************************************************************************)
(* Proofs about StatePriming, for any callers, keys and values: a priming  *)
(* transaction carries the write of its own call and no other, and takes   *)
(* effect on the version that it was computed from.                        *)
(***************************************************************************)
EXTENDS StatePriming, TLAPS

Inside == {"apply", "commit", "poll"}
Labels == {"idle", "confirm", "lock"} \cup Inside \cup Returned

\* Whoever is between Lock and the release of the mutex holds it.
Mutex == \A c \in Callers : pc[c] \in Inside => lock = c

\* Of a caller that is about to commit, the StateDB has its write at most.
OnlyItsWrite ==
  \A c \in Callers : pc[c] = "commit" =>
    \A k \in DOMAIN writes : k = Key(c) /\ writes[k] = Val(c)

\* Typing of what the steps update.
PcType == pc \in [Callers -> Labels] /\ DOMAIN sent = Callers

IInv == PcType /\ Mutex /\ OnlyItsWrite /\ CarriesOnlyItsWrite

-----------------------------------------------------------------------------

\* Moving one caller leaves the others where they are.
LEMMA Moved ==
  ASSUME PcType, NEW c \in Callers, NEW l \in Labels, Goto(c, l)
  PROVE  /\ pc' \in [Callers -> Labels] /\ pc'[c] = l
         /\ \A d \in Callers : d # c => pc'[d] = pc[d]
BY DEF PcType, Goto

\* At first no call is under way and nothing was sent.
LEMMA InitInv == Init => IInv
<1> SUFFICES ASSUME Init PROVE IInv
  OBVIOUS
<1>1. \A c \in Callers : pc[c] = "idle"
  BY DEF Init
<1>2. PcType
  BY DEF Init, PcType, Labels
<1>3. CarriesOnlyItsWrite
  BY DEF Init, NoTx, CarriesOnlyItsWrite
<1> QED
  BY <1>1, <1>2, <1>3 DEF IInv, Mutex, OnlyItsWrite, Inside

\* What the primer's StateDB holds after Reset and apply.
LEMMA AppliedIsOwn ==
  ASSUME NEW c \in Callers
  PROVE  \A k \in DOMAIN Applied(Reset(writes), Key(c), Val(c)) :
           k = Key(c) /\ Applied(Reset(writes), Key(c), Val(c))[k] = Val(c)
BY DEF Applied, Reset, None

\* A call before it has the mutex, or when it gets it.
LEMMA EnterKeeps ==
  ASSUME IInv, NEW c \in Callers, Call(c) \/ Confirm(c) \/ Lock(c)
  PROVE  IInv'
<1>1. UNCHANGED <<want, writes, sent>>
  BY DEF Call, Confirm, Lock, primerVars
<1>2. PICK l \in {"confirm", "ok", "lock", "error", "apply"} : Goto(c, l)
  BY DEF Call, Confirm, Lock
<1>3. /\ pc' \in [Callers -> Labels] /\ pc'[c] = l
      /\ \A d \in Callers : d # c => pc'[d] = pc[d]
  BY <1>2, Moved DEF IInv, Labels, Inside, Returned
<1>4. Mutex'
  <2>1. CASE Call(c) \/ Confirm(c)
    <3>1. lock' = lock /\ pc'[c] \notin Inside
      BY <2>1, <1>3 DEF Call, Confirm, Goto, primerVars, Inside, IInv, PcType
    <3> QED
      BY <3>1, <1>3 DEF IInv, Mutex
  <2>2. CASE Lock(c)
    <3>1. lock = Free /\ lock' = c
      BY <2>2 DEF Lock
    <3>2. \A d \in Callers : pc[d] \notin Inside
      BY <3>1, FreeIsNobody DEF IInv, Mutex, FreeIsNobody
    <3> QED
      BY <3>1, <3>2, <1>3 DEF Mutex
  <2> QED
    BY <2>1, <2>2
<1>5. OnlyItsWrite'
  BY <1>1, <1>3 DEF IInv, OnlyItsWrite, Key, Val
<1>6. CarriesOnlyItsWrite'
  BY <1>1 DEF IInv, CarriesOnlyItsWrite, Key, Val
<1> QED
  BY <1>1, <1>3, <1>4, <1>5, <1>6 DEF IInv, PcType

\* The holder of the mutex resets the StateDB and queues its write.
LEMMA ApplyKeeps ==
  ASSUME IInv, NEW c \in Callers, Apply(c)
  PROVE  IInv'
<1>1. UNCHANGED <<want, sent>> /\ pc[c] = "apply" /\ lock = c
  BY DEF Apply, IInv, Mutex, Inside
<1>2. PICK l \in {"commit", "error"} : Goto(c, l)
  BY DEF Apply
<1>3. /\ pc' \in [Callers -> Labels] /\ pc'[c] = l
      /\ \A d \in Callers : d # c => pc'[d] = pc[d]
  BY <1>2, Moved DEF IInv, Labels, Inside, Returned
<1>4. \A d \in Callers : d # c => pc'[d] \notin Inside
  BY <1>1, <1>3 DEF IInv, Mutex
<1>5. \/ pc'[c] = "commit" /\ lock' = c /\ writes' = Applied(Reset(writes), Key(c), Val(c))
      \/ pc'[c] = "error"
  BY <1>1, <1>3 DEF Apply, Goto, IInv, PcType
<1>6. Mutex'
  BY <1>4, <1>5 DEF Mutex, Inside
<1>7. OnlyItsWrite'
  <2>1. \A d \in Callers : pc'[d] = "commit" => d = c
    BY <1>4 DEF Inside
  <2>2. pc'[c] = "commit" => \A k \in DOMAIN writes' : k = Key(c) /\ writes'[k] = Val(c)
    BY <1>5, AppliedIsOwn
  <2>3. Key(c)' = Key(c) /\ Val(c)' = Val(c)
    BY <1>1 DEF Key, Val
  <2> QED
    BY <2>1, <2>2, <2>3 DEF OnlyItsWrite
<1>8. CarriesOnlyItsWrite'
  BY <1>1 DEF IInv, CarriesOnlyItsWrite, Key, Val
<1> QED
  BY <1>1, <1>3, <1>6, <1>7, <1>8 DEF IInv, PcType

\* It commits what the StateDB holds.
LEMMA CommitKeeps ==
  ASSUME IInv, NEW c \in Callers, Commit(c)
  PROVE  IInv'
<1>1. UNCHANGED <<want, writes>> /\ pc[c] = "commit" /\ lock = c
  BY DEF Commit, IInv, Mutex, Inside
<1>2. PICK l \in {"poll", "error"} : Goto(c, l)
  BY DEF Commit
<1>3. /\ pc' \in [Callers -> Labels] /\ pc'[c] = l
      /\ \A d \in Callers : d # c => pc'[d] = pc[d]
  BY <1>2, Moved DEF IInv, Labels, Inside, Returned
<1>4. \A d \in Callers : d # c => pc'[d] \notin Inside
  BY <1>1, <1>3 DEF IInv, Mutex
<1>5. pc'[c] = "poll" => lock' = lock
  BY <1>3 DEF Commit, Goto, IInv, PcType
<1>6. Mutex'
  BY <1>1, <1>3, <1>4, <1>5 DEF Mutex, Inside
<1>7. OnlyItsWrite'
  BY <1>3, <1>4 DEF OnlyItsWrite, Inside
<1>8. /\ DOMAIN sent' = Callers
      /\ sent' = sent \/ sent' = [sent EXCEPT ![c] = PrimingTx]
  BY DEF Commit, IInv, PcType
<1>9. \A d \in Callers : Key(d)' = Key(d) /\ Val(d)' = Val(d)
  BY <1>1 DEF Key, Val
<1>10. CarriesOnlyItsWrite'
  <2>1. \A k \in DOMAIN PrimingTx.writes : k = Key(c) /\ PrimingTx.writes[k] = Val(c)
    BY <1>1 DEF PrimingTx, IInv, OnlyItsWrite
  <2>2. \A d \in Callers : sent'[d] = sent[d] \/ (d = c /\ sent'[d] = PrimingTx)
    BY <1>8 DEF IInv, PcType
  <2> QED
    BY <1>9, <2>1, <2>2 DEF IInv, CarriesOnlyItsWrite
<1> QED
  BY <1>3, <1>6, <1>7, <1>8, <1>10 DEF IInv, PcType

\* It gives the mutex back.
LEMMA LeaveKeeps ==
  ASSUME IInv, NEW c \in Callers, Poll(c) \/ Timeout(c)
  PROVE  IInv'
<1>1. UNCHANGED <<want, writes, sent>> /\ pc[c] = "poll" /\ lock = c
  BY DEF Poll, Timeout, IInv, Mutex, Inside
<1>2. PICK l \in {"ok", "error", "timeout"} : Goto(c, l)
  BY DEF Poll, Timeout
<1>3. /\ pc' \in [Callers -> Labels] /\ pc'[c] = l
      /\ \A d \in Callers : d # c => pc'[d] = pc[d]
  BY <1>2, Moved DEF IInv, Labels, Inside, Returned
<1>4. \A d \in Callers : pc'[d] \notin Inside
  BY <1>1, <1>3 DEF IInv, Mutex, Inside
<1>5. CarriesOnlyItsWrite'
  BY <1>1 DEF IInv, CarriesOnlyItsWrite, Key, Val
<1> QED
  BY <1>1, <1>3, <1>4, <1>5 DEF IInv, PcType, Mutex, OnlyItsWrite, Inside

\* Blocks and users do not touch the primer.
LEMMA ChainKeeps ==
  ASSUME IInv,
         \/ CutBlock \/ Synchronize
         \/ \E k \in Keys, v \in Values : UserSends(k, v)
         \/ UNCHANGED vars
  PROVE  IInv'
<1>1. UNCHANGED <<pc, want, lock, writes, sent>>
  BY DEF CutBlock, Synchronize, UserSends, primerVars, vars
<1> QED
  BY <1>1 DEF IInv, PcType, Mutex, OnlyItsWrite, CarriesOnlyItsWrite, Key, Val

\* IInv is inductive.
LEMMA StepInv == IInv /\ [Next]_vars => IInv'
<1> SUFFICES ASSUME IInv, [Next]_vars PROVE IInv'
  OBVIOUS
<1>1. CASE \E c \in Callers : Call(c) \/ prime(c) \/ Timeout(c)
  BY <1>1, EnterKeeps, ApplyKeeps, CommitKeeps, LeaveKeeps DEF prime
<1> QED
  BY <1>1, ChainKeeps DEF Next

\* Whatever earlier calls left in the primer, by failing or by timing out, and
\* whatever users do meanwhile, the transaction of a call writes its own key
\* and value only (the comment in prime).
THEOREM PrimingIsOwn == Spec => []CarriesOnlyItsWrite
<1>1. IInv => CarriesOnlyItsWrite
  BY DEF IInv
<1> QED
  BY <1>1, InitInv, StepInv, PTL DEF Spec

-----------------------------------------------------------------------------
(* A balance and a code are read before they are written *)

\* Of a caller that is about to commit a balance or a code, the StateDB has read it.
ReadsItsKey ==
  \A c \in Callers : pc[c] = "commit" /\ Key(c) \in ReadKeys => Key(c) \in DOMAIN reads

SentRead ==
  \A c \in Callers : Key(c) \in ReadKeys /\ sent[c].writes # None => Key(c) \in DOMAIN sent[c].reads

ReadInv == ReadsItsKey /\ SentRead

\* Only Apply changes what the StateDB has read, and only Commit what is sent.
LEMMA ReadStep == IInv /\ ReadInv /\ [Next]_vars => ReadInv'
<1> SUFFICES ASSUME IInv, ReadInv, [Next]_vars PROVE ReadInv'
  OBVIOUS
<1>1. ASSUME NEW c \in Callers, Call(c) \/ Confirm(c) \/ Lock(c) \/ Poll(c) \/ Timeout(c) PROVE ReadInv'
  <2>1. UNCHANGED <<want, reads, sent>>
    BY <1>1 DEF Call, Confirm, Lock, Poll, Timeout, primerVars
  <2>2. PICK l \in {"confirm", "ok", "lock", "error", "apply", "timeout"} : Goto(c, l)
    BY <1>1 DEF Call, Confirm, Lock, Poll, Timeout
  <2>3. pc'[c] # "commit" /\ \A d \in Callers : d # c => pc'[d] = pc[d]
    BY <2>2, Moved DEF IInv, Labels, Inside, Returned
  <2> QED
    BY <2>1, <2>3 DEF ReadInv, ReadsItsKey, SentRead, Key
<1>2. ASSUME NEW c \in Callers, Apply(c) PROVE ReadInv'
  <2>1. UNCHANGED <<want, sent>> /\ pc[c] = "apply" /\ lock = c
    BY <1>2 DEF Apply, IInv, Mutex, Inside
  <2>2. PICK l \in {"commit", "error"} : Goto(c, l)
    BY <1>2 DEF Apply
  <2>3. pc'[c] = l /\ \A d \in Callers : d # c => pc'[d] = pc[d]
    BY <2>2, Moved DEF IInv, Labels, Inside, Returned
  <2>4. \A d \in Callers : d # c => pc'[d] # "commit"
    BY <2>1, <2>3 DEF IInv, Mutex, Inside
  <2>5. pc'[c] = "commit" => reads' = ReadBy(Key(c))
    BY <1>2, <2>3 DEF Apply, Goto, IInv, PcType
  <2>6. Key(c) \in ReadKeys => Key(c) \in DOMAIN ReadBy(Key(c))
    BY DEF ReadBy
  <2>7. \A d \in Callers : Key(d)' = Key(d)
    BY <2>1 DEF Key
  <2>8. ReadsItsKey'
    BY <2>4, <2>5, <2>6, <2>7 DEF ReadsItsKey
  <2> QED
    BY <2>1, <2>7, <2>8 DEF ReadInv, SentRead
<1>3. ASSUME NEW c \in Callers, Commit(c) PROVE ReadInv'
  <2>1. UNCHANGED <<want, writes, reads>> /\ pc[c] = "commit"
    BY <1>3 DEF Commit
  <2>2. PICK l \in {"poll", "error"} : Goto(c, l)
    BY <1>3 DEF Commit
  <2>3. pc'[c] # "commit" /\ \A d \in Callers : d # c => pc'[d] = pc[d]
    BY <2>2, Moved DEF IInv, Labels, Inside, Returned
  <2>4. \A d \in Callers : sent'[d] = sent[d] \/ (d = c /\ sent'[d] = PrimingTx)
    BY <1>3 DEF Commit, IInv, PcType
  <2>5. PrimingTx.reads = reads
    BY DEF PrimingTx
  <2>6. \A d \in Callers : Key(d)' = Key(d)
    BY <2>1 DEF Key
  <2>7. ReadsItsKey'
    BY <2>1, <2>3, <2>6 DEF ReadInv, ReadsItsKey
  <2>8. SentRead'
    BY <2>1, <2>4, <2>5, <2>6 DEF ReadInv, ReadsItsKey, SentRead
  <2> QED
    BY <2>7, <2>8 DEF ReadInv
<1>4. ASSUME \/ CutBlock \/ Synchronize
             \/ \E k \in Keys, v \in Values : UserSends(k, v)
             \/ UNCHANGED vars
      PROVE  ReadInv'
  <2>1. UNCHANGED <<pc, want, reads, sent>>
    BY <1>4 DEF CutBlock, Synchronize, UserSends, primerVars, vars
  <2> QED
    BY <2>1 DEF ReadInv, ReadsItsKey, SentRead, Key
<1> QED
  BY <1>1, <1>2, <1>3, <1>4 DEF Next, prime

\* A priming transaction that changes the ledger was computed from the version it
\* replaces: a user's transaction between SetBalance or SetCode and the block is
\* not undone.
THEOREM UsersNotUndone == Spec => NothingOverwritten
<1>1. Init => ReadInv
  BY DEF Init, ReadInv, ReadsItsKey, SentRead, NoTx, None
<1>2. ASSUME ReadInv, [Next]_vars
      PROVE  [\A c \in Callers :
                /\ CutBlock /\ Head(orderer) = sent[c] /\ Key(c) \in ReadKeys /\ sent[c].writes # None
                /\ ledger' # ledger
                => Key(c) \in DOMAIN sent[c].reads /\ sent[c].reads[Key(c)] = ledger[Key(c)].ver]_vars
  <2> SUFFICES ASSUME NEW c \in Callers, CutBlock, Head(orderer) = sent[c], Key(c) \in ReadKeys,
                      sent[c].writes # None, ledger' # ledger
               PROVE  Key(c) \in DOMAIN sent[c].reads /\ sent[c].reads[Key(c)] = ledger[Key(c)].ver
    OBVIOUS
  <2>1. Valid(sent[c])
    BY DEF CutBlock
  <2>2. Key(c) \in DOMAIN sent[c].reads
    BY <1>2 DEF ReadInv, SentRead
  <2> QED
    BY <2>1, <2>2 DEF Valid
<1> QED
  BY <1>1, <1>2, InitInv, StepInv, ReadStep, PTL DEF Spec, NothingOverwritten

=============================================================================
