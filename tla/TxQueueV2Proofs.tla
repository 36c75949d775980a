-------------------------- MODULE TxQueueV2Proofs --------------------------
(***************************************************************************)
(* Proofs about TxQueueV2, for any number of transactions, participants    *)
(* and workers. The inductive invariant says how the lists, the maps and   *)
(* the dependency links of the queue agree; Linked is the part that makes  *)
(* it inductive: any two tracked transactions that share a participant are *)
(* linked in one direction, whatever states they are in.  A second         *)
(* invariant counts the wake-ups of the condition variable.                *)
(***************************************************************************)
EXTENDS TxQueueV2, FiniteSetTheorems, SequenceTheorems, TLAPS

\* Zenon proves most steps; the others name Z3 and its time.
USE ZenonT(30)

\* hashMap leads to an entry that was created for that hash.
HashInv ==
  \A h \in Hashes : hashMap[h] # NoEntry =>
    hashOf[hashMap[h]] = h /\ state[hashMap[h]] # "none"

\* Exactly the entries up to alloc were created.
Fresh == \A e \in Entries : state[e] = "none" <=> e > alloc

\* Tracked transactions that share a participant are linked.
Linked ==
  \A e, f \in Tracked :
    e # f /\ Shared(hashOf[e], hashOf[f]) > 0
      => isBlockedBy[e][f] > 0 \/ isBlockedBy[f][e] > 0

StructInv ==
  HashInv /\ Fresh /\ ListsMatchStates /\ LinksMatch /\ Linked /\ NoCircularWait

\* What StructInv depends on.
structVars == <<entryVars, readyList, waitingList, hashMap>>

-----------------------------------------------------------------------------
(* Facts about the operators *)

\* The number of shared participants is a number, and does not depend on the
\* order of the two transactions.
LEMMA SharedType ==
  ASSUME NEW h \in Hashes, NEW k \in Hashes
  PROVE  Shared(h, k) \in Nat /\ Shared(h, k) = Shared(k, h)
<1>1. Participants[h] \in SUBSET Addresses /\ IsFiniteSet(Addresses)
  BY QueueAssumption DEF QueueAssumption
<1>2. IsFiniteSet(Participants[h])
  BY <1>1, FS_Subset
<1>3. IsFiniteSet(Participants[h] \cap Participants[k])
  BY <1>2, FS_Intersection
<1>4. Participants[h] \cap Participants[k] = Participants[k] \cap Participants[h]
  OBVIOUS
<1> QED
  BY <1>3, <1>4, FS_CardinalityType DEF Shared

\* hashMap leads to entries, none of them one that is not created yet.
LEMMA TrackedEntries ==
  ASSUME TypeOK
  PROVE  /\ \A h \in Hashes : hashMap[h] # NoEntry => hashMap[h] \in Entries
         /\ Tracked \in SUBSET Entries /\ alloc + 1 \notin Tracked
<1>1. MaxEntries \in Nat
  BY QueueAssumption DEF QueueAssumption
<1>2. alloc \in 0..MaxEntries /\ \A h \in Hashes : hashMap[h] \in 0..alloc
  BY DEF TypeOK
<1>3. \A h \in Hashes : hashMap[h] # NoEntry =>
         hashMap[h] \in Entries /\ hashMap[h] # alloc + 1
  BY <1>1, <1>2, SMTT(30) DEF Entries, NoEntry
<1> QED
  BY <1>3 DEF Tracked

\* A bag is empty when no entry occurs in it.
LEMMA NoOccurrence ==
  ASSUME NEW b \in Bag
  PROVE  b = NoBag <=> \A f \in Entries : b[f] = 0
BY DEF Bag, NoBag

\* A bag is not empty when some entry occurs in it.
LEMMA SomeOccurrence ==
  ASSUME NEW b \in Bag
  PROVE  b # NoBag <=> \E f \in Entries : b[f] > 0
<1>1. \A f \in Entries : b[f] \in Nat
  BY DEF Bag
<1> QED
  BY <1>1, NoOccurrence, SMTT(30)

\* An order of a set of entries lists each of them, once.
LEMMA OrderProperties ==
  ASSUME NEW S \in SUBSET Entries, NEW order \in Injection(1..Cardinality(S), S)
  PROVE  /\ order \in Seq(Entries)
         /\ Range(order) = S
         /\ \A i, j \in DOMAIN order : order[i] = order[j] => i = j
<1> DEFINE n == Cardinality(S)
<1>1. IsFiniteSet(S)
  <2>1. IsFiniteSet(Entries)
    BY FS_Interval, QueueAssumption, SMTT(30) DEF Entries, QueueAssumption
  <2> QED BY <2>1, FS_Subset
<1>2. n \in Nat
  BY <1>1, FS_CardinalityType
<1>3. /\ order \in [1..n -> S]
      /\ \A i, j \in 1..n : i # j => order[i] # order[j]
  BY DEF Injection, IsInjective
<1>4. order \in Seq(Entries)
  <2>1. order \in [1..n -> Entries]
    BY <1>3
  <2> QED BY <1>2, <2>1, SeqDef, SMTT(30)
<1>5. order \in Injection(1..n, S)
  OBVIOUS
<1>6. Cardinality(1..n) = n
  BY <1>2, FS_Interval, SMTT(30)
<1>7. order \in Surjection(1..n, S)
  BY <1>1, <1>5, <1>6, FS_Injection
<1>8. Range(order) = S
  BY <1>3, <1>7, SMTT(30) DEF Range, Surjection
<1> QED
  BY <1>3, <1>4, <1>8

\* Waking workers leaves the type of their control state.
LEMMA WokenType ==
  ASSUME NEW P, "woken" \in P, NEW p \in [Workers -> P], NEW n, NEW q \in Woken(p, n)
  PROVE  q \in [Workers -> P]
BY DEF Woken

\* No entry is twice in s.
NoDuplicates(s) == \A i, j \in DOMAIN s : s[i] = s[j] => i = j

\* Appending a list of other entries.
LEMMA ConcatLists ==
  ASSUME NEW s \in Seq(Entries), NEW t \in Seq(Entries),
         NoDuplicates(s), NoDuplicates(t), Range(s) \cap Range(t) = {}
  PROVE  /\ s \o t \in Seq(Entries)
         /\ Range(s \o t) = Range(s) \union Range(t)
         /\ NoDuplicates(s \o t)
<1> DEFINE u == s \o t
<1>1. /\ u \in Seq(Entries) /\ Len(u) = Len(s) + Len(t)
      /\ \A i \in 1 .. Len(s) + Len(t) :
           u[i] = IF i <= Len(s) THEN s[i] ELSE t[i - Len(s)]
  BY ConcatProperties
<1>2. /\ DOMAIN s = 1..Len(s) /\ DOMAIN t = 1..Len(t) /\ DOMAIN u = 1..Len(u)
      /\ Len(s) \in Nat /\ Len(t) \in Nat
  BY <1>1, SMTT(30)
<1> HIDE DEF u
<1>3. \A i \in DOMAIN u :
         \/ i <= Len(s) /\ i \in DOMAIN s /\ u[i] = s[i]
         \/ i > Len(s) /\ i - Len(s) \in DOMAIN t /\ u[i] = t[i - Len(s)]
  BY <1>1, <1>2, SMTT(30)
<1>4. \A i \in DOMAIN s : i \in DOMAIN u /\ u[i] = s[i]
  BY <1>1, <1>2, SMTT(30)
<1>5. \A i \in DOMAIN t : Len(s) + i \in DOMAIN u /\ u[Len(s) + i] = t[i]
  BY <1>1, <1>2, SMTT(30)
<1>6. Range(u) = Range(s) \union Range(t)
  <2>1. \A i \in DOMAIN u : u[i] \in Range(s) \union Range(t)
    BY <1>3 DEF Range
  <2>2. \A i \in DOMAIN s : s[i] \in Range(u)
    BY <1>4 DEF Range
  <2>3. \A i \in DOMAIN t : t[i] \in Range(u)
    BY <1>5 DEF Range
  <2> QED
    BY <2>1, <2>2, <2>3, SMTT(30) DEF Range
<1>7. NoDuplicates(u)
  <2> SUFFICES ASSUME NEW i \in DOMAIN u, NEW j \in DOMAIN u, u[i] = u[j]
               PROVE  i = j
    BY DEF NoDuplicates
  <2>1. CASE i <= Len(s) /\ j <= Len(s)
    BY <1>1, <1>2, <2>1, SMTT(30) DEF NoDuplicates
  <2>2. CASE i > Len(s) /\ j > Len(s)
    <3>1. /\ i - Len(s) \in DOMAIN t /\ j - Len(s) \in DOMAIN t
          /\ t[i - Len(s)] = t[j - Len(s)]
      BY <1>2, <1>3, <2>2, SMTT(30)
    <3>2. i - Len(s) = j - Len(s)
      BY <3>1 DEF NoDuplicates
    <3> QED
      BY <1>2, <3>2, SMTT(30)
  <2>3. CASE i <= Len(s) /\ j > Len(s)
    <3>1. u[i] \in Range(s) /\ u[j] \in Range(t)
      BY <1>2, <1>3, <2>3, SMTT(30) DEF Range
    <3> QED
      BY <3>1
  <2>4. CASE i > Len(s) /\ j <= Len(s)
    <3>1. u[i] \in Range(t) /\ u[j] \in Range(s)
      BY <1>2, <1>3, <2>4, SMTT(30) DEF Range
    <3> QED
      BY <3>1
  <2> QED
    BY <1>2, <2>1, <2>2, <2>3, <2>4, SMTT(30)
<1> QED
  BY <1>1, <1>6, <1>7 DEF u

\* Appending one more entry.
LEMMA AppendList ==
  ASSUME NEW s \in Seq(Entries), NEW e \in Entries, NoDuplicates(s), e \notin Range(s)
  PROVE  /\ Append(s, e) \in Seq(Entries)
         /\ Range(Append(s, e)) = Range(s) \union {e}
         /\ NoDuplicates(Append(s, e))
<1>1. /\ Append(s, e) = s \o <<e>> /\ <<e>> \in Seq(Entries)
      /\ Append(s, e) \in Seq(Entries)
  BY AppendIsConcat, SMTT(30)
<1>2. Range(<<e>>) = {e} /\ NoDuplicates(<<e>>)
  BY SMTT(30) DEF Range, NoDuplicates
<1>3. Range(s) \cap Range(<<e>>) = {}
  BY <1>2
<1>4. /\ Range(s \o <<e>>) = Range(s) \union Range(<<e>>)
      /\ NoDuplicates(s \o <<e>>)
  BY <1>1, <1>2, <1>3, ConcatLists
<1> QED
  BY <1>1, <1>2, <1>4

\* Taking the head off.
LEMMA TailList ==
  ASSUME NEW s \in Seq(Entries), s # <<>>, NoDuplicates(s)
  PROVE  /\ Head(s) \in Entries /\ Head(s) \in Range(s)
         /\ Tail(s) \in Seq(Entries)
         /\ Range(Tail(s)) = Range(s) \ {Head(s)}
         /\ NoDuplicates(Tail(s))
<1> DEFINE t == Tail(s)
<1>1. /\ Head(s) \in Entries /\ t \in Seq(Entries) /\ Len(t) = Len(s) - 1
      /\ \A i \in 1 .. Len(t) : t[i] = s[i + 1]
  BY HeadTailProperties
<1>2. /\ DOMAIN s = 1..Len(s) /\ DOMAIN t = 1..Len(t)
      /\ Len(s) \in Nat /\ Len(s) > 0 /\ Head(s) = s[1]
  BY <1>1, EmptySeq, SMTT(30)
<1> HIDE DEF t
<1>3. \A i \in DOMAIN t : t[i] \in Range(s) \ {Head(s)}
  BY <1>1, <1>2, SMTT(30) DEF Range, NoDuplicates
<1>4. \A i \in DOMAIN s : i # 1 => i - 1 \in DOMAIN t /\ t[i - 1] = s[i]
  BY <1>1, <1>2, SMTT(30)
<1>5. Range(t) = Range(s) \ {Head(s)}
  BY <1>2, <1>3, <1>4, SMTT(30) DEF Range
<1>6. NoDuplicates(t)
  <2> SUFFICES ASSUME NEW i \in DOMAIN t, NEW j \in DOMAIN t, t[i] = t[j]
               PROVE  i = j
    BY DEF NoDuplicates
  <2>1. i + 1 \in DOMAIN s /\ j + 1 \in DOMAIN s /\ s[i + 1] = s[j + 1]
    BY <1>1, <1>2, SMTT(30)
  <2>2. i + 1 = j + 1
    BY <2>1 DEF NoDuplicates
  <2> QED
    BY <1>2, <2>2, SMTT(30)
<1>7. Head(s) \in Range(s)
  BY <1>2, SMTT(30) DEF Range
<1> QED
  BY <1>1, <1>5, <1>6, <1>7 DEF t

-----------------------------------------------------------------------------
(* Complete *)

\* What completeUnlocked does to the links: every link to the completed entry
\* goes, all others stay.
LEMMA CompleteLinks ==
  ASSUME TypeOK, LinksMatch, HashInv, NEW h \in Hashes, completeUnlocked(h),
         hashMap[h] # NoEntry
  PROVE  /\ hashMap[h] \in Entries /\ hashMap[h] \in Tracked
         /\ Tracked' = Tracked \ {hashMap[h]}
         /\ isBlockedBy' \in [Entries -> Bag] /\ blocks' \in [Entries -> Bag]
         /\ \A f, g \in Entries :
              /\ isBlockedBy'[f][g] = IF g = hashMap[h] THEN 0 ELSE isBlockedBy[f][g]
              /\ blocks'[g][f] = IF g = hashMap[h] THEN 0 ELSE blocks[g][f]
         /\ \A f \in Entries :
              f \in Promoted(hashMap[h]) <=>
                /\ isBlockedBy[f][hashMap[h]] > 0
                /\ \A g \in Entries : g # hashMap[h] => isBlockedBy[f][g] = 0
<1> DEFINE e == hashMap[h]
<1>1. e \in Entries /\ e \in Tracked
  BY TrackedEntries DEF Tracked
<1>2. /\ hashMap' = [hashMap EXCEPT ![h] = NoEntry]
      /\ isBlockedBy' = [f \in Entries |-> Unblocked(e, f)]
      /\ blocks' = [blocks EXCEPT ![e] = NoBag]
  BY DEF completeUnlocked
<1>3. isBlockedBy \in [Entries -> [Entries -> Nat]] /\ blocks \in [Entries -> [Entries -> Nat]]
  BY DEF TypeOK, Bag
<1>4. Tracked' = Tracked \ {e}
  <2>1. \A k \in Hashes : hashMap'[k] = IF k = h THEN NoEntry ELSE hashMap[k]
    BY <1>2 DEF TypeOK
  <2>2. \A k \in Hashes : hashMap[k] = e => k = h
    BY DEF HashInv
  <2> QED
    BY <2>1, <2>2 DEF Tracked
<1>5. \A f \in Entries : /\ Unblocked(e, f) \in [Entries -> Nat]
                         /\ \A g \in Entries : Unblocked(e, f)[g] =
                              IF g = e THEN 0 ELSE isBlockedBy[f][g]
  <2> SUFFICES ASSUME NEW f \in Entries
               PROVE  /\ Unblocked(e, f) \in [Entries -> Nat]
                      /\ \A g \in Entries : Unblocked(e, f)[g] =
                           IF g = e THEN 0 ELSE isBlockedBy[f][g]
    OBVIOUS
  <2>1. isBlockedBy[f][e] = blocks[e][f] /\ isBlockedBy[f][e] \in Nat
    BY <1>1, <1>3 DEF LinksMatch
  <2>2. isBlockedBy[f] \in [Entries -> Nat]
    BY <1>3
  <2>3. Unblocked(e, f) = [isBlockedBy[f] EXCEPT ![e] = 0]
    BY <2>1, SMTT(30) DEF Unblocked
  <2> QED
    BY <1>1, <2>2, <2>3, SMTT(30)
<1>6. isBlockedBy' \in [Entries -> Bag]
  BY <1>2, <1>5 DEF Bag
<1>7. blocks' \in [Entries -> Bag]
  BY <1>2, <1>3 DEF Bag, NoBag
<1>8. \A f, g \in Entries :
        /\ isBlockedBy'[f][g] = IF g = e THEN 0 ELSE isBlockedBy[f][g]
        /\ blocks'[g][f] = IF g = e THEN 0 ELSE blocks[g][f]
  <2>1. \A f, g \in Entries : isBlockedBy'[f][g] = IF g = e THEN 0 ELSE isBlockedBy[f][g]
    BY <1>2, <1>5
  <2>2. \A f, g \in Entries : blocks'[g][f] = IF g = e THEN 0 ELSE blocks[g][f]
    BY <1>2, <1>3 DEF NoBag
  <2> QED
    BY <2>1, <2>2, SMTT(30)
<1>9. \A f \in Entries :
        f \in Promoted(e) <=>
          isBlockedBy[f][e] > 0 /\ \A g \in Entries : g # e => isBlockedBy[f][g] = 0
  <2> SUFFICES ASSUME NEW f \in Entries
               PROVE  f \in Promoted(e) <=>
                 isBlockedBy[f][e] > 0 /\ \A g \in Entries : g # e => isBlockedBy[f][g] = 0
    OBVIOUS
  <2>1. isBlockedBy[f][e] = blocks[e][f]
    BY <1>1 DEF LinksMatch
  <2>2. Unblocked(e, f) = NoBag <=> \A g \in Entries : Unblocked(e, f)[g] = 0
    BY <1>5, NoOccurrence DEF Bag
  <2>3. Unblocked(e, f) = NoBag <=> \A g \in Entries : g # e => isBlockedBy[f][g] = 0
    BY <1>5, <2>2
  <2> QED
    BY <2>1, <2>3 DEF Promoted
<1> QED
  BY <1>1, <1>4, <1>6, <1>7, <1>8, <1>9

\* The variables StructInv depends on keep their types.
StructType ==
  /\ hashOf \in [Entries -> Hashes]
  /\ state \in [Entries -> {"none", "ready", "waiting", "pending"}]
  /\ blocks \in [Entries -> Bag] /\ isBlockedBy \in [Entries -> Bag]
  /\ alloc \in 0..MaxEntries
  /\ readyList \in Seq(Entries) /\ waitingList \in SUBSET Entries
  /\ hashMap \in [Hashes -> 0..alloc]

\* completeUnlocked keeps the invariant.
LEMMA CompleteStep ==
  ASSUME TypeOK, StructInv, NEW h \in Hashes, completeUnlocked(h)
  PROVE  StructInv' /\ StructType' /\ NumPromoted(h) \in Nat
<1> DEFINE e == hashMap[h]
           P == Promoted(e)
<1> USE DEF StructInv
<1>1. CASE e = NoEntry
  <2>1. UNCHANGED structVars
    BY <1>1 DEF completeUnlocked, structVars, entryVars
  <2>2. StructInv'
    BY <2>1, SMTT(30) DEF structVars, entryVars, HashInv, Fresh, ListsMatchStates, LinksMatch,
       Linked, NoCircularWait, Tracked
  <2>3. StructType'
    BY <2>1 DEF structVars, entryVars, StructType, TypeOK
  <2> QED
    BY <1>1, <2>2, <2>3 DEF NumPromoted
<1>2. CASE e # NoEntry
  <2>1. PICK order \in Injection(1..Cardinality(P), P) : readyList' = readyList \o order
    BY <1>2 DEF completeUnlocked
  <2>2. /\ state' = [f \in Entries |-> IF f \in P THEN "ready" ELSE state[f]]
        /\ waitingList' = waitingList \ P
        /\ hashMap' = [hashMap EXCEPT ![h] = NoEntry]
        /\ hashOf' = hashOf /\ alloc' = alloc
    BY <1>2 DEF completeUnlocked
  <2>3. /\ e \in Entries /\ e \in Tracked
        /\ Tracked' = Tracked \ {e}
        /\ isBlockedBy' \in [Entries -> Bag] /\ blocks' \in [Entries -> Bag]
        /\ \A f, g \in Entries :
             /\ isBlockedBy'[f][g] = IF g = e THEN 0 ELSE isBlockedBy[f][g]
             /\ blocks'[g][f] = IF g = e THEN 0 ELSE blocks[g][f]
        /\ \A f \in Entries :
             f \in P <=> /\ isBlockedBy[f][e] > 0
                        /\ \A g \in Entries : g # e => isBlockedBy[f][g] = 0
    BY <1>2, CompleteLinks
  <2>4. P \in SUBSET Entries
    BY DEF Promoted
  <2> HIDE DEF P, e
  <2>5. /\ isBlockedBy \in [Entries -> Bag]
        /\ \A f \in Entries : isBlockedBy[f] \in Bag /\ isBlockedBy'[f] \in Bag
    BY <2>3 DEF TypeOK
  <2> DEFINE Some(bag) == \E g \in Entries : bag[g] > 0
  <2>5a. \A bag \in Bag : bag # NoBag <=> Some(bag)
    BY NoOccurrence, SMTT(30) DEF Bag
  <2> HIDE DEF Some
  <2>6. \A f \in Entries : isBlockedBy[f] # NoBag <=> Some(isBlockedBy[f])
    BY <2>5, <2>5a
  <2>7. \A f \in Entries : isBlockedBy'[f] # NoBag <=> Some(isBlockedBy'[f])
    BY <2>5, <2>5a
  <2> USE DEF Some
  <2>8. \A f \in P : state[f] = "waiting"
    BY <2>3, <2>4, <2>6 DEF ListsMatchStates
  <2>9. /\ order \in Seq(Entries) /\ Range(order) = P /\ NoDuplicates(order)
    BY <2>4, OrderProperties DEF NoDuplicates
  <2>10. /\ Range(readyList) = {f \in Entries : state[f] = "ready"}
         /\ NoDuplicates(readyList) /\ readyList \in Seq(Entries)
    BY DEF ListsMatchStates, NoDuplicates, TypeOK
  <2>11. Range(readyList) \cap Range(order) = {}
    BY <2>8, <2>9, <2>10
  <2>12. /\ readyList' \in Seq(Entries) /\ NoDuplicates(readyList')
         /\ Range(readyList') = Range(readyList) \union P
    BY <2>1, <2>9, <2>10, <2>11, ConcatLists
  <2>13. \A f \in Entries : state'[f] = IF f \in P THEN "ready" ELSE state[f]
    BY <2>2
  <2>14. ListsMatchStates'
    <3>1. Range(readyList') = {f \in Entries : state'[f] = "ready"}
      BY <2>4, <2>10, <2>12, <2>13
    <3>2. waitingList' = {f \in Entries : state'[f] = "waiting"}
      BY <2>2, <2>4, <2>13 DEF ListsMatchStates
    <3>3. ASSUME NEW f \in Entries
          PROVE  state'[f] = "waiting" <=> isBlockedBy'[f] # NoBag
      <4>1. CASE f \in P
        <5>1. state'[f] = "ready"
          BY <2>13, <4>1
        <5>2. \A g \in Entries : isBlockedBy'[f][g] = 0
          BY <2>3, <4>1, SMTT(30)
        <5>3. isBlockedBy'[f] = NoBag
          BY <2>5, <5>2, NoOccurrence
        <5> QED
          BY <5>1, <5>3
      <4>2. CASE f \notin P
        <5>1. (\E g \in Entries : isBlockedBy[f][g] > 0) <=>
                \E g \in Entries : isBlockedBy'[f][g] > 0
          <6>1. \A g \in Entries : /\ isBlockedBy[f][g] \in Nat
                                   /\ isBlockedBy'[f][g] = IF g = e THEN 0 ELSE isBlockedBy[f][g]
            BY <2>3, <2>5, SMTT(30) DEF Bag
          <6>2. isBlockedBy[f][e] > 0 => \E g \in Entries : g # e /\ isBlockedBy[f][g] # 0
            BY <2>3, <4>2
          <6>3. ASSUME NEW g \in Entries, isBlockedBy[f][g] > 0
                PROVE  \E k \in Entries : isBlockedBy'[f][k] > 0
            <7>1. CASE g # e
              BY <6>1, <6>3, <7>1
            <7>2. CASE g = e
              <8>1. PICK k \in Entries : k # e /\ isBlockedBy[f][k] # 0
                BY <6>2, <6>3, <7>2
              <8> QED
                BY <6>1, <8>1, SMTT(30)
            <7> QED
              BY <7>1, <7>2, SMTT(30)
          <6>4. ASSUME NEW g \in Entries, isBlockedBy'[f][g] > 0
                PROVE  isBlockedBy[f][g] > 0
            BY <6>1, <6>4, SMTT(30)
          <6> QED
            BY <6>3, <6>4
        <5>2. state[f] = "waiting" <=> isBlockedBy[f] # NoBag
          BY DEF ListsMatchStates
        <5> QED
          BY <2>6, <2>7, <2>13, <4>2, <5>1, <5>2, SMTT(30)
      <4> QED
        BY <4>1, <4>2
    <3>4. Range(readyList') = {f \in Entries : state'[f] = "ready"} /\ NoBag' = NoBag
      BY <3>1 DEF NoBag
    <3> QED
      BY <2>12, <3>2, <3>3, <3>4, SMTT(30) DEF ListsMatchStates, NoDuplicates
  <2>15. HashInv' /\ Fresh'
    <3>1. Fresh'
      BY <2>2, <2>4, <2>8, <2>13 DEF Fresh
    <3>2. \A k \in Hashes : hashMap'[k] # NoEntry => hashMap'[k] = hashMap[k]
      BY <2>2 DEF TypeOK
    <3>3. \A k \in Hashes : hashMap[k] # NoEntry => hashMap[k] \in Entries
      BY TrackedEntries, SMTT(30)
    <3>4. HashInv'
      BY <2>2, <2>8, <2>13, <3>2, <3>3, SMTT(30) DEF HashInv
    <3> QED
      BY <3>1, <3>4
  <2>16. LinksMatch'
    <3>1. \A f, g \in Entries : isBlockedBy'[f][g] > 0 => g \in Tracked'
      BY <2>3, SMTT(30) DEF LinksMatch
    <3>2. \A f, g \in Entries : isBlockedBy'[f][g] = blocks'[g][f]
      BY <2>3, SMTT(30) DEF LinksMatch
    <3> QED
      BY <3>1, <3>2 DEF LinksMatch, Entries
  <2>17. Tracked \in SUBSET Entries
    BY TrackedEntries DEF Tracked
  <2>18. Linked'
    <3> SUFFICES ASSUME NEW f \in Tracked', NEW g \in Tracked', f # g,
                        Shared(hashOf[f], hashOf[g]) > 0
                 PROVE  isBlockedBy'[f][g] > 0 \/ isBlockedBy'[g][f] > 0
      BY <2>2 DEF Linked, Shared
    <3>1. /\ f \in Entries /\ g \in Entries
          /\ isBlockedBy'[f][g] = isBlockedBy[f][g] /\ isBlockedBy'[g][f] = isBlockedBy[g][f]
      BY <2>3, <2>17
    <3>2. isBlockedBy[f][g] > 0 \/ isBlockedBy[g][f] > 0
      BY <2>3 DEF Linked
    <3> QED
      BY <3>1, <3>2
  <2>19. NoCircularWait'
    <3> SUFFICES ASSUME NEW S \in SUBSET Tracked', S # {}
                 PROVE  \E x \in S : \A y \in S : isBlockedBy'[x][y] = 0
      BY DEF NoCircularWait
    <3>1. S \in (SUBSET Tracked) \ {{}} /\ e \notin S /\ S \in SUBSET Entries
      BY <2>3, <2>17
    <3>2. PICK x \in S : \A y \in S : isBlockedBy[x][y] = 0
      BY <3>1 DEF NoCircularWait
    <3>3. x \in Entries /\ x # e /\ \A y \in S : y \in Entries /\ y # e
      BY <3>1
    <3>4. \A y \in S : isBlockedBy'[x][y] = isBlockedBy[x][y]
      BY <2>3, <3>3
    <3>5. \A y \in S : isBlockedBy'[x][y] = 0
      BY <3>2, <3>4
    <3> QED
      BY <3>5
  <2>20. StructType'
    BY <2>2, <2>3, <2>4, <2>12, SMTT(30) DEF StructType, TypeOK, NoEntry
  <2>21. NumPromoted(h) \in Nat
    <3>1. IsFiniteSet(Entries)
      BY FS_Interval, QueueAssumption, SMTT(30) DEF Entries, QueueAssumption
    <3>2. IsFiniteSet(P)
      BY <2>4, <3>1, FS_Subset
    <3> QED
      BY <1>2, <3>2, FS_CardinalityType DEF NumPromoted, P, e
  <2> QED
    BY <2>14, <2>15, <2>16, <2>18, <2>19, <2>20, <2>21
<1> QED
  BY <1>1, <1>2

-----------------------------------------------------------------------------
(* Enqueue *)

\* What Enqueue does to the links, with the sets of conflicts named.
LEMMA EnqueueLinks ==
  ASSUME TypeOK, NEW h \in Hashes, Enqueue(h),
         NEW e, e = alloc + 1,
         NEW inFlight, inFlight = Conflicts(h, {"ready", "pending"}),
         NEW waiting, waiting = Conflicts(h, {"waiting"})
  PROVE  /\ e \in Entries /\ e \notin Tracked /\ Tracked \in SUBSET Entries
         /\ Tracked' = Tracked \union {e}
         /\ inFlight \in SUBSET Tracked /\ waiting \in SUBSET Tracked
         /\ isBlockedBy' \in [Entries -> Bag] /\ blocks' \in [Entries -> Bag]
         /\ \A f \in waiting : Shared(h, hashOf[f]) \in Nat /\ Shared(h, hashOf[f]) > 0
         /\ \A f, g \in Entries :
              /\ isBlockedBy'[f][g] =
                   IF f = e THEN IF g \in inFlight THEN 1 ELSE 0
                   ELSE IF g # e THEN isBlockedBy[f][g]
                   ELSE IF f \in waiting THEN Shared(h, hashOf[f]) ELSE 0
              /\ blocks'[g][f] =
                   IF g = e THEN IF f \in waiting THEN Shared(h, hashOf[f]) ELSE 0
                   ELSE IF f # e THEN blocks[g][f]
                   ELSE IF g \in inFlight THEN 1 ELSE 0
<1> DEFINE times(f) == IF f \in waiting THEN Shared(h, hashOf[f]) ELSE 0
           isIn(f) == IF f \in inFlight THEN 1 ELSE 0
<1>1. /\ alloc < MaxEntries /\ hashMap[h] = NoEntry
      /\ hashMap' = [hashMap EXCEPT ![h] = e]
      /\ isBlockedBy' = [f \in Entries |->
           IF f = e THEN [g \in Entries |-> isIn(g)]
                    ELSE [isBlockedBy[f] EXCEPT ![e] = times(f)]]
      /\ blocks' = [f \in Entries |->
           IF f = e THEN [g \in Entries |-> times(g)]
                    ELSE [blocks[f] EXCEPT ![e] = isIn(f)]]
  BY DEF Enqueue
<1>2. e \in Entries /\ e # NoEntry
  BY <1>1, QueueAssumption, SMTT(30) DEF TypeOK, Entries, NoEntry, QueueAssumption
<1>3. Tracked \in SUBSET Entries /\ e \notin Tracked
  BY TrackedEntries DEF Tracked
<1>4. Tracked' = Tracked \union {e}
  <2>1. \A k \in Hashes : hashMap'[k] = IF k = h THEN e ELSE hashMap[k]
    BY <1>1 DEF TypeOK
  <2> QED
    BY <1>1, <1>2, <2>1 DEF Tracked
<1>5. inFlight \in SUBSET Tracked /\ waiting \in SUBSET Tracked
  BY DEF Conflicts
<1>6. \A f \in waiting : Shared(h, hashOf[f]) \in Nat /\ Shared(h, hashOf[f]) > 0
  <2> SUFFICES ASSUME NEW f \in waiting
               PROVE  Shared(h, hashOf[f]) \in Nat /\ Shared(h, hashOf[f]) > 0
    OBVIOUS
  <2>1. hashOf[f] \in Hashes
    BY <1>3, <1>5 DEF TypeOK
  <2> QED
    BY <2>1, SharedType DEF Conflicts
<1>7. \A f \in Entries : times(f) \in Nat /\ isIn(f) \in Nat
  BY <1>6
<1> HIDE DEF times, isIn
<1>8. isBlockedBy \in [Entries -> [Entries -> Nat]] /\ blocks \in [Entries -> [Entries -> Nat]]
  BY DEF TypeOK, Bag
<1>9. isBlockedBy' \in [Entries -> Bag]
  <2>1. \A f \in Entries : [isBlockedBy[f] EXCEPT ![e] = times(f)] \in [Entries -> Nat]
    BY <1>7, <1>8
  <2> QED
    BY <1>1, <1>7, <2>1 DEF Bag
<1>10. blocks' \in [Entries -> Bag]
  <2>1. \A f \in Entries : [blocks[f] EXCEPT ![e] = isIn(f)] \in [Entries -> Nat]
    BY <1>7, <1>8
  <2> QED
    BY <1>1, <1>7, <2>1 DEF Bag
<1>11. \A f, g \in Entries :
         isBlockedBy'[f][g] =
           IF f = e THEN isIn(g) ELSE IF g # e THEN isBlockedBy[f][g] ELSE times(f)
  BY <1>1, <1>2, <1>8
<1>12. \A f, g \in Entries :
         blocks'[g][f] =
           IF g = e THEN times(f) ELSE IF f # e THEN blocks[g][f] ELSE isIn(g)
  BY <1>1, <1>2, <1>8
<1> QED
  BY <1>2, <1>3, <1>4, <1>5, <1>6, <1>9, <1>10, <1>11, <1>12, SMTT(30) DEF times, isIn

\* Enqueue keeps the invariant.
LEMMA EnqueueStep ==
  ASSUME TypeOK, StructInv, NEW h \in Hashes, Enqueue(h)
  PROVE  StructInv' /\ StructType'
<1> DEFINE e == alloc + 1
           inFlight == Conflicts(h, {"ready", "pending"})
           waiting == Conflicts(h, {"waiting"})
           links(f, g) ==
             IF f = e THEN IF g \in inFlight THEN 1 ELSE 0
             ELSE IF g # e THEN isBlockedBy[f][g]
             ELSE IF f \in waiting THEN Shared(h, hashOf[f]) ELSE 0
<1> USE DEF StructInv
<1>1. /\ e \in Entries /\ e \notin Tracked /\ Tracked \in SUBSET Entries
      /\ Tracked' = Tracked \union {e}
      /\ inFlight \in SUBSET Tracked /\ waiting \in SUBSET Tracked
      /\ isBlockedBy' \in [Entries -> Bag] /\ blocks' \in [Entries -> Bag]
      /\ \A f \in waiting : Shared(h, hashOf[f]) \in Nat /\ Shared(h, hashOf[f]) > 0
      /\ \A f, g \in Entries :
           /\ isBlockedBy'[f][g] = links(f, g)
           /\ blocks'[g][f] =
                IF g = e THEN IF f \in waiting THEN Shared(h, hashOf[f]) ELSE 0
                ELSE IF f # e THEN blocks[g][f]
                ELSE IF g \in inFlight THEN 1 ELSE 0
  BY EnqueueLinks, SMTT(30)
<1>2. /\ alloc < MaxEntries /\ alloc' = e
      /\ hashOf' = [hashOf EXCEPT ![e] = h]
      /\ hashMap' = [hashMap EXCEPT ![h] = e]
      /\ \/ /\ inFlight # {}
            /\ state' = [state EXCEPT ![e] = "waiting"]
            /\ waitingList' = waitingList \union {e}
            /\ readyList' = readyList
         \/ /\ inFlight = {}
            /\ state' = [state EXCEPT ![e] = "ready"]
            /\ readyList' = Append(readyList, e)
            /\ waitingList' = waitingList
  BY DEF Enqueue
<1>3. \A f \in inFlight : state[f] \in {"ready", "pending"} /\ f \in Entries
  BY <1>1 DEF Conflicts
<1>4. \A f \in waiting : state[f] = "waiting" /\ f \in Entries
  BY <1>1 DEF Conflicts
<1>5. \A f \in Tracked : Shared(h, hashOf[f]) > 0 => f \in inFlight \/ f \in waiting
  <2>1. \A f \in Tracked : state[f] # "none"
    BY DEF Tracked, HashInv
  <2> QED
    BY <1>1, <2>1, SMTT(30) DEF Conflicts, TypeOK
<1>6. e = alloc + 1 /\ e \in Nat /\ e > alloc /\ alloc \in Nat
  BY SMTT(30) DEF TypeOK
<1>7. state[e] = "none"
  BY <1>1, <1>6 DEF Fresh
<1> HIDE DEF e, inFlight, waiting
<1>8. /\ \A f \in Entries : f # e => state'[f] = state[f] /\ hashOf'[f] = hashOf[f]
      /\ hashOf'[e] = h
      /\ state'[e] = IF inFlight = {} THEN "ready" ELSE "waiting"
  BY <1>1, <1>2, SMTT(30) DEF TypeOK
<1>9. \A f \in Entries : isBlockedBy[f] \in Bag /\ isBlockedBy'[f] \in Bag
  BY <1>1 DEF TypeOK
<1>10. \A f \in Entries : /\ isBlockedBy[f] # NoBag <=> \E g \in Entries : isBlockedBy[f][g] > 0
                          /\ isBlockedBy'[f] # NoBag <=> \E g \in Entries : isBlockedBy'[f][g] > 0
  <2> TAKE f \in Entries
  <2>1. isBlockedBy[f] # NoBag <=> \E g \in Entries : isBlockedBy[f][g] > 0
    BY <1>9, SomeOccurrence
  <2>2. isBlockedBy'[f] # NoBag <=> \E g \in Entries : isBlockedBy'[f][g] > 0
    BY <1>9, SomeOccurrence
  <2> QED
    BY <2>1, <2>2
<1>11. ListsMatchStates'
  <2>1. /\ Range(readyList) = {f \in Entries : state[f] = "ready"}
        /\ NoDuplicates(readyList) /\ readyList \in Seq(Entries)
        /\ waitingList = {f \in Entries : state[f] = "waiting"}
        /\ \A f \in Entries : state[f] = "waiting" <=> isBlockedBy[f] # NoBag
    BY DEF ListsMatchStates, NoDuplicates, TypeOK
  <2>2. e \notin Range(readyList)
    BY <1>7, <2>1
  <2>3. /\ Range(readyList') = {f \in Entries : state'[f] = "ready"}
        /\ NoDuplicates(readyList')
    <3>1. CASE inFlight # {}
      BY <1>1, <1>2, <1>7, <1>8, <2>1, <3>1, SMTT(30)
    <3>2. CASE inFlight = {}
      <4>1. /\ Range(Append(readyList, e)) = Range(readyList) \union {e}
            /\ NoDuplicates(Append(readyList, e))
        BY <1>1, <2>1, <2>2, AppendList
      <4>2. readyList' = Append(readyList, e)
        BY <1>2, <3>2
      <4>3. {f \in Entries : state'[f] = "ready"} = {f \in Entries : state[f] = "ready"} \union {e}
        <5>1. e \in Entries /\ state'[e] = "ready"
          BY <1>1, <1>8, <3>2
        <5>2. \A f \in Entries : f # e => state'[f] = state[f]
          BY <1>8
        <5> QED
          BY <5>1, <5>2
      <4> QED
        BY <2>1, <4>1, <4>2, <4>3
    <3> QED
      BY <3>1, <3>2, SMTT(30)
  <2>4. waitingList' = {f \in Entries : state'[f] = "waiting"}
    BY <1>1, <1>2, <1>7, <1>8, <2>1, SMTT(30)
  <2>5. ASSUME NEW f \in Entries
        PROVE  state'[f] = "waiting" <=> isBlockedBy'[f] # NoBag
    <3>1. CASE f = e
      <4>1. inFlight # {} <=> \E g \in Entries : isBlockedBy'[e][g] > 0
        <5>1. e \in Entries /\ inFlight \in SUBSET Entries
          BY <1>1
        <5>2. \A g \in Entries : isBlockedBy'[e][g] = links(e, g)
          BY <1>1, <5>1
        <5>3. \A g \in Entries : isBlockedBy'[e][g] = IF g \in inFlight THEN 1 ELSE 0
          BY <5>2
        <5> HIDE DEF links
        <5> QED
          BY <5>1, <5>3, SMTT(30)
      <4> QED
        BY <1>1, <1>8, <1>10, <3>1, <4>1
    <3>2. CASE f # e /\ state[f] = "waiting"
      <4>1. PICK g \in Entries : isBlockedBy[f][g] > 0
        BY <1>10, <2>1, <3>2
      <4>2. g # e
        BY <1>1, <4>1, SMTT(30) DEF LinksMatch
      <4>3. isBlockedBy'[f][g] > 0
        BY <1>1, <3>2, <4>1, <4>2
      <4> QED
        BY <1>8, <1>10, <3>2, <4>3, SMTT(30)
    <3>3. CASE f # e /\ state[f] # "waiting"
      <4>1. f \notin waiting
        BY <1>4, <3>3
      <4>2. \A g \in Entries : isBlockedBy[f][g] = 0
        BY <1>9, <2>1, <3>3, NoOccurrence
      <4>3. \A g \in Entries : isBlockedBy'[f][g] = 0
        BY <1>1, <3>3, <4>1, <4>2
      <4> QED
        BY <1>8, <1>10, <3>3, <4>3, SMTT(30)
    <3> QED
      BY <3>1, <3>2, <3>3
  <2> QED
    BY <2>3, <2>4, <2>5 DEF ListsMatchStates, NoDuplicates, NoBag
<1>12. Fresh'
  BY <1>1, <1>2, <1>6, <1>8, SMTT(30) DEF Fresh, Entries
<1>13. HashInv'
  <2>1. \A k \in Hashes : hashMap'[k] = IF k = h THEN e ELSE hashMap[k]
    BY <1>2 DEF TypeOK
  <2>2. \A k \in Hashes : hashMap[k] # NoEntry => hashMap[k] \in Entries /\ hashMap[k] # e
    BY <1>1, SMTT(30) DEF Tracked
  <2> QED
    BY <1>8, <2>1, <2>2, SMTT(30) DEF HashInv
<1>14. LinksMatch'
  <2>1. \A f, g \in Entries : isBlockedBy'[f][g] > 0 => g \in Tracked'
    BY <1>1, SMTT(30) DEF LinksMatch
  <2>2. \A f, g \in Entries : isBlockedBy'[f][g] = blocks'[g][f]
    BY <1>1, SMTT(30) DEF LinksMatch
  <2> QED
    BY <2>1, <2>2 DEF LinksMatch, Entries
<1>15. Linked'
  <2> SUFFICES ASSUME NEW f \in Tracked', NEW g \in Tracked', f # g,
                      Shared(hashOf'[f], hashOf'[g]) > 0
               PROVE  isBlockedBy'[f][g] > 0 \/ isBlockedBy'[g][f] > 0
    BY DEF Linked, Shared
  <2>1. \A x \in Tracked : Shared(h, hashOf[x]) > 0 =>
          isBlockedBy'[e][x] > 0 \/ isBlockedBy'[x][e] > 0
    BY <1>1, <1>5, SMTT(30)
  <2>2. CASE f = e
    <3>1. g \in Tracked /\ hashOf'[g] = hashOf[g] /\ hashOf'[f] = h
      BY <1>1, <1>8, <2>2
    <3> QED
      BY <2>1, <2>2, <3>1
  <2>3. CASE g = e
    <3>1. f \in Tracked /\ hashOf'[f] = hashOf[f] /\ hashOf'[g] = h
      BY <1>1, <1>8, <2>3, SMTT(30)
    <3>2. hashOf[f] \in Hashes
      BY <1>1, <3>1 DEF TypeOK
    <3>3. Shared(h, hashOf[f]) > 0
      BY <3>1, <3>2, SharedType, SMTT(30)
    <3> QED
      BY <2>1, <2>3, <3>1, <3>3
  <2>4. CASE f # e /\ g # e
    <3>1. /\ f \in Tracked /\ g \in Tracked /\ f \in Entries /\ g \in Entries
          /\ hashOf'[f] = hashOf[f] /\ hashOf'[g] = hashOf[g]
          /\ isBlockedBy'[f][g] = isBlockedBy[f][g] /\ isBlockedBy'[g][f] = isBlockedBy[g][f]
      BY <1>1, <1>8, <2>4, SMTT(30)
    <3> QED
      BY <3>1 DEF Linked
  <2> QED
    BY <2>2, <2>3, <2>4
<1>16. NoCircularWait'
  <2> SUFFICES ASSUME NEW S \in SUBSET Tracked', S # {}
               PROVE  \E x \in S : \A y \in S : isBlockedBy'[x][y] = 0
    BY DEF NoCircularWait
  <2>1. S \in SUBSET Entries
    BY <1>1
  <2>2. CASE e \notin S
    <3>1. S \in (SUBSET Tracked) \ {{}}
      BY <1>1, <2>2
    <3>2. PICK x \in S : \A y \in S : isBlockedBy[x][y] = 0
      BY <3>1 DEF NoCircularWait
    <3> QED
      BY <1>1, <2>1, <2>2, <3>2, SMTT(30)
  <2>3. CASE e \in S /\ inFlight \cap S = {}
    <3>1. \A y \in S : isBlockedBy'[e][y] = 0
      BY <1>1, <2>1, <2>3
    <3> QED
      BY <2>3, <3>1
  <2>4. CASE e \in S /\ inFlight \cap S # {}
    <3>1. PICK x \in S : x \in inFlight
      BY <2>4
    <3>2. x \in Entries /\ x # e /\ state[x] # "waiting" /\ x \notin waiting
      BY <1>1, <1>3, <1>4, <3>1, SMTT(30)
    <3>3. \A y \in Entries : isBlockedBy[x][y] = 0
      BY <1>9, <3>2, NoOccurrence DEF ListsMatchStates
    <3>4. \A y \in Entries : isBlockedBy'[x][y] = 0
      BY <1>1, <3>2, <3>3
    <3> QED
      BY <2>1, <3>4
  <2> QED
    BY <2>2, <2>3, <2>4
<1>17. StructType'
  <2>1. hashOf' \in [Entries -> Hashes] /\ alloc' \in 0..MaxEntries
    BY <1>1, <1>2, <1>6, QueueAssumption, SMTT(30) DEF TypeOK, QueueAssumption
  <2>2. hashMap' \in [Hashes -> 0..alloc']
    BY <1>2, <1>6, SMTT(30) DEF TypeOK
  <2>3. state' \in [Entries -> {"none", "ready", "waiting", "pending"}]
    BY <1>2 DEF TypeOK
  <2>4. readyList' \in Seq(Entries) /\ waitingList' \in SUBSET Entries
    <3>1. readyList \in Seq(Entries) /\ waitingList \in SUBSET Entries
      BY DEF TypeOK
    <3>2. Append(readyList, e) \in Seq(Entries)
      BY <1>1, <3>1, AppendProperties
    <3> QED
      BY <1>1, <1>2, <3>1, <3>2
  <2> QED
    BY <1>1, <2>1, <2>2, <2>3, <2>4 DEF StructType
<1> QED
  BY <1>11, <1>12, <1>13, <1>14, <1>15, <1>16, <1>17, SMTT(30)

-----------------------------------------------------------------------------
(* Dequeue *)

\* Handing the head of the ready list to a worker keeps the invariant.
LEMMA DequeueStep ==
  ASSUME TypeOK, StructInv, NEW w \in Workers, DequeueTx(w)
  PROVE  /\ StructInv' /\ StructType'
         /\ hashOf[Head(readyList)] \in Hashes
<1> DEFINE e == Head(readyList)
<1> USE DEF StructInv
<1>1. /\ readyList # <<>> /\ readyList' = Tail(readyList)
      /\ state' = [state EXCEPT ![e] = "pending"]
      /\ UNCHANGED <<hashOf, blocks, isBlockedBy, alloc, waitingList, hashMap>>
  BY DEF DequeueTx
<1>2. /\ Range(readyList) = {f \in Entries : state[f] = "ready"}
      /\ NoDuplicates(readyList) /\ readyList \in Seq(Entries)
  BY DEF ListsMatchStates, NoDuplicates, TypeOK
<1>3. /\ e \in Entries /\ e \in Range(readyList)
      /\ Tail(readyList) \in Seq(Entries)
      /\ Range(Tail(readyList)) = Range(readyList) \ {e}
      /\ NoDuplicates(Tail(readyList))
  BY <1>1, <1>2, TailList
<1>4. state[e] = "ready"
  BY <1>2, <1>3
<1> HIDE DEF e
<1>5. \A f \in Entries : state'[f] = IF f = e THEN "pending" ELSE state[f]
  BY <1>1, <1>3 DEF TypeOK
<1>6. ListsMatchStates'
  <2>1. Range(readyList') = {f \in Entries : state'[f] = "ready"} /\ NoDuplicates(readyList')
    BY <1>1, <1>2, <1>3, <1>5, SMTT(30)
  <2>2. waitingList' = {f \in Entries : state'[f] = "waiting"}
    BY <1>1, <1>4, <1>5, SMTT(30) DEF ListsMatchStates
  <2>3. \A f \in Entries : state'[f] = "waiting" <=> isBlockedBy'[f] # NoBag
    BY <1>1, <1>4, <1>5, SMTT(30) DEF ListsMatchStates
  <2> QED
    BY <2>1, <2>2, <2>3 DEF ListsMatchStates, NoDuplicates, NoBag
<1>7. HashInv'
  <2>1. \A h \in Hashes : hashMap[h] # NoEntry => hashMap[h] \in Entries
    BY TrackedEntries
  <2> QED
    BY <1>1, <1>5, <2>1, SMTT(30) DEF HashInv
<1>8. Fresh'
  BY <1>1, <1>4, <1>5, SMTT(30) DEF Fresh
<1>9. LinksMatch' /\ Linked' /\ NoCircularWait'
  <2>1. LinksMatch'
    BY <1>1, SMTT(30) DEF LinksMatch, Tracked
  <2>2. Linked'
    BY <1>1 DEF Linked, Tracked
  <2>3. NoCircularWait'
    <3>1. Tracked' = Tracked /\ isBlockedBy' = isBlockedBy
      BY <1>1 DEF Tracked
    <3> QED
      BY <3>1, SMTT(30) DEF NoCircularWait
  <2> QED
    BY <2>1, <2>2, <2>3
<1>10. StructType'
  BY <1>1, <1>3 DEF StructType, TypeOK
<1>11. hashOf[e] \in Hashes
  BY <1>3 DEF TypeOK
<1> QED
  BY <1>6, <1>7, <1>8, <1>9, <1>10, <1>11 DEF e

-----------------------------------------------------------------------------
(* The invariant *)

\* The inductive invariant: types, and what Enqueue, Dequeue and Complete keep
\* between entries, lists and maps.
IInv == TypeOK /\ StructInv

\* The part of TypeOK that is about the callers of the queue.
CallerType ==
  /\ pendingMap \in SUBSET Hashes /\ done \in BOOLEAN
  /\ pc \in [Workers -> {"dequeue", "asleep", "woken", "busy", "gone"}]
  /\ job \in [Workers -> Hashes]
  /\ submitted \in [Hashes -> Nat]
  /\ todo \in Seq(Hashes) /\ promoted \in Nat

\* NewTxQueueV2 establishes the invariant.
LEMMA QueueInit == Init => IInv
<1> SUFFICES ASSUME Init PROVE IInv
  OBVIOUS
<1>1. AnyHash \in Hashes
  BY QueueAssumption DEF AnyHash, QueueAssumption
<1>2. NoBag \in Bag
  BY DEF NoBag, Bag
<1>3. Tracked = {}
  BY DEF Init, Tracked
<1>4. TypeOK
  <2>1. hashMap \in [Hashes -> 0..alloc] /\ alloc \in 0..MaxEntries
    BY QueueAssumption, SMTT(30) DEF Init, NoEntry, QueueAssumption
  <2>2. readyList \in Seq(Entries) /\ todo \in Seq(Hashes)
    BY EmptySeq DEF Init
  <2> QED
    BY <1>1, <1>2, <2>1, <2>2 DEF Init, TypeOK
<1>5. HashInv /\ Fresh
  BY QueueAssumption, SMTT(30) DEF Init, HashInv, Fresh, Entries, NoEntry, QueueAssumption
<1>6. ListsMatchStates
  BY SMTT(30) DEF Init, ListsMatchStates, Range
<1>7. LinksMatch
  BY SMTT(30) DEF Init, LinksMatch, NoBag
<1>8. Linked /\ NoCircularWait
  BY <1>3 DEF Linked, NoCircularWait
<1> QED
  BY <1>4, <1>5, <1>6, <1>7, <1>8 DEF IInv, StructInv

\* A step that leaves the lists, the maps and the links alone.
LEMMA StructUnchanged ==
  ASSUME IInv, UNCHANGED structVars
  PROVE  StructInv' /\ StructType'
<1>1. /\ UNCHANGED <<hashOf, state, blocks, isBlockedBy, alloc>>
      /\ UNCHANGED <<readyList, waitingList, hashMap>>
  BY DEF structVars, entryVars
<1>2. Tracked' = Tracked
  BY <1>1 DEF Tracked
<1>3. HashInv' /\ Fresh'
  BY <1>1 DEF IInv, StructInv, HashInv, Fresh
<1>4. ListsMatchStates'
  BY <1>1 DEF IInv, StructInv, ListsMatchStates
<1>5. LinksMatch' /\ Linked'
  BY <1>1, <1>2 DEF IInv, StructInv, LinksMatch, Linked
<1>6. NoCircularWait'
  BY <1>1, <1>2, SMTT(30) DEF IInv, StructInv, NoCircularWait
<1>7. StructType'
  BY <1>1 DEF IInv, StructType, TypeOK
<1> QED
  BY <1>3, <1>4, <1>5, <1>6, <1>7 DEF StructInv

\* Every step keeps the invariant.
LEMMA QueueStep == IInv /\ [Next]_vars => IInv'
<1> SUFFICES ASSUME IInv, [Next]_vars PROVE IInv'
  OBVIOUS
<1>1. SUFFICES StructInv' /\ StructType' /\ CallerType'
  BY DEF IInv, TypeOK, StructType, CallerType
<1>2. CallerType /\ TypeOK /\ StructInv
  BY DEF IInv, TypeOK, CallerType
<1>3. ASSUME NEW h \in Hashes, Enqueue(h) PROVE StructInv' /\ StructType' /\ CallerType'
  <2>1. StructInv' /\ StructType'
    BY <1>2, <1>3, EnqueueStep
  <2>2. pc' = pc \/ pc' \in Woken(pc, 1)
    BY <1>3 DEF Enqueue
  <2>3. pc' \in [Workers -> {"dequeue", "asleep", "woken", "busy", "gone"}]
    BY <1>2, <2>2, WokenType DEF CallerType
  <2> QED
    BY <1>2, <1>3, <2>1, <2>3 DEF Enqueue, CallerType, lockVars
<1>4. ASSUME NEW h \in Hashes, NEW p \in [Workers -> {"dequeue", "asleep", "woken", "busy", "gone"}],
             Complete(h, p)
      PROVE  /\ StructInv' /\ StructType'
             /\ pendingMap' \in SUBSET Hashes /\ done' \in BOOLEAN
             /\ pc' \in [Workers -> {"dequeue", "asleep", "woken", "busy", "gone"}]
             /\ todo' \in Seq(Hashes) /\ promoted' \in Nat
  <2>1. completeUnlocked(h) /\ pc' \in Woken(p, NumPromoted(h)) /\ UNCHANGED <<done, lockVars>>
    BY <1>4 DEF Complete
  <2>2. StructInv' /\ StructType'
    BY <1>2, <2>1, CompleteStep
  <2>3. pc' \in [Workers -> {"dequeue", "asleep", "woken", "busy", "gone"}]
    BY <2>1, WokenType
  <2>4. pendingMap' \in SUBSET Hashes
    BY <1>2, <2>1 DEF completeUnlocked, CallerType
  <2> QED
    BY <1>2, <2>1, <2>2, <2>3, <2>4 DEF CallerType, lockVars
<1>5. ASSUME NEW h \in Hashes, SubmitFails(h) PROVE StructInv' /\ StructType' /\ CallerType'
  <2>1. Complete(h, pc) /\ job' = job
    BY <1>5 DEF SubmitFails
  <2>2. submitted' \in [Hashes -> Nat]
    BY <1>2, <1>5, SMTT(30) DEF SubmitFails, CallerType
  <2> QED
    BY <1>2, <1>4, <2>1, <2>2 DEF CallerType
<1>6. ASSUME NEW w \in Workers, WorkerNext(w) PROVE StructInv' /\ StructType' /\ CallerType'
  <2>1. CASE DequeueTx(w)
    <3>1. /\ StructInv' /\ StructType' /\ hashOf[Head(readyList)] \in Hashes
      BY <1>2, <2>1, DequeueStep
    <3> QED
      BY <1>2, <2>1, <3>1 DEF DequeueTx, CallerType, lockVars
  <2>2. CASE DequeueWaits(w)
    <3>1. UNCHANGED structVars
      BY <2>2 DEF DequeueWaits, structVars, queueVars, entryVars, listVars
    <3>2. StructInv' /\ StructType'
      BY <3>1, StructUnchanged
    <3> QED
      BY <1>2, <2>2, <3>2 DEF DequeueWaits, CallerType, lockVars, queueVars, listVars
  <2>3. CASE DequeueClosed(w)
    <3>1. UNCHANGED structVars
      BY <2>3 DEF DequeueClosed, structVars, queueVars, entryVars, listVars
    <3>2. StructInv' /\ StructType'
      BY <3>1, StructUnchanged
    <3> QED
      BY <1>2, <2>3, <3>2 DEF DequeueClosed, CallerType, lockVars, queueVars, listVars
  <2>4. AnyHash \in Hashes
    BY QueueAssumption, SMTT(30) DEF AnyHash, QueueAssumption
  <2>5. CASE WorkerSubmits(w)
    <3>1. UNCHANGED structVars
      BY <2>5, SMTT(30) DEF WorkerSubmits, structVars, queueVars, entryVars, listVars
    <3>2. StructInv' /\ StructType'
      BY <3>1, StructUnchanged
    <3>3. submitted' \in [Hashes -> Nat] /\ job' \in [Workers -> Hashes]
      BY <1>2, <2>4, <2>5, SMTT(30) DEF WorkerSubmits, CallerType
    <3> QED
      BY <1>2, <2>5, <3>2, <3>3 DEF WorkerSubmits, CallerType, lockVars, queueVars, listVars
  <2>6. CASE WorkerFails(w)
    <3>1. /\ job[w] \in Hashes
          /\ [pc EXCEPT ![w] = "dequeue"] \in
               [Workers -> {"dequeue", "asleep", "woken", "busy", "gone"}]
      BY <1>2 DEF CallerType
    <3>2. /\ Complete(job[w], [pc EXCEPT ![w] = "dequeue"])
          /\ job' = [job EXCEPT ![w] = AnyHash] /\ submitted' = submitted
      BY <2>6 DEF WorkerFails
    <3>3. job' \in [Workers -> Hashes] /\ submitted' \in [Hashes -> Nat]
      BY <1>2, <2>4, <3>2 DEF CallerType
    <3> QED
      BY <1>4, <3>1, <3>2, <3>3 DEF CallerType
  <2> QED
    BY <1>6, <2>1, <2>2, <2>3, <2>5, <2>6 DEF WorkerNext, Dequeue
<1>7. ASSUME NEW txs \in BlockContents, HandleBegin(txs)
      PROVE  StructInv' /\ StructType' /\ CallerType'
  <2>1. UNCHANGED structVars
    BY <1>7 DEF HandleBegin, structVars, queueVars, entryVars, listVars
  <2>2. StructInv' /\ StructType'
    BY <2>1, StructUnchanged
  <2>3. submitted' \in [Hashes -> Nat]
    BY <1>2, <1>7, SMTT(30) DEF HandleBegin, CallerType
  <2>4. todo' \in Seq(Hashes)
    <3>1. todo' = txs
      BY <1>7 DEF HandleBegin
    <3>2. PICK n \in 1..MaxBlockTxs : txs \in [1..n -> Hashes]
      BY <1>7 DEF BlockContents, Injection
    <3>3. n \in Nat
      BY QueueAssumption, SMTT(30) DEF QueueAssumption
    <3> QED
      BY <3>1, <3>2, <3>3, SeqDef
  <2> QED
    BY <1>2, <1>7, <2>2, <2>3, <2>4 DEF HandleBegin, CallerType, workerVars, queueVars, listVars
<1>8. ASSUME HandleNext PROVE StructInv' /\ StructType' /\ CallerType'
  <2>1. /\ todo # <<>> /\ completeUnlocked(Head(todo)) /\ todo' = Tail(todo)
        /\ UNCHANGED <<done, job, submitted>>
        /\ \/ promoted' = 0 /\ pc' \in Woken(pc, promoted + NumPromoted(Head(todo)))
           \/ promoted' = promoted + NumPromoted(Head(todo)) /\ pc' = pc
    BY <1>8 DEF HandleNext
  <2>2. Head(todo) \in Hashes /\ Tail(todo) \in Seq(Hashes)
    BY <1>2, <2>1, HeadTailProperties DEF CallerType
  <2>3. StructInv' /\ StructType' /\ NumPromoted(Head(todo)) \in Nat
    BY <1>2, <2>1, <2>2, CompleteStep
  <2>4. pc' \in [Workers -> {"dequeue", "asleep", "woken", "busy", "gone"}]
    BY <1>2, <2>1, WokenType DEF CallerType
  <2>5. pendingMap' \in SUBSET Hashes
    BY <1>2, <2>1 DEF completeUnlocked, CallerType
  <2> QED
    BY <1>2, <2>1, <2>2, <2>3, <2>4, <2>5, SMTT(30) DEF CallerType
<1>9. ASSUME Close PROVE StructInv' /\ StructType' /\ CallerType'
  <2>1. UNCHANGED structVars
    BY <1>9 DEF Close, structVars, entryVars, listVars
  <2>2. StructInv' /\ StructType'
    BY <2>1, StructUnchanged
  <2>3. pc' \in [Workers -> {"dequeue", "asleep", "woken", "busy", "gone"}]
    BY <1>2, <1>9, WokenType DEF Close, CallerType
  <2> QED
    BY <1>2, <1>9, <2>2, <2>3 DEF Close, CallerType, lockVars, listVars
<1>10. ASSUME UNCHANGED vars PROVE StructInv' /\ StructType' /\ CallerType'
  <2>1. UNCHANGED structVars
    BY <1>10 DEF vars, structVars, queueVars, entryVars, listVars
  <2>2. StructInv' /\ StructType'
    BY <2>1, StructUnchanged
  <2> QED
    BY <1>2, <1>10, <2>2 DEF vars, CallerType, lockVars, workerVars, queueVars, listVars
<1> QED
  BY <1>3, <1>5, <1>6, <1>7, <1>8, <1>9, <1>10 DEF Next

\* The inductive invariant holds throughout.
THEOREM Invariance == Spec => []IInv
BY QueueInit, QueueStep, PTL DEF Spec

\* Type correctness of the queue and its callers.
THEOREM TypeCorrect == Spec => []TypeOK
<1>1. IInv => TypeOK
  BY DEF IInv
<1> QED
  BY <1>1, Invariance, PTL

\* What TxQueueV2 is for: of the tracked transactions, no two that share a
\* participant are both ready or with a worker, for any number of clients'
\* transactions, workers and foreign commits. Both would have no blockers, and
\* Linked says that one of them blocks the other.
THEOREM SequentialConflicts == Spec => []ConflictsSerial
<1>1. IInv => ConflictsSerial
  <2> SUFFICES ASSUME IInv, NEW e \in Tracked, NEW f \in Tracked, e # f,
                      Shared(hashOf[e], hashOf[f]) > 0
               PROVE  {state[e], state[f]} \cap {"waiting"} # {}
    BY DEF ConflictsSerial
  <2>1. e \in Entries /\ f \in Entries
    BY TrackedEntries DEF IInv
  <2>2. isBlockedBy[e][f] > 0 \/ isBlockedBy[f][e] > 0
    BY DEF IInv, StructInv, Linked
  <2>3. isBlockedBy[e] # NoBag \/ isBlockedBy[f] # NoBag
    BY <2>1, <2>2, SMTT(30) DEF NoBag
  <2>4. state[e] = "waiting" \/ state[f] = "waiting"
    BY <2>1, <2>3 DEF IInv, StructInv, ListsMatchStates
  <2> QED
    BY <2>4
<1> QED
  BY <1>1, Invariance, PTL

\* The documented invariants of txEntry hold for every entry, also one that was
\* completed while it was still in a list.
THEOREM EntryInvariants == Spec => []ListsMatchStates
<1>1. IInv => ListsMatchStates
  BY DEF IInv, StructInv
<1> QED
  BY <1>1, Invariance, PTL

\* Completing a transaction frees all it blocks, and nothing waits for a
\* transaction that is gone.
THEOREM LinksAgree == Spec => []LinksMatch
<1>1. IInv => LinksMatch
  BY DEF IInv, StructInv
<1> QED
  BY <1>1, Invariance, PTL

\* The dependencies never form a circle, however transactions jump the queue:
\* a new transaction waits only for transactions that wait for nothing.
THEOREM DeadlockFree == Spec => []NoCircularWait
<1>1. IInv => NoCircularWait
  BY DEF IInv, StructInv
<1> QED
  BY <1>1, Invariance, PTL

-----------------------------------------------------------------------------
(* The condition variable: one Signal for one transaction and one Broadcast  *)
(* for several lose no wake-up.                                              *)

Asleep(p) == {w \in Workers : p[w] = "asleep"}
WokenSet(p) == {w \in Workers : p[w] = "woken"}

\* While a worker sleeps, the ready transactions are covered by the workers that
\* were woken and by what Handle, with the lock, still has to signal for.
WakeInv ==
  /\ Unlocked => promoted = 0
  /\ Asleep(pc) # {} => Len(readyList) <= Cardinality(WokenSet(pc)) + promoted

\* A set of workers has a size.
LEMMA WorkerSets ==
  ASSUME NEW S \in SUBSET Workers
  PROVE  IsFiniteSet(S) /\ Cardinality(S) \in Nat
BY FS_Subset, FS_CardinalityType, WorkersFinite DEF WorkersFinite

\* If a worker still sleeps after n transactions were announced, n more workers
\* are awake: a Signal wakes one and a Broadcast leaves nobody asleep.
LEMMA WokenCovers ==
  ASSUME NEW P, NEW p \in [Workers -> P], NEW n \in Nat, NEW q \in Woken(p, n),
         Asleep(q) # {}
  PROVE  Asleep(p) # {} /\ Cardinality(WokenSet(q)) = Cardinality(WokenSet(p)) + n
<1>1. CASE n = 0
  <2>1. q = p
    BY <1>1 DEF Woken
  <2>2. Cardinality(WokenSet(p)) \in Nat
    BY WorkerSets DEF WokenSet
  <2> QED
    BY <1>1, <2>1, <2>2, SMTT(30)
<1>2. CASE n = 1
  <2>1. Asleep(p) # {}
    BY <1>2 DEF Woken, Asleep
  <2>2. PICK w \in Workers : p[w] = "asleep" /\ q = [p EXCEPT ![w] = "woken"]
    BY <1>2, <2>1, SMTT(30) DEF Woken, Asleep
  <2>3. WokenSet(q) = WokenSet(p) \union {w} /\ w \notin WokenSet(p)
    BY <2>2 DEF WokenSet
  <2>4. IsFiniteSet(WokenSet(p))
    BY WorkerSets DEF WokenSet
  <2>5. Cardinality(WokenSet(q)) = Cardinality(WokenSet(p)) + 1
    BY <2>3, <2>4, FS_AddElement
  <2> QED
    BY <1>2, <2>1, <2>5
<1>3. CASE n > 1
  <2>1. Asleep(p) # {}
    BY <1>3 DEF Woken, Asleep
  <2>2. q = [w \in Workers |-> IF w \in Asleep(p) THEN "woken" ELSE p[w]]
    BY <1>3, <2>1, SMTT(30) DEF Woken, Asleep
  <2>3. \A w \in Workers : q[w] # "asleep"
    BY <2>2 DEF Asleep
  <2> QED
    BY <2>3 DEF Asleep
<1> QED
  BY <1>1, <1>2, <1>3, SMTT(30)

\* completeUnlocked makes as many transactions ready as it counts.
LEMMA CompleteLength ==
  ASSUME TypeOK, NEW h \in Hashes, completeUnlocked(h)
  PROVE  /\ NumPromoted(h) \in Nat
         /\ Len(readyList') = Len(readyList) + NumPromoted(h)
<1>1. readyList \in Seq(Entries) /\ Len(readyList) \in Nat
  BY SMTT(30) DEF TypeOK
<1>2. CASE hashMap[h] = NoEntry
  BY <1>1, <1>2, SMTT(30) DEF completeUnlocked, NumPromoted
<1>3. CASE hashMap[h] # NoEntry
  <2> DEFINE S == Promoted(hashMap[h])
  <2>1. S \in SUBSET Entries
    BY DEF Promoted
  <2>2. PICK order \in Injection(1..Cardinality(S), S) : readyList' = readyList \o order
    BY <1>3 DEF completeUnlocked
  <2>3. order \in Seq(Entries)
    BY <2>1, <2>2, OrderProperties
  <2>4. order \in [1..Cardinality(S) -> S]
    BY <2>2 DEF Injection
  <2>5. IsFiniteSet(S)
    BY <2>1, FS_Interval, FS_Subset, QueueAssumption, SMTT(30) DEF Entries, QueueAssumption
  <2>6. Cardinality(S) \in Nat
    BY <2>5, FS_CardinalityType
  <2>7. Len(order) = Cardinality(S)
    BY <2>3, <2>4, <2>6, LenProperties, SMTT(30)
  <2>8. Len(readyList') = Len(readyList) + Len(order)
    BY <1>1, <2>2, <2>3, ConcatProperties
  <2> QED
    BY <1>3, <2>6, <2>7, <2>8 DEF NumPromoted
<1> QED
  BY <1>2, <1>3

\* A step that wakes as many as it made ready keeps the covering. p is the
\* control state before anybody is woken.
LEMMA WakeStep ==
  ASSUME TypeOK, WakeInv, NEW n \in Nat, NEW P, NEW p \in [Workers -> P],
         Asleep(p) = Asleep(pc), WokenSet(p) = WokenSet(pc),
         pc' \in Woken(p, n), Len(readyList') \in Nat,
         Len(readyList') <= Len(readyList) + n - promoted, promoted' = 0
  PROVE  WakeInv'
<1>1. Unlocked' => promoted' = 0
  OBVIOUS
<1>2. ASSUME Asleep(pc') # {}
      PROVE  Len(readyList') <= Cardinality(WokenSet(pc')) + promoted'
  <2>1. /\ Asleep(pc) # {}
        /\ Cardinality(WokenSet(pc')) = Cardinality(WokenSet(pc)) + n
    BY <1>2, WokenCovers
  <2>2. Cardinality(WokenSet(pc)) \in Nat
    BY WorkerSets DEF WokenSet
  <2>3. Len(readyList) \in Nat /\ promoted \in Nat
    BY SMTT(30) DEF TypeOK
  <2>4. Len(readyList) <= Cardinality(WokenSet(pc)) + promoted
    BY <2>1 DEF WakeInv
  <2> QED
    BY <2>1, <2>2, <2>3, <2>4, SMTT(30)
<1>3. Asleep(pc)' = Asleep(pc') /\ WokenSet(pc)' = WokenSet(pc')
  BY DEF Asleep, WokenSet
<1> QED
  BY <1>1, <1>2, <1>3 DEF WakeInv

\* A step that leaves the ready list, the sleeping and the woken workers and
\* the block handler alone.
LEMMA WakeUnchanged ==
  ASSUME WakeInv, UNCHANGED <<readyList, lockVars>>,
         Asleep(pc)' = Asleep(pc), WokenSet(pc)' = WokenSet(pc)
  PROVE  WakeInv'
BY DEF WakeInv, lockVars, Unlocked

\* A worker that goes to sleep or leaves found the list empty.
LEMMA WakeEmpty ==
  ASSUME WakeInv, readyList' = <<>>, Unlocked, UNCHANGED lockVars
  PROVE  WakeInv'
<1>1. promoted' = 0
  BY DEF WakeInv, lockVars
<1>2. Len(readyList') = 0
  OBVIOUS
<1>3. Cardinality(WokenSet(pc)') \in Nat
  <2>1. WokenSet(pc)' \in SUBSET Workers
    BY DEF WokenSet
  <2> QED
    BY <2>1, WorkerSets
<1> QED
  BY <1>1, <1>2, <1>3, SMTT(30) DEF WakeInv

\* A worker that takes a transaction uses up its own wake-up at most.
LEMMA WakeDequeue ==
  ASSUME TypeOK, WakeInv, NEW w \in Workers, DequeueTx(w)
  PROVE  WakeInv'
<1>1. /\ readyList \in Seq(Entries) /\ readyList # <<>>
      /\ readyList' = Tail(readyList)
      /\ pc[w] \in {"dequeue", "woken"} /\ pc' = [pc EXCEPT ![w] = "busy"]
      /\ Unlocked /\ todo' = todo /\ promoted' = promoted
  BY DEF DequeueTx, InDequeue, lockVars, TypeOK
<1>2. Len(readyList') = Len(readyList) - 1 /\ Len(readyList) \in Nat
  BY <1>1, HeadTailProperties, SMTT(30)
<1>3. /\ Asleep(pc)' = Asleep(pc)
      /\ WokenSet(pc)' = WokenSet(pc) \ {w}
  BY <1>1 DEF Asleep, WokenSet, TypeOK
<1>4. IsFiniteSet(WokenSet(pc)) /\ Cardinality(WokenSet(pc)) \in Nat
  BY WorkerSets DEF WokenSet
<1>5. /\ Cardinality(WokenSet(pc) \ {w}) \in Nat
      /\ Cardinality(WokenSet(pc) \ {w}) >= Cardinality(WokenSet(pc)) - 1
  <2>1. CASE w \in WokenSet(pc)
    <3>1. WokenSet(pc) \ {w} \in SUBSET Workers
      BY DEF WokenSet
    <3>2. Cardinality(WokenSet(pc) \ {w}) \in Nat
      BY <3>1, WorkerSets
    <3>3. Cardinality(WokenSet(pc) \ {w}) = Cardinality(WokenSet(pc)) - 1
      BY <1>4, <2>1, FS_RemoveElement
    <3> QED
      BY <1>4, <3>2, <3>3, SMTT(30)
  <2>2. CASE w \notin WokenSet(pc)
    <3>1. WokenSet(pc) \ {w} = WokenSet(pc)
      BY <2>2
    <3> QED
      BY <1>4, <3>1, SMTT(30)
  <2> QED
    BY <2>1, <2>2
<1>6. promoted = 0 /\ promoted' = 0
  BY <1>1 DEF WakeInv
<1>7. ASSUME Asleep(pc) # {}
      PROVE  Len(readyList') <= Cardinality(WokenSet(pc)') + promoted'
  <2>1. Len(readyList) <= Cardinality(WokenSet(pc)) + promoted
    BY <1>7 DEF WakeInv
  <2>2. Len(readyList') <= Cardinality(WokenSet(pc) \ {w})
    BY <1>2, <1>4, <1>5, <1>6, <2>1, SMTT(30)
  <2> QED
    BY <1>3, <1>5, <1>6, <2>2, SMTT(30)
<1> QED
  BY <1>3, <1>6, <1>7 DEF WakeInv

\* A completion outside a block.
LEMMA WakeComplete ==
  ASSUME TypeOK, WakeInv, NEW h \in Hashes, NEW P, NEW p \in [Workers -> P],
         Asleep(p) = Asleep(pc), WokenSet(p) = WokenSet(pc), Complete(h, p)
  PROVE  WakeInv'
<1>1. NumPromoted(h) \in Nat /\ Len(readyList') = Len(readyList) + NumPromoted(h)
  BY CompleteLength DEF Complete
<1>2. promoted = 0 /\ promoted' = 0 /\ pc' \in Woken(p, NumPromoted(h))
  BY DEF Complete, WakeInv, lockVars
<1>3. Len(readyList) \in Nat
  BY SMTT(30) DEF TypeOK
<1>4. /\ Len(readyList') \in Nat
      /\ Len(readyList') <= Len(readyList) + NumPromoted(h) - promoted
  BY <1>1, <1>2, <1>3, SMTT(30)
<1> QED
  BY <1>1, <1>2, <1>4, WakeStep

\* Every step keeps the covering.
LEMMA WakeNext == TypeOK /\ WakeInv /\ [Next]_vars => WakeInv'
<1> SUFFICES ASSUME TypeOK, WakeInv, [Next]_vars PROVE WakeInv'
  OBVIOUS
<1> DEFINE P == {"dequeue", "asleep", "woken", "busy", "gone"}
<1>0. /\ pc \in [Workers -> P] /\ promoted \in Nat
      /\ readyList \in Seq(Entries) /\ Len(readyList) \in Nat
  BY SMTT(30) DEF TypeOK
<1>1. ASSUME NEW h \in Hashes, Enqueue(h) PROVE WakeInv'
  <2>1. CASE UNCHANGED <<readyList, pc>>
    <3>1. UNCHANGED <<readyList, pc, lockVars>>
      BY <1>1, <2>1 DEF Enqueue
    <3> QED
      BY <3>1, WakeUnchanged DEF Asleep, WokenSet
  <2>2. CASE readyList' = Append(readyList, alloc + 1) /\ pc' \in Woken(pc, 1)
    <3>1. promoted = 0 /\ promoted' = 0
      BY <1>1 DEF Enqueue, lockVars, WakeInv
    <3>2. alloc + 1 \in Entries
      BY <1>1, QueueAssumption, SMTT(30) DEF Enqueue, Entries, TypeOK, QueueAssumption
    <3>3. Len(readyList') = Len(readyList) + 1
      BY <1>0, <2>2, <3>2, AppendProperties
    <3>4. Len(readyList') \in Nat /\ Len(readyList') <= Len(readyList) + 1 - promoted
      BY <1>0, <3>1, <3>3, SMTT(30)
    <3> QED
      BY <1>0, <2>2, <3>1, <3>4, WakeStep
  <2> QED
    BY <1>1, <2>1, <2>2 DEF Enqueue
<1>2. ASSUME NEW h \in Hashes, SubmitFails(h) PROVE WakeInv'
  BY <1>0, <1>2, WakeComplete DEF SubmitFails
<1>3. ASSUME NEW w \in Workers, WorkerNext(w) PROVE WakeInv'
  <2>1. CASE DequeueTx(w)
    BY <2>1, WakeDequeue
  <2>2. CASE DequeueWaits(w) \/ DequeueClosed(w)
    BY <2>2, WakeEmpty DEF DequeueWaits, DequeueClosed, InDequeue, queueVars, listVars
  <2>3. CASE WorkerSubmits(w)
    <3>1. pc[w] = "busy" /\ pc' = [pc EXCEPT ![w] = "dequeue"]
      BY <2>3 DEF WorkerSubmits
    <3>2. Asleep(pc)' = Asleep(pc) /\ WokenSet(pc)' = WokenSet(pc)
      BY <1>0, <3>1 DEF Asleep, WokenSet
    <3>3. UNCHANGED <<readyList, lockVars>>
      BY <2>3 DEF WorkerSubmits, queueVars, listVars
    <3> QED
      BY <3>2, <3>3, WakeUnchanged
  <2>4. CASE WorkerFails(w)
    <3> DEFINE p == [pc EXCEPT ![w] = "dequeue"]
    <3>1. pc[w] = "busy" /\ job[w] \in Hashes /\ Complete(job[w], p)
      BY <2>4 DEF WorkerFails, TypeOK
    <3>2. p \in [Workers -> P]
      BY <1>0
    <3>3. Asleep(p) = Asleep(pc) /\ WokenSet(p) = WokenSet(pc)
      BY <1>0, <3>1 DEF Asleep, WokenSet
    <3> QED
      BY <3>1, <3>2, <3>3, WakeComplete
  <2> QED
    BY <1>3, <2>1, <2>2, <2>3, <2>4 DEF WorkerNext, Dequeue
<1>4. ASSUME NEW txs \in BlockContents, HandleBegin(txs) PROVE WakeInv'
  <2>1. promoted = 0 /\ promoted' = 0 /\ UNCHANGED <<readyList, pc>>
    BY <1>4 DEF HandleBegin, WakeInv, queueVars, listVars, workerVars
  <2> QED
    BY <2>1 DEF WakeInv, Asleep, WokenSet
<1>5. ASSUME HandleNext PROVE WakeInv'
  <2> DEFINE h == Head(todo)
             total == promoted + NumPromoted(h)
  <2>1. h \in Hashes /\ completeUnlocked(h)
    BY <1>5, HeadTailProperties DEF HandleNext, TypeOK
  <2>2. NumPromoted(h) \in Nat /\ Len(readyList') = Len(readyList) + NumPromoted(h)
    BY <2>1, CompleteLength
  <2>3. CASE promoted' = 0 /\ pc' \in Woken(pc, total)
    <3>1. /\ total \in Nat /\ Len(readyList') \in Nat
          /\ Len(readyList') <= Len(readyList) + total - promoted
      BY <1>0, <2>2, SMTT(30)
    <3> HIDE DEF total
    <3> QED
      BY <1>0, <2>3, <3>1, WakeStep
  <2>4. CASE todo' # <<>> /\ promoted' = total /\ UNCHANGED pc
    <3>1. Asleep(pc)' = Asleep(pc) /\ WokenSet(pc)' = WokenSet(pc)
      BY <2>4 DEF Asleep, WokenSet
    <3>2. Cardinality(WokenSet(pc)) \in Nat
      BY WorkerSets DEF WokenSet
    <3>3. ASSUME Asleep(pc) # {}
          PROVE  Len(readyList') <= Cardinality(WokenSet(pc)) + promoted'
      <4>1. Len(readyList) <= Cardinality(WokenSet(pc)) + promoted
        BY <3>3 DEF WakeInv
      <4> QED
        BY <1>0, <2>2, <2>4, <3>2, <4>1, SMTT(30)
    <3> QED
      BY <2>4, <3>1, <3>3 DEF WakeInv, Unlocked
  <2> QED
    BY <1>5, <2>3, <2>4 DEF HandleNext
<1>6. ASSUME Close PROVE WakeInv'
  <2>1. promoted = 0 /\ promoted' = 0 /\ readyList' = readyList /\ pc' \in Woken(pc, 2)
    BY <1>6 DEF Close, WakeInv, lockVars, listVars
  <2>2. Len(readyList') \in Nat /\ Len(readyList') <= Len(readyList) + 2 - promoted
    BY <1>0, <2>1, SMTT(30)
  <2> QED
    BY <1>0, <2>1, <2>2, WakeStep
<1>7. ASSUME UNCHANGED vars PROVE WakeInv'
  BY <1>7, WakeUnchanged DEF vars, queueVars, listVars, workerVars, Asleep, WokenSet
<1> QED
  BY <1>1, <1>2, <1>3, <1>4, <1>5, <1>6, <1>7 DEF Next

\* While a worker sleeps in cond.Wait, every ready transaction has a worker that
\* was woken and has not run yet, for any number of workers, transactions and
\* blocks: Signal for one promotion and Broadcast for several are enough.
THEOREM WakeupsKept == Spec => []NoLostWakeup
<1>1. Init => WakeInv
  BY DEF Init, WakeInv, Asleep
<1>2. WakeInv => NoLostWakeup
  <2> SUFFICES ASSUME WakeInv, Unlocked, Asleep(pc) # {}
               PROVE  Len(readyList) <= Cardinality(WokenSet(pc))
    BY DEF NoLostWakeup, Asleep, WokenSet
  <2>1. Cardinality(WokenSet(pc)) \in Nat
    BY WorkerSets DEF WokenSet
  <2> QED
    BY <2>1, SMTT(30) DEF WakeInv
<1> QED
  BY <1>1, <1>2, WakeNext, TypeCorrect, PTL DEF Spec

==============================================================================
