--------------------------- MODULE HeadSubsProofs ---------------------------
(***************************************************************************)
(* Proofs about HeadSubs, for any connections, caps, buffer and number of  *)
(* subscriptions: no channel is closed twice or sent to after it was       *)
(* closed, the counts of the connections are exact, a subscriber that      *)
(* keeps up misses no block, and a slow one gets what it gets in order.    *)
(***************************************************************************)
EXTENDS HeadSubs, FiniteSetTheorems, TLAPS

\* Zenon proves most steps; the others name Z3 and its time.
USE ZenonT(30)

\* The subscriptions of a connection.
Of(subs, c) == {i \in DOMAIN subs : subs[i] = c}

\* The counts that belong to the subscriptions.
CountsOf(subs) ==
  [c \in {subs[i] : i \in DOMAIN subs} \ {NoConn} |-> Cardinality(Of(subs, c))]

Types ==
  /\ handled \in Nat /\ fanned \in Nat /\ closed \in BOOLEAN
  /\ \/ hpc = "idle" /\ handled = fanned
     \/ hpc = "load" /\ handled = fanned + 1
  /\ nextHeadID \in 0..MaxSubs
  /\ DOMAIN headSubs \subseteq Ids
  /\ buf \in [Ids -> Seq(Nat)] /\ closes \in [Ids -> Nat]
  /\ server \in [Ids -> {"none", "serving", "leaving", "closing", "gone"}]
  /\ last \in [Ids -> Nat] /\ lagged \in [Ids -> BOOLEAN]

\* What is not subscribed yet has nothing.
Fresh ==
  \A i \in Ids : i > nextHeadID =>
    /\ server[i] = "none" /\ closes[i] = 0 /\ buf[i] = <<>> /\ ~lagged[i]
    /\ i \notin DOMAIN headSubs

\* A channel is open while its subscription is there, and from the moment
\* unsubscribeHeads takes the subscription to the moment it closes the channel.
Owned ==
  \A i \in Ids :
    /\ closes[i] <= 1
    /\ i \in DOMAIN headSubs => closes[i] = 0 /\ server[i] \in {"serving", "leaving"}
    /\ server[i] = "closing" => closes[i] = 0 /\ i \notin DOMAIN headSubs

\* A channel holds blocks later than the last one received, in order.
Ascending ==
  \A i \in Ids :
    /\ last[i] <= fanned
    /\ \A k \in 1..Len(buf[i]) : buf[i][k] > last[i] /\ buf[i][k] <= fanned
    /\ \A j, k \in 1..Len(buf[i]) : j < k => buf[i][j] < buf[i][k]

Closed == closed => DOMAIN headSubs = {}

IInv == Types /\ Fresh /\ Owned /\ Ascending /\ Closed /\ CountsMatch /\ NoneMissed

-----------------------------------------------------------------------------
(* The counts *)

\* CountsMatch in terms of CountsOf.
LEMMA CountsAre == CountsMatch <=> connSubs = CountsOf(headSubs)
BY DEF CountsMatch, CountsOf, Of

\* Subscriptions are finitely many.
LEMMA Finite ==
  ASSUME NEW subs, DOMAIN subs \subseteq Ids, NEW c
  PROVE  IsFiniteSet(Of(subs, c)) /\ Cardinality(Of(subs, c)) \in Nat
         /\ (Of(subs, c) = {} <=> Cardinality(Of(subs, c)) = 0)
<1>1. IsFiniteSet(Ids)
  BY FS_Interval, HeadsAssumption, SMTT(30) DEF Ids, HeadsAssumption
<1>2. Of(subs, c) \subseteq Ids
  BY DEF Of
<1>3. IsFiniteSet(Of(subs, c))
  BY <1>1, <1>2, FS_Subset
<1> QED
  BY <1>3, FS_CardinalityType, FS_EmptySet

\* The count of a connection is the number of its subscriptions.
LEMMA CountIs ==
  ASSUME CountsMatch, DOMAIN headSubs \subseteq Ids, NEW c, c # NoConn
  PROVE  /\ Count(c) = Cardinality(Of(headSubs, c))
         /\ c \in DOMAIN connSubs <=> Of(headSubs, c) # {}
<1>1. connSubs = CountsOf(headSubs)
  BY CountsAre
<1>2. c \in DOMAIN connSubs <=> Of(headSubs, c) # {}
  BY <1>1 DEF CountsOf, Of
<1>3. c \in DOMAIN connSubs => connSubs[c] = Cardinality(Of(headSubs, c))
  BY <1>1 DEF CountsOf
<1> QED
  BY <1>2, <1>3, Finite DEF Count

\* Another subscription of connection c.
LEMMA CountsAdd ==
  ASSUME CountsMatch, DOMAIN headSubs \subseteq Ids, NEW c,
         NEW i \in Ids, i \notin DOMAIN headSubs
  PROVE  Counted(c) = CountsOf(With(headSubs, i, c))
<1> DEFINE subs == With(headSubs, i, c)
<1>1. /\ DOMAIN subs = DOMAIN headSubs \cup {i} /\ subs[i] = c
      /\ \A j \in DOMAIN headSubs : subs[j] = headSubs[j]
  BY DEF With
<1>2. \A d : d # c => Of(subs, d) = Of(headSubs, d)
  BY <1>1 DEF Of
<1>3. Of(subs, c) = Of(headSubs, c) \cup {i} /\ i \notin Of(headSubs, c)
  BY <1>1 DEF Of
<1>4. Cardinality(Of(subs, c)) = Cardinality(Of(headSubs, c)) + 1
  BY <1>3, Finite, FS_AddElement
<1>5. {subs[j] : j \in DOMAIN subs} = {headSubs[j] : j \in DOMAIN headSubs} \cup {c}
  BY <1>1
<1>6. connSubs = CountsOf(headSubs)
  BY CountsAre
<1> HIDE DEF subs
<1>7. CASE c = NoConn
  <2>1. CountsOf(subs) = CountsOf(headSubs)
    BY <1>2, <1>5, <1>7 DEF CountsOf
  <2> QED
    BY <1>6, <1>7, <2>1 DEF Counted, subs
<1>8. CASE c # NoConn
  <2>1. Count(c) + 1 = Cardinality(Of(subs, c))
    BY <1>4, <1>8, CountIs
  <2>2. DOMAIN Counted(c) = DOMAIN CountsOf(subs)
    BY <1>5, <1>6, <1>8 DEF Counted, With, CountsOf
  <2>3. \A d \in DOMAIN CountsOf(subs) : Counted(c)[d] = CountsOf(subs)[d]
    BY <1>2, <1>5, <1>6, <1>8, <2>1 DEF Counted, With, CountsOf
  <2>4. Counted(c) = [d \in DOMAIN CountsOf(subs) |-> Counted(c)[d]]
    BY <1>8, <2>2 DEF Counted, With
  <2>5. CountsOf(subs) = [d \in DOMAIN CountsOf(subs) |-> CountsOf(subs)[d]]
    BY DEF CountsOf
  <2> QED
    BY <2>3, <2>4, <2>5 DEF subs
<1> QED
  BY <1>7, <1>8

\* A subscription less.
LEMMA CountsRemove ==
  ASSUME CountsMatch, DOMAIN headSubs \subseteq Ids, NEW i \in DOMAIN headSubs
  PROVE  Uncounted(headSubs[i]) = CountsOf(Remaining(i))
<1> DEFINE subs == Remaining(i)
           c == headSubs[i]
<1>1. /\ DOMAIN subs = DOMAIN headSubs \ {i}
      /\ \A j \in DOMAIN subs : subs[j] = headSubs[j]
  BY DEF Remaining, Restrict
<1>2. \A d : d # c => Of(subs, d) = Of(headSubs, d)
  BY <1>1 DEF Of
<1>3. Of(subs, c) = Of(headSubs, c) \ {i} /\ i \in Of(headSubs, c)
  BY <1>1 DEF Of
<1>4. Cardinality(Of(subs, c)) = Cardinality(Of(headSubs, c)) - 1
  <2>1. IsFiniteSet(Of(headSubs, c))
    BY Finite
  <2>2. \A S, x : IsFiniteSet(S) /\ x \in S => Cardinality(S \ {x}) = Cardinality(S) - 1
    BY FS_RemoveElement
  <2>3. Cardinality(Of(headSubs, c) \ {i}) = Cardinality(Of(headSubs, c)) - 1
    BY <1>3, <2>1, <2>2
  <2> QED
    BY <1>3, <2>3
<1>5. connSubs = CountsOf(headSubs)
  BY CountsAre
<1>6. \A d : d \in {subs[j] : j \in DOMAIN subs} <=> Of(subs, d) # {}
  BY DEF Of
<1>7. \A d : d \in {headSubs[j] : j \in DOMAIN headSubs} <=> Of(headSubs, d) # {}
  BY DEF Of
<1>8. Cardinality(Of(headSubs, c)) \in Nat /\ (Of(subs, c) = {} <=> Cardinality(Of(subs, c)) = 0)
  BY <1>1, Finite
<1> HIDE DEF subs, c
<1>9. CASE c = NoConn
  <2>1. {subs[j] : j \in DOMAIN subs} \ {NoConn} = {headSubs[j] : j \in DOMAIN headSubs} \ {NoConn}
    BY <1>2, <1>6, <1>7, <1>9
  <2>2. CountsOf(subs) = CountsOf(headSubs)
    BY <1>2, <1>9, <2>1 DEF CountsOf
  <2> QED
    BY <1>5, <1>9, <2>2 DEF Uncounted, subs, c
<1>10. CASE c # NoConn /\ Count(c) <= 1
  <2>1. Cardinality(Of(headSubs, c)) = 1
    <3>1. Of(headSubs, c) # {}
      BY <1>3
    <3>2. Cardinality(Of(headSubs, c)) # 0
      BY <3>1, Finite
    <3> QED
      BY <1>8, <1>10, <3>2, CountIs, SMTT(30)
  <2>2. Of(subs, c) = {}
    BY <1>4, <1>8, <2>1, SMTT(30)
  <2>3. {subs[j] : j \in DOMAIN subs} \ {NoConn} = DOMAIN connSubs \ {c}
    BY <1>2, <1>5, <1>6, <1>7, <2>2 DEF CountsOf
  <2>4. Uncounted(c) = Restrict(connSubs, DOMAIN connSubs \ {c})
    BY <1>10 DEF Uncounted
  <2>5. Uncounted(c) = [d \in DOMAIN connSubs \ {c} |-> Cardinality(Of(headSubs, d))]
    BY <1>5, <2>4 DEF Restrict, CountsOf
  <2>6. CountsOf(subs) = [d \in DOMAIN connSubs \ {c} |-> Cardinality(Of(headSubs, d))]
    BY <1>2, <2>3 DEF CountsOf
  <2> QED
    BY <2>5, <2>6 DEF subs, c
<1>11. CASE c # NoConn /\ ~(Count(c) <= 1)
  <2>1. Count(c) = Cardinality(Of(headSubs, c)) /\ c \in DOMAIN connSubs
    BY <1>3, <1>11, CountIs
  <2>2. Of(subs, c) # {}
    BY <1>4, <1>8, <1>11, <2>1, SMTT(30)
  <2>3. {subs[j] : j \in DOMAIN subs} \ {NoConn} = DOMAIN connSubs
    BY <1>2, <1>3, <1>5, <1>6, <1>7, <2>2 DEF CountsOf
  <2>4. Uncounted(c) = [connSubs EXCEPT ![c] = @ - 1]
    BY <1>11 DEF Uncounted
  <2>5. connSubs[c] = Cardinality(Of(headSubs, c))
    BY <1>5, <2>1 DEF CountsOf
  <2>6. Uncounted(c) = [d \in DOMAIN connSubs |-> Cardinality(Of(subs, d))]
    BY <1>2, <1>4, <1>5, <2>1, <2>4, <2>5 DEF CountsOf
  <2>7. CountsOf(subs) = [d \in DOMAIN connSubs |-> Cardinality(Of(subs, d))]
    BY <2>3 DEF CountsOf
  <2> QED
    BY <2>6, <2>7 DEF subs, c
<1> QED
  BY <1>9, <1>10, <1>11

-----------------------------------------------------------------------------
(* Every step keeps the invariant *)

\* At first nobody is subscribed.
LEMMA InitInv == Init => IInv
<1> SUFFICES ASSUME Init PROVE IInv
  OBVIOUS
<1>1. DOMAIN headSubs = {}
  BY SMTT(30) DEF Init
<1>2. Types
  <2>1. handled \in Nat /\ fanned \in Nat /\ hpc = "idle" /\ handled = fanned
    BY DEF Init
  <2>6. closed \in BOOLEAN
    BY DEF Init
  <2>7. nextHeadID \in 0..MaxSubs
    BY HeadsAssumption, SMTT(30) DEF Init, HeadsAssumption
  <2>2. <<>> \in Seq(Nat)
    BY SMTT(30)
  <2>3. buf \in [Ids -> Seq(Nat)]
    BY <2>2 DEF Init
  <2>4. closes \in [Ids -> Nat] /\ last \in [Ids -> Nat] /\ lagged \in [Ids -> BOOLEAN]
    BY DEF Init
  <2>5. server \in [Ids -> {"none", "serving", "leaving", "closing", "gone"}]
    BY DEF Init
  <2> QED
    BY <1>1, <2>1, <2>3, <2>4, <2>5, <2>6, <2>7 DEF Types
<1>3. Owned /\ Closed /\ NoneMissed
  BY <1>1, SMTT(30) DEF Init, Owned, Closed, NoneMissed
<1>4. Fresh
  BY <1>1 DEF Init, Fresh
<1>5. Ascending
  BY SMTT(30) DEF Init, Ascending
<1>6. CountsMatch
  <2>1. {headSubs[i] : i \in DOMAIN headSubs} \ {NoConn} = {}
    BY <1>1
  <2>2. connSubs = <<>>
    BY DEF Init
  <2>3. [c \in {} |-> Cardinality({i \in DOMAIN headSubs : headSubs[i] = c})] = <<>>
    BY SMTT(30)
  <2> QED
    BY <2>1, <2>2, <2>3 DEF CountsMatch
<1> QED
  BY <1>2, <1>3, <1>4, <1>5, <1>6 DEF IInv

\* What depends on the subscriptions and on their counts alone.
LEMMA SubsSame ==
  ASSUME IInv, UNCHANGED <<headSubs, connSubs, closed>>
  PROVE  CountsMatch' /\ Closed'
BY DEF IInv, CountsMatch, Closed

\* A new subscriber begins with the block after the last one sent, and is counted.
LEMMA SubscribeKeeps ==
  ASSUME IInv, NEW c \in ConnKeys, SubscribeHeadsForConn(c)
  PROVE  IInv'
<1> DEFINE n == nextHeadID + 1
<1>1. /\ nextHeadID \in Nat /\ n \in Ids /\ n > nextHeadID /\ nextHeadID' = n /\ n \in 0..MaxSubs
      /\ server' = [server EXCEPT ![n] = "serving"] /\ last' = [last EXCEPT ![n] = fanned]
      /\ UNCHANGED <<handled, fanned, hpc, closed, buf, lagged>>
  BY HeadsAssumption, SMTT(30) DEF IInv, Types, SubscribeHeadsForConn, Ids, HeadsAssumption
<1>2. /\ n \notin DOMAIN headSubs /\ buf[n] = <<>> /\ closes[n] = 0 /\ ~lagged[n]
  BY <1>1 DEF IInv, Fresh
<1> HIDE DEF n
<1>3. CASE closed
  <2>1. closes' = [closes EXCEPT ![n] = 1] /\ UNCHANGED <<headSubs, connSubs>>
    BY <1>1, <1>3 DEF SubscribeHeadsForConn
  <2>2. Types'
    BY <1>1, <2>1 DEF IInv, Types
  <2>3. Fresh'
    BY <1>1, <2>1, SMTT(30) DEF IInv, Fresh, Types, Ids
  <2>4. Owned'
    BY <1>1, <1>2, <2>1, SMTT(30) DEF IInv, Owned, Types
  <2>5. Ascending'
    BY <1>1, <1>2, SMTT(30) DEF IInv, Ascending, Types
  <2>6. NoneMissed'
    BY <1>1, <1>3, <2>1 DEF IInv, NoneMissed, Closed
  <2> QED
    BY <1>1, <2>1, <2>2, <2>3, <2>4, <2>5, <2>6, SubsSame DEF IInv
<1>4. CASE ~closed
  <2>1. headSubs' = With(headSubs, n, c) /\ connSubs' = Counted(c) /\ closes' = closes
    BY <1>1, <1>4 DEF SubscribeHeadsForConn
  <2>2. DOMAIN headSubs' = DOMAIN headSubs \cup {n}
    BY <2>1 DEF With
  <2>3. Types'
    BY <1>1, <2>1, <2>2 DEF IInv, Types
  <2>4. Fresh'
    BY <1>1, <2>1, <2>2, SMTT(30) DEF IInv, Fresh, Types, Ids
  <2>5. Owned'
    BY <1>1, <1>2, <2>1, <2>2 DEF IInv, Owned, Types
  <2>6. Ascending'
    BY <1>1, <1>2, SMTT(30) DEF IInv, Ascending, Types
  <2>7. NoneMissed'
    <3> SUFFICES ASSUME NEW i \in DOMAIN headSubs', ~lagged'[i]
                 PROVE  /\ last'[i] + Len(buf'[i]) = fanned'
                        /\ \A k \in DOMAIN buf'[i] : buf'[i][k] = last'[i] + k
      BY DEF NoneMissed
    <3>1. CASE i = n
      BY <1>1, <1>2, <3>1, SMTT(30) DEF IInv, Types
    <3>2. CASE i # n
      <4>1. i \in DOMAIN headSubs /\ last'[i] = last[i]
        BY <1>1, <2>2, <3>2 DEF IInv, Types
      <4> QED
        BY <1>1, <4>1 DEF IInv, NoneMissed
    <3> QED
      BY <3>1, <3>2
  <2>8. CountsMatch'
    <3>1. Counted(c) = CountsOf(With(headSubs, n, c))
      BY <1>1, <1>2, CountsAdd DEF IInv, Types
    <3>2. connSubs' = CountsOf(headSubs')
      BY <2>1, <3>1
    <3>3. CountsOf(headSubs') = CountsOf(headSubs)'
      BY DEF CountsOf, Of
    <3> QED
      BY <3>2 DEF CountsMatch, CountsOf, Of
  <2>9. Closed'
    BY <1>1, <1>4 DEF Closed
  <2> QED
    BY <2>3, <2>4, <2>5, <2>6, <2>7, <2>8, <2>9 DEF IInv
<1> QED
  BY <1>3, <1>4

\* A subscriber takes the oldest block from its channel.
LEMMA ReceiveKeeps ==
  ASSUME IInv, NEW i \in Ids, Receive(i)
  PROVE  IInv'
<1>1. /\ buf' = [buf EXCEPT ![i] = Tail(buf[i])] /\ last' = [last EXCEPT ![i] = Head(buf[i])]
      /\ server[i] = "serving" /\ buf[i] # <<>>
      /\ UNCHANGED <<handled, fanned, hpc, headSubs, connSubs, nextHeadID, closed, closes, server, lagged>>
  BY DEF Receive
<1>2. buf[i] \in Seq(Nat) /\ Len(buf[i]) \in Nat /\ Len(buf[i]) > 0 /\ Head(buf[i]) = buf[i][1]
  BY <1>1, SMTT(30) DEF IInv, Types
<1>3. /\ Tail(buf[i]) \in Seq(Nat) /\ Len(Tail(buf[i])) = Len(buf[i]) - 1
      /\ \A k \in 1..Len(Tail(buf[i])) : Tail(buf[i])[k] = buf[i][k + 1] /\ k + 1 \in 1..Len(buf[i])
      /\ Head(buf[i]) \in Nat /\ 1 \in 1..Len(buf[i])
  BY <1>2, SMTT(30)
<1>4. /\ buf'[i] = Tail(buf[i]) /\ last'[i] = buf[i][1]
      /\ \A j \in Ids : j # i => buf'[j] = buf[j] /\ last'[j] = last[j]
  BY <1>1, <1>2 DEF IInv, Types
<1>5. Types'
  BY <1>1, <1>3 DEF IInv, Types
<1>6. Fresh' /\ Owned'
  BY <1>1, <1>4 DEF IInv, Fresh, Owned
<1>7. Ascending'
  <2> SUFFICES ASSUME NEW j \in Ids
               PROVE  /\ last'[j] <= fanned
                      /\ \A k \in 1..Len(buf'[j]) : buf'[j][k] > last'[j] /\ buf'[j][k] <= fanned
                      /\ \A k, m \in 1..Len(buf'[j]) : k < m => buf'[j][k] < buf'[j][m]
    BY <1>1 DEF Ascending
  <2>1. CASE j # i
    BY <1>4, <2>1 DEF IInv, Ascending
  <2>2. CASE j = i
    <3>1. \A k \in 1..Len(buf[i]) : buf[i][k] > last[i] /\ buf[i][k] <= fanned
      BY DEF IInv, Ascending
    <3>2. \A k, m \in 1..Len(buf[i]) : k < m => buf[i][k] < buf[i][m]
      BY DEF IInv, Ascending
    <3>3. \A k \in 1..Len(buf'[i]) : buf'[i][k] > last'[i] /\ buf'[i][k] <= fanned
      <4> SUFFICES ASSUME NEW k \in 1..Len(buf'[i])
                   PROVE  buf'[i][k] > last'[i] /\ buf'[i][k] <= fanned
        OBVIOUS
      <4>1. buf'[i][k] = buf[i][k + 1] /\ k + 1 \in 1..Len(buf[i]) /\ 1 < k + 1
        BY <1>3, <1>4, SMTT(30)
      <4>2. buf[i][1] < buf[i][k + 1] /\ buf[i][k + 1] <= fanned /\ buf[i][1] \in Nat /\ buf[i][k + 1] \in Nat
        BY <1>2, <1>3, <3>1, <3>2, <4>1, SMTT(30)
      <4> QED
        BY <1>4, <4>1, <4>2
    <3>4. \A k, m \in 1..Len(buf'[i]) : k < m => buf'[i][k] < buf'[i][m]
      <4> SUFFICES ASSUME NEW k \in 1..Len(buf'[i]), NEW m \in 1..Len(buf'[i]), k < m
                   PROVE  buf'[i][k] < buf'[i][m]
        OBVIOUS
      <4>1. buf'[i][k] = buf[i][k + 1] /\ k + 1 \in 1..Len(buf[i])
        BY <1>3, <1>4
      <4>2. buf'[i][m] = buf[i][m + 1] /\ m + 1 \in 1..Len(buf[i])
        BY <1>3, <1>4
      <4>3. k + 1 < m + 1
        BY <1>2, <1>3, <1>4, SMTT(30)
      <4> QED
        BY <3>2, <4>1, <4>2, <4>3
    <3> QED
      BY <1>2, <1>3, <1>4, <2>2, <3>1, <3>3, <3>4
  <2> QED
    BY <2>1, <2>2
<1>8. NoneMissed'
  <2> SUFFICES ASSUME NEW j \in DOMAIN headSubs, ~lagged[j]
               PROVE  /\ last'[j] + Len(buf'[j]) = fanned
                      /\ \A k \in DOMAIN buf'[j] : buf'[j][k] = last'[j] + k
    BY <1>1 DEF NoneMissed
  <2>1. last[j] + Len(buf[j]) = fanned /\ \A k \in DOMAIN buf[j] : buf[j][k] = last[j] + k
    BY DEF IInv, NoneMissed
  <2>2. j \in Ids
    BY DEF IInv, Types
  <2>3. CASE j # i
    BY <1>4, <2>1, <2>2, <2>3
  <2>4. CASE j = i
    <3>1. last[i] \in Nat /\ fanned \in Nat
      BY DEF IInv, Types
    <3>2. DOMAIN buf[i] = 1..Len(buf[i]) /\ DOMAIN buf'[i] = 1..Len(buf'[i])
      BY <1>2, <1>3, <1>4, SMTT(30)
    <3>3. last'[i] = last[i] + 1
      <4>1. buf[i][1] = last[i] + 1
        BY <1>3, <2>1, <2>4, <3>2
      <4> QED
        BY <1>4, <4>1
    <3>4. last'[i] + Len(buf'[i]) = fanned
      BY <1>2, <1>3, <1>4, <2>1, <2>4, <3>1, <3>3, SMTT(30)
    <3>5. \A k \in DOMAIN buf'[i] : buf'[i][k] = last'[i] + k
      <4> SUFFICES ASSUME NEW k \in 1..Len(buf'[i]) PROVE buf'[i][k] = last'[i] + k
        BY <3>2
      <4>1. buf'[i][k] = buf[i][k + 1] /\ k + 1 \in 1..Len(buf[i])
        BY <1>3, <1>4
      <4>2. buf[i][k + 1] = last[i] + (k + 1)
        BY <2>1, <2>4, <3>2, <4>1
      <4> QED
        BY <3>1, <3>3, <4>1, <4>2, SMTT(30)
    <3> QED
      BY <2>4, <3>4, <3>5
  <2> QED
    BY <2>3, <2>4
<1> QED
  BY <1>1, <1>5, <1>6, <1>7, <1>8, SubsSame DEF IInv

\* The client of a subscriber goes away, or its channel ends.
LEMMA LeaveKeeps ==
  ASSUME IInv, NEW i \in Ids, Leave(i)
  PROVE  IInv'
<1>1. /\ server' = [server EXCEPT ![i] = "leaving"] /\ server[i] = "serving"
      /\ UNCHANGED <<handled, fanned, hpc, headSubs, connSubs, nextHeadID, closed, buf, closes, last, lagged>>
  BY DEF Leave, chans
<1>2. Types' /\ Fresh' /\ Owned'
  BY <1>1 DEF IInv, Types, Fresh, Owned
<1>3. Ascending' /\ NoneMissed'
  BY <1>1 DEF IInv, Ascending, NoneMissed
<1> QED
  BY <1>1, <1>2, <1>3, SubsSame DEF IInv

\* unsubscribeHeads takes the subscription, if it is still there.
LEMMA UnsubscribeKeeps ==
  ASSUME IInv, NEW i \in Ids, Unsubscribe(i)
  PROVE  IInv'
<1>1. /\ server' = [server EXCEPT ![i] = AfterRemoval(i)] /\ server[i] = "leaving"
      /\ headSubs' = Remaining(i)
      /\ UNCHANGED <<handled, fanned, hpc, nextHeadID, closed, buf, closes, last, lagged>>
  BY DEF Unsubscribe, chans
<1>2. /\ DOMAIN headSubs' = DOMAIN headSubs \ {i}
      /\ \A j \in DOMAIN headSubs' : headSubs'[j] = headSubs[j]
  BY <1>1 DEF Remaining, Restrict
<1>3. AfterRemoval(i) \in {"closing", "gone"} /\ (AfterRemoval(i) = "closing" => i \in DOMAIN headSubs)
  BY DEF AfterRemoval
<1>4. Types'
  BY <1>1, <1>2, <1>3 DEF IInv, Types
<1>5. Fresh'
  BY <1>1, <1>2 DEF IInv, Fresh, Types
<1>6. Owned'
  BY <1>1, <1>2, <1>3 DEF IInv, Owned, Types
<1>7. Ascending' /\ NoneMissed' /\ Closed'
  BY <1>1, <1>2 DEF IInv, Ascending, NoneMissed, Closed
<1>8. CountsMatch'
  <2>1. connSubs' = CountsOf(headSubs')
    <3>1. CASE i \in DOMAIN headSubs
      <4>1. connSubs' = Uncounted(headSubs[i])
        BY <3>1 DEF Unsubscribe
      <4> QED
        BY <1>1, <3>1, <4>1, CountsRemove DEF IInv, Types
    <3>2. CASE i \notin DOMAIN headSubs
      <4>1. connSubs' = connSubs
        BY <3>2 DEF Unsubscribe
      <4>2. connSubs = CountsOf(headSubs)
        BY CountsAre DEF IInv
      <4>3. CountsOf(headSubs') = CountsOf(headSubs)
        <5>1. \A c : Of(headSubs', c) = Of(headSubs, c)
          BY <1>2, <3>2 DEF Of
        <5>2. {headSubs'[j] : j \in DOMAIN headSubs'} = {headSubs[j] : j \in DOMAIN headSubs}
          BY <1>2, <3>2
        <5> QED
          BY <5>1, <5>2 DEF CountsOf
      <4> QED
        BY <4>1, <4>2, <4>3
    <3> QED
      BY <3>1, <3>2
  <2> QED
    BY <2>1 DEF CountsMatch, CountsOf, Of
<1> QED
  BY <1>4, <1>5, <1>6, <1>7, <1>8 DEF IInv

\* ... and closes the channel of what it took.
LEMMA CloseChanKeeps ==
  ASSUME IInv, NEW i \in Ids, CloseChan(i)
  PROVE  IInv'
<1>1. /\ server' = [server EXCEPT ![i] = "gone"] /\ server[i] = "closing"
      /\ closes' = [closes EXCEPT ![i] = closes[i] + 1]
      /\ UNCHANGED <<handled, fanned, hpc, headSubs, connSubs, nextHeadID, closed, buf, last, lagged>>
  BY DEF CloseChan
<1>2. closes[i] = 0 /\ i \notin DOMAIN headSubs /\ ~(i > nextHeadID)
  BY <1>1 DEF IInv, Owned, Fresh
<1>3. Types'
  BY <1>1, SMTT(30) DEF IInv, Types
<1>4. Fresh' /\ Owned'
  BY <1>1, <1>2, SMTT(30) DEF IInv, Types, Fresh, Owned
<1>5. Ascending' /\ NoneMissed'
  BY <1>1 DEF IInv, Ascending, NoneMissed
<1> QED
  BY <1>1, <1>3, <1>4, <1>5, SubsSame DEF IInv

\* A block that nobody waits for goes by; another one is loaded.
LEMMA HandleKeeps ==
  ASSUME IInv, Handle
  PROVE  IInv'
<1>1. /\ hpc = "idle" /\ handled' = handled + 1
      /\ UNCHANGED <<headSubs, connSubs, nextHeadID, closed, buf, closes, server, last, lagged>>
  BY DEF Handle, chans
<1>2. handled \in Nat /\ fanned \in Nat /\ handled = fanned
  BY <1>1 DEF IInv, Types
<1>3. Fresh' /\ Owned'
  BY <1>1 DEF IInv, Fresh, Owned
<1>4. CASE headSubs = <<>>
  <2>1. fanned' = fanned + 1 /\ hpc' = "idle" /\ DOMAIN headSubs' = {}
    BY <1>1, <1>2, <1>4, SMTT(30) DEF Handle
  <2>2. Types'
    BY <1>1, <1>2, <2>1, SMTT(30) DEF IInv, Types
  <2>3. Ascending'
    <3> SUFFICES ASSUME NEW i \in Ids
                 PROVE  /\ last[i] <= fanned + 1
                        /\ \A k \in 1..Len(buf[i]) : buf[i][k] > last[i] /\ buf[i][k] <= fanned + 1
                        /\ \A j, k \in 1..Len(buf[i]) : j < k => buf[i][j] < buf[i][k]
      BY <1>1, <2>1 DEF Ascending
    <3>1. last[i] \in Nat /\ buf[i] \in Seq(Nat)
      BY DEF IInv, Types
    <3>2. \A k \in 1..Len(buf[i]) : buf[i][k] \in Nat
      BY <3>1, SMTT(30)
    <3> QED
      BY <1>2, <3>1, <3>2, SMTT(30) DEF IInv, Ascending
  <2>4. NoneMissed'
    BY <2>1 DEF NoneMissed
  <2> QED
    BY <1>1, <1>3, <2>2, <2>3, <2>4, SubsSame DEF IInv
<1>5. CASE headSubs # <<>>
  <2>1. fanned' = fanned /\ hpc' = "load"
    BY <1>5 DEF Handle
  <2>2. Types'
    BY <1>1, <1>2, <2>1, SMTT(30) DEF IInv, Types
  <2>3. Ascending' /\ NoneMissed'
    BY <1>1, <2>1 DEF IInv, Ascending, NoneMissed
  <2> QED
    BY <1>1, <1>3, <2>2, <2>3, SubsSame DEF IInv
<1> QED
  BY <1>4, <1>5

\* What one send without waiting does to a channel.
LEMMA SentIs ==
  ASSUME IInv, NEW i \in Ids, NEW b \in Nat
  PROVE  /\ Sent(i, b) \in Seq(Nat)
         /\ Len(buf[i]) >= HeadsBuffer => Sent(i, b) = buf[i]
         /\ ~(Len(buf[i]) >= HeadsBuffer) =>
              /\ Len(Sent(i, b)) = Len(buf[i]) + 1
              /\ Sent(i, b)[Len(buf[i]) + 1] = b
              /\ \A k \in 1..Len(buf[i]) : Sent(i, b)[k] = buf[i][k]
<1>1. buf[i] \in Seq(Nat) /\ Len(buf[i]) \in Nat
  BY SMTT(30) DEF IInv, Types
<1> QED
  BY <1>1, HeadsAssumption, SMTT(30) DEF Sent, HeadsAssumption

\* A channel in order, with a later block at its end, is in order.
LEMMA LongerAscending ==
  ASSUME NEW s \in Seq(Nat), NEW t \in Seq(Nat), NEW l \in Nat, NEW f \in Nat, l <= f,
         Len(t) = Len(s) + 1, t[Len(s) + 1] = f + 1, \A k \in 1..Len(s) : t[k] = s[k],
         \A k \in 1..Len(s) : s[k] > l /\ s[k] <= f,
         \A j, k \in 1..Len(s) : j < k => s[j] < s[k]
  PROVE  /\ \A k \in 1..Len(t) : t[k] > l /\ t[k] <= f + 1
         /\ \A j, k \in 1..Len(t) : j < k => t[j] < t[k]
<1>1. Len(s) \in Nat /\ \A k \in 1..Len(s) : s[k] \in Nat
  BY SMTT(30)
<1>2. \A k \in 1..Len(t) : k \in 1..Len(s) \/ k = Len(s) + 1
  BY <1>1, SMTT(30)
<1>3. ASSUME NEW k \in 1..Len(t) PROVE t[k] > l /\ t[k] <= f + 1
  <2>1. CASE k \in 1..Len(s)
    BY <1>1, <2>1, SMTT(30)
  <2>2. CASE k = Len(s) + 1
    BY <2>2, SMTT(30)
  <2> QED
    BY <1>2, <2>1, <2>2
<1>4. ASSUME NEW j \in 1..Len(t), NEW k \in 1..Len(t), j < k PROVE t[j] < t[k]
  <2>1. j \in 1..Len(s) /\ t[j] = s[j] /\ s[j] \in Nat /\ s[j] <= f
    BY <1>1, <1>2, <1>4, SMTT(30)
  <2>2. CASE k \in 1..Len(s)
    BY <1>4, <2>1, <2>2
  <2>3. CASE k = Len(s) + 1
    <3>1. t[k] = f + 1
      BY <2>3
    <3> QED
      BY <2>1, <3>1, SMTT(30)
  <2> QED
    BY <1>2, <2>2, <2>3
<1> QED
  BY <1>3, <1>4

\* The block goes to everybody subscribed at this moment.
LEMMA FanOutKeeps ==
  ASSUME IInv, fanOutHeads
  PROVE  IInv'
<1>1. /\ hpc = "load" /\ hpc' = "idle" /\ fanned' = handled
      /\ UNCHANGED <<handled, headSubs, connSubs, nextHeadID, closed, closes, server, last>>
  BY DEF fanOutHeads
<1>2. handled \in Nat /\ fanned \in Nat /\ handled = fanned + 1 /\ fanned' = fanned + 1
  BY <1>1 DEF IInv, Types
<1>3. /\ buf' \in [Ids -> Seq(Nat)]
      /\ \A i \in Ids : buf'[i] = IF i \in DOMAIN headSubs THEN Sent(i, fanned + 1) ELSE buf[i]
  <2>1. buf' = [i \in Ids |-> IF i \in DOMAIN headSubs THEN Sent(i, fanned + 1) ELSE buf[i]]
    BY <1>2 DEF fanOutHeads, Receivers
  <2>2. \A i \in Ids : Sent(i, fanned + 1) \in Seq(Nat) /\ buf[i] \in Seq(Nat)
    BY <1>2, SentIs DEF IInv, Types
  <2> QED
    BY <2>1, <2>2
<1>4. /\ lagged' \in [Ids -> BOOLEAN]
      /\ \A i \in Ids : lagged'[i] <=> lagged[i] \/ (i \in DOMAIN headSubs /\ Len(buf[i]) >= HeadsBuffer)
  BY DEF fanOutHeads, IInv, Types
<1>5. ASSUME NEW i \in Ids
      PROVE  \/ buf'[i] = buf[i]
             \/ /\ Len(buf'[i]) = Len(buf[i]) + 1 /\ buf'[i][Len(buf[i]) + 1] = fanned + 1
                /\ \A k \in 1..Len(buf[i]) : buf'[i][k] = buf[i][k]
  <2>1. fanned + 1 \in Nat
    BY <1>2
  <2>2. CASE i \in DOMAIN headSubs /\ ~(Len(buf[i]) >= HeadsBuffer)
    <3>1. buf'[i] = Sent(i, fanned + 1)
      BY <1>3, <2>2
    <3>2. /\ Len(Sent(i, fanned + 1)) = Len(buf[i]) + 1
          /\ Sent(i, fanned + 1)[Len(buf[i]) + 1] = fanned + 1
          /\ \A k \in 1..Len(buf[i]) : Sent(i, fanned + 1)[k] = buf[i][k]
      BY <2>1, <2>2, SentIs
    <3> QED
      BY <3>1, <3>2
  <2>3. CASE ~(i \in DOMAIN headSubs /\ ~(Len(buf[i]) >= HeadsBuffer))
    BY <1>3, <2>1, <2>3, SentIs
  <2> QED
    BY <2>2, <2>3
<1>6. Types'
  BY <1>1, <1>2, <1>3, <1>4 DEF IInv, Types
<1>7. Fresh'
  BY <1>1, <1>3, <1>4 DEF IInv, Fresh
<1>8. Owned'
  BY <1>1 DEF IInv, Owned
<1>9. Ascending'
  <2> SUFFICES ASSUME NEW i \in Ids
               PROVE  /\ last[i] <= fanned + 1
                      /\ \A k \in 1..Len(buf'[i]) : buf'[i][k] > last[i] /\ buf'[i][k] <= fanned + 1
                      /\ \A j, k \in 1..Len(buf'[i]) : j < k => buf'[i][j] < buf'[i][k]
    BY <1>1, <1>2 DEF Ascending
  <2>1. last[i] \in Nat /\ buf[i] \in Seq(Nat) /\ buf'[i] \in Seq(Nat)
    BY <1>3 DEF IInv, Types
  <2>2. /\ last[i] <= fanned
        /\ \A k \in 1..Len(buf[i]) : buf[i][k] > last[i] /\ buf[i][k] <= fanned
        /\ \A j, k \in 1..Len(buf[i]) : j < k => buf[i][j] < buf[i][k]
    BY DEF IInv, Ascending
  <2>3. CASE buf'[i] = buf[i]
    <3>1. \A k \in 1..Len(buf[i]) : buf[i][k] \in Nat
      BY <2>1, SMTT(30)
    <3> QED
      BY <1>2, <2>1, <2>2, <2>3, <3>1, SMTT(30)
  <2>4. CASE buf'[i] # buf[i]
    <3>1. /\ Len(buf'[i]) = Len(buf[i]) + 1 /\ buf'[i][Len(buf[i]) + 1] = fanned + 1
          /\ \A k \in 1..Len(buf[i]) : buf'[i][k] = buf[i][k]
      BY <1>5, <2>4
    <3>2. last[i] <= fanned + 1
      BY <1>2, <2>1, <2>2, SMTT(30)
    <3> QED
      BY <1>2, <2>1, <2>2, <3>1, <3>2, LongerAscending
  <2> QED
    BY <2>3, <2>4
<1>10. NoneMissed'
  <2>1. ASSUME NEW i \in DOMAIN headSubs, ~lagged'[i]
        PROVE  /\ last[i] + Len(buf'[i]) = fanned + 1
               /\ \A k \in DOMAIN buf'[i] : buf'[i][k] = last[i] + k
    <3>1. i \in Ids
      BY DEF IInv, Types
    <3>2. last[i] \in Nat /\ buf[i] \in Seq(Nat) /\ buf'[i] \in Seq(Nat)
      BY <1>3, <3>1 DEF IInv, Types
    <3>3. ~lagged[i] /\ ~(Len(buf[i]) >= HeadsBuffer)
      BY <1>4, <2>1, <3>1
    <3>4. last[i] + Len(buf[i]) = fanned /\ \A k \in DOMAIN buf[i] : buf[i][k] = last[i] + k
      BY <3>3 DEF IInv, NoneMissed
    <3>5. buf'[i] = Sent(i, fanned + 1) /\ fanned + 1 \in Nat
      BY <1>2, <1>3, <3>1
    <3>6. buf'[i] # buf[i]
      <4>1. Len(Sent(i, fanned + 1)) = Len(buf[i]) + 1
        BY <3>1, <3>3, <3>5, SentIs
      <4> QED
        BY <3>2, <3>5, <4>1, SMTT(30)
    <3>7. /\ Len(buf'[i]) = Len(buf[i]) + 1 /\ buf'[i][Len(buf[i]) + 1] = fanned + 1
          /\ \A k \in 1..Len(buf[i]) : buf'[i][k] = buf[i][k]
      BY <1>5, <3>1, <3>6
    <3>8. fanned \in Nat
      BY <1>2
    <3> DEFINE s == buf[i]
               t == buf'[i]
               l == last[i]
    <3>9. /\ s \in Seq(Nat) /\ t \in Seq(Nat) /\ l \in Nat
          /\ Len(t) = Len(s) + 1 /\ t[Len(s) + 1] = fanned + 1 /\ \A k \in 1..Len(s) : t[k] = s[k]
          /\ l + Len(s) = fanned /\ \A k \in DOMAIN s : s[k] = l + k
      BY <3>2, <3>4, <3>7
    <3> HIDE DEF s, t, l
    <3>10. l + Len(t) = fanned + 1 /\ \A k \in DOMAIN t : t[k] = l + k
      <4>1. Len(s) \in Nat /\ DOMAIN s = 1..Len(s) /\ DOMAIN t = 1..(Len(s) + 1)
        BY <3>9, SMTT(30)
      <4>2. ASSUME NEW k \in 1..(Len(s) + 1) PROVE t[k] = l + k
        <5>1. CASE k \in 1..Len(s)
          <6>1. t[k] = s[k] /\ s[k] = l + k
            BY <3>9, <4>1, <5>1
          <6> QED
            BY <6>1
        <5>2. CASE k = Len(s) + 1
          <6>1. t[k] = fanned + 1
            BY <3>9, <5>2
          <6> QED
            BY <3>8, <3>9, <4>1, <5>2, <6>1, SMTT(30)
        <5> QED
          BY <4>1, <5>1, <5>2, SMTT(30)
      <4>3. l + Len(t) = fanned + 1
        BY <3>8, <3>9, <4>1, SMTT(30)
      <4> QED
        BY <4>1, <4>2, <4>3
    <3> QED
      BY <3>10 DEF s, t, l
  <2> QED
    BY <1>1, <1>2, <2>1 DEF NoneMissed
<1> QED
  BY <1>1, <1>6, <1>7, <1>8, <1>9, <1>10, SubsSame DEF IInv

\* Close closes the channels that are open and belong to a subscription.
LEMMA CloseKeeps ==
  ASSUME IInv, Close
  PROVE  IInv'
<1>1. /\ closed' = TRUE /\ closes' = [i \in Ids |-> ClosedNow(i)]
      /\ headSubs' = <<>> /\ connSubs' = <<>> /\ DOMAIN headSubs' = {}
      /\ UNCHANGED <<handled, fanned, hpc, nextHeadID, buf, server, last, lagged>>
  BY SMTT(30) DEF Close
<1>2. \A i \in Ids : /\ ClosedNow(i) \in Nat
                     /\ i \in DOMAIN headSubs => ClosedNow(i) = 1
                     /\ i \notin DOMAIN headSubs => ClosedNow(i) = closes[i]
  BY SMTT(30) DEF IInv, Types, Owned, ClosedNow
<1>3. Types'
  BY <1>1, <1>2 DEF IInv, Types
<1>4. Fresh'
  BY <1>1, <1>2 DEF IInv, Fresh
<1>5. Owned'
  BY <1>1, <1>2, SMTT(30) DEF IInv, Owned
<1>6. Ascending'
  BY <1>1 DEF IInv, Ascending
<1>7. Closed' /\ NoneMissed'
  BY <1>1 DEF Closed, NoneMissed
<1>8. CountsMatch'
  <2>1. {headSubs'[i] : i \in DOMAIN headSubs'} \ {NoConn} = {}
    BY <1>1
  <2>2. [c \in {} |-> Cardinality({i \in DOMAIN headSubs' : headSubs'[i] = c})] = <<>>
    BY SMTT(30)
  <2> QED
    BY <1>1, <2>1, <2>2 DEF CountsMatch
<1> QED
  BY <1>3, <1>4, <1>5, <1>6, <1>7, <1>8 DEF IInv

\* IInv is inductive.
LEMMA StepInv == IInv /\ [Next]_vars => IInv'
<1> SUFFICES ASSUME IInv, [Next]_vars PROVE IInv'
  OBVIOUS
<1>1. CASE UNCHANGED vars
  <2>1. UNCHANGED <<handled, fanned, hpc, headSubs, connSubs, nextHeadID, closed, buf, closes, server, last, lagged>>
    BY <1>1 DEF vars, chans
  <2> QED
    BY <2>1, SubsSame DEF IInv, Types, Fresh, Owned, Ascending, NoneMissed
<1>2. CASE Handle
  BY <1>2, HandleKeeps
<1>3. CASE fanOutHeads
  BY <1>3, FanOutKeeps
<1>4. CASE Close
  BY <1>4, CloseKeeps
<1>5. CASE \E c \in ConnKeys : SubscribeHeadsForConn(c)
  BY <1>5, SubscribeKeeps
<1>6. ASSUME NEW i \in Ids, Serve(i) \/ Leave(i) PROVE IInv'
  BY <1>6, ReceiveKeeps, LeaveKeeps, UnsubscribeKeeps, CloseChanKeeps DEF Serve, NoticeClose
<1> QED
  BY <1>1, <1>2, <1>3, <1>4, <1>5, <1>6 DEF Next

\* The invariant holds in every reachable state.
THEOREM HeadsInvariance == Spec => []IInv
BY InitInv, StepInv, PTL DEF Spec

\* heads.go: no channel is closed twice or sent to once closed, connSubs counts
\* what is subscribed, and a subscriber that keeps up gets every block.
THEOREM HeadsAreSound == Spec => []HeadsSound
<1>1. IInv => HeadsSound
  BY DEF IInv, HeadsSound, Owned, NeverPanics
<1> QED
  BY <1>1, HeadsInvariance, PTL

\* A slow subscriber misses the newest blocks, never one that its channel
\* already holds, and gets those in order (fanOutHeads sends without waiting).
THEOREM HeadsAreInOrder == Spec => HeadsInOrder
<1>1. ASSUME IInv, [Next]_vars
      PROVE  [\A i \in Ids : buf[i] # <<>> =>
                IF last'[i] = last[i] THEN buf'[i] # <<>> /\ buf'[i][1] = buf[i][1]
                ELSE last'[i] = buf[i][1]]_vars
  <2> DEFINE Order(i) == IF last'[i] = last[i] THEN buf'[i] # <<>> /\ buf'[i][1] = buf[i][1]
                         ELSE last'[i] = buf[i][1]
  <2> SUFFICES ASSUME NEW i \in Ids, buf[i] # <<>>, Next PROVE Order(i)
    BY <1>1
  <2>1. /\ buf[i] \in Seq(Nat) /\ Len(buf[i]) \in Nat /\ Len(buf[i]) > 0 /\ 1 \in 1..Len(buf[i])
        /\ last[i] \in Nat /\ buf \in [Ids -> Seq(Nat)] /\ last \in [Ids -> Nat]
    BY <1>1, SMTT(30) DEF IInv, Types
  <2>2. CASE Handle \/ Close \/ \E j \in Ids : Leave(j) \/ NoticeClose(j) \/ Unsubscribe(j) \/ CloseChan(j)
    <3>1. buf' = buf /\ last' = last
      BY <2>2 DEF Handle, Close, Leave, NoticeClose, Unsubscribe, CloseChan, chans
    <3> QED
      BY <3>1
  <2>3. ASSUME NEW c \in ConnKeys, SubscribeHeadsForConn(c) PROVE Order(i)
    <3>1. buf' = buf /\ last' = [last EXCEPT ![nextHeadID + 1] = fanned]
      BY <2>3 DEF SubscribeHeadsForConn
    <3>2. i # nextHeadID + 1
      BY <1>1, HeadsAssumption, SMTT(30) DEF IInv, Types, Fresh, Ids, HeadsAssumption
    <3> QED
      BY <2>1, <3>1, <3>2
  <2>4. ASSUME NEW j \in Ids, Receive(j) PROVE Order(i)
    <3>1. /\ buf' = [buf EXCEPT ![j] = Tail(buf[j])] /\ last' = [last EXCEPT ![j] = Head(buf[j])]
      BY <2>4 DEF Receive
    <3>2. CASE i # j
      BY <2>1, <3>1, <3>2
    <3>3. CASE i = j
      <4>1. last'[i] = buf[i][1]
        BY <2>1, <3>1, <3>3, SMTT(30)
      <4>2. buf[i][1] > last[i] /\ buf[i][1] \in Nat
        BY <1>1, <2>1, SMTT(30) DEF IInv, Ascending
      <4> QED
        BY <2>1, <4>1, <4>2, SMTT(30)
    <3> QED
      BY <3>2, <3>3
  <2>5. CASE fanOutHeads
    <3>1. last' = last /\ buf' = [k \in Ids |-> IF k \in DOMAIN headSubs THEN Sent(k, handled) ELSE buf[k]]
      BY <2>5 DEF fanOutHeads, Receivers
    <3>2. handled \in Nat
      BY <1>1 DEF IInv, Types
    <3>3. Sent(i, handled) = buf[i] \/ /\ Len(Sent(i, handled)) = Len(buf[i]) + 1
                                       /\ Sent(i, handled)[1] = buf[i][1]
      BY <1>1, <2>1, <3>2, SentIs, SMTT(30)
    <3>4. Sent(i, handled) # <<>> /\ Sent(i, handled)[1] = buf[i][1]
      BY <2>1, <3>3, SMTT(30)
    <3>5. buf'[i] # <<>> /\ buf'[i][1] = buf[i][1] /\ last'[i] = last[i]
      BY <3>1, <3>4
    <3> QED
      BY <3>5
  <2> QED
    BY <2>2, <2>3, <2>4, <2>5 DEF Next, Serve
<1> QED
  BY <1>1, HeadsInvariance, PTL DEF Spec, HeadsInOrder
=============================================================================
