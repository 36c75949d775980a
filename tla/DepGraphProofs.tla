--------------------------- MODULE DepGraphProofs ---------------------------
(***************************************************************************)
(* The dependency-graph queue serves no two transactions that conflict,    *)
(* and the endorsements it reuses are never stale, for any transactions,   *)
(* read-write sets, workers, channels, batches and window of reuse, as     *)
(* long as nothing reaches the ledger but through the queue.               *)
(***************************************************************************)
EXTENDS DepGraphQueue, TLAPS

\* Zenon proves most steps; the others name Z3 and its time.
USE ZenonT(30)

-----------------------------------------------------------------------------
(* The invariant *)

Entry == [node : Nat, end : Nat \cup {None}, readSeq : Nat, kept : BOOLEAN]
Taken == [tx : Txs, seq : Nat, at : Nat \cup {None}]
Doing == [pc : {"idle", "stopped"}] \cup [pc : {"served", "execute"}, tx : Txs]
           \cup [pc : {"submit"}, tx : Txs, at : Nat]
Submission == [tx : Txs, at : Nat]
Verdict == [tx : Txs, valid : BOOLEAN]

\* No other gateway submits these transactions, and a submission that fails was not
\* ordered; None is a value of its own.
Params ==
  /\ Foreign = {} /\ Ambiguous = {}
  /\ Reads \in [Txs -> SUBSET Keys] /\ Writes \in [Txs -> SUBSET Keys]
  /\ Window \in Nat \ {0} /\ Threshold \in Nat /\ MaxBlockTxs \in Nat
  /\ None \notin Nat /\ None \notin Entry /\ None \notin Taken

Types ==
  /\ tracked \in [Txs -> Entry \cup {None}] /\ endorsing \in [Endorsers -> Taken \cup {None}]
  /\ admitted \in Seq(Txs) /\ endorsed \in Seq(Txs) /\ ready \in Seq(Txs)
  /\ nodes \in Seq(Txs) /\ outgoing \in Seq(Nat)
  /\ unfinished \subseteq 1 .. Len(nodes) /\ released \subseteq 1 .. Len(nodes)
  /\ Range(outgoing) \subseteq unfinished \cap released
  /\ lastWrite \in [Keys -> Nat] /\ work \in [Workers -> Doing]
  /\ pool \subseteq Submission /\ ledger \in Seq(Seq(Verdict))
  /\ commitSeq \in Nat /\ stored \in commitSeq .. Len(ledger)

With(e, h) == endorsing[e] # None /\ endorsing[e].tx = h
Busy(w, h) == work[w].pc \in {"served", "execute", "submit"} /\ work[w].tx = h
InPool(h) == \E x \in pool : x.tx = h
InBlock(b, h) == \E i \in DOMAIN ledger[b] : ledger[b][i].tx = h
Unhandled == commitSeq + 1 .. Len(ledger)

\* The manager has the node and markReady has not.
Pending(n) == n \notin released \/ n \in Range(outgoing)

\* What is admitted or being endorsed is tracked.
Early(h) == tracked[h] # None /\ ~tracked[h].kept /\ tracked[h].node = 0
EarlyInv ==
  /\ \A h \in Range(admitted) : Early(h)
  /\ \A e \in Endorsers : endorsing[e] # None => Early(endorsing[e].tx)

\* So is what was endorsed, and a node not handed back is that of its entry, if it
\* has one.
Kept(h, n) == tracked[h] # None /\ tracked[h].kept /\ tracked[h].node = n
MiddleInv ==
  /\ \A h \in Range(endorsed) : Kept(h, 0) /\ \A n \in unfinished : nodes[n] # h
  /\ \A n \in unfinished : Kept(nodes[n], IF Pending(n) THEN 0 ELSE n)

\* And what is ready, served or not yet reported by a block.
HasNode(h) == tracked[h] # None /\ tracked[h].node \in unfinished /\ nodes[tracked[h].node] = h
LateInv ==
  /\ \A h \in Range(ready) : HasNode(h)
  /\ \A w \in Workers : \A h \in Txs : Busy(w, h) => HasNode(h)
  /\ \A x \in pool : HasNode(x.tx)
  /\ \A b \in Unhandled : \A h \in Txs : InBlock(b, h) => HasNode(h)

\* Nothing is in two places.
EarlyOnce ==
  /\ IsInjective(admitted)
  /\ \A e, f \in Endorsers : \A h \in Txs : With(e, h) /\ With(f, h) => e = f
  /\ \A e \in Endorsers : \A h \in Txs : With(e, h) => h \notin Range(admitted)
MiddleOnce ==
  /\ IsInjective(endorsed) /\ IsInjective(outgoing)
  /\ \A n, m \in unfinished : nodes[n] = nodes[m] => n = m
LateOnce ==
  /\ IsInjective(ready)
  /\ \A h \in Range(ready) : /\ \A w \in Workers : ~Busy(w, h)
                             /\ ~InPool(h) /\ \A b \in Unhandled : ~InBlock(b, h)
  /\ \A w, v \in Workers : \A h \in Txs : Busy(w, h) /\ Busy(v, h) => w = v
  /\ \A w \in Workers : \A h \in Txs :
       Busy(w, h) => ~InPool(h) /\ \A b \in Unhandled : ~InBlock(b, h)
  /\ \A x, y \in pool : x.tx = y.tx => x = y
  /\ \A x \in pool : \A b \in Unhandled : ~InBlock(b, x.tx)
  /\ \A b, c \in Unhandled : \A h \in Txs : InBlock(b, h) /\ InBlock(c, h) => b = c

\* A released node conflicts with none that came before it and is not handed back.
Apart ==
  \A m \in unfinished : \A n \in unfinished \cap released :
    m < n => ~Conflict(nodes[m], nodes[n])

PlaceInv ==
  /\ Types /\ EarlyInv /\ MiddleInv /\ LateInv /\ EarlyOnce /\ MiddleOnce /\ LateOnce /\ Apart

\* What was endorsed had not been committed when Handle saw its last block.
Uncommitted ==
  /\ \A h \in Txs : tracked[h] # None /\ tracked[h].kept =>
       \A b \in 1 .. commitSeq : ~InBlock(b, h)
  /\ \A e \in Endorsers : endorsing[e] # None /\ endorsing[e].at # None =>
       \A b \in 1 .. commitSeq : ~InBlock(b, endorsing[e].tx)

\* The load of commitSeq comes before the execution.
LoadedFirst ==
  /\ \A e \in Endorsers : endorsing[e] # None =>
       endorsing[e].seq <= commitSeq /\ (endorsing[e].at # None => endorsing[e].seq <= endorsing[e].at)
  /\ \A h \in Txs : tracked[h] # None /\ tracked[h].end # None => tracked[h].readSeq <= tracked[h].end

\* An execution at a height is good while no later block wrote what it read.
Good(h, at) ==
  \A b \in at + 1 .. Len(ledger) : \A i \in DOMAIN ledger[b] :
    Writes[ledger[b][i].tx] \cap Reads[h] = {}
AllGood ==
  /\ \A w \in Workers : work[w].pc = "submit" => Good(work[w].tx, work[w].at)
  /\ \A x \in pool : Good(x.tx, x.at)

\* The writes of the blocks within the window are noted.
Noted ==
  \A b \in 1 .. commitSeq : b > commitSeq - Window =>
    \A i \in DOMAIN ledger[b] : \A k \in Writes[ledger[b][i].tx] : lastWrite[k] >= b

AllValid == \A b \in 1 .. Len(ledger) : \A i \in DOMAIN ledger[b] : ledger[b][i].valid

IInv == PlaceInv /\ Uncommitted /\ LoadedFirst /\ AllGood /\ Noted /\ AllValid

-----------------------------------------------------------------------------
(* Sequences *)

\* What Append adds.
LEMMA Appended ==
  ASSUME NEW S, NEW q \in Seq(S), NEW e \in S
  PROVE  /\ Append(q, e) \in Seq(S) /\ Range(Append(q, e)) = Range(q) \cup {e}
         /\ IsInjective(q) /\ e \notin Range(q) => IsInjective(Append(q, e))
<1>1. /\ Append(q, e) \in Seq(S) /\ DOMAIN Append(q, e) = DOMAIN q \cup {Len(q) + 1}
      /\ Len(q) + 1 \notin DOMAIN q /\ Append(q, e)[Len(q) + 1] = e
      /\ \A i \in DOMAIN q : Append(q, e)[i] = q[i]
  BY SMTT(30)
<1>2. Range(Append(q, e)) = Range(q) \cup {e}
  BY <1>1 DEF Range
<1>3. ASSUME IsInjective(q), e \notin Range(q) PROVE IsInjective(Append(q, e))
  BY <1>1, <1>3 DEF IsInjective, Range
<1> QED
  BY <1>1, <1>2, <1>3

\* What Head and Tail take apart.
LEMMA Rest ==
  ASSUME NEW S, NEW q \in Seq(S), q # <<>>
  PROVE  /\ Head(q) \in S /\ Head(q) \in Range(q) /\ Tail(q) \in Seq(S)
         /\ Range(Tail(q)) \subseteq Range(q)
         /\ IsInjective(q) => /\ IsInjective(Tail(q))
                              /\ Range(Tail(q)) = Range(q) \ {Head(q)}
<1>1. /\ Head(q) \in S /\ Tail(q) \in Seq(S) /\ 1 \in DOMAIN q /\ q[1] = Head(q)
      /\ \A i \in DOMAIN Tail(q) : /\ i \in Int /\ i + 1 \in DOMAIN q /\ i + 1 # 1
                                   /\ Tail(q)[i] = q[i + 1]
      /\ \A i \in DOMAIN q : i # 1 => i - 1 \in DOMAIN Tail(q) /\ q[i] = Tail(q)[i - 1]
  BY SMTT(30)
<1>2. Head(q) \in Range(q) /\ Range(Tail(q)) \subseteq Range(q)
  BY <1>1, SMTT(30) DEF Range
<1>3. Range(q) \subseteq Range(Tail(q)) \cup {Head(q)}
  BY <1>1, SMTT(30) DEF Range
<1>4. ASSUME IsInjective(q) PROVE IsInjective(Tail(q)) /\ Head(q) \notin Range(Tail(q))
  <2>1. IsInjective(Tail(q))
    BY <1>1, <1>4, SMTT(30) DEF IsInjective
  <2>2. \A i \in DOMAIN Tail(q) : Tail(q)[i] # Head(q)
    BY <1>1, <1>4, SMTT(30) DEF IsInjective
  <2> QED
    BY <2>1, <2>2 DEF Range
<1> QED
  BY <1>1, <1>2, <1>3, <1>4

\* What a batch takes from the front, and what it leaves.
LEMMA Batched ==
  ASSUME NEW S, NEW q \in Seq(S), NEW n \in 1 .. Len(q), IsInjective(q)
  PROVE  /\ SubSeq(q, 1, n) \in Seq(S) /\ Len(SubSeq(q, 1, n)) = n
         /\ \A i \in 1 .. n : SubSeq(q, 1, n)[i] = q[i]
         /\ SubSeq(q, n + 1, Len(q)) \in Seq(S) /\ IsInjective(SubSeq(q, n + 1, Len(q)))
         /\ Range(SubSeq(q, n + 1, Len(q))) \subseteq Range(q)
         /\ \A i \in 1 .. n : q[i] \in Range(q) /\ q[i] \notin Range(SubSeq(q, n + 1, Len(q)))
<1> DEFINE r == SubSeq(q, n + 1, Len(q))
<1>1. /\ SubSeq(q, 1, n) \in Seq(S) /\ Len(SubSeq(q, 1, n)) = n
      /\ \A i \in 1 .. n : SubSeq(q, 1, n)[i] = q[i]
  BY SMTT(30)
<1>2. /\ r \in Seq(S) /\ Len(r) = Len(q) - n
      /\ \A i \in 1 .. Len(r) : r[i] = q[i + n]
  BY SMTT(30)
<1>3. DOMAIN r = 1 .. (Len(q) - n) /\ DOMAIN q = 1 .. Len(q) /\ n \in Nat /\ Len(q) \in Nat
  BY <1>2, SMTT(30)
<1> HIDE DEF r
<1>4. \A i \in DOMAIN r : i \in Nat /\ i + n \in DOMAIN q /\ r[i] = q[i + n] /\ i + n > n
  BY <1>2, <1>3, SMTT(30)
<1>5. IsInjective(r)
  BY <1>3, <1>4, SMTT(30) DEF IsInjective
<1>6. Range(r) \subseteq Range(q)
  BY <1>4 DEF Range
<1>7. ASSUME NEW i \in 1 .. n PROVE q[i] \in Range(q) /\ q[i] \notin Range(r)
  <2>1. i \in DOMAIN q
    BY <1>3, SMTT(30)
  <2>2. \A j \in DOMAIN r : q[j + n] # q[i]
    BY <1>3, <1>4, <2>1, SMTT(30) DEF IsInjective
  <2> QED
    BY <1>4, <2>1, <2>2 DEF Range
<1> QED
  BY <1>1, <1>2, <1>5, <1>6, <1>7 DEF r

\* What a batch is added to.
LEMMA Joined ==
  ASSUME NEW S, NEW p \in Seq(S), NEW q \in Seq(S)
  PROVE  /\ p \o q \in Seq(S) /\ Len(p \o q) = Len(p) + Len(q)
         /\ \A m \in 1 .. Len(p) : (p \o q)[m] = p[m]
         /\ \A m \in Len(p) + 1 .. Len(p) + Len(q) : /\ m - Len(p) \in 1 .. Len(q)
                                                     /\ (p \o q)[m] = q[m - Len(p)]
<1>1. Len(p) \in Nat /\ Len(q) \in Nat
  BY SMTT(30)
<1>2. p \o q \in Seq(S) /\ Len(p \o q) = Len(p) + Len(q)
  BY SMTT(30)
<1>3. \A m \in 1 .. Len(p) : (p \o q)[m] = p[m]
  BY <1>1, SMTT(30)
<1>4. \A m \in Len(p) + 1 .. Len(p) + Len(q) : m - Len(p) \in 1 .. Len(q)
  BY <1>1, SMTT(30)
<1>5. \A m \in Len(p) + 1 .. Len(p) + Len(q) : (p \o q)[m] = q[m - Len(p)]
  BY <1>1, SMTT(30)
<1> QED
  BY <1>2, <1>3, <1>4, <1>5

-----------------------------------------------------------------------------
(* Types *)

\* The keys that a transaction reads and writes are among those of its node.
LEMMA KeysCovered ==
  ASSUME Params, NEW h \in Txs
  PROVE  Reads[h] \subseteq readWriteKeys(h).reads /\ Writes[h] \subseteq readWriteKeys(h).writes
<1>1. CASE Format[h] = "classic"
  BY <1>1 DEF readWriteKeys, txContent
<1>2. CASE Format[h] # "classic"
  BY <1>2 DEF readWriteKeys, txContent
<1> QED
  BY <1>1, <1>2

\* An endorse worker at work has a transaction, and so has one of the gateway.
LEMMA Jobs ==
  ASSUME Types
  PROVE  /\ \A e \in Endorsers : endorsing[e] # None => endorsing[e] \in Taken
         /\ \A h \in Txs : tracked[h] # None => tracked[h] \in Entry
         /\ \A w \in Workers : work[w].pc \in {"served", "execute", "submit"} => work[w].tx \in Txs
         /\ \A w \in Workers : work[w].pc = "submit" => work[w].at \in Nat
<1>1. ASSUME NEW w \in Workers
      PROVE  /\ work[w].pc \in {"served", "execute", "submit"} => work[w].tx \in Txs
             /\ work[w].pc = "submit" => work[w].at \in Nat
  <2>1. work[w] \in Doing
    BY DEF Types
  <2> QED
    BY <2>1 DEF Doing
<1> QED
  BY <1>1 DEF Types

\* What is on its way, and where it may be, are transactions.
LEMMA Places ==
  ASSUME Types
  PROVE  /\ Range(admitted) \subseteq Txs /\ Range(endorsed) \subseteq Txs
         /\ Range(ready) \subseteq Txs /\ \A n \in unfinished : nodes[n] \in Txs
         /\ \A x \in pool : x.tx \in Txs /\ x.at \in Nat
         /\ \A b \in 1 .. Len(ledger) : \A i \in DOMAIN ledger[b] : ledger[b][i].tx \in Txs
<1>1. Range(admitted) \subseteq Txs
  BY SMTT(30) DEF Types, Range
<1>2. Range(endorsed) \subseteq Txs
  BY SMTT(30) DEF Types, Range
<1>3. Range(ready) \subseteq Txs
  BY SMTT(30) DEF Types, Range
<1>4. \A n \in unfinished : nodes[n] \in Txs
  BY SMTT(30) DEF Types
<1>5. \A x \in pool : x.tx \in Txs /\ x.at \in Nat
  BY DEF Types, Submission
<1>6. ASSUME NEW b \in 1 .. Len(ledger), NEW i \in DOMAIN ledger[b] PROVE ledger[b][i].tx \in Txs
  <2>1. ledger[b] \in Seq(Verdict)
    BY SMTT(30) DEF Types
  <2>2. ledger[b][i] \in Verdict
    BY <2>1, SMTT(30)
  <2> QED
    BY <2>2 DEF Verdict
<1> QED
  BY <1>1, <1>2, <1>3, <1>4, <1>5, <1>6

\* The initial state.
LEMMA InitInv == Params /\ Init => IInv
<1> SUFFICES ASSUME Params, Init PROVE IInv
  OBVIOUS
<1>1. Range(<<>>) = {} /\ IsInjective(<<>>)
  BY SMTT(30) DEF Range, IsInjective
<1>2. /\ \A h \in Txs : tracked[h] = None
      /\ \A e \in Endorsers : endorsing[e] = None
      /\ \A w \in Workers : work[w] = Idle /\ work[w].pc = "idle"
      /\ admitted = <<>> /\ endorsed = <<>> /\ ready = <<>> /\ nodes = <<>> /\ outgoing = <<>>
      /\ unfinished = {} /\ released = {} /\ pool = {} /\ ledger = <<>> /\ stored = 0
      /\ commitSeq = 0 /\ lastWrite = [k \in Keys |-> 0]
  BY DEF Init, Idle
<1>3. Types
  <2>1. tracked \in [Txs -> Entry \cup {None}] /\ endorsing \in [Endorsers -> Taken \cup {None}]
    BY DEF Init
  <2>2. work \in [Workers -> Doing]
    BY DEF Init, Idle, Doing
  <2>3. lastWrite \in [Keys -> Nat]
    BY DEF Init
  <2> QED
    BY <1>1, <1>2, <2>1, <2>2, <2>3, SMTT(30) DEF Types
<1>4. Unhandled = {} /\ 1 .. commitSeq = {} /\ 1 .. Len(ledger) = {}
  BY <1>2, SMTT(30) DEF Unhandled
<1>5. EarlyInv /\ MiddleInv /\ LateInv
  BY <1>1, <1>2, <1>4 DEF EarlyInv, MiddleInv, LateInv, Busy
<1>6. EarlyOnce /\ MiddleOnce /\ LateOnce /\ Apart
  BY <1>1, <1>2, <1>4 DEF EarlyOnce, MiddleOnce, LateOnce, Apart, With, Busy, InPool
<1>7. Uncommitted /\ LoadedFirst /\ AllGood /\ Noted /\ AllValid
  BY <1>2, <1>4 DEF Uncommitted, LoadedFirst, AllGood, Noted, AllValid
<1> QED
  BY <1>3, <1>5, <1>6, <1>7 DEF IInv, PlaceInv

-----------------------------------------------------------------------------
(* What a step leaves alone *)

\* What is early stays so when its entry and its place do.
LEMMA EarlyFrame ==
  ASSUME Types, EarlyInv, EarlyOnce, UNCHANGED admitted,
         \A e \in Endorsers : \/ endorsing'[e] = endorsing[e]
                              \/ /\ endorsing[e] # None /\ endorsing'[e] # None
                                 /\ endorsing'[e].tx = endorsing[e].tx,
         \A h \in Txs : Early(h) => Early(h)'
  PROVE  EarlyInv' /\ EarlyOnce'
<1>1. \A e \in Endorsers : \A h \in Txs : With(e, h)' <=> With(e, h)
  BY DEF With
<1>2. Range(admitted) \subseteq Txs /\ Range(admitted)' = Range(admitted)
  BY SMTT(30) DEF Types, Range
<1>3. \A e \in Endorsers : endorsing[e] # None => endorsing[e].tx \in Txs
  BY Jobs DEF Taken
<1>4. EarlyInv'
  BY <1>2, <1>3 DEF EarlyInv
<1>5. EarlyOnce'
  BY <1>1, <1>2 DEF EarlyOnce
<1> QED
  BY <1>4, <1>5

\* So does what the graph has.
LEMMA MiddleFrame ==
  ASSUME Types, MiddleInv, MiddleOnce, Apart,
         UNCHANGED <<endorsed, nodes, unfinished, released, outgoing>>,
         \A h \in Txs : \A n : Kept(h, n) => Kept(h, n)'
  PROVE  MiddleInv' /\ MiddleOnce' /\ Apart'
<1>1. /\ Range(endorsed) \subseteq Txs /\ Range(endorsed)' = Range(endorsed)
      /\ \A n \in unfinished : nodes[n] \in Txs
  BY SMTT(30) DEF Types, Range
<1>2. \A n : Pending(n)' <=> Pending(n)
  BY DEF Pending, Range
<1>3. MiddleInv'
  BY <1>1, <1>2 DEF MiddleInv
<1>4. MiddleOnce' /\ Apart'
  BY DEF MiddleOnce, Apart
<1> QED
  BY <1>3, <1>4

\* And what is ready or served, when its node is kept.
LEMMA LateFrame ==
  ASSUME Types, LateInv, LateOnce, UNCHANGED <<ready, pool, ledger, commitSeq>>,
         \A w \in Workers : \A h \in Txs : Busy(w, h)' <=> Busy(w, h),
         \A h \in Txs : HasNode(h) => HasNode(h)'
  PROVE  LateInv' /\ LateOnce'
<1>1. /\ Range(ready) \subseteq Txs /\ Range(ready)' = Range(ready)
      /\ \A x \in pool : x.tx \in Txs
  BY SMTT(30) DEF Types, Range, Submission
<1>2. /\ \A h : InPool(h)' <=> InPool(h)
      /\ \A b, h : InBlock(b, h)' <=> InBlock(b, h)
      /\ Unhandled' = Unhandled
  BY DEF InPool, InBlock, Unhandled
<1>3. LateInv'
  BY <1>1, <1>2 DEF LateInv
<1>4. LateOnce'
  BY <1>1, <1>2 DEF LateOnce
<1> QED
  BY <1>3, <1>4

\* The node of a transaction that has one is not pending, and was released.
LEMMA NodesAre ==
  ASSUME PlaceInv, NEW h \in Txs, HasNode(h)
  PROVE  /\ Kept(h, tracked[h].node) /\ tracked[h].node \in unfinished \cap released
         /\ tracked[h].node \notin Range(outgoing) /\ nodes[tracked[h].node] = h
         /\ tracked[h].node # 0
<1>1. tracked[h].node \in unfinished /\ nodes[tracked[h].node] = h /\ tracked[h].node # 0
  BY SMTT(30) DEF HasNode, PlaceInv, Types
<1>2. Kept(h, IF Pending(tracked[h].node) THEN 0 ELSE tracked[h].node)
  BY <1>1 DEF PlaceInv, MiddleInv
<1>3. ~Pending(tracked[h].node)
  BY <1>1, <1>2 DEF Kept
<1> QED
  BY <1>1, <1>2, <1>3 DEF Pending, Kept

\* What is early, what the graph has and what has a node are different transactions.
LEMMA Exclusive ==
  ASSUME PlaceInv, NEW h \in Txs
  PROVE  /\ Early(h) => /\ h \notin Range(endorsed) /\ ~HasNode(h)
                        /\ \A n \in unfinished : nodes[n] # h
         /\ HasNode(h) => /\ h \notin Range(admitted) /\ h \notin Range(endorsed)
                          /\ \A e \in Endorsers : ~With(e, h)
         /\ tracked[h] = None => /\ h \notin Range(admitted) /\ h \notin Range(endorsed)
                                 /\ h \notin Range(ready)
                                 /\ \A e \in Endorsers : ~With(e, h)
                                 /\ \A n \in unfinished : nodes[n] # h
<1>1. HasNode(h) => Kept(h, tracked[h].node) /\ tracked[h].node # 0
  BY NodesAre
<1>2. \A n \in unfinished : nodes[n] = h => tracked[h] # None /\ tracked[h].kept
  BY DEF PlaceInv, MiddleInv, Kept
<1>3. h \in Range(endorsed) => tracked[h] # None /\ tracked[h].kept /\ tracked[h].node = 0
  BY DEF PlaceInv, MiddleInv, Kept
<1>4. \A e \in Endorsers : With(e, h) => Early(h)
  BY DEF PlaceInv, EarlyInv, With
<1>5. h \in Range(admitted) => Early(h)
  BY DEF PlaceInv, EarlyInv
<1>6. h \in Range(ready) => tracked[h] # None
  BY DEF PlaceInv, LateInv, HasNode
<1> QED
  BY <1>1, <1>2, <1>3, <1>4, <1>5, <1>6 DEF Early, Kept

\* No two transactions in flight conflict.
LEMMA Clash == Params /\ PlaceInv => NeverClash
<1> SUFFICES ASSUME Params, PlaceInv, NEW h \in InFlight, NEW k \in InFlight, h # k
             PROVE  Writes[h] \cap (Reads[k] \cup Writes[k]) = {}
  BY DEF NeverClash
<1>1. \A g \in InFlight : g \in Txs /\ HasNode(g)
  <2>1. ASSUME NEW w \in Workers, work[w].pc \in {"served", "execute", "submit"}
        PROVE  work[w].tx \in Txs /\ HasNode(work[w].tx)
    BY <2>1, Jobs DEF PlaceInv, LateInv, Busy
  <2>2. ASSUME NEW x \in pool PROVE x.tx \in Txs /\ HasNode(x.tx)
    BY <2>2 DEF PlaceInv, LateInv, Types, Submission
  <2>3. ASSUME NEW b \in commitSeq + 1 .. Len(ledger), NEW v \in Range(ledger[b])
        PROVE  v.tx \in Txs /\ HasNode(v.tx)
    <3>1. PICK i \in DOMAIN ledger[b] : ledger[b][i] = v
      BY DEF Range
    <3>2. b \in DOMAIN ledger /\ ledger[b] \in Seq(Verdict)
      BY SMTT(30) DEF PlaceInv, Types
    <3>3. v \in Verdict
      BY <3>1, <3>2, SMTT(30)
    <3>4. v.tx \in Txs
      BY <3>3 DEF Verdict
    <3> QED
      BY <3>1, <3>4 DEF PlaceInv, LateInv, InBlock, Unhandled
  <2> QED
    BY <2>1, <2>2, <2>3, SMTT(30) DEF InFlight
<1>2. PICK n \in unfinished \cap released : nodes[n] = h
  BY <1>1, NodesAre
<1>3. PICK m \in unfinished \cap released : nodes[m] = k
  BY <1>1, NodesAre
<1>4. n \in Nat /\ m \in Nat /\ n # m
  BY <1>2, <1>3, SMTT(30) DEF PlaceInv, Types
<1>5. ~Conflict(h, k) \/ ~Conflict(k, h)
  BY <1>2, <1>3, <1>4, SMTT(30) DEF PlaceInv, Apart
<1>6. readWriteKeys(h).writes \cap (readWriteKeys(k).reads \cup readWriteKeys(k).writes) = {}
  BY <1>5 DEF Conflict
<1> QED
  BY <1>1, <1>6, KeysCovered

-----------------------------------------------------------------------------
(* Enqueue and the endorse workers *)

\* Enqueue admits what is not tracked.
LEMMA EnqueueKeeps ==
  ASSUME Params, PlaceInv, NEW h \in Txs, Enqueue(h)
  PROVE  PlaceInv'
<1>1. /\ tracked[h] = None /\ admitted' = Append(admitted, h)
      /\ tracked' = [tracked EXCEPT ![h] = NewEntry]
      /\ UNCHANGED <<endorsing, endorsed, ready, graphVars, reuseVars, chainVars, work>>
  BY DEF Enqueue
<1>2. UNCHANGED <<nodes, unfinished, outgoing, released, commitSeq, lastWrite, pool, ledger, stored>>
  BY <1>1 DEF graphVars, reuseVars, chainVars
<1>3. Types
  BY DEF PlaceInv
<1>4. NewEntry \in Entry /\ NewEntry # None /\ ~NewEntry.kept /\ NewEntry.node = 0
  <2>1. NewEntry \in Entry /\ ~NewEntry.kept /\ NewEntry.node = 0
    BY DEF NewEntry, Entry
  <2> QED
    BY <2>1 DEF Params
<1>5. tracked'[h] = NewEntry /\ \A k \in Txs : k # h => tracked'[k] = tracked[k]
  BY <1>1, <1>3 DEF Types
<1>6. /\ admitted' \in Seq(Txs) /\ Range(admitted') = Range(admitted) \cup {h}
      /\ IsInjective(admitted) /\ h \notin Range(admitted) => IsInjective(admitted')
  BY <1>1, <1>3, Appended, SMTT(30) DEF Types
<1>7. Types'
  <2>1. tracked' \in [Txs -> Entry \cup {None}]
    BY <1>1, <1>3, <1>4 DEF Types
  <2> QED
    BY <1>1, <1>2, <1>3, <1>6, <2>1 DEF Types
<1>8. \A k \in Txs : /\ Early(k) => Early(k)'
                     /\ HasNode(k) => HasNode(k)'
                     /\ \A n : Kept(k, n) => Kept(k, n)'
  BY <1>1, <1>2, <1>5, SMTT(30) DEF Early, HasNode, Kept
<1>9. h \notin Range(admitted) /\ \A e \in Endorsers : ~With(e, h)
  BY <1>1, Exclusive
<1>10. EarlyInv'
  <2>1. Early(h)'
    BY <1>4, <1>5 DEF Early
  <2>2. \A k \in Range(admitted) : k \in Txs /\ Early(k)
    BY <1>3, SMTT(30) DEF PlaceInv, EarlyInv, Types, Range
  <2>3. \A e \in Endorsers : endorsing[e] # None => endorsing[e].tx \in Txs /\ Early(endorsing[e].tx)
    BY <1>3, Jobs DEF PlaceInv, EarlyInv, Taken
  <2> QED
    BY <1>1, <1>6, <1>8, <2>1, <2>2, <2>3 DEF EarlyInv
<1>11. EarlyOnce'
  <2>1. \A e \in Endorsers : \A k : With(e, k)' <=> With(e, k)
    BY <1>1 DEF With
  <2> QED
    BY <1>6, <1>9, <2>1 DEF PlaceInv, EarlyOnce
<1>12. MiddleInv' /\ MiddleOnce' /\ Apart'
  BY <1>1, <1>2, <1>3, <1>8, MiddleFrame DEF PlaceInv
<1>13. LateInv' /\ LateOnce'
  <2>1. \A w \in Workers : \A k \in Txs : Busy(w, k)' <=> Busy(w, k)
    BY <1>1 DEF Busy
  <2> QED
    BY <1>1, <1>2, <1>3, <1>8, <2>1, LateFrame DEF PlaceInv
<1> QED
  BY <1>7, <1>10, <1>11, <1>12, <1>13 DEF PlaceInv

\* A transaction goes from the channel to an endorse worker.
LEMMA TakeAdmittedKeeps ==
  ASSUME Params, PlaceInv, NEW e \in Endorsers, TakeAdmitted(e)
  PROVE  PlaceInv'
<1> DEFINE h == Head(admitted)
<1>1. /\ endorsing[e] = None /\ admitted # <<>> /\ admitted' = Tail(admitted)
      /\ endorsing' = [endorsing EXCEPT ![e] = [tx |-> h, seq |-> commitSeq, at |-> None]]
      /\ UNCHANGED <<tracked, endorsed, ready, graphVars, reuseVars, chainVars, work>>
  BY DEF TakeAdmitted
<1>2. UNCHANGED <<nodes, unfinished, outgoing, released, commitSeq, lastWrite, pool, ledger, stored>>
  BY <1>1 DEF graphVars, reuseVars, chainVars
<1>3. Types
  BY DEF PlaceInv
<1>4. /\ h \in Txs /\ h \in Range(admitted) /\ admitted' \in Seq(Txs)
      /\ IsInjective(admitted') /\ Range(admitted') = Range(admitted) \ {h}
  BY <1>1, <1>3, Rest DEF Types, PlaceInv, EarlyOnce
<1> HIDE DEF h
<1>5. /\ endorsing'[e] = [tx |-> h, seq |-> commitSeq, at |-> None]
      /\ endorsing'[e] \in Taken /\ endorsing'[e] # None /\ endorsing'[e].tx = h
      /\ \A f \in Endorsers : f # e => endorsing'[f] = endorsing[f]
  <2>1. [tx |-> h, seq |-> commitSeq, at |-> None] \in Taken
    BY <1>3, <1>4 DEF Taken, Types
  <2> QED
    BY <1>1, <1>3, <2>1 DEF Types, Params
<1>6. Types'
  <2>1. endorsing' \in [Endorsers -> Taken \cup {None}]
    BY <1>1, <1>3, <1>5 DEF Types
  <2> QED
    BY <1>1, <1>2, <1>3, <1>4, <2>1 DEF Types
<1>7. \A k : Early(k)' <=> Early(k)
  BY <1>1 DEF Early
<1>8. \A f \in Endorsers : \A k : With(f, k)' <=> With(f, k) \/ (f = e /\ k = h)
  BY <1>1, <1>5 DEF With
<1>9. EarlyInv'
  <2>1. Early(h)
    BY <1>4 DEF PlaceInv, EarlyInv
  <2> QED
    BY <1>4, <1>5, <1>7, <2>1 DEF PlaceInv, EarlyInv
<1>10. EarlyOnce'
  BY <1>4, <1>8, SMTT(30) DEF PlaceInv, EarlyOnce
<1>11. MiddleInv' /\ MiddleOnce' /\ Apart'
  <2>1. \A k, n : Kept(k, n) => Kept(k, n)'
    BY <1>1 DEF Kept
  <2> QED
    BY <1>1, <1>2, <1>3, <2>1, MiddleFrame DEF PlaceInv
<1>12. LateInv' /\ LateOnce'
  <2>1. /\ \A w \in Workers : \A k \in Txs : Busy(w, k)' <=> Busy(w, k)
        /\ \A k \in Txs : HasNode(k) => HasNode(k)'
    BY <1>1, <1>2 DEF Busy, HasNode
  <2> QED
    BY <1>1, <1>2, <1>3, <2>1, LateFrame DEF PlaceInv
<1> QED
  BY <1>6, <1>9, <1>10, <1>11, <1>12 DEF PlaceInv

\* It is executed there.
LEMMA ExecuteKeeps ==
  ASSUME Params, PlaceInv, NEW e \in Endorsers, Execute(e)
  PROVE  PlaceInv'
<1>1. /\ endorsing[e] # None /\ endorsing' = [endorsing EXCEPT ![e].at = stored]
      /\ UNCHANGED <<tracked, admitted, endorsed, ready, graphVars, reuseVars, chainVars, work>>
  BY DEF Execute
<1>2. UNCHANGED <<nodes, unfinished, outgoing, released, commitSeq, lastWrite, pool, ledger, stored>>
  BY <1>1 DEF graphVars, reuseVars, chainVars
<1>3. Types
  BY DEF PlaceInv
<1>4. endorsing[e] \in Taken /\ stored \in Nat
  BY <1>1, <1>3, SMTT(30) DEF Types
<1>5. /\ endorsing'[e] \in Taken /\ endorsing'[e] # None /\ endorsing'[e].tx = endorsing[e].tx
      /\ \A f \in Endorsers : f # e => endorsing'[f] = endorsing[f]
  <2>1. endorsing'[e] = [endorsing[e] EXCEPT !.at = stored]
    BY <1>1, <1>3 DEF Types
  <2>2. endorsing'[e] \in Taken /\ endorsing'[e].tx = endorsing[e].tx
    BY <1>4, <2>1 DEF Taken
  <2>3. endorsing'[e] # None
    BY <2>2 DEF Params
  <2> QED
    BY <1>1, <1>3, <2>2, <2>3 DEF Types
<1>6. Types'
  <2>1. endorsing' \in [Endorsers -> Taken \cup {None}]
    BY <1>1, <1>3, <1>5 DEF Types
  <2> QED
    BY <1>1, <1>2, <1>3, <2>1 DEF Types
<1>7. /\ \A k : Early(k) => Early(k)'
      /\ \A k, n : Kept(k, n) => Kept(k, n)'
      /\ \A k : HasNode(k) => HasNode(k)'
      /\ \A w \in Workers : \A k \in Txs : Busy(w, k)' <=> Busy(w, k)
  BY <1>1, <1>2 DEF Early, Kept, HasNode, Busy
<1>8. EarlyInv' /\ EarlyOnce'
  BY <1>1, <1>3, <1>5, <1>7, EarlyFrame DEF PlaceInv
<1>9. MiddleInv' /\ MiddleOnce' /\ Apart'
  BY <1>1, <1>2, <1>3, <1>7, MiddleFrame DEF PlaceInv
<1>10. LateInv' /\ LateOnce'
  BY <1>1, <1>2, <1>3, <1>7, LateFrame DEF PlaceInv
<1> QED
  BY <1>6, <1>8, <1>9, <1>10 DEF PlaceInv

\* The transaction is dropped.
LEMMA EndorseFailsKeeps ==
  ASSUME Params, PlaceInv, NEW e \in Endorsers, EndorseFails(e)
  PROVE  PlaceInv'
<1> DEFINE h == endorsing[e].tx
<1>1. /\ endorsing[e] # None /\ tracked' = [tracked EXCEPT ![h] = None]
      /\ endorsing' = [endorsing EXCEPT ![e] = None]
      /\ UNCHANGED <<admitted, endorsed, ready, graphVars, reuseVars, chainVars, work>>
  BY DEF EndorseFails
<1>2. UNCHANGED <<nodes, unfinished, outgoing, released, commitSeq, lastWrite, pool, ledger, stored>>
  BY <1>1 DEF graphVars, reuseVars, chainVars
<1>3. Types
  BY DEF PlaceInv
<1>4. h \in Txs /\ With(e, h) /\ Early(h)
  BY <1>1, <1>3, Jobs DEF Taken, With, PlaceInv, EarlyInv
<1> HIDE DEF h
<1>5. /\ \A k \in Txs : k # h => tracked'[k] = tracked[k]
      /\ endorsing'[e] = None /\ \A f \in Endorsers : f # e => endorsing'[f] = endorsing[f]
  BY <1>1, <1>3 DEF Types
<1>6. Types'
  <2>1. /\ tracked' \in [Txs -> Entry \cup {None}]
        /\ endorsing' \in [Endorsers -> Taken \cup {None}]
    BY <1>1, <1>3, Zenon DEF Types
  <2> QED
    BY <1>1, <1>2, <1>3, <2>1 DEF Types
<1>7. \A k \in Txs : /\ Early(k) /\ k # h => Early(k)'
                     /\ HasNode(k) => HasNode(k)'
                     /\ \A n : Kept(k, n) => Kept(k, n)'
  <2>1. \A n : ~Kept(h, n)
    BY <1>4 DEF Early, Kept
  <2>2. ~HasNode(h)
    BY <1>4, Exclusive
  <2> QED
    BY <1>2, <1>5, <2>1, <2>2, SMTT(30) DEF Early, HasNode, Kept
<1>8. /\ \A f \in Endorsers : \A k : With(f, k)' <=> With(f, k) /\ f # e
      /\ \A f \in Endorsers : f # e => ~With(f, h)
      /\ h \notin Range(admitted)
  BY <1>4, <1>5 DEF With, PlaceInv, EarlyOnce
<1>9. EarlyInv'
  <2>1. \A k \in Range(admitted) : k \in Txs /\ Early(k)
    BY <1>3, SMTT(30) DEF PlaceInv, EarlyInv, Types, Range
  <2>2. \A f \in Endorsers : endorsing[f] # None => endorsing[f].tx \in Txs /\ Early(endorsing[f].tx)
    BY <1>3, Jobs DEF PlaceInv, EarlyInv, Taken
  <2>3. \A f \in Endorsers : f # e /\ endorsing[f] # None => endorsing[f].tx # h
    BY <1>8 DEF With
  <2> QED
    BY <1>1, <1>5, <1>7, <1>8, <2>1, <2>2, <2>3 DEF EarlyInv
<1>10. EarlyOnce'
  BY <1>1, <1>8 DEF PlaceInv, EarlyOnce
<1>11. MiddleInv' /\ MiddleOnce' /\ Apart'
  BY <1>1, <1>2, <1>3, <1>7, MiddleFrame DEF PlaceInv
<1>12. LateInv' /\ LateOnce'
  <2>1. \A w \in Workers : \A k \in Txs : Busy(w, k)' <=> Busy(w, k)
    BY <1>1 DEF Busy
  <2> QED
    BY <1>1, <1>2, <1>3, <1>7, <2>1, LateFrame DEF PlaceInv
<1> QED
  BY <1>6, <1>9, <1>10, <1>11, <1>12 DEF PlaceInv

\* What keepEndorsement makes of the entry.
LEMMA KeptEntry ==
  ASSUME Params, PlaceInv, NEW e \in Endorsers, submitToManager(e), NEW h, h = endorsing[e].tx
  PROVE  /\ h \in Txs /\ With(e, h) /\ Early(h) /\ endorsing[e] \in Taken /\ endorsing[e].at \in Nat
         /\ tracked'[h] \in Entry /\ tracked'[h] # None /\ tracked'[h].kept /\ tracked'[h].node = 0
         /\ tracked'[h].end = endorsing[e].at /\ tracked'[h].readSeq = endorsing[e].seq
         /\ \A k \in Txs : k # h => tracked'[k] = tracked[k]
         /\ tracked' \in [Txs -> Entry \cup {None}]
<1>1. endorsing[e] # None /\ endorsing[e].at # None /\ tracked' = keepEndorsement(endorsing[e])
  BY DEF submitToManager
<1>2. Types
  BY DEF PlaceInv
<1>3. h \in Txs /\ With(e, h) /\ Early(h) /\ endorsing[e] \in Taken
  BY <1>1, <1>2, Jobs DEF Taken, With, PlaceInv, EarlyInv
<1>4. endorsing[e].at \in Nat /\ endorsing[e].seq \in Nat
  BY <1>1, <1>3 DEF Taken
<1>5. tracked[h] \in Entry /\ tracked[h].node = 0
  BY <1>2, <1>3 DEF Early, Types
<1> DEFINE t == [tracked[h] EXCEPT !.end = endorsing[e].at, !.readSeq = endorsing[e].seq,
                                   !.kept = TRUE]
<1>6. tracked' = [tracked EXCEPT ![h] = t]
  BY <1>1, <1>2, <1>3, Zenon DEF keepEndorsement, Early, Types
<1>7. /\ t \in Entry /\ t.kept /\ t.node = 0
      /\ t.end = endorsing[e].at /\ t.readSeq = endorsing[e].seq
  BY <1>4, <1>5, Zenon DEF Entry
<1> HIDE DEF t
<1>8. t # None
  BY <1>7 DEF Params
<1> QED
  BY <1>2, <1>3, <1>4, <1>6, <1>7, <1>8 DEF Types

\* Its endorsement is kept and it goes to the batcher.
LEMMA SubmitToManagerKeeps ==
  ASSUME Params, PlaceInv, NEW e \in Endorsers, submitToManager(e)
  PROVE  PlaceInv'
<1> SUFFICES ASSUME NEW h, h = endorsing[e].tx PROVE PlaceInv'
  OBVIOUS
<1>1. /\ endorsed' = Append(endorsed, h) /\ endorsing' = [endorsing EXCEPT ![e] = None]
      /\ UNCHANGED <<admitted, ready, graphVars, reuseVars, chainVars, work>>
  BY DEF submitToManager
<1>2. UNCHANGED <<nodes, unfinished, outgoing, released, commitSeq, lastWrite, pool, ledger, stored>>
  BY <1>1 DEF graphVars, reuseVars, chainVars
<1>3. Types
  BY DEF PlaceInv
<1>4. /\ h \in Txs /\ With(e, h) /\ Early(h) /\ Kept(h, 0)'
      /\ \A k \in Txs : k # h => tracked'[k] = tracked[k]
      /\ tracked' \in [Txs -> Entry \cup {None}]
  BY KeptEntry, SMTT(30) DEF Kept
<1>5. /\ endorsing' \in [Endorsers -> Taken \cup {None}]
      /\ endorsing'[e] = None /\ \A f \in Endorsers : f # e => endorsing'[f] = endorsing[f]
  BY <1>1, <1>3 DEF Types
<1>6. h \notin Range(endorsed) /\ ~HasNode(h) /\ \A n \in unfinished : nodes[n] # h
  BY <1>4, Exclusive
<1>7. /\ endorsed' \in Seq(Txs) /\ Range(endorsed') = Range(endorsed) \cup {h}
      /\ IsInjective(endorsed')
  BY <1>1, <1>3, <1>4, <1>6, Appended, SMTT(30) DEF Types, PlaceInv, MiddleOnce
<1>8. Types'
  BY <1>1, <1>2, <1>3, <1>4, <1>5, <1>7 DEF Types
<1>9. \A k \in Txs : k # h => /\ Early(k)' <=> Early(k)
                              /\ HasNode(k)' <=> HasNode(k)
                              /\ \A n : Kept(k, n)' <=> Kept(k, n)
  BY <1>2, <1>4 DEF Early, HasNode, Kept
<1>10. /\ \A f \in Endorsers : \A k : With(f, k)' <=> With(f, k) /\ f # e
       /\ \A f \in Endorsers : f # e => ~With(f, h)
       /\ h \notin Range(admitted)
  BY <1>4, <1>5 DEF With, PlaceInv, EarlyOnce
<1>11. EarlyInv'
  <2>1. \A k \in Range(admitted) : k \in Txs /\ Early(k)
    BY <1>3, SMTT(30) DEF PlaceInv, EarlyInv, Types, Range
  <2>2. \A f \in Endorsers : endorsing[f] # None => endorsing[f].tx \in Txs /\ Early(endorsing[f].tx)
    BY <1>3, Jobs DEF PlaceInv, EarlyInv, Taken
  <2>3. \A f \in Endorsers : f # e /\ endorsing[f] # None => endorsing[f].tx # h
    BY <1>10 DEF With
  <2> QED
    BY <1>1, <1>5, <1>9, <1>10, <2>1, <2>2, <2>3 DEF EarlyInv
<1>12. EarlyOnce'
  BY <1>1, <1>10 DEF PlaceInv, EarlyOnce
<1>13. MiddleInv'
  <2>1. \A k \in Range(endorsed) : k \in Txs
    BY <1>3, SMTT(30) DEF Types, Range
  <2>2. \A n \in unfinished : nodes[n] \in Txs
    BY <1>3, SMTT(30) DEF Types
  <2>3. \A n : Pending(n)' <=> Pending(n)
    BY <1>2 DEF Pending
  <2>4. \A k \in Range(endorsed') : Kept(k, 0)' /\ \A n \in unfinished : nodes[n] # k
    BY <1>4, <1>6, <1>7, <1>9, <2>1 DEF PlaceInv, MiddleInv
  <2>5. \A n \in unfinished : Kept(nodes[n], IF Pending(n) THEN 0 ELSE n)'
    BY <1>2, <1>6, <1>9, <2>2, <2>3 DEF PlaceInv, MiddleInv
  <2> QED
    BY <1>2, <2>3, <2>4, <2>5 DEF MiddleInv
<1>14. MiddleOnce' /\ Apart'
  BY <1>2, <1>7 DEF PlaceInv, MiddleOnce, Apart
<1>15. LateInv' /\ LateOnce'
  <2>1. /\ \A w \in Workers : \A k \in Txs : Busy(w, k)' <=> Busy(w, k)
        /\ \A k \in Txs : HasNode(k) => HasNode(k)'
    BY <1>1, <1>6, <1>9 DEF Busy
  <2> QED
    BY <1>1, <1>2, <1>3, <2>1, LateFrame DEF PlaceInv
<1> QED
  BY <1>8, <1>11, <1>12, <1>13, <1>14, <1>15 DEF PlaceInv

-----------------------------------------------------------------------------
(* The graph *)

\* A batch becomes nodes of the graph.
LEMMA BatchKeeps ==
  ASSUME Params, PlaceInv, batchLoop
  PROVE  PlaceInv'
<1>1. PICK n \in 1 .. Threshold :
        /\ n <= Len(endorsed) /\ nodes' = nodes \o SubSeq(endorsed, 1, n)
        /\ endorsed' = SubSeq(endorsed, n + 1, Len(endorsed))
        /\ unfinished' = unfinished \cup (Len(nodes) + 1 .. Len(nodes) + n)
  BY DEF batchLoop
<1>2. UNCHANGED <<tracked, admitted, endorsing, ready, outgoing, released, commitSeq, lastWrite,
                  pool, ledger, stored, work>>
  BY DEF batchLoop, reuseVars, chainVars
<1>3. Types
  BY DEF PlaceInv
<1> DEFINE L == Len(nodes)
           new == L + 1 .. L + n
<1>4. /\ SubSeq(endorsed, 1, n) \in Seq(Txs) /\ Len(SubSeq(endorsed, 1, n)) = n
      /\ \A i \in 1 .. n : SubSeq(endorsed, 1, n)[i] = endorsed[i]
      /\ endorsed' \in Seq(Txs) /\ IsInjective(endorsed') /\ Range(endorsed') \subseteq Range(endorsed)
      /\ \A i \in 1 .. n : endorsed[i] \in Range(endorsed) /\ endorsed[i] \notin Range(endorsed')
  <2>1. n \in 1 .. Len(endorsed) /\ endorsed \in Seq(Txs) /\ IsInjective(endorsed)
    BY <1>1, <1>3, SMTT(30) DEF Params, Types, PlaceInv, MiddleOnce
  <2> QED
    BY <1>1, <2>1, Batched, SMTT(30)
<1>5. /\ nodes' \in Seq(Txs) /\ Len(nodes') = L + n /\ L \in Nat /\ n \in Nat
      /\ \A m \in 1 .. L : nodes'[m] = nodes[m]
      /\ \A m \in new : m - L \in 1 .. n /\ nodes'[m] = endorsed[m - L]
  <2> DEFINE s == SubSeq(endorsed, 1, n)
  <2>1. s \in Seq(Txs) /\ Len(s) = n /\ nodes \in Seq(Txs) /\ nodes' = nodes \o s
    BY <1>1, <1>3, <1>4 DEF Types
  <2>2. \A i \in 1 .. n : s[i] = endorsed[i]
    BY <1>4
  <2> HIDE DEF s
  <2>3. L \in Nat /\ n \in Nat
    BY <2>1, SMTT(30)
  <2>4. /\ nodes \o s \in Seq(Txs) /\ Len(nodes \o s) = Len(nodes) + Len(s)
        /\ \A m \in 1 .. Len(nodes) : (nodes \o s)[m] = nodes[m]
        /\ \A m \in Len(nodes) + 1 .. Len(nodes) + Len(s) :
             m - Len(nodes) \in 1 .. Len(s) /\ (nodes \o s)[m] = s[m - Len(nodes)]
    BY <2>1, Joined, Zenon
  <2>5. /\ nodes' \in Seq(Txs) /\ Len(nodes') = L + n
        /\ \A m \in 1 .. L : nodes'[m] = nodes[m]
        /\ \A m \in new : m - L \in 1 .. n /\ nodes'[m] = s[m - L]
    BY <2>1, <2>4, Zenon
  <2> QED
    BY <2>2, <2>3, <2>5, Zenon
<1>6. unfinished \subseteq 1 .. L /\ released \subseteq 1 .. L /\ unfinished' = unfinished \cup new
  BY <1>1, <1>3 DEF Types
<1>7. \A m \in new : m \notin released /\ m \notin unfinished
  BY <1>5, <1>6, SMTT(30)
<1>8. Types'
  <2>1. unfinished' \subseteq 1 .. Len(nodes') /\ released' \subseteq 1 .. Len(nodes')
    <3>1. \A m \in 1 .. L : m \in 1 .. L + n
      BY <1>5, SMTT(30)
    <3>2. \A m \in new : m \in 1 .. L + n
      BY <1>5, SMTT(30)
    <3> HIDE DEF L, new
    <3> QED
      BY <1>2, <1>5, <1>6, <3>1, <3>2, Zenon
  <2>2. Range(outgoing)' \subseteq unfinished' \cap released'
    BY <1>2, <1>3, <1>6 DEF Types
  <2> HIDE DEF L, new
  <2> QED
    BY <1>2, <1>3, <1>4, <1>5, <2>1, <2>2 DEF Types
<1> HIDE DEF L, new
<1>9. \A k \in Txs : /\ Early(k) => Early(k)'
                     /\ HasNode(k) => HasNode(k)'
                     /\ \A m : Kept(k, m)' <=> Kept(k, m)
  BY <1>2, <1>5, <1>6 DEF Early, HasNode, Kept
<1>10. EarlyInv' /\ EarlyOnce'
  BY <1>2, <1>3, <1>9, EarlyFrame DEF PlaceInv
<1>11. \A k \in Range(endorsed) : k \in Txs /\ Kept(k, 0) /\ \A m \in unfinished : nodes[m] # k
  <2>1. Range(endorsed) \subseteq Txs
    BY <1>3, SMTT(30) DEF Types, Range
  <2> QED
    BY <2>1 DEF PlaceInv, MiddleInv
<1>12. \A m \in new : nodes'[m] \in Range(endorsed) /\ nodes'[m] \notin Range(endorsed')
  BY <1>4, <1>5
<1>13. MiddleInv'
  <2>1. \A m : Pending(m)' <=> Pending(m)
    BY <1>2 DEF Pending
  <2>2. \A m \in new : Pending(m) /\ Kept(nodes'[m], 0)
    BY <1>7, <1>11, <1>12 DEF Pending
  <2>3. \A m \in unfinished : nodes'[m] = nodes[m] /\ nodes[m] \in Txs
    <3>1. \A m \in unfinished : m \in 1 .. L
      BY <1>6
    <3>2. \A m \in 1 .. Len(nodes) : nodes[m] \in Txs
      <4>1. nodes \in Seq(Txs)
        BY <1>3 DEF Types
      <4> QED
        BY <4>1, SMTT(30)
    <3> QED
      BY <1>5, <3>1, <3>2 DEF L
  <2>4. ASSUME NEW k \in Range(endorsed')
        PROVE  Kept(k, 0)' /\ \A m \in unfinished' : nodes'[m] # k
    BY <1>4, <1>6, <1>9, <1>11, <1>12, <2>3
  <2>5. ASSUME NEW m \in unfinished'
        PROVE  Kept(nodes[m], IF Pending(m) THEN 0 ELSE m)'
    <3>1. CASE m \in unfinished
      BY <1>2, <2>1, <2>3, <3>1 DEF PlaceInv, MiddleInv, Kept
    <3>2. CASE m \in new
      BY <1>2, <2>1, <2>2, <3>2 DEF Kept
    <3> QED
      BY <1>6, <3>1, <3>2
  <2> QED
    BY <2>4, <2>5 DEF MiddleInv
<1>14. MiddleOnce'
  <2>1. \A m \in unfinished : nodes'[m] = nodes[m]
    BY <1>5, <1>6
  <2>2. ASSUME NEW m \in new, NEW k \in new, nodes'[m] = nodes'[k] PROVE m = k
    <3>. DOMAIN endorsed = 1 .. Len(endorsed) /\ Len(endorsed) \in Nat
      BY <1>3, SMTT(30) DEF Types
    <3>0. m - L \in 1 .. n /\ k - L \in 1 .. n
      BY <1>5
    <3>1. \A i \in 1 .. n : i \in DOMAIN endorsed
      BY <1>1, <1>5, SMTT(30)
    <3>3. endorsed[m - L] = endorsed[k - L]
      BY <1>5, <2>2, Zenon
    <3>2. m - L = k - L
      BY <3>0, <3>1, <3>3, Zenon DEF PlaceInv, MiddleOnce, IsInjective
    <3> QED
      BY <1>5, <3>2, SMTT(30) DEF new
  <2>3. \A m \in new : \A k \in unfinished : nodes'[m] # nodes'[k]
    BY <1>11, <1>12, <2>1
  <2>4. \A m, k \in unfinished : nodes[m] = nodes[k] => m = k
    BY DEF PlaceInv, MiddleOnce
  <2>5. \A m, k \in unfinished' : nodes'[m] = nodes'[k] => m = k
    BY <1>6, <2>1, <2>2, <2>3, <2>4, Zenon
  <2> QED
    BY <1>2, <1>4, <2>5 DEF PlaceInv, MiddleOnce
<1>15. Apart'
  <2> SUFFICES ASSUME NEW m \in unfinished', NEW k \in unfinished' \cap released, m < k
               PROVE  ~Conflict(nodes'[m], nodes'[k])
    BY <1>2 DEF Apart
  <2>1. k \in unfinished /\ m \in unfinished
    BY <1>5, <1>6, <1>7, SMTT(30) DEF new
  <2> QED
    BY <1>5, <1>6, <2>1 DEF PlaceInv, Apart
<1>16. LateInv' /\ LateOnce'
  <2>1. \A w \in Workers : \A k \in Txs : Busy(w, k)' <=> Busy(w, k)
    BY <1>2 DEF Busy
  <2> QED
    BY <1>2, <1>3, <1>9, <2>1, LateFrame DEF PlaceInv
<1> QED
  BY <1>8, <1>10, <1>13, <1>14, <1>15, <1>16 DEF PlaceInv

\* The manager releases a node.
LEMMA ReleaseKeeps ==
  ASSUME Params, PlaceInv, NEW n, Release(n)
  PROVE  PlaceInv'
<1>1. /\ n \in unfinished \ released /\ outgoing' = Append(outgoing, n)
      /\ \A m \in unfinished : m < n => ~Conflict(nodes[m], nodes[n])
      /\ released' = released \cup {n}
  BY DEF Release
<1>2. UNCHANGED <<tracked, admitted, endorsing, endorsed, ready, nodes, unfinished, commitSeq,
                  lastWrite, pool, ledger, stored, work>>
  BY DEF Release, queueVars, reuseVars, chainVars
<1>3. Types
  BY DEF PlaceInv
<1>4. n \in Nat /\ n \notin Range(outgoing) /\ n \in 1 .. Len(nodes)
  BY <1>1, <1>3, SMTT(30) DEF Types
<1>5. /\ outgoing' \in Seq(Nat) /\ Range(outgoing') = Range(outgoing) \cup {n}
      /\ IsInjective(outgoing')
  BY <1>1, <1>3, <1>4, Appended, SMTT(30) DEF Types, PlaceInv, MiddleOnce
<1>6. Types'
  BY <1>1, <1>2, <1>3, <1>4, <1>5 DEF Types
<1>7. /\ \A k : Early(k) => Early(k)'
      /\ \A k, m : Kept(k, m)' <=> Kept(k, m)
      /\ \A k : HasNode(k) => HasNode(k)'
      /\ \A w \in Workers : \A k \in Txs : Busy(w, k)' <=> Busy(w, k)
  BY <1>2 DEF Early, Kept, HasNode, Busy
<1>8. EarlyInv' /\ EarlyOnce'
  BY <1>2, <1>3, <1>7, EarlyFrame DEF PlaceInv
<1>9. \A m : Pending(m)' <=> Pending(m)
  BY <1>1, <1>5 DEF Pending
<1>10. MiddleInv'
  BY <1>2, <1>7, <1>9 DEF PlaceInv, MiddleInv, Kept
<1>11. MiddleOnce'
  BY <1>2, <1>5 DEF PlaceInv, MiddleOnce
<1>12. Apart'
  <2> SUFFICES ASSUME NEW m \in unfinished, NEW k \in unfinished \cap released', m < k
               PROVE  ~Conflict(nodes[m], nodes[k])
    BY <1>2 DEF Apart
  <2> QED
    BY <1>1 DEF PlaceInv, Apart
<1>13. LateInv' /\ LateOnce'
  BY <1>2, <1>3, <1>7, LateFrame DEF PlaceInv
<1> QED
  BY <1>6, <1>8, <1>10, <1>11, <1>12, <1>13 DEF PlaceInv

\* A released node makes its transaction ready.
LEMMA MarkReadyKeeps ==
  ASSUME Params, PlaceInv, markReady
  PROVE  PlaceInv'
<1>1. PICK n, h : n = Head(outgoing) /\ h = nodes[n]
  OBVIOUS
<1>2. Types /\ outgoing # <<>> /\ outgoing' = Tail(outgoing)
  BY DEF PlaceInv, markReady
<1>3. /\ n \in Range(outgoing) /\ outgoing' \in Seq(Nat) /\ IsInjective(outgoing')
      /\ Range(outgoing') = Range(outgoing) \ {n}
  <2>1. outgoing \in Seq(Nat) /\ IsInjective(outgoing)
    BY <1>2 DEF Types, PlaceInv, MiddleOnce
  <2> QED
    BY <1>1, <1>2, <2>1, Rest
<1>4. n \in unfinished \cap released /\ n \in Nat /\ n # 0 /\ h \in Txs
  BY <1>1, <1>2, <1>3, SMTT(30) DEF Types
<1>5. Kept(h, 0)
  BY <1>1, <1>3, <1>4 DEF PlaceInv, MiddleInv, Pending
<1>6. /\ tracked' = [tracked EXCEPT ![h].node = n] /\ ready' = Append(ready, h)
      /\ UNCHANGED <<unfinished, admitted, endorsing, endorsed, nodes, released, commitSeq, lastWrite,
                     pool, ledger, stored, work>>
  BY <1>1, <1>5 DEF markReady, NodeKept, Kept, reuseVars, chainVars
<1>7. /\ tracked' \in [Txs -> Entry \cup {None}] /\ Kept(h, n)'
      /\ \A k \in Txs : k # h => tracked'[k] = tracked[k]
  <2> DEFINE t == [tracked[h] EXCEPT !.node = n]
  <2>1. tracked[h] \in Entry /\ tracked[h].kept
    BY <1>2, <1>4, <1>5 DEF Types, Kept
  <2>2. tracked' = [tracked EXCEPT ![h] = t]
    BY <1>6, Zenon
  <2>3. t \in Entry /\ t.kept /\ t.node = n
    BY <1>4, <2>1, Zenon DEF Entry
  <2> HIDE DEF t
  <2>4. t # None
    BY <2>3 DEF Params
  <2> QED
    BY <1>2, <1>4, <2>2, <2>3, <2>4 DEF Types, Kept
<1>8. ~HasNode(h) /\ h \notin Range(ready)
  BY <1>2, <1>4, <1>5, SMTT(30) DEF HasNode, Kept, Types, PlaceInv, LateInv
<1>9. ready' \in Seq(Txs) /\ Range(ready') = Range(ready) \cup {h} /\ IsInjective(ready')
  <2>1. ready \in Seq(Txs) /\ IsInjective(ready)
    BY <1>2 DEF Types, PlaceInv, LateOnce
  <2> QED
    BY <1>4, <1>6, <1>8, <2>1, Appended, SMTT(30)
<1>10. Types'
  BY <1>2, <1>3, <1>6, <1>7, <1>9 DEF Types
<1>11. \A k \in Txs : k # h => /\ Early(k)' <=> Early(k)
                               /\ HasNode(k)' <=> HasNode(k)
                               /\ \A m : Kept(k, m)' <=> Kept(k, m)
  BY <1>6, <1>7 DEF Early, HasNode, Kept
<1>12. EarlyInv' /\ EarlyOnce'
  <2>1. \A k \in Txs : Early(k) => Early(k)'
    BY <1>5, <1>11 DEF Early, Kept
  <2> QED
    BY <1>2, <1>6, <2>1, EarlyFrame DEF PlaceInv
<1>13. MiddleInv'
  <2>1. Range(endorsed) \subseteq Txs /\ \A m \in unfinished : nodes[m] \in Txs
    BY <1>2, Places
  <2>2. /\ \A m : m # n => (Pending(m)' <=> Pending(m))
        /\ ~Pending(n)'
    BY <1>3, <1>4, <1>6 DEF Pending
  <2>3. \A m \in unfinished : m # n => nodes[m] # h
    BY <1>1, <1>4 DEF PlaceInv, MiddleOnce
  <2>4. h \notin Range(endorsed)
    BY <1>1, <1>4 DEF PlaceInv, MiddleInv
  <2>5. \A k \in Range(endorsed) : Kept(k, 0)' /\ \A m \in unfinished : nodes[m] # k
    BY <1>11, <2>1, <2>4 DEF PlaceInv, MiddleInv
  <2>6. ASSUME NEW m \in unfinished PROVE Kept(nodes[m], IF Pending(m) THEN 0 ELSE m)'
    <3>1. CASE m = n
      BY <1>1, <1>6, <1>7, <2>2, <3>1
    <3>2. CASE m # n
      BY <1>6, <1>11, <2>1, <2>2, <2>3, <3>2 DEF PlaceInv, MiddleInv
    <3> QED
      BY <3>1, <3>2
  <2> QED
    BY <1>6, <2>5, <2>6 DEF MiddleInv
<1>14. MiddleOnce' /\ Apart'
  BY <1>3, <1>6 DEF PlaceInv, MiddleOnce, Apart
<1>15. /\ \A w \in Workers : \A k \in Txs : Busy(w, k)' <=> Busy(w, k)
       /\ \A k : InPool(k)' <=> InPool(k)
       /\ \A b, k : InBlock(b, k)' <=> InBlock(b, k)
       /\ Unhandled' = Unhandled
  BY <1>6 DEF Busy, InPool, InBlock, Unhandled
<1>16. LateInv'
  <2>1. HasNode(h)'
    BY <1>1, <1>4, <1>6, <1>7, SMTT(30) DEF HasNode, Kept
  <2>2. \A k \in Txs : HasNode(k) => HasNode(k)'
    BY <1>8, <1>11
  <2>3. Range(ready) \subseteq Txs /\ \A x \in pool : x.tx \in Txs
    BY <1>2, Places
  <2> QED
    BY <1>6, <1>9, <1>15, <2>1, <2>2, <2>3 DEF PlaceInv, LateInv
<1>17. LateOnce'
  <2>1. /\ \A w \in Workers : ~Busy(w, h)
        /\ ~InPool(h) /\ \A b \in Unhandled : ~InBlock(b, h)
    BY <1>4, <1>8 DEF PlaceInv, LateInv, InPool
  <2>2. Range(ready) \subseteq Txs /\ \A x \in pool : x.tx \in Txs
    BY <1>2, Places
  <2> QED
    BY <1>4, <1>6, <1>9, <1>15, <2>1, <2>2, SMTT(30) DEF PlaceInv, LateOnce
<1> QED
  BY <1>10, <1>12, <1>13, <1>14, <1>16, <1>17 DEF PlaceInv

\* Untracking transactions and handing their nodes back leaves what the others have.
LEMMA Untracking ==
  ASSUME Params, PlaceInv, NEW hs \in SUBSET Txs, \A h \in hs : HasNode(h),
         unfinished' = unfinished \ takeNodes(hs), tracked' = Untracked(hs),
         UNCHANGED <<admitted, endorsing, endorsed, nodes, outgoing, released>>
  PROVE  /\ tracked' \in [Txs -> Entry \cup {None}]
         /\ unfinished' \subseteq unfinished /\ Range(outgoing) \subseteq unfinished'
         /\ \A k \in Txs \ hs : tracked'[k] = tracked[k] /\ (HasNode(k) => HasNode(k)')
         /\ \A k \in hs : tracked'[k] = None
         /\ EarlyInv' /\ EarlyOnce' /\ MiddleInv' /\ MiddleOnce' /\ Apart'
<1>1. Types
  BY DEF PlaceInv
<1>2. /\ tracked' \in [Txs -> Entry \cup {None}]
      /\ \A k \in Txs \ hs : tracked'[k] = tracked[k]
      /\ \A k \in hs : tracked'[k] = None
  BY <1>1 DEF Types, Untracked
<1>3. \A n \in unfinished : n \in takeNodes(hs) <=> nodes[n] \in hs
  <2> SUFFICES ASSUME NEW n \in unfinished PROVE n \in takeNodes(hs) <=> nodes[n] \in hs
    OBVIOUS
  <2>1. n # 0
    BY <1>1, SMTT(30) DEF Types
  <2>2. ASSUME n \in takeNodes(hs) PROVE nodes[n] \in hs
    BY <2>2 DEF takeNodes, HasNode
  <2>3. ASSUME nodes[n] \in hs PROVE n \in takeNodes(hs)
    <3>1. PICK h \in hs : h = nodes[n]
      BY <2>3
    <3>2. tracked[h] # None /\ tracked[h].node \in unfinished /\ nodes[tracked[h].node] = h
      BY <3>1 DEF HasNode
    <3>3. tracked[h].node = n
      BY <3>1, <3>2 DEF PlaceInv, MiddleOnce
    <3> QED
      BY <2>1, <3>2, <3>3 DEF takeNodes
  <2> QED
    BY <2>2, <2>3
<1>4. unfinished' \subseteq unfinished /\ \A n \in unfinished : n \in unfinished' <=> nodes[n] \notin hs
  BY <1>3
<1>5. \A k \in hs : ~Early(k) /\ k \notin Range(endorsed) /\ ~Kept(k, 0)
  <2>1. \A k \in hs : ~Early(k) /\ k \notin Range(endorsed)
    BY Exclusive
  <2>2. \A k \in hs : ~Kept(k, 0)
    BY <1>1, SMTT(30) DEF HasNode, Kept, Types
  <2> QED
    BY <2>1, <2>2
<1>6. \A k \in Txs : /\ Early(k) => Early(k)'
                     /\ k \notin hs => \A m : Kept(k, m) => Kept(k, m)'
  BY <1>2, <1>5 DEF Early, Kept
<1>7. EarlyInv' /\ EarlyOnce'
  BY <1>1, <1>6, EarlyFrame DEF PlaceInv
<1>8. Range(outgoing) \subseteq unfinished'
  <2>1. \A n \in Range(outgoing) : n \in unfinished /\ Kept(nodes[n], 0)
    BY <1>1 DEF Types, PlaceInv, MiddleInv, Pending
  <2> QED
    BY <1>4, <1>5, <2>1
<1>9. \A k \in Txs \ hs : HasNode(k) => HasNode(k)'
  BY <1>2, <1>4, SMTT(30) DEF HasNode
<1>10. MiddleInv'
  <2>1. Range(endorsed) \subseteq Txs /\ \A m \in unfinished : nodes[m] \in Txs
    BY <1>1, Places
  <2>2. \A m : Pending(m)' <=> Pending(m)
    BY DEF Pending
  <2>3. \A k \in Range(endorsed) : Kept(k, 0)' /\ \A m \in unfinished' : nodes[m] # k
    BY <1>4, <1>5, <1>6, <2>1 DEF PlaceInv, MiddleInv
  <2>4. \A m \in unfinished' : Kept(nodes[m], IF Pending(m) THEN 0 ELSE m)'
    BY <1>4, <1>6, <2>1, <2>2 DEF PlaceInv, MiddleInv
  <2> QED
    BY <2>3, <2>4 DEF MiddleInv
<1>11. MiddleOnce' /\ Apart'
  BY <1>4 DEF PlaceInv, MiddleOnce, Apart
<1> QED
  BY <1>2, <1>4, <1>7, <1>8, <1>9, <1>10, <1>11

-----------------------------------------------------------------------------
(* The gateway's workers *)

\* A worker turns to something else.
LEMMA Turns ==
  ASSUME Types, NEW w \in Workers, NEW d \in Doing, work' = [work EXCEPT ![w] = d]
  PROVE  /\ work' \in [Workers -> Doing] /\ work'[w] = d
         /\ \A v \in Workers : v # w => work'[v] = work[v]
         /\ \A k : Busy(w, k)' <=> d.pc \in {"served", "execute", "submit"} /\ d.tx = k
         /\ \A v \in Workers : v # w => \A k : Busy(v, k)' <=> Busy(v, k)
<1>1. /\ work' \in [Workers -> Doing] /\ work'[w] = d
      /\ \A v \in Workers : v # w => work'[v] = work[v]
  BY DEF Types
<1> QED
  BY <1>1 DEF Busy

\* Nothing is early, or of the graph, that was not, when only the rest moves.
LEMMA RestMoves ==
  ASSUME PlaceInv,
         UNCHANGED <<admitted, endorsing, endorsed, nodes, unfinished, released, outgoing, tracked>>
  PROVE  /\ EarlyInv' /\ EarlyOnce' /\ MiddleInv' /\ MiddleOnce' /\ Apart'
         /\ \A k : HasNode(k)' <=> HasNode(k)
<1>1. \A k : /\ Early(k)' <=> Early(k)
             /\ HasNode(k)' <=> HasNode(k)
             /\ \A n : Kept(k, n)' <=> Kept(k, n)
  BY DEF Early, HasNode, Kept
<1>2. EarlyInv' /\ EarlyOnce'
  BY <1>1, EarlyFrame DEF PlaceInv
<1>3. MiddleInv' /\ MiddleOnce' /\ Apart'
  BY <1>1, MiddleFrame DEF PlaceInv
<1> QED
  BY <1>1, <1>2, <1>3

\* A worker is served what is ready.
LEMMA DequeueKeeps ==
  ASSUME Params, PlaceInv, NEW w \in Workers, Dequeue(w)
  PROVE  PlaceInv'
<1>1. PICK h : h = Head(ready)
  OBVIOUS
<1>2. /\ work[w].pc = "idle" /\ ready # <<>> /\ ready' = Tail(ready)
      /\ work' = [work EXCEPT ![w] = [pc |-> "served", tx |-> h]]
      /\ UNCHANGED <<tracked, admitted, endorsing, endorsed, nodes, unfinished, outgoing, released,
                     commitSeq, lastWrite, pool, ledger, stored>>
  BY <1>1 DEF Dequeue, graphVars, reuseVars, chainVars
<1>3. Types
  BY DEF PlaceInv
<1>4. /\ h \in Txs /\ h \in Range(ready) /\ ready' \in Seq(Txs) /\ IsInjective(ready')
      /\ Range(ready') = Range(ready) \ {h}
  <2>1. ready \in Seq(Txs) /\ IsInjective(ready)
    BY <1>3 DEF Types, PlaceInv, LateOnce
  <2> QED
    BY <1>1, <1>2, <2>1, Rest
<1>5. /\ work' \in [Workers -> Doing]
      /\ \A v \in Workers : \A k : Busy(v, k)' <=> Busy(v, k) \/ (v = w /\ k = h)
  <2> DEFINE d == [pc |-> "served", tx |-> h]
  <2>1. d \in Doing /\ d.pc = "served" /\ d.tx = h /\ work' = [work EXCEPT ![w] = d]
    BY <1>2, <1>4 DEF Doing
  <2> HIDE DEF d
  <2>2. \A k : ~Busy(w, k)
    BY <1>2 DEF Busy
  <2>3. /\ work' \in [Workers -> Doing]
        /\ \A k : Busy(w, k)' <=> d.pc \in {"served", "execute", "submit"} /\ d.tx = k
        /\ \A v \in Workers : v # w => \A k : Busy(v, k)' <=> Busy(v, k)
    BY <1>3, <2>1, Turns
  <2> QED
    BY <2>1, <2>2, <2>3
<1>6. Types'
  BY <1>2, <1>3, <1>4, <1>5 DEF Types
<1>7. /\ EarlyInv' /\ EarlyOnce' /\ MiddleInv' /\ MiddleOnce' /\ Apart'
      /\ \A k : HasNode(k)' <=> HasNode(k)
  BY <1>2, RestMoves
<1>8. /\ \A k : InPool(k)' <=> InPool(k)
      /\ \A b, k : InBlock(b, k)' <=> InBlock(b, k)
      /\ Unhandled' = Unhandled
  BY <1>2 DEF InPool, InBlock, Unhandled
<1>9. LateInv'
  BY <1>2, <1>4, <1>5, <1>7, <1>8 DEF PlaceInv, LateInv
<1>10. LateOnce'
  BY <1>2, <1>4, <1>5, <1>8, SMTT(30) DEF PlaceInv, LateOnce
<1> QED
  BY <1>6, <1>7, <1>9, <1>10 DEF PlaceInv

\* A worker is given the kept endorsement or has to execute, and its transaction
\* keeps its node.
LEMMA Reuses ==
  ASSUME Params, PlaceInv, NEW w \in Workers, ReusableEndorsement(w), NEW h, h = work[w].tx
  PROVE  /\ h \in Txs /\ tracked[h] # None /\ tracked' \in [Txs -> Entry \cup {None}]
         /\ \A k \in Txs : k # h => tracked'[k] = tracked[k]
         /\ tracked'[h] # None /\ tracked'[h].node = tracked[h].node
         /\ (tracked'[h].kept <=> tracked[h].kept)
         /\ tracked'[h].end = None
         /\ \/ work' = [work EXCEPT ![w] = [pc |-> "execute", tx |-> h]]
            \/ /\ tracked[h].end \in Nat /\ Fresh(h)
               /\ work' = [work EXCEPT ![w] = [pc |-> "submit", tx |-> h, at |-> tracked[h].end]]
<1>1. Types /\ work[w].pc = "served"
  BY DEF PlaceInv, ReusableEndorsement
<1>2. h \in Txs /\ HasNode(h)
  BY <1>1, Jobs DEF PlaceInv, LateInv, Busy
<1>3. tracked[h] # None /\ tracked[h] \in Entry
  BY <1>1, <1>2 DEF HasNode, Types
<1>4. CASE tracked[h].end = None
  <2>1. /\ tracked' = tracked
        /\ work' = [work EXCEPT ![w] = [pc |-> "execute", tx |-> h]]
    BY <1>4 DEF ReusableEndorsement
  <2> QED
    BY <1>1, <1>2, <1>3, <1>4, <2>1 DEF Types
<1>5. CASE tracked[h].end # None
  <2> DEFINE t == [tracked[h] EXCEPT !.end = None]
  <2>1. /\ tracked' = [tracked EXCEPT ![h] = t]
        /\ work' = [work EXCEPT ![w] = IF Fresh(h)
                                       THEN [pc |-> "submit", tx |-> h, at |-> tracked[h].end]
                                       ELSE [pc |-> "execute", tx |-> h]]
    BY <1>3, <1>5, Zenon DEF ReusableEndorsement
  <2>2. /\ t \in Entry /\ t.node = tracked[h].node /\ t.kept = tracked[h].kept /\ t.end = None
    BY <1>3, Zenon DEF Entry
  <2>3. tracked[h].end \in Nat
    BY <1>3, <1>5 DEF Entry
  <2> HIDE DEF t
  <2>4. t # None
    BY <2>2 DEF Params
  <2>5. /\ tracked'[h] = t /\ tracked' \in [Txs -> Entry \cup {None}]
        /\ \A k \in Txs : k # h => tracked'[k] = tracked[k]
    BY <1>1, <1>2, <2>1, <2>2 DEF Types
  <2>6. CASE Fresh(h)
    BY <1>2, <1>3, <2>1, <2>2, <2>3, <2>4, <2>5, <2>6, Zenon
  <2>7. CASE ~Fresh(h)
    BY <1>2, <1>3, <2>1, <2>2, <2>3, <2>4, <2>5, <2>7, Zenon
  <2> QED
    BY <2>6, <2>7
<1> QED
  BY <1>4, <1>5

\* The entry it leaves.
LEMMA ReuseTracks ==
  ASSUME Params, PlaceInv, NEW w \in Workers, ReusableEndorsement(w), NEW h, h = work[w].tx
  PROVE  /\ tracked[h] # None /\ tracked'[h].end = None /\ (tracked'[h].kept <=> tracked[h].kept)
         /\ \A k \in Txs : k # h => tracked'[k] = tracked[k]
BY Reuses, SMTT(30)

\* ReusableEndorsement.
LEMMA ReusableKeeps ==
  ASSUME Params, PlaceInv, NEW w \in Workers, ReusableEndorsement(w)
  PROVE  PlaceInv'
<1> SUFFICES ASSUME NEW h, h = work[w].tx PROVE PlaceInv'
  OBVIOUS
<1>1. /\ work[w].pc = "served"
      /\ UNCHANGED <<admitted, endorsing, endorsed, ready, nodes, unfinished, outgoing, released,
                     commitSeq, lastWrite, pool, ledger, stored>>
  BY DEF ReusableEndorsement, graphVars, reuseVars, chainVars
<1>2. /\ h \in Txs /\ tracked[h] # None /\ tracked' \in [Txs -> Entry \cup {None}]
      /\ \A k \in Txs : k # h => tracked'[k] = tracked[k]
      /\ tracked'[h] # None /\ tracked'[h].node = tracked[h].node
      /\ (tracked'[h].kept <=> tracked[h].kept)
  BY Reuses, SMTT(30)
<1>3. PICK d \in Doing :
        /\ work' = [work EXCEPT ![w] = d] /\ d.pc \in {"execute", "submit"} /\ d.tx = h
  <2>1. CASE work' = [work EXCEPT ![w] = [pc |-> "execute", tx |-> h]]
    <3>1. [pc |-> "execute", tx |-> h] \in Doing
      BY <1>2 DEF Doing
    <3> QED
      BY <2>1, <3>1, Zenon
  <2>2. CASE /\ tracked[h].end \in Nat
             /\ work' = [work EXCEPT ![w] = [pc |-> "submit", tx |-> h, at |-> tracked[h].end]]
    <3>1. [pc |-> "submit", tx |-> h, at |-> tracked[h].end] \in Doing
      BY <1>2, <2>2 DEF Doing
    <3> QED
      BY <2>2, <3>1, Zenon
  <2> QED
    BY <2>1, <2>2, Reuses, SMTT(30)
<1>4. Types
  BY DEF PlaceInv
<1>5. /\ work' \in [Workers -> Doing]
      /\ \A v \in Workers : \A k : Busy(v, k)' <=> Busy(v, k)
  <2>1. /\ work' \in [Workers -> Doing]
        /\ \A k : Busy(w, k)' <=> d.pc \in {"served", "execute", "submit"} /\ d.tx = k
        /\ \A v \in Workers : v # w => \A k : Busy(v, k)' <=> Busy(v, k)
    BY <1>3, <1>4, Turns, Zenon
  <2>2. \A k : Busy(w, k) <=> k = h
    BY <1>1 DEF Busy
  <2> QED
    BY <1>3, <2>1, <2>2
<1>6. Types'
  BY <1>1, <1>2, <1>4, <1>5 DEF Types
<1>7. \A k \in Txs : /\ Early(k) => Early(k)'
                     /\ HasNode(k) => HasNode(k)'
                     /\ \A n : Kept(k, n) => Kept(k, n)'
  BY <1>1, <1>2 DEF Early, HasNode, Kept
<1>8. EarlyInv' /\ EarlyOnce'
  BY <1>1, <1>4, <1>7, EarlyFrame DEF PlaceInv
<1>9. MiddleInv' /\ MiddleOnce' /\ Apart'
  BY <1>1, <1>4, <1>7, MiddleFrame DEF PlaceInv
<1>10. LateInv' /\ LateOnce'
  BY <1>1, <1>4, <1>5, <1>7, LateFrame DEF PlaceInv
<1> QED
  BY <1>6, <1>8, <1>9, <1>10 DEF PlaceInv

\* A worker that stops, or one that executes, has its transaction where it was.
LEMMA ExecuteEthTxKeeps ==
  ASSUME Params, PlaceInv, NEW w \in Workers, WorkerStops(w) \/ ExecuteEthTx(w)
  PROVE  PlaceInv'
<1>1. UNCHANGED <<tracked, admitted, endorsing, endorsed, ready, nodes, unfinished, outgoing, released,
                  commitSeq, lastWrite, pool, ledger, stored>>
  BY DEF WorkerStops, ExecuteEthTx, queueVars, graphVars, reuseVars, chainVars
<1>2. Types
  BY DEF PlaceInv
<1>3. PICK d \in Doing : /\ work' = [work EXCEPT ![w] = d]
                         /\ \A k : Busy(w, k) <=> d.pc \in {"served", "execute", "submit"} /\ d.tx = k
  <2>1. CASE WorkerStops(w)
    <3> DEFINE d == [pc |-> "stopped"]
    <3>1. d \in Doing /\ d.pc = "stopped" /\ work' = [work EXCEPT ![w] = d] /\ work[w].pc = "idle"
      BY <2>1 DEF WorkerStops, Doing
    <3> HIDE DEF d
    <3>2. \A k : Busy(w, k) <=> d.pc \in {"served", "execute", "submit"} /\ d.tx = k
      BY <3>1 DEF Busy
    <3> QED
      BY <3>1, <3>2, Zenon
  <2>2. CASE ExecuteEthTx(w)
    <3> DEFINE d == [pc |-> "submit", tx |-> work[w].tx, at |-> stored]
    <3>1. work[w].pc = "execute" /\ work' = [work EXCEPT ![w] = d] /\ work[w].tx \in Txs /\ stored \in Nat
      BY <1>2, <2>2, Jobs, SMTT(30) DEF ExecuteEthTx, Types
    <3>2. d \in Doing /\ d.pc = "submit" /\ d.tx = work[w].tx
      BY <3>1 DEF Doing
    <3> HIDE DEF d
    <3>3. \A k : Busy(w, k) <=> d.pc \in {"served", "execute", "submit"} /\ d.tx = k
      BY <3>1, <3>2 DEF Busy
    <3> QED
      BY <3>1, <3>2, <3>3, Zenon
  <2> QED
    BY <2>1, <2>2
<1>4. /\ work' \in [Workers -> Doing]
      /\ \A v \in Workers : \A k : Busy(v, k)' <=> Busy(v, k)
  <2>1. /\ work' \in [Workers -> Doing]
        /\ \A k : Busy(w, k)' <=> d.pc \in {"served", "execute", "submit"} /\ d.tx = k
        /\ \A v \in Workers : v # w => \A k : Busy(v, k)' <=> Busy(v, k)
    BY <1>2, <1>3, Turns, Zenon
  <2> QED
    BY <1>3, <2>1
<1>5. Types'
  BY <1>1, <1>2, <1>4 DEF Types
<1>6. /\ EarlyInv' /\ EarlyOnce' /\ MiddleInv' /\ MiddleOnce' /\ Apart'
      /\ \A k : HasNode(k)' <=> HasNode(k)
  BY <1>1, RestMoves
<1>7. LateInv' /\ LateOnce'
  BY <1>1, <1>2, <1>4, <1>6, LateFrame DEF PlaceInv
<1> QED
  BY <1>5, <1>6, <1>7 DEF PlaceInv

\* A worker that is done with its transaction is idle.
LEMMA Idles ==
  ASSUME Types, NEW w \in Workers, work' = [work EXCEPT ![w] = Idle]
  PROVE  /\ work' \in [Workers -> Doing] /\ work'[w].pc = "idle"
         /\ \A v \in Workers : v # w => work'[v] = work[v]
         /\ \A v \in Workers : \A k : Busy(v, k)' <=> Busy(v, k) /\ v # w
<1>1. Idle \in Doing /\ Idle.pc = "idle"
  BY DEF Idle, Doing
<1>2. /\ work' \in [Workers -> Doing] /\ work'[w] = Idle
      /\ \A v \in Workers : v # w => work'[v] = work[v]
      /\ \A k : Busy(w, k)' <=> Idle.pc \in {"served", "execute", "submit"} /\ Idle.tx = k
      /\ \A v \in Workers : v # w => \A k : Busy(v, k)' <=> Busy(v, k)
  BY <1>1, Turns
<1> QED
  BY <1>1, <1>2

\* A worker submits.
LEMMA SubmitKeeps ==
  ASSUME Params, PlaceInv, NEW w \in Workers, Submit(w)
  PROVE  PlaceInv'
<1>1. PICK h, x : h = work[w].tx /\ x = [tx |-> h, at |-> work[w].at]
  OBVIOUS
<1>2. /\ work[w].pc = "submit" /\ pool' = pool \cup {x} /\ work' = [work EXCEPT ![w] = Idle]
      /\ UNCHANGED <<tracked, admitted, endorsing, endorsed, ready, nodes, unfinished, outgoing, released,
                     commitSeq, lastWrite, ledger, stored>>
  BY <1>1 DEF Submit, queueVars, graphVars, reuseVars
<1>3. Types
  BY DEF PlaceInv
<1>4. h \in Txs /\ Busy(w, h) /\ x \in Submission /\ x.tx = h
  BY <1>1, <1>2, <1>3, Jobs DEF Busy, Submission
<1>5. /\ work' \in [Workers -> Doing]
      /\ \A v \in Workers : \A k : Busy(v, k)' <=> Busy(v, k) /\ v # w
  BY <1>2, <1>3, Idles
<1>6. Types'
  BY <1>2, <1>3, <1>4, <1>5 DEF Types
<1>7. /\ EarlyInv' /\ EarlyOnce' /\ MiddleInv' /\ MiddleOnce' /\ Apart'
      /\ \A k : HasNode(k)' <=> HasNode(k)
  BY <1>2, RestMoves
<1>8. /\ \A k : InPool(k)' <=> InPool(k) \/ k = h
      /\ \A b, k : InBlock(b, k)' <=> InBlock(b, k)
      /\ Unhandled' = Unhandled
  BY <1>2, <1>4 DEF InPool, InBlock, Unhandled
<1>9. LateInv'
  BY <1>2, <1>4, <1>5, <1>7, <1>8 DEF PlaceInv, LateInv
<1>10. LateOnce'
  <2>1. /\ ~InPool(h) /\ (\A b \in Unhandled : ~InBlock(b, h)) /\ h \notin Range(ready)
        /\ \A v \in Workers : v # w => ~Busy(v, h)
    BY <1>4 DEF PlaceInv, LateOnce
  <2>2. \A y \in pool : y.tx # h
    BY <2>1 DEF InPool
  <2> QED
    BY <1>2, <1>4, <1>5, <1>8, <2>1, <2>2, SMTT(30) DEF PlaceInv, LateOnce
<1> QED
  BY <1>6, <1>7, <1>9, <1>10 DEF PlaceInv

\* A worker fails: its transaction is untracked and its node handed back.
LEMMA ProcessFailsKeeps ==
  ASSUME Params, PlaceInv, NEW w \in Workers, ProcessFails(w)
  PROVE  PlaceInv'
<1>1. PICK h : h = work[w].tx
  OBVIOUS
<1>2. /\ work[w].pc \in {"execute", "submit"} /\ work' = [work EXCEPT ![w] = Idle]
      /\ unfinished' = unfinished \ takeNodes({h}) /\ tracked' = Untracked({h})
      /\ UNCHANGED <<admitted, endorsing, endorsed, ready, nodes, outgoing, released,
                     commitSeq, lastWrite, ledger, stored>>
  BY <1>1 DEF ProcessFails, Completed, reuseVars
<1>3. pool' = pool
  BY DEF ProcessFails, Params
<1>4. Types
  BY DEF PlaceInv
<1>5. h \in Txs /\ Busy(w, h) /\ HasNode(h)
  BY <1>1, <1>2, <1>4, Jobs DEF Busy, PlaceInv, LateInv
<1>6. /\ work' \in [Workers -> Doing]
      /\ \A v \in Workers : \A k : Busy(v, k)' <=> Busy(v, k) /\ v # w
  BY <1>2, <1>4, Idles
<1>7. /\ tracked' \in [Txs -> Entry \cup {None}]
      /\ unfinished' \subseteq unfinished /\ Range(outgoing) \subseteq unfinished'
      /\ \A k \in Txs : k # h => (HasNode(k) => HasNode(k)')
      /\ EarlyInv' /\ EarlyOnce' /\ MiddleInv' /\ MiddleOnce' /\ Apart'
  <2> DEFINE hs == {h}
  <2>1. hs \in SUBSET Txs /\ \A k \in hs : HasNode(k)
    BY <1>5
  <2>2. \A k \in Txs : k # h => k \in Txs \ hs
    OBVIOUS
  <2>3. unfinished' = unfinished \ takeNodes(hs) /\ tracked' = Untracked(hs)
    BY <1>2
  <2> HIDE DEF hs
  <2> QED
    BY <1>2, <2>1, <2>2, <2>3, Untracking
<1>8. Types'
  BY <1>2, <1>3, <1>4, <1>6, <1>7 DEF Types
<1>9. /\ \A k : InPool(k)' <=> InPool(k)
      /\ \A b, k : InBlock(b, k)' <=> InBlock(b, k)
      /\ Unhandled' = Unhandled
  BY <1>2, <1>3 DEF InPool, InBlock, Unhandled
<1>10. /\ ~InPool(h) /\ (\A b \in Unhandled : ~InBlock(b, h)) /\ h \notin Range(ready)
       /\ \A v \in Workers : v # w => ~Busy(v, h)
  BY <1>5 DEF PlaceInv, LateOnce
<1>11. LateInv'
  <2>1. Range(ready) \subseteq Txs /\ (\A x \in pool : x.tx \in Txs) /\ \A x \in pool : x.tx # h
    BY <1>4, <1>10, Places DEF InPool
  <2> QED
    BY <1>2, <1>3, <1>6, <1>7, <1>9, <1>10, <2>1, SMTT(30) DEF PlaceInv, LateInv
<1>12. LateOnce'
  BY <1>2, <1>3, <1>6, <1>9, SMTT(30) DEF PlaceInv, LateOnce
<1> QED
  BY <1>7, <1>8, <1>11, <1>12 DEF PlaceInv

-----------------------------------------------------------------------------
(* Blocks *)

\* The n submissions txs of the pool become the next block, with these verdicts.
Commits(n, txs, valid) ==
  /\ n \in Nat /\ txs \in [1 .. n -> pool] /\ valid \in [1 .. n -> BOOLEAN] /\ IsInjective(txs)
  /\ \A i \in 1 .. n : valid[i] = Valid(txs[i], {Block(txs, valid)[j] : j \in 1 .. i - 1})
  /\ ledger' \in Seq(Seq(Verdict)) /\ Len(ledger') = Len(ledger) + 1
  /\ \A b \in 1 .. Len(ledger) : ledger'[b] = ledger[b]
  /\ DOMAIN ledger'[Len(ledger) + 1] = 1 .. n
  /\ \A i \in 1 .. n : /\ ledger'[Len(ledger) + 1][i].tx = txs[i].tx
                       /\ ledger'[Len(ledger) + 1][i].valid = valid[i]
  /\ pool' = {x \in pool : \A i \in 1 .. n : x # txs[i]}

\* A block is of submissions of the pool, and they leave it.
LEMMA NewBlock ==
  ASSUME Params, PlaceInv, CommitBlock
  PROVE  \E n, txs, valid : Commits(n, txs, valid)
<1>1. PICK n, txs :
        /\ n \in 1 .. MaxBlockTxs /\ txs \in [1 .. n -> pool] /\ IsInjective(txs)
        /\ \E valid \in [DOMAIN txs -> BOOLEAN] :
             /\ \A i \in DOMAIN txs :
                  valid[i] = Valid(txs[i], {Block(txs, valid)[j] : j \in 1 .. i - 1})
             /\ ledger' = Append(ledger, Block(txs, valid))
        /\ pool' = pool \ Range(txs)
  BY DEF CommitBlock, Injection
<1>2. DOMAIN txs = 1 .. n /\ n \in Nat
  BY <1>1, SMTT(30) DEF Params
<1>3. PICK valid \in [1 .. n -> BOOLEAN] :
        /\ \A i \in 1 .. n : valid[i] = Valid(txs[i], {Block(txs, valid)[j] : j \in 1 .. i - 1})
        /\ ledger' = Append(ledger, Block(txs, valid))
  BY <1>1, <1>2, Zenon
<1>4. pool' = {x \in pool : \A i \in 1 .. n : x # txs[i]}
  BY <1>1, <1>2 DEF Range
<1>5. Types
  BY DEF PlaceInv
<1> DEFINE B == Block(txs, valid)
<1>6. /\ DOMAIN B = 1 .. n
      /\ \A i \in 1 .. n : B[i] = [tx |-> txs[i].tx, valid |-> valid[i]]
      /\ \A i \in 1 .. n : B[i].tx = txs[i].tx /\ B[i].valid = valid[i]
  BY <1>2 DEF Block
<1>7. B \in Seq(Verdict)
  <2>1. \A i \in 1 .. n : txs[i] \in pool /\ valid[i] \in BOOLEAN
    BY <1>1, <1>3
  <2>2. \A i \in 1 .. n : txs[i].tx \in Txs
    BY <1>5, <2>1, Places
  <2>3. \A i \in 1 .. n : [tx |-> txs[i].tx, valid |-> valid[i]] \in Verdict
    BY <2>1, <2>2 DEF Verdict
  <2>4. B \in [1 .. n -> Verdict]
    BY <1>2, <2>3 DEF Block
  <2> HIDE DEF B
  <2> QED
    BY <1>2, <2>4, SMTT(30)
<1> HIDE DEF B
<1>8. /\ ledger' \in Seq(Seq(Verdict)) /\ Len(ledger') = Len(ledger) + 1
      /\ \A b \in 1 .. Len(ledger) : ledger'[b] = ledger[b]
      /\ ledger'[Len(ledger) + 1] = B
  <2>1. ledger \in Seq(Seq(Verdict)) /\ ledger' = Append(ledger, B)
    BY <1>3, <1>5 DEF Types, B
  <2> QED
    BY <1>7, <2>1, SMTT(30)
<1>9. Commits(n, txs, valid)
  BY <1>1, <1>2, <1>3, <1>4, <1>6, <1>8 DEF Commits
<1> QED
  BY <1>9

\* Submissions become a block.
LEMMA CommitBlockKeeps ==
  ASSUME Params, PlaceInv, CommitBlock
  PROVE  PlaceInv'
<1>1. UNCHANGED <<tracked, admitted, endorsing, endorsed, ready, nodes, unfinished, outgoing, released,
                  commitSeq, lastWrite, stored, work>>
  BY DEF CommitBlock, queueVars, graphVars, reuseVars
<1> SUFFICES ASSUME NEW n, NEW txs, NEW valid, Commits(n, txs, valid) PROVE PlaceInv'
  BY NewBlock
<1>2. /\ n \in Nat /\ txs \in [1 .. n -> pool]
      /\ ledger' \in Seq(Seq(Verdict)) /\ Len(ledger') = Len(ledger) + 1
      /\ \A b \in 1 .. Len(ledger) : ledger'[b] = ledger[b]
      /\ DOMAIN ledger'[Len(ledger) + 1] = 1 .. n
      /\ \A i \in 1 .. n : ledger'[Len(ledger) + 1][i].tx = txs[i].tx
      /\ pool' = {x \in pool : \A i \in 1 .. n : x # txs[i]}
  BY DEF Commits
<1>3. Types
  BY DEF PlaceInv
<1>4. PICK L \in Nat : L = Len(ledger) /\ commitSeq \in Nat /\ commitSeq <= L /\ stored \in commitSeq .. L
  BY <1>3, SMTT(30) DEF Types
<1>5. Types'
  <2>1. stored \in commitSeq .. L + 1
    BY <1>4, SMTT(30)
  <2>2. pool' \subseteq pool
    BY <1>2
  <2> QED
    BY <1>1, <1>2, <1>3, <1>4, <2>1, <2>2 DEF Types
<1>6. /\ EarlyInv' /\ EarlyOnce' /\ MiddleInv' /\ MiddleOnce' /\ Apart'
      /\ \A k : HasNode(k)' <=> HasNode(k)
  BY <1>1, RestMoves
<1>7. Unhandled' = Unhandled \cup {L + 1} /\ L + 1 \notin Unhandled
  BY <1>1, <1>2, <1>4, SMTT(30) DEF Unhandled
<1>8. \A b \in Unhandled : \A k : InBlock(b, k)' <=> InBlock(b, k)
  BY <1>2, <1>4, SMTT(30) DEF InBlock, Unhandled
<1>9. \A k : InBlock(L + 1, k)' <=> \E i \in 1 .. n : txs[i].tx = k
  BY <1>2, <1>4 DEF InBlock
<1>10. \A k : InBlock(L + 1, k)' => InPool(k)
  BY <1>2, <1>9 DEF InPool
<1>11. /\ \A v \in Workers : \A k \in Txs : Busy(v, k)' <=> Busy(v, k)
       /\ \A k : InPool(k)' => InPool(k)
  BY <1>1, <1>2 DEF Busy, InPool
<1>12. \A x \in pool' : x \in pool /\ ~InBlock(L + 1, x.tx)'
  <2> SUFFICES ASSUME NEW x \in pool', NEW i \in 1 .. n, txs[i].tx = x.tx PROVE FALSE
    BY <1>2, <1>9, SMTT(30)
  <2>1. txs[i] \in pool /\ x \in pool /\ x # txs[i]
    BY <1>2
  <2> QED
    BY <2>1 DEF PlaceInv, LateOnce
<1>13. LateInv'
  <2>1. \A k : InPool(k) => HasNode(k)
    BY DEF InPool, PlaceInv, LateInv
  <2>2. \A b \in Unhandled' : \A h \in Txs : InBlock(b, h)' => HasNode(h)'
    BY <1>6, <1>7, <1>8, <1>10, <2>1 DEF PlaceInv, LateInv
  <2> QED
    BY <1>1, <1>6, <1>11, <1>12, <2>2 DEF PlaceInv, LateInv
<1>14. LateOnce'
  <2>1. \A h \in Range(ready) : /\ \A v \in Workers : ~Busy(v, h)'
                                /\ ~InPool(h)' /\ \A b \in Unhandled' : ~InBlock(b, h)'
    BY <1>3, <1>7, <1>8, <1>10, <1>11, Places DEF PlaceInv, LateOnce
  <2>2. \A v \in Workers : \A h \in Txs :
          Busy(v, h)' => ~InPool(h)' /\ \A b \in Unhandled' : ~InBlock(b, h)'
    BY <1>7, <1>8, <1>10, <1>11 DEF PlaceInv, LateOnce
  <2>3. \A x \in pool' : \A b \in Unhandled' : ~InBlock(b, x.tx)'
    BY <1>7, <1>8, <1>12 DEF PlaceInv, LateOnce
  <2>4. \A b \in Unhandled : \A h \in Txs : InBlock(b, h) => ~InPool(h)
    BY SMTT(30) DEF PlaceInv, LateOnce, InPool
  <2>5. \A b, c \in Unhandled' : \A h \in Txs : InBlock(b, h)' /\ InBlock(c, h)' => b = c
    BY <1>7, <1>8, <1>10, <2>4, SMTT(30) DEF PlaceInv, LateOnce
  <2>6. \A v, u \in Workers : \A h \in Txs : Busy(v, h)' /\ Busy(u, h)' => v = u
    BY <1>11 DEF PlaceInv, LateOnce
  <2>7. IsInjective(ready') /\ \A x, y \in pool' : x.tx = y.tx => x = y
    BY <1>1, <1>12 DEF PlaceInv, LateOnce
  <2> QED
    BY <1>1, <2>1, <2>2, <2>3, <2>5, <2>6, <2>7 DEF LateOnce
<1> QED
  BY <1>5, <1>6, <1>13, <1>14 DEF PlaceInv

\* The endorser's store is given a block, the queue is closed, or nothing happens.
LEMMA StoreBlockKeeps ==
  ASSUME Params, PlaceInv, StoreBlock \/ Close \/ UNCHANGED vars
  PROVE  PlaceInv'
<1>1. UNCHANGED <<tracked, admitted, endorsing, endorsed, ready, nodes, unfinished, outgoing, released,
                  commitSeq, lastWrite, pool, ledger, work>>
  BY DEF StoreBlock, Close, vars, queueVars, graphVars, reuseVars, chainVars
<1>2. Types
  BY DEF PlaceInv
<1>3. stored' \in commitSeq .. Len(ledger)
  <2>1. stored \in commitSeq .. Len(ledger) /\ commitSeq \in Nat /\ Len(ledger) \in Nat
    BY <1>2, SMTT(30) DEF Types
  <2>2. stored' = stored \/ (stored < Len(ledger) /\ stored' = stored + 1)
    BY DEF StoreBlock, Close, vars, chainVars
  <2> QED
    BY <2>1, <2>2, SMTT(30)
<1>4. Types'
  BY <1>1, <1>2, <1>3 DEF Types
<1>5. /\ EarlyInv' /\ EarlyOnce' /\ MiddleInv' /\ MiddleOnce' /\ Apart'
      /\ \A k : HasNode(k)' <=> HasNode(k)
  BY <1>1, RestMoves
<1>6. LateInv' /\ LateOnce'
  <2>1. \A v \in Workers : \A k \in Txs : Busy(v, k)' <=> Busy(v, k)
    BY <1>1 DEF Busy
  <2> QED
    BY <1>1, <1>2, <1>5, <2>1, LateFrame DEF PlaceInv
<1> QED
  BY <1>4, <1>5, <1>6 DEF PlaceInv

\* Handle untracks the transactions of the block and hands their nodes back.
LEMMA HandleKeeps ==
  ASSUME Params, PlaceInv, Handle
  PROVE  PlaceInv'
<1>1. PICK b, hs : b = commitSeq + 1 /\ hs = {e.tx : e \in Range(ledger[b])}
  OBVIOUS
<1>2. /\ commitSeq < stored /\ commitSeq' = b
      /\ unfinished' = unfinished \ takeNodes(hs) /\ tracked' = Untracked(hs)
      /\ UNCHANGED <<admitted, endorsing, endorsed, ready, nodes, outgoing, released, pool, ledger, stored,
                     work>>
  BY <1>1 DEF Handle, recordCommitted, chainVars
<1>3. Types
  BY DEF PlaceInv
<1>4. b \in Unhandled /\ b \in 1 .. Len(ledger) /\ b \in Nat /\ stored \in b .. Len(ledger)
  BY <1>1, <1>2, <1>3, SMTT(30) DEF Unhandled, Types
<1>5. hs \in SUBSET Txs /\ \A k : k \in hs <=> InBlock(b, k)
  <2>1. \A k : k \in hs <=> InBlock(b, k)
    BY <1>1 DEF Range, InBlock
  <2>2. \A i \in DOMAIN ledger[b] : ledger[b][i].tx \in Txs
    BY <1>3, <1>4, Places
  <2> QED
    BY <2>1, <2>2 DEF InBlock
<1>6. \A k \in hs : HasNode(k)
  BY <1>4, <1>5 DEF PlaceInv, LateInv
<1>7. /\ tracked' \in [Txs -> Entry \cup {None}]
      /\ unfinished' \subseteq unfinished /\ Range(outgoing) \subseteq unfinished'
      /\ \A k \in Txs \ hs : HasNode(k) => HasNode(k)'
      /\ EarlyInv' /\ EarlyOnce' /\ MiddleInv' /\ MiddleOnce' /\ Apart'
  BY <1>2, <1>5, <1>6, Untracking
<1>8. lastWrite' \in [Keys -> Nat]
  <2>1. commitSeq + 1 \in Nat /\ \A k \in Keys : lastWrite[k] \in Nat
    BY <1>3, SMTT(30) DEF Types
  <2> QED
    BY <2>1 DEF Handle, recordCommitted
<1>9. Types'
  BY <1>2, <1>3, <1>4, <1>7, <1>8 DEF Types
<1>10. /\ \A v \in Workers : \A k : Busy(v, k)' <=> Busy(v, k)
       /\ \A k : InPool(k)' <=> InPool(k)
       /\ \A c, k : InBlock(c, k)' <=> InBlock(c, k)
       /\ Unhandled' = Unhandled \ {b}
  <2>1. Unhandled' = Unhandled \ {b}
    BY <1>1, <1>2, <1>3, SMTT(30) DEF Unhandled, Types
  <2> QED
    BY <1>2, <2>1 DEF Busy, InPool, InBlock
<1>11. LateInv'
  <2>1. \A k \in Range(ready) : k \in Txs /\ k \notin hs
    BY <1>3, <1>4, <1>5, Places DEF PlaceInv, LateOnce
  <2>2. \A v \in Workers : \A k \in Txs : Busy(v, k) => k \notin hs
    BY <1>4, <1>5 DEF PlaceInv, LateOnce
  <2>3. \A x \in pool : x.tx \in Txs /\ x.tx \notin hs
    BY <1>3, <1>4, <1>5, Places DEF PlaceInv, LateOnce
  <2>4. \A c \in Unhandled' : \A k \in Txs : InBlock(c, k) => k \notin hs
    BY <1>4, <1>5, <1>10 DEF PlaceInv, LateOnce
  <2> QED
    BY <1>2, <1>7, <1>10, <2>1, <2>2, <2>3, <2>4 DEF PlaceInv, LateInv
<1>12. LateOnce'
  BY <1>2, <1>10 DEF PlaceInv, LateOnce
<1> QED
  BY <1>7, <1>9, <1>11, <1>12 DEF PlaceInv

-----------------------------------------------------------------------------
(* The kept endorsements *)

\* What is known of the blocks of the ledger stays when no step adds to it or handles one.
LEMMA BlocksFrame ==
  ASSUME IInv, UNCHANGED <<commitSeq, ledger, lastWrite>>
  PROVE  Noted' /\ AllValid'
BY DEF IInv, Noted, AllValid

\* So does what is known of the endorsements on their way to a block.
LEMMA GoodFrame ==
  ASSUME IInv, UNCHANGED ledger, pool' \subseteq pool,
         \A w \in Workers : work'[w].pc = "submit" => work'[w] = work[w]
  PROVE  AllGood'
<1>1. \A h, at : Good(h, at)' <=> Good(h, at)
  BY DEF Good
<1> QED
  BY <1>1 DEF IInv, AllGood

\* And of the entries, when no endorsement is kept.
LEMMA EntriesFrame ==
  ASSUME IInv, UNCHANGED <<commitSeq, ledger>>,
         \A h \in Txs : \/ tracked'[h] = None
                        \/ ~tracked'[h].kept /\ tracked'[h].end = None
                        \/ /\ tracked[h] # None
                           /\ tracked'[h].kept => tracked[h].kept
                           /\ tracked'[h].end # None => /\ tracked'[h].end = tracked[h].end
                                                        /\ tracked'[h].readSeq = tracked[h].readSeq,
         \A e \in Endorsers : endorsing'[e] \in {endorsing[e], None}
  PROVE  Uncommitted' /\ LoadedFirst'
<1>1. \A b, h : InBlock(b, h)' <=> InBlock(b, h)
  BY DEF InBlock
<1>2. Uncommitted'
  <2>1. ASSUME NEW h \in Txs, tracked'[h] # None, tracked'[h].kept, NEW b \in 1 .. commitSeq
        PROVE  ~InBlock(b, h)'
    BY <1>1, <2>1 DEF IInv, Uncommitted
  <2>2. ASSUME NEW e \in Endorsers, endorsing'[e] # None, endorsing'[e].at # None,
               NEW b \in 1 .. commitSeq
        PROVE  ~InBlock(b, endorsing[e].tx)'
    <3>1. endorsing'[e] = endorsing[e]
      BY <2>2
    <3>2. ~InBlock(b, endorsing[e].tx)
      BY <2>2, <3>1 DEF IInv, Uncommitted
    <3> QED
      BY <3>1, <3>2 DEF InBlock
  <2> QED
    BY <2>1, <2>2 DEF Uncommitted
<1>3. LoadedFirst'
  BY DEF IInv, LoadedFirst
<1> QED
  BY <1>2, <1>3

\* What is in flight with a worker or in the pool reads nothing that another such
\* transaction, or one of a block not handled yet, writes.
LEMMA Flights ==
  ASSUME Params, PlaceInv, NEW h \in Txs, InPool(h) \/ \E w \in Workers : Busy(w, h)
  PROVE  /\ \A b \in Unhandled : \A i \in DOMAIN ledger[b] : Writes[ledger[b][i].tx] \cap Reads[h] = {}
         /\ \A x \in pool : x.tx # h => Writes[x.tx] \cap Reads[h] = {}
<1>1. \A g, k \in InFlight : g # k => Writes[g] \cap (Reads[k] \cup Writes[k]) = {}
  BY Clash DEF NeverClash
<1>2. h \in InFlight
  BY DEF InFlight, InPool, Busy
<1>3. \A x \in pool : x.tx \in InFlight
  BY DEF InFlight
<1>4. ASSUME NEW b \in Unhandled, NEW i \in DOMAIN ledger[b]
      PROVE  ledger[b][i].tx \in InFlight /\ ledger[b][i].tx # h
  <2>1. ledger[b][i] \in Range(ledger[b]) /\ b \in commitSeq + 1 .. Len(ledger)
    BY DEF Range, Unhandled
  <2>2. ledger[b][i].tx \in InFlight
    <3>1. ledger[b][i].tx \in {e.tx : e \in Range(ledger[b])}
      BY <2>1
    <3> QED
      BY <2>1, <3>1 DEF InFlight
  <2>3. ~InBlock(b, h)
    BY SMTT(30) DEF PlaceInv, LateOnce, InPool
  <2> QED
    BY <2>2, <2>3 DEF InBlock
<1> QED
  BY <1>1, <1>2, <1>3, <1>4

\* A kept endorsement that is fresh is good.
LEMMA FreshIsGood ==
  ASSUME Params, IInv, NEW w \in Workers, NEW h \in Txs, Busy(w, h),
         tracked[h] # None, tracked[h].end \in Nat, Fresh(h)
  PROVE  Good(h, tracked[h].end)
<1> DEFINE end == tracked[h].end
           seq == tracked[h].readSeq
<1>1. Types /\ PlaceInv
  BY DEF IInv, PlaceInv
<1>2. /\ seq \in Nat /\ end \in Nat /\ commitSeq \in Nat /\ Len(ledger) \in Nat /\ Window \in Nat
      /\ commitSeq <= Len(ledger)
  <2>1. tracked[h] \in Entry
    BY <1>1 DEF Types
  <2>2. seq \in Nat
    BY <2>1, SMTT(30) DEF Entry
  <2>3. commitSeq \in Nat /\ stored \in commitSeq .. Len(ledger) /\ ledger \in Seq(Seq(Verdict))
    BY <1>1 DEF Types
  <2>4. Len(ledger) \in Nat /\ commitSeq <= Len(ledger)
    BY <2>3, SMTT(30)
  <2> QED
    BY <2>2, <2>3, <2>4 DEF Params
<1>3. seq <= end
  BY <1>2 DEF IInv, LoadedFirst, Params
<1>4. commitSeq - seq < Window /\ \A k \in Reads[h] : lastWrite[k] <= seq
  BY KeysCovered DEF Fresh
<1>5. SUFFICES ASSUME NEW b \in end + 1 .. Len(ledger), NEW i \in DOMAIN ledger[b],
                      NEW k \in Writes[ledger[b][i].tx] \cap Reads[h]
               PROVE  FALSE
  BY DEF Good
<1>6. b \in Nat /\ b > end
  BY <1>2, SMTT(30)
<1>7. CASE b <= commitSeq
  <2>1. b \in 1 .. commitSeq /\ b > commitSeq - Window
    BY <1>2, <1>3, <1>4, <1>6, <1>7, SMTT(30)
  <2>2. lastWrite[k] >= b
    BY <2>1 DEF IInv, Noted
  <2>3. k \in Keys /\ lastWrite[k] \in Nat
    BY <1>1 DEF Params, Types
  <2> QED
    BY <1>2, <1>3, <1>4, <1>6, <2>2, <2>3, SMTT(30)
<1>8. CASE b > commitSeq
  <2>1. b \in Unhandled
    BY <1>2, <1>6, <1>8, SMTT(30) DEF Unhandled
  <2> QED
    BY <1>1, <2>1, Flights
<1>9. b <= commitSeq \/ b > commitSeq
  BY <1>2, <1>6, SMTT(30)
<1> QED
  BY <1>7, <1>8, <1>9

\* The load of commitSeq comes before the execution, which what is committed does
\* not survive.
LEMMA TakesAndExecutes ==
  ASSUME Params, IInv, NEW e \in Endorsers, TakeAdmitted(e) \/ Execute(e)
  PROVE  Uncommitted' /\ LoadedFirst'
<1>1. Types /\ PlaceInv
  BY DEF IInv, PlaceInv
<1>2. /\ UNCHANGED <<tracked, commitSeq, ledger>>
      /\ \A f \in Endorsers : f # e => endorsing'[f] = endorsing[f]
  BY <1>1 DEF TakeAdmitted, Execute, reuseVars, chainVars, Types
<1>3. \A b, h : InBlock(b, h)' <=> InBlock(b, h)
  BY <1>2 DEF InBlock
<1>4. /\ commitSeq \in Nat /\ stored \in Nat /\ commitSeq <= stored /\ stored <= Len(ledger)
      /\ Len(ledger) \in Nat
  BY <1>1, SMTT(30) DEF Types
<1>5. CASE TakeAdmitted(e)
  <2>1. endorsing'[e].at = None /\ endorsing'[e].seq = commitSeq
    BY <1>1, <1>5 DEF TakeAdmitted, Types
  <2>2. Uncommitted'
    <3>1. ASSUME NEW f \in Endorsers, endorsing'[f] # None, endorsing'[f].at # None
          PROVE  \A b \in 1 .. commitSeq : ~InBlock(b, endorsing[f].tx)'
      <4>1. endorsing'[f] = endorsing[f]
        BY <1>2, <2>1, <3>1
      <4> QED
        BY <1>2, <3>1, <4>1, SMTT(30) DEF IInv, Uncommitted, InBlock
    <3> QED
      BY <1>2, <1>3, <3>1 DEF IInv, Uncommitted
  <2>3. LoadedFirst'
    <3>1. ASSUME NEW f \in Endorsers, endorsing'[f] # None
          PROVE  /\ endorsing'[f].seq <= commitSeq
                 /\ endorsing'[f].at # None => endorsing'[f].seq <= endorsing'[f].at
      BY <1>2, <1>4, <2>1, <3>1, SMTT(30) DEF IInv, LoadedFirst
    <3> QED
      BY <1>2, <3>1 DEF IInv, LoadedFirst
  <2> QED
    BY <2>2, <2>3
<1>6. CASE Execute(e)
  <2>1. PICK h : h = endorsing[e].tx
    OBVIOUS
  <2>2. /\ endorsing[e] # None /\ h \notin Committed(stored)
        /\ endorsing'[e].tx = h /\ endorsing'[e].seq = endorsing[e].seq /\ endorsing'[e].at = stored
    <3>1. endorsing[e] # None /\ h \notin Committed(stored)
          /\ endorsing' = [endorsing EXCEPT ![e] = [endorsing[e] EXCEPT !.at = stored]]
      BY <1>6, <2>1 DEF Execute, Executes
    <3>2. endorsing[e] \in Taken
      BY <1>1, <3>1, Jobs
    <3>3. endorsing'[e] = [endorsing[e] EXCEPT !.at = stored]
      BY <1>1, <3>1 DEF Types
    <3> QED
      BY <2>1, <3>1, <3>2, <3>3, SMTT(30) DEF Taken
  <2>3. \A b \in 1 .. commitSeq : ~InBlock(b, h)
    <3> SUFFICES ASSUME NEW b \in 1 .. commitSeq, NEW i \in DOMAIN ledger[b], ledger[b][i].tx = h
                 PROVE  FALSE
      BY DEF InBlock
    <3>1. b \in 1 .. Len(ledger) /\ b \in 1 .. stored
      BY <1>4, SMTT(30)
    <3>2. ledger[b][i].valid /\ ledger[b][i] \in Range(ledger[b])
      BY <3>1 DEF IInv, AllValid, Range
    <3>3. ledger[b][i] \in UNION {Range(ledger[c]) : c \in 1 .. stored}
      BY <3>1, <3>2
    <3> QED
      BY <2>2, <3>2, <3>3 DEF Committed
  <2>4. Uncommitted'
    <3>1. ASSUME NEW f \in Endorsers, endorsing'[f] # None, endorsing'[f].at # None
          PROVE  \A b \in 1 .. commitSeq : ~InBlock(b, endorsing[f].tx)'
      <4>1. CASE f = e
        BY <1>2, <2>2, <2>3, <4>1, SMTT(30) DEF InBlock
      <4>2. CASE f # e
        BY <1>2, <3>1, <4>2, SMTT(30) DEF IInv, Uncommitted, InBlock
      <4> QED
        BY <4>1, <4>2
    <3> QED
      BY <1>2, <1>3, <3>1 DEF IInv, Uncommitted
  <2>5. LoadedFirst'
    <3>1. ASSUME NEW f \in Endorsers, endorsing'[f] # None
          PROVE  /\ endorsing'[f].seq <= commitSeq
                 /\ endorsing'[f].at # None => endorsing'[f].seq <= endorsing'[f].at
      <4>1. CASE f = e
        <5>1. endorsing[e].seq \in Nat /\ endorsing[e].seq <= commitSeq
          BY <1>1, <2>2, Jobs DEF Taken, IInv, LoadedFirst
        <5> QED
          BY <1>4, <2>2, <4>1, <5>1, SMTT(30)
      <4>2. CASE f # e
        BY <1>2, <3>1, <4>2 DEF IInv, LoadedFirst
      <4> QED
        BY <4>1, <4>2
    <3> QED
      BY <1>2, <3>1 DEF IInv, LoadedFirst
  <2> QED
    BY <2>4, <2>5
<1> QED
  BY <1>5, <1>6

\* The endorsement is kept with the load that came before it.
LEMMA KeepsEndorsement ==
  ASSUME Params, IInv, NEW e \in Endorsers, submitToManager(e)
  PROVE  Uncommitted' /\ LoadedFirst'
<1> SUFFICES ASSUME NEW h, h = endorsing[e].tx PROVE Uncommitted' /\ LoadedFirst'
  OBVIOUS
<1>1. Types /\ PlaceInv
  BY DEF IInv, PlaceInv
<1>2. /\ endorsing[e] # None /\ endorsing[e].at # None /\ UNCHANGED <<commitSeq, ledger>>
      /\ endorsing'[e] = None /\ \A f \in Endorsers : f # e => endorsing'[f] = endorsing[f]
  BY <1>1 DEF submitToManager, reuseVars, chainVars, Types
<1>3. /\ h \in Txs /\ tracked'[h].end = endorsing[e].at /\ tracked'[h].readSeq = endorsing[e].seq
      /\ \A k \in Txs : k # h => tracked'[k] = tracked[k]
  BY <1>1, KeptEntry, SMTT(30)
<1>4. \A b, k : InBlock(b, k)' <=> InBlock(b, k)
  BY <1>2 DEF InBlock
<1>5. Uncommitted'
  <2>1. \A b \in 1 .. commitSeq : ~InBlock(b, h)
    BY <1>2 DEF IInv, Uncommitted
  <2>2. \A k \in Txs : tracked'[k] # None /\ tracked'[k].kept => \A b \in 1 .. commitSeq : ~InBlock(b, k)'
    BY <1>3, <1>4, <2>1 DEF IInv, Uncommitted
  <2>3. ASSUME NEW f \in Endorsers, endorsing'[f] # None, endorsing'[f].at # None
        PROVE  \A b \in 1 .. commitSeq : ~InBlock(b, endorsing[f].tx)'
    <3>1. endorsing'[f] = endorsing[f]
      BY <1>2, <2>3
    <3>2. \A b \in 1 .. commitSeq : ~InBlock(b, endorsing[f].tx)
      BY <2>3, <3>1 DEF IInv, Uncommitted
    <3> QED
      BY <1>2, <3>1, <3>2 DEF InBlock
  <2> QED
    BY <1>2, <2>2, <2>3 DEF Uncommitted
<1>6. LoadedFirst'
  <2>1. endorsing[e].seq <= endorsing[e].at
    BY <1>2 DEF IInv, LoadedFirst
  <2>2. \A k \in Txs : tracked'[k] # None /\ tracked'[k].end # None =>
          tracked'[k].readSeq <= tracked'[k].end
    BY <1>3, <2>1 DEF IInv, LoadedFirst
  <2>3. \A f \in Endorsers : endorsing'[f] # None => endorsing'[f] = endorsing[f]
    BY <1>2
  <2> QED
    BY <1>2, <2>2, <2>3 DEF IInv, LoadedFirst
<1> QED
  BY <1>5, <1>6

\* What a worker submits, kept or made anew, is good, and so is what it has submitted.
LEMMA WorkersGood ==
  ASSUME Params, IInv, NEW w \in Workers, Work(w)
  PROVE  AllGood'
<1>1. Types /\ PlaceInv
  BY DEF IInv, PlaceInv
<1>2. UNCHANGED ledger
  BY DEF Work, Dequeue, WorkerStops, ReusableEndorsement, ExecuteEthTx, Submit, ProcessFails, chainVars
<1>3. \A h, at : Good(h, at)' <=> Good(h, at)
  BY <1>2 DEF Good
<1>4. \A v \in Workers : v # w => work'[v] = work[v]
  BY <1>1 DEF Work, Dequeue, WorkerStops, ReusableEndorsement, ExecuteEthTx, Submit, ProcessFails, Types
<1>5. CASE Dequeue(w) \/ WorkerStops(w) \/ ProcessFails(w)
  <2>1. work'[w].pc # "submit"
    <3>1. /\ work \in [Workers -> Doing]
          /\ \/ \E h : work' = [work EXCEPT ![w] = [pc |-> "served", tx |-> h]]
             \/ work' = [work EXCEPT ![w] = [pc |-> "stopped"]]
             \/ work' = [work EXCEPT ![w] = Idle]
      BY <1>1, <1>5 DEF Dequeue, WorkerStops, ProcessFails, Types
    <3>2. ASSUME NEW h, work' = [work EXCEPT ![w] = [pc |-> "served", tx |-> h]]
          PROVE  work'[w].pc # "submit"
      BY <3>1, <3>2
    <3>3. CASE work' = [work EXCEPT ![w] = [pc |-> "stopped"]]
      BY <3>1, <3>3
    <3>4. CASE work' = [work EXCEPT ![w] = Idle]
      BY <3>1, <3>4 DEF Idle
    <3> QED
      BY <3>1, <3>2, <3>3, <3>4
  <2>2. pool' = pool
    BY <1>5 DEF Dequeue, WorkerStops, ProcessFails, Params, chainVars
  <2> QED
    BY <1>2, <1>4, <2>1, <2>2, GoodFrame
<1>6. CASE ReusableEndorsement(w)
  <2> SUFFICES ASSUME NEW h, h = work[w].tx PROVE AllGood'
    OBVIOUS
  <2>1. pool' = pool /\ work[w].pc = "served"
    BY <1>6 DEF ReusableEndorsement, chainVars
  <2>2. h \in Txs /\ Busy(w, h) /\ tracked[h] # None
    BY <1>1, <1>6, <2>1, Jobs, Reuses DEF Busy
  <2>3. CASE work' = [work EXCEPT ![w] = [pc |-> "execute", tx |-> h]]
    <3>1. work'[w].pc # "submit"
      BY <1>1, <2>3 DEF Types
    <3> QED
      BY <1>2, <1>4, <2>1, <3>1, GoodFrame
  <2>4. CASE /\ tracked[h].end \in Nat /\ Fresh(h)
             /\ work' = [work EXCEPT ![w] = [pc |-> "submit", tx |-> h, at |-> tracked[h].end]]
    <3>1. Good(h, tracked[h].end)
      BY <2>2, <2>4, FreshIsGood
    <3>2. work'[w].tx = h /\ work'[w].at = tracked[h].end
      BY <1>1, <2>4 DEF Types
    <3>3. ASSUME NEW v \in Workers, work'[v].pc = "submit" PROVE Good(work'[v].tx, work'[v].at)
      BY <1>4, <3>1, <3>2, <3>3 DEF IInv, AllGood
    <3> QED
      BY <1>2, <2>1, <3>3 DEF IInv, AllGood, Good
  <2> QED
    BY <1>1, <1>6, <2>3, <2>4, Reuses, SMTT(30)
<1>7. CASE ExecuteEthTx(w)
  <2>1. PICK h : h = work[w].tx
    OBVIOUS
  <2>2. pool' = pool /\ work[w].pc = "execute" /\ work'[w].tx = h /\ work'[w].at = stored
    BY <1>1, <1>7, <2>1 DEF ExecuteEthTx, chainVars, Types
  <2>3. h \in Txs /\ Busy(w, h)
    BY <1>1, <2>1, <2>2, Jobs DEF Busy
  <2>4. Good(h, stored)
    <3>1. \A b \in stored + 1 .. Len(ledger) : b \in Unhandled
      BY <1>1, SMTT(30) DEF Unhandled, Types
    <3> QED
      BY <1>1, <2>3, <3>1, Flights DEF Good
  <2>5. ASSUME NEW v \in Workers, work'[v].pc = "submit" PROVE Good(work'[v].tx, work'[v].at)
    BY <1>4, <2>2, <2>4, <2>5 DEF IInv, AllGood
  <2> QED
    BY <1>2, <2>2, <2>5 DEF IInv, AllGood, Good
<1>8. CASE Submit(w)
  <2>1. PICK x : x = [tx |-> work[w].tx, at |-> work[w].at]
    OBVIOUS
  <2>2. /\ work[w].pc = "submit" /\ pool' = pool \cup {x} /\ work' = [work EXCEPT ![w] = Idle]
        /\ x.tx = work[w].tx /\ x.at = work[w].at
    BY <1>8, <2>1 DEF Submit
  <2>3. Good(x.tx, x.at)
    BY <2>2 DEF IInv, AllGood
  <2>4. \A y \in pool' : Good(y.tx, y.at)'
    BY <1>3, <2>2, <2>3 DEF IInv, AllGood
  <2>5. work'[w].pc = "idle"
    BY <1>1, <2>2, Idles
  <2>6. ASSUME NEW v \in Workers, work'[v].pc = "submit" PROVE Good(work'[v].tx, work'[v].at)
    BY <1>4, <2>5, <2>6 DEF IInv, AllGood
  <2> QED
    BY <1>2, <2>4, <2>6 DEF AllGood, Good
<1> QED
  BY <1>5, <1>6, <1>7, <1>8 DEF Work

\* What the pool has passes the committer's check, and with it what is committed later.
LEMMA CommitsGood ==
  ASSUME Params, IInv, CommitBlock
  PROVE  Uncommitted' /\ LoadedFirst' /\ AllGood' /\ Noted' /\ AllValid'
<1> SUFFICES ASSUME NEW n, NEW txs, NEW valid, Commits(n, txs, valid)
             PROVE  Uncommitted' /\ LoadedFirst' /\ AllGood' /\ Noted' /\ AllValid'
  BY NewBlock DEF IInv
<1>1. Types /\ PlaceInv
  BY DEF IInv, PlaceInv
<1>2. UNCHANGED <<tracked, endorsing, commitSeq, lastWrite, work>>
  BY DEF CommitBlock, queueVars, reuseVars
<1>3. PICK L \in Nat : L = Len(ledger) /\ commitSeq \in Nat /\ commitSeq <= L
  BY <1>1, SMTT(30) DEF Types
<1>4. /\ n \in Nat /\ txs \in [1 .. n -> pool] /\ valid \in [1 .. n -> BOOLEAN] /\ IsInjective(txs)
      /\ Len(ledger') = L + 1 /\ \A b \in 1 .. L : ledger'[b] = ledger[b]
      /\ DOMAIN ledger'[L + 1] = 1 .. n
      /\ \A i \in 1 .. n : /\ ledger'[L + 1][i].tx = txs[i].tx
                           /\ ledger'[L + 1][i].valid = valid[i]
      /\ pool' \subseteq pool /\ \A i \in 1 .. n : txs[i] \notin pool'
  BY <1>3 DEF Commits
<1>5. \A x \in pool : x.tx \in Txs /\ x.at \in Nat /\ InPool(x.tx) /\ Good(x.tx, x.at)
  BY <1>1, Places DEF InPool, IInv, AllGood
<1>6. \A x, y \in pool : x # y => x.tx # y.tx /\ Writes[x.tx] \cap Reads[y.tx] = {}
  <2>1. \A x, y \in pool : x # y => x.tx # y.tx
    BY DEF IInv, PlaceInv, LateOnce
  <2> QED
    BY <1>1, <1>5, <2>1, Flights
<1>7. \A b \in 1 .. commitSeq : b \in 1 .. L /\ \A k : InBlock(b, k)' <=> InBlock(b, k)
  BY <1>3, <1>4, SMTT(30) DEF InBlock
<1>8. Uncommitted'
  <2>1. \A h \in Txs : tracked[h] # None /\ tracked[h].kept => \A b \in 1 .. commitSeq : ~InBlock(b, h)'
    BY <1>7 DEF IInv, Uncommitted
  <2>2. ASSUME NEW e \in Endorsers, endorsing[e] # None, endorsing[e].at # None, NEW b \in 1 .. commitSeq
        PROVE  ~InBlock(b, endorsing[e].tx)'
    <3>1. ~InBlock(b, endorsing[e].tx)
      BY <2>2 DEF IInv, Uncommitted
    <3> QED
      BY <1>2, <1>4, <1>7, <3>1 DEF InBlock
  <2> QED
    BY <1>2, <2>1, <2>2 DEF Uncommitted
<1>9. LoadedFirst'
  BY <1>2 DEF IInv, LoadedFirst
<1>10. Noted'
  <2>1. \A b \in 1 .. commitSeq : ledger'[b] = ledger[b]
    BY <1>4, <1>7
  <2> QED
    BY <1>2, <2>1 DEF IInv, Noted
<1>11. AllGood'
  <2>1. ASSUME NEW h \in Txs, NEW at \in Nat, Good(h, at),
               \A i \in 1 .. n : Writes[txs[i].tx] \cap Reads[h] = {}
        PROVE  Good(h, at)'
    <3> SUFFICES ASSUME NEW b \in at + 1 .. L + 1, NEW i \in DOMAIN ledger'[b]
                 PROVE  Writes[ledger'[b][i].tx] \cap Reads[h] = {}
      BY <1>4 DEF Good
    <3>1. b = L + 1 \/ (b \in 1 .. L /\ b \in at + 1 .. L)
      BY <1>3, SMTT(30)
    <3>2. CASE b = L + 1
      BY <1>4, <2>1, <3>2
    <3>3. CASE b \in 1 .. L /\ b \in at + 1 .. L
      BY <1>3, <1>4, <2>1, <3>3 DEF Good
    <3> QED
      BY <3>1, <3>2, <3>3
  <2>2. ASSUME NEW w \in Workers, work[w].pc = "submit" PROVE Good(work[w].tx, work[w].at)'
    <3> SUFFICES ASSUME NEW h, NEW at, h = work[w].tx, at = work[w].at PROVE Good(h, at)'
      BY <1>2 DEF Good
    <3>1. h \in Txs /\ at \in Nat /\ Busy(w, h) /\ Good(h, at)
      BY <1>1, <2>2, Jobs DEF Busy, IInv, AllGood
    <3>2. ~InPool(h)
      BY <3>1 DEF IInv, PlaceInv, LateOnce
    <3>3. \A i \in 1 .. n : txs[i] \in pool /\ txs[i].tx # h
      BY <1>4, <3>2 DEF InPool
    <3>4. \A i \in 1 .. n : Writes[txs[i].tx] \cap Reads[h] = {}
      BY <1>1, <3>1, <3>3, Flights
    <3> QED
      BY <2>1, <3>1, <3>4
  <2>3. ASSUME NEW x \in pool' PROVE Good(x.tx, x.at)'
    <3>1. x \in pool /\ \A i \in 1 .. n : txs[i] \in pool /\ txs[i] # x
      BY <1>4
    <3> QED
      BY <1>5, <1>6, <2>1, <3>1
  <2> QED
    BY <1>2, <2>2, <2>3 DEF AllGood
<1>12. AllValid'
  <2>1. ASSUME NEW i \in 1 .. n PROVE valid[i]
    <3>1. PICK h, at : h = txs[i].tx /\ at = txs[i].at
      OBVIOUS
    <3>2. txs[i] \in pool /\ h \in Txs /\ at \in Nat /\ InPool(h) /\ Good(h, at)
      BY <1>4, <1>5, <3>1
    <3>3. \A b \in 1 .. L : ~InBlock(b, h)
      <4>1. HasNode(h)
        BY <3>1, <3>2 DEF IInv, PlaceInv, LateInv
      <4>2. tracked[h] # None /\ tracked[h].kept
        BY <1>1, <3>2, <4>1, NodesAre DEF Kept
      <4>3. \A b \in 1 .. commitSeq : ~InBlock(b, h)
        BY <3>2, <4>2 DEF IInv, Uncommitted
      <4>4. \A b \in Unhandled : ~InBlock(b, h)
        BY <3>1, <3>2 DEF IInv, PlaceInv, LateOnce
      <4> QED
        BY <1>3, <4>3, <4>4, SMTT(30) DEF Unhandled
    <3>4. h \notin Committed(Len(ledger))
      <4>1. \A b \in 1 .. L : \A f \in Range(ledger[b]) : f.tx # h
        BY <3>3 DEF InBlock, Range
      <4> QED
        BY <1>3, <4>1 DEF Committed
    <3>5. \A b \in at + 1 .. Len(ledger) : \A f \in Range(ledger[b]) : Writes[f.tx] \cap Reads[h] = {}
      BY <3>2 DEF Good, Range
    <3>6. ASSUME NEW j \in 1 .. i - 1
          PROVE  /\ Writes[Block(txs, valid)[j].tx] \cap Reads[h] = {}
                 /\ Block(txs, valid)[j].tx # h
      <4>1. j \in 1 .. n /\ j # i
        BY <1>4, SMTT(30)
      <4>2. DOMAIN txs = 1 .. n
        BY <1>4
      <4>3. txs[j] \in pool /\ txs[j] # txs[i]
        BY <1>4, <4>1, <4>2 DEF IsInjective
      <4>4. Block(txs, valid)[j].tx = txs[j].tx
        BY <4>1, <4>2 DEF Block
      <4> QED
        BY <1>6, <3>1, <3>2, <4>3, <4>4
    <3>7. Valid(txs[i], {Block(txs, valid)[j] : j \in 1 .. i - 1})
      BY <3>1, <3>4, <3>5, <3>6 DEF Valid
    <3> QED
      BY <3>7 DEF Commits
  <2>2. ASSUME NEW b \in 1 .. L + 1, NEW i \in DOMAIN ledger'[b] PROVE ledger'[b][i].valid
    <3>1. b = L + 1 \/ b \in 1 .. L
      BY <1>3, SMTT(30)
    <3>2. CASE b = L + 1
      BY <1>4, <2>1, <3>2
    <3>3. CASE b \in 1 .. L
      BY <1>3, <1>4, <3>3 DEF IInv, AllValid
    <3> QED
      BY <3>1, <3>2, <3>3
  <2> QED
    BY <1>4, <2>2 DEF AllValid
<1> QED
  BY <1>8, <1>9, <1>10, <1>11, <1>12

\* Handle notes the writes of the block, and forgets only what left the window.
LEMMA HandlesGood ==
  ASSUME Params, IInv, Handle
  PROVE  Uncommitted' /\ LoadedFirst' /\ AllGood' /\ Noted' /\ AllValid'
<1>1. Types /\ PlaceInv
  BY DEF IInv, PlaceInv
<1>2. PICK b, hs, new : /\ b = commitSeq + 1 /\ hs = {e.tx : e \in Range(ledger[b])}
                        /\ new = WrittenBy(ledger[b])
  OBVIOUS
<1>3. /\ commitSeq < stored /\ commitSeq' = b /\ tracked' = Untracked(hs)
      /\ UNCHANGED <<endorsing, pool, ledger, work>>
  BY <1>2 DEF Handle, recordCommitted, chainVars
<1>4. /\ commitSeq \in Nat /\ b \in Nat /\ b \in 1 .. Len(ledger) /\ b \in Unhandled /\ Window \in Nat
      /\ \A c \in 1 .. b : c = b \/ c \in 1 .. commitSeq
  BY <1>1, <1>2, <1>3, SMTT(30) DEF Types, Unhandled, Params
<1>5. /\ \A h \in Txs \ hs : tracked'[h] = tracked[h]
      /\ \A h \in hs \cap Txs : tracked'[h] = None
  BY <1>3 DEF Untracked
<1>6. \A k : k \in hs <=> InBlock(b, k)
  BY <1>2 DEF Range, InBlock
<1>7. \A c, k : InBlock(c, k)' <=> InBlock(c, k)
  BY <1>3 DEF InBlock
<1>8. Uncommitted'
  <2>1. ASSUME NEW h \in Txs, tracked'[h] # None, tracked'[h].kept, NEW c \in 1 .. b
        PROVE  ~InBlock(c, h)'
    <3>1. h \notin hs /\ tracked'[h] = tracked[h]
      BY <1>5, <2>1
    <3> QED
      BY <1>4, <1>6, <1>7, <2>1, <3>1 DEF IInv, Uncommitted
  <2>2. ASSUME NEW e \in Endorsers, endorsing[e] # None, endorsing[e].at # None, NEW c \in 1 .. b
        PROVE  ~InBlock(c, endorsing[e].tx)'
    <3>1. endorsing[e].tx \in Txs /\ Early(endorsing[e].tx)
      BY <1>1, <2>2, Jobs DEF Taken, PlaceInv, EarlyInv
    <3>2. ~InBlock(b, endorsing[e].tx)
      BY <1>1, <1>4, <3>1, Exclusive DEF PlaceInv, LateInv
    <3>3. c \in 1 .. commitSeq => ~InBlock(c, endorsing[e].tx)
      BY <2>2 DEF IInv, Uncommitted
    <3> QED
      BY <1>3, <1>4, <3>2, <3>3 DEF InBlock
  <2> QED
    BY <1>3, <2>1, <2>2 DEF Uncommitted
<1>9. LoadedFirst'
  <2>1. ASSUME NEW e \in Endorsers, endorsing[e] # None PROVE endorsing[e].seq <= b
    <3>1. endorsing[e].seq \in Nat /\ endorsing[e].seq <= commitSeq
      BY <1>1, <2>1, Jobs DEF Taken, IInv, LoadedFirst
    <3> QED
      BY <1>2, <1>4, <3>1, SMTT(30)
  <2> QED
    BY <1>3, <1>5, <2>1 DEF IInv, LoadedFirst
<1>10. AllGood' /\ AllValid'
  BY <1>3, GoodFrame DEF IInv, AllValid
<1>11. Noted'
  <2> SUFFICES ASSUME NEW c \in 1 .. b, c > b - Window, NEW i \in DOMAIN ledger[c],
                      NEW k \in Writes[ledger[c][i].tx]
               PROVE  lastWrite'[k] >= c
    BY <1>3 DEF Noted
  <2>1. c \in Nat /\ c \in 1 .. Len(ledger) /\ c <= b
    BY <1>4, SMTT(30)
  <2>2. ledger[c][i].tx \in Txs
    BY <1>1, <2>1, Places
  <2>3. k \in Keys /\ lastWrite[k] \in Nat
    BY <1>1, <2>2 DEF Types, Params
  <2>4. \/ lastWrite'[k] = b
        \/ k \notin new /\ lastWrite[k] = b - Window
        \/ k \notin new /\ lastWrite'[k] = lastWrite[k]
    BY <1>2, <2>3 DEF Handle, recordCommitted
  <2>5. CASE c = b
    <3>1. PICK f : f = ledger[b][i]
      OBVIOUS
    <3>2. f \in Range(ledger[b]) /\ f.valid /\ f.tx \in Txs /\ InBlock(b, f.tx)
      BY <1>4, <2>2, <2>5, <3>1 DEF IInv, AllValid, Range, InBlock
    <3>3. HasNode(f.tx)
      BY <1>4, <3>2 DEF IInv, PlaceInv, LateInv
    <3>4. tracked[f.tx] # None /\ tracked[f.tx].kept
      BY <1>1, <3>2, <3>3, NodesAre DEF Kept
    <3>5. k \in readWriteKeys(f.tx).writes
      BY <2>5, <3>1, <3>2, KeysCovered
    <3>6. k \in new
      BY <1>2, <3>2, <3>4, <3>5 DEF WrittenBy
    <3> QED
      BY <2>1, <2>4, <2>5, <3>6
  <2>6. CASE c # b
    <3>1. c \in 1 .. commitSeq /\ c > commitSeq - Window
      BY <1>2, <1>4, <2>1, <2>6, SMTT(30)
    <3>2. lastWrite[k] >= c
      BY <3>1 DEF IInv, Noted
    <3> QED
      BY <1>4, <2>1, <2>3, <2>4, <3>2, SMTT(30)
  <2> QED
    BY <2>5, <2>6
<1> QED
  BY <1>8, <1>9, <1>10, <1>11

-----------------------------------------------------------------------------
(* Every step *)

\* Every step leaves each transaction in one place.
LEMMA StepPlaces == Params /\ PlaceInv /\ [Next]_vars => PlaceInv'
<1> SUFFICES ASSUME Params, PlaceInv, [Next]_vars PROVE PlaceInv'
  OBVIOUS
<1>1. ASSUME NEW h \in Txs, Enqueue(h) PROVE PlaceInv'
  BY <1>1, EnqueueKeeps
<1>2. ASSUME NEW h \in Txs, ForeignSubmit(h) PROVE FALSE
  BY <1>2 DEF ForeignSubmit, Params
<1>3. ASSUME NEW e \in Endorsers, Endorse(e) PROVE PlaceInv'
  BY <1>3, TakeAdmittedKeeps, ExecuteKeeps, EndorseFailsKeeps, SubmitToManagerKeeps DEF Endorse
<1>4. ASSUME NEW w \in Workers, Work(w) PROVE PlaceInv'
  BY <1>4, DequeueKeeps, ReusableKeeps, ExecuteEthTxKeeps, SubmitKeeps, ProcessFailsKeeps DEF Work
<1>5. CASE Manager
  BY <1>5, ReleaseKeeps DEF Manager
<1>6. CASE batchLoop \/ markReady
  BY <1>6, BatchKeeps, MarkReadyKeeps
<1>7. CASE Handle \/ CommitBlock
  BY <1>7, HandleKeeps, CommitBlockKeeps
<1>8. CASE StoreBlock \/ Close \/ UNCHANGED vars
  BY <1>8, StoreBlockKeeps
<1> QED
  BY <1>1, <1>2, <1>3, <1>4, <1>5, <1>6, <1>7, <1>8 DEF Next

\* A step that neither keeps an endorsement nor moves a worker or a block.
LEMMA QuietStep ==
  ASSUME Params, IInv, UNCHANGED <<commitSeq, lastWrite, pool, ledger, work>>,
         UNCHANGED tracked \/ (\E h \in Txs : Enqueue(h)) \/ markReady
           \/ (\E e \in Endorsers : EndorseFails(e)),
         \A e \in Endorsers : endorsing'[e] \in {endorsing[e], None}
  PROVE  Uncommitted' /\ LoadedFirst' /\ AllGood' /\ Noted' /\ AllValid'
<1>1. Types /\ PlaceInv
  BY DEF IInv, PlaceInv
<1>2. ASSUME NEW h \in Txs
      PROVE  \/ tracked'[h] = None
             \/ ~tracked'[h].kept /\ tracked'[h].end = None
             \/ /\ tracked[h] # None
                /\ tracked'[h].kept => tracked[h].kept
                /\ tracked'[h].end # None => /\ tracked'[h].end = tracked[h].end
                                             /\ tracked'[h].readSeq = tracked[h].readSeq
  <2>1. CASE UNCHANGED tracked
    BY <2>1
  <2>2. ASSUME NEW k \in Txs, Enqueue(k)
        PROVE  tracked'[h] = tracked[h] \/ (~tracked'[h].kept /\ tracked'[h].end = None)
    BY <1>1, <2>2 DEF Enqueue, NewEntry, Types
  <2>3. CASE markReady
    <3>1. PICK k, n : \/ tracked' = tracked
                      \/ tracked[k] # None /\ tracked' = [tracked EXCEPT ![k].node = n]
      BY <2>3 DEF markReady
    <3>2. CASE tracked' = tracked \/ h # k
      BY <1>1, <3>1, <3>2 DEF Types
    <3>3. CASE tracked' = [tracked EXCEPT ![k].node = n] /\ h = k /\ tracked[h] # None
      <4>1. tracked[h] \in Entry /\ tracked'[h] = [tracked[h] EXCEPT !.node = n]
        BY <1>1, <3>3 DEF Types
      <4> QED
        BY <3>3, <4>1, SMTT(30) DEF Entry
    <3> QED
      BY <3>1, <3>2, <3>3
  <2>4. ASSUME NEW e \in Endorsers, EndorseFails(e) PROVE tracked'[h] \in {tracked[h], None}
    BY <1>1, <2>4 DEF EndorseFails, Types
  <2> QED
    BY <2>1, <2>2, <2>3, <2>4
<1>3. Uncommitted' /\ LoadedFirst'
  BY <1>2, EntriesFrame
<1>4. AllGood'
  BY GoodFrame
<1>5. Noted' /\ AllValid'
  BY BlocksFrame
<1> QED
  BY <1>3, <1>4, <1>5

\* Every step preserves the invariant.
LEMMA StepInv == Params /\ IInv /\ [Next]_vars => IInv'
<1> SUFFICES ASSUME Params, IInv, [Next]_vars PROVE IInv'
  OBVIOUS
<1>1. Types /\ PlaceInv /\ PlaceInv'
  BY StepPlaces DEF IInv, PlaceInv
<1> DEFINE More == Uncommitted /\ LoadedFirst /\ AllGood /\ Noted /\ AllValid
<1>2. CASE \/ \E h \in Txs : Enqueue(h)
           \/ batchLoop \/ Manager \/ markReady \/ StoreBlock \/ Close \/ UNCHANGED vars
  <2>1. UNCHANGED <<commitSeq, lastWrite, pool, ledger, work, endorsing>>
    BY <1>2 DEF Enqueue, batchLoop, Manager, Release, markReady, StoreBlock, Close, vars, queueVars,
                reuseVars, chainVars
  <2>2. UNCHANGED tracked \/ (\E h \in Txs : Enqueue(h)) \/ markReady
    BY <1>2 DEF batchLoop, Manager, Release, StoreBlock, Close, vars, queueVars
  <2>3. \A e \in Endorsers : endorsing'[e] \in {endorsing[e], None}
    BY <2>1
  <2> QED
    BY <1>1, <2>1, <2>2, <2>3, QuietStep DEF IInv
<1>3. ASSUME NEW e \in Endorsers, EndorseFails(e) PROVE More'
  <2>1. /\ UNCHANGED <<commitSeq, lastWrite, pool, ledger, work>>
        /\ endorsing' = [endorsing EXCEPT ![e] = None]
    BY <1>3 DEF EndorseFails, reuseVars, chainVars
  <2>2. \A f \in Endorsers : endorsing'[f] \in {endorsing[f], None}
    BY <1>1, <2>1 DEF Types
  <2> QED
    BY <1>3, <2>1, <2>2, QuietStep
<1>4. ASSUME NEW e \in Endorsers, TakeAdmitted(e) \/ Execute(e) \/ submitToManager(e) PROVE More'
  <2>1. UNCHANGED <<commitSeq, lastWrite, pool, ledger, work>>
    BY <1>4 DEF TakeAdmitted, Execute, submitToManager, reuseVars, chainVars
  <2>2. Uncommitted' /\ LoadedFirst'
    BY <1>4, TakesAndExecutes, KeepsEndorsement
  <2>3. AllGood' /\ Noted' /\ AllValid'
    BY <2>1, GoodFrame, BlocksFrame
  <2> QED
    BY <2>2, <2>3
<1>5. ASSUME NEW w \in Workers, Work(w) PROVE More'
  <2>1. UNCHANGED <<commitSeq, lastWrite, ledger, endorsing>>
    BY <1>5 DEF Work, Dequeue, WorkerStops, ReusableEndorsement, ExecuteEthTx, Submit, ProcessFails,
                queueVars, reuseVars, chainVars
  <2>2. ASSUME NEW h \in Txs
        PROVE  \/ tracked'[h] = None
               \/ /\ tracked[h] # None
                  /\ tracked'[h].kept => tracked[h].kept
                  /\ tracked'[h].end # None => /\ tracked'[h].end = tracked[h].end
                                               /\ tracked'[h].readSeq = tracked[h].readSeq
    <3>1. CASE ReusableEndorsement(w)
      <4>1. PICK k : k = work[w].tx
        OBVIOUS
      <4>2. /\ \A g \in Txs : g # k => tracked'[g] = tracked[g]
            /\ tracked[k] # None /\ (tracked'[k].kept <=> tracked[k].kept) /\ tracked'[k].end = None
        BY <1>1, <3>1, <4>1, ReuseTracks
      <4> QED
        BY <4>2
    <3>2. CASE ProcessFails(w)
      BY <3>2 DEF ProcessFails, Completed, Untracked
    <3>3. CASE ~ReusableEndorsement(w) /\ ~ProcessFails(w)
      BY <1>5, <3>3 DEF Work, Dequeue, WorkerStops, ExecuteEthTx, Submit, queueVars
    <3> QED
      BY <3>1, <3>2, <3>3
  <2>3. \A e \in Endorsers : endorsing'[e] \in {endorsing[e], None}
    BY <2>1
  <2>4. Uncommitted' /\ LoadedFirst'
    BY <2>1, <2>2, <2>3, EntriesFrame
  <2> QED
    BY <1>5, <2>1, <2>4, WorkersGood, BlocksFrame
<1>6. ASSUME Handle \/ CommitBlock PROVE More'
  BY <1>6, HandlesGood, CommitsGood
<1>7. ASSUME NEW h \in Txs, ForeignSubmit(h) PROVE FALSE
  BY <1>7 DEF ForeignSubmit, Params
<1>8. More'
  BY <1>2, <1>3, <1>4, <1>5, <1>6, <1>7 DEF Next, Endorse, IInv
<1> QED
  BY <1>1, <1>8 DEF IInv

\* The dependency-graph queue and its parties: every transaction is in one place and
\* tracked there, the endorsement kept for it is as fresh as the window says, and
\* whatever was submitted passes the committer's check.
THEOREM GraphInvariance == Params /\ Spec => [](Params /\ IInv)
<1>1. Params /\ Init => Params /\ IInv
  BY InitInv
<1>2. (Params /\ IInv) /\ [Next]_vars => (Params /\ IInv)'
  <2>1. Params => Params'
    BY DEF Params, Entry, Taken
  <2> QED
    BY <2>1, StepInv
<1> QED
  BY <1>1, <1>2, PTL DEF Spec

\* depgraph_queue.go: no two transactions that conflict are in flight at once, from
\* Dequeue until Handle has seen the block, and no endorsement, reused or made anew,
\* costs a transaction its validity.
THEOREM GraphIsSafe == Params /\ Spec => []GraphServesSafely
<1>1. Params /\ IInv => GraphServesSafely
  <2> SUFFICES ASSUME Params, IInv PROVE NeverClash /\ NoConflictAborts
    BY DEF GraphServesSafely
  <2>1. NeverClash
    BY Clash DEF IInv
  <2>2. NoConflictAborts
    BY DEF IInv, AllValid, NoConflictAborts, Range
  <2> QED
    BY <2>1, <2>2
<1> QED
  BY <1>1, GraphInvariance, PTL

=============================================================================
