----------------------------- MODULE HybridSync ------------------------------
(***************************************************************************)
(* synchronizer/hybridx: the two-phase start of a fabric-x node.  Delivery *)
(* replays history from the store's height, the notification stream brings *)
(* new blocks, and two atomics (claimed, dispatched) decide which of them  *)
(* runs the handler chain.  Every access to an atomic and every handler    *)
(* call is one step; a step of either goroutine may come between any two.  *)
(*                                                                         *)
(* The ledger, the delivery service of the SDK and the notification stream *)
(* are external: delivery offers block numbers in order from the store's   *)
(* height (redelivering the tip or not), the stream carries blocks         *)
(* committed while it is connected, in order, and may omit a block without *)
(* EVM transactions.  What it has not handed over when it fails is lost.   *)
(***************************************************************************)
EXTENDS Integers, FiniteSets

CONSTANTS NumHandlers,      \* length of the handler chain
          Reader,           \* position of the store that is the height reader
          MaxBlock,         \* bound: highest block the ledger commits
          MaxCrashes,       \* bound: process crashes
          MaxStreamFails,   \* bound: notification stream failures
          DeliveryMayFail   \* whether delivery.Start may return an error

ASSUME HybridAssumption ==
  /\ NumHandlers \in Nat \ {0}
  /\ Reader \in 1..NumHandlers
  /\ MaxBlock \in Nat
  /\ MaxCrashes \in Nat
  /\ MaxStreamFails \in Nat
  /\ DeliveryMayFail \in BOOLEAN

Handlers == 1..NumHandlers

MinInt64 == -2              \* the sentinel: real values of claimed are >= -1

VARIABLES
  tip,          \* highest committed block of the ledger, -1 before the first
  evmBlocks,    \* the committed blocks that hold EVM transactions
  height,       \* height[h]: highest block handler h has applied (its store)
  applied,      \* history: the blocks each handler has applied
  lost,         \* history: EVM blocks the stream failed to carry once switched
  last,         \* history: last block dispatched in this process life
  up,           \* the process runs
  claimed,      \* atomic: highest block claimed by either path
  dispatched,   \* atomic: highest block delivery has finished
  delivery,     \* "running", or "nil" once delivery.Start has returned
  cancelled,    \* deliveryCancel has been called
  dpc,          \* the delivery goroutine, in deliveryShim.Handle
  dnext,        \* the block delivery is handling or will offer next
  dstage,       \* the handler that delivery's dispatch calls next
  seeded, off,  \* fields of deliveryShim
  npc,          \* the notification goroutine, in notifGate.HandleBatch
  nblk,         \* the block of the batch it is handling
  nstage,       \* the handler that notification's dispatch calls next
  switched,     \* field of notifGate
  stream,       \* the notification stream is connected
  queue,        \* blocks in the streamer's channel, handled in number order
  crashes, streamFails

ledgerVars == <<tip, evmBlocks>>
storeVars  == <<height, applied, last>>
dVars      == <<delivery, dpc, dnext, dstage, seeded, off>>
nVars      == <<npc, nblk, nstage, switched>>
streamVars == <<stream, queue, lost>>
boundVars  == <<crashes, streamFails>>
vars == <<ledgerVars, storeVars, up, claimed, dispatched, cancelled,
          dVars, nVars, streamVars, boundVars>>

Higher(a, b) == IF a < b THEN b ELSE a

Init ==
  /\ tip = -1 /\ evmBlocks = {}
  /\ height = [h \in Handlers |-> -1]
  /\ applied = [h \in Handlers |-> {}]
  /\ lost = {}
  /\ last = MinInt64
  /\ up = FALSE
  /\ claimed = MinInt64 /\ dispatched = MinInt64
  /\ delivery = "running" /\ cancelled = FALSE
  /\ dpc = "idle" /\ dnext = 0 /\ dstage = 1 /\ seeded = FALSE /\ off = FALSE
  /\ npc = "idle" /\ nblk = 0 /\ nstage = 1 /\ switched = FALSE
  /\ stream = FALSE /\ queue = {}
  /\ crashes = 0 /\ streamFails = 0

-----------------------------------------------------------------------------
(* The ledger and the stream (external) *)

\* The committer commits the next block; the stream carries it when connected.
CommitBlock(evm, carried) ==
  LET n == tip + 1 IN
  /\ tip < MaxBlock
  /\ carried => stream
  /\ (evm /\ stream) => carried
  /\ tip' = n
  /\ evmBlocks' = IF evm THEN evmBlocks \cup {n} ELSE evmBlocks
  /\ queue' = IF carried THEN queue \cup {n} ELSE queue
  /\ lost' = IF evm /\ ~stream /\ switched THEN lost \cup {n} ELSE lost
  /\ UNCHANGED <<storeVars, up, claimed, dispatched, cancelled, dVars, nVars,
                 stream, boundVars>>

\* streamer.Stream connects; Start's loop calls it again after an error.
StreamConnect ==
  /\ up /\ ~stream
  /\ stream' = TRUE
  /\ UNCHANGED <<ledgerVars, storeVars, up, claimed, dispatched, cancelled,
                 dVars, nVars, queue, lost, boundVars>>

\* streamer.Stream returns an error, once its handler goroutine has exited.
StreamFail ==
  /\ stream /\ npc = "idle"
  /\ streamFails < MaxStreamFails
  /\ stream' = FALSE
  /\ queue' = {}
  /\ lost' = IF switched THEN lost \cup (queue \cap evmBlocks) ELSE lost
  /\ streamFails' = streamFails + 1
  /\ UNCHANGED <<ledgerVars, storeVars, up, claimed, dispatched, cancelled,
                 dVars, nVars, crashes>>

-----------------------------------------------------------------------------
(* dispatch: the handler chain *)

\* Mutant: a redelivered block moves the store's height back.
HeightFollowsBlock(h, n) ==
  /\ height' = [height EXCEPT ![h] = n]
  /\ applied' = [applied EXCEPT ![h] = @ \cup {n}]

\* One handler of the chain applies block n.  A store that already holds n
\* skips it (LightKVS.Handle, Store.InsertBlock).
HandlerApplies(h, n) ==
  /\ height' = [height EXCEPT ![h] = Higher(@, n)]
  /\ applied' = [applied EXCEPT ![h] = @ \cup {n}]

-----------------------------------------------------------------------------
(* deliveryShim.Handle, on the delivery goroutine *)

DeliveryReceive ==
  /\ up /\ delivery = "running" /\ dpc = "idle" /\ dnext <= tip
  /\ IF off THEN dnext' = dnext + 1 /\ UNCHANGED dpc
            ELSE dpc' = (IF seeded THEN "claim" ELSE "seed") /\ UNCHANGED dnext
  /\ UNCHANGED <<ledgerVars, storeVars, up, claimed, dispatched, cancelled,
                 delivery, dstage, seeded, off, nVars, streamVars, boundVars>>

DeliverySeed ==
  /\ dpc = "seed"
  /\ seeded' = TRUE
  /\ IF claimed = MinInt64 THEN claimed' = dnext - 1 /\ dpc' = "seedDispatched"
                           ELSE UNCHANGED claimed /\ dpc' = "panic"
  /\ UNCHANGED <<ledgerVars, storeVars, up, dispatched, cancelled, delivery,
                 dnext, dstage, off, nVars, streamVars, boundVars>>

DeliverySeedDispatched ==
  /\ dpc = "seedDispatched"
  /\ dispatched' = dnext - 1
  /\ dpc' = "claim"
  /\ UNCHANGED <<ledgerVars, storeVars, up, claimed, cancelled, delivery,
                 dnext, dstage, seeded, off, nVars, streamVars, boundVars>>

\* Mutant: claimed is stored instead of compared and swapped.
ClaimWithoutCompare ==
  /\ dpc = "claim"
  /\ claimed' = dnext /\ dpc' = "run" /\ dstage' = 1 /\ last' = dnext
  /\ UNCHANGED <<ledgerVars, height, applied, up, dispatched, cancelled,
                 delivery, dnext, off, seeded, nVars, streamVars, boundVars>>

DeliveryClaim ==
  /\ dpc = "claim"
  /\ IF claimed = dnext - 1
       THEN /\ claimed' = dnext /\ dpc' = "run" /\ dstage' = 1 /\ last' = dnext
            /\ UNCHANGED <<off, dnext>>
       ELSE /\ off' = TRUE /\ dpc' = "idle" /\ dnext' = dnext + 1
            /\ UNCHANGED <<claimed, dstage, last>>
  /\ UNCHANGED <<ledgerVars, height, applied, up, dispatched, cancelled,
                 delivery, seeded, nVars, streamVars, boundVars>>

DeliveryHandle ==
  /\ dpc = "run"
  /\ HandlerApplies(dstage, dnext)
  /\ IF dstage = NumHandlers THEN dpc' = "publish" /\ dstage' = 1
                             ELSE dstage' = dstage + 1 /\ UNCHANGED dpc
  /\ UNCHANGED <<ledgerVars, last, up, claimed, dispatched, cancelled,
                 delivery, dnext, seeded, off, nVars, streamVars, boundVars>>

\* Mutant: the store of dispatched after the handler chain is forgotten.
PublishForgotten ==
  /\ dpc = "publish"
  /\ dpc' = "idle" /\ dnext' = dnext + 1
  /\ UNCHANGED <<ledgerVars, storeVars, up, claimed, dispatched, cancelled,
                 delivery, dstage, seeded, off, nVars, streamVars, boundVars>>

DeliveryPublish ==
  /\ dpc = "publish"
  /\ dispatched' = dnext
  /\ dpc' = "idle" /\ dnext' = dnext + 1
  /\ UNCHANGED <<ledgerVars, storeVars, up, claimed, cancelled, delivery,
                 dstage, seeded, off, nVars, streamVars, boundVars>>

\* delivery.Start returns, because it was cancelled or because it failed; the
\* goroutine of Start clears h.delivery either way and never restarts it.
DeliveryReturns ==
  /\ up /\ delivery = "running" /\ dpc = "idle"
  /\ cancelled \/ DeliveryMayFail
  /\ delivery' = "nil"
  /\ UNCHANGED <<ledgerVars, storeVars, up, claimed, dispatched, cancelled,
                 dpc, dnext, dstage, seeded, off, nVars, streamVars, boundVars>>

-----------------------------------------------------------------------------
(* notifGate.HandleBatch, on the streamer's handler goroutine *)

IsNextBatch(n) == n \in queue /\ \A m \in queue : n <= m

\* HandleBatch before the switch: one compare-and-swap decides.
NotifClaim(n) ==
  /\ npc = "idle" /\ ~switched /\ IsNextBatch(n)
  /\ queue' = queue \ {n}
  /\ IF claimed = n - 1
       THEN claimed' = n /\ nblk' = n /\ npc' = "wait"
       ELSE UNCHANGED <<claimed, nblk, npc>>
  /\ UNCHANGED <<ledgerVars, storeVars, up, dispatched, cancelled, dVars,
                 nstage, switched, stream, lost, boundVars>>

\* Mutant: notification takes over as soon as it owns a block.
TakeOverAtOnce ==
  /\ npc = "wait"
  /\ npc' = "switch"
  /\ UNCHANGED <<ledgerVars, storeVars, up, claimed, dispatched, cancelled,
                 dVars, nblk, nstage, switched, streamVars, boundVars>>

\* waitForDelivery polls deliveryReached(nblk - 1).  It also gives up when its context,
\* which is taken to be Start's, is done: the process is ending, and that is Crash.
NotifWait ==
  /\ npc = "wait" /\ dispatched >= nblk - 1
  /\ npc' = IF dispatched > nblk - 1 THEN "panic" ELSE "switch"
  /\ UNCHANGED <<ledgerVars, storeVars, up, claimed, dispatched, cancelled,
                 dVars, nblk, nstage, switched, streamVars, boundVars>>

NotifSwitch ==
  /\ npc = "switch"
  /\ cancelled' = TRUE
  /\ switched' = TRUE
  /\ npc' = "dispatch"
  /\ UNCHANGED <<ledgerVars, storeVars, up, claimed, dispatched, dVars, nblk,
                 nstage, streamVars, boundVars>>

\* HandleBatch after the switch goes straight to dispatchBatch.
NotifBatch(n) ==
  /\ npc = "idle" /\ switched /\ IsNextBatch(n)
  /\ queue' = queue \ {n}
  /\ nblk' = n /\ npc' = "dispatch"
  /\ UNCHANGED <<ledgerVars, storeVars, up, claimed, dispatched, cancelled,
                 dVars, nstage, switched, stream, lost, boundVars>>

\* AllTxBatchDispatcher.HandleBatch: a batch without EVM transactions is not
\* dispatched at all.
NotifDispatch ==
  /\ npc = "dispatch"
  /\ IF nblk \in evmBlocks THEN npc' = "run" /\ nstage' = 1 /\ last' = nblk
                           ELSE npc' = "idle" /\ UNCHANGED <<nstage, last>>
  /\ UNCHANGED <<ledgerVars, height, applied, up, claimed, dispatched,
                 cancelled, dVars, nblk, switched, streamVars, boundVars>>

NotifHandle ==
  /\ npc = "run"
  /\ HandlerApplies(nstage, nblk)
  /\ IF nstage = NumHandlers THEN npc' = "idle" /\ nstage' = 1
                             ELSE nstage' = nstage + 1 /\ UNCHANGED npc
  /\ UNCHANGED <<ledgerVars, last, up, claimed, dispatched, cancelled, dVars,
                 nblk, switched, streamVars, boundVars>>

-----------------------------------------------------------------------------
(* Process life *)

\* A handler error or a protocol violation panics, a signal shuts down, the
\* machine fails: the stores stay, everything in memory is gone.
Crash ==
  /\ up /\ crashes < MaxCrashes
  /\ up' = FALSE
  /\ crashes' = crashes + 1
  /\ last' = MinInt64
  /\ claimed' = MinInt64 /\ dispatched' = MinInt64 /\ cancelled' = FALSE
  /\ delivery' = "running"
  /\ dpc' = "idle" /\ dnext' = 0 /\ dstage' = 1 /\ seeded' = FALSE /\ off' = FALSE
  /\ npc' = "idle" /\ nblk' = 0 /\ nstage' = 1 /\ switched' = FALSE
  /\ stream' = FALSE /\ queue' = {}
  /\ UNCHANGED <<ledgerVars, height, applied, lost, streamFails>>

\* Mutant: delivery resumes from the first handler's store, not the last one's.
ResumeFromFirstStore ==
  /\ ~up
  /\ up' = TRUE
  /\ dnext' \in {height[1], height[1] + 1} \cap Nat
  /\ UNCHANGED <<ledgerVars, storeVars, claimed, dispatched, cancelled,
                 delivery, dpc, dstage, seeded, off, nVars, streamVars, boundVars>>

\* HybridSynchronizer.Start: delivery resumes from the height reader. Whether
\* the SDK asks for the reader's block again or for the next is left open.
Start ==
  /\ ~up
  /\ up' = TRUE
  /\ dnext' \in {height[Reader], height[Reader] + 1} \cap Nat
  /\ UNCHANGED <<ledgerVars, storeVars, claimed, dispatched, cancelled,
                 delivery, dpc, dstage, seeded, off, nVars, streamVars, boundVars>>

DeliveryNext == DeliveryReceive \/ DeliverySeed \/ DeliverySeedDispatched
                \/ DeliveryClaim \/ DeliveryHandle \/ DeliveryPublish

NotifNext == (\E n \in queue : NotifClaim(n) \/ NotifBatch(n)) \/ NotifWait
             \/ NotifSwitch \/ NotifDispatch \/ NotifHandle

Next ==
  \/ DeliveryNext
  \/ NotifNext
  \/ DeliveryReturns
  \/ \E evm, carried \in BOOLEAN : CommitBlock(evm, carried)
  \/ StreamConnect
  \/ StreamFail
  \/ Crash
  \/ Start

Spec == Init /\ [][Next]_vars

\* Both goroutines keep running, the process is restarted, the stream retried.
Fairness == WF_vars(DeliveryNext) /\ WF_vars(NotifNext) /\ WF_vars(StreamConnect)
            /\ WF_vars(Start)

FairSpec == Spec /\ Fairness

-----------------------------------------------------------------------------
(* Properties *)

\* Type invariant.  Every variable keeps its shape; the process counters stay
\* within their bounds.
TypeOK ==
  /\ tip \in Int /\ tip >= -1
  /\ evmBlocks \in SUBSET Nat
  /\ height \in [Handlers -> Int]
  /\ applied \in [Handlers -> SUBSET Nat]
  /\ lost \in SUBSET Nat
  /\ last \in Int
  /\ up \in BOOLEAN /\ cancelled \in BOOLEAN
  /\ claimed \in Int /\ dispatched \in Int
  /\ delivery \in {"running", "nil"}
  /\ dpc \in {"idle", "seed", "seedDispatched", "claim", "run", "publish", "panic"}
  /\ dnext \in Nat /\ dstage \in Handlers
  /\ seeded \in BOOLEAN /\ off \in BOOLEAN
  /\ npc \in {"idle", "wait", "switch", "dispatch", "run", "panic"}
  /\ nblk \in Nat /\ nstage \in Handlers
  /\ switched \in BOOLEAN /\ stream \in BOOLEAN
  /\ queue \in SUBSET Nat
  /\ crashes \in 0..MaxCrashes /\ streamFails \in 0..MaxStreamFails

\* hybrid.go:11-13 "the two never run the handler chain at the same time".
NeverOverlap == ~(dpc = "run" /\ npc = "run")

\* hybrid.go:338 "cancelling it here cannot abort a dispatch mid-flight": once
\* deliveryCancel is called delivery has no dispatch in progress and can begin
\* none, although its goroutine may still be about to attempt a claim.
CancelNeverAbortsDispatch ==
  cancelled => /\ dpc \notin {"run", "publish"}
               /\ dpc = "claim" => claimed >= dnext

\* The two panics that guard the protocol itself (hybrid.go:258 and :380) are
\* unreachable in every interleaving.
ProtocolNeverPanics == dpc # "panic" /\ npc # "panic"

\* hybrid.go:43-44 speaks of holes neither path will ever fill.  Below the
\* height that a restart resumes from, the stores up to the height reader lack
\* an EVM block only if the notification stream failed after the switch.
HolesOnlyFromStreamLoss ==
  \A h \in 1..Reader : \A b \in evmBlocks :
    b <= height[Reader] => b \in applied[h] \cup lost

\* The same without the excuse: "exactly one path ever dispatches it"
\* (hybrid.go:12) for every EVM block below the resume height.
EveryBlockDispatched ==
  \A h \in 1..Reader : \A b \in evmBlocks : b <= height[Reader] => b \in applied[h]

\* The handlers are called in the order app.go:240 lists them, so across any
\* crash and redelivery no store is ever ahead of one listed before it: what
\* the gateway has marked complete is in the chain, what is in the chain is in
\* the endorser's state.
LaterHandlersBehind ==
  \A h \in Handlers : h > 1 => height[h] <= height[h - 1]

\* Within one process life a block enters the handler chain at most once, and
\* never after a higher one (synchronizer.go:36 "in order").
EachBlockOnceInOrder ==
  [][last' # last => last' > last \/ crashes' # crashes]_vars

\* As long as neither the stream nor, before the switch, delivery fails, every
\* committed EVM block reaches every handler that comes up to the height reader,
\* whichever path has to bring it and across a crash.
Disturbed == streamFails > 0 \/ (delivery = "nil" /\ ~switched)
EveryBlockArrives ==
  \A b \in 0..MaxBlock :
    (b \in evmBlocks) ~> (Disturbed \/ \A h \in 1..Reader : b \in applied[h])

\* What the handlers see is one serial feed.
Feed == INSTANCE BlockFeed WITH
  cur   <- IF dpc = "run" THEN dnext ELSE IF npc = "run" THEN nblk ELSE MinInt64,
  stage <- IF dpc = "run" THEN dstage ELSE IF npc = "run" THEN nstage ELSE 1,
  live  <- switched

\* The two racing goroutines together implement the serial feed of BlockFeed.
ImplementsFeed == Feed!Spec
==============================================================================
