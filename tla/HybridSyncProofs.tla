-------------------------- MODULE HybridSyncProofs ---------------------------
(***************************************************************************)
(* The claim protocol of hybridx is correct for every ledger, every length *)
(* of the handler chain and any number of crashes and stream failures.     *)
(***************************************************************************)
EXTENDS HybridSync, TLAPS

\* Zenon proves most steps; the others name Z3 and its time.
USE ZenonT(30)

\* Notification owns the next block, or everything from now on.
Taken == npc \in {"wait", "switch"} \/ switched

\* A process that is down, or has not been seeded, has claimed nothing.
QuietInv ==
  /\ ~up => /\ ~seeded /\ dpc = "idle" /\ ~stream /\ queue = {}
            /\ delivery = "running"
  /\ ~seeded => /\ claimed = MinInt64 /\ dispatched = MinInt64
                /\ dpc \in {"idle", "seed"} /\ npc = "idle"
                /\ ~switched /\ ~off
  /\ dpc = "seed" => ~seeded
  /\ cancelled = switched

\* Where claimed and dispatched stand at each point of deliveryShim.Handle.
DeliveryInv ==
  /\ seeded /\ ~off =>
       /\ dispatched = IF dpc = "seedDispatched" THEN MinInt64 ELSE dnext - 1
       /\ ~Taken => claimed = IF dpc \in {"run", "publish"} THEN dnext ELSE dnext - 1
       /\ Taken  => claimed = IF dpc \in {"run", "publish"} THEN dnext + 1 ELSE dnext
  /\ off => Taken /\ dpc = "idle" /\ seeded
  /\ dpc # "panic"

\* What notification knows at each point of notifGate.HandleBatch.
NotifInv ==
  /\ npc \in {"wait", "switch"} => ~switched /\ nblk = claimed
  /\ npc = "wait" /\ off => dispatched = claimed - 1
  /\ npc = "switch" \/ switched => dispatched = claimed - 1
  /\ npc \in {"dispatch", "run"} => switched
  /\ npc # "panic"

IInv == TypeOK /\ QuietInv /\ DeliveryInv /\ NotifInv

\* Block numbers: what is queued is committed, in the order of the stream.
QueueInv ==
  /\ \A m \in queue : m <= tip
  /\ \A b \in evmBlocks : b <= tip
  /\ Taken => nblk <= tip /\ \A m \in queue : m > nblk
  /\ dpc # "idle" => up /\ dnext <= tip
  /\ npc # "idle" => stream
  /\ queue # {} => stream
  /\ stream => up

\* Where the last dispatched block stands relative to the next one, and where
\* the first block of a process life stands relative to the resume height.
OrderInv ==
  /\ last = MinInt64 \/ last >= 0
  /\ ~seeded => last = MinInt64
  /\ up /\ ~off /\ last = MinInt64 => dnext \in {height[Reader], height[Reader] + 1}
  /\ seeded /\ ~off /\ ~switched /\ last # MinInt64 /\ dpc \notin {"run", "publish"}
       => last = dnext - 1
  /\ dpc \in {"run", "publish"} => last = dnext
  /\ Taken /\ last = MinInt64 => nblk >= height[Reader]
  /\ npc \in {"wait", "switch", "dispatch"} => last < nblk
  /\ npc = "run" => last = nblk
  /\ switched => last <= nblk

\* The stores: heights respect the handler order, delivery fills without gaps,
\* and after the switch only a lost block can be missing behind nblk.
StoreInv ==
  /\ \A g, h \in Handlers : g <= h => height[h] <= height[g]
  /\ \A h \in Handlers : height[h] <= tip
  /\ dpc = "run" => \A h \in Handlers : h < dstage => height[h] >= dnext
  /\ npc = "run" => \A h \in Handlers : h < nstage => height[h] >= nblk
  /\ dpc = "publish" => \A h \in Handlers : height[h] >= dnext
  /\ up /\ ~off /\ ~switched => \A h \in 1..Reader : height[h] >= dnext - 1
  /\ npc \in {"wait", "switch"} /\ off => \A h \in 1..Reader : height[h] >= nblk - 1

HoleInv ==
  /\ \A h \in 1..Reader : \A b \in evmBlocks :
       b <= height[h] => b \in applied[h] \cup lost
  /\ ~Taken => \A m \in queue : \A b \in evmBlocks : b > m => b \in queue
  /\ Taken => \A b \in evmBlocks : b > nblk => b \in queue \cup lost
  /\ npc = "switch" \/ switched =>
       \A h \in 1..Reader : \A b \in evmBlocks :
         b < nblk \/ (b = nblk /\ npc = "idle") => b \in applied[h] \cup lost
  /\ npc = "run" => \A h \in 1..Reader : h < nstage => nblk \in applied[h]

FullInv == IInv /\ QueueInv /\ OrderInv /\ StoreInv /\ HoleInv

-----------------------------------------------------------------------------
\* Type correctness is inductive on its own.
LEMMA TypeStep == TypeOK /\ [Next]_vars => TypeOK'
<1> SUFFICES ASSUME TypeOK, [Next]_vars PROVE TypeOK'
  OBVIOUS
<1> USE HybridAssumption DEF HybridAssumption, Handlers
<1>1. CASE DeliveryReceive
  BY <1>1, SMTT(30) DEF TypeOK, DeliveryReceive,
     ledgerVars, storeVars, dVars, nVars, streamVars, boundVars
<1>2. CASE DeliverySeed
  BY <1>2, SMTT(30) DEF TypeOK, DeliverySeed,
     ledgerVars, storeVars, dVars, nVars, streamVars, boundVars
<1>3. CASE DeliverySeedDispatched
  BY <1>3, SMTT(30) DEF TypeOK, DeliverySeedDispatched,
     ledgerVars, storeVars, dVars, nVars, streamVars, boundVars
<1>4. CASE DeliveryClaim
  <2>1. CASE claimed = dnext - 1
    BY <1>4, <2>1, SMTT(30) DEF TypeOK, DeliveryClaim,
       ledgerVars, storeVars, dVars, nVars, streamVars, boundVars
  <2>2. CASE claimed # dnext - 1
    BY <1>4, <2>2, SMTT(30) DEF TypeOK, DeliveryClaim,
       ledgerVars, storeVars, dVars, nVars, streamVars, boundVars
  <2> QED
    BY <2>1, <2>2
<1>5. CASE DeliveryHandle
  BY <1>5, SMTT(30) DEF TypeOK, DeliveryHandle, HandlerApplies, Higher,
     ledgerVars, storeVars, dVars, nVars, streamVars, boundVars
<1>6. CASE DeliveryPublish
  BY <1>6, SMTT(30) DEF TypeOK, DeliveryPublish,
     ledgerVars, storeVars, dVars, nVars, streamVars, boundVars
<1>7. CASE DeliveryReturns
  BY <1>7 DEF TypeOK, DeliveryReturns,
     ledgerVars, storeVars, dVars, nVars, streamVars, boundVars
<1>8. CASE NotifWait
  BY <1>8, SMTT(30) DEF TypeOK, NotifWait,
     ledgerVars, storeVars, dVars, nVars, streamVars, boundVars
<1>9. CASE NotifSwitch
  BY <1>9, SMTT(30) DEF TypeOK, NotifSwitch,
     ledgerVars, storeVars, dVars, nVars, streamVars, boundVars
<1>10. CASE NotifDispatch
  BY <1>10, SMTT(30) DEF TypeOK, NotifDispatch,
     ledgerVars, storeVars, dVars, nVars, streamVars, boundVars
<1>11. CASE NotifHandle
  BY <1>11, SMTT(30) DEF TypeOK, NotifHandle, HandlerApplies, Higher,
     ledgerVars, storeVars, dVars, nVars, streamVars, boundVars
<1>12. CASE StreamConnect
  BY <1>12, SMTT(30) DEF TypeOK, StreamConnect,
     ledgerVars, storeVars, dVars, nVars, streamVars, boundVars
<1>13. CASE StreamFail
  <2>1. lost' \in SUBSET Nat
    BY <1>13 DEF TypeOK, StreamFail
  <2>2. streamFails' \in 0..MaxStreamFails
    BY <1>13, SMTT(30) DEF TypeOK, StreamFail
  <2> QED
    BY <1>13, <2>1, <2>2 DEF TypeOK, StreamFail,
       ledgerVars, storeVars, dVars, nVars, streamVars, boundVars
<1>14. CASE Crash
  <2>1. crashes' \in 0..MaxCrashes
    BY <1>14, SMTT(30) DEF TypeOK, Crash
  <2>2. /\ dstage' \in Handlers /\ nstage' \in Handlers
        /\ dnext' \in Nat /\ nblk' \in Nat /\ queue' \in SUBSET Nat
        /\ last' \in Int /\ claimed' \in Int /\ dispatched' \in Int
    BY <1>14, SMTT(30) DEF Crash, MinInt64
  <2> QED
    BY <1>14, <2>1, <2>2 DEF TypeOK, Crash, MinInt64,
       ledgerVars, storeVars, dVars, nVars, streamVars, boundVars
<1>15. CASE Start
  BY <1>15, SMTT(30) DEF TypeOK, Start,
     ledgerVars, storeVars, dVars, nVars, streamVars, boundVars
<1>16. ASSUME NEW n \in queue, NotifClaim(n) PROVE TypeOK'
  BY <1>16, SMTT(30) DEF TypeOK, NotifClaim,
     ledgerVars, storeVars, dVars, nVars, streamVars, boundVars
<1>17. ASSUME NEW n \in queue, NotifBatch(n) PROVE TypeOK'
  BY <1>17, SMTT(30) DEF TypeOK, NotifBatch,
     ledgerVars, storeVars, dVars, nVars, streamVars, boundVars
<1>18. ASSUME NEW evm \in BOOLEAN, NEW carried \in BOOLEAN,
             CommitBlock(evm, carried)
      PROVE  TypeOK'
  BY <1>18, SMTT(30) DEF TypeOK, CommitBlock,
     ledgerVars, storeVars, dVars, nVars, streamVars, boundVars
<1>19. CASE UNCHANGED vars
  BY <1>19, SMTT(30) DEF TypeOK, vars,
     ledgerVars, storeVars, dVars, nVars, streamVars, boundVars
<1> QED
  BY <1>1, <1>2, <1>3, <1>4, <1>5, <1>6, <1>7, <1>8, <1>9, <1>10, <1>11, <1>12, <1>13, <1>14, <1>15, <1>16, <1>17, <1>18, <1>19
     DEF Next, DeliveryNext, NotifNext

\* The claim protocol keeps its invariant: one step per action.
LEMMA ProtocolStep == IInv /\ [Next]_vars => (QuietInv /\ DeliveryInv /\ NotifInv)'
<1> SUFFICES ASSUME IInv, [Next]_vars
             PROVE  (QuietInv /\ DeliveryInv /\ NotifInv)'
  OBVIOUS
<1> USE DEF IInv, TypeOK, QuietInv, DeliveryInv, NotifInv, Taken, MinInt64
<1>1. CASE DeliveryReceive
  BY <1>1 DEF DeliveryReceive,
     ledgerVars, storeVars, dVars, nVars, streamVars, boundVars
<1>2. CASE DeliverySeed
  BY <1>2 DEF DeliverySeed,
     ledgerVars, storeVars, dVars, nVars, streamVars, boundVars
<1>3. CASE DeliverySeedDispatched
  BY <1>3 DEF DeliverySeedDispatched,
     ledgerVars, storeVars, dVars, nVars, streamVars, boundVars
<1>4. CASE DeliveryClaim
  BY <1>4, SMTT(30) DEF DeliveryClaim,
     ledgerVars, storeVars, dVars, nVars, streamVars, boundVars
<1>5. CASE DeliveryHandle
  BY <1>5 DEF DeliveryHandle,
     ledgerVars, storeVars, dVars, nVars, streamVars, boundVars
<1>6. CASE DeliveryPublish
  BY <1>6, SMTT(30) DEF DeliveryPublish,
     ledgerVars, storeVars, dVars, nVars, streamVars, boundVars
<1>7. CASE DeliveryReturns
  BY <1>7 DEF DeliveryReturns,
     ledgerVars, storeVars, dVars, nVars, streamVars, boundVars
<1>8. CASE NotifWait
  BY <1>8, SMTT(30) DEF NotifWait,
     ledgerVars, storeVars, dVars, nVars, streamVars, boundVars
<1>9. CASE NotifSwitch
  BY <1>9 DEF NotifSwitch,
     ledgerVars, storeVars, dVars, nVars, streamVars, boundVars
<1>10. CASE NotifDispatch
  BY <1>10 DEF NotifDispatch,
     ledgerVars, storeVars, dVars, nVars, streamVars, boundVars
<1>11. CASE NotifHandle
  BY <1>11 DEF NotifHandle,
     ledgerVars, storeVars, dVars, nVars, streamVars, boundVars
<1>12. CASE StreamConnect
  BY <1>12 DEF StreamConnect,
     ledgerVars, storeVars, dVars, nVars, streamVars, boundVars
<1>13. CASE StreamFail
  BY <1>13 DEF StreamFail,
     ledgerVars, storeVars, dVars, nVars, streamVars, boundVars
<1>14. CASE Crash
  BY <1>14 DEF Crash,
     ledgerVars, storeVars, dVars, nVars, streamVars, boundVars
<1>15. CASE Start
  BY <1>15 DEF Start,
     ledgerVars, storeVars, dVars, nVars, streamVars, boundVars
<1>16. ASSUME NEW n \in queue, NotifClaim(n) PROVE (QuietInv /\ DeliveryInv /\ NotifInv)'
  BY <1>16, SMTT(30) DEF NotifClaim,
     ledgerVars, storeVars, dVars, nVars, streamVars, boundVars
<1>17. ASSUME NEW n \in queue, NotifBatch(n) PROVE (QuietInv /\ DeliveryInv /\ NotifInv)'
  BY <1>17 DEF NotifBatch,
     ledgerVars, storeVars, dVars, nVars, streamVars, boundVars
<1>18. ASSUME NEW evm \in BOOLEAN, NEW carried \in BOOLEAN,
             CommitBlock(evm, carried)
      PROVE  (QuietInv /\ DeliveryInv /\ NotifInv)'
  BY <1>18 DEF CommitBlock,
     ledgerVars, storeVars, dVars, nVars, streamVars, boundVars
<1>19. CASE UNCHANGED vars
  BY <1>19 DEF vars,
     ledgerVars, storeVars, dVars, nVars, streamVars, boundVars
<1> QED
  BY <1>1, <1>2, <1>3, <1>4, <1>5, <1>6, <1>7, <1>8, <1>9, <1>10, <1>11, <1>12, <1>13, <1>14, <1>15, <1>16, <1>17, <1>18, <1>19
     DEF Next, DeliveryNext, NotifNext

\* The stream hands over committed blocks in order.
LEMMA QueueStep == FullInv /\ [Next]_vars => QueueInv'
<1> SUFFICES ASSUME FullInv, [Next]_vars PROVE QueueInv'
  OBVIOUS
<1> USE HybridAssumption DEF HybridAssumption, Handlers, MinInt64, Taken, FullInv, IInv, TypeOK,
        QuietInv, DeliveryInv, NotifInv, QueueInv
<1>1. CASE DeliveryReceive
  BY <1>1 DEF DeliveryReceive,
     ledgerVars, storeVars, dVars, nVars, streamVars, boundVars
<1>2. CASE DeliverySeed
  BY <1>2 DEF DeliverySeed,
     ledgerVars, storeVars, dVars, nVars, streamVars, boundVars
<1>3. CASE DeliverySeedDispatched
  BY <1>3 DEF DeliverySeedDispatched,
     ledgerVars, storeVars, dVars, nVars, streamVars, boundVars
<1>4. CASE DeliveryClaim
  BY <1>4 DEF DeliveryClaim,
     ledgerVars, storeVars, dVars, nVars, streamVars, boundVars
<1>5. CASE DeliveryHandle
  BY <1>5 DEF DeliveryHandle,
     ledgerVars, storeVars, dVars, nVars, streamVars, boundVars
<1>6. CASE DeliveryPublish
  BY <1>6 DEF DeliveryPublish,
     ledgerVars, storeVars, dVars, nVars, streamVars, boundVars
<1>7. CASE DeliveryReturns
  BY <1>7 DEF DeliveryReturns,
     ledgerVars, storeVars, dVars, nVars, streamVars, boundVars
<1>8. CASE NotifWait
  BY <1>8 DEF NotifWait,
     ledgerVars, storeVars, dVars, nVars, streamVars, boundVars
<1>9. CASE NotifSwitch
  BY <1>9 DEF NotifSwitch,
     ledgerVars, storeVars, dVars, nVars, streamVars, boundVars
<1>10. CASE NotifDispatch
  BY <1>10 DEF NotifDispatch,
     ledgerVars, storeVars, dVars, nVars, streamVars, boundVars
<1>11. CASE NotifHandle
  BY <1>11 DEF NotifHandle,
     ledgerVars, storeVars, dVars, nVars, streamVars, boundVars
<1>12. CASE StreamConnect
  BY <1>12 DEF StreamConnect,
     ledgerVars, storeVars, dVars, nVars, streamVars, boundVars
<1>13. CASE StreamFail
  BY <1>13 DEF StreamFail,
     ledgerVars, storeVars, dVars, nVars, streamVars, boundVars
<1>14. CASE Crash
  BY <1>14 DEF Crash,
     ledgerVars, storeVars, dVars, nVars, streamVars, boundVars
<1>15. CASE Start
  BY <1>15 DEF Start,
     ledgerVars, storeVars, dVars, nVars, streamVars, boundVars
<1>16. ASSUME NEW n \in queue, NotifClaim(n) PROVE QueueInv'
  BY <1>16, SMTT(30) DEF NotifClaim, IsNextBatch,
     ledgerVars, storeVars, dVars, nVars, streamVars, boundVars
<1>17. ASSUME NEW n \in queue, NotifBatch(n) PROVE QueueInv'
  BY <1>17, SMTT(30) DEF NotifBatch, IsNextBatch,
     ledgerVars, storeVars, dVars, nVars, streamVars, boundVars
<1>18. ASSUME NEW evm \in BOOLEAN, NEW carried \in BOOLEAN,
             CommitBlock(evm, carried)
      PROVE  QueueInv'
  BY <1>18, SMTT(30) DEF CommitBlock,
     ledgerVars, storeVars, dVars, nVars, streamVars, boundVars
<1>19. CASE UNCHANGED vars
  BY <1>19 DEF vars,
     ledgerVars, storeVars, dVars, nVars, streamVars, boundVars
<1> QED
  BY <1>1, <1>2, <1>3, <1>4, <1>5, <1>6, <1>7, <1>8, <1>9, <1>10, <1>11, <1>12, <1>13, <1>14, <1>15, <1>16, <1>17, <1>18, <1>19
     DEF Next, DeliveryNext, NotifNext

\* Dispatched block numbers grow, from the resume height on.
LEMMA OrderStep == FullInv /\ [Next]_vars => OrderInv'
<1> SUFFICES ASSUME FullInv, [Next]_vars PROVE OrderInv'
  OBVIOUS
<1> USE HybridAssumption DEF HybridAssumption, Handlers, MinInt64, Taken, FullInv, IInv, TypeOK,
        QuietInv, DeliveryInv, NotifInv, QueueInv, OrderInv
<1>1. CASE DeliveryReceive
  BY <1>1 DEF DeliveryReceive,
     ledgerVars, storeVars, dVars, nVars, streamVars, boundVars
<1>2. CASE DeliverySeed
  BY <1>2 DEF DeliverySeed,
     ledgerVars, storeVars, dVars, nVars, streamVars, boundVars
<1>3. CASE DeliverySeedDispatched
  BY <1>3 DEF DeliverySeedDispatched,
     ledgerVars, storeVars, dVars, nVars, streamVars, boundVars
<1>4. CASE DeliveryClaim
  BY <1>4, SMTT(30) DEF DeliveryClaim,
     ledgerVars, storeVars, dVars, nVars, streamVars, boundVars
<1>5. CASE DeliveryHandle
  BY <1>5, SMTT(30) DEF DeliveryHandle, HandlerApplies, Higher,
     ledgerVars, storeVars, dVars, nVars, streamVars, boundVars
<1>6. CASE DeliveryPublish
  BY <1>6, SMTT(30) DEF DeliveryPublish,
     ledgerVars, storeVars, dVars, nVars, streamVars, boundVars
<1>7. CASE DeliveryReturns
  BY <1>7 DEF DeliveryReturns,
     ledgerVars, storeVars, dVars, nVars, streamVars, boundVars
<1>8. CASE NotifWait
  BY <1>8 DEF NotifWait,
     ledgerVars, storeVars, dVars, nVars, streamVars, boundVars
<1>9. CASE NotifSwitch
  BY <1>9, SMTT(30) DEF NotifSwitch,
     ledgerVars, storeVars, dVars, nVars, streamVars, boundVars
<1>10. CASE NotifDispatch
  BY <1>10, SMTT(30) DEF NotifDispatch,
     ledgerVars, storeVars, dVars, nVars, streamVars, boundVars
<1>11. CASE NotifHandle
  BY <1>11, SMTT(30) DEF NotifHandle, HandlerApplies, Higher,
     ledgerVars, storeVars, dVars, nVars, streamVars, boundVars
<1>12. CASE StreamConnect
  BY <1>12 DEF StreamConnect,
     ledgerVars, storeVars, dVars, nVars, streamVars, boundVars
<1>13. CASE StreamFail
  BY <1>13 DEF StreamFail,
     ledgerVars, storeVars, dVars, nVars, streamVars, boundVars
<1>14. CASE Crash
  BY <1>14 DEF Crash,
     ledgerVars, storeVars, dVars, nVars, streamVars, boundVars
<1>15. CASE Start
  BY <1>15 DEF Start,
     ledgerVars, storeVars, dVars, nVars, streamVars, boundVars
<1>16. ASSUME NEW n \in queue, NotifClaim(n) PROVE OrderInv'
  BY <1>16, SMTT(30) DEF NotifClaim, IsNextBatch,
     ledgerVars, storeVars, dVars, nVars, streamVars, boundVars
<1>17. ASSUME NEW n \in queue, NotifBatch(n) PROVE OrderInv'
  BY <1>17, SMTT(30) DEF NotifBatch, IsNextBatch,
     ledgerVars, storeVars, dVars, nVars, streamVars, boundVars
<1>18. ASSUME NEW evm \in BOOLEAN, NEW carried \in BOOLEAN,
             CommitBlock(evm, carried)
      PROVE  OrderInv'
  BY <1>18 DEF CommitBlock,
     ledgerVars, storeVars, dVars, nVars, streamVars, boundVars
<1>19. CASE UNCHANGED vars
  BY <1>19 DEF vars,
     ledgerVars, storeVars, dVars, nVars, streamVars, boundVars
<1> QED
  BY <1>1, <1>2, <1>3, <1>4, <1>5, <1>6, <1>7, <1>8, <1>9, <1>10, <1>11, <1>12, <1>13, <1>14, <1>15, <1>16, <1>17, <1>18, <1>19
     DEF Next, DeliveryNext, NotifNext

\* The stores fill in handler order, and without gaps until the switch.
LEMMA StoreStep == FullInv /\ [Next]_vars => StoreInv'
<1> SUFFICES ASSUME FullInv, [Next]_vars PROVE StoreInv'
  OBVIOUS
<1> USE HybridAssumption DEF HybridAssumption, Handlers, MinInt64, Taken, FullInv, IInv, TypeOK,
        QuietInv, DeliveryInv, NotifInv, QueueInv, OrderInv, StoreInv
<1>1. CASE DeliveryReceive
  BY <1>1 DEF DeliveryReceive,
     ledgerVars, storeVars, dVars, nVars, streamVars, boundVars
<1>2. CASE DeliverySeed
  BY <1>2 DEF DeliverySeed,
     ledgerVars, storeVars, dVars, nVars, streamVars, boundVars
<1>3. CASE DeliverySeedDispatched
  BY <1>3 DEF DeliverySeedDispatched,
     ledgerVars, storeVars, dVars, nVars, streamVars, boundVars
<1>4. CASE DeliveryClaim
  BY <1>4, SMTT(30) DEF DeliveryClaim,
     ledgerVars, storeVars, dVars, nVars, streamVars, boundVars
<1>5. CASE DeliveryHandle
  <2>1. /\ dstage \in Handlers
        /\ height' = [height EXCEPT ![dstage] = Higher(@, dnext)]
        /\ UNCHANGED <<tip, up, off, switched, npc, nblk, nstage, dnext>>
    BY <1>5 DEF DeliveryHandle, HandlerApplies, ledgerVars, storeVars, dVars, nVars, streamVars, boundVars
  <2>2. \A h \in Handlers : height'[h] >= height[h] /\ height'[h] <= tip
    BY <1>5, <2>1, SMTT(30) DEF Higher, DeliveryHandle
  <2>3. \A h \in Handlers : h <= dstage => height'[h] >= dnext
    BY <1>5, <2>1, SMTT(30) DEF Higher, DeliveryHandle
  <2>4. \A g, h \in Handlers : g <= h => height'[h] <= height'[g]
    BY <1>5, <2>1, SMTT(30) DEF Higher, DeliveryHandle
  <2>5. /\ npc # "run"
        /\ dpc' = "run" => dstage' = dstage + 1
        /\ dpc' = "publish" => dstage = NumHandlers
        /\ dpc' \in {"run", "publish"}
    BY <1>5, SMTT(30) DEF DeliveryHandle
  <2>6. ~off' /\ \A h \in 1..Reader : height'[h] >= dnext' - 1
    <3>1. up /\ ~off /\ ~switched
      BY <1>5, SMTT(30) DEF DeliveryHandle
    <3>2. \A h \in 1..Reader : h \in Handlers /\ height[h] >= dnext - 1
      BY <3>1, SMTT(30)
    <3>3. \A h \in 1..Reader : height'[h] \in Int /\ height[h] \in Int
      BY <2>1, <3>2, SMTT(30) DEF Higher
    <3> QED
      BY <2>1, <2>2, <3>1, <3>2, <3>3, SMTT(30)
  <2>7. /\ dpc' = "run" => \A h \in Handlers : h < dstage' => height'[h] >= dnext'
        /\ dpc' = "publish" => \A h \in Handlers : height'[h] >= dnext'
    <3>1. CASE dstage = NumHandlers
      BY <3>1, <1>5, <2>1, <2>3, SMTT(30) DEF DeliveryHandle
    <3>2. CASE dstage # NumHandlers
      BY <3>2, <1>5, <2>1, <2>3, SMTT(30) DEF DeliveryHandle
    <3> QED
      BY <3>1, <3>2
  <2> QED
    BY <2>1, <2>2, <2>4, <2>5, <2>6, <2>7
<1>6. CASE DeliveryPublish
  BY <1>6, SMTT(30) DEF DeliveryPublish,
     ledgerVars, storeVars, dVars, nVars, streamVars, boundVars
<1>7. CASE DeliveryReturns
  BY <1>7 DEF DeliveryReturns,
     ledgerVars, storeVars, dVars, nVars, streamVars, boundVars
<1>8. CASE NotifWait
  BY <1>8 DEF NotifWait,
     ledgerVars, storeVars, dVars, nVars, streamVars, boundVars
<1>9. CASE NotifSwitch
  BY <1>9 DEF NotifSwitch,
     ledgerVars, storeVars, dVars, nVars, streamVars, boundVars
<1>10. CASE NotifDispatch
  BY <1>10, SMTT(30) DEF NotifDispatch,
     ledgerVars, storeVars, dVars, nVars, streamVars, boundVars
<1>11. CASE NotifHandle
  BY <1>11, SMTT(30) DEF NotifHandle, HandlerApplies, Higher,
     ledgerVars, storeVars, dVars, nVars, streamVars, boundVars
<1>12. CASE StreamConnect
  BY <1>12 DEF StreamConnect,
     ledgerVars, storeVars, dVars, nVars, streamVars, boundVars
<1>13. CASE StreamFail
  BY <1>13 DEF StreamFail,
     ledgerVars, storeVars, dVars, nVars, streamVars, boundVars
<1>14. CASE Crash
  BY <1>14 DEF Crash,
     ledgerVars, storeVars, dVars, nVars, streamVars, boundVars
<1>15. CASE Start
  BY <1>15, SMTT(30) DEF Start,
     ledgerVars, storeVars, dVars, nVars, streamVars, boundVars
<1>16. ASSUME NEW n \in queue, NotifClaim(n) PROVE StoreInv'
  BY <1>16 DEF NotifClaim, IsNextBatch,
     ledgerVars, storeVars, dVars, nVars, streamVars, boundVars
<1>17. ASSUME NEW n \in queue, NotifBatch(n) PROVE StoreInv'
  BY <1>17 DEF NotifBatch, IsNextBatch,
     ledgerVars, storeVars, dVars, nVars, streamVars, boundVars
<1>18. ASSUME NEW evm \in BOOLEAN, NEW carried \in BOOLEAN,
             CommitBlock(evm, carried)
      PROVE  StoreInv'
  BY <1>18, SMTT(30) DEF CommitBlock,
     ledgerVars, storeVars, dVars, nVars, streamVars, boundVars
<1>19. CASE UNCHANGED vars
  BY <1>19 DEF vars,
     ledgerVars, storeVars, dVars, nVars, streamVars, boundVars
<1> QED
  BY <1>1, <1>2, <1>3, <1>4, <1>5, <1>6, <1>7, <1>8, <1>9, <1>10, <1>11, <1>12, <1>13, <1>14, <1>15, <1>16, <1>17, <1>18, <1>19
     DEF Next, DeliveryNext, NotifNext

\* Only a lost block can be missing below a store's height.
LEMMA HoleStep == FullInv /\ [Next]_vars => HoleInv'
<1> SUFFICES ASSUME FullInv, [Next]_vars PROVE HoleInv'
  OBVIOUS
<1> USE HybridAssumption DEF HybridAssumption, Handlers, MinInt64, Taken, FullInv, IInv, TypeOK,
        QuietInv, DeliveryInv, NotifInv, QueueInv, StoreInv, HoleInv
<1>1. CASE DeliveryReceive
  BY <1>1 DEF DeliveryReceive,
     ledgerVars, storeVars, dVars, nVars, streamVars, boundVars
<1>2. CASE DeliverySeed
  BY <1>2 DEF DeliverySeed,
     ledgerVars, storeVars, dVars, nVars, streamVars, boundVars
<1>3. CASE DeliverySeedDispatched
  BY <1>3 DEF DeliverySeedDispatched,
     ledgerVars, storeVars, dVars, nVars, streamVars, boundVars
<1>4. CASE DeliveryClaim
  BY <1>4 DEF DeliveryClaim,
     ledgerVars, storeVars, dVars, nVars, streamVars, boundVars
<1>5. CASE DeliveryHandle
  BY <1>5, SMTT(30) DEF DeliveryHandle, HandlerApplies, Higher,
     ledgerVars, storeVars, dVars, nVars, streamVars, boundVars
<1>6. CASE DeliveryPublish
  BY <1>6 DEF DeliveryPublish,
     ledgerVars, storeVars, dVars, nVars, streamVars, boundVars
<1>7. CASE DeliveryReturns
  BY <1>7 DEF DeliveryReturns,
     ledgerVars, storeVars, dVars, nVars, streamVars, boundVars
<1>8. CASE NotifWait
  BY <1>8, SMTT(30) DEF NotifWait,
     ledgerVars, storeVars, dVars, nVars, streamVars, boundVars
<1>9. CASE NotifSwitch
  BY <1>9 DEF NotifSwitch,
     ledgerVars, storeVars, dVars, nVars, streamVars, boundVars
<1>10. CASE NotifDispatch
  BY <1>10, SMTT(30) DEF NotifDispatch,
     ledgerVars, storeVars, dVars, nVars, streamVars, boundVars
<1>11. CASE NotifHandle
  BY <1>11, SMTT(30) DEF NotifHandle, HandlerApplies, Higher,
     ledgerVars, storeVars, dVars, nVars, streamVars, boundVars
<1>12. CASE StreamConnect
  BY <1>12 DEF StreamConnect,
     ledgerVars, storeVars, dVars, nVars, streamVars, boundVars
<1>13. CASE StreamFail
  BY <1>13 DEF StreamFail,
     ledgerVars, storeVars, dVars, nVars, streamVars, boundVars
<1>14. CASE Crash
  BY <1>14 DEF Crash,
     ledgerVars, storeVars, dVars, nVars, streamVars, boundVars
<1>15. CASE Start
  BY <1>15 DEF Start,
     ledgerVars, storeVars, dVars, nVars, streamVars, boundVars
<1>16. ASSUME NEW n \in queue, NotifClaim(n) PROVE HoleInv'
  BY <1>16, SMTT(30) DEF NotifClaim, IsNextBatch,
     ledgerVars, storeVars, dVars, nVars, streamVars, boundVars
<1>17. ASSUME NEW n \in queue, NotifBatch(n) PROVE HoleInv'
  BY <1>17, SMTT(30) DEF NotifBatch, IsNextBatch,
     ledgerVars, storeVars, dVars, nVars, streamVars, boundVars
<1>18. ASSUME NEW evm \in BOOLEAN, NEW carried \in BOOLEAN,
             CommitBlock(evm, carried)
      PROVE  HoleInv'
  BY <1>18, SMTT(30) DEF CommitBlock,
     ledgerVars, storeVars, dVars, nVars, streamVars, boundVars
<1>19. CASE UNCHANGED vars
  BY <1>19 DEF vars,
     ledgerVars, storeVars, dVars, nVars, streamVars, boundVars
<1> QED
  BY <1>1, <1>2, <1>3, <1>4, <1>5, <1>6, <1>7, <1>8, <1>9, <1>10, <1>11, <1>12, <1>13, <1>14, <1>15, <1>16, <1>17, <1>18, <1>19
     DEF Next, DeliveryNext, NotifNext

\* The initial state, before the first Start, satisfies the whole invariant.
LEMMA FullInit == Init => FullInv
<1> SUFFICES ASSUME Init PROVE FullInv
  OBVIOUS
<1> USE HybridAssumption DEF HybridAssumption, Handlers, MinInt64, Init
<1>1. TypeOK
  <2>1. height \in [Handlers -> Int] /\ applied \in [Handlers -> SUBSET Nat]
    BY SMTT(30)
  <2>2. crashes \in 0..MaxCrashes /\ streamFails \in 0..MaxStreamFails
    BY SMTT(30)
  <2>3. dstage \in Handlers /\ nstage \in Handlers
    BY SMTT(30)
  <2>4. /\ tip \in Int /\ tip >= -1 /\ last \in Int
        /\ claimed \in Int /\ dispatched \in Int /\ dnext \in Nat /\ nblk \in Nat
        /\ evmBlocks \in SUBSET Nat /\ lost \in SUBSET Nat /\ queue \in SUBSET Nat
    BY SMTT(30)
  <2>5. /\ up \in BOOLEAN /\ cancelled \in BOOLEAN /\ seeded \in BOOLEAN
        /\ off \in BOOLEAN /\ switched \in BOOLEAN /\ stream \in BOOLEAN
        /\ delivery = "running" /\ dpc = "idle" /\ npc = "idle"
    OBVIOUS
  <2> QED
    BY ONLY <2>1, <2>2, <2>3, <2>4, <2>5 DEF TypeOK
<1>2. QuietInv /\ DeliveryInv /\ NotifInv
  BY DEF QuietInv, DeliveryInv, NotifInv, Taken
<1>3. QueueInv /\ OrderInv
  BY DEF QueueInv, OrderInv, Taken
<1>4. StoreInv /\ HoleInv
  BY SMTT(30) DEF StoreInv, HoleInv, Taken
<1> QED
  BY <1>1, <1>2, <1>3, <1>4 DEF FullInv, IInv

\* The inductive invariant holds in every reachable state.
THEOREM Invariance == Spec => []FullInv
<1>1. FullInv /\ [Next]_vars => FullInv'
  BY TypeStep, ProtocolStep, QueueStep, OrderStep, StoreStep, HoleStep
     DEF FullInv, IInv
<1> QED
  BY <1>1, FullInit, PTL DEF Spec

\* Every variable keeps its type.
THEOREM TypeCorrect == Spec => []TypeOK
<1>1. FullInv => TypeOK
  BY DEF FullInv, IInv
<1> QED
  BY <1>1, Invariance, PTL

\* Delivery and notification never run the handler chain at the same time, for
\* every interleaving of the two goroutines (hybrid.go:11-13).
THEOREM MutualExclusion == Spec => []NeverOverlap
<1>1. FullInv => NeverOverlap
  BY SMTT(30) DEF FullInv, IInv, QuietInv, DeliveryInv, NotifInv, NeverOverlap, Taken,
         TypeOK, MinInt64
<1> QED
  BY <1>1, Invariance, PTL

\* stopDelivery never cancels a dispatch in progress (hybrid.go:338-340).
THEOREM CancelIsSafe == Spec => []CancelNeverAbortsDispatch
<1>1. FullInv => CancelNeverAbortsDispatch
  BY SMTT(30) DEF FullInv, IInv, QuietInv, DeliveryInv, NotifInv, Taken, TypeOK,
         CancelNeverAbortsDispatch
<1> QED
  BY <1>1, Invariance, PTL

\* The seed and overshoot panics are unreachable (hybrid.go:258, :380).
THEOREM NoProtocolPanic == Spec => []ProtocolNeverPanics
<1>1. FullInv => ProtocolNeverPanics
  BY DEF FullInv, IInv, DeliveryInv, NotifInv, ProtocolNeverPanics
<1> QED
  BY <1>1, Invariance, PTL

\* Whatever crashes, restarts and stream failures happen, the stores below the
\* resume height lack an EVM block only if the stream lost it after the switch.
THEOREM HolesAreStreamLosses == Spec => []HolesOnlyFromStreamLoss
<1>1. FullInv => HolesOnlyFromStreamLoss
  BY HybridAssumption, SMTT(30)
     DEF HybridAssumption, Handlers, FullInv, IInv, TypeOK, StoreInv, HoleInv,
         HolesOnlyFromStreamLoss
<1> QED
  BY <1>1, Invariance, PTL

\* No handler's store is ever ahead of one called before it (app.go:240).
THEOREM HandlersInOrder == Spec => []LaterHandlersBehind
<1>1. FullInv => LaterHandlersBehind
  BY HybridAssumption, SMTT(30)
     DEF HybridAssumption, Handlers, FullInv, IInv, TypeOK, StoreInv,
         LaterHandlersBehind
<1> QED
  BY <1>1, Invariance, PTL

\* Delivery is in the handler chain only while notification has not passed its
\* wait: it neither switches, dispatches nor runs.
LEMMA RunsApart ==
  ASSUME FullInv, dpc = "run"
  PROVE  npc # "switch" /\ npc # "run" /\ ~switched
<1>1. claimed \in Int /\ dnext \in Nat
  BY DEF FullInv, IInv, TypeOK
<1>2. seeded /\ ~off
  BY DEF FullInv, IInv, QuietInv, DeliveryInv
<1>3. dispatched = dnext - 1 /\ (Taken => claimed = dnext + 1)
  BY <1>2 DEF FullInv, IInv, DeliveryInv
<1>4. ~(npc = "switch" \/ switched)
  <2> SUFFICES ASSUME npc = "switch" \/ switched PROVE FALSE
    OBVIOUS
  <2>1. dispatched = claimed - 1
    BY DEF FullInv, IInv, NotifInv
  <2>2. claimed = dnext + 1
    BY <1>3 DEF Taken
  <2> QED
    BY <1>1, <1>3, <2>1, <2>2, SMTT(30)
<1> QED
  BY <1>4 DEF FullInv, IInv, NotifInv

\* A claim that delivery wins begins the block at the feed: what was dispatched
\* last is the block before, or delivery is at its resume height.
LEMMA ClaimBegins ==
  ASSUME FullInv, DeliveryClaim, claimed = dnext - 1
  PROVE  Feed!Begin
<1>1. /\ dpc = "claim" /\ dpc' = "run" /\ dnext' = dnext /\ dstage' = 1
      /\ last' = dnext /\ height' = height /\ npc' = npc /\ switched' = switched
  BY DEF DeliveryClaim, nVars
<1>2. dnext \in Nat /\ claimed \in Int
  BY DEF FullInv, IInv, TypeOK
<1>3. seeded /\ ~off
  BY <1>1 DEF FullInv, IInv, QuietInv, DeliveryInv
<1>4. ~Taken
  BY <1>1, <1>2, <1>3, SMTT(30) DEF FullInv, IInv, DeliveryInv
<1>5. ~switched /\ npc # "run"
  BY <1>4 DEF FullInv, IInv, NotifInv, Taken
<1>6. up
  BY <1>1 DEF FullInv, QueueInv
<1>7. /\ last = MinInt64 => dnext \in {height[Reader], height[Reader] + 1}
      /\ last # MinInt64 => last = dnext - 1
  BY <1>1, <1>3, <1>5, <1>6 DEF FullInv, OrderInv
<1>8. last # MinInt64 => dnext = last + 1
  BY <1>2, <1>7, SMTT(30)
<1> QED
  BY <1>1, <1>2, <1>5, <1>7, <1>8 DEF Feed!Begin, Feed!MayBegin, Feed!None, MinInt64

\* A batch with EVM transactions begins its block: notification runs after the
\* switch, with delivery out of the way, and its blocks only grow.
LEMMA DispatchBegins ==
  ASSUME FullInv, NotifDispatch, nblk \in evmBlocks
  PROVE  Feed!Begin
<1>1. /\ npc = "dispatch" /\ npc' = "run" /\ nblk' = nblk /\ nstage' = 1
      /\ last' = nblk /\ height' = height /\ dpc' = dpc /\ switched' = switched
  BY DEF NotifDispatch, dVars
<1>2. nblk \in Nat /\ last \in Int /\ dnext \in Nat /\ claimed \in Int
  BY DEF FullInv, IInv, TypeOK
<1>3. switched
  BY <1>1 DEF FullInv, IInv, NotifInv
<1>4. dpc # "run"
  BY <1>3, RunsApart
<1>5. /\ last = MinInt64 => nblk >= height[Reader]
      /\ last < nblk
  BY <1>1, <1>3 DEF FullInv, OrderInv, Taken
<1>6. nblk > last
  BY <1>2, <1>5
<1> QED
  BY <1>1, <1>2, <1>3, <1>4, <1>5, <1>6
     DEF Feed!Begin, Feed!MayBegin, Feed!None, MinInt64

\* A handler called by delivery is the feed's next one.
LEMMA DeliveryApplies ==
  ASSUME FullInv, DeliveryHandle, npc # "run"
  PROVE  Feed!Apply
<1>1. /\ dpc = "run" /\ dnext' = dnext /\ npc' = npc /\ last' = last
      /\ switched' = switched
      /\ height' = [height EXCEPT ![dstage] = Higher(@, dnext)]
      /\ IF dstage = NumHandlers THEN dpc' = "publish" /\ dstage' = 1
                                 ELSE dstage' = dstage + 1 /\ dpc' = dpc
  BY DEF DeliveryHandle, HandlerApplies, nVars
<1>2. dnext \in Nat
  BY DEF FullInv, IInv, TypeOK
<1> QED
  BY <1>1, <1>2, SMTT(30) DEF Feed!Apply, Feed!None, MinInt64, Higher, Feed!Higher

\* A handler called by notification is the feed's next one.
LEMMA NotificationApplies ==
  ASSUME FullInv, NotifHandle, dpc # "run"
  PROVE  Feed!Apply
<1>1. /\ npc = "run" /\ nblk' = nblk /\ dpc' = dpc /\ last' = last
      /\ switched' = switched
      /\ height' = [height EXCEPT ![nstage] = Higher(@, nblk)]
      /\ IF nstage = NumHandlers THEN npc' = "idle" /\ nstage' = 1
                                 ELSE nstage' = nstage + 1 /\ npc' = npc
  BY DEF NotifHandle, HandlerApplies, dVars
<1>2. nblk \in Nat
  BY DEF FullInv, IInv, TypeOK
<1> QED
  BY <1>1, <1>2, SMTT(30) DEF Feed!Apply, Feed!None, MinInt64, Higher, Feed!Higher

\* The switch happens between two blocks.
LEMMA SwitchGoesLive ==
  ASSUME FullInv, NotifSwitch, dpc # "run"
  PROVE  Feed!GoLive
<1>1. /\ npc = "switch" /\ npc' = "dispatch" /\ switched' = TRUE /\ dpc' = dpc
      /\ last' = last /\ height' = height
  BY DEF NotifSwitch, dVars, storeVars
<1> QED
  BY <1>1 DEF Feed!GoLive, Feed!None, MinInt64

\* The mapping of a step: which actions move the feed, and how.
LEMMA FeedStep == FullInv /\ [Next]_vars => [Feed!Next]_(Feed!vars)
<1> SUFFICES ASSUME FullInv, [Next]_vars PROVE [Feed!Next]_(Feed!vars)
  OBVIOUS
<1>1. CASE DeliveryClaim
  <2>1. CASE claimed = dnext - 1
    <3>1. Feed!Begin
      BY <1>1, <2>1, ClaimBegins
    <3> QED
      BY <3>1 DEF Feed!Next
  <2>2. CASE claimed # dnext - 1
    <3>1. /\ dpc = "claim" /\ dpc' = "idle" /\ UNCHANGED <<height, last, npc, nblk, nstage, switched>>
      BY <1>1, <2>2 DEF DeliveryClaim, nVars
    <3> QED
      BY <3>1 DEF Feed!vars
  <2> QED
    BY <2>1, <2>2
<1>2. CASE DeliveryHandle
  <2>1. npc # "run"
    BY <1>2, RunsApart DEF DeliveryHandle
  <2>2. Feed!Apply
    BY <1>2, <2>1, DeliveryApplies
  <2> QED
    BY <2>2 DEF Feed!Next
<1>3. CASE NotifSwitch
  <2>1. dpc # "run"
    BY <1>3, RunsApart DEF NotifSwitch
  <2>2. Feed!GoLive
    BY <1>3, <2>1, SwitchGoesLive
  <2> QED
    BY <2>2 DEF Feed!Next
<1>4. CASE NotifDispatch
  <2>1. CASE nblk \in evmBlocks
    <3>1. Feed!Begin
      BY <1>4, <2>1, DispatchBegins
    <3> QED
      BY <3>1 DEF Feed!Next
  <2>2. CASE nblk \notin evmBlocks
    <3>1. /\ npc = "dispatch" /\ npc' = "idle" /\ UNCHANGED <<height, last, dpc, dnext, dstage, switched>>
      BY <1>4, <2>2 DEF NotifDispatch, dVars
    <3> QED
      BY <3>1 DEF Feed!vars
  <2> QED
    BY <2>1, <2>2
<1>5. CASE NotifHandle
  <2>1. dpc # "run"
    BY <1>5, RunsApart DEF NotifHandle
  <2>2. Feed!Apply
    BY <1>5, <2>1, NotificationApplies
  <2> QED
    BY <2>2 DEF Feed!Next
<1>6. CASE Crash
  <2>1. Feed!Crash
    BY <1>6 DEF Crash, Feed!Crash, Feed!None, MinInt64
  <2> QED
    BY <2>1 DEF Feed!Next
<1> USE DEF FullInv, IInv, QuietInv, NotifInv, Feed!vars
<1>7. CASE DeliveryReceive
  BY <1>7 DEF DeliveryReceive,
     ledgerVars, storeVars, dVars, nVars, streamVars, boundVars
<1>8. CASE DeliverySeed
  BY <1>8 DEF DeliverySeed,
     ledgerVars, storeVars, dVars, nVars, streamVars, boundVars
<1>9. CASE DeliverySeedDispatched
  BY <1>9 DEF DeliverySeedDispatched,
     ledgerVars, storeVars, dVars, nVars, streamVars, boundVars
<1>10. CASE DeliveryPublish
  BY <1>10 DEF DeliveryPublish,
     ledgerVars, storeVars, dVars, nVars, streamVars, boundVars
<1>11. CASE DeliveryReturns
  BY <1>11 DEF DeliveryReturns,
     ledgerVars, storeVars, dVars, nVars, streamVars, boundVars
<1>12. CASE NotifWait
  BY <1>12 DEF NotifWait,
     ledgerVars, storeVars, dVars, nVars, streamVars, boundVars
<1>13. CASE StreamConnect
  BY <1>13 DEF StreamConnect,
     ledgerVars, storeVars, dVars, nVars, streamVars, boundVars
<1>14. CASE StreamFail
  BY <1>14 DEF StreamFail,
     ledgerVars, storeVars, dVars, nVars, streamVars, boundVars
<1>15. CASE Start
  BY <1>15 DEF Start,
     ledgerVars, storeVars, dVars, nVars, streamVars, boundVars
<1>16. ASSUME NEW n \in queue, NotifClaim(n) PROVE UNCHANGED Feed!vars
  BY <1>16 DEF NotifClaim,
     ledgerVars, storeVars, dVars, nVars, streamVars, boundVars
<1>17. ASSUME NEW n \in queue, NotifBatch(n) PROVE UNCHANGED Feed!vars
  BY <1>17 DEF NotifBatch,
     ledgerVars, storeVars, dVars, nVars, streamVars, boundVars
<1>18. ASSUME NEW evm \in BOOLEAN, NEW carried \in BOOLEAN,
             CommitBlock(evm, carried)
      PROVE  UNCHANGED Feed!vars
  BY <1>18 DEF CommitBlock,
     ledgerVars, storeVars, dVars, nVars, streamVars, boundVars
<1>19. CASE UNCHANGED vars
  BY <1>19 DEF vars,
     ledgerVars, storeVars, dVars, nVars, streamVars, boundVars
<1> HIDE DEF FullInv, IInv, QuietInv, NotifInv, Feed!vars
<1> QED
  BY <1>1, <1>2, <1>3, <1>4, <1>5, <1>6, <1>7, <1>8, <1>9, <1>10, <1>11, <1>12, <1>13, <1>14, <1>15, <1>16, <1>17, <1>18, <1>19
     DEF Next, DeliveryNext, NotifNext

\* The two racing goroutines implement the serial feed of BlockFeed: one block
\* at a time, in order, without gaps until the switch (hybrid.go:9-33).
THEOREM Refinement == Spec => ImplementsFeed
<1>1. Init => Feed!Init
  BY DEF Init, Feed!Init, Handlers, Feed!Handlers, MinInt64, Feed!None
<1> QED
  BY <1>1, FeedStep, Invariance, PTL DEF Spec, Feed!Spec, ImplementsFeed

\* Within one process life no block enters the handler chain twice or after a
\* higher one.
THEOREM OnceInOrder == Spec => EachBlockOnceInOrder
<1>1. FullInv /\ FullInv' /\ [Next]_vars
        => [last' # last => last' > last \/ crashes' # crashes]_vars
  <2> SUFFICES ASSUME FullInv, FullInv', [Next]_vars, last' # last, crashes' = crashes
               PROVE  last' > last
    OBVIOUS
  <2>1. CASE DeliveryClaim
    <3>1. dpc = "claim" /\ claimed = dnext - 1 /\ last' = dnext
      BY <2>1 DEF DeliveryClaim
    <3>2. dnext \in Nat /\ last \in Int
      BY DEF FullInv, IInv, TypeOK
    <3>3. seeded /\ ~off /\ ~switched
      BY <3>1, <3>2, SMTT(30) DEF FullInv, IInv, TypeOK, QuietInv, DeliveryInv, NotifInv, Taken, MinInt64
    <3>4. last = MinInt64 \/ last = dnext - 1
      BY <3>1, <3>3 DEF FullInv, OrderInv
    <3> QED
      BY <3>1, <3>2, <3>4, SMTT(30) DEF MinInt64
  <2>2. CASE NotifDispatch
    <3>1. npc = "dispatch" /\ last' = nblk
      BY <2>2 DEF NotifDispatch
    <3>2. nblk \in Nat /\ last \in Int
      BY DEF FullInv, IInv, TypeOK
    <3>3. last < nblk
      BY <3>1 DEF FullInv, OrderInv
    <3> QED
      BY <3>1, <3>2, <3>3
  <2>3. CASE Crash
    <3>1. crashes \in Nat /\ crashes' = crashes + 1
      BY <2>3, HybridAssumption, SMTT(30) DEF Crash, HybridAssumption, FullInv, IInv, TypeOK
    <3> QED
      BY <3>1, SMTT(30)
  <2> QED
    BY <2>1, <2>2, <2>3
       DEF Next, DeliveryNext, NotifNext, vars, storeVars, DeliveryReceive,
           DeliverySeed, DeliverySeedDispatched, DeliveryHandle, DeliveryPublish,
           DeliveryReturns, NotifClaim, NotifBatch, NotifWait, NotifSwitch,
           NotifHandle, CommitBlock, StreamConnect, StreamFail, Start
<1> QED
  BY <1>1, Invariance, PTL DEF Spec, EachBlockOnceInOrder
==============================================================================
