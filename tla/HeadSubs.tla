------------------------------ MODULE HeadSubs ------------------------------
(***************************************************************************)
(* eth_subscribe("newHeads"): the subscribers kept by the filter API       *)
(* (gateway/api/filters/heads.go, the second half of FilterAPI.Handle) and *)
(* the goroutine that serves each of them (gateway/api/subscribe.go).      *)
(*                                                                         *)
(* Handle reads under the lock whether anybody subscribed, loads the block *)
(* without it, and takes it again to send.  A channel is closed by         *)
(* Unsubscribe, outside of the lock, or by Close.                          *)
(***************************************************************************)
EXTENDS Naturals, Sequences, FiniteSets, Functions

CONSTANTS
  Conns,                    \* connections with a remote address
  NoConn,                   \* no address: only the global cap applies
  MaxSubscriptionsPerConn,
  MaxSubscriptionsGlobal,
  HeadsBuffer,
  MaxBlocks,                \* blocks handled (bound)
  MaxSubs                   \* subscriptions made (bound)

\* The channel of a subscriber has a capacity (filters.HeadsBuffer).
ASSUME HeadsAssumption == HeadsBuffer \in Nat /\ MaxSubs \in Nat

Ids == 1 .. MaxSubs

VARIABLES
  handled,     \* the block Handle was called with last
  fanned,      \* the last block that went by the point of sending
  hpc,         \* Handle: "idle", "load" (the lock is free, the block is read)
  headSubs,    \* id -> connection
  connSubs,    \* connection -> subscriptions
  nextHeadID,
  closed,
  buf,         \* id -> what its channel holds
  closes,      \* id -> times its channel was closed
  server,      \* id -> its goroutine: "none", "serving", "leaving", "closing", "gone"
  last,        \* id -> the last block it was sent, at first the one before its subscription
  lagged       \* id -> a block was dropped for it

chans == <<buf, closes>>
vars == <<handled, fanned, hpc, headSubs, connSubs, nextHeadID, closed, chans, server, last, lagged>>

Init ==
  /\ handled = 0 /\ fanned = 0 /\ hpc = "idle"
  /\ headSubs = <<>> /\ connSubs = <<>> /\ nextHeadID = 0 /\ closed = FALSE
  /\ buf = [i \in Ids |-> <<>>] /\ closes = [i \in Ids |-> 0]
  /\ server = [i \in Ids |-> "none"] /\ last = [i \in Ids |-> 0] /\ lagged = [i \in Ids |-> FALSE]

\* subscriptionConnKey.
ConnKeys == Conns \cup {NoConn}

Count(c) == IF c \in DOMAIN connSubs THEN connSubs[c] ELSE 0

-----------------------------------------------------------------------------
(* Subscribing *)

Admits(c) ==
  /\ Cardinality(DOMAIN headSubs) < MaxSubscriptionsGlobal
  /\ c # NoConn => Count(c) < MaxSubscriptionsPerConn

\* f with the value v at x.
With(f, x, v) == [y \in DOMAIN f \cup {x} |-> IF y = x THEN v ELSE f[y]]

Counted(c) == IF c = NoConn THEN connSubs ELSE With(connSubs, c, Count(c) + 1)

\* After Close the channel comes closed, and belongs to no subscription.
SubscribeHeadsForConn(c) ==
  /\ nextHeadID < MaxSubs /\ nextHeadID' = nextHeadID + 1
  /\ server' = [server EXCEPT ![nextHeadID'] = "serving"]
  /\ last' = [last EXCEPT ![nextHeadID'] = fanned]
  /\ IF closed
     THEN closes' = [closes EXCEPT ![nextHeadID'] = 1] /\ UNCHANGED <<headSubs, connSubs>>
     ELSE /\ Admits(c)
          /\ headSubs' = With(headSubs, nextHeadID', c)
          /\ connSubs' = Counted(c) /\ UNCHANGED closes
  /\ UNCHANGED <<handled, fanned, hpc, closed, buf, lagged>>

-----------------------------------------------------------------------------
(* The goroutine of a subscriber *)

Receive(i) ==
  /\ server[i] = "serving" /\ buf[i] # <<>>
  /\ buf' = [buf EXCEPT ![i] = Tail(@)] /\ last' = [last EXCEPT ![i] = Head(buf[i])]
  /\ UNCHANGED <<handled, fanned, hpc, headSubs, connSubs, nextHeadID, closed, closes, server, lagged>>

\* Its channel is closed and empty, or the client went away.
Ends(i) == buf[i] = <<>> /\ closes[i] > 0

Leave(i) ==
  /\ server[i] = "serving" /\ server' = [server EXCEPT ![i] = "leaving"]
  /\ UNCHANGED <<handled, fanned, hpc, headSubs, connSubs, nextHeadID, closed, chans, last, lagged>>

NoticeClose(i) == Ends(i) /\ Leave(i)

\* Mutant: the count of a connection stays.
StillCounted(c) == connSubs

Uncounted(c) ==
  IF c = NoConn THEN connSubs
  ELSE IF Count(c) <= 1 THEN Restrict(connSubs, DOMAIN connSubs \ {c})
  ELSE [connSubs EXCEPT ![c] = @ - 1]

\* Mutant: the channel is closed whether the subscription is there or not.
ClosedRegardless(i) == "closing"

\* unsubscribeHeads closes only what it removed.
AfterRemoval(i) == IF i \in DOMAIN headSubs THEN "closing" ELSE "gone"

\* Mutant: a subscription of no connection stays.
OnlyCounted(i) == Restrict(headSubs, {j \in DOMAIN headSubs : j # i \/ headSubs[j] = NoConn})

Remaining(i) == Restrict(headSubs, DOMAIN headSubs \ {i})

Unsubscribe(i) ==
  /\ server[i] = "leaving"
  /\ server' = [server EXCEPT ![i] = AfterRemoval(i)]
  /\ headSubs' = Remaining(i)
  /\ connSubs' = IF i \in DOMAIN headSubs THEN Uncounted(headSubs[i]) ELSE connSubs
  /\ UNCHANGED <<handled, fanned, hpc, nextHeadID, closed, chans, last, lagged>>

CloseChan(i) ==
  /\ server[i] = "closing" /\ server' = [server EXCEPT ![i] = "gone"]
  /\ closes' = [closes EXCEPT ![i] = @ + 1]
  /\ UNCHANGED <<handled, fanned, hpc, headSubs, connSubs, nextHeadID, closed, buf, last, lagged>>

-----------------------------------------------------------------------------
(* FilterAPI *)

Handle ==
  /\ hpc = "idle" /\ handled < MaxBlocks /\ handled' = handled + 1
  /\ IF headSubs = <<>> THEN fanned' = handled' /\ UNCHANGED hpc
                        ELSE hpc' = "load" /\ UNCHANGED fanned
  /\ UNCHANGED <<headSubs, connSubs, nextHeadID, closed, chans, server, last, lagged>>

\* Mutant: a full channel drops its oldest block.
OldestDropped(i, b) == IF Len(buf[i]) < HeadsBuffer THEN Append(buf[i], b) ELSE Append(Tail(buf[i]), b)

\* A send that does not wait: what does not fit is dropped.
Sent(i, b) == IF Len(buf[i]) < HeadsBuffer THEN Append(buf[i], b) ELSE buf[i]

\* Mutant: those that subscribed before the block was loaded.
OnlyEarly == {i \in DOMAIN headSubs : i < nextHeadID}

\* Those subscribed now, not when Handle looked first.
Receivers == DOMAIN headSubs

fanOutHeads ==
  /\ hpc = "load" /\ hpc' = "idle" /\ fanned' = handled
  /\ buf' = [i \in Ids |-> IF i \in Receivers THEN Sent(i, handled) ELSE buf[i]]
  /\ lagged' = [i \in Ids |-> lagged[i] \/ (i \in DOMAIN headSubs /\ Len(buf[i]) >= HeadsBuffer)]
  /\ UNCHANGED <<handled, headSubs, connSubs, nextHeadID, closed, closes, server, last>>

\* Mutant: the subscriptions are forgotten and their channels left open.
LeftOpen(i) == closes[i]

ClosedNow(i) == IF i \in DOMAIN headSubs THEN closes[i] + 1 ELSE closes[i]

\* closeHeadSubsLocked closes every channel and forgets the subscriptions.
Close ==
  /\ ~closed /\ closed' = TRUE
  /\ closes' = [i \in Ids |-> ClosedNow(i)]
  /\ headSubs' = <<>> /\ connSubs' = <<>>
  /\ UNCHANGED <<handled, fanned, hpc, nextHeadID, buf, server, last, lagged>>

-----------------------------------------------------------------------------

Serve(i) == Receive(i) \/ NoticeClose(i) \/ Unsubscribe(i) \/ CloseChan(i)

Next ==
  \/ Handle \/ fanOutHeads \/ Close
  \/ \E c \in ConnKeys : SubscribeHeadsForConn(c)
  \/ \E i \in Ids : Serve(i) \/ Leave(i)

Spec == Init /\ [][Next]_vars

\* Goroutines run; clients need not leave, and nobody has to close the API.
FairSpec == Spec /\ WF_vars(fanOutHeads) /\ \A i \in Ids : WF_vars(Serve(i))

-----------------------------------------------------------------------------
(* Properties *)

\* No channel is closed twice, and Handle sends to none that is closed: either would
\* panic, in the goroutine of a subscriber or in the one that applies blocks.
NeverPanics == \A i \in Ids : closes[i] <= 1 /\ (i \in DOMAIN headSubs => closes[i] = 0)

\* connSubs counts the subscriptions of each connection, so its cap neither leaks
\* places nor lets a second subscription in.
CountsMatch ==
  connSubs = [c \in {headSubs[i] : i \in DOMAIN headSubs} \ {NoConn} |->
                Cardinality({i \in DOMAIN headSubs : headSubs[i] = c})]

\* A subscriber that keeps up gets every block since it subscribed, in order: what it
\* received and what its channel holds end with the last block that was sent.
NoneMissed ==
  \A i \in DOMAIN headSubs :
    /\ ~lagged[i] => last[i] + Len(buf[i]) = fanned
    /\ ~lagged[i] => \A k \in DOMAIN buf[i] : buf[i][k] = last[i] + k

\* The subscribers' channels, the caps and what each subscriber gets, through clients
\* that come and leave and a Close at any moment (heads.go, FilterAPI.Handle).
HeadsSound == NeverPanics /\ CountsMatch /\ NoneMissed

\* A slow subscriber misses the newest blocks: what its channel holds is delivered, in order.
HeadsInOrder ==
  [][\A i \in Ids : buf[i] # <<>> => IF last'[i] = last[i] THEN buf'[i] # <<>> /\ buf'[i][1] = buf[i][1]
                                    ELSE last'[i] = buf[i][1]]_vars

=============================================================================
