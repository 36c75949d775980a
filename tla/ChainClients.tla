---------------------------- MODULE ChainClients ----------------------------
(***************************************************************************)
(* The gateway's chain and what its clients see of it: the subscribers of  *)
(* new heads (HeadSubs), the block store (ChainStore), the lookups and     *)
(* state queries (EthReads), the polling filters (PollingFilters) and the  *)
(* matching of logs (LogMatch).                                            *)
(*                                                                         *)
(* The initial state chooses the part that a behaviour is about.  HeadSubs *)
(* has its variables; of the other parts only the chosen one has a state,  *)
(* so that they share the variables d1, ..., d13.                          *)
(***************************************************************************)
EXTENDS HeadSubs, Integers, SequencesExt

CONSTANT None

VARIABLES part, d1, d2, d3, d4, d5, d6, d7, d8, d9, d10, d11, d12, d13

\* What a part with five, ten or eleven variables leaves alone.
beyond11 == <<d12, d13>>
beyond10 == <<d11, beyond11>>
beyond5 == <<d6, d7, d8, d9, d10, beyond10>>
parts == <<d1, d2, d3, d4, d5, beyond5>>
allVars == <<part, vars, parts>>

Tx(h, o, n) == [hash |-> h, outcome |-> o, logs |-> n]

\* Transactions 1 and 2, one rejected first; 3 is no Ethereum transaction, and 4 is one
\* that cannot be converted.
OnceBlocks == {
  <<>>,
  <<Tx(3, "other", 0)>>,
  <<Tx(1, "success", 1)>>,
  <<Tx(2, "reverted", 1), Tx(1, "success", 1)>>,
  <<Tx(2, "success", 2)>>
}
TwiceBlocks ==
  OnceBlocks \cup {<<Tx(1, "invalid", 1)>>, <<Tx(1, "success", 1), Tx(2, "success", 1)>>,
                  <<Tx(4, "unparsable", 0)>>}

\* Blocks from delivery only, with failed conversions, commits and inserts, and crashes.
Chain == INSTANCE ChainStore WITH
  BlockOptions <- TwiceBlocks, MaxBlocks <- 3, MaxFaults <- 1, WithTrie <- TRUE, Hybrid <- FALSE,
  ledger <- d1, next <- d2, path <- d3, blocks <- d4, txs <- d5, logs <- d6, trieNodes <- d7,
  trieRoot <- d8, prevHash <- d9, cached <- d10, pc <- d11, faults <- d12, query <- d13

\* The feed goes over to notifications.
LiveChain == INSTANCE ChainStore WITH
  BlockOptions <- OnceBlocks, MaxBlocks <- 2, MaxFaults <- 2, WithTrie <- TRUE, Hybrid <- TRUE,
  ledger <- d1, next <- d2, path <- d3, blocks <- d4, txs <- d5, logs <- d6, trieNodes <- d7,
  trieRoot <- d8, prevHash <- d9, cached <- d10, pc <- d11, faults <- d12, query <- d13

Lookups == INSTANCE EthReads WITH
  MaxBlock <- 2, MaxTxs <- 2, MaxInt64 <- 7,
  state <- d1, blocks <- d2, cached <- d3, arriving <- d4, stage <- d5, req <- d6,
  step <- d7, num <- d8, answer <- d9, floor <- d10

Polling == INSTANCE PollingFilters WITH
  Ids <- {1}, Contents <- {<<>>, <<"a">>, <<"b", "a">>},
  Criteria <- {[addresses |-> {}, from |-> "latest"], [addresses |-> {"a"}, from |-> "earliest"]},
  MaxFilters <- 1, MaxFilterBuffer <- 2, Timeout <- 2, MaxBlocks <- 2, MaxClock <- 3,
  chain <- d1, handled <- d2, filters <- d3, fresh <- d4, clock <- d5, sweeping <- d6,
  query <- d7, crits <- d8, polled <- d9, seen <- d10, overflowed <- d11

\* Topics up to one more than the table has columns for; every pair of bounds.
AB == {"A", "B"}
Bounds == {-9, -5, -2, 0, 1, 2}
LogFilters ==
  [from : {-9}, to : {-9}, addresses : {{}}, topics : BoundedSeq(SUBSET AB, 3)]
    \cup [from : Bounds, to : Bounds, addresses : {{}, {"a"}}, topics : {<<{"A"}>>}]
Match == INSTANCE LogMatch WITH
  LogTopics <- BoundedSeq(AB, 2), Filters <- LogFilters, TopicColumns <- 2, Tip <- 2,
  log <- d1, filter <- d2, answered <- d3, live <- d4, stored <- d5

-----------------------------------------------------------------------------

Zero11 == d12 = 0 /\ d13 = 0
Zero10 == d11 = 0 /\ Zero11
Zero5 == d6 = 0 /\ d7 = 0 /\ d8 = 0 /\ d9 = 0 /\ d10 = 0 /\ Zero10
Zero == d1 = 0 /\ d2 = 0 /\ d3 = 0 /\ d4 = 0 /\ d5 = 0 /\ Zero5

ClientsInit ==
  /\ Init
  /\ \/ part = "heads" /\ Zero
     \/ part = "chain" /\ Chain!Init
     \/ part = "live_chain" /\ LiveChain!Init
     \/ part = "lookups" /\ Lookups!Init /\ Zero10
     \/ part = "polling" /\ Polling!Init /\ Zero11
     \/ part = "match" /\ Match!Init /\ Zero5

Of(p, others) == part = p /\ UNCHANGED <<part, others>>

HeadsStep == Of("heads", parts) /\ Next
ChainStep == Of("chain", vars) /\ Chain!Next
LiveChainStep == Of("live_chain", vars) /\ LiveChain!Next
LookupsStep == Of("lookups", <<vars, beyond10>>) /\ Lookups!Next
PollingStep == Of("polling", <<vars, beyond11>>) /\ Polling!Next
MatchStep == Of("match", <<vars, beyond5>>) /\ Match!Next

ClientsNext ==
  HeadsStep \/ ChainStep \/ LiveChainStep \/ LookupsStep \/ PollingStep \/ MatchStep

\* Goroutines run: the one that applies blocks, the one that sweeps filters, and one
\* for each subscriber; clients need not leave, and nobody has to close the API.
Applies ==
  \/ Of("heads", parts) /\ fanOutHeads
  \/ Of("live_chain", vars) /\ LiveChain!Applies
  \/ Of("polling", <<vars, beyond11>>) /\ Polling!timeoutLoop

ClientsSpec ==
  /\ ClientsInit /\ [][ClientsNext]_allVars
  /\ WF_allVars(Applies)
  /\ \A i \in Ids : WF_allVars(Of("heads", parts) /\ Serve(i))

-----------------------------------------------------------------------------
(* The properties of the parts; those of HeadSubs are in its module.         *)

\* The tables tell the ledger, through redeliveries, failures, crashes and two ways of
\* delivery: a block's state root is that of the ledger with each block applied once,
\* never ahead of the trie database, and its logs are all there, numbered once
\* (Chain.Handle, applyWrites, InsertBlock).  Of the delivery feed alone, whose hashes
\* are the ledger's: a block's parent is the stored block before it, and its receipts,
\* three queries between inserts, have its logs (GetBlockReceipts).
StoredIsTheLedger ==
  /\ part = "chain" =>
       /\ Chain!Linked /\ Chain!RootIsState /\ Chain!NeverAhead
       /\ Chain!LogsComplete /\ Chain!ReceiptsAgree
  /\ part = "live_chain" =>
       LiveChain!RootIsState /\ LiveChain!NeverAhead /\ LiveChain!LogsComplete

\* While blocks arrive, a state query at a tag is never behind what a lookup has shown
\* and one at a stored block answers for that block; a tag finds a stored block no
\* older than eth_blockNumber has shown, and two reads of a block are of one block; a
\* filter's buffer holds the most recent matches and a client that reads the history
\* and polls misses no log; which logs match is the same in memory and in the tables.
ClientsSeeTheChain ==
  /\ part = "lookups" =>
       /\ Lookups!StateNotBehind /\ Lookups!StateOfThatBlock
       /\ Lookups!TagsFindABlock /\ Lookups!OfOneBlock
  /\ part = "polling" => Polling!BufferIsRecent /\ Polling!NoGap
  /\ part = "match" => Match!LiveIsRight /\ Match!StoredIsRight

\* What was stored of a transaction does not change (INSERT OR IGNORE), and a filter
\* past its deadline gives nothing and gets no new one (resetDeadlineLocked).
NothingIsRevised ==
  [][/\ part = "chain" => Chain!TxsKept
     /\ part = "polling" => Polling!NeverRevived]_allVars

\* A subscriber that leaves, or whose API is closed, gives its place back and its
\* goroutine ends; every block of the ledger with Ethereum transactions, all of which
\* convert, is stored at last; an expired filter is removed, unless the API was closed.
Due(i) ==
  CASE part = "heads" -> server[i] = "leaving" \/ (closed /\ server[i] # "none")
    [] part = "live_chain" -> i <= Len(d1) /\ LiveChain!EthTxs(d1[i]) # {}
    [] part = "polling" -> i \in DOMAIN d3 /\ Polling!Expired(i)
    [] OTHER -> FALSE
Done(i) ==
  CASE part = "heads" -> server[i] = "gone" /\ i \notin DOMAIN headSubs
    [] part = "live_chain" -> i \in DOMAIN d4
    [] part = "polling" -> i \notin DOMAIN d3 \/ ~d6
    [] OTHER -> TRUE
DueIsDone == \A i \in Ids : Due(i) ~> Done(i)
=============================================================================
