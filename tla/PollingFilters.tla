--------------------------- MODULE PollingFilters ---------------------------
(***************************************************************************)
(* The polling filters of the filter API (gateway/api/filters/api.go):     *)
(* eth_newFilter, eth_newBlockFilter, eth_getFilterChanges,                *)
(* eth_getFilterLogs, eth_uninstallFilter, the sweep of expired filters    *)
(* and the delivery of committed blocks, in a gateway whose block store    *)
(* takes each block before the filter API does (gateway/app/app.go).       *)
(*                                                                         *)
(* A log is [block, index, address]; a criterion is a set of addresses and *)
(* the block it starts from, "earliest" or "latest".  A block filter keeps *)
(* an entry of index 0 for each block.  A client of a log filter reads the history once after   *)
(* installing it and polls from then on.                                   *)
(***************************************************************************)
EXTENDS Naturals, Sequences, SequencesExt, FiniteSets, Functions, TLC

CONSTANTS
  Ids,              \* filter ids to be given out
  Contents,         \* the addresses of a block's logs: a set of sequences
  Criteria,         \* [addresses, from]
  MaxFilters,
  MaxFilterBuffer,
  Timeout,
  MaxBlocks,        \* length of the chain (bound)
  MaxClock          \* end of time (bound)

VARIABLES
  chain,            \* the block store: a sequence of sequences of logs
  handled,          \* blocks the filter API has taken
  filters,          \* id -> [typ, crit, expiresAt, buf]
  fresh,            \* ids not given out yet
  clock,
  sweeping,         \* timeoutLoop runs
  query,            \* id -> eth_getFilterLogs: [pc: "no", "head", "logs" or "done", head]
  crits,            \* id -> the criterion it was installed with
  polled,           \* id -> blocks handled when it was installed or polled last
  seen,             \* id -> the logs its client was given
  overflowed        \* id -> its buffer lost something

client == <<query, crits, polled, seen, overflowed>>
vars == <<chain, handled, filters, fresh, clock, sweeping, client>>

NoCrit == [addresses |-> {}, from |-> "latest"]

Init ==
  /\ chain = <<>> /\ handled = 0 /\ filters = <<>> /\ fresh = Ids /\ clock = 0 /\ sweeping = TRUE
  /\ query = [i \in Ids |-> [pc |-> "no", head |-> 0]] /\ polled = [i \in Ids |-> 0]
  /\ crits = [i \in Ids |-> NoCrit]
  /\ seen = [i \in Ids |-> {}] /\ overflowed = [i \in Ids |-> FALSE]

Expired(i) == clock >= filters[i].expiresAt

-----------------------------------------------------------------------------
(* Blocks *)

LogsOf(n, content) == [k \in DOMAIN content |-> [block |-> n, index |-> k, address |-> content[k]]]

\* Chain.Handle, the handler before this one.
Store ==
  /\ Len(chain) = handled /\ handled < MaxBlocks
  /\ \E content \in Contents : chain' = Append(chain, LogsOf(handled + 1, content))
  /\ UNCHANGED <<handled, filters, fresh, clock, sweeping, client>>

Matches(log, crit) == crit.addresses = {} \/ log.address \in crit.addresses

matchLogs(logs, crit) == SelectSeq(logs, LAMBDA l : Matches(l, crit))

\* Mutant: what does not fit is dropped.
NewestDropped(buf, items) ==
  LET all == buf \o items IN
  IF Len(all) > MaxFilterBuffer THEN SubSeq(all, 1, MaxFilterBuffer) ELSE all

\* The oldest entries are dropped.
appendCapped(buf, items) ==
  LET all == buf \o items IN
  IF Len(all) > MaxFilterBuffer THEN SubSeq(all, Len(all) - MaxFilterBuffer + 1, Len(all)) ELSE all

BlockEntry(n) == [block |-> n, index |-> 0, address |-> "none"]

\* What a filter gets of a block.
Items(f, n) == IF f.typ = "blocks" THEN <<BlockEntry(n)>> ELSE matchLogs(chain[n], f.crit)

\* Delivered to every installed filter, an expired one that was not swept yet too.
Handle ==
  /\ handled < Len(chain) /\ handled' = handled + 1
  /\ filters' = [i \in DOMAIN filters |->
                   [filters[i] EXCEPT !.buf = appendCapped(@, Items(filters[i], handled'))]]
  /\ overflowed' = [i \in Ids |-> \/ overflowed[i]
                                  \/ /\ i \in DOMAIN filters
                                     /\ Len(filters[i].buf) + Len(Items(filters[i], handled')) > MaxFilterBuffer]
  /\ UNCHANGED <<chain, fresh, clock, sweeping, query, crits, polled, seen>>

-----------------------------------------------------------------------------
(* Calls of a client *)

install(i, typ, crit) ==
  /\ i \in fresh /\ Cardinality(DOMAIN filters) < MaxFilters
  /\ fresh' = fresh \ {i}
  /\ filters' = (i :> [typ |-> typ, crit |-> crit, expiresAt |-> clock + Timeout, buf |-> <<>>]) @@ filters
  /\ polled' = [polled EXCEPT ![i] = handled] /\ crits' = [crits EXCEPT ![i] = crit]
  /\ UNCHANGED <<chain, handled, clock, sweeping, query, seen, overflowed>>

NewBlockFilter(i) == install(i, "blocks", NoCrit)

NewFilter(i) == \E crit \in Criteria : install(i, "logs", crit)

Without(ids) == Restrict(filters, DOMAIN filters \ ids)

UninstallFilter(i) ==
  /\ i \in DOMAIN filters /\ filters' = Without({i})
  /\ UNCHANGED <<chain, handled, fresh, clock, sweeping, client>>

\* Mutant: a filter past its deadline gets a new one.
AlwaysReset(i, f) == (i :> [f EXCEPT !.expiresAt = clock + Timeout]) @@ filters

\* A filter past its deadline is deleted, another gets a new one and becomes f.
resetDeadlineLocked(i, f) ==
  IF Expired(i) THEN Without({i}) ELSE (i :> [f EXCEPT !.expiresAt = clock + Timeout]) @@ filters

\* The buffer is drained; the answer is what it held.
GetFilterChanges(i) ==
  /\ i \in DOMAIN filters
  /\ filters' = resetDeadlineLocked(i, [filters[i] EXCEPT !.buf = <<>>])
  /\ IF i \in DOMAIN filters'
     THEN /\ seen' = [seen EXCEPT ![i] = @ \cup Range(filters[i].buf)]
          /\ polled' = [polled EXCEPT ![i] = handled]
     ELSE UNCHANGED <<seen, polled>>
  /\ UNCHANGED <<chain, handled, fresh, clock, sweeping, query, crits, overflowed>>

\* eth_getFilterLogs: the deadline under the lock, then the number of the latest block,
\* then the logs.
GetFilterLogs(i) ==
  /\ i \in DOMAIN filters /\ filters[i].typ = "logs" /\ query[i].pc = "no"
  /\ filters' = resetDeadlineLocked(i, filters[i])
  /\ query' = [query EXCEPT ![i].pc = IF i \in DOMAIN filters' THEN "head" ELSE "no"]
  /\ UNCHANGED <<chain, handled, fresh, clock, sweeping, crits, polled, seen, overflowed>>

ReadHead(i) ==
  /\ query[i].pc = "head" /\ query' = [query EXCEPT ![i] = [pc |-> "logs", head |-> Len(chain)]]
  /\ UNCHANGED <<chain, handled, filters, fresh, clock, sweeping, crits, polled, seen, overflowed>>

\* Mutant: every filter starts at the latest block.
AlwaysHead(crit, head) == head

\* CriteriaToLogFilter: a filter without a first block starts at the latest.
resolveFromBlock(crit, head) == IF crit.from = "earliest" THEN 0 ELSE head

ReadLogs(i) ==
  /\ query[i].pc = "logs"
  /\ LET crit == crits[i]
         from == resolveFromBlock(crit, query[i].head)
     IN seen' = [seen EXCEPT ![i] = @ \cup {l \in UNION {Range(chain[n]) : n \in DOMAIN chain} :
                                              l.block >= from /\ Matches(l, crit)}]
  /\ query' = [query EXCEPT ![i].pc = "done"]
  /\ UNCHANGED <<chain, handled, filters, fresh, clock, sweeping, crits, polled, overflowed>>

-----------------------------------------------------------------------------
(* Time *)

Tick ==
  /\ clock < MaxClock /\ clock' = clock + 1
  /\ UNCHANGED <<chain, handled, filters, fresh, sweeping, client>>

\* Mutant: filters that were never polled are kept.
PolledOnly == {i \in DOMAIN filters : Expired(i) /\ seen[i] # {}}

Swept == {i \in DOMAIN filters : Expired(i)}

timeoutLoop ==
  /\ sweeping /\ Swept # {} /\ filters' = Without(Swept)
  /\ UNCHANGED <<chain, handled, fresh, clock, sweeping, client>>

Close ==
  /\ sweeping /\ sweeping' = FALSE
  /\ UNCHANGED <<chain, handled, filters, fresh, clock, client>>

-----------------------------------------------------------------------------

Next ==
  \/ Store \/ Handle \/ Tick \/ timeoutLoop \/ Close
  \/ \E i \in Ids : \/ NewBlockFilter(i) \/ NewFilter(i) \/ UninstallFilter(i) \/ GetFilterChanges(i)
                    \/ GetFilterLogs(i) \/ ReadHead(i) \/ ReadLogs(i)

Spec == Init /\ [][Next]_vars

-----------------------------------------------------------------------------
(* Properties *)

\* All that filter f should get of the blocks after number n.
Since(f, n) == FoldLeft(LAMBDA s, b : s \o (IF f.typ = "blocks" THEN <<BlockEntry(b)>>
                                            ELSE SelectSeq(chain[b], LAMBDA l : Matches(l, f.crit))),
                        <<>>, [k \in 1 .. handled - n |-> n + k])

\* "When full, oldest entries are dropped": the buffer holds the most recent matches since
\* the last poll, all of them if they fit.
BufferIsRecent ==
  \A i \in DOMAIN filters :
    LET all == Since(filters[i], polled[i])
        n == Len(all)
    IN filters[i].buf = SubSeq(all, IF n > MaxFilterBuffer THEN n - MaxFilterBuffer + 1 ELSE 1, n)

\* A client that installs a filter from the earliest block, reads the history and polls
\* misses no log: what it was not given yet is in the buffer.  A block may be stored, but
\* not handled, when the history is read.
NoGap ==
  \A i \in DOMAIN filters :
    filters[i].typ = "logs" /\ filters[i].crit.from = "earliest" /\ query[i].pc = "done" /\ ~overflowed[i] =>
      \A n \in 1 .. handled : \A l \in Range(chain[n]) :
        Matches(l, filters[i].crit) => l \in seen[i] \cup Range(filters[i].buf)

\* "treat it as not found instead of reviving an expired filter": once past its deadline a
\* filter gives nothing to its client and gets no new deadline in a step.
NeverRevived ==
  \A i \in DOMAIN filters :
    clock >= filters[i].expiresAt =>
      /\ i \in DOMAIN filters' => filters'[i].expiresAt = filters[i].expiresAt
      /\ query[i].pc # "logs" => seen'[i] = seen[i]
=============================================================================
