------------------------------ MODULE LogMatch ------------------------------
(***************************************************************************)
(* The two ways the gateway answers which logs a filter matches: in memory *)
(* for a block just committed (gateway/api/filters/match.go, used by       *)
(* eth_getFilterChanges) and in the tables (filters/criteria.go and        *)
(* Store.GetLogs in gateway/storage/store.go, used by eth_getLogs and      *)
(* eth_getFilterLogs).                                                     *)
(*                                                                         *)
(* A bound of a filter is a block number, or one of the negative numbers   *)
(* below.  A position of the topics is a set of alternatives, empty for    *)
(* any.                                                                    *)
(***************************************************************************)
EXTENDS Integers, Sequences, SequencesExt, FiniteSets, FiniteSetsExt, TLC

CONSTANTS
  LogTopics,     \* topics of a log: a set of sequences
  Filters,       \* [from, to, addresses, topics]
  TopicColumns,  \* topics the table has columns for
  Tip           \* number of the block committed last

VARIABLES log, filter, answered, live, stored

vars == <<log, filter, answered, live, stored>>

Omitted == -9   \* nil
Earliest == -5
Latest == -2

-----------------------------------------------------------------------------
(* In memory *)

\* Mutant: the topics are compared from the last one.
FromTheEnd(topics, alternatives) ==
  \A i \in DOMAIN alternatives :
    alternatives[i] = {} \/ topics[Len(topics) - Len(alternatives) + i] \in alternatives[i]

\* Each position against the topic at it.
TopicsMatch(topics, alternatives) ==
  \A i \in DOMAIN alternatives : alternatives[i] = {} \/ topics[i] \in alternatives[i]

\* A tag is a negative number there, and no bound.
filterLogs(l, f) ==
  /\ f.from >= 0 => f.from <= l.block
  /\ f.to >= 0 => f.to >= l.block
  /\ f.addresses # {} => l.address \in f.addresses
  /\ Len(f.topics) <= Len(l.topics)
  /\ TopicsMatch(l.topics, f.topics)

-----------------------------------------------------------------------------
(* In the tables *)

\* Mutant: an omitted bound is the first block.
FromGenesis(from, head) == IF from < 0 THEN 0 ELSE from

resolveFromBlock(from, head) ==
  CASE from = Earliest -> 0 [] from \in {Omitted, Latest} -> head [] OTHER -> from

\* No bound is Tip, which no log is above.
resolveToBlock(to) ==
  CASE to = Earliest -> 0 [] to \in {Omitted, Latest} -> Tip [] OTHER -> to

\* A column without a topic is NULL, which nothing is equal to.
GetLogs(l, f) ==
  /\ l.block >= resolveFromBlock(f.from, Tip) /\ l.block <= resolveToBlock(f.to)
  /\ f.addresses # {} => l.address \in f.addresses
  /\ \A i \in DOMAIN f.topics :
       i <= TopicColumns /\ f.topics[i] # {} => i <= Len(l.topics) /\ l.topics[i] \in f.topics[i]

-----------------------------------------------------------------------------

\* The tables hold logs of any block up to the latest, memory those of the latest.
Init ==
  /\ log \in [block : 0 .. Tip, address : {"a", "b"}, topics : LogTopics]
  /\ filter \in Filters /\ answered = FALSE /\ live = FALSE /\ stored = FALSE

Answer ==
  /\ ~answered /\ answered' = TRUE /\ live' = filterLogs(log, filter) /\ stored' = GetLogs(log, filter)
  /\ UNCHANGED <<log, filter>>

Next == Answer

Spec == Init /\ [][Next]_vars

-----------------------------------------------------------------------------
(* Properties *)

\* The position of a block against a bound, read as its tag says.
InRange(f, n) ==
  LET number(b) == CASE b = Earliest -> 0 [] b \in {Omitted, Latest} -> Tip [] OTHER -> b
  IN number(f.from) <= n /\ n <= number(f.to)

\* "Topics matches a prefix of that list. An empty element slice matches any topic."
Prefix(l, f) ==
  /\ Len(f.topics) <= Len(l.topics)
  /\ \A i \in DOMAIN f.topics : f.topics[i] = {} \/ l.topics[i] \in f.topics[i]

Wanted(l, f) == InRange(f, l.block) /\ Prefix(l, f) /\ (f.addresses = {} \/ l.address \in f.addresses)

\* What eth_getFilterChanges is given of the block just committed is what the filter asks
\* for.  A filter up to "earliest" is left out: in memory the tag is no bound.
LiveIsRight == answered /\ log.block = Tip /\ filter.to # Earliest => live = Wanted(log, filter)

\* eth_getLogs finds what the filter asks for when no position of its topics is left open
\* at the end and it has no more of them than the tables.
StoredIsRight ==
  answered /\ Len(filter.topics) <= TopicColumns
    /\ (filter.topics # <<>> => filter.topics[Len(filter.topics)] # {}) => stored = Wanted(log, filter)

=============================================================================
