------------------------------ MODULE QueryKVS ------------------------------
(***************************************************************************)
(* The endorser's state when it lives in the query service                 *)
(* (endorser/query): a snapshot is a view of the service, read key by key  *)
(* with a cache; and the life of a snapshot in the engine that opens it    *)
(* (endorser/execution/executor.go).                                       *)
(*                                                                         *)
(* The service is external: a view is pinned by its first read, to the     *)
(* current state or to that of another open view, with which it may share  *)
(* a snapshot.                                                             *)
(***************************************************************************)
EXTENDS Integers, Sequences, FiniteSets, FiniteSetsExt

CONSTANTS
  Requests, Keys,
  MaxCommits,    \* blocks (bound)
  None

VARIABLES
  commits,       \* block -> the keys it wrote
  views,         \* the service's open views, one per request at most
  pinned,        \* request -> the block its view shows, or None
  phase,         \* request -> "idle", "open", "running" or "done"
  cache,         \* request -> key -> the record, or None
  height         \* the last block the store was given

vars == <<commits, views, pinned, phase, cache, height>>

Init ==
  /\ commits = <<>> /\ views = {} /\ height = 0
  /\ pinned = [r \in Requests |-> None]
  /\ phase = [r \in Requests |-> "idle"]
  /\ cache = [r \in Requests |-> [k \in Keys |-> None]]

-----------------------------------------------------------------------------
(* The query service *)

\* A record is the block that wrote it last, 0 for none.
RecordAt(k, block) == Max({0} \cup {b \in 1 .. block : k \in commits[b]})

Pins(r) == IF pinned[r] # None THEN {pinned[r]}
           ELSE {Len(commits)} \cup {pinned[s] : s \in {q \in views : pinned[q] # None}}

Commit(ks) ==
  /\ Len(commits) < MaxCommits
  /\ commits' = Append(commits, ks)
  /\ UNCHANGED <<views, pinned, phase, cache, height>>

-----------------------------------------------------------------------------
(* The engine and its snapshots *)

\* A request for a given block fails before a view is opened.
Refuse(r) ==
  /\ phase[r] = "idle"
  /\ phase' = [phase EXCEPT ![r] = "done"]
  /\ UNCHANGED <<commits, views, pinned, cache, height>>

NewSnapshot(r) ==
  /\ phase[r] = "idle"
  /\ phase' = [phase EXCEPT ![r] = "open"] /\ views' = views \cup {r}
  /\ UNCHANGED <<commits, pinned, cache, height>>

\* Mutant: the reader stays open when the executor cannot be built.
Forgotten(r) == views

\* Close ends the view.
Closed(r) == views \ {r}

\* newExecutor and newSnapshotAt: the state database or the executor cannot be built.
BuildFails(r) ==
  /\ phase[r] = "open"
  /\ phase' = [phase EXCEPT ![r] = "done"] /\ views' = Closed(r)
  /\ UNCHANGED <<commits, pinned, cache, height>>

Build(r) ==
  /\ phase[r] = "open"
  /\ phase' = [phase EXCEPT ![r] = "running"]
  /\ UNCHANGED <<commits, views, pinned, cache, height>>

\* Mutant: the key is read without the view.
Latest(k, pin) == RecordAt(k, Len(commits))

get(k, pin) == RecordAt(k, pin)

\* A key that is in the cache is not asked for again.
Get(r, k) ==
  /\ phase[r] = "running" /\ cache[r][k] = None
  /\ \E pin \in Pins(r) :
       /\ pinned' = [pinned EXCEPT ![r] = pin]
       /\ cache' = [cache EXCEPT ![r][k] = get(k, pin)]
  /\ UNCHANGED <<commits, views, phase, height>>

\* The deferred Close, after the result and after a read that failed.
Finish(r) ==
  /\ phase[r] = "running"
  /\ phase' = [phase EXCEPT ![r] = "done"] /\ views' = Closed(r)
  /\ UNCHANGED <<commits, pinned, cache, height>>

Height(b) == IF b > height THEN b ELSE height

\* Blocks may be delivered again.
Handle(b) ==
  /\ b \in 1 .. Len(commits) /\ b <= height + 1
  /\ height' = Height(b)
  /\ UNCHANGED <<commits, views, pinned, phase, cache>>

-----------------------------------------------------------------------------

Serve(r) == Refuse(r) \/ NewSnapshot(r) \/ BuildFails(r) \/ Build(r) \/ Finish(r)

Next ==
  \/ \E ks \in (SUBSET Keys) \ {{}} : Commit(ks)
  \/ \E r \in Requests : Serve(r) \/ \E k \in Keys : Get(r, k)
  \/ \E b \in 1 .. MaxCommits : Handle(b)

Spec == Init /\ [][Next]_vars /\ \A r \in Requests : WF_vars(Finish(r)) /\ WF_vars(Build(r) \/ BuildFails(r))

-----------------------------------------------------------------------------
(* Properties *)

\* "a transaction sees one consistent state": all the records that a request has read are
\* of one block, whatever was committed between the reads and whichever views share a snapshot.
OneState ==
  \A r \in Requests : \E b \in 0 .. Len(commits) :
    \A k \in Keys : cache[r][k] # None => cache[r][k] = RecordAt(k, b)

=============================================================================
