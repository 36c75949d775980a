------------------------------ MODULE Baseline ------------------------------
(***************************************************************************)
(* cmd/baseline: the gate of the compatibility suites.  A suite leaves     *)
(* report files; "check" compares them with the checked-in list of known   *)
(* failures, "update" rewrites that list, "tag" annotates it.              *)
(*                                                                         *)
(* A report file is the sequence of tests one Mocha invocation ran.  A     *)
(* regular expression is the set of strings it matches; a substring given  *)
(* to "tag" is the title or the message it names.  Notes are left out: no  *)
(* command reads them.                                                     *)
(***************************************************************************)
EXTENDS Naturals, FiniteSets, FiniteSetsExt, Sequences, SequencesExt

CONSTANTS
    TestIDs,    \* full titles of tests
    HookIDs,    \* full titles of before/beforeEach hooks, other than the tests'
    Files,      \* source files; "" is a runner that reports none
    Messages,   \* messages of failures, none empty
    Signed,     \* those of them that inferCause recognises
    PatternIDs, \* what the idPattern of the one pattern entry matches
    PatternMsgs,\* what its messagePattern matches
    Matches,    \* what "tag" is asked to match
    FirstFiles, \* bound: the files of the first test; they are told apart only by being different
    MaxTests    \* bound: tests in the reports of one run of the suite

VARIABLES
    reports,    \* the results files, in the order of their names
    results,    \* what loadResults makes of them: each command reads them anew
    baseline,   \* the entries of the baseline file
    last        \* the last of check, update and unforced tag, and its exit code

vars == <<reports, results, baseline, last>>

IDs == TestIDs \cup HookIDs

\* What Mocha reports of one test: a failure carries a message, and only a
\* failing hook is reported at all.
Tests == [id : TestIDs, file : Files, outcome : {"pass", "pending"}, msg : {""}]
            \cup [id : IDs, file : Files, outcome : {"fail"}, msg : Messages]

(***************************************************************************)
(* Parsing.                                                                *)
(***************************************************************************)
PassResult(t) == [id |-> t.id, file |-> t.file, status |-> "pass", msg |-> ""]
SkipResult(t) == [PassResult(t) EXCEPT !.status = "skip"]
FailResult(t) == [PassResult(t) EXCEPT !.status = "fail", !.msg = t.msg]

\* The titles of a report that some test of it is pending under.
Pending(report) ==
    {t.id : t \in {u \in ToSet(report) : u.outcome = "pending"}}

ResultOf(report, t) ==
    CASE t.id \in Pending(report) -> SkipResult(t)
      [] t.msg # ""               -> FailResult(t)
      [] OTHER                    -> PassResult(t)

\* Report.Tests first, then the failures that are no test's: the hooks.
ParseMochaJSON(report) ==
    LET IsTest(t) == t.id \in TestIDs
        IsHook(t) == t.outcome = "fail" /\ t.id \in HookIDs
        tests == SelectSeq(report, IsTest)
        hooks == SelectSeq(report, IsHook)
    IN  [i \in DOMAIN tests |-> ResultOf(report, tests[i])]
            \o [i \in DOMAIN hooks |-> FailResult(hooks[i])]

(***************************************************************************)
(* loadResults: the results of all files, or none when one test is         *)
(* reported inconsistently.  "seen" keeps the first result of each title.  *)
(***************************************************************************)
NoResults == [ok |-> TRUE, all |-> <<>>, seen |-> [i \in {} |-> <<>>]]

LoadResult(acc, r) ==
    IF ~acc.ok THEN acc
    ELSE IF r.id \notin DOMAIN acc.seen
         THEN [acc EXCEPT !.all = Append(@, r), !.seen = (r.id :> r) @@ @]
    ELSE LET prev == acc.seen[r.id] IN
         CASE prev.status = r.status /\ prev.msg = r.msg -> acc
           [] (prev.status # r.status \/ prev.msg # r.msg)
                /\ prev.file # "" /\ r.file # "" /\ prev.file # r.file
                -> [acc EXCEPT !.all = Append(@, r)]
           [] OTHER -> [acc EXCEPT !.ok = FALSE]

LoadResults(rs) ==
    LET acc == FoldLeft(LoadResult, NoResults,
                        FlattenSeq([i \in DOMAIN rs |-> ParseMochaJSON(rs[i])]))
    IN  [ok |-> rs # <<>> /\ acc.ok, all |-> acc.all]

(***************************************************************************)
(* The baseline file.                                                      *)
(***************************************************************************)

Literal(id, cause, flaky) ==
    [id |-> id, cause |-> cause, flaky |-> flaky, idp |-> "none", msgp |-> "none"]

IsPattern(e) == e.idp # "none" \/ e.msgp # "none"

LoadBaseline(b) ==
    \A e \in b : IsPattern(e) => e.idp = "good" /\ e.msgp = "good" /\ e.flaky

CompilePatterns(b) == {e \in b : e.idp = "good" /\ e.msgp = "good"}

MatchOnID(b, r) == \E e \in CompilePatterns(b) : r.id \in PatternIDs

MatchPattern(b, r) ==
    \E e \in CompilePatterns(b) : r.id \in PatternIDs /\ r.msg \in PatternMsgs

\* Diff's byID; entries of one title agree on Flaky (DuplicatesAgree).
ByID(b, id) == {e \in b : ~IsPattern(e) /\ e.id = id}
IsListed(b, id) == ByID(b, id) # {}
IsQuarantined(b, id) == \E e \in ByID(b, id) : e.flaky

\* Results are told apart by their place in the results, entries by value.
Failing(rs) == {i \in DOMAIN rs : rs[i].status = "fail"}
Listed(rs, b) == {i \in DOMAIN rs : IsListed(b, rs[i].id)}
Flaky(rs, b) == {i \in DOMAIN rs : IsQuarantined(b, rs[i].id)}
Matching(rs, b) == {i \in DOMAIN rs : MatchPattern(b, rs[i])}

AllUnlisted(rs, b) == Failing(rs) \ Listed(rs, b)

Regressions(rs, b) == (Failing(rs) \ Listed(rs, b)) \ Matching(rs, b)

Diff(rs, b) ==
    LET quiet == (Listed(rs, b) \ Flaky(rs, b)) \ Failing(rs)
        absent == {e \in b : ~IsPattern(e) /\ e.id \notin {rs[i].id : i \in DOMAIN rs}}
    IN  [regressions |-> Regressions(rs, b),
         expected    |-> (Listed(rs, b) \ Flaky(rs, b)) \cap Failing(rs),
         quarantined |-> Flaky(rs, b)
                            \cup ((Failing(rs) \ Listed(rs, b)) \cap Matching(rs, b)),
         notRun      |-> {e \in absent : e.flaky},
         stale       |-> UNION {ByID(b, rs[i].id) : i \in quiet}
                            \cup {e \in absent : ~e.flaky}]

InferCause(msg) == IF msg \in Signed THEN "rpc" ELSE ""

\* The message the last expected failure under a title has.
MessageByID(rs, d, id) ==
    LET is == {i \in d.expected : rs[i].id = id}
    IN  IF is = {} THEN "" ELSE rs[Max(is)].msg

OnlyUnderstood(rs, d) ==
    {Literal(rs[i].id, "rpc", FALSE) : i \in {j \in d.regressions : rs[j].msg \in Signed}}

Additions(rs, d) ==
    {Literal(rs[i].id, InferCause(rs[i].msg), FALSE) : i \in d.regressions}

ReinferAll(rs, b, d) ==
    {[e EXCEPT !.cause = InferCause(MessageByID(rs, d, e.id))] :
        e \in {x \in b : x.id \notin {s.id : s \in d.stale}}} \cup Additions(rs, d)

Reconcile(rs, b, d) ==
    {[e EXCEPT !.cause = IF @ = "" THEN InferCause(MessageByID(rs, d, e.id)) ELSE @] :
        e \in {x \in b : x.id \notin {s.id : s \in d.stale}}} \cup Additions(rs, d)

StillFailing(rs, id) == {i \in DOMAIN rs : rs[i].id = id /\ rs[i].status = "fail"}

TagFlakyOnce(rs, b, match, cause, flaky, force) ==
    {IF StillFailing(rs, e.id) # {} /\ e.cause = ""
     THEN [e EXCEPT !.cause = cause, !.flaky = @ \/ flaky] ELSE e : e \in b}

\* tagMatching: entries that still fail and match by title or by message.
TagMatching(rs, b, match, cause, flaky, force) ==
    LET msg(e) == rs[Max(StillFailing(rs, e.id))].msg
        Chosen(e) == /\ StillFailing(rs, e.id) # {}
                     /\ match = e.id \/ match = msg(e)
        Tagged(e) == [e EXCEPT
            !.cause = IF cause # "" /\ (@ = "" \/ force) THEN cause ELSE @,
            !.flaky = @ \/ flaky]
    IN  {IF Chosen(e) THEN Tagged(e) ELSE e : e \in b}

(***************************************************************************)
(* What check prints.                                                      *)
(***************************************************************************)
Count(rs, is, status) == Cardinality({i \in is : rs[i].status = status})

\* bySuite: a file stands for the suite it belongs to.
BySuite(rs) ==
    [f \in {rs[i].file : i \in DOMAIN rs} |->
        LET is == {i \in DOMAIN rs : rs[i].file = f}
        IN  [pass |-> Count(rs, is, "pass"),
             total |-> Count(rs, is, "pass") + Count(rs, is, "fail")]]

\* groupExpected: a cause, or the message of an untagged failure.
GroupKey(rs, b, i) ==
    LET e == CHOOSE x \in ByID(b, rs[i].id) : TRUE
    IN  IF e.cause # "" THEN e.cause ELSE rs[i].msg

GroupExpected(rs, b, d) ==
    [k \in {GroupKey(rs, b, i) : i \in d.expected} |->
        Cardinality({i \in d.expected : GroupKey(rs, b, i) = k})]

BuildSummary(rs, b, d) ==
    [pass |-> Count(rs, DOMAIN rs, "pass"),
     fail |-> Count(rs, DOMAIN rs, "fail"),
     skip |-> Count(rs, DOMAIN rs, "skip"),
     total |-> Len(rs),
     bySuite |-> BySuite(rs),
     regressions |-> Cardinality(d.regressions),
     stale |-> {e.id : e \in d.stale},
     quarantined |-> Cardinality(d.quarantined) + Cardinality(d.notRun),
     causes |-> GroupExpected(rs, b, d)]

\* The quarantined section of WriteReport: a skipped test "did not run".
WriteReport(rs, d) ==
    [passed |-> Count(rs, d.quarantined, "pass"),
     failed |-> Count(rs, d.quarantined, "fail"),
     notRun |-> Count(rs, d.quarantined, "skip") + Cardinality(d.notRun)]

(***************************************************************************)
(* The suite and the commands.                                             *)
(***************************************************************************)
Size(rs) == FoldLeft(LAMBDA n, r : n + Len(r), 0, rs)

\* The suite's script: one more test in the last file, or in a new one.
RunTest ==
    /\ Size(reports) < MaxTests
    /\ \E t \in Tests :
         /\ reports = <<>> => t.file \in FirstFiles
         /\ \/ /\ reports # <<>>
               /\ reports' = [reports EXCEPT ![Len(reports)] = Append(@, t)]
            \/ reports' = Append(reports, <<t>>)
    /\ results' = LoadResults(reports')
    /\ last' = [cmd |-> "other", exit |-> 0]
    /\ UNCHANGED baseline

\* The results directory is emptied for another run.
CleanResults ==
    /\ reports # <<>>
    /\ reports' = <<>>
    /\ results' = LoadResults(<<>>)
    /\ last' = [cmd |-> "other", exit |-> 0]
    /\ UNCHANGED baseline

Ready == results.ok /\ LoadBaseline(baseline)

CheckExit ==
    IF ~Ready THEN 2
    ELSE IF Diff(results.all, baseline).regressions # {} THEN 1
    ELSE 0

RunCheck ==
    /\ last' = [cmd |-> "check", exit |-> CheckExit]
    /\ UNCHANGED <<reports, results, baseline>>

RunUpdate ==
    /\ last' = [cmd |-> "update", exit |-> IF Ready THEN 0 ELSE 2]
    /\ baseline' = IF Ready THEN Reconcile(results.all, baseline,
                                           Diff(results.all, baseline))
                            ELSE baseline
    /\ UNCHANGED <<reports, results>>

RunTag ==
    /\ \E match \in Matches, cause \in {"", "tagged"}, flaky, force \in BOOLEAN :
          /\ cause # "" \/ flaky
          /\ last' = [cmd |-> IF force THEN "other" ELSE "tag",
                      exit |-> IF Ready THEN 0 ELSE 2]
          /\ baseline' = IF Ready THEN TagMatching(results.all, baseline,
                                                   match, cause, flaky, force)
                                  ELSE baseline
    /\ UNCHANGED <<reports, results>>

\* A pattern entry as someone may write it by hand, with at most one mistake: a pattern
\* that is missing or does not compile; its ID is a label.
PatternEntries ==
    LET good == [Literal("label", "", TRUE) EXCEPT !.idp = "good", !.msgp = "good"]
    IN  {good, [good EXCEPT !.flaky = FALSE]}
            \cup {[good EXCEPT !.idp = p] : p \in {"none", "bad"}}
            \cup {[good EXCEPT !.msgp = p] : p \in {"none", "bad"}}

\* The file may be missing, or hold a pattern entry.
Init ==
    /\ reports = <<>>
    /\ results = LoadResults(<<>>)
    /\ baseline \in {{}} \cup {{e} : e \in PatternEntries}
    /\ last = [cmd |-> "other", exit |-> 0]

Next ==
    \/ RunTest
    \/ CleanResults
    \/ RunCheck
    \/ RunUpdate
    \/ RunTag

Spec == Init /\ [][Next]_vars

(***************************************************************************)
(* Properties; UpdateSettles and AnnotationsKept are of steps.             *)
(***************************************************************************)

\* The failures of the run, whichever file reports them.
Failures == {t \in UNION {ToSet(reports[i]) : i \in DOMAIN reports} : t.outcome = "fail"}

\* A failure under whose title the same file also has a pending test.
Shadowed(t) ==
    \A i \in DOMAIN reports :
        t \in ToSet(reports[i]) => t.id \in Pending(reports[i])

\* An entry names the test, or both its patterns match the failure.
Covered(t) ==
    \E e \in baseline :
        \/ ~IsPattern(e) /\ e.id = t.id
        \/ /\ e.idp = "good" /\ t.id \in PatternIDs
           /\ e.msgp = "good" /\ t.msg \in PatternMsgs /\ e.flaky

\* check exits 1 exactly when some test or hook of the run failed that no entry
\* of the baseline covers (Regressed, "any unlisted failure"), through parsing,
\* merging the files and loading the baseline; 2 refuses to tell.
ExitTells ==
    last.cmd = "check" /\ last.exit # 2 =>
        (last.exit = 1 <=> \E t \in Failures : ~Shadowed(t) /\ ~Covered(t))

\* The titles under which one file's test failed and another's did not.
Mixed ==
    LET rs == results.all
    IN  {rs[i].id : i \in {j \in DOMAIN rs : rs[j].status = "fail"}}
            \cap {rs[i].id : i \in {j \in DOMAIN rs : rs[j].status # "fail"}}

Titles(b) == {e.id : e \in b}

\* update settles the baseline: a check of the same results right after it is
\* green, and a second update lists the same tests (Reconcile against Diff),
\* unless one title both failed and did not.
UpdateSettles ==
    /\ last = [cmd |-> "update", exit |-> 0]
    /\ reports' = reports
    /\ Mixed = {}
    => /\ last'.cmd = "check" => last'.exit = 0
       /\ last'.cmd = "update" => Titles(baseline') = Titles(baseline)

\* No command but a forced tag loses an annotation: an entry that is flaky or a
\* pattern stays as it is under update, and a cause that is set stays as long as
\* the entry does (Reconcile, tagMatching).
AnnotationsKept ==
    /\ last'.cmd = "update" => {e \in baseline : e.flaky} \subseteq baseline'
    /\ last'.cmd \in {"update", "tag"} =>
          \A e \in baseline : e.cause # "" =>
             \A f \in baseline' : f.id = e.id /\ f.cause # e.cause =>
                 \E g \in baseline' : g.id = e.id /\ g.cause = e.cause

\* Entries of one title agree on Flaky, so that which of them Diff's byID keeps
\* does not matter (update may add a title twice, tag marks both).
DuplicatesAgree ==
    \A e, f \in baseline : e.id = f.id => e.flaky = f.flaky

\* The numbers of the summary add up: each failure is one regression, one
\* expected failure or one quarantined failure, the suites partition the tests
\* that were not skipped, and the report lists what the summary counts
\* (BuildSummary and WriteReport).
NumbersAddUp ==
    Ready =>
        LET rs == results.all
            d == Diff(rs, baseline)
            sum == BuildSummary(rs, baseline, d)
            rep == WriteReport(rs, d)
        IN  /\ sum.pass + sum.fail + sum.skip = sum.total
            /\ sum.fail = sum.regressions + rep.failed
                    + MapThenSumSet(LAMBDA k : sum.causes[k], DOMAIN sum.causes)
            /\ sum.pass + sum.fail =
                    MapThenSumSet(LAMBDA f : sum.bySuite[f].total, DOMAIN sum.bySuite)
            /\ rep.passed + rep.failed + rep.notRun = sum.quarantined

=============================================================================
