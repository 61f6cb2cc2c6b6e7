--------------------------- MODULE ExperimentRun ---------------------------
(***************************************************************************)
(* The experiment runner (experiments/runner.py, execution.py,             *)
(* artifacts.py and the pilot scripts): a session of invocations, each of  *)
(* which loads a corpus, runs every case through every treatment, scores   *)
(* each execution against the case's oracle, compares B4 with itself in    *)
(* two contexts, and writes a bundle of artifacts.                         *)
(*                                                                         *)
(* The decision phase of an execution is one step, with any subset of the  *)
(* spans its text offers to the rules and any action its treatment could   *)
(* choose (GovernedDisclosure has them in detail).  The provider call is   *)
(* apart from it: it answers, raises, or outlives its caller in a worker   *)
(* thread that later writes to the delegate it was given (ProviderCall has *)
(* the deadlines).  A process may crash between any two steps; what it     *)
(* wrote stays.                                                            *)
(***************************************************************************)
EXTENDS Corpus, RunAggregation
Det == INSTANCE Detection

CONSTANTS Session,  \* the sessions there may be: sequences of invocations
          RunId     \* experiment_run_id

(* An invocation has: the files of its corpus, a protocol, treatments      *)
(* (every caller's are each another one, as those of ALL_TREATMENTS), the  *)
(* id, the kind of provider (fake for one FakeProvider per execution, bare *)
(* for the caller's, wrapped for the caller's own delegate), its class,    *)
(* and the comparison to make, or Absent.                                  *)
ASSUME SessionAssumption ==
    /\ \A s \in Session :
         /\ s \in Seq(Elements(s)) /\ s # <<>>
         /\ \A i \in DOMAIN s : /\ s[i].files \in Seq(Elements(s[i].files))
                               /\ s[i].treatments \in Seq(Elements(s[i].treatments))
                               /\ NoRepeats(s[i].treatments)
                               /\ s[i].id \in RunId

(* What the types of the fields say of a file that reads as a case: an     *)
(* amount has no sign, and a reference has one of four operators           *)
(* (ReferenceOperator).                                                    *)
IsTyped(file) ==
    LET unsigned(value) == value.kind = "amount" => value.points \in Nat
    IN  /\ \A t \in file.input.tokens : unsigned(t.value)
        /\ \A s \in Elements(file.oracle.spans) : unsigned(s.value)
        /\ \A r \in Elements(file.oracle.references) :
             r.operator \in {"gt", "ge", "lt", "le"} /\ r.points \in Nat

ASSUME CorpusAssumption ==
    \A s \in Session : \A i \in DOMAIN s : \A file \in Elements(s[i].files) :
      file.readable => IsTyped(file)

VARIABLES
    session,   \* the invocations of this session
    turn,      \* which of them runs
    pc,        \* where the process is
    cases,     \* the loaded corpus
    execution, \* what the current execution has produced so far
    lastCall,  \* last_call of the delegate in use: the execution it is about
    late,      \* executions given up on whose worker thread still runs
    called,    \* ghost: the executions that reached generate
    rows,      \* the CaseResults so far
    comparison,\* the contextual result, or Absent
    disk       \* what each run directory holds, Absent where there is none

memory == <<cases, execution, lastCall, late, called, rows, comparison>>
vars == <<session, turn, pc, memory, disk>>

Job == session[turn]
TreatmentCodes == <<"b0", "b1", "b2", "b3", "b4">>
Reconstructing == {"b2", "b3", "b4"}

Planned == Len(Job.treatments) * Len(cases)
Here == Len(rows) + 1
TreatmentAt(n) == Job.treatments[((n - 1) \div Len(cases)) + 1]
CaseAt(n) == cases[((n - 1) % Len(cases)) + 1]

Init == /\ session \in Session /\ turn = 1 /\ pc = "starting"
        /\ cases = <<>> /\ execution = Absent /\ lastCall = Absent /\ late = {} /\ called = {}
        /\ rows = <<>> /\ comparison = Absent
        /\ disk = [id \in RunId |-> Absent]

-----------------------------------------------------------------------------
(* run_pilot up to its first execution.                                    *)

\* Keeps what it loaded of a corpus it refuses.
BeginMutant1 ==
    /\ pc = "starting"
    /\ LET loaded == LoadCorpus(Job.files)
       IN  /\ cases' = loaded
           /\ pc' = IF loaded # Absent /\ CheckCorpusProtocolCompatibility(loaded, Job.protocol)
                    THEN "running" ELSE "refused"
    /\ UNCHANGED <<session, turn, execution, lastCall, late, called, rows, comparison, disk>>

Begin ==
    /\ pc = "starting"
    /\ LET loaded == LoadCorpus(Job.files)
       IN  IF loaded # Absent /\ CheckCorpusProtocolCompatibility(loaded, Job.protocol)
           THEN cases' = loaded /\ pc' = "running"
           ELSE cases' = cases /\ pc' = "refused"
    /\ UNCHANGED <<session, turn, execution, lastCall, late, called, rows, comparison, disk>>

-----------------------------------------------------------------------------
(* The decision phase.                                                     *)

(* The actions a treatment may choose for a category, whatever the task    *)
(* and the policies are.                                                   *)
Choices(treatment, category) ==
    IF treatment = "b0" THEN {"preserve"}
    ELSE IF treatment = "b1" THEN {Det!B1Action(category)}
    ELSE IF treatment = "b2" THEN {B2Action(category)}
    ELSE IF treatment = "b3" THEN
      (IF category \in Known THEN TaskAwareActionSpaces[category] ELSE {}) \cup {"block_request"}
    ELSE DisclosureLevels \cup {"block_request"}

(* What stands in the payload in place of a value.                         *)
Represent(action, span) ==
    IF action = "remove" THEN Nothing
    ELSE IF action = "generalize" THEN Generalize(span.category, span.value)
    ELSE IF action = "pseudonymize" THEN Pseudonym(span.value) ELSE span.value

BlockedResult == [status |-> "blocked", transformations |-> <<>>, reconstructionRequired |-> FALSE]
DirectResult ==
    [BlockedResult EXCEPT !.status = "allowed",
       !.transformations = <<[category |-> "direct_disclosure", original |-> Absent,
                              action |-> "preserve", transformed |-> Absent]>>]

(* The result of a treatment that chose an action for each category.       *)
Sanitized(spans, chosen) ==
    IF \E i \in DOMAIN spans :
         \/ chosen[spans[i].category] = "block_request"
         \/ /\ chosen[spans[i].category] = "generalize"
            /\ Generalize(spans[i].category, spans[i].value) = Absent
    THEN BlockedResult
    ELSE [status |-> "allowed",
          transformations |->
            [i \in DOMAIN spans |->
               [category |-> spans[i].category, original |-> spans[i].value,
                action |-> chosen[spans[i].category],
                transformed |-> Represent(chosen[spans[i].category], spans[i])]],
          reconstructionRequired |->
            \E i \in DOMAIN spans : chosen[spans[i].category] = "pseudonymize"]

(* What B4's span records: policy blocks, and of the categories it decided *)
(* those it restricted and, among these, made impossible.                  *)
B4Metadata(treatment, categories, chosen) ==
    IF treatment # "b4" THEN {Absent}
    ELSE [policyBlock : IF \E c \in categories : chosen[c] = "block_request"
                        THEN BOOLEAN ELSE {FALSE},
          restricted : SUBSET {c \in categories : chosen[c] # "block_request"},
          impossible : SUBSET {c \in categories : chosen[c] # "block_request"}]

(* A value in the task blocks whatever was allowed, except under B0.       *)
TaskBlocks(treatment, input) == treatment # "b0" /\ input.sensitiveTask

\* The delegate is one for the whole invocation.
DelegateMutant1 == lastCall

(* The delegate at the start of an execution: a new one, unless the caller *)
(* passed in its own.                                                      *)
Delegate == IF Job.provider = "wrapped" THEN lastCall ELSE Absent

Execute ==
    /\ pc = "running" /\ Len(rows) < Planned
    /\ LET treatment == TreatmentAt(Here)
           input == CaseAt(Here).input
       IN  \E found \in SUBSET input.tokens : \E spans \in Det!ResolveOverlaps(found) :
             LET categories == {spans[i].category : i \in DOMAIN spans}
             IN  \E chosen \in {f \in [categories -> DisclosureLevels \cup {"block_request"}] :
                                  \A c \in categories : f[c] \in Choices(treatment, c)} :
                 \E b4 \in B4Metadata(treatment, categories, chosen) :
                   execution' = [detected |-> spans, audit |-> Absent, b4 |-> b4,
                                 result |-> IF TaskBlocks(treatment, input) THEN BlockedResult
                                            ELSE IF treatment = "b0" THEN DirectResult
                                            ELSE Sanitized(spans, chosen)]
    /\ lastCall' = Delegate /\ pc' = "decided"
    /\ UNCHANGED <<session, turn, cases, late, called, rows, comparison, disk>>

-----------------------------------------------------------------------------
(* The provider call.                                                      *)

Pending == pc = "decided"

Audited(wasCalled, failed) ==
    /\ execution' = [execution EXCEPT !.audit = [called |-> wasCalled, failed |-> failed]]
    /\ pc' = "settled"

SkipBlocked ==
    /\ Pending /\ execution.result.status = "blocked"
    /\ Audited(FALSE, FALSE)
    /\ UNCHANGED <<session, turn, cases, lastCall, late, called, rows, comparison, disk>>

(* FakeProvider is given the class of the case.                            *)
Mismatch == Job.provider # "fake"
            /\ Job.class # BuildRequest(CaseAt(Here).input, <<>>).providerClass

RefuseClass ==
    /\ Pending /\ execution.result.status = "allowed" /\ Mismatch
    /\ Audited(FALSE, TRUE)
    /\ UNCHANGED <<session, turn, cases, lastCall, late, called, rows, comparison, disk>>

Sendable == Pending /\ execution.result.status = "allowed" /\ ~Mismatch

Answer ==
    /\ Sendable
    /\ Audited(TRUE, FALSE)
    /\ lastCall' = Here
    /\ called' = called \cup {Here}
    /\ UNCHANGED <<session, turn, cases, late, rows, comparison, disk>>

Raise ==
    /\ Sendable /\ Job.provider # "fake"
    /\ Audited(TRUE, TRUE)
    /\ called' = called \cup {Here}
    /\ UNCHANGED <<session, turn, cases, lastCall, late, rows, comparison, disk>>

GiveUp ==
    /\ Sendable /\ Job.provider # "fake"
    /\ Audited(TRUE, TRUE)
    /\ called' = called \cup {Here}
    /\ late' = late \cup {Here}
    /\ UNCHANGED <<session, turn, cases, lastCall, rows, comparison, disk>>

(* The worker's answer comes, and it notes the call in the delegate it     *)
(* runs under.                                                             *)
WorkerFinishes(n) ==
    /\ n \in late
    /\ late' = late \ {n}
    /\ lastCall' = IF Job.provider = "wrapped" \/ (n = Here /\ pc \in {"decided", "settled"})
                   THEN n ELSE lastCall
    /\ UNCHANGED <<session, turn, pc, cases, execution, called, rows, comparison, disk>>

-----------------------------------------------------------------------------
(* The rest of execute_case, score_case and the row.                       *)

ScoreCase(p, case, treatment, run, shown) ==
    LET utility == ScoreUtility(p, case.input, case.oracle, run.result, treatment)
        outcomes == ClassifyCaseOutcomes(run.result, run.b4, run.audit)
    IN  [actions |-> ResolveSpanRecords(case.oracle, run.result, treatment),
         conformance |-> ScoreConformance(case.oracle, run.result, treatment),
         exposure |-> ScoreExposure(case.oracle, run.result, treatment),
         unnecessary |-> ScoreUnnecessaryDisclosure(case.oracle, run.result, treatment),
         utility |-> utility,
         reconstruction |-> ScoreReconstruction(case.oracle, run.result, shown),
         outcomes |-> outcomes,
         ordinaryFailure |-> ClassifyOrdinaryUtilityFailure(utility.overall, outcomes),
         detector |-> ScoreDetectorCase(case.oracle.spans, run.detected)]

(* The values a reader of the reconstructed payload sees: those never      *)
(* detected, those preserved, and those the vault gives back.              *)
EchoShows(input, run, restored) ==
    {t.value : t \in {u \in input.tokens : \A i \in DOMAIN run.detected :
                                             ~Det!Overlaps(u, run.detected[i])}}
    \cup {t.original : t \in {u \in Elements(run.result.transformations) :
                                u.action \in {"preserve"} \cup
                                              (IF restored THEN {"pseudonymize"} ELSE {})}}

Collect ==
    /\ pc = "settled"
    /\ LET treatment == TreatmentAt(Here)
           case == CaseAt(Here)
           echoes == execution.result.status = "allowed" /\ treatment \in Reconstructing
           scorable == /\ ValidateScorableProtocolId(Job.protocol)
                       /\ CheckCaseProtocolCompatibility(case.oracle, Job.protocol)
       IN  IF scorable
           THEN \E restored \in IF execution.result.reconstructionRequired THEN BOOLEAN ELSE {TRUE} :
                  LET shown == IF echoes THEN EchoShows(case.input, execution, restored) ELSE Absent
                  IN  /\ rows' = Append(rows,
                           [case |-> case.input.id, treatment |-> treatment,
                            protocol |-> Job.protocol, metrics |-> lastCall,
                            snapshot |-> lastCall # Absent, audit |-> execution.audit,
                            result |-> execution.result,
                            score |-> ScoreCase(Job.protocol, case, treatment, execution, shown)])
                      /\ pc' = "running"
           ELSE pc' = "unscored" /\ rows' = rows
    /\ execution' = Absent
    /\ UNCHANGED <<session, turn, cases, lastCall, late, called, comparison, disk>>

-----------------------------------------------------------------------------
(* The contextual comparison: one case under B4 twice, each time with a    *)
(* fake provider and a vault of its own.                                   *)

RunsOut == pc = "running" /\ Len(rows) = Planned

Compare ==
    /\ RunsOut
    /\ IF Job.compare = Absent THEN comparison' = comparison
       ELSE \E a, b \in [{Job.compare} -> [action : DisclosureLevels \cup {"block_request"},
                                            allowed : {<<>>}]] \cup {<<>>} :
              comparison' = EvaluateContextualComparison(Job.compare, a, b)
    /\ pc' = "mkdir"
    /\ UNCHANGED <<session, turn, cases, execution, lastCall, late, called, rows, disk>>

-----------------------------------------------------------------------------
(* write_pilot_artifacts, file by file.  Each file is noted with the       *)
(* invocation that wrote it.                                               *)

RowsOf(treatment) ==
    Restrict(rows, {k \in DOMAIN rows : rows[k].treatment = treatment})

Write(name, content) ==
    disk' = [disk EXCEPT ![Job.id] =
               [n \in DOMAIN @ \cup {name} |->
                  IF n = name THEN [by |-> turn, is |-> content] ELSE @[n]]]

Goes(from, to) == pc = from /\ pc' = to /\ UNCHANGED <<session, turn, memory>>

\* Goes on in a directory that is there already.
MakeDirMutant1 ==
    /\ pc = "mkdir"
    /\ IF disk[Job.id] # Absent THEN pc' = "results" /\ disk' = disk
       ELSE pc' = "results" /\ disk' = [disk EXCEPT ![Job.id] = <<>>]
    /\ UNCHANGED <<session, turn, memory>>

\* Waits for a directory that is there to go away.
MakeDirMutant2 ==
    /\ pc = "mkdir" /\ disk[Job.id] = Absent
    /\ pc' = "results" /\ disk' = [disk EXCEPT ![Job.id] = <<>>]
    /\ UNCHANGED <<session, turn, memory>>

MakeDir ==
    /\ pc = "mkdir"
    /\ IF disk[Job.id] # Absent THEN pc' = "exists" /\ disk' = disk
       ELSE pc' = "results" /\ disk' = [disk EXCEPT ![Job.id] = <<>>]
    /\ UNCHANGED <<session, turn, memory>>

ProtocolIds == {rows[k].protocol : k \in DOMAIN rows}

OpenResults ==
    /\ pc = "results"
    /\ IF Cardinality(ProtocolIds) > 1 THEN pc' = "mixed" /\ disk' = disk
       ELSE pc' = "lines" /\ Write("results", <<>>)
    /\ UNCHANGED <<session, turn, memory>>

WriteLine ==
    /\ pc = "lines"
    /\ LET written == disk[Job.id]["results"].is
       IN  /\ Len(written) < Len(rows)
           /\ Write("results", Append(written, rows[Len(written) + 1]))
    /\ UNCHANGED <<session, turn, pc, memory>>

WriteSummaries ==
    /\ pc = "lines" /\ Len(disk[Job.id]["results"].is) = Len(rows)
    /\ pc' = "pairwise" /\ UNCHANGED <<session, turn, memory>>
    /\ Write("summary_by_treatment",
             [t \in Elements(Job.treatments) |-> SummarizeTreatment(RowsOf(t))])

Consecutive ==
    {<<TreatmentCodes[i], TreatmentCodes[i + 1]>> : i \in 1..(Len(TreatmentCodes) - 1)}

WritePairwise ==
    /\ Goes("pairwise", "b3_to_b4")
    /\ Write("summary_pairwise",
             [p \in {q \in Consecutive : {q[1], q[2]} \subseteq Elements(Job.treatments)} |->
                SummarizePairwise(RowsOf(p[1]), RowsOf(p[2]))])

WriteB3ToB4 ==
    /\ Goes("b3_to_b4", "contextual")
    /\ IF {"b3", "b4"} \subseteq Elements(Job.treatments)
       THEN Write("summary_b3_to_b4", SummarizeB3ToB4(RowsOf("b3"), RowsOf("b4")))
       ELSE disk' = disk

WriteContextual ==
    /\ Goes("contextual", "manifest")
    /\ IF comparison # Absent THEN Write("contextual_matrix", comparison) ELSE disk' = disk

WriteManifest ==
    /\ Goes("manifest", "done")
    /\ Write("manifest",
             [protocol |-> IF ProtocolIds = {} THEN CurrentProtocolId
                           ELSE CHOOSE p \in ProtocolIds : TRUE,
              caseCounts |-> [t \in Elements(Job.treatments) |-> Size(RowsOf(t))],
              compared |-> comparison # Absent])

-----------------------------------------------------------------------------
Ended == {"refused", "unscored", "exists", "mixed", "done", "crashed"}

(* The next invocation of the session, in a process of its own.            *)
NextInvocation ==
    /\ pc \in Ended /\ turn < Len(session)
    /\ turn' = turn + 1 /\ pc' = "starting"
    /\ cases' = <<>> /\ execution' = Absent /\ lastCall' = Absent /\ late' = {}
    /\ called' = {} /\ rows' = <<>> /\ comparison' = Absent
    /\ UNCHANGED <<session, disk>>

Crash ==
    /\ pc \notin Ended /\ turn < Len(session)   \* a crash nobody follows shows nothing
    /\ pc' = "crashed"
    /\ cases' = <<>> /\ execution' = Absent /\ lastCall' = Absent /\ late' = {}
    /\ called' = {} /\ rows' = <<>> /\ comparison' = Absent
    /\ UNCHANGED <<session, turn, disk>>

Settle == SkipBlocked \/ RefuseClass \/ Answer \/ Raise \/ GiveUp
WriteArtifact ==
    MakeDir \/ OpenResults \/ WriteLine \/ WriteSummaries \/ WritePairwise \/ WriteB3ToB4
    \/ WriteContextual \/ WriteManifest
Progress == Begin \/ Execute \/ Settle \/ Collect \/ Compare \/ WriteArtifact

Next == Progress \/ (\E n \in late : WorkerFinishes(n)) \/ NextInvocation \/ Crash

(* The runner's own thread keeps running while the process lives, and the  *)
(* caller's deadline passes whatever the provider does; a worker need      *)
(* never finish.                                                           *)
Spec == Init /\ [][Next]_vars /\ WF_vars(Progress)

-----------------------------------------------------------------------------
(* PROPERTIES                                                              *)

Position == Nat \ {0}

TypeOK ==
    /\ session \in Session /\ turn \in DOMAIN session
    /\ pc \in {"starting", "running", "decided", "settled", "mkdir", "results", "lines",
               "pairwise", "b3_to_b4", "contextual", "manifest"} \cup Ended
    /\ lastCall \in Position \cup {Absent} /\ late \subseteq called /\ called \subseteq Position
    /\ pc \in {"decided", "settled"} => Len(rows) < Planned
    /\ pc \in {"starting", "refused"} => cases = <<>>
    /\ DOMAIN disk = RunId

(* A run that refuses its corpus, or that meets a case it cannot score,    *)
(* has called no provider: the check of the whole corpus comes before the  *)
(* first execution and leaves nothing for scoring to refuse                *)
(* (runner.py, run_pilot).                                                 *)
NoWastedCalls == pc \in {"refused", "unscored"} => called = {} /\ rows = <<>>

(* Where a row says a question about an amount can be answered from its    *)
(* band, it can: every reference of the case has, over all amounts of the  *)
(* band that was really sent for each annotated value, the one answer it   *)
(* has for that value itself, although the scorer finds the transformation *)
(* of a span by its position only (scoring/span_matching.py) and some      *)
(* spans were missed or found where there are none.                        *)
Holds(operator, amount, points) ==
    IF operator = "gt" THEN amount > points
    ELSE IF operator = "ge" THEN amount >= points
    ELSE IF operator = "lt" THEN amount < points ELSE amount <= points

AnswersAlike(band, points, reference) ==
    \A amount \in (band.lower * Point)..(band.upper * Point - 1) :
      Holds(reference.operator, amount, reference.points)
        <=> Holds(reference.operator, points, reference.points)

AnswerableIsDecided ==
    \A k \in DOMAIN rows :
      LET oracle == CaseAt(k).oracle
          sent == Elements(rows[k].result.transformations)
          verdict == rows[k].score.utility.byCategory
      IN  rows[k].protocol \in {"v4", "v5"} =>
            \A s \in Elements(oracle.spans), t \in sent :
              /\ s.category \in DOMAIN verdict
              /\ s.category = t.category /\ s.value = t.original /\ t.action = "generalize"
              /\ s.category \in BandCategories
              /\ verdict[s.category] = "answerable"
              => \A r \in ReferencesOf(oracle, s.category) :
                   AnswersAlike(t.transformed, s.value.points, r)

(* What a row says of the provider is about its own execution: with a      *)
(* delegate per execution its metrics are those of its own call; it has    *)
(* them if the call was answered, and none if nothing was sent (execution, *)
(* execute_case; a delegate of the caller's is excepted).                  *)
RowsTellTheirOwnCase ==
    \A k \in DOMAIN rows :
      LET row == rows[k]
      IN  /\ row.case = CaseAt(k).input.id /\ row.treatment = TreatmentAt(k)
          /\ row.audit.called <=> k \in called
          /\ row.result.status = "blocked" => ~row.audit.called /\ ~row.audit.failed
          /\ Job.provider # "wrapped" =>
               /\ row.metrics \in {k, Absent}
               /\ row.metrics = k => row.audit.called
               /\ row.audit.called /\ ~row.audit.failed => row.metrics = k

(* A directory with a manifest is one invocation's whole bundle: every     *)
(* artifact is that invocation's, results.jsonl has one line per case and  *)
(* treatment under the manifest's protocol, and the summaries account for  *)
(* every line, each shortfall in utility with a cause (artifacts.py,       *)
(* aggregation.py).                                                        *)
Accounts(summary, lines) ==
    LET short(l) == l.score.utility.overall \in {"not_answerable", "indeterminate"}
        excused(l) == short(l) /\ (l.score.outcomes.blocked \/ l.score.outcomes.impossible)
    IN  /\ summary.case_count = Size(lines)
        /\ summary.utility_scored_count - summary.utility_answerable_count
             = Count(lines, excused) + summary.ordinary_utility_failure_count
        /\ summary.detector.case_count = Size(lines)

IsBundle(files) ==
    LET lines == files["results"].is
        manifest == files["manifest"].is
        of(t) == Restrict(lines, {i \in DOMAIN lines : lines[i].treatment = t})
    IN  /\ {"results", "summary_by_treatment", "summary_pairwise"} \subseteq DOMAIN files
        /\ \A n \in DOMAIN files : files[n].by = files["manifest"].by
        /\ "contextual_matrix" \in DOMAIN files <=> manifest.compared
        /\ \A i \in DOMAIN lines : lines[i].protocol = manifest.protocol
        /\ \A i, j \in DOMAIN lines :
             lines[i].case = lines[j].case /\ lines[i].treatment = lines[j].treatment => i = j
        /\ \A t \in DOMAIN manifest.caseCounts :
             /\ CaseIds(of(t)) = CaseIds(lines)
             /\ manifest.caseCounts[t] = Size(of(t))
             /\ Accounts(files["summary_by_treatment"].is[t], of(t))
        /\ \A p \in DOMAIN files["summary_pairwise"].is :
             files["summary_pairwise"].is[p].case_count = Cardinality(CaseIds(lines))

BundleIsWhole ==
    \A id \in RunId :
      disk[id] # Absent /\ "manifest" \in DOMAIN disk[id] => IsBundle(disk[id])

(* Every invocation ends, whatever its providers do.                       *)
EveryRunSettles == \A n \in 1..2 : turn = n ~> pc \in Ended \/ turn > n
=============================================================================
