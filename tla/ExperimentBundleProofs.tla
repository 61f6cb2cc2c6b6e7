----------------------- MODULE ExperimentBundleProofs -----------------------
(***************************************************************************)
(* That a run directory of ExperimentRun with a manifest is a whole bundle *)
(* (BundleIsWhole), for any sessions, corpora and crashes.                 *)
(*                                                                         *)
(* Two invariants join those of ExperimentRunProofs.  Tabled: when the     *)
(* writing begins the rows are the whole table of treatments and cases,    *)
(* and each row tells its shortfall apart.  Filed: what each file says     *)
(* from its writing on.  The counting rests on the library's theorems      *)
(* about finite sets.                                                      *)
(***************************************************************************)
EXTENDS ExperimentRunProofs, FiniteSetTheorems

-----------------------------------------------------------------------------
(* A shortfall of a score is ordinary unless the score excuses it.         *)
Accounted(score) ==
    /\ score.utility.overall \in
         {"answerable", "not_answerable", "indeterminate", "not_applicable"}
    /\ score.ordinaryFailure <=>
         /\ score.utility.overall \in {"not_answerable", "indeterminate"}
         /\ ~score.outcomes.blocked /\ ~score.outcomes.impossible

(* The rows that are written are those of every treatment and case, and no *)
(* two cases share an id.                                                  *)
Tabled ==
    /\ pc \in Stages => Len(rows) = Planned
    /\ \A i, j \in DOMAIN cases : cases[i].input.id = cases[j].input.id => i = j
    /\ \A k \in DOMAIN rows : Accounted(rows[k].score)

Summaries == [t \in Elements(Job.treatments) |-> SummarizeTreatment(RowsOf(t))]
Pairs == [p \in {q \in Consecutive : {q[1], q[2]} \subseteq Elements(Job.treatments)} |->
            SummarizePairwise(RowsOf(p[1]), RowsOf(p[2]))]

(* What the files of the run that is writing say.                          *)
Filed ==
    LET files == disk[Job.id]
        lines == files["results"].is
    IN  /\ pc = "lines" =>
             /\ IsSeq(lines) /\ Len(lines) <= Len(rows)
             /\ \A i \in DOMAIN lines : lines[i] = rows[i]
        /\ pc \in {"pairwise", "b3_to_b4", "contextual", "manifest"} =>
             lines = rows /\ files["summary_by_treatment"].is = Summaries
        /\ pc \in {"b3_to_b4", "contextual", "manifest"} => files["summary_pairwise"].is = Pairs
        /\ pc \in Stages \ {"mkdir", "manifest"} => "contextual_matrix" \notin DOMAIN files
        /\ pc = "manifest" => ("contextual_matrix" \in DOMAIN files <=> comparison # Absent)
-----------------------------------------------------------------------------
(* The table.                                                              *)

(* The number of a case of n in the j-th pass over them.                   *)
LEMMA NumberInTable ==
  ASSUME NEW n \in Nat, NEW m \in Nat, NEW j \in 1..m, NEW c \in 1..n
  PROVE  LET k == (j - 1) * n + c
         IN  k \in 1..(m * n) /\ (k - 1) \div n = j - 1 /\ (k - 1) % n = c - 1
<1> DEFINE k == (j - 1) * n + c
           q == (j - 1) * n
<1>1. q \in Nat /\ k - 1 = q + (c - 1) /\ k - 1 \in Nat
  BY SMTT(30)
<1>2. (k - 1) \div n = j - 1
  <2>1. (j - 1) * n <= k - 1 /\ k - 1 < (j - 1) * n + n
    BY <1>1
  <2>2. j - 1 \in Nat /\ n > 0
    OBVIOUS
  <2> HIDE DEF k
  <2>3. QED
    BY <1>1, <2>1, <2>2, Quotient
<1>3. (k - 1) % n = c - 1
  <2> DEFINE h == (k - 1) \div n
             r == (k - 1) % n
  <2>1. k - 1 = n * h + r /\ r \in Int
    <3> HIDE DEF k
    <3>1. QED
      BY <1>1, SMTT(30)
  <2>2. n * (j - 1) = q
    BY SMTT(30)
  <2> HIDE DEF k, q, h, r
  <2>3. n * h = q
    BY <1>2, <2>2 DEF h
  <2>4. r = c - 1
    BY <1>1, <2>1, <2>3
  <2>5. QED
    BY <2>4 DEF r
<1>4. k >= 1 /\ k <= m * n
  <2>1. j * n <= m * n /\ j * n = (j - 1) * n + n /\ m * n \in Nat
    BY SMTT(30)
  <2>2. QED
    BY <1>1, <2>1
<1>5. QED
  BY <1>1, <1>2, <1>3, <1>4

(* Every number of the table is of one case in one pass.                   *)
LEMMA PlaceInTable ==
  ASSUME NEW n \in Nat, NEW m \in Nat, NEW k \in 1..(m * n)
  PROVE  LET j == ((k - 1) \div n) + 1
             c == ((k - 1) % n) + 1
         IN  j \in 1..m /\ c \in 1..n /\ k = (j - 1) * n + c
<1> DEFINE h == (k - 1) \div n
           r == (k - 1) % n
<1>1. n > 0 /\ m * n \in Nat
  <2>1. n = 0 => m * n = 0
    OBVIOUS
  <2>2. QED
    BY <2>1
<1>2. h \in Nat /\ h * n <= k - 1 /\ k - 1 < h * n + n
  BY <1>1, Quotient
<1>3. k - 1 = n * h + r /\ r \in 0..(n - 1)
  BY <1>1, SMTT(30)
<1> HIDE DEF h, r
<1>4. n * h = h * n /\ h * n \in Nat
  BY <1>2
<1>5. h < m
  <2>1. CASE h >= m
    <3>1. h * n >= m * n
      BY <1>2, <2>1, SMTT(30)
    <3>2. QED
      BY <1>1, <1>2, <1>4, <3>1
  <2>2. QED
    BY <1>2, <2>1
<1>6. h + 1 \in 1..m /\ r + 1 \in 1..n /\ k = ((h + 1) - 1) * n + (r + 1)
  BY <1>2, <1>3, <1>4, <1>5
<1>7. QED
  BY <1>6 DEF h, r
(* When the writing has begun, every row is of its place in the table, and *)
(* every place has its row.                                                *)
LEMMA RowOfPlace ==
  ASSUME Base, Honest, Tabled, pc \in Stages
  PROVE  /\ \A k \in DOMAIN rows : \E j \in DOMAIN Job.treatments, c \in DOMAIN cases :
              /\ k = (j - 1) * Len(cases) + c
              /\ rows[k].treatment = Job.treatments[j] /\ rows[k].case = cases[c].input.id
         /\ \A j \in DOMAIN Job.treatments, c \in DOMAIN cases : \E k \in DOMAIN rows :
              rows[k].treatment = Job.treatments[j] /\ rows[k].case = cases[c].input.id
<1> DEFINE n == Len(cases)
           m == Len(Job.treatments)
<1>1. /\ n \in Nat /\ DOMAIN cases = 1..n /\ m \in Nat /\ DOMAIN Job.treatments = 1..m
      /\ DOMAIN rows = 1..(m * n)
  BY TheJob, Longer DEF Base, Tabled, Planned
<1>2. \A k \in DOMAIN rows : rows[k].case = CaseAt(k).input.id /\ rows[k].treatment = TreatmentAt(k)
  BY DEF Honest, RowsTellTheirOwnCase
<1>3. \A k : /\ CaseAt(k) = cases[((k - 1) % n) + 1]
             /\ TreatmentAt(k) = Job.treatments[((k - 1) \div n) + 1]
  BY DEF CaseAt, TreatmentAt
<1> HIDE DEF n, m
<1>4. ASSUME NEW k \in DOMAIN rows
      PROVE  \E j \in DOMAIN Job.treatments, c \in DOMAIN cases :
               /\ k = (j - 1) * n + c
               /\ rows[k].treatment = Job.treatments[j] /\ rows[k].case = cases[c].input.id
  <2> DEFINE j == ((k - 1) \div n) + 1
             c == ((k - 1) % n) + 1
  <2>1. j \in 1..m /\ c \in 1..n /\ k = (j - 1) * n + c
    BY <1>1, PlaceInTable
  <2>2. rows[k].treatment = Job.treatments[j] /\ rows[k].case = cases[c].input.id
    BY <1>2, <1>3
  <2> HIDE DEF j, c
  <2>3. QED
    BY <1>1, <2>1, <2>2
<1>5. ASSUME NEW j \in DOMAIN Job.treatments, NEW c \in DOMAIN cases
      PROVE  \E k \in DOMAIN rows :
               rows[k].treatment = Job.treatments[j] /\ rows[k].case = cases[c].input.id
  <2> DEFINE k == (j - 1) * n + c
  <2>1. k \in 1..(m * n) /\ (k - 1) \div n = j - 1 /\ (k - 1) % n = c - 1
    <3>1. n \in Nat /\ m \in Nat /\ j \in 1..m /\ c \in 1..n
      BY <1>1
    <3>2. QED
      BY <3>1, NumberInTable
  <2> HIDE DEF k
  <2>2. ((k - 1) \div n) + 1 = j /\ ((k - 1) % n) + 1 = c
    BY <1>1, <2>1
  <2>3. rows[k].treatment = Job.treatments[j] /\ rows[k].case = cases[c].input.id
    BY <1>1, <1>2, <1>3, <2>1, <2>2
  <2>4. QED
    BY <1>1, <2>1, <2>3
<1>6. QED
  BY <1>4, <1>5 DEF n

(* The rows of one treatment have every case, and each of them once.       *)
LEMMA EveryCaseOnce ==
  ASSUME Base, Honest, Tabled, pc \in Stages
  PROVE  /\ \A i, j \in DOMAIN rows :
              rows[i].case = rows[j].case /\ rows[i].treatment = rows[j].treatment => i = j
         /\ \A t \in Elements(Job.treatments) : CaseIds(RowsOf(t)) = CaseIds(rows)
<1>1. Job.treatments \in Seq(Elements(Job.treatments)) /\ NoRepeats(Job.treatments)
  BY SessionAssumption DEF Base, TypeOK, Job
<1>2. ASSUME NEW h \in DOMAIN rows, NEW i \in DOMAIN rows,
             rows[h].case = rows[i].case, rows[h].treatment = rows[i].treatment
      PROVE  h = i
  <2>1. PICK j \in DOMAIN Job.treatments, c \in DOMAIN cases :
          /\ h = (j - 1) * Len(cases) + c
          /\ rows[h].treatment = Job.treatments[j] /\ rows[h].case = cases[c].input.id
    BY RowOfPlace
  <2>2. PICK l \in DOMAIN Job.treatments, d \in DOMAIN cases :
          /\ i = (l - 1) * Len(cases) + d
          /\ rows[i].treatment = Job.treatments[l] /\ rows[i].case = cases[d].input.id
    BY RowOfPlace
  <2>3. c = d
    BY <1>2, <2>1, <2>2 DEF Tabled
  <2>4. j = l
    BY <1>1, <1>2, <2>1, <2>2 DEF NoRepeats
  <2>5. QED
    BY <2>1, <2>2, <2>3, <2>4
<1>3. ASSUME NEW t \in Elements(Job.treatments), NEW k \in DOMAIN rows
      PROVE  \E i \in DOMAIN rows : rows[i].treatment = t /\ rows[i].case = rows[k].case
  <2>1. PICK j \in DOMAIN Job.treatments : t = Job.treatments[j]
    BY DEF Elements
  <2>2. PICK c \in DOMAIN cases : rows[k].case = cases[c].input.id
    BY RowOfPlace
  <2>3. PICK i \in DOMAIN rows :
          rows[i].treatment = Job.treatments[j] /\ rows[i].case = cases[c].input.id
    BY RowOfPlace
  <2>4. QED
    BY <2>1, <2>2, <2>3
<1>4. ASSUME NEW t \in Elements(Job.treatments) PROVE CaseIds(RowsOf(t)) = CaseIds(rows)
  <2> DEFINE mine == {k \in DOMAIN rows : rows[k].treatment = t}
  <2>1. DOMAIN RowsOf(t) = mine /\ \A k \in mine : RowsOf(t)[k] = rows[k]
    BY DEF RowsOf, Restrict
  <2>2. CaseIds(RowsOf(t)) = {rows[k].case : k \in mine}
    BY <2>1 DEF CaseIds
  <2>3. QED
    BY <1>3, <2>2 DEF CaseIds
<1>5. QED
  BY <1>2, <1>4
-----------------------------------------------------------------------------
(* The counts.                                                             *)

(* The size of a set that falls into two parts is the sum of theirs.       *)
LEMMA Parts ==
  ASSUME NEW A, NEW B, IsFiniteSet(A \cup B), A \cap B = {}
  PROVE  /\ IsFiniteSet(A) /\ IsFiniteSet(B)
         /\ Cardinality(A) \in Nat /\ Cardinality(B) \in Nat
         /\ Cardinality(A \cup B) = Cardinality(A) + Cardinality(B)
<1>1. IsFiniteSet(A) /\ IsFiniteSet(B)
  BY FS_Subset
<1>2. Cardinality(A) \in Nat /\ Cardinality(B) \in Nat /\ Cardinality(A \cap B) = 0
  BY <1>1, FS_CardinalityType, FS_EmptySet
<1>3. Cardinality(A \cup B) = Cardinality(A) + Cardinality(B) - Cardinality(A \cap B)
  BY <1>1, FS_Union
<1>4. QED
  BY <1>1, <1>2, <1>3

(* A summary of rows with accounted scores accounts for them.              *)
LEMMA SummaryAccounts ==
  ASSUME NEW lines, IsFiniteSet(DOMAIN lines), \A k \in DOMAIN lines : Accounted(lines[k].score)
  PROVE  Accounts(SummarizeTreatment(lines), lines)
<1> DEFINE overall(k) == lines[k].score.utility.overall
           outcomes(k) == lines[k].score.outcomes
           isShort(k) == overall(k) \in {"not_answerable", "indeterminate"}
           excuse(k) == outcomes(k).blocked \/ outcomes(k).impossible
           scored == {k \in DOMAIN lines : overall(k) # "not_applicable"}
           answerable == {k \in DOMAIN lines : overall(k) = "answerable"}
           excused == {k \in DOMAIN lines : isShort(k) /\ excuse(k)}
           ordinary == {k \in DOMAIN lines : lines[k].score.ordinaryFailure}
           summary == SummarizeTreatment(lines)
<1>1. /\ summary.case_count = Size(lines)
      /\ summary.utility_scored_count = Cardinality(scored)
      /\ summary.utility_answerable_count = Cardinality(answerable)
      /\ summary.ordinary_utility_failure_count = Cardinality(ordinary)
      /\ summary.detector.case_count = Size(lines)
  BY DEF SummarizeTreatment, AggregateDetectorScores, Count
<1>2. /\ \A k \in DOMAIN lines : k \in ordinary <=> isShort(k) /\ ~excuse(k)
      /\ \A k \in DOMAIN lines : overall(k) \in
            {"answerable", "not_answerable", "indeterminate", "not_applicable"}
  BY DEF Accounted
<1> HIDE DEF overall, excuse, summary
<1>3. IsFiniteSet(scored)
  BY FS_Subset
<1>4. scored = answerable \cup (excused \cup ordinary) /\ answerable \cap (excused \cup ordinary) = {}
  BY <1>2
<1>5. excused \cap ordinary = {}
  BY <1>2
<1> HIDE DEF scored, answerable, excused, ordinary
<1>6. /\ IsFiniteSet(excused \cup ordinary)
      /\ Cardinality(answerable) \in Nat /\ Cardinality(excused \cup ordinary) \in Nat
      /\ Cardinality(scored) = Cardinality(answerable) + Cardinality(excused \cup ordinary)
  <2> DEFINE rest == excused \cup ordinary
  <2>1. scored = answerable \cup rest /\ answerable \cap rest = {}
    BY <1>4
  <2> HIDE DEF rest
  <2>2. IsFiniteSet(answerable \cup rest)
    BY <1>3, <2>1
  <2>3. QED
    BY <2>1, <2>2, Parts DEF rest
<1>7. /\ Cardinality(excused) \in Nat /\ Cardinality(ordinary) \in Nat
      /\ Cardinality(excused \cup ordinary) = Cardinality(excused) + Cardinality(ordinary)
  BY <1>5, <1>6, Parts
<1>8. summary.utility_scored_count - summary.utility_answerable_count
        = Cardinality(excused) + summary.ordinary_utility_failure_count
  BY <1>1, <1>6, <1>7
<1>9. QED
  BY <1>1, <1>8 DEF Accounts, Count, excused, excuse, overall, summary

(* Where no two rows of a treatment share a case there are as many as it   *)
(* has cases.                                                              *)
LEMMA AsManyAsCases ==
  ASSUME NEW lines, IsFiniteSet(DOMAIN lines),
         \A i, j \in DOMAIN lines : lines[i].case = lines[j].case => i = j
  PROVE  Size(lines) = Cardinality(CaseIds(lines))
<1> DEFINE f == [k \in DOMAIN lines |-> lines[k].case]
<1>1. f \in Bijection(DOMAIN lines, CaseIds(lines))
  BY DEF CaseIds, Bijection, Injection, Surjection, IsInjective
<1>2. QED
  BY <1>1, FS_Bijection DEF ExistsBijection, Size

-----------------------------------------------------------------------------
(* The bundle.                                                             *)

(* What the summaries of the table say.                                    *)
LEMMA SummariesOfTheTable ==
  ASSUME Base, Honest, Tabled, pc \in Stages, NEW t \in Elements(Job.treatments)
  PROVE  /\ Accounts(SummarizeTreatment(RowsOf(t)), RowsOf(t))
         /\ \A u \in Elements(Job.treatments) :
              SummarizePairwise(RowsOf(t), RowsOf(u)).case_count = Cardinality(CaseIds(rows))
<1> DEFINE mine == {k \in DOMAIN rows : rows[k].treatment = t}
<1>1. DOMAIN RowsOf(t) = mine /\ \A k \in mine : RowsOf(t)[k] = rows[k]
  BY DEF RowsOf, Restrict
<1>2. IsFiniteSet(mine)
  <2>1. DOMAIN rows = 1..Len(rows) /\ Len(rows) \in Nat
    BY HereIsOne
  <2>2. IsFiniteSet(DOMAIN rows)
    BY <2>1, FS_Interval
  <2>3. QED
    BY <2>2, FS_Subset
<1> HIDE DEF mine
<1>3. mine \subseteq DOMAIN rows /\ \A k \in mine : rows[k].treatment = t
  BY DEF mine
<1>4. Accounts(SummarizeTreatment(RowsOf(t)), RowsOf(t))
  <2>1. IsFiniteSet(DOMAIN RowsOf(t)) /\ \A k \in DOMAIN RowsOf(t) : Accounted(RowsOf(t)[k].score)
    BY <1>1, <1>2, <1>3 DEF Tabled
  <2>2. QED
    BY <2>1, SummaryAccounts
<1>5. ASSUME NEW u \in Elements(Job.treatments)
      PROVE  SummarizePairwise(RowsOf(t), RowsOf(u)).case_count = Cardinality(CaseIds(rows))
  <2> DEFINE left == Matched(RowsOf(t), RowsOf(u))
  <2>1. CaseIds(RowsOf(t)) = CaseIds(rows) /\ CaseIds(RowsOf(u)) = CaseIds(rows)
    BY EveryCaseOnce
  <2>2. \A k \in mine : RowsOf(t)[k].case \in CaseIds(RowsOf(t))
    BY <1>1 DEF CaseIds
  <2>3. left = [k \in mine |-> rows[k]]
    BY <1>1, <2>1, <2>2 DEF Matched, Restrict
  <2>4. SummarizePairwise(RowsOf(t), RowsOf(u)).case_count = Size(left)
    BY DEF SummarizePairwise
  <2> HIDE DEF left
  <2>5. DOMAIN left = mine /\ \A k \in mine : left[k] = rows[k]
    BY <2>3
  <2>6. \A i, j \in DOMAIN left : left[i].case = left[j].case => i = j
    BY <1>3, <2>5, EveryCaseOnce
  <2>7. Size(left) = Cardinality(CaseIds(left))
    BY <1>2, <2>5, <2>6, AsManyAsCases
  <2>8. CaseIds(left) = CaseIds(RowsOf(t))
    BY <1>1, <2>5 DEF CaseIds
  <2>9. QED
    BY <2>1, <2>4, <2>7, <2>8
<1>6. QED
  BY <1>4, <1>5

(* The protocol the manifest names is that of every row.                   *)
LEMMA OneProtocol ==
  ASSUME Scored, NEW k \in DOMAIN rows
  PROVE  ProtocolIds # {} /\ rows[k].protocol = CHOOSE p \in ProtocolIds : TRUE
<1>1. ProtocolIds = {Job.protocol} /\ rows[k].protocol = Job.protocol
  BY DEF Scored, ProtocolIds
<1>2. QED
  BY <1>1

(* Files that say what Filed wants, and a manifest, are a whole bundle.    *)
LEMMA WholeBundle ==
  ASSUME Base, Honest, Scored, Tabled, pc \in Stages, NEW files,
         Required \subseteq DOMAIN files,
         \A n \in DOMAIN files : files[n].by = files["manifest"].by,
         "contextual_matrix" \in DOMAIN files <=> comparison # Absent,
         files["results"].is = rows,
         files["summary_by_treatment"].is = Summaries,
         files["summary_pairwise"].is = Pairs,
         files["manifest"].is =
           [protocol |-> IF ProtocolIds = {} THEN CurrentProtocolId
                         ELSE CHOOSE p \in ProtocolIds : TRUE,
            caseCounts |-> [t \in Elements(Job.treatments) |-> Size(RowsOf(t))],
            compared |-> comparison # Absent]
  PROVE  IsBundle(files)
<1> DEFINE manifest == files["manifest"].is
           of(t) == Restrict(rows, {i \in DOMAIN rows : rows[i].treatment = t})
<1>1. /\ manifest.compared <=> comparison # Absent
      /\ DOMAIN manifest.caseCounts = Elements(Job.treatments)
      /\ \A t \in Elements(Job.treatments) : manifest.caseCounts[t] = Size(RowsOf(t))
      /\ ProtocolIds # {} => manifest.protocol = CHOOSE p \in ProtocolIds : TRUE
  <2> DEFINE named == IF ProtocolIds = {} THEN CurrentProtocolId
                      ELSE CHOOSE p \in ProtocolIds : TRUE
             counts == [t \in Elements(Job.treatments) |-> Size(RowsOf(t))]
             compared == comparison # Absent
  <2>1. manifest = [protocol |-> named, caseCounts |-> counts, compared |-> compared]
    OBVIOUS
  <2>2. /\ DOMAIN counts = Elements(Job.treatments)
        /\ \A t \in Elements(Job.treatments) : counts[t] = Size(RowsOf(t))
        /\ ProtocolIds # {} => named = CHOOSE p \in ProtocolIds : TRUE
    OBVIOUS
  <2> HIDE DEF manifest, named, counts
  <2>3. manifest.protocol = named /\ manifest.caseCounts = counts
    BY <2>1
  <2>4. manifest.compared <=> comparison # Absent
    BY <2>1, Zenon
  <2>5. QED
    BY <2>2, <2>3, <2>4
<1> HIDE DEF manifest
<1>2. \A i \in DOMAIN rows : rows[i].protocol = manifest.protocol
  BY <1>1, OneProtocol
<1>3. \A t : of(t) = RowsOf(t)
  BY DEF RowsOf
<1>4. ASSUME NEW t \in DOMAIN manifest.caseCounts
      PROVE  /\ CaseIds(of(t)) = CaseIds(rows)
             /\ manifest.caseCounts[t] = Size(of(t))
             /\ Accounts(files["summary_by_treatment"].is[t], of(t))
  <2>1. t \in Elements(Job.treatments) /\ Summaries[t] = SummarizeTreatment(RowsOf(t))
    BY <1>1 DEF Summaries
  <2> HIDE DEF of
  <2>2. QED
    BY <1>1, <1>3, <2>1, EveryCaseOnce, SummariesOfTheTable
<1>5. ASSUME NEW p \in DOMAIN files["summary_pairwise"].is
      PROVE  files["summary_pairwise"].is[p].case_count = Cardinality(CaseIds(rows))
  <2>1. /\ p[1] \in Elements(Job.treatments) /\ p[2] \in Elements(Job.treatments)
        /\ Pairs[p] = SummarizePairwise(RowsOf(p[1]), RowsOf(p[2]))
    BY DEF Pairs
  <2>2. QED
    BY <2>1, SummariesOfTheTable
<1> HIDE DEF of
<1>6. \A i, j \in DOMAIN rows :
        rows[i].case = rows[j].case /\ rows[i].treatment = rows[j].treatment => i = j
  BY EveryCaseOnce
<1>7. QED
  BY <1>1, <1>2, <1>4, <1>5, <1>6 DEF IsBundle, Required, manifest, of

-----------------------------------------------------------------------------
(* The rows come to be the whole table.                                    *)

LEMMA UniqueIds ==
  ASSUME NEW files, LoadCorpus(files) # Absent,
         NEW i \in DOMAIN LoadCorpus(files), NEW j \in DOMAIN LoadCorpus(files),
         LoadCorpus(files)[i].input.id = LoadCorpus(files)[j].input.id
  PROVE  i = j
<1>1. /\ LoadCorpus(files) = [k \in DOMAIN files |->
                                [input |-> files[k].input, oracle |-> files[k].oracle]]
      /\ NoRepeats([k \in DOMAIN files |-> files[k].input.id])
  BY DEF LoadCorpus
<1>2. i \in DOMAIN files /\ j \in DOMAIN files /\ files[i].input.id = files[j].input.id
  BY <1>1
<1>3. QED
  BY <1>1, <1>2 DEF NoRepeats

LEMMA NewRowIsAccounted ==
  ASSUME NEW shown
  PROVE  Accounted(NewRow(shown).score)
<1> DEFINE score == NewRow(shown).score
           overall == score.utility.overall
           outcomes == ClassifyCaseOutcomes(execution.result, execution.b4, execution.audit)
           utility == ScoreUtility(Job.protocol, CaseAt(Here).input, CaseAt(Here).oracle,
                                   execution.result, TreatmentAt(Here))
           failure == ClassifyOrdinaryUtilityFailure(utility.overall, outcomes)
<1>1. score = ScoreCase(Job.protocol, CaseAt(Here), TreatmentAt(Here), execution, shown)
  BY DEF NewRow
<1>2. score.utility = utility /\ score.outcomes = outcomes
  BY <1>1 DEF ScoreCase
<1>3. score.ordinaryFailure <=> failure
  <2>1. \E actions, conformance, exposure, unnecessary, reconstruction, detector :
          score = [actions |-> actions, conformance |-> conformance, exposure |-> exposure,
                   unnecessary |-> unnecessary, utility |-> utility,
                   reconstruction |-> reconstruction, outcomes |-> outcomes,
                   ordinaryFailure |-> failure, detector |-> detector]
    BY <1>1, Zenon DEF ScoreCase
  <2> HIDE DEF score, utility, outcomes, failure
  <2>2. score.ordinaryFailure = failure
    BY <2>1
  <2>3. QED
    BY <2>2
<1>4. \E outs : utility.overall = Worst(outs)
  <2> DEFINE oracle == CaseAt(Here).oracle
             categories == IF oracle.block THEN {} ELSE DependsOn(oracle)
             byCategory == [c \in categories |->
               CategoryOutcome(Job.protocol, CaseAt(Here).input, oracle,
                               execution.result, TreatmentAt(Here), c)]
  <2>1. utility = [overall |-> Worst({byCategory[c] : c \in categories}),
                   byCategory |-> byCategory]
    BY Zenon DEF ScoreUtility
  <2> HIDE DEF utility, byCategory, categories
  <2>2. QED
    BY <2>1
<1>5. overall \in {"answerable", "not_answerable", "indeterminate", "not_applicable"}
  BY <1>2, <1>4 DEF Worst
<1> HIDE DEF score, utility, outcomes
<1>6. score.ordinaryFailure <=>
        /\ overall \in {"not_answerable", "indeterminate"}
        /\ ~score.outcomes.blocked /\ ~score.outcomes.impossible
  BY <1>2, <1>3 DEF ClassifyOrdinaryUtilityFailure
<1>7. QED
  BY <1>5, <1>6 DEF Accounted, score

LEMMA TabledStep == Base /\ Checked /\ Tabled /\ [Next]_vars => Tabled'
<1> SUFFICES ASSUME Base, Checked, Tabled, [Next]_vars PROVE Tabled'
  OBVIOUS
<1>0. ASSUME UNCHANGED <<session, turn, cases, rows>>, pc' \in Stages => pc \in Stages
      PROVE  Tabled'
  BY <1>0 DEF Tabled, Planned, Job
<1>1. CASE Begin
  <2>1. /\ pc = "starting" /\ rows' = <<>> /\ pc' \in {"running", "refused"}
        /\ cases' = cases \/ (LoadCorpus(Job.files) # Absent /\ cases' = LoadCorpus(Job.files))
    BY <1>1 DEF Begin, Checked
  <2>2. \A i, j \in DOMAIN cases' : cases'[i].input.id = cases'[j].input.id => i = j
    <3>1. CASE cases' = cases
      BY <3>1 DEF Tabled
    <3>2. CASE LoadCorpus(Job.files) # Absent /\ cases' = LoadCorpus(Job.files)
      BY <3>2, UniqueIds
    <3>3. QED
      BY <2>1, <3>1, <3>2
  <2>3. QED
    BY <2>1, <2>2, EmptyIsSeq DEF Tabled, Stages
<1>2. CASE Execute
  BY <1>0, <1>2 DEF Execute, Stages
<1>3. CASE Settle
  BY <1>0, <1>3 DEF Settle, SkipBlocked, RefuseClass, Answer, Raise, GiveUp, Sendable, Pending,
                    Audited, Stages
<1>4. CASE Collect
  <2>1. /\ pc' \in {"running", "unscored"} /\ UNCHANGED <<session, turn, cases>>
        /\ rows' = rows \/ \E shown : rows' = Append(rows, NewRow(shown))
    BY <1>4, RowIsNew DEF Collect
  <2>2. ASSUME NEW shown, rows' = Append(rows, NewRow(shown)) PROVE Tabled'
    <3>1. /\ DOMAIN rows = 1..Len(rows) /\ Len(rows) \in Nat
          /\ DOMAIN rows' = 1..(Len(rows) + 1)
          /\ \A k \in 1..Len(rows) : rows'[k] = rows[k]
          /\ rows'[Len(rows) + 1] = NewRow(shown)
      BY <2>2, Longer, HereIsOne DEF Base
    <3>2. \A k \in DOMAIN rows' : Accounted(rows'[k].score)
      BY <3>1, NewRowIsAccounted DEF Tabled
    <3>3. QED
      BY <2>1, <3>2 DEF Tabled, Stages
  <2>3. QED
    BY <1>0, <2>1, <2>2 DEF Stages
<1>5. CASE Compare
  <2>1. Len(rows) = Planned /\ UNCHANGED <<session, turn, cases, rows>>
    BY <1>5 DEF Compare, RunsOut
  <2>2. QED
    BY <2>1 DEF Tabled, Planned, Job
<1>6. CASE WriteArtifact
  BY <1>0, <1>6, WritingKeepsMemory DEF Base, TypeOK, memory
<1>7. ASSUME NEW n \in late, WorkerFinishes(n) PROVE Tabled'
  BY <1>0, <1>7 DEF WorkerFinishes
<1>8. CASE NextInvocation
  BY <1>8, EmptyIsSeq DEF NextInvocation, Tabled, Stages
<1>9. CASE Crash
  BY <1>9, EmptyIsSeq DEF Crash, Tabled, Stages
<1>10. CASE UNCHANGED vars
  BY <1>0, <1>10 DEF vars, memory
<1>11. QED
  BY <1>1, <1>2, <1>3, <1>4, <1>5, <1>6, <1>7, <1>8, <1>9, <1>10 DEF Next, Progress

-----------------------------------------------------------------------------
(* What the files say stays true while others are written.                 *)

(* A list that grows by the next of a longer one.                          *)
LEMMA OneLineMore ==
  ASSUME NEW s, NEW lines, IsSeq(s), IsSeq(lines), Len(lines) < Len(s),
         \A i \in DOMAIN lines : lines[i] = s[i]
  PROVE  LET longer == Append(lines, s[Len(lines) + 1])
         IN  /\ IsSeq(longer) /\ Len(longer) <= Len(s)
             /\ \A i \in DOMAIN longer : longer[i] = s[i]
<1> DEFINE e == s[Len(lines) + 1]
<1>1. /\ IsSeq(Append(lines, e)) /\ Len(lines) \in Nat /\ DOMAIN lines = 1..Len(lines)
      /\ Len(Append(lines, e)) = Len(lines) + 1 /\ DOMAIN Append(lines, e) = 1..(Len(lines) + 1)
      /\ \A k \in 1..Len(lines) : Append(lines, e)[k] = lines[k]
      /\ Append(lines, e)[Len(lines) + 1] = e
  BY Longer
<1>2. Len(s) \in Nat
  BY Longer
<1>3. QED
  BY <1>1, <1>2

LEMMA AllLines ==
  ASSUME NEW s, NEW lines, IsSeq(s), IsSeq(lines), Len(lines) = Len(s),
         \A i \in DOMAIN lines : lines[i] = s[i]
  PROVE  lines = s
<1>1. PICK S : s \in Seq(S)
  BY DEF IsSeq
<1>2. PICK T : lines \in Seq(T)
  BY DEF IsSeq
<1>3. DOMAIN lines = DOMAIN s
  BY Longer
<1>4. lines = [i \in DOMAIN lines |-> lines[i]] /\ s = [i \in DOMAIN s |-> s[i]]
  BY <1>1, <1>2
<1>5. QED
  BY <1>3, <1>4

LEMMA FiledWriting ==
  ASSUME Base, Owned, Filed, WriteArtifact
  PROVE  Filed'
<1>1. /\ UNCHANGED <<session, turn, rows, comparison>> /\ Job' = Job /\ Job.id \in RunId
      /\ pc \in Stages /\ DOMAIN disk = RunId
  BY WritingKeepsMemory, TheJob DEF Base, TypeOK, Job, memory
<1>2. Summaries' = Summaries /\ Pairs' = Pairs
  BY <1>1 DEF Summaries, Pairs, RowsOf
<1> DEFINE files == disk[Job.id]
<1>3. ASSUME NEW name, NEW content, Write(name, content)
      PROVE  /\ DOMAIN disk'[Job.id] = DOMAIN files \cup {name}
             /\ disk'[Job.id][name].is = content
             /\ \A n \in DOMAIN files : n # name => disk'[Job.id][n] = files[n]
  BY <1>3, Written
<1>4. pc # "mkdir" => WrittenBefore(pc) \subseteq DOMAIN files
  BY <1>1 DEF Owned, Writing
<1> HIDE DEF files
<1>5. CASE MakeDir
  <2>1. pc' \notin Stages \ {"mkdir"} \/ (pc' = "results" /\ disk'[Job.id] = <<>>)
    BY <1>1, <1>5 DEF MakeDir, Stages
  <2>2. QED
    BY <1>1, <2>1, EmptyIsSeq DEF Filed, Stages
<1>6. CASE OpenResults
  <2>1. pc = "results" /\ (pc' = "mixed" \/ (pc' = "lines" /\ Write("results", <<>>)))
    BY <1>6 DEF OpenResults
  <2>2. CASE pc' = "mixed"
    BY <2>2 DEF Filed, Stages
  <2>3. CASE pc' = "lines" /\ Write("results", <<>>)
    <3>1. /\ disk'[Job.id]["results"].is = <<>>
          /\ "contextual_matrix" \notin DOMAIN disk'[Job.id]
      BY <1>3, <2>1, <2>3 DEF Filed, Stages, files
    <3>2. Len(rows) \in Nat
      BY HereIsOne
    <3>3. QED
      BY <1>1, <2>3, <3>1, <3>2, EmptyIsSeq DEF Filed, Stages
  <2>4. QED
    BY <2>1, <2>2, <2>3
<1>7. CASE WriteLine
  <2> DEFINE lines == files["results"].is
             longer == Append(lines, rows[Len(lines) + 1])
  <2>1. pc = "lines" /\ pc' = pc /\ Len(lines) < Len(rows) /\ Write("results", longer)
    BY <1>7 DEF WriteLine, files
  <2>2. IsSeq(lines) /\ \A i \in DOMAIN lines : lines[i] = rows[i]
    BY <2>1 DEF Filed, files
  <2>3. /\ IsSeq(longer) /\ Len(longer) <= Len(rows)
        /\ \A i \in DOMAIN longer : longer[i] = rows[i]
    BY <2>1, <2>2, OneLineMore DEF Base
  <2> HIDE DEF longer
  <2>4. /\ disk'[Job.id]["results"].is = longer
        /\ "contextual_matrix" \notin DOMAIN disk'[Job.id]
    BY <1>3, <2>1 DEF Filed, Stages, files
  <2>5. QED
    BY <1>1, <2>1, <2>3, <2>4 DEF Filed, Stages
<1>8. CASE WriteSummaries
  <2>1. /\ pc = "lines" /\ pc' = "pairwise" /\ Len(files["results"].is) = Len(rows)
        /\ Write("summary_by_treatment", Summaries)
    BY <1>8 DEF WriteSummaries, Summaries, files
  <2>2. files["results"].is = rows
    BY <2>1, AllLines DEF Filed, Base, files
  <2>3. "results" \in DOMAIN files
    BY <1>4, <2>1 DEF WrittenBefore
  <2>4. /\ disk'[Job.id]["results"].is = rows
        /\ disk'[Job.id]["summary_by_treatment"].is = Summaries
        /\ "contextual_matrix" \notin DOMAIN disk'[Job.id]
    BY <1>3, <2>1, <2>2, <2>3 DEF Filed, Stages, files
  <2>5. QED
    BY <1>1, <1>2, <2>1, <2>4 DEF Filed, Stages
<1>9. CASE WritePairwise
  <2>1. pc = "pairwise" /\ pc' = "b3_to_b4" /\ Write("summary_pairwise", Pairs)
    BY <1>9 DEF WritePairwise, Goes, Pairs
  <2>2. {"results", "summary_by_treatment"} \subseteq DOMAIN files
    BY <1>4, <2>1 DEF WrittenBefore
  <2>3. /\ disk'[Job.id]["results"].is = rows
        /\ disk'[Job.id]["summary_by_treatment"].is = Summaries
        /\ disk'[Job.id]["summary_pairwise"].is = Pairs
        /\ "contextual_matrix" \notin DOMAIN disk'[Job.id]
    BY <1>3, <2>1, <2>2 DEF Filed, Stages, files
  <2>4. QED
    BY <1>1, <1>2, <2>1, <2>3 DEF Filed, Stages
<1>10. ASSUME pc \in {"b3_to_b4", "contextual"}, NEW name \in {"summary_b3_to_b4", "contextual_matrix"},
              disk' = disk \/ \E content : Write(name, content)
       PROVE  /\ disk'[Job.id]["results"].is = rows
              /\ disk'[Job.id]["summary_by_treatment"].is = Summaries
              /\ disk'[Job.id]["summary_pairwise"].is = Pairs
  <2>1. /\ files["results"].is = rows
        /\ files["summary_by_treatment"].is = Summaries
        /\ files["summary_pairwise"].is = Pairs
    BY <1>10 DEF Filed, files
  <2>2. Required \subseteq DOMAIN files
    BY <1>4, <1>10 DEF WrittenBefore, Required
  <2>3. CASE disk' = disk
    BY <2>1, <2>3 DEF files
  <2>4. CASE \E content : Write(name, content)
    BY <1>3, <1>10, <2>1, <2>2, <2>4 DEF Required
  <2>5. QED
    BY <1>10, <2>3, <2>4
<1>11. CASE WriteB3ToB4
  <2>1. /\ pc = "b3_to_b4" /\ pc' = "contextual"
        /\ disk' = disk \/ \E content : Write("summary_b3_to_b4", content)
    BY <1>11 DEF WriteB3ToB4, Goes
  <2>2. "contextual_matrix" \notin DOMAIN disk'[Job.id]
    BY <1>3, <2>1 DEF Filed, Stages, files
  <2>3. QED
    BY <1>1, <1>2, <1>10, <2>1, <2>2 DEF Filed, Stages
<1>12. CASE WriteContextual
  <2>1. /\ pc = "contextual" /\ pc' = "manifest"
        /\ IF comparison # Absent THEN Write("contextual_matrix", comparison) ELSE disk' = disk
    BY <1>12 DEF WriteContextual, Goes
  <2>2. "contextual_matrix" \in DOMAIN disk'[Job.id] <=> comparison # Absent
    BY <1>3, <2>1 DEF Filed, Stages, files
  <2>3. QED
    BY <1>1, <1>2, <1>10, <2>1, <2>2 DEF Filed, Stages
<1>13. CASE WriteManifest
  BY <1>13 DEF WriteManifest, Goes, Filed, Stages
<1>14. QED
  BY <1>5, <1>6, <1>7, <1>8, <1>9, <1>11, <1>12, <1>13 DEF WriteArtifact

LEMMA FiledStep == Base /\ Owned /\ Filed /\ [Next]_vars => Filed'
<1> SUFFICES ASSUME Base, Owned, Filed, [Next]_vars PROVE Filed'
  OBVIOUS
<1>1. CASE WriteArtifact
  BY <1>1, FiledWriting
<1>2. CASE UNCHANGED <<session, turn, pc, rows, comparison, disk>>
  <2>1. Summaries' = Summaries /\ Pairs' = Pairs /\ Job' = Job
    BY <1>2 DEF Summaries, Pairs, RowsOf, Job
  <2>2. QED
    BY <1>2, <2>1 DEF Filed
<1>3. CASE pc' \notin Stages \ {"mkdir"}
  BY <1>3 DEF Filed, Stages
<1>4. CASE Begin \/ Execute \/ Settle \/ Collect \/ Compare
  BY <1>3, <1>4 DEF Begin, Execute, Settle, SkipBlocked, RefuseClass, Answer, Raise, GiveUp,
                    Audited, Collect, Compare, Stages
<1>5. CASE \E n \in late : WorkerFinishes(n)
  BY <1>2, <1>5 DEF WorkerFinishes
<1>6. CASE NextInvocation \/ Crash
  BY <1>3, <1>6 DEF NextInvocation, Crash, Stages
<1>7. CASE UNCHANGED vars
  BY <1>2, <1>7 DEF vars, memory
<1>8. QED
  BY <1>1, <1>4, <1>5, <1>6, <1>7 DEF Next, Progress

-----------------------------------------------------------------------------
LEMMA WholeStep ==
  Base /\ Honest /\ Scored /\ Tabled /\ Owned /\ Filed /\ BundleIsWhole /\ [Next]_vars
    => BundleIsWhole'
<1> SUFFICES ASSUME Base, Honest, Scored, Tabled, Owned, Filed, BundleIsWhole, [Next]_vars
             PROVE  BundleIsWhole'
  OBVIOUS
<1>0. Job.id \in RunId /\ DOMAIN disk = RunId
  BY TheJob DEF Base, TypeOK
<1>1. CASE disk' = disk
  BY <1>1 DEF BundleIsWhole
<1>2. ASSUME pc \in Stages \ {"mkdir"}, NEW name, name # "manifest",
             NEW content, Write(name, content)
      PROVE  BundleIsWhole'
  <2>1. /\ DOMAIN disk'[Job.id] = DOMAIN disk[Job.id] \cup {name}
        /\ \A id \in RunId : id # Job.id => disk'[id] = disk[id]
    BY <1>2, Written
  <2>2. "manifest" \notin DOMAIN disk[Job.id]
    BY <1>2 DEF Owned, Writing
  <2>3. QED
    BY <1>2, <2>1, <2>2 DEF BundleIsWhole
<1>3. CASE MakeDir
  <2>1. CASE disk[Job.id] # Absent
    BY <1>1, <1>3, <2>1 DEF MakeDir
  <2>2. CASE disk[Job.id] = Absent
    <3>1. /\ disk'[Job.id] = <<>>
          /\ \A id \in RunId : id # Job.id => disk'[id] = disk[id]
      BY <1>0, <1>3, <2>2 DEF MakeDir
    <3>2. QED
      BY <3>1, EmptyIsSeq DEF BundleIsWhole
  <2>3. QED
    BY <2>1, <2>2
<1>4. CASE OpenResults \/ WriteLine \/ WriteSummaries \/ WritePairwise \/ WriteB3ToB4 \/ WriteContextual
  <2>1. /\ pc \in Stages \ {"mkdir"}
        /\ disk' = disk \/ \E name, content : name # "manifest" /\ Write(name, content)
    BY <1>4 DEF OpenResults, WriteLine, WriteSummaries, WritePairwise, WriteB3ToB4,
                WriteContextual, Goes, Stages
  <2>2. QED
    BY <1>1, <1>2, <2>1
<1>5. CASE WriteManifest
  <2> DEFINE content ==
        [protocol |-> IF ProtocolIds = {} THEN CurrentProtocolId
                      ELSE CHOOSE p \in ProtocolIds : TRUE,
         caseCounts |-> [t \in Elements(Job.treatments) |-> Size(RowsOf(t))],
         compared |-> comparison # Absent]
  <2>1. pc = "manifest" /\ Write("manifest", content)
    BY <1>5 DEF WriteManifest, Goes
  <2> DEFINE files == disk[Job.id]
             full == disk'[Job.id]
  <2>2. /\ DOMAIN full = DOMAIN files \cup {"manifest"}
        /\ full["manifest"].by = turn /\ full["manifest"].is = content
        /\ \A n \in DOMAIN files : n # "manifest" => full[n] = files[n]
        /\ \A id \in RunId : id # Job.id => disk'[id] = disk[id]
    BY <2>1, Written
  <2> HIDE DEF content
  <2>3. /\ "manifest" \notin DOMAIN files /\ Required \subseteq DOMAIN files
        /\ \A n \in DOMAIN files : files[n].by = turn
    BY <2>1 DEF Owned, Writing, WrittenBefore, Required, Stages
  <2>4. /\ files["results"].is = rows
        /\ files["summary_by_treatment"].is = Summaries
        /\ files["summary_pairwise"].is = Pairs
        /\ "contextual_matrix" \in DOMAIN files <=> comparison # Absent
    BY <2>1 DEF Filed
  <2> HIDE DEF files, full
  <2>5. /\ Required \subseteq DOMAIN full
        /\ \A n \in DOMAIN full : full[n].by = full["manifest"].by
        /\ full["results"].is = rows
        /\ full["summary_by_treatment"].is = Summaries
        /\ full["summary_pairwise"].is = Pairs
        /\ "contextual_matrix" \in DOMAIN full <=> comparison # Absent
    BY <2>2, <2>3, <2>4 DEF Required
  <2>6. pc \in Stages
    BY <2>1 DEF Stages
  <2>7. IsBundle(full)
    BY <2>2, <2>5, <2>6, WholeBundle DEF content
  <2>8. QED
    BY <2>2, <2>7 DEF BundleIsWhole, full
<1>6. CASE Begin \/ Execute \/ Settle \/ Collect \/ Compare
  BY <1>1, <1>6 DEF Begin, Execute, Settle, SkipBlocked, RefuseClass, Answer, Raise, GiveUp,
                    Audited, Collect, Compare
<1>7. CASE (\E n \in late : WorkerFinishes(n)) \/ NextInvocation \/ Crash \/ UNCHANGED vars
  BY <1>1, <1>7 DEF WorkerFinishes, NextInvocation, Crash, vars
<1>8. QED
  BY <1>3, <1>4, <1>5, <1>6, <1>7 DEF Next, Progress, WriteArtifact

(* Whatever the corpora, the treatments and the ids of the invocations,    *)
(* and wherever they crash: a run directory that has a manifest has one    *)
(* invocation's whole bundle.  Its results have each case of the corpus    *)
(* once under each treatment, its summaries count them all and tell every  *)
(* shortfall apart, and its comparisons are over all the cases             *)
(* (artifacts.py, write_pilot_artifacts; aggregation.py).                  *)
THEOREM BundlesAreWhole == Spec => []BundleIsWhole
<1>1. Init => Checked /\ Honest /\ Scored /\ Tabled /\ Owned /\ Filed /\ BundleIsWhole
  BY EmptyIsSeq DEF Init, Checked, Honest, Attributed, RowsTellTheirOwnCase, Scored, Tabled,
                    Owned, BundleIsOfOneRun, Writing, Filed, Stages, BundleIsWhole
<1>2. QED
  BY BaseInit, BaseStep, CheckedStep, HonestStep, ScoredStep, TabledStep, OwnedStep, FiledStep,
     WholeStep, <1>1, PTL DEF Spec
=============================================================================
