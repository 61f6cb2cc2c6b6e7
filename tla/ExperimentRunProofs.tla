------------------------ MODULE ExperimentRunProofs ------------------------
(***************************************************************************)
(* Proofs about ExperimentRun, for any sessions, corpora and directories,  *)
(* and about the bands of Generalization and UtilityScoring.               *)
(*                                                                         *)
(* Base is the type invariant and that rows and cases are lists.  On it    *)
(* rest four invariants of their own: Checked, that a run that goes on has *)
(* a corpus its protocol can score; Honest, whose part Attributed says     *)
(* which call the execution at hand and its delegate know of; Scored, that *)
(* each row is the score of a coherent result against a case of the        *)
(* corpus; and Owned, that who writes in a run directory has made it.      *)
(***************************************************************************)
EXTENDS ExperimentRun, TLAPS

-----------------------------------------------------------------------------
(* Amounts and bands.                                                      *)

(* When reference_is_decidable says that a band leaves one answer to a     *)
(* reference, all its amounts give that answer; and it says so of every    *)
(* such band but one: it does not see that no amount lies between the last *)
(* point of the band and its end (scoring/utility.py).                     *)
THEOREM DecidableIsExact ==
  ASSUME NEW lower \in Int, NEW upper \in Int, lower < upper, NEW points \in Int,
         NEW operator \in {"gt", "ge", "lt", "le"}
  PROVE  (\A a, b \in (lower * Point)..(upper * Point - 1) :
             Holds(operator, a, points) <=> Holds(operator, b, points))
         <=> \/ ReferenceIsDecidable(operator, points, Band(lower, upper))
             \/ operator \in {"gt", "le"} /\ points = upper * Point - 1
<1> DEFINE low == lower * Point
           high == upper * Point
           amounts == low..(high - 1)
<1>1. low \in Int /\ high \in Int /\ low < high
  <2>1. Point \in Nat /\ Point > 0
    BY BandAssumption
  <2>2. high - low = (upper - lower) * Point
    BY <2>1
  <2>3. (upper - lower) * Point > 0
    BY <2>1, SMT
  <2>4. QED
    BY <2>1, <2>2, <2>3
<1>2. ReferenceIsDecidable(operator, points, Band(lower, upper)) <=>
        \/ points >= high
        \/ operator \in {"gt", "le"} /\ points < low
        \/ operator \in {"ge", "lt"} /\ points <= low
  BY DEF ReferenceIsDecidable, Band
<1>3. low \in amounts /\ high - 1 \in amounts
  BY <1>1
<1> HIDE DEF low, high
<1>4. ASSUME \A a, b \in amounts : Holds(operator, a, points) <=> Holds(operator, b, points)
      PROVE  \/ ReferenceIsDecidable(operator, points, Band(lower, upper))
             \/ operator \in {"gt", "le"} /\ points = high - 1
  <2>1. Holds(operator, low, points) <=> Holds(operator, high - 1, points)
    BY <1>3, <1>4
  <2>2. QED
    BY <1>1, <1>2, <2>1 DEF Holds
<1>5. ASSUME \/ ReferenceIsDecidable(operator, points, Band(lower, upper))
             \/ operator \in {"gt", "le"} /\ points = high - 1,
             NEW a \in amounts, NEW b \in amounts
      PROVE  Holds(operator, a, points) <=> Holds(operator, b, points)
  BY <1>1, <1>2, <1>5 DEF Holds
<1>6. QED
  BY <1>4, <1>5 DEF low, high

(* The band an amount is generalized to is not empty and holds the amount, *)
(* so scoring never calls a true band unfaithful (utility.py, the fidelity *)
(* check, against generalization.py).                                      *)
THEOREM BandIsFaithful ==
  ASSUME NEW category \in BandCategories, NEW points \in Nat
  PROVE  LET band == NumericBand(category, points)
         IN  /\ band.lower \in Nat /\ band.upper \in Nat /\ band.lower < band.upper
             /\ InBand(points, band)
<1> DEFINE units == points \div Point
           width == BandWidth[category]
           bands == units \div width
           lower == bands * width
<1>1. Point \in Nat /\ Point > 0 /\ width \in Nat /\ width > 0
  BY BandAssumption
<1>2. units \in Nat /\ units * Point <= points /\ points < (units + 1) * Point
  <2>1. points = Point * units + (points % Point) /\ 0 <= points % Point /\ points % Point < Point
    BY <1>1, SMTT(30)
  <2>2. units \in Nat
    BY <1>1, SMTT(30)
  <2>3. (units + 1) * Point = Point * units + Point /\ units * Point = Point * units
    BY <1>1, <2>2, SMTT(30)
  <2>4. QED
    BY <2>1, <2>2, <2>3, <1>1
<1>3. bands \in Nat /\ lower <= units /\ units < lower + width
  <2> HIDE DEF units, width
  <2>1. units = width * bands + (units % width) /\ 0 <= units % width /\ units % width < width
    BY <1>1, <1>2, SMTT(30)
  <2>2. bands \in Nat
    BY <1>1, <1>2, SMTT(30)
  <2>3. lower = width * bands
    BY <1>1, <2>2, SMTT(30)
  <2>4. QED
    BY <2>1, <2>2, <2>3, <1>1, <1>2
<1> HIDE DEF units, width, bands
<1>4. lower \in Nat
  BY <1>1, <1>3, SMTT(30)
<1> HIDE DEF lower
<1>5. lower * Point <= units * Point /\ (units + 1) * Point <= (lower + width) * Point
  <2>1. lower <= units /\ units + 1 <= lower + width
    BY <1>1, <1>2, <1>3, <1>4
  <2>2. ASSUME NEW a \in Nat, NEW b \in Nat, a <= b PROVE a * Point <= b * Point
    BY <1>1, <2>2, SMTT(30)
  <2>3. QED
    BY <2>1, <2>2, <1>1, <1>2, <1>4
<1>6. NumericBand(category, points) = Band(lower, lower + width)
  BY DEF NumericBand, lower, bands, units, width
<1>7. lower * Point <= points /\ points < (lower + width) * Point
  <2>1. /\ lower * Point \in Int /\ units * Point \in Int
        /\ (units + 1) * Point \in Int /\ (lower + width) * Point \in Int
    BY <1>1, <1>2, <1>4
  <2>2. QED
    BY <2>1, <1>5, <1>2
<1>8. QED
  BY <1>1, <1>4, <1>6, <1>7 DEF Band, InBand

(* A quotient is the one number of whole divisors below its dividend.      *)
LEMMA Quotient ==
  ASSUME NEW n \in Nat, NEW d \in Nat, d > 0
  PROVE  /\ n \div d \in Nat
         /\ (n \div d) * d <= n /\ n < (n \div d) * d + d
         /\ \A q \in Nat : q * d <= n /\ n < q * d + d => n \div d = q
<1>1. n \div d \in Nat /\ n = d * (n \div d) + (n % d) /\ n % d \in 0..(d - 1)
  BY SMTT(30)
<1> DEFINE h == n \div d
<1> HIDE DEF h
<1>2. h * d = d * h /\ h * d \in Nat
  BY <1>1 DEF h
<1>3. h * d <= n /\ n < h * d + d
  BY <1>1, <1>2 DEF h
<1>4. ASSUME NEW q \in Nat, q * d <= n, n < q * d + d PROVE h = q
  <2>1. q * d \in Nat /\ q * d < h * d + d /\ h * d < q * d + d
    BY <1>2, <1>3, <1>4
  <2>2. ASSUME NEW x \in Nat, NEW y \in Nat, x * d < y * d + d PROVE x <= y
    <3>1. CASE x > y
      <4>1. x * d >= (y + 1) * d /\ (y + 1) * d = y * d + d /\ x * d \in Nat /\ y * d \in Nat
        BY <3>1, SMTT(30)
      <4>2. QED
        BY <4>1, <2>2
    <3>2. QED
      BY <3>1
  <2>3. h <= q /\ q <= h
    BY <1>1, <2>1, <2>2 DEF h
  <2>4. QED
    BY <1>1, <2>3 DEF h
<1>5. QED
  BY <1>1, <1>3, <1>4 DEF h

(* An amount of a band has that band for its own.                          *)
LEMMA OneBand ==
  ASSUME NEW category \in BandCategories, NEW a \in Nat, NEW b \in Nat,
         InBand(a, NumericBand(category, b))
  PROVE  NumericBand(category, a) = NumericBand(category, b)
<1> DEFINE width == BandWidth[category]
           units == a \div Point
           bands == (b \div Point) \div width
           lower == bands * width
<1>1. Point \in Nat /\ Point > 0 /\ width \in Nat /\ width > 0
  BY BandAssumption
<1>2. /\ NumericBand(category, a) = Band((units \div width) * width, (units \div width) * width + width)
      /\ NumericBand(category, b) = Band(lower, lower + width)
  BY DEF NumericBand
<1>3. bands \in Nat
  <2>1. b \div Point \in Nat
    BY <1>1, Quotient
  <2>2. QED
    BY <1>1, <2>1, Quotient
<1>4. units \in Nat /\ units * Point <= a /\ a < units * Point + Point
  BY <1>1, Quotient
<1>5. lower * Point <= a /\ a < (lower + width) * Point
  BY <1>2 DEF InBand, Band
<1> HIDE DEF width, units, bands
<1>6. lower \in Nat
  BY <1>1, <1>3
<1> HIDE DEF lower
<1>7. lower <= units /\ units < lower + width
  <2>1. CASE units < lower
    <3>1. (units + 1) * Point <= lower * Point /\ (units + 1) * Point = units * Point + Point
      BY <1>1, <1>4, <1>6, <2>1, SMTT(30)
    <3>2. units * Point \in Nat /\ lower * Point \in Nat
      BY <1>1, <1>4, <1>6
    <3>3. QED
      BY <1>1, <1>4, <1>5, <3>1, <3>2
  <2>2. CASE units >= lower + width
    <3>1. (lower + width) * Point <= units * Point
      BY <1>1, <1>4, <1>6, <2>2, SMTT(30)
    <3>2. units * Point \in Nat /\ (lower + width) * Point \in Nat
      BY <1>1, <1>4, <1>6
    <3>3. QED
      BY <1>4, <1>5, <3>1, <3>2
  <2>3. QED
    BY <1>1, <1>4, <1>6, <2>1, <2>2
<1>8. units \div width = bands
  BY <1>1, <1>3, <1>4, <1>7, Quotient DEF lower
<1>9. QED
  BY <1>2, <1>8 DEF lower

(* A reference that is decided in the band of an amount has one answer     *)
(* over it, the amount's own.                                              *)
LEMMA DecidedAlike ==
  ASSUME NEW category \in BandCategories, NEW points \in Nat, NEW r,
         r.operator \in {"gt", "ge", "lt", "le"}, r.points \in Nat,
         ReferenceIsDecidable(r.operator, r.points, NumericBand(category, points))
  PROVE  AnswersAlike(NumericBand(category, points), points, r)
<1> DEFINE band == NumericBand(category, points)
<1>1. /\ band.lower \in Nat /\ band.upper \in Nat /\ band.lower < band.upper
      /\ InBand(points, band)
  BY BandIsFaithful
<1>2. band = Band(band.lower, band.upper)
  BY DEF NumericBand, Band
<1> HIDE DEF band
<1>3. \A a, b \in (band.lower * Point)..(band.upper * Point - 1) :
        Holds(r.operator, a, r.points) <=> Holds(r.operator, b, r.points)
  <2>1. ReferenceIsDecidable(r.operator, r.points, Band(band.lower, band.upper))
    BY <1>2 DEF band
  <2>2. QED
    BY <1>1, <2>1, DecidableIsExact
<1>4. points \in (band.lower * Point)..(band.upper * Point - 1)
  <2>1. Point \in Nat /\ band.lower * Point \in Nat /\ band.upper * Point \in Nat
    BY <1>1, BandAssumption
  <2>2. QED
    BY <1>1, <2>1 DEF InBand
<1>5. QED
  BY <1>3, <1>4 DEF AnswersAlike, band

-----------------------------------------------------------------------------
(* Lists.                                                                  *)

IsSeq(s) == \E S : s \in Seq(S)

LEMMA Longer ==
  ASSUME NEW s, NEW e, IsSeq(s)
  PROVE  /\ IsSeq(Append(s, e)) /\ Len(s) \in Nat /\ DOMAIN s = 1..Len(s)
         /\ Len(Append(s, e)) = Len(s) + 1
         /\ DOMAIN Append(s, e) = 1..(Len(s) + 1)
         /\ \A k \in 1..Len(s) : Append(s, e)[k] = s[k]
         /\ Append(s, e)[Len(s) + 1] = e
<1>1. PICK S : s \in Seq(S)
  BY DEF IsSeq
<1>2. s \in Seq(S \cup {e}) /\ e \in S \cup {e}
  BY <1>1
<1>3. Append(s, e) \in Seq(S \cup {e})
  BY <1>2
<1>4. QED
  BY <1>2, <1>3 DEF IsSeq

LEMMA Loaded ==
  ASSUME NEW F, NEW files \in Seq(F), LoadCorpus(files) # Absent
  PROVE  IsSeq(LoadCorpus(files))
<1> DEFINE case(i) == [input |-> files[i].input, oracle |-> files[i].oracle]
           S == {case(i) : i \in DOMAIN files}
<1>1. LoadCorpus(files) = [i \in 1..Len(files) |-> case(i)]
  BY DEF LoadCorpus
<1>2. [i \in 1..Len(files) |-> case(i)] \in Seq(S)
  <2>1. Len(files) \in Nat /\ \A i \in 1..Len(files) : case(i) \in S
    OBVIOUS
  <2> HIDE DEF case, S
  <2>2. QED
    BY <2>1
<1>3. QED
  BY <1>1, <1>2 DEF IsSeq

LEMMA EmptyIsSeq == IsSeq(<<>>) /\ Len(<<>>) = 0 /\ DOMAIN <<>> = {}
<1>1. <<>> \in Seq({})
  OBVIOUS
<1>2. QED
  BY <1>1 DEF IsSeq

-----------------------------------------------------------------------------
(* Where the process is and what it holds.                                 *)

Base == TypeOK /\ IsSeq(rows) /\ IsSeq(cases)

(* The invocation that runs.                                               *)
LEMMA TheJob ==
  ASSUME Base
  PROVE  /\ IsSeq(Job.files) /\ IsSeq(Job.treatments) /\ Job.id \in RunId
         /\ IsSeq(session) /\ DOMAIN session = 1..Len(session)
         /\ turn \in Nat /\ Len(session) \in Nat
         /\ Planned \in Nat
<1>1. session \in Seq(Elements(session)) /\ turn \in DOMAIN session
  BY SessionAssumption DEF Base, TypeOK
<1>2. /\ Job.files \in Seq(Elements(Job.files))
      /\ Job.treatments \in Seq(Elements(Job.treatments))
      /\ Job.id \in RunId
  BY SessionAssumption DEF Base, TypeOK, Job
<1>3. Len(Job.treatments) \in Nat /\ Len(cases) \in Nat
  BY <1>2, Longer DEF Base
<1>4. Planned \in Nat
  BY <1>3 DEF Planned
<1>5. QED
  BY <1>1, <1>2, <1>4 DEF IsSeq

(* The execution at hand.                                                  *)
LEMMA HereIsOne ==
  ASSUME Base
  PROVE  Here \in Position /\ Here = Len(rows) + 1 /\ Len(rows) \in Nat
         /\ DOMAIN rows = 1..Len(rows)
BY Longer DEF Base, Here, Position

Stages == {"mkdir", "results", "lines", "pairwise", "b3_to_b4", "contextual", "manifest"}

(* Writing changes the disk, and nothing the run holds in memory.          *)
LEMMA WritingKeepsMemory ==
  ASSUME WriteArtifact, DOMAIN disk = RunId
  PROVE  /\ UNCHANGED <<session, turn, memory>>
         /\ pc \in Stages
         /\ pc' \in Stages \cup {"exists", "mixed", "done"}
         /\ DOMAIN disk' = RunId
<1>1. CASE MakeDir
  BY <1>1 DEF MakeDir, Stages
<1>2. CASE OpenResults
  BY <1>2 DEF OpenResults, Stages, Write
<1>3. CASE WriteLine
  BY <1>3 DEF WriteLine, Stages, Write
<1>4. CASE WriteSummaries
  BY <1>4 DEF WriteSummaries, Stages, Write
<1>5. CASE WritePairwise
  BY <1>5 DEF WritePairwise, Goes, Stages, Write
<1>6. CASE WriteB3ToB4
  BY <1>6 DEF WriteB3ToB4, Goes, Stages, Write
<1>7. CASE WriteContextual
  BY <1>7 DEF WriteContextual, Goes, Stages, Write
<1>8. CASE WriteManifest
  BY <1>8 DEF WriteManifest, Goes, Stages, Write
<1>9. QED
  BY <1>1, <1>2, <1>3, <1>4, <1>5, <1>6, <1>7, <1>8 DEF WriteArtifact

LEMMA BaseInit == Init => Base
<1> SUFFICES ASSUME Init PROVE Base
  OBVIOUS
<1>1. session \in Seq(Elements(session)) /\ session # <<>>
  BY SessionAssumption DEF Init
<1>2. 1 \in DOMAIN session
  BY <1>1
<1>3. QED
  BY <1>2, EmptyIsSeq DEF Init, Base, TypeOK, Ended

LEMMA BaseStep == Base /\ [Next]_vars => Base'
<1> SUFFICES ASSUME Base, [Next]_vars PROVE Base'
  OBVIOUS
<1> USE DEF Ended
<1>0. /\ IsSeq(Job.files) /\ IsSeq(session) /\ Here \in Position /\ turn \in DOMAIN session
      /\ DOMAIN disk = RunId
  BY TheJob, HereIsOne DEF Base, TypeOK
<1>1. CASE Begin
  <2>1. CASE pc' = "running"
    <3>1. IsSeq(LoadCorpus(Job.files)) \/ LoadCorpus(Job.files) = Absent
      BY <1>0, Loaded DEF IsSeq
    <3>2. IsSeq(cases')
      BY <1>1, <2>1, <3>1 DEF Begin
    <3>3. QED
      BY <1>1, <2>1, <3>2 DEF Begin, Base, TypeOK
  <2>2. CASE pc' = "refused" /\ cases' = cases
    BY <1>1, <2>2 DEF Begin, Base, TypeOK
  <2>3. QED
    BY <1>1, <2>1, <2>2 DEF Begin
<1>2. CASE Execute
  <2>1. lastCall' \in Position \cup {Absent}
    BY <1>2 DEF Execute, Delegate, Base, TypeOK
  <2>2. /\ pc = "running" /\ pc' = "decided" /\ Len(rows) < Planned
        /\ UNCHANGED <<session, turn, cases, late, called, rows, comparison, disk>>
    BY <1>2 DEF Execute
  <2>3. Planned' = Planned
    BY <2>2 DEF Planned, Job
  <2>4. QED
    BY <2>1, <2>2, <2>3 DEF Base, TypeOK
<1>3. CASE Settle
  <2>1. /\ pc = "decided" /\ pc' = "settled"
        /\ UNCHANGED <<session, turn, cases, rows, comparison, disk>>
        /\ lastCall' \in {lastCall, Here}
        /\ late' \subseteq called' /\ called' \subseteq called \cup {Here}
    BY <1>3 DEF Settle, SkipBlocked, RefuseClass, Answer, Raise, GiveUp, Sendable, Pending,
                Audited, Base, TypeOK
  <2>2. Planned' = Planned
    BY <2>1 DEF Planned, Job
  <2>3. QED
    BY <1>0, <2>1, <2>2 DEF Base, TypeOK
<1>4. CASE Collect
  <2>1. /\ pc = "settled" /\ pc' \in {"running", "unscored"}
        /\ UNCHANGED <<session, turn, cases, lastCall, late, called, comparison, disk>>
        /\ rows' = rows \/ \E row : rows' = Append(rows, row)
    BY <1>4 DEF Collect
  <2>2. ASSUME NEW row PROVE IsSeq(Append(rows, row))
    BY Longer DEF Base
  <2>3. IsSeq(rows')
    BY <2>1, <2>2 DEF Base
  <2>4. QED
    BY <2>1, <2>3 DEF Base, TypeOK
<1>5. CASE Compare
  BY <1>5 DEF Compare, RunsOut, Base, TypeOK
<1>6. CASE WriteArtifact
  BY <1>6, <1>0, WritingKeepsMemory DEF Base, TypeOK, memory, Stages
<1>7. ASSUME NEW n \in late, WorkerFinishes(n) PROVE Base'
  <2>1. lastCall' \in Position \cup {Absent}
    BY <1>7 DEF WorkerFinishes, Base, TypeOK
  <2>2. Planned' = Planned
    BY <1>7 DEF WorkerFinishes, Planned, Job
  <2>3. QED
    BY <1>7, <2>1, <2>2 DEF WorkerFinishes, Base, TypeOK
<1>8. CASE NextInvocation
  <2>1. turn' \in DOMAIN session
    BY <1>8, TheJob DEF NextInvocation
  <2>2. QED
    BY <1>8, <2>1, EmptyIsSeq DEF NextInvocation, Base, TypeOK
<1>9. CASE Crash
  BY <1>9, EmptyIsSeq DEF Crash, Base, TypeOK
<1>10. CASE UNCHANGED vars
  BY <1>10 DEF vars, memory, Base, TypeOK, Planned, Job
<1>11. QED
  BY <1>1, <1>2, <1>3, <1>4, <1>5, <1>6, <1>7, <1>8, <1>9, <1>10 DEF Next, Progress

(* The runner's state is well typed, for any sessions, corpora and run     *)
(* directories.                                                            *)
THEOREM TypeCorrect == Spec => []TypeOK
<1>1. Base => TypeOK
  BY DEF Base
<1>2. QED
  BY BaseInit, BaseStep, <1>1, PTL DEF Spec

-----------------------------------------------------------------------------
(* A corpus is checked before it is run.                                   *)

Checked ==
    /\ pc \in {"starting", "refused", "crashed"} \/ CheckCorpusProtocolCompatibility(cases, Job.protocol)
    /\ pc \in {"starting", "refused"} => called = {} /\ rows = <<>>
    /\ pc # "unscored"

(* The case at hand is one of the corpus.                                  *)
LEMMA CaseIsOfTheCorpus ==
  ASSUME Base, pc = "settled"
  PROVE  \E i \in DOMAIN cases : CaseAt(Here) = cases[i]
<1>1. /\ Len(cases) \in Nat /\ DOMAIN cases = 1..Len(cases)
      /\ Len(Job.treatments) \in Nat /\ Len(rows) \in Nat
  BY Longer, TheJob DEF Base
<1>2. Len(rows) < Len(Job.treatments) * Len(cases)
  BY DEF Base, TypeOK, Planned
<1>3. Len(cases) > 0
  <2>1. Len(cases) = 0 => Len(Job.treatments) * Len(cases) = 0
    BY <1>1
  <2>2. QED
    BY <1>1, <1>2, <2>1
<1>4. Len(rows) % Len(cases) \in 0..(Len(cases) - 1)
  BY <1>1, <1>3
<1>5. Here - 1 = Len(rows)
  BY <1>1 DEF Here
<1>6. CaseAt(Here) = cases[(Len(rows) % Len(cases)) + 1]
  BY <1>5 DEF CaseAt
<1>7. (Len(rows) % Len(cases)) + 1 \in DOMAIN cases
  BY <1>1, <1>4
<1>8. QED
  BY <1>6, <1>7

LEMMA CheckedStep == Base /\ Checked /\ [Next]_vars => Checked'
<1> SUFFICES ASSUME Base, Checked, [Next]_vars PROVE Checked'
  OBVIOUS
<1>1. CASE Begin
  BY <1>1 DEF Begin, Checked, Job
<1>2. CASE Execute
  BY <1>2 DEF Execute, Checked, Job
<1>3. CASE Settle
  <2>1. pc = "decided" /\ pc' = "settled" /\ UNCHANGED <<session, turn, cases, rows>>
    BY <1>3 DEF Settle, SkipBlocked, RefuseClass, Answer, Raise, GiveUp, Sendable, Pending, Audited
  <2>2. QED
    BY <2>1 DEF Checked, Job
<1>4. CASE Collect
  <2>1. pc = "settled" /\ UNCHANGED <<session, turn, cases, called>>
    BY <1>4 DEF Collect
  <2>2. CheckCorpusProtocolCompatibility(cases, Job.protocol)
    BY <2>1 DEF Checked
  <2>3. /\ ValidateScorableProtocolId(Job.protocol)
        /\ CheckCaseProtocolCompatibility(CaseAt(Here).oracle, Job.protocol)
    BY <2>1, <2>2, CaseIsOfTheCorpus DEF CheckCorpusProtocolCompatibility
  <2>4. pc' = "running"
    BY <1>4, <2>3 DEF Collect
  <2>5. QED
    BY <2>1, <2>2, <2>4 DEF Checked, Job
<1>5. CASE Compare
  BY <1>5 DEF Compare, RunsOut, Checked, Job
<1>6. CASE WriteArtifact
  <2>1. /\ UNCHANGED <<session, turn, memory>> /\ pc \in Stages
        /\ pc' \in Stages \cup {"exists", "mixed", "done"}
    BY <1>6, WritingKeepsMemory DEF Base, TypeOK
  <2>2. QED
    BY <2>1 DEF Checked, Job, memory, Stages
<1>7. ASSUME NEW n \in late, WorkerFinishes(n) PROVE Checked'
  BY <1>7 DEF WorkerFinishes, Checked, Job
<1>8. CASE NextInvocation
  BY <1>8 DEF NextInvocation, Checked
<1>9. CASE Crash
  BY <1>9 DEF Crash, Checked
<1>10. CASE UNCHANGED vars
  BY <1>10 DEF vars, memory, Checked, Job
<1>11. QED
  BY <1>1, <1>2, <1>3, <1>4, <1>5, <1>6, <1>7, <1>8, <1>9, <1>10 DEF Next, Progress

(* Whatever the corpora and protocols, a run that is refused has called no *)
(* provider, and none is refused by scoring once it has begun.             *)
THEOREM NothingIsWasted == Spec => []NoWastedCalls
<1>1. Init => Checked
  BY DEF Init, Checked
<1>2. Checked => NoWastedCalls
  BY DEF Checked, NoWastedCalls
<1>3. QED
  BY BaseInit, BaseStep, CheckedStep, <1>1, <1>2, PTL DEF Spec

-----------------------------------------------------------------------------
(* What a row says of the provider.                                        *)

(* The provider's part of the execution at hand: what the row will say of  *)
(* it.  A delegate that is made for each execution is set by its own call  *)
(* or not at all, because a worker of another execution has another one.   *)
Attributed ==
    /\ \A n \in called : n <= Len(rows) \/ (pc = "settled" /\ n = Here)
    /\ pc \in {"decided", "settled"} =>
         /\ execution = [detected |-> execution.detected, audit |-> execution.audit,
                         b4 |-> execution.b4, result |-> execution.result]
         /\ Job.provider # "wrapped" =>
              lastCall \in {Here, Absent} /\ (lastCall = Here => Here \in called)
    /\ pc = "settled" =>
         /\ execution.audit.called \in BOOLEAN /\ execution.audit.failed \in BOOLEAN
         /\ execution.audit.called <=> Here \in called
         /\ execution.result.status = "blocked" =>
              ~execution.audit.called /\ ~execution.audit.failed
         /\ Job.provider # "wrapped" /\ execution.audit.called /\ ~execution.audit.failed =>
              lastCall = Here

Honest == RowsTellTheirOwnCase /\ Attributed

(* Nothing that the rows are compared with changes.                        *)
LEMMA RowsStand ==
  ASSUME Honest, Base, UNCHANGED <<session, turn, cases, rows>>,
         \A k \in DOMAIN rows : k \in called' <=> k \in called
  PROVE  RowsTellTheirOwnCase'
BY DEF Honest, RowsTellTheirOwnCase, CaseAt, TreatmentAt, Job

(* A settled execution says of itself what Attributed wants.               *)
LEMMA Settled ==
  ASSUME Honest, Base, Settle
  PROVE  Attributed'
<1> USE DEF Sendable, Pending
<1>1. /\ pc = "decided" /\ pc' = "settled"
      /\ UNCHANGED <<session, turn, cases, rows>> /\ Here' = Here
  BY DEF Settle, SkipBlocked, RefuseClass, Answer, Raise, GiveUp, Audited, Here
<1>2. Here \in Position /\ Here = Len(rows) + 1 /\ Len(rows) \in Nat
  BY HereIsOne
<1>3. \A n \in called : n <= Len(rows)
  BY <1>1 DEF Honest, Attributed
<1>4. Here \notin called /\ Here # Absent
  BY <1>2, <1>3, BandAssumption DEF Position
<1>5. called' \subseteq called \cup {Here}
  BY DEF Settle, SkipBlocked, RefuseClass, Answer, Raise, GiveUp
<1>6. \A n \in called' : n <= Len(rows') \/ (pc' = "settled" /\ n = Here')
  BY <1>1, <1>3, <1>5
<1>7. Job' = Job
  BY <1>1 DEF Job
<1>8. /\ execution = [detected |-> execution.detected, audit |-> execution.audit,
                      b4 |-> execution.b4, result |-> execution.result]
      /\ Job.provider # "wrapped" => lastCall = Absent
  BY <1>1, <1>4 DEF Honest, Attributed
<1>9. ASSUME NEW c \in BOOLEAN, NEW f \in BOOLEAN, Audited(c, f)
      PROVE  /\ execution' = [detected |-> execution'.detected, audit |-> execution'.audit,
                              b4 |-> execution'.b4, result |-> execution'.result]
             /\ execution'.result = execution.result
             /\ execution'.audit = [called |-> c, failed |-> f]
             /\ execution'.audit.called = c /\ execution'.audit.failed = f
  BY <1>8, <1>9 DEF Audited
<1>10. CASE SkipBlocked
  <2>1. /\ Audited(FALSE, FALSE) /\ lastCall' = lastCall /\ called' = called
    BY <1>10 DEF SkipBlocked
  <2>2. ~execution'.audit.called /\ ~execution'.audit.failed
    BY <2>1, <1>9
  <2>3. QED
    BY <2>1, <2>2, <1>1, <1>4, <1>6, <1>7, <1>8, <1>9 DEF Attributed
<1>11. CASE RefuseClass
  <2>1. /\ Audited(FALSE, TRUE) /\ lastCall' = lastCall /\ called' = called
        /\ execution.result.status # "blocked"
    BY <1>11 DEF RefuseClass
  <2>2. QED
    BY <2>1, <1>1, <1>4, <1>6, <1>7, <1>8, <1>9 DEF Attributed
<1>12. CASE Answer
  <2>1. /\ Audited(TRUE, FALSE) /\ lastCall' = Here /\ called' = called \cup {Here}
        /\ execution.result.status # "blocked"
    BY <1>12 DEF Answer
  <2>2. QED
    BY <2>1, <1>1, <1>4, <1>6, <1>7, <1>8, <1>9 DEF Attributed
<1>13. CASE Raise \/ GiveUp
  <2>1. /\ Audited(TRUE, TRUE) /\ lastCall' = lastCall /\ called' = called \cup {Here}
        /\ execution.result.status # "blocked"
    BY <1>13 DEF Raise, GiveUp
  <2>2. QED
    BY <2>1, <1>1, <1>4, <1>6, <1>7, <1>8, <1>9 DEF Attributed
<1>14. QED
  BY <1>10, <1>11, <1>12, <1>13 DEF Settle

(* The row of a settled execution.                                         *)
LEMMA Collected ==
  ASSUME Honest, Base, Collect
  PROVE  RowsTellTheirOwnCase'
<1> DEFINE Row(score) ==
      [case |-> CaseAt(Here).input.id, treatment |-> TreatmentAt(Here),
       protocol |-> Job.protocol, metrics |-> lastCall,
       snapshot |-> lastCall # Absent, audit |-> execution.audit,
       result |-> execution.result, score |-> score]
<1>1. /\ pc = "settled" /\ UNCHANGED <<session, turn, cases, called>>
      /\ rows' = rows \/ \E score : rows' = Append(rows, Row(score))
  BY DEF Collect
<1>2. CASE rows' = rows
  BY <1>1, <1>2, RowsStand
<1>3. ASSUME NEW score, rows' = Append(rows, Row(score)) PROVE RowsTellTheirOwnCase'
  <2>1. /\ Here = Len(rows) + 1 /\ Len(rows) \in Nat /\ DOMAIN rows = 1..Len(rows)
        /\ DOMAIN rows' = 1..(Len(rows) + 1)
        /\ \A k \in 1..Len(rows) : rows'[k] = rows[k]
        /\ rows'[Here] = Row(score)
    BY <1>3, Longer, HereIsOne DEF Base
  <2>2. Job' = Job /\ (\A k : CaseAt(k)' = CaseAt(k) /\ TreatmentAt(k)' = TreatmentAt(k))
    BY <1>1 DEF Job, CaseAt, TreatmentAt
  <2>3. SUFFICES ASSUME NEW k \in DOMAIN rows'
                 PROVE  /\ rows'[k].case = CaseAt(k).input.id
                        /\ rows'[k].treatment = TreatmentAt(k)
                        /\ rows'[k].audit.called <=> k \in called
                        /\ rows'[k].result.status = "blocked" =>
                             ~rows'[k].audit.called /\ ~rows'[k].audit.failed
                        /\ Job.provider # "wrapped" =>
                             /\ rows'[k].metrics \in {k, Absent}
                             /\ rows'[k].metrics = k => rows'[k].audit.called
                             /\ rows'[k].audit.called /\ ~rows'[k].audit.failed =>
                                  rows'[k].metrics = k
    BY <1>1, <2>2 DEF RowsTellTheirOwnCase
  <2>4. CASE k \in DOMAIN rows
    BY <2>1, <2>4 DEF Honest, RowsTellTheirOwnCase
  <2>5. CASE k = Here
    <3>1. /\ rows'[k].case = CaseAt(k).input.id /\ rows'[k].treatment = TreatmentAt(k)
          /\ rows'[k].audit = execution.audit /\ rows'[k].result = execution.result
          /\ rows'[k].metrics = lastCall
      BY <2>1, <2>5
    <3>2. QED
      BY <3>1, <2>5, <1>1 DEF Honest, Attributed
  <2>6. QED
    BY <2>1, <2>3, <2>4, <2>5
<1>4. QED
  BY <1>1, <1>2, <1>3

LEMMA HonestStep == Base /\ Checked /\ Honest /\ [Next]_vars => Honest'
<1> SUFFICES ASSUME Base, Checked, Honest, [Next]_vars PROVE Honest'
  OBVIOUS
<1>0. /\ Here \in Position /\ Here = Len(rows) + 1 /\ Len(rows) \in Nat
      /\ DOMAIN rows = 1..Len(rows) /\ Here # Absent
  BY HereIsOne, BandAssumption DEF Position
<1>1. CASE Begin
  <2>1. rows' = <<>> /\ called' = {} /\ pc' \in {"running", "refused"}
    BY <1>1 DEF Begin, Checked
  <2>2. QED
    BY <2>1, EmptyIsSeq DEF Honest, Attributed, RowsTellTheirOwnCase
<1>2. CASE Execute
  <2>1. /\ pc = "running" /\ pc' = "decided"
        /\ UNCHANGED <<session, turn, cases, rows, called>>
        /\ lastCall' = Delegate
    BY <1>2 DEF Execute
  <2>2. execution' = [detected |-> execution'.detected, audit |-> execution'.audit,
                      b4 |-> execution'.b4, result |-> execution'.result]
    BY <1>2 DEF Execute
  <2>3. RowsTellTheirOwnCase'
    BY <2>1, RowsStand
  <2>4. Here' = Here /\ Job' = Job
    BY <2>1 DEF Here, Job
  <2>5. Attributed'
    BY <2>1, <2>2, <2>4, <1>0 DEF Honest, Attributed, Delegate
  <2>6. QED
    BY <2>3, <2>5 DEF Honest
<1>3. CASE Settle
  <2>1. Attributed'
    BY <1>3, Settled
  <2>2. /\ UNCHANGED <<session, turn, cases, rows>>
        /\ called' = called \/ called' = called \cup {Here}
    BY <1>3 DEF Settle, SkipBlocked, RefuseClass, Answer, Raise, GiveUp
  <2>3. \A k \in DOMAIN rows : k # Here
    BY <1>0
  <2>4. RowsTellTheirOwnCase'
    BY <2>2, <2>3, RowsStand
  <2>5. QED
    BY <2>1, <2>4 DEF Honest
<1>4. CASE Collect
  <2>1. RowsTellTheirOwnCase'
    BY <1>4, Collected
  <2>2. /\ pc = "settled" /\ called' = called
        /\ pc' = "unscored" \/ (pc' = "running" /\ \E row : rows' = Append(rows, row))
    BY <1>4 DEF Collect
  <2>3. pc' # "unscored"
    BY CheckedStep DEF Checked
  <2>4. pc' = "running" /\ \A k \in called : k <= Len(rows')
    <3>1. PICK row : rows' = Append(rows, row)
      BY <2>2, <2>3
    <3>2. Len(rows') = Len(rows) + 1
      BY <3>1, Longer DEF Base
    <3>3. \A k \in called : k \in Nat
      BY DEF Base, TypeOK, Position
    <3>4. QED
      BY <3>2, <3>3, <2>2, <2>3, <1>0 DEF Honest, Attributed
  <2>5. QED
    BY <2>1, <2>2, <2>4 DEF Honest, Attributed
<1>5. CASE Compare
  <2>1. /\ UNCHANGED <<session, turn, cases, rows, called>>
        /\ pc = "running" /\ pc' = "mkdir"
    BY <1>5 DEF Compare, RunsOut
  <2>2. QED
    BY <2>1, RowsStand DEF Honest, Attributed
<1>6. CASE WriteArtifact
  <2>1. /\ UNCHANGED <<session, turn, memory>> /\ pc \in Stages
        /\ pc' \in Stages \cup {"exists", "mixed", "done"}
    BY <1>6, WritingKeepsMemory DEF Base, TypeOK
  <2>2. QED
    BY <2>1, RowsStand DEF Honest, Attributed, memory, Stages
<1>7. ASSUME NEW n \in late, WorkerFinishes(n) PROVE Honest'
  <2>1. /\ UNCHANGED <<session, turn, pc, cases, execution, called, rows>>
        /\ Job.provider # "wrapped" =>
             lastCall' = lastCall \/ (lastCall' = Here /\ n = Here)
        /\ n \in called
    BY <1>7 DEF WorkerFinishes, Base, TypeOK
  <2>2. RowsTellTheirOwnCase'
    BY <2>1, RowsStand
  <2>3. Here' = Here /\ Job' = Job
    BY <2>1 DEF Here, Job
  <2>4. Attributed'
    BY <2>1, <2>3 DEF Honest, Attributed
  <2>5. QED
    BY <2>2, <2>4 DEF Honest
<1>8. CASE NextInvocation
  BY <1>8, EmptyIsSeq DEF NextInvocation, Honest, Attributed, RowsTellTheirOwnCase
<1>9. CASE Crash
  BY <1>9, EmptyIsSeq DEF Crash, Honest, Attributed, RowsTellTheirOwnCase
<1>10. CASE UNCHANGED vars
  <2>1. UNCHANGED <<session, turn, pc, cases, execution, lastCall, called, rows>>
    BY <1>10 DEF vars, memory
  <2>2. Here' = Here /\ Job' = Job
    BY <2>1 DEF Here, Job
  <2>3. QED
    BY <2>1, <2>2, RowsStand DEF Honest, Attributed
<1>11. QED
  BY <1>1, <1>2, <1>3, <1>4, <1>5, <1>6, <1>7, <1>8, <1>9, <1>10 DEF Next, Progress

(* However late a worker finishes, a row never has the metrics of another  *)
(* execution's call, unless the delegate is the caller's own.              *)
THEOREM RowsAreTheirOwn == Spec => []RowsTellTheirOwnCase
<1>1. Init => Honest
  BY EmptyIsSeq DEF Init, Honest, Attributed, RowsTellTheirOwnCase
<1>2. Honest => RowsTellTheirOwnCase
  BY DEF Honest
<1>3. Init => Checked
  BY DEF Init, Checked
<1>4. QED
  BY BaseInit, BaseStep, CheckedStep, HonestStep, <1>1, <1>2, <1>3, PTL DEF Spec

-----------------------------------------------------------------------------
(* What a row says of the amounts that left as bands.                      *)

(* What a treatment made of a text: a category has one action, and what    *)
(* was generalized is the coarser form of a value the text offers.         *)
Coherent(result, treatment, input) ==
    \A i, j \in DOMAIN result.transformations :
      LET t == result.transformations[i]
          u == result.transformations[j]
      IN  /\ t.category = u.category => t.action = u.action
          /\ t.action = "generalize" =>
               /\ treatment # "b0"
               /\ \E v \in input.tokens : t.original = v.value
               /\ t.transformed = Generalize(t.category, t.original)
               /\ t.transformed # Absent

(* The rows are scores of such results against cases of the corpus, which  *)
(* is the one the invocation names.                                        *)
Scored ==
    /\ \A k \in DOMAIN rows :
         /\ \E i \in DOMAIN cases : CaseAt(k) = cases[i]
         /\ rows[k].protocol = Job.protocol
         /\ Coherent(rows[k].result, TreatmentAt(k), CaseAt(k).input)
         /\ rows[k].score.utility =
              ScoreUtility(Job.protocol, CaseAt(k).input, CaseAt(k).oracle,
                           rows[k].result, TreatmentAt(k))
    /\ pc \in {"decided", "settled"} =>
         Coherent(execution.result, TreatmentAt(Here), CaseAt(Here).input)
    /\ \A i \in DOMAIN cases : \E file \in Elements(Job.files) :
         file.readable /\ cases[i] = [input |-> file.input, oracle |-> file.oracle]

(* What Sanitized gives is coherent, whatever the spans and the actions.   *)
LEMMA SanitizedIsCoherent ==
  ASSUME NEW spans, NEW chosen, NEW input, NEW treatment, treatment # "b0",
         \A i \in DOMAIN spans : spans[i] \in input.tokens
  PROVE  Coherent(Sanitized(spans, chosen), treatment, input)
<1> DEFINE t(i) == [category |-> spans[i].category, original |-> spans[i].value,
                    action |-> chosen[spans[i].category],
                    transformed |-> Represent(chosen[spans[i].category], spans[i])]
           blocks == \E i \in DOMAIN spans :
                       \/ chosen[spans[i].category] = "block_request"
                       \/ /\ chosen[spans[i].category] = "generalize"
                          /\ Generalize(spans[i].category, spans[i].value) = Absent
<1>1. CASE blocks
  <2>1. Sanitized(spans, chosen) = BlockedResult
    BY <1>1 DEF Sanitized
  <2>2. QED
    BY <2>1, EmptyIsSeq DEF BlockedResult, Coherent
<1>2. CASE ~blocks
  <2>1. Sanitized(spans, chosen).transformations = [i \in DOMAIN spans |-> t(i)]
    BY <1>2 DEF Sanitized
  <2>2. ASSUME NEW i \in DOMAIN spans, NEW j \in DOMAIN spans
        PROVE  /\ t(i).category = t(j).category => t(i).action = t(j).action
               /\ t(i).action = "generalize" =>
                    /\ \E v \in input.tokens : t(i).original = v.value
                    /\ t(i).transformed = Generalize(t(i).category, t(i).original)
                    /\ t(i).transformed # Absent
    BY <1>2 DEF Represent
  <2> HIDE DEF t
  <2>3. QED
    BY <2>1, <2>2 DEF Coherent
<1>3. QED
  BY <1>1, <1>2

LEMMA DirectIsCoherent ==
  ASSUME NEW treatment, NEW input, NEW result \in {BlockedResult, DirectResult}
  PROVE  Coherent(result, treatment, input)
<1>1. CASE result = BlockedResult
  BY <1>1, EmptyIsSeq DEF BlockedResult, Coherent
<1>2. CASE result = DirectResult
  <2>1. /\ DOMAIN result.transformations = {1}
        /\ result.transformations[1].action = "preserve"
    BY <1>2 DEF DirectResult, BlockedResult
  <2>2. QED
    BY <2>1 DEF Coherent
<1>3. QED
  BY <1>1, <1>2

(* A decision is coherent with the text it is about.                       *)
LEMMA Decided ==
  ASSUME Execute
  PROVE  Coherent(execution'.result, TreatmentAt(Here), CaseAt(Here).input)
<1> DEFINE treatment == TreatmentAt(Here)
           input == CaseAt(Here).input
<1>1. PICK spans, chosen, b4 :
        /\ \E found \in SUBSET input.tokens : spans \in Det!ResolveOverlaps(found)
        /\ execution' = [detected |-> spans, audit |-> Absent, b4 |-> b4,
                         result |-> IF TaskBlocks(treatment, input) THEN BlockedResult
                                    ELSE IF treatment = "b0" THEN DirectResult
                                    ELSE Sanitized(spans, chosen)]
  BY DEF Execute
<1>2. \A i \in DOMAIN spans : spans[i] \in input.tokens
  <2>1. PICK found \in SUBSET input.tokens : \E n : spans \in [1..n -> found]
    BY <1>1 DEF Det!ResolveOverlaps
  <2>2. QED
    BY <2>1
<1> HIDE DEF treatment, input
<1>3. execution'.result \in {BlockedResult, DirectResult}
      \/ (treatment # "b0" /\ execution'.result = Sanitized(spans, chosen))
  BY <1>1
<1>4. QED
  BY <1>2, <1>3, DirectIsCoherent, SanitizedIsCoherent DEF treatment, input

(* A case that is loaded is a file's that reads as one.                    *)
LEMMA LoadedFromFiles ==
  ASSUME NEW files, files \in Seq(Elements(files)), LoadCorpus(files) # Absent,
         NEW i \in DOMAIN LoadCorpus(files)
  PROVE  \E file \in Elements(files) :
           file.readable /\ LoadCorpus(files)[i] = [input |-> file.input, oracle |-> file.oracle]
<1>1. /\ LoadCorpus(files) = [j \in DOMAIN files |->
                                [input |-> files[j].input, oracle |-> files[j].oracle]]
      /\ \A j \in DOMAIN files : files[j].readable
  BY DEF LoadCorpus, LoadsAsCase
<1>2. i \in DOMAIN files /\ files[i] \in Elements(files)
  BY <1>1
<1>3. QED
  BY <1>1, <1>2

(* Scored is kept where the corpus is, and neither the rows grow nor a     *)
(* decision is made.                                                       *)
LEMMA ScoredStands ==
  ASSUME Scored, UNCHANGED <<session, turn, cases, rows>>,
         pc' \in {"decided", "settled"} =>
           pc \in {"decided", "settled"} /\ execution'.result = execution.result
  PROVE  Scored'
BY DEF Scored, CaseAt, TreatmentAt, Here, Job

(* The row of the execution at hand.                                       *)
NewRow(shown) ==
    [case |-> CaseAt(Here).input.id, treatment |-> TreatmentAt(Here),
     protocol |-> Job.protocol, metrics |-> lastCall,
     snapshot |-> lastCall # Absent, audit |-> execution.audit,
     result |-> execution.result,
     score |-> ScoreCase(Job.protocol, CaseAt(Here), TreatmentAt(Here), execution, shown)]

LEMMA RowIsNew ==
  ASSUME Collect
  PROVE  rows' = rows \/ \E shown : rows' = Append(rows, NewRow(shown))
<1> DEFINE scorable == /\ ValidateScorableProtocolId(Job.protocol)
                       /\ CheckCaseProtocolCompatibility(CaseAt(Here).oracle, Job.protocol)
           echoes == execution.result.status = "allowed" /\ TreatmentAt(Here) \in Reconstructing
           shown(restored) ==
             IF echoes THEN EchoShows(CaseAt(Here).input, execution, restored) ELSE Absent
<1>1. IF scorable
      THEN \E restored \in IF execution.result.reconstructionRequired THEN BOOLEAN ELSE {TRUE} :
             rows' = Append(rows, NewRow(shown(restored))) /\ pc' = "running"
      ELSE pc' = "unscored" /\ rows' = rows
  BY Zenon DEF Collect, NewRow
<1> HIDE DEF shown, scorable
<1>2. QED
  BY <1>1

(* The row of an execution joins the others.                               *)
LEMMA ScoredRow ==
  ASSUME Base, Honest, Scored, Collect
  PROVE  Scored'
<1>1. /\ pc = "settled" /\ pc' \in {"running", "unscored"}
      /\ UNCHANGED <<session, turn, cases>>
  BY DEF Collect
<1>2. CASE rows' = rows
  BY <1>1, <1>2, ScoredStands
<1>3. ASSUME NEW row, rows' = Append(rows, row),
             row.protocol = Job.protocol, row.result = execution.result,
             row.score.utility = ScoreUtility(Job.protocol, CaseAt(Here).input,
                                   CaseAt(Here).oracle, execution.result, TreatmentAt(Here))
      PROVE  Scored'
  <2>1. /\ Here = Len(rows) + 1 /\ DOMAIN rows = 1..Len(rows) /\ Len(rows) \in Nat
        /\ DOMAIN rows' = 1..(Len(rows) + 1)
        /\ \A k \in 1..Len(rows) : rows'[k] = rows[k]
        /\ rows'[Here] = row
    BY <1>3, Longer, HereIsOne DEF Base
  <2>2. Job' = Job /\ (\A k : CaseAt(k)' = CaseAt(k) /\ TreatmentAt(k)' = TreatmentAt(k))
    BY <1>1 DEF Job, CaseAt, TreatmentAt
  <2>3. ASSUME NEW k \in DOMAIN rows'
        PROVE  /\ \E i \in DOMAIN cases : CaseAt(k) = cases[i]
               /\ rows'[k].protocol = Job.protocol
               /\ Coherent(rows'[k].result, TreatmentAt(k), CaseAt(k).input)
               /\ rows'[k].score.utility =
                    ScoreUtility(Job.protocol, CaseAt(k).input, CaseAt(k).oracle,
                                 rows'[k].result, TreatmentAt(k))
    <3>1. CASE k \in DOMAIN rows
      BY <2>1, <3>1 DEF Scored
    <3>2. CASE k = Here
      BY <1>1, <1>3, <2>1, <3>2, CaseIsOfTheCorpus DEF Scored
    <3>3. QED
      BY <2>1, <3>1, <3>2
  <2>4. QED
    BY <1>1, <2>2, <2>3 DEF Scored
<1>4. ASSUME NEW shown
      PROVE  /\ NewRow(shown).protocol = Job.protocol
             /\ NewRow(shown).result = execution.result
             /\ NewRow(shown).score.utility =
                  ScoreUtility(Job.protocol, CaseAt(Here).input, CaseAt(Here).oracle,
                               execution.result, TreatmentAt(Here))
  BY DEF NewRow, ScoreCase
<1>5. QED
  BY <1>2, <1>3, <1>4, RowIsNew

LEMMA ScoredStep == Base /\ Checked /\ Honest /\ Scored /\ [Next]_vars => Scored'
<1> SUFFICES ASSUME Base, Checked, Honest, Scored, [Next]_vars PROVE Scored'
  OBVIOUS
<1>1. CASE Begin
  <2>1. /\ pc = "starting" /\ UNCHANGED <<session, turn, rows>> /\ Job' = Job
        /\ pc' \in {"running", "refused"} /\ rows = <<>>
        /\ cases' = cases \/ (LoadCorpus(Job.files) # Absent /\ cases' = LoadCorpus(Job.files))
    BY <1>1 DEF Begin, Job, Checked
  <2>2. Job.files \in Seq(Elements(Job.files))
    BY SessionAssumption DEF Base, TypeOK, Job
  <2>3. \A i \in DOMAIN cases' : \E file \in Elements(Job.files) :
          file.readable /\ cases'[i] = [input |-> file.input, oracle |-> file.oracle]
    BY <2>1, <2>2, LoadedFromFiles DEF Scored
  <2>4. QED
    BY <2>1, <2>3, EmptyIsSeq DEF Scored
<1>2. CASE Execute
  <2>1. UNCHANGED <<session, turn, cases, rows>>
    BY <1>2 DEF Execute
  <2>2. Coherent(execution'.result, TreatmentAt(Here), CaseAt(Here).input)
    BY <1>2, Decided
  <2>3. QED
    BY <2>1, <2>2 DEF Scored, CaseAt, TreatmentAt, Here, Job
<1>3. CASE Settle
  <2>1. /\ pc = "decided" /\ UNCHANGED <<session, turn, cases, rows>>
        /\ \E c, f : Audited(c, f)
    BY <1>3 DEF Settle, SkipBlocked, RefuseClass, Answer, Raise, GiveUp, Sendable, Pending
  <2>2. execution'.result = execution.result
    BY <2>1 DEF Honest, Attributed, Audited
  <2>3. QED
    BY <2>1, <2>2, ScoredStands
<1>4. CASE Collect
  BY <1>4, ScoredRow
<1>5. CASE Compare
  BY <1>5, ScoredStands DEF Compare
<1>6. CASE WriteArtifact
  <2>1. UNCHANGED <<session, turn, memory>> /\ pc' \in Stages \cup {"exists", "mixed", "done"}
    BY <1>6, WritingKeepsMemory DEF Base, TypeOK
  <2>2. QED
    BY <2>1, ScoredStands DEF memory, Stages
<1>7. ASSUME NEW n \in late, WorkerFinishes(n) PROVE Scored'
  BY <1>7, ScoredStands DEF WorkerFinishes
<1>8. CASE NextInvocation
  BY <1>8, EmptyIsSeq DEF NextInvocation, Scored
<1>9. CASE Crash
  BY <1>9, EmptyIsSeq DEF Crash, Scored
<1>10. CASE UNCHANGED vars
  BY <1>10, ScoredStands DEF vars, memory
<1>11. QED
  BY <1>1, <1>2, <1>3, <1>4, <1>5, <1>6, <1>7, <1>8, <1>9, <1>10 DEF Next, Progress

(* What SpanOutcome finds sufficient of a band under v4 and v5: it is a    *)
(* band the annotated amount is in, and decides every reference.           *)
LEMMA Sufficient ==
  ASSUME NEW p \in {"v4", "v5"}, NEW input, NEW oracle, NEW result, NEW span, NEW t,
         span.category \in BandCategories, t.action = "generalize",
         SpanOutcome(p, input, oracle, result, span, t) \notin {"not_answerable", "indeterminate"}
  PROVE  /\ span.value.kind = "amount" /\ InBand(span.value.points, t.transformed)
         /\ \A r \in ReferencesOf(oracle, span.category) :
              ReferenceIsDecidable(r.operator, r.points, t.transformed)
<1> DEFINE references == ReferencesOf(oracle, span.category)
           read == IF p = "v4" THEN ParseStrictOriginalAmount(span.value)
                   ELSE ParseOriginalAmountV5(span.value)
           band == CheckBandFidelity(read, t.transformed)
<1>1. SpanOutcome(p, input, oracle, result, span, t)
        = IF band = Absent THEN "not_answerable"
          ELSE ClassifyStructuredSufficiency(band, references)
  <2>1. SpanOutcome(p, input, oracle, result, span, t)
          = GeneralizedOutcome(p, input, oracle, span.category, span.value, t.transformed)
    BY DEF SpanOutcome
  <2>2. span.category \notin DOMAIN DateUtilityRequiredGranularity
    BY DEF BandCategories, DateUtilityRequiredGranularity
  <2>3. QED
    BY <2>1, <2>2 DEF GeneralizedOutcome, ClassifyAgainstReferences,
       ClassifyAgainstReferencesV5, CheckBandFidelityV5
<1>2. band # Absent /\ \A r \in references : ReferenceIsDecidable(r.operator, r.points, band)
  BY <1>1 DEF ClassifyStructuredSufficiency
<1>3. band = t.transformed /\ read # Absent /\ InBand(read, t.transformed)
  BY <1>2 DEF CheckBandFidelity, ParseBand
<1>4. span.value.kind = "amount" /\ read = span.value.points
  BY <1>3 DEF ParseStrictOriginalAmount, ParseOriginalAmountV5
<1>5. QED
  BY <1>2, <1>3, <1>4

(* Where a category is answerable each of its annotated spans was matched  *)
(* with a transformation of the category that suffices for it.             *)
LEMMA EachSpanSuffices ==
  ASSUME NEW p, NEW input, NEW oracle, NEW result, NEW treatment, treatment # "b0",
         NEW category \in DOMAIN ScoreUtility(p, input, oracle, result, treatment).byCategory,
         ScoreUtility(p, input, oracle, result, treatment).byCategory[category] = "answerable",
         NEW i \in DOMAIN oracle.spans, oracle.spans[i].category = category
  PROVE  \E j \in DOMAIN result.transformations :
           /\ result.transformations[j].category = category
           /\ SpanOutcome(p, input, oracle, result, oracle.spans[i], result.transformations[j])
                \notin {"not_answerable", "indeterminate"}
<1> DEFINE matched == ResolveSpanTransformations(oracle, result, treatment)
           entries == {h \in DOMAIN oracle.spans : oracle.spans[h].category = category}
           outcome(h) == SpanOutcome(p, input, oracle, result, oracle.spans[h], matched[h])
<1>1. CategoryOutcome(p, input, oracle, result, treatment, category) = "answerable"
  BY DEF ScoreUtility
<1>2. /\ result.status # "blocked" /\ matched[i] # Absent
      /\ Worst({outcome(h) : h \in entries}) = "answerable"
  BY <1>1 DEF CategoryOutcome
<1>3. outcome(i) \notin {"not_answerable", "indeterminate"}
  <2> HIDE DEF outcome
  <2>1. outcome(i) \in {outcome(h) : h \in entries}
    OBVIOUS
  <2>2. QED
    BY <1>2, <2>1 DEF Worst
<1> DEFINE found(h) == IF result.status = "blocked" \/ treatment = "b0" THEN Absent
                       ELSE InPool(result, oracle.spans[h].category, Rank(oracle.spans, h))
<1>4. matched[i] = InPool(result, category, Rank(oracle.spans, i))
  <2>1. matched = [h \in DOMAIN oracle.spans |-> found(h)]
    BY DEF ResolveSpanTransformations
  <2>2. found(i) = InPool(result, category, Rank(oracle.spans, i))
    BY <1>2
  <2> HIDE DEF found, matched
  <2>3. QED
    BY <2>1, <2>2
<1>5. PICK j \in DOMAIN result.transformations :
        result.transformations[j].category = category /\ matched[i] = result.transformations[j]
  BY <1>2, <1>4 DEF InPool
<1>6. QED
  BY <1>3, <1>5

(* A case's annotated values and references are of the types of its file.  *)
LEMMA CorpusIsTyped ==
  ASSUME Base, Scored, NEW k \in DOMAIN rows
  PROVE  LET case == CaseAt(k)
         IN  /\ \A v \in case.input.tokens : v.value.kind = "amount" => v.value.points \in Nat
             /\ \A s \in Elements(case.oracle.spans) :
                  s.value.kind = "amount" => s.value.points \in Nat
             /\ \A r \in Elements(case.oracle.references) :
                  r.operator \in {"gt", "ge", "lt", "le"} /\ r.points \in Nat
<1>1. PICK i \in DOMAIN cases : CaseAt(k) = cases[i]
  BY DEF Scored
<1>2. PICK file \in Elements(Job.files) :
        file.readable /\ cases[i] = [input |-> file.input, oracle |-> file.oracle]
  BY DEF Scored
<1>3. IsTyped(file)
  BY <1>2, CorpusAssumption DEF Base, TypeOK, Job
<1>4. CaseAt(k).input = file.input /\ CaseAt(k).oracle = file.oracle
  BY <1>1, <1>2
<1>5. QED
  BY <1>3, <1>4 DEF IsTyped

(* What is generalized of a band category is an amount's own band.         *)
LEMMA GeneralizedAmount ==
  ASSUME NEW category \in BandCategories, NEW value, Generalize(category, value) # Absent
  PROVE  /\ value.kind = "amount"
         /\ Generalize(category, value) = NumericBand(category, value.points)
<1>1. ParseAmount(value) # Absent /\ Generalize(category, value) = NumericBand(category, ParseAmount(value))
  BY DEF Generalize
<1>2. QED
  BY <1>1 DEF ParseAmount

LEMMA ScoredIsDecided ==
  ASSUME Base, Honest, Scored
  PROVE  AnswerableIsDecided
<1> SUFFICES ASSUME NEW k \in DOMAIN rows, rows[k].protocol \in {"v4", "v5"},
                    NEW s \in Elements(CaseAt(k).oracle.spans),
                    NEW t \in Elements(rows[k].result.transformations),
                    s.category \in DOMAIN rows[k].score.utility.byCategory,
                    s.category = t.category, s.value = t.original, t.action = "generalize",
                    s.category \in BandCategories,
                    rows[k].score.utility.byCategory[s.category] = "answerable",
                    NEW r \in ReferencesOf(CaseAt(k).oracle, s.category)
             PROVE  AnswersAlike(t.transformed, s.value.points, r)
  BY DEF AnswerableIsDecided
<1> DEFINE case == CaseAt(k)
           result == rows[k].result
           p == rows[k].protocol
<1>1. PICK i \in DOMAIN case.oracle.spans : s = case.oracle.spans[i]
  BY DEF Elements
<1>2. PICK h \in DOMAIN result.transformations : t = result.transformations[h]
  BY DEF Elements
<1>3. /\ Coherent(result, TreatmentAt(k), case.input)
      /\ rows[k].score.utility =
           ScoreUtility(p, case.input, case.oracle, result, TreatmentAt(k))
  BY DEF Scored
<1>4. TreatmentAt(k) # "b0"
  BY <1>2, <1>3 DEF Coherent
<1>5. PICK j \in DOMAIN result.transformations :
        /\ result.transformations[j].category = s.category
        /\ SpanOutcome(p, case.input, case.oracle, result, s, result.transformations[j])
             \notin {"not_answerable", "indeterminate"}
  BY <1>1, <1>3, <1>4, EachSpanSuffices
<1> DEFINE m == result.transformations[j]
<1>6. /\ m.action = "generalize"
      /\ t.transformed = Generalize(s.category, s.value) /\ t.transformed # Absent
      /\ m.transformed = Generalize(s.category, m.original) /\ m.transformed # Absent
      /\ \E v \in case.input.tokens : m.original = v.value
  BY <1>2, <1>3, <1>5 DEF Coherent
<1>7. /\ s.value.kind = "amount" /\ InBand(s.value.points, m.transformed)
      /\ \A q \in ReferencesOf(case.oracle, s.category) :
           ReferenceIsDecidable(q.operator, q.points, m.transformed)
  BY <1>5, <1>6, Sufficient
<1>8. /\ s.value.points \in Nat
      /\ r.operator \in {"gt", "ge", "lt", "le"} /\ r.points \in Nat
      /\ \A v \in case.input.tokens : v.value.kind = "amount" => v.value.points \in Nat
  <2>1. r \in Elements(case.oracle.references)
    BY DEF ReferencesOf, Elements
  <2>2. QED
    BY <1>7, <2>1, CorpusIsTyped
<1>9. /\ t.transformed = NumericBand(s.category, s.value.points)
      /\ m.transformed = NumericBand(s.category, m.original.points)
      /\ m.original.kind = "amount"
  BY <1>6, GeneralizedAmount
<1>10. m.original.points \in Nat
  BY <1>6, <1>8, <1>9
<1>11. m.transformed = t.transformed
  BY <1>7, <1>8, <1>9, <1>10, OneBand
<1>12. ReferenceIsDecidable(r.operator, r.points, NumericBand(s.category, s.value.points))
  BY <1>7, <1>9, <1>11
<1>13. QED
  BY <1>8, <1>9, <1>12, DecidedAlike

(* Whatever the corpus, and whichever spans the rules find or miss: where  *)
(* a row says that its amounts still answer the question, the bands that   *)
(* were sent for the annotated values answer it as the values do, though   *)
(* scoring matches spans and transformations by their order alone.         *)
THEOREM AnswersAreTrue == Spec => []AnswerableIsDecided
<1>1. Init => Checked /\ Honest /\ Scored
  BY EmptyIsSeq DEF Init, Checked, Honest, Attributed, RowsTellTheirOwnCase, Scored
<1>2. QED
  BY BaseInit, BaseStep, CheckedStep, HonestStep, ScoredStep, ScoredIsDecided, <1>1, PTL DEF Spec

-----------------------------------------------------------------------------
(* Whose files a run directory holds.                                      *)

Required == {"results", "summary_by_treatment", "summary_pairwise"}

(* What a run directory with a manifest says of its other files.           *)
OfOneRun(files) ==
    "manifest" \in DOMAIN files =>
      /\ Required \subseteq DOMAIN files
      /\ \A n \in DOMAIN files : files[n].by = files["manifest"].by

BundleIsOfOneRun == \A id \in RunId : disk[id] = Absent \/ OfOneRun(disk[id])

(* The files that are there before each step of writing.                   *)
WrittenBefore(stage) ==
    (IF stage \notin {"mkdir", "results"} THEN {"results"} ELSE {})
    \cup (IF stage \in {"pairwise", "b3_to_b4", "contextual", "manifest"}
          THEN {"summary_by_treatment"} ELSE {})
    \cup (IF stage \in {"b3_to_b4", "contextual", "manifest"} THEN {"summary_pairwise"} ELSE {})

(* A run that is writing made its directory itself.                        *)
Writing ==
    pc \in Stages \ {"mkdir"} =>
      /\ "manifest" \notin DOMAIN disk[Job.id]
      /\ WrittenBefore(pc) \subseteq DOMAIN disk[Job.id]
      /\ \A n \in DOMAIN disk[Job.id] : disk[Job.id][n].by = turn

Owned == BundleIsOfOneRun /\ Writing

(* A file that is written joins those of the directory.                    *)
LEMMA Written ==
  ASSUME Base, NEW name, NEW content, Write(name, content)
  PROVE  /\ DOMAIN disk'[Job.id] = DOMAIN disk[Job.id] \cup {name}
         /\ disk'[Job.id][name].by = turn /\ disk'[Job.id][name].is = content
         /\ \A n \in DOMAIN disk[Job.id] : n # name => disk'[Job.id][n] = disk[Job.id][n]
         /\ \A id \in RunId : id # Job.id => disk'[id] = disk[id]
<1> DEFINE files == disk[Job.id]
           grown == [n \in DOMAIN files \cup {name} |->
                       IF n = name THEN [by |-> turn, is |-> content] ELSE files[n]]
<1>1. Job.id \in RunId /\ DOMAIN disk = RunId
  BY TheJob DEF Base, TypeOK
<1>2. disk' = [disk EXCEPT ![Job.id] = grown]
  BY DEF Write
<1> HIDE DEF grown
<1>3. disk'[Job.id] = grown /\ \A id \in RunId : id # Job.id => disk'[id] = disk[id]
  BY <1>1, <1>2
<1>4. /\ DOMAIN grown = DOMAIN files \cup {name} /\ grown[name].by = turn /\ grown[name].is = content
      /\ \A n \in DOMAIN files : n # name => grown[n] = files[n]
  BY DEF grown
<1>5. QED
  BY <1>3, <1>4

LEMMA WritingStep ==
  ASSUME Base, Owned, WriteArtifact
  PROVE  Owned'
<1>1. /\ UNCHANGED <<session, turn>> /\ Job' = Job /\ Job.id \in RunId
      /\ pc \in Stages /\ DOMAIN disk = RunId
  BY WritingKeepsMemory, TheJob DEF Base, TypeOK, Job
<1> DEFINE files == disk[Job.id]
<1>2. ASSUME pc # "mkdir", NEW name, NEW content, Write(name, content), name # "manifest",
             pc' \in Stages \ {"mkdir"}, WrittenBefore(pc') \subseteq WrittenBefore(pc) \cup {name}
      PROVE  Owned'
  <2>1. /\ DOMAIN disk'[Job.id] = DOMAIN files \cup {name}
        /\ disk'[Job.id][name].by = turn
        /\ \A n \in DOMAIN files : n # name => disk'[Job.id][n] = files[n]
        /\ \A id \in RunId : id # Job.id => disk'[id] = disk[id]
    BY <1>2, Written
  <2>2. /\ "manifest" \notin DOMAIN files /\ WrittenBefore(pc) \subseteq DOMAIN files
        /\ \A n \in DOMAIN files : files[n].by = turn
    BY <1>1, <1>2 DEF Owned, Writing
  <2>3. BundleIsOfOneRun'
    BY <1>2, <2>1, <2>2 DEF Owned, BundleIsOfOneRun, OfOneRun
  <2>4. Writing'
    BY <1>1, <1>2, <2>1, <2>2 DEF Writing
  <2>5. QED
    BY <2>3, <2>4 DEF Owned
<1>3. ASSUME pc # "mkdir", disk' = disk, pc' \in Stages \ {"mkdir"},
             WrittenBefore(pc') \subseteq WrittenBefore(pc)
      PROVE  Owned'
  BY <1>1, <1>3 DEF Owned, BundleIsOfOneRun, OfOneRun, Writing, Stages
<1>4. CASE MakeDir
  <2>1. CASE disk[Job.id] # Absent
    BY <1>4, <2>1 DEF MakeDir, Owned, BundleIsOfOneRun, OfOneRun, Writing, Stages
  <2>2. CASE disk[Job.id] = Absent
    <3>1. /\ pc' = "results" /\ disk'[Job.id] = <<>>
          /\ \A id \in RunId : id # Job.id => disk'[id] = disk[id]
      BY <1>1, <1>4, <2>2 DEF MakeDir
    <3>2. QED
      BY <1>1, <3>1, EmptyIsSeq
      DEF Owned, BundleIsOfOneRun, OfOneRun, Writing, WrittenBefore
  <2>3. QED
    BY <2>1, <2>2
<1>5. CASE OpenResults
  <2>1. CASE pc' = "mixed" /\ disk' = disk
    BY <1>1, <2>1 DEF Owned, BundleIsOfOneRun, OfOneRun, Writing, Stages
  <2>2. CASE pc' = "lines" /\ Write("results", <<>>)
    BY <1>2, <1>5, <2>2 DEF OpenResults, WrittenBefore, Stages
  <2>3. QED
    BY <1>5, <2>1, <2>2 DEF OpenResults
<1>6. CASE WriteLine
  <2>1. pc = "lines" /\ pc' = pc /\ \E content : Write("results", content)
    BY <1>6 DEF WriteLine
  <2>2. QED
    BY <1>2, <2>1 DEF WrittenBefore, Stages
<1>7. CASE WriteSummaries
  <2>1. /\ pc = "lines" /\ pc' = "pairwise"
        /\ \E content : Write("summary_by_treatment", content)
    BY <1>7 DEF WriteSummaries
  <2>2. QED
    BY <1>2, <2>1 DEF WrittenBefore, Stages
<1>8. CASE WritePairwise
  <2>1. /\ pc = "pairwise" /\ pc' = "b3_to_b4"
        /\ \E content : Write("summary_pairwise", content)
    BY <1>8 DEF WritePairwise, Goes
  <2>2. QED
    BY <1>2, <2>1 DEF WrittenBefore, Stages
<1>9. CASE WriteB3ToB4
  <2>1. /\ pc = "b3_to_b4" /\ pc' = "contextual"
        /\ disk' = disk \/ \E content : Write("summary_b3_to_b4", content)
    BY <1>9 DEF WriteB3ToB4, Goes
  <2>2. WrittenBefore(pc') = WrittenBefore(pc)
    BY <2>1 DEF WrittenBefore
  <2>3. CASE disk' = disk
    BY <1>3, <2>1, <2>2, <2>3 DEF Stages
  <2>4. CASE \E content : Write("summary_b3_to_b4", content)
    BY <1>2, <2>1, <2>2, <2>4 DEF Stages
  <2>5. QED
    BY <2>1, <2>3, <2>4
<1>10. CASE WriteContextual
  <2>1. /\ pc = "contextual" /\ pc' = "manifest"
        /\ disk' = disk \/ \E content : Write("contextual_matrix", content)
    BY <1>10 DEF WriteContextual, Goes
  <2>2. WrittenBefore(pc') = WrittenBefore(pc)
    BY <2>1 DEF WrittenBefore
  <2>3. CASE disk' = disk
    BY <1>3, <2>1, <2>2, <2>3 DEF Stages
  <2>4. CASE \E content : Write("contextual_matrix", content)
    BY <1>2, <2>1, <2>2, <2>4 DEF Stages
  <2>5. QED
    BY <2>1, <2>3, <2>4
<1>11. CASE WriteManifest
  <2>1. /\ pc = "manifest" /\ pc' = "done"
        /\ \E content : Write("manifest", content)
    BY <1>11 DEF WriteManifest, Goes
  <2>2. /\ DOMAIN disk'[Job.id] = DOMAIN files \cup {"manifest"}
        /\ disk'[Job.id]["manifest"].by = turn
        /\ \A n \in DOMAIN files : n # "manifest" => disk'[Job.id][n] = files[n]
        /\ \A id \in RunId : id # Job.id => disk'[id] = disk[id]
    BY <2>1, Written
  <2>3. Required \subseteq DOMAIN files /\ \A n \in DOMAIN files : files[n].by = turn
    BY <2>1 DEF Owned, Writing, WrittenBefore, Required, Stages
  <2>4. BundleIsOfOneRun'
    BY <2>2, <2>3 DEF Owned, BundleIsOfOneRun, OfOneRun
  <2>5. QED
    BY <2>1, <2>4 DEF Owned, Writing, Stages
<1>12. QED
  BY <1>4, <1>5, <1>6, <1>7, <1>8, <1>9, <1>10, <1>11 DEF WriteArtifact

LEMMA OwnedStep == Base /\ Owned /\ [Next]_vars => Owned'
<1> SUFFICES ASSUME Base, Owned, [Next]_vars PROVE Owned'
  OBVIOUS
<1>1. CASE WriteArtifact
  BY <1>1, WritingStep
<1>2. CASE UNCHANGED <<session, turn, pc, disk>>
  BY <1>2 DEF Owned, BundleIsOfOneRun, OfOneRun, Writing, Job
<1>3. CASE disk' = disk /\ pc' \notin Stages \ {"mkdir"}
  BY <1>3 DEF Owned, BundleIsOfOneRun, OfOneRun, Writing
<1>4. CASE Begin \/ Execute \/ Settle \/ Collect \/ Compare
  BY <1>3, <1>4 DEF Begin, Execute, Settle, SkipBlocked, RefuseClass, Answer, Raise, GiveUp,
                    Audited, Collect, Compare, Stages
<1>5. CASE \E n \in late : WorkerFinishes(n)
  BY <1>2, <1>5 DEF WorkerFinishes
<1>6. CASE NextInvocation \/ Crash
  BY <1>3, <1>6 DEF NextInvocation, Crash, Stages
<1>7. CASE UNCHANGED vars
  BY <1>2, <1>7 DEF vars, memory
<1>8. QED
  BY <1>1, <1>4, <1>5, <1>6, <1>7 DEF Next, Progress

(* Wherever processes crash and whatever ids they share, a run directory   *)
(* with a manifest holds the required artifacts, all of one invocation     *)
(* (artifacts.py, write_pilot_artifacts).                                  *)
THEOREM BundlesAreNotMixed == Spec => []BundleIsOfOneRun
<1>1. Init => Owned
  BY DEF Init, Owned, BundleIsOfOneRun, Writing, Stages
<1>2. Owned => BundleIsOfOneRun
  BY DEF Owned
<1>3. QED
  BY BaseInit, BaseStep, OwnedStep, <1>1, <1>2, PTL DEF Spec
=============================================================================
