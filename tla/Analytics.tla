------------------------------ MODULE Analytics ------------------------------
(***************************************************************************)
(* What is computed from the graded papers of an assessment version: item  *)
(* analysis, score distribution, outcome mastery, override statistics and  *)
(* the class results.  Pure operators.                                     *)
(*                                                                         *)
(* A submission is [graded, student, paper, auditRead, events]: whether    *)
(* its effective paper can be read, that paper, whether its audit events   *)
(* can be read, and these.  A paper is [questions, total, score], a        *)
(* question [no, awarded, max, flags]; a score counts tenths of a percent. *)
(* A fraction is a pair <<numerator, denominator>>, 0 if it has none.      *)
(***************************************************************************)
EXTENDS Integers, SequencesExt

Less(a, b)   == a[1] * b[2] < b[1] * a[2]
Fraction(n, d) == IF d = 0 THEN <<0, 1>> ELSE <<n, d>>
SumOver(f(_), s)    == FoldSeq(LAMBDA x, acc : f(x) + acc, 0, s)
SortedBy(S, less(_, _)) == SetToSortSeq(S, less)
FirstOf(s, n) == IF n <= 0 \/ n > Len(s) THEN s ELSE SubSeq(s, 1, n)

---------------------------------------------------------------------------
(***************************************************************************)
(* Item analysis.                                                          *)
(***************************************************************************)
\* All answers to questions, in the order of the papers.
Responses(papers) ==
  FlattenSeq([i \in DOMAIN papers |->
    [j \in DOMAIN papers[i].questions |->
      [no |-> papers[i].questions[j].no, awarded |-> papers[i].questions[j].awarded,
       max |-> papers[i].questions[j].max, total |-> papers[i].total]]])

QuestionNos(papers) == {r.no : r \in Range(Responses(papers))}

Awarded(rs) == [k \in DOMAIN rs |-> rs[k].awarded]
Maxima(rs)  == [k \in DOMAIN rs |-> rs[k].max]
Totals(rs)  == [k \in DOMAIN rs |-> rs[k].total]

\* The sum of f over some positions.
SumAt(f, at) == SumFunction([k \in at |-> f[k]])

\* The square of Pearson's coefficient and its sign: n^2 times the covariance
\* and the variances.  0 for less than two answers or no variance.
pearson(x, y, at) ==
  LET n    == Cardinality(at)
      X    == SumAt(x, at)
      Y    == SumAt(y, at)
      dot(f, g) == SumFunction([k \in at |-> f[k] * g[k]])
      cov  == n * dot(x, y) - X * Y
      varX == n * dot(x, x) - X * X
      varY == n * dot(y, y) - Y * Y
  IN  IF n < 2 \/ varX * varY = 0 THEN [sign |-> 0, square |-> <<0, 1>>]
      ELSE [sign |-> IF cov < 0 THEN -1 ELSE IF cov = 0 THEN 0 ELSE 1,
            square |-> <<cov * cov, varX * varY>>]

\* The maximum of a question is the one its first paper gives it.  The shares
\* of full and zero marks are kept as counts.
ItemStat(q, rs) ==
  LET at  == {k \in DOMAIN rs : rs[k].no = q}
      max == rs[Min(at)].max
      n   == Cardinality(at)
  IN  [no |-> q, responses |-> n, max |-> max,
       difficulty |-> Fraction(SumAt(Awarded(rs), at), n * max),
       full |-> IF max = 0 THEN 0 ELSE Cardinality({k \in at : rs[k].awarded = max}),
       zero |-> IF max = 0 THEN 0 ELSE Cardinality({k \in at : rs[k].awarded = 0}),
       discrimination |-> pearson(Awarded(rs), Totals(rs), at)]

ItemAnalysis(papers) == {ItemStat(q, Responses(papers)) : q \in QuestionNos(papers)}

HardestQuestions(stats, n) ==
  FirstOf(SortedBy(stats, LAMBDA a, b : \/ Less(a.difficulty, b.difficulty)
                                        \/ ~Less(b.difficulty, a.difficulty) /\ a.no < b.no), n)

FlagFrequencies(papers) ==
  LET flags == FlattenSeq([i \in DOMAIN papers |->
                 FlattenSeq([j \in DOMAIN papers[i].questions |-> papers[i].questions[j].flags])])
  IN  [f \in Range(flags) |-> Cardinality({k \in DOMAIN flags : flags[k] = f})]

---------------------------------------------------------------------------
(***************************************************************************)
(* The distribution of scores, in ten buckets.                             *)
(***************************************************************************)
bucketIndex(score) ==
  IF score >= 1000 THEN 9 ELSE IF score < 0 THEN 0 ELSE Min({score \div 100, 9})

\* Mean and median are fractions; the standard deviation is left out.
GradeDistribution(papers) ==
  LET n      == Len(papers)
      scores == [i \in DOMAIN papers |-> papers[i].score]
      sorted == SortSeq(scores, <)
  IN  [count   |-> n,
       buckets |-> [k \in 0..9 |-> Cardinality({i \in 1..n : bucketIndex(scores[i]) = k})],
       min     |-> IF n = 0 THEN 0 ELSE sorted[1],
       max     |-> IF n = 0 THEN 0 ELSE sorted[n],
       mean    |-> Fraction(SumOver(LAMBDA s : s, scores), n),
       median  |-> IF n = 0 THEN <<0, 1>>
                   ELSE IF n % 2 = 1 THEN <<sorted[n \div 2 + 1], 1>>
                   ELSE <<sorted[n \div 2] + sorted[n \div 2 + 1], 2>>]

---------------------------------------------------------------------------
(***************************************************************************)
(* Outcome mastery.  An outcome is known by the rank of its code, which is *)
(* unique in a tenant; mapping gives each question its outcomes.           *)
(***************************************************************************)
masteryLabel(pct) ==
  IF ~Less(pct, <<3, 4>>) THEN "secure"
  ELSE IF ~Less(pct, <<1, 2>>) THEN "developing" ELSE "emerging"

OutcomesOf(mapping) == UNION {mapping[q] : q \in DOMAIN mapping}

\* The answers to the questions of outcome o.
AnswersTo(o, rs, mapping) ==
  {k \in DOMAIN rs : \E q \in DOMAIN mapping : o \in mapping[q] /\ rs[k].no = q}

\* Mastery of an outcome by the answers at some positions.
Mastery(o, rs, mapping, at) ==
  LET pct == Fraction(SumAt(Awarded(rs), at), SumAt(Maxima(rs), at))
  IN  [outcome |-> o, mapped |-> Cardinality({q \in DOMAIN mapping : o \in mapping[q]}),
       responses |-> Cardinality(at), pct |-> pct, mastery |-> masteryLabel(pct)]

\* Mutant: only answers with marks count.
AttemptedOnly(papers, mapping) ==
  IF papers = <<>> \/ DOMAIN mapping = {} THEN {}
  ELSE { LET rs == Responses(papers)
         IN  Mastery(o, rs, mapping, {k \in AnswersTo(o, rs, mapping) : rs[k].awarded > 0})
           : o \in OutcomesOf(mapping) }

OutcomeMastery(papers, mapping) ==
  IF papers = <<>> \/ DOMAIN mapping = {} THEN {}
  ELSE { LET rs == Responses(papers)
         IN  Mastery(o, rs, mapping, AnswersTo(o, rs, mapping)) : o \in OutcomesOf(mapping) }

Weaker(a, b) == \/ Less(a.pct, b.pct)
                \/ ~Less(b.pct, a.pct) /\ a.outcome < b.outcome

LearningGaps(stats, n) == FirstOf(SortedBy({s \in stats : s.responses > 0}, Weaker), n)

---------------------------------------------------------------------------
(***************************************************************************)
(* The handlers, over the submissions of the assessment version.           *)
(***************************************************************************)
\* A submission whose paper cannot be read, for whatever reason, is skipped.
Graded(subs) ==
  FlattenSeq([i \in DOMAIN subs |-> IF subs[i].graded THEN <<subs[i]>> ELSE <<>>])

GradedPapers(subs) == [i \in DOMAIN Graded(subs) |-> Graded(subs)[i].paper]

GetAnalytics(subs) ==
  LET papers == GradedPapers(subs)
      stats  == ItemAnalysis(papers)
  IN  [items |-> stats, distribution |-> GradeDistribution(papers),
       hardest |-> HardestQuestions(stats, 5), flags |-> FlagFrequencies(papers),
       gradedCount |-> Len(papers), totalCount |-> Len(subs)]

GetOutcomeMastery(subs, mapping) ==
  LET papers == GradedPapers(subs)
      stats  == OutcomeMastery(papers, mapping)
  IN  [outcomes |-> stats, gaps |-> LearningGaps(stats, 5), gradedCount |-> Len(papers)]

\* An override event gives its old and new marks; an event of another action, or
\* without them, does not count.
Overrides(s) ==
  IF s.auditRead THEN SelectSeq(s.events, LAMBDA e : e.action = "override_question"
                                                     /\ e.old # {} /\ e.new # {})
  ELSE <<>>

GetOverrideStats(subs) ==
  LET graded == Graded(subs)
      sizes  == [i \in DOMAIN graded |-> Len(graded[i].paper.questions)]
      evs    == FlattenSeq([i \in DOMAIN graded |-> Overrides(graded[i])])
      delta(e) == LET d == Max(e.new) - Max(e.old) IN IF d < 0 THEN -d ELSE d
  IN  [totalGradedQuestions |-> SumFunction(sizes),
       overriddenQuestions  |-> Len(evs),
       meanAbsDelta |-> Fraction(SumOver(delta, evs), Len(evs))]

\* The rows of some submissions; the student's name is empty if there is none.
Rows(graded) ==
  FlattenSeq([i \in DOMAIN graded |->
    [j \in DOMAIN graded[i].paper.questions |->
      [student |-> graded[i].student, no |-> graded[i].paper.questions[j].no,
       max |-> graded[i].paper.questions[j].max,
       awarded |-> graded[i].paper.questions[j].awarded]]])

\* Mutant: the first submission without a paper ends the list.
StopAtUngraded(subs) ==
  LET ungraded == {i \in DOMAIN subs : ~subs[i].graded}
  IN  Rows(IF ungraded = {} THEN subs ELSE SubSeq(subs, 1, Min(ungraded) - 1))

\* One row for each question of each graded submission.
ClassResultsCSV(subs) == Rows(Graded(subs))
=============================================================================
