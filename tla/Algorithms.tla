------------------------------ MODULE Algorithms ------------------------------
(***************************************************************************)
(* The system's pure algorithms on bounded inputs: a behaviour picks one   *)
(* input, runs the algorithm on it and stops.                              *)
(***************************************************************************)
EXTENDS Marking, Transcription, Analytics, Access, TLC

CONSTANT None

VARIABLES kind, input, result
vars == <<kind, input, result>>

---------------------------------------------------------------------------
(***************************************************************************)
(* Marking: one guide entry, an answer to it, and a second question that   *)
(* the guide does not know.                                                *)
(***************************************************************************)
MCWords == {"Ab", "ab", "'", "a-b", "7", "8", "N"}
MCLower == [w \in MCWords |-> IF w = "Ab" THEN "ab" ELSE w]
MCStripped == [w \in MCWords |->
  CASE w = "Ab" -> <<"ab">> [] w = "'" -> <<>> [] w = "a-b" -> <<"ab", "7">>
    [] OTHER -> <<w>>]
MCValue == [w \in MCWords |-> CASE w = "7" -> 7 [] w = "8" -> 8 [] OTHER -> NaN]

AnyLine == {<<>>} \cup {<<v>> : v \in MCWords} \cup {<<v, w>> : v \in {"ab", "7"}, w \in MCWords}
Answers == {<<l>> : l \in AnyLine} \cup {<<k, l>> : k \in {<<>>, <<"ab">>, <<"7">>}, l \in AnyLine}

Step(match, words, n, marks) ==
  [match |-> match, answer |-> words, accept |-> <<words>>, value |-> n,
   tol |-> 0, tolType |-> "abs", marks |-> marks]
SomeSteps == {Step("exact_ci", <<<<"Ab">>>>, NaN, 2), Step("numeric", <<>>, 7, 1),
              Step("set", <<<<"ab", "7">>>>, NaN, -1), Step("exact", <<<<"8">>>>, NaN, 1)}
StepLists == {<<a>> : a \in SomeSteps} \cup {<<a, b>> : a, b \in SomeSteps}

Plain == [max |-> 2, match |-> "exact", answer |-> <<>>, accept |-> <<>>,
          rubric |-> <<<<"ab">>>>, normalize |-> FALSE, value |-> 7, tol |-> 0,
          tolType |-> "abs", unit |-> <<>>, unitMarks |-> 0, steps |-> <<>>,
          criteria |-> <<>>]
Expected == {<<>>, <<<<"Ab">>>>, <<<<"'">>>>, <<<<"ab", "7">>>>}
Objective == [match : {"exact", "exact_ci", "set"}, answer : Expected,
              normalize : BOOLEAN, max : {0, 2}]
Numeric == [value : {0, 7}, tol : {0, 1, 15}, tolType : {"abs", "pct"},
            unit : {<<>>, <<"N">>}, unitMarks : {-1, 0, 1, 3}]
Criterion == [text : Expected, marks : {-1, 2}]
Entries ==
  {[Plain EXCEPT !.match = o.match, !.answer = o.answer, !.accept = <<o.answer, <<<<"8">>>>>>,
                 !.normalize = o.normalize, !.max = o.max] : o \in Objective}
  \cup {[Plain EXCEPT !.match = "numeric", !.value = n.value, !.tol = n.tol,
                      !.tolType = n.tolType, !.unit = n.unit,
                      !.unitMarks = n.unitMarks] : n \in Numeric}
  \cup {[Plain EXCEPT !.match = "multi_step", !.steps = l] : l \in StepLists}
  \cup {[Plain EXCEPT !.match = "partial",
          !.criteria = <<[accept |-> <<c.text>>, marks |-> c.marks],
                         [accept |-> <<<<<<"7">>>>>>, marks |-> 1]>>] : c \in Criterion}
  \cup {[Plain EXCEPT !.match = "rubric", !.max = m] : m \in {0, 2}}

Replies == {[kind |-> "failed", marks |-> 0], [kind |-> "marks", marks |-> -1],
            [kind |-> "marks", marks |-> 5]}

Guide(i) == [q \in {"1"} |-> i.entry]
MarkingInputs ==
  {i \in [entry : Entries, answer : Answers, paperMax : {0, 3}, reply : Replies] :
     ValidateGuide(Guide(i))}

Questions(i) ==
  <<[no |-> "1", section |-> "A", answer |-> i.answer, max |-> i.paperMax, lowRead |-> FALSE],
    [no |-> "2", section |-> "?", answer |-> <<<<"ab">>>>, max |-> 3, lowRead |-> TRUE]>>

RunMarking ==
  /\ kind = "marking"
  /\ result' = [paper   |-> GradePaper(Guide(input), Questions(input), <<input.reply, input.reply>>),
                preview |-> PreviewGuide(Guide(input), "1", input.answer)]

---------------------------------------------------------------------------
(***************************************************************************)
(* Transcription: one or two pages.  Each has the questions printed on it, *)
(* which a failed reply does not report.                                   *)
(***************************************************************************)
MCLabels == {"A", "B", "Section a", "?"}
MCCanonical == [l \in MCLabels |->
  CASE l = "Section a" -> {"A"} [] l = "?" -> {} [] OTHER -> {l}]

Q(no, section, max) == [no |-> no, section |-> section, max |-> max]
PrintedLists == {<<>>, <<Q(<<1>>, {}, 1), Q(<<1>>, {"B"}, 2), Q(<<1>>, {"?"}, 1)>>,
                 <<Q(<<1, 2>>, {}, 2), Q(<<1>>, {"Section a"}, 1)>>,
                 <<Q(<<>>, {}, 1), Q(<<2>>, {}, 1)>>}
AnswerLists == {[shape |-> "array", items |-> <<>>], [shape |-> "failed", items |-> <<>>],
                [shape |-> "wrapped",
                 items |-> <<[no |-> <<1>>, answer |-> "empty"], [no |-> <<1>>, answer |-> "text"],
                             [no |-> <<2>>, answer |-> "text"]>>]}
Maps == {[shape |-> "failed"]} \cup
  [shape : {"object"}, total : {{}, {3}, {5}}, sections : {<<>>, [l \in {"A"} |-> 3],
    [l \in {"A", "Section a", "?"} |-> IF l = "A" THEN 2 ELSE 3]}]
Pages == [ocr : BOOLEAN, header : {{}, {"A"}, {"B"}},
          questions : [shape : {"array", "object", "failed"}, items : PrintedLists],
          answers : AnswerLists]
LaterPages == {p \in Pages : p.ocr \/ (p.header = {} /\ p.questions.shape = "array")}
FirstPages == {p \in LaterPages : p.questions.shape # "object" /\ p.header # {"B"}}

WithMap(p, m) == [ocr |-> p.ocr, header |-> p.header, questions |-> p.questions,
                  answers |-> p.answers, map |-> m]
TranscriptionInputs ==
  {<<>>} \cup {<<WithMap(p, m), q>> : p \in FirstPages, m \in Maps, q \in LaterPages}

RunTranscription ==
  /\ kind = "transcription"
  /\ \E map \in extractMarkMap(input) :
       LET paper == TranscribeWithModels(input, map)
       IN  result' = [paper |-> paper, flags |-> computeFlags(paper), map |-> map]

---------------------------------------------------------------------------
(***************************************************************************)
(* Reports: up to two submissions of an assessment version, some of them   *)
(* graded, with the audit events of their overrides; the last event of a   *)
(* question gives the mark the paper has now.                              *)
(***************************************************************************)
Answered(no, awarded, max) ==
  [no |-> no, awarded |-> awarded, max |-> max,
   flags |-> IF awarded = 0 THEN <<"blank", "low">> ELSE <<"low">>]
Paper(questions) ==
  LET total == SumFunction([i \in DOMAIN questions |-> questions[i].awarded])
      max   == SumFunction([i \in DOMAIN questions |-> questions[i].max])
  IN  [questions |-> questions, total |-> total,
       score |-> IF max = 0 THEN 0 ELSE (2000 * total + max) \div (2 * max)]

GradedAs(paper, auditRead, events) ==
  [graded |-> TRUE, student |-> "Ada", paper |-> paper, auditRead |-> auditRead, events |-> events]
Event(old, new) == [action |-> "override_question", old |-> old, new |-> new]
EventLists(mark) ==
  {<<>>, <<Event({2}, {mark})>>, <<Event({2}, {0}), Event({0}, {mark})>>,
   <<[action |-> "approve", old |-> {}, new |-> {}], Event({mark}, {mark})>>}

SomePapers == {Paper(<<>>), Paper(<<Answered(2, 1, 0)>>)}
  \cup {Paper(<<Answered(1, a, 2)>>) : a \in 0..2}
  \cup {Paper(<<Answered(1, a, 4), Answered(2, b, 2)>>) : a \in {0, 1, 4}, b \in {0, 2}}
Ungraded ==
  [graded |-> FALSE, student |-> "", paper |-> Paper(<<>>), auditRead |-> TRUE, events |-> <<>>]
Audited(mark) ==
  {GradedAs(Paper(<<Answered(1, mark, 2)>>), read, evs) :
     read \in BOOLEAN, evs \in EventLists(mark)}
Subs == {Ungraded} \cup {GradedAs(p, TRUE, <<>>) : p \in SomePapers}
        \cup UNION {Audited(a) : a \in 0..2}
Mappings == {m \in [1..3 -> SUBSET {1, 2}] : m[3] \in {{}, {2}}}
            \cup {[q \in {1} |-> {1}], [q \in {} |-> {}]}
ReportInputs == [subs : SeqOf(Subs, 2), mapping : Mappings]

RunReports ==
  /\ kind = "reports"
  /\ result' = [analytics |-> GetAnalytics(input.subs),
                overrides |-> GetOverrideStats(input.subs),
                mastery   |-> GetOutcomeMastery(input.subs, input.mapping),
                rows      |-> ClassResultsCSV(input.subs)]

---------------------------------------------------------------------------
(***************************************************************************)
(* Requests: to a submission, a version or the tenant's own things.        *)
(***************************************************************************)
RequestInputs ==
  [roles : SeqOf(DOMAIN rolePermissions \cup {"guest"}, 2), tenant : Tenants, action : Actions,
   owner : {{}} \cup {{t} : t \in Tenants \ {NotAnId}},
   listing : {"some", "none", "failed"}, lookupFails : BOOLEAN, mode : {"saas", "on_prem"}]

Principal(i) == [roles |-> i.roles, tenant |-> i.tenant]
Answer(i) ==
  [submission |-> fetchAndAuthorize(Principal(i), i.owner, i.action, i.mode),
   version    |-> resolveAVID(Principal(i), i.owner, i.listing, i.lookupFails, i.mode),
   guide      |-> guideAuthz(Principal(i), i.mode),
   webhook    |-> webhookAuthz(Principal(i), i.mode),
   provider   |-> aiProviderAuthz(Principal(i), i.mode),
   session    |-> resolveModPrincipal(Principal(i), i.mode)]

RunRequest == kind = "request" /\ result' = Answer(input)

---------------------------------------------------------------------------
Init ==
  /\ result = None
  /\ \/ kind = "marking" /\ input \in MarkingInputs
     \/ kind = "transcription" /\ input \in TranscriptionInputs
     \/ kind = "reports" /\ input \in ReportInputs
     \/ kind = "request" /\ input \in RequestInputs

Next ==
  /\ result = None
  /\ RunMarking \/ RunTranscription \/ RunReports \/ RunRequest
  /\ UNCHANGED <<kind, input>>

Spec == Init /\ [][Next]_vars

Done(k) == kind = k /\ result # None

Award(entry, text) == GradeByGuide([q \in {"1"} |-> entry],
  [no |-> "1", section |-> "A", answer |-> text, max |-> 3, lowRead |-> FALSE],
  [kind |-> "failed", marks |-> 0]).awarded

\* Whatever the guide says and the provider answers (negative step, criterion
\* or unit marks, a reply out of range): every mark is within its question's
\* maximum, the sections add up to the total, and the score is 0 to 100 %.
TotalsAddUp ==
  Done("marking") =>
    LET p == result.paper
    IN  /\ \A i \in DOMAIN p.questions :
             p.questions[i].awarded \in 0..p.questions[i].max
        /\ p.total = SumFunction(p.sections)
        /\ p.score \in 0..1000

\* The comment on PreviewGuide: the same matchers as Grade, mirroring its
\* dispatch exactly.  So they do for every validated entry that gives its own
\* maximum, and every answer that is not blank.
PreviewMirrorsGrade ==
  Done("marking") /\ input.entry.max > 0 /\ ~Blank(input.answer) /\ result.preview.previewable
    => result.preview.awarded = result.paper.questions[1].awarded

\* Writing the right unit, which is not a number itself, after a number never
\* costs marks, whatever the entry says of units.
UnitNeverCosts ==
  Done("marking") /\ input.entry.match = "numeric" /\ input.entry.unit # <<>>
      /\ ParseFloat(input.entry.unit) = NaN /\ Len(Fields(input.answer)) = 1
    => Award(input.entry, input.answer)
         <= Award(input.entry, <<Fields(input.answer) \o input.entry.unit>>)

---------------------------------------------------------------------------
Printed(pages) == FlattenSeq([i \in DOMAIN pages |-> pages[i].questions.items])
Found == result.paper.questions
Lost(page) == ~page.ocr \/ page.questions.shape = "failed"

\* What is printed on the pages, but for pages that are lost, replies without a
\* list and questions without a number.
Readable(pages) ==
  FlattenSeq([i \in DOMAIN pages |->
    IF Lost(pages[i]) \/ pages[i].questions.shape = "object" THEN <<>>
    ELSE LET items == pages[i].questions.items
         IN  FlattenSeq([j \in DOMAIN items |-> IF items[j].no = <<>> THEN <<>> ELSE <<items[j]>>])])

\* A page's failure costs only that page, a failed reading of answers none of
\* its questions, a question without a number only itself; the others come in
\* the order of the pages with their maxima.
OnlyFailuresDropQuestions ==
  Done("transcription") =>
    /\ Len(Found) = Len(Readable(input))
    /\ \A k \in DOMAIN Found : Found[k].max = Readable(input)[k].max

\* The comment on dedupeQuestionNos: question numbers are made unique so none is
\* silently lost downstream.  They are, unless a number is printed with a suffix
\* like the ones that are added.
NumbersUnique ==
  Done("transcription") /\ (\A i \in DOMAIN Printed(input) : Len(Printed(input)[i].no) <= 1)
    => \A i, j \in DOMAIN Found : i # j => Found[i].no # Found[j].no

\* Sections span pages: once a header was read, every question is in a section
\* the mark map has a budget for (if it has any) or a header has named.
SectionsCarried ==
  Done("transcription") /\ input # <<>> /\ detectSection(input[1]) # {}
    => \A i \in DOMAIN Found :
         \/ validSection(Found[i].section, result.map)
         \/ \E j \in DOMAIN input : Found[i].section = detectSection(input[j])

Worth(questions) == SumFunction([i \in DOMAIN questions |-> questions[i].max])

\* What the models failed to read does not pass the quality gates unnoticed: if
\* the printed total was read and is right, a page that was lost with questions
\* on it, or whose answers were not read, raises a flag.
LossIsFlagged ==
  Done("transcription") /\ result.paper.expected = {Worth(Printed(input))}
    /\ (\E i \in DOMAIN input : /\ input[i].questions.items # <<>>
                               /\ (Lost(input[i]) \/ input[i].answers.shape = "failed"))
    => EvaluateGates(result.flags, DefaultTunables) # {}

---------------------------------------------------------------------------
\* The three reports of a version count the same questions: a row of the class
\* results for each answer the item analysis counts and each question the
\* override statistics do, in spite of submissions that are not graded.
ReportsAgree ==
  Done("reports") =>
    /\ Len(result.rows) = result.overrides.totalGradedQuestions
    /\ \A s \in result.analytics.items :
         s.responses = Cardinality({k \in DOMAIN result.rows : result.rows[k].no = s.no})
    /\ \A k \in DOMAIN result.rows : \E s \in result.analytics.items : s.no = result.rows[k].no

Level(mastery) == CASE mastery = "secure" -> 3 [] mastery = "developing" -> 2 [] OTHER -> 1

Raised(papers, i, j) == [papers EXCEPT ![i].questions[j].awarded = @ + 1]

\* One mark more never lowers the mastery of an outcome.
MasteryMonotone ==
  Done("reports") =>
    LET ps == GradedPapers(input.subs)
    IN  \A i \in DOMAIN ps : \A j \in DOMAIN ps[i].questions :
          ps[i].questions[j].awarded < ps[i].questions[j].max =>
            \A a \in OutcomeMastery(ps, input.mapping),
               b \in OutcomeMastery(Raised(ps, i, j), input.mapping) :
              a.outcome = b.outcome => /\ ~Less(b.pct, a.pct)
                                       /\ Level(a.mastery) <= Level(b.mastery)

---------------------------------------------------------------------------
\* A handler goes on with the principal's tenant, which owns what it asked for;
\* only the operator of a shared deployment reaches a submission that another
\* tenant owns, and a report of another tenant's version is made of the
\* principal's own submissions, or of none when nobody could say whose it is.
HandlersActForOwner ==
  Done("request") =>
    /\ \A h \in DOMAIN result : result[h].status = 200 => result[h].tenant = {input.tenant}
    /\ result.submission.status = 200 /\ input.owner # {input.tenant}
         => "operator" \in Range(input.roles) /\ input.mode = "saas"
    /\ result.version.status = 200 /\ input.owner # {input.tenant}
         => input.owner = {} \/ input.listing = "some" \/ input.lookupFails
=============================================================================
