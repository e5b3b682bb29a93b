------------------------------- MODULE Marking -------------------------------
(***************************************************************************)
(* How a transcribed paper is marked: the marking guide's matchers, the    *)
(* AI judge they fall back to, and the totals.  Pure operators.            *)
(*                                                                         *)
(* A text is a sequence of lines, a line a sequence of words; what the     *)
(* string functions make of a word is given by tables.  White space is     *)
(* what separates words, so a blank text has none.  Marks are whole        *)
(* numbers of the smallest mark in use.  Justifications and confidences    *)
(* are left out.                                                           *)
(***************************************************************************)
EXTENDS Integers, SequencesExt

CONSTANTS Words,
          Lower,      \* ToLower of a word
          Stripped,   \* the words left of it without case and punctuation
          Value,      \* the number it parses to, or NaN
          NaN

ASSUME TablesAssumption ==
  /\ Lower \in [Words -> Words]
  /\ \A w \in Words : Stripped[w] \in Seq(Words)
  /\ \A w \in Words : Value[w] \in Int \/ Value[w] = NaN

---------------------------------------------------------------------------
(***************************************************************************)
(* Texts.                                                                  *)
(***************************************************************************)
Fields(text)  == FlattenSeq(text)
Blank(text)   == Fields(text) = <<>>
Written(text) == {i \in DOMAIN text : text[i] # <<>>}

\* Lines that are empty at either end go; those between stay.
TrimSpace(text) ==
  IF Blank(text) THEN <<>> ELSE SubSeq(text, Min(Written(text)), Max(Written(text)))

Lowered(words) == [i \in DOMAIN words |-> Lower[words[i]]]
ToLower(text)  == [i \in DOMAIN text |-> Lowered(text[i])]
EqualFold(a, b) == ToLower(a) = ToLower(b)

\* Whole words: an occurrence inside a longer word is left out.
HasPhrase(text, part) ==
  \/ Blank(part)
  \/ \E i \in DOMAIN text : \E j, k \in DOMAIN text[i] : SubSeq(text[i], j, k) = Fields(part)

normalizeText(text) ==
  FlattenSeq([i \in DOMAIN Fields(text) |-> Stripped[Fields(text)[i]]])

ParseFloat(words) == IF Len(words) = 1 THEN Value[words[1]] ELSE NaN

---------------------------------------------------------------------------
(***************************************************************************)
(* The matchers.  An entry is a record with the fields of GuideEntry, a    *)
(* step one with those of StepEntry; an absent numeric_answer is NaN.      *)
(***************************************************************************)
NoClamp(v, lo, hi) == v   \* Mutant: the marks as they come.
clamp(v, lo, hi) == CASE v < lo -> lo [] v > hi -> hi [] OTHER -> v

\* An expected answer that is blank never matches.
objectiveMatch(entry, answer, match) ==
  CASE match = "set" ->
         \E a \in Range(entry.accept) : ~Blank(a) /\ EqualFold(answer, TrimSpace(a))
    [] match = "exact_ci" ->
         ~Blank(entry.answer) /\ EqualFold(answer, TrimSpace(entry.answer))
    [] OTHER ->
         ~Blank(entry.answer) /\ answer = TrimSpace(entry.answer)

\* Without the guard for blank expected answers.
MatchObjectiveNormalized(entry, answer) ==
  IF \E a \in IF entry.match = "set" THEN Range(entry.accept) ELSE {entry.answer} :
       normalizeText(a) = normalizeText(answer)
  THEN entry.max ELSE 0

AbsVal(n) == IF n < 0 THEN -n ELSE n

InTolerance(entry, v) ==
  LET expected == IF entry.value = NaN THEN 0 ELSE entry.value
      diff     == AbsVal(v - expected)
  IN  IF entry.tolType = "pct"
      THEN IF expected = 0 THEN diff = 0 ELSE diff * 100 <= entry.tol * AbsVal(expected)
      ELSE diff <= entry.tol

\* Mutant: a unit is looked for after two words only.
UnitAfterTwo(entry, words) ==
  entry.unit # <<>> /\ Len(words) > 2 /\ Value[Last(words)] = NaN

\* The last of several words is the unit unless it is a number.
HasUnit(entry, words) ==
  entry.unit # <<>> /\ Len(words) >= 2 /\ Value[Last(words)] = NaN

MatchNumeric(entry, text) ==
  LET words == Fields(text)
      unit  == HasUnit(entry, words)
      right == unit /\ Lowered(<<Last(words)>>) = Lowered(entry.unit)
      v     == ParseFloat(IF unit THEN Front(words) ELSE words)
  IN  IF v = NaN \/ ~InTolerance(entry, v) THEN 0
      ELSE IF entry.unitMarks > 0 /\ ~right THEN Max({entry.max - entry.unitMarks, 0})
      ELSE entry.max

\* A numeric step is matched as an entry without a unit.
NumericStep(step) ==
  [max |-> step.marks, value |-> step.value, tol |-> step.tol,
   tolType |-> step.tolType, unit |-> <<>>, unitMarks |-> 0]

\* Each line alone, then the whole answer.
StepMatches(step, text) ==
  \E t \in {<<text[i]>> : i \in DOMAIN text} \cup {text} :
    IF step.match = "numeric" THEN MatchNumeric(NumericStep(step), t) > 0
                              ELSE objectiveMatch(step, TrimSpace(t), step.match)

\* A step of negative marks is missed.
MatchMultiStep(entry, text) ==
  LET marks == [i \in DOMAIN entry.steps |->
                 IF StepMatches(entry.steps[i], text)
                 THEN Max({entry.steps[i].marks, 0}) ELSE 0]
  IN  clamp(SumFunction(marks), 0, entry.max)

\* A criterion of negative marks takes marks away.
MatchPartial(entry, text) ==
  LET hit(c) == \E a \in Range(c.accept) : HasPhrase(ToLower(text), ToLower(a))
      marks  == [i \in DOMAIN entry.criteria |->
                  IF hit(entry.criteria[i]) THEN entry.criteria[i].marks ELSE 0]
  IN  clamp(SumFunction(marks), 0, entry.max)

---------------------------------------------------------------------------
(***************************************************************************)
(* Marking a question.  q has the fields no, section ("?" if none),        *)
(* answer, max and lowRead; reply is what the AI provider answers when     *)
(* asked: marks, or that the call or the parsing of the reply failed.      *)
(***************************************************************************)
answerFlags(q) ==
  CASE Blank(q.answer) -> {"blank_answer"}
    [] ~Blank(q.answer) /\ q.lowRead -> {"low_read_confidence"}
    [] OTHER -> {}

GradedQuestion(q, max, awarded, flags) ==
  [no |-> q.no, section |-> q.section, max |-> max, awarded |-> awarded, flags |-> flags]

gradingFailed(q, max) ==
  GradedQuestion(q, max, 0, answerFlags(q) \cup {"grading_failed"})

awardFromLLM(q, max, reply) ==
  IF reply.kind # "marks" THEN gradingFailed(q, max)
  ELSE GradedQuestion(q, max, clamp(reply.marks, 0, max), answerFlags(q))

LLMJudge(q, reply) ==
  IF Blank(q.answer) THEN GradedQuestion(q, q.max, 0, answerFlags(q))
  ELSE awardFromLLM(q, q.max, reply)

\* The dispatch on an entry's match type; the paper's maximum stands in for an
\* omitted one only where the whole mark is given or the provider is asked.
Dispatch(entry, text, max) ==
  CASE entry.match \in {"exact", "exact_ci", "set"} /\ entry.normalize ->
         MatchObjectiveNormalized(entry, TrimSpace(text))
    [] entry.match \in {"exact", "exact_ci", "set"} /\ ~entry.normalize ->
         IF objectiveMatch(entry, TrimSpace(text), entry.match) THEN max ELSE 0
    [] entry.match = "numeric"    -> MatchNumeric(entry, TrimSpace(text))
    [] entry.match = "multi_step" -> MatchMultiStep(entry, text)
    [] entry.match = "partial"    -> MatchPartial(entry, text)

Deterministic == {"exact", "exact_ci", "set", "numeric", "multi_step", "partial"}

GradeByGuide(guide, q, reply) ==
  LET entry == guide[q.no]
      max   == IF entry.max = 0 THEN q.max ELSE entry.max
  IN  IF q.no \notin DOMAIN guide THEN LLMJudge(q, reply)
      ELSE IF Blank(q.answer) THEN GradedQuestion(q, max, 0, answerFlags(q))
      ELSE CASE entry.match \in Deterministic ->
                  GradedQuestion(q, max, clamp(Dispatch(entry, q.answer, max), 0, max),
                                 answerFlags(q))
             [] entry.match = "rubric" -> awardFromLLM(q, max, reply)
             [] OTHER -> LLMJudge(q, reply)

---------------------------------------------------------------------------
(***************************************************************************)
(* Marking a paper, and the preview of a guide.                            *)
(***************************************************************************)
\* The score in tenths of a percent, rounded half up.
roundTo1(total, max) == (2000 * total + max) \div (2 * max)

GradePaper(guide, questions, replies) ==
  LET marked == [i \in DOMAIN questions |->
                  GradeByGuide(guide, questions[i], replies[i])]
      max    == SumFunction([i \in DOMAIN marked |-> marked[i].max])
      total  == SumFunction([i \in DOMAIN marked |-> marked[i].awarded])
      Section(s) == {i \in DOMAIN marked : marked[i].section = s}
  IN  [questions |-> marked, total |-> total, max |-> max,
       score |-> IF max > 0 THEN roundTo1(total, max) ELSE 0,
       sections |-> [s \in {marked[i].section : i \in DOMAIN marked} |->
                      SumFunction([i \in Section(s) |-> marked[i].awarded])]]

knownMatchTypes == Deterministic \cup {"rubric"}

ValidateStep(step) ==
  /\ step.match \in knownMatchTypes
  /\ step.match \in {"exact", "exact_ci"} => ~Blank(step.answer)
  /\ step.match = "set" => step.accept # <<>>
  /\ step.match = "numeric" => step.value # NaN

\* A set entry may accept a blank answer, and marks but max_marks be negative.
ValidateEntry(e) ==
  /\ e.max >= 0 /\ e.match \in knownMatchTypes
  /\ e.match \in {"exact", "exact_ci"} => ~Blank(e.answer)
  /\ e.match = "set" => e.accept # <<>>
  /\ e.match = "rubric" => ~Blank(e.rubric)
  /\ e.match = "numeric" => e.value # NaN
  /\ e.match = "multi_step" =>
       e.steps # <<>> /\ \A i \in DOMAIN e.steps : ValidateStep(e.steps[i])
  /\ e.match = "partial" =>
       e.criteria # <<>> /\ \A i \in DOMAIN e.criteria : e.criteria[i].accept # <<>>

ValidateGuide(guide) == \A no \in DOMAIN guide : ValidateEntry(guide[no])

\* Mutant: the preview compares objective answers as they stand.
PreviewPlain(guide, no, text) ==
  IF no \notin DOMAIN guide \/ guide[no].match \notin Deterministic
  THEN [previewable |-> FALSE, awarded |-> 0]
  ELSE [previewable |-> TRUE,
        awarded |-> clamp(Dispatch([guide[no] EXCEPT !.normalize = FALSE], text,
                                   guide[no].max), 0, guide[no].max)]

\* No provider is asked, no answer is blank beforehand, and the paper's maximum
\* is not known.
PreviewGuide(guide, no, text) ==
  IF no \notin DOMAIN guide \/ guide[no].match \notin Deterministic
  THEN [previewable |-> FALSE, awarded |-> 0]
  ELSE [previewable |-> TRUE,
        awarded |-> clamp(Dispatch(guide[no], text, guide[no].max), 0, guide[no].max)]
=============================================================================
