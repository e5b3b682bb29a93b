-------------------------- MODULE AlgorithmsProofs --------------------------
(***************************************************************************)
(* Proofs about marking, requests, transcription, reports and units: what  *)
(* holds of every guide, paper, reply and submission, of which Algorithms  *)
(* runs a bounded choice; and, in the last part, that its invariants       *)
(* follow.                                                                 *)
(***************************************************************************)
EXTENDS Algorithms, Counting

---------------------------------------------------------------------------
(***************************************************************************)
(* The mark of a question.                                                 *)
(***************************************************************************)

\* What a guide's entry must be for its marks to be numbers: validation sees to
\* the maximum; the marks of steps, criteria and units may be negative.
EntryTyped(e) ==
  /\ e.max \in Nat /\ e.unitMarks \in Int
  /\ IsFiniteSet(DOMAIN e.steps) /\ \A i \in DOMAIN e.steps : e.steps[i].marks \in Int
  /\ IsFiniteSet(DOMAIN e.criteria)
  /\ \A i \in DOMAIN e.criteria : e.criteria[i].marks \in Int

\* clamp confines any number to the range from no mark to the maximum.
LEMMA ClampWithin ==
  ASSUME NEW v \in Int, NEW hi \in Nat
  PROVE  clamp(v, 0, hi) \in 0..hi
BY DEF clamp

LEMMA MaxWithZero ==
  ASSUME NEW v \in Int
  PROVE  Max({v, 0}) \in Int
<1>1. \E x \in {v, 0} : \A y \in {v, 0} : y <= x
  OBVIOUS
<1>2. Max({v, 0}) \in {v, 0}
  BY <1>1 DEF Max
<1> QED BY <1>2

\* Steps of any marks, negative ones included, give a number.
LEMMA MultiStepIsNumber ==
  ASSUME NEW e, EntryTyped(e), NEW text
  PROVE  MatchMultiStep(e, text) \in Int
<1> DEFINE marks == [i \in DOMAIN e.steps |->
                      IF StepMatches(e.steps[i], text)
                      THEN Max({e.steps[i].marks, 0}) ELSE 0]
<1>1. marks \in [DOMAIN e.steps -> Int]
  <2>1. ASSUME NEW i \in DOMAIN e.steps
        PROVE  Max({e.steps[i].marks, 0}) \in Int
    BY MaxWithZero DEF EntryTyped
  <2> QED BY <2>1
<1>2. SumFunction(marks) \in Int
  <2> HIDE DEF marks
  <2> QED BY <1>1, SumIsInteger DEF EntryTyped
<1>3. clamp(SumFunction(marks), 0, e.max) \in Int
  BY <1>2, ClampWithin DEF EntryTyped
<1> QED BY <1>3, Zenon DEF MatchMultiStep

LEMMA PartialIsNumber ==
  ASSUME NEW e, EntryTyped(e), NEW text
  PROVE  MatchPartial(e, text) \in Int
<1> DEFINE hit(c) == \E a \in Range(c.accept) : HasPhrase(ToLower(text), ToLower(a))
           marks  == [i \in DOMAIN e.criteria |->
                       IF hit(e.criteria[i]) THEN e.criteria[i].marks ELSE 0]
<1>1. marks \in [DOMAIN e.criteria -> Int]
  <2> HIDE DEF hit
  <2> QED BY DEF EntryTyped
<1>2. SumFunction(marks) \in Int
  <2> HIDE DEF marks
  <2> QED BY <1>1, SumIsInteger DEF EntryTyped
<1>3. clamp(SumFunction(marks), 0, e.max) \in Int
  BY <1>2, ClampWithin DEF EntryTyped
<1> QED BY <1>3, Zenon DEF MatchPartial

LEMMA NumericIsNumber ==
  ASSUME NEW e, EntryTyped(e), NEW text
  PROVE  MatchNumeric(e, text) \in Int
<1>1. e.max \in Int /\ Max({e.max - e.unitMarks, 0}) \in Int
  BY MaxWithZero DEF EntryTyped
<1> DEFINE words == Fields(text)
           unit  == HasUnit(e, words)
           right == unit /\ Lowered(<<Last(words)>>) = Lowered(e.unit)
           v     == ParseFloat(IF unit THEN Front(words) ELSE words)
<1>2. MatchNumeric(e, text) =
        IF v = NaN \/ ~InTolerance(e, v) THEN 0
        ELSE IF e.unitMarks > 0 /\ ~right THEN Max({e.max - e.unitMarks, 0})
        ELSE e.max
  BY Zenon DEF MatchNumeric
<1> HIDE DEF v, right
<1> QED BY <1>1, <1>2

\* Whichever matcher an entry is dispatched to gives a number.
LEMMA DispatchIsNumber ==
  ASSUME NEW e, EntryTyped(e), e.match \in Deterministic, NEW text, NEW max \in Nat
  PROVE  Dispatch(e, text, max) \in Int
<1>1. MatchNumeric(e, TrimSpace(text)) \in Int /\ MatchMultiStep(e, text) \in Int
      /\ MatchPartial(e, text) \in Int
  BY NumericIsNumber, MultiStepIsNumber, PartialIsNumber
<1>2. MatchObjectiveNormalized(e, TrimSpace(text)) \in Int
  BY DEF MatchObjectiveNormalized, EntryTyped
<1> QED BY <1>1, <1>2 DEF Dispatch, Deterministic

\* A provider's reply with marks gives a number, in range or not.
ReplyTyped(r) == r.kind = "marks" => r.marks \in Int

\* Every way of marking a question gives it from no mark to its maximum.
LEMMA QuestionWithinMax ==
  ASSUME NEW guide, \A no \in DOMAIN guide : EntryTyped(guide[no]),
         NEW q, q.max \in Nat, NEW reply, ReplyTyped(reply)
  PROVE  LET g == GradeByGuide(guide, q, reply)
         IN  g.max \in Nat /\ g.awarded \in 0..g.max
<1> DEFINE Within(g) == g.max \in Nat /\ g.awarded \in 0..g.max
<1>1. ASSUME NEW max \in Nat, NEW a \in 0..max, NEW flags
      PROVE  Within(GradedQuestion(q, max, a, flags))
  BY DEF GradedQuestion
<1>2. ASSUME NEW max \in Nat, NEW v \in Int, NEW flags
      PROVE  Within(GradedQuestion(q, max, clamp(v, 0, max), flags))
  <2>1. clamp(v, 0, max) \in 0..max
    BY ClampWithin
  <2> HIDE DEF Within
  <2> QED BY <1>1, <2>1
<1>3. ASSUME NEW max \in Nat
      PROVE  Within(awardFromLLM(q, max, reply))
  <2> HIDE DEF Within
  <2>1. 0 \in 0..max
    OBVIOUS
  <2> QED BY <1>1, <1>2, <2>1 DEF awardFromLLM, gradingFailed, ReplyTyped
<1>4. Within(LLMJudge(q, reply))
  <2> HIDE DEF Within
  <2>1. 0 \in 0..q.max
    OBVIOUS
  <2> QED BY <1>1, <1>3, <2>1 DEF LLMJudge
<1>5. ASSUME q.no \in DOMAIN guide
      PROVE  Within(GradeByGuide(guide, q, reply))
  <2> DEFINE entry == guide[q.no]
             max   == IF entry.max = 0 THEN q.max ELSE entry.max
  <2>1. EntryTyped(entry) /\ max \in Nat
    BY <1>5 DEF EntryTyped
  <2> HIDE DEF Within, max
  <2>2. 0 \in 0..max
    BY <2>1
  <2>3. CASE Blank(q.answer)
    <3>1. GradeByGuide(guide, q, reply) = GradedQuestion(q, max, 0, answerFlags(q))
      BY <1>5, <2>3 DEF GradeByGuide, max
    <3> QED BY <1>1, <2>1, <2>2, <3>1
  <2>4. CASE ~Blank(q.answer) /\ entry.match \in Deterministic
    <3>1. GradeByGuide(guide, q, reply) =
            GradedQuestion(q, max, clamp(Dispatch(entry, q.answer, max), 0, max),
                           answerFlags(q))
      <4>1. entry.match # "rubric"
        BY <2>4 DEF Deterministic
      <4> QED BY <1>5, <2>4, <4>1, Zenon DEF GradeByGuide, max
    <3>2. Dispatch(entry, q.answer, max) \in Int
      BY <2>1, <2>4, DispatchIsNumber
    <3> QED BY <1>2, <2>1, <3>1, <3>2
  <2>5. CASE ~Blank(q.answer) /\ entry.match = "rubric"
    <3>1. GradeByGuide(guide, q, reply) = awardFromLLM(q, max, reply)
      BY <1>5, <2>5 DEF GradeByGuide, max, Deterministic
    <3> QED BY <1>3, <2>1, <3>1
  <2>6. CASE ~Blank(q.answer) /\ entry.match \notin Deterministic /\ entry.match # "rubric"
    <3>1. GradeByGuide(guide, q, reply) = LLMJudge(q, reply)
      BY <1>5, <2>6 DEF GradeByGuide
    <3> QED BY <1>4, <3>1
  <2> QED BY <2>3, <2>4, <2>5, <2>6
<1>6. q.no \notin DOMAIN guide => GradeByGuide(guide, q, reply) = LLMJudge(q, reply)
  BY DEF GradeByGuide
<1> QED BY <1>4, <1>5, <1>6

---------------------------------------------------------------------------
(***************************************************************************)
(* The paper.                                                              *)
(***************************************************************************)

\* A mark of the whole paper in tenths of a percent is at most 1000.
LEMMA ScoreWithin ==
  ASSUME NEW max \in Nat, max > 0, NEW total \in 0..max
  PROVE  roundTo1(total, max) \in 0..1000
<1> DEFINE a == 2000 * total + max
           b == 2 * max
           k == a \div b
<1>1. a \in Nat /\ b \in Nat /\ b > 0 /\ a < 1001 * b
  OBVIOUS
<1> HIDE DEF a, b
<1>2. k \in Int /\ b * k <= a /\ a < b * (k + 1)
  BY <1>1
<1> HIDE DEF k
<1>3. k >= 0
  BY <1>1, <1>2
<1>4. k <= 1000
  <2> SUFFICES ASSUME k >= 1001 PROVE FALSE
    BY <1>2
  <2>1. b * k >= b * 1001
    BY <1>1, <1>2
  <2> QED BY <1>1, <1>2, <2>1
<1> QED BY <1>2, <1>3, <1>4 DEF roundTo1, a, b, k

\* Whatever a guide of typed entries says, however many questions the paper has
\* and whatever the provider answers: every mark is within its question's
\* maximum, the sections add up to the total, and the score is 0 to 100 %.
AddsUp(p) ==
  /\ \A i \in DOMAIN p.questions : p.questions[i].awarded \in 0..p.questions[i].max
  /\ p.total = SumFunction(p.sections)
  /\ p.score \in 0..1000

THEOREM PaperAddsUp ==
  ASSUME NEW guide, \A no \in DOMAIN guide : EntryTyped(guide[no]),
         NEW questions, IsFiniteSet(DOMAIN questions),
         \A i \in DOMAIN questions : questions[i].max \in Nat,
         NEW replies, \A i \in DOMAIN questions : ReplyTyped(replies[i])
  PROVE  AddsUp(GradePaper(guide, questions, replies))
<1> DEFINE S       == DOMAIN questions
           marked  == [i \in S |-> GradeByGuide(guide, questions[i], replies[i])]
           maxes   == [i \in S |-> marked[i].max]
           awards  == [i \in S |-> marked[i].awarded]
           section == [i \in S |-> marked[i].section]
           p       == GradePaper(guide, questions, replies)
<1>1. ASSUME NEW i \in S
      PROVE  marked[i].max \in Nat /\ marked[i].awarded \in 0..marked[i].max
  BY QuestionWithinMax
<1>2. DOMAIN marked = S
  OBVIOUS
<1>3. /\ p.questions = marked
      /\ p.total = SumFunction(awards)
      /\ p.score = IF SumFunction(maxes) > 0
                   THEN roundTo1(SumFunction(awards), SumFunction(maxes)) ELSE 0
      /\ p.sections = [s \in {marked[i].section : i \in S} |->
                         SumFunction([i \in {j \in S : marked[j].section = s} |->
                                       marked[i].awarded])]
  <2> HIDE DEF S
  <2> QED BY <1>2, Zenon DEF GradePaper, S
<1> HIDE DEF marked, p, S
<1>4. maxes \in [S -> Int] /\ awards \in [S -> Int] /\ awards \in [S -> Nat]
      /\ \A i \in S : awards[i] <= maxes[i]
  BY <1>1
<1>5. SumFunction(awards) \in Nat /\ SumFunction(maxes) \in Int
      /\ SumFunction(awards) <= SumFunction(maxes)
  <2> HIDE DEF awards, maxes
  <2> QED BY <1>4, SumIsNatural, SumIsInteger, SumMonotone DEF S
<1>6. p.score \in 0..1000
  <2> DEFINE total == SumFunction(awards)
             max   == SumFunction(maxes)
  <2>1. p.score = IF max > 0 THEN roundTo1(total, max) ELSE 0
    BY <1>3, Zenon
  <2>2. max \in Nat /\ total \in 0..max
    BY <1>5
  <2> HIDE DEF total, max
  <2>3. CASE max > 0
    <3>1. roundTo1(total, max) \in 0..1000
      BY <2>2, <2>3, ScoreWithin
    <3> QED BY <2>1, <2>3, <3>1
  <2> QED BY <2>1, <2>2, <2>3
<1>7. p.total = SumFunction(p.sections)
  <2>1. SumFunction(awards) =
          SumFunction([s \in {section[i] : i \in S} |->
                        SumOn(awards, {i \in S : section[i] = s})])
    <3> HIDE DEF awards, section
    <3> QED BY <1>4, SumPartition DEF S
  <2>2. {section[i] : i \in S} = {marked[i].section : i \in S}
    OBVIOUS
  <2>3. ASSUME NEW s
        PROVE  SumOn(awards, {i \in S : section[i] = s}) =
                 SumFunction([i \in {j \in S : marked[j].section = s} |-> marked[i].awarded])
    <3>1. {i \in S : section[i] = s} = {j \in S : marked[j].section = s}
      OBVIOUS
    <3>2. [x \in {j \in S : marked[j].section = s} |-> awards[x]] =
            [i \in {j \in S : marked[j].section = s} |-> marked[i].awarded]
      OBVIOUS
    <3> HIDE DEF awards, section
    <3> QED BY <3>1, <3>2 DEF SumOn
  <2> DEFINE inS(s) == SumFunction([i \in {j \in S : marked[j].section = s} |->
                                      marked[i].awarded])
             onS(s) == SumOn(awards, {i \in S : section[i] = s})
  <2>4. \A s : onS(s) = inS(s)
    BY <2>3
  <2> HIDE DEF awards, section, inS, onS
  <2>5. [s \in {section[i] : i \in S} |-> onS(s)] =
          [s \in {marked[i].section : i \in S} |-> inS(s)]
    BY <2>2, <2>4
  <2>6. SumFunction(awards) = SumFunction([s \in {section[i] : i \in S} |-> onS(s)])
    BY <2>1, Zenon DEF onS
  <2>7. p.sections = [s \in {marked[i].section : i \in S} |-> inS(s)]
    BY <1>3, Zenon DEF inS
  <2>8. p.total = SumFunction(awards)
    BY <1>3
  <2> QED BY <2>5, <2>6, <2>7, <2>8
<1>8. \A i \in DOMAIN p.questions :
        p.questions[i].awarded \in 0..p.questions[i].max
  <2>1. p.questions = marked
    BY <1>3
  <2> HIDE DEF maxes, awards, section
  <2> QED BY <1>1, <1>2, <2>1
<1>9. AddsUp(p)
  <2> HIDE DEF maxes, awards, section
  <2> QED BY <1>6, <1>7, <1>8 DEF AddsUp
<1> QED BY <1>9 DEF p

---------------------------------------------------------------------------
(***************************************************************************)
(* The preview.                                                            *)
(***************************************************************************)

\* For any guide, an answer that is not blank and an entry with a maximum of its
\* own: the preview gives the marks that the paper will be given.
THEOREM PreviewAgrees ==
  ASSUME NEW guide, NEW q, NEW reply, q.no \in DOMAIN guide,
         guide[q.no].max > 0, ~Blank(q.answer),
         PreviewGuide(guide, q.no, q.answer).previewable
  PROVE  PreviewGuide(guide, q.no, q.answer).awarded = GradeByGuide(guide, q, reply).awarded
<1> DEFINE entry == guide[q.no]
           mark  == clamp(Dispatch(entry, q.answer, entry.max), 0, entry.max)
<1>1. entry.match \in Deterministic
  BY DEF PreviewGuide
<1>2. PreviewGuide(guide, q.no, q.answer).awarded = mark
  <2>1. PreviewGuide(guide, q.no, q.answer) = [previewable |-> TRUE, awarded |-> mark]
    BY <1>1, Zenon DEF PreviewGuide
  <2> HIDE DEF mark
  <2> QED BY <2>1
<1>3. entry.max # 0 /\ entry.match # "rubric"
  BY <1>1 DEF Deterministic
<1>4. GradeByGuide(guide, q, reply) = GradedQuestion(q, entry.max, mark, answerFlags(q))
  <2> DEFINE max == IF entry.max = 0 THEN q.max ELSE entry.max
  <2>1. max = entry.max
    BY <1>3
  <2>2. GradeByGuide(guide, q, reply) =
          GradedQuestion(q, max, clamp(Dispatch(entry, q.answer, max), 0, max),
                         answerFlags(q))
    BY <1>1, <1>3, Zenon DEF GradeByGuide
  <2> HIDE DEF max
  <2> QED BY <2>1, <2>2
<1> HIDE DEF mark
<1> QED BY <1>2, <1>4 DEF GradedQuestion

---------------------------------------------------------------------------
(***************************************************************************)
(* Requests.                                                               *)
(***************************************************************************)

\* Every handler's answer to a request of any roles, for whatever any tenant or
\* nobody owns.
ActsForOwner(i, a) ==
  /\ \A h \in DOMAIN a : a[h].status = 200 => a[h].tenant = {i.tenant}
  /\ a.submission.status = 200 /\ i.owner # {i.tenant}
       => "operator" \in Range(i.roles) /\ i.mode = "saas"
  /\ a.version.status = 200 /\ i.owner # {i.tenant}
       => i.owner = {} \/ i.listing = "some" \/ i.lookupFails

THEOREM AnswersActForOwner ==
  ASSUME NEW i, i.owner = {} \/ \E t : i.owner = {t},
         i.listing \in {"some", "none", "failed"}, i.lookupFails \in BOOLEAN
  PROVE  ActsForOwner(i, Answer(i))
<1> DEFINE p == Principal(i)
           Mine(x) == x.status = 200 => x.tenant = {i.tenant}
<1>1. p.tenant = i.tenant /\ p.roles = i.roles
  BY DEF Principal
<1>2. /\ Mine(GoOn(i.tenant)) /\ Mine(Denied(404)) /\ Mine(Denied(500))
      /\ Denied(404).status # 200 /\ Denied(500).status # 200
  BY DEF GoOn, Denied
<1> HIDE DEF Mine, p
<1>3. \A action : Mine(authzOwn(p, action, i.mode))
  BY <1>1, <1>2 DEF authzOwn
<1>4. Mine(fetchAndAuthorize(p, i.owner, i.action, i.mode))
  BY <1>1, <1>2 DEF fetchAndAuthorize
<1>5. Mine(resolveAVID(p, i.owner, i.listing, i.lookupFails, i.mode))
  BY <1>2, <1>3 DEF resolveAVID
<1>6. ASSUME fetchAndAuthorize(p, i.owner, i.action, i.mode).status = 200,
             i.owner # {i.tenant}
      PROVE  "operator" \in Range(i.roles) /\ i.mode = "saas"
  <2>1. i.owner # {} /\ Can(p.roles, i.action, {p.tenant}, CHOOSE t \in i.owner : TRUE, i.mode)
    BY <1>2, <1>6 DEF fetchAndAuthorize
  <2>2. (CHOOSE t \in i.owner : TRUE) \notin {p.tenant}
    BY <1>1, <1>6, <2>1
  <2> QED BY <1>1, <2>1, <2>2 DEF Can
<1>7. ASSUME resolveAVID(p, i.owner, i.listing, i.lookupFails, i.mode).status = 200,
             i.owner # {i.tenant}, i.owner # {}
      PROVE  i.listing = "some" \/ i.lookupFails
  BY <1>1, <1>2, <1>7 DEF resolveAVID
<1> DEFINE a == Answer(i)
<1>8. /\ DOMAIN a = {"submission", "version", "guide", "webhook", "provider", "session"}
      /\ a.submission = fetchAndAuthorize(p, i.owner, i.action, i.mode)
      /\ a.version = resolveAVID(p, i.owner, i.listing, i.lookupFails, i.mode)
      /\ a.guide = guideAuthz(p, i.mode) /\ a.webhook = webhookAuthz(p, i.mode)
      /\ a.provider = aiProviderAuthz(p, i.mode) /\ a.session = resolveModPrincipal(p, i.mode)
  BY DEF Answer, p
<1> HIDE DEF a
<1>9. \A h \in DOMAIN a : Mine(a[h])
  <2>1. Mine(a.guide) /\ Mine(a.webhook) /\ Mine(a.provider) /\ Mine(a.session)
    BY <1>3, <1>8 DEF guideAuthz, webhookAuthz, aiProviderAuthz, resolveModPrincipal
  <2> QED BY <1>4, <1>5, <1>8, <2>1
<1>10. ActsForOwner(i, a)
  BY <1>6, <1>7, <1>8, <1>9 DEF ActsForOwner, Mine
<1> QED BY <1>10 DEF a

---------------------------------------------------------------------------
(***************************************************************************)
(* Transcription.                                                          *)
(***************************************************************************)

\* What the models may report: any question numbers and maxima, sections and
\* headers of any set of labels.
Item(L)     == [no : Seq(Nat), section : SUBSET L, max : Nat]
Question(L) == [no : Seq(Nat), section : SUBSET L, max : Nat, blank : BOOLEAN]
Reply(L)    == [shape : {"array", "wrapped", "object", "failed"}, items : Seq(Item(L))]
PagesTyped(pages, n, L) ==
  /\ n \in Nat /\ DOMAIN pages = 1..n
  /\ \A i \in 1..n : pages[i].questions \in Reply(L) /\ pages[i].header \in SUBSET L

\* A function from positions to sequences is a sequence of sequences.
LEMMA ListsOfLists ==
  ASSUME NEW S, NEW n \in Nat, NEW ss, DOMAIN ss = 1..n, ss = [i \in 1..n |-> ss[i]],
         \A i \in 1..n : ss[i] \in Seq(S)
  PROVE  ss \in Seq(Seq(S)) /\ Len(ss) = n
<1>1. ss \in [1..n -> Seq(S)]
  OBVIOUS
<1> QED BY <1>1

\* A reply has items of the printed kind, or none.
LEMMA ParsedItems ==
  ASSUME NEW L, NEW reply \in Reply(L)
  PROVE  /\ parseQuestions(reply).items \in Seq(Item(L))
         /\ reply.shape \in {"array", "wrapped"} => parseQuestions(reply).items = reply.items
         /\ reply.shape \notin {"array", "wrapped"} => parseQuestions(reply).items = <<>>
<1>1. reply.shape \in {"array", "wrapped", "object", "failed"} /\ reply.items \in Seq(Item(L))
      /\ <<>> \in Seq(Item(L))
  BY DEF Reply
<1>2. CASE reply.shape \in {"array", "wrapped"}
  <2>1. parseQuestions(reply) = reply
    BY <1>2 DEF parseQuestions, parseItems
  <2> QED BY <1>1, <1>2, <2>1
<1>3. CASE reply.shape = "object"
  <2>1. parseQuestions(reply) = [reply EXCEPT !.items = <<>>]
    BY <1>3 DEF parseQuestions, parseItems
  <2>2. [reply EXCEPT !.items = <<>>].items = <<>>
    BY DEF Reply
  <2> QED BY <1>1, <1>3, <2>1, <2>2
<1>4. CASE reply.shape = "failed"
  <2>1. parseQuestions(reply) = Failed
    BY <1>4 DEF parseQuestions, parseItems
  <2> QED BY <1>1, <1>4, <2>1 DEF Failed
<1> QED BY <1>1, <1>2, <1>3, <1>4

\* What becomes of one reported question: nothing if it has no number.
OfItem(item, read) ==
  IF item.no = <<>> THEN <<>>
  ELSE <<[no |-> item.no, section |-> item.section, max |-> item.max,
          blank |-> item.no \notin DOMAIN read \/ read[item.no] = "empty"]>>

\* One printed question gives one question, or none if it has no number.
LEMMA OfItemTyped ==
  ASSUME NEW L, NEW item \in Item(L), NEW read
  PROVE  /\ OfItem(item, read) \in Seq(Question(L))
         /\ item.no = <<>> => Len(OfItem(item, read)) = 0
         /\ item.no # <<>> =>
              /\ Len(OfItem(item, read)) = 1
              /\ OfItem(item, read)[1].no = item.no
              /\ OfItem(item, read)[1].max = item.max
              /\ OfItem(item, read)[1].section = item.section
              /\ item.no \notin DOMAIN read => OfItem(item, read)[1].blank
<1> DEFINE q == [no |-> item.no, section |-> item.section, max |-> item.max,
                 blank |-> item.no \notin DOMAIN read \/ read[item.no] = "empty"]
<1>1. q \in Question(L) /\ q.no = item.no /\ q.max = item.max /\ q.section = item.section
      /\ (item.no \notin DOMAIN read => q.blank)
  <2>1. (item.no \notin DOMAIN read \/ read[item.no] = "empty") \in BOOLEAN
    OBVIOUS
  <2> QED BY <2>1 DEF Question, Item
<1>2. OfItem(item, read) = IF item.no = <<>> THEN <<>> ELSE <<q>>
  BY DEF OfItem
<1> HIDE DEF q
<1>3. <<q>> \in Seq(Question(L)) /\ <<>> \in Seq(Question(L)) /\ Len(<<q>>) = 1 /\ <<q>>[1] = q
  BY <1>1
<1> QED BY <1>1, <1>2, <1>3

OfItems(items, read) == [j \in DOMAIN items |-> OfItem(items[j], read)]

\* So do the questions of a list, one after another.
LEMMA OfItemsTyped ==
  ASSUME NEW L, NEW items \in Seq(Item(L)), NEW read
  PROVE  /\ OfItems(items, read) \in Seq(Seq(Question(L)))
         /\ Len(OfItems(items, read)) = Len(items)
         /\ \A j \in 1..Len(items) : OfItems(items, read)[j] = OfItem(items[j], read)
         /\ NumberedQuestions(items, read) = FlattenSeq(OfItems(items, read))
<1> DEFINE n == Len(items)
           ss == OfItems(items, read)
<1>1. n \in Nat /\ DOMAIN items = 1..n /\ \A j \in 1..n : items[j] \in Item(L)
  OBVIOUS
<1> HIDE DEF n
<1>2. /\ DOMAIN ss = 1..n /\ ss = [j \in 1..n |-> ss[j]]
      /\ \A j \in 1..n : ss[j] = OfItem(items[j], read)
  BY <1>1 DEF OfItems
<1>3. NumberedQuestions(items, read) = FlattenSeq(ss)
  BY Zenon DEF NumberedQuestions, OfItems, OfItem
<1> HIDE DEF ss
<1>4. \A j \in 1..n : ss[j] \in Seq(Question(L))
  BY <1>1, <1>2, OfItemTyped
<1>5. ss \in Seq(Seq(Question(L))) /\ Len(ss) = n
  BY <1>1, <1>2, <1>4, ListsOfLists
<1> QED BY <1>2, <1>3, <1>5 DEF ss, n

\* A page gives its questions with a number, in their order, none if it is lost.
LEMMA HybridTyped ==
  ASSUME NEW L, NEW page, page.questions \in Reply(L)
  PROVE  /\ onePageHybrid(page) \in Seq(Question(L))
         /\ \A k \in 1..Len(onePageHybrid(page)) :
              \E j \in 1..Len(page.questions.items) :
                /\ onePageHybrid(page)[k].no = page.questions.items[j].no
                /\ onePageHybrid(page)[k].no # <<>>
<1> DEFINE items == parseQuestions(page.questions).items
           read  == readAnswersFor(page.answers)
           ss    == OfItems(items, read)
<1>1. CASE ~page.ocr
  <2>1. onePageHybrid(page) = <<>>
    BY <1>1 DEF onePageHybrid
  <2> QED BY <2>1
<1>2. CASE page.ocr
  <2>1. onePageHybrid(page) = NumberedQuestions(items, read)
    BY <1>2, Zenon DEF onePageHybrid
  <2>2. /\ items \in Seq(Item(L))
        /\ Len(items) # 0 => items = page.questions.items
    <3>1. <<>> \in Seq(Item(L)) /\ Len(<<>>) = 0
      OBVIOUS
    <3> HIDE DEF items
    <3>2. /\ items \in Seq(Item(L))
          /\ page.questions.shape \in {"array", "wrapped"} => items = page.questions.items
          /\ page.questions.shape \notin {"array", "wrapped"} => items = <<>>
      BY ParsedItems DEF items
    <3> QED BY <3>1, <3>2
  <2> HIDE DEF items, read
  <2>3. /\ ss \in Seq(Seq(Question(L))) /\ Len(ss) = Len(items)
        /\ \A j \in 1..Len(items) : ss[j] = OfItem(items[j], read)
        /\ onePageHybrid(page) = FlattenSeq(ss)
    BY <2>1, <2>2, OfItemsTyped
  <2> HIDE DEF ss
  <2> DEFINE F == FlattenSeq(ss)
  <2>4. F \in Seq(Question(L))
    BY <2>3, FlattenPlaces
  <2>5. ASSUME NEW k \in 1..Len(F)
        PROVE  \E j \in 1..Len(page.questions.items) :
                 /\ F[k].no = page.questions.items[j].no /\ F[k].no # <<>>
    <3>1. k \in DOMAIN F
      BY <2>4
    <3>2. PICK j \in DOMAIN ss : \E m \in DOMAIN ss[j] : F[k] = ss[j][m]
      BY <2>3, <3>1, FlattenKeeps
    <3>3. PICK m \in DOMAIN ss[j] : F[k] = ss[j][m]
      BY <3>2
    <3>4. j \in 1..Len(items) /\ ss[j] = OfItem(items[j], read) /\ items[j] \in Item(L)
      BY <2>2, <2>3
    <3> DEFINE one == OfItem(items[j], read)
    <3>5. m \in DOMAIN one /\ F[k] = one[m]
      BY <3>3, <3>4
    <3>6. /\ one \in Seq(Question(L))
          /\ items[j].no = <<>> => Len(one) = 0
          /\ items[j].no # <<>> =>
               /\ Len(one) = 1 /\ one[1].no = items[j].no
               /\ one[1].max = items[j].max /\ one[1].section = items[j].section
      BY <3>4, OfItemTyped
    <3> HIDE DEF one, F
    <3>7. m \in 1..Len(one)
      BY <3>5, <3>6
    <3>8. m = 1 /\ items[j].no # <<>>
      <4> DEFINE len == Len(one)
                 numbered == items[j].no # <<>>
      <4>1. m \in 1..len /\ (~numbered => len = 0) /\ (numbered => len = 1)
        BY <3>6, <3>7
      <4> HIDE DEF len, numbered
      <4>2. m = 1 /\ numbered
        BY <4>1
      <4> QED BY <4>2 DEF numbered
    <3>9. items = page.questions.items
      BY <2>2, <3>4
    <3> QED BY <3>4, <3>5, <3>6, <3>8, <3>9
  <2> QED BY <2>3, <2>4, <2>5
<1> QED BY <1>1, <1>2

\* A page's header is that of some page, and there is one from the first on.
LEMMA HeaderIsRead ==
  ASSUME NEW L, NEW n, NEW pages, PagesTyped(pages, n, L), NEW i \in 1..n
  PROVE  /\ Header(pages, i) \in SUBSET L
         /\ Header(pages, i) # {} => \E j \in 1..n : Header(pages, i) = detectSection(pages[j])
         /\ detectSection(pages[1]) # {} => Header(pages, i) # {}
<1> DEFINE seen == {j \in 1..i : detectSection(pages[j]) # {}}
<1>1. n \in Nat /\ i \in Nat /\ \A j \in 1..n : detectSection(pages[j]) \in SUBSET L
  BY DEF PagesTyped, detectSection
<1>2. Header(pages, i) = IF seen = {} THEN {} ELSE detectSection(pages[Max(seen)])
  BY Zenon DEF Header
<1>3. seen # {} => Max(seen) \in seen
  <2>1. seen \subseteq 0..i
    BY <1>1
  <2> HIDE DEF seen
  <2> QED BY <1>1, <2>1, GreatestPosition
<1>4. seen # {} => /\ Max(seen) \in 1..n
                   /\ detectSection(pages[Max(seen)]) # {}
  BY <1>1, <1>3
<1>5. detectSection(pages[1]) # {} => seen # {}
  <2>1. 1 \in 1..i
    BY <1>1
  <2> QED BY <2>1
<1> HIDE DEF seen
<1> QED BY <1>1, <1>2, <1>4, <1>5

Carry(q, header, map) ==
  IF ~validSection(q.section, map) /\ header # {} THEN [q EXCEPT !.section = header] ELSE q

\* Carrying a header forward changes the section only.
LEMMA CarryTyped ==
  ASSUME NEW L, NEW q \in Question(L), NEW header \in SUBSET L, NEW map
  PROVE  /\ Carry(q, header, map) \in Question(L)
         /\ Carry(q, header, map).no = q.no /\ Carry(q, header, map).max = q.max
         /\ Carry(q, header, map).blank = q.blank
         /\ header # {} => \/ validSection(Carry(q, header, map).section, map)
                           \/ Carry(q, header, map).section = header
<1> DEFINE c == [q EXCEPT !.section = header]
<1>1. /\ c \in Question(L) /\ c.no = q.no /\ c.max = q.max /\ c.blank = q.blank
      /\ c.section = header
  BY DEF Question
<1>2. Carry(q, header, map) =
        IF ~validSection(q.section, map) /\ header # {} THEN c ELSE q
  BY DEF Carry
<1> HIDE DEF c
<1> QED BY <1>1, <1>2

OfPages(pages, map) ==
  [i \in DOMAIN pages |->
    [k \in DOMAIN onePageHybrid(pages[i]) |->
      Carry(onePageHybrid(pages[i])[k], Header(pages, i), map)]]

\* The paper is put together page by page.
LEMMA OfPagesTyped ==
  ASSUME NEW L, NEW n, NEW pages, PagesTyped(pages, n, L), NEW map
  PROVE  /\ OfPages(pages, map) \in Seq(Seq(Question(L)))
         /\ Len(OfPages(pages, map)) = n
         /\ \A i \in 1..n :
              /\ Len(OfPages(pages, map)[i]) = Len(onePageHybrid(pages[i]))
              /\ \A k \in 1..Len(onePageHybrid(pages[i])) :
                   /\ onePageHybrid(pages[i])[k] \in Question(L)
                   /\ OfPages(pages, map)[i][k] =
                        Carry(onePageHybrid(pages[i])[k], Header(pages, i), map)
         /\ carrySectionsForward(pages, map) = FlattenSeq(OfPages(pages, map))
<1> DEFINE ss == OfPages(pages, map)
<1>1. n \in Nat /\ DOMAIN pages = 1..n
  BY DEF PagesTyped
<1>2. carrySectionsForward(pages, map) = FlattenSeq(ss)
  BY Zenon DEF carrySectionsForward, OfPages, Carry
<1>3. ASSUME NEW i \in 1..n
      PROVE  /\ ss[i] \in Seq(Question(L)) /\ Len(ss[i]) = Len(onePageHybrid(pages[i]))
             /\ \A k \in 1..Len(onePageHybrid(pages[i])) :
                  /\ onePageHybrid(pages[i])[k] \in Question(L)
                  /\ ss[i][k] = Carry(onePageHybrid(pages[i])[k], Header(pages, i), map)
  <2> DEFINE qs == onePageHybrid(pages[i])
             m == Len(qs)
             h == Header(pages, i)
             cs == [k \in DOMAIN qs |-> Carry(qs[k], h, map)]
  <2>1. ss[i] = cs
    BY <1>1 DEF OfPages
  <2>2. qs \in Seq(Question(L)) /\ h \in SUBSET L
    <3>1. pages[i].questions \in Reply(L)
      BY DEF PagesTyped
    <3> QED BY <3>1, HybridTyped, HeaderIsRead
  <2> HIDE DEF qs, h, ss
  <2>3. m \in Nat /\ DOMAIN qs = 1..m /\ \A k \in 1..m : qs[k] \in Question(L)
    BY <2>2
  <2> HIDE DEF m
  <2>4. \A k \in 1..m : Carry(qs[k], h, map) \in Question(L)
    BY <2>2, <2>3, CarryTyped
  <2>5. cs \in [1..m -> Question(L)] /\ \A k \in 1..m : cs[k] = Carry(qs[k], h, map)
    BY <2>3, <2>4
  <2> HIDE DEF cs
  <2>6. cs \in Seq(Question(L)) /\ Len(cs) = m
    BY <2>3, <2>5
  <2> QED BY <2>1, <2>3, <2>5, <2>6 DEF m, qs, h
<1>4. DOMAIN ss = 1..n /\ ss = [i \in 1..n |-> ss[i]]
  BY <1>1 DEF OfPages
<1> HIDE DEF ss
<1>5. ss \in Seq(Seq(Question(L))) /\ Len(ss) = n
  BY <1>1, <1>3, <1>4, ListsOfLists
<1> QED BY <1>2, <1>3, <1>5 DEF ss

\* Deduplication changes numbers only.
LEMMA DedupeKeeps ==
  ASSUME NEW L, NEW qs \in Seq(Question(L))
  PROVE  /\ dedupeQuestionNos(qs) \in Seq(Question(L))
         /\ Len(dedupeQuestionNos(qs)) = Len(qs)
         /\ \A i \in 1..Len(qs) :
              /\ dedupeQuestionNos(qs)[i].max = qs[i].max
              /\ dedupeQuestionNos(qs)[i].blank = qs[i].blank
              /\ dedupeQuestionNos(qs)[i].section = qs[i].section
              /\ LET before == Cardinality({j \in 1..(i - 1) : qs[j].no = qs[i].no})
                 IN  /\ before \in Nat
                     /\ dedupeQuestionNos(qs)[i].no =
                          IF before = 0 THEN qs[i].no ELSE Append(qs[i].no, before + 1)
<1> DEFINE n == Len(qs)
           before(i) == Cardinality({j \in 1..(i - 1) : qs[j].no = qs[i].no})
           d == dedupeQuestionNos(qs)
<1>1. n \in Nat /\ DOMAIN qs = 1..n /\ \A i \in 1..n : qs[i] \in Question(L)
  OBVIOUS
<1>2. d = [i \in 1..n |-> IF before(i) = 0 THEN qs[i]
                          ELSE [qs[i] EXCEPT !.no = Append(@, before(i) + 1)]]
  BY <1>1 DEF dedupeQuestionNos
<1> HIDE DEF n, d
<1>3. ASSUME NEW i \in 1..n
      PROVE  before(i) \in Nat
  <2> DEFINE D == 1..(i - 1)
             S == {j \in D : qs[j].no = qs[i].no}
  <2>1. IsFiniteSet(D)
    <3>1. i - 1 \in Nat
      BY <1>1
    <3> QED BY <3>1, FS_Interval
  <2>2. S \subseteq D
    OBVIOUS
  <2> HIDE DEF D, S
  <2>3. Cardinality(S) \in Nat
    BY <2>1, <2>2, FS_Subset, FS_CardinalityType
  <2> QED BY <2>3 DEF S, D
<1> HIDE DEF before
<1>4. ASSUME NEW i \in 1..n
      PROVE  /\ d[i] \in Question(L)
             /\ d[i].max = qs[i].max /\ d[i].blank = qs[i].blank /\ d[i].section = qs[i].section
             /\ d[i].no = IF before(i) = 0 THEN qs[i].no ELSE Append(qs[i].no, before(i) + 1)
  <2> DEFINE b == before(i)
             q == qs[i]
             r == [q EXCEPT !.no = Append(@, b + 1)]
  <2>1. d[i] = IF b = 0 THEN q ELSE r
    BY <1>2
  <2>2. b \in Nat /\ q \in Question(L)
    BY <1>1, <1>3
  <2> HIDE DEF b, q
  <2>3. q.no \in Seq(Nat) /\ Append(q.no, b + 1) \in Seq(Nat)
    BY <2>2 DEF Question
  <2>4. r \in Question(L) /\ r.max = q.max /\ r.blank = q.blank /\ r.section = q.section
        /\ r.no = Append(q.no, b + 1)
    BY <2>2, <2>3 DEF Question
  <2> HIDE DEF r
  <2> QED BY <2>1, <2>2, <2>4 DEF b, q
<1>5. d \in [1..n -> Question(L)]
  <2>1. DOMAIN d = 1..n /\ d = [i \in 1..n |-> d[i]]
    BY <1>2
  <2> QED BY <1>4, <2>1
<1>6. d \in Seq(Question(L)) /\ Len(d) = n
  BY <1>1, <1>5
<1> QED BY <1>3, <1>4, <1>6 DEF d, n, before

\* A question is in a section the map or a header names, if any header was read
\* from the first page on; its number is one that is printed.
Headed(q, pages, map) ==
  detectSection(pages[1]) # {} =>
    \/ validSection(q.section, map)
    \/ \E j \in DOMAIN pages : q.section = detectSection(pages[j])
PrintedOn(q, pages) ==
  \E i \in DOMAIN pages : \E j \in 1..Len(pages[i].questions.items) :
    q.no = pages[i].questions.items[j].no /\ q.no # <<>>

\* What a page gives is printed on it and stands under a header, if there is one.
LEMMA CarriedOnPage ==
  ASSUME NEW L, NEW n, NEW pages, PagesTyped(pages, n, L), NEW map,
         NEW i \in 1..n, NEW m \in 1..Len(onePageHybrid(pages[i]))
  PROVE  /\ Headed(OfPages(pages, map)[i][m], pages, map)
         /\ PrintedOn(OfPages(pages, map)[i][m], pages)
<1> DEFINE q == onePageHybrid(pages[i])[m]
           h == Header(pages, i)
           c == Carry(q, h, map)
<1>1. OfPages(pages, map)[i][m] = c /\ q \in Question(L)
  BY OfPagesTyped
<1>2. DOMAIN pages = 1..n /\ pages[i].questions \in Reply(L)
  BY DEF PagesTyped
<1>3. \E j \in 1..Len(pages[i].questions.items) :
        q.no = pages[i].questions.items[j].no /\ q.no # <<>>
  BY <1>2, HybridTyped
<1>4. /\ h \in SUBSET L
      /\ h # {} => \E j \in 1..n : h = detectSection(pages[j])
      /\ detectSection(pages[1]) # {} => h # {}
  BY HeaderIsRead
<1> HIDE DEF q, h
<1>5. c.no = q.no /\ (h # {} => validSection(c.section, map) \/ c.section = h)
  BY <1>1, <1>4, CarryTyped
<1> HIDE DEF c
<1>6. Headed(c, pages, map)
  <2> DEFINE s == c.section
  <2>1. h # {} => validSection(s, map) \/ s = h
    BY <1>5
  <2> HIDE DEF s
  <2>2. detectSection(pages[1]) # {} =>
          validSection(s, map) \/ \E j \in 1..n : s = detectSection(pages[j])
    BY <1>4, <2>1
  <2> QED BY <1>2, <2>2 DEF Headed, s
<1>7. PrintedOn(c, pages)
  <2>1. PICK j \in 1..Len(pages[i].questions.items) :
          q.no = pages[i].questions.items[j].no /\ q.no # <<>>
    BY <1>3
  <2>2. i \in DOMAIN pages /\ c.no = pages[i].questions.items[j].no /\ c.no # <<>>
    BY <1>2, <1>5, <2>1
  <2> QED BY <2>2 DEF PrintedOn
<1> QED BY <1>1, <1>6, <1>7

\* And so it is with the whole paper.
LEMMA FoundArePrinted ==
  ASSUME NEW L, NEW n, NEW pages, PagesTyped(pages, n, L), NEW map
  PROVE  /\ carrySectionsForward(pages, map) \in Seq(Question(L))
         /\ \A k \in DOMAIN carrySectionsForward(pages, map) :
              /\ Headed(carrySectionsForward(pages, map)[k], pages, map)
              /\ PrintedOn(carrySectionsForward(pages, map)[k], pages)
<1> DEFINE ss == OfPages(pages, map)
           F == FlattenSeq(ss)
<1>1. /\ ss \in Seq(Seq(Question(L))) /\ Len(ss) = n /\ carrySectionsForward(pages, map) = F
      /\ \A i \in 1..n : Len(ss[i]) = Len(onePageHybrid(pages[i]))
  BY OfPagesTyped
<1>2. ASSUME NEW i \in 1..n, NEW m \in 1..Len(onePageHybrid(pages[i]))
      PROVE  Headed(ss[i][m], pages, map) /\ PrintedOn(ss[i][m], pages)
  BY CarriedOnPage
<1> HIDE DEF ss
<1>3. F \in Seq(Question(L))
  BY <1>1, FlattenPlaces
<1>4. ASSUME NEW k \in DOMAIN F
      PROVE  Headed(F[k], pages, map) /\ PrintedOn(F[k], pages)
  <2>1. PICK i \in DOMAIN ss : \E m \in DOMAIN ss[i] : F[k] = ss[i][m]
    BY <1>1, FlattenKeeps
  <2>2. PICK m \in DOMAIN ss[i] : F[k] = ss[i][m]
    BY <2>1
  <2>3. i \in 1..n /\ m \in 1..Len(onePageHybrid(pages[i]))
    <3>1. i \in 1..n /\ ss[i] \in Seq(Question(L))
      BY <1>1
    <3>2. Len(ss[i]) = Len(onePageHybrid(pages[i])) /\ DOMAIN ss[i] = 1..Len(ss[i])
      BY <1>1, <3>1
    <3> QED BY <3>1, <3>2
  <2>4. Headed(ss[i][m], pages, map) /\ PrintedOn(ss[i][m], pages)
    BY <1>2, <2>3
  <2> QED BY <2>2, <2>4, Zenon
<1> HIDE DEF F
<1> QED BY <1>1, <1>3, <1>4, Zenon

FoundOn(pages, map) == TranscribeWithModels(pages, map).questions

\* Making numbers unique keeps the questions and their order.
LEMMA FoundTyped ==
  ASSUME NEW L, NEW n, NEW pages, PagesTyped(pages, n, L), NEW map
  PROVE  /\ FoundOn(pages, map) = dedupeQuestionNos(carrySectionsForward(pages, map))
         /\ FoundOn(pages, map) \in Seq(Question(L))
         /\ Len(FoundOn(pages, map)) = Len(carrySectionsForward(pages, map))
<1> DEFINE F == carrySectionsForward(pages, map)
<1>1. FoundOn(pages, map) = dedupeQuestionNos(F)
  BY DEF FoundOn, TranscribeWithModels
<1>2. F \in Seq(Question(L))
  BY FoundArePrinted
<1> HIDE DEF F
<1>3. dedupeQuestionNos(F) \in Seq(Question(L)) /\ Len(dedupeQuestionNos(F)) = Len(F)
  BY <1>2, DedupeKeeps
<1> QED BY <1>1, <1>3 DEF F

\* For any pages the models report: once a header was read on the first, every
\* question is in a section with a budget or one that a header named.
THEOREM SectionsSpanPages ==
  ASSUME NEW L, NEW n, NEW pages, PagesTyped(pages, n, L), NEW map,
         detectSection(pages[1]) # {}
  PROVE  \A k \in DOMAIN FoundOn(pages, map) :
           \/ validSection(FoundOn(pages, map)[k].section, map)
           \/ \E j \in DOMAIN pages : FoundOn(pages, map)[k].section = detectSection(pages[j])
<1> DEFINE F == carrySectionsForward(pages, map)
           D == dedupeQuestionNos(F)
<1>1. FoundOn(pages, map) = D /\ F \in Seq(Question(L)) /\ DOMAIN pages = 1..n
  <2>1. DOMAIN pages = 1..n
    BY DEF PagesTyped
  <2> HIDE DEF D
  <2>2. FoundOn(pages, map) = D /\ F \in Seq(Question(L))
    BY FoundTyped, FoundArePrinted DEF D
  <2> QED BY <2>1, <2>2
<1> SUFFICES ASSUME NEW k \in DOMAIN D
             PROVE  \/ validSection(D[k].section, map)
                    \/ \E j \in 1..n : D[k].section = detectSection(pages[j])
  BY <1>1, Zenon
<1>2. k \in DOMAIN F /\ D[k].section = F[k].section
  <2> HIDE DEF F
  <2>1. D \in Seq(Question(L)) /\ Len(D) = Len(F)
        /\ \A i \in 1..Len(F) : D[i].section = F[i].section
    BY <1>1, DedupeKeeps
  <2> HIDE DEF D
  <2> QED BY <2>1
<1>3. Headed(F[k], pages, map)
  BY <1>2, FoundArePrinted, Zenon
<1> HIDE DEF D, F
<1>4. \/ validSection(F[k].section, map)
      \/ \E j \in DOMAIN pages : F[k].section = detectSection(pages[j])
  BY <1>3, Zenon DEF Headed
<1> QED BY <1>1, <1>2, <1>4, Zenon

\* Numbers of one name each stay apart: repeats get different suffixes.
LEMMA DedupeSeparates ==
  ASSUME NEW L, NEW qs \in Seq(Question(L)), \A i \in 1..Len(qs) : Len(qs[i].no) = 1,
         NEW i \in 1..Len(qs), NEW j \in 1..Len(qs), i < j
  PROVE  dedupeQuestionNos(qs)[i].no # dedupeQuestionNos(qs)[j].no
<1> DEFINE n == Len(qs)
           same(k) == {m \in 1..(k - 1) : qs[m].no = qs[k].no}
           before(k) == Cardinality(same(k))
           d == dedupeQuestionNos(qs)
<1>1. n \in Nat /\ i \in 1..n /\ j \in 1..n /\ i < j
      /\ \A k \in 1..n : qs[k].no \in Seq(Nat) /\ Len(qs[k].no) = 1
  <2>1. \A k \in 1..n : qs[k] \in Question(L)
    OBVIOUS
  <2>2. \A k \in 1..n : qs[k].no \in Seq(Nat)
    BY <2>1 DEF Question
  <2> QED BY <2>2
<1>2. \A k \in 1..n : /\ before(k) \in Nat
                      /\ d[k].no = IF before(k) = 0 THEN qs[k].no
                                   ELSE Append(qs[k].no, before(k) + 1)
  BY DedupeKeeps
<1>3. ASSUME qs[i].no = qs[j].no
      PROVE  before(i) < before(j)
  <2>1. same(i) \subseteq same(j) /\ i \in same(j) /\ i \notin same(i)
    BY <1>1, <1>3
  <2>2. IsFiniteSet(same(j))
    <3>1. j - 1 \in Nat
      BY <1>1
    <3> DEFINE D == 1..(j - 1)
    <3>2. IsFiniteSet(D) /\ same(j) \subseteq D
      BY <3>1, FS_Interval
    <3> HIDE DEF same, D
    <3> QED BY <3>2, FS_Subset
  <2> DEFINE A == same(i)
             B == same(j)
  <2>3. A \subseteq B /\ A # B /\ IsFiniteSet(B)
    BY <2>1, <2>2
  <2> HIDE DEF A, B
  <2>4. Cardinality(A) < Cardinality(B)
    <3>1. IsFiniteSet(A) /\ Cardinality(A) <= Cardinality(B)
          /\ (Cardinality(A) = Cardinality(B) => A = B)
      BY <2>3, FS_Subset
    <3>2. Cardinality(A) \in Nat /\ Cardinality(B) \in Nat
      BY <2>3, <3>1, FS_CardinalityType
    <3> QED BY <2>3, <3>1, <3>2
  <2> QED BY <2>4 DEF A, B
<1> HIDE DEF n, before, d
<1>4. ASSUME NEW k \in 1..n
      PROVE  /\ d[k].no[1] = qs[k].no[1]
             /\ before(k) = 0 => Len(d[k].no) = 1
             /\ before(k) # 0 => Len(d[k].no) = 2 /\ d[k].no[2] = before(k) + 1
  <2> DEFINE q == qs[k].no
             b == before(k)
  <2>1. /\ q \in Seq(Nat) /\ Len(q) = 1 /\ b \in Nat
        /\ d[k].no = IF b = 0 THEN q ELSE Append(q, b + 1)
    BY <1>1, <1>2
  <2> HIDE DEF q, b
  <2>2. Len(Append(q, b + 1)) = 2 /\ Append(q, b + 1)[1] = q[1] /\ Append(q, b + 1)[2] = b + 1
    <3>1. b + 1 \in Nat
      BY <2>1
    <3> QED BY <2>1, <3>1, Suffixed
  <2> QED BY <2>1, <2>2 DEF q, b
<1>5. CASE qs[i].no = qs[j].no
  <2>1. before(i) < before(j) /\ before(i) \in Nat /\ before(j) \in Nat
    BY <1>1, <1>2, <1>3, <1>5
  <2>2. before(j) # 0 /\ before(i) + 1 # before(j) + 1
    BY <2>1
  <2> SUFFICES ASSUME d[i].no = d[j].no PROVE FALSE
    BY DEF d
  <2>3. Len(d[j].no) = 2 /\ d[j].no[2] = before(j) + 1
    BY <1>1, <1>4, <2>2
  <2>4. before(i) # 0 /\ d[i].no[2] = before(i) + 1
    BY <1>1, <1>4, <2>3
  <2> QED BY <2>2, <2>3, <2>4
<1>6. CASE qs[i].no # qs[j].no
  <2> DEFINE p == qs[i].no
             q == qs[j].no
  <2>1. p \in Seq(Nat) /\ Len(p) = 1 /\ q \in Seq(Nat) /\ Len(q) = 1 /\ p # q
    BY <1>1, <1>6
  <2> HIDE DEF p, q
  <2>2. p[1] # q[1]
    <3> SUFFICES ASSUME p[1] = q[1] PROVE FALSE
      OBVIOUS
    <3>1. \A x \in 1..Len(p) : p[x] = q[x]
      BY <2>1
    <3> QED BY <2>1, <3>1, SeqEqual
  <2>3. d[i].no[1] = p[1] /\ d[j].no[1] = q[1]
    BY <1>1, <1>4 DEF p, q
  <2>4. d[i].no # d[j].no
    BY <2>2, <2>3
  <2> QED BY <2>4 DEF d
<1> QED BY <1>5, <1>6

\* What is printed on any page is printed on the paper.
LEMMA PrintedHasAll ==
  ASSUME NEW L, NEW n, NEW pages, PagesTyped(pages, n, L),
         NEW i \in 1..n, NEW j \in 1..Len(pages[i].questions.items)
  PROVE  \E k \in DOMAIN Printed(pages) : Printed(pages)[k] = pages[i].questions.items[j]
<1> DEFINE ss == [m \in DOMAIN pages |-> pages[m].questions.items]
<1>1. n \in Nat /\ DOMAIN pages = 1..n /\ Printed(pages) = FlattenSeq(ss)
      /\ \A m \in 1..n : pages[m].questions.items \in Seq(Item(L))
  <2>1. Printed(pages) = FlattenSeq(ss)
    BY Zenon DEF Printed
  <2>2. \A m \in 1..n : pages[m].questions \in Reply(L)
    BY DEF PagesTyped
  <2> HIDE DEF ss
  <2> QED BY <2>1, <2>2 DEF PagesTyped, Reply
<1>2. DOMAIN ss = 1..n /\ ss = [m \in 1..n |-> ss[m]]
      /\ \A m \in 1..n : ss[m] = pages[m].questions.items
  BY <1>1
<1> HIDE DEF ss
<1>3. ss \in Seq(Seq(Item(L))) /\ Len(ss) = n
  BY <1>1, <1>2, ListsOfLists
<1> DEFINE k == Offset(ss, i - 1) + j
           P == FlattenSeq(ss)
<1>4. P \in Seq(Item(L)) /\ k \in 1..Len(P) /\ P[k] = ss[i][j]
  <2>1. i \in 1..Len(ss) /\ j \in 1..Len(ss[i])
    BY <1>2, <1>3
  <2> HIDE DEF P
  <2> QED BY <1>3, <2>1, FlattenPlaces DEF P
<1> HIDE DEF k, P
<1>5. k \in DOMAIN P /\ P[k] = pages[i].questions.items[j]
  BY <1>2, <1>4
<1> QED BY <1>1, <1>5 DEF P

\* For any pages whose question numbers are printed without a suffix, however
\* often they repeat: no two questions that are found have the same number.
THEOREM NumbersAreUnique ==
  ASSUME NEW L, NEW n, NEW pages, PagesTyped(pages, n, L), NEW map,
         \A i \in DOMAIN Printed(pages) : Len(Printed(pages)[i].no) <= 1
  PROVE  \A i, j \in DOMAIN FoundOn(pages, map) :
           i # j => FoundOn(pages, map)[i].no # FoundOn(pages, map)[j].no
<1> DEFINE F == carrySectionsForward(pages, map)
           D == dedupeQuestionNos(F)
<1>1. FoundOn(pages, map) = D /\ F \in Seq(Question(L)) /\ D \in Seq(Question(L))
      /\ Len(D) = Len(F)
  BY FoundTyped, FoundArePrinted
<1>2. ASSUME NEW k \in 1..Len(F)
      PROVE  Len(F[k].no) = 1
  <2>1. PrintedOn(F[k], pages)
    <3>1. k \in DOMAIN F
      BY <1>1
    <3> QED BY <3>1, FoundArePrinted, Zenon
  <2> HIDE DEF F
  <2>2. PICK i \in DOMAIN pages : \E j \in 1..Len(pages[i].questions.items) :
          F[k].no = pages[i].questions.items[j].no /\ F[k].no # <<>>
    BY <2>1, Zenon DEF PrintedOn
  <2>7. PICK j \in 1..Len(pages[i].questions.items) :
          F[k].no = pages[i].questions.items[j].no /\ F[k].no # <<>>
    BY <2>2
  <2>8. i \in 1..n
    BY DEF PagesTyped
  <2>3. Len(pages[i].questions.items[j].no) <= 1
    <3>1. PICK m \in DOMAIN Printed(pages) :
            Printed(pages)[m] = pages[i].questions.items[j]
      BY <2>8, PrintedHasAll
    <3> QED BY <3>1
  <2>4. F[k].no \in Seq(Nat)
    <3>1. F[k] \in Question(L)
      BY <1>1
    <3> QED BY <3>1 DEF Question
  <2> DEFINE q == F[k].no
  <2>5. q \in Seq(Nat) /\ q # <<>> /\ Len(q) <= 1
    BY <2>7, <2>3, <2>4
  <2> HIDE DEF q
  <2>6. Len(q) = 1
    BY <2>5, OneLong
  <2> QED BY <2>6 DEF q
<1>3. ASSUME NEW i \in 1..Len(F), NEW j \in 1..Len(F), i < j
      PROVE  D[i].no # D[j].no
  <2> HIDE DEF F
  <2> QED BY <1>1, <1>2, <1>3, DedupeSeparates
<1>4. DOMAIN D = 1..Len(F) /\ Len(F) \in Nat
  <2> HIDE DEF D, F
  <2> QED BY <1>1
<1> HIDE DEF D, F
<1>5. ASSUME NEW i \in 1..Len(F), NEW j \in 1..Len(F), i # j
      PROVE  D[i].no # D[j].no
  <2>1. i < j \/ j < i
    BY <1>4, <1>5
  <2> QED BY <1>3, <2>1
<1> QED BY <1>1, <1>4, <1>5

\* What is left of one printed question, of a list of them and of a page.
ItemOf(item) == IF item.no = <<>> THEN <<>> ELSE <<item>>
ItemsOf(items) == [j \in DOMAIN items |-> ItemOf(items[j])]
ReadableOn(page) ==
  IF Lost(page) \/ page.questions.shape = "object" THEN <<>>
  ELSE FlattenSeq(ItemsOf(page.questions.items))
ReadableOf(pages) == [i \in DOMAIN pages |-> ReadableOn(pages[i])]

\* What can be read of the pages is what can be read of each, in order.
LEMMA ReadableByPage ==
  ASSUME NEW pages
  PROVE  Readable(pages) = FlattenSeq(ReadableOf(pages))
BY Zenon DEF Readable, ReadableOf, ReadableOn, ItemsOf, ItemOf

LEMMA ItemOfTyped ==
  ASSUME NEW L, NEW item \in Item(L)
  PROVE  /\ ItemOf(item) \in Seq(Item(L))
         /\ item.no = <<>> => Len(ItemOf(item)) = 0
         /\ item.no # <<>> => Len(ItemOf(item)) = 1 /\ ItemOf(item)[1] = item
<1>1. <<item>> \in Seq(Item(L)) /\ Len(<<item>>) = 1 /\ <<item>>[1] = item
  OBVIOUS
<1>2. <<>> \in Seq(Item(L)) /\ Len(<<>>) = 0
  OBVIOUS
<1>3. CASE item.no = <<>>
  <2>1. ItemOf(item) = <<>>
    BY <1>3 DEF ItemOf
  <2> QED BY <1>2, <1>3, <2>1, Zenon
<1>4. CASE item.no # <<>>
  <2>1. ItemOf(item) = <<item>>
    BY <1>4, Zenon DEF ItemOf
  <2> QED BY <1>1, <1>4, <2>1, Zenon
<1> QED BY <1>3, <1>4

\* What can be read of a list, question by question.
LEMMA ItemsOfTyped ==
  ASSUME NEW L, NEW items \in Seq(Item(L))
  PROVE  /\ ItemsOf(items) \in Seq(Seq(Item(L)))
         /\ Len(ItemsOf(items)) = Len(items)
         /\ \A j \in 1..Len(items) : ItemsOf(items)[j] = ItemOf(items[j])
<1> DEFINE n == Len(items)
           ss == ItemsOf(items)
<1>1. n \in Nat /\ DOMAIN items = 1..n /\ \A j \in 1..n : items[j] \in Item(L)
  OBVIOUS
<1> HIDE DEF n
<1>2. DOMAIN ss = 1..n /\ ss = [j \in 1..n |-> ss[j]] /\ \A j \in 1..n : ss[j] = ItemOf(items[j])
  BY <1>1 DEF ItemsOf
<1> HIDE DEF ss
<1>3. \A j \in 1..n : ss[j] \in Seq(Item(L))
  BY <1>1, <1>2, ItemOfTyped
<1>4. ss \in Seq(Seq(Item(L))) /\ Len(ss) = n
  BY <1>1, <1>2, <1>3, ListsOfLists
<1> QED BY <1>2, <1>4 DEF ss, n

\* The questions with a number are those that are readable.
LEMMA NumberedAreReadable ==
  ASSUME NEW L, NEW items \in Seq(Item(L)), NEW read
  PROVE  /\ NumberedQuestions(items, read) \in Seq(Question(L))
         /\ FlattenSeq(ItemsOf(items)) \in Seq(Item(L))
         /\ Len(NumberedQuestions(items, read)) = Len(FlattenSeq(ItemsOf(items)))
         /\ \A k \in 1..Len(NumberedQuestions(items, read)) :
              NumberedQuestions(items, read)[k].max = FlattenSeq(ItemsOf(items))[k].max
         /\ DOMAIN read = {} =>
              \A k \in 1..Len(NumberedQuestions(items, read)) :
                NumberedQuestions(items, read)[k].blank
<1> DEFINE n == Len(items)
           ss == OfItems(items, read)
           tt == ItemsOf(items)
           F == FlattenSeq(ss)
           G == FlattenSeq(tt)
<1>1. /\ ss \in Seq(Seq(Question(L))) /\ Len(ss) = n
      /\ \A j \in 1..n : ss[j] = OfItem(items[j], read)
      /\ NumberedQuestions(items, read) = F
  BY OfItemsTyped
<1>2. /\ tt \in Seq(Seq(Item(L))) /\ Len(tt) = n
      /\ \A j \in 1..n : tt[j] = ItemOf(items[j])
  BY ItemsOfTyped
<1>3. ASSUME NEW j \in 1..n
      PROVE  /\ Len(ss[j]) = Len(tt[j])
             /\ \A m \in 1..Len(ss[j]) : /\ ss[j][m].max = tt[j][m].max
                                         /\ DOMAIN read = {} => ss[j][m].blank
  <2> DEFINE item == items[j]
             numbered == item.no # <<>>
             p == OfItem(item, read)
             q == ItemOf(item)
  <2>1. item \in Item(L) /\ ss[j] = p /\ tt[j] = q
    BY <1>1, <1>2
  <2> HIDE DEF item, ss, tt
  <2>2. /\ ~numbered => Len(p) = 0
        /\ numbered => /\ Len(p) = 1 /\ p[1].max = item.max
                       /\ item.no \notin DOMAIN read => p[1].blank
    BY <2>1, OfItemTyped
  <2>3. /\ ~numbered => Len(q) = 0
        /\ numbered => Len(q) = 1 /\ q[1] = item
    BY <2>1, ItemOfTyped
  <2> HIDE DEF p, q, numbered
  <2>4. Len(p) = Len(q) /\ \A m \in 1..Len(p) : /\ p[m].max = q[m].max
                                                /\ DOMAIN read = {} => p[m].blank
    BY <2>2, <2>3
  <2> QED BY <2>1, <2>4
<1> HIDE DEF n, ss, tt
<1>4. /\ Len(F) = Len(G)
      /\ \A k \in 1..Len(F) : Together(ss, tt, k)
  <2>1. Len(ss) = Len(tt) /\ \A i \in 1..Len(ss) : Len(ss[i]) = Len(tt[i])
    BY <1>1, <1>2, <1>3
  <2>2. ss \in Seq(Seq(Question(L))) /\ tt \in Seq(Seq(Item(L)))
    BY <1>1, <1>2
  <2> QED BY <2>1, <2>2, FlattenTogether
<1>5. F \in Seq(Question(L)) /\ G \in Seq(Item(L))
  BY <1>1, <1>2, FlattenPlaces
<1>6. ASSUME NEW k \in 1..Len(F)
      PROVE  F[k].max = G[k].max /\ (DOMAIN read = {} => F[k].blank)
  <2>1. PICK i \in 1..Len(ss) : \E j \in 1..Len(ss[i]) : F[k] = ss[i][j] /\ G[k] = tt[i][j]
    BY <1>4 DEF Together
  <2>2. PICK j \in 1..Len(ss[i]) : F[k] = ss[i][j] /\ G[k] = tt[i][j]
    BY <2>1
  <2>3. i \in 1..n
    BY <1>1
  <2>4. ss[i][j].max = tt[i][j].max /\ (DOMAIN read = {} => ss[i][j].blank)
    BY <1>3, <2>3
  <2> QED BY <2>2, <2>4, Zenon
<1> HIDE DEF F, G
<1> QED BY <1>1, <1>4, <1>5, <1>6 DEF F, G, tt

\* What a page gives is what is readable on it; all of it is blank if its
\* answers were not read.
LEMMA HybridIsReadable ==
  ASSUME NEW L, NEW page, page.questions \in Reply(L)
  PROVE  /\ ReadableOn(page) \in Seq(Item(L))
         /\ Len(onePageHybrid(page)) = Len(ReadableOn(page))
         /\ \A k \in 1..Len(onePageHybrid(page)) :
              onePageHybrid(page)[k].max = ReadableOn(page)[k].max
         /\ page.answers.shape = "failed" =>
              \A k \in 1..Len(onePageHybrid(page)) : onePageHybrid(page)[k].blank
<1> DEFINE items == parseQuestions(page.questions).items
           read  == readAnswersFor(page.answers)
           N     == NumberedQuestions(items, read)
           R     == FlattenSeq(ItemsOf(items))
<1>0. <<>> \in Seq(Item(L)) /\ Len(<<>>) = 0
  OBVIOUS
<1>1. CASE ~page.ocr
  <2>1. onePageHybrid(page) = <<>> /\ ReadableOn(page) = <<>>
    BY <1>1, Zenon DEF onePageHybrid, ReadableOn, Lost
  <2> QED BY <1>0, <2>1
<1>2. CASE page.ocr
  <2>1. onePageHybrid(page) = N
    BY <1>2, Zenon DEF onePageHybrid
  <2>2. /\ items \in Seq(Item(L))
        /\ page.questions.shape \in {"array", "wrapped"} => items = page.questions.items
        /\ page.questions.shape \notin {"array", "wrapped"} => items = <<>>
    BY ParsedItems
  <2>3. page.answers.shape = "failed" => DOMAIN read = {}
    <3> SUFFICES ASSUME page.answers.shape = "failed" PROVE DOMAIN read = {}
      OBVIOUS
    <3>1. parseAnswers(page.answers) = Failed
      BY DEF parseAnswers, parseItems
    <3>2. DOMAIN parseAnswers(page.answers).items = {}
      BY <3>1 DEF Failed
    <3>3. DOMAIN read = {parseAnswers(page.answers).items[i].no :
                           i \in DOMAIN parseAnswers(page.answers).items}
      BY DEF readAnswersFor
    <3> QED BY <3>2, <3>3
  <2> HIDE DEF items, read
  <2>4. /\ R \in Seq(Item(L)) /\ Len(N) = Len(R)
        /\ \A k \in 1..Len(N) : N[k].max = R[k].max
        /\ DOMAIN read = {} => \A k \in 1..Len(N) : N[k].blank
    BY <2>2, NumberedAreReadable
  <2>5. ReadableOn(page) = R
    <3>1. CASE page.questions.shape \in {"array", "wrapped"}
      <4>1. ~Lost(page) /\ page.questions.shape # "object"
        BY <1>2, <3>1 DEF Lost
      <4> QED BY <2>2, <3>1, <4>1, Zenon DEF ReadableOn
    <3>2. CASE page.questions.shape \notin {"array", "wrapped"}
      <4>1. Lost(page) \/ page.questions.shape = "object"
        BY <3>2 DEF Lost, Reply
      <4>2. ReadableOn(page) = <<>>
        BY <4>1, Zenon DEF ReadableOn
      <4>3. items = <<>>
        BY <2>2, <3>2
      <4>4. ItemsOf(<<>>) = <<>> /\ FlattenSeq(<<>>) = <<>>
        <5>1. ItemsOf(<<>>) = <<>>
          BY DEF ItemsOf
        <5>2. FlattenSeq(<<>>) = <<>>
          BY DEF FlattenSeq
        <5> QED BY <5>1, <5>2
      <4> QED BY <4>2, <4>3, <4>4, Zenon
    <3> QED BY <3>1, <3>2
  <2> HIDE DEF N, R
  <2> QED BY <2>1, <2>3, <2>4, <2>5
<1> QED BY <1>1, <1>2

LEMMA ReadableTyped ==
  ASSUME NEW L, NEW n, NEW pages, PagesTyped(pages, n, L)
  PROVE  /\ ReadableOf(pages) \in Seq(Seq(Item(L)))
         /\ Len(ReadableOf(pages)) = n
         /\ \A i \in 1..n : ReadableOf(pages)[i] = ReadableOn(pages[i])
         /\ Readable(pages) = FlattenSeq(ReadableOf(pages))
         /\ Readable(pages) \in Seq(Item(L))
<1> DEFINE ss == ReadableOf(pages)
<1>1. n \in Nat /\ DOMAIN pages = 1..n /\ \A i \in 1..n : pages[i].questions \in Reply(L)
  BY DEF PagesTyped
<1>2. /\ DOMAIN ss = 1..n /\ ss = [i \in 1..n |-> ss[i]]
      /\ \A i \in 1..n : ss[i] = ReadableOn(pages[i])
  BY <1>1 DEF ReadableOf
<1>3. Readable(pages) = FlattenSeq(ss)
  BY ReadableByPage
<1> HIDE DEF ss
<1>4. \A i \in 1..n : ss[i] \in Seq(Item(L))
  BY <1>1, <1>2, HybridIsReadable
<1>5. ss \in Seq(Seq(Item(L))) /\ Len(ss) = n
  BY <1>1, <1>2, <1>4, ListsOfLists
<1>6. FlattenSeq(ss) \in Seq(Item(L))
  BY <1>5, FlattenPlaces
<1> QED BY <1>2, <1>3, <1>5, <1>6 DEF ss

\* For any pages the models report and any mark map: the paper has the questions
\* of every page that is not lost, in order, with their maxima, whatever failed.
THEOREM PagesKept ==
  ASSUME NEW L, NEW n, NEW pages, PagesTyped(pages, n, L), NEW map
  PROVE  /\ FoundOn(pages, map) \in Seq(Question(L))
         /\ Len(FoundOn(pages, map)) = Len(Readable(pages))
         /\ \A k \in DOMAIN FoundOn(pages, map) :
              FoundOn(pages, map)[k].max = Readable(pages)[k].max
<1> DEFINE ss == OfPages(pages, map)
           tt == ReadableOf(pages)
           F == FlattenSeq(ss)
           G == FlattenSeq(tt)
           D == dedupeQuestionNos(carrySectionsForward(pages, map))
<1>1. /\ ss \in Seq(Seq(Question(L))) /\ Len(ss) = n /\ carrySectionsForward(pages, map) = F
      /\ \A i \in 1..n :
           /\ Len(ss[i]) = Len(onePageHybrid(pages[i]))
           /\ \A k \in 1..Len(onePageHybrid(pages[i])) :
                /\ onePageHybrid(pages[i])[k] \in Question(L)
                /\ ss[i][k] = Carry(onePageHybrid(pages[i])[k], Header(pages, i), map)
  BY OfPagesTyped
<1>2. /\ tt \in Seq(Seq(Item(L))) /\ Len(tt) = n /\ Readable(pages) = G
      /\ \A i \in 1..n : tt[i] = ReadableOn(pages[i])
  BY ReadableTyped
<1>3. ASSUME NEW i \in 1..n
      PROVE  /\ Len(ss[i]) = Len(tt[i])
             /\ \A m \in 1..Len(ss[i]) : ss[i][m].max = tt[i][m].max
  <2> DEFINE qs == onePageHybrid(pages[i])
             r  == ReadableOn(pages[i])
             h  == Header(pages, i)
  <2>1. pages[i].questions \in Reply(L)
    BY DEF PagesTyped
  <2>2. Len(qs) = Len(r) /\ \A k \in 1..Len(qs) : qs[k].max = r[k].max
    BY <2>1, HybridIsReadable
  <2>3. h \in SUBSET L
    BY HeaderIsRead
  <2>4. /\ tt[i] = r /\ Len(ss[i]) = Len(qs)
        /\ \A k \in 1..Len(qs) : qs[k] \in Question(L) /\ ss[i][k] = Carry(qs[k], h, map)
    BY <1>1, <1>2
  <2> HIDE DEF qs, r, h, ss, tt
  <2>5. ASSUME NEW k \in 1..Len(qs)
        PROVE  ss[i][k].max = qs[k].max
    <3>1. ss[i][k] = Carry(qs[k], h, map) /\ qs[k] \in Question(L)
      BY <2>4
    <3>2. Carry(qs[k], h, map).max = qs[k].max
      BY <2>3, <3>1, CarryTyped
    <3> QED BY <3>1, <3>2, Zenon
  <2> QED BY <2>2, <2>4, <2>5
<1> HIDE DEF ss, tt
<1>4. /\ Len(F) = Len(G)
      /\ \A k \in 1..Len(F) : Together(ss, tt, k)
  <2>1. Len(ss) = Len(tt) /\ \A i \in 1..Len(ss) : Len(ss[i]) = Len(tt[i])
    BY <1>1, <1>2, <1>3
  <2>2. ss \in Seq(Seq(Question(L))) /\ tt \in Seq(Seq(Item(L)))
    BY <1>1, <1>2
  <2> QED BY <2>1, <2>2, FlattenTogether
<1>5. F \in Seq(Question(L))
  BY <1>1, FlattenPlaces
<1>6. ASSUME NEW k \in 1..Len(F)
      PROVE  F[k].max = G[k].max
  <2>1. PICK i \in 1..Len(ss) : \E j \in 1..Len(ss[i]) : F[k] = ss[i][j] /\ G[k] = tt[i][j]
    BY <1>4 DEF Together
  <2>2. PICK j \in 1..Len(ss[i]) : F[k] = ss[i][j] /\ G[k] = tt[i][j]
    BY <2>1
  <2>3. i \in 1..n
    BY <1>1
  <2>4. ss[i][j].max = tt[i][j].max
    BY <1>3, <2>3
  <2> QED BY <2>2, <2>4, Zenon
<1>7. FoundOn(pages, map) = D /\ D \in Seq(Question(L)) /\ Len(D) = Len(F)
      /\ \A k \in 1..Len(F) : D[k].max = F[k].max
  <2>1. FoundOn(pages, map) = D
    BY FoundTyped
  <2> HIDE DEF F
  <2>2. D = dedupeQuestionNos(F)
    BY <1>1
  <2> HIDE DEF D
  <2>3. /\ dedupeQuestionNos(F) \in Seq(Question(L)) /\ Len(dedupeQuestionNos(F)) = Len(F)
        /\ \A k \in 1..Len(F) : dedupeQuestionNos(F)[k].max = F[k].max
    BY <1>5, DedupeKeeps
  <2> QED BY <2>1, <2>2, <2>3
<1> HIDE DEF D, F, G
<1>8. DOMAIN D = 1..Len(F)
  BY <1>7
<1> QED BY <1>2, <1>4, <1>6, <1>7, <1>8

---------------------------------------------------------------------------
\* The maxima of questions as a function, and what a list is worth.
Maximum(L) == [x \in Item(L) |-> x.max]

\* The worth of a list is a sum of naturals over its positions.
LEMMA WorthOf ==
  ASSUME NEW L, NEW s \in Seq(Item(L))
  PROVE  /\ Maximum(L) \in [Item(L) -> Int]
         /\ \A x \in Item(L) : Maximum(L)[x] = x.max /\ x.max \in Nat
         /\ Worth(s) = SumFunction([k \in DOMAIN s |-> Maximum(L)[s[k]]])
         /\ Worth(s) \in Nat
<1>1. \A x \in Item(L) : Maximum(L)[x] = x.max /\ x.max \in Nat
  BY DEF Maximum, Item
<1>2. Maximum(L) \in [Item(L) -> Int]
  BY DEF Maximum, Item
<1> DEFINE n == Len(s)
           f == [k \in DOMAIN s |-> Maximum(L)[s[k]]]
           g == [i \in DOMAIN s |-> s[i].max]
<1>3. n \in Nat /\ DOMAIN s = 1..n /\ \A k \in 1..n : s[k] \in Item(L)
  OBVIOUS
<1> HIDE DEF n
<1>4. f = g /\ g \in [1..n -> Nat]
  <2>1. \A k \in 1..n : Maximum(L)[s[k]] = s[k].max /\ s[k].max \in Nat
    BY <1>1, <1>3
  <2> QED BY <1>3, <2>1
<1>5. Worth(s) = SumFunction(g)
  BY Zenon DEF Worth
<1>6. IsFiniteSet(1..n)
  BY <1>3, FS_Interval
<1> HIDE DEF f, g
<1>7. SumFunction(g) \in Nat
  BY <1>4, <1>6, SumIsNatural
<1> QED BY <1>1, <1>2, <1>4, <1>5, <1>7 DEF f

\* Of no question it is 0, of one its maximum.
LEMMA WorthOfFew ==
  ASSUME NEW L, NEW s \in Seq(Item(L))
  PROVE  /\ Len(s) = 0 => Worth(s) = 0
         /\ Len(s) = 1 => Worth(s) = s[1].max
<1> DEFINE g == [i \in DOMAIN s |-> s[i].max]
           D == DOMAIN s
<1>1. Worth(s) = SumFunction(g)
  BY Zenon DEF Worth
<1>2. CASE Len(s) = 0
  <2>1. D = {} /\ g \in [{} -> Int]
    BY <1>2
  <2> HIDE DEF g, D
  <2>2. SumFunction(g) = 0
    BY <2>1, FS_EmptySet, SumOfZeros
  <2> QED BY <1>1, <1>2, <2>2
<1>3. CASE Len(s) = 1
  <2>1. s[1] \in Item(L) /\ D = {1}
    BY <1>3
  <2>2. g \in [{1} -> Int] /\ g[1] = s[1].max
    BY <2>1 DEF Item
  <2> HIDE DEF g, D
  <2>3. IsFiniteSet({1}) /\ {1} \in SUBSET {1} /\ 1 \in {1}
    BY FS_Singleton
  <2>4. SumFunction(g) = SumOn(g, {1}) /\ SumOn(g, {}) = 0
        /\ SumOn(g, {1}) = g[1] + SumOn(g, {1} \ {1})
    BY <2>2, <2>3, SumSplits
  <2>5. {1} \ {1} = {}
    OBVIOUS
  <2>6. SumOn(g, {1} \ {1}) = SumOn(g, {})
    BY <2>5, Zenon
  <2>7. g[1] \in Int
    BY <2>2
  <2>8. SumFunction(g) = g[1]
    BY <2>4, <2>6, <2>7
  <2> QED BY <1>1, <1>3, <2>2, <2>8
<1> QED BY <1>2, <1>3

\* A list of lists is worth the sum of what these are.
LEMMA WorthByList ==
  ASSUME NEW L, NEW ss \in Seq(Seq(Item(L)))
  PROVE  /\ Worth(FlattenSeq(ss)) = SumFunction([i \in DOMAIN ss |-> Worth(ss[i])])
         /\ [i \in DOMAIN ss |-> Worth(ss[i])] \in [1..Len(ss) -> Nat]
<1> DEFINE n == Len(ss)
           w == Maximum(L)
           F == FlattenSeq(ss)
           Block(i) == SumFunction([j \in DOMAIN ss[i] |-> w[ss[i][j]]])
<1>1. n \in Nat /\ DOMAIN ss = 1..n /\ \A i \in 1..n : ss[i] \in Seq(Item(L))
  OBVIOUS
<1>2. F \in Seq(Item(L))
  BY FlattenPlaces
<1>3. w \in [Item(L) -> Int]
  BY <1>2, WorthOf
<1>4. Worth(F) = SumFunction([k \in DOMAIN F |-> w[F[k]]])
  <2> HIDE DEF F
  <2> QED BY <1>2, WorthOf
<1> HIDE DEF w
<1>5. SumFunction([k \in DOMAIN F |-> w[F[k]]]) = SumFunction([i \in DOMAIN ss |-> Block(i)])
  BY <1>3, FlattenSum
<1>6. ASSUME NEW i \in 1..n PROVE Block(i) = Worth(ss[i]) /\ Worth(ss[i]) \in Nat
  <2> DEFINE s == ss[i]
  <2>1. s \in Seq(Item(L))
    BY <1>1
  <2> HIDE DEF s
  <2>2. /\ Worth(s) = SumFunction([j \in DOMAIN s |-> w[s[j]]])
        /\ Worth(s) \in Nat
    BY <2>1, WorthOf DEF w
  <2> QED BY <2>2 DEF s
<1> HIDE DEF Block, n, F
<1>7. [i \in DOMAIN ss |-> Block(i)] = [i \in DOMAIN ss |-> Worth(ss[i])]
      /\ [i \in DOMAIN ss |-> Worth(ss[i])] \in [1..n -> Nat]
  BY <1>1, <1>6
<1>8. Worth(F) = SumFunction([i \in DOMAIN ss |-> Block(i)])
  BY <1>4, <1>5, Zenon DEF Block
<1>9. Worth(F) = SumFunction([i \in DOMAIN ss |-> Worth(ss[i])])
  BY <1>7, <1>8, Zenon
<1> QED BY <1>7, <1>9 DEF F, n

\* What can be read of a page is worth no more than what is printed on it, and
\* less if it is nothing.
Marked(page) == \A j \in 1..Len(page.questions.items) : page.questions.items[j].max > 0

\* Dropping questions without a number adds no worth.
LEMMA ItemsWorth ==
  ASSUME NEW L, NEW items \in Seq(Item(L))
  PROVE  /\ Worth(FlattenSeq(ItemsOf(items))) \in Nat
         /\ Worth(items) \in Nat
         /\ Worth(FlattenSeq(ItemsOf(items))) <= Worth(items)
<1> DEFINE n == Len(items)
           ss == ItemsOf(items)
           f == [i \in DOMAIN ss |-> Worth(ss[i])]
           g == [i \in DOMAIN items |-> items[i].max]
<1>1. n \in Nat /\ DOMAIN items = 1..n /\ \A j \in 1..n : items[j] \in Item(L)
  OBVIOUS
<1>2. /\ ss \in Seq(Seq(Item(L))) /\ Len(ss) = n
      /\ \A j \in 1..n : ss[j] = ItemOf(items[j])
  BY ItemsOfTyped
<1> HIDE DEF n, ss
<1>3. Worth(FlattenSeq(ss)) = SumFunction(f) /\ f \in [1..n -> Nat]
  BY <1>2, WorthByList
<1>4. Worth(items) = SumFunction(g) /\ Worth(items) \in Nat
  BY Zenon, WorthOf DEF Worth
<1>5. ASSUME NEW i \in 1..n PROVE f[i] <= g[i] /\ f[i] \in Nat /\ g[i] \in Nat
  <2> DEFINE item == items[i]
             s == ItemOf(item)
             numbered == item.no # <<>>
  <2>1. item \in Item(L) /\ f[i] = Worth(s) /\ g[i] = item.max
    BY <1>1, <1>2
  <2>2. item.max \in Nat
    BY <2>1 DEF Item
  <2>3. /\ s \in Seq(Item(L)) /\ (~numbered => Len(s) = 0)
        /\ (numbered => Len(s) = 1 /\ s[1] = item)
    BY <2>1, ItemOfTyped
  <2> HIDE DEF item, s, numbered, f, g
  <2>4. (Len(s) = 0 => Worth(s) = 0) /\ (Len(s) = 1 => Worth(s) = s[1].max)
    BY <2>3, WorthOfFew
  <2>5. Worth(s) = 0 \/ Worth(s) = item.max
    BY <2>3, <2>4
  <2> QED BY <2>1, <2>2, <2>5
<1>6. g \in [1..n -> Nat] /\ IsFiniteSet(1..n)
  <2>1. \A i \in 1..n : items[i].max \in Nat
    BY <1>5, <1>1
  <2> QED BY <1>1, <2>1, FS_Interval
<1> HIDE DEF f, g
<1>7. SumFunction(f) <= SumFunction(g)
  <2>1. f \in [1..n -> Int] /\ g \in [1..n -> Int]
    BY <1>3, <1>6
  <2> QED BY <1>5, <1>6, <2>1, SumMonotone
<1>8. SumFunction(f) \in Nat
  BY <1>3, <1>6, SumIsNatural
<1> QED BY <1>3, <1>4, <1>7, <1>8 DEF ss

\* Questions with maxima are worth something.
LEMMA MarkedIsWorth ==
  ASSUME NEW L, NEW items \in Seq(Item(L)), items # <<>>,
         \A j \in 1..Len(items) : items[j].max > 0
  PROVE  Worth(items) > 0
<1> DEFINE n == Len(items)
           f == [i \in 1..n |-> 0]
           g == [i \in DOMAIN items |-> items[i].max]
<1>1. n \in Nat /\ DOMAIN items = 1..n /\ \A j \in 1..n : items[j] \in Item(L)
  OBVIOUS
<1>2. n # 0
  BY EmptySeq, Zenon
<1>3. \A j \in 1..n : items[j].max \in Nat /\ items[j].max > 0
  BY <1>1 DEF Item
<1>4. Worth(items) = SumFunction(g)
  BY Zenon DEF Worth
<1> HIDE DEF n
<1>5. /\ f \in [1..n -> Int] /\ g \in [1..n -> Int] /\ IsFiniteSet(1..n) /\ 1 \in 1..n
      /\ \A i \in 1..n : f[i] = 0 /\ f[i] < g[i] /\ f[i] <= g[i]
  BY <1>1, <1>2, <1>3, FS_Interval
<1> HIDE DEF f, g
<1>6. SumFunction(f) < SumFunction(g)
  BY <1>5, SumStrict
<1>7. SumFunction(f) = 0
  BY <1>5, SumOfZeros
<1> QED BY <1>4, <1>6, <1>7

\* A page is worth no more to the reader than to the printer, and less if nothing of it is read.
LEMMA PageWorth ==
  ASSUME NEW L, NEW page, page.questions \in Reply(L), Marked(page)
  PROVE  /\ Worth(ReadableOn(page)) \in Nat
         /\ Worth(page.questions.items) \in Nat
         /\ Worth(ReadableOn(page)) <= Worth(page.questions.items)
         /\ page.questions.items # <<>> /\ Len(ReadableOn(page)) = 0 =>
              Worth(ReadableOn(page)) < Worth(page.questions.items)
<1> DEFINE items == page.questions.items
           r == ReadableOn(page)
           R == FlattenSeq(ItemsOf(items))
<1>1. items \in Seq(Item(L)) /\ <<>> \in Seq(Item(L)) /\ Len(<<>>) = 0
  BY DEF Reply
<1>2. items # <<>> => Worth(items) > 0
  <2>1. \A j \in 1..Len(items) : items[j].max > 0
    BY DEF Marked
  <2> HIDE DEF items
  <2> QED BY <1>1, <2>1, MarkedIsWorth
<1>3. r = R \/ r = <<>>
  BY Zenon DEF ReadableOn
<1>4. r \in Seq(Item(L))
  BY HybridIsReadable
<1> HIDE DEF items, r
<1>5. Worth(items) \in Nat /\ Worth(R) \in Nat /\ Worth(R) <= Worth(items)
  BY <1>1, ItemsWorth
<1>6. Len(r) = 0 => Worth(r) = 0
  BY <1>4, WorthOfFew
<1>7. Worth(r) = Worth(R) \/ Len(r) = 0
  BY <1>1, <1>3, Zenon
<1> HIDE DEF R
<1>8. Worth(r) \in Nat /\ Worth(r) <= Worth(items)
      /\ (items # <<>> /\ Len(r) = 0 => Worth(r) < Worth(items))
  <2> DEFINE some == items # <<>>
             w == Worth(items)
             v == Worth(r)
             u == Worth(R)
             len == Len(r)
  <2>1. w \in Nat /\ u \in Nat /\ u <= w /\ (some => w > 0) /\ (len = 0 => v = 0) /\ (v = u \/ len = 0)
    BY <1>2, <1>5, <1>6, <1>7
  <2> HIDE DEF some, w, v, u, len
  <2>2. v \in Nat /\ v <= w /\ (some /\ len = 0 => v < w)
    BY <2>1
  <2> QED BY <2>2 DEF some, w, v, len
<1> QED BY <1>5, <1>8 DEF items, r

PrintedOf(pages) == [i \in DOMAIN pages |-> pages[i].questions.items]

LEMMA PrintedTyped ==
  ASSUME NEW L, NEW n, NEW pages, PagesTyped(pages, n, L)
  PROVE  /\ PrintedOf(pages) \in Seq(Seq(Item(L)))
         /\ Len(PrintedOf(pages)) = n
         /\ \A i \in 1..n : PrintedOf(pages)[i] = pages[i].questions.items
         /\ Printed(pages) = FlattenSeq(PrintedOf(pages))
<1> DEFINE ss == PrintedOf(pages)
<1>1. n \in Nat /\ DOMAIN pages = 1..n /\ \A i \in 1..n : pages[i].questions \in Reply(L)
  BY DEF PagesTyped
<1>2. \A i \in 1..n : pages[i].questions.items \in Seq(Item(L))
  BY <1>1 DEF Reply
<1>3. /\ DOMAIN ss = 1..n /\ ss = [i \in 1..n |-> ss[i]]
      /\ \A i \in 1..n : ss[i] = pages[i].questions.items
  BY <1>1 DEF PrintedOf
<1>4. Printed(pages) = FlattenSeq(ss)
  BY Zenon DEF Printed, PrintedOf
<1> HIDE DEF ss
<1>5. ss \in Seq(Seq(Item(L))) /\ Len(ss) = n
  BY <1>1, <1>2, <1>3, ListsOfLists
<1> QED BY <1>3, <1>4, <1>5 DEF ss

\* The paper is worth no more than what is printed, and less if a page with
\* questions gave none.
LEMMA PaperWorth ==
  ASSUME NEW L, NEW n, NEW pages, PagesTyped(pages, n, L), \A i \in 1..n : Marked(pages[i])
  PROVE  /\ Worth(Readable(pages)) \in Int
         /\ Worth(Printed(pages)) \in Int
         /\ (\E i \in 1..n : /\ pages[i].questions.items # <<>>
                             /\ Len(ReadableOn(pages[i])) = 0) =>
              Worth(Readable(pages)) < Worth(Printed(pages))
<1> DEFINE ss == ReadableOf(pages)
           tt == PrintedOf(pages)
           f == [i \in DOMAIN ss |-> Worth(ss[i])]
           g == [i \in DOMAIN tt |-> Worth(tt[i])]
<1>1. /\ ss \in Seq(Seq(Item(L))) /\ Len(ss) = n /\ Readable(pages) = FlattenSeq(ss)
      /\ \A i \in 1..n : ss[i] = ReadableOn(pages[i])
  BY ReadableTyped
<1>2. /\ tt \in Seq(Seq(Item(L))) /\ Len(tt) = n /\ Printed(pages) = FlattenSeq(tt)
      /\ \A i \in 1..n : tt[i] = pages[i].questions.items
  BY PrintedTyped
<1> HIDE DEF ss, tt
<1>3. Worth(Readable(pages)) = SumFunction(f) /\ f \in [1..n -> Nat]
  BY <1>1, WorthByList
<1>4. Worth(Printed(pages)) = SumFunction(g) /\ g \in [1..n -> Nat]
  BY <1>2, WorthByList
<1>5. n \in Nat /\ IsFiniteSet(1..n) /\ DOMAIN ss = 1..n /\ DOMAIN tt = 1..n
  <2>1. n \in Nat
    BY DEF PagesTyped
  <2> QED BY <1>1, <1>2, <2>1, FS_Interval
<1>6. ASSUME NEW i \in 1..n
      PROVE  /\ f[i] <= g[i]
             /\ pages[i].questions.items # <<>> /\ Len(ReadableOn(pages[i])) = 0 => f[i] < g[i]
  <2> DEFINE page == pages[i]
  <2>1. page.questions \in Reply(L) /\ Marked(page)
    BY DEF PagesTyped
  <2>2. f[i] = Worth(ReadableOn(page)) /\ g[i] = Worth(page.questions.items)
    BY <1>1, <1>2, <1>5
  <2> HIDE DEF page, f, g
  <2>3. /\ Worth(ReadableOn(page)) <= Worth(page.questions.items)
        /\ page.questions.items # <<>> /\ Len(ReadableOn(page)) = 0 =>
              Worth(ReadableOn(page)) < Worth(page.questions.items)
    BY <2>1, PageWorth
  <2> QED BY <2>2, <2>3 DEF page
<1> HIDE DEF f, g
<1>7. f \in [1..n -> Int] /\ g \in [1..n -> Int]
  BY <1>3, <1>4
<1>8. SumFunction(f) \in Int /\ SumFunction(g) \in Int
  BY <1>5, <1>7, SumIsInteger
<1>9. ASSUME NEW i \in 1..n, pages[i].questions.items # <<>>, Len(ReadableOn(pages[i])) = 0
      PROVE  SumFunction(f) < SumFunction(g)
  <2>1. f[i] < g[i] /\ \A k \in 1..n : f[k] <= g[k]
    BY <1>6, <1>9
  <2> QED BY <1>5, <1>7, <2>1, SumStrict
<1> QED BY <1>3, <1>4, <1>8, <1>9

\* The questions of a page whose answers were not read are blank on the paper.
LEMMA UnreadIsBlank ==
  ASSUME NEW L, NEW n, NEW pages, PagesTyped(pages, n, L), NEW map, NEW i \in 1..n,
         pages[i].answers.shape = "failed", Len(ReadableOn(pages[i])) # 0
  PROVE  \E k \in DOMAIN FoundOn(pages, map) : FoundOn(pages, map)[k].blank
<1> DEFINE ss == OfPages(pages, map)
           F == FlattenSeq(ss)
           D == dedupeQuestionNos(F)
           qs == onePageHybrid(pages[i])
           h == Header(pages, i)
           k == Offset(ss, i - 1) + 1
<1>1. /\ ss \in Seq(Seq(Question(L))) /\ Len(ss) = n /\ carrySectionsForward(pages, map) = F
      /\ \A m \in 1..n :
           /\ Len(ss[m]) = Len(onePageHybrid(pages[m]))
           /\ \A j \in 1..Len(onePageHybrid(pages[m])) :
                /\ onePageHybrid(pages[m])[j] \in Question(L)
                /\ ss[m][j] = Carry(onePageHybrid(pages[m])[j], Header(pages, m), map)
  BY OfPagesTyped
<1>2. h \in SUBSET L
  BY HeaderIsRead
<1>3. qs \in Seq(Question(L)) /\ Len(qs) # 0 /\ \A j \in 1..Len(qs) : qs[j].blank
  <2>1. pages[i].questions \in Reply(L)
    BY DEF PagesTyped
  <2> QED BY <2>1, HybridTyped, HybridIsReadable
<1>4. Len(ss[i]) = Len(qs) /\ \A j \in 1..Len(qs) :
        qs[j] \in Question(L) /\ ss[i][j] = Carry(qs[j], h, map)
  BY <1>1
<1> HIDE DEF ss, qs, h
<1>5. 1 \in 1..Len(qs)
  BY <1>3
<1>6. ss[i][1].blank
  <2>1. Carry(qs[1], h, map).blank = qs[1].blank
    BY <1>2, <1>4, <1>5, CarryTyped
  <2> QED BY <1>3, <1>4, <1>5, <2>1
<1>7. F \in Seq(Question(L)) /\ k \in 1..Len(F) /\ F[k] = ss[i][1]
  <2>1. i \in 1..Len(ss) /\ 1 \in 1..Len(ss[i])
    BY <1>1, <1>4, <1>5
  <2> HIDE DEF F
  <2> QED BY <1>1, <2>1, FlattenPlaces DEF F
<1> HIDE DEF F, k
<1>8. D \in Seq(Question(L)) /\ Len(D) = Len(F) /\ D[k].blank = F[k].blank
  BY <1>7, DedupeKeeps
<1>9. FoundOn(pages, map) = D
  <2>1. FoundOn(pages, map) = dedupeQuestionNos(carrySectionsForward(pages, map))
    BY FoundTyped
  <2> QED BY <1>1, <2>1
<1> HIDE DEF D
<1>10. k \in DOMAIN D /\ D[k].blank
  BY <1>6, <1>7, <1>8
<1> QED BY <1>9, <1>10

\* The flags of a paper as a whole.
LEMMA FlagsOf ==
  ASSUME NEW L, NEW paper, paper.questions \in Seq(Question(L)), NEW e \in Int,
         paper.expected = {e}, NEW detected \in Int,
         detected = SumFunction([i \in DOMAIN paper.questions |-> paper.questions[i].max]),
         detected # e \/ \E k \in DOMAIN paper.questions : paper.questions[k].blank
  PROVE  EvaluateGates(computeFlags(paper), DefaultTunables) # {}
<1> DEFINE tf == computeFlags(paper)
           B == {i \in DOMAIN paper.questions : paper.questions[i].blank}
<1>1. /\ tf.checksumOK = ({detected - x : x \in paper.expected} \subseteq {0})
      /\ tf.blanks = Cardinality(B)
  BY DEF computeFlags, Blanks
<1>2. CASE detected # e
  <2>1. detected - e \notin {0} /\ detected - e \in {detected - x : x \in paper.expected}
    BY <1>2
  <2>2. ~tf.checksumOK
    BY <1>1, <2>1
  <2> HIDE DEF tf
  <2>3. "checksum_mismatch" \in EvaluateGates(tf, DefaultTunables)
    BY <2>2 DEF EvaluateGates, QualityFlags
  <2> QED BY <2>3 DEF tf
<1>3. CASE \E k \in DOMAIN paper.questions : paper.questions[k].blank
  <2> DEFINE len == Len(paper.questions)
  <2>1. B # {} /\ IsFiniteSet(B)
    <3>1. B # {} /\ B \subseteq 1..len /\ len \in Nat
      BY <1>3
    <3> HIDE DEF B, len
    <3>2. IsFiniteSet(1..len)
      BY <3>1, FS_Interval
    <3> QED BY <3>1, <3>2, FS_Subset
  <2> HIDE DEF B
  <2>2. Cardinality(B) \in Nat /\ Cardinality(B) # 0
    BY <2>1, FS_CardinalityType, FS_EmptySet
  <2> HIDE DEF tf
  <2>3. tf.blanks > DefaultTunables.blankThreshold
    BY <1>1, <2>2 DEF DefaultTunables
  <2>4. "blank_over_threshold" \in EvaluateGates(tf, DefaultTunables)
    BY <2>3 DEF EvaluateGates, QualityFlags
  <2> QED BY <2>4 DEF tf
<1> QED BY <1>2, <1>3

\* For any pages the models report and any mark map whose total is what is
\* printed: a page with questions that is lost, or whose answers were not read,
\* does not pass the quality gates.
THEOREM LossIsNoticed ==
  ASSUME NEW L, NEW n, NEW pages, PagesTyped(pages, n, L), \A i \in 1..n : Marked(pages[i]),
         NEW map, expectedTotal(map) = {Worth(Printed(pages))},
         NEW i \in 1..n, pages[i].questions.items # <<>>,
         Lost(pages[i]) \/ pages[i].answers.shape = "failed"
  PROVE  EvaluateGates(computeFlags(TranscribeWithModels(pages, map)), DefaultTunables) # {}
<1> DEFINE paper == TranscribeWithModels(pages, map)
           qs == FoundOn(pages, map)
           R == Readable(pages)
           e == Worth(Printed(pages))
           f == [k \in DOMAIN qs |-> qs[k].max]
<1>1. paper.questions = qs /\ paper.expected = {e}
  BY DEF TranscribeWithModels, FoundOn
<1>2. /\ qs \in Seq(Question(L)) /\ Len(qs) = Len(R)
      /\ \A k \in DOMAIN qs : qs[k].max = R[k].max
  BY PagesKept
<1>3. R \in Seq(Item(L))
  BY ReadableTyped
<1>4. /\ Worth(R) \in Int /\ e \in Int
      /\ Len(ReadableOn(pages[i])) = 0 => Worth(R) < e
  BY PaperWorth
<1>5. Len(ReadableOn(pages[i])) # 0 => \E k \in DOMAIN qs : qs[k].blank
  <2> SUFFICES ASSUME Len(ReadableOn(pages[i])) # 0 PROVE \E k \in DOMAIN qs : qs[k].blank
    OBVIOUS
  <2>1. ~Lost(pages[i])
    <3>1. Lost(pages[i]) => ReadableOn(pages[i]) = <<>>
      BY Zenon DEF ReadableOn
    <3>2. Len(<<>>) = 0
      OBVIOUS
    <3> QED BY <3>1, <3>2
  <2> QED BY <2>1, UnreadIsBlank
<1> HIDE DEF paper, qs, R, e
<1>6. Worth(R) = SumFunction(f)
  <2> DEFINE g == [k \in DOMAIN R |-> R[k].max]
  <2>1. Worth(R) = SumFunction(g)
    BY Zenon DEF Worth
  <2>2. DOMAIN R = DOMAIN qs
    BY <1>2, <1>3
  <2>3. f = g
    BY <1>2, <2>2
  <2> QED BY <2>1, <2>3, Zenon
<1> HIDE DEF f
<1>7. SumFunction(f) # e \/ \E k \in DOMAIN qs : qs[k].blank
  <2> DEFINE none == Len(ReadableOn(pages[i])) = 0
             blank == \E k \in DOMAIN qs : qs[k].blank
             s == SumFunction(f)
  <2>1. Worth(R) = s /\ Worth(R) \in Int /\ e \in Int /\ (none => Worth(R) < e) /\ (~none => blank)
    BY <1>4, <1>5, <1>6
  <2> HIDE DEF none, blank, s
  <2>2. s # e \/ blank
    BY <2>1
  <2> QED BY <2>2 DEF s, blank
<1>8. SumFunction(f) = SumFunction([k \in DOMAIN paper.questions |-> paper.questions[k].max])
  BY <1>1, Zenon DEF f
<1>9. EvaluateGates(computeFlags(paper), DefaultTunables) # {}
  <2> DEFINE detected == SumFunction(f)
  <2>1. detected \in Int /\ e \in Int
    BY <1>4, <1>6
  <2>2. detected = SumFunction([k \in DOMAIN paper.questions |-> paper.questions[k].max])
    BY <1>8
  <2>3. paper.questions \in Seq(Question(L)) /\ paper.expected = {e}
    BY <1>1, <1>2
  <2>4. detected # e \/ \E k \in DOMAIN paper.questions : paper.questions[k].blank
    BY <1>1, <1>7, Zenon
  <2> HIDE DEF detected
  <2> QED BY <2>1, <2>2, <2>3, <2>4, FlagsOf
<1> QED BY <1>9 DEF paper

---------------------------------------------------------------------------
(***************************************************************************)
(* Reports.                                                                *)
(***************************************************************************)

\* Submissions as they are kept: students' names from any set, any papers whose
\* questions have numbers, marks and maxima.
QuestionsTyped(Qs) == \A q \in Qs : q.no \in Nat /\ q.awarded \in Int /\ q.max \in Nat
PapersTyped(Ps, Qs) == \A p \in Ps : p.questions \in Seq(Qs) /\ p.total \in Int
SubsTyped(Sb, St, Ps) == \A s \in Sb : s.student \in St /\ s.paper \in Ps

\* The graded submissions are some of the submissions.
LEMMA GradedTyped ==
  ASSUME NEW Sb, NEW subs \in Seq(Sb)
  PROVE  Graded(subs) \in Seq(Sb)
<1> DEFINE n == Len(subs)
           ss == [i \in DOMAIN subs |-> IF subs[i].graded THEN <<subs[i]>> ELSE <<>>]
<1>1. n \in Nat /\ DOMAIN subs = 1..n /\ \A i \in 1..n : subs[i] \in Sb
  OBVIOUS
<1>2. Graded(subs) = FlattenSeq(ss)
  BY Zenon DEF Graded
<1> HIDE DEF n
<1>3. \A x \in Sb : <<x>> \in Seq(Sb)
  OBVIOUS
<1>4. <<>> \in Seq(Sb)
  OBVIOUS
<1>5. DOMAIN ss = 1..n /\ ss = [i \in 1..n |-> ss[i]]
      /\ \A i \in 1..n : ss[i] = <<subs[i]>> \/ ss[i] = <<>>
  BY <1>1
<1> HIDE DEF ss
<1>6. \A i \in 1..n : ss[i] \in Seq(Sb)
  BY <1>1, <1>3, <1>4, <1>5, Zenon
<1>7. ss \in Seq(Seq(Sb))
  BY <1>1, <1>5, <1>6, ListsOfLists
<1> QED BY <1>2, <1>7, FlattenPlaces

\* The papers of some graded submissions, and the answers on papers.
LEMMA PapersOf ==
  ASSUME NEW Sb, NEW St, NEW Ps, SubsTyped(Sb, St, Ps), NEW subs \in Seq(Sb)
  PROVE  /\ GradedPapers(subs) \in Seq(Ps)
         /\ Len(GradedPapers(subs)) = Len(Graded(subs))
         /\ \A i \in 1..Len(Graded(subs)) : GradedPapers(subs)[i] = Graded(subs)[i].paper
<1> DEFINE g == Graded(subs)
           n == Len(g)
           ps == GradedPapers(subs)
<1>1. g \in Seq(Sb)
  BY GradedTyped
<1>2. ps = [i \in DOMAIN g |-> g[i].paper]
  BY DEF GradedPapers
<1> HIDE DEF g, ps
<1>3. n \in Nat /\ DOMAIN g = 1..n /\ \A i \in 1..n : g[i] \in Sb
  BY <1>1
<1> HIDE DEF n
<1>4. \A i \in 1..n : g[i].paper \in Ps
  BY <1>3 DEF SubsTyped
<1>5. ps \in [1..n -> Ps] /\ \A i \in 1..n : ps[i] = g[i].paper
  BY <1>2, <1>3, <1>4
<1>6. ps \in Seq(Ps) /\ Len(ps) = n
  BY <1>3, <1>5
<1> QED BY <1>5, <1>6 DEF g, n, ps

Response == [no : Nat, awarded : Int, max : Nat, total : Int]
ResponsesOf(papers) ==
  [i \in DOMAIN papers |->
    [j \in DOMAIN papers[i].questions |->
      [no |-> papers[i].questions[j].no, awarded |-> papers[i].questions[j].awarded,
       max |-> papers[i].questions[j].max, total |-> papers[i].total]]]

\* The answers, paper by paper.
LEMMA ResponsesTyped ==
  ASSUME NEW Qs, QuestionsTyped(Qs), NEW Ps, PapersTyped(Ps, Qs), NEW papers \in Seq(Ps)
  PROVE  /\ ResponsesOf(papers) \in Seq(Seq(Response))
         /\ Len(ResponsesOf(papers)) = Len(papers)
         /\ \A i \in 1..Len(papers) :
              /\ Len(ResponsesOf(papers)[i]) = Len(papers[i].questions)
              /\ \A j \in 1..Len(papers[i].questions) :
                   /\ ResponsesOf(papers)[i][j].no = papers[i].questions[j].no
                   /\ ResponsesOf(papers)[i][j].awarded = papers[i].questions[j].awarded
                   /\ ResponsesOf(papers)[i][j].max = papers[i].questions[j].max
         /\ Responses(papers) = FlattenSeq(ResponsesOf(papers))
         /\ Responses(papers) \in Seq(Response)
<1> DEFINE n == Len(papers)
           ss == ResponsesOf(papers)
           row(i, j) == [no |-> papers[i].questions[j].no, awarded |-> papers[i].questions[j].awarded,
                         max |-> papers[i].questions[j].max, total |-> papers[i].total]
<1>1. n \in Nat /\ DOMAIN papers = 1..n /\ \A i \in 1..n : papers[i] \in Ps
  OBVIOUS
<1>2. Responses(papers) = FlattenSeq(ss)
  BY Zenon DEF Responses, ResponsesOf
<1> HIDE DEF n
<1>3. ASSUME NEW i \in 1..n
      PROVE  /\ ss[i] \in Seq(Response) /\ Len(ss[i]) = Len(papers[i].questions)
             /\ \A j \in 1..Len(papers[i].questions) :
                  /\ ss[i][j].no = papers[i].questions[j].no
                  /\ ss[i][j].awarded = papers[i].questions[j].awarded
                  /\ ss[i][j].max = papers[i].questions[j].max
  <2> DEFINE qs == papers[i].questions
             m == Len(qs)
             cs == [j \in DOMAIN qs |-> row(i, j)]
  <2>1. ss[i] = cs
    BY <1>1 DEF ResponsesOf
  <2>2. qs \in Seq(Qs) /\ papers[i].total \in Int
    BY <1>1 DEF PapersTyped
  <2>3. m \in Nat /\ DOMAIN qs = 1..m /\ \A j \in 1..m : qs[j] \in Qs
    <3> HIDE DEF qs
    <3> QED BY <2>2
  <2>4. ASSUME NEW j \in 1..m
        PROVE  /\ row(i, j) \in Response /\ row(i, j).no = qs[j].no
               /\ row(i, j).awarded = qs[j].awarded /\ row(i, j).max = qs[j].max
    <3>1. qs[j].no \in Nat /\ qs[j].awarded \in Int /\ qs[j].max \in Nat
      BY <2>3 DEF QuestionsTyped
    <3> QED BY <2>2, <3>1 DEF Response
  <2> HIDE DEF qs, m, row
  <2>5. cs \in [1..m -> Response] /\ \A j \in 1..m : cs[j] = row(i, j)
    BY <2>3, <2>4
  <2> HIDE DEF cs
  <2>6. cs \in Seq(Response) /\ Len(cs) = m
    BY <2>3, <2>5
  <2>7. \A j \in 1..m : cs[j].no = qs[j].no /\ cs[j].awarded = qs[j].awarded /\ cs[j].max = qs[j].max
    BY <2>4, <2>5
  <2> HIDE DEF ss
  <2> QED BY <2>1, <2>6, <2>7 DEF qs, m
<1>4. DOMAIN ss = 1..n /\ ss = [i \in 1..n |-> ss[i]]
  BY <1>1 DEF ResponsesOf
<1> HIDE DEF ss
<1>5. ss \in Seq(Seq(Response)) /\ Len(ss) = n
  BY <1>1, <1>3, <1>4, ListsOfLists
<1>6. FlattenSeq(ss) \in Seq(Response)
  BY <1>5, FlattenPlaces
<1> QED BY <1>2, <1>3, <1>5, <1>6 DEF ss, n

Row(St) == [student : St, no : Nat, max : Nat, awarded : Int]
RowsOf(graded) ==
  [i \in DOMAIN graded |->
    [j \in DOMAIN graded[i].paper.questions |->
      [student |-> graded[i].student, no |-> graded[i].paper.questions[j].no,
       max |-> graded[i].paper.questions[j].max,
       awarded |-> graded[i].paper.questions[j].awarded]]]

\* The rows, submission by submission.
LEMMA RowsTyped ==
  ASSUME NEW Qs, QuestionsTyped(Qs), NEW Ps, PapersTyped(Ps, Qs),
         NEW Sb, NEW St, SubsTyped(Sb, St, Ps), NEW g \in Seq(Sb)
  PROVE  /\ RowsOf(g) \in Seq(Seq(Row(St)))
         /\ Len(RowsOf(g)) = Len(g)
         /\ \A i \in 1..Len(g) :
              /\ Len(RowsOf(g)[i]) = Len(g[i].paper.questions)
              /\ \A j \in 1..Len(g[i].paper.questions) :
                   RowsOf(g)[i][j].no = g[i].paper.questions[j].no
         /\ Rows(g) = FlattenSeq(RowsOf(g))
         /\ Rows(g) \in Seq(Row(St))
<1> DEFINE n == Len(g)
           ss == RowsOf(g)
           row(i, j) == [student |-> g[i].student, no |-> g[i].paper.questions[j].no,
                         max |-> g[i].paper.questions[j].max,
                         awarded |-> g[i].paper.questions[j].awarded]
<1>1. n \in Nat /\ DOMAIN g = 1..n /\ \A i \in 1..n : g[i] \in Sb
  OBVIOUS
<1>2. Rows(g) = FlattenSeq(ss)
  BY Zenon DEF Rows, RowsOf
<1> HIDE DEF n
<1>3. ASSUME NEW i \in 1..n
      PROVE  /\ ss[i] \in Seq(Row(St)) /\ Len(ss[i]) = Len(g[i].paper.questions)
             /\ \A j \in 1..Len(g[i].paper.questions) : ss[i][j].no = g[i].paper.questions[j].no
  <2> DEFINE qs == g[i].paper.questions
             m == Len(qs)
             cs == [j \in DOMAIN qs |-> row(i, j)]
  <2>1. ss[i] = cs
    BY <1>1 DEF RowsOf
  <2>2. qs \in Seq(Qs) /\ g[i].student \in St
    <3>1. g[i].paper \in Ps /\ g[i].student \in St
      BY <1>1 DEF SubsTyped
    <3> QED BY <3>1 DEF PapersTyped
  <2>3. m \in Nat /\ DOMAIN qs = 1..m /\ \A j \in 1..m : qs[j] \in Qs
    <3> HIDE DEF qs
    <3> QED BY <2>2
  <2>4. ASSUME NEW j \in 1..m
        PROVE  row(i, j) \in Row(St) /\ row(i, j).no = qs[j].no
    <3>1. qs[j].no \in Nat /\ qs[j].awarded \in Int /\ qs[j].max \in Nat
      BY <2>3 DEF QuestionsTyped
    <3> QED BY <2>2, <3>1 DEF Row
  <2> HIDE DEF qs, m, row
  <2>5. cs \in [1..m -> Row(St)] /\ \A j \in 1..m : cs[j] = row(i, j)
    BY <2>3, <2>4
  <2> HIDE DEF cs
  <2>6. cs \in Seq(Row(St)) /\ Len(cs) = m
    BY <2>3, <2>5
  <2>7. \A j \in 1..m : cs[j].no = qs[j].no
    BY <2>4, <2>5
  <2> HIDE DEF ss
  <2> QED BY <2>1, <2>6, <2>7 DEF qs, m
<1>4. DOMAIN ss = 1..n /\ ss = [i \in 1..n |-> ss[i]]
  BY <1>1 DEF RowsOf
<1> HIDE DEF ss
<1>5. ss \in Seq(Seq(Row(St))) /\ Len(ss) = n
  BY <1>1, <1>3, <1>4, ListsOfLists
<1>6. FlattenSeq(ss) \in Seq(Row(St))
  BY <1>5, FlattenPlaces
<1> QED BY <1>2, <1>3, <1>5, <1>6 DEF ss, n

\* There is a row for each answer, in the same order and to the same question.
LEMMA RowsAreResponses ==
  ASSUME NEW Qs, QuestionsTyped(Qs), NEW Ps, PapersTyped(Ps, Qs),
         NEW Sb, NEW St, SubsTyped(Sb, St, Ps), NEW subs \in Seq(Sb)
  PROVE  /\ ClassResultsCSV(subs) \in Seq(Row(St))
         /\ Responses(GradedPapers(subs)) \in Seq(Response)
         /\ Len(ClassResultsCSV(subs)) = Len(Responses(GradedPapers(subs)))
         /\ \A k \in DOMAIN ClassResultsCSV(subs) :
              ClassResultsCSV(subs)[k].no = Responses(GradedPapers(subs))[k].no
<1> DEFINE g == Graded(subs)
           ps == GradedPapers(subs)
           ss == RowsOf(g)
           tt == ResponsesOf(ps)
           F == FlattenSeq(ss)
           G == FlattenSeq(tt)
           n == Len(g)
<1>1. g \in Seq(Sb)
  BY GradedTyped
<1>2. /\ ps \in Seq(Ps) /\ Len(ps) = n /\ \A i \in 1..n : ps[i] = g[i].paper
  BY PapersOf
<1>3. ClassResultsCSV(subs) = Rows(g)
  BY DEF ClassResultsCSV
<1> HIDE DEF g, ps
<1>4. /\ ss \in Seq(Seq(Row(St))) /\ Len(ss) = n /\ Rows(g) = F /\ Rows(g) \in Seq(Row(St))
      /\ \A i \in 1..n :
           /\ Len(ss[i]) = Len(g[i].paper.questions)
           /\ \A j \in 1..Len(g[i].paper.questions) : ss[i][j].no = g[i].paper.questions[j].no
  BY <1>1, RowsTyped
<1>5. /\ tt \in Seq(Seq(Response)) /\ Len(tt) = n /\ Responses(ps) = G
      /\ Responses(ps) \in Seq(Response)
      /\ \A i \in 1..Len(ps) :
           /\ Len(tt[i]) = Len(ps[i].questions)
           /\ \A j \in 1..Len(ps[i].questions) : tt[i][j].no = ps[i].questions[j].no
  BY <1>2, ResponsesTyped
<1>6. ASSUME NEW i \in 1..n
      PROVE  Len(ss[i]) = Len(tt[i]) /\ \A j \in 1..Len(ss[i]) : ss[i][j].no = tt[i][j].no
  <2> DEFINE qs == g[i].paper.questions
  <2>1. ps[i].questions = qs /\ i \in 1..Len(ps)
    BY <1>2
  <2> HIDE DEF qs, ss, tt
  <2>2. Len(ss[i]) = Len(qs) /\ \A j \in 1..Len(qs) : ss[i][j].no = qs[j].no
    BY <1>4 DEF qs
  <2>3. Len(tt[i]) = Len(qs) /\ \A j \in 1..Len(qs) : tt[i][j].no = qs[j].no
    <3>1. /\ Len(tt[i]) = Len(ps[i].questions)
          /\ \A j \in 1..Len(ps[i].questions) : tt[i][j].no = ps[i].questions[j].no
      BY <1>5, <2>1
    <3> QED BY <2>1, <3>1, Zenon
  <2> QED BY <2>2, <2>3
<1> HIDE DEF ss, tt, n
<1>7. Len(F) = Len(G) /\ \A k \in 1..Len(F) : Together(ss, tt, k)
  <2>1. Len(ss) = Len(tt) /\ \A i \in 1..Len(ss) : Len(ss[i]) = Len(tt[i])
    BY <1>4, <1>5, <1>6
  <2>2. ss \in Seq(Seq(Row(St))) /\ tt \in Seq(Seq(Response))
    BY <1>4, <1>5
  <2> QED BY <2>1, <2>2, FlattenTogether
<1>8. F \in Seq(Row(St)) /\ G \in Seq(Response)
  BY <1>4, <1>5
<1>9. ASSUME NEW k \in 1..Len(F)
      PROVE  F[k].no = G[k].no
  <2>1. PICK i \in 1..Len(ss) : \E j \in 1..Len(ss[i]) : F[k] = ss[i][j] /\ G[k] = tt[i][j]
    BY <1>7 DEF Together
  <2>2. PICK j \in 1..Len(ss[i]) : F[k] = ss[i][j] /\ G[k] = tt[i][j]
    BY <2>1
  <2>3. ss[i][j].no = tt[i][j].no
    BY <1>4, <1>6
  <2> QED BY <2>2, <2>3, Zenon
<1> HIDE DEF F, G
<1>10. \A k \in DOMAIN F : F[k].no = G[k].no
  BY <1>8, <1>9
<1> QED BY <1>3, <1>4, <1>5, <1>7, <1>10 DEF ps

\* The override statistics count the rows.
LEMMA RowsAreCounted ==
  ASSUME NEW Qs, QuestionsTyped(Qs), NEW Ps, PapersTyped(Ps, Qs),
         NEW Sb, NEW St, SubsTyped(Sb, St, Ps), NEW subs \in Seq(Sb)
  PROVE  Len(ClassResultsCSV(subs)) = GetOverrideStats(subs).totalGradedQuestions
<1> DEFINE g == Graded(subs)
           ss == RowsOf(g)
           counts == [i \in DOMAIN g |-> Len(g[i].paper.questions)]
<1>1. g \in Seq(Sb)
  BY GradedTyped
<1>2. GetOverrideStats(subs).totalGradedQuestions = SumFunction(counts)
  BY DEF GetOverrideStats
<1>3. ClassResultsCSV(subs) = Rows(g)
  BY DEF ClassResultsCSV
<1> HIDE DEF g
<1>4. /\ ss \in Seq(Seq(Row(St))) /\ Len(ss) = Len(g) /\ Rows(g) = FlattenSeq(ss)
      /\ \A i \in 1..Len(g) : Len(ss[i]) = Len(g[i].paper.questions)
  BY <1>1, RowsTyped
<1> HIDE DEF ss
<1>5. Lens(ss) = counts
  <2>1. DOMAIN ss = DOMAIN g /\ \A i \in DOMAIN g : Len(ss[i]) = Len(g[i].paper.questions)
    BY <1>1, <1>4
  <2> QED BY <2>1 DEF Lens
<1> HIDE DEF counts
<1>6. Len(FlattenSeq(ss)) = SumFunction(Lens(ss))
  BY <1>4, FlattenPlaces, OffsetSteps
<1> QED BY <1>2, <1>3, <1>4, <1>5, <1>6, Zenon

\* What the item analysis counts of a question.
LEMMA StatOf ==
  ASSUME NEW q, NEW rs
  PROVE  /\ ItemStat(q, rs).no = q
         /\ ItemStat(q, rs).responses = Cardinality({k \in DOMAIN rs : rs[k].no = q})
BY DEF ItemStat

\* The item analysis counts the answers to its question.
LEMMA ItemsCount ==
  ASSUME NEW ps, NEW s \in ItemAnalysis(ps)
  PROVE  /\ s.no \in QuestionNos(ps)
         /\ s.responses = Cardinality({k \in DOMAIN Responses(ps) : Responses(ps)[k].no = s.no})
<1>1. PICK q \in QuestionNos(ps) : s = ItemStat(q, Responses(ps))
  BY DEF ItemAnalysis
<1>2. s.no = q /\ s.responses = Cardinality({k \in DOMAIN Responses(ps) : Responses(ps)[k].no = q})
  BY <1>1, StatOf, Zenon
<1> QED BY <1>2, Zenon

\* There is a statistic for each question that was answered.
LEMMA ItemsCover ==
  ASSUME NEW ps, NEW q \in QuestionNos(ps)
  PROVE  \E s \in ItemAnalysis(ps) : s.no = q
<1>1. ItemStat(q, Responses(ps)) \in ItemAnalysis(ps)
  BY DEF ItemAnalysis
<1>2. ItemStat(q, Responses(ps)).no = q
  BY StatOf
<1> QED BY <1>1, <1>2

\* The three reports count the same questions.
Agree(rows, overrides, analytics) ==
  /\ Len(rows) = overrides.totalGradedQuestions
  /\ \A s \in analytics.items :
       s.responses = Cardinality({k \in DOMAIN rows : rows[k].no = s.no})
  /\ \A k \in DOMAIN rows : \E s \in analytics.items : s.no = rows[k].no

\* For any submissions: the class results have as many rows as the override
\* statistics count, and a row for each answer the item analysis counts.
THEOREM CountsAgree ==
  ASSUME NEW Qs, QuestionsTyped(Qs), NEW Ps, PapersTyped(Ps, Qs),
         NEW Sb, NEW St, SubsTyped(Sb, St, Ps), NEW subs \in Seq(Sb)
  PROVE  Agree(ClassResultsCSV(subs), GetOverrideStats(subs), GetAnalytics(subs))
<1> DEFINE ps == GradedPapers(subs)
           rs == Responses(ps)
           rows == ClassResultsCSV(subs)
<1>1. GetAnalytics(subs).items = ItemAnalysis(ps)
  BY DEF GetAnalytics
<1>2. /\ rows \in Seq(Row(St)) /\ rs \in Seq(Response) /\ Len(rows) = Len(rs)
      /\ \A k \in DOMAIN rows : rows[k].no = rs[k].no
  BY RowsAreResponses
<1>3. Len(rows) = GetOverrideStats(subs).totalGradedQuestions
  BY RowsAreCounted
<1> HIDE DEF rows
<1>4. DOMAIN rows = DOMAIN rs
  <2> HIDE DEF rs
  <2> QED BY <1>2
<1>5. ASSUME NEW s \in ItemAnalysis(ps)
      PROVE  s.responses = Cardinality({k \in DOMAIN rows : rows[k].no = s.no})
  <2>1. s.responses = Cardinality({k \in DOMAIN rs : rs[k].no = s.no})
    BY ItemsCount
  <2> HIDE DEF rs
  <2>2. {k \in DOMAIN rs : rs[k].no = s.no} = {k \in DOMAIN rows : rows[k].no = s.no}
    BY <1>2, <1>4
  <2> QED BY <2>1, <2>2, Zenon
<1>6. ASSUME NEW k \in DOMAIN rows
      PROVE  \E s \in ItemAnalysis(ps) : s.no = rows[k].no
  <2>1. rs[k].no \in QuestionNos(ps)
    BY <1>4 DEF QuestionNos, Range
  <2>2. \E s \in ItemAnalysis(ps) : s.no = rs[k].no
    BY <2>1, ItemsCover
  <2> QED BY <1>2, <2>2, Zenon
<1> QED BY <1>1, <1>3, <1>5, <1>6, Zenon DEF Agree, rows

---------------------------------------------------------------------------
\* Papers of the same questions with no less marks, and their answers.
Improved(ps, qs) ==
  /\ Len(ps) = Len(qs)
  /\ \A i \in 1..Len(ps) :
       /\ Len(ps[i].questions) = Len(qs[i].questions)
       /\ \A j \in 1..Len(ps[i].questions) :
            /\ ps[i].questions[j].no = qs[i].questions[j].no
            /\ ps[i].questions[j].max = qs[i].questions[j].max
            /\ ps[i].questions[j].awarded <= qs[i].questions[j].awarded

Better(r, t) == r.no = t.no /\ r.max = t.max /\ r.awarded <= t.awarded

\* Papers that are no worse give answers that are no worse, one by one.
LEMMA AnswersImproved ==
  ASSUME NEW Qs, QuestionsTyped(Qs), NEW Ps, PapersTyped(Ps, Qs),
         NEW ps \in Seq(Ps), NEW qs \in Seq(Ps), Improved(ps, qs)
  PROVE  /\ Responses(ps) \in Seq(Response) /\ Responses(qs) \in Seq(Response)
         /\ Len(Responses(ps)) = Len(Responses(qs))
         /\ \A k \in DOMAIN Responses(ps) : Better(Responses(ps)[k], Responses(qs)[k])
<1> DEFINE n == Len(ps)
           ss == ResponsesOf(ps)
           tt == ResponsesOf(qs)
           F == FlattenSeq(ss)
           G == FlattenSeq(tt)
<1>1. /\ ss \in Seq(Seq(Response)) /\ Len(ss) = n /\ Responses(ps) = F /\ Responses(ps) \in Seq(Response)
      /\ \A i \in 1..n :
           /\ Len(ss[i]) = Len(ps[i].questions)
           /\ \A j \in 1..Len(ps[i].questions) :
                /\ ss[i][j].no = ps[i].questions[j].no
                /\ ss[i][j].awarded = ps[i].questions[j].awarded
                /\ ss[i][j].max = ps[i].questions[j].max
  BY ResponsesTyped
<1>2. /\ tt \in Seq(Seq(Response)) /\ Len(tt) = Len(qs) /\ Responses(qs) = G
      /\ Responses(qs) \in Seq(Response)
      /\ \A i \in 1..Len(qs) :
           /\ Len(tt[i]) = Len(qs[i].questions)
           /\ \A j \in 1..Len(qs[i].questions) :
                /\ tt[i][j].no = qs[i].questions[j].no
                /\ tt[i][j].awarded = qs[i].questions[j].awarded
                /\ tt[i][j].max = qs[i].questions[j].max
  BY ResponsesTyped
<1> HIDE DEF ss, tt
<1>3. Len(qs) = n
  BY DEF Improved
<1>4. ASSUME NEW i \in 1..n
      PROVE  Len(ss[i]) = Len(tt[i]) /\ \A j \in 1..Len(ss[i]) : Better(ss[i][j], tt[i][j])
  <2> DEFINE p == ps[i].questions
             q == qs[i].questions
  <2>1. /\ Len(p) = Len(q)
        /\ \A j \in 1..Len(p) : /\ p[j].no = q[j].no /\ p[j].max = q[j].max
                                /\ p[j].awarded <= q[j].awarded
    BY DEF Improved
  <2>2. Len(ss[i]) = Len(p) /\ \A j \in 1..Len(p) :
          ss[i][j].no = p[j].no /\ ss[i][j].awarded = p[j].awarded /\ ss[i][j].max = p[j].max
    BY <1>1
  <2>3. Len(tt[i]) = Len(q) /\ \A j \in 1..Len(q) :
          tt[i][j].no = q[j].no /\ tt[i][j].awarded = q[j].awarded /\ tt[i][j].max = q[j].max
    BY <1>2, <1>3
  <2> HIDE DEF p, q
  <2>4. ASSUME NEW j \in 1..Len(p) PROVE Better(ss[i][j], tt[i][j])
    BY <2>1, <2>2, <2>3 DEF Better
  <2> QED BY <2>1, <2>2, <2>3, <2>4
<1> HIDE DEF n
<1>5. Len(F) = Len(G) /\ \A k \in 1..Len(F) : Together(ss, tt, k)
  <2>1. Len(ss) = Len(tt) /\ \A i \in 1..Len(ss) : Len(ss[i]) = Len(tt[i])
    BY <1>1, <1>2, <1>3, <1>4
  <2>2. ss \in Seq(Seq(Response)) /\ tt \in Seq(Seq(Response))
    BY <1>1, <1>2
  <2> QED BY <2>1, <2>2, FlattenTogether
<1>6. F \in Seq(Response)
  BY <1>1
<1>7. ASSUME NEW k \in 1..Len(F)
      PROVE  Better(F[k], G[k])
  <2>1. PICK i \in 1..Len(ss) : \E j \in 1..Len(ss[i]) : F[k] = ss[i][j] /\ G[k] = tt[i][j]
    BY <1>5 DEF Together
  <2>2. PICK j \in 1..Len(ss[i]) : F[k] = ss[i][j] /\ G[k] = tt[i][j]
    BY <2>1
  <2>3. Better(ss[i][j], tt[i][j])
    BY <1>1, <1>4
  <2> QED BY <2>2, <2>3, Zenon
<1> HIDE DEF F, G
<1>8. \A k \in DOMAIN F : Better(F[k], G[k])
  BY <1>6, <1>7
<1> QED BY <1>1, <1>2, <1>5, <1>8

\* More marks of the same maximum are no smaller share, and no lower level.
LEMMA ProductMonotone ==
  ASSUME NEW a \in Int, NEW b \in Int, a <= b, NEW m \in Nat
  PROVE  a * m <= b * m
OBVIOUS

LevelOf(x) == IF ~Less(x, <<3, 4>>) THEN 3 ELSE IF ~Less(x, <<1, 2>>) THEN 2 ELSE 1

LEMMA LevelIs == ASSUME NEW x PROVE Level(masteryLabel(x)) = LevelOf(x)
<1>1. Level("secure") = 3 /\ Level("developing") = 2 /\ Level("emerging") = 1
  BY DEF Level
<1> QED BY <1>1, Zenon DEF masteryLabel, LevelOf

\* More marks out of the same maximum are no smaller share and no lower level.
LEMMA SharesMonotone ==
  ASSUME NEW a \in Int, NEW b \in Int, a <= b, NEW m \in Nat
  PROVE  /\ ~Less(Fraction(b, m), Fraction(a, m))
         /\ Level(masteryLabel(Fraction(a, m))) <= Level(masteryLabel(Fraction(b, m)))
<1>1. CASE m = 0
  <2> DEFINE f == Fraction(a, m)
  <2>1. f = Fraction(b, m) /\ f = <<0, 1>>
    BY <1>1 DEF Fraction
  <2>2. ~Less(<<0, 1>>, <<0, 1>>) /\ Level(masteryLabel(f)) \in Int
    BY DEF Less, Level
  <2> HIDE DEF f
  <2> QED BY <2>1, <2>2 DEF f
<1>2. CASE m # 0
  <2>1. Fraction(a, m) = <<a, m>> /\ Fraction(b, m) = <<b, m>>
    BY <1>2 DEF Fraction
  <2>2. ~Less(<<b, m>>, <<a, m>>)
    <3>1. a * m <= b * m /\ a * m \in Int /\ b * m \in Int
      BY ProductMonotone
    <3> DEFINE x == a * m
               y == b * m
    <3>2. Less(<<b, m>>, <<a, m>>) = (y < x)
      BY DEF Less
    <3> HIDE DEF x, y
    <3>3. ~(y < x)
      BY <3>1 DEF x, y
    <3> QED BY <3>2, <3>3
  <2>3. Level(masteryLabel(<<a, m>>)) <= Level(masteryLabel(<<b, m>>))
    <3>1. (Less(<<a, m>>, <<3, 4>>) = (a * 4 < 3 * m)) /\ (Less(<<b, m>>, <<3, 4>>) = (b * 4 < 3 * m))
          /\ (Less(<<a, m>>, <<1, 2>>) = (a * 2 < 1 * m)) /\ (Less(<<b, m>>, <<1, 2>>) = (b * 2 < 1 * m))
      BY DEF Less
    <3> DEFINE p == <<a, m>>
               q == <<b, m>>
    <3>2. /\ Level(masteryLabel(p)) = LevelOf(p) /\ Level(masteryLabel(q)) = LevelOf(q)
      BY LevelIs, Zenon
    <3>3. /\ Less(p, <<3, 4>>) <=> (a * 4 < 3 * m)
          /\ Less(q, <<3, 4>>) <=> (b * 4 < 3 * m)
          /\ Less(p, <<1, 2>>) <=> (a * 2 < 1 * m)
          /\ Less(q, <<1, 2>>) <=> (b * 2 < 1 * m)
      BY <3>1
    <3> HIDE DEF p, q
    <3>4. LevelOf(p) <= LevelOf(q)
      <4>1. /\ Less(q, <<3, 4>>) => Less(p, <<3, 4>>)
            /\ Less(q, <<1, 2>>) => Less(p, <<1, 2>>)
            /\ Less(p, <<1, 2>>) => Less(p, <<3, 4>>)
        BY <3>3
      <4>2. CASE ~Less(p, <<3, 4>>)
        <5>1. LevelOf(p) = 3 /\ LevelOf(q) = 3
          BY <4>1, <4>2, Zenon DEF LevelOf
        <5> QED BY <5>1
      <4>3. CASE Less(p, <<3, 4>>) /\ ~Less(p, <<1, 2>>)
        <5>1. LevelOf(p) = 2 /\ (LevelOf(q) = 3 \/ LevelOf(q) = 2)
          BY <4>1, <4>3, Zenon DEF LevelOf
        <5> QED BY <5>1
      <4>4. CASE Less(p, <<3, 4>>) /\ Less(p, <<1, 2>>)
        <5>1. LevelOf(p) = 1 /\ (LevelOf(q) = 3 \/ LevelOf(q) = 2 \/ LevelOf(q) = 1)
          BY <4>4, Zenon DEF LevelOf
        <5> QED BY <5>1
      <4> QED BY <4>2, <4>3, <4>4
    <3> QED BY <3>2, <3>4 DEF p, q
  <2> QED BY <2>1, <2>2, <2>3
<1> QED BY <1>1, <1>2

\* Answers that are no worse give no lower mastery of an outcome.
LEMMA MasteryGrows ==
  ASSUME NEW rs \in Seq(Response), NEW ts \in Seq(Response), Len(rs) = Len(ts),
         \A k \in DOMAIN rs : Better(rs[k], ts[k]), NEW o, NEW mapping, NEW a, NEW b,
         a = Mastery(o, rs, mapping, AnswersTo(o, rs, mapping)),
         b = Mastery(o, ts, mapping, AnswersTo(o, ts, mapping))
  PROVE  ~Less(b.pct, a.pct) /\ Level(a.mastery) <= Level(b.mastery)
<1> DEFINE n == Len(rs)
           at == AnswersTo(o, rs, mapping)
           f == [k \in at |-> Awarded(rs)[k]]
           g == [k \in at |-> Awarded(ts)[k]]
           x == [k \in at |-> Maxima(rs)[k]]
           y == [k \in at |-> Maxima(ts)[k]]
           A == SumFunction(f)
           B == SumFunction(g)
           M == SumFunction(x)
<1>1. n \in Nat /\ DOMAIN rs = 1..n /\ DOMAIN ts = 1..n
      /\ \A k \in 1..n : rs[k] \in Response /\ ts[k] \in Response
  OBVIOUS
<1> HIDE DEF n
<1>2. \A k \in 1..n : /\ rs[k].no = ts[k].no /\ rs[k].max = ts[k].max /\ rs[k].max \in Nat
                      /\ rs[k].awarded \in Int /\ ts[k].awarded \in Int
                      /\ rs[k].awarded <= ts[k].awarded
  BY <1>1 DEF Better, Response
<1>3. at \subseteq 1..n /\ AnswersTo(o, ts, mapping) = at
  BY <1>1, <1>2 DEF AnswersTo
<1>4. a.pct = Fraction(A, M) /\ a.mastery = masteryLabel(Fraction(A, M))
  BY DEF Mastery, SumAt
<1>5. b.pct = Fraction(B, SumFunction(y)) /\ b.mastery = masteryLabel(Fraction(B, SumFunction(y)))
  <2>1. b = Mastery(o, ts, mapping, at)
    BY <1>3, Zenon
  <2> QED BY <2>1 DEF Mastery, SumAt
<1> HIDE DEF at
<1>6. IsFiniteSet(at)
  <2>1. IsFiniteSet(1..n)
    BY <1>1, FS_Interval
  <2> QED BY <1>3, <2>1, FS_Subset
<1>7. /\ f \in [at -> Int] /\ g \in [at -> Int] /\ x \in [at -> Nat] /\ x = y
      /\ \A k \in at : f[k] <= g[k]
  BY <1>1, <1>2, <1>3 DEF Awarded, Maxima
<1> HIDE DEF f, g, x, y
<1>8. A <= B /\ A \in Int /\ B \in Int
  BY <1>6, <1>7, SumMonotone, SumIsInteger
<1>9. M \in Nat /\ SumFunction(y) = M
  BY <1>6, <1>7, SumIsNatural
<1> HIDE DEF A, B, M
<1>10. /\ ~Less(Fraction(B, M), Fraction(A, M))
       /\ Level(masteryLabel(Fraction(A, M))) <= Level(masteryLabel(Fraction(B, M)))
  BY <1>8, <1>9, SharesMonotone
<1> QED BY <1>4, <1>5, <1>9, <1>10, Zenon

\* For any papers and any mapping of questions to outcomes: papers of the same
\* questions with no less marks show no less mastery of any outcome.
THEOREM MasteryNeverFalls ==
  ASSUME NEW Qs, QuestionsTyped(Qs), NEW Ps, PapersTyped(Ps, Qs),
         NEW ps \in Seq(Ps), NEW qs \in Seq(Ps), Improved(ps, qs), NEW mapping,
         NEW a \in OutcomeMastery(ps, mapping), NEW b \in OutcomeMastery(qs, mapping),
         a.outcome = b.outcome
  PROVE  ~Less(b.pct, a.pct) /\ Level(a.mastery) <= Level(b.mastery)
<1> DEFINE rs == Responses(ps)
           ts == Responses(qs)
<1>1. PICK o \in OutcomesOf(mapping) : a = Mastery(o, rs, mapping, AnswersTo(o, rs, mapping))
  BY Zenon DEF OutcomeMastery
<1>2. PICK p \in OutcomesOf(mapping) : b = Mastery(p, ts, mapping, AnswersTo(p, ts, mapping))
  BY Zenon DEF OutcomeMastery
<1>3. o = p
  <2>1. a.outcome = o /\ b.outcome = p
    BY <1>1, <1>2 DEF Mastery
  <2> QED BY <2>1
<1>4. /\ rs \in Seq(Response) /\ ts \in Seq(Response) /\ Len(rs) = Len(ts)
      /\ \A k \in DOMAIN rs : Better(rs[k], ts[k])
  BY AnswersImproved
<1>5. b = Mastery(o, ts, mapping, AnswersTo(o, ts, mapping))
  BY <1>2, <1>3, Zenon
<1> HIDE DEF rs, ts
<1> QED BY <1>1, <1>4, <1>5, MasteryGrows

---------------------------------------------------------------------------
(***************************************************************************)
(* Units.                                                                  *)
(***************************************************************************)

\* A text of words from any set: one line has its words, and lines that are
\* trimmed at either end have none.
LEMMA OneLine ==
  ASSUME NEW W, NEW s \in Seq(W)
  PROVE  Fields(<<s>>) = s
<1> DEFINE ss == <<s>>
           F == FlattenSeq(ss)
<1>1. ss \in Seq(Seq(W)) /\ Len(ss) = 1 /\ ss[1] = s /\ 1 \in 1..1
  OBVIOUS
<1>2. Fields(<<s>>) = F
  BY DEF Fields
<1> HIDE DEF ss
<1>3. /\ F \in Seq(W) /\ Len(F) = Offset(ss, 1)
      /\ \A j \in 1..Len(ss[1]) : F[Offset(ss, 1 - 1) + j] = ss[1][j]
  <2>1. /\ F \in Seq(W) /\ Len(F) = Offset(ss, Len(ss))
        /\ \A i \in 1..Len(ss) : \A j \in 1..Len(ss[i]) : F[Offset(ss, i - 1) + j] = ss[i][j]
    BY <1>1, FlattenPlaces
  <2> HIDE DEF F
  <2>2. 1 \in 1..Len(ss)
    BY <1>1
  <2> QED BY <1>1, <2>1, <2>2, Zenon
<1>4. Offset(ss, 0) = 0 /\ Offset(ss, 1) = Offset(ss, 1 - 1) + Len(ss[1])
  BY <1>1, OffsetSteps
<1>5. 1 - 1 = 0
  OBVIOUS
<1>6. Len(F) = Len(s) /\ \A j \in 1..Len(s) : F[j] = s[j]
  <2>1. Len(ss[1]) = Len(s) /\ Len(s) \in Nat
    BY <1>1
  <2>2. Offset(ss, 1 - 1) = 0
    BY <1>4, <1>5, Zenon
  <2> QED BY <1>1, <1>3, <1>4, <2>1, <2>2
<1> HIDE DEF F
<1>7. F = s
  BY <1>3, <1>6, SeqEqual
<1> QED BY <1>2, <1>7

\* The least of a set of positions.
LEMMA LeastPosition ==
  ASSUME NEW S, S \subseteq Nat, S # {}
  PROVE  Min(S) \in S /\ \A i \in S : Min(S) <= i
<1>1. \E n \in S : \A m \in S : n <= m
  BY LeastNatural
<1> QED BY <1>1, Zenon DEF Min

\* Trimming a text takes none of its words.
LEMMA TrimFields ==
  ASSUME NEW W, NEW text \in Seq(Seq(W))
  PROVE  Fields(TrimSpace(text)) = Fields(text)
<1> DEFINE n == Len(text)
           S == Written(text)
           a == Min(S)
           b == Max(S)
<1>1. n \in Nat /\ DOMAIN text = 1..n
  OBVIOUS
<1>2. CASE Blank(text)
  <2>1. TrimSpace(text) = <<>> /\ Fields(text) = <<>>
    BY <1>2 DEF TrimSpace, Blank
  <2>2. Fields(<<>>) = <<>>
    BY DEF Fields, FlattenSeq
  <2> QED BY <2>1, <2>2, Zenon
<1>3. CASE ~Blank(text)
  <2>1. TrimSpace(text) = SubSeq(text, a, b)
    BY <1>3 DEF TrimSpace
  <2>2. S # {}
    <3> DEFINE F == Fields(text)
    <3>1. F \in Seq(W) /\ F # <<>> /\ F = FlattenSeq(text)
      BY <1>3, FlattenPlaces DEF Fields, Blank
    <3> HIDE DEF F
    <3>2. Len(F) \in Nat \ {0}
      BY <3>1, EmptySeq, Zenon
    <3>3. 1 \in DOMAIN F
      BY <3>1, <3>2
    <3>4. PICK i \in DOMAIN text : \E j \in DOMAIN text[i] : F[1] = text[i][j]
      BY <3>1, <3>3, FlattenKeeps
    <3>5. text[i] # <<>>
      BY <3>4
    <3> QED BY <3>5 DEF Written
  <2>3. S \subseteq 0..n /\ S \subseteq Nat /\ S \subseteq 1..n
    BY <1>1 DEF Written
  <2>4. \A i \in 1..n : i \notin S => text[i] = <<>>
    BY <1>1 DEF Written
  <2> HIDE DEF S, n
  <2>5. a \in S /\ \A i \in S : a <= i
    BY <2>2, <2>3, LeastPosition
  <2>6. b \in S /\ \A i \in S : i <= b
    BY <1>1, <2>2, <2>3, GreatestPosition
  <2> HIDE DEF a, b
  <2>7. a \in 1..n /\ b \in a..n /\ \A i \in 1..n : i \notin a..b => text[i] = <<>>
    BY <1>1, <2>3, <2>4, <2>5, <2>6
  <2>8. FlattenSeq(SubSeq(text, a, b)) = FlattenSeq(text)
    BY <2>7, FlattenTrim DEF n
  <2> QED BY <2>1, <2>8, Zenon DEF Fields
<1> QED BY <1>2, <1>3

\* The marks for a number with its unit, and for a number alone.
LEMMA AloneIsNoUnit ==
  ASSUME NEW words, Len(words) = 1, NEW e
  PROVE  ~HasUnit(e, words)
BY DEF HasUnit

\* The last word and the others, of a word and its unit.
LEMMA FollowedByUnit ==
  ASSUME NEW W, NEW words \in Seq(W), Len(words) = 1, NEW unit \in Seq(W), Len(unit) = 1
  PROVE  /\ Len(words \o unit) = 2
         /\ Last(words \o unit) = unit[1]
         /\ Len(Front(words \o unit)) = 1
         /\ Front(words \o unit)[1] = words[1]
         /\ <<unit[1]>> = unit
<1> DEFINE two == words \o unit
<1>1. two \in Seq(W) /\ Len(two) = 2 /\ two[1] = words[1] /\ two[2] = unit[1]
  <2>1. two \in Seq(W) /\ Len(two) = Len(words) + Len(unit)
        /\ \A i \in 1..(Len(words) + Len(unit)) :
             two[i] = IF i <= Len(words) THEN words[i] ELSE unit[i - Len(words)]
    BY ConcatProperties, Zenon
  <2>2. \A i \in 1..2 : two[i] = IF i <= 1 THEN words[i] ELSE unit[i - 1]
    BY <2>1
  <2> HIDE DEF two
  <2> QED BY <2>1, <2>2
<1> HIDE DEF two
<1>2. Last(two) = unit[1]
  BY <1>1 DEF Last
<1>3. Len(Front(two)) = 1 /\ Front(two)[1] = words[1]
  BY <1>1 DEF Front
<1>4. <<unit[1]>> = unit
  OBVIOUS
<1> QED BY <1>1, <1>2, <1>3, <1>4 DEF two

\* The marks for a value, and a unit that is right or not.
NumericMark(e, v, right) ==
  IF v = NaN \/ ~InTolerance(e, v) THEN 0
  ELSE IF e.unitMarks > 0 /\ ~right THEN Max({e.max - e.unitMarks, 0})
  ELSE e.max

\* A number alone is marked as one without the right unit,
LEMMA NumberAlone ==
  ASSUME NEW e, NEW text, Len(Fields(text)) = 1
  PROVE  MatchNumeric(e, text) = NumericMark(e, Value[Fields(text)[1]], FALSE)
<1> DEFINE words == Fields(text)
           unit  == HasUnit(e, words)
           right == unit /\ Lowered(<<Last(words)>>) = Lowered(e.unit)
           v     == ParseFloat(IF unit THEN Front(words) ELSE words)
<1>1. MatchNumeric(e, text) = NumericMark(e, v, right)
  BY Zenon DEF MatchNumeric, NumericMark
<1>2. ~unit
  BY AloneIsNoUnit
<1>3. v = Value[words[1]]
  <2> HIDE DEF words, unit
  <2> QED BY <1>2 DEF ParseFloat, words
<1>4. right <=> FALSE
  BY <1>2, Zenon
<1> HIDE DEF right, v, unit
<1>5. right = FALSE
  BY <1>4, Zenon DEF right
<1> QED BY <1>1, <1>3, <1>5, Zenon

\* and a number before the entry's unit as one with it.
LEMMA NumberWithUnit ==
  ASSUME NEW W, NEW e, e.unit \in Seq(W), Len(e.unit) = 1, Value[e.unit[1]] = NaN,
         NEW words \in Seq(W), Len(words) = 1,
         NEW text, Fields(text) = words \o e.unit
  PROVE  MatchNumeric(e, text) = NumericMark(e, Value[words[1]], TRUE)
<1> DEFINE two   == words \o e.unit
           unit  == HasUnit(e, two)
           right == unit /\ Lowered(<<Last(two)>>) = Lowered(e.unit)
           v     == ParseFloat(IF unit THEN Front(two) ELSE two)
<1>1. MatchNumeric(e, text) = NumericMark(e, v, right)
  BY Zenon DEF MatchNumeric, NumericMark
<1>2. /\ Len(two) = 2 /\ Last(two) = e.unit[1] /\ Len(Front(two)) = 1
      /\ Front(two)[1] = words[1] /\ <<e.unit[1]>> = e.unit
  BY FollowedByUnit
<1> HIDE DEF two
<1>3. e.unit # <<>>
  <2>1. Len(e.unit) # 0
    OBVIOUS
  <2> QED BY <2>1, EmptySeq, Zenon
<1>4. unit
  BY <1>2, <1>3 DEF HasUnit
<1>5. v = Value[words[1]]
  <2> HIDE DEF unit
  <2> QED BY <1>2, <1>4 DEF ParseFloat
<1>6. right
  BY <1>2, <1>4, Zenon
<1> HIDE DEF unit, v
<1>7. right = TRUE
  BY <1>6, Zenon
<1> QED BY <1>1, <1>5, <1>7, Zenon

\* A deduction for a missing unit takes nothing below 0 and gives nothing.
LEMMA UnitCountsFor ==
  ASSUME NEW e, EntryTyped(e), NEW v
  PROVE  NumericMark(e, v, FALSE) <= NumericMark(e, v, TRUE)
<1> DEFINE off == Max({e.max - e.unitMarks, 0})
<1>1. e.max \in Nat /\ e.unitMarks \in Int
  BY DEF EntryTyped
<1>2. e.unitMarks > 0 => off \in Int /\ off <= e.max
  <2> DEFINE d == e.max - e.unitMarks
  <2>1. d \in Int /\ (e.unitMarks > 0 => d <= e.max)
    BY <1>1
  <2> HIDE DEF d
  <2>2. \E x \in {d, 0} : \A y \in {d, 0} : y <= x
    BY <2>1
  <2>3. Max({d, 0}) \in {d, 0}
    BY <2>2 DEF Max
  <2> QED BY <1>1, <2>1, <2>3 DEF d
<1> DEFINE zero == v = NaN \/ ~InTolerance(e, v)
<1>3. /\ NumericMark(e, v, FALSE) = IF zero THEN 0 ELSE IF e.unitMarks > 0 THEN off ELSE e.max
      /\ NumericMark(e, v, TRUE) = IF zero THEN 0 ELSE e.max
  <2> HIDE DEF off, zero
  <2> QED BY DEF NumericMark, off, zero
<1> DEFINE less == NumericMark(e, v, FALSE)
           full == NumericMark(e, v, TRUE)
           big  == e.unitMarks > 0
<1>4. /\ zero => less = 0 /\ full = 0
      /\ ~zero /\ big => less = off /\ full = e.max
      /\ ~zero /\ ~big => less = e.max /\ full = e.max
  <2> HIDE DEF off, zero
  <2> QED BY <1>3, Zenon
<1>5. big => off \in Int /\ off <= e.max
  BY <1>2
<1> HIDE DEF off, zero, big, less, full
<1>6. less <= full
  <2>1. CASE zero
    BY <1>4, <2>1
  <2>2. CASE ~zero /\ big
    BY <1>1, <1>4, <1>5, <2>2
  <2>3. CASE ~zero /\ ~big
    BY <1>1, <1>4, <2>3
  <2> QED BY <2>1, <2>2, <2>3, Zenon
<1> QED BY <1>6 DEF less, full

\* So the unit gains marks or changes nothing.
LEMMA RightUnitIsFree ==
  ASSUME NEW W, NEW e, EntryTyped(e), e.unit \in Seq(W), Len(e.unit) = 1,
         ParseFloat(e.unit) = NaN,
         NEW text \in Seq(Seq(W)), Len(Fields(text)) = 1
  PROVE  MatchNumeric(e, TrimSpace(text)) <= MatchNumeric(e, TrimSpace(<<Fields(text) \o e.unit>>))
<1> DEFINE words == Fields(text)
           both  == <<words \o e.unit>>
<1>1. words \in Seq(W) /\ Fields(TrimSpace(text)) = words
  BY TrimFields, FlattenPlaces DEF Fields
<1> HIDE DEF words
<1>2. words \o e.unit \in Seq(W) /\ both \in Seq(Seq(W))
  BY <1>1
<1>3. Fields(TrimSpace(both)) = words \o e.unit
  <2>1. Fields(both) = words \o e.unit
    BY <1>2, OneLine
  <2>2. Fields(TrimSpace(both)) = Fields(both)
    BY <1>2, TrimFields
  <2> QED BY <2>1, <2>2
<1>4. Value[e.unit[1]] = NaN
  BY DEF ParseFloat
<1>5. Len(words) = 1
  BY DEF words
<1> DEFINE a == TrimSpace(text)
           b == TrimSpace(both)
<1>6. MatchNumeric(e, a) = NumericMark(e, Value[words[1]], FALSE)
  <2>1. Fields(a) = words
    BY <1>1
  <2> HIDE DEF a
  <2> QED BY <1>5, <2>1, NumberAlone, Zenon
<1>7. MatchNumeric(e, b) = NumericMark(e, Value[words[1]], TRUE)
  <2>1. Fields(b) = words \o e.unit
    BY <1>3
  <2> HIDE DEF b
  <2> QED BY <1>1, <1>4, <1>5, <2>1, NumberWithUnit
<1>8. MatchNumeric(e, a) <= MatchNumeric(e, b)
  <2> HIDE DEF a, b
  <2> QED BY <1>6, <1>7, UnitCountsFor
<1> QED BY <1>8 DEF words

\* What Award gives for a numeric entry and an answer that is not blank.
LEMMA NumericAward ==
  ASSUME NEW e, e.match = "numeric", NEW text, ~Blank(text)
  PROVE  Award(e, text) = clamp(MatchNumeric(e, TrimSpace(text)), 0, IF e.max = 0 THEN 3 ELSE e.max)
<1> DEFINE q == [no |-> "1", section |-> "A", answer |-> text, max |-> 3, lowRead |-> FALSE]
           guide == [n \in {"1"} |-> e]
           reply == [kind |-> "failed", marks |-> 0]
           max == IF e.max = 0 THEN q.max ELSE e.max
           mark == clamp(Dispatch(e, text, max), 0, max)
<1>1. q.no = "1" /\ q.answer = text /\ q.max = 3
  OBVIOUS
<1>2. q.no \in DOMAIN guide /\ guide[q.no] = e
  BY <1>1
<1>3. Award(e, text) = GradeByGuide(guide, q, reply).awarded
  BY DEF Award
<1> HIDE DEF q, guide, reply
<1>4. GradeByGuide(guide, q, reply) = GradedQuestion(q, max, mark, answerFlags(q))
  <2>1. e.match \in Deterministic /\ e.match # "rubric"
    BY DEF Deterministic
  <2>2. GradeByGuide(guide, q, reply) =
          GradedQuestion(q, max, clamp(Dispatch(guide[q.no], q.answer, max), 0, max),
                         answerFlags(q))
    BY <1>1, <1>2, <2>1, Zenon DEF GradeByGuide
  <2> QED BY <1>1, <1>2, <2>2, Zenon
<1>5. Dispatch(e, text, max) = MatchNumeric(e, TrimSpace(text))
  <2> HIDE DEF max
  <2> QED BY DEF Dispatch
<1>6. GradedQuestion(q, max, mark, answerFlags(q)).awarded = mark
  <2> HIDE DEF mark, max
  <2> QED BY DEF GradedQuestion
<1>7. max = IF e.max = 0 THEN 3 ELSE e.max
  BY <1>1
<1> HIDE DEF max
<1> QED BY <1>3, <1>4, <1>5, <1>6, <1>7, Zenon

\* Confining two numbers to a range keeps their order.
LEMMA ClampMonotone ==
  ASSUME NEW x \in Int, NEW y \in Int, x <= y, NEW hi \in Nat
  PROVE  clamp(x, 0, hi) <= clamp(y, 0, hi)
BY DEF clamp

\* For any entry, a number alone never gets more marks than the number followed
\* by the entry's unit, be it rewarded or not.
THEOREM UnitIsFree ==
  ASSUME NEW W, NEW e, EntryTyped(e), e.match = "numeric",
         e.unit \in Seq(W), Len(e.unit) = 1, ParseFloat(e.unit) = NaN,
         NEW text \in Seq(Seq(W)), Len(Fields(text)) = 1
  PROVE  Award(e, text) <= Award(e, <<Fields(text) \o e.unit>>)
<1> DEFINE words == Fields(text)
           line  == words \o e.unit
           both  == <<line>>
           hi    == IF e.max = 0 THEN 3 ELSE e.max
<1>1. hi \in Nat
  BY DEF EntryTyped
<1>2. ~Blank(text)
  <2>1. words # <<>>
    <3>1. words \in Seq(W)
      BY FlattenPlaces DEF Fields
    <3>2. Len(words) # 0
      OBVIOUS
    <3> HIDE DEF words
    <3> QED BY <3>1, <3>2, EmptySeq, Zenon
  <2> QED BY <2>1 DEF Blank
<1>3. ~Blank(both)
  <2>1. words \in Seq(W) /\ Len(words) = 1
    BY FlattenPlaces DEF Fields
  <2> HIDE DEF words
  <2>2. line \in Seq(W) /\ Len(line) = 2
    BY <2>1, FollowedByUnit
  <2> HIDE DEF line
  <2>3. Fields(both) = line
    BY <2>2, OneLine
  <2>4. line # <<>>
    <3>1. Len(line) # 0
      BY <2>2
    <3> QED BY <2>2, <3>1, EmptySeq, Zenon
  <2> QED BY <2>3, <2>4 DEF Blank
<1> DEFINE a == MatchNumeric(e, TrimSpace(text))
           b == MatchNumeric(e, TrimSpace(both))
<1>4. a <= b
  BY RightUnitIsFree
<1>5. a \in Int /\ b \in Int
  BY NumericIsNumber
<1>6. Award(e, text) = clamp(a, 0, hi) /\ Award(e, both) = clamp(b, 0, hi)
  <2>1. Award(e, text) = clamp(a, 0, hi)
    BY <1>2, NumericAward, Zenon
  <2> HIDE DEF both
  <2>2. Award(e, both) = clamp(b, 0, hi)
    BY <1>3, NumericAward, Zenon
  <2> QED BY <2>1, <2>2
<1> HIDE DEF a, b, hi, both
<1>7. Award(e, text) <= Award(e, both)
  BY <1>1, <1>4, <1>5, <1>6, ClampMonotone
<1> QED BY <1>7 DEF both

---------------------------------------------------------------------------
(***************************************************************************)
(* Algorithms itself.                                                      *)
(***************************************************************************)
MarkingResult(i) ==
  [paper   |-> GradePaper(Guide(i), Questions(i), <<i.reply, i.reply>>),
   preview |-> PreviewGuide(Guide(i), "1", i.answer)]

TranscriptionResult(i, map) ==
  [paper |-> TranscribeWithModels(i, map), flags |-> computeFlags(TranscribeWithModels(i, map)),
   map   |-> map]

ReportsResult(i) ==
  [analytics |-> GetAnalytics(i.subs), overrides |-> GetOverrideStats(i.subs),
   mastery   |-> GetOutcomeMastery(i.subs, i.mapping), rows |-> ClassResultsCSV(i.subs)]

\* A result is the algorithm's on the input that was picked.
ResultInv ==
  /\ kind \in {"marking", "transcription", "reports", "request"}
  /\ kind = "marking" => /\ input \in MarkingInputs
                         /\ result \in {None, MarkingResult(input)}
  /\ kind = "transcription" => /\ input \in TranscriptionInputs
                               /\ \/ result = None
                                  \/ \E map \in extractMarkMap(input) :
                                       result = TranscriptionResult(input, map)
  /\ kind = "reports" => /\ input \in ReportInputs
                         /\ result \in {None, ReportsResult(input)}
  /\ kind = "request" => /\ input \in RequestInputs
                         /\ result \in {None, Answer(input)}

\* ResultInv holds at first, and a run of an algorithm establishes its result.
LEMMA ResultInit == Init => ResultInv
BY DEF Init, ResultInv

LEMMA ResultStep == ResultInv /\ [Next]_vars => ResultInv'
<1> SUFFICES ASSUME ResultInv, [Next]_vars PROVE ResultInv'
  OBVIOUS
<1>1. CASE UNCHANGED vars
  BY <1>1 DEF ResultInv, vars
<1>2. CASE Next
  <2>1. UNCHANGED <<kind, input>>
    BY <1>2 DEF Next
  <2>2. kind = "marking" => result' = MarkingResult(input)
    BY <1>2 DEF Next, RunMarking, RunTranscription, RunReports, RunRequest, MarkingResult
  <2>3. kind = "request" => result' = Answer(input)
    BY <1>2 DEF Next, RunMarking, RunTranscription, RunReports, RunRequest
  <2>4. kind = "reports" => result' = ReportsResult(input)
    BY <1>2 DEF Next, RunMarking, RunTranscription, RunReports, RunRequest, ReportsResult
  <2>5. kind = "transcription" =>
          \E map \in extractMarkMap(input) : result' = TranscriptionResult(input, map)
    BY <1>2 DEF Next, RunMarking, RunTranscription, RunReports, RunRequest, TranscriptionResult
  <2>6. CASE kind = "transcription"
    <3>1. PICK map \in extractMarkMap(input) : result' = TranscriptionResult(input, map)
      BY <2>5, <2>6
    <3>2. map \in extractMarkMap(input') /\ result' = TranscriptionResult(input', map)
      BY <2>1, <3>1
    <3>3. kind' = "transcription" /\ input' \in TranscriptionInputs
      BY <2>1, <2>6 DEF ResultInv
    <3> QED BY <3>2, <3>3 DEF ResultInv
  <2>7. CASE kind # "transcription"
    BY <2>1, <2>2, <2>3, <2>4, <2>7 DEF ResultInv
  <2> QED BY <2>6, <2>7
<1> QED BY <1>1, <1>2

LEMMA ResultIsAlgorithms == Spec => []ResultInv
BY ResultInit, ResultStep, PTL DEF Spec

LEMMA FewPositions == IsFiniteSet(1..1) /\ IsFiniteSet(1..2)
<1>1. \A n \in Nat : IsFiniteSet(1..n)
  BY FS_Interval
<1> QED BY <1>1

\* The entries Algorithms marks against.
LEMMA EntriesTyped == \A e \in Entries : EntryTyped(e)
<1>1. /\ DOMAIN <<>> = {} /\ IsFiniteSet({})
      /\ Plain.max = 2 /\ Plain.unitMarks = 0 /\ Plain.steps = <<>> /\ Plain.criteria = <<>>
  BY FS_EmptySet DEF Plain
<1>2. ASSUME NEW e, e.max \in {0, 2}, e.unitMarks \in {-1, 0, 1, 3},
             e.steps = <<>>, e.criteria = <<>>
      PROVE  EntryTyped(e)
  BY <1>1, <1>2 DEF EntryTyped
<1>3. ASSUME NEW o \in Objective
      PROVE  EntryTyped([Plain EXCEPT !.match = o.match, !.answer = o.answer,
                                      !.accept = <<o.answer, <<<<"8">>>>>>,
                                      !.normalize = o.normalize, !.max = o.max])
  <2> DEFINE e == [Plain EXCEPT !.match = o.match, !.answer = o.answer,
                                !.accept = <<o.answer, <<<<"8">>>>>>,
                                !.normalize = o.normalize, !.max = o.max]
  <2>1. e.max = o.max /\ e.unitMarks = 0 /\ e.steps = <<>> /\ e.criteria = <<>>
    BY DEF Plain
  <2>2. o.max \in {0, 2}
    BY DEF Objective
  <2> HIDE DEF e
  <2>3. EntryTyped(e)
    BY <1>2, <2>1, <2>2
  <2> QED BY <2>3 DEF e
<1>4. ASSUME NEW n \in Numeric
      PROVE  EntryTyped([Plain EXCEPT !.match = "numeric", !.value = n.value, !.tol = n.tol,
                                      !.tolType = n.tolType, !.unit = n.unit,
                                      !.unitMarks = n.unitMarks])
  <2> DEFINE e == [Plain EXCEPT !.match = "numeric", !.value = n.value, !.tol = n.tol,
                                !.tolType = n.tolType, !.unit = n.unit,
                                !.unitMarks = n.unitMarks]
  <2>1. e.max = 2 /\ e.unitMarks = n.unitMarks /\ e.steps = <<>> /\ e.criteria = <<>>
    BY DEF Plain
  <2>2. n.unitMarks \in {-1, 0, 1, 3}
    BY DEF Numeric
  <2> HIDE DEF e
  <2>3. EntryTyped(e)
    BY <1>2, <2>1, <2>2
  <2> QED BY <2>3 DEF e
<1>5. ASSUME NEW l \in StepLists
      PROVE  EntryTyped([Plain EXCEPT !.match = "multi_step", !.steps = l])
  <2> DEFINE e == [Plain EXCEPT !.match = "multi_step", !.steps = l]
  <2>1. e.max = 2 /\ e.unitMarks = 0 /\ e.steps = l /\ e.criteria = <<>>
    BY DEF Plain
  <2>2. \A s \in SomeSteps : s.marks \in Int
    BY DEF SomeSteps, Step
  <2>3. IsFiniteSet(DOMAIN l) /\ \A i \in DOMAIN l : l[i].marks \in Int
    <3>1. CASE \E a \in SomeSteps : l = <<a>>
      <4>1. PICK a \in SomeSteps : l = <<a>>
        BY <3>1
      <4>2. DOMAIN l = 1..1 /\ l[1] = a
        BY <4>1
      <4> QED BY <2>2, <4>2, FewPositions
    <3>2. CASE \E a, b \in SomeSteps : l = <<a, b>>
      <4>1. PICK a \in SomeSteps, b \in SomeSteps : l = <<a, b>>
        BY <3>2
      <4>2. DOMAIN l = 1..2 /\ l[1] = a /\ l[2] = b
        BY <4>1
      <4> QED BY <2>2, <4>2, FewPositions
    <3> QED BY <3>1, <3>2 DEF StepLists
  <2> HIDE DEF e
  <2>4. EntryTyped(e)
    BY <1>1, <2>1, <2>3 DEF EntryTyped
  <2> QED BY <2>4 DEF e
<1>6. ASSUME NEW c \in Criterion
      PROVE  EntryTyped([Plain EXCEPT !.match = "partial",
               !.criteria = <<[accept |-> <<c.text>>, marks |-> c.marks],
                              [accept |-> <<<<<<"7">>>>>>, marks |-> 1]>>])
  <2> DEFINE l == <<[accept |-> <<c.text>>, marks |-> c.marks],
                    [accept |-> <<<<<<"7">>>>>>, marks |-> 1]>>
             e == [Plain EXCEPT !.match = "partial", !.criteria = l]
  <2>1. e.max = 2 /\ e.unitMarks = 0 /\ e.steps = <<>> /\ e.criteria = l
    BY DEF Plain
  <2>2. DOMAIN l = 1..2 /\ l[1].marks \in {-1, 2} /\ l[2].marks = 1
    BY DEF Criterion
  <2>3. IsFiniteSet(1..2)
    BY FewPositions
  <2> HIDE DEF e, l
  <2>4. EntryTyped(e)
    BY <1>1, <2>1, <2>2, <2>3 DEF EntryTyped
  <2> QED BY <2>4 DEF e, l
<1>7. ASSUME NEW m \in {0, 2}
      PROVE  EntryTyped([Plain EXCEPT !.match = "rubric", !.max = m])
  <2> DEFINE e == [Plain EXCEPT !.match = "rubric", !.max = m]
  <2>1. e.max = m /\ e.unitMarks = 0 /\ e.steps = <<>> /\ e.criteria = <<>>
    BY DEF Plain
  <2> HIDE DEF e
  <2>2. EntryTyped(e)
    BY <1>2, <2>1
  <2> QED BY <2>2 DEF e
<1> DEFINE object == {[Plain EXCEPT !.match = o.match, !.answer = o.answer,
                                    !.accept = <<o.answer, <<<<"8">>>>>>,
                                    !.normalize = o.normalize, !.max = o.max] : o \in Objective}
           number == {[Plain EXCEPT !.match = "numeric", !.value = n.value, !.tol = n.tol,
                                    !.tolType = n.tolType, !.unit = n.unit,
                                    !.unitMarks = n.unitMarks] : n \in Numeric}
           multi  == {[Plain EXCEPT !.match = "multi_step", !.steps = l] : l \in StepLists}
           part   == {[Plain EXCEPT !.match = "partial",
                         !.criteria = <<[accept |-> <<c.text>>, marks |-> c.marks],
                                        [accept |-> <<<<<<"7">>>>>>, marks |-> 1]>>]
                       : c \in Criterion}
           rubric == {[Plain EXCEPT !.match = "rubric", !.max = m] : m \in {0, 2}}
<1>8. \A e \in object : EntryTyped(e)
  BY <1>3, Zenon
<1>9. \A e \in number : EntryTyped(e)
  BY <1>4, Zenon
<1>10. \A e \in multi : EntryTyped(e)
  BY <1>5, Zenon
<1>11. \A e \in part : EntryTyped(e)
  BY <1>6, Zenon
<1>12. \A e \in rubric : EntryTyped(e)
  BY <1>7, Zenon
<1>13. Entries = object \cup number \cup multi \cup part \cup rubric
  BY Zenon DEF Entries
<1> HIDE DEF object, number, multi, part, rubric
<1> QED BY <1>8, <1>9, <1>10, <1>11, <1>12, <1>13

\* Of the papers that GradePaper marks in Algorithms: marks within their maxima,
\* sections that add up, a score of 0 to 100 %.  By PaperAddsUp, as the bounded
\* guides are typed.
THEOREM MarksAddUp == Spec => []TotalsAddUp
<1>1. ResultInv => TotalsAddUp
  <2> SUFFICES ASSUME ResultInv, Done("marking") PROVE TotalsAddUp
    BY DEF TotalsAddUp
  <2> DEFINE questions == Questions(input)
             replies   == <<input.reply, input.reply>>
             guide     == Guide(input)
  <2>1. input \in MarkingInputs /\ result = MarkingResult(input)
    BY DEF ResultInv, Done
  <2>2. /\ input.entry \in Entries /\ input.paperMax \in {0, 3} /\ input.reply \in Replies
    BY <2>1, Zenon DEF MarkingInputs
  <2>3. \A no \in DOMAIN guide : EntryTyped(guide[no])
    BY <2>2, EntriesTyped DEF Guide
  <2>4. /\ DOMAIN questions = 1..2 /\ IsFiniteSet(1..2)
        /\ \A i \in 1..2 : questions[i].max \in Nat
    BY <2>2, FewPositions DEF Questions
  <2>5. \A i \in 1..2 : ReplyTyped(replies[i])
    <3>1. ReplyTyped(input.reply)
      BY <2>2 DEF Replies, ReplyTyped
    <3> QED BY <3>1
  <2>6. result.paper = GradePaper(guide, questions, replies)
    BY <2>1 DEF MarkingResult
  <2> HIDE DEF guide, questions, replies
  <2>7. AddsUp(result.paper)
    BY <2>3, <2>4, <2>5, <2>6, PaperAddsUp
  <2> QED BY <2>7 DEF AddsUp, TotalsAddUp
<1> QED BY <1>1, ResultIsAlgorithms, PTL

\* Of the inputs of Algorithms: PreviewGuide gives the marks of GradePaper.
THEOREM PreviewIsMirror == Spec => []PreviewMirrorsGrade
<1>1. ResultInv => PreviewMirrorsGrade
  <2> SUFFICES ASSUME ResultInv, Done("marking"), input.entry.max > 0,
                      ~Blank(input.answer), result.preview.previewable
               PROVE  result.preview.awarded = result.paper.questions[1].awarded
    BY DEF PreviewMirrorsGrade
  <2> DEFINE questions == Questions(input)
             replies   == <<input.reply, input.reply>>
             guide     == Guide(input)
             q         == questions[1]
  <2>1. result = MarkingResult(input)
    BY DEF ResultInv, Done
  <2>2. /\ DOMAIN questions = 1..2 /\ q.no = "1" /\ q.answer = input.answer
        /\ "1" \in DOMAIN guide /\ guide["1"] = input.entry
    BY DEF Questions, Guide
  <2>3. /\ result.preview = PreviewGuide(guide, q.no, q.answer)
        /\ result.paper = GradePaper(guide, questions, replies)
    <3> HIDE DEF guide, questions, replies
    <3> QED BY <2>1, <2>2 DEF MarkingResult, guide, questions, replies
  <2> HIDE DEF guide, questions, replies, q
  <2>4. result.paper.questions =
          [i \in DOMAIN questions |-> GradeByGuide(guide, questions[i], replies[i])]
    BY <2>3 DEF GradePaper
  <2>5. result.paper.questions[1] = GradeByGuide(guide, q, replies[1])
    BY <2>2, <2>4 DEF q
  <2> QED BY <2>2, <2>3, <2>5, PreviewAgrees
<1> QED BY <1>1, ResultIsAlgorithms, PTL

\* Of the requests of Algorithms, for any tenants: a handler goes on for the
\* principal's tenant only, and reaches another's only as the operator.
THEOREM OwnerOnly == Spec => []HandlersActForOwner
<1>1. ResultInv => HandlersActForOwner
  <2> SUFFICES ASSUME ResultInv, Done("request") PROVE HandlersActForOwner
    BY DEF HandlersActForOwner
  <2>1. input \in RequestInputs /\ result = Answer(input)
    BY DEF ResultInv, Done
  <2>2. /\ input.owner = {} \/ \E t : input.owner = {t}
        /\ input.listing \in {"some", "none", "failed"} /\ input.lookupFails \in BOOLEAN
    BY <2>1 DEF RequestInputs
  <2>3. ActsForOwner(input, result)
    BY <2>1, <2>2, AnswersActForOwner
  <2> QED BY <2>3 DEF ActsForOwner, HandlersActForOwner
<1> QED BY <1>1, ResultIsAlgorithms, PTL

\* The pages that Algorithms transcribes.
LEMMA QTyped ==
  ASSUME NEW no \in Seq(Nat), NEW section \in SUBSET MCLabels, NEW max \in Nat \ {0}
  PROVE  Q(no, section, max) \in {x \in Item(MCLabels) : x.max > 0}
BY DEF Q, Item

LEMMA ListsTyped ==
  ASSUME NEW items \in PrintedLists
  PROVE  /\ items \in Seq(Item(MCLabels))
         /\ \A j \in 1..Len(items) : items[j].max > 0
<1> DEFINE G == {x \in Item(MCLabels) : x.max > 0}
<1>1. /\ <<>> \in Seq(Nat) /\ <<1>> \in Seq(Nat) /\ <<2>> \in Seq(Nat) /\ <<1, 2>> \in Seq(Nat)
      /\ 1 \in Nat \ {0} /\ 2 \in Nat \ {0}
  OBVIOUS
<1>2. {} \in SUBSET MCLabels /\ {"B"} \in SUBSET MCLabels /\ {"?"} \in SUBSET MCLabels
      /\ {"Section a"} \in SUBSET MCLabels
  BY DEF MCLabels
<1>3. Q(<<1>>, {}, 1) \in G /\ Q(<<1>>, {"B"}, 2) \in G /\ Q(<<1>>, {"?"}, 1) \in G
  BY <1>1, <1>2, QTyped, Zenon
<1>4. Q(<<1, 2>>, {}, 2) \in G /\ Q(<<1>>, {"Section a"}, 1) \in G
  BY <1>1, <1>2, QTyped, Zenon
<1>5. Q(<<>>, {}, 1) \in G /\ Q(<<2>>, {}, 1) \in G
  BY <1>1, <1>2, QTyped, Zenon
<1>6. ASSUME NEW a \in G, NEW b \in G, NEW c \in G
      PROVE  <<a, b>> \in Seq(G) /\ <<a, b, c>> \in Seq(G)
  <2> HIDE DEF G
  <2> QED OBVIOUS
<1>7. <<>> \in Seq(G)
  OBVIOUS
<1>8. items \in Seq(G)
  <2> HIDE DEF G
  <2>1. /\ <<Q(<<1>>, {}, 1), Q(<<1>>, {"B"}, 2), Q(<<1>>, {"?"}, 1)>> \in Seq(G)
        /\ <<Q(<<1, 2>>, {}, 2), Q(<<1>>, {"Section a"}, 1)>> \in Seq(G)
        /\ <<Q(<<>>, {}, 1), Q(<<2>>, {}, 1)>> \in Seq(G)
    BY <1>3, <1>4, <1>5, <1>6, Zenon
  <2> QED BY <1>7, <2>1, Zenon DEF PrintedLists
<1>9. \A x \in G : x \in Item(MCLabels) /\ x.max > 0
  OBVIOUS
<1> HIDE DEF G
<1> QED BY <1>8, <1>9

PageTyped(p) ==
  /\ p.questions \in Reply(MCLabels) /\ p.header \in SUBSET MCLabels /\ Marked(p)

\* Every page of Algorithms is one that the models may report.
LEMMA PagesAreTyped ==
  ASSUME NEW p \in Pages
  PROVE  PageTyped(p)
<1>1. /\ p.header \in {{}, {"A"}, {"B"}}
      /\ p.questions \in [shape : {"array", "object", "failed"}, items : PrintedLists]
  BY DEF Pages
<1>2. p.header \in SUBSET MCLabels
  BY <1>1 DEF MCLabels
<1>3. p.questions.items \in PrintedLists /\ p.questions.shape \in {"array", "object", "failed"}
      /\ p.questions = [shape |-> p.questions.shape, items |-> p.questions.items]
  BY <1>1
<1>4. /\ p.questions.items \in Seq(Item(MCLabels))
      /\ \A j \in 1..Len(p.questions.items) : p.questions.items[j].max > 0
  BY <1>3, ListsTyped
<1>5. p.questions \in Reply(MCLabels)
  BY <1>3, <1>4 DEF Reply
<1> QED BY <1>2, <1>4, <1>5 DEF PageTyped, Marked

\* So is every paper.
LEMMA InputsTyped ==
  ASSUME NEW pages \in TranscriptionInputs
  PROVE  \E n : PagesTyped(pages, n, MCLabels) /\ \A i \in 1..n : Marked(pages[i])
<1>1. CASE pages = <<>>
  <2>1. PagesTyped(pages, 0, MCLabels) /\ \A i \in 1..0 : Marked(pages[i])
    BY <1>1 DEF PagesTyped
  <2> QED BY <2>1
<1>2. CASE \E p \in FirstPages, m \in Maps, q \in LaterPages : pages = <<WithMap(p, m), q>>
  <2>1. PICK p \in FirstPages, m \in Maps, q \in LaterPages : pages = <<WithMap(p, m), q>>
    BY <1>2
  <2>2. p \in Pages /\ q \in Pages
    BY DEF FirstPages, LaterPages
  <2>3. PageTyped(p) /\ PageTyped(q)
    BY <2>2, PagesAreTyped
  <2>4. WithMap(p, m).questions = p.questions /\ WithMap(p, m).header = p.header
    BY DEF WithMap
  <2>5. PageTyped(WithMap(p, m))
    BY <2>3, <2>4 DEF PageTyped, Marked
  <2>6. DOMAIN pages = 1..2 /\ pages[1] = WithMap(p, m) /\ pages[2] = q
    BY <2>1
  <2>7. \A i \in 1..2 : PageTyped(pages[i])
    BY <2>3, <2>5, <2>6
  <2>8. PagesTyped(pages, 2, MCLabels)
    BY <2>6, <2>7 DEF PagesTyped, PageTyped
  <2> QED BY <2>7, <2>8 DEF PageTyped
<1>3. pages = <<>> \/ \E p \in FirstPages, m \in Maps, q \in LaterPages : pages = <<WithMap(p, m), q>>
  BY DEF TranscriptionInputs
<1> QED BY <1>1, <1>2, <1>3

\* A finished transcription is that of typed pages.
LEMMA Transcribed ==
  ASSUME ResultInv, Done("transcription")
  PROVE  /\ \E n : PagesTyped(input, n, MCLabels) /\ \A i \in 1..n : Marked(input[i])
         /\ Found = FoundOn(input, result.map)
         /\ result.paper = TranscribeWithModels(input, result.map)
         /\ result.flags = computeFlags(result.paper)
<1>1. /\ input \in TranscriptionInputs
      /\ \E map \in extractMarkMap(input) : result = TranscriptionResult(input, map)
  BY DEF ResultInv, Done
<1>2. PICK map \in extractMarkMap(input) : result = TranscriptionResult(input, map)
  BY <1>1
<1>3. /\ result.map = map /\ result.paper = TranscribeWithModels(input, map)
      /\ result.flags = computeFlags(TranscribeWithModels(input, map))
  BY <1>2 DEF TranscriptionResult
<1>4. Found = FoundOn(input, map)
  BY <1>3 DEF Found, FoundOn
<1> QED BY <1>1, <1>3, <1>4, InputsTyped

\* Of the pages of Algorithms: failures drop what failed and nothing else.
THEOREM FailuresDropOnlyTheirs == Spec => []OnlyFailuresDropQuestions
<1>1. ResultInv => OnlyFailuresDropQuestions
  <2> SUFFICES ASSUME ResultInv, Done("transcription")
               PROVE  /\ Len(Found) = Len(Readable(input))
                      /\ \A k \in DOMAIN Found : Found[k].max = Readable(input)[k].max
    BY DEF OnlyFailuresDropQuestions
  <2>1. PICK n : PagesTyped(input, n, MCLabels)
    BY Transcribed
  <2>2. Found = FoundOn(input, result.map)
    BY Transcribed
  <2>3. /\ Len(FoundOn(input, result.map)) = Len(Readable(input))
        /\ \A k \in DOMAIN FoundOn(input, result.map) :
             FoundOn(input, result.map)[k].max = Readable(input)[k].max
    BY <2>1, PagesKept
  <2> HIDE DEF Found
  <2> QED BY <2>2, <2>3, Zenon
<1> QED BY <1>1, ResultIsAlgorithms, PTL

\* Of the pages of Algorithms: no number is found twice.
THEOREM NoNumberTwice == Spec => []NumbersUnique
<1>1. ResultInv => NumbersUnique
  <2> SUFFICES ASSUME ResultInv, Done("transcription"),
                      \A i \in DOMAIN Printed(input) : Len(Printed(input)[i].no) <= 1
               PROVE  \A i, j \in DOMAIN Found : i # j => Found[i].no # Found[j].no
    BY DEF NumbersUnique
  <2>1. PICK n : PagesTyped(input, n, MCLabels)
    BY Transcribed
  <2>2. Found = FoundOn(input, result.map)
    BY Transcribed
  <2>3. \A i, j \in DOMAIN FoundOn(input, result.map) :
          i # j => FoundOn(input, result.map)[i].no # FoundOn(input, result.map)[j].no
    BY <2>1, NumbersAreUnique
  <2> HIDE DEF Found
  <2> QED BY <2>2, <2>3, Zenon
<1> QED BY <1>1, ResultIsAlgorithms, PTL

\* Of the pages of Algorithms: a header that was read goes on to later pages.
THEOREM HeadersCarryOn == Spec => []SectionsCarried
<1>1. ResultInv => SectionsCarried
  <2> SUFFICES ASSUME ResultInv, Done("transcription"), detectSection(input[1]) # {}
               PROVE  \A i \in DOMAIN Found :
                        \/ validSection(Found[i].section, result.map)
                        \/ \E j \in DOMAIN input : Found[i].section = detectSection(input[j])
    BY DEF SectionsCarried
  <2>1. PICK n : PagesTyped(input, n, MCLabels)
    BY Transcribed
  <2>2. Found = FoundOn(input, result.map)
    BY Transcribed
  <2>3. \A i \in DOMAIN FoundOn(input, result.map) :
          \/ validSection(FoundOn(input, result.map)[i].section, result.map)
          \/ \E j \in DOMAIN input :
               FoundOn(input, result.map)[i].section = detectSection(input[j])
    BY <2>1, SectionsSpanPages
  <2> HIDE DEF Found
  <2> QED BY <2>2, <2>3, Zenon
<1> QED BY <1>1, ResultIsAlgorithms, PTL

\* Of the pages of Algorithms: what could not be read raises a flag.
THEOREM LossRaisesFlag == Spec => []LossIsFlagged
<1>1. ResultInv => LossIsFlagged
  <2> SUFFICES ASSUME ResultInv, Done("transcription"),
                      result.paper.expected = {Worth(Printed(input))},
                      NEW i \in DOMAIN input, input[i].questions.items # <<>>,
                      Lost(input[i]) \/ input[i].answers.shape = "failed"
               PROVE  EvaluateGates(result.flags, DefaultTunables) # {}
    BY Zenon DEF LossIsFlagged
  <2>1. PICK n : PagesTyped(input, n, MCLabels) /\ \A k \in 1..n : Marked(input[k])
    BY Transcribed
  <2>2. /\ result.paper = TranscribeWithModels(input, result.map)
        /\ result.flags = computeFlags(TranscribeWithModels(input, result.map))
    BY Transcribed
  <2>3. expectedTotal(result.map) = {Worth(Printed(input))}
    BY <2>2 DEF TranscribeWithModels
  <2>4. i \in 1..n
    BY <2>1 DEF PagesTyped
  <2>5. EvaluateGates(computeFlags(TranscribeWithModels(input, result.map)), DefaultTunables) # {}
    BY <2>1, <2>3, <2>4, LossIsNoticed
  <2> QED BY <2>2, <2>5, Zenon
<1> QED BY <1>1, ResultIsAlgorithms, PTL

\* The submissions of Algorithms.
KeptQuestion == [no : Nat, awarded : Int, max : Nat, flags : {<<"blank", "low">>, <<"low">>}]
KeptPaper == [questions : Seq(KeptQuestion), total : Int,
              score : {Paper(questions).score : questions \in Seq(KeptQuestion)}]

LEMMA KeptTyped == QuestionsTyped(KeptQuestion) /\ PapersTyped(KeptPaper, KeptQuestion)
BY DEF QuestionsTyped, PapersTyped, KeptQuestion, KeptPaper

\* A paper made of kept questions is a kept paper.
LEMMA PaperTyped ==
  ASSUME NEW questions \in Seq(KeptQuestion)
  PROVE  Paper(questions) \in KeptPaper
<1> DEFINE n == Len(questions)
           f == [i \in DOMAIN questions |-> questions[i].awarded]
           p == Paper(questions)
           sc == p.score
<1>1. n \in Nat /\ DOMAIN questions = 1..n /\ \A i \in 1..n : questions[i] \in KeptQuestion
  OBVIOUS
<1> HIDE DEF n
<1>2. f \in [1..n -> Int] /\ IsFiniteSet(1..n)
  BY <1>1, FS_Interval DEF KeptQuestion
<1> HIDE DEF f
<1>3. SumFunction(f) \in Int
  BY <1>2, SumIsInteger
<1>4. p = [questions |-> questions, total |-> SumFunction(f), score |-> sc]
  BY DEF Paper, f
<1>5. sc \in {Paper(x).score : x \in Seq(KeptQuestion)}
  OBVIOUS
<1> HIDE DEF p, sc
<1>6. p \in KeptPaper
  BY <1>3, <1>4, <1>5 DEF KeptPaper
<1> QED BY <1>6 DEF p

LEMMA AnsweredTyped ==
  ASSUME NEW no \in Nat, NEW awarded \in Int, NEW max \in Nat
  PROVE  Answered(no, awarded, max) \in KeptQuestion
BY DEF Answered, KeptQuestion

\* Every submission of Algorithms is one that may be kept.
LEMMA SubmissionsTyped ==
  ASSUME NEW s \in Subs
  PROVE  s.student \in {"Ada", ""} /\ s.paper \in KeptPaper
<1>1. Paper(<<>>) \in KeptPaper
  <2>1. <<>> \in Seq(KeptQuestion)
    OBVIOUS
  <2> QED BY <2>1, PaperTyped
<1>2. ASSUME NEW q \in KeptQuestion PROVE Paper(<<q>>) \in KeptPaper
  <2>1. <<q>> \in Seq(KeptQuestion)
    OBVIOUS
  <2> QED BY <2>1, PaperTyped
<1>3. ASSUME NEW q \in KeptQuestion, NEW r \in KeptQuestion PROVE Paper(<<q, r>>) \in KeptPaper
  <2>1. <<q, r>> \in Seq(KeptQuestion)
    OBVIOUS
  <2> QED BY <2>1, PaperTyped
<1>4. ASSUME NEW a \in 0..2 PROVE Paper(<<Answered(1, a, 2)>>) \in KeptPaper
  <2>1. Answered(1, a, 2) \in KeptQuestion
    BY AnsweredTyped
  <2> HIDE DEF Answered, Paper
  <2> QED BY <1>2, <2>1
<1>5. ASSUME NEW a \in {0, 1, 4}, NEW b \in {0, 2}
      PROVE  Paper(<<Answered(1, a, 4), Answered(2, b, 2)>>) \in KeptPaper
  <2>1. Answered(1, a, 4) \in KeptQuestion /\ Answered(2, b, 2) \in KeptQuestion
    BY AnsweredTyped
  <2> QED BY <1>3, <2>1
<1>6. Paper(<<Answered(2, 1, 0)>>) \in KeptPaper
  <2>1. Answered(2, 1, 0) \in KeptQuestion
    BY AnsweredTyped
  <2> QED BY <1>2, <2>1
<1>7. \A p \in SomePapers : p \in KeptPaper
  BY <1>1, <1>4, <1>5, <1>6 DEF SomePapers
<1>8. CASE s.paper = Paper(<<>>) /\ s.student = ""
  BY <1>1, <1>8
<1>9. CASE \E p \in SomePapers : s = GradedAs(p, TRUE, <<>>)
  BY <1>7, <1>9 DEF GradedAs
<1>10. CASE \E a \in 0..2 : \E read \in BOOLEAN : \E evs \in EventLists(a) :
         s = GradedAs(Paper(<<Answered(1, a, 2)>>), read, evs)
  BY <1>4, <1>10 DEF GradedAs
<1>11. \/ s.paper = Paper(<<>>) /\ s.student = ""
       \/ \E p \in SomePapers : s = GradedAs(p, TRUE, <<>>)
       \/ \E a \in 0..2 : \E read \in BOOLEAN : \E evs \in EventLists(a) :
            s = GradedAs(Paper(<<Answered(1, a, 2)>>), read, evs)
  <2>1. s = Ungraded \/ s \in {GradedAs(p, TRUE, <<>>) : p \in SomePapers}
        \/ \E a \in 0..2 : s \in Audited(a)
    BY DEF Subs
  <2>2. Ungraded.paper = Paper(<<>>) /\ Ungraded.student = ""
    BY DEF Ungraded
  <2>3. ASSUME NEW a \in 0..2, s \in Audited(a)
        PROVE  \E read \in BOOLEAN : \E evs \in EventLists(a) :
                 s = GradedAs(Paper(<<Answered(1, a, 2)>>), read, evs)
    <3> HIDE DEF Paper, GradedAs, EventLists
    <3> QED BY <2>3 DEF Audited
  <2> QED BY <2>1, <2>2, <2>3
<1> QED BY <1>8, <1>9, <1>10, <1>11

LEMMA ReportsTyped ==
  ASSUME NEW i \in ReportInputs
  PROVE  /\ i.subs \in Seq(Subs)
         /\ SubsTyped(Subs, {"Ada", ""}, KeptPaper)
<1>1. i.subs \in SeqOf(Subs, 2)
  BY DEF ReportInputs
<1>2. i.subs \in Seq(Subs)
  <2>1. PICK m \in 0..2 : i.subs \in [1..m -> Subs]
    BY <1>1, Zenon DEF SeqOf
  <2> QED BY <2>1
<1>3. SubsTyped(Subs, {"Ada", ""}, KeptPaper)
  BY SubmissionsTyped, Zenon DEF SubsTyped
<1> QED BY <1>2, <1>3

\* Of the submissions of Algorithms: the three reports agree.
THEOREM ReportsCountAlike == Spec => []ReportsAgree
<1>1. ResultInv => ReportsAgree
  <2> SUFFICES ASSUME ResultInv, Done("reports")
               PROVE  Agree(result.rows, result.overrides, result.analytics)
    BY DEF ReportsAgree, Agree
  <2>1. input \in ReportInputs /\ result = ReportsResult(input)
    BY DEF ResultInv, Done
  <2> DEFINE subs == input.subs
  <2>2. /\ result.rows = ClassResultsCSV(subs) /\ result.overrides = GetOverrideStats(subs)
        /\ result.analytics = GetAnalytics(subs)
    BY <2>1 DEF ReportsResult
  <2>3. subs \in Seq(Subs) /\ SubsTyped(Subs, {"Ada", ""}, KeptPaper)
    BY <2>1, ReportsTyped
  <2> HIDE DEF subs
  <2>4. Agree(ClassResultsCSV(subs), GetOverrideStats(subs), GetAnalytics(subs))
    BY <2>3, KeptTyped, CountsAgree
  <2> QED BY <2>2, <2>4, Zenon
<1> QED BY <1>1, ResultIsAlgorithms, PTL

\* A mark more on one question improves a paper.
LEMMA RaisedImproves ==
  ASSUME NEW ps \in Seq(KeptPaper), NEW i \in DOMAIN ps, NEW j \in DOMAIN ps[i].questions
  PROVE  Raised(ps, i, j) \in Seq(KeptPaper) /\ Improved(ps, Raised(ps, i, j))
<1> DEFINE n == Len(ps)
           p == ps[i]
           qs == p.questions
           m == Len(qs)
           q == qs[j]
           q2 == [q EXCEPT !.awarded = q.awarded + 1]
           qs2 == [qs EXCEPT ![j] = q2]
           p2 == [p EXCEPT !.questions = qs2]
           ps2 == [ps EXCEPT ![i] = p2]
<1>1. n \in Nat /\ DOMAIN ps = 1..n /\ i \in 1..n /\ \A k \in 1..n : ps[k] \in KeptPaper
  OBVIOUS
<1>2. p \in KeptPaper /\ qs \in Seq(KeptQuestion)
  BY <1>1 DEF KeptPaper
<1>3. Raised(ps, i, j) = ps2
  BY DEF Raised
<1> HIDE DEF n, p, qs
<1>4. m \in Nat /\ DOMAIN qs = 1..m /\ j \in 1..m /\ \A k \in 1..m : qs[k] \in KeptQuestion
  BY <1>2 DEF p, qs
<1> HIDE DEF m, q
<1>5. q \in KeptQuestion
  BY <1>4 DEF q
<1>6. q2 \in KeptQuestion /\ q2.no = q.no /\ q2.max = q.max /\ q.awarded <= q2.awarded
  BY <1>5 DEF KeptQuestion
<1> HIDE DEF q2
<1>7. qs2 \in Seq(KeptQuestion) /\ Len(qs2) = m /\ qs2[j] = q2
      /\ \A k \in 1..m : k # j => qs2[k] = qs[k]
  BY <1>2, <1>4, <1>6 DEF m
<1> HIDE DEF qs2
<1>8. p2 \in KeptPaper /\ p2.questions = qs2
  BY <1>2, <1>7 DEF KeptPaper
<1> HIDE DEF p2
<1>9. ps2 \in Seq(KeptPaper) /\ Len(ps2) = n /\ ps2[i] = p2
      /\ \A k \in 1..n : k # i => ps2[k] = ps[k]
  BY <1>1, <1>8 DEF n
<1> HIDE DEF ps2
<1>10. ASSUME NEW k \in 1..m
       PROVE  qs[k].no = qs2[k].no /\ qs[k].max = qs2[k].max /\ qs[k].awarded <= qs2[k].awarded
  <2>1. CASE k = j
    BY <1>6, <1>7, <2>1 DEF q
  <2>2. CASE k # j
    <3>1. qs2[k] = qs[k] /\ qs[k].awarded \in Int
      BY <1>4, <1>7, <2>2 DEF KeptQuestion
    <3> QED BY <3>1
  <2> QED BY <2>1, <2>2
<1>11. ASSUME NEW k \in 1..n
       PROVE  /\ Len(ps[k].questions) = Len(ps2[k].questions)
              /\ \A l \in 1..Len(ps[k].questions) :
                   /\ ps[k].questions[l].no = ps2[k].questions[l].no
                   /\ ps[k].questions[l].max = ps2[k].questions[l].max
                   /\ ps[k].questions[l].awarded <= ps2[k].questions[l].awarded
  <2>1. CASE k = i
    <3>1. ps[k].questions = qs /\ ps2[k].questions = qs2 /\ Len(qs) = m
      BY <1>8, <1>9, <2>1 DEF qs, p, m
    <3> QED BY <1>7, <1>10, <3>1
  <2>2. CASE k # i
    <3> DEFINE rs == ps[k].questions
    <3>1. rs \in Seq(KeptQuestion) /\ ps2[k].questions = rs
      BY <1>1, <1>9, <2>2 DEF KeptPaper
    <3> HIDE DEF rs
    <3>2. \A l \in 1..Len(rs) : rs[l].awarded \in Int
      <4>1. \A l \in 1..Len(rs) : rs[l] \in KeptQuestion
        BY <3>1
      <4> QED BY <4>1 DEF KeptQuestion
    <3>3. \A l \in 1..Len(rs) : rs[l].awarded <= rs[l].awarded
      BY <3>2
    <3> QED BY <3>1, <3>3 DEF rs
  <2> QED BY <2>1, <2>2
<1>12. Improved(ps, ps2)
  BY <1>9, <1>11 DEF Improved, n
<1> QED BY <1>3, <1>9, <1>12

\* Of the papers of Algorithms: one mark more never lowers the mastery of an
\* outcome.
THEOREM OneMoreMark == Spec => []MasteryMonotone
<1>1. ResultInv => MasteryMonotone
  <2> DEFINE ps == GradedPapers(input.subs)
  <2> SUFFICES ASSUME ResultInv, Done("reports"), NEW i \in DOMAIN ps, NEW j \in DOMAIN ps[i].questions,
                      NEW a \in OutcomeMastery(ps, input.mapping),
                      NEW b \in OutcomeMastery(Raised(ps, i, j), input.mapping),
                      a.outcome = b.outcome
               PROVE  ~Less(b.pct, a.pct) /\ Level(a.mastery) <= Level(b.mastery)
    BY Zenon DEF MasteryMonotone
  <2>1. input \in ReportInputs
    BY DEF ResultInv, Done
  <2>2. input.subs \in Seq(Subs) /\ SubsTyped(Subs, {"Ada", ""}, KeptPaper)
    BY <2>1, ReportsTyped
  <2>3. ps \in Seq(KeptPaper)
    BY <2>2, PapersOf
  <2> HIDE DEF ps
  <2>4. Raised(ps, i, j) \in Seq(KeptPaper) /\ Improved(ps, Raised(ps, i, j))
    BY <2>3, RaisedImproves
  <2> DEFINE qs == Raised(ps, i, j)
  <2> HIDE DEF qs
  <2>5. qs \in Seq(KeptPaper) /\ Improved(ps, qs) /\ b \in OutcomeMastery(qs, input.mapping)
    BY <2>4 DEF qs
  <2> QED BY <2>3, <2>5, KeptTyped, MasteryNeverFalls
<1> QED BY <1>1, ResultIsAlgorithms, PTL

\* The numeric entries Algorithms marks against have no unit or one of a word.
LEMMA UnitsTyped ==
  \A e \in Entries : e.match = "numeric" => e.unit \in {<<>>, <<"N">>}
<1> DEFINE object == {[Plain EXCEPT !.match = o.match, !.answer = o.answer,
                                    !.accept = <<o.answer, <<<<"8">>>>>>,
                                    !.normalize = o.normalize, !.max = o.max] : o \in Objective}
           number == {[Plain EXCEPT !.match = "numeric", !.value = n.value, !.tol = n.tol,
                                    !.tolType = n.tolType, !.unit = n.unit,
                                    !.unitMarks = n.unitMarks] : n \in Numeric}
           multi  == {[Plain EXCEPT !.match = "multi_step", !.steps = l] : l \in StepLists}
           part   == {[Plain EXCEPT !.match = "partial",
                         !.criteria = <<[accept |-> <<c.text>>, marks |-> c.marks],
                                        [accept |-> <<<<<<"7">>>>>>, marks |-> 1]>>]
                       : c \in Criterion}
           rubric == {[Plain EXCEPT !.match = "rubric", !.max = m] : m \in {0, 2}}
           Fits(e) == e.match = "numeric" => e.unit \in {<<>>, <<"N">>}
<1>1. \A e \in object : Fits(e)
  <2> SUFFICES ASSUME NEW o \in Objective
               PROVE  Fits([Plain EXCEPT !.match = o.match, !.answer = o.answer,
                                         !.accept = <<o.answer, <<<<"8">>>>>>,
                                         !.normalize = o.normalize, !.max = o.max])
    BY Zenon
  <2> DEFINE e == [Plain EXCEPT !.match = o.match, !.answer = o.answer,
                                !.accept = <<o.answer, <<<<"8">>>>>>,
                                !.normalize = o.normalize, !.max = o.max]
  <2>1. e.match = o.match
    BY DEF Plain
  <2>2. o.match # "numeric"
    BY DEF Objective
  <2> HIDE DEF e
  <2>3. Fits(e)
    BY <2>1, <2>2
  <2> HIDE DEF Fits
  <2> QED BY <2>3 DEF e
<1>2. \A e \in number : Fits(e)
  <2> SUFFICES ASSUME NEW n \in Numeric
               PROVE  Fits([Plain EXCEPT !.match = "numeric", !.value = n.value, !.tol = n.tol,
                                         !.tolType = n.tolType, !.unit = n.unit,
                                         !.unitMarks = n.unitMarks])
    BY Zenon
  <2> DEFINE e == [Plain EXCEPT !.match = "numeric", !.value = n.value, !.tol = n.tol,
                                !.tolType = n.tolType, !.unit = n.unit,
                                !.unitMarks = n.unitMarks]
  <2>1. e.unit = n.unit
    BY DEF Plain
  <2>2. n.unit \in {<<>>, <<"N">>}
    BY DEF Numeric
  <2> HIDE DEF e
  <2>3. Fits(e)
    BY <2>1, <2>2
  <2> HIDE DEF Fits
  <2> QED BY <2>3 DEF e
<1>3. \A e \in multi : Fits(e)
  <2>1. ASSUME NEW l PROVE [Plain EXCEPT !.match = "multi_step", !.steps = l].match # "numeric"
    BY DEF Plain
  <2> QED BY <2>1, Zenon
<1>4. \A e \in part : Fits(e)
  <2>1. ASSUME NEW l PROVE [Plain EXCEPT !.match = "partial", !.criteria = l].match # "numeric"
    BY DEF Plain
  <2> QED BY <2>1, Zenon
<1>5. \A e \in rubric : Fits(e)
  <2>1. ASSUME NEW m PROVE [Plain EXCEPT !.match = "rubric", !.max = m].match # "numeric"
    BY DEF Plain
  <2> QED BY <2>1, Zenon
<1>6. Entries = object \cup number \cup multi \cup part \cup rubric
  BY Zenon DEF Entries
<1> HIDE DEF object, number, multi, part, rubric, Fits
<1>7. \A e \in Entries : Fits(e)
  BY <1>1, <1>2, <1>3, <1>4, <1>5, <1>6
<1> QED BY <1>7 DEF Fits

\* Every answer of Algorithms is a text.
LEMMA AnswersTyped == \A t \in Answers : t \in Seq(Seq(MCWords))
<1>1. \A l \in AnyLine : l \in Seq(MCWords)
  <2> SUFFICES ASSUME NEW l \in AnyLine PROVE l \in Seq(MCWords)
    OBVIOUS
  <2>1. /\ <<>> \in Seq(MCWords) /\ \A v \in MCWords : <<v>> \in Seq(MCWords)
        /\ \A v, w \in MCWords : <<v, w>> \in Seq(MCWords)
    <3> DEFINE M == MCWords
    <3> HIDE DEF M
    <3>1. <<>> \in Seq(M) /\ \A v \in M : <<v>> \in Seq(M) /\ \A w \in M : <<v, w>> \in Seq(M)
      OBVIOUS
    <3> QED BY <3>1 DEF M
  <2>2. "ab" \in MCWords /\ "7" \in MCWords
    BY DEF MCWords
  <2>3. CASE l = <<>>
    BY <2>1, <2>3
  <2>4. CASE \E v \in MCWords : l = <<v>>
    BY <2>1, <2>4, Zenon
  <2>5. CASE \E v \in {"ab", "7"}, w \in MCWords : l = <<v, w>>
    BY <2>1, <2>2, <2>5, Zenon
  <2>6. l = <<>> \/ (\E v \in MCWords : l = <<v>>)
        \/ (\E v \in {"ab", "7"}, w \in MCWords : l = <<v, w>>)
    BY SMT DEF AnyLine
  <2> QED BY <2>3, <2>4, <2>5, <2>6, Zenon
<1>2. {<<>>, <<"ab">>, <<"7">>} \subseteq Seq(MCWords)
  BY DEF MCWords
<1> DEFINE L == Seq(MCWords)
<1>3. \A k, l \in L : <<l>> \in Seq(L) /\ <<k, l>> \in Seq(L)
  <2> HIDE DEF L
  <2> QED OBVIOUS
<1>4. \A t \in Answers : t \in Seq(L)
  <2> SUFFICES ASSUME NEW t \in Answers PROVE t \in Seq(L)
    OBVIOUS
  <2>1. \A l \in AnyLine : l \in L
    BY <1>1
  <2>2. \A k \in {<<>>, <<"ab">>, <<"7">>} : k \in L
    BY <1>2
  <2> HIDE DEF L
  <2>3. CASE \E l \in AnyLine : t = <<l>>
    BY <1>3, <2>1, <2>3, Zenon
  <2>4. CASE \E k \in {<<>>, <<"ab">>, <<"7">>}, l \in AnyLine : t = <<k, l>>
    BY <1>3, <2>1, <2>2, <2>4, Zenon
  <2>5. (\E l \in AnyLine : t = <<l>>)
        \/ (\E k \in {<<>>, <<"ab">>, <<"7">>}, l \in AnyLine : t = <<k, l>>)
    BY SMT DEF Answers
  <2> QED BY <2>3, <2>4, <2>5, Zenon
<1> QED BY <1>4

\* Of the entries and answers of Algorithms: by UnitIsFree, as the bounded
\* entries and answers are typed.
THEOREM UnitsNeverCost == Spec => []UnitNeverCosts
<1>1. ResultInv => UnitNeverCosts
  <2> SUFFICES ASSUME ResultInv, Done("marking"), input.entry.match = "numeric",
                      input.entry.unit # <<>>, ParseFloat(input.entry.unit) = NaN,
                      Len(Fields(input.answer)) = 1
               PROVE  Award(input.entry, input.answer)
                        <= Award(input.entry, <<Fields(input.answer) \o input.entry.unit>>)
    BY Zenon DEF UnitNeverCosts
  <2>1. input.entry \in Entries /\ input.answer \in Answers
    BY Zenon DEF ResultInv, Done, MarkingInputs
  <2>2. input.answer \in Seq(Seq(MCWords))
    BY <2>1, AnswersTyped
  <2>3. EntryTyped(input.entry)
    BY <2>1, EntriesTyped
  <2>4. input.entry.unit = <<"N">>
    BY <2>1, UnitsTyped
  <2>5. input.entry.unit \in Seq(MCWords) /\ Len(input.entry.unit) = 1
    BY <2>4 DEF MCWords
  <2> QED BY <2>2, <2>3, <2>5, UnitIsFree
<1> QED BY <1>1, ResultIsAlgorithms, PTL
=============================================================================
