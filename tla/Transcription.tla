---------------------------- MODULE Transcription ----------------------------
(***************************************************************************)
(* How the pages of a paper become a transcript and its quality flags,     *)
(* given what the AI models reply.  Pure operators.                        *)
(*                                                                         *)
(* A page is what the models make of it:                                   *)
(*   ocr       whether its text was read (an empty text counts as not)     *)
(*   header    the section header in that text, at most one, as a set      *)
(*   questions the reply to the structuring prompt                         *)
(*   answers   the reply to the answer-reading prompt                      *)
(*   map       the reply to the mark-map prompt, asked of the first page   *)
(* A reply is [shape, items]: a JSON array, an object wrapping it, another *)
(* object, or nothing that parses.  A failed call is the last.             *)
(***************************************************************************)
EXTENDS SubmissionStates, SequencesExt

CONSTANTS Labels,       \* section labels as transcribed
          Canonical     \* the canonical label in one, as a set: none if blank

ASSUME LabelsAssumption ==
  \A l \in Labels : Canonical[l] \subseteq Labels /\ Cardinality(Canonical[l]) <= 1

---------------------------------------------------------------------------
(***************************************************************************)
(* The replies.  Failed stands for a Go error.                             *)
(***************************************************************************)
Failed == [shape |-> "failed", items |-> <<>>]

\* An object without the expected field is an empty list, not an error.
parseItems(reply) ==
  CASE reply.shape \in {"array", "wrapped"} -> reply
    [] reply.shape = "object"               -> [reply EXCEPT !.items = <<>>]
    [] OTHER                                -> Failed

parseQuestions(reply) == parseItems(reply)
parseAnswers(reply)   == parseItems(reply)

\* The last answer to a question number wins.
readAnswersFor(reply) ==
  LET as == parseAnswers(reply).items
  IN  [n \in {as[i].no : i \in DOMAIN as} |->
        as[Max({i \in DOMAIN as : as[i].no = n})].answer]

---------------------------------------------------------------------------
(***************************************************************************)
(* The mark map: an optional total and the budgets of sections.            *)
(***************************************************************************)
canonicalSection(section) == UNION {Canonical[l] : l \in section}

NoMap == [total |-> {}, sections |-> << >>]

\* Labels with the same canonical form overwrite each other in the order of a
\* Go map: any of their budgets may be the one that stays.
normalizeMarkMap(raw) ==
  LET keys == UNION {Canonical[l] : l \in DOMAIN raw.sections}
      budgets(k) == {raw.sections[l] : l \in {m \in DOMAIN raw.sections : Canonical[m] = {k}}}
  IN  {[total |-> raw.total, sections |-> s] :
         s \in {f \in [keys -> UNION {budgets(k) : k \in keys}] :
                  \A k \in keys : f[k] \in budgets(k)}}

\* The maps that may come out of the first page.
extractMarkMap(pages) ==
  IF pages = <<>> \/ ~pages[1].ocr \/ pages[1].map.shape # "object" THEN {NoMap}
  ELSE normalizeMarkMap(pages[1].map)

\* A printed total wins over the sum of the budgets.
expectedTotal(map) ==
  IF map.total # {} THEN map.total
  ELSE IF DOMAIN map.sections # {}
       THEN {FoldFunction(LAMBDA a, b : a + b, 0, map.sections)} ELSE {}

---------------------------------------------------------------------------
(***************************************************************************)
(* The questions.  A question number is a printed name and the suffixes    *)
(* put behind it.                                                          *)
(***************************************************************************)
\* The questions with a number, with what was read of their answers.
NumberedQuestions(items, read) ==
  FlattenSeq([i \in DOMAIN items |->
    IF items[i].no = <<>> THEN <<>>
    ELSE <<[no |-> items[i].no, section |-> items[i].section, max |-> items[i].max,
            blank |-> items[i].no \notin DOMAIN read \/ read[items[i].no] = "empty"]>>])

\* Mutant: answers that could not be read drop the page's questions.
DropUnread(page) ==
  IF ~page.ocr \/ parseAnswers(page.answers) = Failed THEN <<>>
  ELSE NumberedQuestions(parseQuestions(page.questions).items, readAnswersFor(page.answers))

\* Every sub-step is isolated: what was read before it failed is kept.
onePageHybrid(page) ==
  IF ~page.ocr THEN <<>>
  ELSE NumberedQuestions(parseQuestions(page.questions).items, readAnswersFor(page.answers))

detectSection(page) == IF page.ocr THEN page.header ELSE {}

\* Mutant: a header counts for its own page only.
HeaderHere(pages, i) == detectSection(pages[i])

\* The last header at or before page i.
Header(pages, i) ==
  LET seen == {j \in 1..i : detectSection(pages[j]) # {}}
  IN  IF seen = {} THEN {} ELSE detectSection(pages[Max(seen)])

\* A section is kept if the map has a budget for it, or has no budgets.
validSection(section, map) ==
  /\ canonicalSection(section) # {}
  /\ DOMAIN map.sections = {} \/ canonicalSection(section) \subseteq DOMAIN map.sections

carrySectionsForward(pages, map) ==
  FlattenSeq([i \in DOMAIN pages |->
    LET qs == onePageHybrid(pages[i])
    IN  [k \in DOMAIN qs |->
          IF ~validSection(qs[k].section, map) /\ Header(pages, i) # {}
          THEN [qs[k] EXCEPT !.section = Header(pages, i)] ELSE qs[k]]])

\* Mutant: every repeat gets the suffix 2.
SuffixTwo(qs) ==
  [i \in DOMAIN qs |->
    IF \E j \in 1..(i - 1) : qs[j].no = qs[i].no
    THEN [qs[i] EXCEPT !.no = Append(@, 2)] ELSE qs[i]]

\* The repeats of a number get suffixes 2, 3, ...; that another question was
\* printed with such a number is not looked at.
dedupeQuestionNos(qs) ==
  [i \in DOMAIN qs |->
    LET before == Cardinality({j \in 1..(i - 1) : qs[j].no = qs[i].no})
    IN  IF before = 0 THEN qs[i] ELSE [qs[i] EXCEPT !.no = Append(@, before + 1)]]

TranscribeWithModels(pages, map) ==
  [questions |-> dedupeQuestionNos(carrySectionsForward(pages, map)),
   expected  |-> expectedTotal(map)]

Blanks(questions) == Cardinality({i \in DOMAIN questions : questions[i].blank})

\* Mutant: without a difference to report, a paper is taken to be complete.
FlagsWithoutTotal(paper) ==
  [questions |-> Len(paper.questions), lowRead |-> 0, blanks |-> Blanks(paper.questions),
   checksumOK |-> TRUE, difference |-> {}]

\* Every answer's read confidence is 1, so none is low.
computeFlags(paper) ==
  LET detected == SumFunction([i \in DOMAIN paper.questions |-> paper.questions[i].max])
      diff     == {detected - e : e \in paper.expected}
  IN  [questions |-> Len(paper.questions), lowRead |-> 0, blanks |-> Blanks(paper.questions),
       checksumOK |-> diff \subseteq {0}, difference |-> diff]
=============================================================================
