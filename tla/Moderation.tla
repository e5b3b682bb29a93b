----------------------------- MODULE Moderation -----------------------------
(***************************************************************************)
(* Moderation of one assessment version: a session samples submissions, a  *)
(* second marker's marks are recorded, and a comparison sets them beside   *)
(* the AI's mark and the effective one, while papers are still uploaded,   *)
(* graded, overridden, approved and regraded.                              *)
(*                                                                         *)
(* A paper has one question.  A mark that may be missing is a set of at    *)
(* most one mark.  A handler is split at its database and object reads.    *)
(***************************************************************************)
EXTENDS Integers, SequencesExt

CONSTANTS Papers,         \* the submissions of the version, in the order of their ids
          Marks,          \* a positive mark has to be among them
          Asked,          \* sample sizes asked for
          Limit,          \* the sample_size column holds -Limit..(Limit - 1): 2^31 in the schema
          MaxSessions, MaxRecorded, MaxChanges, MaxFailures \* bounds

ASSUME PapersAssumption == Papers \subseteq Nat /\ IsFiniteSet(Papers)
ASSUME MarksAssumption  == Marks \subseteq Nat
ASSUME LimitAssumption  == Limit \in Nat \ {0} /\ Asked \subseteq Nat \ {0}

VARIABLES
  paper,       \* graded.v1.json, teacher_review and final_grade of each paper
  sessions,    \* moderation_session and its links, with the request creating it
  recorded,    \* moderation_mark: the rows of each session, oldest first
  comparison,  \* the request comparing, or the last one that did
  effectiveSince, regradedSince, \* history: since that request began
  overtaken,   \* history: the papers overridden after their final_grade row was
               \* inserted, while that request, which saw none, was reading them
  changes, failures

gradeVars == <<paper, effectiveSince, regradedSince, overtaken, changes>>
modVars == <<gradeVars, sessions, recorded, comparison, failures>>

Optional == {{}} \cup {{m} : m \in Marks}
NoPaperYet == [uploaded |-> FALSE, open |-> FALSE, v1 |-> {}, overlay |-> {}, final |-> {},
               approving |-> {},  \* what the requests approving it have read
               sent |-> FALSE]    \* their command is queued
Idle == [at |-> "idle", session |-> 0, rows |-> <<>>, row |-> 1,
         cached |-> {}, failed |-> {},
         ai |-> [p \in Papers |-> {}], effective |-> [p \in Papers |-> {}]]

ModInit ==
  /\ paper = [p \in Papers |-> NoPaperYet]
  /\ sessions = <<>> /\ recorded = <<>>
  /\ comparison = Idle
  /\ effectiveSince = [p \in Papers |-> {}] /\ regradedSince = {} /\ overtaken = {}
  /\ changes = 0 /\ failures = 0

---------------------------------------------------------------------------
(***************************************************************************)
(* The rest of the system, as far as a comparison reads what it writes.    *)
(***************************************************************************)
Uploaded == {p \in Papers : paper[p].uploaded}
Overlaid(q)  == IF q.v1 # {} /\ q.overlay # {} THEN q.overlay ELSE q.v1

\* What LoadFinal, LoadPaper and LoadReviews below read piece by piece.
effectiveGradedPaper(q) == IF q.final # {} THEN q.final ELSE Overlaid(q)

SetPaper(p, q) ==
  /\ paper' = [paper EXCEPT ![p] = q]
  /\ effectiveSince' = [effectiveSince EXCEPT ![p] = @ \cup {effectiveGradedPaper(q)}]
  /\ UNCHANGED <<sessions, recorded, comparison, failures>>

Counted == changes < MaxChanges /\ changes' = changes + 1

\* The comparison has come to the paper p and makes the call at.
Loading(at, p) == comparison.at = at /\ comparison.rows[comparison.row].paper = p

Upload(p) ==
  /\ ~paper[p].uploaded
  /\ Counted /\ SetPaper(p, [NoPaperYet EXCEPT !.uploaded = TRUE])
  /\ UNCHANGED <<regradedSince, overtaken>>

\* The grade worker, first or again: overrides and the final snapshot stay.
Grade(p, m) ==
  /\ paper[p].uploaded /\ ~paper[p].open
  /\ Counted /\ SetPaper(p, [paper[p] EXCEPT !.v1 = {m}, !.open = TRUE])
  /\ regradedSince' = regradedSince \cup {p}
  /\ UNCHANGED overtaken

\* A request that found the paper open inserts its row whatever has happened
\* since: any paper that has been graded once may still get one.
Override(p, m) ==
  /\ paper[p].v1 # {} /\ paper[p].overlay # {m}
  /\ Counted /\ SetPaper(p, [paper[p] EXCEPT !.overlay = {m}])
  /\ overtaken' = IF paper[p].final # {} /\ (Loading("paper", p) \/ Loading("reviews", p))
                  THEN overtaken \cup {p} ELSE overtaken
  /\ UNCHANGED regradedSince

\* The handler reads what it will store, after a look at the state that may be
\* just as old; the paper stays open to overrides.
Approve(p) ==
  /\ paper[p].v1 # {}
  /\ SetPaper(p, [paper[p] EXCEPT !.approving = @ \cup {Overlaid(paper[p])}])
  /\ UNCHANGED <<regradedSince, overtaken, changes>>

\* The row is in place before the command is sent, which may fail.  The state
\* is not looked at again.
InsertFinalGrade(p, m, sent) ==
  /\ m \in paper[p].approving
  /\ Counted
  /\ SetPaper(p, [paper[p] EXCEPT !.approving = @ \ {m}, !.final = m, !.sent = @ \/ sent])
  /\ UNCHANGED <<regradedSince, overtaken>>

\* The orchestrator takes the command, and only now is the paper closed.
ApplyApproval(p) ==
  /\ paper[p].sent
  /\ SetPaper(p, [paper[p] EXCEPT !.sent = FALSE, !.open = FALSE])
  /\ UNCHANGED <<regradedSince, overtaken, changes>>

---------------------------------------------------------------------------
(***************************************************************************)
(* Sessions.  The session row is inserted first, then the papers are       *)
(* selected, then one link row is inserted for each: no transaction.       *)
(***************************************************************************)
\* Mutant: the size is stored as it was asked.
NotNarrowed(n) == n

Int32(n) == ((n + Limit) % (2 * Limit)) - Limit

\* S in the order of the ids.
ById(S) == CHOOSE s \in [1..Cardinality(S) -> S] :
             \A i, j \in 1..Cardinality(S) : i < j => s[i] < s[j]

\* Mutant: the papers are listed latest first.
LastIds(S, n) == SubSeq(Reverse(ById(S)), 1, Min({n, Cardinality(S)}))

\* ORDER BY id LIMIT n.
SampleSubmissions(S, n) == SubSeq(ById(S), 1, Min({n, Cardinality(S)}))

CreateModerationSession(n) ==
  /\ Len(sessions) < MaxSessions
  /\ sessions' = Append(sessions, [asked |-> n, size |-> Int32(n), at |-> "select",
                                   from |-> {}, todo |-> <<>>, linked |-> {}])
  /\ recorded' = Append(recorded, <<>>)
  /\ UNCHANGED <<gradeVars, comparison, failures>>

SetSession(i, r) ==
  /\ sessions' = [sessions EXCEPT ![i] = r]
  /\ UNCHANGED <<gradeVars, recorded, comparison>>

\* A negative LIMIT is an error of the database.
SelectSample(i) ==
  LET s == sessions[i]
  IN  /\ s.at = "select"
      /\ SetSession(i,
           IF s.size < 0 THEN [s EXCEPT !.at = "failed"]
           ELSE LET ids == SampleSubmissions(Uploaded, s.size)
                IN  [s EXCEPT !.from = Uploaded, !.todo = ids,
                              !.at = IF ids = <<>> THEN "created" ELSE "link"])
      /\ UNCHANGED failures

InsertLink(i) ==
  LET s == sessions[i]
  IN  /\ s.at = "link"
      /\ SetSession(i, [s EXCEPT !.linked = @ \cup {Head(s.todo)}, !.todo = Tail(@),
                                 !.at = IF Len(s.todo) = 1 THEN "created" ELSE "link"])
      /\ UNCHANGED failures

\* The request is answered with an error; what it has inserted stays.
CreationFails(i) ==
  /\ sessions[i].at \in {"select", "link"}
  /\ failures < MaxFailures /\ failures' = failures + 1
  /\ SetSession(i, [sessions[i] EXCEPT !.at = "failed"])

\* A mark is only appended: marking a paper twice gives it two rows.
RecordMark(i, p, m) ==
  /\ Len(recorded[i]) < MaxRecorded
  /\ p \in sessions[i].linked
  /\ recorded' = [recorded EXCEPT ![i] = Append(@, [paper |-> p, marks |-> m])]
  /\ UNCHANGED <<gradeVars, sessions, comparison, failures>>

---------------------------------------------------------------------------
(***************************************************************************)
(* The comparison goes through the recorded marks and loads each paper     *)
(* once, at its first mark: graded.v1.json, then what effectiveGradedPaper *)
(* reads, which is final_grade and its snapshot, or else graded.v1.json    *)
(* again and teacher_review.                                               *)
(***************************************************************************)
GetComparison(i) ==
  /\ comparison.at \in {"idle", "done"}
  /\ recorded[i] # <<>>
  /\ comparison' = [Idle EXCEPT !.at = "v1", !.session = i, !.rows = recorded[i]]
  /\ effectiveSince' = [p \in Papers |-> {effectiveGradedPaper(paper[p])}]
  /\ regradedSince' = {} /\ overtaken' = {}
  /\ UNCHANGED <<paper, changes, sessions, recorded, failures>>

SetComparison(c) ==
  /\ comparison' = c
  /\ UNCHANGED <<gradeVars, sessions, recorded>>

NextRow(c) ==
  [c EXCEPT !.row = @ + 1, !.at = IF c.row = Len(c.rows) THEN "done" ELSE "v1"]

\* The paper's mark is known: on to the next recorded mark.
Loaded(c, p, m) == NextRow([c EXCEPT !.effective[p] = m, !.cached = @ \cup {p}])

\* loadCache returns what it has loaded for an earlier mark.
LoadCached(p) ==
  /\ Loading("v1", p) /\ p \in comparison.cached
  /\ SetComparison(NextRow(comparison))
  /\ UNCHANGED failures

LoadAI(p) ==
  /\ Loading("v1", p) /\ p \notin comparison.cached
  /\ SetComparison([comparison EXCEPT !.ai[p] = paper[p].v1, !.at = "final"])
  /\ UNCHANGED failures

\* Mutant: the teacher mark is always made of graded.v1.json.
LoadNoFinal(p) ==
  /\ Loading("final", p)
  /\ SetComparison([comparison EXCEPT !.effective[p] = {}, !.at = "paper"])
  /\ UNCHANGED failures

LoadFinal(p) ==
  /\ Loading("final", p)
  /\ SetComparison(IF paper[p].final # {} THEN Loaded(comparison, p, paper[p].final)
                   ELSE [comparison EXCEPT !.effective[p] = {}, !.at = "paper"])
  /\ UNCHANGED failures

LoadPaper(p) ==
  /\ Loading("paper", p)
  /\ SetComparison(IF paper[p].v1 = {} THEN Loaded(comparison, p, comparison.ai[p])
                   ELSE [comparison EXCEPT !.effective[p] = paper[p].v1, !.at = "reviews"])
  /\ UNCHANGED failures

LoadReviews(p) ==
  /\ Loading("reviews", p)
  /\ SetComparison(Loaded(comparison, p,
       Overlaid([v1 |-> comparison.effective[p], overlay |-> paper[p].overlay])))
  /\ UNCHANGED failures

\* No graded.v1.json is no AI mark; a failed read of the effective paper makes
\* the AI mark the teacher's.  Neither is reported.
LoadFails(p) ==
  /\ failures < MaxFailures /\ failures' = failures + 1
  /\ LET c == [comparison EXCEPT !.failed = @ \cup {p}]
     IN  \/ /\ Loading("v1", p) /\ p \notin comparison.cached
            /\ SetComparison([c EXCEPT !.at = "final"])
         \/ /\ \E at \in {"final", "paper", "reviews"} : Loading(at, p)
            /\ SetComparison(Loaded(c, p, c.ai[p]))

\* The entries of the answer: a mark that is missing counts as 0.
OrZero(m) == IF m = {} THEN 0 ELSE CHOOSE x \in m : TRUE
Entries ==
  [k \in DOMAIN comparison.rows |->
    LET r == comparison.rows[k]
        t == OrZero(comparison.effective[r.paper])
        a == OrZero(comparison.ai[r.paper])
    IN  [paper |-> r.paper, ai |-> a, teacherFinal |-> t, moderator |-> r.marks,
         deltaModTeacher |-> r.marks - t, deltaModAI |-> r.marks - a]]

ModNext ==
  \/ \E p \in Papers :
       \/ Upload(p) \/ Approve(p) \/ ApplyApproval(p)
       \/ \E m \in Optional, sent \in BOOLEAN : InsertFinalGrade(p, m, sent)
       \/ \E m \in Marks : Grade(p, m) \/ Override(p, m)
       \/ LoadCached(p) \/ LoadAI(p) \/ LoadFinal(p)
       \/ LoadPaper(p) \/ LoadReviews(p) \/ LoadFails(p)
       \/ \E i \in DOMAIN sessions, m \in Marks : RecordMark(i, p, m)
  \/ \E n \in Asked : CreateModerationSession(n)
  \/ \E i \in DOMAIN sessions :
       SelectSample(i) \/ InsertLink(i) \/ CreationFails(i) \/ GetComparison(i)

---------------------------------------------------------------------------
\* Records have their types; sample_size fits its column.
ModTypeOK ==
  /\ \A p \in Papers :
       /\ {paper[p].uploaded, paper[p].open, paper[p].sent} \subseteq BOOLEAN
       /\ {paper[p].v1, paper[p].overlay, paper[p].final} \cup paper[p].approving
            \subseteq Optional
  /\ \A i \in DOMAIN sessions :
       /\ sessions[i].at \in {"select", "link", "created", "failed"}
       /\ sessions[i].size \in -Limit..(Limit - 1)
       /\ sessions[i].linked \cup Range(sessions[i].todo) \subseteq Papers
  /\ comparison.at \in {"idle", "v1", "final", "paper", "reviews", "done"}
  /\ \A p \in Papers : {comparison.ai[p], comparison.effective[p]} \subseteq Optional

\* A session that was answered as created samples the papers with the smallest
\* ids of those uploaded when it looked, as many as were asked for; one whose
\* creation failed is left with a part of its sample, never with another paper.
SampleAsAsked ==
  \A i \in DOMAIN sessions :
    LET s == sessions[i]
        n == Min({s.asked, Cardinality(s.from)})
        sample == {p \in s.from : Cardinality({q \in s.from : q < p}) < n}
    IN  s.asked < Limit =>
          /\ s.linked \subseteq sample
          /\ s.at = "created" => s.linked = sample

\* The comparison reads a paper several times while teachers work on it.  Still,
\* the teacher mark it shows was the paper's effective mark at some moment of
\* the comparison, unless the paper was graded meanwhile, a read failed, or an
\* override reached the paper after the final_grade row of an approval (it is
\* open until the command is applied), the comparison having looked for the row
\* before that and for the overrides after it.
TeacherMarkWasEffective ==
  comparison.at = "done" =>
    \A k \in DOMAIN Entries :
      LET e == Entries[k]
      IN  e.paper \notin regradedSince \cup comparison.failed \cup overtaken =>
            \E m \in effectiveSince[e.paper] : e.teacherFinal = OrZero(m)
=============================================================================
