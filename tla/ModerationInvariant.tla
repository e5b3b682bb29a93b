----------------------- MODULE ModerationInvariant -----------------------
(***************************************************************************)
(* The inductive invariant behind the properties of Moderation: a session  *)
(* holds a part of the sample it selected, and a comparison that is half   *)
(* way knows how what it has read relates to what the paper is by now.     *)
(***************************************************************************)
EXTENDS Moderation

PaperRecords == [uploaded : BOOLEAN, open : BOOLEAN,
                 v1 : Optional, overlay : Optional, final : Optional,
                 approving : SUBSET Optional, sent : BOOLEAN]

\* Only a paper that was uploaded is ever graded, overridden or approved.
PapersInv ==
  /\ paper \in [Papers -> PaperRecords]
  /\ \A p \in Papers : ~paper[p].uploaded => paper[p] = NoPaperYet

---------------------------------------------------------------------------
MarkRows == [paper : Papers, marks : Marks]
SessionRecords ==
  [asked : Asked, size : -Limit..(Limit - 1), at : {"select", "link", "created", "failed"},
   from : SUBSET Papers, todo : Seq(Papers), linked : SUBSET Papers]

\* The papers a session selected.
Ids(s) == Range(SampleSubmissions(s.from, s.size))

\* A session that was not refused has linked the selected papers, but for those
\* it has still to link; no session has linked another.
SampleInv(s) ==
  /\ s.size = Int32(s.asked)
  /\ s.at = "select" => s.linked = {}
  /\ s.at \in {"link", "created"} =>
       s.size >= 0 /\ s.linked \cup Range(s.todo) = Ids(s)
  /\ s.at = "link" => s.todo # <<>>
  /\ s.at = "created" => s.todo = <<>>
  /\ s.linked # {} => s.size >= 0 /\ s.linked \subseteq Ids(s)

SessionsInv ==
  /\ sessions \in Seq(SessionRecords)
  /\ recorded \in Seq(Seq(MarkRows)) /\ Len(recorded) = Len(sessions)
  /\ \A i \in DOMAIN sessions : SampleInv(sessions[i])

---------------------------------------------------------------------------
Comparisons ==
  [at : {"idle", "v1", "final", "paper", "reviews", "done"},
   session : Nat, rows : Seq(MarkRows), row : Nat,
   cached : SUBSET Papers, failed : SUBSET Papers,
   ai : [Papers -> Optional], effective : [Papers -> Optional]]

Running == comparison.at \in {"v1", "final", "paper", "reviews"}

\* The paper of the mark the comparison has come to.
Current == comparison.rows[comparison.row].paper

\* The comparison goes through its rows; those behind it are loaded.
RowsInv ==
  /\ comparison \in Comparisons
  /\ Running => comparison.row \in 1..Len(comparison.rows)
  /\ comparison.at = "done" => comparison.row = Len(comparison.rows) + 1
  /\ Running \/ comparison.at = "done" =>
       \A k \in 1..(comparison.row - 1) : comparison.rows[k].paper \in comparison.cached
  /\ comparison.at \in {"final", "paper", "reviews"} => Current \notin comparison.cached

\* The papers the comparison may know no more than a part of.
Excused == regradedSince \cup comparison.failed \cup overtaken

\* What the comparison has read of the paper it is at.  One that was not final
\* when it was looked for has been effective as it is by now, and overridden: the
\* row an approval has inserted meanwhile may say something else.
CurrentInv ==
  LET p == Current
  IN  p \notin Excused =>
        /\ comparison.at \in {"final", "paper", "reviews"} =>
             comparison.ai[p] = paper[p].v1
        /\ comparison.at \in {"paper", "reviews"} => Overlaid(paper[p]) \in effectiveSince[p]
        /\ comparison.at = "reviews" =>
             paper[p].v1 # {} /\ comparison.effective[p] = paper[p].v1

\* Since it began, every paper has been what it is now; and the mark of each
\* loaded one is among what it has been.
HistoryInv ==
  /\ effectiveSince \in [Papers -> SUBSET Optional]
  /\ comparison.at # "idle" =>
       \A p \in Papers : effectiveGradedPaper(paper[p]) \in effectiveSince[p]
  /\ \A p \in comparison.cached \ Excused :
       comparison.effective[p] \in effectiveSince[p]

ModInv == /\ PapersInv /\ SessionsInv
          /\ RowsInv /\ HistoryInv
          /\ Running => CurrentInv
=============================================================================
