--------------------------- MODULE Administration ----------------------------
(* What staff do away from a running exam: servers that boot while          *)
(* administrators change accounts and roles (Accounts), the product's        *)
(* documents (Documents), an exam's paper (Authoring), its automatic marking *)
(* (Scoring), the reports about it (Reports), the templates of its           *)
(* certificates (Certificates) and who may run or sit it (ExamAccess, with   *)
(* the requests about guests and those about rights).  A behaviour is about  *)
(* one part; the others stay as they began.                                  *)
EXTENDS Accounts

CONSTANTS
  Writers, Wordings, MaxDocVersion,                                    \* Documents
  Editors, Questions, Unit, Totals, Passes, MaxBatch,                  \* Authoring
  Paper, Options, Typed, Contains, TotalMarks, PassingMarks, Rates,    \* Scoring
  Candidates, Exams, Marked, PassMark, MaxRows, MaxTime,               \* Reports
  Issuers, Admins, Results, Templates, Standard, Texts, Plain,         \* Certificates
  BatchSize, MaxRevoked, MaxVersion, Workload,
  Desks, Instructors, Admin, Students, Classes, Inviting, Sharing,     \* ExamAccess
  Blank, NULL

\* The results of an exam are finitely many and the standard template is a
\* template.
ASSUME DesignAssumption == IsFiniteSet(Results) /\ Standard \in Templates

\* A bank has finitely many questions, marks are counted in fractions of a mark,
\* and no exam row is the absent one.
ASSUME PaperAssumption ==
  /\ IsFiniteSet(Questions)
  /\ Unit \in Nat \ {0} /\ Totals \subseteq Nat /\ Passes \subseteq Nat
  /\ NULL \notin [total : Nat, passing : Nat,
                  status : {"SCHEDULED", "PUBLISHED", "LIVE", "CLOSED"},
                  paper : [questions : Seq(Questions), points : Seq(Nat), batch : Nat]]

\* A paper has questions, a key could be typed, every text contains itself,
\* and the pass mark is within the total.
ASSUME MarkingAssumption ==
  /\ Len(Paper) \in Nat \ {0}
  /\ \A i \in 1 .. Len(Paper) :
       Paper[i].kind = "text" => Paper[i].correct \subseteq Typed \cup {Blank}
  /\ \A t \in Typed : <<t, t>> \in Contains
  /\ Rates \subseteq Nat
  /\ TotalMarks \in Nat /\ PassingMarks \in 0 .. TotalMarks

\* An attempt earns a score out of a total.
ASSUME ReportAssumption == Marked \subseteq [score : Nat, max : Nat \ {0}]

VARIABLES
  part,
  docStatus, docVersion, content, log, stamped, edit,
  active, exam, editing,
  rate, answers, outcome,
  rows, now,
  filed, earned, published, cert, issued, tstatus, isDefault, version, text, revisions,
  everEarned, job,
  owner, shares, invited, pushed, classes, enrolled, desk, door, seen

documentVars == <<docStatus, docVersion, content, log, stamped, edit>>
paperVars    == <<active, exam, editing>>
markVars     == <<rate, answers, outcome>>
reportVars   == <<rows, now>>
templateVars == <<filed, earned, published, cert, issued, tstatus, isDefault, version, text,
                  revisions, everEarned, job>>
accessVars   == <<owner, shares, invited, pushed, classes, enrolled, desk, door, seen>>
adminVars    == <<vars, part, documentVars, paperVars, markVars, reportVars, templateVars, accessVars>>

Pages   == INSTANCE Documents WITH Editors <- Writers, MaxVersion <- MaxDocVersion
Papers  == INSTANCE Authoring
Marks   == INSTANCE Scoring WITH Texts <- Typed
Views   == INSTANCE Reports WITH Students <- Candidates
Designs == INSTANCE Certificates
Entry   == INSTANCE ExamAccess WITH Workload <- Inviting
Rights  == INSTANCE ExamAccess WITH Workload <- Sharing

Parts == {"boot", "admins", "documents", "papers", "marks", "reports", "templates", "access",
          "sharing"}

AdminInit ==
  /\ part \in Parts
  /\ Init /\ Pages!Init /\ Papers!Init /\ Marks!Init /\ Views!Init /\ Designs!Init /\ Entry!Init

AdminNext ==
  /\ UNCHANGED part
  /\ \/ part \in {"boot", "admins"} /\ Next
          /\ UNCHANGED <<documentVars, paperVars, markVars, reportVars, templateVars, accessVars>>
     \/ part = "documents" /\ Pages!Next
          /\ UNCHANGED <<vars, paperVars, markVars, reportVars, templateVars, accessVars>>
     \/ part = "papers" /\ Papers!Next
          /\ UNCHANGED <<vars, documentVars, markVars, reportVars, templateVars, accessVars>>
     \/ part = "marks" /\ Marks!Next
          /\ UNCHANGED <<vars, documentVars, paperVars, reportVars, templateVars, accessVars>>
     \/ part = "reports" /\ Views!Next
          /\ UNCHANGED <<vars, documentVars, paperVars, markVars, templateVars, accessVars>>
     \/ part = "templates" /\ Designs!Next
          /\ UNCHANGED <<vars, documentVars, paperVars, markVars, reportVars, accessVars>>
     \/ part = "access" /\ Entry!Next
          /\ UNCHANGED <<vars, documentVars, paperVars, markVars, reportVars, templateVars>>
     \/ part = "sharing" /\ Rights!Next
          /\ UNCHANGED <<vars, documentVars, paperVars, markVars, reportVars, templateVars>>

AdminSpec == AdminInit /\ [][AdminNext]_adminVars

-----------------------------------------------------------------------------
(* Document revisions are numbered without a gap and never rewritten        *)
(* (ContentService.publishDocument).                                        *)
LogIsGapless == Pages!LogIsGapless

(* The points of a paper add up to the exam's total, rounded up to a whole  *)
(* mark, through one editor's edits (ExamsService.update).                  *)
PaperAddsUp == Papers!PaperAddsUp

(* A right answer never costs marks, a wrong one never pays, and a perfect  *)
(* paper earns them all (scoring.util.ts, result-calculation.util.ts).      *)
MarksFollowAnswers == Marks!MarksFollowAnswers

(* Every report counts each student once per exam, with the best result     *)
(* (selectOfficialResults and its callers).                                 *)
ViewsAgree == Views!ViewsAgree

(* A student let in was listed for the exam during the check, unless staff  *)
(* exchanged its assignments meanwhile (assertStudentAuthorized).           *)
AdmittedOnlyIfListed == Entry!AdmittedOnlyIfListed

(* A version of a template means one wording on every certificate           *)
(* (updateTemplate, publishTemplate, resolveForExam).                       *)
VersionsMeanOneText == Designs!VersionsMeanOneText
=============================================================================
