------------------------------- MODULE Client -------------------------------
(* The web client against its server: a signed-in page and its calls        *)
(* (ClientSession), and the exam page (ExamPage).  A behaviour is about one *)
(* part; the other stays as it began.                                       *)
EXTENDS ClientSession

CONSTANTS
  Questions, First, Options, Empty, Cases, MaxSaves, MaxPosts, MaxGrants  \* ExamPage

\* NULL stands for no draft, which is not one of the drafts there are.
ASSUME ExamAssumption == First \in Questions /\ NULL \notin Options \cup {Empty}

VARIABLES
  part,
  habits, draft, at, screen, armed, paused, known, fired, save, post, back, answer, status,
  clock, deadline, filed, given, excused

examVars   == <<habits, draft, at, screen, armed, paused, known, fired, save, post, back, answer,
                status, clock, deadline, filed, given, excused>>
clientVars == <<vars, part, examVars>>

(* An attempt: what happens in it besides answering and submitting. *)
Exam == INSTANCE ExamPage

Parts == {"session", "exam"}

ClientInit == part \in Parts /\ Init /\ Exam!Init

ClientNext ==
  /\ UNCHANGED part
  /\ \/ part = "session" /\ Next /\ UNCHANGED examVars
     \/ part = "exam" /\ Exam!Next /\ UNCHANGED vars

(* The fairness of each part, in the behaviours that are about it. *)
ClientFairness ==
  /\ \A c \in Calls : WF_vars(part = "session" /\ Answer(c))
  /\ \A h \in Handlers : WF_vars(part = "session" /\ Serve(h))
  /\ WF_examVars(part = "exam" /\ Exam!Tick /\ UNCHANGED habits)
  /\ WF_examVars(part = "exam" /\ Exam!Resync /\ UNCHANGED habits)
  /\ WF_examVars(part = "exam" /\ Exam!Expire /\ UNCHANGED habits)
  /\ WF_examVars(part = "exam" /\ Exam!Submitted /\ UNCHANGED habits)
  /\ WF_examVars(part = "exam" /\ Exam!Arrives /\ UNCHANGED habits)
  /\ \A w \in {"student", "page"} : WF_examVars(part = "exam" /\ Exam!Submit(w) /\ UNCHANGED habits)

ClientSpec == ClientInit /\ [][ClientNext]_clientVars /\ ClientFairness

-----------------------------------------------------------------------------
(* What is graded after the student confirmed is what the student last      *)
(* chose, but for the answers excused (exam-taking-client.tsx).             *)
ConfirmedIsGraded == Exam!ConfirmedIsGraded

(* A page whose attempt is over does not stay on it (useServerDeadline,     *)
(* SubmissionsService.submit).                                              *)
OverIsShown == Exam!OverIsShown
=============================================================================
