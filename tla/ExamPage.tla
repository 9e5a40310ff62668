------------------------------ MODULE ExamPage ------------------------------
(* The page a student answers an exam on, and the server it saves to: the   *)
(* drafts of the answers store, the autosave, the countdown, the proctor's  *)
(* controls and the submission.  Saves are requests of their own: they may  *)
(* be handled in any order, refused, or lost.                               *)
EXTENDS Naturals, Sequences, SequencesExt

CONSTANTS
  Questions,  \* the exam's (multiple choice) questions
  First,      \* the one at index 0
  Options,    \* what can be selected
  Empty,      \* a draft, or an answer, with nothing selected
  Cases,      \* sets of what may happen in an attempt: "whole", "bookmark", "reload",
              \* "lose", "pause", "hold", "grant", "close", "clock" (time
              \* passes), "crowd" (requests of a kind are in flight together)
  MaxSaves,   \* bound: saves in flight
  MaxPosts,   \* bound: submissions in flight
  MaxGrants,  \* bound: extensions
  NULL

VARIABLES
  habits,    \* the case
  draft,     \* answers of exam.store: [Questions -> NULL or a draft]
  at,        \* currentIndex
  screen,    \* "one" question, the "whole" exam, the "review", "cut" off, "results"
  armed,     \* useAutosave has a timer
  paused,    \* proctorPaused
  known,     \* deadline of useServerDeadline
  fired,     \* expiredRef
  save,      \* PATCH answers in flight, in the order they were sent
  post,      \* submissions in flight: [who asked -> how many]
  back,      \* their answers on the way to the page
  answer,    \* student_answers: [Questions -> what is selected]
  status,    \* exam_sessions.status; "HELD" is paused awaiting approval
  clock,     \* time, in deadlines
  deadline,  \* expiresAt
  filed,     \* history: on whose submission, and what was graded otherwise than answered
             \* without an excuse
  given,     \* history: the student's last word on each question before confirming
  excused    \* history: questions whose last word is known not to be saved

page   == <<draft, at, screen, armed, paused, known, fired>>
wire   == <<save, post, back>>
server == <<answer, status, clock, deadline, filed>>
vars   == <<habits, page, wire, server, given, excused>>

Who == {"student", "page"}

Init ==
  /\ habits \in Cases
  /\ draft = [q \in Questions |-> NULL] /\ at = First /\ screen = "one"
  /\ armed = FALSE /\ paused = FALSE /\ known = 1 /\ fired = FALSE
  /\ save = <<>> /\ post = [w \in Who |-> 0] /\ back = 0
  /\ answer = [q \in Questions |-> Empty] /\ status = "RUNNING"
  /\ clock = 0 /\ deadline = 1 /\ filed = NULL
  /\ given = [q \in Questions |-> Empty] /\ excused = {}

Bound(n)    == IF "crowd" \in habits THEN n ELSE 1
Posts       == post["student"] + post["page"] + back
Excuse(Q)   == excused' = IF status = "DONE" THEN {} ELSE excused \cup Q
Confirming  == post["student"] > 0 \/ \E i \in DOMAIN save : save[i].final
OnScreen(q) == screen = "whole" \/ (screen = "one" /\ q = at)

-----------------------------------------------------------------------------
\* Answering

(* What saveCurrentAnswer sends; without a draft there is nothing to send. *)
Sends(final) ==
  IF draft[at] = NULL THEN save' = save
  ELSE /\ Len(save) < Bound(MaxSaves)
       /\ save' = Append(save, [q |-> at, v |-> draft[at], final |-> final, late |-> FALSE])

(* handleUpdateAnswer.  useAutosave follows the draft of the current question only. *)
Edit(q, v) ==
  /\ OnScreen(q) /\ ~paused
  /\ draft' = [draft EXCEPT ![q] = v]
  /\ given' = IF Confirming \/ status = "DONE" THEN given ELSE [given EXCEPT ![q] = v]
  /\ armed' = (armed \/ q = at)
  /\ Excuse(IF q # at \/ Confirming THEN {q} ELSE {})
  /\ UNCHANGED <<at, screen, paused, known, fired, wire, server>>

(* handleToggleBookmark: a question without a draft gets an empty one. *)
Bookmark(q) ==
  /\ "bookmark" \in habits /\ OnScreen(q) /\ ~paused
  /\ draft' = [draft EXCEPT ![q] = IF @ = NULL THEN Empty ELSE @]
  /\ armed' = (armed \/ q = at)
  /\ Excuse(IF draft'[q] # given[q] THEN {q} ELSE {})
  /\ UNCHANGED <<at, screen, paused, known, fired, wire, server, given>>

(* saveDraft, when the timer of useAutosave runs out. *)
Autosave ==
  /\ armed /\ screen # "results"
  /\ armed' = FALSE
  /\ IF paused THEN save' = save ELSE Sends(FALSE)
  /\ UNCHANGED <<draft, at, screen, paused, known, fired, post, back, server, given, excused>>

(* From the navigator or from the review. *)
GoToQuestion(q) ==
  /\ \/ screen = "one" /\ ~paused
     \/ screen = "review"
  /\ q # at /\ at' = q /\ screen' = "one"
  /\ Sends(FALSE)
  /\ armed' = TRUE
  /\ UNCHANGED <<draft, paused, known, fired, post, back, server, given, excused>>

ShowAll ==
  /\ "whole" \in habits /\ screen \in {"one", "whole"} /\ ~paused
  /\ screen' = IF screen = "one" THEN "whole" ELSE "one"
  /\ UNCHANGED <<draft, at, armed, paused, known, fired, wire, server, given, excused>>

OpenReview ==
  /\ screen \in {"one", "whole"} /\ ~paused /\ Posts = 0
  /\ Sends(FALSE)
  /\ screen' = "review"
  /\ UNCHANGED <<draft, at, armed, paused, known, fired, post, back, server, given, excused>>

CloseReview ==
  /\ screen = "review"
  /\ screen' \in {"one"} \cup (IF "whole" \in habits THEN {"whole"} ELSE {})
  /\ UNCHANGED <<draft, at, armed, paused, known, fired, wire, server, given, excused>>

-----------------------------------------------------------------------------
\* Submitting

Posting(w) == Posts < Bound(MaxPosts) /\ post' = [post EXCEPT ![w] = @ + 1]

(* Saves of other questions are not waited for. *)
Unwaited == {save[i].q : i \in DOMAIN save} \ {at}

(* Variant: the submission does not wait for the save. *)
ConfirmAtOnce ==
  /\ screen = "review" /\ Posts = 0
  /\ Sends(FALSE) /\ Posting("student")
  /\ Excuse(Unwaited)
  /\ UNCHANGED <<page, back, server, given>>

(* confirmFinalSubmit: the submission follows the answer to the save. *)
Confirm ==
  /\ screen = "review" /\ Posts = 0
  /\ Sends(TRUE)
  /\ IF draft[at] = NULL THEN Posting("student") ELSE UNCHANGED post
  /\ Excuse(Unwaited)
  /\ UNCHANGED <<page, back, server, given>>

(* onExpire, once for a deadline. *)
Expire ==
  /\ screen \notin {"results", "cut"} /\ clock >= known /\ ~fired
  /\ fired' = TRUE /\ Posting("page")
  /\ UNCHANGED <<draft, at, screen, armed, paused, known, save, back, server, given, excused>>

Nothing == [q \in Questions |-> Empty]

(* The history ends with the filing. *)
File(w) ==
  LET lost == {q \in Questions : answer[q] # given[q]} IN
    /\ filed' = [by |-> w, lost |-> lost \ excused]
    /\ status' = "DONE" /\ given' = Nothing /\ excused' = {}

(* Variant: an attempt that is over has nothing left to submit. *)
SubmitRunning(w) ==
  /\ post[w] > 0
  /\ post' = [post EXCEPT ![w] = @ - 1]
  /\ IF status = "DONE" THEN UNCHANGED <<back, filed, status, given, excused>>
     ELSE File(w) /\ back' = back + 1
  /\ UNCHANGED <<page, save, answer, clock, deadline>>

(* SubmissionsService.submit: a later one is answered with the first. *)
Submit(w) ==
  /\ post[w] > 0
  /\ post' = [post EXCEPT ![w] = @ - 1] /\ back' = back + 1
  /\ IF status = "DONE" THEN UNCHANGED <<filed, status, given, excused>> ELSE File(w)
  /\ UNCHANGED <<page, save, answer, clock, deadline>>

Submitted ==
  /\ back > 0
  /\ back' = back - 1 /\ screen' = "results"
  /\ UNCHANGED <<draft, at, armed, paused, known, fired, save, post, server, given, excused>>

LosePost(w) ==
  /\ "lose" \in habits /\ post[w] > 0
  /\ post' = [post EXCEPT ![w] = @ - 1]
  /\ UNCHANGED <<page, save, back, server, given, excused>>

-----------------------------------------------------------------------------
\* Saving

(* The request leaves the wire; a final one is followed by the submission. *)
Answered(i) ==
  /\ IF save[i].final THEN Posting("student") ELSE UNCHANGED post
  /\ UNCHANGED back

Accepts == status \in {"RUNNING", "PAUSED"} /\ clock <= deadline

(* The requests for the same question that were sent before this one.       *)
Overtakes(i) ==
  RemoveAt([j \in DOMAIN save |->
    [save[j] EXCEPT !.late = @ \/ (j < i /\ save[j].q = save[i].q)]], i)

(* ExamSessionsService.saveAnswer: the row of the question is written over. *)
SaveAnswer(i) ==
  LET s == save[i] IN
    /\ Accepts
    /\ answer' = [answer EXCEPT ![s.q] = s.v]
    /\ save' = Overtakes(i)
    /\ excused' = IF s.v = given[s.q] /\ \A j \in DOMAIN save \ {i} : save[j].q # s.q
                  THEN excused \ {s.q}
                  ELSE IF s.late \/ Confirming \/ draft[s.q] # given[s.q] THEN excused \cup {s.q} ELSE excused
    /\ Answered(i)
    /\ UNCHANGED <<page, status, clock, deadline, filed, given>>

(* Refused, or lost: nobody tries again. *)
SaveFails(i) ==
  /\ "lose" \in habits \/ ~Accepts
  /\ save' = RemoveAt(save, i)
  /\ Excuse({save[i].q})
  /\ Answered(i)
  /\ UNCHANGED <<page, server, given>>

-----------------------------------------------------------------------------
\* The proctor, the clock, and the browser

(* A control reaches the page unless its socket is down. *)
Heard == IF "lose" \in habits THEN BOOLEAN ELSE {TRUE}

Pause ==
  /\ status = "RUNNING"
  /\ status' \in (IF "pause" \in habits THEN {"PAUSED"} ELSE {})
                 \cup (IF "hold" \in habits THEN {"HELD"} ELSE {})
  /\ \E heard \in Heard :
       /\ paused' = (paused \/ heard)
       /\ armed' = (armed \/ (heard /\ ~paused))
  /\ UNCHANGED <<draft, at, screen, known, fired, wire, answer, clock, deadline, filed, given, excused>>

Resume ==
  /\ status \in {"PAUSED", "HELD"} /\ status' = "RUNNING"
  /\ \E heard \in Heard :
       /\ paused' = (paused /\ ~heard)
       /\ armed' = (armed \/ (heard /\ paused))
  /\ UNCHANGED <<draft, at, screen, known, fired, wire, answer, clock, deadline, filed, given, excused>>

Extend ==
  /\ "grant" \in habits /\ status # "DONE" /\ deadline <= MaxGrants
  /\ deadline' = deadline + 1
  /\ \E heard \in Heard :
       /\ known' = IF heard THEN deadline' ELSE known
       /\ fired' = (fired /\ ~heard)
  /\ UNCHANGED <<draft, at, screen, armed, paused, wire, answer, status, clock, filed, given, excused>>

(* The periodic resync of useServerDeadline. *)
Resync ==
  /\ known # deadline
  /\ known' = deadline /\ fired' = (fired /\ clock >= deadline)
  /\ UNCHANGED <<draft, at, screen, armed, paused, wire, server, given, excused>>

(* A forced submission, or the sweep once the deadline is over. *)
Close ==
  /\ status # "DONE" /\ ("close" \in habits \/ clock >= deadline)
  /\ File("staff")
  /\ \E heard \in Heard :
       IF heard /\ clock < deadline /\ Posts < Bound(MaxPosts)
       THEN Posting("page") ELSE UNCHANGED post
  /\ UNCHANGED <<page, save, back, answer, clock, deadline>>

Disconnect ==
  /\ "close" \in habits /\ screen # "results"
  /\ screen' = "cut"
  /\ UNCHANGED <<draft, at, armed, paused, known, fired, wire, server, given, excused>>

Tick ==
  /\ "clock" \in habits /\ clock < deadline /\ clock' = clock + 1
  /\ UNCHANGED <<page, wire, answer, status, deadline, filed, given, excused>>

(* The store starts empty: what the server has is not read back. *)
Reload ==
  /\ "reload" \in habits /\ status # "DONE" /\ screen \in {"one", "whole"} /\ Posts = 0 /\ ~Confirming
  /\ draft' = [q \in Questions |-> NULL]
  /\ at' = First /\ screen' = "one" /\ armed' = FALSE
  /\ paused' = (status = "HELD") /\ known' = deadline /\ fired' = FALSE
  /\ Excuse({q \in Questions : given[q] # answer[q]} \cup {save[i].q : i \in DOMAIN save})
  /\ UNCHANGED <<wire, server, given>>

-----------------------------------------------------------------------------
Student ==
  \/ \E q \in Questions : Bookmark(q) \/ GoToQuestion(q) \/ \E v \in Options \cup {Empty} : Edit(q, v)
  \/ ShowAll \/ OpenReview \/ CloseReview \/ Confirm \/ Reload

Arrives == \E i \in DOMAIN save : SaveAnswer(i) \/ SaveFails(i)

Step ==
  \/ Student \/ Autosave \/ Expire \/ Submitted \/ Arrives
  \/ \E w \in Who : Submit(w) \/ LosePost(w)
  \/ Pause \/ Resume \/ Extend \/ Resync \/ Close \/ Disconnect \/ Tick

Next == Step /\ UNCHANGED habits

(* Time passes, the page's timers run, and requests are answered. *)
Fairness ==
  /\ WF_vars(Tick /\ UNCHANGED habits) /\ WF_vars(Resync /\ UNCHANGED habits)
  /\ WF_vars(Expire /\ UNCHANGED habits) /\ WF_vars(Submitted /\ UNCHANGED habits)
  /\ WF_vars(Arrives /\ UNCHANGED habits)
  /\ \A w \in Who : WF_vars(Submit(w) /\ UNCHANGED habits)

Spec == Init /\ [][Next]_vars /\ Fairness

-----------------------------------------------------------------------------
(* What is graded after the student confirmed is what the student last      *)
(* chose, except for a question whose last save was lost, refused, overtaken *)
(* or still in flight, which was answered away from the current question or *)
(* while the submission was on its way, or bookmarked or left unsaved by a  *)
(* reload (exam-taking-client.tsx: goToQuestion, confirmFinalSubmit).       *)
ConfirmedIsGraded ==
  (filed # NULL /\ filed.by = "student") => filed.lost = {}

(* A page whose attempt is over does not stay on it: however it was closed, *)
(* the countdown submits once more and is answered with the submission      *)
(* (useServerDeadline; SubmissionsService.submit).                          *)
OverIsShown ==
  (status = "DONE" /\ "lose" \notin habits) ~> (screen \in {"results", "cut"})
=============================================================================
