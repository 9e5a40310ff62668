------------------------------ MODULE Scoring ------------------------------
(* The automatic marking of one attempt: distributePoints, gradeQuestion,    *)
(* scoreAttempt and computeResultMetrics, on the answers as finalizeSubmission*)
(* reads them.  Marks are kept in hundredths, the precision of round2, and   *)
(* the negative marking rate in percent.                                     *)
EXTENDS Integers, Sequences, FiniteSets, FiniteSetsExt

CONSTANTS
  Paper,        \* the exam's questions in order: [kind, correct] each
  Options,      \* option ids
  Texts,        \* what a student may type
  Contains,     \* pairs <<s, t>> of texts where s includes t
  TotalMarks, PassingMarks,
  Rates,        \* the negative marking rates an exam may have, in percent
  Blank, NULL

VARIABLES
  rate,         \* Exam.negativeMarkingRate
  answers,      \* the stored row of each question, or NULL
  outcome       \* the metrics written with the submission, or NULL
vars == <<rate, answers, outcome>>

Positions == 1 .. Len(Paper)

(* The answer rows autosave can store for a question of each kind. *)
OptionRow(selected) == [selected |-> selected, text |-> Blank, json |-> FALSE]
TextRow(t)          == [selected |-> {}, text |-> t, json |-> FALSE]
JsonRow             == [selected |-> {}, text |-> Blank, json |-> TRUE]
Rows(kind) ==
  CASE kind = "option" -> {OptionRow(s) : s \in SUBSET Options}
    [] kind = "text"   -> {TextRow(t) : t \in Texts \cup {Blank}}
    [] OTHER           -> {JsonRow, OptionRow({})}

(* As DistributePoints, were the remainder forgotten. *)
ShareRoundedDown(i) == TotalMarks \div Len(Paper)

(* The marks of the i-th question: an even share, the first ones one more. *)
DistributePoints(i) ==
  LET n == Len(Paper)
      base == TotalMarks \div n
  IN base + (IF i - 1 < TotalMarks - base * n THEN 1 ELSE 0)

(* What one answer earns, in hundredths; an essay earns nothing by machine. *)
Matches(t, key) == \E k \in key : <<t, k>> \in Contains \/ <<k, t>> \in Contains
GradeQuestion(i, row, r) ==
  LET q == Paper[i]
      full == 100 * DistributePoints(i)
      penalty == 0 - DistributePoints(i) * r
      selected == IF row = NULL THEN {} ELSE row.selected
      typed == IF row = NULL THEN Blank ELSE row.text
  IN CASE q.kind = "option" ->
            (IF selected = q.correct THEN full ELSE IF selected = {} THEN 0 ELSE penalty)
       [] q.kind = "text" ->
            (IF typed = Blank THEN 0 ELSE IF Matches(typed, q.correct) THEN full ELSE penalty)
       [] OTHER -> 0

(* scoreAttempt: the raw total, which negative marking may take below zero. *)
ScoreAttempt(given, r) ==
  MapThenSumSet(LAMBDA i : GradeQuestion(i, given[i], r), Positions)

(* computeResultMetrics: the one place of the clamp and of the pass mark. *)
ClampScore(raw) == Min({Max({raw, 0}), 100 * TotalMarks})
Metrics(raw) == [score |-> ClampScore(raw), passed |-> ClampScore(raw) >= 100 * PassingMarks]

Init ==
  /\ rate \in Rates
  /\ answers = [i \in Positions |-> NULL]
  /\ outcome = NULL

(* Autosave replaces the row of one question. *)
SaveAnswer ==
  /\ outcome = NULL
  /\ \E i \in Positions : \E row \in Rows(Paper[i].kind) :
       answers' = [answers EXCEPT ![i] = row]
  /\ UNCHANGED <<rate, outcome>>

(* The submission is created with the metrics of the machine pass. *)
FileMarks ==
  /\ outcome = NULL
  /\ outcome' = Metrics(ScoreAttempt(answers, rate))
  /\ UNCHANGED <<rate, answers>>

Next == SaveAnswer \/ FileMarks
Spec == Init /\ [][Next]_vars

-----------------------------------------------------------------------------
Auto == {i \in Positions : Paper[i].kind \in {"option", "text"}}

(* What a teacher would call right and wrong, whatever the marking code does: *)
(* the whole key and nothing else, a blank being no answer; no relation at    *)
(* all to any key.                                                            *)
Right(i, row) ==
  /\ row # NULL
  /\ \/ Paper[i].kind = "option" /\ row.selected = Paper[i].correct
     \/ Paper[i].kind = "text" /\ row.text \in Paper[i].correct \ {Blank}
Wrong(i, row) ==
  /\ row # NULL
  /\ \/ Paper[i].kind = "option" /\ row.selected \notin {{}, Paper[i].correct}
     \/ /\ Paper[i].kind = "text" /\ row.text # Blank
        /\ \A k \in Paper[i].correct : <<row.text, k>> \notin Contains /\ <<k, row.text>> \notin Contains

Without(i) == Metrics(ScoreAttempt([answers EXCEPT ![i] = NULL], rate))

(* The filed marks follow the answers: had the student left out an answer    *)
(* that is right the marks would be no better and a pass no likelier, had    *)
(* the student left out a wrong one they would be no worse, through the      *)
(* penalties and the clamp; and a paper answered right throughout earns every*)
(* mark of the exam that a machine can give (scoring.util.ts gradeQuestion,  *)
(* distributePoints; result-calculation.util.ts computeResultMetrics).       *)
RightNeverCosts ==
  \A i \in Auto : Right(i, answers[i]) =>
    outcome.score >= Without(i).score /\ (Without(i).passed => outcome.passed)
WrongNeverPays ==
  \A i \in Auto : Wrong(i, answers[i]) =>
    outcome.score <= Without(i).score /\ (outcome.passed => Without(i).passed)
PerfectIsFull ==
  (\A i \in Positions : Right(i, answers[i])) => outcome = [score |-> 100 * TotalMarks, passed |-> TRUE]
MarksFollowAnswers ==
  outcome # NULL => RightNeverCosts /\ WrongNeverPays /\ PerfectIsFull

=============================================================================
