# Verification of the online examination system

TLA+ models of the server's core logic and of the parts of the client that
depend on it, model-checked with TLC and, where it matters most, proved with
TLAPS. Paths without a prefix are under `src/backend/src/`, those that begin
with `frontend/` under `src/frontend/src/`.

## 1. The system

A monorepo: a NestJS backend over Postgres (Prisma), a Next.js client, and a
stateless image classifier. All state that matters is in database rows; a
request handler is an `async` method that reads rows, decides, and writes, with
other handlers running between any two awaited round trips. Interactive
transactions run at READ COMMITTED and no read takes a lock, so inside a
transaction what was read is not protected from a concurrent commit either. What
arbitrates races are unique indexes: `Submission.sessionId`,
`ExamSession(examId, studentId, attemptNumber)`, `Certificate.resultId`,
`ContentRevision(documentId, version)`, and the keys of roles, rights and
assignments.

| Component | State it keeps | Operations that change it |
|---|---|---|
| Attempt (`exam-sessions/exam-sessions.service.ts`) | `ExamSession` row, `StudentAnswer` rows | start, save an answer, resume check, permit/revoke a retake |
| Finalisation (`submissions/`) | `Submission` + `Result`, the closing of the row | submit, force-submit, forced end of an exam, the 60 s lifecycle (sweep of expired sessions, end of exam windows) |
| Requests (`exam-sessions/requests.service.ts`) | `ResumeRequest`, `RetakeRequest` | request, expire older ones, decide |
| Monitoring (`monitoring/monitoring.service.ts`) | status, approval flags, connection, risk of a session; events; configuration | violation, auto-pause, connection change, heartbeat, proctor actions |
| Time extensions (`monitoring/time-extension.*`) | deadline, original deadline, running total, journal | extend |
| Exams (`exams/exams.service.ts`) | `Exam` with marks, pass mark, status, window; its paper | create, update, publish, start, close, restart |
| Exam access (`exams/exam-access.service.ts`, `classes/`) | owner, shares, assignments, enrolments | share, transfer, assign, enrol, remove |
| Gateway (`websocket/realtime.gateway.ts`) | connection counters, rooms, owner sockets (memory) | connect, join, heartbeat, disconnect, begin again, relays |
| Results and grading (`results/`, `submissions/scoring.util.ts`) | `Result`, scores of answers, totals of `Submission` | automatic marking, manual grade, bulk grade, publish, override |
| Certificates (`certificates/`, `content/`) | `Certificate`, templates and documents with their revisions | issue, generate, auto-issue, reissue, revoke; template and document life cycles |
| Accounts (`users/`, `roles/`, `permissions/`, `auth/*.bootstrap.ts`) | users, roles, rights | boot, create, assign, grant, remove |
| Authentication (`auth/`) | refresh tokens | login, refresh (rotation), logout, revoke |
| Risk and queue (`monitoring/risk.engine.ts`, `queue/`) | risk score of a session, from two writers | recompute |
| Cache (`cache/`) | monitoring configuration, 300 s | read-through, delete |
| Reports (`analytics/`, `reports/`) | none | read |
| Exam page (`frontend/features/exams/`, `frontend/hooks/`) | drafts, autosave, deadline shown | edit, navigate, save, submit, obey the proctor |
| Signed-in page (`frontend/services/api.ts`) | access token, the refresh in flight | call, refresh, repeat |
| Monitor page (`frontend/app/.../monitor`) | list of sessions, peer connections | poll, apply a push, watch |
| The rest | see `PROJECT.json`, `components` | CRUD, messages, files, prose |

How they interact. The gateway calls `setConnection` when a student's socket
joins, and means to when it drops; that, and a violation, may call `autoPause` (same row) or
`forceSubmitSession` (finalisation). A proctor's action writes the session or
calls finalisation or the time extension service. `decide` writes a request and
then the session or the permit. The lifecycle timer scans sessions and exams.
Filing an attempt marks it (`scoring.util.ts`), and publishing its result may
issue a certificate. Changes of a session are pushed to the monitor page and the
exam page, which also poll. Everything else meets in the `ExamSession` row.

What is hard. Every handler decides on a row it read before and writes by id,
usually unconditionally; handlers crash or fail between two writes; the sweep
races students and proctors; two proctors race each other; a policy is read at
one moment and applied at another; servers boot together; a page and the server
each keep a deadline, a list, a session of their own and hear of the other's
through messages that are lost or overtaken. `PROJECT.json`, `hazards`, lists
each at its line with the properties about it.

What makes each component correct:

- *Finalisation*: one submission per attempt, never rewritten; no closed session
  without one; never filed as expired before its deadline; the session agrees
  with the submission; expired sessions are eventually closed.
- *Attempt, monitoring, requests*: a closed session stays closed and takes no
  answers; a paused session waits for an approval; an approval lets
  the student go on; a lost connection under END_SESSION is filed.
- *Extensions*: the original deadline is kept, no grant shortens the time, the
  running total is the sum of the grants.
- *Starts*: attempts are numbered without gaps, one runs at a time but for those
  a late write reopens, the allowance holds and every retake was allowed; who
  starts was listed.
- *Marking and grading*: a right answer never costs and a wrong one never pays;
  nothing is settled or shown while a human's work is owed, the tables agree on
  that, and it is settled when it is done; a human's mark survives a regrade,
  and so does the automatic figure it departed from; all reports count a student alike.
- *Authoring*: the points of a paper cover the total stored with it, and exceed it
  by less than a mark, by nothing when it is whole.
- *Certificates and documents*: at most one per result, only for a result that
  was earned or overridden with a reason; a version stands for one wording;
  a bulk run ends.
- *Accounts*: one super administrator, whatever happens; the floor of rights is
  installed by servers that boot together; what must be kept keeps its owner.
- *Sessions of the client*: no call waits for ever, nobody is signed out while
  nothing was lost, revoked or expired, a page keeps one session.
- *Pages*: what the student confirmed is what is graded; a page does not stay on
  an attempt that is over; the proctor's list catches up.

## 2. Modules

| Module | What it is |
|---|---|
| `Attempt` | the abstract promise: an attempt runs until it is filed, once, and never as expired before its deadline |
| `SessionLifecycle` | one session row, its answers, submission and resume requests, and every handler that writes them |
| `StartExam` | how one student comes to the next attempt of one exam: starts, permits, retake requests |
| `ExamAccess` | who may run an exam and who may sit it: shares, transfer, assignments, classes, and the check of a start |
| `Grading` | the answer rows, submission and result of one attempt under manual grading, publishing and bulk runs |
| `Scoring` | the automatic marking of one attempt: points, penalties, clamp, pass |
| `Reports` | the official attempt of each student as six reports choose it, and the figures each makes of them, over a growing table of results |
| `Authoring` | writing an exam: total, pass mark and paper through create, update, restart |
| `Certificates` | the certificates of an exam, and the templates they are issued from |
| `Documents` | one editable document and its revision log |
| `Accounts` | accounts, roles and rights: servers that boot, administrators that change them |
| `ClientSession` | a signed-in page, its calls and its refreshes, and the rotation of tokens |
| `ExamPage` | the page an exam is answered on, and the server it saves to |
| `Realtime` | the gateway's sockets, its limits, the connection state of one session, and a server that ends on an exception |
| `RiskScore` | the risk score of a session, its two writers, the points pages claim, and the cached configuration |
| `MonitorView` | a proctor's list of sessions, from a poll, refetches and pushes |
| `Starts` | composes `StartExam` for any number of tabs, `StartExam` for one tab, and `SessionLifecycle` for an interrupted attempt |
| `Administration` | composes `Accounts`, `Documents`, `Authoring`, `Scoring`, `Reports`, `Certificates`, `ExamAccess` |
| `Live` | composes `Certificates`, `Realtime`, `RiskScore`, `MonitorView` |
| `Client` | composes `ClientSession`, `ExamPage` |
| `MCSessionLifecycle`, `MCRaces`, `MCDeadlines` | `SessionLifecycle` for TLC: workloads, symmetry, two exams beside each other |
| `MCStartExam`, `MCStarts`, `MCGrading`, `MCAdministration`, `MCLive`, `MCClient` | instances of the modules above for TLC |
| `SessionLifecycleProofs`, `StartExamProofs`, `GradingProofs`, `CertificatesProofs` | theorems about the module of that name, for every value of the constants |
| `StartsProofs`, `AdministrationProofs`, `LiveProofs`, `ClientProofs` | theorems about a composition, and so about the parts it instantiates |

A composition extends one of its parts and instantiates the others. A behaviour
is about one `part`; the others stay as they began. The constants of all parts
are the composition's own, so that what is proved of it is proved of every
instance of every part.

### How a handler becomes actions

The program counter of a handler (`job`, `request`, `edit`, `desk`, `flight`,
`step`) carries what it keeps from its reads. A handler is a first action (its
reads and checks, up to the first write), then one action per awaited write,
each reading again only what the code reads again. Two consecutive reads share a
step when nothing is decided between them or when what is read cannot change. A
database transaction whose result does not depend on a read of its own
(`finalizeSubmission`: the unique index decides) is one step; the one that reads
before it writes (`TimeExtensionService.extend`) is two, which is what READ
COMMITTED allows. A message is sent by one action and delivered by another, so
that others run in between; where the transport keeps an order the model keeps
it, and where requests are independent it does not.

In `SessionLifecycle`:

- `SaveAnswer`/`UpsertAnswer` are `saveAnswer` with `assertResumeAllowed`
  (`ResumeAllowed` is its chain of refusals).
- `Submit`, `ForceSubmit`/`ForceSubmitSession`, `ForceEndExam`/`CloseForcedExam`
  and `SweepExpired`/`SweepBatch` are the callers of `finalizeSubmission`;
  `FinalizeWin` inserts, `FinalizeLose` hits the unique index and still writes
  the session, `FinalizeFail` is any other failure.
- `RecordViolation`, `AutoPause`, `SetConnection`/`WriteConnection`,
  `Heartbeat`, `DisconnectAction`, `InstructorAction`/`WriteAction` are the
  monitoring service. What `WriteConnection` does next was decided on the row
  `SetConnection` read.
- `RequestResume`/`ExpirePending`/`InsertRequest` and
  `Decide`/`WriteDecision`/`ApplyDecision` are the resume requests.
- `Extend`/`ReadFresh`/`CommitExtension` is a time grant.
- `SetExamStatus` and `CloseEndedExam` are what the exam does to the session's
  guards; `Abort` is a crash or a failed query between two round trips.

In `StartExam`: `StartExam`, `CheckPolicy`, `CountAttempts`, `InsertAttempt`,
`Collide`, `FindWinner` and `StartOver` are `startExamInternal`, `PermitRetake`
and `RevokeRetake` the staff's permits, and the rest the retake requests. What
happens inside an attempt is reduced to `CloseAttempt` and `PauseAttempt`, which
like the code writes PAUSED or IN_PROGRESS over any row, a submitted one too
(the late pause of `autoPause`, a proctor's pause, a late resume decision).
Two history variables: `approvals`, the attempts a retake of which was ever
approved by a permit or a decision, and `reopened`, those put back to work after
they were closed. A permit is written by id for an attempt that was closed when
it was read, so `PermitRetake` also reaches the reopened ones.

In `ExamAccess`: `CheckOwner`, `CheckLevel` and `Allow` are the two queries of
`assertCanAct` in their order; every request of staff then reads and writes in
steps of its own (`Share`/`GrantShare`, `TransferOwnership`/`HandOver`,
`AssignStudents`/`InsertAssignment`, `RemoveClass`/`DeleteClass` ...).
`AskToStart`, `Count` and `AssertStudentAuthorized` are the four counts a start
is checked by, each answered at a moment of its own. `seen` is a history
variable: whether the student was listed, and whether an assignment came or went,
while the check was under way.

In `Grading`: `GradeManually` is the read and the checks before the transaction
of `gradeManually`; `WriteMarks`, `Aggregate`, `CountPending` and `CommitGrades`
are its queries. Its writes to the answers are seen by nobody else until the
commit but lock their rows (`Locked`), so another grader of the same answer
waits; the rows of the submission and the result are written last and commit at
once. `RegradeResult`, `RegradeAnswers` and `RegradeCount` are the reads of
`gradeOne`, `RegradeCommit` its writes, which cannot pass a lock a grader holds:
the two take the tables in opposite orders and the database aborts one of them,
which is `Fail`, together with timeouts and crashes. `given` (the last mark a
human committed) and `released` (staff published) are history variables. Marks
are integers, in hundredths; percentage, pass flag, letter grade and feedback are
functions of the score or free text and are left out, and with them
`overrideResult`. `UnansweredEssay` is an exam whose essay the student left out: the
result is filed PENDING with nothing to mark (the theorems cover it, the run
does not). `Init` is what `finalizeSubmission` files.

In `Scoring` the functions are operators with the code's names
(`DistributePoints`, `GradeQuestion`, `ScoreAttempt`, `ClampScore`, `Metrics`);
`SaveAnswer` gives every combination of answers and `FileMarks` files it. A
text matches by equality or by one containing the other, which is a relation
(`Contains`) instead of characters. The properties compare two filings of the
code with each other (`Without(i)`) and not with a second copy of the formula. In
`Reports`, `Before` is the comparator of `selectBestAttempt`, `Official` its
grouping, and each report picks from the candidates it builds itself: the
overview has no start time, the table of subjects no attempt number. What a
report shows is a record of the sums and counts it divides: `ExamAnalytics` the
score and percentage of its official attempts, `StudentReport` the score and the
maximum whose quotient is its average, `AnalyticsOverview` the passes of the
official attempts beside the percentages of all of them.

In `Authoring`: `OpenUpdate` reads the exam and checks, `ReplacePaper`,
`KeepPaper` or `RefuseUpdate` write it; `DistributePoints` is the code's: whole
points for a total in fractions of a mark, `Unit` to a mark. `Restart` copies into a new exam. `Deactivate` and `Reactivate` are
what the question bank does to a question a paper holds.

In `Certificates`: `Issue`, `IssueAgain`/`Repair`, `Resolve`, `Insert`/`Collide`
are `issue`; `GenerateForExam`, `SelectBatch`, `ResolveBatch`, `InsertBatch` a
bulk run; `Revoke`/`Delete`, `Reissue`/`Replace`, and `PublishResult` with
`IssueOnPublish`. `CreateTemplate` to `WriteArchived` are the templates. `Grade`
and `FileResult` are what makes and unmakes a pass. `everEarned` is a history
variable. In `Documents`, `PublishDocument` reads and `CommitPublish` is the
transaction.

In `Accounts`: a boot is `FindSuperAdmin`, `CreateSuperAdmin`, `FindPermission`,
`CreatePermission`, `FindGrant`, `CreateGrant`, entry by entry; an insert that
collides ends the reconciliation, as the caught error does. A request first reads
its caller (`Authorise`, `Permitted`), then its target (`Check`, which is the
`Below`, `CanGrantRole` and `Allowed` of the code), then writes. `GainRecord` is anything that makes an
account the owner of something that must be kept, `MarkAnswer` a grader's mark,
whose reference the database empties (ON DELETE SET NULL) instead of refusing.
`late` is a history variable: the accounts that marked their first answer after a
removal had counted their records.

In `ClientSession`: `Call`, `Answer` and `Refused` are the interceptors of
`api.ts` with the shared `refreshPromise` (`shared`); `ReadToken`,
`RevokeToken`, `IssueToken`, `Deliver` are `AuthService.refresh`. `Reload` and
`Restored` are `AuthGuard`. `ExpireAccess` and `ExpireRefresh` let the tokens up
to some number expire, as time does; an expired refresh token is refused by
`ReadToken` and removed by `CleanUp`. `excuse` is a history variable: an answer
was lost, or the user's sessions were revoked. In `ExamPage` the actions carry the
names of `exam-taking-client.tsx` and of the hooks; `save` and `post` are
requests in flight, handled in any order. `habits` says what may happen in an
attempt, so that each instance stays small; `given` and `excused` are history
variables.

In `Realtime` a socket that was used is not used again; `Join` writes the
connection as it was when it asked. `Disconnect` counts the socket out and
forgets it, and then throws as the code does (section 3); `Restart` is the
process that ends on it and begins again. `RiskScore` has one action per round trip of
`recordEvent`, of the worker and of `saveConfig`; an event brings the configured
points or those the page claims (`Claims`), below zero too; `peak`, the highest
the sum of the points has been, `overlap` and `failed` are history variables. In `MonitorView` a push carries the row that was read before
it was emitted (`ReadSnapshot`, `Emit`); `Poll`, `Invalidate`, `ListSessions`
and `Arrive` are the query of the page.

Abstractions. An answer is a value per question; scores, events, messages,
audit rows and timestamps other than the deadline are left out where no property
tells them apart. The clock counts minutes from the start. Requests are
identities taken from a finite set. Bounds are named where they are used:
`MaxClock`, `MaxGranted`, `MaxAttempts`, `MaxReopened`, `MaxVersion`, `MaxBatch`,
`MaxRevoked`, `MaxRows`, `MaxTokens`, `MaxSaves`, `MaxPosts`, `MaxGrants`,
`MaxPending`, `MaxEvents`, `MaxChanges`, `MaxTurns`.

A definition commented *Variant* is not part of the specification: it is the
form a plausible mistake would give the definition after it, and each property
was seen to fail under one of them.

## 3. Runs

Runs that pass. A run composes small instances that do not meet: a behaviour
picks one *part* at the start and is about it to the end, the others stay as
they began. So each part has the interleavings of its own module, and a run
answers the questions of one kind.

| Run | Questions | Instance |
|---|---|---|
| `SessionRaces` | *endings*, and *drops* under END_SESSION: `OriginalDeadlineKept`, `EndedExamIsFiled`, `KeepsPromise` (refinement of `Attempt`) | 2 handlers and the sweep; clock 0..3, grants up to 1; clock 0..2, connections lost and restored |
| `SessionDeadlines` | *sweep*: `ClosedHasSubmission`, `NeverFiledEarly`, `SubmissionIsFinal`, `ExpiredIsClosed` under what reopens a session or moves its deadline, with aborts and failing transactions; *loss*: `LossEndsFiled` under END_SESSION | 2 handlers and the sweep, 1 request, clock 0..3, no symmetry |
| `Starts` | two tabs: `NumbersAreGapless`, `AllowanceHolds`; one tab: `OneTabOneRunning`, `OneTabRetakesAllowed`; *resumes*: `InterruptedAwaitsApproval` | 2 handlers, AUTO policy with 2 attempts allowed; INSTRUCTOR_APPROVAL with 2 requests; 3 attempts, 1 of them reopened, aborts; 2 handlers, 2 resume requests, policy MARK_REVIEW, clock 0..2 |
| `Grading` | `SettledMeansGraded`, `TablesAgree`, `ShownWhenGraded`, `EssayMarksSurvive`, `BaselineKept` | 2 handlers, 2 essays, one right and one wrong choice, results shown immediately, any step may fail |
| `Administration` | *boot*, *admins*: `OneSuperAdmin`, `RecordsKeepTheirOwner`, `FloorIsInstalled`; *documents*: `LogIsGapless`; *templates*: `VersionsMeanOneText`; *papers*: `PaperAddsUp`; *marks*: `MarksFollowAnswers`; *reports*: `ViewsAgree`; *access*, *sharing*: `AdmittedOnlyIfListed` | 2 servers with crashes beside a request, or 2 requests beside a server; 2 editors and 3 versions; 1 template editor beside 1 issuer; 1 editor of a paper of 2 questions, totals of 3 and 3.5 marks; 3 questions at three rates; 2 students, 2 exams, 3 results out of different totals; 1 desk and 1 student |
| `Live` | *certificates*: `EarnedOrJustified`, `ReplacedByReissue`, `GenerationEnds`; *gateway*: `NoLockout`, `PresentIsShown`; *risk*: `ScoreCountsEveryEvent`; *monitor*: `ViewCatchesUp` | 2 issuers, 1 result, batches of 1; 3 sockets of a student and one of a proctor at limits of 2, a server that may begin again; 2 handlers, a worker and a writer of the configuration, claims of -20 points; 2 exams of 1 session |
| `Client` | *session*: `SignedOutForAReason`, `OneSessionPerPage`, `CallsSettle`; *exam*: `ConfirmedIsGraded`, `OverIsShown` | 2 calls, 2 refreshes, 4 tokens, lost answers, revocations and expiries; 2 questions, 2 saves and 2 submissions in flight, seven sets of events |

Why the bounds are enough. Every hazard found needs at most two handlers and
one of the lifecycle; the sweep is an actor of its own, so two handlers give
three actors. The duration is one minute and the clock runs two minutes past
it, so a session expires, is extended to a later deadline, and expires again.
One question and one value suffice in `SessionLifecycle`, where a property only
compares the answers filed with the answers stored. Two requests give a second
round after a first approval. Three attempts give a retake of a retake, which is
where an older approval could be taken for a fresh one. The exam of `Grading` has
two essays, so that two graders can each give the last mark, an answer with a
penalty, whose mark alone is negative, and one without, so that overruling the
penalty changes the automatic total; a grader enters more than the question is
worth, which is clamped. Two servers suffice to collide, one more request to
knock the survivor out; two calls to share a refresh, and a third token to tell a
rotation from a repeat. Three sockets at a limit of two make the gateway refuse
one and then lose each of them in any order. One reopened attempt suffices to run
beside a retake, and to be looked up as the latest closed one again. A paper of
two questions has a whole mark left to distribute when the total is 3, and a mark
and a half when it is 3.5; three questions have one of each kind that is marked
automatically. Two versions of a template and three of a document leave room for
an edit after a publication and for two publications that read the same version.
Invariants proved in section 5 hold for all values, so for them the bounds only
matter to how early a mistake is found. Deadlock is not checked: with the clock
at its bound and all handlers idle the system rests.

Runs that are expected to fail show where the code does not do what its own
comments, messages or documents say. Each is the smallest workload that shows it.

| Run | The code does | It says |
|---|---|---|
| `ReopenedAfterSubmit` | a pause (by a proctor or a violation) or an approved resume request reopens a submitted session | a submitted session "is terminal" (`time-extension.util.ts`), "must never be handed back" (`assertResumeAllowed`) |
| `AnswerAfterFreeze` | an answer checked before the submit is stored after it | finalisation "Freezes a session" |
| `GrantsLost` | of two grants at once one is lost from the total and the deadline | re-reading "stops two proctors ... clobbering each other" |
| `StartTwoRunning` | two starts at once give two running attempts | the index "makes exactly one win" |
| `GradersOverlap` | two graders who give the last two marks at once leave the result PENDING with one of the marks missing from the total | "finishing the last outstanding answer transitions the submission out of NEEDS_MANUAL_GRADING" |

The same models show more, which has no run of its own because it repeats one of
these races, or no document says otherwise, or it is plain from one line. Where a
property is restricted, what it excludes is listed here.

Sessions:

- `submissions.service.ts:325`: the loser of the insert writes the session with
  its own classification, so an automatic submission may stand beside a session
  that says SUBMITTED, and the other way round.
- `requests.service.ts:110`: an approval of a first interruption shuts the student
  out of a second: "already approved - you can resume now", and
  `assertResumeAllowed` refuses.
- `submissions.service.ts:118`: the sweep re-reads the sessions it selected by
  id only, so one extended in between is filed as expired.
- `time-extension.service.ts:131`: a grant commits on a session submitted after
  the transaction read it.
- `monitoring.service.ts:1138`: a proctor's pause keeps the approval of an
  earlier interruption (why `InterruptedAwaitsApproval` is checked without it).
- `requests.service.ts:280`: a decision is applied by id, some time after it was
  read: a second one for the interruption before, or one written when the session
  has been interrupted again, lifts the present interruption. What
  `InterruptedAwaitsApproval` says is less: while a session is paused it carries no
  approval, so only a decision applied after the pause lets it go on.
- the same writes reopen a submitted attempt (run `ReopenedAfterSubmit`), and do so
  when a retake has begun: then two attempts run, also for a student with one tab,
  and when the older one is closed again it is the latest closed one a retake is
  judged by, with the permit it had. `OneTabOneRunning` and `OneTabRetakesAllowed`
  therefore count the attempts that were never reopened: of those one runs at a
  time, and an attempt begins on the policy or on an approval for the last of them or for
  a reopened one after it, never for an older one.
- `realtime.gateway.ts:223`: the gateway has a namespace (line 66), so `this.server`
  is a Namespace and `this.server.sockets` a Map, which has no `adapter`. The
  look-up of the room throws for every socket that was tracked, before
  `setConnection(..., 'DISCONNECTED')`, whose only caller this is. So a student who
  leaves stays CONNECTED and no loss policy is applied as the gateway stands;
  `SetConnection`/`WriteConnection` and `LossEndsFiled` are about the service's
  operation, called with a loss by whoever does. The exception is not handled,
  and may end the process (`Restart`).
- `exam-sessions.service.ts:340`: END_SESSION refuses every answer, also of
  students who never lost the connection.
- `requests.service.ts:119` and `:245`: two resume requests at once both stay
  pending; of two decisions at once the second rewrites the first.
- `exam-sessions.service.ts:164`: one permit, read by two starts, gives two
  retakes; a retake permitted through a request survives `revokeRetake`.
- `exam-sessions.service.ts:248`: the loser of the insert is served the winner's
  attempt even when that is paused for approval.

Access:

- `exams.service.ts`, `transferOwnership`: of two racing transfers the owner in
  between keeps neither the exam nor a share; a `share` that races a transfer may
  leave the owner with a share row; the check reads the owner before the share,
  so someone who becomes owner in between is refused.
- `exam-sessions.service.ts:509`: the four counts may refuse a student although
  the exam became open to all meanwhile, and, with one assignment added and
  another removed, admit one who was never listed (what `AdmittedOnlyIfListed`
  excludes).
- `classes.service.ts:220-223`: the removal of a class checks and then deletes;
  an assignment made in between goes with it, and an exam without assignments is
  open to all, despite "Unassign it first".

Grading and marking:

- `results.service.ts:326`: manual grading adds the stored marks after clamping
  each to zero, so the penalties a bulk run and the submission count vanish from
  the total with the first mark given by hand; the bulk service says the two
  "can never disagree" (`bulk-grading.service.ts:204`).
- `results.service.ts:352`: the new totals go to the result only; the totals of
  the submission stay those of the automatic pass.
- `bulk-grading.service.ts:363`: a mark given to an objective answer while a bulk
  run is between its read and its write is overwritten by the automatic one, and
  `:309` then clears `manualAdjusted` from its older read. `EssayMarksSurvive` is
  about essays for this reason.
- `results.service.ts:350`: a grading that read the result before it was published
  writes `publishedAt` back to null.
- `results.service.ts:217`: publishing leaves `gradingStatus` as it was, so a
  released result may say GRADED or PENDING.
- `scoring.util.ts:99-101`: a question without a correct option gives full marks
  for a blank answer; a key that is blank (`:116`) matches every text but earns a
  blank answer nothing, which `Right` does not count as an answer; a total with a fraction of a hundredth is not distributed
  exactly. `Scoring` has whole totals; of one with a fraction of a mark the points
  come to more (next section), and the score is clamped to the total.
- the six reports do not always choose the same attempt as official (the
  overview does not read the start, the table of subjects not the number), though
  `ViewsAgree` holds of the figures; a change of the pass mark between two tied
  attempts makes them differ. The figures are not of one kind: the averages of the
  exam report and the system overview are means of official percentages, that of
  the student report is the sum of the scores by the sum of the maxima
  (`reports.service.ts:219-231`), and that of the analytics overview the mean of
  all attempts (`analytics.service.ts:381-384`, `:410-412`), next to a pass rate of
  the official ones. `ViewsAgree` compares each with those of its kind, and the
  last with nothing. Two attempts tied on the percentage, out of different totals,
  also differ in score, so a student's score need not be the one of another
  choice of the official attempt; the exam and student reports choose alike. The
  day axis mixes local days and UTC days.

Authoring, documents, certificates:

- `scoring.util.ts:51-52` says "the sum of all points equals `totalMarks` exactly"; a
  total may have a fraction (`create-exam.dto.ts:41-44`, `update-exam.dto.ts:44-48`), and
  then the last part of a mark becomes a point: 10.5 over three questions is
  4 + 4 + 3. `PaperAddsUp` says that the points cover the total by less than a mark
  more, which is equality for a whole one.
- `exams.service.ts:733`: two updates at once leave points that do not add up, or
  a pass mark above the total (`PaperAddsUp` is checked with one editor); an
  update is validated against the old and the new courses together; a restart
  does not copy the settings of the certificate.
- `content.service.ts:375-379` calls a bad rollback "itself rollback-able", but
  the draft keeps its version, so publishing it collides with the revision of
  that number and is refused.
- `content.service.ts:165`: two editors of a template leave a version without a
  revision, or with another text (`VersionsMeanOneText` is checked with one); two
  promotions at once leave two default templates.
- `certificates.service.ts:406-408` says the template is "Resolved once for the
  whole run"; it is resolved again for every batch.

Accounts and sessions of the client:

- `common/constants/permissions.ts:38-42`: a permission an administrator removed
  from a role "is left alone"; the next boot grants it again.
- `auth/permissions.bootstrap.ts:68`: an administrator who defines or grants a
  right while servers boot may knock the last of them out of its reconciliation
  and leave the floor incomplete: `FloorIsInstalled` excludes it, and a crash.
- `users.service.ts:220`: the grader of an answer is a record the account is kept
  for (line 197), but the database empties that column when the account goes
  (`schema.prisma:754`): an answer graded between the count and the delete loses its
  grader. `RecordsKeepTheirOwner` excludes it (`late`), and no other record.
- `users.service.ts:274`: two removals of roles at once leave an account with
  none; the super administrator can deactivate itself.
- `auth.service.ts:169`, `:192`: a refresh token lives seven days from the rotation
  that made it; a page that was idle for longer goes back to the login with nothing
  lost and nothing revoked, which `SignedOutForAReason` allows for the token the
  page holds.
- `auth.service.ts:201`: two tabs that refresh with one cookie sign each other
  out; a refresh that races a change of password leaves a token alive.

Pages:

- `frontend/features/exams/exam-taking-client.tsx`: an edit made in the view of
  the whole exam is never saved; a save in flight is not awaited by the submit,
  and one that failed is not repeated; the countdown and a forced submit do not
  save the draft; after a reload, a bookmark on an answered question saves an
  empty selection (each is what `ConfirmedIsGraded` excuses, and it speaks only
  of submissions a student confirmed). `frontend/features/landing/landing-narrative.tsx:68`
  says "Every answer autosaves ... nothing is lost".
- the same page: an extension that is not heard leaves it to submit at the old
  deadline; the overlay says "Time is frozen" (line 819) while the countdown
  runs; a submit lost at zero is not repeated (what `OverIsShown` excludes); a
  page whose close by staff was not heard stays until the countdown.
- `realtime.gateway.ts`: a join that waits while its socket drops writes
  CONNECTED for a student who is gone, and tracks her socket for good; a monitor's
  join writes CONNECTED for the student (line 330); a socket refused at a limit
  is subtracted when it disconnects, so the counters run behind, never ahead
  (`NoLockout` says only the latter).
- `queue/workers/index.ts:56`: the worker classifies by fixed thresholds where
  `recordEvent` uses those of the exam; overlapping recomputations leave a stale
  score until the next event (`overlap`); a configuration loaded before a change
  may be cached after it, for up to 300 s.
- `realtime.gateway.ts:419`, `monitoring.service.ts:397`: `exam:event` takes the
  points of an event from the page, any finite number, below zero too (the HTTP
  route takes 0 to 100); so events may lower the score, and there is no lower bound.
  `ScoreCountsEveryEvent` bounds it by the highest the sum has been. A number that is
  not whole does not fit the column, and the insert fails.
- monitor page: a socket never leaves the room of the exam before, and
  `applySnapshot` does not ask which exam a row is of, so `ViewCatchesUp` speaks
  of the exam's own rows.
- the camera (`frontend/hooks/use-proctoring.ts`, `realtime.gateway.ts:426-512`): the
  answer of a proctor and the candidates of both sides are relayed only after
  `isRoomMember` (line 283), which makes the look-up of line 223 and throws; no
  answer and no candidate arrives, and the exchange is not modelled. The back-off of
  the camera has no end, and a start that fails for an unknown reason says that it
  recovers but is not repeated.

## 4. Fairness

Safety needs none. What liveness assumes, and where:

| Property | Assumed |
|---|---|
| `ExpiredIsClosed` | the lifecycle timer (`scheduleLifecycle`) fires every 60 s while the process lives and a sweep that fails is repeated, so `SweepExpired` is weakly fair, and re-reading the batch and finalising are strongly fair: failures may delay but not starve them. Nothing of students, proctors or the clock: an expired session is closed *or given more time* |
| `LossEndsFiled` | the same, and each handler's next step is taken: an awaited query returns. No aborts, because a handler that dies after marking the connection lost never files the attempt; and no proctor's `disconnect`, which clears the connected flag so that the real loss after it is not seen as one |
| `GenerationEnds` | a bulk run goes on to its next query |
| `CallsSettle` | the network answers or fails a call, and the server runs what it received |
| `OverIsShown` | time passes, the timers of the page run (`setInterval` of `useServerDeadline`), a resynchronisation and a submission are answered unless they are lost |
| `PresentIsShown` | a page that is connected beats every ten seconds, and a write under way is carried out, unless the server ends: then the page is not connected |
| `ViewCatchesUp` | the query of the page polls every fifteen seconds and is answered, and handlers emit what they have read; nothing of the socket |

In the composed runs the fairness of a part is stated for the behaviours that
are about it. Mishaps (losses, reconnections, failing calls) are bounded, which
is what "in the end" means in the last one: a link that fails for ever shows
nothing.

## 5. Proofs

The theorems hold for any number of handlers, questions, answers, requests,
servers, results or pages, any exam, any clock, any policy and any workload
unless the theorem says otherwise. The only assumptions are the named ones on the
constants (`TimeAssumption`, `IdentityAssumption`, `ServersAssumption`,
`CatalogueAssumption`, `ResultsAssumption`, `PaperAssumption`,
`MarkingAssumption`, `RiskAssumption`, `ExamAssumption` ...), which TLC evaluates
in the runs. They say what the code's types and validation say: identities are
not NULL, totals are natural numbers of some fraction of a mark the points of an event are integers, a paper that is marked has a
question, a whole total and a pass mark within it (`assertScoringBounds`), a text
contains itself. Each module of proofs starts from the types of the state, where
the argument needs them, and a lemma that splits `Next` by who acts.

Every safety property of section 3's passing runs, invariant, action property or
refinement, is stated by a theorem. Theorems about a composition are proved in
one of two ways: the invariant is about one part's variables, and a step of any
other part leaves them alone; or the part has a module of proofs of its own
(`CertificatesProofs`, `StartExamProofs`, `SessionLifecycleProofs`), which is
instantiated, and a lemma per action shows that a step of the composition is a
step there.

| Theorem | Property | Argument |
|---|---|---|
| `FiledOnce` | `SubmissionIsFinal` | only `FinalizeWin` writes the submission, and only over NULL |
| `NothingIsLost` | `ClosedHasSubmission` | only the two outcomes of the insert close a row |
| `DeadlineIsKept` | `OriginalDeadlineKept` | not inductive: a commit uses values read earlier. `DeadlineInv` says the same of what each handler holds (`Honest`) |
| `ExpiryIsPunctual` | `NeverFiledEarly` | `PunctualInv`: whoever is about to file as expired, or to start doing so, does it after the original deadline; relies on `DeadlineInv` |
| `InterruptionBlocks`, `InterruptedWaits` | `PausedAwaitsApproval`, and `InterruptedAwaitsApproval` of the composition | that a paused session carries no approval, if proctors do not use the bare pause; `PauseInv` carries that no handler is about to write one |
| `EndingFilesFirst` | `EndedExamIsFiled` | if no transaction fails |
| `ImplementsAttempt` | `KeepsPromise` | refinement, if no operation that reopens a session is used: then active means unfiled |
| `AttemptsAreNumbered` | `NumbersAreGapless` | `NumbersInv`: the number a start is about to insert is at most one past the last, so the unique index leaves only the next |
| `AllowanceIsKept` | `AllowanceHolds` | `AllowanceInv`: a start past its checks holds evidence, a number within the allowance or an approval |
| `OneTabOneRunning`, `OneTabRetakesAllowed`; `FromOneTabOneRuns`, `FromOneTabRetakesAreAllowed` | `OneRunsUnreopened`, `EveryRetakeIsAllowed`, and `OneTabOneRunning`, `OneTabRetakesAllowed` of the composition | for one tab, whatever is reopened at any moment: `OneTabInv` carries what the only start has established across its steps; whatever it did not see closed has been reopened |
| `Settled`, `NothingShownEarly`, `Agreement` | `SettledMeansGraded`, `ShownWhenGraded`, `TablesAgree` | `CountsAreSound`, `ReadsAreSound`: a grader once set is never unset, so what a transaction found complete or published stays so until it commits |
| `EssaysAreSafe` | `EssayMarksSurvive` | a bulk run never writes an answer whose question needs a human, whatever it read |
| `BaselineIsKept` | `BaselineKept` | every run computes the figure from the objective answers alone |
| `OwnersKept` | `RecordsKeepTheirOwner` | an action property: the delete is refused by the database while a record refers to the account, whatever the count said before, and an answer whose grader it forgets was not there at the count (`CountedFirst`) |
| `SuperAdminIsOne` | `OneSuperAdmin` | `SuperInv`: a request that passed its checks will, however late it writes, not make another one, nor take the role or the account from the one there is (`Harmless`) |
| `FloorHolds` | `FloorIsInstalled` | `FloorInv`: a server knows of every entry it has passed (`Reached`), and until the floor is there somebody still works on it (`Carried`): whoever makes another server's insert collide has just inserted that row itself, and goes on. No count of servers enters |
| `CertificatesAreEarned` | `EarnedOrJustified` | `EarnInv`: what a handler is about to issue without a reason was earned when it looked (`Backed`), and having been earned does not pass |
| `ReplacedOnlyByReissue` | `ReplacedByReissue` | `NumberInv`: a reissue knows the certificate it read by its number, and numbers are not used again; while that certificate is there, what is remembered of it is true (`Remembered`) |
| `VersionsAreGapless` | `LogIsGapless` | `LogInv`: the log has n revisions, the row is at n or n + 1, and whatever a handler read, it will publish a number that is taken or the next one |
| `OneTextPerVersion`, `OneEditorOneText` | `VersionsMeanOneText` | with one editor of templates. `TextInv`: what the editor read of a template is still so (`Current`), so that it publishes a new text only under a new number; a revision agrees with the row as long as that has its version (`RevisionsFit`), and what a certificate or a request about to issue one carries agrees with both (`Sound`, `Carries`). With two editors it is false: one publishes version v + 1 and a certificate freezes it, the other, who read v, publishes v + 1 with the old text |
| `NobodyUnlistedIsLetIn` | `AdmittedOnlyIfListed` | `DoorInv`: whose check is under way was listed at some moment of it, or has had no count that lets in, and what the counts answered no longer holds only as far as `seen` says an assignment came or went (`Unlisted`) |
| `MarksAddUp` | `PaperAddsUp` | with one editor. `PaperInv`: the points are always the shares of the stored total, and what the editor read of total, pass mark and paper is still there; `SharesAddUp`: shares of any total among any number of questions cover it by less than a mark more |
| `MarkingIsFair` | `MarksFollowAnswers` | leaving out one answer changes the sum by one term (`ScoresDiffer`), each kind of question grades a right answer no lower and a wrong one no higher than none (`GradeIs`), clamp and pass mark are monotonic (`BetterScoresMore`), and a perfect paper earns a hundred times the shares (`PerfectScores`) |
| `EveryReportAgrees` | `ViewsAgree` | the comparator with the order of the rows is total and transitive whatever figures a candidate lacks, so every bucket has a best (`SomeIsBest`), and the official attempts of any report are in one-to-one correspondence with the students and exams it covers (`OfficialIs`, `ReportIsDue`); the exam and student reports use one comparator, so they count the same attempts of a student |
| `NobodyIsLockedOut` | `NoLockout` | `CountersInv`: a counter is at most the number of sockets that are open, also of none when the server begins again |
| `LastChoiceIsGraded` | `ConfirmedIsGraded` | `KeptAll`: until the attempt is filed, for every question that is not excused, the last choice away from the current question is stored or on its way and no older save on its way outlives it (`Healed`), and a submission being confirmed waits for the only choice that is not stored |
| `NoEventIsForgotten` | `ScoreCountsEveryEvent` | `ScoreInv`: every sum that is read is at most the highest there has been (`peak`), whatever the points; who inserts an event computes after it, so while no sum is to come a computation that nobody ran over holds the figure of all events |
| `StaysSignedIn`, `SessionIsOne` | `SignedOutForAReason`, `OneSessionPerPage` | `SessionInv`: a page that was never cut off runs at most one refresh, shared by all its calls, and it is known at each step where the only usable token is (`Carries`), or it was left at the login with an expired one (`Undisturbed`) |

`TypeCorrect` is proved of `SessionLifecycle`, `StartExam`, `Accounts` and
`Certificates`. The hypotheses are necessary: section 3 names, for each, what the
code does without them.

Sums. `MapThenSumSet` is a recursion over subsets with a choice at each step, and
the provers have no induction over sets. `AdministrationProofs` proves what it
needs by smallest counterexamples: `LeastSet` follows from the well-foundedness
of strict inclusion among finite sets (`FS_StrictSubsetOrderingWellFounded`,
`WFMin`); then the recursion has a solution (`FoldsExist`), which does not depend on
the set it was started from (`FoldsAgree`), any element may be taken out first
(`SumAdds`), and sums scale and move along injections (`SumScales`, `SumMoves`).

Only model-checked: the liveness properties (`ExpiredIsClosed`,
`LossEndsFiled`, `GenerationEnds`, `PresentIsShown`, `ViewCatchesUp`,
`CallsSettle`, `OverIsShown`), since ENABLED and fairness are out
of the prover's reach, and the counterexamples of section 3. No theorem shows a
liveness property. The components whose only property is one of liveness
(`MonitorView`) have no theorem.

## 6. Not modelled

`PROJECT.json` gives each component's status and the reason. In short:

- *Create, read, update, delete*: question banks, courses, subjects, settings,
  messages, notifications, push, contact. One statement each, on rows no other
  handler decides on. What a question bank does to a paper is in `Authoring`, what
  a class does to access in `ExamAccess`.
- *Reads*: listings, dashboards, exports, rankings, charts; `Reports` has the
  choice of the official attempt and the figures computed from it.
- *Rendering*: PDF certificates, the pages' markup and prose, which is most of the
  lines of the client. The pages that hold state are modelled.
- *External*: the image classifier is stateless; the model in the browser only
  decides when a violation is sent.
- *Deployment*, scripts, seeds and generated code.
- Request throttling, guards and filters decide whether a handler runs at all;
  all handlers are allowed to run, except that `Accounts`, `ExamAccess` and
  `ClientSession` model the checks of identity and rights they are about.

Found by reading, in parts that have no module: in the question bank page, moving
a question within a filtered list moves the filtered rows to the front of the
whole list, a bulk delete also deletes selected rows a filter has hidden, and
concurrent creations or imports share a `sortOrder`; `questions.update` recreates
the options of a question with new ids; `finalizeSubmission` does not read the
`answerJson` of an answer.

What would come next: several sessions of one exam under a forced end, with a
start that passed its check before the exam closed (`StartExam` has the start,
`SessionLifecycle` the end, nothing has both); the selection of results by a bulk
grading run; the delivery of notifications through the queue; what several
editors of one paper or template still keep.
