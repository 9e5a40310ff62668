----------------------------- MODULE ExamAccess -----------------------------
(* Who may run an exam and who may sit it.  Staff share it, hand it over,    *)
(* invite students and push it to classes, while a student who wants to      *)
(* start is checked by four counts that are answered one by one.             *)
EXTENDS Naturals

CONSTANTS
  Desks,        \* handlers serving staff
  Instructors,  \* instructors; one of them made the exam
  Admin,        \* an administrator
  Students,
  Classes,
  Workload      \* requests of staff: [op, who, whom, level]

VARIABLES
  owner,     \* exams.createdById
  shares,    \* exam_shares: a level, or "none", per instructor
  invited,   \* exam_assignments
  pushed,    \* exam_class_assignments
  classes,   \* the classes that exist
  enrolled,  \* class_enrollments: <<class, student>>
  desk,      \* per handler: its next round trip and what it remembers
  door,      \* per student: the counts of the check so far
  seen       \* history: what happened during the check

rights == <<owner, shares>>
guests == <<invited, pushed, classes, enrolled>>
vars   == <<rights, guests, desk, door, seen>>

Rank == [none |-> 0, VIEWER |-> 1, MONITOR |-> 2, PROCTOR |-> 3, CO_OWNER |-> 4]
ActionLevel ==
  [note |-> "VIEWER", warning |-> "PROCTOR", message |-> "PROCTOR", pause |-> "PROCTOR",
   resume |-> "PROCTOR", extend |-> "PROCTOR", approve_resume |-> "CO_OWNER",
   deny_resume |-> "CO_OWNER", force_submit |-> "CO_OWNER", disconnect |-> "CO_OWNER"]
ManageLevel == "CO_OWNER"
Required(op) == IF op \in DOMAIN ActionLevel THEN ActionLevel[op] ELSE ManageLevel
ClassOps     == {"drop", "enroll", "unenroll"}

Idle      == [pc |-> "idle"]
At(d, pc) == desk[d].pc = pc
Set(d, j) == desk' = [desk EXCEPT ![d] = j]
Go(d, pc) == desk' = [desk EXCEPT ![d].pc = pc]
Finish(d) == Set(d, Idle)

(* The exam is listed for a student: nobody is named, or they are.          *)
Listed(s) ==
  \/ invited = {} /\ pushed = {}
  \/ s \in invited
  \/ \E c \in pushed : <<c, s>> \in enrolled

Init ==
  /\ owner \in Instructors /\ shares = [i \in Instructors |-> "none"]
  /\ invited = {} /\ pushed = {}
  /\ classes = Classes /\ enrolled \in SUBSET (Classes \X Students)
  /\ desk = [d \in Desks |-> Idle]
  /\ door = [s \in Students |-> [pc |-> "away", got |-> <<>>]]
  /\ seen = [s \in Students |-> [listed |-> FALSE, added |-> FALSE, removed |-> FALSE]]

(* The owner of the exam or an administrator passes; others by their share. *)
(* The requests about a class come from those who manage that class.        *)
Arrive(d) ==
  /\ At(d, "idle")
  /\ \E r \in Workload :
       Set(d, [pc |-> IF r.op \in ClassOps THEN r.op ELSE "owner", req |-> r])
  /\ UNCHANGED <<rights, guests>>

CheckOwner(d) ==
  /\ At(d, "owner")
  /\ LET r == desk[d].req IN
       Go(d, IF r.who \in {Admin, owner} THEN r.op ELSE "level")
  /\ UNCHANGED <<rights, guests>>

CheckLevel(d) ==
  /\ At(d, "level")
  /\ LET r == desk[d].req IN
       IF Rank[shares[r.who]] >= Rank[Required(r.op)] THEN Go(d, r.op) ELSE Finish(d)
  /\ UNCHANGED <<rights, guests>>

(* An action of the monitor is allowed; MonitoringService goes on from here. *)
Allow(d) == desk[d].pc \in DOMAIN ActionLevel /\ Finish(d) /\ UNCHANGED <<rights, guests>>

-----------------------------------------------------------------------------
(* Sharing. *)
Share(d) ==
  /\ At(d, "share")
  /\ IF desk[d].req.whom = owner THEN Finish(d) ELSE Go(d, "grant")
  /\ UNCHANGED <<rights, guests>>

GrantShare(d) ==
  /\ At(d, "grant")
  /\ shares' = [shares EXCEPT ![desk[d].req.whom] = desk[d].req.level]
  /\ Finish(d)
  /\ UNCHANGED <<owner, guests>>

UpdateShareLevel(d) ==
  /\ At(d, "relevel")
  /\ IF shares[desk[d].req.whom] = "none" THEN Finish(d) ELSE Go(d, "write level")
  /\ UNCHANGED <<rights, guests>>

WriteShareLevel(d) ==
  /\ At(d, "write level")
  /\ LET r == desk[d].req IN
       shares' = IF shares[r.whom] = "none" THEN shares ELSE [shares EXCEPT ![r.whom] = r.level]
  /\ Finish(d)
  /\ UNCHANGED <<owner, guests>>

Unshare(d) ==
  /\ At(d, "unshare")
  /\ shares' = [shares EXCEPT ![desk[d].req.whom] = "none"]
  /\ Finish(d)
  /\ UNCHANGED <<owner, guests>>

TransferOwnership(d) ==
  /\ At(d, "transfer")
  /\ IF desk[d].req.whom = owner THEN Finish(d)
     ELSE Set(d, [pc |-> "hand over", req |-> desk[d].req, from |-> owner])
  /\ UNCHANGED <<rights, guests>>

HandOver(d) ==
  /\ At(d, "hand over")
  /\ owner' = desk[d].req.whom
  /\ shares' = [shares EXCEPT ![desk[d].req.whom] = "none", ![desk[d].from] = "CO_OWNER"]
  /\ Finish(d)
  /\ UNCHANGED guests

-----------------------------------------------------------------------------
(* Assignments and classes: a row that exists already, or whose class is     *)
(* gone, makes the insert fail.                                              *)
AssignStudents(d) ==
  /\ At(d, "assign")
  /\ IF desk[d].req.whom \in invited THEN Finish(d) ELSE Go(d, "invite")
  /\ UNCHANGED <<rights, guests>>

InsertAssignment(d) ==
  /\ At(d, "invite")
  /\ invited' = invited \cup {desk[d].req.whom}
  /\ Finish(d)
  /\ UNCHANGED <<rights, pushed, classes, enrolled>>

UnassignStudent(d) ==
  /\ At(d, "unassign")
  /\ invited' = invited \ {desk[d].req.whom}
  /\ Finish(d)
  /\ UNCHANGED <<rights, pushed, classes, enrolled>>

AssignClasses(d) ==
  /\ At(d, "push")
  /\ IF desk[d].req.whom \in classes \ pushed THEN Go(d, "insert class") ELSE Finish(d)
  /\ UNCHANGED <<rights, guests>>

InsertClass(d) ==
  /\ At(d, "insert class")
  /\ pushed' = pushed \cup ({desk[d].req.whom} \cap classes)
  /\ Finish(d)
  /\ UNCHANGED <<rights, invited, classes, enrolled>>

UnassignClass(d) ==
  /\ At(d, "pull")
  /\ pushed' = pushed \ {desk[d].req.whom}
  /\ Finish(d)
  /\ UNCHANGED <<rights, invited, classes, enrolled>>

(* A class that is assigned is not deleted, as far as the first read knows;  *)
(* deleting one takes its assignments and enrolments along.                  *)
RemoveClass(d) ==
  /\ At(d, "drop")
  /\ IF desk[d].req.whom \in classes \ pushed THEN Go(d, "delete class") ELSE Finish(d)
  /\ UNCHANGED <<rights, guests>>

DeleteClass(d) ==
  /\ At(d, "delete class")
  /\ LET c == desk[d].req.whom IN
       /\ classes' = classes \ {c} /\ pushed' = pushed \ {c}
       /\ enrolled' = enrolled \ ({c} \X Students)
  /\ Finish(d)
  /\ UNCHANGED <<rights, invited>>

EnrollStudents(d) ==
  /\ At(d, "enroll")
  /\ IF desk[d].req.whom \in enrolled \/ desk[d].req.whom[1] \notin classes
     THEN Finish(d) ELSE Go(d, "insert enrolment")
  /\ UNCHANGED <<rights, guests>>

InsertEnrolment(d) ==
  /\ At(d, "insert enrolment")
  /\ enrolled' = enrolled \cup ({desk[d].req.whom} \cap (classes \X Students))
  /\ Finish(d)
  /\ UNCHANGED <<rights, invited, pushed, classes>>

UnenrollStudent(d) ==
  /\ At(d, "unenroll")
  /\ enrolled' = enrolled \ {desk[d].req.whom}
  /\ Finish(d)
  /\ UNCHANGED <<rights, invited, pushed, classes>>

-----------------------------------------------------------------------------
(* The check of a start: four counts, sent together and answered in any      *)
(* order.                                                                    *)
Counts == {"direct", "classes", "mine", "through class"}

AskToStart(s) ==
  /\ door[s].pc # "counting"
  /\ door' = [door EXCEPT ![s] = [pc |-> "counting", got |-> <<>>]]
  /\ UNCHANGED <<rights, guests, desk>>

NonZero(q, s) ==
  CASE q = "direct"        -> invited # {}
    [] q = "classes"       -> pushed # {}
    [] q = "mine"          -> s \in invited
    [] q = "through class" -> \E c \in pushed : <<c, s>> \in enrolled

Count(s, q) ==
  /\ door[s].pc = "counting" /\ q \notin DOMAIN door[s].got
  /\ door' = [door EXCEPT ![s].got =
                [k \in DOMAIN @ \cup {q} |-> IF k = q THEN NonZero(q, s) ELSE @[k]]]
  /\ UNCHANGED <<rights, guests, desk>>

(* Variant: the classes an exam was pushed to are not counted. *)
OpenWithoutInvitations(got) == ~got["direct"]

OpenToAll(got) == ~got["direct"] /\ ~got["classes"]

AssertStudentAuthorized(s) ==
  /\ door[s].pc = "counting" /\ DOMAIN door[s].got = Counts
  /\ LET got == door[s].got IN
       door' = [door EXCEPT ![s] =
         [pc |-> IF OpenToAll(got) \/ got["mine"] \/ got["through class"] THEN "admitted" ELSE "refused",
          got |-> <<>>]]
  /\ UNCHANGED <<rights, guests, desk>>

(* What a student's check overlaps with. *)
Watch ==
  seen' = [s \in Students |->
    IF door'[s].pc # "counting" THEN seen[s]
    ELSE LET old == IF door[s].pc = "counting" THEN seen[s]
                    ELSE [listed |-> FALSE, added |-> FALSE, removed |-> FALSE] IN
         [listed  |-> old.listed \/ Listed(s)',
          added   |-> old.added \/ ~(invited' \subseteq invited /\ pushed' \subseteq pushed),
          removed |-> old.removed \/ ~(invited \subseteq invited' /\ pushed \subseteq pushed')]]

Staff(d) ==
  \/ Arrive(d) \/ CheckOwner(d) \/ CheckLevel(d) \/ Allow(d)
  \/ Share(d) \/ GrantShare(d) \/ UpdateShareLevel(d) \/ WriteShareLevel(d) \/ Unshare(d)
  \/ TransferOwnership(d) \/ HandOver(d)
  \/ AssignStudents(d) \/ InsertAssignment(d) \/ UnassignStudent(d)
  \/ AssignClasses(d) \/ InsertClass(d) \/ UnassignClass(d) \/ RemoveClass(d) \/ DeleteClass(d)
  \/ EnrollStudents(d) \/ InsertEnrolment(d) \/ UnenrollStudent(d)

Student(s) == AskToStart(s) \/ (\E q \in Counts : Count(s, q)) \/ AssertStudentAuthorized(s)

Next ==
  /\ \/ (\E d \in Desks : Staff(d)) /\ UNCHANGED door
     \/ \E s \in Students : Student(s)
  /\ Watch

Spec == Init /\ [][Next]_vars

-----------------------------------------------------------------------------
(* A student let in by four counts of four moments was listed for the exam   *)
(* at one moment of the check, unless staff put one assignment in and took   *)
(* another away meanwhile (ExamSessionsService.assertStudentAuthorized       *)
(* against ExamsService.findAvailable).                                      *)
AdmittedOnlyIfListed ==
  \A s \in Students : door[s].pc = "admitted" =>
    seen[s].listed \/ (seen[s].added /\ seen[s].removed)
=============================================================================
