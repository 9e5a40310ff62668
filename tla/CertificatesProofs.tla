------------------------- MODULE CertificatesProofs -------------------------
(* What holds of the certificates of an exam for any number of handlers,     *)
(* results and templates, any batch size and any workload.                   *)
EXTENDS Certificates, FiniteSetTheorems, TLAPS

Wordings == Texts \cup {Plain}
Kinds    == {"AUTO", "BULK", "MANUAL"}
Frozen   == {NULL} \cup [template : Templates, version : Nat, text : Wordings]
Certs    == [id : Nat, how : Kinds, reason : BOOLEAN, copy : Frozen]

Issuing   == [pc : {"resolve", "insert"}, how : Kinds, on : SUBSET Results, copy : Frozen,
              reason : BOOLEAN, publish : BOOLEAN]
Repairing == [pc : {"repair"}, on : SUBSET Results]
Selecting == [pc : {"batch"}, visited : SUBSET Results]
Bulk      == [pc : {"resolveBatch", "insertBatch"}, on : SUBSET Results, found : SUBSET Results,
              copy : Frozen, visited : SUBSET Results]
Revoking  == [pc : {"delete"}, on : Results, id : Nat]
Replacing == [pc : {"replace"}, on : Results, id : Nat, how : Kinds, copy : Frozen,
              reason : BOOLEAN, publish : BOOLEAN]
Releasing == [pc : {"publish", "auto"}, on : Results]
Marking   == [pc : {"grade"}, on : Results, seen : BOOLEAN]
Updating  == [pc : {"update", "revise"}, on : Templates, text : Wordings, live : BOOLEAN, version : Nat]
Printing  == [pc : {"release"}, on : Templates, text : Wordings, version : Nat]
Choosing  == [pc : {"clear", "archive"}, on : Templates]
Promoting == [pc : {"promote"}, on : Templates, cleared : SUBSET Templates]
Jobs == {Idle} \cup Issuing \cup Repairing \cup Selecting \cup Bulk \cup Revoking \cup Replacing
          \cup Releasing \cup Marking \cup Updating \cup Printing \cup Choosing \cup Promoting

ResultsType == /\ filed \subseteq Results /\ earned \subseteq Results
               /\ published \subseteq Results /\ everEarned \subseteq Results
CertType == cert \in [Results -> {NULL} \cup Certs] /\ issued \in Nat
TemplatesType ==
  /\ tstatus \in [Templates -> {"NONE", "DRAFT", "PUBLISHED", "ARCHIVED"}]
  /\ isDefault \subseteq Templates /\ version \in [Templates -> Nat]
  /\ text \in [Templates -> Wordings]
  /\ revisions \subseteq [template : Templates, version : Nat, text : Wordings]
JobType == job \in [Serving -> Jobs]
TypeInv == ResultsType /\ CertType /\ TemplatesType /\ JobType

-----------------------------------------------------------------------------
\* Types

LEMMA InitType == Init => TypeInv
<1> SUFFICES ASSUME Init PROVE TypeInv
  OBVIOUS
<1>1. ResultsType /\ CertType
  BY DEF Init, ResultsType, CertType
<1>2. TemplatesType
  BY TemplatesAssumption DEF Init, TemplatesType, Wordings
<1>3. JobType
  BY DEF Init, JobType, Jobs
<1> QED
  BY <1>1, <1>2, <1>3 DEF TypeInv

(* What a handler remembers follows from where it is.                        *)
LEMMA JobForms ==
  ASSUME JobType, NEW h \in Serving
  PROVE  /\ At(h, "resolve") \/ At(h, "insert") => job[h] \in Issuing
         /\ At(h, "repair") => job[h] \in Repairing
         /\ At(h, "batch") => job[h] \in Selecting
         /\ At(h, "resolveBatch") \/ At(h, "insertBatch") => job[h] \in Bulk
         /\ At(h, "delete") => job[h] \in Revoking
         /\ At(h, "replace") => job[h] \in Replacing
         /\ At(h, "publish") \/ At(h, "auto") => job[h] \in Releasing
         /\ At(h, "grade") => job[h] \in Marking
         /\ At(h, "update") \/ At(h, "revise") => job[h] \in Updating
         /\ At(h, "release") => job[h] \in Printing
         /\ At(h, "clear") \/ At(h, "archive") => job[h] \in Choosing
         /\ At(h, "promote") => job[h] \in Promoting
BY DEF JobType, At, Jobs, Idle, Issuing, Repairing, Selecting, Bulk, Revoking, Replacing, Releasing,
       Marking, Updating, Printing, Choosing, Promoting

LEMMA SetGoes ==
  ASSUME JobType, NEW h \in Serving, NEW j \in Jobs, Set(h, j)
  PROVE  JobType' /\ job'[h] = j /\ \A k \in Serving \ {h} : job'[k] = job[k]
BY DEF JobType, Set

LEMMA FinishGoes ==
  ASSUME JobType, NEW h \in Serving, Finish(h)
  PROVE  JobType' /\ job'[h] = Idle /\ \A k \in Serving \ {h} : job'[k] = job[k]
BY DEF JobType, Finish, Set, Jobs

LEMMA ResolvedIsFrozen == TemplatesType => Resolved \subseteq Frozen
BY DEF TemplatesType, Resolved, Frozen

LEMMA Present ==
  ASSUME CertType, ResultsType
  PROVE  /\ \A r \in Certified : r \in Results /\ cert[r] \in Certs
         /\ \A r \in Uncertified : r \in Results /\ cert[r] = NULL
BY DEF CertType, ResultsType, Certified, Uncertified

LEMMA BatchIsPart ==
  ASSUME NEW left, NEW found \in Batches(left)
  PROVE  found \subseteq left
BY DEF Batches

LEMMA AfterBatchIsJob ==
  ASSUME NEW j, j.visited \subseteq Results, NEW found \in SUBSET Results
  PROVE  AfterBatch(j, found) \in Jobs
         /\ AfterBatch(j, found).pc \in {"idle", "batch"}
BY DEF AfterBatch, Jobs, Selecting, Idle

(* Whatever a handler does, its memory keeps the form its place asks for, and *)
(* nobody else's changes.                                                     *)
LEMMA IssuerMoves ==
  ASSUME TypeInv, NEW h \in Issuers, IssuerStep(h)
  PROVE  JobType' /\ \A k \in Serving \ {h} : job'[k] = job[k]
<1> h \in Serving
  BY DEF Serving
<1>1. CASE Issue(h)
  <2>1. PICK r \in Uncertified :
          Set(h, [pc |-> "resolve", how |-> "MANUAL", on |-> {r}, copy |-> NULL,
                  reason |-> r \notin earned, publish |-> r \notin published])
    BY <1>1 DEF Issue
  <2>2. [pc |-> "resolve", how |-> "MANUAL", on |-> {r}, copy |-> NULL,
         reason |-> r \notin earned, publish |-> r \notin published] \in Issuing
    BY Present DEF TypeInv, Issuing, Kinds, Frozen
  <2> QED
    BY <2>1, <2>2, SetGoes DEF Jobs, TypeInv
<1>2. CASE IssueAgain(h)
  <2>1. PICK r \in Certified : Set(h, [pc |-> "repair", on |-> {r}])
    BY <1>2 DEF IssueAgain
  <2>2. [pc |-> "repair", on |-> {r}] \in Repairing
    BY Present DEF TypeInv, Repairing
  <2> QED
    BY <2>1, <2>2, SetGoes DEF Jobs, TypeInv
<1>3. CASE Resolve(h)
  <2>1. PICK copy \in Resolved : Set(h, [job[h] EXCEPT !.pc = "insert", !.copy = copy])
    BY <1>3 DEF Resolve
  <2>2. job[h] \in Issuing /\ copy \in Frozen
    BY <1>3, JobForms, ResolvedIsFrozen DEF Resolve, TypeInv
  <2>3. [job[h] EXCEPT !.pc = "insert", !.copy = copy] \in Issuing
    BY <2>2 DEF Issuing
  <2> QED
    BY <2>1, <2>3, SetGoes DEF Jobs, TypeInv
<1>4. CASE GenerateForExam(h)
  <2>1. [pc |-> "batch", visited |-> {}] \in Selecting
    BY DEF Selecting
  <2> QED
    BY <1>4, <2>1, SetGoes DEF GenerateForExam, Jobs, TypeInv
<1>5. CASE SelectBatch(h)
  <2>1. PICK found \in Batches(Uncertified \ job[h].visited) :
          LET issueable == found \cap earned \cap published IN
            Set(h, IF issueable = {} THEN AfterBatch(job[h], found)
                ELSE [pc |-> "resolveBatch", on |-> issueable, found |-> found, copy |-> NULL,
                      visited |-> job[h].visited])
    BY <1>5 DEF SelectBatch
  <2> DEFINE some == found \cap earned \cap published
  <2>2. job[h] \in Selecting /\ found \subseteq Results /\ job[h].visited \subseteq Results
    BY <1>5, JobForms, Present, BatchIsPart DEF SelectBatch, Selecting, TypeInv
  <2>3. CASE some = {}
    BY <2>1, <2>2, <2>3, AfterBatchIsJob, SetGoes DEF TypeInv
  <2>4. CASE some # {}
    <3>1. [pc |-> "resolveBatch", on |-> some, found |-> found, copy |-> NULL,
           visited |-> job[h].visited] \in Bulk
      BY <2>2 DEF Bulk, Frozen
    <3> QED
      BY <2>1, <2>4, <3>1, SetGoes DEF Jobs, TypeInv
  <2> QED
    BY <2>3, <2>4
<1>6. CASE ResolveBatch(h)
  <2>1. PICK copy \in Resolved : Set(h, [job[h] EXCEPT !.pc = "insertBatch", !.copy = copy])
    BY <1>6 DEF ResolveBatch
  <2>2. job[h] \in Bulk /\ copy \in Frozen
    BY <1>6, JobForms, ResolvedIsFrozen DEF ResolveBatch, TypeInv
  <2>3. [job[h] EXCEPT !.pc = "insertBatch", !.copy = copy] \in Bulk
    BY <2>2 DEF Bulk
  <2> QED
    BY <2>1, <2>3, SetGoes DEF Jobs, TypeInv
<1>7. CASE InsertBatch(h)
  <2>1. job[h] \in Bulk
    BY <1>7, JobForms DEF InsertBatch, TypeInv
  <2>2. job[h].visited \subseteq Results /\ job[h].found \in SUBSET Results
    BY <2>1 DEF Bulk
  <2> QED
    BY <1>7, <2>2, AfterBatchIsJob, SetGoes DEF InsertBatch, TypeInv
<1>8. CASE Revoke(h)
  <2>1. PICK r \in Certified : Set(h, [pc |-> "delete", on |-> r, id |-> cert[r].id])
    BY <1>8 DEF Revoke
  <2>2. [pc |-> "delete", on |-> r, id |-> cert[r].id] \in Revoking
    BY Present DEF TypeInv, Revoking, Certs
  <2> QED
    BY <2>1, <2>2, SetGoes DEF Jobs, TypeInv
<1>9. CASE Reissue(h)
  <2>1. PICK r \in Certified :
          Set(h, [pc |-> "replace", on |-> r, id |-> cert[r].id, how |-> cert[r].how,
                  copy |-> cert[r].copy, reason |-> cert[r].reason \/ r \notin earned,
                  publish |-> r \notin published])
    BY <1>9 DEF Reissue
  <2>2. [pc |-> "replace", on |-> r, id |-> cert[r].id, how |-> cert[r].how,
         copy |-> cert[r].copy, reason |-> cert[r].reason \/ r \notin earned,
         publish |-> r \notin published] \in Replacing
    BY Present DEF TypeInv, Replacing, Certs
  <2> QED
    BY <2>1, <2>2, SetGoes DEF Jobs, TypeInv
<1>10. CASE PublishResult(h)
  <2>1. PICK r \in filed : Set(h, [pc |-> "publish", on |-> r])
    BY <1>10 DEF PublishResult
  <2>2. [pc |-> "publish", on |-> r] \in Releasing
    BY DEF TypeInv, ResultsType, Releasing
  <2> QED
    BY <2>1, <2>2, SetGoes DEF Jobs, TypeInv
<1>11. CASE WritePublished(h)
  <2>1. job[h] \in Releasing
    BY <1>11, JobForms DEF WritePublished, TypeInv
  <2>2. [pc |-> "auto", on |-> job[h].on] \in Releasing
    BY <2>1 DEF Releasing
  <2> QED
    BY <1>11, <2>2, SetGoes DEF WritePublished, Jobs, TypeInv
<1>12. CASE Grade(h)
  <2>1. PICK r \in filed : Set(h, [pc |-> "grade", on |-> r, seen |-> r \in published])
    BY <1>12 DEF Grade
  <2>2. [pc |-> "grade", on |-> r, seen |-> r \in published] \in Marking
    BY DEF TypeInv, ResultsType, Marking
  <2> QED
    BY <2>1, <2>2, SetGoes DEF Jobs, TypeInv
<1>13. CASE CommitGrade(h)
  <2>1. job[h] \in Marking
    BY <1>13, JobForms DEF CommitGrade, TypeInv
  <2>2. [pc |-> "auto", on |-> job[h].on] \in Releasing
    BY <2>1 DEF Marking, Releasing
  <2>3. Set(h, [pc |-> "auto", on |-> job[h].on]) \/ Set(h, Idle)
    BY <1>13 DEF CommitGrade
  <2> QED
    BY <2>2, <2>3, SetGoes DEF Jobs, TypeInv
<1>14. CASE IssueOnPublish(h)
  <2>1. job[h] \in Releasing
    BY <1>14, JobForms DEF IssueOnPublish, TypeInv
  <2>2. [pc |-> "resolve", how |-> "AUTO", on |-> {job[h].on}, copy |-> NULL,
         reason |-> FALSE, publish |-> FALSE] \in Issuing
    BY <2>1 DEF Releasing, Issuing, Kinds, Frozen
  <2>3. \/ Set(h, [pc |-> "resolve", how |-> "AUTO", on |-> {job[h].on}, copy |-> NULL,
                   reason |-> FALSE, publish |-> FALSE])
        \/ Set(h, Idle)
    BY <1>14 DEF IssueOnPublish
  <2> QED
    BY <2>2, <2>3, SetGoes DEF Jobs, TypeInv
<1>15. CASE Repair(h) \/ Insert(h) \/ Collide(h) \/ Delete(h) \/ Replace(h)
  BY <1>15, FinishGoes DEF Repair, Insert, Collide, Delete, Replace, TypeInv
<1> QED
  BY <1>1, <1>2, <1>3, <1>4, <1>5, <1>6, <1>7, <1>8, <1>9, <1>10, <1>11, <1>12, <1>13, <1>14, <1>15
     DEF IssuerStep, Generate

LEMMA AdminMoves ==
  ASSUME TypeInv, NEW h \in Admins, AdminStep(h)
  PROVE  /\ JobType'
         /\ \A k \in Serving \ {h} : job'[k] = job[k]
         /\ \/ job'[h] = job[h]
            \/ job'[h].pc \in {"idle", "update", "revise", "release", "clear", "promote", "archive"}
<1> h \in Serving
  BY DEF Serving
<1>1. CASE CreateTemplate(h)
  BY <1>1 DEF CreateTemplate, TypeInv, JobType
<1>2. CASE UpdateTemplate(h)
  <2>1. PICK t \in Templates, x \in Texts :
          Set(h, [pc |-> "update", on |-> t, text |-> x, live |-> tstatus[t] = "PUBLISHED",
                  version |-> version[t]])
    BY <1>2 DEF UpdateTemplate
  <2>2. [pc |-> "update", on |-> t, text |-> x, live |-> tstatus[t] = "PUBLISHED",
         version |-> version[t]] \in Updating
    BY DEF Updating, TypeInv, TemplatesType, Wordings
  <2> QED
    BY <2>1, <2>2, SetGoes DEF Jobs, TypeInv
<1>3. CASE WriteTemplate(h)
  <2>1. job[h] \in Updating
    BY <1>3, JobForms DEF WriteTemplate, TypeInv
  <2>2. [job[h] EXCEPT !.pc = "revise"] \in Updating /\ [job[h] EXCEPT !.pc = "revise"].pc = "revise"
    BY <2>1 DEF Updating
  <2>3. CASE job[h].live
    BY <1>3, <2>2, <2>3, SetGoes DEF WriteTemplate, Jobs, TypeInv
  <2>4. CASE ~job[h].live
    BY <1>3, <2>4, FinishGoes DEF WriteTemplate, TypeInv, Idle
  <2> QED
    BY <2>3, <2>4
<1>4. CASE PublishTemplate(h)
  <2>1. PICK t \in Templates : \E next \in {version[t], version[t] + 1} :
          Set(h, [pc |-> "release", on |-> t, text |-> text[t], version |-> next])
    BY <1>4 DEF PublishTemplate
  <2>2. \A next \in {version[t], version[t] + 1} : [pc |-> "release", on |-> t, text |-> text[t], version |-> next] \in Printing
    BY DEF Printing, TypeInv, TemplatesType
  <2> QED
    BY <2>1, <2>2, SetGoes DEF Jobs, TypeInv
<1>5. CASE SetDefaultTemplate(h)
  <2>1. PICK t \in Templates : Set(h, [pc |-> "clear", on |-> t])
    BY <1>5 DEF SetDefaultTemplate
  <2>2. [pc |-> "clear", on |-> t] \in Choosing
    BY DEF Choosing
  <2> QED
    BY <2>1, <2>2, SetGoes DEF Jobs, TypeInv
<1>6. CASE ClearDefault(h)
  <2>1. job[h] \in Choosing
    BY <1>6, JobForms DEF ClearDefault, TypeInv
  <2>2. [pc |-> "promote", on |-> job[h].on, cleared |-> isDefault \ {job[h].on}] \in Promoting
    BY <2>1 DEF Choosing, Promoting, TypeInv, TemplatesType
  <2> QED
    BY <1>6, <2>2, SetGoes DEF ClearDefault, Jobs, TypeInv
<1>7. CASE ArchiveTemplate(h)
  <2>1. PICK t \in Templates : Set(h, [pc |-> "archive", on |-> t])
    BY <1>7 DEF ArchiveTemplate
  <2>2. [pc |-> "archive", on |-> t] \in Choosing
    BY DEF Choosing
  <2> QED
    BY <2>1, <2>2, SetGoes DEF Jobs, TypeInv
<1>8. CASE WriteRevision(h) \/ CommitPublish(h) \/ Promote(h) \/ WriteArchived(h)
  BY <1>8, FinishGoes DEF WriteRevision, CommitPublish, Promote, WriteArchived, TypeInv, Idle
<1> QED
  BY <1>1, <1>2, <1>3, <1>4, <1>5, <1>6, <1>7, <1>8 DEF AdminStep

LEMMA NextMoves == TypeInv /\ [Next]_vars => JobType'
<1> SUFFICES ASSUME TypeInv, [Next]_vars PROVE JobType'
  OBVIOUS
<1>1. CASE UNCHANGED vars \/ FileResult
  BY <1>1 DEF vars, FileResult, TypeInv, JobType
<1>2. ASSUME NEW h \in Serving, Fail(h) PROVE JobType'
  BY <1>2, FinishGoes DEF Fail, TypeInv
<1>3. ASSUME NEW h \in Issuers, IssuerStep(h) PROVE JobType'
  BY <1>3, IssuerMoves
<1>4. ASSUME NEW h \in Admins, AdminStep(h) PROVE JobType'
  BY <1>4, AdminMoves
<1> QED
  BY <1>1, <1>2, <1>3, <1>4 DEF Next

LEMMA TemplatesStep == TypeInv /\ [Next]_vars => TemplatesType'
<1> SUFFICES ASSUME TypeInv, [Next]_vars PROVE TemplatesType'
  OBVIOUS
<1> USE DEF TypeInv, TemplatesType
<1>1. CASE UNCHANGED templates
  BY <1>1 DEF templates
<1>2. ASSUME NEW h \in Admins, AdminStep(h) PROVE TemplatesType'
  <2> h \in Serving
    BY DEF Serving
  <2>1. CASE CreateTemplate(h)
    BY <2>1 DEF CreateTemplate, Wordings
  <2>2. CASE WriteTemplate(h)
    <3>1. job[h] \in Updating
      BY <2>2, JobForms DEF WriteTemplate
    <3> QED
      BY <2>2, <3>1 DEF WriteTemplate, Updating
  <2>3. CASE WriteRevision(h)
    <3>1. job[h] \in Updating
      BY <2>3, JobForms DEF WriteRevision
    <3>2. Revision(job[h].on, job[h].version + 1, job[h].text) \in
            [template : Templates, version : Nat, text : Wordings]
      BY <3>1 DEF Updating, Revision
    <3> QED
      BY <2>3, <3>2 DEF WriteRevision
  <2>4. CASE CommitPublish(h)
    <3>1. job[h] \in Printing
      BY <2>4, JobForms DEF CommitPublish
    <3>2. Revision(job[h].on, job[h].version, job[h].text) \in
            [template : Templates, version : Nat, text : Wordings]
      BY <3>1 DEF Printing, Revision
    <3> QED
      BY <2>4, <3>1, <3>2 DEF CommitPublish, Printing
  <2>5. CASE Promote(h)
    <3>1. job[h] \in Promoting
      BY <2>5, JobForms DEF Promote
    <3> QED
      BY <2>5, <3>1 DEF Promote, Promoting
  <2>6. CASE WriteArchived(h)
    BY <2>6 DEF WriteArchived
  <2>7. CASE UpdateTemplate(h) \/ PublishTemplate(h) \/ SetDefaultTemplate(h) \/ ClearDefault(h)
             \/ ArchiveTemplate(h)
    BY <1>1, <2>7 DEF UpdateTemplate, PublishTemplate, SetDefaultTemplate, ClearDefault, ArchiveTemplate
  <2> QED
    BY <1>2, <2>1, <2>2, <2>3, <2>4, <2>5, <2>6, <2>7 DEF AdminStep
<1>3. ASSUME NEW h \in Issuers, IssuerStep(h) PROVE UNCHANGED templates
  BY <1>3 DEF IssuerStep, Generate, Issue, IssueAgain, Repair, Resolve, Insert, Collide, GenerateForExam,
              SelectBatch, ResolveBatch, InsertBatch, Revoke, Delete, Reissue, Replace, PublishResult,
              WritePublished, Grade, CommitGrade, IssueOnPublish, templates
<1>4. ASSUME NEW h \in Serving, Fail(h) PROVE UNCHANGED templates
  BY <1>4 DEF Fail
<1>5. UNCHANGED vars \/ FileResult => UNCHANGED templates
  BY DEF FileResult, vars, templates
<1> QED
  BY <1>1, <1>2, <1>3, <1>4, <1>5 DEF Next

(* Only issuers touch results and certificates.                              *)
LEMMA OthersKeep ==
  ASSUME [Next]_vars, ~FileResult, \A h \in Issuers : ~IssuerStep(h)
  PROVE  UNCHANGED <<results, cert, issued>>
<1>1. ASSUME NEW h \in Admins, AdminStep(h) PROVE UNCHANGED <<results, cert, issued>>
  BY <1>1 DEF AdminStep, CreateTemplate, UpdateTemplate, WriteTemplate, WriteRevision, PublishTemplate,
              CommitPublish, SetDefaultTemplate, ClearDefault, Promote, ArchiveTemplate, WriteArchived
<1> QED
  BY <1>1 DEF Next, vars, Fail

LEMMA ResultsStep == TypeInv /\ [Next]_vars => ResultsType'
<1> SUFFICES ASSUME TypeInv, [Next]_vars PROVE ResultsType'
  OBVIOUS
<1> USE DEF TypeInv, ResultsType
<1>1. CASE FileResult
  BY <1>1 DEF FileResult
<1>2. ASSUME NEW h \in Issuers, IssuerStep(h) PROVE ResultsType'
  <2> h \in Serving
    BY DEF Serving
  <2>1. CASE Repair(h)
    <3>1. job[h] \in Repairing
      BY <2>1, JobForms DEF Repair
    <3> QED
      BY <2>1, <3>1 DEF Repair, Repairing
  <2>2. CASE Insert(h)
    <3>1. job[h] \in Issuing
      BY <2>2, JobForms DEF Insert
    <3> QED
      BY <2>2, <3>1 DEF Insert, Issuing
  <2>3. CASE Replace(h)
    <3>1. job[h] \in Replacing
      BY <2>3, JobForms DEF Replace
    <3> QED
      BY <2>3, <3>1 DEF Replace, Replacing
  <2>4. CASE WritePublished(h)
    <3>1. job[h] \in Releasing
      BY <2>4, JobForms DEF WritePublished
    <3> QED
      BY <2>4, <3>1 DEF WritePublished, Releasing
  <2>5. CASE CommitGrade(h)
    <3>1. job[h] \in Marking
      BY <2>5, JobForms DEF CommitGrade
    <3> QED
      BY <2>5, <3>1 DEF CommitGrade, Marking
  <2>6. CASE ~(Repair(h) \/ Insert(h) \/ Replace(h) \/ WritePublished(h) \/ CommitGrade(h))
    BY <1>2, <2>6 DEF IssuerStep, Generate, Issue, IssueAgain, Resolve, Collide, GenerateForExam,
              SelectBatch, ResolveBatch, InsertBatch, Revoke, Delete, Reissue, PublishResult,
              Grade, IssueOnPublish, results
  <2> QED
    BY <2>1, <2>2, <2>3, <2>4, <2>5, <2>6
<1> QED
  BY <1>1, <1>2, OthersKeep DEF results

(* The four steps that change certificates, and what each puts there.        *)
LEMMA InsertGoes ==
  ASSUME TypeInv, NEW h \in Issuers, Insert(h)
  PROVE  /\ job[h] \in Issuing /\ issued' = issued + 1 /\ job[h].on \subseteq Uncertified
         /\ Made(job[h], issued + 1) \in Certs /\ Made(job[h], issued + 1).id = issued + 1
         /\ \A r \in Results : cert'[r] = IF r \in job[h].on THEN Made(job[h], issued + 1) ELSE cert[r]
         /\ cert' \in [Results -> {NULL} \cup Certs]
<1>1. job[h] \in Issuing
  BY JobForms DEF Insert, Serving, TypeInv
<1>2. Made(job[h], issued + 1) \in Certs /\ Made(job[h], issued + 1).id = issued + 1
  BY <1>1 DEF Made, Issuing, Certs, TypeInv, CertType
<1> QED
  BY <1>1, <1>2 DEF Insert, TypeInv, CertType

LEMMA ReplaceGoes ==
  ASSUME TypeInv, NEW h \in Issuers, Replace(h)
  PROVE  /\ job[h] \in Replacing /\ issued' = issued + 1 /\ Held(job[h].on, job[h].id)
         /\ Made(job[h], issued + 1) \in Certs /\ Made(job[h], issued + 1).id = issued + 1
         /\ \A r \in Results : cert'[r] = IF r = job[h].on THEN Made(job[h], issued + 1) ELSE cert[r]
         /\ cert' \in [Results -> {NULL} \cup Certs]
<1>1. job[h] \in Replacing
  BY JobForms DEF Replace, Serving, TypeInv
<1>2. Made(job[h], issued + 1) \in Certs /\ Made(job[h], issued + 1).id = issued + 1
  BY <1>1 DEF Made, Replacing, Certs, TypeInv, CertType
<1> QED
  BY <1>1, <1>2 DEF Replace, TypeInv, CertType, Replacing

LEMMA DeleteGoes ==
  ASSUME TypeInv, NEW h \in Issuers, Delete(h)
  PROVE  /\ issued' = issued
         /\ \A r \in Results : cert'[r] = NULL \/ cert'[r] = cert[r]
         /\ cert' \in [Results -> {NULL} \cup Certs]
BY DEF Delete, TypeInv, CertType

LEMMA InsertBatchGoes ==
  ASSUME TypeInv, NEW h \in Issuers, InsertBatch(h)
  PROVE  /\ job[h] \in Bulk /\ issued' \in Nat /\ issued <= issued'
         /\ \A r \in Results :
              \/ cert'[r] = cert[r]
              \/ /\ r \in job[h].on \cap Uncertified /\ cert'[r] \in Certs /\ ~cert'[r].reason
                 /\ cert'[r].id > issued /\ cert'[r].id <= issued'
         /\ cert' \in [Results -> {NULL} \cup Certs]
<1> DEFINE new == job[h].on \cap Uncertified
<1>1. job[h] \in Bulk
  BY JobForms DEF InsertBatch, Serving, TypeInv
<1>2. IsFiniteSet(new)
  <2>1. new \subseteq Results
    BY Present DEF TypeInv
  <2> QED
    BY <2>1, ResultsAssumption, FS_Subset
<1>3. issued' = issued + Cardinality(new) /\ Cardinality(new) \in Nat
  BY <1>2, FS_CardinalityType DEF InsertBatch
<1>4. PICK number \in [new -> issued + 1..issued'] :
        cert' = [r \in Results |->
                 IF r \in new
                 THEN [id |-> number[r], how |-> "BULK", reason |-> FALSE, copy |-> job[h].copy]
                 ELSE cert[r]]
  BY DEF InsertBatch
<1>5. issued \in Nat /\ issued' \in Nat /\ issued <= issued'
  BY <1>3 DEF TypeInv, CertType
<1>6. \A r \in new : /\ number[r] \in Nat /\ number[r] > issued /\ number[r] <= issued'
                     /\ [id |-> number[r], how |-> "BULK", reason |-> FALSE, copy |-> job[h].copy] \in Certs
  BY <1>1, <1>5 DEF Bulk, Certs, Kinds
<1>7. \A r \in Results :
              \/ cert'[r] = cert[r]
              \/ /\ r \in new /\ cert'[r] \in Certs /\ ~cert'[r].reason
                 /\ cert'[r].id > issued /\ cert'[r].id <= issued'
  BY <1>4, <1>6
<1>8. cert' \in [Results -> {NULL} \cup Certs]
  BY <1>4, <1>6 DEF TypeInv, CertType
<1> QED
  BY <1>1, <1>5, <1>7, <1>8

LEMMA CertKept ==
  ASSUME [Next]_vars, \A h \in Issuers : ~(Insert(h) \/ Replace(h) \/ Delete(h) \/ InsertBatch(h))
  PROVE  cert' = cert /\ issued' = issued
<1>1. ASSUME NEW h \in Issuers, IssuerStep(h) PROVE cert' = cert /\ issued' = issued
  BY <1>1 DEF IssuerStep, Generate, Issue, IssueAgain, Repair, Resolve, Collide, GenerateForExam,
              SelectBatch, ResolveBatch, Revoke, Reissue, PublishResult,
              WritePublished, Grade, CommitGrade, IssueOnPublish
<1>2. FileResult => cert' = cert /\ issued' = issued
  BY DEF FileResult
<1> QED
  BY <1>1, <1>2, OthersKeep

(* A certificate gets a number no one has had.                               *)
LEMMA CertStep ==
  ASSUME TypeInv, [Next]_vars
  PROVE  /\ CertType' /\ issued <= issued'
         /\ \A r \in Results : cert'[r] # cert[r] /\ cert'[r] # NULL =>
              cert'[r].id > issued /\ cert'[r].id <= issued'
<1> DEFINE Goal == /\ CertType' /\ issued <= issued'
                   /\ \A r \in Results : cert'[r] # cert[r] /\ cert'[r] # NULL =>
                        cert'[r].id > issued /\ cert'[r].id <= issued'
<1> USE DEF TypeInv, CertType
<1>1. ASSUME NEW h \in Issuers, Insert(h) PROVE Goal
  BY <1>1, InsertGoes
<1>2. ASSUME NEW h \in Issuers, Replace(h) PROVE Goal
  BY <1>2, ReplaceGoes
<1>3. ASSUME NEW h \in Issuers, Delete(h) PROVE Goal
  BY <1>3, DeleteGoes
<1>4. ASSUME NEW h \in Issuers, InsertBatch(h) PROVE Goal
  BY <1>4, InsertBatchGoes
<1>5. cert' = cert /\ issued' = issued => Goal
  OBVIOUS
<1> QED
  BY <1>1, <1>2, <1>3, <1>4, <1>5, CertKept

(* Every variable has its type (Certificate, Result, CertificateTemplate,    *)
(* TemplateRevision and what the handlers remember).                         *)
THEOREM TypeCorrect == Spec => []TypeInv
<1>1. TypeInv /\ [Next]_vars => TypeInv'
  BY NextMoves, TemplatesStep, ResultsStep, CertStep DEF TypeInv
<1> QED
  BY <1>1, InitType, PTL DEF Spec

-----------------------------------------------------------------------------
\* Certificates stand for something

(* What a handler is about to issue without a reason was earned when it      *)
(* looked, and a result that was earned stays one that was.                  *)
Backed(j) ==
  /\ j.pc \in {"resolve", "insert"} /\ ~j.reason => j.on \subseteq everEarned
  /\ j.pc \in {"resolveBatch", "insertBatch"} => j.on \subseteq everEarned
  /\ j.pc = "replace" /\ ~j.reason => j.on \in everEarned

EarnInv ==
  /\ earned \subseteq everEarned /\ EarnedOrJustified
  /\ \A h \in Serving : Backed(job[h])

LEMMA InitEarn == Init => EarnInv
BY DEF Init, EarnInv, EarnedOrJustified, Backed, Idle

LEMMA EverEarnedGrows ==
  ASSUME TypeInv, EarnInv, [Next]_vars
  PROVE  everEarned \subseteq everEarned' /\ earned' \subseteq everEarned'
<1>1. CASE FileResult
  BY <1>1 DEF FileResult, EarnInv
<1>2. ASSUME NEW h \in Issuers, IssuerStep(h)
      PROVE  everEarned \subseteq everEarned' /\ earned' \subseteq everEarned'
  <2>1. CASE CommitGrade(h)
    BY <2>1 DEF CommitGrade, EarnInv
  <2>2. CASE ~CommitGrade(h)
    BY <1>2, <2>2 DEF IssuerStep, Generate, Issue, IssueAgain, Repair, Resolve, Insert, Collide,
              GenerateForExam, SelectBatch, ResolveBatch, InsertBatch, Revoke, Delete, Reissue, Replace,
              PublishResult, WritePublished, Grade, IssueOnPublish, results, EarnInv
  <2> QED
    BY <2>1, <2>2
<1> QED
  BY <1>1, <1>2, OthersKeep DEF results, EarnInv

LEMMA CertsEarned ==
  ASSUME TypeInv, EarnInv, [Next]_vars
  PROVE  EarnedOrJustified'
<1>1. everEarned \subseteq everEarned'
  BY EverEarnedGrows
<1> USE DEF EarnInv, EarnedOrJustified
<1>2. ASSUME NEW h \in Issuers, Insert(h) PROVE EarnedOrJustified'
  <2>1. ~job[h].reason => job[h].on \subseteq everEarned
    BY <1>2 DEF Backed, Serving, Insert, At
  <2>2. Made(job[h], issued + 1).reason = job[h].reason
    BY DEF Made
  <2> QED
    BY <1>1, <1>2, <2>1, <2>2, InsertGoes
<1>3. ASSUME NEW h \in Issuers, Replace(h) PROVE EarnedOrJustified'
  <2>1. ~job[h].reason => job[h].on \in everEarned
    BY <1>3 DEF Backed, Serving, Replace, At
  <2>2. Made(job[h], issued + 1).reason = job[h].reason
    BY DEF Made
  <2> QED
    BY <1>1, <1>3, <2>1, <2>2, ReplaceGoes
<1>4. ASSUME NEW h \in Issuers, Delete(h) PROVE EarnedOrJustified'
  BY <1>1, <1>4, DeleteGoes
<1>5. ASSUME NEW h \in Issuers, InsertBatch(h) PROVE EarnedOrJustified'
  <2>1. job[h].on \subseteq everEarned
    BY <1>5 DEF Backed, Serving, InsertBatch, At
  <2> QED
    BY <1>1, <1>5, <2>1, InsertBatchGoes
<1> QED
  BY <1>1, <1>2, <1>3, <1>4, <1>5, CertKept

(* What an issuer takes on next is backed.                                   *)
LEMMA NextIsBacked ==
  ASSUME TypeInv, EarnInv, NEW h \in Issuers, IssuerStep(h)
  PROVE  Backed(job'[h])
<1> h \in Serving /\ JobType
  BY DEF Serving, TypeInv
<1> DEFINE B(j) == Backed(j)
<1>1. \A j : Set(h, j) /\ Backed(j) => Backed(job'[h])
  BY DEF Set, JobType
<1>2. \A j : j.pc \notin {"resolve", "insert", "resolveBatch", "insertBatch", "replace"} => Backed(j)
  BY DEF Backed
<1>3. Backed(job[h]) /\ earned \subseteq everEarned
  BY DEF EarnInv
<1>4. CASE Issue(h)
  <2>1. PICK r \in Uncertified :
          Set(h, [pc |-> "resolve", how |-> "MANUAL", on |-> {r}, copy |-> NULL,
                  reason |-> r \notin earned, publish |-> r \notin published])
    BY <1>4 DEF Issue
  <2>2. Backed([pc |-> "resolve", how |-> "MANUAL", on |-> {r}, copy |-> NULL,
                reason |-> r \notin earned, publish |-> r \notin published])
    BY <1>3 DEF Backed
  <2> QED
    BY <1>1, <2>1, <2>2
<1>5. CASE Resolve(h)
  <2>1. PICK copy \in Resolved : Set(h, [job[h] EXCEPT !.pc = "insert", !.copy = copy])
    BY <1>5 DEF Resolve
  <2>2. job[h] \in Issuing /\ job[h].pc = "resolve"
    BY <1>5, JobForms DEF Resolve, At
  <2>3. Backed([job[h] EXCEPT !.pc = "insert", !.copy = copy])
    BY <1>3, <2>2 DEF Backed, Issuing
  <2> QED
    BY <1>1, <2>1, <2>3
<1>6. CASE SelectBatch(h)
  <2>1. PICK found \in Batches(Uncertified \ job[h].visited) :
          LET issueable == found \cap earned \cap published IN
            Set(h, IF issueable = {} THEN AfterBatch(job[h], found)
                ELSE [pc |-> "resolveBatch", on |-> issueable, found |-> found, copy |-> NULL,
                      visited |-> job[h].visited])
    BY <1>6 DEF SelectBatch
  <2> DEFINE some == found \cap earned \cap published
  <2>2. AfterBatch(job[h], found).pc \in {"idle", "batch"}
    BY DEF AfterBatch, Idle
  <2>3. Backed([pc |-> "resolveBatch", on |-> some, found |-> found, copy |-> NULL,
                visited |-> job[h].visited])
    BY <1>3 DEF Backed
  <2>4. CASE some = {}
    BY <1>1, <1>2, <2>1, <2>2, <2>4
  <2>5. CASE some # {}
    BY <1>1, <2>1, <2>3, <2>5
  <2> QED
    BY <2>4, <2>5
<1>7. CASE ResolveBatch(h)
  <2>1. PICK copy \in Resolved : Set(h, [job[h] EXCEPT !.pc = "insertBatch", !.copy = copy])
    BY <1>7 DEF ResolveBatch
  <2>2. job[h] \in Bulk /\ job[h].pc = "resolveBatch"
    BY <1>7, JobForms DEF ResolveBatch, At
  <2>3. Backed([job[h] EXCEPT !.pc = "insertBatch", !.copy = copy])
    BY <1>3, <2>2 DEF Backed, Bulk
  <2> QED
    BY <1>1, <2>1, <2>3
<1>8. CASE Reissue(h)
  <2>1. PICK r \in Certified :
          Set(h, [pc |-> "replace", on |-> r, id |-> cert[r].id, how |-> cert[r].how,
                  copy |-> cert[r].copy, reason |-> cert[r].reason \/ r \notin earned,
                  publish |-> r \notin published])
    BY <1>8 DEF Reissue
  <2>2. Backed([pc |-> "replace", on |-> r, id |-> cert[r].id, how |-> cert[r].how,
                  copy |-> cert[r].copy, reason |-> cert[r].reason \/ r \notin earned,
                  publish |-> r \notin published])
    BY <1>3 DEF Backed
  <2> QED
    BY <1>1, <2>1, <2>2
<1>9. CASE IssueOnPublish(h)
  <2>1. \/ /\ job[h].on \in earned
           /\ Set(h, [pc |-> "resolve", how |-> "AUTO", on |-> {job[h].on}, copy |-> NULL,
                      reason |-> FALSE, publish |-> FALSE])
        \/ Set(h, Idle)
    BY <1>9 DEF IssueOnPublish
  <2>2. job[h].on \in earned =>
          Backed([pc |-> "resolve", how |-> "AUTO", on |-> {job[h].on}, copy |-> NULL,
                  reason |-> FALSE, publish |-> FALSE])
    BY <1>3 DEF Backed
  <2>3. Backed(Idle)
    BY DEF Backed, Idle
  <2> QED
    BY <1>1, <2>1, <2>2, <2>3
<1>10. CASE InsertBatch(h)
  <2>1. Set(h, AfterBatch(job[h], job[h].found))
    BY <1>10 DEF InsertBatch
  <2>2. AfterBatch(job[h], job[h].found).pc \in {"idle", "batch"}
    BY DEF AfterBatch, Idle
  <2> QED
    BY <1>1, <1>2, <2>1, <2>2
<1>11. CASE Repair(h) \/ Insert(h) \/ Collide(h) \/ Delete(h) \/ Replace(h)
  <2>1. job'[h].pc = "idle"
    BY <1>11, FinishGoes DEF Repair, Insert, Collide, Delete, Replace, Idle
  <2> QED
    BY <1>2, <2>1
<1>12. CASE IssueAgain(h) \/ GenerateForExam(h) \/ Revoke(h) \/ PublishResult(h) \/ WritePublished(h)
            \/ Grade(h) \/ CommitGrade(h)
  <2>1. job'[h].pc \in {"repair", "batch", "delete", "publish", "auto", "grade", "idle"}
    BY <1>12 DEF IssueAgain, GenerateForExam, Revoke, PublishResult, WritePublished, Grade, CommitGrade,
                 Set, Idle, JobType
  <2> QED
    BY <1>2, <2>1
<1> QED
  BY <1>4, <1>5, <1>6, <1>7, <1>8, <1>9, <1>10, <1>11, <1>12 DEF IssuerStep, Generate

LEMMA JobsBacked ==
  ASSUME TypeInv, EarnInv, [Next]_vars
  PROVE  \A h \in Serving : Backed(job[h])'
<1>1. \A k \in Serving : Backed(job'[k]) => Backed(job[k])'
  BY EverEarnedGrows DEF Backed
<1>2. \A k \in Serving : Backed(job[k])
  BY DEF EarnInv
<1>3. ASSUME NEW h \in Issuers, IssuerStep(h) PROVE \A k \in Serving : Backed(job'[k])
  <2>1. \A k \in Serving \ {h} : job'[k] = job[k]
    BY <1>3, IssuerMoves
  <2> QED
    BY <1>2, <1>3, <2>1, NextIsBacked
<1>4. ASSUME NEW h \in Admins, AdminStep(h) PROVE \A k \in Serving : Backed(job'[k])
  <2>1. \A k \in Serving \ {h} : job'[k] = job[k]
    BY <1>4, AdminMoves
  <2>2. CASE job'[h] = job[h]
    BY <1>2, <2>1, <2>2
  <2>3. CASE job'[h].pc \in {"idle", "update", "revise", "release", "clear", "promote", "archive"}
    <3>1. Backed(job'[h])
      BY <2>3 DEF Backed
    <3> QED
      BY <1>2, <2>1, <3>1
  <2> QED
    BY <1>4, <2>2, <2>3, AdminMoves
<1>5. ASSUME NEW h \in Serving, Fail(h) PROVE \A k \in Serving : Backed(job'[k])
  <2>1. job'[h] = Idle /\ \A k \in Serving \ {h} : job'[k] = job[k]
    BY <1>5, FinishGoes DEF Fail, TypeInv
  <2>2. Backed(job'[h])
    BY <2>1 DEF Backed, Idle
  <2> QED
    BY <1>2, <2>1, <2>2
<1>6. UNCHANGED vars \/ FileResult => \A k \in Serving : Backed(job'[k])
  BY <1>2 DEF vars, FileResult
<1> QED
  BY <1>1, <1>3, <1>4, <1>5, <1>6 DEF Next

(* A certificate without a written reason stands for a result that was       *)
(* earned (issue, reissue, generateForExam, issueOnPublish).                 *)
THEOREM CertificatesAreEarned == Spec => []EarnedOrJustified
<1>1. TypeInv /\ EarnInv /\ [Next]_vars => EarnInv'
  BY EverEarnedGrows, CertsEarned, JobsBacked DEF EarnInv
<1>2. EarnInv => EarnedOrJustified
  BY DEF EarnInv
<1> QED
  BY <1>1, <1>2, InitEarn, TypeCorrect, PTL DEF Spec

-----------------------------------------------------------------------------
\* Certificates are replaced by their own reissue

(* A reissue knows the certificate it read by its number: while that one is  *)
(* there, what it remembers of it is true.                                   *)
Remembered(j) ==
  j.pc = "replace" =>
    /\ j.id <= issued
    /\ Held(j.on, j.id) => /\ cert[j.on].copy = j.copy /\ cert[j.on].how = j.how
                           /\ cert[j.on].reason => j.reason

NumberInv ==
  /\ \A r \in Results : cert[r] # NULL => cert[r].id <= issued
  /\ \A h \in Serving : Remembered(job[h])

LEMMA InitNumber == Init => NumberInv
BY DEF Init, NumberInv, Remembered, Idle

LEMMA NextIsRemembered ==
  ASSUME TypeInv, NumberInv, NEW h \in Issuers, IssuerStep(h)
  PROVE  job'[h].pc # "replace" \/ Remembered(job'[h])
<1> h \in Serving /\ JobType
  BY DEF Serving, TypeInv
<1>1. CASE Reissue(h)
  <2>1. PICK r \in Certified :
          Set(h, [pc |-> "replace", on |-> r, id |-> cert[r].id, how |-> cert[r].how,
                  copy |-> cert[r].copy, reason |-> cert[r].reason \/ r \notin earned,
                  publish |-> r \notin published])
    BY <1>1 DEF Reissue
  <2>2. r \in Results /\ cert[r] \in Certs /\ cert[r].id <= issued
    BY <2>1, Present DEF TypeInv, NumberInv, Certified, Uncertified, ResultsType
  <2> QED
    BY <2>1, <2>2 DEF Remembered, Set, JobType
<1>2. CASE Resolve(h)
  <2>1. job[h] \in Issuing
    BY <1>2, JobForms DEF Resolve
  <2> QED
    BY <1>2, <2>1 DEF Resolve, Set, JobType, Issuing
<1>3. CASE ResolveBatch(h)
  <2>1. job[h] \in Bulk
    BY <1>3, JobForms DEF ResolveBatch
  <2> QED
    BY <1>3, <2>1 DEF ResolveBatch, Set, JobType, Bulk
<1>4. CASE SelectBatch(h) \/ InsertBatch(h)
  BY <1>4 DEF SelectBatch, InsertBatch, Set, JobType, AfterBatch, Idle
<1>5. CASE ~(Reissue(h) \/ Resolve(h) \/ ResolveBatch(h) \/ SelectBatch(h) \/ InsertBatch(h))
  BY <1>5 DEF IssuerStep, Generate, Issue, IssueAgain, Repair, Insert, Collide, GenerateForExam,
              Revoke, Delete, Replace, PublishResult, WritePublished, Grade, CommitGrade,
              IssueOnPublish, Set, Finish, JobType, Idle
<1> QED
  BY <1>1, <1>2, <1>3, <1>4, <1>5

(* What was remembered stays true, for a new certificate has a new number.   *)
LEMMA StaysRemembered ==
  ASSUME TypeInv, NumberInv, [Next]_vars, NEW j \in Jobs, Remembered(j)
  PROVE  Remembered(j)'
<1> SUFFICES ASSUME j.pc = "replace" PROVE Remembered(j)'
  BY DEF Remembered
<1>1. j \in Replacing
  BY DEF Jobs, Idle, Issuing, Repairing, Selecting, Bulk, Revoking, Replacing, Releasing,
         Marking, Updating, Printing, Choosing, Promoting
<1>2. j.on \in Results /\ j.id \in Nat /\ j.id <= issued
  BY <1>1 DEF Replacing, Remembered
<1>3. issued \in Nat /\ issued' \in Nat /\ issued <= issued'
  BY CertStep DEF TypeInv, CertType
<1>4. CASE cert'[j.on] = cert[j.on]
  BY <1>2, <1>3, <1>4 DEF Remembered, Held
<1>5. CASE cert'[j.on] # cert[j.on]
  <2>1. cert'[j.on] # NULL => cert'[j.on].id > issued /\ cert'[j.on] \in Certs
    BY <1>2, <1>5, CertStep DEF CertType
  <2>2. ~Held(j.on, j.id)'
    BY <1>2, <1>3, <2>1 DEF Held, Certs
  <2> QED
    BY <1>2, <1>3, <2>2 DEF Remembered
<1> QED
  BY <1>4, <1>5

LEMMA NumberStep == TypeInv /\ NumberInv /\ [Next]_vars => NumberInv'
<1> SUFFICES ASSUME TypeInv, NumberInv, [Next]_vars PROVE NumberInv'
  OBVIOUS
<1>1. \A r \in Results : cert'[r] # NULL => cert'[r].id <= issued'
  <2> SUFFICES ASSUME NEW r \in Results, cert'[r] # NULL PROVE cert'[r].id <= issued'
    OBVIOUS
  <2>1. cert[r] # NULL => cert[r].id <= issued /\ cert[r] \in Certs
    BY DEF NumberInv, TypeInv, CertType
  <2> QED
    BY <2>1, CertStep DEF TypeInv, CertType, Certs
<1>2. \A h \in Serving : job[h] \in Jobs /\ job'[h] \in Jobs
  BY NextMoves DEF TypeInv, JobType
<1>3. \A h \in Serving : job'[h] = job[h] => Remembered(job[h])'
  BY <1>2, StaysRemembered DEF NumberInv
<1>4. \A h \in Serving : job'[h].pc # "replace" => Remembered(job[h])'
  BY DEF Remembered
<1>5. ASSUME NEW h \in Issuers, IssuerStep(h) PROVE \A k \in Serving : Remembered(job[k])'
  <2>1. \A k \in Serving \ {h} : job'[k] = job[k]
    BY <1>5, IssuerMoves
  <2>2. h \in Serving
    BY DEF Serving
  <2>3. CASE Remembered(job'[h])
    <3>1. Remembered(job[h])'
      BY <1>2, <2>2, <2>3, StaysRemembered
    <3> QED
      BY <1>3, <2>1, <3>1
  <2> QED
    BY <1>3, <1>4, <1>5, <2>1, <2>2, <2>3, NextIsRemembered
<1>6. ASSUME NEW h \in Admins, AdminStep(h) PROVE \A k \in Serving : Remembered(job[k])'
  BY <1>3, <1>4, <1>6, AdminMoves
<1>7. ASSUME NEW h \in Serving, Fail(h) PROVE \A k \in Serving : Remembered(job[k])'
  BY <1>3, <1>4, <1>7, FinishGoes DEF Fail, TypeInv, Idle
<1>8. UNCHANGED vars \/ FileResult => \A k \in Serving : Remembered(job[k])'
  BY <1>3 DEF vars, FileResult
<1> QED
  BY <1>1, <1>5, <1>6, <1>7, <1>8 DEF Next, NumberInv

(* What a step may do to a certificate that is there.                        *)
Reissued(r) ==
  cert[r] # NULL /\ cert'[r] # NULL /\ cert'[r] # cert[r] =>
    /\ cert'[r].copy = cert[r].copy /\ cert'[r].how = cert[r].how
    /\ cert[r].reason => cert'[r].reason
    /\ \E h \in Issuers : job[h].pc = "replace" /\ job[h].id = cert[r].id

LEMMA StepReissues ==
  ASSUME TypeInv, NumberInv, [Next]_vars, NEW r \in Results
  PROVE  Reissued(r)
<1>1. ASSUME NEW h \in Issuers, Insert(h) PROVE Reissued(r)
  BY <1>1, InsertGoes, Present DEF Reissued, TypeInv
<1>2. ASSUME NEW h \in Issuers, InsertBatch(h) PROVE Reissued(r)
  BY <1>2, InsertBatchGoes, Present DEF Reissued, TypeInv
<1>3. ASSUME NEW h \in Issuers, Delete(h) PROVE Reissued(r)
  BY <1>3, DeleteGoes DEF Reissued
<1>4. ASSUME NEW h \in Issuers, Replace(h) PROVE Reissued(r)
  <2>1. CASE r # job[h].on
    BY <1>4, <2>1, ReplaceGoes DEF Reissued
  <2>2. CASE r = job[h].on
    <3>1. cert'[r] = Made(job[h], issued + 1) /\ Held(r, job[h].id) /\ job[h].pc = "replace"
      BY <1>4, <2>2, ReplaceGoes DEF Replace, At
    <3>2. cert[r].copy = job[h].copy /\ cert[r].how = job[h].how /\ (cert[r].reason => job[h].reason)
      BY <2>2, <3>1 DEF NumberInv, Remembered, Serving
    <3>3. cert[r].id = job[h].id
      BY <3>1 DEF Held
    <3> QED
      BY <3>1, <3>2, <3>3 DEF Reissued, Made
  <2> QED
    BY <2>1, <2>2
<1>5. cert' = cert => Reissued(r)
  BY DEF Reissued
<1> QED
  BY <1>1, <1>2, <1>3, <1>4, <1>5, CertKept

(* A certificate is only ever replaced by its own reissue, with the wording  *)
(* and provenance it had (reissue deletes by id inside its transaction).     *)
THEOREM ReplacedOnlyByReissue == Spec => ReplacedByReissue
<1>1. TypeInv /\ NumberInv /\ [Next]_vars => [\A r \in Results : Reissued(r)]_cert
  BY StepReissues
<1>2. Spec => []NumberInv
  BY InitNumber, NumberStep, TypeCorrect, PTL DEF Spec
<1>3. [\A r \in Results : Reissued(r)]_cert =>
        [\A r \in Results : cert[r] # NULL /\ cert'[r] # NULL /\ cert'[r] # cert[r] =>
           /\ cert'[r].copy = cert[r].copy /\ cert'[r].how = cert[r].how
           /\ cert[r].reason => cert'[r].reason
           /\ \E h \in Issuers : job[h].pc = "replace" /\ job[h].id = cert[r].id]_cert
  BY DEF Reissued
<1> QED
  BY <1>1, <1>2, <1>3, TypeCorrect, PTL DEF Spec, ReplacedByReissue

-----------------------------------------------------------------------------
\* A version means one wording, for as long as templates are edited one request
\* at a time

(* A version is written down once, by the edit or the publication that made  *)
(* it; until then it is the wording the template has now, and nobody else    *)
(* can change that wording without making the next version.                  *)
OneEditor == \A a, b \in Admins : a = b

Fits(t, v, x) ==
  /\ tstatus[t] \in {"PUBLISHED", "ARCHIVED"}
  /\ v <= version[t]
  /\ tstatus[t] = "PUBLISHED" /\ v = version[t] => x = text[t]

RevisionsFit == \A w \in revisions : Fits(w.template, w.version, w.text)

Sound(c) ==
  c # NULL =>
    /\ Fits(c.template, c.version, c.text)
    /\ \A w \in revisions : w.template = c.template /\ w.version = c.version => w.text = c.text

\* What an editor has read is still so.
Current(j) ==
  /\ j.pc = "update" => (j.live <=> tstatus[j.on] = "PUBLISHED") /\ j.version = version[j.on]
  /\ j.pc = "revise" =>
       tstatus[j.on] = "PUBLISHED" /\ j.version + 1 = version[j.on] /\ j.text = text[j.on]
  /\ j.pc = "release" =>
       /\ j.text = text[j.on]
       /\ \/ tstatus[j.on] = "PUBLISHED" /\ j.version = version[j.on] + 1
          \/ tstatus[j.on] = "DRAFT" /\ j.version = version[j.on]

Carries(j) == j.pc \in {"insert", "insertBatch", "replace"} => Sound(j.copy)

TextInv ==
  /\ RevisionsFit
  /\ \A r \in Results : cert[r] # NULL => Sound(cert[r].copy)
  /\ \A h \in Serving : Carries(job[h])
  /\ \A a \in Admins : Current(job[a])

LEMMA InitText == Init => TextInv
<1> SUFFICES ASSUME Init PROVE TextInv
  OBVIOUS
<1>1. \A h \in Serving : job[h].pc = "idle"
  BY DEF Init, Idle
<1>2. \A h \in Serving : Carries(job[h]) /\ Current(job[h])
  BY <1>1 DEF Carries, Current
<1>3. RevisionsFit
  BY TemplatesAssumption DEF Init, RevisionsFit, Fits
<1> QED BY <1>2, <1>3 DEF Init, TextInv, Serving

\* Leaving the templates alone leaves all of it as it was.
LEMMA SoundStays ==
  ASSUME UNCHANGED templates
  PROVE  /\ \A c : Sound(c) <=> Sound(c)'
         /\ RevisionsFit <=> RevisionsFit'
         /\ \A j : Current(j) <=> Current(j)'
         /\ \A j : Carries(j) <=> Carries(j)'
BY DEF templates, Sound, Fits, RevisionsFit, Current, Carries

\* One template changes, and a revision is at most one more.
LEMMA WriteTemplateText ==
  ASSUME TypeInv, TextInv, NEW h \in Admins, WriteTemplate(h)
  PROVE  /\ RevisionsFit' /\ \A c \in Frozen : Sound(c) => Sound(c)'
         /\ Current(job[h])'
<1>1. h \in Serving /\ At(h, "update")
  BY DEF Serving, WriteTemplate
<1>2. job[h] \in Updating
  BY <1>1, JobForms DEF TypeInv
<1>3. (job[h].live <=> tstatus[job[h].on] = "PUBLISHED") /\ job[h].version = version[job[h].on]
  BY <1>1 DEF TextInv, Current, At
<1>4. text' = [text EXCEPT ![job[h].on] = job[h].text] /\ UNCHANGED <<tstatus, revisions>>
  BY DEF WriteTemplate
<1>5. CASE job[h].live
  <2>1. version' = [version EXCEPT ![job[h].on] = @ + 1] /\ Set(h, [job[h] EXCEPT !.pc = "revise"])
    BY <1>5 DEF WriteTemplate
  <2>2. \A t \in Templates, v \in Nat, x \in Wordings : Fits(t, v, x) => Fits(t, v, x)'
    BY <1>2, <1>4, <2>1 DEF Fits, TypeInv, TemplatesType, Updating
  <2>3. Current(job[h])'
    BY <1>1, <1>2, <1>3, <1>4, <1>5, <2>1
      DEF Current, Set, TypeInv, JobType, TemplatesType, Updating
  <2> QED BY <1>4, <2>2, <2>3 DEF TextInv, RevisionsFit, Sound, Frozen, TypeInv, TemplatesType
<1>6. CASE ~job[h].live
  <2>1. version' = version /\ Finish(h)
    BY <1>6 DEF WriteTemplate
  <2>2. \A t \in Templates, v \in Nat, x \in Wordings : Fits(t, v, x) => Fits(t, v, x)'
    BY <1>2, <1>3, <1>4, <1>6, <2>1 DEF Fits, TypeInv, TemplatesType, Updating
  <2>3. Current(job[h])'
    BY <1>1, <2>1, FinishGoes DEF Current, Idle, TypeInv
  <2> QED BY <1>4, <2>2, <2>3 DEF TextInv, RevisionsFit, Sound, Frozen, TypeInv, TemplatesType
<1> QED BY <1>5, <1>6

LEMMA WriteRevisionText ==
  ASSUME TypeInv, TextInv, NEW h \in Admins, WriteRevision(h)
  PROVE  /\ RevisionsFit' /\ \A c \in Frozen : Sound(c) => Sound(c)'
         /\ Current(job[h])'
<1>1. h \in Serving /\ At(h, "revise")
  BY DEF Serving, WriteRevision
<1> DEFINE j == job[h]
           w == Revision(j.on, j.version + 1, j.text)
<1>2. j \in Updating
  BY <1>1, JobForms DEF TypeInv
<1>3. tstatus[j.on] = "PUBLISHED" /\ j.version + 1 = version[j.on] /\ j.text = text[j.on]
  BY <1>1 DEF TextInv, Current, At
<1>4. UNCHANGED <<tstatus, version, text>> /\ revisions' \in {revisions, revisions \cup {w}}
  BY DEF WriteRevision
<1>5. w.template = j.on /\ w.version = version[j.on] /\ w.text = text[j.on]
  BY <1>3 DEF Revision
<1>6. \A t, v, x : Fits(t, v, x) <=> Fits(t, v, x)'
  BY <1>4 DEF Fits
<1>7. Fits(w.template, w.version, w.text)
  BY <1>2, <1>3, <1>5 DEF Fits, Updating, TypeInv, TemplatesType
<1>8. RevisionsFit'
  BY <1>4, <1>6, <1>7 DEF TextInv, RevisionsFit
<1>9. ASSUME NEW c \in Frozen, Sound(c), c # NULL,
             w.template = c.template, w.version = c.version
      PROVE  w.text = c.text
  BY <1>3, <1>5, <1>9 DEF Sound, Fits
<1>10. \A c \in Frozen : Sound(c) => Sound(c)'
  BY <1>4, <1>6, <1>9 DEF Sound
<1>11. Current(job[h])'
  BY <1>1, FinishGoes DEF WriteRevision, Current, Idle, TypeInv
<1> QED BY <1>8, <1>10, <1>11

LEMMA CommitPublishText ==
  ASSUME TypeInv, TextInv, NEW h \in Admins, CommitPublish(h)
  PROVE  /\ RevisionsFit' /\ \A c \in Frozen : Sound(c) => Sound(c)'
         /\ Current(job[h])'
<1>1. h \in Serving /\ At(h, "release")
  BY DEF Serving, CommitPublish
<1> PICK j : j = job[h]
  OBVIOUS
<1> DEFINE w == Revision(j.on, j.version, j.text)
<1>2. j \in Printing
  BY <1>1, JobForms DEF TypeInv
<1>3. /\ j.text = text[j.on]
      /\ \/ tstatus[j.on] = "PUBLISHED" /\ j.version = version[j.on] + 1
         \/ tstatus[j.on] = "DRAFT" /\ j.version = version[j.on]
  BY <1>1 DEF TextInv, Current, At
<1>4. Current(job[h])'
  BY <1>1, FinishGoes DEF CommitPublish, Current, Idle, TypeInv
<1>5. CASE ~Unrevised(j.on, j.version)
  <2>1. UNCHANGED templates
    BY <1>5 DEF CommitPublish, templates
  <2> QED BY <1>4, <2>1, SoundStays DEF TextInv
<1>6. CASE Unrevised(j.on, j.version)
  <2>1. /\ revisions' = revisions \cup {w} /\ text' = text
        /\ tstatus' = [tstatus EXCEPT ![j.on] = "PUBLISHED"]
        /\ version' = [version EXCEPT ![j.on] = j.version]
    BY <1>6 DEF CommitPublish
  <2>2. w.template = j.on /\ w.version = j.version /\ w.text = text[j.on]
    BY <1>3 DEF Revision
  <2>3. \A t \in Templates, v \in Nat, x \in Wordings :
          Fits(t, v, x) => Fits(t, v, x)' /\ (t = j.on => v < j.version)
    BY <1>2, <1>3, <2>1 DEF Fits, TypeInv, TemplatesType, Printing
  <2>4. Fits(w.template, w.version, w.text)'
    BY <1>2, <2>1, <2>2 DEF Fits, TypeInv, TemplatesType, Printing
  <2>5. RevisionsFit'
    BY <2>1, <2>3, <2>4 DEF TextInv, RevisionsFit, TypeInv, TemplatesType
  <2>6. ASSUME NEW c \in Frozen, Sound(c), c # NULL
        PROVE  ~(w.template = c.template /\ w.version = c.version)
               /\ Fits(c.template, c.version, c.text)'
    BY <1>2, <2>2, <2>3, <2>6 DEF Sound, Frozen, Printing
  <2>7. \A c \in Frozen : Sound(c) => Sound(c)'
    BY <2>1, <2>6 DEF Sound
  <2> QED BY <1>4, <2>5, <2>7
<1> QED BY <1>5, <1>6

\* A template that nobody has used is created; one is taken out of use.
LEMMA OtherTemplateText ==
  ASSUME TypeInv, TextInv, NEW h \in Admins, CreateTemplate(h) \/ WriteArchived(h)
  PROVE  /\ RevisionsFit' /\ \A c \in Frozen : Sound(c) => Sound(c)'
         /\ Current(job[h])'
<1>1. h \in Serving
  BY DEF Serving
<1>2. UNCHANGED <<version, revisions>>
  BY DEF CreateTemplate, WriteArchived
<1>3. \A t \in Templates, v \in Nat, x \in Wordings : Fits(t, v, x) => Fits(t, v, x)'
  <2>1. CASE CreateTemplate(h)
    BY <2>1 DEF CreateTemplate, Fits, TypeInv, TemplatesType
  <2>2. CASE WriteArchived(h)
    BY <2>2 DEF WriteArchived, Fits, TypeInv, TemplatesType
  <2> QED BY <2>1, <2>2
<1>4. Current(job[h])'
  BY <1>1, FinishGoes DEF CreateTemplate, WriteArchived, Current, Idle, At, TypeInv
<1> QED BY <1>2, <1>3, <1>4 DEF TextInv, RevisionsFit, Sound, Frozen, TypeInv, TemplatesType

LEMMA EditorStep ==
  ASSUME TypeInv, TextInv, NEW h \in Admins, AdminStep(h)
  PROVE  /\ RevisionsFit' /\ \A c \in Frozen : Sound(c) => Sound(c)'
         /\ Current(job[h])'
<1>1. h \in Serving
  BY DEF Serving
<1>2. CASE UpdateTemplate(h)
  <2>1. UNCHANGED templates
    BY <1>2 DEF UpdateTemplate
  <2>2. PICK t \in Templates, x \in Texts :
          Set(h, [pc |-> "update", on |-> t, text |-> x, live |-> tstatus[t] = "PUBLISHED",
                  version |-> version[t]])
    BY <1>2 DEF UpdateTemplate
  <2>3. Current([pc |-> "update", on |-> t, text |-> x, live |-> tstatus[t] = "PUBLISHED",
                 version |-> version[t]])
    BY DEF Current
  <2>4. Current(job'[h])
    BY <1>1, <2>2, <2>3 DEF Set, TypeInv, JobType
  <2> QED BY <2>1, <2>4, SoundStays DEF TextInv
<1>3. CASE PublishTemplate(h)
  <2>1. UNCHANGED templates
    BY <1>3 DEF PublishTemplate
  <2>2. PICK t \in Templates :
          /\ tstatus[t] \in {"DRAFT", "PUBLISHED"}
          /\ Set(h, [pc |-> "release", on |-> t, text |-> text[t],
                     version |-> IF tstatus[t] = "PUBLISHED" THEN version[t] + 1 ELSE version[t]])
    BY <1>3 DEF PublishTemplate
  <2>3. Current([pc |-> "release", on |-> t, text |-> text[t],
                 version |-> IF tstatus[t] = "PUBLISHED" THEN version[t] + 1 ELSE version[t]])
    BY <2>2 DEF Current
  <2>4. Current(job'[h])
    BY <1>1, <2>2, <2>3 DEF Set, TypeInv, JobType
  <2> QED BY <2>1, <2>4, SoundStays DEF TextInv
<1>4. CASE SetDefaultTemplate(h) \/ ClearDefault(h) \/ Promote(h) \/ ArchiveTemplate(h)
  <2>1. UNCHANGED <<tstatus, version, text, revisions>>
    BY <1>4 DEF SetDefaultTemplate, ClearDefault, Promote, ArchiveTemplate, templates
  <2>2. job'[h].pc \in {"clear", "promote", "idle", "archive"}
    BY <1>1, <1>4 DEF SetDefaultTemplate, ClearDefault, Promote, ArchiveTemplate, Set, Finish, Idle,
      TypeInv, JobType
  <2> QED BY <2>1, <2>2 DEF TextInv, RevisionsFit, Sound, Fits, Current
<1> QED BY <1>2, <1>3, <1>4, WriteTemplateText, WriteRevisionText, CommitPublishText, OtherTemplateText
      DEF AdminStep

\* What an issuer takes from a template in use is sound.
LEMMA ResolvedIsSound == TypeInv /\ TextInv => \A c \in Resolved : Sound(c)
<1> SUFFICES ASSUME TypeInv, TextInv, NEW c \in Resolved, c # NULL PROVE Sound(c)
  BY DEF Sound
<1>1. PICK t \in Templates :
        tstatus[t] = "PUBLISHED" /\ c = [template |-> t, version |-> version[t], text |-> text[t]]
  BY DEF Resolved, TypeInv, TemplatesType
<1>2. Fits(c.template, c.version, c.text)
  BY <1>1 DEF Fits, TypeInv, TemplatesType
<1> QED BY <1>1, <1>2 DEF Sound, TextInv, RevisionsFit, Fits

\* An issuer edits no template, and what it is about to issue is sound.
LEMMA IssuerCarries ==
  ASSUME TypeInv, TextInv, NEW h \in Issuers, IssuerStep(h)
  PROVE  /\ UNCHANGED templates
         /\ Carries(job'[h])
         /\ job'[h].pc \notin {"update", "revise", "release"}
<1> h \in Serving /\ JobType
  BY DEF Serving, TypeInv
<1>1. UNCHANGED templates
  BY DEF IssuerStep, Generate, Issue, IssueAgain, Repair, Resolve, Insert, Collide,
      GenerateForExam, SelectBatch, ResolveBatch, InsertBatch, Revoke, Delete, Reissue, Replace,
      PublishResult, WritePublished, Grade, CommitGrade, IssueOnPublish
<1> DEFINE Fine(j) == Carries(j) /\ j.pc \notin {"update", "revise", "release"}
<1>2. \A j : Set(h, j) /\ Fine(j) => Fine(job'[h])
  BY DEF Set, JobType
<1>3. \A j : j.pc \in {"idle", "resolve", "repair", "batch", "resolveBatch", "delete", "publish", "auto", "grade"}
         => Fine(j)
  BY DEF Carries
<1>4. CASE Resolve(h)
  <2>1. PICK copy \in Resolved : Set(h, [job[h] EXCEPT !.pc = "insert", !.copy = copy])
    BY <1>4 DEF Resolve
  <2>2. job[h] \in Issuing
    BY <1>4, JobForms DEF Resolve
  <2>3. Fine([job[h] EXCEPT !.pc = "insert", !.copy = copy])
    BY <2>2, ResolvedIsSound DEF Carries, Issuing
  <2> QED BY <1>1, <1>2, <2>1, <2>3
<1>5. CASE ResolveBatch(h)
  <2>1. PICK copy \in Resolved : Set(h, [job[h] EXCEPT !.pc = "insertBatch", !.copy = copy])
    BY <1>5 DEF ResolveBatch
  <2>2. job[h] \in Bulk
    BY <1>5, JobForms DEF ResolveBatch
  <2>3. Fine([job[h] EXCEPT !.pc = "insertBatch", !.copy = copy])
    BY <2>2, ResolvedIsSound DEF Carries, Bulk
  <2> QED BY <1>1, <1>2, <2>1, <2>3
<1>6. CASE Reissue(h)
  <2>1. PICK r \in Certified :
          Set(h, [pc |-> "replace", on |-> r, id |-> cert[r].id, how |-> cert[r].how,
                  copy |-> cert[r].copy, reason |-> cert[r].reason \/ r \notin earned,
                  publish |-> r \notin published])
    BY <1>6 DEF Reissue
  <2>2. Sound(cert[r].copy)
    BY Present DEF TextInv, Certified, Uncertified, TypeInv
  <2>3. Fine([pc |-> "replace", on |-> r, id |-> cert[r].id, how |-> cert[r].how,
              copy |-> cert[r].copy, reason |-> cert[r].reason \/ r \notin earned,
              publish |-> r \notin published])
    BY <2>2 DEF Carries
  <2> QED BY <1>1, <1>2, <2>1, <2>3
<1>7. CASE SelectBatch(h) \/ InsertBatch(h)
  <2>1. PICK found : \/ Set(h, AfterBatch(job[h], found))
                     \/ \E on : Set(h, [pc |-> "resolveBatch", on |-> on, found |-> found,
                                        copy |-> NULL, visited |-> job[h].visited])
    BY <1>7 DEF SelectBatch, InsertBatch
  <2>2. AfterBatch(job[h], found).pc \in {"idle", "batch"}
    BY DEF AfterBatch, Idle
  <2>3. Fine(AfterBatch(job[h], found))
    BY <1>3, <2>2
  <2>4. \A on : Fine([pc |-> "resolveBatch", on |-> on, found |-> found,
                     copy |-> NULL, visited |-> job[h].visited])
    BY DEF Carries
  <2>5. Fine(job'[h])
    BY <1>2, <2>1, <2>3, <2>4
  <2> QED BY <1>1, <2>5
<1>8. CASE Repair(h) \/ Insert(h) \/ Collide(h) \/ Delete(h) \/ Replace(h)
  <2>1. job'[h].pc = "idle"
    BY <1>8, FinishGoes DEF Repair, Insert, Collide, Delete, Replace, Idle
  <2> QED BY <1>1, <1>3, <2>1
<1>9. CASE Issue(h) \/ IssueAgain(h) \/ GenerateForExam(h) \/ Revoke(h) \/ PublishResult(h)
           \/ WritePublished(h) \/ Grade(h) \/ CommitGrade(h) \/ IssueOnPublish(h)
  <2>1. job'[h].pc \in {"resolve", "repair", "batch", "delete", "publish", "auto", "grade", "idle"}
    BY <1>9 DEF Issue, IssueAgain, GenerateForExam, Revoke, PublishResult, WritePublished, Grade,
                 CommitGrade, IssueOnPublish, Set, Idle, JobType
  <2> QED BY <1>1, <1>3, <2>1
<1> QED BY <1>4, <1>5, <1>6, <1>7, <1>8, <1>9 DEF IssuerStep, Generate

\* A new certificate is a copy of what was about to be issued.
LEMMA NewCertsAreSound ==
  ASSUME TypeInv, TextInv, NEW h \in Issuers, IssuerStep(h), NEW r \in Results, cert'[r] # NULL
  PROVE  Sound(cert'[r].copy)
<1> DEFINE Kept == cert'[r] # cert[r] => cert'[r].copy = job[h].copy /\ Sound(job[h].copy)
<1>1. Carries(job[h])
  BY DEF TextInv, Serving
<1>2. CASE Insert(h)
  <2>1. Sound(job[h].copy)
    BY <1>1, <1>2 DEF Insert, At, Carries
  <2>2. Made(job[h], issued + 1).copy = job[h].copy
    BY DEF Made
  <2> QED BY <1>2, <2>1, <2>2, InsertGoes DEF TextInv
<1>3. CASE Replace(h)
  <2>1. Sound(job[h].copy)
    BY <1>1, <1>3 DEF Replace, At, Carries
  <2>2. Made(job[h], issued + 1).copy = job[h].copy
    BY DEF Made
  <2> QED BY <1>3, <2>1, <2>2, ReplaceGoes DEF TextInv
<1>4. CASE InsertBatch(h)
  <2>1. Sound(job[h].copy)
    BY <1>1, <1>4 DEF InsertBatch, At, Carries
  <2>2. cert'[r] = cert[r] \/ cert'[r].copy = job[h].copy
    BY <1>4 DEF InsertBatch
  <2> QED BY <2>1, <2>2 DEF TextInv
<1>5. CASE Delete(h)
  BY <1>5, DeleteGoes DEF TextInv
<1>6. CASE ~(Insert(h) \/ Replace(h) \/ InsertBatch(h) \/ Delete(h))
  <2>1. cert' = cert
    BY <1>6 DEF IssuerStep, Generate, Issue, IssueAgain, Repair, Resolve, Collide, GenerateForExam,
              SelectBatch, ResolveBatch, Revoke, Reissue, PublishResult,
              WritePublished, Grade, CommitGrade, IssueOnPublish
  <2> QED BY <2>1 DEF TextInv
<1> QED BY <1>2, <1>3, <1>4, <1>5, <1>6

\* The copies there are already stay sound through an edit.
LEMMA CopiesSurvive ==
  ASSUME TypeInv, TextInv, \A c \in Frozen : Sound(c) => Sound(c)',
         UNCHANGED cert, NEW h \in Serving, \A k \in Serving \ {h} : job'[k] = job[k],
         job'[h] = job[h] \/ job'[h].pc \notin {"insert", "insertBatch", "replace"}
  PROVE  /\ \A r \in Results : cert'[r] # NULL => Sound(cert[r].copy)'
         /\ \A k \in Serving : Carries(job[k])'
<1>1. \A r \in Results : cert[r] # NULL => cert[r].copy \in Frozen
  BY DEF TypeInv, CertType, Certs
<1>2. \A k \in Serving : job[k].pc \in {"insert", "insertBatch", "replace"} => job[k].copy \in Frozen
  BY JobForms DEF At, TypeInv, Issuing, Bulk, Replacing
<1>3. ASSUME NEW k \in Serving PROVE Carries(job[k])'
  <2>1. CASE job'[k] = job[k]
    <3>1. CASE job[k].pc \in {"insert", "insertBatch", "replace"}
      <4>1. PICK c \in Frozen : c = job[k].copy
        BY <1>2, <3>1
      <4>2. Sound(c)'
        BY <3>1, <4>1 DEF TextInv, Carries
      <4> QED BY <2>1, <4>1, <4>2 DEF Carries, Sound, Fits
    <3>2. CASE job[k].pc \notin {"insert", "insertBatch", "replace"}
      BY <2>1, <3>2 DEF Carries
    <3> QED BY <3>1, <3>2
  <2>2. CASE job'[k] # job[k]
    BY <2>2 DEF Carries
  <2> QED BY <2>1, <2>2
<1>4. ASSUME NEW r \in Results, cert'[r] # NULL PROVE Sound(cert[r].copy)'
  <2>1. PICK c \in Frozen : c = cert[r].copy
    BY <1>1, <1>4
  <2>2. Sound(c)'
    BY <1>4, <2>1 DEF TextInv
  <2> QED BY <2>1, <2>2 DEF Sound, Fits
<1> QED BY <1>3, <1>4

LEMMA TextStep == OneEditor /\ TypeInv /\ TextInv /\ [Next]_vars => TextInv'
<1> SUFFICES ASSUME OneEditor, TypeInv, TextInv, [Next]_vars PROVE TextInv'
  OBVIOUS
<1>1. ASSUME UNCHANGED templates,
             \A r \in Results : cert'[r] # NULL => Sound(cert'[r].copy),
             \A h \in Serving : Carries(job'[h]),
             \A a \in Admins : Current(job'[a])
      PROVE  TextInv'
  BY <1>1 DEF TextInv, RevisionsFit, Sound, Fits, Carries, Current, templates, Serving
<1>2. CASE UNCHANGED vars \/ FileResult
  <2>1. UNCHANGED <<templates, cert, job>>
    BY <1>2 DEF vars, FileResult
  <2> QED BY <1>1, <2>1 DEF TextInv
<1>3. ASSUME NEW h \in Issuers, IssuerStep(h) PROVE TextInv'
  <2>1. h \in Serving /\ \A k \in Serving \ {h} : job'[k] = job[k]
    BY <1>3, IssuerMoves DEF Serving
  <2>2. UNCHANGED templates /\ Carries(job'[h]) /\ Current(job'[h])
    BY <1>3, IssuerCarries DEF Current
  <2>3. \A r \in Results : cert'[r] # NULL => Sound(cert'[r].copy)
    BY <1>3, NewCertsAreSound
  <2>4. \A k \in Serving : Carries(job'[k])
    BY <2>1, <2>2 DEF TextInv
  <2>5. \A a \in Admins : Current(job'[a])
    BY <2>1, <2>2 DEF TextInv, Serving
  <2> QED BY <1>1, <2>2, <2>3, <2>4, <2>5
<1>4. ASSUME NEW h \in Serving, Fail(h) PROVE TextInv'
  <2>1. /\ UNCHANGED <<templates, cert>>
        /\ job'[h] = Idle /\ \A k \in Serving \ {h} : job'[k] = job[k]
    BY <1>4, FinishGoes DEF Fail, TypeInv
  <2>2. Carries(job'[h]) /\ Current(job'[h])
    BY <2>1 DEF Carries, Current, Idle
  <2> QED BY <1>1, <2>1, <2>2 DEF TextInv, Serving
<1>5. ASSUME NEW h \in Admins, AdminStep(h) PROVE TextInv'
  <2>1. h \in Serving /\ \A a \in Admins : a = h
    BY <1>5 DEF Serving, OneEditor
  <2>2. UNCHANGED cert
    BY <1>5 DEF AdminStep, CreateTemplate, UpdateTemplate, WriteTemplate, WriteRevision, PublishTemplate,
              CommitPublish, SetDefaultTemplate, ClearDefault, Promote, ArchiveTemplate, WriteArchived
  <2>3. /\ \A k \in Serving \ {h} : job'[k] = job[k]
        /\ job'[h] = job[h] \/ job'[h].pc \notin {"insert", "insertBatch", "replace"}
    BY <1>5, AdminMoves
  <2>4. RevisionsFit' /\ (\A c \in Frozen : Sound(c) => Sound(c)') /\ Current(job[h])'
    BY <1>5, EditorStep
  <2>5. /\ \A r \in Results : cert'[r] # NULL => Sound(cert[r].copy)'
        /\ \A k \in Serving : Carries(job[k])'
    BY <2>1, <2>2, <2>3, <2>4, CopiesSurvive
  <2> QED BY <2>1, <2>4, <2>5 DEF TextInv
<1> QED BY <1>2, <1>3, <1>4, <1>5 DEF Next

(* While one request at a time edits templates, a version of a template is  *)
(* one wording: on every certificate that has it and in the revision of     *)
(* that number (ContentService.updateTemplate, publishTemplate,             *)
(* resolveForExam).                                                          *)
THEOREM OneTextPerVersion == OneEditor /\ Spec => []VersionsMeanOneText
<1>1. OneEditor => (TypeInv /\ TextInv /\ [Next]_vars => TextInv')
  BY TextStep
<1>2. TextInv => VersionsMeanOneText
  BY DEF TextInv, Sound, VersionsMeanOneText
<1> SUFFICES ASSUME OneEditor PROVE Spec => []VersionsMeanOneText
  OBVIOUS
<1>3. TypeInv /\ TextInv /\ [Next]_vars => TextInv'
  BY <1>1
<1> QED BY <1>2, <1>3, InitText, TypeCorrect, PTL DEF Spec
=============================================================================
