---------------------------- MODULE Certificates ----------------------------
(* The certificates of one exam: by whom and from what they are issued,     *)
(* while results are graded and published and administrators change the     *)
(* templates.  Every await of a handler is a place where others run; a      *)
(* transaction of writes alone is one step.                                 *)
EXTENDS Naturals, FiniteSets

CONSTANTS
  Issuers,    \* handlers serving those who manage the exam
  Admins,     \* handlers serving those who edit templates
  Results,    \* the results of the exam
  Templates,  \* certificate templates
  Standard,   \* the template the server installs at its first boot
  Texts,      \* wordings and designs of a template
  Plain,      \* the wording of the built-in template
  BatchSize,  \* GENERATE_BATCH_SIZE
  MaxRevoked, \* bound: certificates ever taken away or replaced
  MaxVersion, \* bound: edits of a template
  Workload,   \* the operations clients issue
  NULL        \* an absent row or a null column

Serving == Issuers \cup Admins

ASSUME ResultsAssumption   == IsFiniteSet(Results)
ASSUME TemplatesAssumption == Standard \in Templates

VARIABLES
  filed,      \* the results that exist by now
  earned,     \* results that passed and reach the exam's certificateMinPercentage
  published,  \* results with a publishedAt
  cert,       \* [Results -> certificate or NULL]: Certificate.resultId is unique
  issued,     \* certificates ever inserted; the number of one is its identity
  tstatus,    \* certificate_templates.status, "NONE" before it is created
  isDefault,  \* the templates flagged as default
  version,    \* certificate_templates.version
  text,       \* certificate_templates.content and design
  revisions,  \* template_revisions
  everEarned, \* history: results that were ever earned
  job         \* per handler: its next round trip and what it remembers

results   == <<filed, earned, published, everEarned>>
templates == <<tstatus, isDefault, version, text, revisions>>
vars      == <<results, cert, issued, templates, job>>

Idle      == [pc |-> "idle"]
At(h, pc) == job[h].pc = pc
Set(h, j) == job' = [job EXCEPT ![h] = j]
Finish(h) == Set(h, Idle)

Uncertified == {r \in filed : cert[r] = NULL}
Certified   == filed \ Uncertified

(* CertificateTemplateBootstrapService.ensure: the standard template is the  *)
(* published default, with its first revision.                               *)
Init ==
  /\ filed \in SUBSET Results
  /\ earned \in SUBSET filed /\ everEarned = earned
  /\ published = {}
  /\ cert = [r \in Results |-> NULL] /\ issued = 0
  /\ tstatus = [t \in Templates |-> IF t = Standard THEN "PUBLISHED" ELSE "NONE"]
  /\ isDefault = {Standard}
  /\ version = [t \in Templates |-> 1]
  /\ text = [t \in Templates |-> Plain]
  /\ revisions = {[template |-> Standard, version |-> 1, text |-> Plain]}
  /\ job = [h \in Serving |-> Idle]

-----------------------------------------------------------------------------
\* Issuing

(* ContentService.resolveForExam: the copy a new certificate is frozen with, *)
(* for an exam that pins no template of its own.                             *)
Resolved ==
  LET usable == {t \in isDefault : tstatus[t] = "PUBLISHED"} IN
    IF usable = {} THEN {NULL}
    ELSE {[template |-> t, version |-> version[t], text |-> text[t]] : t \in usable}

Made(j, id) == [id |-> id, how |-> j.how, reason |-> j.reason, copy |-> j.copy]

(* CertificatesService.issue: the result is read with its certificate, and   *)
(* an override needs a reason.                                               *)
Issue(h) ==
  /\ At(h, "idle") /\ "issue" \in Workload
  /\ \E r \in Uncertified, justified \in BOOLEAN :
       /\ r \in earned \/ justified
       /\ Set(h, [pc |-> "resolve", how |-> "MANUAL", on |-> {r}, copy |-> NULL,
                  reason |-> r \notin earned, publish |-> r \notin published])
  /\ UNCHANGED <<results, cert, issued, templates>>

(* Asked again for a certificate whose result is not published. *)
IssueAgain(h) ==
  /\ At(h, "idle") /\ "issue" \in Workload
  /\ \E r \in Certified :
       r \notin published /\ Set(h, [pc |-> "repair", on |-> {r}])
  /\ UNCHANGED <<results, cert, issued, templates>>

Repair(h) ==
  /\ At(h, "repair")
  /\ published' = published \cup job[h].on
  /\ Finish(h)
  /\ UNCHANGED <<filed, earned, everEarned, cert, issued, templates>>

Resolve(h) ==
  /\ At(h, "resolve")
  /\ \E copy \in Resolved : Set(h, [job[h] EXCEPT !.pc = "insert", !.copy = copy])
  /\ UNCHANGED <<results, cert, issued, templates>>

(* The transaction of issue; the insert of issueOnPublish. *)
Insert(h) ==
  /\ At(h, "insert")
  /\ job[h].on \subseteq Uncertified
  /\ issued' = issued + 1
  /\ cert' = [r \in Results |-> IF r \in job[h].on THEN Made(job[h], issued + 1) ELSE cert[r]]
  /\ published' = IF job[h].publish THEN published \cup job[h].on ELSE published
  /\ Finish(h)
  /\ UNCHANGED <<filed, earned, everEarned, templates>>

(* The unique index refuses it: issue rolls back, issueOnPublish returns the *)
(* certificate that is there.                                                *)
Collide(h) ==
  /\ At(h, "insert") /\ ~(job[h].on \subseteq Uncertified)
  /\ Finish(h)
  /\ UNCHANGED <<results, cert, issued, templates>>

-----------------------------------------------------------------------------
\* CertificatesService.generateForExam, for an exam with certificates enabled

GenerateForExam(h) ==
  /\ At(h, "idle") /\ "generate" \in Workload
  /\ Set(h, [pc |-> "batch", visited |-> {}])
  /\ UNCHANGED <<results, cert, issued, templates>>

Batches(left) ==
  IF Cardinality(left) <= BatchSize THEN {left}
  ELSE {s \in SUBSET left : Cardinality(s) = BatchSize}

(* What a batch leaves to do: nothing to issue and a short batch end the run.*)
AfterBatch(j, found) ==
  IF Cardinality(found) < BatchSize THEN Idle
  ELSE [pc |-> "batch", visited |-> j.visited \cup found]

(* Variant: the run looks only at what it has not issued yet. *)
SelectUncertified(h) ==
  /\ At(h, "batch")
  /\ \E found \in Batches(Uncertified) :
       LET issueable == found \cap earned \cap published IN
         Set(h, IF issueable = {} THEN AfterBatch(job[h], found)
                ELSE [pc |-> "resolveBatch", on |-> issueable, found |-> found, copy |-> NULL,
                      visited |-> job[h].visited])
  /\ UNCHANGED <<results, cert, issued, templates>>

SelectBatch(h) ==
  /\ At(h, "batch")
  /\ \E found \in Batches(Uncertified \ job[h].visited) :
       LET issueable == found \cap earned \cap published IN
         Set(h, IF issueable = {} THEN AfterBatch(job[h], found)
                ELSE [pc |-> "resolveBatch", on |-> issueable, found |-> found, copy |-> NULL,
                      visited |-> job[h].visited])
  /\ UNCHANGED <<results, cert, issued, templates>>

ResolveBatch(h) ==
  /\ At(h, "resolveBatch")
  /\ \E copy \in Resolved :
       Set(h, [job[h] EXCEPT !.pc = "insertBatch", !.copy = copy])
  /\ UNCHANGED <<results, cert, issued, templates>>

(* createMany with skipDuplicates: one statement, and no error. *)
InsertBatch(h) ==
  /\ At(h, "insertBatch")
  /\ LET new == job[h].on \cap Uncertified IN
       /\ issued' = issued + Cardinality(new)
       /\ \E number \in [new -> issued + 1..issued'] :
            /\ \A r, s \in new : number[r] = number[s] => r = s
            /\ cert' = [r \in Results |->
                 IF r \in new
                 THEN [id |-> number[r], how |-> "BULK", reason |-> FALSE, copy |-> job[h].copy]
                 ELSE cert[r]]
  /\ Set(h, AfterBatch(job[h], job[h].found))
  /\ UNCHANGED <<results, templates>>

-----------------------------------------------------------------------------
\* Revoking and reissuing: the certificate is read, then deleted by its id

Revoke(h) ==
  /\ At(h, "idle") /\ "revoke" \in Workload
  /\ \E r \in Certified : Set(h, [pc |-> "delete", on |-> r, id |-> cert[r].id])
  /\ UNCHANGED <<results, cert, issued, templates>>

Held(r, id) == cert[r] # NULL /\ cert[r].id = id
MayLose     == issued - Cardinality(Certified) < MaxRevoked

Delete(h) ==
  /\ At(h, "delete") /\ MayLose
  /\ cert' = IF Held(job[h].on, job[h].id) THEN [cert EXCEPT ![job[h].on] = NULL] ELSE cert
  /\ Finish(h)
  /\ UNCHANGED <<results, issued, templates>>

(* Variant: the reason given at issue is not carried over. *)
ReissueAfresh(h) ==
  /\ At(h, "idle") /\ "reissue" \in Workload
  /\ \E r \in Certified :
       Set(h, [pc |-> "replace", on |-> r, id |-> cert[r].id, how |-> cert[r].how, copy |-> cert[r].copy,
               reason |-> FALSE, publish |-> r \notin published])
  /\ UNCHANGED <<results, cert, issued, templates>>

Reissue(h) ==
  /\ At(h, "idle") /\ "reissue" \in Workload
  /\ \E r \in Certified, justified \in BOOLEAN :
       /\ r \in earned \/ cert[r].reason \/ justified
       /\ Set(h, [pc |-> "replace", on |-> r, id |-> cert[r].id, how |-> cert[r].how,
                  copy |-> cert[r].copy, reason |-> cert[r].reason \/ r \notin earned,
                  publish |-> r \notin published])
  /\ UNCHANGED <<results, cert, issued, templates>>

(* Variant: whatever certificate the result has by now is replaced. *)
ReplaceAny(h) ==
  /\ At(h, "replace") /\ MayLose
  /\ issued' = issued + 1
  /\ cert' = [cert EXCEPT ![job[h].on] = Made(job[h], issued + 1)]
  /\ published' = IF job[h].publish THEN published \cup {job[h].on} ELSE published
  /\ Finish(h)
  /\ UNCHANGED <<filed, earned, everEarned, templates>>

(* The delete fails, and rolls the transaction back, if the row is gone. *)
Replace(h) ==
  /\ At(h, "replace") /\ MayLose
  /\ Held(job[h].on, job[h].id)
  /\ issued' = issued + 1
  /\ cert' = [cert EXCEPT ![job[h].on] = Made(job[h], issued + 1)]
  /\ published' = IF job[h].publish THEN published \cup {job[h].on} ELSE published
  /\ Finish(h)
  /\ UNCHANGED <<filed, earned, everEarned, templates>>

-----------------------------------------------------------------------------
\* What happens to results: finalizeSubmission files them

FileResult ==
  /\ "file" \in Workload
  /\ \E r \in Results \ filed :
       /\ filed' = filed \cup {r}
       /\ earned' \in {earned, earned \cup {r}}
  /\ everEarned' = everEarned \cup earned'
  /\ UNCHANGED <<published, cert, issued, templates, job>>

\* What publication does: ResultsService.publish and gradeManually

PublishResult(h) ==
  /\ At(h, "idle") /\ "publish" \in Workload
  /\ \E r \in filed \ published : Set(h, [pc |-> "publish", on |-> r])
  /\ UNCHANGED <<results, cert, issued, templates>>

WritePublished(h) ==
  /\ At(h, "publish")
  /\ published' = published \cup {job[h].on}
  /\ Set(h, [pc |-> "auto", on |-> job[h].on])
  /\ UNCHANGED <<filed, earned, everEarned, cert, issued, templates>>

(* gradeManually reads the result, and writes back the publication it read.  *)
Grade(h) ==
  /\ At(h, "idle") /\ "grade" \in Workload
  /\ \E r \in filed : Set(h, [pc |-> "grade", on |-> r, seen |-> r \in published])
  /\ UNCHANGED <<results, cert, issued, templates>>

CommitGrade(h) ==
  /\ At(h, "grade")
  /\ LET r == job[h].on IN
       /\ earned' \in {earned \cup {r}, earned \ {r}}
       /\ everEarned' = everEarned \cup earned'
       /\ published' = IF job[h].seen THEN published \cup {r} ELSE published \ {r}
       /\ Set(h, IF job[h].seen THEN [pc |-> "auto", on |-> r] ELSE Idle)
  /\ UNCHANGED <<filed, cert, issued, templates>>

(* issueOnPublish, for an exam with certificateAutoIssue: the result is read *)
(* again and must be eligible for unattended issuance.                       *)
IssueOnPublish(h) ==
  /\ At(h, "auto")
  /\ LET r == job[h].on IN
       Set(h, IF r \in Uncertified \cap earned \cap published
              THEN [pc |-> "resolve", how |-> "AUTO", on |-> {r}, copy |-> NULL,
                    reason |-> FALSE, publish |-> FALSE]
              ELSE Idle)
  /\ UNCHANGED <<results, cert, issued, templates>>

-----------------------------------------------------------------------------
\* ContentService: the life of a template

CreateTemplate(h) ==
  /\ At(h, "idle") /\ "edit" \in Workload
  /\ \E t \in Templates, x \in Texts :
       /\ tstatus[t] = "NONE"
       /\ tstatus' = [tstatus EXCEPT ![t] = "DRAFT"]
       /\ text' = [text EXCEPT ![t] = x]
  /\ UNCHANGED <<results, cert, issued, isDefault, version, revisions, job>>

UpdateTemplate(h) ==
  /\ At(h, "idle") /\ "edit" \in Workload
  /\ \E t \in {t \in Templates : tstatus[t] # "NONE"}, x \in Texts :
       Set(h, [pc |-> "update", on |-> t, text |-> x,
               live |-> tstatus[t] = "PUBLISHED", version |-> version[t]])
  /\ UNCHANGED <<results, cert, issued, templates>>

(* Variant: the version only moves when the template is published again. *)
WriteTextOnly(h) ==
  /\ At(h, "update")
  /\ text' = [text EXCEPT ![job[h].on] = job[h].text]
  /\ Finish(h)
  /\ UNCHANGED <<results, cert, issued, tstatus, isDefault, version, revisions>>

WriteTemplate(h) ==
  /\ At(h, "update")
  /\ LET j == job[h] IN
       /\ text' = [text EXCEPT ![j.on] = j.text]
       /\ IF j.live
          THEN /\ version[j.on] < MaxVersion
               /\ version' = [version EXCEPT ![j.on] = @ + 1]
               /\ Set(h, [j EXCEPT !.pc = "revise"])
          ELSE version' = version /\ Finish(h)
  /\ UNCHANGED <<results, cert, issued, tstatus, isDefault, revisions>>

Revision(t, v, x) == [template |-> t, version |-> v, text |-> x]
Unrevised(t, v)   == \A x \in Texts : Revision(t, v, x) \notin revisions

(* The revision is a statement of its own, with its own unique index. *)
WriteRevision(h) ==
  /\ At(h, "revise")
  /\ LET j == job[h] IN
       revisions' = IF Unrevised(j.on, j.version + 1)
                    THEN revisions \cup {Revision(j.on, j.version + 1, j.text)}
                    ELSE revisions
  /\ Finish(h)
  /\ UNCHANGED <<results, cert, issued, tstatus, isDefault, version, text>>

PublishTemplate(h) ==
  /\ At(h, "idle") /\ "edit" \in Workload
  /\ \E t \in {t \in Templates : tstatus[t] \in {"DRAFT", "PUBLISHED"}} :
       LET next == IF tstatus[t] = "PUBLISHED" THEN version[t] + 1 ELSE version[t] IN
         next <= MaxVersion /\ Set(h, [pc |-> "release", on |-> t, text |-> text[t], version |-> next])
  /\ UNCHANGED <<results, cert, issued, templates>>

CommitPublish(h) ==
  /\ At(h, "release")
  /\ LET j == job[h] IN
       IF Unrevised(j.on, j.version)
       THEN /\ revisions' = revisions \cup {Revision(j.on, j.version, j.text)}
            /\ tstatus' = [tstatus EXCEPT ![j.on] = "PUBLISHED"]
            /\ version' = [version EXCEPT ![j.on] = j.version]
       ELSE UNCHANGED <<revisions, tstatus, version>>
  /\ Finish(h)
  /\ UNCHANGED <<results, cert, issued, isDefault, text>>

SetDefaultTemplate(h) ==
  /\ At(h, "idle") /\ "default" \in Workload
  /\ \E t \in {t \in Templates : tstatus[t] = "PUBLISHED"} :
       Set(h, [pc |-> "clear", on |-> t])
  /\ UNCHANGED <<results, cert, issued, templates>>

(* The first statement of the transaction clears the defaults it can see. *)
ClearDefault(h) ==
  /\ At(h, "clear")
  /\ Set(h, [pc |-> "promote", on |-> job[h].on, cleared |-> isDefault \ {job[h].on}])
  /\ UNCHANGED <<results, cert, issued, templates>>

Promote(h) ==
  /\ At(h, "promote")
  /\ isDefault' = (isDefault \ job[h].cleared) \cup {job[h].on}
  /\ Finish(h)
  /\ UNCHANGED <<results, cert, issued, tstatus, version, text, revisions>>

ArchiveTemplate(h) ==
  /\ At(h, "idle") /\ "archive" \in Workload
  /\ \E t \in {t \in Templates : tstatus[t] # "NONE"} \ isDefault : Set(h, [pc |-> "archive", on |-> t])
  /\ UNCHANGED <<results, cert, issued, templates>>

WriteArchived(h) ==
  /\ At(h, "archive")
  /\ tstatus' = [tstatus EXCEPT ![job[h].on] = "ARCHIVED"]
  /\ isDefault' = isDefault \ {job[h].on}
  /\ Finish(h)
  /\ UNCHANGED <<results, cert, issued, version, text, revisions>>

(* A round trip fails or the process dies. *)
Fail(h) ==
  /\ ~At(h, "idle") /\ "fail" \in Workload
  /\ Finish(h)
  /\ UNCHANGED <<results, cert, issued, templates>>

-----------------------------------------------------------------------------
Generate(h) == SelectBatch(h) \/ ResolveBatch(h) \/ InsertBatch(h)

IssuerStep(h) ==
  \/ Issue(h) \/ IssueAgain(h) \/ Repair(h) \/ Resolve(h) \/ Insert(h) \/ Collide(h)
  \/ GenerateForExam(h) \/ Generate(h)
  \/ Revoke(h) \/ Delete(h) \/ Reissue(h) \/ Replace(h)
  \/ PublishResult(h) \/ WritePublished(h) \/ Grade(h) \/ CommitGrade(h) \/ IssueOnPublish(h)

AdminStep(h) ==
  \/ CreateTemplate(h) \/ UpdateTemplate(h) \/ WriteTemplate(h) \/ WriteRevision(h)
  \/ PublishTemplate(h) \/ CommitPublish(h)
  \/ SetDefaultTemplate(h) \/ ClearDefault(h) \/ Promote(h)
  \/ ArchiveTemplate(h) \/ WriteArchived(h)

Next ==
  \/ FileResult
  \/ \E h \in Issuers : IssuerStep(h)
  \/ \E h \in Admins : AdminStep(h)
  \/ \E h \in Serving : Fail(h)

Spec     == Init /\ [][Next]_vars
FairSpec == Spec /\ \A h \in Issuers : WF_vars(Generate(h))

-----------------------------------------------------------------------------
\* Safety

(* A certificate without a written reason stands for a result that was      *)
(* earned: no regrade, reissue, bulk run or automatic issue can make one    *)
(* from nothing or lose the reason (issue, reissue, generateForExam).       *)
EarnedOrJustified ==
  \A r \in Results : cert[r] # NULL /\ ~cert[r].reason => r \in everEarned

(* A certificate is only ever replaced by its own reissue, with the wording *)
(* and provenance it had; one that was revoked meanwhile stays revoked      *)
(* (reissue deletes by id inside its transaction).                          *)
ReplacedByReissue ==
  [][\A r \in Results : cert[r] # NULL /\ cert'[r] # NULL /\ cert'[r] # cert[r] =>
       /\ cert'[r].copy = cert[r].copy /\ cert'[r].how = cert[r].how
       /\ cert[r].reason => cert'[r].reason
       /\ \E h \in Issuers : job[h].pc = "replace" /\ job[h].id = cert[r].id]_cert

(* A version of a template means one wording: the copy frozen on any        *)
(* certificate is that of the revision with its number (updateTemplate,     *)
(* publishTemplate, resolveForExam).                                        *)
VersionsMeanOneText ==
  \A r \in Results : cert[r] # NULL /\ cert[r].copy # NULL =>
    \A v \in revisions :
      (v.template = cert[r].copy.template /\ v.version = cert[r].copy.version)
        => v.text = cert[r].copy.text

(* A bulk run ends, whatever it finds that cannot be issued                 *)
(* (generateForExam: "the loop would never terminate").                     *)
GenerationEnds == \A h \in Issuers :
  (job[h].pc \in {"batch", "resolveBatch", "insertBatch"}) ~> At(h, "idle")
=============================================================================
