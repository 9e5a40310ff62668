----------------------------- MODULE Documents ------------------------------
(* One editable document of the product and its revision log, under several *)
(* administrators.  A handler reads the row, and writes it in a later round *)
(* trip; publishing writes the revision and the row in one transaction.     *)
EXTENDS Naturals

CONSTANTS
  Editors,    \* handlers serving administrators
  Wordings,   \* what a document can say
  MaxVersion  \* bound: published versions

VARIABLES
  docStatus,  \* content_documents.status
  docVersion, \* content_documents.version
  content,    \* content_documents.content
  log,        \* content_revisions: [version -> content]
  stamped,    \* history: the contents published under a version, in the row's words
  edit        \* per handler: its next round trip and what it remembers

document == <<docStatus, docVersion, content, log, stamped>>
vars     == <<document, edit>>

Versions  == 1..MaxVersion
Idle      == [pc |-> "idle"]
At(e, pc) == edit[e].pc = pc
Set(e, j) == edit' = [edit EXCEPT ![e] = j]
Finish(e) == Set(e, Idle)

(* createDocument. *)
Init ==
  /\ docStatus = "DRAFT" /\ docVersion = 1
  /\ content \in Wordings
  /\ log = [v \in {} |-> content] /\ stamped = {}
  /\ edit = [e \in Editors |-> Idle]

UpdateDocument(e) ==
  /\ At(e, "idle")
  /\ content' \in Wordings
  /\ UNCHANGED <<docStatus, docVersion, log, stamped, edit>>

NextVersion(status, v) == IF status = "PUBLISHED" THEN v + 1 ELSE v

PublishDocument(e) ==
  /\ At(e, "idle")
  /\ NextVersion(docStatus, docVersion) \in Versions
  /\ Set(e, [pc |-> "publish", version |-> NextVersion(docStatus, docVersion), content |-> content])
  /\ UNCHANGED document

(* Variant: the revision of that number is written over. *)
CommitUpsert(e) ==
  /\ At(e, "publish")
  /\ LET j == edit[e] IN
       /\ log' = [v \in DOMAIN log \cup {j.version} |-> IF v = j.version THEN j.content ELSE log[v]]
       /\ stamped' = stamped \cup {<<j.version, j.content>>}
       /\ docStatus' = "PUBLISHED" /\ docVersion' = j.version
  /\ Finish(e)
  /\ UNCHANGED content

(* The revision's number must be free, or the transaction is rolled back. *)
CommitPublish(e) ==
  /\ At(e, "publish")
  /\ LET j == edit[e] IN
       IF j.version \in DOMAIN log THEN UNCHANGED <<log, stamped, docStatus, docVersion>>
       ELSE /\ log' = [v \in DOMAIN log \cup {j.version} |-> IF v = j.version THEN j.content ELSE log[v]]
            /\ stamped' = stamped \cup {<<j.version, j.content>>}
            /\ docStatus' = "PUBLISHED" /\ docVersion' = j.version
  /\ Finish(e)
  /\ UNCHANGED content

ArchiveDocument(e) ==
  /\ At(e, "idle")
  /\ docStatus' = "ARCHIVED"
  /\ UNCHANGED <<docVersion, content, log, stamped, edit>>

(* The old wording becomes a draft; the version and the log stay. *)
RevertDocument(e) ==
  /\ At(e, "idle")
  /\ \E v \in DOMAIN log : content' = log[v]
  /\ docStatus' = "DRAFT"
  /\ UNCHANGED <<docVersion, log, stamped, edit>>

Abort(e) == ~At(e, "idle") /\ Finish(e) /\ UNCHANGED document

Next == \E e \in Editors :
  \/ UpdateDocument(e) \/ PublishDocument(e) \/ CommitPublish(e)
  \/ ArchiveDocument(e) \/ RevertDocument(e) \/ Abort(e)

Spec == Init /\ [][Next]_vars

-----------------------------------------------------------------------------
(* The log has no gap below the document's version, and a number stands for *)
(* one content for ever, whatever publications race and fail                *)
(* (publishDocument; schema: "Append-only history").                        *)
LogIsGapless ==
  /\ DOMAIN log \in {1..docVersion - 1, 1..docVersion}
  /\ \A v \in DOMAIN log : stamped \cap ({v} \X Wordings) = {<<v, log[v]>>}
=============================================================================
