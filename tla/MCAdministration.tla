-------------------------- MODULE MCAdministration --------------------------
(* Administration on a small instance of each part: two servers that boot    *)
(* together, two administrators of documents and accounts, one editor of a   *)
(* paper of two questions, a paper of three answers to mark, two             *)
(* results, one editor of templates, and one handler of an exam's rights.    *)
EXTENDS Administration

CONSTANTS
  s1, s2, h1, h2, root, u1,  \* servers, handlers, people
  w1, w2,                    \* wordings
  q1, q2,                    \* questions
  a, b, exact, longer, other, \* options and typed answers
  e1, e2, p1, p2,            \* editors or exams, students
  i1, a1, standard, own      \* an issuer, an administrator, two templates

MCCatalogue == <<"users.write", "roles.manage", "exams.read">>
MCDefaults  == <<<<"SUPER_ADMIN", "roles.manage">>, <<"SUPER_ADMIN", "users.write">>,
                 <<"INSTRUCTOR", "exams.read">>>>

Ask(op, target, role, key) == [op |-> op, target |-> target, role |-> role, key |-> key]
MCAsks ==
  {Ask(op, root, "SUPER_ADMIN", k) : op \in {"grant", "deny"}, k \in {"users.write", "roles.manage"}}
    \cup {Ask("define", root, "STUDENT", "exams.read"), Ask("grant", root, "ADMIN", "users.write")}
    \cup {Ask(op, u, "STUDENT", "users.write") : op \in {"status", "remove"}, u \in {root, u1}}
    \cup {Ask(op, u1, "ADMIN", "users.write") : op \in {"create", "assign", "unassign"}}
    \cup {Ask("create", u1, "SUPER_ADMIN", "users.write")}
    \cup {Ask(op, root, "SUPER_ADMIN", "users.write") : op \in {"assign", "unassign"}}
    \cup {Ask("assign", u1, "INSTRUCTOR", "users.write"), Ask("instructor", u1, "STUDENT", "users.write")}

MCPaper == <<[kind |-> "option", correct |-> {a}], [kind |-> "text", correct |-> {exact}],
             [kind |-> "option", correct |-> {a, b}]>>
MCContains == {<<exact, exact>>, <<longer, longer>>, <<other, other>>, <<longer, exact>>}

\* A third of the marks, and two thirds of two totals.
MCMarked == {[score |-> 3, max |-> 9], [score |-> 6, max |-> 9], [score |-> 8, max |-> 12]}

AskFor(op, who, whom, level) == [op |-> op, who |-> who, whom |-> whom, level |-> level]
MCSharing ==
  {AskFor("share", e1, e2, "CO_OWNER"), AskFor("relevel", root, e2, "VIEWER"),
   AskFor("unshare", e1, e2, "none"), AskFor("transfer", e1, e2, "none"),
   AskFor("extend", e2, e1, "none"), AskFor("assign", e2, p1, "none")}
MCInviting ==
  {AskFor("assign", e1, p1, "none"), AskFor("assign", e1, p2, "none"),
   AskFor("unassign", root, p1, "none")}
    \cup {AskFor(op, e1, q1, "none") : op \in {"push", "pull", "drop"}}
    \cup {AskFor(op, e1, <<q1, p1>>, "none") : op \in {"enroll", "unenroll"}}

(* A part that this behaviour is not about starts in one state. *)
MCInit ==
  /\ AdminInit
  /\ part \in {"boot", "admins"} \/ (permissions = {} /\ held = [u \in {} |-> {}])
  /\ part = "documents" \/ content = w1
  /\ part = "marks" \/ rate = 0
  /\ part = "templates" \/ filed = {}
  /\ owner = e1 /\ (part = "access" \/ enrolled = {})

(* Only the other account gathers records: nobody may remove the root. *)
Gathers == (GainRecord \/ MarkAnswer) /\ root \notin recorded' \cup marked'

(* Servers that boot together meet requests about the root account and rights. *)
AboutRoot == \A r \in {request'[h1]} \ {Idle} : r.target = root

Accounted ==
  /\ UNCHANGED part
  /\ \/ part = "boot" /\ ((\E s \in Servers : Boot(s) \/ Crash(s)) \/ (Serve(h1) /\ AboutRoot))
     \/ part = "admins" /\ (Boot(s1) \/ (\E h \in Handlers : Serve(h)) \/ Gathers)
  /\ UNCHANGED <<documentVars, paperVars, markVars, reportVars, templateVars, accessVars>>

MCNext == Accounted \/ (part \notin {"boot", "admins"} /\ AdminNext)
MCSpec == MCInit /\ [][MCNext]_adminVars
=============================================================================
