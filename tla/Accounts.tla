------------------------------ MODULE Accounts ------------------------------
(* Accounts, their roles and the permissions of roles: the servers that     *)
(* install them when they boot, and the administrators who change them.     *)
(* A boot is one step per statement; a request authorises its caller,       *)
(* checks its target and writes, each in a round trip of its own.           *)
EXTENDS Naturals, Sequences, FiniteSets

CONSTANTS
  Servers,   \* server processes
  Handlers,  \* requests in flight
  Root,      \* the one whose address is SUPERADMIN_EMAIL
  Catalogue, \* PERMISSIONS, in order
  Defaults,  \* DEFAULT_ROLE_GRANTS as <<role, permission>>, in order
  Asks,      \* what clients ask: [op, target, role, key], each op using what it needs
  Faults     \* what happens besides: "crash", "record", "mark"

ROLE_RANK == [SUPER_ADMIN |-> 4, ADMIN |-> 3, INSTRUCTOR |-> 2, STUDENT |-> 1]
RoleNames == DOMAIN ROLE_RANK
Keys      == {Catalogue[i] : i \in DOMAIN Catalogue}
Floor     == {Defaults[i] : i \in DOMAIN Defaults}

ASSUME ServersAssumption   == Servers # {}
ASSUME CatalogueAssumption == Catalogue \in Seq(Keys) /\ Catalogue # <<>>
ASSUME DefaultsAssumption  == Defaults \in Seq(RoleNames \X Keys)

VARIABLES
  held,        \* user_roles: [account -> its roles]
  inactive,    \* accounts whose status is not ACTIVE
  recorded,    \* accounts that a row refers to which may not lose them: an exam, a session, a class ...
  marked,      \* accounts that are the grader of an answer, a reference the database may empty
  late,        \* history: those of marked that marked nothing before a removal counted their records
  permissions, \* rows of permissions
  grants,      \* role_permissions: <<role, permission>>
  boot,        \* per server: where its start has come
  request,     \* per handler: its next round trip and what it remembers
  denied,      \* history: grants an administrator took away and nobody gave back
  broken       \* history: a start was cut short by a crash, or overtaken by an administrator

records == <<recorded, marked, late>>
people == <<held, inactive, records>>
rights == <<permissions, grants, denied>>
vars   == <<people, rights, boot, request, broken>>

accounts == DOMAIN held
Down     == [pc |-> "down"]
Up       == [pc |-> "up"]
Idle     == [pc |-> "idle"]

InProgress   == {s \in Servers : boot[s].pc \notin {"down", "up"}}
Start(s, b)  == boot' = [boot EXCEPT ![s] = b]
Turn(h, r)   == request' = [request EXCEPT ![h] = r]
Finish(h)    == Turn(h, Idle)
Without(f, x) == [y \in DOMAIN f \ {x} |-> f[y]]
With(f, x, v) == [y \in DOMAIN f \cup {x} |-> IF y = x THEN v ELSE f[y]]

(* An empty database, or one that earlier releases of the server filled.    *)
Init ==
  /\ permissions \in SUBSET Keys
  /\ grants \in SUBSET {g \in Floor : g[2] \in permissions}
  /\ held \in {[u \in {} |-> {}], [u \in {Root} |-> {"SUPER_ADMIN"}]}
  /\ inactive = {} /\ recorded = {} /\ marked = {} /\ late = {} /\ denied = {}
  /\ boot = [s \in Servers |-> Down] /\ request = [h \in Handlers |-> Idle]
  /\ broken = FALSE

-----------------------------------------------------------------------------
\* A server starts: the super admin, the catalogue, the default grants

Supers == {u \in accounts : "SUPER_ADMIN" \in held[u]}

(* SuperAdminBootstrapService.ensure looks for any super admin ... *)
FindSuperAdmin(s) ==
  /\ boot[s].pc = "down"
  /\ Start(s, IF Supers # {} THEN [pc |-> "catalogue", at |-> 1] ELSE [pc |-> "createRoot"])
  /\ UNCHANGED <<people, rights, request, broken>>

(* ... and creates the account; the unique address makes one winner.        *)
CreateSuperAdmin(s) ==
  /\ boot[s].pc = "createRoot"
  /\ held' = IF Root \in accounts THEN held ELSE With(held, Root, {"SUPER_ADMIN"})
  /\ Start(s, [pc |-> "catalogue", at |-> 1])
  /\ UNCHANGED <<inactive, records, rights, request, broken>>

Advance(s, pc, n, last, next) ==
  Start(s, IF n < last THEN [pc |-> pc, at |-> n + 1] ELSE next)

AfterCatalogue == IF Defaults = <<>> THEN Up ELSE [pc |-> "grants", at |-> 1]

(* Variant: permissions are created without looking. *)
CreateUnseen(s) ==
  /\ boot[s].pc = "catalogue"
  /\ Start(s, [boot[s] EXCEPT !.pc = "createKey"])
  /\ UNCHANGED <<people, rights, request, broken>>

(* PermissionsBootstrapService.ensure. *)
FindPermission(s) ==
  /\ boot[s].pc = "catalogue"
  /\ LET n == boot[s].at IN
       IF Catalogue[n] \in permissions
       THEN Advance(s, "catalogue", n, Len(Catalogue), AfterCatalogue)
       ELSE Start(s, [boot[s] EXCEPT !.pc = "createKey"])
  /\ UNCHANGED <<people, rights, request, broken>>

(* A row that has appeared meanwhile fails the insert, and with it the rest *)
(* of the reconciliation; the server comes up all the same.                 *)
CreatePermission(s) ==
  /\ boot[s].pc = "createKey"
  /\ LET n == boot[s].at IN
       IF Catalogue[n] \in permissions THEN Start(s, Up) /\ UNCHANGED permissions
       ELSE /\ permissions' = permissions \cup {Catalogue[n]}
            /\ Advance(s, "catalogue", n, Len(Catalogue), AfterCatalogue)
  /\ UNCHANGED <<people, grants, denied, request, broken>>

FindGrant(s) ==
  /\ boot[s].pc = "grants"
  /\ LET n == boot[s].at IN
       IF Defaults[n] \in grants \/ Defaults[n][2] \notin permissions
       THEN Advance(s, "grants", n, Len(Defaults), Up)
       ELSE Start(s, [boot[s] EXCEPT !.pc = "createGrant"])
  /\ UNCHANGED <<people, rights, request, broken>>

CreateGrant(s) ==
  /\ boot[s].pc = "createGrant"
  /\ LET n == boot[s].at IN
       IF Defaults[n] \in grants THEN Start(s, Up) /\ UNCHANGED grants
       ELSE /\ grants' = grants \cup {Defaults[n]}
            /\ Advance(s, "grants", n, Len(Defaults), Up)
  /\ UNCHANGED <<people, permissions, denied, request, broken>>

Crash(s) ==
  /\ "crash" \in Faults /\ boot[s].pc # "down"
  /\ broken' = (broken \/ boot[s].pc # "up")
  /\ Start(s, Down)
  /\ UNCHANGED <<people, rights, request>>

-----------------------------------------------------------------------------
\* A request: JwtStrategy.validate and the guards, the checks, the write

Max(S)     == CHOOSE x \in S : \A y \in S : y <= x
MaxRank(R) == Max({1} \cup {ROLE_RANK[r] : r \in R})

Permitted(u, key) == \E r \in held[u] : <<r, key>> \in grants

Needs == [create |-> "users.write", status |-> "users.write", remove |-> "users.write",
          instructor |-> "users.write", assign |-> "roles.manage", unassign |-> "roles.manage",
          grant |-> "roles.manage", deny |-> "roles.manage", define |-> "roles.manage"]

ASSUME AsksAssumption == \A ask \in Asks : ask.op \in DOMAIN Needs /\ ask.role \in RoleNames

Authorise(h) ==
  /\ request[h] = Idle
  /\ \E s \in Servers : boot[s] = Up
  /\ \E u \in accounts \ inactive, ask \in Asks :
       /\ held[u] \cap {"SUPER_ADMIN", "ADMIN"} # {}
       /\ Permitted(u, Needs[ask.op])
       /\ Turn(h, [pc |-> ask.op, actor |-> u, rank |-> MaxRank(held[u]),
                   target |-> ask.target, role |-> ask.role, key |-> ask.key])
  /\ UNCHANGED <<people, rights, boot, broken>>

Self(r)        == r.target = r.actor
Below(r)       == MaxRank(held[r.target]) < r.rank

(* Variant: the comparison lets an equal pass. *)
UpToEqual(r) == ROLE_RANK[r.role] <= r.rank

CanGrantRole(r) == ROLE_RANK[r.role] < r.rank

(* What a request reads before it writes, and the refusals. *)
Allowed(r) ==
  CASE r.pc = "create"     -> CanGrantRole(r) /\ r.target \notin accounts
    [] r.pc = "status"     -> r.target \in accounts /\ (Self(r) \/ Below(r))
    [] r.pc = "remove"     -> ~Self(r) /\ r.target \in accounts /\ Below(r)
    [] r.pc = "instructor" -> /\ r.target \in accounts
                              /\ "INSTRUCTOR" \in held[r.target]
                              /\ "SUPER_ADMIN" \notin held[r.target]
    [] r.pc = "assign"     -> /\ r.target \in accounts /\ CanGrantRole(r)
                              /\ Self(r) \/ Below(r)
    [] r.pc = "unassign"   -> /\ r.target \in accounts
                              /\ Self(r) \/ Below(r)
                              /\ Below(r) \/ r.role # "SUPER_ADMIN"
                              /\ Cardinality(held[r.target]) > 1
    [] r.pc = "deny"       -> <<r.role, r.key>> \in grants
    [] OTHER               -> TRUE

Write == [create |-> "insert", status |-> "setStatus", instructor |-> "setStatus",
          remove |-> "count", assign |-> "addRole", unassign |-> "dropRole",
          grant |-> "addGrant", deny |-> "dropGrant", define |-> "upsert"]

Check(h) ==
  /\ request[h].pc \in DOMAIN Write
  /\ Turn(h, IF Allowed(request[h]) THEN [request[h] EXCEPT !.pc = Write[@]] ELSE Idle)
  /\ UNCHANGED <<people, rights, boot, broken>>

(* UsersService.create; the address may have been taken since. *)
InsertUser(h) ==
  /\ request[h].pc = "insert"
  /\ LET r == request[h] IN
       held' = IF r.target \in accounts THEN held ELSE With(held, r.target, {r.role})
  /\ Finish(h)
  /\ UNCHANGED <<inactive, records, rights, boot, broken>>

(* UsersService.update and InstructorsService.updateStatus. *)
SetStatus(h) ==
  /\ request[h].pc = "setStatus"
  /\ inactive' \in {inactive \ {request[h].target}, inactive \cup ({request[h].target} \cap accounts)}
  /\ Finish(h)
  /\ UNCHANGED <<held, records, rights, boot, broken>>

(* UsersService.remove counts the records it must keep ... *)
CountRecords(h) ==
  /\ request[h].pc = "count"
  /\ Turn(h, IF request[h].target \in accounts \ (recorded \cup marked)
             THEN [request[h] EXCEPT !.pc = "delete"] ELSE Idle)
  /\ UNCHANGED <<people, rights, boot, broken>>

(* Variant: the references cascade. *)
DeleteCascading(h) ==
  /\ request[h].pc = "delete"
  /\ held' = Without(held, request[h].target)
  /\ inactive' = inactive \ {request[h].target}
  /\ marked' = marked \ {request[h].target} /\ late' = late \ {request[h].target}
  /\ Finish(h)
  /\ UNCHANGED <<recorded, rights, boot, broken>>

(* ... and deletes. A foreign key refuses if a row refers to the account by *)
(* now, except an answer: that loses its grader (ON DELETE SET NULL).       *)
DeleteUser(h) ==
  /\ request[h].pc = "delete"
  /\ LET u == request[h].target IN
       IF u \in recorded THEN UNCHANGED people
       ELSE /\ held' = Without(held, u) /\ inactive' = inactive \ {u}
            /\ marked' = marked \ {u} /\ late' = late \ {u}
            /\ UNCHANGED recorded
  /\ Finish(h)
  /\ UNCHANGED <<rights, boot, broken>>

AddRole(h) ==
  /\ request[h].pc = "addRole"
  /\ LET r == request[h] IN
       held' = IF r.target \in accounts THEN [held EXCEPT ![r.target] = @ \cup {r.role}] ELSE held
  /\ Finish(h)
  /\ UNCHANGED <<inactive, records, rights, boot, broken>>

DropRole(h) ==
  /\ request[h].pc = "dropRole"
  /\ LET r == request[h] IN
       held' = IF r.target \in accounts THEN [held EXCEPT ![r.target] = @ \ {r.role}] ELSE held
  /\ Finish(h)
  /\ UNCHANGED <<inactive, records, rights, boot, broken>>

(* RolesService.assignPermission; the permission must exist. *)
AddGrant(h) ==
  /\ request[h].pc = "addGrant"
  /\ LET g == <<request[h].role, request[h].key>> IN
       IF g[2] \in permissions
       THEN /\ grants' = grants \cup {g} /\ denied' = denied \ {g}
            /\ broken' = (broken \/ (g \notin grants /\ InProgress # {}))
       ELSE UNCHANGED <<grants, denied, broken>>
  /\ Finish(h)
  /\ UNCHANGED <<people, permissions, boot>>

(* RolesService.revokePermission. *)
DropGrant(h) ==
  /\ request[h].pc = "dropGrant"
  /\ LET g == <<request[h].role, request[h].key>> IN
       grants' = grants \ {g} /\ denied' = denied \cup {g}
  /\ Finish(h)
  /\ UNCHANGED <<people, permissions, boot, broken>>

(* PermissionsService.upsert. *)
UpsertPermission(h) ==
  /\ request[h].pc = "upsert"
  /\ permissions' = permissions \cup {request[h].key}
  /\ broken' = (broken \/ (request[h].key \notin permissions /\ InProgress # {}))
  /\ Finish(h)
  /\ UNCHANGED <<people, grants, denied, boot>>

(* An account sits an exam, authors a question, joins a class ... *)
GainRecord ==
  /\ "record" \in Faults
  /\ \E u \in accounts \ inactive : recorded' = recorded \cup {u}
  /\ UNCHANGED <<held, inactive, marked, late, rights, boot, request, broken>>

Counted(u) == \E h \in Handlers : request[h].pc = "delete" /\ request[h].target = u

(* ... or marks an answer (ResultsService.gradeManually).                   *)
MarkAnswer ==
  /\ "mark" \in Faults
  /\ \E u \in accounts \ inactive :
       /\ marked' = marked \cup {u}
       /\ late' = IF Counted(u) /\ u \notin marked THEN late \cup {u} ELSE late
  /\ UNCHANGED <<held, inactive, recorded, rights, boot, request, broken>>

-----------------------------------------------------------------------------
Boot(s) ==
  \/ FindSuperAdmin(s) \/ CreateSuperAdmin(s)
  \/ FindPermission(s) \/ CreatePermission(s)
  \/ FindGrant(s) \/ CreateGrant(s)

Serve(h) ==
  \/ Authorise(h) \/ Check(h)
  \/ InsertUser(h) \/ SetStatus(h) \/ CountRecords(h) \/ DeleteUser(h)
  \/ AddRole(h) \/ DropRole(h)
  \/ AddGrant(h) \/ DropGrant(h) \/ UpsertPermission(h)

Next ==
  \/ \E s \in Servers : Boot(s) \/ Crash(s)
  \/ \E h \in Handlers : Serve(h)
  \/ GainRecord \/ MarkAnswer

Spec == Init /\ [][Next]_vars

-----------------------------------------------------------------------------
(* A server that serves has exactly one super admin behind it, whichever    *)
(* servers start together and whatever administrators do to each other      *)
(* (SuperAdminBootstrapService.ensure, assertCanGrantRole, removeRole,      *)
(* remove).                                                                 *)
OneSuperAdmin ==
  /\ Cardinality(Supers) <= 1
  /\ (\E s \in Servers : boot[s].pc \notin {"down", "createRoot"}) => Supers = {Root}

(* Who is deleted leaves nothing behind that must be kept, however long ago *)
(* the deletion counted the records: no row that needs its owner, and no    *)
(* answer marked before the count. An answer marked between the count and   *)
(* the delete does lose its grader (remove, student_answers.graderId).      *)
RecordsKeepTheirOwner ==
  [][\A u \in accounts \ accounts' : u \notin recorded \cup (marked \ late)]_vars

(* Servers that start together may knock each other out of the              *)
(* reconciliation, but not all of them: when every start is over, none      *)
(* crashed and no administrator wrote rights meanwhile, the floor is there  *)
(* but for what an administrator took away                                  *)
(* (PermissionsBootstrapService.ensure: "Safe to run on every start of      *)
(* every instance").                                                        *)
FloorIsInstalled ==
  (\A s \in Servers : boot[s] = Up) /\ ~broken
    => Keys \subseteq permissions /\ Floor \ denied \subseteq grants
=============================================================================
