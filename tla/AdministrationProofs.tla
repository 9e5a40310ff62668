------------------------ MODULE AdministrationProofs -------------------------
(* What holds of the work of staff for any number of servers, requests,      *)
(* people, versions, classes, questions and results: accounts and rights     *)
(* (Accounts), the revision log of a document (Documents), the check of who  *)
(* may sit an exam (ExamAccess), the wording a certificate's template stands *)
(* for (Certificates), the points of a paper (Authoring), the automatic      *)
(* marks (Scoring) and the reports (Reports).  A behaviour of Administration *)
(* is about one part, so each invariant is shown inductive for its part and  *)
(* no other part touches what it speaks of.                                  *)
EXTENDS Administration, FiniteSetTheorems, SequenceTheorems, WellFoundedInduction, TLAPS

-----------------------------------------------------------------------------
(* Accounts. *)

People    == {Root} \cup {ask.target : ask \in Asks}
AskedKeys == {ask.key : ask \in Asks}

Steps    == [pc : {"down", "up", "createRoot"}]
              \cup [pc : {"catalogue", "createKey"}, at : 1..Len(Catalogue)]
              \cup [pc : {"grants", "createGrant"}, at : 1..Len(Defaults)]
Requests == [pc : DOMAIN Write \cup {"insert", "setStatus", "count", "delete", "addRole",
                                     "dropRole", "addGrant", "dropGrant", "upsert"},
             actor : People, rank : 1..4, target : People, role : RoleNames, key : AskedKeys]

TypeInv ==
  /\ accounts \subseteq People
  /\ held \in [accounts -> SUBSET RoleNames]
  /\ boot \in [Servers -> Steps]
  /\ request \in [Handlers -> {Idle} \cup Requests]
  /\ broken \in BOOLEAN

LEMMA Roles ==
  /\ RoleNames = {"SUPER_ADMIN", "ADMIN", "INSTRUCTOR", "STUDENT"}
  /\ \A r \in RoleNames : ROLE_RANK[r] \in 1..4 /\ (ROLE_RANK[r] = 4 <=> r = "SUPER_ADMIN")
BY DEF RoleNames, ROLE_RANK

(* The rank of a person is one of the four, and only a super admin's is 4.  *)
LEMMA RankIsBounded ==
  ASSUME NEW R \in SUBSET RoleNames
  PROVE  MaxRank(R) \in 1..4 /\ ("SUPER_ADMIN" \in R => MaxRank(R) = 4)
<1> DEFINE S == {1} \cup {ROLE_RANK[r] : r \in R}
<1>1. S \in SUBSET (1..4) /\ 1 \in S /\ ("SUPER_ADMIN" \in R => 4 \in S)
  BY Roles
<1>2. \E x \in S : \A y \in S : y <= x
  <2>1. CASE 4 \in S
    BY <1>1, <2>1
  <2>2. CASE 4 \notin S /\ 3 \in S
    BY <1>1, <2>2
  <2>3. CASE 4 \notin S /\ 3 \notin S /\ 2 \in S
    BY <1>1, <2>3
  <2>4. CASE 4 \notin S /\ 3 \notin S /\ 2 \notin S
    BY <1>1, <2>4
  <2> QED
    BY <2>1, <2>2, <2>3, <2>4
<1>3. Max(S) \in S /\ \A y \in S : y <= Max(S)
  BY <1>2 DEF Max
<1> QED
  BY <1>1, <1>3 DEF MaxRank

LEMMA Operations ==
  /\ DOMAIN Needs = DOMAIN Write
  /\ DOMAIN Write = {"create", "status", "instructor", "remove", "assign", "unassign",
                     "grant", "deny", "define"}
  /\ \A p \in DOMAIN Write :
       /\ Write[p] \in {"insert", "setStatus", "count", "addRole", "dropRole",
                        "addGrant", "dropGrant", "upsert"}
       /\ Write[p] = "insert"   <=> p = "create"
       /\ Write[p] = "count"    <=> p = "remove"
       /\ Write[p] = "addRole"  <=> p = "assign"
       /\ Write[p] = "dropRole" <=> p = "unassign"
BY DEF Needs, Write

-----------------------------------------------------------------------------
\* Types

LEMMA InitType == Init => TypeInv
<1> SUFFICES ASSUME Init PROVE TypeInv
  OBVIOUS
<1>1. accounts \subseteq People /\ held \in [accounts -> SUBSET RoleNames]
  <2>1. CASE held = [u \in {} |-> {}]
    BY <2>1 DEF accounts
  <2>2. CASE held = [u \in {Root} |-> {"SUPER_ADMIN"}]
    BY <2>2, Roles DEF accounts, People
  <2> QED
    BY <2>1, <2>2 DEF Init
<1> QED
  BY <1>1 DEF Init, TypeInv, Steps, Down

LEMMA Lengths ==
  /\ Len(Catalogue) \in Nat /\ Len(Catalogue) >= 1
  /\ Len(Defaults) \in Nat /\ (Defaults # <<>> => Len(Defaults) >= 1)
  /\ \A n \in 1..Len(Catalogue) : Catalogue[n] \in Keys
  /\ \A n \in 1..Len(Defaults) : Defaults[n] \in RoleNames \X Keys
  /\ Keys = {Catalogue[n] : n \in 1..Len(Catalogue)}
  /\ Floor = {Defaults[n] : n \in 1..Len(Defaults)}
BY SMTT(30), CatalogueAssumption, DefaultsAssumption DEF Keys, Floor

(* Where a server can be, and where it goes from the n-th permission or      *)
(* grant.                                                                    *)
LEMMA BootSteps ==
  /\ Down \in Steps /\ Up \in Steps /\ [pc |-> "createRoot"] \in Steps
  /\ AfterCatalogue \in Steps /\ [pc |-> "catalogue", at |-> 1] \in Steps
  /\ \A n \in 1..Len(Catalogue) :
       /\ [pc |-> "createKey", at |-> n] \in Steps
       /\ n < Len(Catalogue) => [pc |-> "catalogue", at |-> n + 1] \in Steps
  /\ \A n \in 1..Len(Defaults) :
       /\ [pc |-> "createGrant", at |-> n] \in Steps
       /\ n < Len(Defaults) => [pc |-> "grants", at |-> n + 1] \in Steps
BY Lengths DEF Down, Up, AfterCatalogue, Steps

LEMMA Located ==
  ASSUME TypeInv, NEW s \in Servers
  PROVE  /\ boot[s].pc \in {"catalogue", "createKey"} =>
              boot[s].at \in 1..Len(Catalogue) /\ boot[s] = [pc |-> boot[s].pc, at |-> boot[s].at]
         /\ boot[s].pc \in {"grants", "createGrant"} =>
              boot[s].at \in 1..Len(Defaults) /\ boot[s] = [pc |-> boot[s].pc, at |-> boot[s].at]
         /\ boot[s].pc \in {"down", "up", "createRoot", "catalogue", "createKey", "grants",
                            "createGrant"}
         /\ boot[s] = Up <=> boot[s].pc = "up"
BY DEF TypeInv, Steps, Up

LEMMA StartGoes ==
  ASSUME TypeInv, NEW s \in Servers, NEW b \in Steps, Start(s, b)
  PROVE  /\ boot' \in [Servers -> Steps] /\ boot'[s] = b
         /\ \A t \in Servers \ {s} : boot'[t] = boot[t]
BY DEF TypeInv, Start

LEMMA FindPermissionGoes ==
  ASSUME TypeInv, NEW s \in Servers, FindPermission(s)
  PROVE  \E n \in 1..Len(Catalogue) :
           /\ boot[s] = [pc |-> "catalogue", at |-> n]
           /\ \/ Catalogue[n] \in permissions /\ n < Len(Catalogue) /\ Start(s, [pc |-> "catalogue", at |-> n + 1])
              \/ Catalogue[n] \in permissions /\ n = Len(Catalogue) /\ Start(s, AfterCatalogue)
              \/ Catalogue[n] \notin permissions /\ Start(s, [pc |-> "createKey", at |-> n])
<1>1. boot[s].at \in 1..Len(Catalogue) /\ boot[s] = [pc |-> "catalogue", at |-> boot[s].at]
  BY Located DEF FindPermission
<1>2. [boot[s] EXCEPT !.pc = "createKey"] = [pc |-> "createKey", at |-> boot[s].at]
  BY <1>1
<1>3. \/ Catalogue[boot[s].at] \in permissions /\ boot[s].at < Len(Catalogue) /\ Start(s, [pc |-> "catalogue", at |-> boot[s].at + 1])
      \/ Catalogue[boot[s].at] \in permissions /\ boot[s].at = Len(Catalogue) /\ Start(s, AfterCatalogue)
      \/ Catalogue[boot[s].at] \notin permissions /\ Start(s, [pc |-> "createKey", at |-> boot[s].at])
  <2>1. CASE boot[s].at < Len(Catalogue)
    BY <1>1, <1>2, <2>1 DEF FindPermission, Advance
  <2>2. CASE boot[s].at = Len(Catalogue)
    BY <1>1, <1>2, <2>2 DEF FindPermission, Advance
  <2> QED
    BY <1>1, <2>1, <2>2, Lengths
<1> QED
  BY <1>1, <1>3

LEMMA CreatePermissionGoes ==
  ASSUME TypeInv, NEW s \in Servers, CreatePermission(s)
  PROVE  \E n \in 1..Len(Catalogue) :
           /\ boot[s] = [pc |-> "createKey", at |-> n]
           /\ \/ Catalogue[n] \in permissions /\ Start(s, Up) /\ permissions' = permissions
              \/ /\ Catalogue[n] \notin permissions /\ permissions' = permissions \cup {Catalogue[n]}
                 /\ \/ n < Len(Catalogue) /\ Start(s, [pc |-> "catalogue", at |-> n + 1])
                    \/ n = Len(Catalogue) /\ Start(s, AfterCatalogue)
<1>1. boot[s].at \in 1..Len(Catalogue) /\ boot[s] = [pc |-> "createKey", at |-> boot[s].at]
  BY Located DEF CreatePermission
<1>3. \/ Catalogue[boot[s].at] \in permissions /\ Start(s, Up) /\ permissions' = permissions
      \/ /\ Catalogue[boot[s].at] \notin permissions /\ permissions' = permissions \cup {Catalogue[boot[s].at]}
         /\ \/ boot[s].at < Len(Catalogue) /\ Start(s, [pc |-> "catalogue", at |-> boot[s].at + 1])
            \/ boot[s].at = Len(Catalogue) /\ Start(s, AfterCatalogue)
  <2>1. CASE boot[s].at < Len(Catalogue)
    BY <1>1, <2>1 DEF CreatePermission, Advance
  <2>2. CASE boot[s].at = Len(Catalogue)
    BY <1>1, <2>2 DEF CreatePermission, Advance
  <2> QED
    BY <1>1, <2>1, <2>2, Lengths
<1> QED
  BY <1>1, <1>3

LEMMA FindGrantGoes ==
  ASSUME TypeInv, NEW s \in Servers, FindGrant(s)
  PROVE  \E n \in 1..Len(Defaults) :
           /\ boot[s] = [pc |-> "grants", at |-> n]
           /\ \/ /\ Defaults[n] \in grants \/ Defaults[n][2] \notin permissions
                 /\ \/ n < Len(Defaults) /\ Start(s, [pc |-> "grants", at |-> n + 1])
                    \/ n = Len(Defaults) /\ Start(s, Up)
              \/ Defaults[n] \notin grants /\ Start(s, [pc |-> "createGrant", at |-> n])
<1>1. boot[s].at \in 1..Len(Defaults) /\ boot[s] = [pc |-> "grants", at |-> boot[s].at]
  BY Located DEF FindGrant
<1>2. [boot[s] EXCEPT !.pc = "createGrant"] = [pc |-> "createGrant", at |-> boot[s].at]
  BY <1>1
<1>3. \/ /\ Defaults[boot[s].at] \in grants \/ Defaults[boot[s].at][2] \notin permissions
         /\ \/ boot[s].at < Len(Defaults) /\ Start(s, [pc |-> "grants", at |-> boot[s].at + 1])
            \/ boot[s].at = Len(Defaults) /\ Start(s, Up)
      \/ Defaults[boot[s].at] \notin grants /\ Start(s, [pc |-> "createGrant", at |-> boot[s].at])
  <2>1. CASE boot[s].at < Len(Defaults)
    BY <1>1, <1>2, <2>1 DEF FindGrant, Advance
  <2>2. CASE boot[s].at = Len(Defaults)
    BY <1>1, <1>2, <2>2 DEF FindGrant, Advance
  <2> QED
    BY <1>1, <2>1, <2>2, Lengths
<1> QED
  BY <1>1, <1>3

LEMMA CreateGrantGoes ==
  ASSUME TypeInv, NEW s \in Servers, CreateGrant(s)
  PROVE  \E n \in 1..Len(Defaults) :
           /\ boot[s] = [pc |-> "createGrant", at |-> n]
           /\ \/ Defaults[n] \in grants /\ Start(s, Up) /\ grants' = grants
              \/ /\ Defaults[n] \notin grants /\ grants' = grants \cup {Defaults[n]}
                 /\ \/ n < Len(Defaults) /\ Start(s, [pc |-> "grants", at |-> n + 1])
                    \/ n = Len(Defaults) /\ Start(s, Up)
<1>1. boot[s].at \in 1..Len(Defaults) /\ boot[s] = [pc |-> "createGrant", at |-> boot[s].at]
  BY Located DEF CreateGrant
<1>3. \/ Defaults[boot[s].at] \in grants /\ Start(s, Up) /\ grants' = grants
      \/ /\ Defaults[boot[s].at] \notin grants /\ grants' = grants \cup {Defaults[boot[s].at]}
         /\ \/ boot[s].at < Len(Defaults) /\ Start(s, [pc |-> "grants", at |-> boot[s].at + 1])
            \/ boot[s].at = Len(Defaults) /\ Start(s, Up)
  <2>1. CASE boot[s].at < Len(Defaults)
    BY <1>1, <2>1 DEF CreateGrant, Advance
  <2>2. CASE boot[s].at = Len(Defaults)
    BY <1>1, <2>2 DEF CreateGrant, Advance
  <2> QED
    BY <1>1, <2>1, <2>2, Lengths
<1> QED
  BY <1>1, <1>3

(* Every step of a start and every crash leads to a place of its own.        *)
LEMMA BootMoves ==
  ASSUME TypeInv, NEW s \in Servers, Boot(s) \/ Crash(s)
  PROVE  boot' \in [Servers -> Steps] /\ \A t \in Servers \ {s} : boot'[t] = boot[t]
<1>1. CASE FindSuperAdmin(s)
  <2>1. CASE Supers # {}
    BY <1>1, <2>1, BootSteps, StartGoes DEF FindSuperAdmin
  <2>2. CASE Supers = {}
    BY <1>1, <2>2, BootSteps, StartGoes DEF FindSuperAdmin
  <2> QED
    BY <2>1, <2>2
<1>2. CASE CreateSuperAdmin(s)
  BY <1>2, BootSteps, StartGoes DEF CreateSuperAdmin
<1>3. CASE FindPermission(s)
  <2>1. PICK n \in 1..Len(Catalogue) :
          \/ n < Len(Catalogue) /\ Start(s, [pc |-> "catalogue", at |-> n + 1])
          \/ Start(s, AfterCatalogue) \/ Start(s, [pc |-> "createKey", at |-> n])
    BY <1>3, FindPermissionGoes
  <2>2. CASE n < Len(Catalogue) /\ Start(s, [pc |-> "catalogue", at |-> n + 1])
    <3>1. [pc |-> "catalogue", at |-> n + 1] \in Steps
      BY <2>2, BootSteps
    <3> QED
      BY <2>2, <3>1, StartGoes
  <2>3. CASE Start(s, AfterCatalogue)
    BY <2>3, BootSteps, StartGoes
  <2>4. CASE Start(s, [pc |-> "createKey", at |-> n])
    BY <2>4, BootSteps, StartGoes
  <2> QED
    BY <2>1, <2>2, <2>3, <2>4
<1>4. CASE CreatePermission(s)
  <2>1. PICK n \in 1..Len(Catalogue) :
          \/ n < Len(Catalogue) /\ Start(s, [pc |-> "catalogue", at |-> n + 1])
          \/ Start(s, AfterCatalogue) \/ Start(s, Up)
    BY <1>4, CreatePermissionGoes
  <2>2. CASE n < Len(Catalogue) /\ Start(s, [pc |-> "catalogue", at |-> n + 1])
    <3>1. [pc |-> "catalogue", at |-> n + 1] \in Steps
      BY <2>2, BootSteps
    <3> QED
      BY <2>2, <3>1, StartGoes
  <2>3. CASE Start(s, AfterCatalogue)
    BY <2>3, BootSteps, StartGoes
  <2>4. CASE Start(s, Up)
    BY <2>4, BootSteps, StartGoes
  <2> QED
    BY <2>1, <2>2, <2>3, <2>4
<1>5. CASE FindGrant(s)
  <2>1. PICK n \in 1..Len(Defaults) :
          \/ n < Len(Defaults) /\ Start(s, [pc |-> "grants", at |-> n + 1])
          \/ Start(s, Up) \/ Start(s, [pc |-> "createGrant", at |-> n])
    BY <1>5, FindGrantGoes
  <2>2. CASE n < Len(Defaults) /\ Start(s, [pc |-> "grants", at |-> n + 1])
    <3>1. [pc |-> "grants", at |-> n + 1] \in Steps
      BY <2>2, BootSteps
    <3> QED
      BY <2>2, <3>1, StartGoes
  <2>3. CASE Start(s, Up)
    BY <2>3, BootSteps, StartGoes
  <2>4. CASE Start(s, [pc |-> "createGrant", at |-> n])
    BY <2>4, BootSteps, StartGoes
  <2> QED
    BY <2>1, <2>2, <2>3, <2>4
<1>6. CASE CreateGrant(s)
  <2>1. PICK n \in 1..Len(Defaults) :
          \/ n < Len(Defaults) /\ Start(s, [pc |-> "grants", at |-> n + 1])
          \/ Start(s, Up)
    BY <1>6, CreateGrantGoes
  <2>2. CASE n < Len(Defaults) /\ Start(s, [pc |-> "grants", at |-> n + 1])
    <3>1. [pc |-> "grants", at |-> n + 1] \in Steps
      BY <2>2, BootSteps
    <3> QED
      BY <2>2, <3>1, StartGoes
  <2>3. CASE Start(s, Up)
    BY <2>3, BootSteps, StartGoes
  <2> QED
    BY <2>1, <2>2, <2>3
<1>7. CASE Crash(s)
  BY <1>7, BootSteps, StartGoes DEF Crash
<1> QED
  BY <1>1, <1>2, <1>3, <1>4, <1>5, <1>6, <1>7 DEF Boot

LEMMA BootType ==
  ASSUME TypeInv, NEW s \in Servers, Boot(s) \/ Crash(s)
  PROVE  TypeInv'
<1>1. boot' \in [Servers -> Steps]
  BY BootMoves DEF TypeInv
<1>2. request' = request /\ broken' \in BOOLEAN
  BY DEF TypeInv, Boot, FindSuperAdmin, CreateSuperAdmin, FindPermission, CreatePermission, FindGrant,
         CreateGrant, Crash
<1>3. accounts' \subseteq People /\ held' \in [accounts' -> SUBSET RoleNames]
  <2>1. CASE CreateSuperAdmin(s)
    BY <2>1, Roles DEF TypeInv, CreateSuperAdmin, With, accounts, People
  <2>2. CASE ~CreateSuperAdmin(s)
    BY <2>2 DEF TypeInv, Boot, FindSuperAdmin, FindPermission, CreatePermission, FindGrant,
         CreateGrant, Crash, people, accounts
  <2> QED
    BY <2>1, <2>2
<1> QED
  BY <1>1, <1>2, <1>3 DEF TypeInv
(* A handler leaves the other requests alone, and its own is one again.      *)
LEMMA ServeMoves ==
  ASSUME TypeInv, NEW h \in Handlers, Serve(h)
  PROVE  /\ request' \in [Handlers -> {Idle} \cup Requests]
         /\ \A k \in Handlers \ {h} : request'[k] = request[k]
<1> DEFINE Moved(r) == request' = [request EXCEPT ![h] = r]
<1>1. \A r \in {Idle} \cup Requests : Moved(r) =>
        /\ request' \in [Handlers -> {Idle} \cup Requests]
        /\ \A k \in Handlers \ {h} : request'[k] = request[k]
  BY DEF TypeInv
<1>2. request[h].pc # "idle" => request[h] \in Requests
  BY DEF TypeInv, Idle
<1>3. CASE Authorise(h)
  <2>1. PICK u \in accounts, ask \in Asks :
          Moved([pc |-> ask.op, actor |-> u, rank |-> MaxRank(held[u]),
                 target |-> ask.target, role |-> ask.role, key |-> ask.key])
    BY <1>3 DEF Authorise, Turn
  <2>2. u \in People /\ MaxRank(held[u]) \in 1..4 /\ ask.op \in DOMAIN Write
    BY AsksAssumption, Operations, RankIsBounded DEF TypeInv, accounts
  <2>3. [pc |-> ask.op, actor |-> u, rank |-> MaxRank(held[u]),
         target |-> ask.target, role |-> ask.role, key |-> ask.key] \in Requests
    BY <2>2, AsksAssumption DEF Requests, People, AskedKeys
  <2> QED
    BY <1>1, <2>1, <2>3
<1>4. CASE Check(h)
  <2>1. request[h] \in Requests /\ request[h].pc \in DOMAIN Write
    BY <1>2, <1>4, Operations DEF Check
  <2>2. [request[h] EXCEPT !.pc = Write[@]] \in Requests
    BY <2>1, Operations DEF Requests
  <2> QED
    BY <1>1, <1>4, <2>2 DEF Check, Turn
<1>5. CASE CountRecords(h)
  <2>1. [request[h] EXCEPT !.pc = "delete"] \in Requests
    BY <1>2, <1>5 DEF CountRecords, Requests
  <2> QED
    BY <1>1, <1>5, <2>1 DEF CountRecords, Turn
<1>6. CASE ~(Authorise(h) \/ Check(h) \/ CountRecords(h))
  BY <1>1, <1>6 DEF Serve, InsertUser, SetStatus, DeleteUser, AddRole, DropRole, AddGrant, DropGrant,
                    UpsertPermission, Finish, Turn
<1> QED
  BY <1>3, <1>4, <1>5, <1>6

LEMMA ServeType ==
  ASSUME TypeInv, NEW h \in Handlers, Serve(h)
  PROVE  TypeInv'
<1>1. boot' = boot /\ broken' \in BOOLEAN
  BY DEF TypeInv, Serve, Authorise, Check, InsertUser, SetStatus, CountRecords, DeleteUser, AddRole,
         DropRole, AddGrant, DropGrant, UpsertPermission
<1>2. request[h].pc # "idle" => request[h] \in Requests
  BY DEF TypeInv, Idle
<1>3. accounts' \subseteq People /\ held' \in [accounts' -> SUBSET RoleNames]
  <2>1. CASE InsertUser(h)
    BY <1>2, <2>1 DEF TypeInv, InsertUser, With, accounts, Requests
  <2>2. CASE DeleteUser(h)
    BY <2>2 DEF TypeInv, DeleteUser, Without, people, accounts
  <2>3. CASE AddRole(h)
    BY <1>2, <2>3 DEF TypeInv, AddRole, accounts, Requests
  <2>4. CASE DropRole(h)
    BY <1>2, <2>4 DEF TypeInv, DropRole, accounts, Requests
  <2>5. CASE ~(InsertUser(h) \/ DeleteUser(h) \/ AddRole(h) \/ DropRole(h))
    BY <2>5 DEF TypeInv, Serve, Authorise, Check, SetStatus, CountRecords, AddGrant, DropGrant,
                UpsertPermission, people, accounts
  <2> QED
    BY <2>1, <2>2, <2>3, <2>4, <2>5
<1> QED
  BY <1>1, <1>3, ServeMoves DEF TypeInv

LEMMA NextType == TypeInv /\ [Next]_vars => TypeInv'
<1> SUFFICES ASSUME TypeInv, [Next]_vars PROVE TypeInv'
  OBVIOUS
<1>1. CASE GainRecord \/ MarkAnswer
  BY <1>1 DEF GainRecord, MarkAnswer, TypeInv, accounts
<1>2. CASE UNCHANGED vars
  BY <1>2 DEF vars, people, TypeInv, accounts
<1> QED
  BY <1>1, <1>2, BootType, ServeType DEF Next

THEOREM TypeCorrect == Spec => []TypeInv
BY InitType, NextType, PTL DEF Spec

-----------------------------------------------------------------------------
\* Records

(* Who is about to be deleted has marked nothing since before the count.     *)
CountedFirst ==
  \A h \in Handlers, u \in marked :
    request[h].pc = "delete" /\ request[h].target = u => u \in late

LEMMA CountedFirstStep == TypeInv /\ CountedFirst /\ [Next]_vars => CountedFirst'
<1> SUFFICES ASSUME TypeInv, CountedFirst, [Next]_vars PROVE CountedFirst'
  OBVIOUS
<1> USE DEF CountedFirst
<1>1. CASE UNCHANGED vars \/ GainRecord
  BY <1>1 DEF vars, people, records, GainRecord
<1>2. CASE MarkAnswer
  BY <1>2 DEF MarkAnswer, Counted
<1>3. ASSUME NEW s \in Servers, Boot(s) \/ Crash(s) PROVE CountedFirst'
  BY <1>3 DEF Boot, FindSuperAdmin, CreateSuperAdmin, FindPermission, CreatePermission, FindGrant,
              CreateGrant, Crash, people, records
<1>4. ASSUME NEW h \in Handlers, Serve(h) PROVE CountedFirst'
  <2>1. \A k \in Handlers \ {h} : request'[k] = request[k]
    BY <1>4, ServeMoves
  <2>2. request \in [Handlers -> {Idle} \cup Requests]
    BY DEF TypeInv
  <2>3. CASE CountRecords(h)
    BY <2>1, <2>2, <2>3 DEF CountRecords, Turn, Idle, people, records, Requests
  <2>4. CASE DeleteUser(h)
    BY <2>1, <2>2, <2>4 DEF DeleteUser, Finish, Turn, Idle, people, records
  <2>5. CASE ~(CountRecords(h) \/ DeleteUser(h))
    <3>1. marked' = marked /\ late' = late
      BY <1>4, <2>5 DEF Serve, Authorise, Check, InsertUser, SetStatus, AddRole, DropRole, AddGrant,
                        DropGrant, UpsertPermission, people, records
    <3>2. request'[h].pc # "delete"
      <4>1. CASE Authorise(h)
        <5>1. PICK ask \in Asks : request'[h].pc = ask.op
          BY <2>2, <4>1 DEF Authorise, Turn
        <5> QED
          BY <5>1, AsksAssumption DEF Needs
      <4>2. CASE Check(h)
        BY <2>2, <4>2 DEF Check, Turn, Write, Idle
      <4>3. CASE ~(Authorise(h) \/ Check(h))
        BY <1>4, <2>2, <2>5, <4>3 DEF Serve, InsertUser, SetStatus, AddRole, DropRole, AddGrant,
                                 DropGrant, UpsertPermission, Finish, Turn, Idle
      <4> QED
        BY <4>1, <4>2, <4>3
    <3> QED
      BY <2>1, <3>1, <3>2
  <2> QED
    BY <2>3, <2>4, <2>5
<1> QED
  BY <1>1, <1>2, <1>3, <1>4 DEF Next

(* Only a deletion removes an account: the foreign keys refuse it when the   *)
(* row goes, and what they let go was marked after the count.                *)
LEMMA OnlyDeletionRemoves ==
  ASSUME TypeInv, CountedFirst, [Next]_vars, NEW u \in accounts, u \notin accounts'
  PROVE  u \notin recorded \cup (marked \ late)
<1> USE DEF accounts
<1>1. CASE UNCHANGED vars \/ GainRecord \/ MarkAnswer
  BY <1>1 DEF vars, people, GainRecord, MarkAnswer
<1>2. ASSUME NEW s \in Servers, Boot(s) \/ Crash(s) PROVE FALSE
  BY <1>2 DEF Boot, FindSuperAdmin, CreateSuperAdmin, FindPermission, CreatePermission, FindGrant,
              CreateGrant, Crash, people, With
<1>3. ASSUME NEW h \in Handlers, Serve(h) PROVE u \notin recorded \cup (marked \ late)
  <2>1. CASE InsertUser(h)
    BY <2>1 DEF InsertUser, With
  <2>2. CASE DeleteUser(h)
    BY <2>2 DEF DeleteUser, Without, people, CountedFirst
  <2>3. CASE AddRole(h) \/ DropRole(h)
    BY <2>3 DEF TypeInv, AddRole, DropRole
  <2>4. CASE ~(InsertUser(h) \/ DeleteUser(h) \/ AddRole(h) \/ DropRole(h))
    BY <1>3, <2>4 DEF Serve, Authorise, Check, SetStatus, CountRecords, AddGrant, DropGrant,
                      UpsertPermission, people
  <2> QED
    BY <2>1, <2>2, <2>3, <2>4
<1> QED
  BY <1>1, <1>2, <1>3 DEF Next

(* Nothing that must be kept loses its owner but an answer marked after the  *)
(* count (UsersService.remove).                                              *)
THEOREM OwnersKept == Spec => RecordsKeepTheirOwner
<1>1. Init => CountedFirst
  BY DEF Init, CountedFirst
<1>2. TypeInv /\ CountedFirst /\ [Next]_vars
        => [\A u \in accounts \ accounts' : u \notin recorded \cup (marked \ late)]_vars
  BY OnlyDeletionRemoves
<1> QED
  BY <1>1, <1>2, TypeCorrect, CountedFirstStep, PTL DEF Spec, RecordsKeepTheirOwner

-----------------------------------------------------------------------------
\* The super admin

OnlyRoot  == Supers \subseteq {Root}
RootIsOne == Root \in accounts => "SUPER_ADMIN" \in held[Root]
RootIsThere ==
  (\E s \in Servers : boot[s].pc \notin {"down", "createRoot"}) \/ (\E h \in Handlers : request[h].pc # "idle")
    => Root \in accounts

(* What a request that passed its checks will not do, however late it writes. *)
Harmless(r) ==
  /\ r.pc \in {"insert", "addRole"} => r.role # "SUPER_ADMIN"
  /\ r.pc = "dropRole" /\ r.target = Root => r.role # "SUPER_ADMIN"
  /\ r.pc \in {"count", "delete"} => r.target # Root
SuperInv == OnlyRoot /\ RootIsOne /\ RootIsThere /\ \A h \in Handlers : Harmless(request[h])

LEMMA InitSuper == Init => SuperInv
<1> SUFFICES ASSUME Init PROVE SuperInv
  OBVIOUS
<1>1. OnlyRoot /\ RootIsOne
  <2>1. CASE held = [u \in {} |-> {}]
    BY <2>1 DEF OnlyRoot, RootIsOne, Supers, accounts
  <2>2. CASE held = [u \in {Root} |-> {"SUPER_ADMIN"}]
    BY <2>2 DEF OnlyRoot, RootIsOne, Supers, accounts
  <2> QED
    BY <2>1, <2>2 DEF Init
<1> QED
  BY <1>1 DEF Init, SuperInv, RootIsThere, Harmless, Down, Idle

(* The rank of the root account is out of everybody's reach.                 *)
LEMMA RootIsAboveAll ==
  ASSUME TypeInv, SuperInv, NEW h \in Handlers, request[h].pc # "idle"
  PROVE  /\ Root \in accounts /\ request[h] \in Requests
         /\ request[h].target = Root => ~Below(request[h])
         /\ CanGrantRole(request[h]) => request[h].role # "SUPER_ADMIN"
<1>1. Root \in accounts /\ "SUPER_ADMIN" \in held[Root]
  BY DEF SuperInv, RootIsThere, RootIsOne
<1>2. request[h] \in Requests
  BY DEF TypeInv, Idle
<1>3. request[h].rank \in 1..4 /\ request[h].role \in RoleNames
  BY <1>2 DEF Requests
<1>4. MaxRank(held[Root]) = 4
  BY <1>1, RankIsBounded DEF TypeInv
<1>5. request[h].target = Root => ~Below(request[h])
  BY <1>3, <1>4 DEF Below
<1>6. CanGrantRole(request[h]) => request[h].role # "SUPER_ADMIN"
  BY <1>3, Roles DEF CanGrantRole
<1> QED
  BY <1>1, <1>2, <1>5, <1>6

LEMMA CheckIsHarmless ==
  ASSUME TypeInv, SuperInv, NEW h \in Handlers, Check(h)
  PROVE  Harmless(request'[h])
<1>1. request[h].pc \in DOMAIN Write /\ request[h].pc # "idle"
  BY Operations DEF Check
<1> DEFINE r == request[h]
           w == [r EXCEPT !.pc = Write[@]]
<1>2. r \in Requests /\ (r.target = Root => ~Below(r)) /\ (CanGrantRole(r) => r.role # "SUPER_ADMIN")
  BY <1>1, RootIsAboveAll
<1>3. w.pc = Write[r.pc] /\ w.role = r.role /\ w.target = r.target
  BY <1>2 DEF Requests
<1>4. CASE ~Allowed(r)
  BY <1>4 DEF Check, Turn, TypeInv, Harmless, Idle
<1>5. CASE Allowed(r)
  <2>1. request'[h] = w
    BY <1>5 DEF Check, Turn, TypeInv
  <2>2. w.pc \in {"insert", "addRole"} => w.role # "SUPER_ADMIN"
    BY <1>1, <1>2, <1>3, <1>5, Operations DEF Allowed
  <2>3. w.pc = "dropRole" /\ w.target = Root => w.role # "SUPER_ADMIN"
    BY <1>1, <1>2, <1>3, <1>5, Operations DEF Allowed
  <2>4. w.pc \in {"count", "delete"} => w.target # Root
    BY <1>1, <1>2, <1>3, <1>5, Operations DEF Allowed
  <2> QED
    BY <2>1, <2>2, <2>3, <2>4 DEF Harmless
<1> QED
  BY <1>4, <1>5

LEMMA ServeHarmless ==
  ASSUME TypeInv, SuperInv, NEW h \in Handlers, Serve(h)
  PROVE  \A k \in Handlers : Harmless(request'[k])
<1>1. Harmless(request'[h])
  <2>1. CASE Authorise(h)
    <3>1. PICK u \in accounts, ask \in Asks :
            Turn(h, [pc |-> ask.op, actor |-> u, rank |-> MaxRank(held[u]),
                     target |-> ask.target, role |-> ask.role, key |-> ask.key])
      BY <2>1 DEF Authorise
    <3>2. request'[h].pc = ask.op /\ ask.op \in DOMAIN Write
      BY <3>1, AsksAssumption, Operations DEF Turn, TypeInv
    <3> QED
      BY <3>2, Operations DEF Harmless
  <2>2. CASE Check(h)
    BY <2>2, CheckIsHarmless
  <2>3. CASE CountRecords(h)
    <3>1. request[h] \in Requests /\ request[h].target # Root
      BY <2>3 DEF CountRecords, TypeInv, Idle, SuperInv, Harmless
    <3> QED
      BY <2>3, <3>1 DEF CountRecords, Turn, TypeInv, Requests, Harmless, Idle
  <2>4. CASE ~(Authorise(h) \/ Check(h) \/ CountRecords(h))
    BY <2>4 DEF Serve, InsertUser, SetStatus, DeleteUser, AddRole, DropRole, AddGrant, DropGrant,
                UpsertPermission, Finish, Turn, TypeInv, Harmless, Idle
  <2> QED
    BY <2>1, <2>2, <2>3, <2>4
<1>2. \A k \in Handlers \ {h} : Harmless(request'[k])
  BY ServeMoves DEF SuperInv, Harmless
<1> QED
  BY <1>1, <1>2

LEMMA ServeSuper ==
  ASSUME TypeInv, SuperInv, NEW h \in Handlers, Serve(h)
  PROVE  SuperInv'
<1>1. boot' = boot
  BY DEF Serve, Authorise, Check, InsertUser, SetStatus, CountRecords, DeleteUser, AddRole,
         DropRole, AddGrant, DropGrant, UpsertPermission
<1>2. Root \in accounts
  <2>1. CASE Authorise(h)
    BY <2>1 DEF Authorise, SuperInv, RootIsThere, Up
  <2>2. CASE ~Authorise(h)
    <3>1. request[h].pc # "idle"
      BY <2>2, Operations DEF Serve, Check, InsertUser, SetStatus, CountRecords, DeleteUser, AddRole,
         DropRole, AddGrant, DropGrant, UpsertPermission
    <3> QED
      BY <3>1, RootIsAboveAll
  <2> QED
    BY <2>1, <2>2
<1>3. "SUPER_ADMIN" \in held[Root] /\ \A u \in accounts \ {Root} : "SUPER_ADMIN" \notin held[u]
  BY <1>2 DEF SuperInv, RootIsOne, OnlyRoot, Supers
<1>4. Harmless(request[h]) /\ (request[h].pc # "idle" => request[h] \in Requests)
  BY DEF SuperInv, TypeInv, Idle
<1> DEFINE Kept == /\ Root \in accounts' /\ "SUPER_ADMIN" \in held'[Root]
                   /\ \A u \in accounts' \ {Root} : "SUPER_ADMIN" \notin held'[u]
<1>5. Kept
  <2>1. CASE InsertUser(h)
    BY <1>2, <1>3, <1>4, <2>1 DEF InsertUser, With, accounts, Harmless
  <2>2. CASE DeleteUser(h)
    BY <1>2, <1>3, <1>4, <2>2 DEF DeleteUser, Without, people, accounts, Harmless
  <2>3. CASE AddRole(h)
    BY <1>2, <1>3, <1>4, <2>3 DEF TypeInv, AddRole, accounts, Harmless
  <2>4. CASE DropRole(h)
    BY <1>2, <1>3, <1>4, <2>4 DEF TypeInv, DropRole, accounts, Harmless
  <2>5. CASE ~(InsertUser(h) \/ DeleteUser(h) \/ AddRole(h) \/ DropRole(h))
    BY <1>2, <1>3, <2>5 DEF Serve, Authorise, Check, SetStatus, CountRecords, AddGrant, DropGrant,
                      UpsertPermission, people, accounts
  <2> QED
    BY <2>1, <2>2, <2>3, <2>4, <2>5
<1> QED
  BY <1>5, ServeHarmless DEF SuperInv, OnlyRoot, Supers, RootIsOne, RootIsThere

LEMMA BootSuper ==
  ASSUME TypeInv, SuperInv, NEW s \in Servers, Boot(s) \/ Crash(s)
  PROVE  SuperInv'
<1>1. request' = request /\ \A t \in Servers \ {s} : boot'[t] = boot[t]
  BY BootMoves DEF Boot, FindSuperAdmin, CreateSuperAdmin, FindPermission, CreatePermission, FindGrant,
         CreateGrant, Crash
<1>2. CASE CreateSuperAdmin(s)
  <2>1. Root \in accounts' /\ "SUPER_ADMIN" \in held'[Root]
    BY <1>2 DEF CreateSuperAdmin, With, accounts, SuperInv, RootIsOne
  <2>2. \A u \in accounts' \ {Root} : "SUPER_ADMIN" \notin held'[u]
    BY <1>2 DEF CreateSuperAdmin, With, accounts, SuperInv, OnlyRoot, Supers
  <2> QED
    BY <1>1, <2>1, <2>2 DEF SuperInv, OnlyRoot, Supers, RootIsOne, RootIsThere
<1>3. CASE ~CreateSuperAdmin(s)
  <2>1. held' = held
    BY <1>3 DEF Boot, FindSuperAdmin, FindPermission, CreatePermission, FindGrant,
         CreateGrant, Crash, people
  <2>2. boot'[s].pc \notin {"down", "createRoot"} => Root \in accounts
    <3>1. CASE FindSuperAdmin(s)
      <4>1. CASE Supers = {}
        BY <3>1, <4>1 DEF FindSuperAdmin, Start, TypeInv
      <4>2. CASE Supers # {}
        BY <4>2 DEF SuperInv, OnlyRoot, Supers
      <4> QED
        BY <4>1, <4>2
    <3>2. CASE Crash(s)
      BY <3>2 DEF Crash, Start, TypeInv, Down
    <3>3. CASE ~FindSuperAdmin(s) /\ ~Crash(s)
      BY <1>3, <3>3 DEF Boot, FindPermission, CreatePermission, FindGrant, CreateGrant, SuperInv, RootIsThere
    <3> QED
      BY <3>1, <3>2, <3>3
  <2> QED
    BY <1>1, <2>1, <2>2 DEF SuperInv, OnlyRoot, Supers, RootIsOne, RootIsThere, accounts
<1> QED
  BY <1>2, <1>3

LEMMA NextSuper == TypeInv /\ SuperInv /\ [Next]_vars => SuperInv'
<1> SUFFICES ASSUME TypeInv, SuperInv, [Next]_vars PROVE SuperInv'
  OBVIOUS
<1>1. CASE UNCHANGED vars
  BY <1>1 DEF vars, people, SuperInv, OnlyRoot, RootIsOne, RootIsThere, Supers, accounts, Harmless
<1>2. CASE GainRecord \/ MarkAnswer
  BY <1>2 DEF GainRecord, MarkAnswer, SuperInv, OnlyRoot, RootIsOne, RootIsThere, Supers, accounts, Harmless
<1> QED
  BY <1>1, <1>2, BootSuper, ServeSuper DEF Next

LEMMA SuperSuffices == SuperInv => OneSuperAdmin
<1> SUFFICES ASSUME SuperInv PROVE OneSuperAdmin
  OBVIOUS
<1>1. Supers = {} \/ Supers = {Root}
  BY DEF SuperInv, OnlyRoot
<1>2. Cardinality(Supers) <= 1
  <2>1. CASE Supers = {}
    <3>1. Cardinality({}) = 0
      BY FS_EmptySet
    <3> QED
      BY <2>1, <3>1
  <2>2. CASE Supers = {Root}
    <3>1. Cardinality({Root}) = 1
      BY FS_Singleton
    <3> QED
      BY <2>2, <3>1
  <2> QED
    BY <1>1, <2>1, <2>2
<1>3. Root \in accounts => Root \in Supers
  BY DEF SuperInv, RootIsOne, Supers
<1> QED
  BY <1>1, <1>2, <1>3 DEF OneSuperAdmin, SuperInv, RootIsThere

(* A server that serves has exactly one super admin behind it, whichever     *)
(* servers start together and whatever administrators do to each other       *)
(* (SuperAdminBootstrapService.ensure, assertCanGrantRole, removeRole,       *)
(* remove).                                                                  *)
THEOREM SuperAdminIsOne == Spec => []OneSuperAdmin
<1>1. Spec => []SuperInv
  BY InitSuper, NextSuper, TypeCorrect, PTL DEF Spec
<1> QED
  BY <1>1, SuperSuffices, PTL

-----------------------------------------------------------------------------
\* The floor of rights

(* What a server knows from the entries it has passed.                       *)
Reached(s) ==
  /\ boot[s].pc \in {"catalogue", "createKey"} =>
       \A i \in 1..Len(Catalogue) : i < boot[s].at => Catalogue[i] \in permissions
  /\ boot[s].pc \in {"grants", "createGrant"} =>
       /\ Keys \subseteq permissions
       /\ \A i \in 1..Len(Defaults) : i < boot[s].at => Defaults[i] \in grants \cup denied

(* A server on its way whose next insert will not collide.                   *)
Working(s) ==
  \/ boot[s].pc \in {"catalogue", "grants"}
  \/ boot[s].pc = "createKey" /\ Catalogue[boot[s].at] \notin permissions
  \/ boot[s].pc = "createGrant" /\ Defaults[boot[s].at] \notin grants

FloorDone == Keys \subseteq permissions /\ Floor \subseteq grants \cup denied

(* Until the floor is there somebody is still working on it: whoever makes   *)
(* another server's insert collide has just inserted that row, and goes on.  *)
Carried ==
  \/ broken \/ FloorDone
  \/ \E s \in Servers : Working(s)
  \/ \A s \in Servers : boot[s].pc \in {"down", "createRoot"}

FloorInv == (\A s \in Servers : Reached(s)) /\ Carried

LEMMA InitFloor == Init => FloorInv
BY DEF Init, FloorInv, Reached, Carried, Down

(* Rights are only ever added, or taken away on record.                      *)
LEMMA RightsGrow ==
  ASSUME [Next]_vars
  PROVE  permissions \subseteq permissions' /\ grants \cup denied \subseteq (grants \cup denied)'
<1>1. CASE UNCHANGED <<permissions, grants, denied>>
  BY <1>1
<1>2. ASSUME NEW s \in Servers, CreatePermission(s) \/ CreateGrant(s)
      PROVE  permissions \subseteq permissions' /\ grants \cup denied \subseteq (grants \cup denied)'
  BY <1>2 DEF CreatePermission, CreateGrant
<1>3. ASSUME NEW h \in Handlers, AddGrant(h) \/ DropGrant(h) \/ UpsertPermission(h)
      PROVE  permissions \subseteq permissions' /\ grants \cup denied \subseteq (grants \cup denied)'
  BY <1>3 DEF AddGrant, DropGrant, UpsertPermission
<1>4. ASSUME NEW s \in Servers, FindSuperAdmin(s) \/ CreateSuperAdmin(s) \/ FindPermission(s)
                                 \/ FindGrant(s) \/ Crash(s)
      PROVE  UNCHANGED <<permissions, grants, denied>>
  BY <1>4 DEF FindSuperAdmin, CreateSuperAdmin, FindPermission, FindGrant, Crash, rights
<1>5. ASSUME NEW h \in Handlers, Serve(h), ~(AddGrant(h) \/ DropGrant(h) \/ UpsertPermission(h))
      PROVE  UNCHANGED <<permissions, grants, denied>>
  BY <1>5 DEF Serve, Authorise, Check, InsertUser, SetStatus, CountRecords, DeleteUser, AddRole,
              DropRole, rights
<1>6. GainRecord \/ MarkAnswer \/ UNCHANGED vars => UNCHANGED <<permissions, grants, denied>>
  BY DEF GainRecord, MarkAnswer, vars, rights
<1> QED
  BY <1>1, <1>2, <1>3, <1>4, <1>5, <1>6 DEF Next, Boot

(* What is known stays known where nobody moves.                             *)
LEMMA StaysReached ==
  ASSUME [Next]_vars, NEW s \in Servers, Reached(s), boot'[s] = boot[s]
  PROVE  Reached(s)'
BY RightsGrow DEF Reached

LEMMA DoneStays == ASSUME [Next]_vars, FloorDone PROVE FloorDone'
BY RightsGrow DEF FloorDone

(* Past the last permission, and past the last grant.                        *)
LEMMA AfterLastNext ==
  ASSUME NEW s \in Servers, Keys \subseteq permissions', boot'[s] = AfterCatalogue
  PROVE  Reached(s)' /\ (Working(s)' \/ FloorDone')
<1>1. CASE Defaults = <<>>
  BY <1>1, Lengths DEF AfterCatalogue, Reached, FloorDone, Up
<1>2. CASE Defaults # <<>>
  BY <1>2, Lengths DEF AfterCatalogue, Reached, Working
<1> QED
  BY <1>1, <1>2

(* A server that steps knows more and works on, or everything is there.      *)
Progress(s) == Reached(s)' /\ (Working(s)' \/ FloorDone')

LEMMA FindPermissionFloor ==
  ASSUME TypeInv, NEW s \in Servers, Reached(s), FindPermission(s)
  PROVE  Progress(s)
<1>1. permissions' = permissions /\ grants' = grants /\ denied' = denied
  BY DEF FindPermission, rights
<1>2. PICK n \in 1..Len(Catalogue) :
           /\ boot[s] = [pc |-> "catalogue", at |-> n]
           /\ \/ Catalogue[n] \in permissions /\ n < Len(Catalogue) /\ Start(s, [pc |-> "catalogue", at |-> n + 1])
              \/ Catalogue[n] \in permissions /\ n = Len(Catalogue) /\ Start(s, AfterCatalogue)
              \/ Catalogue[n] \notin permissions /\ Start(s, [pc |-> "createKey", at |-> n])
  BY FindPermissionGoes
<1>3. \A i \in 1..Len(Catalogue) : i < n => Catalogue[i] \in permissions
  BY <1>2 DEF Reached
<1>4. CASE Catalogue[n] \in permissions /\ n < Len(Catalogue) /\ Start(s, [pc |-> "catalogue", at |-> n + 1])
  <2>1. boot'[s] = [pc |-> "catalogue", at |-> n + 1]
    BY <1>4 DEF Start, TypeInv
  <2> QED
    BY <1>1, <1>3, <1>4, <2>1, Lengths DEF Progress, Reached, Working
<1>5. CASE Catalogue[n] \in permissions /\ n = Len(Catalogue) /\ Start(s, AfterCatalogue)
  <2>1. \A i \in 1..Len(Catalogue) : Catalogue[i] \in permissions
    <3>1. \A i \in 1..Len(Catalogue) : i < n \/ i = n
      BY <1>5, Lengths
    <3> QED
      BY <1>3, <1>5, <3>1
  <2>2. Keys \subseteq permissions'
    BY <1>1, <2>1, Lengths
  <2>3. boot'[s] = AfterCatalogue
    BY <1>5 DEF Start, TypeInv
  <2> QED
    BY <2>2, <2>3, AfterLastNext DEF Progress
<1>6. CASE Catalogue[n] \notin permissions /\ Start(s, [pc |-> "createKey", at |-> n])
  <2>1. boot'[s] = [pc |-> "createKey", at |-> n]
    BY <1>6 DEF Start, TypeInv
  <2> QED
    BY <1>1, <1>3, <1>6, <2>1 DEF Progress, Reached, Working
<1> QED
  BY <1>2, <1>4, <1>5, <1>6

LEMMA CreatePermissionFloor ==
  ASSUME TypeInv, NEW s \in Servers, Reached(s), CreatePermission(s), Working(s)
  PROVE  Progress(s)
<1>1. grants' = grants /\ denied' = denied
  BY DEF CreatePermission
<1>2. PICK n \in 1..Len(Catalogue) :
           /\ boot[s] = [pc |-> "createKey", at |-> n]
           /\ \/ Catalogue[n] \in permissions /\ Start(s, Up) /\ permissions' = permissions
              \/ /\ Catalogue[n] \notin permissions /\ permissions' = permissions \cup {Catalogue[n]}
                 /\ \/ n < Len(Catalogue) /\ Start(s, [pc |-> "catalogue", at |-> n + 1])
                    \/ n = Len(Catalogue) /\ Start(s, AfterCatalogue)
  BY CreatePermissionGoes
<1>3. /\ permissions' = permissions \cup {Catalogue[n]}
      /\ \/ n < Len(Catalogue) /\ Start(s, [pc |-> "catalogue", at |-> n + 1])
         \/ n = Len(Catalogue) /\ Start(s, AfterCatalogue)
  BY <1>2 DEF Working
<1>4. \A i \in 1..Len(Catalogue) : i < n + 1 => Catalogue[i] \in permissions'
  BY <1>2, <1>3, Lengths DEF Reached
<1>5. CASE n < Len(Catalogue) /\ Start(s, [pc |-> "catalogue", at |-> n + 1])
  <2>1. boot'[s] = [pc |-> "catalogue", at |-> n + 1]
    BY <1>5 DEF Start, TypeInv
  <2> QED
    BY <1>4, <2>1 DEF Progress, Reached, Working
<1>6. CASE n = Len(Catalogue) /\ Start(s, AfterCatalogue)
  <2>1. \A i \in 1..Len(Catalogue) : i < n + 1
    BY <1>6, Lengths
  <2>2. \A i \in 1..Len(Catalogue) : Catalogue[i] \in permissions'
    BY <1>4, <2>1
  <2>3. Keys \subseteq permissions'
    BY <2>2, Lengths
  <2>4. boot'[s] = AfterCatalogue
    BY <1>6 DEF Start, TypeInv
  <2> QED
    BY <2>3, <2>4, AfterLastNext DEF Progress
<1> QED
  BY <1>3, <1>5, <1>6

(* One more grant is there, or was the last.                                 *)
LEMMA GrantPassed ==
  ASSUME TypeInv, NEW s \in Servers, NEW n \in 1..Len(Defaults), Keys \subseteq permissions',
         \A i \in 1..Len(Defaults) : i < n + 1 => Defaults[i] \in (grants \cup denied)',
         \/ n < Len(Defaults) /\ Start(s, [pc |-> "grants", at |-> n + 1])
         \/ n = Len(Defaults) /\ Start(s, Up)
  PROVE  Progress(s)
<1>1. CASE n < Len(Defaults) /\ Start(s, [pc |-> "grants", at |-> n + 1])
  <2>1. boot'[s] = [pc |-> "grants", at |-> n + 1]
    BY <1>1 DEF Start, TypeInv
  <2> QED
    BY <2>1 DEF Progress, Reached, Working
<1>2. CASE n = Len(Defaults) /\ Start(s, Up)
  <2>1. boot'[s] = Up
    BY <1>2 DEF Start, TypeInv
  <2>2. FloorDone'
    BY <1>2, Lengths DEF FloorDone
  <2> QED
    BY <2>1, <2>2 DEF Progress, Reached, Up
<1> QED
  BY <1>1, <1>2

LEMMA FindGrantFloor ==
  ASSUME TypeInv, NEW s \in Servers, Reached(s), FindGrant(s)
  PROVE  Progress(s)
<1>1. permissions' = permissions /\ grants' = grants /\ denied' = denied
  BY DEF FindGrant, rights
<1>2. PICK n \in 1..Len(Defaults) :
           /\ boot[s] = [pc |-> "grants", at |-> n]
           /\ \/ /\ Defaults[n] \in grants \/ Defaults[n][2] \notin permissions
                 /\ \/ n < Len(Defaults) /\ Start(s, [pc |-> "grants", at |-> n + 1])
                    \/ n = Len(Defaults) /\ Start(s, Up)
              \/ Defaults[n] \notin grants /\ Start(s, [pc |-> "createGrant", at |-> n])
  BY FindGrantGoes
<1>3. Keys \subseteq permissions /\ \A i \in 1..Len(Defaults) : i < n => Defaults[i] \in grants \cup denied
  BY <1>2 DEF Reached
<1>4. CASE Defaults[n] \notin grants /\ Start(s, [pc |-> "createGrant", at |-> n])
  <2>1. boot'[s] = [pc |-> "createGrant", at |-> n]
    BY <1>4 DEF Start, TypeInv
  <2> QED
    BY <1>1, <1>3, <1>4, <2>1 DEF Progress, Reached, Working
<1>5. CASE ~(Defaults[n] \notin grants /\ Start(s, [pc |-> "createGrant", at |-> n]))
  <2>1. Defaults[n][2] \in Keys
    BY Lengths
  <2>2. Defaults[n] \in grants
    BY <1>2, <1>3, <1>5, <2>1
  <2>3. \A i \in 1..Len(Defaults) : i < n + 1 => Defaults[i] \in (grants \cup denied)'
    BY <1>1, <1>3, <2>2
  <2> QED
    BY <1>1, <1>2, <1>3, <1>5, <2>3, GrantPassed
<1> QED
  BY <1>4, <1>5

LEMMA CreateGrantFloor ==
  ASSUME TypeInv, NEW s \in Servers, Reached(s), CreateGrant(s), Working(s)
  PROVE  Progress(s)
<1>1. permissions' = permissions /\ denied' = denied
  BY DEF CreateGrant
<1>2. PICK n \in 1..Len(Defaults) :
           /\ boot[s] = [pc |-> "createGrant", at |-> n]
           /\ \/ Defaults[n] \in grants /\ Start(s, Up) /\ grants' = grants
              \/ /\ Defaults[n] \notin grants /\ grants' = grants \cup {Defaults[n]}
                 /\ \/ n < Len(Defaults) /\ Start(s, [pc |-> "grants", at |-> n + 1])
                    \/ n = Len(Defaults) /\ Start(s, Up)
  BY CreateGrantGoes
<1>3. /\ grants' = grants \cup {Defaults[n]}
      /\ \/ n < Len(Defaults) /\ Start(s, [pc |-> "grants", at |-> n + 1])
         \/ n = Len(Defaults) /\ Start(s, Up)
  BY <1>2 DEF Working
<1>4. Keys \subseteq permissions'
      /\ \A i \in 1..Len(Defaults) : i < n + 1 => Defaults[i] \in (grants \cup denied)'
  BY <1>1, <1>2, <1>3 DEF Reached
<1> QED
  BY <1>3, <1>4, GrantPassed

(* A server whose insert collides changes nothing but its own place; whoever *)
(* was working still is.                                                     *)
LEMMA GivingUp ==
  ASSUME TypeInv, Carried, NEW s \in Servers, CreatePermission(s) \/ CreateGrant(s), ~Working(s)
  PROVE  Reached(s)' /\ Carried'
<1>1. boot'[s] = Up /\ UNCHANGED <<permissions, grants, denied, broken>>
  <2>1. CASE CreatePermission(s)
    <3>1. Start(s, Up) /\ permissions' = permissions
      BY <2>1 DEF CreatePermission, Working
    <3> QED
      BY <2>1, <3>1 DEF CreatePermission, Start, TypeInv
  <2>2. CASE CreateGrant(s)
    <3>1. Start(s, Up) /\ grants' = grants
      BY <2>2 DEF CreateGrant, Working
    <3> QED
      BY <2>2, <3>1 DEF CreateGrant, Start, TypeInv
  <2> QED
    BY <2>1, <2>2
<1>2. boot[s].pc \in {"createKey", "createGrant"} /\ \A t \in Servers \ {s} : boot'[t] = boot[t]
  BY BootMoves DEF Boot, CreatePermission, CreateGrant
<1>3. CASE \E t \in Servers : Working(t)
  <2>1. PICK t \in Servers : Working(t)
    BY <1>3
  <2>2. boot'[t] = boot[t]
    BY <1>2, <2>1
  <2>3. Working(t)'
    BY <1>1, <2>1, <2>2 DEF Working
  <2> QED
    BY <1>1, <2>3 DEF Carried, Reached, Up
<1>4. CASE ~(\E t \in Servers : Working(t))
  BY <1>1, <1>2, <1>4 DEF Carried, FloorDone, Reached, Up
<1> QED
  BY <1>3, <1>4

LEMMA BootFloor ==
  ASSUME TypeInv, FloorInv, [Next]_vars, NEW s \in Servers, Boot(s) \/ Crash(s)
  PROVE  FloorInv'
<1>1. \A t \in Servers \ {s} : boot'[t] = boot[t] /\ Reached(t)'
  BY BootMoves, StaysReached DEF FloorInv
<1>2. Reached(s) /\ Carried
  BY DEF FloorInv
<1>3. Progress(s) => FloorInv'
  BY <1>1 DEF Progress, FloorInv, Carried
<1>4. CASE FindSuperAdmin(s)
  <2>1. UNCHANGED <<permissions, grants, denied, broken>> /\ boot[s].pc = "down"
    BY <1>4 DEF FindSuperAdmin, rights
  <2>2. boot'[s] = [pc |-> "catalogue", at |-> 1] \/ boot'[s] = [pc |-> "createRoot"]
    BY <1>4 DEF FindSuperAdmin, Start, TypeInv
  <2>3. CASE boot'[s] = [pc |-> "catalogue", at |-> 1]
    BY <1>3, <2>3 DEF Progress, Reached, Working
  <2>4. CASE boot'[s] = [pc |-> "createRoot"]
    <3>1. Reached(s)' /\ boot'[s].pc = "createRoot"
      BY <2>4 DEF Reached
    <3>2. \A t \in Servers : Working(t) => Working(t)'
      BY <1>1, <2>1 DEF Working
    <3>3. Carried'
      BY <1>1, <1>2, <2>1, <3>1, <3>2 DEF Carried, FloorDone
    <3> QED
      BY <1>1, <3>1, <3>3 DEF FloorInv
  <2> QED
    BY <2>2, <2>3, <2>4
<1>5. CASE CreateSuperAdmin(s)
  <2>1. boot'[s] = [pc |-> "catalogue", at |-> 1]
    BY <1>5 DEF CreateSuperAdmin, Start, TypeInv
  <2> QED
    BY <1>3, <2>1 DEF Progress, Reached, Working
<1>6. CASE FindPermission(s)
  BY <1>2, <1>3, <1>6, FindPermissionFloor
<1>7. CASE FindGrant(s)
  BY <1>2, <1>3, <1>7, FindGrantFloor
<1>8. CASE CreatePermission(s) \/ CreateGrant(s)
  <2>1. CASE Working(s)
    BY <1>2, <1>3, <1>8, <2>1, CreatePermissionFloor, CreateGrantFloor
  <2>2. CASE ~Working(s)
    BY <1>1, <1>2, <1>8, <2>2, GivingUp DEF FloorInv
  <2> QED
    BY <2>1, <2>2
<1>9. CASE Crash(s)
  <2>1. UNCHANGED <<permissions, grants, denied>> /\ boot'[s] = Down
    BY <1>9 DEF Crash, Start, rights, TypeInv
  <2>2. Reached(s)'
    BY <2>1 DEF Reached, Down
  <2>3. CASE boot[s].pc # "up"
    <3>1. broken'
      BY <1>9, <2>3 DEF Crash
    <3> QED
      BY <1>1, <2>2, <3>1 DEF FloorInv, Carried
  <2>4. CASE boot[s].pc = "up"
    <3>1. broken' = broken
      BY <1>9, <2>4 DEF Crash, TypeInv
    <3>2. \A t \in Servers : Working(t) => Working(t)'
      BY <1>1, <2>1, <2>4 DEF Working
    <3>3. Carried'
      BY <1>2, <2>1, <2>4, <3>1, <3>2 DEF Carried, FloorDone
    <3> QED
      BY <1>1, <2>2, <3>3 DEF FloorInv
  <2> QED
    BY <2>3, <2>4
<1> QED
  BY <1>4, <1>5, <1>6, <1>7, <1>8, <1>9 DEF Boot

LEMMA ServeFloor ==
  ASSUME TypeInv, FloorInv, [Next]_vars, NEW h \in Handlers, Serve(h)
  PROVE  FloorInv'
<1>1. boot' = boot /\ (broken => broken')
  BY DEF TypeInv, Serve, Authorise, Check, InsertUser, SetStatus, CountRecords, DeleteUser, AddRole,
         DropRole, AddGrant, DropGrant, UpsertPermission
<1>2. (\A t \in Servers : Reached(t)') /\ (FloorDone => FloorDone')
  BY <1>1, StaysReached, DoneStays DEF FloorInv
<1>3. \A t \in Servers : Working(t) => Working(t)' \/ broken'
  <2> SUFFICES ASSUME NEW t \in Servers, Working(t), ~broken' PROVE Working(t)'
    OBVIOUS
  <2>1. t \in InProgress
    BY DEF Working, InProgress
  <2>2. permissions' \subseteq permissions /\ grants' \subseteq grants
    <3>1. CASE AddGrant(h)
      BY <2>1, <3>1 DEF AddGrant
    <3>2. CASE UpsertPermission(h)
      BY <2>1, <3>2 DEF UpsertPermission
    <3>3. CASE DropGrant(h)
      BY <3>3 DEF DropGrant
    <3>4. CASE ~(AddGrant(h) \/ UpsertPermission(h) \/ DropGrant(h))
      BY <3>4 DEF Serve, Authorise, Check, InsertUser, SetStatus, CountRecords, DeleteUser, AddRole,
              DropRole, rights
    <3> QED
      BY <3>1, <3>2, <3>3, <3>4
  <2> QED
    BY <1>1, <2>2 DEF Working
<1>4. Carried'
  BY <1>1, <1>2, <1>3 DEF FloorInv, Carried
<1> QED
  BY <1>2, <1>4 DEF FloorInv

LEMMA NextFloor == TypeInv /\ FloorInv /\ [Next]_vars => FloorInv'
<1> SUFFICES ASSUME TypeInv, FloorInv, [Next]_vars PROVE FloorInv'
  OBVIOUS
<1>1. CASE UNCHANGED vars \/ GainRecord \/ MarkAnswer
  <2>1. boot' = boot /\ UNCHANGED <<permissions, grants, denied, broken>>
    BY <1>1 DEF vars, rights, GainRecord, MarkAnswer
  <2>2. \A t \in Servers : Reached(t)' /\ (Working(t) => Working(t)')
    BY <2>1, StaysReached DEF FloorInv, Working
  <2> QED
    BY <2>1, <2>2 DEF FloorInv, Carried, FloorDone
<1> QED
  BY <1>1, BootFloor, ServeFloor DEF Next

LEMMA FloorSuffices == FloorInv => FloorIsInstalled
<1> SUFFICES ASSUME FloorInv, \A s \in Servers : boot[s] = Up, ~broken
             PROVE  Keys \subseteq permissions /\ Floor \ denied \subseteq grants
  BY DEF FloorIsInstalled
<1>1. \A s \in Servers : ~Working(s) /\ boot[s].pc = "up"
  BY DEF Working, Up
<1>2. FloorDone
  BY <1>1, ServersAssumption DEF FloorInv, Carried
<1> QED
  BY <1>2 DEF FloorDone

(* Servers that start together may knock each other out of the               *)
(* reconciliation, but not all of them                                       *)
(* (PermissionsBootstrapService.ensure).                                     *)
THEOREM FloorHolds == Spec => []FloorIsInstalled
<1>1. Spec => []FloorInv
  BY InitFloor, NextFloor, TypeCorrect, PTL DEF Spec
<1> QED
  BY <1>1, FloorSuffices, PTL

-----------------------------------------------------------------------------
(* Documents: the revision log.  What keeps it gapless is the number of the  *)
(* revisions that are still to be committed: whatever a handler read before  *)
(* the others published, it names a revision that is there already, and is   *)
(* rolled back, or the next free one.                                        *)

\* A handler between reading a document and publishing it.
Publishing(n) ==
  [pc : {"publish"}, version : 1..n + 1, content : Wordings]

\* The log has n revisions, one for every version that was published.
LogHas(n) ==
  /\ log \in [1..n -> Wordings]
  /\ stamped = {<<v, log[v]>> : v \in 1..n}
  /\ docVersion \in {n, n + 1} /\ docVersion > 0
  /\ docStatus = "PUBLISHED" => docVersion = n
  /\ edit \in [Writers -> {Pages!Idle} \cup Publishing(n)]

LogInv == content \in Wordings /\ \E n \in Nat : LogHas(n)

\* A new document has no revision.
LEMMA LogInit == Pages!Init => LogInv
<1> SUFFICES ASSUME Pages!Init PROVE LogInv
  OBVIOUS
<1>1. log \in [1..0 -> Wordings] /\ stamped = {<<v, log[v]>> : v \in 1..0}
  BY DEF Pages!Init
<1>2. LogHas(0)
  BY <1>1 DEF Pages!Init, LogHas, Pages!Idle
<1> QED BY <1>2 DEF LogInv, Pages!Init

\* Writing the text or the status leaves the log as it is.
LEMMA TextAndStatus ==
  ASSUME LogInv, UNCHANGED <<log, stamped, docVersion, edit>>,
         content' \in Wordings, docStatus' = "PUBLISHED" => docStatus = "PUBLISHED"
  PROVE  LogInv'
<1>1. PICK n \in Nat : LogHas(n)
  BY DEF LogInv
<1>2. LogHas(n)'
  BY <1>1 DEF LogHas, Publishing, Pages!Idle
<1> QED BY <1>2 DEF LogInv

\* A handler that starts to publish takes a version of the log, or the next.
LEMMA PublishKeepsLog ==
  ASSUME LogInv, NEW e \in Writers, Pages!PublishDocument(e)
  PROVE  LogInv'
<1>1. PICK n \in Nat : LogHas(n)
  BY DEF LogInv
<1>2. Pages!NextVersion(docStatus, docVersion) \in 1..n + 1
  BY <1>1 DEF LogHas, Pages!NextVersion
<1>3. edit'[e] \in Publishing(n)
  BY <1>1, <1>2 DEF Pages!PublishDocument, Pages!Set, Publishing, LogInv, LogHas
<1>4. edit' \in [Writers -> {Pages!Idle} \cup Publishing(n)]
  BY <1>1, <1>3 DEF Pages!PublishDocument, Pages!Set, LogHas
<1>5. LogHas(n)'
  BY <1>1, <1>4 DEF LogHas, Pages!PublishDocument, Pages!document, Publishing, Pages!Idle
<1> QED BY <1>5 DEF LogInv, Pages!PublishDocument, Pages!document

\* A publication whose number is taken is rolled back, and the free number
\* it can take is the one after the last.
LEMMA CommitKeepsLog ==
  ASSUME LogInv, NEW e \in Writers, Pages!CommitPublish(e)
  PROVE  LogInv'
<1>1. PICK n \in Nat : LogHas(n)
  BY DEF LogInv
<1> DEFINE j == edit[e]
<1>2. j \in Publishing(n)
  BY <1>1 DEF LogHas, Pages!CommitPublish, Pages!At, Pages!Idle
<1>3. edit' \in [Writers -> {Pages!Idle} \cup Publishing(n)]
  BY <1>1 DEF LogHas, Pages!CommitPublish, Pages!Finish, Pages!Set
<1>4. CASE j.version \in DOMAIN log
  <2>1. UNCHANGED <<log, stamped, docStatus, docVersion>>
    BY <1>4 DEF Pages!CommitPublish
  <2>2. LogHas(n)'
    BY <1>1, <1>3, <2>1 DEF LogHas, Publishing, Pages!Idle
  <2> QED BY <2>2 DEF LogInv, Pages!CommitPublish
<1>5. CASE j.version \notin DOMAIN log
  <2>1. j.version = n + 1 /\ DOMAIN log = 1..n /\ j.content \in Wordings
    BY <1>1, <1>2, <1>5 DEF LogHas, Publishing
  <2>2. 1..n + 1 = (1..n) \cup {n + 1}
    OBVIOUS
  <2>3. log' = [v \in 1..n + 1 |-> IF v = n + 1 THEN j.content ELSE log[v]]
    BY <1>5, <2>1, <2>2 DEF Pages!CommitPublish
  <2>4. log' \in [1..n + 1 -> Wordings]
    BY <1>1, <2>1, <2>2, <2>3 DEF LogHas
  <2>5. stamped' = {<<v, log'[v]>> : v \in 1..n + 1}
    <3>1. stamped' = {<<v, log[v]>> : v \in 1..n} \cup {<<n + 1, j.content>>}
      BY <1>1, <1>5, <2>1 DEF Pages!CommitPublish, LogHas
    <3>2. \A v \in 1..n : v # n + 1 /\ log'[v] = log[v]
      BY <2>2, <2>3
    <3>3. log'[n + 1] = j.content
      BY <2>2, <2>3
    <3> HIDE DEF j
    <3> QED BY <2>2, <3>1, <3>2, <3>3, ZenonT(30)
  <2>6. docStatus' = "PUBLISHED" /\ docVersion' = n + 1
    BY <1>5, <2>1 DEF Pages!CommitPublish
  <2>7. edit' \in [Writers -> {Pages!Idle} \cup Publishing(n + 1)]
    <3>1. Publishing(n) \subseteq Publishing(n + 1)
      BY DEF Publishing
    <3> QED BY <1>3, <3>1
  <2>8. LogHas(n + 1)'
    BY <2>4, <2>5, <2>6, <2>7 DEF LogHas, Publishing, Pages!Idle
  <2> QED BY <2>8 DEF LogInv, Pages!CommitPublish
<1> QED BY <1>4, <1>5

\* A request that ends half-way has written nothing.
LEMMA AbortKeepsLog ==
  ASSUME LogInv, NEW e \in Writers, Pages!Abort(e)
  PROVE  LogInv'
<1>1. PICK n \in Nat : LogHas(n)
  BY DEF LogInv
<1>2. edit' \in [Writers -> {Pages!Idle} \cup Publishing(n)]
  BY <1>1 DEF LogHas, Pages!Abort, Pages!Finish, Pages!Set
<1>3. LogHas(n)'
  BY <1>1, <1>2 DEF LogHas, Pages!Abort, Pages!document, Publishing, Pages!Idle
<1> QED BY <1>3 DEF LogInv, Pages!Abort, Pages!document

LEMMA LogStep == LogInv /\ [Pages!Next]_documentVars => LogInv'
<1> SUFFICES ASSUME LogInv, [Pages!Next]_documentVars PROVE LogInv'
  OBVIOUS
<1>1. CASE UNCHANGED documentVars
  BY <1>1, TextAndStatus DEF documentVars, LogInv
<1>2. CASE \E e \in Writers : Pages!UpdateDocument(e)
  BY <1>2, TextAndStatus DEF Pages!UpdateDocument
<1>3. CASE \E e \in Writers : Pages!PublishDocument(e)
  BY <1>3, PublishKeepsLog
<1>4. CASE \E e \in Writers : Pages!CommitPublish(e)
  BY <1>4, CommitKeepsLog
<1>5. CASE \E e \in Writers : Pages!ArchiveDocument(e)
  BY <1>5, TextAndStatus DEF Pages!ArchiveDocument, LogInv
<1>6. CASE \E e \in Writers : Pages!RevertDocument(e)
  <2>1. content' \in Wordings
    BY <1>6 DEF Pages!RevertDocument, LogInv, LogHas
  <2> QED BY <1>6, <2>1, TextAndStatus DEF Pages!RevertDocument
<1>7. CASE \E e \in Writers : Pages!Abort(e)
  BY <1>7, AbortKeepsLog
<1> QED BY <1>1, <1>2, <1>3, <1>4, <1>5, <1>6, <1>7 DEF Pages!Next

LEMMA LogIsEnough == LogInv => Pages!LogIsGapless
<1> SUFFICES ASSUME LogInv PROVE Pages!LogIsGapless
  OBVIOUS
<1>1. PICK n \in Nat : LogHas(n)
  BY DEF LogInv
<1>2. DOMAIN log = 1..n
  BY <1>1 DEF LogHas
<1>3. DOMAIN log \in {1..docVersion - 1, 1..docVersion}
  BY <1>1, <1>2 DEF LogHas
<1>4. \A v \in DOMAIN log : stamped \cap ({v} \X Wordings) = {<<v, log[v]>>}
  <2> TAKE v \in DOMAIN log
  <2>1. <<v, log[v]>> \in stamped \cap ({v} \X Wordings)
    BY <1>1, <1>2 DEF LogHas
  <2>2. ASSUME NEW p \in stamped \cap ({v} \X Wordings) PROVE p = <<v, log[v]>>
    BY <1>1, <2>2 DEF LogHas
  <2> QED BY <2>1, <2>2
<1> QED BY <1>3, <1>4 DEF Pages!LogIsGapless

(* However publications race, fail and are reverted, the published versions *)
(* of a document are numbered 1, 2, 3, ... and each stands for one text     *)
(* (ContentService.publishDocument, revertDocument).                        *)
THEOREM VersionsAreGapless == AdminSpec => []LogIsGapless
<1>1. AdminInit => LogInv
  BY LogInit DEF AdminInit
<1>2. LogInv /\ [AdminNext]_adminVars => LogInv'
  BY LogStep DEF AdminNext, adminVars, documentVars
<1>3. LogInv => LogIsGapless
  BY LogIsEnough DEF LogIsGapless
<1> QED BY <1>1, <1>2, <1>3, PTL DEF AdminSpec

-----------------------------------------------------------------------------
(* ExamAccess: who is let in.  What one count has answered stays true of the *)
(* assignments for as long as none is added, or none is removed, and the     *)
(* history of the check says when that was so.                               *)

Answers == UNION {[C -> BOOLEAN] : C \in SUBSET Entry!Counts}

DoorTyped ==
  /\ door \in [Students -> [pc : {"away", "counting", "admitted", "refused"}, got : Answers]]
  /\ seen \in [Students -> [listed : BOOLEAN, added : BOOLEAN, removed : BOOLEAN]]

\* A count was answered, and its answer was none.
None(s, q) == q \in DOMAIN door[s].got /\ ~door[s].got[q]
Some(s, q) == q \in DOMAIN door[s].got /\ door[s].got[q]

\* While a student who was at no moment listed is checked.
Unlisted(s) ==
  /\ ~Entry!Listed(s)
  /\ ~Some(s, "mine") /\ ~Some(s, "through class")
  /\ None(s, "direct") =>
       (invited = {} \/ seen[s].added) /\ (pushed # {} \/ seen[s].removed)
  /\ None(s, "classes") =>
       (pushed = {} \/ seen[s].added) /\ (invited # {} \/ seen[s].removed)
  /\ None(s, "direct") /\ None(s, "classes") => seen[s].added /\ seen[s].removed

DoorInv ==
  /\ DoorTyped
  /\ \A s \in Students : door[s].pc = "counting" => seen[s].listed \/ Unlisted(s)
  /\ Entry!AdmittedOnlyIfListed

LEMMA DoorInit == Entry!Init => DoorInv
<1> SUFFICES ASSUME Entry!Init PROVE DoorInv
  OBVIOUS
<1>1. <<>> \in [{} -> BOOLEAN]
  OBVIOUS
<1>2. <<>> \in Answers
  BY <1>1 DEF Answers
<1> QED BY <1>2 DEF Entry!Init, DoorInv, DoorTyped, Entry!AdmittedOnlyIfListed

\* What happened during a check is not forgotten while it lasts.
LEMMA WatchRemembers ==
  ASSUME DoorTyped, Entry!Watch, NEW s \in Students, door'[s].pc = "counting"
  PROVE  /\ Entry!Listed(s)' => seen'[s].listed
         /\ ~(invited' \subseteq invited /\ pushed' \subseteq pushed) => seen'[s].added
         /\ ~(invited \subseteq invited' /\ pushed \subseteq pushed') => seen'[s].removed
         /\ door[s].pc = "counting" =>
              /\ seen[s].listed => seen'[s].listed
              /\ seen[s].added => seen'[s].added
              /\ seen[s].removed => seen'[s].removed
BY DEF DoorTyped, Entry!Watch

LEMMA WatchTypes ==
  ASSUME DoorTyped, Entry!Watch
  PROVE  seen' \in [Students -> [listed : BOOLEAN, added : BOOLEAN, removed : BOOLEAN]]
<1> DEFINE Lst(s) == Entry!Listed(s)'
<1>1. \A s \in Students : Lst(s) \in BOOLEAN
  BY DEF Entry!Listed
<1> QED BY <1>1 DEF DoorTyped, Entry!Watch

\* The check of a student goes on while somebody else's assignments change.
LEMMA CheckGoesOn ==
  ASSUME DoorInv, Entry!Watch, NEW s \in Students, door'[s] = door[s], door[s].pc = "counting"
  PROVE  seen'[s].listed \/ Unlisted(s)'
<1> SUFFICES ASSUME ~seen'[s].listed PROVE Unlisted(s)'
  OBVIOUS
<1>1. door'[s].pc = "counting"
  OBVIOUS
<1>2. Unlisted(s) /\ ~Entry!Listed(s)'
  BY <1>1, WatchRemembers DEF DoorInv
<1>3. /\ (invited' \subseteq invited /\ pushed' \subseteq pushed) \/ seen'[s].added
      /\ (invited \subseteq invited' /\ pushed \subseteq pushed') \/ seen'[s].removed
      /\ seen[s].added => seen'[s].added
      /\ seen[s].removed => seen'[s].removed
  BY <1>1, WatchRemembers DEF DoorInv
<1>4. \A q : (None(s, q)' <=> None(s, q)) /\ (Some(s, q)' <=> Some(s, q))
  BY DEF None, Some
<1> QED BY <1>2, <1>3, <1>4 DEF Unlisted

\* What one step of the students' side leaves of a check that goes on.
LEMMA GuestsUnchanged ==
  ASSUME DoorInv, Entry!Watch, UNCHANGED <<invited, pushed, enrolled>>, NEW s \in Students,
         door[s].pc = "counting", door'[s].pc = "counting", ~seen'[s].listed
  PROVE  /\ ~Entry!Listed(s) /\ ~Entry!Listed(s)' /\ Unlisted(s)
         /\ seen[s].added => seen'[s].added
         /\ seen[s].removed => seen'[s].removed
<1>1. Entry!Listed(s)' <=> Entry!Listed(s)
  BY DEF Entry!Listed
<1>2. DoorTyped
  BY DEF DoorInv
<1>3. /\ Entry!Listed(s)' => seen'[s].listed
      /\ seen[s].listed => seen'[s].listed
      /\ seen[s].added => seen'[s].added
      /\ seen[s].removed => seen'[s].removed
  BY <1>2, WatchRemembers
<1> QED BY <1>1, <1>3 DEF DoorInv

LEMMA CountKeeps ==
  ASSUME DoorInv, Entry!Watch, NEW s \in Students, NEW q \in Entry!Counts, Entry!Count(s, q)
  PROVE  door'[s].pc = "counting" /\ (seen'[s].listed \/ Unlisted(s)')
<1>1. door' = [door EXCEPT ![s].got =
                 [k \in DOMAIN @ \cup {q} |-> IF k = q THEN Entry!NonZero(q, s) ELSE @[k]]]
      /\ door[s].pc = "counting" /\ UNCHANGED <<invited, pushed, enrolled>>
  BY DEF Entry!Count, Entry!guests
<1>2. door'[s].pc = "counting"
      /\ door'[s].got = [k \in DOMAIN door[s].got \cup {q} |->
                           IF k = q THEN Entry!NonZero(q, s) ELSE door[s].got[k]]
  BY <1>1 DEF DoorInv, DoorTyped
<1> SUFFICES ASSUME ~seen'[s].listed PROVE Unlisted(s)'
  BY <1>2
<1>3. /\ ~Entry!Listed(s) /\ ~Entry!Listed(s)' /\ Unlisted(s)
      /\ seen[s].added => seen'[s].added
      /\ seen[s].removed => seen'[s].removed
  BY <1>1, <1>2, GuestsUnchanged
<1>4. \A k : k # q => (None(s, k)' <=> None(s, k)) /\ (Some(s, k)' <=> Some(s, k))
  BY <1>2 DEF None, Some
<1>5. (None(s, q)' <=> ~Entry!NonZero(q, s)) /\ (Some(s, q)' <=> Entry!NonZero(q, s))
  BY <1>2 DEF None, Some
<1>6. CASE q = "direct"
  <2>1. Entry!NonZero(q, s) <=> invited # {}
    BY <1>6 DEF Entry!NonZero
  <2>2. None(s, q)' => pushed # {} /\ invited = {}
    BY <1>3, <1>5, <2>1 DEF Entry!Listed
  <2> QED BY <1>1, <1>3, <1>4, <1>6, <2>2 DEF Unlisted
<1>7. CASE q = "classes"
  <2>1. Entry!NonZero(q, s) <=> pushed # {}
    BY <1>7 DEF Entry!NonZero
  <2>2. None(s, q)' => pushed = {} /\ invited # {}
    BY <1>3, <1>5, <2>1 DEF Entry!Listed
  <2> QED BY <1>1, <1>3, <1>4, <1>7, <2>2 DEF Unlisted
<1>8. CASE q \in {"mine", "through class"}
  <2>1. ~Entry!NonZero(q, s)
    BY <1>3, <1>8 DEF Entry!NonZero, Entry!Listed
  <2> QED BY <1>1, <1>3, <1>4, <1>5, <1>8, <2>1 DEF Unlisted
<1> QED BY <1>6, <1>7, <1>8 DEF Entry!Counts

\* A student is let in who was listed, or was counted while staff exchanged
\* the exam's assignments.
LEMMA LetIn ==
  ASSUME DoorInv, Entry!Watch, NEW s \in Students, Entry!AssertStudentAuthorized(s),
         door'[s].pc = "admitted"
  PROVE  seen'[s].listed \/ (seen'[s].added /\ seen'[s].removed)
<1>1. /\ door[s].pc = "counting" /\ DOMAIN door[s].got = Entry!Counts
      /\ Entry!OpenToAll(door[s].got) \/ door[s].got["mine"] \/ door[s].got["through class"]
  BY DEF Entry!AssertStudentAuthorized, DoorInv, DoorTyped
<1>2. seen'[s] = seen[s]
  BY DEF Entry!Watch
<1>3. CASE ~seen[s].listed
  <2>1. Unlisted(s)
    BY <1>1, <1>3 DEF DoorInv
  <2>2. None(s, "direct") /\ None(s, "classes")
    BY <1>1, <2>1 DEF Unlisted, Some, None, Entry!OpenToAll, Entry!Counts
  <2> QED BY <1>2, <2>1, <2>2 DEF Unlisted
<1> QED BY <1>2, <1>3

LEMMA DoorTypes ==
  ASSUME DoorTyped, NEW s \in Students, Entry!Student(s)
  PROVE  door' \in [Students -> [pc : {"away", "counting", "admitted", "refused"}, got : Answers]]
<1>1. <<>> \in Answers
  <2>1. <<>> \in [{} -> BOOLEAN]
    OBVIOUS
  <2> QED BY <2>1 DEF Answers
<1>2. CASE Entry!AskToStart(s)
  BY <1>1, <1>2 DEF Entry!AskToStart, DoorTyped
<1>3. CASE Entry!AssertStudentAuthorized(s)
  BY <1>1, <1>3 DEF Entry!AssertStudentAuthorized, DoorTyped
<1>4. ASSUME NEW q \in Entry!Counts, Entry!Count(s, q)
      PROVE  door' \in [Students -> [pc : {"away", "counting", "admitted", "refused"}, got : Answers]]
  <2> DEFINE got == [k \in DOMAIN door[s].got \cup {q} |->
                       IF k = q THEN Entry!NonZero(q, s) ELSE door[s].got[k]]
  <2>1. door' = [door EXCEPT ![s].got = got]
    BY <1>4 DEF Entry!Count
  <2>2. PICK C \in SUBSET Entry!Counts : door[s].got \in [C -> BOOLEAN]
    <3>1. door[s].got \in Answers
      BY DEF DoorTyped
    <3> QED BY <3>1 DEF Answers
  <2>3. Entry!NonZero(q, s) \in BOOLEAN
    <3>1. q = "direct" => Entry!NonZero(q, s) \in BOOLEAN
      BY DEF Entry!NonZero
    <3>2. q = "classes" => Entry!NonZero(q, s) \in BOOLEAN
      BY DEF Entry!NonZero
    <3>3. q = "mine" => Entry!NonZero(q, s) \in BOOLEAN
      BY DEF Entry!NonZero
    <3>4. q = "through class" => Entry!NonZero(q, s) \in BOOLEAN
      BY DEF Entry!NonZero
    <3> QED BY <3>1, <3>2, <3>3, <3>4 DEF Entry!Counts
  <2>4. got \in [C \cup {q} -> BOOLEAN]
    BY <2>2, <2>3
  <2>5. got \in Answers
    BY <2>4 DEF Answers
  <2> HIDE DEF got
  <2> QED BY <2>1, <2>5 DEF DoorTyped
<1> QED BY <1>2, <1>3, <1>4 DEF Entry!Student

\* The door of one student moves, the others wait.
LEMMA StudentStep ==
  ASSUME DoorInv, Entry!Watch, NEW s \in Students, Entry!Student(s)
  PROVE  DoorInv'
<1>1. DoorTyped'
  BY WatchTypes, DoorTypes DEF DoorInv, DoorTyped
<1>2. \A u \in Students : u # s => door'[u] = door[u]
  BY DEF Entry!Student, Entry!AskToStart, Entry!Count, Entry!AssertStudentAuthorized, DoorInv, DoorTyped
<1>3. ASSUME NEW u \in Students, door'[u].pc = "counting" PROVE seen'[u].listed \/ Unlisted(u)'
  <2>1. CASE u # s
    BY <1>2, <1>3, <2>1, CheckGoesOn
  <2>2. CASE u = s /\ Entry!AskToStart(s)
    <3>1. DOMAIN door'[s].got = {}
      BY <2>2 DEF Entry!AskToStart, DoorInv, DoorTyped
    <3>2. Entry!Listed(s)' => seen'[s].listed
      BY <1>3, <2>2, WatchRemembers DEF DoorInv
    <3> QED BY <2>2, <3>1, <3>2 DEF Unlisted, None, Some
  <2>3. CASE u = s /\ \E q \in Entry!Counts : Entry!Count(s, q)
    BY <2>3, CountKeeps
  <2>4. CASE u = s /\ Entry!AssertStudentAuthorized(s)
    BY <1>3, <2>4 DEF Entry!AssertStudentAuthorized, DoorInv, DoorTyped
  <2> QED BY <2>1, <2>2, <2>3, <2>4 DEF Entry!Student
<1>4. ASSUME NEW u \in Students, door'[u].pc = "admitted"
      PROVE  seen'[u].listed \/ (seen'[u].added /\ seen'[u].removed)
  <2>1. CASE u # s
    <3>1. seen'[u] = seen[u]
      BY <1>4 DEF Entry!Watch
    <3> QED BY <1>2, <1>4, <2>1, <3>1 DEF DoorInv, Entry!AdmittedOnlyIfListed
  <2>2. CASE u = s /\ Entry!AssertStudentAuthorized(s)
    BY <1>4, <2>2, LetIn
  <2>3. CASE u = s /\ (Entry!AskToStart(s) \/ \E q \in Entry!Counts : Entry!Count(s, q))
    <3>1. Entry!AskToStart(s) => door'[s].pc = "counting"
      BY DEF Entry!AskToStart, DoorInv, DoorTyped
    <3>2. door'[s].pc = "counting"
      BY <2>3, <3>1, CountKeeps
    <3> QED BY <1>4, <2>3, <3>2
  <2> QED BY <2>1, <2>2, <2>3 DEF Entry!Student
<1> QED BY <1>1, <1>3, <1>4 DEF DoorInv, Entry!AdmittedOnlyIfListed

\* Whatever staff do to the assignments, the door stays.
LEMMA StaffStep ==
  ASSUME DoorInv, Entry!Watch, UNCHANGED door
  PROVE  DoorInv'
<1>1. DoorTyped'
  BY WatchTypes DEF DoorInv, DoorTyped
<1>2. \A u \in Students : door'[u].pc = "counting" => seen'[u].listed \/ Unlisted(u)'
  BY CheckGoesOn
<1>3. \A u \in Students : door'[u].pc = "admitted" => seen'[u] = seen[u]
  BY DEF Entry!Watch
<1> QED BY <1>1, <1>2, <1>3 DEF DoorInv, Entry!AdmittedOnlyIfListed

LEMMA DoorStep == DoorInv /\ (Entry!Next \/ Rights!Next \/ UNCHANGED accessVars) => DoorInv'
<1> SUFFICES ASSUME DoorInv, Entry!Next \/ Rights!Next \/ UNCHANGED accessVars PROVE DoorInv'
  OBVIOUS
<1>1. CASE Entry!Next
  BY <1>1, StaffStep, StudentStep DEF Entry!Next
<1>2. CASE Rights!Next
  <2>1. Entry!Watch
    BY <1>2 DEF Rights!Next, Rights!Watch, Rights!Listed, Entry!Watch, Entry!Listed
  <2>2. CASE UNCHANGED door
    BY <2>1, <2>2, StaffStep
  <2>3. CASE \E s \in Students : Rights!Student(s)
    <3>1. PICK s \in Students : Rights!Student(s)
      BY <2>3
    <3>2. Entry!Student(s)
      BY <3>1 DEF Rights!Student, Rights!AskToStart, Rights!Count, Rights!Counts, Rights!NonZero,
        Rights!AssertStudentAuthorized, Rights!OpenToAll, Rights!rights, Rights!guests,
        Entry!Student, Entry!AskToStart, Entry!Count, Entry!Counts, Entry!NonZero,
        Entry!AssertStudentAuthorized, Entry!OpenToAll, Entry!rights, Entry!guests
    <3> QED BY <2>1, <3>2, StudentStep
  <2> QED BY <1>2, <2>2, <2>3 DEF Rights!Next
<1>3. CASE UNCHANGED accessVars
  BY <1>3 DEF accessVars, DoorInv, DoorTyped, Unlisted, None, Some, Entry!Listed,
    Entry!AdmittedOnlyIfListed
<1> QED BY <1>1, <1>2, <1>3

(* However the four counts of a check interleave with the assignments staff *)
(* put in and take away, whoever is let in was listed for the exam at one   *)
(* moment of the check, unless one assignment came and another went         *)
(* meanwhile (ExamSessionsService.assertStudentAuthorized).                 *)
THEOREM NobodyUnlistedIsLetIn == AdminSpec => []AdmittedOnlyIfListed
<1>1. AdminInit => DoorInv
  BY DoorInit DEF AdminInit
<1>2. DoorInv /\ [AdminNext]_adminVars => DoorInv'
  BY DoorStep DEF AdminNext, adminVars, accessVars
<1>3. DoorInv => AdmittedOnlyIfListed
  BY DEF DoorInv, AdmittedOnlyIfListed
<1> QED BY <1>1, <1>2, <1>3, PTL DEF AdminSpec

-----------------------------------------------------------------------------
(* Certificates: the templates.  The argument is that of CertificatesProofs, *)
(* about the part of this specification that is Certificates.                *)

Copies == INSTANCE CertificatesProofs

LEMMA SameCount == \A S : Designs!Cardinality(S) = Copies!Cardinality(S)
BY DEF Designs!Cardinality, Copies!Cardinality

LEMMA DesignsAssumed == Copies!ResultsAssumption /\ Copies!TemplatesAssumption
<1>1. Copies!IsFiniteSet(Results) <=> IsFiniteSet(Results)
  BY DEF Copies!IsFiniteSet, IsFiniteSet
<1> QED BY <1>1, DesignAssumption DEF Copies!ResultsAssumption, Copies!TemplatesAssumption

LEMMA DesignsStartAsCopies == Designs!Init => Copies!Init
BY DEF Designs!Init, Copies!Init, Designs!Idle, Copies!Idle, Designs!Serving, Copies!Serving

\* What is counted is counted alike.
LEMMA BatchesAreAlike ==
  /\ \A S : Designs!Batches(S) = Copies!Batches(S)
  /\ \A k, found : Designs!AfterBatch(k, found) = Copies!AfterBatch(k, found)
  /\ Designs!MayLose <=> Copies!MayLose
  /\ Designs!Uncertified = Copies!Uncertified /\ Designs!Certified = Copies!Certified
<1>1. Designs!Uncertified = Copies!Uncertified /\ Designs!Certified = Copies!Certified
  BY DEF Designs!Uncertified, Copies!Uncertified, Designs!Certified, Copies!Certified
<1>2. \A S : Designs!Batches(S) = Copies!Batches(S)
  BY SameCount DEF Designs!Batches, Copies!Batches
<1>3. \A k, found : Designs!AfterBatch(k, found) = Copies!AfterBatch(k, found)
  BY SameCount DEF Designs!AfterBatch, Copies!AfterBatch, Designs!Idle, Copies!Idle
<1>4. Designs!MayLose <=> Copies!MayLose
  BY <1>1, SameCount DEF Designs!MayLose, Copies!MayLose
<1> QED BY <1>1, <1>2, <1>3, <1>4

LEMMA IssuersStepAsCopies == \A h : Designs!IssuerStep(h) => Copies!IssuerStep(h)
<1> USE DEF Designs!results, Copies!results, Designs!templates, Copies!templates, Designs!Idle,
      Copies!Idle, Designs!At, Copies!At, Designs!Set, Copies!Set, Designs!Finish, Copies!Finish
<1> TAKE h
<1>1. Designs!SelectBatch(h) => Copies!SelectBatch(h)
  BY BatchesAreAlike DEF Designs!SelectBatch, Copies!SelectBatch
<1>2. Designs!InsertBatch(h) => Copies!InsertBatch(h)
  <2> SUFFICES ASSUME Designs!InsertBatch(h) PROVE Copies!InsertBatch(h)
    OBVIOUS
  <2> DEFINE new == job[h].on \cap Copies!Uncertified
  <2>1. Designs!Uncertified = Copies!Uncertified
        /\ \A k, found : Designs!AfterBatch(k, found) = Copies!AfterBatch(k, found)
    BY BatchesAreAlike
  <2>2. issued' = issued + Copies!Cardinality(new)
    BY <2>1, SameCount DEF Designs!InsertBatch
  <2>3. \E number \in [new -> issued + 1..issued'] :
          /\ \A r, s \in new : number[r] = number[s] => r = s
          /\ cert' = [r \in Results |->
               IF r \in new
               THEN [id |-> number[r], how |-> "BULK", reason |-> FALSE, copy |-> job[h].copy]
               ELSE cert[r]]
    <3> DEFINE old == job[h].on \cap Designs!Uncertified
    <3>1. PICK number \in [old -> issued + 1..issued'] :
            /\ \A r, s \in old : number[r] = number[s] => r = s
            /\ cert' = [r \in Results |->
                 IF r \in old
                 THEN [id |-> number[r], how |-> "BULK", reason |-> FALSE, copy |-> job[h].copy]
                 ELSE cert[r]]
      BY DEF Designs!InsertBatch
    <3>2. old = new
      BY <2>1
    <3> HIDE DEF old, new
    <3> QED BY <3>1, <3>2
  <2>4. /\ Copies!At(h, "insertBatch") /\ UNCHANGED <<Copies!results, Copies!templates>>
        /\ Copies!Set(h, Copies!AfterBatch(job[h], job[h].found))
    BY <2>1 DEF Designs!InsertBatch
  <2> QED BY <2>2, <2>3, <2>4 DEF Copies!InsertBatch
<1>3. Designs!Delete(h) => Copies!Delete(h)
  BY BatchesAreAlike DEF Designs!Delete, Copies!Delete, Designs!Held, Copies!Held
<1>4. Designs!Replace(h) => Copies!Replace(h)
  BY BatchesAreAlike DEF Designs!Replace, Copies!Replace, Designs!Held, Copies!Held, Designs!Made,
    Copies!Made
<1>5. Designs!Resolve(h) \/ Designs!ResolveBatch(h) => Copies!Resolve(h) \/ Copies!ResolveBatch(h)
  BY DEF Designs!Resolve, Copies!Resolve, Designs!ResolveBatch, Copies!ResolveBatch,
    Designs!Resolved, Copies!Resolved
<1>6. Designs!Issue(h) \/ Designs!IssueAgain(h) \/ Designs!Revoke(h) \/ Designs!Reissue(h)
        => Copies!Issue(h) \/ Copies!IssueAgain(h) \/ Copies!Revoke(h) \/ Copies!Reissue(h)
  BY DEF Designs!Issue, Copies!Issue, Designs!IssueAgain, Copies!IssueAgain, Designs!Revoke,
    Copies!Revoke, Designs!Reissue, Copies!Reissue, Designs!Uncertified, Copies!Uncertified,
    Designs!Certified, Copies!Certified
<1>7. Designs!Insert(h) \/ Designs!Collide(h) \/ Designs!IssueOnPublish(h)
        => Copies!Insert(h) \/ Copies!Collide(h) \/ Copies!IssueOnPublish(h)
  BY DEF Designs!Insert, Copies!Insert, Designs!Collide, Copies!Collide, Designs!IssueOnPublish,
    Copies!IssueOnPublish, Designs!Uncertified, Copies!Uncertified, Designs!Made, Copies!Made
<1>8. Designs!Repair(h) \/ Designs!GenerateForExam(h) \/ Designs!PublishResult(h)
        \/ Designs!WritePublished(h) \/ Designs!Grade(h) \/ Designs!CommitGrade(h)
        => Copies!Repair(h) \/ Copies!GenerateForExam(h) \/ Copies!PublishResult(h)
             \/ Copies!WritePublished(h) \/ Copies!Grade(h) \/ Copies!CommitGrade(h)
  BY DEF Designs!Repair, Copies!Repair, Designs!GenerateForExam, Copies!GenerateForExam,
    Designs!PublishResult, Copies!PublishResult, Designs!WritePublished, Copies!WritePublished,
    Designs!Grade, Copies!Grade, Designs!CommitGrade, Copies!CommitGrade
<1> QED BY <1>1, <1>2, <1>3, <1>4, <1>5, <1>6, <1>7, <1>8
      DEF Designs!IssuerStep, Copies!IssuerStep, Designs!Generate, Copies!Generate

LEMMA AdminsStepAsCopies == \A h : Designs!AdminStep(h) => Copies!AdminStep(h)
BY DEF Designs!AdminStep, Copies!AdminStep, Designs!CreateTemplate, Copies!CreateTemplate,
    Designs!UpdateTemplate, Copies!UpdateTemplate, Designs!WriteTemplate, Copies!WriteTemplate,
    Designs!WriteRevision, Copies!WriteRevision, Designs!PublishTemplate, Copies!PublishTemplate,
    Designs!CommitPublish, Copies!CommitPublish, Designs!SetDefaultTemplate,
    Copies!SetDefaultTemplate, Designs!ClearDefault, Copies!ClearDefault, Designs!Promote,
    Copies!Promote, Designs!ArchiveTemplate, Copies!ArchiveTemplate, Designs!WriteArchived,
    Copies!WriteArchived, Designs!results, Copies!results, Designs!templates, Copies!templates,
    Designs!Idle, Copies!Idle, Designs!At, Copies!At, Designs!Set, Copies!Set, Designs!Finish,
    Copies!Finish, Designs!Revision, Copies!Revision, Designs!Unrevised, Copies!Unrevised

LEMMA DesignsStepAsCopies == [Designs!Next]_templateVars => [Copies!Next]_(Copies!vars)
<1>1. Designs!FileResult => Copies!FileResult
  BY DEF Designs!FileResult, Copies!FileResult, Designs!templates, Copies!templates
<1>2. \A h : Designs!Fail(h) => Copies!Fail(h)
  BY DEF Designs!Fail, Copies!Fail, Designs!At, Copies!At, Designs!Finish, Copies!Finish, Designs!Set,
    Copies!Set, Designs!Idle, Copies!Idle, Designs!results, Copies!results, Designs!templates,
    Copies!templates
<1>3. UNCHANGED templateVars => UNCHANGED Copies!vars
  BY DEF templateVars, Copies!vars, Copies!results, Copies!templates
<1> QED BY <1>1, <1>2, <1>3, IssuersStepAsCopies, AdminsStepAsCopies
      DEF Designs!Next, Copies!Next, Designs!Serving, Copies!Serving

(* With one request at a time at the templates, however it is interleaved   *)
(* with the issuing of certificates, a version of a template is one wording *)
(* (ContentService.updateTemplate, publishTemplate, resolveForExam).         *)
THEOREM OneEditorOneText ==
  (\A a, b \in Admins : a = b) /\ AdminSpec => []VersionsMeanOneText
<1>1. AdminInit => Copies!Init
  BY DesignsStartAsCopies DEF AdminInit
<1>2. [AdminNext]_adminVars => [Copies!Next]_(Copies!vars)
  BY DesignsStepAsCopies DEF AdminNext, adminVars
<1>3. Copies!VersionsMeanOneText => VersionsMeanOneText
  BY DEF Copies!VersionsMeanOneText, VersionsMeanOneText, Designs!VersionsMeanOneText
<1>4. Copies!OneEditor /\ Copies!Spec => []Copies!VersionsMeanOneText
  BY DesignsAssumed, Copies!OneTextPerVersion
<1>5. (\A a, b \in Admins : a = b) => Copies!OneEditor
  BY DEF Copies!OneEditor
<1> QED BY <1>1, <1>2, <1>3, <1>4, <1>5, PTL DEF AdminSpec, Copies!Spec

-----------------------------------------------------------------------------
(* Sums over finite sets.  The provers have no induction over sets: a claim *)
(* about every subset of a finite set is proved from a least subset that    *)
(* breaks it, one element larger than one that does not.                    *)

\* The recursion that adds f up over the subsets of S, element by element, and
\* the sum it computes: what MapThenSumSet stands for in Authoring, Scoring and
\* Reports, whose instances each bring their own copy of it.
AnyOf(s) == CHOOSE y \in s : TRUE
Sums(g, f, S) ==
  g = [s \in SUBSET S |-> IF s = {} THEN 0 ELSE f[AnyOf(s)] + g[s \ {AnyOf(s)}]]
SumOf(f, S) == (CHOOSE g : Sums(g, f, S))[S]

LEMMA AnyIsIn == \A s : s # {} => AnyOf(s) \in s
BY DEF AnyOf

\* Among subsets of a finite set some are least (WellFoundedInduction).
LEMMA LeastSet ==
  ASSUME NEW S, IsFiniteSet(S), NEW F \in SUBSET (SUBSET S), F # {}
  PROVE  \E A \in F : \A B \in F : B \subseteq A => B = A
<1>1. IsWellFoundedOn(StrictSubsetOrdering(S), FiniteSubsetsOf(S))
  BY FS_StrictSubsetOrderingWellFounded
<1>2. F \subseteq FiniteSubsetsOf(S)
  BY FS_Subset DEF FiniteSubsetsOf
<1>3. PICK A \in F : \A B \in F : <<B, A>> \notin StrictSubsetOrdering(S)
  BY <1>1, <1>2, WFMin
<1> QED BY <1>2, <1>3 DEF StrictSubsetOrdering

LEMMA LeastNumber ==
  ASSUME NEW N \in SUBSET Nat, N # {}
  PROVE  \E n \in N : \A m \in N : n <= m
<1>1. PICK n \in N : \A m \in N : <<m, n>> \notin OpToRel(<, Nat)
  BY NatLessThanWellFounded, WFMin
<1>2. \A m \in N : ~(m < n)
  BY <1>1 DEF OpToRel
<1> QED BY <1>2

\* The recursion has one answer where two functions agree, ...
LEMMA FoldsAgree ==
  ASSUME NEW f, NEW e, NEW A, NEW B, NEW g, NEW h, Sums(g, f, A), Sums(h, e, B),
         NEW s, IsFiniteSet(s), s \subseteq A, s \subseteq B, \A x \in s : f[x] = e[x]
  PROVE  g[s] = h[s]
<1> DEFINE F == {t \in SUBSET s : g[t] # h[t]}
<1> SUFFICES F = {}
  OBVIOUS
<1>1. ASSUME F # {} PROVE FALSE
  <2>1. PICK t \in F : \A u \in F : u \subseteq t => u = t
    <3>1. F \in SUBSET (SUBSET s)
      OBVIOUS
    <3> HIDE DEF F
    <3> QED BY <1>1, <3>1, LeastSet
  <2>2. t # {}
    BY <2>1 DEF Sums
  <2>3. AnyOf(t) \in t
    BY <2>2, AnyIsIn
  <2>4. g[t \ {AnyOf(t)}] = h[t \ {AnyOf(t)}]
    BY <2>1, <2>3
  <2>5. t \subseteq A /\ t \subseteq B /\ f[AnyOf(t)] = e[AnyOf(t)]
    BY <2>1, <2>3
  <2>6. g[t] = f[AnyOf(t)] + g[t \ {AnyOf(t)}]
    BY <2>2, <2>5 DEF Sums
  <2>7. h[t] = e[AnyOf(t)] + h[t \ {AnyOf(t)}]
    BY <2>2, <2>5 DEF Sums
  <2>8. g[t] # h[t]
    BY <2>1
  <2> QED BY <2>4, <2>5, <2>6, <2>7, <2>8
<1> QED BY <1>1

\* ... and it has an answer.
LEMMA FoldsExist ==
  ASSUME NEW f, NEW S, IsFiniteSet(S)
  PROVE  \E g : Sums(g, f, S)
<1> DEFINE F == {t \in SUBSET S : ~\E g : Sums(g, f, t)}
<1> SUFFICES F = {}
  OBVIOUS
<1>1. ASSUME F # {} PROVE FALSE
  <2>1. PICK A \in F : \A u \in F : u \subseteq A => u = A
    <3>1. F \in SUBSET (SUBSET S)
      OBVIOUS
    <3> HIDE DEF F
    <3> QED BY <1>1, <3>1, LeastSet
  <2> DEFINE G(B) == CHOOSE g : Sums(g, f, B)
             h == [s \in SUBSET A |-> IF s = {} THEN 0 ELSE f[AnyOf(s)] + SumOf(f, s \ {AnyOf(s)})]
  <2>2. \A B \in SUBSET A : B # A => Sums(G(B), f, B)
    BY <2>1
  <2>3. \A B \in SUBSET A : IsFiniteSet(B)
    BY FS_Subset
  <2>4. ASSUME NEW B \in SUBSET A, B # A PROVE h[B] = SumOf(f, B)
    <3>1. CASE B = {}
      <4>1. Sums(G({}), f, {})
        BY <3>1, <2>2, <2>4
      <4> QED BY <3>1, <4>1 DEF Sums, SumOf
    <3>2. CASE B # {}
      <4>1. AnyOf(B) \in B
        BY <3>2, AnyIsIn
      <4> DEFINE C == B \ {AnyOf(B)}
      <4>2. C \in SUBSET A /\ C # A /\ C \subseteq B /\ IsFiniteSet(C)
        BY <4>1, <2>3
      <4>3. Sums(G(B), f, B) /\ Sums(G(C), f, C)
        BY <4>2, <2>2, <2>4
      <4>4. G(B)[C] = G(C)[C]
        <5> HIDE DEF C, G
        <5> QED BY <4>2, <4>3, FoldsAgree
      <4>5. SumOf(f, B) = f[AnyOf(B)] + G(B)[C]
        BY <4>3, <3>2 DEF Sums, SumOf
      <4> QED BY <4>4, <4>5, <3>2 DEF SumOf
    <3> QED BY <3>1, <3>2
  <2>5. Sums(h, f, A)
    <3>1. \A s \in SUBSET A : s # {} => s \ {AnyOf(s)} \in SUBSET A /\ s \ {AnyOf(s)} # A
      BY AnyIsIn
    <3> QED BY <3>1, <2>4 DEF Sums
  <2> QED BY <2>1, <2>5
<1> QED BY <1>1

LEMMA SumOfNone == \A f : SumOf(f, {}) = 0
<1> TAKE f
<1>1. \E g : Sums(g, f, {})
  BY FoldsExist, FS_EmptySet
<1>2. Sums(CHOOSE g : Sums(g, f, {}), f, {})
  BY <1>1
<1> QED BY <1>2 DEF Sums, SumOf

LEMMA SumsAgree ==
  ASSUME NEW S, IsFiniteSet(S), NEW f, NEW e, \A x \in S : f[x] = e[x]
  PROVE  SumOf(f, S) = SumOf(e, S)
<1>1. \A d : Sums(CHOOSE g : Sums(g, d, S), d, S)
  BY FoldsExist
<1> QED BY <1>1, FoldsAgree DEF SumOf

LEMMA SumUnfolds ==
  ASSUME NEW S, IsFiniteSet(S), S # {}, NEW f
  PROVE  SumOf(f, S) = f[AnyOf(S)] + SumOf(f, S \ {AnyOf(S)})
<1> DEFINE C == S \ {AnyOf(S)}
           g == CHOOSE x : Sums(x, f, S)
           h == CHOOSE x : Sums(x, f, C)
<1>1. IsFiniteSet(C)
  BY FS_Subset
<1>2. Sums(g, f, S) /\ Sums(h, f, C)
  BY <1>1, FoldsExist
<1>3. g[C] = h[C]
  <2> HIDE DEF C, g, h
  <2>1. C \subseteq S BY DEF C
  <2> QED BY <1>1, <1>2, <2>1, FoldsAgree
<1>4. g[S] = f[AnyOf(S)] + g[C]
  BY <1>2 DEF Sums
<1> QED BY <1>3, <1>4 DEF SumOf

LEMMA SumIsInt ==
  ASSUME NEW S, IsFiniteSet(S), NEW f, \A x \in S : f[x] \in Int
  PROVE  SumOf(f, S) \in Int
<1> DEFINE F == {t \in SUBSET S : SumOf(f, t) \notin Int}
<1> SUFFICES F = {}
  OBVIOUS
<1>1. ASSUME F # {} PROVE FALSE
  <2>1. PICK t \in F : \A u \in F : u \subseteq t => u = t
    <3>1. F \in SUBSET (SUBSET S)
      OBVIOUS
    <3> HIDE DEF F
    <3> QED BY <1>1, <3>1, LeastSet
  <2>2. t # {}
    <3>1. SumOf(f, t) \notin Int
      BY <2>1
    <3>2. SumOf(f, {}) \in Int
      BY SumOfNone
    <3> QED BY <3>1, <3>2
  <2>3. AnyOf(t) \in t /\ IsFiniteSet(t)
    BY <2>2, AnyIsIn, FS_Subset
  <2>4. SumOf(f, t \ {AnyOf(t)}) \in Int
    BY <2>1, <2>3
  <2>5. SumOf(f, t) = f[AnyOf(t)] + SumOf(f, t \ {AnyOf(t)})
    BY <2>2, <2>3, SumUnfolds
  <2> QED BY <2>1, <2>3, <2>4, <2>5
<1> QED BY <1>1

\* Any element may be taken out of a sum, whichever the recursion takes first.
LEMMA SumAdds ==
  ASSUME NEW S, IsFiniteSet(S), NEW f, \A x \in S : f[x] \in Int, NEW a \in S
  PROVE  SumOf(f, S) = f[a] + SumOf(f, S \ {a})
<1> DEFINE Fits(t) == \A x \in t : SumOf(f, t) = f[x] + SumOf(f, t \ {x})
           F == {t \in SUBSET S : ~Fits(t)}
<1> SUFFICES F = {}
  OBVIOUS
<1>1. ASSUME F # {} PROVE FALSE
  <2>1. PICK t \in F : \A u \in F : u \subseteq t => u = t
    <3>1. F \in SUBSET (SUBSET S)
      OBVIOUS
    <3> HIDE DEF F
    <3> QED BY <1>1, <3>1, LeastSet
  <2>2. PICK x \in t : SumOf(f, t) # f[x] + SumOf(f, t \ {x})
    BY <2>1
  <2> DEFINE c == AnyOf(t)
  <2>3. c \in t
    BY <2>2, AnyIsIn
  <2>4. \A u \in SUBSET S : IsFiniteSet(u) /\ SumOf(f, u) \in Int
    BY FS_Subset, SumIsInt
  <2>5. SumOf(f, t) = f[c] + SumOf(f, t \ {c})
    BY <2>1, <2>2, <2>4, SumUnfolds
  <2>6. x # c
    BY <2>2, <2>5
  <2>7. Fits(t \ {c}) /\ Fits(t \ {x})
    BY <2>1, <2>2, <2>3
  <2>8. SumOf(f, t \ {c}) = f[x] + SumOf(f, (t \ {c}) \ {x})
    BY <2>7, <2>6, <2>2
  <2>9. SumOf(f, t \ {x}) = f[c] + SumOf(f, (t \ {x}) \ {c})
    BY <2>7, <2>6, <2>3
  <2>10. (t \ {x}) \ {c} = (t \ {c}) \ {x}
    OBVIOUS
  <2> DEFINE rest == SumOf(f, (t \ {c}) \ {x})
  <2>11. SumOf(f, t) = f[c] + (f[x] + rest) /\ SumOf(f, t \ {x}) = f[c] + rest
    BY <2>5, <2>8, <2>9, <2>10
  <2>12. f[c] \in Int /\ f[x] \in Int /\ rest \in Int
    BY <2>1, <2>2, <2>3, <2>4
  <2> HIDE DEF c, rest
  <2> QED BY <2>2, <2>11, <2>12
<1> QED BY <1>1

\* A factor of every term is a factor of the sum.
LEMMA SumScales ==
  ASSUME NEW S, IsFiniteSet(S), NEW c \in Int, NEW f, \A x \in S : f[x] \in Int,
         NEW h, \A x \in S : h[x] = c * f[x]
  PROVE  SumOf(h, S) = c * SumOf(f, S)
<1> DEFINE F == {t \in SUBSET S : SumOf(h, t) # c * SumOf(f, t)}
<1> SUFFICES F = {}
  OBVIOUS
<1>1. ASSUME F # {} PROVE FALSE
  <2>1. PICK t \in F : \A u \in F : u \subseteq t => u = t
    <3>1. F \in SUBSET (SUBSET S)
      OBVIOUS
    <3> HIDE DEF F
    <3> QED BY <1>1, <3>1, LeastSet
  <2>2. t # {}
    <3>1. SumOf(h, {}) = 0 /\ SumOf(f, {}) = 0 /\ c * 0 = 0
      BY SumOfNone
    <3> QED BY <2>1, <3>1
  <2> DEFINE x == AnyOf(t)
             a == SumOf(f, t \ {x})
  <2>3. x \in t /\ IsFiniteSet(t) /\ IsFiniteSet(t \ {x})
    BY <2>2, AnyIsIn, FS_Subset
  <2>4. SumOf(h, t \ {x}) = c * a
    BY <2>1, <2>3
  <2>5. SumOf(f, t) = f[x] + a /\ SumOf(h, t) = h[x] + SumOf(h, t \ {x})
    BY <2>2, <2>3, SumUnfolds
  <2>6. a \in Int /\ f[x] \in Int /\ h[x] = c * f[x]
    <3>1. \A y \in t \ {x} : f[y] \in Int
      OBVIOUS
    <3> QED BY <2>1, <2>3, <3>1, SumIsInt
  <2>7. SumOf(h, t) # c * SumOf(f, t)
    BY <2>1
  <2> HIDE DEF x, a
  <2>8. c * (f[x] + a) = c * f[x] + c * a
    BY <2>6
  <2> QED BY <2>4, <2>5, <2>6, <2>7, <2>8
<1> QED BY <1>1

LEMMA ImageIsFinite ==
  ASSUME NEW S, IsFiniteSet(S), NEW phi
  PROVE  IsFiniteSet({phi[x] : x \in S})
<1> DEFINE T == {phi[x] : x \in S}
           m == [x \in S |-> phi[x]]
<1>1. m \in Surjection(S, T)
  BY DEF Surjection
<1> HIDE DEF T, m
<1>2. IsFiniteSet(T)
  BY <1>1, FS_Surjection DEF ExistsSurjection
<1> QED BY <1>2 DEF T

\* A sum may be taken over the images of an injection.
LEMMA SumMoves ==
  ASSUME NEW S, IsFiniteSet(S), NEW phi, NEW f, NEW h,
         \A x, y \in S : phi[x] = phi[y] => x = y,
         \A x \in S : f[x] \in Int /\ f[x] = h[phi[x]]
  PROVE  SumOf(f, S) = SumOf(h, {phi[x] : x \in S})
<1> DEFINE Image(t) == {phi[x] : x \in t}
           F == {t \in SUBSET S : SumOf(f, t) # SumOf(h, Image(t))}
<1> SUFFICES F = {}
  OBVIOUS
<1>1. ASSUME F # {} PROVE FALSE
  <2>1. PICK t \in F : \A u \in F : u \subseteq t => u = t
    <3>1. F \in SUBSET (SUBSET S)
      OBVIOUS
    <3> HIDE DEF F
    <3> QED BY <1>1, <3>1, LeastSet
  <2>2. t # {}
    <3>1. Image({}) = {}
      OBVIOUS
    <3> HIDE DEF Image
    <3> QED BY <2>1, <3>1, SumOfNone
  <2> DEFINE x == AnyOf(t)
             r == t \ {x}
  <2>3. x \in t /\ t \subseteq S /\ IsFiniteSet(t) /\ IsFiniteSet(Image(t))
    <3>1. IsFiniteSet(t) /\ t \subseteq S
      BY <2>1, FS_Subset
    <3> QED BY <2>2, <3>1, AnyIsIn, ImageIsFinite
  <2>4. SumOf(f, r) = SumOf(h, Image(r))
    BY <2>1, <2>3
  <2>5. SumOf(f, t) = f[x] + SumOf(f, r)
    BY <2>2, <2>3, SumUnfolds
  <2>6. Image(r) = Image(t) \ {phi[x]} /\ phi[x] \in Image(t)
    BY <2>3
  <2>7. \A z \in Image(t) : h[z] \in Int
    BY <2>3
  <2>8. SumOf(h, Image(t)) = h[phi[x]] + SumOf(h, Image(t) \ {phi[x]})
    <3> HIDE DEF x, Image
    <3> QED BY <2>3, <2>6, <2>7, SumAdds
  <2>9. f[x] = h[phi[x]] /\ SumOf(f, t) # SumOf(h, Image(t))
    BY <2>1, <2>3
  <2> HIDE DEF x, r, Image
  <2> QED BY <2>4, <2>5, <2>6, <2>8, <2>9
<1> QED BY <1>1

-----------------------------------------------------------------------------
(* Papers: the points of the questions are the shares of the total.         *)

Share(total, n) ==
  [i \in 1 .. n |-> total \div n + (IF i - 1 < total - (total \div n) * n THEN 1 ELSE 0)]

LEMMA Division ==
  ASSUME NEW a \in Nat, NEW n \in Nat \ {0}
  PROVE  a \div n \in Nat /\ a - (a \div n) * n \in 0 .. n - 1
OBVIOUS

\* An even share each and one more for the first k.
LEMMA StepsAddUp ==
  ASSUME NEW base \in Nat, NEW n \in Nat, NEW rem \in 0 .. n, NEW p,
         p = [i \in 1 .. n |-> base + (IF i - 1 < rem THEN 1 ELSE 0)]
  PROVE  SumOf(p, 1 .. n) = n * base + rem
<1> DEFINE Upto(k) == SumOf(p, 1 .. k) = k * base + (IF k < rem THEN k ELSE rem)
           N == {k \in 0 .. n : ~Upto(k)}
<1>2. ASSUME N # {} PROVE FALSE
  <2>1. PICK k \in N : \A m \in N : k <= m
    <3>1. N \in SUBSET Nat
      OBVIOUS
    <3> HIDE DEF N
    <3> QED BY <1>2, <3>1, LeastNumber
  <2>2. k # 0
    <3>1. SumOf(p, 1 .. 0) = 0
      <4>1. 1 .. 0 = {}
        OBVIOUS
      <4> QED BY <4>1, SumOfNone
    <3> QED BY <3>1, <2>1
  <2>3. k \in 1 .. n /\ k - 1 \in 0 .. n
    BY <2>2
  <2>4. Upto(k - 1)
    <3> HIDE DEF Upto
    <3> QED BY <2>1, <2>3
  <2>5. SumOf(p, 1 .. k) = p[k] + SumOf(p, 1 .. k - 1)
    <3>1. IsFiniteSet(1 .. k) /\ k \in 1 .. k /\ (1 .. k) \ {k} = 1 .. k - 1
      <4> HIDE DEF N
      <4>1. k \in Int /\ 1 \in Int /\ k >= 1
        BY <2>3
      <4>2. IsFiniteSet(1 .. k)
        BY <4>1, FS_Interval
      <4> QED BY <4>1, <4>2
    <3>2. \A x \in 1 .. k : p[x] \in Int
      BY <2>3
    <3> QED BY <3>1, <3>2, SumAdds
  <2>6. p[k] = base + (IF k - 1 < rem THEN 1 ELSE 0)
    BY <2>3
  <2>7. (k - 1) * base + base = k * base
    BY <2>3
  <2>8. k * base \in Int /\ (k - 1) * base \in Int
    BY <2>3
  <2>9. Upto(k)
    BY <2>3, <2>4, <2>5, <2>6, <2>7, <2>8
  <2> QED BY <2>1, <2>9
<1>3. Upto(n)
  <2> HIDE DEF Upto
  <2> QED BY <1>2
<1> QED BY <1>3

\* However many questions share whole marks and whatever the remainder, all of
\* them are handed out (distributePoints).
LEMMA SharesAddUp ==
  ASSUME NEW total \in Nat, NEW n \in Nat \ {0}
  PROVE  SumOf(Share(total, n), 1 .. n) = total
<1> DEFINE base == total \div n
           rem == total - base * n
           p == Share(total, n)
<1>1. base \in Nat /\ rem \in 0 .. n
  BY Division
<1>2. p = [i \in 1 .. n |-> base + (IF i - 1 < rem THEN 1 ELSE 0)]
  BY DEF Share
<1>3. n * base + rem = total
  OBVIOUS
<1> HIDE DEF p, base, rem
<1>4. SumOf(p, 1 .. n) = n * base + rem
  BY <1>1, <1>2, StepsAddUp
<1> QED BY <1>3, <1>4 DEF p

\* A multiple is below a bound exactly when its factor is below the bound divided.
LEMMA Multiples ==
  ASSUME NEW j \in Nat, NEW k \in Nat, NEW u \in Nat \ {0}, NEW rest \in Nat,
         rest <= k * u, k * u < rest + u
  PROVE  j * u < rest <=> j < k
<1>1. CASE j < k
  <2>1. (j + 1) * u <= k * u
    <3>1. PICK d \in Nat : k = (j + 1) + d
      <4>1. k - (j + 1) \in Nat /\ k = (j + 1) + (k - (j + 1))
        BY <1>1
      <4> QED BY <4>1
    <3>2. k * u = (j + 1) * u + d * u /\ d * u \in Nat /\ (j + 1) * u \in Nat
      BY <3>1
    <3> QED BY <3>2
  <2>2. (j + 1) * u = j * u + u /\ j * u \in Nat /\ k * u \in Nat
    OBVIOUS
  <2> QED BY <1>1, <2>1, <2>2
<1>2. CASE j >= k
  <2>1. k * u <= j * u
    <3>1. PICK d \in Nat : j = k + d
      <4>1. j - k \in Nat /\ j = k + (j - k)
        BY <1>2
      <4> QED BY <4>1
    <3>2. j * u = k * u + d * u /\ d * u \in Nat /\ k * u \in Nat
      BY <3>1
    <3> QED BY <3>2
  <2>2. j * u \in Nat /\ k * u \in Nat
    OBVIOUS
  <2> QED BY <1>2, <2>1, <2>2
<1> QED BY <1>1, <1>2

\* With broken marks, the points add up to the next whole mark (distributePoints).
LEMMA PointsAddUp ==
  ASSUME NEW total \in Nat, NEW n \in Nat \ {0}
  PROVE  /\ Papers!DistributePoints(total, n) \in [1 .. n -> Nat]
         /\ LET sum == SumOf(Papers!DistributePoints(total, n), 1 .. n)
            IN  total <= sum * Unit /\ sum * Unit < total + Unit
<1> DEFINE m == Unit * n
           base == total \div m
           rest == total - base * m
           up == rest + Unit - 1
           k == up \div Unit
           p == Papers!DistributePoints(total, n)
<1>1. Unit \in Nat \ {0} /\ m \in Nat \ {0}
  BY PaperAssumption
<1>2. base \in Nat /\ rest \in 0 .. m - 1
  <2> HIDE DEF m
  <2> QED BY <1>1, Division
<1>3. total = base * m + rest /\ base * m \in Nat
  BY <1>1, <1>2
<1>4. p = [i \in 1 .. n |-> base + (IF (i - 1) * Unit < rest THEN 1 ELSE 0)]
  BY DEF Papers!DistributePoints
<1> HIDE DEF base, rest, p
<1>5. up \in Nat /\ k \in Nat /\ up - k * Unit \in 0 .. Unit - 1
  <2>1. up \in Nat
    BY <1>1, <1>2
  <2> HIDE DEF up
  <2> QED BY <1>1, <2>1, Division
<1> HIDE DEF k
<1>6. rest <= k * Unit /\ k * Unit < rest + Unit /\ k * Unit \in Nat
  BY <1>1, <1>2, <1>5
<1>7. \A j \in Nat : j * Unit < rest <=> j < k
  BY <1>1, <1>2, <1>5, <1>6, Multiples
<1>8. k \in 0 .. n
  <2>1. n * Unit = m /\ ~(n * Unit < rest)
    BY <1>1, <1>2
  <2> QED BY <1>5, <1>7, <2>1
<1>9. p = [i \in 1 .. n |-> base + (IF i - 1 < k THEN 1 ELSE 0)]
  <2>1. \A i \in 1 .. n : i - 1 \in Nat
    OBVIOUS
  <2> QED BY <1>4, <1>7, <2>1
<1>10. SumOf(p, 1 .. n) = n * base + k
  BY <1>2, <1>8, <1>9, StepsAddUp
<1>11. (n * base + k) * Unit = base * m + k * Unit
  <2>1. base * m = (n * base) * Unit
    BY <1>1, <1>2
  <2>2. n * base \in Nat
    BY <1>2
  <2> QED BY <1>1, <1>5, <2>1, <2>2
<1>12. total <= SumOf(p, 1 .. n) * Unit /\ SumOf(p, 1 .. n) * Unit < total + Unit
  <2> HIDE DEF m
  <2> QED BY <1>1, <1>2, <1>3, <1>5, <1>6, <1>10, <1>11
<1>13. p \in [1 .. n -> Nat]
  BY <1>2, <1>5, <1>9
<1> QED BY <1>12, <1>13 DEF p

LEMMA PaperSum ==
  \A f, S : Papers!MapThenSumSet(LAMBDA i : f[i], S) = SumOf(f, S)
BY DEF Papers!MapThenSumSet, Papers!MapThenFoldSet, SumOf, Sums, AnyOf

Statuses == {"SCHEDULED", "PUBLISHED", "LIVE", "CLOSED"}
PaperRows == [questions : Seq(Questions), points : Seq(Nat), batch : Nat]
ExamRows  == [total : Nat, passing : Nat, status : Statuses, paper : PaperRows]

\* The exam row is sound, and what the only editor read is still in it.
SoundExam(row) ==
  /\ row \in ExamRows
  /\ row.total # 0 /\ row.passing <= row.total
  /\ row.paper.points = Papers!DistributePoints(row.total, Len(row.paper.questions))
SoundEdit(dto, row) ==
  /\ dto \in [total : Totals \cup {NULL}, passing : Passes \cup {NULL},
              questions : Papers!Papers \cup {NULL}, existing : ExamRows]
  /\ row # NULL
  /\ dto.existing.total = row.total
  /\ dto.existing.passing = row.passing
  /\ dto.existing.paper = row.paper
  /\ Papers!InBounds(IF dto.total = NULL THEN dto.existing.total ELSE dto.total,
                     IF dto.passing = NULL THEN dto.existing.passing ELSE dto.passing)
PaperInv ==
  /\ editing \in [Editors -> {editing[e] : e \in Editors}]
  /\ exam # NULL => SoundExam(exam)
  /\ \A e \in Editors : editing[e] # NULL => SoundEdit(editing[e], exam)

LEMMA RowIsThere == NULL \notin ExamRows
BY PaperAssumption DEF ExamRows, PaperRows, Statuses

LEMMA PapersAreLists == Papers!Papers \subseteq Seq(Questions)
<1>1. Papers!Cardinality(Questions) \in Nat
  BY PaperAssumption, FS_CardinalityType DEF Papers!Cardinality, Cardinality
<1> QED BY <1>1 DEF Papers!Papers

LEMMA PaperIsPriced ==
  ASSUME NEW q \in Seq(Questions), NEW total \in Nat \ {0}, NEW batch \in Nat
  PROVE  /\ Papers!WritePaper(q, total, batch) \in PaperRows
         /\ Papers!WritePaper(q, total, batch).questions = q
         /\ Papers!WritePaper(q, total, batch).points = Papers!DistributePoints(total, Len(q))
         /\ Papers!DistributePoints(total, Len(q)) \in Seq(Nat)
<1>1. Len(q) \in Nat
  OBVIOUS
<1>2. Papers!DistributePoints(total, Len(q)) \in [1 .. Len(q) -> Nat]
  <2>1. CASE Len(q) = 0
    <3>1. 1 .. Len(q) = {}
      BY <2>1
    <3> QED BY <3>1 DEF Papers!DistributePoints
  <2>2. CASE Len(q) # 0
    BY <1>1, <2>2, PointsAddUp
  <2> QED BY <2>1, <2>2
<1>3. Papers!DistributePoints(total, Len(q)) \in Seq(Nat)
  BY <1>1, <1>2
<1> QED BY <1>3 DEF Papers!WritePaper, PaperRows


OneEditor == \A a, b \in Editors : a = b

LEMMA PaperBegins == Papers!Init => PaperInv
BY DEF Papers!Init, PaperInv

LEMMA BoundsGive ==
  ASSUME NEW total, NEW passing, Papers!InBounds(total, passing), total \in Nat, passing \in Nat
  PROVE  total # 0 /\ passing <= total
BY PaperAssumption DEF Papers!InBounds

LEMMA CreateKeeps ==
  ASSUME OneEditor, PaperInv, Papers!Create
  PROVE  PaperInv'
<1>1. PICK total \in Totals, passing \in Passes, p \in Papers!Papers :
        /\ Papers!InBounds(total, passing)
        /\ exam' = [total |-> total, passing |-> passing, status |-> "SCHEDULED",
                    paper |-> Papers!WritePaper(p, total, 1)]
  BY DEF Papers!Create
<1>2. p \in Seq(Questions) /\ total \in Nat /\ passing \in Nat /\ total # 0 /\ passing <= total
  BY PapersAreLists, PaperAssumption, <1>1, BoundsGive
<1>3. SoundExam(exam')
  <2> DEFINE w == Papers!WritePaper(p, total, 1)
  <2>1. w \in PaperRows /\ w.questions = p /\ w.points = Papers!DistributePoints(total, Len(p))
    BY <1>2, PaperIsPriced
  <2>2. exam' = [total |-> total, passing |-> passing, status |-> "SCHEDULED", paper |-> w]
    BY <1>1
  <2> HIDE DEF w
  <2>3. /\ exam'.total = total /\ exam'.passing = passing /\ exam'.paper = w
        /\ exam' \in ExamRows
    BY <1>2, <2>1, <2>2 DEF ExamRows, Statuses
  <2> QED BY <1>2, <2>1, <2>3 DEF SoundExam
<1>4. \A e \in Editors : editing[e] = NULL
  <2>1. exam = NULL
    BY DEF Papers!Create
  <2> QED BY <2>1 DEF PaperInv, SoundEdit
<1>5. UNCHANGED editing
  BY DEF Papers!Create
<1> QED BY <1>3, <1>4, <1>5 DEF PaperInv

LEMMA OpenKeeps ==
  ASSUME OneEditor, PaperInv, NEW e \in Editors, Papers!OpenUpdate(e)
  PROVE  PaperInv'
<1>1. PICK total \in Totals \cup {NULL}, passing \in Passes \cup {NULL},
           p \in Papers!Papers \cup {NULL} :
        /\ Papers!InBounds(IF total = NULL THEN exam.total ELSE total,
                           IF passing = NULL THEN exam.passing ELSE passing)
        /\ editing' = [editing EXCEPT ![e] =
             [total |-> total, passing |-> passing, questions |-> p, existing |-> exam]]
  BY DEF Papers!OpenUpdate
<1>2. exam # NULL /\ SoundExam(exam) /\ UNCHANGED exam
  BY DEF Papers!OpenUpdate, PaperInv
<1>3. editing'[e] = [total |-> total, passing |-> passing, questions |-> p, existing |-> exam]
  BY <1>1 DEF PaperInv
<1>4. SoundEdit(editing'[e], exam')
  BY <1>1, <1>2, <1>3 DEF SoundEdit, SoundExam
<1>5. \A a \in Editors : a = e
  BY DEF OneEditor
<1>6. editing' \in [Editors -> {editing'[a] : a \in Editors}]
  BY <1>1 DEF PaperInv
<1> QED BY <1>2, <1>4, <1>5, <1>6 DEF PaperInv

\* What the only editor writes.
LEMMA DtoIs ==
  ASSUME PaperInv, NEW e \in Editors, editing[e] # NULL
  PROVE  /\ SoundExam(exam) /\ SoundEdit(editing[e], exam)
         /\ LET dto == editing[e]
                new == Papers!Written(dto)
            IN  /\ new \in ExamRows /\ new.paper = exam.paper /\ new.status = exam.status
                /\ new.total = IF dto.total = NULL THEN exam.total ELSE dto.total
                /\ new.total # 0 /\ new.passing <= new.total
<1>1. SoundExam(exam) /\ SoundEdit(editing[e], exam)
  BY DEF PaperInv, SoundEdit
<1> DEFINE dto == editing[e]
           total == IF dto.total = NULL THEN exam.total ELSE dto.total
           passing == IF dto.passing = NULL THEN exam.passing ELSE dto.passing
<1>2. total \in Nat /\ passing \in Nat /\ Papers!InBounds(total, passing)
  BY <1>1, PaperAssumption DEF SoundEdit, SoundExam, ExamRows
<1>3. total # 0 /\ passing <= total
  BY <1>2, BoundsGive
<1>4. Papers!Written(dto) = [exam EXCEPT !.total = total, !.passing = passing]
  BY <1>1 DEF Papers!Written, SoundExam, ExamRows
<1> HIDE DEF dto, total, passing
<1>5. Papers!Written(dto) \in ExamRows /\ Papers!Written(dto).paper = exam.paper
        /\ Papers!Written(dto).status = exam.status
        /\ Papers!Written(dto).total = total /\ Papers!Written(dto).passing = passing
  BY <1>1, <1>2, <1>4 DEF SoundExam, ExamRows
<1> QED BY <1>1, <1>3, <1>5 DEF dto, total

LEMMA ReplaceKeeps ==
  ASSUME OneEditor, PaperInv, NEW e \in Editors, Papers!ReplacePaper(e)
  PROVE  PaperInv'
<1> DEFINE dto == editing[e]
           new == Papers!Written(dto)
           w == Papers!WritePaper(dto.questions, Papers!EffectiveTotal(dto), exam.paper.batch + 1)
<1>1. dto # NULL /\ dto.questions # NULL /\ exam' = [new EXCEPT !.paper = w]
        /\ editing' = [editing EXCEPT ![e] = NULL]
  BY DEF Papers!ReplacePaper
<1>2. /\ SoundExam(exam) /\ SoundEdit(dto, exam)
      /\ new \in ExamRows
      /\ new.total = IF dto.total = NULL THEN exam.total ELSE dto.total
      /\ new.total # 0 /\ new.passing <= new.total
  BY <1>1, DtoIs
<1>3. Papers!EffectiveTotal(dto) = new.total
  BY <1>2 DEF Papers!EffectiveTotal, SoundEdit
<1>4. dto.questions \in Seq(Questions)
  BY <1>1, <1>2, PapersAreLists DEF SoundEdit
<1>5. new.total \in Nat /\ exam.paper.batch + 1 \in Nat
  BY <1>2 DEF SoundExam, ExamRows, PaperRows
<1>6. w \in PaperRows /\ w.points = Papers!DistributePoints(new.total, Len(w.questions))
  BY <1>2, <1>3, <1>4, <1>5, PaperIsPriced
<1>7. \A a \in Editors : editing'[a] = NULL
  BY <1>1 DEF OneEditor, PaperInv
<1>8. editing' \in [Editors -> {editing'[a] : a \in Editors}]
  BY <1>1 DEF PaperInv
<1> HIDE DEF dto, new, w
<1>9. SoundExam(exam')
  BY <1>1, <1>2, <1>6 DEF SoundExam, ExamRows
<1> QED BY <1>7, <1>8, <1>9 DEF PaperInv

LEMMA KeepKeeps ==
  ASSUME OneEditor, PaperInv, NEW e \in Editors, Papers!KeepPaper(e)
  PROVE  PaperInv'
<1> DEFINE dto == editing[e]
           new == Papers!Written(dto)
<1>1. dto # NULL /\ exam' = [new EXCEPT !.paper = Papers!RepricedPaper(dto)]
        /\ editing' = [editing EXCEPT ![e] = NULL]
  BY DEF Papers!KeepPaper
<1>2. /\ SoundExam(exam) /\ SoundEdit(dto, exam)
      /\ new \in ExamRows /\ new.paper = exam.paper
      /\ new.total = IF dto.total = NULL THEN exam.total ELSE dto.total
      /\ new.total # 0 /\ new.passing <= new.total
  BY <1>1, DtoIs
<1> DEFINE w == Papers!RepricedPaper(dto)
           q == exam.paper.questions
<1>3. w \in PaperRows /\ w.points = Papers!DistributePoints(new.total, Len(w.questions))
  <2>1. CASE dto.total = NULL
    BY <1>2, <2>1 DEF Papers!RepricedPaper, SoundExam, ExamRows
  <2>2. CASE dto.total # NULL
    <3>1. q \in Seq(Questions) /\ exam.paper \in PaperRows /\ exam.paper.batch \in Nat
      BY <1>2 DEF SoundExam, ExamRows, PaperRows
    <3>2. new.total = dto.total /\ new.total \in Nat \ {0}
      BY <1>2, <2>2 DEF ExamRows
    <3>3. w = [exam.paper EXCEPT !.points = Papers!DistributePoints(new.total, Len(q))]
      BY <1>2, <2>2, <3>2 DEF Papers!RepricedPaper, SoundEdit
    <3>4. Papers!DistributePoints(new.total, Len(q)) \in Seq(Nat)
      <4> HIDE DEF q, new, dto
      <4> QED BY <3>1, <3>2, PaperIsPriced
    <3>5. q = exam.paper.questions
      OBVIOUS
    <3> HIDE DEF new, dto, w, q
    <3>6. w \in PaperRows /\ w.questions = q
            /\ w.points = Papers!DistributePoints(new.total, Len(q))
      BY <3>1, <3>3, <3>4, <3>5 DEF PaperRows
    <3> QED BY <3>6
  <2> QED BY <2>1, <2>2
<1>4. \A a \in Editors : editing'[a] = NULL
  BY <1>1 DEF OneEditor, PaperInv
<1>5. editing' \in [Editors -> {editing'[a] : a \in Editors}]
  BY <1>1 DEF PaperInv
<1> HIDE DEF dto, new, w
<1>6. SoundExam(exam')
  BY <1>1, <1>2, <1>3 DEF SoundExam, ExamRows, w
<1> QED BY <1>4, <1>5, <1>6 DEF PaperInv

LEMMA StatusKeeps ==
  ASSUME PaperInv, Papers!SetStatus \/ Papers!Restart
  PROVE  PaperInv'
<1>1. PICK s \in Statuses : exam' = [exam EXCEPT !.status = s] /\ exam # NULL /\ UNCHANGED editing
  BY DEF Papers!SetStatus, Papers!Restart, Statuses
<1>2. SoundExam(exam)
  BY <1>1 DEF PaperInv
<1>3. SoundExam(exam') /\ exam'.total = exam.total /\ exam'.passing = exam.passing
        /\ exam'.paper = exam.paper
  BY <1>1, <1>2 DEF SoundExam, ExamRows
<1>4. exam' # NULL
  BY <1>3, RowIsThere DEF SoundExam
<1>5. \A dto : SoundEdit(dto, exam) => SoundEdit(dto, exam')
  BY <1>3, <1>4 DEF SoundEdit
<1> QED BY <1>1, <1>3, <1>5 DEF PaperInv

LEMMA PaperStep ==
  ASSUME OneEditor, PaperInv, [Papers!Next]_paperVars
  PROVE  PaperInv'
<1>1. CASE Papers!Create
  BY <1>1, CreateKeeps
<1>2. CASE Papers!SetStatus \/ Papers!Restart
  BY <1>2, StatusKeeps
<1>3. CASE Papers!Deactivate \/ Papers!Reactivate \/ UNCHANGED paperVars
  <2>1. UNCHANGED <<exam, editing>>
    BY <1>3 DEF Papers!Deactivate, Papers!Reactivate, paperVars
  <2> QED BY <2>1 DEF PaperInv
<1>4. ASSUME NEW e \in Editors, Papers!RefuseUpdate(e) PROVE PaperInv'
  BY <1>4 DEF Papers!RefuseUpdate, PaperInv
<1> QED
  BY <1>1, <1>2, <1>3, <1>4, OpenKeeps, ReplaceKeeps, KeepKeeps DEF Papers!Next

LEMMA PaperGivesSum == PaperInv => PaperAddsUp
<1> SUFFICES ASSUME PaperInv, exam # NULL
             PROVE  /\ exam.passing <= exam.total
                    /\ exam.paper.questions # << >> =>
                         LET sum == SumOf(exam.paper.points, DOMAIN exam.paper.points)
                         IN  exam.total <= sum * Unit /\ sum * Unit < exam.total + Unit
  BY PaperSum DEF PaperAddsUp, Papers!PaperAddsUp
<1>1. SoundExam(exam)
  BY DEF PaperInv
<1> DEFINE n == Len(exam.paper.questions)
<1>2. ASSUME exam.paper.questions # << >>
      PROVE  LET sum == SumOf(exam.paper.points, DOMAIN exam.paper.points)
             IN  exam.total <= sum * Unit /\ sum * Unit < exam.total + Unit
  <2>1. n \in Nat \ {0} /\ exam.total \in Nat
    BY <1>1, <1>2 DEF SoundExam, ExamRows, PaperRows
  <2>2. exam.paper.points = Papers!DistributePoints(exam.total, n)
    BY <1>1 DEF SoundExam
  <2>3. DOMAIN exam.paper.points = 1 .. n
    BY <2>2 DEF Papers!DistributePoints
  <2> HIDE DEF n
  <2> QED BY <2>1, <2>2, <2>3, PointsAddUp
<1> QED BY <1>1, <1>2 DEF SoundExam

(* However one editor changes the marks, the pass mark and the paper of an  *)
(* exam, together or apart, and whatever is done to the questions between     *)
(* the reading and the writing, the points of the paper add up to its total,  *)
(* a broken mark rounded up, and the pass mark stays within reach             *)
(* (ExamsService.create, update, restart).                                    *)
THEOREM MarksAddUp == OneEditor /\ AdminSpec => []PaperAddsUp
<1> SUFFICES ASSUME OneEditor PROVE AdminSpec => []PaperAddsUp
  OBVIOUS
<1>1. AdminInit => PaperInv
  BY PaperBegins DEF AdminInit
<1>2. PaperInv /\ [AdminNext]_adminVars => PaperInv'
  <2>1. [AdminNext]_adminVars => [Papers!Next]_paperVars
    BY DEF AdminNext, adminVars, paperVars
  <2> QED BY <2>1, PaperStep
<1> QED BY <1>1, <1>2, PaperGivesSum, PTL DEF AdminSpec

-----------------------------------------------------------------------------
(* Automatic marking. *)

Grades(given, r) == [i \in Marks!Positions |-> Marks!GradeQuestion(i, given[i], r)]

LEMMA ScoreIsSum ==
  \A given, r : Marks!ScoreAttempt(given, r) = SumOf(Grades(given, r), Marks!Positions)
<1> TAKE given, r
<1> DEFINE f == Grades(given, r)
           S == Marks!Positions
           P(g) == g = [s \in SUBSET S |-> IF s = {} THEN 0 ELSE
                     Marks!GradeQuestion(AnyOf(s), given[AnyOf(s)], r) + g[s \ {AnyOf(s)}]]
<1>1. Marks!ScoreAttempt(given, r) = (CHOOSE g : P(g))[S]
  BY DEF Marks!ScoreAttempt, Marks!MapThenSumSet, Marks!MapThenFoldSet, AnyOf
<1>2. \A g : P(g) <=> Sums(g, f, S)
  <2> TAKE g
  <2>1. \A s \in SUBSET S : s # {} => f[AnyOf(s)] = Marks!GradeQuestion(AnyOf(s), given[AnyOf(s)], r)
    BY AnyIsIn DEF Grades
  <2> QED BY <2>1 DEF Sums
<1>3. IsFiniteSet(S)
  <2>1. Len(Paper) \in Nat
    BY MarkingAssumption
  <2> QED BY <2>1, FS_Interval DEF Marks!Positions
<1>4. \E g : Sums(g, f, S)
  BY <1>3, FoldsExist
<1>5. Sums(CHOOSE g : Sums(g, f, S), f, S) /\ Sums(CHOOSE g : P(g), f, S)
  <2> HIDE DEF P
  <2> QED BY <1>4, <1>2
<1> HIDE DEF P, f, S
<1>6. (CHOOSE g : P(g))[S] = (CHOOSE g : Sums(g, f, S))[S]
  BY <1>5, <1>3, FoldsAgree
<1> QED BY <1>1, <1>6 DEF SumOf, f, S

LEMMA ShareOfEach ==
  /\ IsFiniteSet(Marks!Positions)
  /\ \A i \in Marks!Positions :
       /\ Marks!DistributePoints(i) \in Nat
       /\ Marks!DistributePoints(i) = Share(TotalMarks, Len(Paper))[i]
<1>1. Len(Paper) \in Nat \ {0} /\ TotalMarks \in Nat
  BY MarkingAssumption
<1>2. IsFiniteSet(Marks!Positions)
  BY <1>1, FS_Interval DEF Marks!Positions
<1>3. TotalMarks \div Len(Paper) \in Nat
  BY <1>1, Division
<1> SUFFICES ASSUME NEW i \in Marks!Positions
             PROVE  /\ Marks!DistributePoints(i) \in Nat
                    /\ Marks!DistributePoints(i) = Share(TotalMarks, Len(Paper))[i]
  BY <1>2
<1>4. i \in 1 .. Len(Paper)
  BY DEF Marks!Positions
<1>5. Marks!DistributePoints(i) = Share(TotalMarks, Len(Paper))[i]
  BY <1>4 DEF Marks!DistributePoints, Share
<1>6. Marks!DistributePoints(i) \in Nat
  BY <1>3 DEF Marks!DistributePoints
<1> QED BY <1>5, <1>6

\* What an answer, a right one and a wrong one earn against none at all.
LEMMA GradeIs ==
  ASSUME NEW i \in Marks!Positions, NEW r \in Rates, NEW row
  PROVE  /\ Marks!GradeQuestion(i, row, r) \in Int
         /\ row \in Marks!Rows(Paper[i].kind) /\ Marks!Right(i, row) =>
              /\ Marks!GradeQuestion(i, row, r) = 100 * Marks!DistributePoints(i)
              /\ Marks!GradeQuestion(i, NULL, r) <= Marks!GradeQuestion(i, row, r)
         /\ row \in Marks!Rows(Paper[i].kind) /\ Marks!Wrong(i, row) =>
              Marks!GradeQuestion(i, row, r) <= Marks!GradeQuestion(i, NULL, r)
<1> DEFINE d == Marks!DistributePoints(i)
           q == Paper[i]
<1>1. d \in Nat /\ r \in Nat
  BY ShareOfEach, MarkingAssumption
<1>2. d * r \in Nat /\ 0 - d * r \in Int /\ 0 - d * r <= 0 /\ 100 * d \in Nat
  BY <1>1
<1>3. i \in 1 .. Len(Paper)
  BY DEF Marks!Positions
<1> DEFINE full == 100 * d
           penalty == 0 - d * r
           G(x) == Marks!GradeQuestion(i, x, r)
<1>4. \A x : q.kind = "option" =>
        G(x) = LET selected == IF x = NULL THEN {} ELSE x.selected
               IN IF selected = q.correct THEN full ELSE IF selected = {} THEN 0 ELSE penalty
  BY DEF Marks!GradeQuestion
<1>5. \A x : q.kind = "text" =>
        G(x) = LET typed == IF x = NULL THEN Blank ELSE x.text
               IN IF typed = Blank THEN 0 ELSE IF Marks!Matches(typed, q.correct) THEN full ELSE penalty
  BY DEF Marks!GradeQuestion
<1>6. \A x : q.kind \notin {"option", "text"} => G(x) = 0
  BY DEF Marks!GradeQuestion
<1>7. full \in Nat /\ penalty \in Int /\ penalty <= 0
  BY <1>2
<1> HIDE DEF full, penalty, d, G
<1>8. G(row) \in Int
  BY <1>4, <1>5, <1>6, <1>7
<1>9. ASSUME row \in Marks!Rows(q.kind), Marks!Right(i, row)
      PROVE  G(row) = full /\ G(NULL) <= G(row)
  <2>1. CASE q.kind = "option"
    BY <2>1, <1>4, <1>7, <1>9 DEF Marks!Right
  <2>2. CASE q.kind = "text"
    <3>1. row.text \in q.correct \ {Blank} /\ row # NULL
      BY <2>2, <1>9 DEF Marks!Right
    <3>2. q.correct \subseteq Typed \cup {Blank}
      BY <2>2, <1>3, MarkingAssumption
    <3>3. Marks!Matches(row.text, q.correct)
      BY <3>1, <3>2, MarkingAssumption DEF Marks!Matches
    <3> QED BY <2>2, <3>1, <3>2, <3>3, <1>5, <1>7
  <2> QED BY <2>1, <2>2, <1>9 DEF Marks!Right
<1>10. ASSUME Marks!Wrong(i, row)
       PROVE  G(row) <= G(NULL)
  <2>1. CASE q.kind = "option"
    BY <2>1, <1>4, <1>7, <1>10 DEF Marks!Wrong
  <2>2. CASE q.kind = "text"
    <3>1. row # NULL /\ row.text # Blank /\ ~Marks!Matches(row.text, q.correct)
      BY <2>2, <1>10 DEF Marks!Wrong, Marks!Matches
    <3> QED BY <2>2, <3>1, <1>5, <1>7
  <2> QED BY <2>1, <2>2, <1>10 DEF Marks!Wrong
<1> QED BY <1>8, <1>9, <1>10 DEF full, d, G

LEMMA ClampIs ==
  ASSUME NEW raw \in Int
  PROVE  /\ Marks!ClampScore(raw) \in Nat
         /\ Marks!ClampScore(raw) =
              IF raw <= 0 THEN 0 ELSE IF raw <= 100 * TotalMarks THEN raw ELSE 100 * TotalMarks
<1>1. 100 * TotalMarks \in Nat
  BY MarkingAssumption
<1>2. \A x, y \in Int : Marks!Max({x, y}) = IF x >= y THEN x ELSE y
  BY DEF Marks!Max
<1>3. \A x, y \in Int : Marks!Min({x, y}) = IF x <= y THEN x ELSE y
  BY DEF Marks!Min
<1> QED BY <1>1, <1>2, <1>3 DEF Marks!ClampScore

LEMMA BetterScoresMore ==
  ASSUME NEW a \in Int, NEW b \in Int, a <= b
  PROVE  Marks!Metrics(a).score <= Marks!Metrics(b).score
         /\ (Marks!Metrics(a).passed => Marks!Metrics(b).passed)
<1>1. Marks!ClampScore(a) \in Nat /\ Marks!ClampScore(b) \in Nat
        /\ Marks!ClampScore(a) <= Marks!ClampScore(b)
  <2>1. 100 * TotalMarks \in Nat
    BY MarkingAssumption
  <2> QED BY <2>1, ClampIs
<1>2. 100 * PassingMarks \in Nat
  BY MarkingAssumption
<1>3. \A x : Marks!Metrics(x).score = Marks!ClampScore(x)
        /\ Marks!Metrics(x).passed = (Marks!ClampScore(x) >= 100 * PassingMarks)
  BY DEF Marks!Metrics
<1>4. Marks!ClampScore(a) >= 100 * PassingMarks => Marks!ClampScore(b) >= 100 * PassingMarks
  BY <1>1, <1>2
<1>5. Marks!Metrics(a).passed => Marks!Metrics(b).passed
  BY <1>3, <1>4
<1> QED BY <1>1, <1>3, <1>5

\* Leaving out one answer changes the sum by that question alone.
LEMMA ScoresDiffer ==
  ASSUME NEW given, NEW r \in Rates, NEW i \in Marks!Positions,
         given = [j \in Marks!Positions |-> given[j]]
  PROVE  LET without == [given EXCEPT ![i] = NULL]
         IN  \E rest \in Int :
               /\ Marks!ScoreAttempt(given, r) = Marks!GradeQuestion(i, given[i], r) + rest
               /\ Marks!ScoreAttempt(without, r) = Marks!GradeQuestion(i, NULL, r) + rest
<1> DEFINE without == [given EXCEPT ![i] = NULL]
           S == Marks!Positions
           f == Grades(given, r)
           h == Grades(without, r)
           rest == SumOf(f, S \ {i})
<1>1. IsFiniteSet(S) /\ IsFiniteSet(S \ {i})
  BY ShareOfEach, FS_Subset
<1>2. \A j \in S : f[j] \in Int /\ h[j] \in Int
  BY GradeIs DEF Grades
<1>3. f[i] = Marks!GradeQuestion(i, given[i], r) /\ h[i] = Marks!GradeQuestion(i, NULL, r)
  BY DEF Grades
<1>4. \A j \in S \ {i} : h[j] = f[j]
  BY DEF Grades
<1>5. Marks!ScoreAttempt(given, r) = SumOf(f, S) /\ Marks!ScoreAttempt(without, r) = SumOf(h, S)
  BY ScoreIsSum
<1>6. i \in S
  OBVIOUS
<1> HIDE DEF f, h, without, S
<1>7. SumOf(f, S) = f[i] + rest
  BY <1>1, <1>2, <1>6, SumAdds
<1>8. SumOf(h, S) = h[i] + SumOf(h, S \ {i})
  BY <1>1, <1>2, <1>6, SumAdds
<1>9. SumOf(h, S \ {i}) = rest
  BY <1>1, <1>4, SumsAgree
<1>10. rest \in Int
  BY <1>1, <1>2, SumIsInt
<1> HIDE DEF rest
<1>11. /\ Marks!ScoreAttempt(given, r) = Marks!GradeQuestion(i, given[i], r) + rest
       /\ Marks!ScoreAttempt(without, r) = Marks!GradeQuestion(i, NULL, r) + rest
  BY <1>3, <1>5, <1>7, <1>8, <1>9
<1> QED BY <1>10, <1>11 DEF without

LEMMA PerfectScores ==
  ASSUME NEW given, NEW r \in Rates,
         \A i \in Marks!Positions : given[i] \in Marks!Rows(Paper[i].kind) /\ Marks!Right(i, given[i])
  PROVE  Marks!ScoreAttempt(given, r) = 100 * TotalMarks
<1> DEFINE f == Share(TotalMarks, Len(Paper))
           h == Grades(given, r)
<1>1. \A i \in Marks!Positions : f[i] \in Int /\ h[i] = 100 * f[i]
  BY ShareOfEach, GradeIs DEF Grades
<1>2. SumOf(f, Marks!Positions) = TotalMarks
  BY SharesAddUp, MarkingAssumption DEF Marks!Positions
<1>3. IsFiniteSet(Marks!Positions)
  BY ShareOfEach
<1> HIDE DEF f, h
<1>4. SumOf(h, Marks!Positions) = 100 * TotalMarks
  BY <1>1, <1>2, <1>3, SumScales
<1> QED BY <1>4, ScoreIsSum DEF h

MarkInv ==
  /\ rate \in Rates
  /\ answers = [i \in Marks!Positions |-> answers[i]]
  /\ \A i \in Marks!Positions : answers[i] \in {NULL} \cup Marks!Rows(Paper[i].kind)
  /\ outcome # NULL => outcome = Marks!Metrics(Marks!ScoreAttempt(answers, rate))

LEMMA MarkBegins == Marks!Init => MarkInv
BY DEF Marks!Init, MarkInv

LEMMA MarkStep ==
  ASSUME MarkInv, [Marks!Next]_markVars
  PROVE  MarkInv'
<1>1. CASE Marks!SaveAnswer
  <2>1. PICK i \in Marks!Positions : \E row \in Marks!Rows(Paper[i].kind) :
          answers' = [answers EXCEPT ![i] = row]
    BY <1>1 DEF Marks!SaveAnswer
  <2>2. PICK row \in Marks!Rows(Paper[i].kind) : answers' = [answers EXCEPT ![i] = row]
    BY <2>1
  <2>3. rate' = rate /\ outcome' = NULL
    BY <1>1 DEF Marks!SaveAnswer
  <2>4. answers' = [j \in Marks!Positions |-> answers'[j]]
    BY <2>2 DEF MarkInv
  <2>5. \A j \in Marks!Positions : answers'[j] \in {NULL} \cup Marks!Rows(Paper[j].kind)
    BY <2>2 DEF MarkInv
  <2> QED BY <2>3, <2>4, <2>5 DEF MarkInv
<1>2. CASE Marks!FileMarks
  BY <1>2 DEF Marks!FileMarks, MarkInv
<1>3. CASE UNCHANGED markVars
  BY <1>3 DEF markVars, MarkInv
<1> QED BY <1>1, <1>2, <1>3 DEF Marks!Next

LEMMA MarkGives == MarkInv => MarksFollowAnswers
<1> SUFFICES ASSUME MarkInv, outcome # NULL
             PROVE  Marks!RightNeverCosts /\ Marks!WrongNeverPays /\ Marks!PerfectIsFull
  BY DEF MarksFollowAnswers, Marks!MarksFollowAnswers
<1>1. outcome = Marks!Metrics(Marks!ScoreAttempt(answers, rate)) /\ rate \in Rates
  BY DEF MarkInv
<1>2. ASSUME NEW i \in Marks!Positions
      PROVE  \E rest \in Int :
               /\ Marks!ScoreAttempt(answers, rate) = Marks!GradeQuestion(i, answers[i], rate) + rest
               /\ Marks!ScoreAttempt([answers EXCEPT ![i] = NULL], rate)
                    = Marks!GradeQuestion(i, NULL, rate) + rest
               /\ Marks!GradeQuestion(i, answers[i], rate) \in Int
               /\ Marks!GradeQuestion(i, NULL, rate) \in Int
  BY <1>1, ScoresDiffer, GradeIs DEF MarkInv
<1>3. Marks!Auto \subseteq Marks!Positions
  BY DEF Marks!Auto
<1>4. ASSUME NEW i \in Marks!Positions, Marks!Right(i, answers[i])
      PROVE  outcome.score >= Marks!Without(i).score /\ (Marks!Without(i).passed => outcome.passed)
  <2>1. answers[i] \in Marks!Rows(Paper[i].kind)
    BY <1>4 DEF MarkInv, Marks!Right
  <2>2. Marks!GradeQuestion(i, NULL, rate) <= Marks!GradeQuestion(i, answers[i], rate)
    BY <1>1, <1>4, <2>1, GradeIs
  <2> DEFINE lo == Marks!ScoreAttempt([answers EXCEPT ![i] = NULL], rate)
             hi == Marks!ScoreAttempt(answers, rate)
  <2>3. lo \in Int /\ hi \in Int /\ lo <= hi
    BY <1>2, <2>2
  <2>4. Marks!Without(i) = Marks!Metrics(lo) /\ outcome = Marks!Metrics(hi)
    BY <1>1 DEF Marks!Without
  <2>5. Marks!Metrics(lo).score \in Nat /\ Marks!Metrics(hi).score \in Nat
    BY <2>3, ClampIs DEF Marks!Metrics
  <2> HIDE DEF lo, hi
  <2> QED BY <2>3, <2>4, <2>5, BetterScoresMore
<1>5. ASSUME NEW i \in Marks!Positions, Marks!Wrong(i, answers[i])
      PROVE  outcome.score <= Marks!Without(i).score /\ (outcome.passed => Marks!Without(i).passed)
  <2>1. answers[i] \in Marks!Rows(Paper[i].kind)
    BY <1>5 DEF MarkInv, Marks!Wrong
  <2>2. Marks!GradeQuestion(i, answers[i], rate) <= Marks!GradeQuestion(i, NULL, rate)
    BY <1>1, <1>5, <2>1, GradeIs
  <2> DEFINE lo == Marks!ScoreAttempt(answers, rate)
             hi == Marks!ScoreAttempt([answers EXCEPT ![i] = NULL], rate)
  <2>3. lo \in Int /\ hi \in Int /\ lo <= hi
    BY <1>2, <2>2
  <2>4. Marks!Without(i) = Marks!Metrics(hi) /\ outcome = Marks!Metrics(lo)
    BY <1>1 DEF Marks!Without
  <2> HIDE DEF lo, hi
  <2> QED BY <2>3, <2>4, BetterScoresMore
<1>6. ASSUME \A i \in Marks!Positions : Marks!Right(i, answers[i])
      PROVE  outcome = [score |-> 100 * TotalMarks, passed |-> TRUE]
  <2>1. \A i \in Marks!Positions : answers[i] \in Marks!Rows(Paper[i].kind)
    BY <1>6 DEF MarkInv, Marks!Right
  <2>2. Marks!ScoreAttempt(answers, rate) = 100 * TotalMarks
    BY <1>1, <1>6, <2>1, PerfectScores
  <2>3. TotalMarks \in Nat /\ PassingMarks \in Nat /\ PassingMarks <= TotalMarks
    BY MarkingAssumption
  <2>4. Marks!ClampScore(100 * TotalMarks) = 100 * TotalMarks
    BY <2>3, ClampIs
  <2>5. 100 * TotalMarks >= 100 * PassingMarks
    BY <2>3
  <2>6. (100 * TotalMarks >= 100 * PassingMarks) = TRUE
    BY <2>5
  <2> QED BY <1>1, <2>2, <2>4, <2>6 DEF Marks!Metrics
<1> QED BY <1>3, <1>4, <1>5, <1>6
     DEF Marks!RightNeverCosts, Marks!WrongNeverPays, Marks!PerfectIsFull

(* Whatever the paper, the key and the negative marking: leaving out a right *)
(* answer never raises the marks or makes a pass likelier, leaving out a     *)
(* wrong one never lowers them, and a paper answered right throughout earns  *)
(* every mark of the exam (scoring.util.ts, result-calculation.util.ts).     *)
THEOREM MarkingIsFair == AdminSpec => []MarksFollowAnswers
<1>1. AdminInit => MarkInv
  BY MarkBegins DEF AdminInit
<1>2. MarkInv /\ [AdminNext]_adminVars => MarkInv'
  <2>1. [AdminNext]_adminVars => [Marks!Next]_markVars
    BY DEF AdminNext, adminVars, markVars
  <2> QED BY <2>1, MarkStep
<1> QED BY <1>1, <1>2, MarkGives, PTL DEF AdminSpec

-----------------------------------------------------------------------------
(* Reports. *)

LEMMA CountMoves ==
  ASSUME NEW S, IsFiniteSet(S), NEW phi, \A x, y \in S : phi[x] = phi[y] => x = y
  PROVE  Views!Cardinality({phi[x] : x \in S}) = Views!Cardinality(S)
<1> DEFINE T == {phi[x] : x \in S}
           m == [x \in S |-> phi[x]]
<1>1. m \in Bijection(S, T)
  BY DEF Bijection, Injection, Surjection, IsInjective
<1>2. Cardinality(T) = Cardinality(S)
  <2> HIDE DEF T, m
  <2> QED BY <1>1, FS_Bijection DEF ExistsBijection
<1>3. \A U : Views!Cardinality(U) = Cardinality(U)
  BY DEF Views!Cardinality, Cardinality, Views!IsFiniteSet, IsFiniteSet
<1> QED BY <1>2, <1>3

-----------------------------------------------------------------------------
FiledRows == [student : Candidates, exam : Exams, marks : Marked, percentage : Nat,
              number : Nat, from : Nat, at : Nat]
ReportInv == rows \in Seq(FiledRows) /\ now \in Nat

Pair(i) == <<rows[i].student, rows[i].exam>>
Ranked(cand) ==
  \A i \in DOMAIN rows :
    /\ cand[i].percentage = rows[i].percentage
    /\ cand[i].minutes \in Int /\ cand[i].at \in Int /\ cand[i].number \in Int

LEMMA RowsAre ==
  ASSUME ReportInv
  PROVE  /\ DOMAIN rows = 1 .. Len(rows) /\ Len(rows) \in Nat
         /\ IsFiniteSet(DOMAIN rows) /\ DOMAIN rows \subseteq Nat
         /\ \A i \in DOMAIN rows : rows[i] \in FiledRows /\ rows[i].percentage \in Nat
<1>1. DOMAIN rows = 1 .. Len(rows) /\ Len(rows) \in Nat /\ \A i \in DOMAIN rows : rows[i] \in FiledRows
  BY LenProperties, ElementOfSeq DEF ReportInv
<1>2. IsFiniteSet(DOMAIN rows) /\ DOMAIN rows \subseteq Nat
  BY <1>1, FS_Interval
<1> QED BY <1>1, <1>2 DEF FiledRows

LEMMA CandidatesAreRanked ==
  ASSUME ReportInv
  PROVE  Ranked(Views!ReportCandidate) /\ Ranked(Views!AnalyticsCandidate)
         /\ Ranked(Views!SubjectCandidate)
<1>1. ASSUME NEW i \in DOMAIN rows
      PROVE  rows[i].at \in Int /\ rows[i].number \in Int /\ rows[i].at - rows[i].from \in Int
  <2>1. rows[i] \in FiledRows
    BY RowsAre
  <2> QED BY <2>1 DEF FiledRows
<1>2. ASSUME NEW i \in DOMAIN rows
      PROVE  /\ Views!ReportCandidate[i].percentage = rows[i].percentage
             /\ Views!ReportCandidate[i].minutes = rows[i].at - rows[i].from
             /\ Views!ReportCandidate[i].at = rows[i].at
             /\ Views!ReportCandidate[i].number = rows[i].number
             /\ Views!ReportCandidate[i] = [percentage |-> rows[i].percentage,
                   minutes |-> rows[i].at - rows[i].from, at |-> rows[i].at, number |-> rows[i].number]
  BY DEF Views!ReportCandidate
<1>3. ASSUME NEW i \in DOMAIN rows
      PROVE  /\ Views!AnalyticsCandidate[i].percentage = rows[i].percentage
             /\ Views!AnalyticsCandidate[i].minutes = 0
             /\ Views!AnalyticsCandidate[i].at = rows[i].at
             /\ Views!AnalyticsCandidate[i].number = rows[i].number
             /\ Views!SubjectCandidate[i].percentage = rows[i].percentage
             /\ Views!SubjectCandidate[i].minutes = 0
             /\ Views!SubjectCandidate[i].at = rows[i].at
             /\ Views!SubjectCandidate[i].number = 0
  <2> DEFINE c == [percentage |-> rows[i].percentage, minutes |-> rows[i].at - rows[i].from,
                   at |-> rows[i].at, number |-> rows[i].number]
             d == [c EXCEPT !.minutes = 0]
             e == [d EXCEPT !.number = 0]
  <2>1. Views!AnalyticsCandidate[i] = d
    BY <1>2 DEF Views!AnalyticsCandidate
  <2>2. Views!SubjectCandidate[i] = e
    <3> HIDE DEF d
    <3> QED BY <2>1 DEF Views!SubjectCandidate
  <2>3. d = [percentage |-> rows[i].percentage, minutes |-> 0, at |-> rows[i].at, number |-> rows[i].number]
    OBVIOUS
  <2>4. e = [percentage |-> rows[i].percentage, minutes |-> 0, at |-> rows[i].at, number |-> 0]
    <3> HIDE DEF d
    <3> QED BY <2>3
  <2> HIDE DEF d, e
  <2> QED BY <2>1, <2>2, <2>3, <2>4
<1>4. Ranked(Views!ReportCandidate)
  BY <1>1, <1>2 DEF Ranked
<1>5. Ranked(Views!AnalyticsCandidate)
  BY <1>1, <1>3 DEF Ranked
<1>6. Ranked(Views!SubjectCandidate)
  BY <1>1, <1>3 DEF Ranked
<1> QED BY <1>4, <1>5, <1>6

Better(cand, i, j) ==
  ~Views!Before(cand[j], cand[i]) /\ (Views!Before(cand[i], cand[j]) \/ i <= j)

LEMMA BetterOrders ==
  ASSUME ReportInv, NEW cand, Ranked(cand),
         NEW i \in DOMAIN rows, NEW j \in DOMAIN rows, NEW k \in DOMAIN rows
  PROVE  /\ Better(cand, i, i)
         /\ Better(cand, i, j) \/ Better(cand, j, i)
         /\ Better(cand, i, j) /\ Better(cand, j, k) => Better(cand, i, k)
<1>1. i \in Nat /\ j \in Nat /\ k \in Nat
  BY RowsAre
<1>2. \A x \in {i, j, k} :
        /\ cand[x].percentage \in Int /\ cand[x].minutes \in Int
        /\ cand[x].at \in Int /\ cand[x].number \in Int
  BY RowsAre DEF Ranked
<1>3. Better(cand, i, i)
  BY <1>1, <1>2 DEF Better, Views!Before
<1>4. Better(cand, i, j) \/ Better(cand, j, i)
  BY <1>1, <1>2 DEF Better, Views!Before
<1>5. Better(cand, i, j) /\ Better(cand, j, k) => Better(cand, i, k)
  BY <1>1, <1>2 DEF Better, Views!Before
<1> QED BY <1>3, <1>4, <1>5

\* Every bucket of attempts has a best one (selectBestAttempt).
LEMMA SomeIsBest ==
  ASSUME ReportInv, NEW cand, Ranked(cand), NEW B \in SUBSET DOMAIN rows, B # {}
  PROVE  \E i \in B : \A j \in B : Better(cand, i, j)
<1> DEFINE Has(t) == \E i \in t : \A j \in t : Better(cand, i, j)
           F == {t \in SUBSET (DOMAIN rows) : t # {} /\ ~Has(t)}
<1> SUFFICES F = {}
  OBVIOUS
<1>1. ASSUME F # {} PROVE FALSE
  <2>1. PICK t \in F : \A u \in F : u \subseteq t => u = t
    <3>1. F \in SUBSET (SUBSET (DOMAIN rows)) /\ IsFiniteSet(DOMAIN rows)
      BY RowsAre
    <3> HIDE DEF F
    <3> QED BY <1>1, <3>1, LeastSet
  <2>2. t \subseteq DOMAIN rows /\ t # {} /\ ~Has(t)
    BY <2>1
  <2> DEFINE x == AnyOf(t)
             r == t \ {x}
  <2>3. x \in t
    BY <2>2, AnyIsIn
  <2>4. r # {}
    <3>1. ASSUME r = {} PROVE Has(t)
      <4>1. t = {x}
        BY <2>3, <3>1
      <4>2. Better(cand, x, x)
        BY <2>2, <2>3, BetterOrders
      <4> HIDE DEF x
      <4> QED BY <4>1, <4>2
    <3> HIDE DEF Has
    <3> QED BY <3>1, <2>2
  <2>5. Has(r)
    <3>1. r \notin F
      BY <2>1, <2>3
    <3> HIDE DEF Has, x
    <3> QED BY <3>1, <2>2, <2>4
  <2>6. PICK m \in r : \A j \in r : Better(cand, m, j)
    BY <2>5
  <2>7. Better(cand, m, x) \/ (Better(cand, x, m) /\ Better(cand, x, x))
    BY <2>2, <2>3, BetterOrders
  <2>8. CASE Better(cand, m, x)
    BY <2>2, <2>3, <2>6, <2>8
  <2>9. CASE Better(cand, x, m) /\ Better(cand, x, x)
    <3>1. \A j \in r : Better(cand, x, j)
      BY <2>2, <2>3, <2>6, <2>9, BetterOrders
    <3> QED BY <2>2, <2>3, <2>9, <3>1
  <2> QED BY <2>7, <2>8, <2>9
<1> QED BY <1>1

LEMMA BestIs ==
  ASSUME ReportInv, NEW cand, Ranked(cand), NEW B \in SUBSET DOMAIN rows, B # {}
  PROVE  /\ Views!BestAttempt(cand, B) \in B
         /\ \A j \in B : rows[Views!BestAttempt(cand, B)].percentage >= rows[j].percentage
<1> DEFINE b == Views!BestAttempt(cand, B)
<1>1. b \in B /\ \A j \in B : Better(cand, b, j)
  <2>1. \E i \in B : \A j \in B : ~Views!Before(cand[j], cand[i])
                                    /\ (Views!Before(cand[i], cand[j]) \/ i <= j)
    BY SomeIsBest DEF Better
  <2> QED BY <2>1 DEF Views!BestAttempt, Better
<1>2. ASSUME NEW j \in B PROVE rows[b].percentage >= rows[j].percentage
  <2>1. ~Views!Before(cand[j], cand[b])
    BY <1>1 DEF Better
  <2>2. /\ cand[j].percentage = rows[j].percentage /\ cand[b].percentage = rows[b].percentage
        /\ rows[j].percentage \in Nat /\ rows[b].percentage \in Nat
    BY <1>1, RowsAre DEF Ranked
  <2> QED BY <2>1, <2>2 DEF Views!Before
<1> QED BY <1>1, <1>2

\* Among the rows that are shown, one official attempt of every student in every
\* exam, and no attempt is better.
LEMMA OfficialIs ==
  ASSUME ReportInv, NEW cand, Ranked(cand), NEW shown \in SUBSET DOMAIN rows
  PROVE  LET official == Views!Official(cand, shown)
         IN  /\ official \subseteq shown
             /\ \A i, j \in official : Pair(i) = Pair(j) => i = j
             /\ \A i \in shown : \E b \in official : Pair(b) = Pair(i)
             /\ \A b \in official, j \in shown :
                  Pair(j) = Pair(b) => rows[b].percentage >= rows[j].percentage
<1> DEFINE official == Views!Official(cand, shown)
           K(i) == Views!Bucket(i, shown)
<1>1. \A i : official = {x \in shown : x = Views!BestAttempt(cand, K(x))}
  BY DEF Views!Official
<1>2. \A i : K(i) = {j \in shown : Pair(j) = Pair(i)}
  BY DEF Views!Bucket, Pair
<1>3. \A i \in shown : /\ i \in K(i) /\ K(i) \in SUBSET DOMAIN rows
                      /\ Views!BestAttempt(cand, K(i)) \in K(i)
                      /\ \A j \in K(i) : rows[Views!BestAttempt(cand, K(i))].percentage >= rows[j].percentage
  <2> TAKE i \in shown
  <2>1. i \in K(i) /\ K(i) \in SUBSET DOMAIN rows
    BY <1>2
  <2> HIDE DEF K
  <2> QED BY <2>1, BestIs
<1>4. \A i, j : Pair(i) = Pair(j) => K(i) = K(j)
  BY <1>2
<1> HIDE DEF official, K
<1>5. official \subseteq shown
  BY <1>1
<1>6. \A i, j \in official : Pair(i) = Pair(j) => i = j
  BY <1>1, <1>4
<1>7. \A i \in shown : \E b \in official : Pair(b) = Pair(i)
  <2> TAKE i \in shown
  <2> DEFINE b == Views!BestAttempt(cand, K(i))
  <2>1. b \in shown /\ Pair(b) = Pair(i)
    BY <1>2, <1>3
  <2>2. K(b) = K(i)
    BY <2>1, <1>4
  <2>3. b \in official
    BY <1>1, <2>1, <2>2
  <2> QED BY <2>1, <2>3
<1>8. \A b \in official, j \in shown : Pair(j) = Pair(b) => rows[b].percentage >= rows[j].percentage
  BY <1>1, <1>2, <1>3
<1> QED BY <1>5, <1>6, <1>7, <1>8 DEF official

Percent == [i \in DOMAIN rows |-> rows[i].percentage]

LEMMA PercentSum ==
  ASSUME NEW S \in SUBSET DOMAIN rows, IsFiniteSet(S)
  PROVE  Views!Percentages(S) = SumOf(Percent, S)
<1> DEFINE P(g) == g = [s \in SUBSET S |-> IF s = {} THEN 0 ELSE
                     rows[AnyOf(s)].percentage + g[s \ {AnyOf(s)}]]
<1>1. Views!Percentages(S) = (CHOOSE g : P(g))[S]
  BY DEF Views!Percentages, Views!MapThenSumSet, Views!MapThenFoldSet, AnyOf
<1>2. \A g : P(g) <=> Sums(g, Percent, S)
  <2> TAKE g
  <2>1. \A s \in SUBSET S : s # {} => Percent[AnyOf(s)] = rows[AnyOf(s)].percentage
    BY AnyIsIn DEF Percent
  <2> QED BY <2>1 DEF Sums
<1>3. \E g : Sums(g, Percent, S)
  BY FoldsExist
<1>4. Sums(CHOOSE g : Sums(g, Percent, S), Percent, S) /\ Sums(CHOOSE g : P(g), Percent, S)
  <2> HIDE DEF P
  <2> QED BY <1>2, <1>3
<1> HIDE DEF P
<1>5. (CHOOSE g : P(g))[S] = (CHOOSE g : Sums(g, Percent, S))[S]
  BY <1>4, FoldsAgree
<1> QED BY <1>1, <1>5 DEF SumOf

Bests(pairs) == [p \in pairs |-> Views!BestOf(p)]

LEMMA BestsSum ==
  ASSUME NEW S, IsFiniteSet(S)
  PROVE  Views!MapThenSumSet(Views!BestOf, S) = SumOf(Bests(S), S)
<1> DEFINE f == Bests(S)
           P(g) == g = [s \in SUBSET S |-> IF s = {} THEN 0 ELSE
                     Views!BestOf(AnyOf(s)) + g[s \ {AnyOf(s)}]]
<1>1. Views!MapThenSumSet(Views!BestOf, S) = (CHOOSE g : P(g))[S]
  BY DEF Views!MapThenSumSet, Views!MapThenFoldSet, AnyOf
<1>2. \A g : P(g) <=> Sums(g, f, S)
  <2> TAKE g
  <2>1. \A s \in SUBSET S : s # {} => f[AnyOf(s)] = Views!BestOf(AnyOf(s))
    BY AnyIsIn DEF Bests
  <2> QED BY <2>1 DEF Sums
<1>3. \E g : Sums(g, f, S)
  BY FoldsExist
<1>4. Sums(CHOOSE g : Sums(g, f, S), f, S) /\ Sums(CHOOSE g : P(g), f, S)
  <2> HIDE DEF P, f
  <2> QED BY <1>2, <1>3
<1> HIDE DEF P, f
<1>5. (CHOOSE g : P(g))[S] = (CHOOSE g : Sums(g, f, S))[S]
  BY <1>4, FoldsAgree
<1> QED BY <1>1, <1>5 DEF SumOf, f

\* A report over the rows that are shown, all those of a student in an exam or
\* none, is what is due for their students and exams.
LEMMA ReportIsDue ==
  ASSUME ReportInv, NEW cand, Ranked(cand), NEW shown \in SUBSET DOMAIN rows,
         \A i \in shown, j \in DOMAIN rows : Pair(j) = Pair(i) => j \in shown
  PROVE  LET official == Views!Official(cand, shown)
             due == Views!Due({Pair(i) : i \in shown})
         IN  /\ Views!Cardinality(official) = due.results
             /\ Views!Percentages(official) = due.percentages
             /\ Views!Cardinality(Views!Passed(official)) = due.passed
<1> DEFINE official == Views!Official(cand, shown)
           pairs == {Pair(i) : i \in shown}
           phi == [i \in DOMAIN rows |-> Pair(i)]
<1>1. /\ official \subseteq shown
      /\ \A i, j \in official : Pair(i) = Pair(j) => i = j
      /\ \A i \in shown : \E b \in official : Pair(b) = Pair(i)
      /\ \A b \in official, j \in shown :
           Pair(j) = Pair(b) => rows[b].percentage >= rows[j].percentage
  BY OfficialIs
<1> HIDE DEF official
<1>2. IsFiniteSet(official) /\ official \subseteq DOMAIN rows
  BY <1>1, RowsAre, FS_Subset
<1>3. \A i \in official : phi[i] = Pair(i)
  BY <1>2
<1>4. pairs = {phi[i] : i \in official}
  <2> HIDE DEF phi
  <2>1. \A i \in shown : \E b \in official : Pair(i) = phi[b]
    BY <1>1, <1>3
  <2>2. \A b \in official : \E i \in shown : phi[b] = Pair(i)
    BY <1>1, <1>3
  <2> QED BY <2>1, <2>2
<1>5. \A b \in official : Views!BestOf(Pair(b)) = rows[b].percentage /\ rows[b].percentage \in Nat
  <2> TAKE b \in official
  <2>1. Pair(b)[1] = rows[b].student /\ Pair(b)[2] = rows[b].exam
    BY DEF Pair
  <2> DEFINE S == {rows[i].percentage : i \in Views!Attempts(rows[b].student, rows[b].exam)}
             m == rows[b].percentage
  <2>2. \A i : i \in Views!Attempts(rows[b].student, rows[b].exam) <=> i \in DOMAIN rows /\ Pair(i) = Pair(b)
    BY DEF Views!Attempts, Pair
  <2>3. S \subseteq Nat /\ m \in S /\ \A y \in S : m >= y
    BY <1>1, <1>2, <2>2, RowsAre
  <2> HIDE DEF S, m
  <2>4. \A x \in S : (\A y \in S : x >= y) => x = m
    BY <2>3
  <2>5. Views!Max(S) \in S /\ \A y \in S : Views!Max(S) >= y
    BY <2>3 DEF Views!Max
  <2>6. Views!Max(S) = m
    BY <2>4, <2>5
  <2> QED BY <2>1, <2>3, <2>6 DEF Views!BestOf, S, m
<1>6. Views!Cardinality(pairs) = Views!Cardinality(official)
  <2> HIDE DEF phi, pairs
  <2> QED BY <1>1, <1>2, <1>3, <1>4, CountMoves
<1>7. Views!MapThenSumSet(Views!BestOf, pairs) = Views!Percentages(official)
  <2>1. IsFiniteSet(pairs)
    <3> HIDE DEF phi, pairs
    <3>1. IsFiniteSet({phi[i] : i \in official})
      BY <1>2, ImageIsFinite
    <3> QED BY <1>4, <3>1
  <2>2. \A i \in official : Percent[i] \in Int /\ Percent[i] = Bests(pairs)[phi[i]]
    <3> HIDE DEF phi, pairs
    <3>1. \A i \in official : phi[i] \in pairs /\ phi[i] = Pair(i) /\ i \in DOMAIN rows
      BY <1>2, <1>3, <1>4
    <3>2. \A p \in pairs : Bests(pairs)[p] = Views!BestOf(p)
      BY DEF Bests
    <3> QED BY <1>5, <3>1, <3>2 DEF Percent
  <2>3. Views!Percentages(official) = SumOf(Percent, official)
    BY <1>2, PercentSum
  <2> HIDE DEF phi, pairs
  <2>4. SumOf(Percent, official) = SumOf(Bests(pairs), {phi[i] : i \in official})
    <3>1. \A i, j \in official : phi[i] = phi[j] => i = j
      BY <1>1, <1>3
    <3> QED BY <1>2, <2>2, <3>1, SumMoves
  <2> QED BY <1>4, <2>1, <2>3, <2>4, BestsSum
<1>8. Views!Cardinality({p \in pairs : Views!BestOf(p) >= PassMark})
        = Views!Cardinality(Views!Passed(official))
  <2> DEFINE S == {i \in official : rows[i].percentage >= PassMark}
  <2>1. {p \in pairs : Views!BestOf(p) >= PassMark} = {phi[i] : i \in S}
    <3>1. \A i \in official : Views!BestOf(phi[i]) = rows[i].percentage
      BY <1>3, <1>5
    <3> HIDE DEF phi, pairs
    <3> QED BY <1>4, <3>1
  <2>2. IsFiniteSet(S) /\ \A i, j \in S : phi[i] = phi[j] => i = j
    <3>1. IsFiniteSet(S)
      BY <1>2, FS_Subset
    <3> QED BY <3>1, <1>1, <1>3
  <2> HIDE DEF S, phi
  <2>3. Views!Cardinality({phi[i] : i \in S}) = Views!Cardinality(S)
    BY <2>2, CountMoves
  <2> QED BY <2>1, <2>3 DEF S, Views!Passed
<1> HIDE DEF phi, pairs
<1>9. /\ Views!Cardinality(official) = Views!Due(pairs).results
      /\ Views!Percentages(official) = Views!Due(pairs).percentages
      /\ Views!Cardinality(Views!Passed(official)) = Views!Due(pairs).passed
  BY <1>6, <1>7, <1>8 DEF Views!Due
<1> QED BY <1>9 DEF official, pairs

\* The official attempts among the rows of some students in some exams are those
\* among all the rows.
LEMMA OfficialLocal ==
  ASSUME NEW c, NEW shown \in SUBSET DOMAIN rows,
         \A i \in shown, j \in DOMAIN rows : Pair(j) = Pair(i) => j \in shown
  PROVE  Views!Official(c, shown) = {i \in Views!Official(c, DOMAIN rows) : i \in shown}
<1> DEFINE whole == DOMAIN rows
<1>1. \A i \in shown : Views!Bucket(i, shown) = Views!Bucket(i, whole)
  BY DEF Views!Bucket, Pair
<1>2. \A i, S : i \in Views!Official(c, S) <=> i \in S /\ i = Views!BestAttempt(c, Views!Bucket(i, S))
  BY DEF Views!Official
<1>3. shown \subseteq whole
  OBVIOUS
<1> HIDE DEF whole
<1>4. \A i : i \in Views!Official(c, shown) <=> i \in shown /\ i \in Views!Official(c, whole)
  BY <1>1, <1>2, <1>3
<1>5. Views!Official(c, shown) = {i \in Views!Official(c, whole) : i \in shown}
  BY <1>4
<1> QED BY <1>5 DEF whole

LEMMA ReportsAgree == ReportInv => ViewsAgree
<1> SUFFICES ASSUME ReportInv PROVE Views!ViewsAgree
  BY DEF ViewsAgree
<1> DEFINE c == Views!ReportCandidate
           whole == DOMAIN rows
<1>1. Ranked(c) /\ Ranked(Views!AnalyticsCandidate) /\ Ranked(Views!SubjectCandidate)
  BY CandidatesAreRanked
<1>2. \A i \in whole : Pair(i)[1] = rows[i].student /\ Pair(i)[2] = rows[i].exam
  BY DEF Pair
<1>3. Views!Sat = {Pair(i) : i \in whole}
  BY DEF Views!Sat, Pair
<1>4. ASSUME NEW e \in Exams
      PROVE  /\ Views!OfExam(e) \in SUBSET whole
             /\ \A i \in Views!OfExam(e), j \in whole : Pair(j) = Pair(i) => j \in Views!OfExam(e)
             /\ {Pair(i) : i \in Views!OfExam(e)} = {p \in Views!Sat : p[2] = e}
  <2>1. \A i : i \in Views!OfExam(e) <=> i \in whole /\ rows[i].exam = e
    BY DEF Views!OfExam
  <2> QED BY <1>2, <1>3, <2>1 DEF Pair
<1>5. ASSUME NEW s \in Candidates
      PROVE  /\ Views!OfStudent(s) \in SUBSET whole
             /\ \A i \in Views!OfStudent(s), j \in whole : Pair(j) = Pair(i) => j \in Views!OfStudent(s)
             /\ {Pair(i) : i \in Views!OfStudent(s)} = {p \in Views!Sat : p[1] = s}
  <2>1. \A i : i \in Views!OfStudent(s) <=> i \in whole /\ rows[i].student = s
    BY DEF Views!OfStudent
  <2> QED BY <1>2, <1>3, <2>1 DEF Pair
<1>6. ASSUME NEW e \in Exams
      PROVE  LET shown == Views!ExamAnalytics(e)
                 due == Views!Due({p \in Views!Sat : p[2] = e})
             IN  /\ shown.results = due.results /\ shown.passed = due.passed
                 /\ shown.percentages = due.percentages
  BY <1>1, <1>4, ReportIsDue DEF Views!ExamAnalytics
<1>7. UNION {Views!Official(c, Views!OfExam(e)) : e \in Exams} = Views!Official(c, whole)
  <2>1. \A i \in whole : rows[i].exam \in Exams
    BY RowsAre DEF FiledRows
  <2>2. \A i \in Views!Official(c, whole) : i \in whole
    BY DEF Views!Official
  <2>3. \A e \in Exams : Views!Official(c, Views!OfExam(e))
                            = {i \in Views!Official(c, whole) : i \in Views!OfExam(e)}
    <3> TAKE e \in Exams
    <3> HIDE DEF c
    <3> QED BY <1>4, OfficialLocal
  <2>4. \A i \in whole : \E e \in Exams : i \in Views!OfExam(e)
    BY <2>1 DEF Views!OfExam
  <2> HIDE DEF c, whole
  <2> QED BY <2>2, <2>3, <2>4
<1>8. ASSUME NEW s \in Candidates
      PROVE  LET shown == Views!StudentReport(s)
                 due == Views!Due({p \in Views!Sat : p[1] = s})
             IN  /\ shown.results = due.results /\ shown.passed = due.passed
                 /\ shown.score = Views!Scores(Views!CountedOf(s))
                 /\ shown.max = Views!Maxima(Views!CountedOf(s))
  <2>1. Views!CountedOf(s) = {i \in Views!Official(c, whole) : rows[i].student = s}
    BY <1>7 DEF Views!CountedOf
  <2>2. Views!Official(c, Views!OfStudent(s))
          = {i \in Views!Official(c, whole) : i \in Views!OfStudent(s)}
    <3> HIDE DEF c
    <3> QED BY <1>5, OfficialLocal
  <2>3. \A i \in Views!Official(c, whole) : i \in Views!OfStudent(s) <=> rows[i].student = s
    BY DEF Views!Official, Views!OfStudent
  <2>4. Views!Official(c, Views!OfStudent(s)) = Views!CountedOf(s)
    <3> HIDE DEF c, whole
    <3> QED BY <2>1, <2>2, <2>3
  <2> QED BY <1>1, <1>5, <2>4, ReportIsDue DEF Views!StudentReport
<1>9. ASSUME NEW cand, Ranked(cand)
      PROVE  LET official == Views!Official(cand, whole)
             IN  /\ Views!Cardinality(official) = Views!Due(Views!Sat).results
                 /\ Views!Percentages(official) = Views!Due(Views!Sat).percentages
                 /\ Views!Cardinality(Views!Passed(official)) = Views!Due(Views!Sat).passed
  <2>1. whole \in SUBSET DOMAIN rows
    OBVIOUS
  <2> HIDE DEF whole
  <2>2. \A i \in whole, j \in DOMAIN rows : Pair(j) = Pair(i) => j \in whole
    BY DEF whole
  <2> QED BY <1>3, <1>9, <2>1, <2>2, ReportIsDue
<1>10. ASSUME NEW shown \in {Views!SubjectReport, Views!SubjectTable, Views!AnalyticsOverview}
       PROVE  shown.results = Views!Due(Views!Sat).results /\ shown.passed = Views!Due(Views!Sat).passed
  <2>1. CASE shown = Views!SubjectReport
    BY <1>1, <1>7, <1>9, <2>1 DEF Views!SubjectReport
  <2>2. CASE shown = Views!SubjectTable
    BY <1>1, <1>9, <2>2 DEF Views!SubjectTable
  <2>3. CASE shown = Views!AnalyticsOverview
    BY <1>1, <1>9, <2>3 DEF Views!AnalyticsOverview
  <2> QED BY <2>1, <2>2, <2>3
<1>11. ASSUME NEW shown \in {Views!SystemOverview, Views!SubjectTable}
       PROVE  /\ shown.results = Views!Due(Views!Sat).results
              /\ shown.percentages = Views!Due(Views!Sat).percentages
  <2>1. CASE shown = Views!SystemOverview
    BY <1>1, <1>9, <2>1 DEF Views!SystemOverview
  <2>2. CASE shown = Views!SubjectTable
    BY <1>1, <1>9, <2>2 DEF Views!SubjectTable
  <2> QED BY <2>1, <2>2
<1> HIDE DEF c, whole
<1> QED BY <1>6, <1>8, <1>10, <1>11 DEF Views!ViewsAgree

\* A percentage is a natural number (round2).
LEMMA PercentageIs ==
  ASSUME NEW m \in Marked
  PROVE  Views!Percentage(m) \in Nat
<1>1. m.score \in Nat /\ m.max \in Nat \ {0}
  BY ReportAssumption
<1> DEFINE a == 20000 * m.score + m.max
           n == 2 * m.max
<1>2. a \in Nat /\ n \in Nat \ {0}
  BY <1>1
<1> HIDE DEF a, n
<1>3. a \div n \in Nat
  BY <1>2, Division
<1> QED BY <1>3 DEF Views!Percentage, a, n

LEMMA ReportBegins == Views!Init => ReportInv
BY DEF Views!Init, ReportInv

LEMMA ReportStep ==
  ASSUME ReportInv, [Views!Next]_reportVars
  PROVE  ReportInv'
<1>1. CASE Views!FileAttempt
  <2>1. PICK s \in Candidates, e \in Exams, m \in Marked, from \in 0 .. now :
          rows' = Append(rows, [student |-> s, exam |-> e, marks |-> m,
                                percentage |-> Views!Percentage(m),
                                number |-> Views!Cardinality(Views!Attempts(s, e)) + 1,
                                from |-> from, at |-> now])
    BY <1>1 DEF Views!FileAttempt
  <2>2. Views!Cardinality(Views!Attempts(s, e)) + 1 \in Nat
    <3>1. IsFiniteSet(Views!Attempts(s, e))
      BY RowsAre, FS_Subset DEF Views!Attempts
    <3>2. Cardinality(Views!Attempts(s, e)) \in Nat
      BY <3>1, FS_CardinalityType
    <3>3. \A U : Views!Cardinality(U) = Cardinality(U)
      BY DEF Views!Cardinality, Cardinality, Views!IsFiniteSet, IsFiniteSet
    <3> QED BY <3>2, <3>3
  <2>3. from \in Nat /\ now \in Nat /\ rows \in Seq(FiledRows)
    BY DEF ReportInv
  <2> DEFINE n == Views!Cardinality(Views!Attempts(s, e)) + 1
             p == Views!Percentage(m)
             row == [student |-> s, exam |-> e, marks |-> m, percentage |-> p, number |-> n,
                     from |-> from, at |-> now]
  <2>4. row \in FiledRows
    <3>1. p \in Nat /\ n \in Nat
      BY <2>2, PercentageIs
    <3> HIDE DEF n, p
    <3> QED BY <2>3, <3>1 DEF FiledRows
  <2>5. rows' = Append(rows, row) /\ now' = now
    BY <1>1, <2>1 DEF Views!FileAttempt
  <2> HIDE DEF row
  <2> QED BY <2>3, <2>4, <2>5, AppendProperties DEF ReportInv
<1>2. CASE Views!Regrade
  <2>1. PICK i \in DOMAIN rows, m \in Marked :
          rows' = [rows EXCEPT ![i] = [@ EXCEPT !.marks = m, !.percentage = Views!Percentage(m)]]
    BY <1>2 DEF Views!Regrade
  <2> DEFINE row == [rows[i] EXCEPT !.marks = m, !.percentage = Views!Percentage(m)]
  <2>2. rows \in Seq(FiledRows) /\ rows[i] \in FiledRows /\ DOMAIN rows = 1 .. Len(rows)
          /\ Len(rows) \in Nat /\ \A j \in DOMAIN rows : rows[j] \in FiledRows
    BY RowsAre DEF ReportInv
  <2>3. row \in FiledRows
    BY <2>2, PercentageIs DEF FiledRows
  <2>4. rows' \in [1 .. Len(rows) -> FiledRows]
    <3>1. rows' = [rows EXCEPT ![i] = row]
      BY <2>1
    <3> HIDE DEF row
    <3> QED BY <2>2, <2>3, <3>1
  <2>5. rows' \in Seq(FiledRows)
    BY <2>2, <2>4
  <2>6. now' = now
    BY <1>2 DEF Views!Regrade
  <2> QED BY <2>5, <2>6 DEF ReportInv
<1>3. CASE Views!Tick \/ UNCHANGED reportVars
  BY <1>3 DEF Views!Tick, reportVars, ReportInv
<1> QED BY <1>1, <1>2, <1>3 DEF Views!Next

(* However often students retake and whatever is regraded, every report      *)
(* counts each student once per exam, with the best of that student's        *)
(* results, so that no two of them disagree in a figure both take from the   *)
(* official attempts (selectOfficialResults, selectBestAttempt and their     *)
(* callers).                                                                 *)
THEOREM EveryReportAgrees == AdminSpec => []ViewsAgree
<1>1. AdminInit => ReportInv
  BY ReportBegins DEF AdminInit
<1>2. ReportInv /\ [AdminNext]_adminVars => ReportInv'
  <2>1. [AdminNext]_adminVars => [Views!Next]_reportVars
    BY DEF AdminNext, adminVars, reportVars
  <2> QED BY <2>1, ReportStep
<1> QED BY <1>1, <1>2, ReportsAgree, PTL DEF AdminSpec
=============================================================================
