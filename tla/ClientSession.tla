--------------------------- MODULE ClientSession ----------------------------
(* A signed-in page and its calls: the client that refreshes its session    *)
(* when a call is refused and repeats it once, and the server that rotates  *)
(* refresh tokens, one round trip at a time.  Answers may be lost.          *)
EXTENDS Naturals, FiniteSets

CONSTANTS
  Calls,     \* requests the page has in flight
  Handlers,  \* refreshes the server may be serving at once
  MaxTokens, \* bound: refresh tokens ever issued
  Faults,    \* "lose", "reload", "revoke", "suspend", "demote", "idle"
  NULL

ASSUME NullAssumption == NULL \notin Handlers

VARIABLES
  issued,    \* refresh tokens issued so far; the number of one is its identity
  live,      \* rows of refresh_tokens not revoked
  revoked,   \* rows with revokedAt
  cleaning,  \* a clean-up is on its way
  worn,      \* access tokens up to this number have expired
  stale,     \* refresh tokens up to this number have expired
  cookie,    \* the refresh token the browser keeps, 0 for none
  access,    \* the access token in the store, 0 for none
  page,      \* AuthGuard: "booting", "ready", or back at "login"
  call,      \* [Calls -> where it is, the access token it carries, its answer]
  flight,    \* [Handlers -> a refresh under way]
  shared,    \* refreshPromise: the handler of the refresh all calls wait for
  entitled,  \* what the account may: "all", "less" (403), "none" (401)
  excuse     \* history: an answer was lost, or the user's sessions were revoked

server == <<issued, live, revoked, cleaning, worn, stale>>
client == <<cookie, access, page, call, shared>>
vars   == <<server, client, flight, entitled, excuse>>

Idle    == [pc |-> "idle"]
Absent  == [pc |-> "none"]
Settled == [pc |-> "done"]

Init ==
  /\ issued = 1 /\ live = {1} /\ revoked = {} /\ cleaning = FALSE /\ worn = 0 /\ stale = 0
  /\ cookie = 1 /\ access = 1 /\ page = "ready"
  /\ call = [c \in Calls |-> Idle]
  /\ flight = [h \in Handlers |-> Absent] /\ shared = NULL
  /\ entitled = "all" /\ excuse = FALSE

(* Refresh tokens that would be taken. *)
Usable     == {t \in live : t > stale}
Busy       == {h \in Handlers : flight[h].pc # "none"}
Unsettled  == {c \in Calls : call[c].pc \in {"sent", "again", "waiting"}}
Free       == Handlers \ Busy
WithinBound == issued + Cardinality(Busy) + Cardinality(Unsettled) < MaxTokens

Sending(h) == [flight EXCEPT ![h] = [pc |-> "read", token |-> cookie]]

-----------------------------------------------------------------------------
\* The client: api.ts and AuthGuard

Call(c) ==
  /\ page = "ready" /\ call[c].pc \in {"idle", "done"} /\ WithinBound
  /\ call' = [call EXCEPT ![c] = [pc |-> "sent", with |-> access]]
  /\ UNCHANGED <<server, cookie, access, page, shared, flight, entitled, excuse>>

(* JwtStrategy.validate and the guards. *)
Status(c) ==
  IF call[c].with <= worn \/ entitled = "none" THEN 401
  ELSE IF entitled = "less" THEN 403 ELSE 200

(* Variant: every refused call starts its own refresh. *)
Unshared(h) == h \in Free

(* The refresh a refused call waits for: the one under way, or a new one. *)
Joins(h) == IF shared = NULL THEN h \in Free ELSE h = shared

(* The response interceptor: one refresh and one repetition per call. *)
Answer(c) ==
  /\ call[c].pc \in {"sent", "again"}
  /\ IF Status(c) = 200 \/ call[c].pc = "again"
     THEN /\ call' = [call EXCEPT ![c] = Settled]
          /\ UNCHANGED <<shared, flight>>
     ELSE \E h \in Handlers :
            /\ Joins(h)
            /\ call' = [call EXCEPT ![c] = [pc |-> "waiting", on |-> h]]
            /\ shared' = h
            /\ flight' = IF h \in Free THEN Sending(h) ELSE flight
  /\ UNCHANGED <<server, cookie, access, page, entitled, excuse>>

LoseCall(c) ==
  /\ "lose" \in Faults /\ call[c].pc \in {"sent", "again"}
  /\ call' = [call EXCEPT ![c] = Settled]
  /\ UNCHANGED <<server, cookie, access, page, shared, flight, entitled, excuse>>

Waiting(h) == {c \in Calls : call[c].pc = "waiting" /\ call[c].on = h}
Boots(h)   == page = "booting" /\ shared = h

(* restoreSession succeeded: the session is stored, who waited goes again. *)
Restored(h, token) ==
  /\ cookie' = token /\ access' = token
  /\ page' = IF Boots(h) THEN "ready" ELSE page
  /\ call' = [c \in Calls |-> IF c \in Waiting(h) THEN [pc |-> "again", with |-> token] ELSE call[c]]
  /\ shared' = IF shared = h THEN NULL ELSE shared

(* It failed: the session is cleared, and the page goes back to the login. *)
Refused(h) ==
  /\ access' = 0 /\ page' = "login"
  /\ call' = [c \in Calls |-> IF c \in Unsettled THEN Settled ELSE call[c]]
  /\ shared' = NULL
  /\ UNCHANGED cookie

(* A refresh whose page was left has nobody to answer to. *)
Expected(h) == shared = h \/ Waiting(h) # {}

(* Variant: a refused refresh is treated like any refused call, and waits   *)
(* for the refresh under way, which is itself.                              *)
FailsForItself(h) ==
  /\ UNCHANGED client
  /\ flight' = [flight EXCEPT ![h] = Absent]

Fails(h) ==
  /\ IF Expected(h) THEN Refused(h) ELSE UNCHANGED client
  /\ flight' = [flight EXCEPT ![h] = Absent]

(* The page is loaded anew: AuthGuard restores the session before anything. *)
Reload ==
  /\ "reload" \in Faults /\ page # "login" /\ WithinBound
  /\ \E h \in Free :
       /\ flight' = Sending(h) /\ shared' = h
       /\ excuse' = (excuse \/ shared # NULL)
  /\ page' = "booting" /\ access' = 0
  /\ call' = [c \in Calls |-> Idle]
  /\ UNCHANGED <<server, cookie, entitled>>

Login ==
  /\ page = "login" /\ WithinBound /\ shared = NULL
  /\ issued' = issued + 1 /\ live' = live \cup {issued + 1} /\ cleaning' = TRUE
  /\ cookie' = issued + 1 /\ access' = issued + 1 /\ page' = "ready"
  /\ UNCHANGED <<revoked, worn, stale, call, shared, flight, entitled, excuse>>

-----------------------------------------------------------------------------
\* The server: AuthService.refresh, round trip by round trip

(* An expired token is refused as such; one that was rotated ends every     *)
(* session of its user.                                                     *)
Reused(t) == t \in revoked /\ t > stale

ReadToken(h) ==
  /\ flight[h].pc = "read"
  /\ LET t == flight[h].token IN
       IF t \in Usable
       THEN /\ flight' = [flight EXCEPT ![h].pc = "revoke"]
            /\ UNCHANGED <<server, client>>
       ELSE /\ live'    = IF Reused(t) THEN {} ELSE live
            /\ revoked' = IF Reused(t) THEN revoked \cup live ELSE revoked
            /\ Fails(h)
            /\ UNCHANGED <<issued, cleaning, worn, stale>>
  /\ UNCHANGED <<entitled, excuse>>

(* Variant: the token is only revoked when the new one has been sent. *)
RevokeNothing(h) ==
  /\ flight[h].pc = "revoke"
  /\ flight' = [flight EXCEPT ![h].pc = "issue"]
  /\ UNCHANGED <<server, client, entitled, excuse>>

(* The update is by the row's id: a row cleaned up meanwhile is an error.   *)
RevokeToken(h) ==
  /\ flight[h].pc = "revoke"
  /\ LET t == flight[h].token IN
       IF t \in live \cup revoked
       THEN /\ live' = live \ {t} /\ revoked' = revoked \cup {t}
            /\ flight' = [flight EXCEPT ![h].pc = "issue"]
            /\ UNCHANGED client
       ELSE Fails(h) /\ UNCHANGED <<live, revoked>>
  /\ UNCHANGED <<issued, cleaning, worn, stale, entitled, excuse>>

IssueToken(h) ==
  /\ flight[h].pc = "issue"
  /\ issued' = issued + 1 /\ live' = live \cup {issued + 1} /\ cleaning' = TRUE
  /\ flight' = [flight EXCEPT ![h] = [pc |-> "reply", token |-> issued + 1]]
  /\ UNCHANGED <<revoked, worn, stale, client, entitled, excuse>>

Deliver(h) ==
  /\ flight[h].pc = "reply"
  /\ IF Expected(h) THEN Restored(h, flight[h].token) ELSE UNCHANGED client
  /\ flight' = [flight EXCEPT ![h] = Absent]
  /\ UNCHANGED <<server, entitled, excuse>>

LoseRefresh(h) ==
  /\ "lose" \in Faults /\ h \in Busy
  /\ Fails(h)
  /\ excuse' = TRUE
  /\ UNCHANGED <<server, entitled>>

(* issueTokens deletes what is revoked or expired, without waiting. *)
CleanUp ==
  /\ cleaning
  /\ live' = Usable /\ revoked' = {} /\ cleaning' = FALSE
  /\ UNCHANGED <<issued, worn, stale, client, flight, entitled, excuse>>

-----------------------------------------------------------------------------
\* What else happens to a session

ExpireAccess ==
  /\ worn' = issued /\ worn # issued
  /\ UNCHANGED <<issued, live, revoked, cleaning, stale, client, flight, entitled, excuse>>

(* Seven days later: the older of the refresh tokens have expired, and the  *)
(* access tokens that came with them.                                       *)
ExpireRefresh ==
  /\ "idle" \in Faults
  /\ stale' \in (stale + 1)..issued
  /\ worn' = IF worn < stale' THEN stale' ELSE worn
  /\ UNCHANGED <<issued, live, revoked, cleaning, client, flight, entitled, excuse>>

(* changePassword, resetPassword by an administrator, revokeAllSessions.    *)
RevokeAll ==
  /\ "revoke" \in Faults
  /\ live' = {} /\ revoked' = revoked \cup live /\ excuse' = TRUE
  /\ UNCHANGED <<issued, cleaning, worn, stale, client, flight, entitled>>

Logout ==
  /\ "revoke" \in Faults /\ page = "ready" /\ shared = NULL
  /\ live' = live \ {cookie} /\ revoked' = revoked \cup (live \cap {cookie})
  /\ cookie' = 0 /\ access' = 0 /\ page' = "login" /\ excuse' = TRUE
  /\ call' = [c \in Calls |-> IF c \in Unsettled THEN Settled ELSE call[c]]
  /\ UNCHANGED <<issued, cleaning, worn, stale, shared, flight, entitled>>

ChangeAccount ==
  /\ entitled' \in {"all"} \cup (IF "demote" \in Faults THEN {"less"} ELSE {})
                   \cup (IF "suspend" \in Faults THEN {"none"} ELSE {})
  /\ UNCHANGED <<server, client, flight, excuse>>

-----------------------------------------------------------------------------
Serve(h) == ReadToken(h) \/ RevokeToken(h) \/ IssueToken(h) \/ Deliver(h)

Next ==
  \/ \E c \in Calls : Call(c) \/ Answer(c) \/ LoseCall(c)
  \/ \E h \in Handlers : Serve(h) \/ LoseRefresh(h)
  \/ Reload \/ Login \/ CleanUp
  \/ ExpireAccess \/ ExpireRefresh \/ RevokeAll \/ Logout \/ ChangeAccount

(* The network answers or fails, and the server runs what it received. *)
Fairness ==
  /\ \A c \in Calls : WF_vars(Answer(c))
  /\ \A h \in Handlers : WF_vars(Serve(h))

Spec == Init /\ [][Next]_vars /\ Fairness

-----------------------------------------------------------------------------
(* The page only returns to the login because an answer was lost, the       *)
(* sessions were revoked, or the refresh token it still holds has expired:  *)
(* no expiry of an access token, loss of rights, suspension or number of    *)
(* calls refused together does it, nor the expiry of a token it no longer   *)
(* holds (api.ts: refreshPromise, _retry; AuthService.refresh: rotation).   *)
SignedOutForAReason == page = "login" => excuse \/ cookie <= stale

(* A page that was never cut off keeps one session: rotation leaves no      *)
(* second token that would be taken, and a new login no older one           *)
(* (AuthService.refresh, login).                                            *)
OneSessionPerPage == ~excuse => Cardinality(Usable) <= 1

(* Every call is answered in the end: refused calls do not refresh and      *)
(* repeat for ever, nor wait for a refresh nobody runs (api.ts).            *)
CallsSettle == \A c \in Calls : (c \in Unsettled) ~> (c \notin Unsettled)
=============================================================================
