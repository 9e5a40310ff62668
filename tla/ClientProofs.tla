---------------------------- MODULE ClientProofs ----------------------------
(* What holds of a signed-in page for any number of calls and of refreshes   *)
(* the server may be serving, whatever is lost, reloaded or revoked; and of  *)
(* the exam page for any questions and options and any number of saves and   *)
(* submissions in flight.                                                    *)
EXTENDS Client, FiniteSetTheorems, SequenceTheorems, TLAPS

-----------------------------------------------------------------------------
(* ClientSession: one refresh at a time. *)

Flights == {Absent} \cup [pc : {"read", "revoke", "issue", "reply"}, token : Nat]

TypeInv ==
  /\ issued \in Nat /\ cookie \in Nat
  /\ live \subseteq Nat /\ stale \in Nat /\ stale <= issued
  /\ flight \in [Handlers -> Flights]
  /\ excuse \in BOOLEAN

(* A token is the only one that would be taken, if it has not expired.       *)
Alone(t) == Usable \subseteq {t} /\ (t > stale => t \in live)

(* Where that token is while one refresh is under way.                       *)
Carries(h) ==
  /\ flight[h].pc \in {"read", "revoke"} => flight[h].token = cookie /\ Alone(cookie)
  /\ flight[h].pc = "issue" => Usable = {}
  /\ flight[h].pc = "reply" => Alone(flight[h].token)

(* A page that was never cut off is signed in and runs at most one refresh,  *)
(* which all its refused calls share; or it was left with an expired token.  *)
Undisturbed ==
  \/ /\ page = "login" /\ cookie <= stale
     /\ shared = NULL /\ Busy = {} /\ Usable = {} /\ Unsettled = {}
  \/ page # "login" /\ shared = NULL /\ Busy = {} /\ Alone(cookie)
  \/ page # "login" /\ \E h \in Handlers : shared = h /\ Busy = {h} /\ Carries(h)

SessionInv == ~excuse => Undisturbed

-----------------------------------------------------------------------------
LEMMA InitSession == Init => TypeInv /\ SessionInv
<1> SUFFICES ASSUME Init PROVE TypeInv /\ SessionInv
  OBVIOUS
<1>1. flight \in [Handlers -> Flights] /\ Busy = {}
  BY DEF Init, Flights, Absent, Busy
<1>2. issued = 1 /\ cookie = 1 /\ stale = 0 /\ live = {1} /\ excuse = FALSE
  BY DEF Init
<1>3. Alone(cookie)
  BY <1>2 DEF Alone, Usable
<1>4. Undisturbed
  BY <1>1, <1>3 DEF Init, Undisturbed
<1>5. live \subseteq Nat /\ stale \in Nat /\ stale <= issued /\ issued \in Nat /\ cookie \in Nat
  BY <1>2
<1>6. TypeInv
  BY <1>1, <1>2, <1>5 DEF TypeInv
<1> QED
  BY <1>4, <1>6 DEF SessionInv

(* What a handler's flight becomes, and nobody else's.                       *)
LEMMA FlightGoes ==
  ASSUME TypeInv, NEW h \in Handlers, NEW f \in Flights, flight' = [flight EXCEPT ![h] = f]
  PROVE  /\ flight' \in [Handlers -> Flights] /\ flight'[h] = f
         /\ Busy' = IF f.pc = "none" THEN Busy \ {h} ELSE Busy \cup {h}
BY DEF TypeInv, Busy

LEMMA Airborne ==
  ASSUME TypeInv, NEW h \in Handlers, flight[h].pc # "none"
  PROVE  /\ flight[h] \in [pc : {"read", "revoke", "issue", "reply"}, token : Nat] /\ h \in Busy
         /\ [flight[h] EXCEPT !.pc = "revoke"] \in Flights
         /\ [flight[h] EXCEPT !.pc = "issue"] \in Flights
BY DEF TypeInv, Flights, Absent, Busy

LEMMA Departs ==
  ASSUME TypeInv, NEW h \in Handlers, flight' = Sending(h)
  PROVE  /\ flight' \in [Handlers -> Flights] /\ Busy' = Busy \cup {h}
         /\ flight'[h] = [pc |-> "read", token |-> cookie]
<1>1. [pc |-> "read", token |-> cookie] \in Flights
  BY DEF TypeInv, Flights
<1> QED
  BY <1>1, FlightGoes DEF Sending

LEMMA Lands ==
  ASSUME TypeInv, NEW h \in Handlers, flight' = [flight EXCEPT ![h] = Absent]
  PROVE  flight' \in [Handlers -> Flights] /\ Busy' = Busy \ {h}
<1>1. Absent \in Flights /\ Absent.pc = "none"
  BY DEF Flights, Absent
<1> QED
  BY <1>1, FlightGoes

(* The client: a refused call joins the refresh under way or starts the only *)
(* one.                                                                      *)
LEMMA AnswerSession ==
  ASSUME TypeInv, SessionInv, NEW c \in Calls, Answer(c)
  PROVE  TypeInv' /\ SessionInv'
<1>1. UNCHANGED <<issued, live, stale, cookie, page, excuse>> /\ c \in Unsettled
  BY DEF Answer, server, Unsettled
<1>2. ~excuse => page # "login"
  BY <1>1 DEF SessionInv, Undisturbed
<1>3. CASE shared' = shared /\ flight' = flight
  BY <1>1, <1>2, <1>3 DEF TypeInv, SessionInv, Undisturbed, Busy, Carries, Alone, Usable
<1>4. CASE ~(shared' = shared /\ flight' = flight)
  <2>1. PICK h \in Handlers : Joins(h) /\ shared' = h /\ flight' = IF h \in Free THEN Sending(h) ELSE flight
    BY <1>4 DEF Answer
  <2>2. CASE h \in Free
    <3>1. TypeInv'
      BY <1>1, <2>1, <2>2, Departs DEF TypeInv
    <3>2. ~excuse => shared = NULL /\ Busy = {} /\ Alone(cookie) /\ page # "login"
      BY <1>2, <2>1, <2>2, NullAssumption DEF SessionInv, Undisturbed, Joins, Free
    <3>3. Alone(cookie) => Alone(cookie)'
      BY <1>1 DEF Alone, Usable
    <3>4. SessionInv'
      BY <1>1, <2>1, <2>2, <3>2, <3>3, Departs DEF SessionInv, Undisturbed, Carries
    <3> QED
      BY <3>1, <3>4
  <2>3. CASE h \notin Free
    BY <1>4, <2>1, <2>3 DEF Joins
  <2> QED
    BY <2>2, <2>3
<1> QED
  BY <1>3, <1>4

(* A refresh that fails because the token expired leaves the page at the     *)
(* login, with nothing that would be taken.                                  *)
LEMMA LapsedSession ==
  ASSUME TypeInv, SessionInv, NEW h \in Handlers, flight[h].pc # "none",
         Fails(h), UNCHANGED <<issued, stale, excuse>>, live' \subseteq live,
         ~excuse => Usable' = {} /\ cookie <= stale
  PROVE  TypeInv' /\ SessionInv'
<1>1. flight' = [flight EXCEPT ![h] = Absent] /\ cookie' = cookie
  BY DEF Fails, Refused, client
<1>2. flight' \in [Handlers -> Flights] /\ Busy' = Busy \ {h}
  BY <1>1, Lands
<1>3. ~excuse => shared = h /\ Busy = {h}
  BY Airborne DEF SessionInv, Undisturbed
<1>4. ~excuse => page' = "login" /\ shared' = NULL /\ call' = [c \in Calls |-> IF c \in Unsettled THEN Settled ELSE call[c]]
  BY <1>3 DEF Fails, Refused, Expected
<1>5. ~excuse => Unsettled' = {}
  BY <1>4 DEF Unsettled, Settled
<1> QED
  BY <1>1, <1>2, <1>3, <1>4, <1>5 DEF TypeInv, SessionInv, Undisturbed

LEMMA ServeSession ==
  ASSUME TypeInv, SessionInv, NEW h \in Handlers, Serve(h)
  PROVE  TypeInv' /\ SessionInv'
<1>1. flight[h].pc # "none"
  BY DEF Serve, ReadToken, RevokeToken, IssueToken, Deliver
<1>2. flight[h] \in [pc : {"read", "revoke", "issue", "reply"}, token : Nat] /\ h \in Busy
  BY <1>1, Airborne
<1>3. ~excuse => shared = h /\ Busy = {h} /\ Carries(h) /\ page # "login"
  BY <1>2 DEF SessionInv, Undisturbed
<1>4. excuse' = excuse /\ stale' = stale
  BY DEF Serve, ReadToken, RevokeToken, IssueToken, Deliver, server
<1>5. CASE ReadToken(h)
  <2>1. CASE flight[h].token \in Usable
    <3>1. flight' = [flight EXCEPT ![h] = [flight[h] EXCEPT !.pc = "revoke"]]
          /\ UNCHANGED <<issued, live, cookie, page, shared>>
      BY <1>5, <2>1 DEF ReadToken, server, client
    <3>2. flight'[h] = [flight[h] EXCEPT !.pc = "revoke"] /\ Busy' = Busy \cup {h}
          /\ flight' \in [Handlers -> Flights]
      BY <1>1, <1>2, <3>1, Airborne, FlightGoes
    <3>3. flight'[h].pc = "revoke" /\ flight'[h].token = flight[h].token /\ flight[h].pc = "read"
      BY <1>2, <1>5, <3>2 DEF ReadToken
    <3>4. Alone(cookie) => Alone(cookie)'
      BY <1>4, <3>1 DEF Alone, Usable
    <3> QED
      BY <1>3, <1>4, <3>1, <3>2, <3>3, <3>4 DEF TypeInv, SessionInv, Undisturbed, Carries
  <2>2. CASE flight[h].token \notin Usable
    <3>1. ~excuse => flight[h].token = cookie /\ Alone(cookie)
      BY <1>3, <1>5 DEF ReadToken, Carries
    <3>2. ~excuse => Usable = {} /\ cookie <= stale
      BY <2>2, <3>1 DEF Alone, Usable, TypeInv
    <3>3. live' \subseteq live /\ Fails(h) /\ issued' = issued
      BY <1>5, <2>2 DEF ReadToken
    <3>4. ~excuse => Usable' = {} /\ cookie <= stale
      BY <1>4, <3>2, <3>3 DEF Usable
    <3> QED
      BY <1>1, <1>4, <3>3, <3>4, LapsedSession
  <2> QED
    BY <2>1, <2>2
<1>6. CASE RevokeToken(h)
  <2>1. CASE flight[h].token \in live \cup revoked
    <3>1. flight' = [flight EXCEPT ![h] = [flight[h] EXCEPT !.pc = "issue"]]
          /\ UNCHANGED <<issued, cookie, page, shared>> /\ live' = live \ {flight[h].token}
      BY <1>6, <2>1 DEF RevokeToken, client
    <3>2. flight'[h] = [flight[h] EXCEPT !.pc = "issue"] /\ Busy' = Busy \cup {h}
          /\ flight' \in [Handlers -> Flights]
      BY <1>1, <1>2, <3>1, Airborne, FlightGoes
    <3>3. flight'[h].pc = "issue" /\ flight[h].pc = "revoke"
      BY <1>2, <1>6, <3>2 DEF RevokeToken
    <3>4. ~excuse => Usable' = {}
      BY <1>3, <1>4, <3>1, <3>3 DEF Carries, Alone, Usable
    <3> QED
      BY <1>3, <1>4, <3>1, <3>2, <3>3, <3>4 DEF TypeInv, SessionInv, Undisturbed, Carries
  <2>2. CASE flight[h].token \notin live \cup revoked
    <3>1. ~excuse => flight[h].token = cookie /\ Alone(cookie)
      BY <1>3, <1>6 DEF RevokeToken, Carries
    <3>2. Fails(h) /\ UNCHANGED <<issued, live>>
      BY <1>6, <2>2 DEF RevokeToken
    <3>3. ~excuse => Usable' = {} /\ cookie <= stale
      BY <1>4, <2>2, <3>1, <3>2 DEF Alone, Usable, TypeInv
    <3> QED
      BY <1>1, <1>4, <3>2, <3>3, LapsedSession
  <2> QED
    BY <2>1, <2>2
<1>7. CASE IssueToken(h)
  <2>1. [pc |-> "reply", token |-> issued + 1] \in Flights /\ issued + 1 \in Nat
    BY DEF TypeInv, Flights
  <2>2. flight'[h] = [pc |-> "reply", token |-> issued + 1] /\ Busy' = Busy \cup {h}
        /\ flight' \in [Handlers -> Flights]
    BY <1>7, <2>1, FlightGoes DEF IssueToken
  <2>3. issued' = issued + 1 /\ live' = live \cup {issued + 1} /\ UNCHANGED <<cookie, page, shared>>
    BY <1>7 DEF IssueToken, client
  <2>4. ~excuse => Usable = {}
    BY <1>3, <1>7 DEF IssueToken, Carries
  <2>5. ~excuse => Usable' \subseteq {issued + 1} /\ issued + 1 \in live'
    BY <1>4, <2>3, <2>4 DEF Usable
  <2>6. flight'[h].token = issued + 1 /\ flight'[h].pc = "reply"
    BY <2>2
  <2>7. ~excuse => Carries(h)'
    BY <2>5, <2>6 DEF Carries, Alone
  <2> QED
    BY <1>3, <1>4, <2>1, <2>2, <2>3, <2>7 DEF TypeInv, SessionInv, Undisturbed
<1>8. CASE Deliver(h)
  <2>1. flight' = [flight EXCEPT ![h] = Absent] /\ issued' = issued /\ live' = live
    BY <1>8 DEF Deliver, server
  <2>2. cookie' \in Nat
    BY <1>2, <1>8 DEF Deliver, Restored, client, TypeInv
  <2>3. ~excuse => /\ cookie' = flight[h].token /\ shared' = NULL /\ page' # "login"
                   /\ Alone(flight[h].token)
    BY <1>3, <1>8 DEF Deliver, Expected, Restored, Carries
  <2>4. ~excuse => Alone(cookie)'
    BY <1>4, <2>1, <2>3 DEF Alone, Usable
  <2> QED
    BY <1>3, <1>4, <2>1, <2>2, <2>3, <2>4, Lands DEF TypeInv, SessionInv, Undisturbed
<1> QED
  BY <1>5, <1>6, <1>7, <1>8 DEF Serve

(* Rows that are cleaned up, tokens that expire and calls that settle change *)
(* nothing but what may yet be taken.                                        *)
LEMMA AgeingSession ==
  ASSUME TypeInv, SessionInv, UNCHANGED <<issued, cookie, page, shared, flight, excuse>>,
         stale' \in Nat, stale <= stale', stale' <= issued,
         live' \subseteq live, \A t \in live : t > stale' => t \in live',
         page = "login" /\ Unsettled = {} => Unsettled' = {}
  PROVE  TypeInv' /\ SessionInv'
<1>1. TypeInv'
  <2>1. live' \subseteq Nat
    BY DEF TypeInv
  <2>2. UNCHANGED <<issued, cookie, flight, excuse>>
    OBVIOUS
  <2> QED
    BY <2>1, <2>2 DEF TypeInv
<1>2. Usable' \subseteq Usable
  <2>1. \A t \in live : t \in Nat /\ stale \in Nat
    BY DEF TypeInv
  <2>2. \A t \in live : t > stale' => t > stale
    BY <2>1
  <2> QED
    BY <2>2 DEF Usable
<1>3. ASSUME NEW t \in Nat, Alone(t) PROVE Usable' \subseteq {t} /\ (t > stale' => t \in live')
  BY <1>2, <1>3 DEF Alone, TypeInv
<1>4. Alone(cookie) => Alone(cookie)'
  BY <1>3 DEF Alone, TypeInv
<1>5. ASSUME NEW h \in Handlers, Carries(h), Busy = {h} PROVE Carries(h)'
  <2>1. flight[h] \in [pc : {"read", "revoke", "issue", "reply"}, token : Nat]
    BY <1>5, Airborne DEF Busy
  <2>2. flight[h].token \in Nat
    BY <2>1
  <2> QED
    BY <1>2, <1>3, <1>5, <2>2 DEF Carries, Alone, TypeInv
<1>6. SessionInv'
  BY <1>2, <1>4, <1>5 DEF SessionInv, Undisturbed, TypeInv, Busy
<1> QED
  BY <1>1, <1>6

LEMMA NextSession == TypeInv /\ SessionInv /\ [Next]_vars => TypeInv' /\ SessionInv'
<1> SUFFICES ASSUME TypeInv, SessionInv, [Next]_vars PROVE TypeInv' /\ SessionInv'
  OBVIOUS
<1>2. CASE Reload
  <2>1. PICK h \in Handlers : /\ flight' = Sending(h) /\ shared' = h
                              /\ excuse' = (excuse \/ shared # NULL)
    BY <1>2 DEF Reload, Free
  <2>2. UNCHANGED <<issued, live, stale, cookie>> /\ page' = "booting" /\ page # "login"
    BY <1>2 DEF Reload, server
  <2>3. ~excuse' => Busy = {} /\ Alone(cookie)
    BY <2>1, <2>2, NullAssumption DEF SessionInv, Undisturbed
  <2>4. Alone(cookie) => Alone(cookie)'
    BY <2>2 DEF Alone, Usable
  <2> QED
    BY <2>1, <2>2, <2>3, <2>4, Departs DEF TypeInv, SessionInv, Undisturbed, Carries
<1>3. CASE Login
  <2>1. /\ issued' = issued + 1 /\ cookie' = issued + 1 /\ live' = live \cup {issued + 1}
        /\ page' = "ready" /\ page = "login" /\ UNCHANGED <<stale, shared, flight, excuse>>
    BY <1>3 DEF Login
  <2>2. TypeInv'
    BY <2>1 DEF TypeInv
  <2>3. ~excuse => shared = NULL /\ Busy = {} /\ Usable = {}
    BY <2>1 DEF SessionInv, Undisturbed
  <2>4. ~excuse => Alone(cookie)'
    BY <2>1, <2>3 DEF Alone, Usable
  <2> QED
    BY <2>1, <2>2, <2>3, <2>4 DEF SessionInv, Undisturbed, Busy
<1>4. ASSUME NEW h \in Handlers, LoseRefresh(h) PROVE TypeInv' /\ SessionInv'
  <2>1. /\ flight' = [flight EXCEPT ![h] = Absent]
        /\ UNCHANGED <<cookie, issued, stale, live>> /\ excuse' = TRUE
    BY <1>4 DEF LoseRefresh, Fails, Refused, client, server
  <2> QED
    BY <2>1, Lands DEF TypeInv, SessionInv
<1>5. CASE RevokeAll \/ Logout
  <2>1. UNCHANGED <<issued, stale, flight>> /\ live' \subseteq Nat /\ cookie' \in Nat /\ excuse' = TRUE
    <3>1. CASE RevokeAll
      BY <3>1 DEF RevokeAll, client, TypeInv
    <3>2. CASE Logout
      BY <3>2 DEF Logout, TypeInv
    <3> QED
      BY <1>5, <3>1, <3>2
  <2> QED
    BY <2>1 DEF TypeInv, SessionInv
<1>6. ASSUME NEW c \in Calls, Call(c) \/ LoseCall(c) PROVE TypeInv' /\ SessionInv'
  <2>1. UNCHANGED <<issued, live, stale, cookie, page, shared, flight, excuse>>
    BY <1>6 DEF Call, LoseCall, server
  <2>2. page = "login" => Unsettled # {}
    BY <1>6 DEF Call, LoseCall, Unsettled
  <2> QED
    BY <2>1, <2>2, AgeingSession DEF TypeInv
<1>7. CASE CleanUp
  <2>1. /\ UNCHANGED <<issued, stale, cookie, page, shared, flight, excuse, call>>
        /\ live' = Usable
    BY <1>7 DEF CleanUp, client
  <2> QED
    BY <2>1, AgeingSession DEF TypeInv, Usable, Unsettled
<1>8. CASE ExpireRefresh
  <2>1. UNCHANGED <<issued, live, cookie, page, shared, flight, excuse, call>>
    BY <1>8 DEF ExpireRefresh, client
  <2>2. stale' \in Nat /\ stale <= stale' /\ stale' <= issued
    BY <1>8 DEF ExpireRefresh, TypeInv
  <2> QED
    BY <2>1, <2>2, AgeingSession DEF Unsettled
<1>9. CASE ExpireAccess \/ ChangeAccount \/ UNCHANGED vars
  <2>1. UNCHANGED <<issued, live, stale, cookie, page, shared, flight, excuse, call>>
    BY <1>9 DEF ExpireAccess, ChangeAccount, vars, server, client
  <2> QED
    BY <2>1, AgeingSession DEF TypeInv, Unsettled
<1> QED
  BY <1>2, <1>3, <1>4, <1>5, <1>6, <1>7, <1>8, <1>9, AnswerSession, ServeSession DEF Next

LEMMA SessionKept == Spec => [](TypeInv /\ SessionInv)
BY InitSession, NextSession, PTL DEF Spec

(* The page only returns to the login because an answer was lost, the        *)
(* sessions were revoked or the token it holds expired (api.ts:              *)
(* refreshPromise, _retry; AuthService.refresh).                             *)
THEOREM StaysSignedIn == Spec => []SignedOutForAReason
<1>1. SessionInv => SignedOutForAReason
  BY DEF SessionInv, Undisturbed, SignedOutForAReason
<1> QED
  BY <1>1, SessionKept, PTL

(* A page that was never cut off keeps one session (AuthService.refresh).    *)
THEOREM SessionIsOne == Spec => []OneSessionPerPage
<1>1. TypeInv /\ SessionInv => OneSessionPerPage
  <2> SUFFICES ASSUME TypeInv, SessionInv, ~excuse PROVE Cardinality(Usable) <= 1
    BY DEF OneSessionPerPage
  <2>1. \E t : Usable \subseteq {t}
    <3>1. ASSUME NEW h \in Handlers, Busy = {h}, Carries(h) PROVE \E t : Usable \subseteq {t}
      <4>1. flight[h].pc # "none"
        BY <3>1 DEF Busy
      <4>2. flight[h].pc \in {"read", "revoke", "issue", "reply"}
        BY <4>1, Airborne
      <4> QED
        BY <3>1, <4>2 DEF Carries, Alone
    <3> QED
      BY <3>1 DEF SessionInv, Undisturbed, Alone
  <2>2. PICK t : Usable \subseteq {t}
    BY <2>1
  <2>3. Cardinality({t}) = 1 /\ Cardinality({}) = 0
    BY FS_Singleton, FS_EmptySet
  <2>4. Usable = {} \/ Usable = {t}
    BY <2>2
  <2> QED
    BY <2>3, <2>4
<1> QED
  BY <1>1, SessionKept, PTL

-----------------------------------------------------------------------------
(* ExamPage: nothing chosen is lost without an excuse.                       *)

Drafts == Options \cup {Empty}
Saves  == [q : Questions, v : Drafts, final : BOOLEAN, late : BOOLEAN]

PageTyped ==
  /\ draft \in [Questions -> Drafts \cup {NULL}] /\ at \in Questions
  /\ save \in Seq(Saves)
  /\ post \in [Exam!Who -> Nat]
  /\ answer \in [Questions -> Drafts] /\ given \in [Questions -> Drafts]

InFlight(q) == {i \in DOMAIN save : save[i].q = q}
Finals      == {i \in DOMAIN save : save[i].final}
Stored(q)   == answer[q] = given[q]

\* A save that lands changes nothing for good: it has been overtaken, it says
\* what the student last chose, or one sent after it does.
Healed(i) ==
  \/ save[i].late
  \/ save[i].v = given[save[i].q]
  \/ \E j \in InFlight(save[i].q) : j > i /\ save[j].v = given[save[i].q]

\* What is known of a question that is not excused: without a draft there is
\* nothing on its way; away from the current question the last choice is stored
\* or on its way; and a submission on its way overtakes nothing, while one that
\* is to come waits for the only choice that is not stored.
Kept(q) ==
  /\ draft[q] = NULL => InFlight(q) = {} /\ Stored(q)
  /\ q # at => /\ InFlight(q) = {} => Stored(q)
               /\ draft[q] = given[q] => \A i \in InFlight(q) : Healed(i)
  /\ Exam!Confirming /\ ~Stored(q) =>
       post["student"] = 0 /\ Finals # {} /\ Finals \subseteq InFlight(q)

KeptAll == \A q \in Questions : q \in excused \/ Kept(q)

PageInv ==
  /\ Exam!ConfirmedIsGraded
  /\ status # "DONE" => PageTyped /\ KeptAll

-----------------------------------------------------------------------------
(* Requests that are sent and requests that arrive. *)

\* Where the request now at position j was before the one at i left, and back.
Was(i, j) == IF j < i THEN j ELSE j + 1
Now(i, j) == IF j < i THEN j ELSE j - 1

LEMMA Removed ==
  ASSUME NEW S, NEW s \in Seq(S), NEW i \in DOMAIN s
  PROVE  /\ Exam!RemoveAt(s, i) \in Seq(S)
         /\ DOMAIN Exam!RemoveAt(s, i) = 1 .. Len(s) - 1
         /\ \A j \in 1 .. Len(s) - 1 : Exam!RemoveAt(s, i)[j] = s[Was(i, j)]
<1> DEFINE before == SubSeq(s, 1, i - 1)
           after  == SubSeq(s, i + 1, Len(s))
<1>1. Len(s) \in Nat /\ i \in 1 .. Len(s) /\ \A j \in 1 .. Len(s) : s[j] \in S
  BY LenProperties, ElementOfSeq
<1>2. /\ before \in Seq(S) /\ Len(before) = i - 1
      /\ \A j \in 1 .. i - 1 : before[j] = s[j]
  <2>1. \A j \in 1 .. i - 1 : s[j] \in S
    BY <1>1
  <2>2. 1 \in Int /\ i - 1 \in Int
    BY <1>1
  <2>3. /\ before \in Seq(S) /\ Len(before) = IF 1 <= i - 1 THEN i - 1 - 1 + 1 ELSE 0
        /\ \A j \in 1 .. i - 1 - 1 + 1 : before[j] = s[1 + j - 1]
    BY <2>1, <2>2, SubSeqProperties
  <2> QED BY <2>3, <1>1
<1>3. /\ after \in Seq(S) /\ Len(after) = Len(s) - i
      /\ \A j \in 1 .. Len(s) - i : after[j] = s[i + j]
  <2>1. \A j \in i + 1 .. Len(s) : s[j] \in S
    BY <1>1
  <2>2. i + 1 \in Int /\ Len(s) \in Int
    BY <1>1
  <2>3. /\ after \in Seq(S) /\ Len(after) = IF i + 1 <= Len(s) THEN Len(s) - (i + 1) + 1 ELSE 0
        /\ \A j \in 1 .. Len(s) - (i + 1) + 1 : after[j] = s[i + 1 + j - 1]
    BY <2>1, <2>2, SubSeqProperties
  <2> QED BY <2>3, <1>1
<1>4. Exam!RemoveAt(s, i) = before \o after
  BY DEF Exam!RemoveAt
<1> HIDE DEF before, after
<1>5. /\ before \o after \in Seq(S) /\ Len(before \o after) = Len(s) - 1
      /\ \A j \in 1 .. Len(s) - 1 :
           (before \o after)[j] = IF j <= i - 1 THEN before[j] ELSE after[j - (i - 1)]
  BY SMTT(30), <1>1, <1>2, <1>3, ConcatProperties
<1>6. DOMAIN (before \o after) = 1 .. Len(s) - 1
  BY <1>5, LenProperties
<1>7. ASSUME NEW j \in 1 .. Len(s) - 1 PROVE (before \o after)[j] = s[Was(i, j)]
  <2>1. CASE j < i
    BY <2>1, <1>1, <1>2, <1>5 DEF Was
  <2>2. CASE ~(j < i)
    <3>1. j - (i - 1) \in 1 .. Len(s) - i /\ i + (j - (i - 1)) = j + 1 /\ ~(j <= i - 1)
      BY <2>2, <1>1
    <3>2. (before \o after)[j] = after[j - (i - 1)]
      BY <3>1, <1>5
    <3>3. after[j - (i - 1)] = s[i + (j - (i - 1))]
      BY <3>1, <1>3
    <3> QED BY <2>2, <3>1, <3>2, <3>3 DEF Was
  <2> QED BY <2>1, <2>2, <1>1
<1> QED BY <1>4, <1>5, <1>6, <1>7

\* The request at i has left; the others keep their order.
Left(i) ==
  /\ i \in DOMAIN save
  /\ \A j \in DOMAIN save' :
       /\ Was(i, j) \in DOMAIN save \ {i}
       /\ save'[j].q = save[Was(i, j)].q /\ save'[j].v = save[Was(i, j)].v
       /\ save'[j].final = save[Was(i, j)].final
       /\ save[Was(i, j)].late => save'[j].late
  /\ \A j \in DOMAIN save \ {i} : Now(i, j) \in DOMAIN save' /\ Was(i, Now(i, j)) = j
  /\ \A j, k \in DOMAIN save \ {i} : j < k => Now(i, j) < Now(i, k)
  /\ \A j \in DOMAIN save' : Now(i, Was(i, j)) = j

LEMMA Positions ==
  ASSUME NEW n \in Nat, NEW i \in 1 .. n
  PROVE  /\ \A j \in 1 .. n - 1 : Was(i, j) \in (1 .. n) \ {i} /\ Now(i, Was(i, j)) = j
         /\ \A j \in (1 .. n) \ {i} : Now(i, j) \in 1 .. n - 1 /\ Was(i, Now(i, j)) = j
         /\ \A j, k \in (1 .. n) \ {i} : j < k => Now(i, j) < Now(i, k)
BY DEF Was, Now

LEMMA FailedLeaves ==
  ASSUME PageTyped, NEW i \in DOMAIN save, save' = Exam!RemoveAt(save, i)
  PROVE  save' \in Seq(Saves) /\ Left(i)
<1>1. save \in Seq(Saves) /\ Len(save) \in Nat /\ DOMAIN save = 1 .. Len(save)
  BY LenProperties DEF PageTyped
<1>2. /\ save' \in Seq(Saves) /\ DOMAIN save' = 1 .. Len(save) - 1
      /\ \A j \in 1 .. Len(save) - 1 : save'[j] = save[Was(i, j)]
  BY <1>1, Removed
<1>3. /\ \A j \in DOMAIN save' : Was(i, j) \in DOMAIN save \ {i} /\ Now(i, Was(i, j)) = j
      /\ \A j \in DOMAIN save \ {i} : Now(i, j) \in DOMAIN save' /\ Was(i, Now(i, j)) = j
      /\ \A j, k \in DOMAIN save \ {i} : j < k => Now(i, j) < Now(i, k)
  <2> DEFINE n == Len(save)
  <2>1. n \in Nat /\ i \in 1 .. n /\ DOMAIN save = 1 .. n /\ DOMAIN save' = 1 .. n - 1
    BY <1>1, <1>2
  <2> HIDE DEF n
  <2>2. /\ \A j \in 1 .. n - 1 : Was(i, j) \in (1 .. n) \ {i} /\ Now(i, Was(i, j)) = j
        /\ \A j \in (1 .. n) \ {i} : Now(i, j) \in 1 .. n - 1 /\ Was(i, Now(i, j)) = j
        /\ \A j, k \in (1 .. n) \ {i} : j < k => Now(i, j) < Now(i, k)
    BY <2>1, Positions
  <2> QED BY <2>1, <2>2
<1>4. \A j \in DOMAIN save' : save'[j] = save[Was(i, j)]
  BY <1>2
<1> HIDE DEF Was, Now
<1> QED BY <1>2, <1>3, <1>4 DEF Left

LEMMA SavedLeaves ==
  ASSUME PageTyped, NEW i \in DOMAIN save, save' = Exam!Overtakes(i)
  PROVE  /\ save' \in Seq(Saves) /\ Left(i)
         /\ \A j \in DOMAIN save' :
              Was(i, j) < i /\ save[Was(i, j)].q = save[i].q => save'[j].late
<1>1. save \in Seq(Saves) /\ Len(save) \in Nat /\ DOMAIN save = 1 .. Len(save)
  BY LenProperties DEF PageTyped
<1> DEFINE late(j) == save[j].late \/ (j < i /\ save[j].q = save[i].q)
           marked  == [j \in DOMAIN save |-> [save[j] EXCEPT !.late = late(j)]]
<1>2. ASSUME NEW j \in DOMAIN save
      PROVE  /\ [save[j] EXCEPT !.late = late(j)] \in Saves
             /\ [save[j] EXCEPT !.late = late(j)].q = save[j].q
             /\ [save[j] EXCEPT !.late = late(j)].v = save[j].v
             /\ [save[j] EXCEPT !.late = late(j)].final = save[j].final
             /\ [save[j] EXCEPT !.late = late(j)].late = late(j)
  <2>1. save[j] \in Saves
    BY <1>1, ElementOfSeq
  <2> DEFINE b == late(j)
  <2>2. b \in BOOLEAN
    BY <2>1 DEF Saves
  <2> HIDE DEF b
  <2>3. /\ [save[j] EXCEPT !.late = b] \in Saves
        /\ [save[j] EXCEPT !.late = b].q = save[j].q
        /\ [save[j] EXCEPT !.late = b].v = save[j].v
        /\ [save[j] EXCEPT !.late = b].final = save[j].final
        /\ [save[j] EXCEPT !.late = b].late = b
    BY <2>1, <2>2 DEF Saves
  <2> QED BY <2>3 DEF b
<1>3. /\ \A j \in DOMAIN save : /\ marked[j].q = save[j].q /\ marked[j].v = save[j].v
                                /\ marked[j].final = save[j].final /\ (late(j) => marked[j].late)
      /\ marked \in [1 .. Len(save) -> Saves]
  BY <1>1, <1>2
<1>4. save' = Exam!RemoveAt(marked, i)
  BY DEF Exam!Overtakes
<1> HIDE DEF marked
<1>5. marked \in Seq(Saves) /\ Len(marked) = Len(save) /\ DOMAIN marked = DOMAIN save
  BY <1>1, <1>3
<1>6. /\ save' \in Seq(Saves) /\ DOMAIN save' = 1 .. Len(save) - 1
      /\ \A j \in 1 .. Len(save) - 1 : save'[j] = marked[Was(i, j)]
  <2> DEFINE t == Exam!RemoveAt(marked, i)
  <2>1. /\ t \in Seq(Saves) /\ DOMAIN t = 1 .. Len(marked) - 1
        /\ \A j \in 1 .. Len(marked) - 1 : t[j] = marked[Was(i, j)]
    BY ONLY <1>5, Removed, i \in DOMAIN save
  <2> QED BY <1>4, <1>5, <2>1
<1>7. /\ \A j \in DOMAIN save' : Was(i, j) \in DOMAIN save \ {i} /\ Now(i, Was(i, j)) = j
      /\ \A j \in DOMAIN save \ {i} : Now(i, j) \in DOMAIN save' /\ Was(i, Now(i, j)) = j
      /\ \A j, k \in DOMAIN save \ {i} : j < k => Now(i, j) < Now(i, k)
  <2> DEFINE n == Len(save)
  <2>1. n \in Nat /\ i \in 1 .. n /\ DOMAIN save = 1 .. n /\ DOMAIN save' = 1 .. n - 1
    BY <1>1, <1>6
  <2> HIDE DEF n
  <2>2. /\ \A j \in 1 .. n - 1 : Was(i, j) \in (1 .. n) \ {i} /\ Now(i, Was(i, j)) = j
        /\ \A j \in (1 .. n) \ {i} : Now(i, j) \in 1 .. n - 1 /\ Was(i, Now(i, j)) = j
        /\ \A j, k \in (1 .. n) \ {i} : j < k => Now(i, j) < Now(i, k)
    BY <2>1, Positions
  <2> QED BY <2>1, <2>2
<1>8. ASSUME NEW j \in DOMAIN save'
      PROVE  /\ save'[j].q = save[Was(i, j)].q /\ save'[j].v = save[Was(i, j)].v
             /\ save'[j].final = save[Was(i, j)].final
             /\ save[Was(i, j)].late => save'[j].late
             /\ Was(i, j) < i /\ save[Was(i, j)].q = save[i].q => save'[j].late
  <2>1. save'[j] = marked[Was(i, j)] /\ Was(i, j) \in DOMAIN save
    BY <1>6, <1>7
  <2> QED BY <2>1, <1>3
<1>9. Left(i)
  BY <1>1, <1>6, <1>7, <1>8 DEF Left
<1> QED BY <1>6, <1>8, <1>9

-----------------------------------------------------------------------------
(* What each step makes of a question. *)

LEMMA Indexed ==
  ASSUME PageTyped
  PROVE  /\ Len(save) \in Nat /\ DOMAIN save = 1 .. Len(save)
         /\ \A i \in DOMAIN save : save[i] \in Saves /\ i \in Nat
BY LenProperties, ElementOfSeq DEF PageTyped

\* A step that changes neither drafts, saves nor answers, and confirms nothing.
LEMMA QuietKeeps ==
  ASSUME KeptAll, excused \subseteq excused',
         UNCHANGED <<draft, at, save, answer, given>>,
         post'["student"] = post["student"] \/ (post["student"] \in Nat \ {0})
  PROVE  KeptAll'
<1> SUFFICES ASSUME NEW q \in Questions, q \notin excused' PROVE Kept(q)'
  BY DEF KeptAll
<1>1. Kept(q)
  BY DEF KeptAll
<1>2. /\ InFlight(q)' = InFlight(q) /\ Finals' = Finals /\ (Stored(q)' <=> Stored(q))
      /\ \A i \in DOMAIN save : Healed(i)' <=> Healed(i)
  BY DEF InFlight, Finals, Stored, Healed
<1>3. ASSUME Exam!Confirming', ~Stored(q)
      PROVE  post'["student"] = 0 /\ Finals # {} /\ Finals \subseteq InFlight(q)
  <2>1. post["student"] \in Nat \ {0} => Exam!Confirming
    BY DEF Exam!Confirming
  <2>2. post'["student"] = post["student"]
    BY <1>1, <1>3, <2>1 DEF Kept
  <2>3. Exam!Confirming
    BY <1>3, <2>2 DEF Exam!Confirming
  <2> QED BY <1>1, <1>3, <2>2, <2>3 DEF Kept
<1>4. InFlight(q) \subseteq DOMAIN save
  BY DEF InFlight
<1> QED BY <1>1, <1>2, <1>3, <1>4 DEF Kept

\* A choice is the last word on the current question; elsewhere, or while a
\* submission is on its way, the question is excused.
LEMMA EditKeeps ==
  ASSUME PageTyped, status # "DONE", KeptAll,
         NEW p \in Questions, NEW v \in Drafts, Exam!Edit(p, v)
  PROVE  KeptAll'
<1> SUFFICES ASSUME NEW q \in Questions, q \notin excused' PROVE Kept(q)'
  BY DEF KeptAll
<1>1. /\ draft' = [draft EXCEPT ![p] = v] /\ UNCHANGED <<at, save, post, answer>>
      /\ given' = IF Exam!Confirming THEN given ELSE [given EXCEPT ![p] = v]
      /\ excused' = excused \cup (IF p # at \/ Exam!Confirming THEN {p} ELSE {})
  BY DEF Exam!Edit, Exam!Excuse, Exam!wire, Exam!server
<1>2. Kept(q)
  BY <1>1 DEF KeptAll
<1>3. InFlight(q)' = InFlight(q) /\ Finals' = Finals /\ (Exam!Confirming' <=> Exam!Confirming)
  BY <1>1 DEF InFlight, Finals, Exam!Confirming
<1>4. CASE q = p
  <2>1. p = at /\ ~Exam!Confirming /\ draft'[q] = v /\ v # NULL
    BY <1>1, <1>4, ExamAssumption DEF PageTyped, Drafts
  <2> QED BY <1>1, <1>3, <1>4, <2>1 DEF Kept
<1>5. CASE q # p
  <2>1. draft'[q] = draft[q] /\ given'[q] = given[q]
    BY <1>1, <1>5 DEF PageTyped
  <2>2. \A i \in InFlight(q) : Healed(i)' <=> Healed(i)
    BY <1>1, <1>3, <2>1 DEF Healed, InFlight
  <2>3. Stored(q)' <=> Stored(q)
    BY <1>1, <2>1 DEF Stored
  <2> QED BY <1>1, <1>2, <1>3, <2>1, <2>2, <2>3 DEF Kept
<1> QED BY <1>4, <1>5

LEMMA BookmarkKeeps ==
  ASSUME PageTyped, status # "DONE", KeptAll, NEW p \in Questions, Exam!Bookmark(p)
  PROVE  KeptAll'
<1> SUFFICES ASSUME NEW q \in Questions, q \notin excused' PROVE Kept(q)'
  BY DEF KeptAll
<1>1. /\ draft' = [draft EXCEPT ![p] = IF @ = NULL THEN Empty ELSE @]
      /\ UNCHANGED <<at, save, post, answer, given>>
      /\ excused' = excused \cup (IF draft'[p] # given[p] THEN {p} ELSE {})
  BY DEF Exam!Bookmark, Exam!Excuse, Exam!wire, Exam!server
<1>2. Kept(q)
  BY <1>1 DEF KeptAll
<1>3. /\ InFlight(q)' = InFlight(q) /\ Finals' = Finals /\ (Exam!Confirming' <=> Exam!Confirming)
      /\ (Stored(q)' <=> Stored(q)) /\ \A i \in DOMAIN save : Healed(i)' <=> Healed(i)
  BY <1>1 DEF InFlight, Finals, Exam!Confirming, Healed, Stored
<1>4. InFlight(q) \subseteq DOMAIN save
  BY DEF InFlight
<1>5. CASE q = p /\ draft[q] = NULL
  <2>1. draft'[q] # NULL /\ InFlight(q) = {} /\ Stored(q)
    BY <1>1, <1>2, <1>5, ExamAssumption DEF Kept, PageTyped
  <2> QED BY <1>1, <1>3, <2>1 DEF Kept
<1>6. CASE ~(q = p /\ draft[q] = NULL)
  <2>1. draft'[q] = draft[q]
    BY <1>1, <1>6 DEF PageTyped
  <2> QED BY <1>1, <1>2, <1>3, <1>4, <2>1 DEF Kept
<1> QED BY <1>5, <1>6

-----------------------------------------------------------------------------
(* Saves that are sent. *)

\* What saveCurrentAnswer adds to the requests in flight.
LEMMA SendAppends ==
  ASSUME PageTyped, NEW final \in BOOLEAN, Exam!Sends(final), draft[at] # NULL
  PROVE  /\ save' \in Seq(Saves) /\ DOMAIN save' = 1 .. Len(save) + 1
         /\ \A i \in DOMAIN save : i \in DOMAIN save' /\ i < Len(save) + 1 /\ save'[i] = save[i]
         /\ save'[Len(save) + 1].q = at /\ save'[Len(save) + 1].v = draft[at]
         /\ save'[Len(save) + 1].final <=> final
<1> DEFINE x == [q |-> at, v |-> draft[at], final |-> final, late |-> FALSE]
<1>1. x \in Saves
  BY DEF PageTyped, Saves, Drafts
<1>2. save' = Append(save, x) /\ save \in Seq(Saves)
  BY DEF Exam!Sends, PageTyped
<1> HIDE DEF x
<1>3. save' \in Seq(Saves) /\ Len(save') = Len(save) + 1 /\ save'[Len(save) + 1] = x
      /\ \A i \in 1 .. Len(save) : save'[i] = save[i]
  BY <1>1, <1>2, AppendProperties
<1>4. DOMAIN save' = 1 .. Len(save')
  BY <1>3, LenProperties
<1>5. x.q = at /\ x.v = draft[at] /\ (x.final <=> final)
  BY DEF x
<1> QED BY <1>3, <1>4, <1>5, Indexed

\* For a question that is not the current one, nothing is sent.
LEMMA OthersAreNotSent ==
  ASSUME PageTyped, NEW final \in BOOLEAN, Exam!Sends(final), UNCHANGED given,
         NEW q \in Questions, q # at
  PROVE  InFlight(q)' = InFlight(q) /\ \A i \in InFlight(q) : Healed(i)' <=> Healed(i)
<1>1. CASE draft[at] = NULL
  BY <1>1 DEF Exam!Sends, InFlight, Healed
<1>2. CASE draft[at] # NULL
  <2>1. /\ DOMAIN save' = 1 .. Len(save) + 1 /\ save'[Len(save) + 1].q = at
        /\ \A i \in DOMAIN save : i \in DOMAIN save' /\ save'[i] = save[i]
    BY <1>2, SendAppends
  <2>2. \A i \in DOMAIN save' : i \in DOMAIN save \/ i = Len(save) + 1
    BY <2>1, Indexed
  <2>3. InFlight(q)' = InFlight(q)
    BY <2>1, <2>2 DEF InFlight
  <2>4. \A i \in InFlight(q) : save'[i] = save[i] /\ save[i].q = q
    BY <2>1 DEF InFlight
  <2> QED BY <2>3, <2>4 DEF Healed
<1> QED BY <1>1, <1>2

\* A save that the page does not follow with a submission.
LEMMA PlainSendKeeps ==
  ASSUME PageTyped, KeptAll, Exam!Sends(FALSE), UNCHANGED <<draft, post, answer, given, excused>>,
         at' \in Questions
  PROVE  KeptAll'
<1> SUFFICES ASSUME NEW q \in Questions, q \notin excused' PROVE Kept(q)'
  BY DEF KeptAll
<1>1. Kept(q) /\ (Stored(q)' <=> Stored(q))
  BY DEF KeptAll, Stored
<1>2. Finals' = Finals /\ InFlight(q) \subseteq InFlight(q)' /\ (Exam!Confirming' <=> Exam!Confirming)
  <2>1. CASE draft[at] = NULL
    BY <2>1 DEF Exam!Sends, Finals, InFlight, Exam!Confirming
  <2>2. CASE draft[at] # NULL
    <3>1. /\ DOMAIN save' = 1 .. Len(save) + 1 /\ ~save'[Len(save) + 1].final
          /\ \A i \in DOMAIN save : i \in DOMAIN save' /\ save'[i] = save[i]
      BY <2>2, SendAppends
    <3>2. \A i \in DOMAIN save' : i \in DOMAIN save \/ i = Len(save) + 1
      BY <3>1, Indexed
    <3>3. Finals' = Finals
      BY <3>1, <3>2 DEF Finals
    <3>4. InFlight(q) \subseteq InFlight(q)'
      BY <3>1 DEF InFlight
    <3> QED BY <3>3, <3>4 DEF Exam!Confirming, Finals
  <2> QED BY <2>1, <2>2
<1>3. CASE q # at
  BY <1>1, <1>2, <1>3, OthersAreNotSent DEF Kept
<1>4. CASE q = at /\ draft[at] = NULL
  <2>1. save' = save /\ InFlight(q) = {} /\ Stored(q)
    BY <1>1, <1>4 DEF Exam!Sends, Kept
  <2>2. InFlight(q)' = {}
    BY <2>1 DEF InFlight
  <2> QED BY <1>1, <2>1, <2>2 DEF Kept
<1>5. CASE q = at /\ draft[at] # NULL
  <2> DEFINE n == Len(save) + 1
  <2>1. DOMAIN save' = 1 .. n /\ save'[n].q = q /\ save'[n].v = draft[q]
    BY <1>5, SendAppends
  <2>6. n \in DOMAIN save' /\ \A i \in DOMAIN save' : i = n \/ i < n
    BY <2>1, Indexed
  <2>2. n \in InFlight(q)'
    BY <2>1, <2>6 DEF InFlight
  <2>3. ASSUME draft[q] = given[q], NEW i \in InFlight(q)' PROVE Healed(i)'
    <3>1. save'[i].q = q /\ i \in DOMAIN save'
      BY DEF InFlight
    <3>2. save'[n].v = given'[q]
      BY <2>1, <2>3
    <3>3. CASE i = n
      BY <3>1, <3>2, <3>3 DEF Healed
    <3>4. CASE i < n
      BY <3>1, <3>2, <3>4, <2>2 DEF Healed
    <3> QED BY <2>6, <3>1, <3>3, <3>4
  <2>4. draft'[q] # NULL
    BY <1>5
  <2> QED BY <1>1, <1>2, <2>2, <2>3, <2>4 DEF Kept
<1> QED BY <1>3, <1>4, <1>5

\* The save that confirmFinalSubmit waits for: the choices that are on their way
\* then are excused, unless they are of the current question.
LEMMA ConfirmKeeps ==
  ASSUME PageTyped, status # "DONE", KeptAll, Exam!Confirm
  PROVE  KeptAll'
<1> SUFFICES ASSUME NEW q \in Questions, q \notin excused' PROVE Kept(q)'
  BY DEF KeptAll
<1>1. /\ Exam!Sends(TRUE) /\ UNCHANGED <<draft, at, answer, given>>
      /\ IF draft[at] = NULL THEN Exam!Posting("student") ELSE UNCHANGED post
      /\ excused' = excused \cup Exam!Unwaited
  BY DEF Exam!Confirm, Exam!Excuse, Exam!page, Exam!server
<1>2. Kept(q) /\ (Stored(q)' <=> Stored(q))
  BY <1>1 DEF KeptAll, Stored
<1>3. q # at => InFlight(q) = {} /\ Stored(q)
  <2>1. q # at => InFlight(q) = {}
    BY <1>1 DEF InFlight, Exam!Unwaited
  <2> QED BY <2>1, <1>2 DEF Kept
<1>4. CASE q # at
  <2>1. InFlight(q)' = {}
    BY <1>1, <1>3, <1>4, OthersAreNotSent
  <2> QED BY <1>2, <1>3, <1>4, <2>1 DEF Kept
<1>5. CASE q = at /\ draft[at] = NULL
  <2>1. save' = save /\ InFlight(q) = {} /\ Stored(q)
    BY <1>1, <1>2, <1>5 DEF Exam!Sends, Kept
  <2>2. InFlight(q)' = {}
    BY <2>1 DEF InFlight
  <2> QED BY <1>1, <1>2, <1>5, <2>1, <2>2 DEF Kept
<1>6. CASE q = at /\ draft[at] # NULL
  <2>1. /\ DOMAIN save' = 1 .. Len(save) + 1
        /\ \A i \in DOMAIN save : i \in DOMAIN save' /\ save'[i] = save[i]
        /\ save'[Len(save) + 1].q = q /\ save'[Len(save) + 1].final
    BY <1>1, <1>6, SendAppends
  <2>2. /\ Len(save) + 1 \in DOMAIN save'
        /\ \A i \in DOMAIN save' : i \in DOMAIN save \/ i = Len(save) + 1
    BY <2>1, Indexed
  <2>3. Len(save) + 1 \in Finals' /\ Finals' \subseteq Finals \cup {Len(save) + 1}
    BY <2>1, <2>2 DEF Finals
  <2>4. InFlight(q) \cup {Len(save) + 1} \subseteq InFlight(q)'
    BY <2>1, <2>2 DEF InFlight
  <2>5. ASSUME ~Stored(q)
        PROVE  post'["student"] = 0 /\ Finals' # {} /\ Finals' \subseteq InFlight(q)'
    <3>1. Exam!Confirming => post["student"] = 0 /\ Finals \subseteq InFlight(q)
      BY <1>2, <2>5 DEF Kept
    <3>2. ~Exam!Confirming => post["student"] = 0 /\ Finals = {}
      BY DEF Exam!Confirming, Finals, PageTyped, Exam!Who
    <3> QED BY <1>1, <1>6, <2>3, <2>4, <3>1, <3>2
  <2>6. draft'[q] # NULL /\ at' = q
    BY <1>1, <1>6
  <2> QED BY <1>2, <2>5, <2>6 DEF Kept
<1> QED BY <1>4, <1>5, <1>6

-----------------------------------------------------------------------------
(* Saves that arrive. *)

\* The requests for another question go on as they were.
LEMMA OthersKeep ==
  ASSUME PageTyped, KeptAll, NEW i \in DOMAIN save, Left(i), Exam!Answered(i),
         UNCHANGED <<draft, at, given>>,
         NEW q \in Questions, q # save[i].q, q \notin excused, answer'[q] = answer[q]
  PROVE  Kept(q)'
<1>1. Kept(q) /\ (Stored(q)' <=> Stored(q))
  BY DEF KeptAll, Stored
<1>2. \A j \in InFlight(q) : j \in DOMAIN save \ {i} /\ save[j].q = q
  BY DEF InFlight
<1>3. \A j \in InFlight(q) : Now(i, j) \in InFlight(q)'
  <2> SUFFICES ASSUME NEW j \in InFlight(q) PROVE Now(i, j) \in InFlight(q)'
    OBVIOUS
  <2>1. Now(i, j) \in DOMAIN save' /\ Was(i, Now(i, j)) = j
    BY <1>2 DEF Left
  <2>2. save'[Now(i, j)].q = q
    BY <1>2, <2>1 DEF Left
  <2> QED BY <2>1, <2>2 DEF InFlight
<1>4. \A j \in InFlight(q)' : Was(i, j) \in InFlight(q) /\ Now(i, Was(i, j)) = j
  BY DEF Left, InFlight
<1>5. ASSUME NEW j \in InFlight(q)', Healed(Was(i, j)) PROVE Healed(j)'
  <2> DEFINE o == Was(i, j)
  <2>1. /\ j \in DOMAIN save' /\ o \in InFlight(q) /\ o \in DOMAIN save \ {i} /\ save[o].q = q
        /\ save'[j].q = q /\ save'[j].v = save[o].v /\ (save[o].late => save'[j].late)
    BY <1>2, <1>4 DEF Left, InFlight
  <2>2. CASE save[o].late \/ save[o].v = given[q]
    BY <2>1, <2>2 DEF Healed
  <2>3. CASE \E k \in InFlight(q) : k > o /\ save[k].v = given[q]
    <3>1. PICK k \in InFlight(q) : k > o /\ save[k].v = given[q]
      BY <2>3
    <3>2. Now(i, k) \in InFlight(q)' /\ Now(i, k) > j
      <4>1. k \in DOMAIN save \ {i} /\ o < k
        BY <1>2, <2>1, <3>1, Indexed
      <4>2. Now(i, o) < Now(i, k) /\ Now(i, o) = j
        BY <1>4, <2>1, <4>1 DEF Left
      <4> QED BY <1>3, <3>1, <4>2
    <3>3. save'[Now(i, k)].v = save[k].v
      BY <1>2, <3>1 DEF Left
    <3> QED BY <2>1, <3>1, <3>2, <3>3 DEF Healed
  <2> QED BY <1>5, <2>1, <2>2, <2>3 DEF Healed
<1>6. ASSUME Exam!Confirming', ~Stored(q)
      PROVE  post'["student"] = 0 /\ Finals' # {} /\ Finals' \subseteq InFlight(q)'
  <2>1. \A j \in Finals' : Was(i, j) \in Finals
    BY DEF Finals, Left
  <2>2. CASE save[i].final
    <3>1. i \in Finals /\ i \notin InFlight(q)
      BY <2>2 DEF Finals, InFlight
    <3>2. Exam!Confirming
      BY <2>2 DEF Exam!Confirming
    <3> QED BY <1>1, <1>6, <3>1, <3>2 DEF Kept
  <2>3. CASE ~save[i].final
    <3>1. post' = post
      BY <2>3 DEF Exam!Answered
    <3>2. Exam!Confirming
      <4>1. CASE post'["student"] > 0
        BY <3>1, <4>1 DEF Exam!Confirming
      <4>2. CASE \E j \in DOMAIN save' : save'[j].final
        BY <4>2 DEF Left, Exam!Confirming
      <4> QED BY <1>6, <4>1, <4>2 DEF Exam!Confirming
    <3>3. post["student"] = 0 /\ Finals # {} /\ Finals \subseteq InFlight(q)
      BY <1>1, <1>6, <3>2 DEF Kept
    <3>4. Finals' \subseteq InFlight(q)'
      BY <2>1, <3>3, <1>3 DEF Finals, Left
    <3>5. PICK j \in Finals : TRUE
      BY <3>3
    <3>6. j \in DOMAIN save \ {i}
      BY <2>3, <3>5 DEF Finals
    <3>7. Now(i, j) \in Finals'
      <4>1. Now(i, j) \in DOMAIN save' /\ Was(i, Now(i, j)) = j
        BY <3>6 DEF Left
      <4>2. save'[Now(i, j)].final
        BY <3>5, <4>1 DEF Left, Finals
      <4> QED BY <4>1, <4>2 DEF Finals
    <3> QED BY <3>1, <3>3, <3>4, <3>7
  <2> QED BY <2>2, <2>3
<1>7. InFlight(q)' = {} <=> InFlight(q) = {}
  BY <1>3, <1>4
<1>8. draft[q] = given[q] /\ q # at => \A j \in InFlight(q)' : Healed(j)'
  BY <1>1, <1>4, <1>5 DEF Kept
<1> QED BY <1>1, <1>6, <1>7, <1>8 DEF Kept

\* A save that is refused or lost excuses its question.
LEMMA FailKeeps ==
  ASSUME PageTyped, status # "DONE", KeptAll, NEW i \in DOMAIN save, Exam!SaveFails(i)
  PROVE  KeptAll'
<1>1. /\ save' = Exam!RemoveAt(save, i) /\ Exam!Answered(i)
      /\ UNCHANGED <<draft, at, given, answer>> /\ excused' = excused \cup {save[i].q}
  BY DEF Exam!SaveFails, Exam!Excuse, Exam!page, Exam!server
<1>2. Left(i)
  BY <1>1, FailedLeaves
<1> QED BY <1>1, <1>2, OthersKeep DEF KeptAll

\* A save that is stored: alone and the last word, nothing is to excuse; overtaken,
\* or once a submission is on its way, its question is excused; else it is healed
\* by one that follows.
LEMMA SaveKeeps ==
  ASSUME PageTyped, KeptAll, NEW i \in DOMAIN save, Exam!SaveAnswer(i)
  PROVE  KeptAll'
<1> DEFINE p == save[i].q
           v == save[i].v
           alone == \A j \in DOMAIN save \ {i} : save[j].q # p
<1>1. /\ answer' = [answer EXCEPT ![p] = v] /\ save' = Exam!Overtakes(i) /\ Exam!Answered(i)
      /\ UNCHANGED <<draft, at, given>>
      /\ excused' = IF v = given[p] /\ alone THEN excused \ {p}
                    ELSE IF save[i].late \/ Exam!Confirming \/ draft[p] # given[p]
                    THEN excused \cup {p} ELSE excused
  BY DEF Exam!SaveAnswer, Exam!page
<1>2. /\ Left(i)
      /\ \A j \in DOMAIN save' : Was(i, j) < i /\ save[Was(i, j)].q = p => save'[j].late
  BY <1>1, SavedLeaves
<1>3. p \in Questions /\ v \in Drafts
  BY Indexed DEF Saves
<1> HIDE DEF alone
<1> SUFFICES ASSUME NEW q \in Questions, q \notin excused' PROVE Kept(q)'
  BY DEF KeptAll
<1>4. CASE q # p
  <2>1. q \notin excused /\ answer'[q] = answer[q]
    BY <1>1, <1>4 DEF PageTyped
  <2> QED BY <1>1, <1>2, <1>4, <2>1, OthersKeep
<1>5. CASE q = p /\ v = given[p] /\ alone
  <2>1. Stored(q)'
    BY <1>1, <1>5 DEF Stored, PageTyped
  <2>2. InFlight(q)' = {}
    BY <1>2, <1>5 DEF InFlight, Left, alone
  <2> QED BY <2>1, <2>2 DEF Kept
<1>6. CASE q = p /\ ~(v = given[p] /\ alone)
  <2>1. ~save[i].late /\ ~Exam!Confirming /\ draft[q] = given[q] /\ q \notin excused
    BY <1>1, <1>6
  <2>2. Kept(q) /\ i \in InFlight(q) /\ draft[q] # NULL
    BY <1>6, <2>1 DEF KeptAll, InFlight, Kept
  <2>3. ~Exam!Confirming'
    <3>3. ~save[i].final
      BY <2>1 DEF Exam!Confirming
    <3>1. post' = post
      BY <1>1, <3>3 DEF Exam!Answered
    <3>2. \A j \in DOMAIN save' : ~save'[j].final
      BY <1>2, <2>1 DEF Exam!Confirming, Left
    <3> QED BY <2>1, <3>1, <3>2 DEF Exam!Confirming
  <2>4. CASE q = at
    BY <1>1, <2>2, <2>3, <2>4 DEF Kept
  <2>5. CASE q # at
    <3>1. \A j \in InFlight(q) : Healed(j)
      BY <2>1, <2>2, <2>5 DEF Kept
    <3>2. InFlight(q)' # {}
      <4>1. \E j \in InFlight(q) : j # i
        <5>1. CASE v = given[p]
          BY <1>6, <5>1 DEF alone, InFlight
        <5>2. CASE v # given[p]
          <6>1. PICK j \in InFlight(q) : j > i
            BY <1>6, <2>1, <2>2, <3>1, <5>2 DEF Healed
          <6> QED BY <6>1, Indexed DEF InFlight
        <5> QED BY <5>1, <5>2
      <4>2. PICK j \in InFlight(q) : j # i
        BY <4>1
      <4>3. Now(i, j) \in DOMAIN save' /\ Was(i, Now(i, j)) = j /\ save[j].q = q
        BY <1>2, <4>2 DEF Left, InFlight
      <4>4. save'[Now(i, j)].q = q
        BY <1>2, <4>3 DEF Left
      <4> QED BY <4>3, <4>4 DEF InFlight
    <3>3. ASSUME NEW j \in InFlight(q)' PROVE Healed(j)'
      <4> DEFINE o == Was(i, j)
      <4>1. /\ j \in DOMAIN save' /\ o \in DOMAIN save \ {i} /\ save'[j].q = q /\ save[o].q = q
            /\ save'[j].v = save[o].v /\ (save[o].late => save'[j].late) /\ Now(i, o) = j
        BY <1>2 DEF Left, InFlight
      <4>2. Healed(o)
        BY <3>1, <4>1 DEF InFlight
      <4>3. CASE save[o].late \/ save[o].v = given[q]
        BY <1>1, <4>1, <4>3 DEF Healed
      <4>4. CASE o < i
        <5>1. save'[j].late
          BY <1>2, <1>6, <4>1, <4>4
        <5> QED BY <5>1 DEF Healed
      <4>5. CASE ~(o < i) /\ \E k \in InFlight(q) : k > o /\ save[k].v = given[q]
        <5>1. PICK k \in InFlight(q) : k > o /\ save[k].v = given[q]
          BY <4>5
        <5>2. k \in DOMAIN save \ {i} /\ save[k].q = q /\ o < k
          BY <4>1, <4>5, <5>1, Indexed DEF InFlight
        <5>3. Now(i, k) \in DOMAIN save' /\ Was(i, Now(i, k)) = k /\ Now(i, k) > j
          <6>1. Now(i, o) < Now(i, k)
            BY <1>2, <4>1, <5>2 DEF Left
          <6> QED BY <1>2, <4>1, <5>2, <6>1 DEF Left
        <5>4. save'[Now(i, k)].q = q /\ save'[Now(i, k)].v = given[q]
          BY <1>2, <5>1, <5>2, <5>3 DEF Left
        <5>5. Now(i, k) \in InFlight(q)'
          BY <5>3, <5>4 DEF InFlight
        <5> QED BY <1>1, <4>1, <5>3, <5>4, <5>5 DEF Healed
      <4> QED BY <4>1, <4>2, <4>3, <4>4, <4>5 DEF Healed
    <3> QED BY <1>1, <2>2, <2>3, <3>2, <3>3 DEF Kept
  <2> QED BY <2>4, <2>5
<1> QED BY <1>4, <1>5, <1>6

\* What the server has is not read back, so what differs from it is excused.
LEMMA ReloadKeeps ==
  ASSUME PageTyped, status # "DONE", KeptAll, Exam!Reload
  PROVE  KeptAll'
<1> SUFFICES ASSUME NEW q \in Questions, q \notin excused' PROVE Kept(q)'
  BY DEF KeptAll
<1>1. /\ UNCHANGED <<save, post, answer, given>>
      /\ excused' = excused \cup {p \in Questions : given[p] # answer[p]}
                            \cup {save[i].q : i \in DOMAIN save}
  BY DEF Exam!Reload, Exam!Excuse, Exam!wire, Exam!server
<1>2. Stored(q)' /\ InFlight(q)' = {}
  BY <1>1 DEF Stored, InFlight
<1> QED BY <1>2 DEF Kept

-----------------------------------------------------------------------------
(* The steps together. *)

LEMMA PostingTyped ==
  ASSUME PageTyped, NEW w \in Exam!Who, Exam!Posting(w)
  PROVE  /\ post' \in [Exam!Who -> Nat]
         /\ w = "page" => post'["student"] = post["student"]
BY DEF PageTyped, Exam!Posting, Exam!Who

LEMMA AnsweredTyped ==
  ASSUME PageTyped, NEW i \in DOMAIN save, Exam!Answered(i)
  PROVE  post' \in [Exam!Who -> Nat]
<1>1. CASE save[i].final
  BY <1>1, PostingTyped DEF Exam!Answered, Exam!Who
<1>2. CASE ~save[i].final
  BY <1>2 DEF Exam!Answered, PageTyped
<1> QED BY <1>1, <1>2

LEMMA SendTyped ==
  ASSUME PageTyped, NEW final \in BOOLEAN, Exam!Sends(final)
  PROVE  save' \in Seq(Saves)
<1>1. CASE draft[at] = NULL
  BY <1>1 DEF Exam!Sends, PageTyped
<1>2. CASE draft[at] # NULL
  BY <1>2, SendAppends
<1> QED BY <1>1, <1>2

\* While an attempt runs, and until the step that ends it.
LEMMA RunningStep ==
  ASSUME PageTyped, status # "DONE", KeptAll, Exam!Step, status' # "DONE"
  PROVE  PageTyped' /\ KeptAll' /\ filed' = filed
<1>1. ASSUME NEW p \in Questions, Exam!Bookmark(p) PROVE PageTyped' /\ KeptAll' /\ filed' = filed
  <2>1. draft' \in [Questions -> Drafts \cup {NULL}]
    BY <1>1 DEF Exam!Bookmark, PageTyped, Drafts
  <2> QED BY <1>1, <2>1, BookmarkKeeps DEF Exam!Bookmark, Exam!wire, Exam!server, PageTyped
<1>2. ASSUME NEW p \in Questions, NEW v \in Drafts, Exam!Edit(p, v)
      PROVE  PageTyped' /\ KeptAll' /\ filed' = filed
  BY <1>2, EditKeeps DEF Exam!Edit, Exam!wire, Exam!server, PageTyped
<1>3. ASSUME NEW p \in Questions, Exam!GoToQuestion(p) PROVE PageTyped' /\ KeptAll' /\ filed' = filed
  <2>1. /\ at' = p /\ Exam!Sends(FALSE)
        /\ UNCHANGED <<draft, post, answer, given, excused, filed>>
    BY <1>3 DEF Exam!GoToQuestion, Exam!server
  <2> QED BY <2>1, PlainSendKeeps, SendTyped DEF PageTyped
<1>4. CASE Exam!OpenReview \/ Exam!Autosave
  <2>1. /\ Exam!Sends(FALSE) \/ save' = save
        /\ UNCHANGED <<draft, at, post, answer, given, excused, filed>>
    BY <1>4 DEF Exam!OpenReview, Exam!Autosave, Exam!server
  <2>2. CASE Exam!Sends(FALSE)
    BY <2>1, <2>2, PlainSendKeeps, SendTyped DEF PageTyped
  <2>3. CASE save' = save
    BY <2>1, <2>3, QuietKeeps DEF PageTyped
  <2> QED BY <2>1, <2>2, <2>3
<1>5. CASE Exam!Confirm
  <2>1. /\ Exam!Sends(TRUE) /\ UNCHANGED <<draft, at, answer, given, filed>>
        /\ Exam!Posting("student") \/ UNCHANGED post
    BY <1>5 DEF Exam!Confirm, Exam!page, Exam!server
  <2> QED BY <1>5, <2>1, ConfirmKeeps, SendTyped, PostingTyped DEF PageTyped, Exam!Who
<1>6. CASE Exam!Reload
  <2>1. draft' \in [Questions -> Drafts \cup {NULL}] /\ at' \in Questions
    BY <1>6, ExamAssumption DEF Exam!Reload
  <2> QED BY <1>6, <2>1, ReloadKeeps DEF Exam!Reload, Exam!wire, Exam!server, PageTyped
<1>7. ASSUME NEW i \in DOMAIN save, Exam!SaveAnswer(i) PROVE PageTyped' /\ KeptAll' /\ filed' = filed
  <2>1. save[i].q \in Questions /\ save[i].v \in Drafts
    BY Indexed DEF Saves
  <2>2. answer' \in [Questions -> Drafts]
    BY <1>7, <2>1 DEF Exam!SaveAnswer, PageTyped
  <2>3. save' \in Seq(Saves)
    BY <1>7, SavedLeaves DEF Exam!SaveAnswer
  <2>4. post' \in [Exam!Who -> Nat]
    BY <1>7, AnsweredTyped DEF Exam!SaveAnswer
  <2> QED BY <1>7, <2>2, <2>3, <2>4, SaveKeeps DEF Exam!SaveAnswer, Exam!page, PageTyped
<1>8. ASSUME NEW i \in DOMAIN save, Exam!SaveFails(i) PROVE PageTyped' /\ KeptAll' /\ filed' = filed
  <2>3. save' \in Seq(Saves)
    BY <1>8, FailedLeaves DEF Exam!SaveFails
  <2>4. post' \in [Exam!Who -> Nat]
    BY <1>8, AnsweredTyped DEF Exam!SaveFails
  <2> QED BY <1>8, <2>3, <2>4, FailKeeps DEF Exam!SaveFails, Exam!page, Exam!server, PageTyped
<1>9. CASE Exam!Expire
  <2>1. Exam!Posting("page") /\ UNCHANGED <<draft, at, save, answer, given, excused, filed>>
    BY <1>9 DEF Exam!Expire, Exam!server
  <2> QED BY <2>1, PostingTyped, QuietKeeps DEF PageTyped, Exam!Who
<1>10. ASSUME NEW w \in Exam!Who, Exam!LosePost(w) PROVE PageTyped' /\ KeptAll' /\ filed' = filed
  <2>1. /\ post[w] > 0 /\ post' = [post EXCEPT ![w] = @ - 1]
        /\ UNCHANGED <<draft, at, save, answer, given, excused, filed>>
    BY <1>10 DEF Exam!LosePost, Exam!page, Exam!server
  <2>2. post[w] \in Nat \ {0}
    BY <2>1 DEF PageTyped
  <2>3. post' \in [Exam!Who -> Nat]
    BY <2>1, <2>2 DEF PageTyped
  <2>4. post'["student"] = post["student"] \/ post["student"] \in Nat \ {0}
    BY <2>1, <2>2 DEF PageTyped, Exam!Who
  <2> QED BY <2>1, <2>3, <2>4, QuietKeeps DEF PageTyped
<1>11. CASE Exam!ShowAll \/ Exam!CloseReview \/ Exam!Submitted \/ Exam!Pause \/ Exam!Resume
            \/ Exam!Extend \/ Exam!Resync \/ Exam!Disconnect \/ Exam!Tick
  <2>1. UNCHANGED <<draft, at, save, post, answer, given, excused, filed>>
    BY <1>11 DEF Exam!ShowAll, Exam!CloseReview, Exam!Submitted, Exam!Pause, Exam!Resume,
                 Exam!Extend, Exam!Resync, Exam!Disconnect, Exam!Tick, Exam!page, Exam!wire, Exam!server
  <2> QED BY <2>1, QuietKeeps DEF PageTyped
<1>12. ~Exam!Close /\ \A w \in Exam!Who : ~Exam!Submit(w)
  BY DEF Exam!Close, Exam!Submit, Exam!File
<1> QED
  BY <1>1, <1>2, <1>3, <1>4, <1>5, <1>6, <1>7, <1>8, <1>9, <1>10, <1>11, <1>12
  DEF Exam!Step, Exam!Student, Exam!Arrives, Drafts

\* What is graded differs from the last choices in excused questions only.
LEMMA FilingIsGraded ==
  ASSUME PageTyped, status # "DONE", KeptAll, NEW w, Exam!File(w),
         w = "student" => post["student"] > 0
  PROVE  Exam!ConfirmedIsGraded' /\ status' = "DONE"
<1>1. filed'.by = w /\ filed'.lost = {q \in Questions : answer[q] # given[q]} \ excused
  BY DEF Exam!File
<1>2. ASSUME w = "student", NEW q \in Questions, q \notin excused PROVE answer[q] = given[q]
  <2>1. Exam!Confirming /\ post["student"] # 0
    BY <1>2 DEF Exam!Confirming, PageTyped, Exam!Who
  <2> QED BY <1>2, <2>1 DEF KeptAll, Kept, Stored
<1> QED BY <1>1, <1>2 DEF Exam!ConfirmedIsGraded, Exam!File

LEMMA PageInit == Exam!Init => PageInv
<1> SUFFICES ASSUME Exam!Init PROVE PageInv
  OBVIOUS
<1>1. PageTyped
  <2>1. save \in Seq(Saves)
    BY EmptySeq DEF Exam!Init
  <2> QED BY <2>1, ExamAssumption DEF Exam!Init, PageTyped, Drafts
<1>2. ASSUME NEW q \in Questions PROVE Kept(q)
  <2>1. InFlight(q) = {}
    BY DEF Exam!Init, InFlight
  <2>2. Stored(q)
    BY <1>2 DEF Exam!Init, Stored
  <2> QED BY <2>1, <2>2 DEF Kept
<1>3. Exam!ConfirmedIsGraded
  BY DEF Exam!Init, Exam!ConfirmedIsGraded
<1> QED BY <1>1, <1>2, <1>3 DEF PageInv, KeptAll

LEMMA PageStep == PageInv /\ [Exam!Next]_examVars => PageInv'
<1> SUFFICES ASSUME PageInv, [Exam!Next]_examVars PROVE PageInv'
  OBVIOUS
<1>1. CASE UNCHANGED examVars
  BY <1>1 DEF PageInv, examVars, PageTyped, KeptAll, Kept, InFlight, Finals, Stored, Healed,
              Exam!Confirming, Exam!ConfirmedIsGraded
<1>2. CASE Exam!Step /\ status = "DONE"
  <2>1. status' = "DONE" /\ filed' = filed
    BY <1>2 DEF Exam!Step, Exam!Student, Exam!Arrives, Exam!Bookmark, Exam!GoToQuestion, Exam!Edit,
         Exam!ShowAll, Exam!OpenReview, Exam!CloseReview, Exam!Confirm, Exam!Reload, Exam!SaveAnswer,
         Exam!SaveFails, Exam!Autosave, Exam!Expire, Exam!Submitted, Exam!Submit, Exam!LosePost,
         Exam!Pause, Exam!Resume, Exam!Extend, Exam!Resync, Exam!Close, Exam!Disconnect, Exam!Tick,
         Exam!Accepts, Exam!page, Exam!wire, Exam!server
  <2> QED BY <2>1 DEF PageInv, Exam!ConfirmedIsGraded
<1>3. CASE Exam!Step /\ status # "DONE" /\ status' # "DONE"
  BY <1>3, RunningStep DEF PageInv, Exam!ConfirmedIsGraded
<1>4. CASE Exam!Step /\ status # "DONE" /\ status' = "DONE"
  <2>1. Exam!Close \/ \E w \in Exam!Who : Exam!Submit(w)
    BY <1>4 DEF Exam!Step, Exam!Student, Exam!Arrives, Exam!Bookmark, Exam!GoToQuestion, Exam!Edit,
         Exam!ShowAll, Exam!OpenReview, Exam!CloseReview, Exam!Confirm, Exam!Reload, Exam!SaveAnswer,
         Exam!SaveFails, Exam!Autosave, Exam!Expire, Exam!Submitted, Exam!LosePost,
         Exam!Pause, Exam!Resume, Exam!Extend, Exam!Resync, Exam!Disconnect, Exam!Tick,
         Exam!page, Exam!wire, Exam!server
  <2>2. \E w : Exam!File(w) /\ (w = "student" => post["student"] > 0)
    BY <1>4, <2>1 DEF Exam!Close, Exam!Submit
  <2> QED BY <1>4, <2>2, FilingIsGraded DEF PageInv
<1> QED BY <1>1, <1>2, <1>3, <1>4 DEF Exam!Next

(* However saves are delayed, overtaken, refused or lost, and whatever the  *)
(* student, the timers, the proctor and the browser do between them, a       *)
(* submission that the student confirmed grades the last choice on every     *)
(* question that is not excused (exam-taking-client.tsx: goToQuestion,       *)
(* confirmFinalSubmit; ExamSessionsService.saveAnswer).                      *)
THEOREM LastChoiceIsGraded == ClientSpec => []ConfirmedIsGraded
<1>1. ClientInit => PageInv
  BY PageInit DEF ClientInit
<1>2. PageInv /\ [ClientNext]_clientVars => PageInv'
  BY PageStep DEF ClientNext, clientVars, examVars
<1>3. PageInv => ConfirmedIsGraded
  BY DEF PageInv, ConfirmedIsGraded
<1> QED BY <1>1, <1>2, <1>3, PTL DEF ClientSpec
=============================================================================
