------------------------------ MODULE Realtime ------------------------------
(* The gateway's sockets: the connection limits, the sockets tracked for    *)
(* one session, and the connection state written behind them, under sockets *)
(* that come and go while their requests are served, and a server that ends *)
(* on an exception.                                                         *)
EXTENDS Naturals, FiniteSets

CONSTANTS
  Sockets,     \* socket ids; one that was used is not used again
  Owner,       \* whose each socket is: [Sockets -> Users]
  Student,     \* the user whose session it is; everyone else monitors
  MaxPerUser,  \* MAX_CONNECTIONS_PER_USER
  MaxTotal,    \* MAX_TOTAL_CONNECTIONS
  MaxPending   \* bound: writes under way

Users == {Owner[s] : s \in Sockets} \cup {Student}

VARIABLES
  link,      \* [Sockets -> "new", "open", "refused", "closed"]
  perUser,   \* userConnections
  all,       \* totalConnections
  tracked,   \* sockets with the session in socketSessions
  joining,   \* sockets whose exam:join waits for the access checks
  pending,   \* how many writes of CONNECTED are under way
  connection \* exam_sessions.connectionState

vars == <<link, perUser, all, tracked, joining, pending, connection>>

Init ==
  /\ link = [s \in Sockets |-> "new"]
  /\ perUser = [u \in Users |-> 0] /\ all = 0
  /\ tracked = {} /\ joining = {}
  /\ pending = 0 /\ connection = "DISCONNECTED"

Open(u)  == {s \in Sockets : link[s] = "open" /\ Owner[s] = u}
Admits(s) == all < MaxTotal /\ perUser[Owner[s]] < MaxPerUser
Less(n)  == IF n = 0 THEN 0 ELSE n - 1

Writing == pending < MaxPending /\ pending' = pending + 1

(* handleConnection. *)
Connect(s) ==
  /\ link[s] = "new"
  /\ IF Admits(s)
     THEN /\ link' = [link EXCEPT ![s] = "open"]
          /\ perUser' = [perUser EXCEPT ![Owner[s]] = @ + 1] /\ all' = all + 1
     ELSE link' = [link EXCEPT ![s] = "refused"] /\ UNCHANGED <<perUser, all>>
  /\ UNCHANGED <<tracked, joining, pending, connection>>

(* Variant: only a socket that joined a session is counted out. *)
UncountTracked(s) ==
  IF s \in tracked
  THEN perUser' = [perUser EXCEPT ![Owner[s]] = Less(@)] /\ all' = Less(all)
  ELSE UNCHANGED <<perUser, all>>

Uncount(s) == perUser' = [perUser EXCEPT ![Owner[s]] = Less(@)] /\ all' = Less(all)

(* handleDisconnect.  For a tracked socket it looks the room up on          *)
(* this.server.sockets; the server of a namespace keeps a map there that    *)
(* has no adapter, the lookup throws, and DISCONNECTED is never written.    *)
(* Whether the library reports the end of a socket that handleConnection    *)
(* refused is left open.                                                    *)
Disconnect(s) ==
  /\ link[s] \in {"open", "refused"}
  /\ link' = [link EXCEPT ![s] = "closed"]
  /\ Uncount(s) \/ (link[s] = "refused" /\ UNCHANGED <<perUser, all>>)
  /\ tracked' = tracked \ {s}
  /\ UNCHANGED <<joining, pending, connection>>

(* Nobody handles that exception: where the library lets it end the         *)
(* process, another one begins, without sockets and with what was under way *)
(* lost.                                                                    *)
Restart(s) ==
  /\ link[s] = "open" /\ s \in tracked
  /\ link' = [t \in Sockets |-> IF link[t] = "new" THEN "new" ELSE "closed"]
  /\ perUser' = [u \in Users |-> 0] /\ all' = 0
  /\ tracked' = {} /\ joining' = {} /\ pending' = 0
  /\ UNCHANGED connection

(* exam:join, up to the queries that decide whether the caller may. *)
AskToJoin(s) ==
  /\ link[s] = "open"
  /\ joining' = joining \cup {s}
  /\ UNCHANGED <<link, perUser, all, tracked, pending, connection>>

(* A socket closed by then is tracked and written down all the same.        *)
Join(s) ==
  /\ s \in joining /\ joining' = joining \ {s}
  /\ tracked' = IF Owner[s] = Student THEN tracked \cup {s} ELSE tracked
  /\ Writing
  /\ UNCHANGED <<link, perUser, all, connection>>

(* Variant: a heartbeat renews the timestamps only. *)
HeartbeatOnly(s) ==
  /\ s \in Open(Student) /\ UNCHANGED vars

Heartbeat(s) ==
  /\ s \in Open(Student) /\ Writing
  /\ UNCHANGED <<link, perUser, all, tracked, joining, connection>>

(* The row of setConnection and of recordHeartbeat. *)
Write ==
  /\ pending > 0 /\ pending' = pending - 1
  /\ connection' = "CONNECTED"
  /\ UNCHANGED <<link, perUser, all, tracked, joining>>

(* instructorAction "disconnect". *)
ProctorDisconnects ==
  /\ connection' = "DISCONNECTED"
  /\ UNCHANGED <<link, perUser, all, tracked, joining, pending>>

Next ==
  \/ \E s \in Sockets : Connect(s) \/ Disconnect(s) \/ Restart(s) \/ AskToJoin(s) \/ Join(s) \/ Heartbeat(s)
  \/ Write
  \/ ProctorDisconnects

(* The page beats every ten seconds, and what is under way is written. *)
Fairness ==
  /\ \A s \in Sockets : WF_vars(Heartbeat(s))
  /\ WF_vars(Write)

Spec == Init /\ [][Next]_vars /\ Fairness

-----------------------------------------------------------------------------
(* The counters never run ahead of the sockets there are, so nobody is      *)
(* locked out by connections that are gone, whatever sockets were refused   *)
(* and however often the server began again (handleConnection,              *)
(* handleDisconnect: limits).                                               *)
NoLockout ==
  /\ \A u \in Users : perUser[u] <= Cardinality(Open(u))
  /\ all <= Cardinality({s \in Sockets : link[s] = "open"})

(* A student who is there is not shown as lost for ever: whatever a proctor *)
(* writes, and whatever a server that ends takes with it, a later beat of   *)
(* the page shows her again (recordHeartbeat, setConnection).               *)
PresentIsShown == (Open(Student) # {}) ~> (connection = "CONNECTED" \/ Open(Student) = {})
=============================================================================
