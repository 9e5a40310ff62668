---------------------------- MODULE MonitorView ----------------------------
(* The proctor's monitor page: its list of sessions is a query cache that    *)
(* three sources write -- the poll every fifteen seconds, the refetch after  *)
(* an action, and the snapshots the gateway pushes into the exam's room.     *)
EXTENDS Integers, FiniteSets

CONSTANTS
  Exams, Sessions,
  ExamOf,        \* the exam of each session
  MaxVersion,    \* bound: changes of a session
  MaxTurns,      \* bound: turns of the proctor, of the link and of failing calls
  SENT, NULL

VARIABLES
  table,         \* the sessions in the database: how often each has changed
  pushes,        \* snapshots a handler has read and not yet emitted
  link,          \* the page's socket is connected
  rooms,         \* the monitor rooms that connection is in
  page,          \* the exam whose monitor is open
  fetch,         \* the request for each exam's list: NULL, SENT, or its answer
  view,          \* the cached list of each exam, or NULL before the first answer
  turns
vars == <<table, pushes, link, rooms, page, fetch, view, turns>>

Absent == 0     \* of a session that has not started, or is not in a list
OwnRows(e) == [s \in Sessions |-> IF ExamOf[s] = e THEN table[s] ELSE Absent]

Init ==
  /\ table = [s \in Sessions |-> Absent]
  /\ pushes = {}
  /\ link = FALSE /\ rooms = {}
  /\ page \in Exams
  /\ fetch = [e \in Exams |-> NULL]
  /\ view = [e \in Exams |-> NULL]
  /\ turns = 0

Turn == turns < MaxTurns /\ turns' = turns + 1

(* A session starts, is answered, paused, extended or submitted; most of the *)
(* handlers then read a snapshot of it and emit that a little later.         *)
Change ==
  /\ \E s \in Sessions : table[s] < MaxVersion /\ table' = [table EXCEPT ![s] = @ + 1]
  /\ UNCHANGED <<pushes, link, rooms, page, fetch, view, turns>>
ReadSnapshot ==
  /\ \E s \in Sessions :
       table[s] # Absent /\ pushes' = pushes \cup {[session |-> s, version |-> table[s]]}
  /\ UNCHANGED <<table, link, rooms, page, fetch, view, turns>>

(* applySnapshot replaces the session's row of the open list, or adds it.  It *)
(* does not ask whose exam the snapshot is of.                                *)
ApplySnapshot(p) ==
  LET old == IF view[page] = NULL THEN [s \in Sessions |-> Absent] ELSE view[page]
  IN view' = [view EXCEPT ![page] = [old EXCEPT ![p.session] = p.version]]

(* emitToExam: only the members of the room hear it, at this moment. *)
Emit ==
  /\ \E p \in pushes :
       /\ pushes' = pushes \ {p}
       /\ IF link /\ ExamOf[p.session] \in rooms THEN ApplySnapshot(p) ELSE UNCHANGED view
  /\ UNCHANGED <<table, link, rooms, page, fetch, turns>>

(* The socket comes and goes.  Rooms are lost with the connection, and the   *)
(* page joins again on every connect; nothing ever leaves a room, so the     *)
(* room of an exam the proctor has left behind is kept with the connection.  *)
Disconnect ==
  /\ link /\ Turn
  /\ link' = FALSE /\ rooms' = {}
  /\ UNCHANGED <<table, pushes, page, fetch, view>>
Connect ==
  /\ ~link /\ link' = TRUE
  /\ UNCHANGED <<table, pushes, rooms, page, fetch, view, turns>>
JoinMonitor ==
  /\ link /\ rooms' = rooms \cup {page}
  /\ UNCHANGED <<table, pushes, link, page, fetch, view, turns>>

(* The proctor goes back to the list of exams and opens the monitor of one.  *)
OpenMonitor ==
  /\ Turn
  /\ \E e \in Exams \ {page} : page' = e
  /\ UNCHANGED <<table, pushes, link, rooms, fetch, view>>

(* As Poll, were the list only refreshed while no socket brings news. *)
PollOffline ==
  /\ ~link
  /\ fetch[page] = NULL
  /\ fetch' = [fetch EXCEPT ![page] = SENT]
  /\ UNCHANGED <<table, pushes, link, rooms, page, view, turns>>
(* refetchInterval: a new request unless one is under way. *)
Poll ==
  /\ fetch[page] = NULL
  /\ fetch' = [fetch EXCEPT ![page] = SENT]
  /\ UNCHANGED <<table, pushes, link, rooms, page, view, turns>>

(* An action of the proctor succeeded: the request under way is given up for *)
(* a new one.                                                                *)
Invalidate ==
  /\ Turn
  /\ fetch' = [fetch EXCEPT ![page] = SENT]
  /\ UNCHANGED <<table, pushes, link, rooms, page, view>>

(* listSessions reads the rows; its answer arrives later and is stored over  *)
(* whatever has been pushed meanwhile, or is lost.                           *)
ListSessions ==
  /\ \E e \in Exams : fetch[e] = SENT /\ fetch' = [fetch EXCEPT ![e] = OwnRows(e)]
  /\ UNCHANGED <<table, pushes, link, rooms, page, view, turns>>
Arrive ==
  /\ \E e \in Exams :
       /\ fetch[e] \notin {NULL, SENT}
       /\ view' = [view EXCEPT ![e] = fetch[e]]
       /\ fetch' = [fetch EXCEPT ![e] = NULL]
  /\ UNCHANGED <<table, pushes, link, rooms, page, turns>>
Fail ==
  /\ Turn
  /\ \E e \in Exams : fetch[e] # NULL /\ fetch' = [fetch EXCEPT ![e] = NULL]
  /\ UNCHANGED <<table, pushes, link, rooms, page, view>>

Next ==
  \/ Change \/ ReadSnapshot \/ Emit
  \/ Disconnect \/ Connect \/ JoinMonitor \/ OpenMonitor
  \/ Poll \/ Invalidate \/ ListSessions \/ Arrive \/ Fail

(* The timer of the query fires, the server answers, handlers emit what they *)
(* have read.  Nothing is assumed of the socket.                             *)
Fairness == WF_vars(Poll) /\ WF_vars(ListSessions) /\ WF_vars(Arrive) /\ WF_vars(Emit)
Spec == Init /\ [][Next]_vars /\ Fairness

-----------------------------------------------------------------------------
(* Whatever is pushed out of order, missed while the socket is down or       *)
(* overwritten by a slow answer, once the sessions of the exam stop changing *)
(* every one of them is shown on the page as it is in the database, for good *)
(* (monitor/page.tsx: the query, applySnapshot and the socket's listeners).  *)
(* Rows of another exam's sessions may keep coming and going beside them.    *)
ShownAsStored ==
  /\ view[page] # NULL
  /\ \A s \in Sessions : ExamOf[s] = page => view[page][s] = table[s]
ViewCatchesUp == <>[]ShownAsStored
=============================================================================
