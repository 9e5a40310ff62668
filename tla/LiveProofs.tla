----------------------------- MODULE LiveProofs -----------------------------
(* What is kept in step while an exam runs, for any number of sockets,      *)
(* requests, workers and versions of the weights: the connection counters   *)
(* and the risk score.  A behaviour of Live is about one part, so each      *)
(* invariant is shown inductive for its own part, and no other part touches *)
(* what it speaks of.                                                       *)
EXTENDS Live, FiniteSetTheorems, TLAPS

-----------------------------------------------------------------------------
(* Realtime: the counters. *)

IsOpen == {s \in Sockets : link[s] = "open"}

CountersInv ==
  /\ link \in [Sockets -> {"new", "open", "refused", "closed"}]
  /\ perUser \in [Gateway!Users -> Nat] /\ all \in Nat
  /\ IsFiniteSet(IsOpen) /\ all <= Cardinality(IsOpen)
  /\ \A u \in Gateway!Users : perUser[u] <= Cardinality(Gateway!Open(u))

\* One element more, one element less.
LEMMA AddOne ==
  ASSUME NEW S, IsFiniteSet(S), NEW x, x \notin S, NEW T, T = S \cup {x}
  PROVE  IsFiniteSet(T) /\ Cardinality(S) \in Nat /\ Cardinality(T) = Cardinality(S) + 1
BY FS_AddElement, FS_CardinalityType

LEMMA RemoveOne ==
  ASSUME NEW S, IsFiniteSet(S), NEW x, NEW T, T = S \ {x}
  PROVE  /\ IsFiniteSet(T) /\ Cardinality(S) \in Nat /\ Cardinality(T) \in Nat
         /\ x \in S => Cardinality(T) = Cardinality(S) - 1
         /\ x \notin S => T = S
BY FS_RemoveElement, FS_CardinalityType

LEMMA OwnersAreUsers == \A s \in Sockets : Owner[s] \in Gateway!Users
BY DEF Gateway!Users

\* The sockets of one user are open sockets, and so finitely many.
LEMMA OpenIsFinite ==
  ASSUME IsFiniteSet(IsOpen), NEW u
  PROVE  IsFiniteSet(Gateway!Open(u)) /\ Cardinality(Gateway!Open(u)) \in Nat
<1>1. Gateway!Open(u) \subseteq IsOpen
  BY DEF Gateway!Open, IsOpen
<1> QED BY <1>1, FS_Subset, FS_CardinalityType

LEMMA CountersInit == Gateway!Init => CountersInv
<1> SUFFICES ASSUME Gateway!Init PROVE CountersInv
  OBVIOUS
<1>1. IsOpen = {} /\ \A u \in Gateway!Users : Gateway!Open(u) = {}
  BY DEF Gateway!Init, IsOpen, Gateway!Open
<1>2. \A u \in Gateway!Users : perUser[u] <= Cardinality(Gateway!Open(u))
  BY <1>1, FS_EmptySet DEF Gateway!Init
<1>3. all <= Cardinality(IsOpen)
  BY <1>1, FS_EmptySet DEF Gateway!Init
<1> QED BY <1>1, <1>2, <1>3, FS_EmptySet DEF Gateway!Init, CountersInv, IsOpen

\* A socket that handleConnection admits is counted and is open.
LEMMA ConnectCounts ==
  ASSUME CountersInv, NEW s \in Sockets, Gateway!Connect(s)
  PROVE  CountersInv'
<1> USE DEF CountersInv
<1>1. CASE ~Gateway!Admits(s)
  <2>1. link' = [link EXCEPT ![s] = "refused"] /\ link[s] = "new" /\ UNCHANGED <<perUser, all>>
    BY <1>1 DEF Gateway!Connect
  <2>2. IsOpen' = IsOpen /\ \A u \in Gateway!Users : Gateway!Open(u)' = Gateway!Open(u)
    BY <2>1 DEF IsOpen, Gateway!Open
  <2> QED BY <2>1, <2>2
<1>2. CASE Gateway!Admits(s)
  <2>1. /\ link' = [link EXCEPT ![s] = "open"] /\ link[s] = "new" /\ all' = all + 1
        /\ perUser' = [perUser EXCEPT ![Owner[s]] = @ + 1]
    BY <1>2 DEF Gateway!Connect
  <2>2. IsOpen' = IsOpen \cup {s} /\ s \notin IsOpen
    BY <2>1 DEF IsOpen
  <2>3. /\ IsFiniteSet(IsOpen') /\ Cardinality(IsOpen') = Cardinality(IsOpen) + 1
        /\ Cardinality(IsOpen) \in Nat
    BY <2>2, AddOne
  <2>4. all' <= Cardinality(IsOpen')
    BY <2>1, <2>3
  <2>5. ASSUME NEW u \in Gateway!Users PROVE perUser'[u] <= Cardinality(Gateway!Open(u)')
    <3>1. CASE u # Owner[s]
      <4>1. Gateway!Open(u)' = Gateway!Open(u) /\ perUser'[u] = perUser[u]
        BY <2>1, <3>1 DEF Gateway!Open
      <4> QED BY <4>1
    <3>2. CASE u = Owner[s]
      <4>1. Gateway!Open(u)' = Gateway!Open(u) \cup {s} /\ s \notin Gateway!Open(u)
        BY <2>1, <3>2 DEF Gateway!Open
      <4>2. perUser'[u] = perUser[u] + 1 /\ perUser[u] \in Nat
        BY <2>1, <3>2
      <4>3. Cardinality(Gateway!Open(u)') = Cardinality(Gateway!Open(u)) + 1
        BY <4>1, OpenIsFinite, AddOne
      <4> QED BY <4>2, <4>3, OpenIsFinite
    <3> QED BY <3>1, <3>2
  <2> QED BY <2>1, <2>3, <2>4, <2>5, OwnersAreUsers
<1> QED BY <1>1, <1>2

\* An open socket that goes is counted out; a refused one may be, although it
\* was never counted, and then the counters fall behind.
LEMMA DisconnectCounts ==
  ASSUME CountersInv, NEW s \in Sockets, Gateway!Disconnect(s)
  PROVE  CountersInv'
<1> USE DEF CountersInv
<1>1. /\ link' = [link EXCEPT ![s] = "closed"] /\ link[s] \in {"open", "refused"}
      /\ Gateway!Uncount(s) \/ (link[s] = "refused" /\ UNCHANGED <<perUser, all>>)
  BY DEF Gateway!Disconnect
<1>2. IsOpen' = IsOpen \ {s} /\ \A u \in Gateway!Users : Gateway!Open(u)' = Gateway!Open(u) \ {s}
  BY <1>1 DEF IsOpen, Gateway!Open
<1>3. IsFiniteSet(IsOpen') /\ Cardinality(IsOpen) \in Nat /\ Cardinality(IsOpen') \in Nat
  BY <1>2, RemoveOne
<1>4. CASE link[s] = "refused" /\ UNCHANGED <<perUser, all>>
  <2>1. IsOpen' = IsOpen /\ \A u \in Gateway!Users : Gateway!Open(u)' = Gateway!Open(u)
    BY <1>2, <1>4 DEF IsOpen, Gateway!Open
  <2> QED BY <1>1, <1>4, <2>1
<1>5. CASE Gateway!Uncount(s)
  <2>1. /\ perUser' = [perUser EXCEPT ![Owner[s]] = Gateway!Less(@)] /\ all' = Gateway!Less(all)
    BY <1>5 DEF Gateway!Uncount
  <2>2. \A n \in Nat : Gateway!Less(n) \in Nat /\ Gateway!Less(n) <= n /\ (n > 0 => Gateway!Less(n) = n - 1)
    BY DEF Gateway!Less
  <2>3. all' <= Cardinality(IsOpen')
    <3>1. CASE s \in IsOpen
      <4>1. Cardinality(IsOpen') = Cardinality(IsOpen) - 1
        BY <3>1, <1>2, RemoveOne
      <4>2. Cardinality(IsOpen) # 0
        BY <3>1, FS_EmptySet
      <4> QED BY <4>1, <4>2, <2>1, <2>2, <1>3
    <3>2. CASE s \notin IsOpen
      <4>1. IsOpen' = IsOpen
        BY <1>2, <3>2
      <4> QED BY <4>1, <2>1, <2>2, <1>3
    <3> QED BY <3>1, <3>2
  <2>4. ASSUME NEW u \in Gateway!Users PROVE perUser'[u] <= Cardinality(Gateway!Open(u)')
    <3>1. perUser[u] \in Nat /\ perUser[u] <= Cardinality(Gateway!Open(u)) /\ Cardinality(Gateway!Open(u)) \in Nat
      BY OpenIsFinite
    <3>2. CASE s \in Gateway!Open(u)
      <4>1. Cardinality(Gateway!Open(u)') = Cardinality(Gateway!Open(u)) - 1
        BY <3>2, <1>2, OpenIsFinite, RemoveOne
      <4>2. Cardinality(Gateway!Open(u)) # 0
        BY <3>2, OpenIsFinite, FS_EmptySet
      <4>3. perUser'[u] = Gateway!Less(perUser[u])
        BY <2>1, <3>2 DEF Gateway!Open
      <4> QED BY <4>1, <4>2, <4>3, <2>2, <3>1
    <3>3. CASE s \notin Gateway!Open(u)
      <4>1. Gateway!Open(u)' = Gateway!Open(u)
        BY <1>2, <3>3
      <4>2. perUser'[u] <= perUser[u] /\ perUser'[u] \in Nat
        BY <2>1, <2>2, <3>1
      <4> QED BY <4>1, <4>2, <3>1
    <3> QED BY <3>2, <3>3
  <2>5. perUser' \in [Gateway!Users -> Nat] /\ all' \in Nat
    BY <2>1, <2>2, OwnersAreUsers
  <2> QED BY <1>1, <1>3, <2>3, <2>4, <2>5
<1> QED BY <1>1, <1>4, <1>5

\* A server that begins again counts nothing and has no socket.
LEMMA RestartForgets ==
  ASSUME CountersInv, NEW s \in Sockets, Gateway!Restart(s)
  PROVE  CountersInv'
<1>1. /\ link' = [t \in Sockets |-> IF link[t] = "new" THEN "new" ELSE "closed"]
      /\ perUser' = [u \in Gateway!Users |-> 0] /\ all' = 0
  BY DEF Gateway!Restart
<1>2. IsOpen' = {} /\ \A u \in Gateway!Users : Gateway!Open(u)' = {}
  BY <1>1 DEF IsOpen, Gateway!Open
<1>3. IsFiniteSet(IsOpen') /\ Cardinality(IsOpen') = 0
  BY <1>2, FS_EmptySet
<1>4. \A u \in Gateway!Users : perUser'[u] <= Cardinality(Gateway!Open(u)')
  BY <1>1, <1>2, FS_EmptySet
<1> QED BY <1>1, <1>3, <1>4 DEF CountersInv

LEMMA CountersStep == CountersInv /\ [Gateway!Next]_gatewayVars => CountersInv'
<1> SUFFICES ASSUME CountersInv, [Gateway!Next]_gatewayVars PROVE CountersInv'
  OBVIOUS
<1>1. ASSUME UNCHANGED <<link, perUser, all>> PROVE CountersInv'
  BY <1>1 DEF CountersInv, Gateway!Open, IsOpen
<1>2. CASE \E s \in Sockets : Gateway!Connect(s)
  BY <1>2, ConnectCounts
<1>3. CASE \E s \in Sockets : Gateway!Disconnect(s)
  BY <1>3, DisconnectCounts
<1>4. CASE UNCHANGED gatewayVars
  BY <1>1, <1>4 DEF gatewayVars
<1>5. CASE \E s \in Sockets : Gateway!AskToJoin(s) \/ Gateway!Join(s) \/ Gateway!Heartbeat(s)
  BY <1>1, <1>5 DEF Gateway!AskToJoin, Gateway!Join, Gateway!Heartbeat
<1>6. CASE Gateway!Write \/ Gateway!ProctorDisconnects
  BY <1>1, <1>6 DEF Gateway!Write, Gateway!ProctorDisconnects
<1>7. CASE \E s \in Sockets : Gateway!Restart(s)
  BY <1>7, RestartForgets
<1> QED BY <1>2, <1>3, <1>4, <1>5, <1>6, <1>7 DEF Gateway!Next

(* However many sockets come, are refused and go, in whatever order, and    *)
(* however often the server begins again, the counters never exceed the     *)
(* sockets that are open, so no limit is reached by connections that are    *)
(* gone (handleConnection, handleDisconnect).                               *)
THEOREM NobodyIsLockedOut == LiveSpec => []NoLockout
<1>1. LiveInit => CountersInv
  BY CountersInit DEF LiveInit
<1>2. CountersInv /\ [LiveNext]_liveVars => CountersInv'
  BY CountersStep DEF LiveNext, liveVars, gatewayVars
<1>3. CountersInv => NoLockout
  <2>1. CountersInv => all <= Cardinality({s \in Sockets : link[s] = "open"})
    BY DEF CountersInv, IsOpen
  <2>2. \A S : Gateway!Cardinality(S) = Cardinality(S)
    BY DEF Gateway!Cardinality, Cardinality
  <2> QED BY <2>1, <2>2 DEF CountersInv, NoLockout, Gateway!NoLockout
<1> QED BY <1>1, <1>2, <1>3, PTL DEF LiveSpec

-----------------------------------------------------------------------------
(* RiskScore: recording an event leaves its handler before a computation of  *)
(* its own, so a sum that is out of date is never the last one: either a     *)
(* computation is still to come, or it ran over another, or it failed.       *)

RiskSteps ==
  {Risk!Idle} \cup [pc : {"load", "sum", "queue", "delete"}]
    \cup [pc : {"fill", "insert"}, version : Risk!Versions]
    \cup [pc : {"write"}, sum : Int, alone : BOOLEAN]

RiskTyped ==
  /\ config \in Risk!Versions /\ cached \in {0} \cup Risk!Versions
  /\ total \in Int /\ peak \in Int /\ total <= peak /\ score \in Int
  /\ overlap \in BOOLEAN /\ failed \in BOOLEAN
  /\ step \in [Risk!Actors -> RiskSteps]

\* No figure is above what the events have come to, and one that nobody computed over is
\* the figure of all events once no computation is to come.
ScoreInv ==
  /\ score <= Risk!Capped(peak)
  /\ \A x \in Risk!Actors : Risk!At(x, "write") =>
       /\ step[x].sum <= Risk!Capped(peak)
       /\ step[x].alone => Risk!Busy("write") = {x}
       /\ step[x].alone /\ Risk!Busy("sum") = {} /\ ~failed => step[x].sum = Risk!Capped(total)
  /\ Risk!Busy("sum") \cup Risk!Busy("write") = {} /\ ~overlap /\ ~failed => score = Risk!Capped(total)

RiskInv == RiskTyped /\ ScoreInv

-----------------------------------------------------------------------------
LEMMA CappedIsMonotone ==
  ASSUME Cap \in Nat, NEW m \in Int, NEW n \in Int, m <= n
  PROVE  Risk!Capped(m) \in Int /\ Risk!Capped(m) <= Risk!Capped(n)
BY DEF Risk!Capped

LEMMA ScoreInit == Risk!Init => RiskInv
<1> SUFFICES ASSUME Risk!Init PROVE RiskInv
  OBVIOUS
<1>1. RiskTyped
  <2>1. step \in [Risk!Actors -> RiskSteps]
    BY DEF Risk!Init, RiskSteps
  <2>2. total = 0 /\ peak = 0 /\ score = 0
    BY DEF Risk!Init
  <2>3. total \in Int /\ peak \in Int /\ total <= peak /\ score \in Int
    BY <2>2
  <2> QED BY <2>1, <2>3 DEF Risk!Init, RiskTyped
<1>2. Risk!Capped(0) = 0
  BY RiskAssumption DEF Risk!Capped
<1>3. \A x \in Risk!Actors : ~Risk!At(x, "write") /\ ~Risk!At(x, "sum")
  BY DEF Risk!Init, Risk!At, Risk!Idle
<1>4. ScoreInv
  BY <1>2, <1>3 DEF Risk!Init, ScoreInv
<1> QED BY <1>1, <1>4 DEF RiskInv

\* An actor that moves between two round trips outside a computation, or a
\* write of the cache, the configuration or the queue, changes no figure.
LEMMA ElsewhereIsHarmless ==
  ASSUME RiskInv, NEW x \in Risk!Actors, NEW s \in RiskSteps, Risk!Goto(x, s), UNCHANGED Risk!session,
         step[x].pc \notin {"sum", "write"}, s.pc # "write"
  PROVE  ScoreInv'
<1>1. step' = [step EXCEPT ![x] = s] /\ step \in [Risk!Actors -> RiskSteps]
  BY DEF Risk!Goto, RiskInv, RiskTyped
<1>2. \A y \in Risk!Actors : y # x => step'[y] = step[y]
  BY <1>1
<1>3. step'[x] = s
  BY <1>1
<1>4. Risk!Busy("write")' = Risk!Busy("write")
  BY <1>2, <1>3 DEF Risk!Busy, Risk!At
<1>5. Risk!Busy("sum") \subseteq Risk!Busy("sum")'
  BY <1>2, <1>3 DEF Risk!Busy, Risk!At
<1>6. \A y \in Risk!Actors : Risk!At(y, "write")' => y # x /\ Risk!At(y, "write")
  BY <1>2, <1>3 DEF Risk!At
<1>7. Risk!Capped(total)' = Risk!Capped(total) /\ Risk!Capped(peak)' = Risk!Capped(peak)
  BY DEF Risk!session, Risk!Capped
<1> QED BY <1>2, <1>4, <1>5, <1>6, <1>7 DEF RiskInv, ScoreInv, Risk!session

\* An inserted event has its handler compute the score next.
LEMMA InsertCounts ==
  ASSUME RiskInv, NEW h \in Handlers, Risk!InsertEvent(h)
  PROVE  RiskInv'
<1>1. h \in Risk!Actors /\ step \in [Risk!Actors -> RiskSteps] /\ step[h] \in RiskSteps /\ step[h].pc = "insert"
  BY DEF Risk!Actors, RiskInv, RiskTyped, Risk!InsertEvent, Risk!At
<1>2. step[h].version \in Risk!Versions
  BY <1>1 DEF RiskSteps, Risk!Idle
<1>3. {Weight[step[h].version]} \cup Claims \subseteq Int
  BY <1>2, RiskAssumption DEF Risk!Versions
<1>4. /\ total' \in Int /\ peak' \in Int /\ peak \in Int
      /\ total' <= peak' /\ peak <= peak'
  BY <1>3 DEF Risk!InsertEvent, RiskInv, RiskTyped
<1>5. step' = [step EXCEPT ![h] = [pc |-> "sum"]]
  BY DEF Risk!InsertEvent, Risk!Goto
<1>6. RiskTyped'
  <2>1. [pc |-> "sum"] \in RiskSteps
    BY DEF RiskSteps
  <2>2. step' \in [Risk!Actors -> RiskSteps]
    BY <1>1, <1>5, <2>1
  <2> QED BY <1>4, <2>2 DEF Risk!InsertEvent, RiskInv, RiskTyped
<1>7. step'[h].pc = "sum" /\ \A y \in Risk!Actors : y # h => step'[y] = step[y]
  BY <1>1, <1>5
<1>8. h \in Risk!Busy("sum")'
  BY <1>1, <1>7 DEF Risk!Busy, Risk!At
<1>9. Risk!Busy("write")' = Risk!Busy("write")
  BY <1>1, <1>7 DEF Risk!Busy, Risk!At
<1>10. \A y \in Risk!Actors : Risk!At(y, "write")' => y # h /\ Risk!At(y, "write")
  BY <1>7 DEF Risk!At
<1>11. Risk!Capped(peak) <= Risk!Capped(peak') /\ Risk!Capped(peak) \in Int /\ Risk!Capped(peak') \in Int
  BY <1>4, CappedIsMonotone, RiskAssumption
<1>12. Risk!Capped(peak)' = Risk!Capped(peak')
  BY DEF Risk!Capped
<1>13. score' <= Risk!Capped(peak')
  BY <1>11 DEF Risk!InsertEvent, RiskInv, ScoreInv, RiskTyped
<1>14. ASSUME NEW y \in Risk!Actors, Risk!At(y, "write")'
       PROVE  /\ step'[y].sum <= Risk!Capped(peak')
              /\ step'[y].alone => Risk!Busy("write")' = {y}
  <2>1. step'[y] = step[y] /\ Risk!At(y, "write")
    BY <1>7, <1>10, <1>14
  <2>2. step[y].sum \in Int
    BY <1>1, <2>1 DEF Risk!At, RiskSteps, Risk!Idle
  <2> QED BY <1>9, <1>11, <2>1, <2>2 DEF RiskInv, ScoreInv
<1>15. ScoreInv'
  BY <1>8, <1>12, <1>13, <1>14 DEF ScoreInv
<1> QED BY <1>6, <1>15 DEF RiskInv

\* A sum is the figure of all events, and of a computation that is alone
\* only if no other is between its sum and its write.
LEMMA SumCounts ==
  ASSUME RiskInv, NEW x \in Handlers \cup Workers, Risk!SumEvents(x)
  PROVE  RiskInv'
<1> DEFINE mine == [pc |-> "write", sum |-> Risk!Capped(total), alone |-> Risk!Busy("write") = {}]
<1>1. x \in Risk!Actors /\ step \in [Risk!Actors -> RiskSteps] /\ total \in Int /\ peak \in Int /\ total <= peak /\ UNCHANGED <<config, cached, Risk!session, jobs>>
  BY DEF Risk!Actors, RiskInv, RiskTyped, Risk!SumEvents
<1>2. /\ Risk!Capped(total) \in Int /\ Risk!Capped(peak) \in Int
      /\ Risk!Capped(total) <= Risk!Capped(peak)
  BY <1>1, RiskAssumption DEF Risk!Capped
<1>3. step'[x] = mine
  BY <1>1 DEF Risk!SumEvents
<1>4. \A y \in Risk!Actors : y # x /\ Risk!At(y, "write") =>
        step'[y] = [step[y] EXCEPT !.alone = FALSE]
  BY <1>1 DEF Risk!SumEvents
<1>5. \A y \in Risk!Actors : y # x /\ ~Risk!At(y, "write") => step'[y] = step[y]
  BY <1>1 DEF Risk!SumEvents
<1>6. \A y \in Risk!Actors : y # x /\ Risk!At(y, "write") =>
        step'[y] = [pc |-> "write", sum |-> step[y].sum, alone |-> FALSE] /\ step[y].sum \in Int
  <2> TAKE y \in Risk!Actors
  <2> SUFFICES ASSUME y # x, Risk!At(y, "write")
      PROVE step'[y] = [pc |-> "write", sum |-> step[y].sum, alone |-> FALSE] /\ step[y].sum \in Int
    OBVIOUS
  <2>1. step[y] \in [pc : {"write"}, sum : Int, alone : BOOLEAN]
    BY <1>1 DEF Risk!At, RiskSteps, Risk!Idle
  <2> QED BY <1>4, <2>1
<1>7. \A y \in Risk!Actors : step'[y] \in RiskSteps
  <2>1. mine \in RiskSteps
    BY <1>2 DEF RiskSteps
  <2>2. \A s \in Int : [pc |-> "write", sum |-> s, alone |-> FALSE] \in RiskSteps
    BY DEF RiskSteps
  <2> HIDE DEF mine
  <2> QED BY <1>1, <1>3, <1>5, <1>6, <2>1, <2>2
<1>8. RiskTyped'
  <2>1. step' = [y \in Risk!Actors |-> step'[y]]
    BY DEF Risk!SumEvents
  <2>2. step' \in [Risk!Actors -> RiskSteps]
    BY <1>7, <2>1
  <2> QED BY <1>1, <2>2 DEF RiskInv, RiskTyped, Risk!session
<1>9. Risk!Capped(total)' = Risk!Capped(total) /\ Risk!Capped(peak)' = Risk!Capped(peak) /\ score' = score
  BY <1>1 DEF Risk!session, Risk!Capped
<1>10. Risk!At(x, "write")' /\ Risk!Busy("write")' # {}
  BY <1>1, <1>3 DEF Risk!At, Risk!Busy
<1>11. Risk!Busy("write") = {} => Risk!Busy("write")' = {x}
  BY <1>1, <1>3, <1>5 DEF Risk!At, Risk!Busy
<1>12. ASSUME NEW y \in Risk!Actors, Risk!At(y, "write")'
       PROVE  /\ step'[y].sum <= Risk!Capped(peak)
              /\ step'[y].alone => Risk!Busy("write")' = {y} /\ step'[y].sum = Risk!Capped(total)
  <2>1. CASE y = x
    <3>1. step'[x].sum = Risk!Capped(total) /\ (step'[x].alone => Risk!Busy("write") = {})
      <4> DEFINE none == Risk!Busy("write") = {}
      <4>1. step'[x] = [pc |-> "write", sum |-> Risk!Capped(total), alone |-> none]
        BY <1>3
      <4>2. none \in BOOLEAN
        OBVIOUS
      <4> HIDE DEF none, mine
      <4>3. step'[x].sum = Risk!Capped(total) /\ step'[x].alone = none
        BY <4>1, <4>2
      <4> QED BY <4>3, Zenon DEF none
    <3>2. step'[x].sum <= Risk!Capped(peak)
      BY <1>2, <3>1
    <3> HIDE DEF mine
    <3> QED BY <1>11, <2>1, <3>1, <3>2, Zenon
  <2>2. CASE y # x
    <3>1. Risk!At(y, "write")
      BY <1>5, <1>12, <2>2 DEF Risk!At
    <3>2. step'[y] = [pc |-> "write", sum |-> step[y].sum, alone |-> FALSE]
      BY <1>6, <2>2, <3>1
    <3>3. step'[y].sum = step[y].sum /\ ~step'[y].alone
      BY <3>2
    <3> QED BY <3>1, <3>3 DEF RiskInv, ScoreInv
  <2> QED BY <2>1, <2>2
<1>13. ScoreInv'
  BY <1>9, <1>10, <1>12 DEF ScoreInv, RiskInv
<1> QED BY <1>8, <1>13 DEF RiskInv

\* The last of the computations leaves its figure.
LEMMA WriteCounts ==
  ASSUME RiskInv, NEW x \in Handlers \cup Workers, Risk!WriteScore(x)
  PROVE  RiskInv'
<1>1. x \in Risk!Actors /\ step \in [Risk!Actors -> RiskSteps] /\ step[x].pc = "write"
  BY DEF Risk!Actors, RiskInv, RiskTyped, Risk!WriteScore, Risk!At
<1>2. step[x].sum \in Int /\ step[x].alone \in BOOLEAN
  BY <1>1 DEF RiskSteps, Risk!Idle
<1>3. PICK s \in {Risk!Idle, [pc |-> "queue"]} : step' = [step EXCEPT ![x] = s]
  BY DEF Risk!WriteScore, Risk!Goto
<1>4. s \in RiskSteps /\ s.pc \notin {"sum", "write"}
  BY <1>3 DEF RiskSteps, Risk!Idle
<1>5. RiskTyped'
  <2>1. step' \in [Risk!Actors -> RiskSteps]
    BY <1>1, <1>3, <1>4
  <2> QED BY <1>2, <2>1 DEF RiskInv, RiskTyped, Risk!WriteScore
<1>6. step'[x] = s /\ \A y \in Risk!Actors : y # x => step'[y] = step[y]
  BY <1>1, <1>3
<1>7. Risk!Busy("write")' = Risk!Busy("write") \ {x} /\ Risk!Busy("sum")' = Risk!Busy("sum")
  BY <1>1, <1>4, <1>6 DEF Risk!Busy, Risk!At
<1>8. \A y \in Risk!Actors : Risk!At(y, "write")' => y # x /\ Risk!At(y, "write")
  BY <1>4, <1>6 DEF Risk!At
<1>9. Risk!Capped(total)' = Risk!Capped(total) /\ Risk!Capped(peak)' = Risk!Capped(peak) /\ failed' = failed
  BY DEF Risk!WriteScore, Risk!Capped
<1>10. score' = step[x].sum /\ overlap' = ~step[x].alone /\ Risk!At(x, "write")
  BY DEF Risk!WriteScore
<1>11. score' <= Risk!Capped(peak)
  BY <1>1, <1>10 DEF RiskInv, ScoreInv
<1>12. ASSUME NEW y \in Risk!Actors, Risk!At(y, "write")'
       PROVE  step'[y].sum <= Risk!Capped(peak) /\ ~step'[y].alone
  <2>1. y # x /\ Risk!At(y, "write") /\ step'[y] = step[y]
    BY <1>6, <1>8, <1>12
  <2>2. x \in Risk!Busy("write")
    BY <1>1 DEF Risk!Busy, Risk!At
  <2> QED BY <2>1, <2>2 DEF RiskInv, ScoreInv
<1>13. Risk!Busy("sum")' = {} /\ ~overlap' /\ ~failed' => score' = Risk!Capped(total)
  BY <1>1, <1>2, <1>7, <1>9, <1>10 DEF RiskInv, ScoreInv
<1>14. ScoreInv'
  BY <1>9, <1>11, <1>12, <1>13 DEF ScoreInv
<1> QED BY <1>5, <1>14 DEF RiskInv

\* A computation that fails is remembered.
LEMMA FailureIsRemembered ==
  ASSUME RiskInv, NEW x \in Handlers \cup Workers, Risk!Fail(x)
  PROVE  RiskInv'
<1>1. x \in Risk!Actors /\ step \in [Risk!Actors -> RiskSteps] /\ step' = [step EXCEPT ![x] = Risk!Idle]
  BY DEF Risk!Actors, RiskInv, RiskTyped, Risk!Fail, Risk!Goto
<1>2. RiskTyped'
  <2>1. step' \in [Risk!Actors -> RiskSteps]
    BY <1>1 DEF RiskSteps
  <2>2. failed' \in BOOLEAN
    BY DEF Risk!Fail
  <2> QED BY <2>1, <2>2 DEF RiskInv, RiskTyped, Risk!Fail
<1>3. CASE step[x].pc \notin {"sum", "write"}
  <2>1. failed' = failed
    BY <1>3 DEF Risk!Fail, RiskInv, RiskTyped
  <2>2. ScoreInv'
    BY <1>1, <1>3, <2>1, ElsewhereIsHarmless DEF Risk!Fail, Risk!session, RiskSteps, Risk!Idle
  <2> QED BY <1>2, <2>2 DEF RiskInv
<1>4. CASE step[x].pc \in {"sum", "write"}
  <2>1. failed'
    BY <1>4 DEF Risk!Fail
  <2>2. step'[x] = Risk!Idle /\ \A y \in Risk!Actors : y # x => step'[y] = step[y]
    BY <1>1
  <2>3. Risk!Capped(total)' = Risk!Capped(total) /\ Risk!Capped(peak)' = Risk!Capped(peak) /\ score' = score
    BY DEF Risk!Fail, Risk!Capped
  <2>4. ASSUME NEW y \in Risk!Actors, Risk!At(y, "write")'
        PROVE  /\ step'[y].sum <= Risk!Capped(peak)
               /\ step'[y].alone => Risk!Busy("write")' = {y}
    <3>1. y # x /\ step'[y] = step[y] /\ Risk!At(y, "write")
      BY <2>2, <2>4 DEF Risk!At, Risk!Idle
    <3>2. Risk!Busy("write")' \subseteq Risk!Busy("write") /\ y \in Risk!Busy("write")'
      BY <2>2, <2>4 DEF Risk!Busy, Risk!At, Risk!Idle
    <3> QED BY <3>1, <3>2 DEF RiskInv, ScoreInv
  <2>5. ScoreInv'
    BY <2>1, <2>3, <2>4 DEF ScoreInv, RiskInv
  <2> QED BY <1>2, <2>5 DEF RiskInv
<1> QED BY <1>3, <1>4

\* The cache, the configuration and the queue.
LEMMA TheRestIsHarmless ==
  ASSUME RiskInv,
         NEW x \in Risk!Actors,
         \/ Risk!ReadCache(x) \/ Risk!LoadConfig(x) \/ Risk!FillCache(x) \/ Risk!Enqueue(x)
         \/ Risk!TakeJob(x) \/ Risk!UpsertConfig(x) \/ Risk!DeleteCached(x)
  PROVE  RiskInv'
<1>1. step \in [Risk!Actors -> RiskSteps] /\ step[x] \in RiskSteps
  BY DEF RiskInv, RiskTyped
<1>2. step[x].pc \notin {"sum", "write"} /\ UNCHANGED Risk!session
  BY DEF Risk!ReadCache, Risk!LoadConfig, Risk!FillCache, Risk!Enqueue, Risk!TakeJob, Risk!UpsertConfig, Risk!DeleteCached, Risk!At
<1>3. \E s \in RiskSteps : s.pc # "write" /\ Risk!Goto(x, s)
  <2>1. CASE Risk!ReadCache(x)
    BY <2>1 DEF Risk!ReadCache, RiskSteps, RiskInv, RiskTyped
  <2>2. CASE Risk!LoadConfig(x)
    BY <2>2 DEF Risk!LoadConfig, RiskSteps, RiskInv, RiskTyped
  <2>3. CASE Risk!FillCache(x)
    <3>1. step[x].version \in Risk!Versions
      BY <1>1, <2>3 DEF Risk!FillCache, Risk!At, RiskSteps, Risk!Idle
    <3> QED BY <2>3, <3>1 DEF Risk!FillCache, RiskSteps
  <2>4. CASE Risk!Enqueue(x) \/ Risk!DeleteCached(x)
    BY <2>4 DEF Risk!Enqueue, Risk!DeleteCached, RiskSteps, Risk!Idle
  <2>5. CASE Risk!TakeJob(x) \/ Risk!UpsertConfig(x)
    BY <2>5 DEF Risk!TakeJob, Risk!UpsertConfig, RiskSteps
  <2> QED BY <2>1, <2>2, <2>3, <2>4, <2>5
<1>4. PICK s \in RiskSteps : s.pc # "write" /\ Risk!Goto(x, s)
  BY <1>3
<1>5. ScoreInv'
  BY <1>2, <1>4, ElsewhereIsHarmless
<1>6. step' \in [Risk!Actors -> RiskSteps]
  BY <1>1, <1>4 DEF Risk!Goto
<1>7. config' \in Risk!Versions /\ cached' \in {0} \cup Risk!Versions
  <2>1. CASE Risk!FillCache(x)
    <3>1. step[x].version \in Risk!Versions
      BY <1>1, <2>1 DEF Risk!FillCache, Risk!At, RiskSteps, Risk!Idle
    <3> QED BY <2>1, <3>1 DEF Risk!FillCache, RiskInv, RiskTyped
  <2>2. CASE ~Risk!FillCache(x)
    BY <2>2 DEF Risk!ReadCache, Risk!LoadConfig, Risk!Enqueue, Risk!TakeJob, Risk!UpsertConfig, Risk!DeleteCached, RiskInv, RiskTyped
  <2> QED BY <2>1, <2>2
<1>8. RiskTyped'
  BY <1>2, <1>6, <1>7 DEF RiskInv, RiskTyped, Risk!session
<1> QED BY <1>5, <1>8 DEF RiskInv

LEMMA ScoreStep == RiskInv /\ [Risk!Next]_riskVars => RiskInv'
<1> SUFFICES ASSUME RiskInv, [Risk!Next]_riskVars PROVE RiskInv'
  OBVIOUS
<1>1. CASE UNCHANGED riskVars \/ Risk!ExpireCache
  <2>1. UNCHANGED <<Risk!session, step>> /\ config' = config /\ cached' \in {0, cached}
    BY <1>1 DEF riskVars, Risk!ExpireCache, Risk!session
  <2> QED BY <2>1 DEF RiskInv, RiskTyped, ScoreInv, Risk!session, Risk!Busy, Risk!At, Risk!Capped
<1>2. CASE \E h \in Handlers : Risk!ReadCache(h) \/ Risk!LoadConfig(h) \/ Risk!FillCache(h) \/ Risk!Enqueue(h)
  BY <1>2, TheRestIsHarmless DEF Risk!Actors
<1>3. CASE \E h \in Handlers : Risk!InsertEvent(h)
  BY <1>3, InsertCounts
<1>4. CASE \E x \in Handlers \cup Workers : Risk!SumEvents(x)
  BY <1>4, SumCounts
<1>5. CASE \E x \in Handlers \cup Workers : Risk!WriteScore(x)
  BY <1>5, WriteCounts
<1>6. CASE \E x \in Handlers \cup Workers : Risk!Fail(x)
  BY <1>6, FailureIsRemembered
<1>7. CASE \E w \in Workers : Risk!TakeJob(w)
  BY <1>7, TheRestIsHarmless DEF Risk!Actors
<1>8. CASE \E s \in Savers : Risk!UpsertConfig(s) \/ Risk!DeleteCached(s)
  BY <1>8, TheRestIsHarmless DEF Risk!Actors
<1> QED BY <1>1, <1>2, <1>3, <1>4, <1>5, <1>6, <1>7, <1>8 DEF Risk!Next

(* However events, recomputations and jobs of the queue interleave and      *)
(* fail, and whatever points pages claim, the score never shows more than   *)
(* the events have come to, and it counts all of them unless its last       *)
(* computation ran over another or one failed                               *)
(* (MonitoringService.recomputeSessionRisk, the risk-scoring worker).       *)
THEOREM NoEventIsForgotten == LiveSpec => []ScoreCountsEveryEvent
<1>1. LiveInit => RiskInv
  BY ScoreInit DEF LiveInit
<1>2. RiskInv /\ [LiveNext]_liveVars => RiskInv'
  BY ScoreStep DEF LiveNext, liveVars, riskVars
<1>3. RiskInv => ScoreCountsEveryEvent
  BY DEF RiskInv, ScoreInv, Risk!ScoreCountsEveryEvent, ScoreCountsEveryEvent
<1> QED BY <1>1, <1>2, <1>3, PTL DEF LiveSpec
=============================================================================
