--------------------------- MODULE RoomClientProofs ---------------------------
(***************************************************************************)
(* What RoomClient promises, for any number of clients and of sockets: the *)
(* model checker tries one client with two.                                *)
(***************************************************************************)
EXTENDS RoomClient, FiniteSetTheorems, TLAPS

(***************************************************************************)
(* Why leaving is final and attempts do not overlap, once the first        *)
(* connect() has not failed: the clock then has a sample before anything   *)
(* could time out waiting for one, so that the socket being dialled is     *)
(* always the newest and a retry is pending only after it is done.         *)
(***************************************************************************)
Dialled(c) ==
  \A n \in 1..MaxDials : stage[<<c, n>>] = "unused" <=> n > dial[c]

Clocked(c) == \A n \in 1..MaxDials : stage[<<c, n>>] = "running" => clock[c]

NewestOnly(c) ==
  /\ \A n \in 1..MaxDials : stage[<<c, n>>] = "dialing" => n = dial[c]
  /\ retry[c] => dial[c] > 0 /\ stage[Now(c)] # "dialing"

Quiet(c) ==
  /\ connection[c] = "closed" /\ ~retry[c]
  /\ ~(stage[Now(c)] = "dialing" /\ end[Now(c)] = "none")

ClientInv(c) ==
  /\ Dialled(c)
  /\ Clocked(c)
  /\ ~want[c] => dial[c] > 0
  /\ stage[<<c, 1>>] # "failed" => NewestOnly(c) /\ (~want[c] => Quiet(c))

ConnsType == conns \in [Conn -> Code \cup {NoRoom}]

IInv == TypeOK /\ ConnsType /\ \A c \in Client : ClientInv(c)

-----------------------------------------------------------------------------
(* Every event of the client is a step of the server it talks to, or none. *)
LEMMA ServerSide == [Next]_vars => [M!Next]_(M!vars)
<1> SUFFICES ASSUME [Next]_vars PROVE M!Next \/ UNCHANGED M!vars
  OBVIOUS
<1>1. CASE UNCHANGED vars
  BY <1>1 DEF vars, serverVars, M!vars
<1>2. ASSUME NEW c \in Client,
             (\E r \in Code \cup {NoRoom} : Start(c, r)) \/ GivesUp(c) \/ Reconnect(c) \/ Leave(c)
      PROVE  UNCHANGED M!vars
  BY <1>2 DEF Start, GivesUp, Reconnect, Leave, serverVars, M!vars
<1>3. ASSUME NEW c \in Client, NEW n \in 1..MaxDials,
             DialFails(c, n) \/ BurstEnds(c, n) \/ ClockTimesOut(c, n) \/ CloseEvent(c, n)
      PROVE  UNCHANGED M!vars
  BY <1>3 DEF DialFails, BurstEnds, ClockTimesOut, CloseEvent, serverVars, M!vars
<1>4. ASSUME NEW c \in Client, NEW n \in 1..MaxDials, DialOpens(c, n)
      PROVE  M!Next
  <2>1. <<c, n>> \in Conn BY DEF Conn
  <2> QED BY <1>4, <2>1 DEF DialOpens, M!Next
<1>5. ASSUME NEW s \in Conn, ServerGreets(s) PROVE M!Next \/ UNCHANGED M!vars
  <2>1. CASE \E r \in Code : M!HelloCreate(s, r, TRUE)
    BY <2>1 DEF M!Next
  <2>2. CASE \E r \in Code : M!HelloJoin(s, r)
    BY <2>2 DEF M!Next
  <2>3. CASE UNCHANGED serverVars
    BY <2>3 DEF serverVars, M!vars
  <2> QED BY <1>5, <2>1, <2>2, <2>3 DEF ServerGreets
<1>6. ASSUME NEW s \in Conn, Answered(s) \/ Pong(s) PROVE UNCHANGED M!vars
  BY <1>6 DEF Answered, Pong, serverVars, M!vars
<1>7. ASSUME NEW s \in Conn, RouteLost(s) \/ ServerSeesClose(s) \/ ServerClosed(s)
      PROVE  M!Next
  BY <1>7 DEF RouteLost, ServerSeesClose, ServerClosed, M!Next
<1>8. ASSUME NEW S \in SUBSET Conn, ServerCloseSilent(S) PROVE M!Next
  BY <1>8 DEF ServerCloseSilent, M!Next
<1>9. ASSUME NEW S \in SUBSET Code, ServerSweep(S) PROVE M!Next
  BY <1>9 DEF ServerSweep, M!Next
<1> QED
  BY <1>1, <1>2, <1>3, <1>4, <1>5, <1>6, <1>7, <1>8, <1>9 DEF Next

LEMMA ConnsStep ==
  ASSUME ConnsType, [M!Next]_(M!vars)
  PROVE  ConnsType'
<1>1. CASE UNCHANGED M!vars
  BY <1>1 DEF ConnsType, M!vars
<1>2. ASSUME NEW c \in Conn, M!Connect(c) \/ M!Vanish(c) \/ M!PeerCloses(c)
      PROVE  ConnsType'
  BY <1>2 DEF ConnsType, M!Connect, M!Vanish, M!PeerCloses
<1>3. ASSUME NEW c \in Conn, M!Closed(c) PROVE ConnsType'
  BY <1>3 DEF ConnsType, M!Closed, M!Remove
<1>4. ASSUME NEW S \in SUBSET Conn, M!CloseSilent(S) PROVE ConnsType'
  BY <1>4 DEF ConnsType, M!CloseSilent
<1>5. ASSUME NEW S \in SUBSET Code, M!Sweep(S) \/ M!Refresh(S) PROVE ConnsType'
  BY <1>5 DEF ConnsType, M!Sweep, M!Refresh
<1>6. ASSUME NEW c \in Conn, NEW r \in Code, NEW b \in BOOLEAN,
             M!HelloCreate(c, r, b) \/ M!HelloJoin(c, r)
      PROVE  ConnsType'
  BY <1>6 DEF ConnsType, M!HelloCreate, M!HelloJoin, M!Add
<1>7. ASSUME NEW c \in Conn, NEW r \in Code, NEW t \in Conn, NEW b \in BOOLEAN,
             M!SetOpenControl(c, r, b) \/ M!TransferHost(c, r, t) \/ M!SetControl(c, r, t, b)
      PROVE  ConnsType'
  BY <1>7 DEF ConnsType, M!SetOpenControl, M!TransferHost, M!SetControl, M!memberVars
<1>8. ASSUME NEW c \in Conn, NEW r \in Code, M!HelloJoin(c, r) PROVE ConnsType'
  BY <1>6, <1>8
<1>9. ASSUME NEW c \in Conn, NEW r \in Code, NEW b \in BOOLEAN, M!SetOpenControl(c, r, b)
      PROVE  ConnsType'
  BY <1>7, <1>9
<1>10. ASSUME NEW c \in Conn, NEW r \in Code, NEW t \in Conn, M!TransferHost(c, r, t)
       PROVE  ConnsType'
  BY <1>7, <1>10
<1> QED
  BY <1>1, <1>2, <1>3, <1>4, <1>5, <1>6, <1>7, <1>8, <1>9, <1>10 DEF M!Next

-----------------------------------------------------------------------------
(* Types, one event at a time. *)
LEMMA Pairs ==
  /\ \A c \in Client, n \in 1..MaxDials : <<c, n>> \in Conn
  /\ \A s \in Conn : s[1] \in Client /\ s[2] \in 1..MaxDials /\ s = <<s[1], s[2]>>
  BY DEF Conn

LEMMA DialTypes ==
  ASSUME TypeOK, NEW c \in Client, Dial(c)
  PROVE  /\ dial[c] + 1 \in 1..MaxDials
         /\ dial' \in [Client -> 0..MaxDials]
         /\ dial'[c] = dial[c] + 1
         /\ \A d \in Client \ {c} : dial'[d] = dial[d]
         /\ stage' \in [Conn -> Stages]
         /\ stage'[<<c, dial[c] + 1>>] = "dialing"
         /\ \A s \in Conn : s # <<c, dial[c] + 1>> => stage'[s] = stage[s]
<1>1. dial[c] \in 0..MaxDials /\ dial[c] + 1 \in 1..MaxDials
  BY DialsAssumption DEF TypeOK, Dial
<1>2. <<c, dial[c] + 1>> \in Conn BY <1>1, Pairs
<1> QED BY <1>1, <1>2, DialsAssumption DEF TypeOK, Dial, Stages

LEMMA RejectedTypes ==
  ASSUME TypeOK, NEW c \in Client, NEW n \in 1..MaxDials
  PROVE  /\ Rejected(c, n) \in [Client -> BOOLEAN]
         /\ Rejected(c, n)[c] => retry[c] \/ want[c]
         /\ \A d \in Client \ {c} : Rejected(c, n)[d] = retry[d]
  BY DEF TypeOK, Rejected

LEMMA Untouched ==
  ASSUME TypeOK, NEW d \in Client, ClientInv(d),
         dial'[d] = dial[d], want'[d] = want[d], connection'[d] = connection[d],
         retry'[d] = retry[d], clock'[d] = clock[d],
         \A n \in 1..MaxDials : stage'[<<d, n>>] = stage[<<d, n>>]
                              /\ end'[<<d, n>>] = end[<<d, n>>]
  PROVE  ClientInv(d)'
<1>1. dial[d] \in 0..MaxDials /\ 1 \in 1..MaxDials
  BY DialsAssumption DEF TypeOK
<1>2. dial[d] > 0 => dial[d] \in 1..MaxDials
  BY <1>1, DialsAssumption
<1> QED BY <1>1, <1>2 DEF ClientInv, Dialled, Clocked, NewestOnly, Quiet, Now

-----------------------------------------------------------------------------
LEMMA StartStep ==
  ASSUME IInv, NEW c \in Client, NEW r \in Code \cup {NoRoom}, Start(c, r)
  PROVE  TypeOK' /\ \A d \in Client : ClientInv(d)'
<1>1. Dial(c) /\ TypeOK /\ dial[c] = 0 BY DEF IInv, Start
<1>0. \A n \in 1..MaxDials : stage[<<c, n>>] = "unused"
  <2>1. Dialled(c) BY DEF IInv, ClientInv
  <2> QED BY <1>1, <2>1, DialsAssumption DEF Dialled
<1>2. TypeOK'
  <2>1. code' \in [Client -> Code \cup {NoRoom}] BY <1>1 DEF Start, TypeOK
  <2>2. \A d \in Client : \A n \in timers[d] : stage'[<<d, n>>] = "running"
    <3>1. \A n \in timers[c] : n \in 1..MaxDials /\ stage[<<c, n>>] = "running"
      BY <1>1 DEF TypeOK
    <3>3. \A n \in timers[c] : FALSE
      BY <1>0, <3>1
    <3>4. ASSUME NEW d \in Client \ {c}, NEW n \in timers[d]
          PROVE  stage'[<<d, n>>] = "running"
      <4>1. n \in 1..MaxDials /\ stage[<<d, n>>] = "running"
        BY <1>1, <3>4 DEF TypeOK
      <4> QED BY <1>1, <4>1, DialTypes, Pairs
    <3> QED BY <3>3, <3>4
  <2> QED BY <1>1, <2>1, <2>2, DialTypes DEF Start, TypeOK
<1>3. ASSUME NEW d \in Client \ {c} PROVE ClientInv(d)'
  BY <1>1, <1>3, DialTypes, Untouched, Pairs DEF Start, IInv
<1>4. ClientInv(c)'
  <2>2. want[c] /\ ~retry[c]
    <3>1. want[c] \in BOOLEAN /\ retry[c] \in BOOLEAN BY <1>1 DEF TypeOK
    <3>2. ~want[c] => dial[c] > 0 BY DEF IInv, ClientInv
    <3>3. stage[<<c, 1>>] # "failed" BY <1>0, DialsAssumption
    <3>4. retry[c] => dial[c] > 0 BY <3>3 DEF IInv, ClientInv, NewestOnly
    <3> QED BY <1>1, <3>1, <3>2, <3>4
  <2>3. /\ dial'[c] = 1 /\ stage'[<<c, 1>>] = "dialing"
        /\ \A n \in 1..MaxDials : n # 1 => stage'[<<c, n>>] = "unused"
    BY <1>1, <1>0, DialTypes, Pairs, DialsAssumption
  <2>4. want'[c] /\ ~retry'[c] BY <2>2 DEF Start
  <2> QED BY <2>3, <2>4, DialsAssumption
          DEF ClientInv, Dialled, Clocked, NewestOnly
<1> QED BY <1>2, <1>3, <1>4

(* What setting one socket's stage, or its end, leaves of the others. *)
StageMoves(c, n, v) ==
  /\ stage' \in [Conn -> Stages]
  /\ stage'[<<c, n>>] = v
  /\ \A m \in 1..MaxDials : m # n => stage'[<<c, m>>] = stage[<<c, m>>]
  /\ \A d \in Client \ {c}, m \in 1..MaxDials :
       stage'[<<d, m>>] = stage[<<d, m>>]

EndMoves(c, n, v) ==
  /\ end' \in [Conn -> {"none", "open", "closing", "closed"}]
  /\ end'[<<c, n>>] = v
  /\ \A m \in 1..MaxDials : m # n => end'[<<c, m>>] = end[<<c, m>>]
  /\ \A d \in Client \ {c}, m \in 1..MaxDials : end'[<<d, m>>] = end[<<d, m>>]

LEMMA StageSet ==
  ASSUME TypeOK, NEW c \in Client, NEW n \in 1..MaxDials, NEW v \in Stages,
         stage' = [stage EXCEPT ![<<c, n>>] = v]
  PROVE  StageMoves(c, n, v)
  BY Pairs DEF TypeOK, StageMoves

LEMMA EndSet ==
  ASSUME TypeOK, NEW c \in Client, NEW n \in 1..MaxDials,
         NEW v \in {"none", "open", "closing", "closed"},
         end' = [end EXCEPT ![<<c, n>>] = v]
  PROVE  EndMoves(c, n, v)
  BY Pairs DEF TypeOK, EndMoves

(* Intervals stay with connect() calls that got to the end as long as no   *)
(* connect() that has ever stops having.                                   *)
LEMMA TimersKept ==
  ASSUME TypeOK, UNCHANGED timers,
         \A c \in Client, n \in 1..MaxDials :
           stage[<<c, n>>] = "running" => stage'[<<c, n>>] = "running"
  PROVE  /\ timers' \in [Client -> SUBSET (1..MaxDials)]
         /\ \A c \in Client : \A n \in timers'[c] : stage'[<<c, n>>] = "running"
<1>1. timers' \in [Client -> SUBSET (1..MaxDials)] BY DEF TypeOK
<1>2. ASSUME NEW c \in Client, NEW n \in timers[c] PROVE stage'[<<c, n>>] = "running"
  <2>1. n \in 1..MaxDials /\ stage[<<c, n>>] = "running" BY <1>2 DEF TypeOK
  <2> QED BY <2>1
<1> QED BY <1>1, <1>2

LEMMA DialOpensStep ==
  ASSUME IInv, NEW c \in Client, NEW n \in 1..MaxDials, DialOpens(c, n)
  PROVE  TypeOK' /\ \A d \in Client : ClientInv(d)'
<1>1. TypeOK /\ stage[<<c, n>>] = "dialing" /\ end[<<c, n>>] = "none"
  BY DEF IInv, DialOpens
<1>2. StageMoves(c, n, "greeting") /\ EndMoves(c, n, "open")
  BY <1>1, StageSet, EndSet DEF DialOpens, Stages
<1>3. UNCHANGED <<dial, code, want, retry, timers, clock>>
  BY DEF DialOpens
<1>4. connection' \in [Client -> {"closed", "connected", "reconnecting"}]
      /\ \A d \in Client \ {c} : connection'[d] = connection[d]
  BY <1>1 DEF DialOpens, TypeOK
<1>5. TypeOK'
  <2>1. asked' \in [Conn -> Code \cup {NoRoom}]
    BY <1>1, Pairs DEF DialOpens, TypeOK
  <2>2. answer' \in [Conn -> Answers]
    BY <1>1, Pairs DEF DialOpens, TypeOK, Answers
  <2>3. \A d \in Client, m \in 1..MaxDials :
          stage[<<d, m>>] = "running" => stage'[<<d, m>>] = "running"
    BY <1>1, <1>2 DEF StageMoves
  <2>4. /\ timers' \in [Client -> SUBSET (1..MaxDials)]
        /\ \A d \in Client : \A m \in timers'[d] : stage'[<<d, m>>] = "running"
    BY <1>1, <1>3, <2>3, TimersKept
  <2> QED BY <1>1, <1>2, <1>3, <1>4, <2>1, <2>2, <2>4
          DEF TypeOK, StageMoves, EndMoves
<1>6. ASSUME NEW d \in Client \ {c} PROVE ClientInv(d)'
  BY <1>1, <1>2, <1>3, <1>4, Untouched DEF IInv, StageMoves, EndMoves
<1>7. ClientInv(c)'
  <2>1. ClientInv(c) /\ 1 \in 1..MaxDials BY DialsAssumption DEF IInv
  <2>2. Dialled(c)' /\ Clocked(c)' /\ (~want'[c] => dial'[c] > 0)
    BY <1>1, <1>2, <1>3, <2>1 DEF ClientInv, Dialled, Clocked, StageMoves
  <2>3. ASSUME stage'[<<c, 1>>] # "failed" PROVE NewestOnly(c)' /\ want[c]
    <3>1. stage[<<c, 1>>] # "failed" BY <1>1, <1>2, <2>1, <2>3 DEF StageMoves
    <3>2. NewestOnly(c) BY <2>1, <3>1 DEF ClientInv
    <3>3. n = dial[c] BY <1>1, <3>2 DEF NewestOnly
    <3>4. want[c]
      <4>1. ~want[c] => Quiet(c) BY <2>1, <3>1 DEF ClientInv
      <4> QED BY <1>1, <3>3, <4>1 DEF Quiet, Now
    <3>5. NewestOnly(c)'
      BY <1>1, <1>2, <1>3, <3>2, <3>3 DEF NewestOnly, Now, StageMoves
    <3> QED BY <3>4, <3>5
  <2> QED BY <1>3, <2>2, <2>3 DEF ClientInv
<1> QED BY <1>5, <1>6, <1>7

LEMMA DialFailsStep ==
  ASSUME IInv, NEW c \in Client, NEW n \in 1..MaxDials, DialFails(c, n)
  PROVE  TypeOK' /\ \A d \in Client : ClientInv(d)'
<1>1. TypeOK /\ stage[<<c, n>>] = "dialing" BY DEF IInv, DialFails
<1>2. StageMoves(c, n, "failed") /\ EndMoves(c, n, "closed")
  BY <1>1, StageSet, EndSet DEF DialFails, Stages
<1>3. UNCHANGED <<asked, answer, dial, code, want, connection, timers, clock>>
  BY DEF DialFails
<1>4. /\ retry' \in [Client -> BOOLEAN]
      /\ retry'[c] => retry[c] \/ want[c]
      /\ \A d \in Client \ {c} : retry'[d] = retry[d]
  BY <1>1, RejectedTypes DEF DialFails
<1>5. TypeOK'
  <2>1. \A d \in Client, m \in 1..MaxDials :
          stage[<<d, m>>] = "running" => stage'[<<d, m>>] = "running"
    BY <1>1, <1>2 DEF StageMoves
  <2>2. /\ timers' \in [Client -> SUBSET (1..MaxDials)]
        /\ \A d \in Client : \A m \in timers'[d] : stage'[<<d, m>>] = "running"
    BY <1>1, <1>3, <2>1, TimersKept
  <2> QED BY <1>1, <1>2, <1>3, <1>4, <2>2 DEF TypeOK, StageMoves, EndMoves
<1>6. ASSUME NEW d \in Client \ {c} PROVE ClientInv(d)'
  BY <1>1, <1>2, <1>3, <1>4, Untouched DEF IInv, StageMoves, EndMoves
<1>7. ClientInv(c)'
  <2>1. ClientInv(c) /\ 1 \in 1..MaxDials BY DialsAssumption DEF IInv
  <2>2. Dialled(c)' /\ Clocked(c)' /\ (~want'[c] => dial'[c] > 0)
    BY <1>1, <1>2, <1>3, <2>1 DEF ClientInv, Dialled, Clocked, StageMoves
  <2>3. ASSUME stage'[<<c, 1>>] # "failed"
        PROVE  NewestOnly(c)' /\ (~want'[c] => Quiet(c)')
    <3>1. stage[<<c, 1>>] # "failed" BY <1>1, <1>2, <2>1, <2>3 DEF StageMoves
    <3>2. NewestOnly(c) /\ (~want[c] => Quiet(c)) BY <2>1, <3>1 DEF ClientInv
    <3>3. n = dial[c] BY <1>1, <3>2 DEF NewestOnly
    <3>4. NewestOnly(c)'
      BY <1>1, <1>2, <1>3, <3>2, <3>3 DEF NewestOnly, Now, StageMoves
    <3>5. ~want'[c] => Quiet(c)'
      BY <1>2, <1>3, <1>4, <3>2, <3>3 DEF Quiet, Now, StageMoves
    <3> QED BY <3>4, <3>5
  <2> QED BY <2>2, <2>3 DEF ClientInv
<1> QED BY <1>5, <1>6, <1>7

LEMMA BurstEndsStep ==
  ASSUME IInv, NEW c \in Client, NEW n \in 1..MaxDials, BurstEnds(c, n)
  PROVE  TypeOK' /\ \A d \in Client : ClientInv(d)'
<1>1. TypeOK /\ stage[<<c, n>>] = "greeting" /\ clock[c] BY DEF IInv, BurstEnds
<1>2. StageMoves(c, n, "running") BY <1>1, StageSet DEF BurstEnds, Stages
<1>3. UNCHANGED <<end, asked, answer, dial, code, want, connection, retry, clock>>
  BY DEF BurstEnds
<1>4. /\ timers' \in [Client -> SUBSET (1..MaxDials)]
      /\ timers'[c] = timers[c] \cup {n}
      /\ \A d \in Client \ {c} : timers'[d] = timers[d]
  BY <1>1 DEF BurstEnds, TypeOK
<1>5. TypeOK'
  <2>1. ASSUME NEW d \in Client, NEW m \in timers'[d]
        PROVE  stage'[<<d, m>>] = "running"
    <3>1. CASE d = c /\ m = n BY <1>2, <3>1 DEF StageMoves
    <3>2. CASE ~(d = c /\ m = n)
      <4>1. m \in timers[d] BY <1>4, <2>1, <3>2
      <4>2. m \in 1..MaxDials /\ stage[<<d, m>>] = "running" BY <1>1, <4>1 DEF TypeOK
      <4> QED BY <1>2, <3>2, <4>2 DEF StageMoves
    <3> QED BY <3>1, <3>2
  <2> QED BY <1>1, <1>2, <1>3, <1>4, <2>1 DEF TypeOK, StageMoves
<1>6. ASSUME NEW d \in Client \ {c} PROVE ClientInv(d)'
  BY <1>1, <1>2, <1>3, Untouched DEF IInv, StageMoves
<1>7. ClientInv(c)'
  <2>1. ClientInv(c) /\ 1 \in 1..MaxDials BY DialsAssumption DEF IInv
  <2>2. Dialled(c)' /\ Clocked(c)' /\ (~want'[c] => dial'[c] > 0)
    BY <1>1, <1>2, <1>3, <2>1 DEF ClientInv, Dialled, Clocked, StageMoves
  <2>3. ASSUME stage'[<<c, 1>>] # "failed"
        PROVE  NewestOnly(c)' /\ (~want'[c] => Quiet(c)')
    <3>1. stage[<<c, 1>>] # "failed" BY <1>1, <1>2, <2>1, <2>3 DEF StageMoves
    <3>2. NewestOnly(c) /\ (~want[c] => Quiet(c)) BY <2>1, <3>1 DEF ClientInv
    <3>3. dial[c] \in 0..MaxDials /\ (dial[c] > 0 => dial[c] \in 1..MaxDials)
      BY <1>1, DialsAssumption DEF TypeOK
    <3>4. \A m \in 1..MaxDials :
            stage'[<<c, m>>] = "dialing" => stage[<<c, m>>] = "dialing"
      BY <1>1, <1>2 DEF StageMoves
    <3>5. NewestOnly(c)'
      BY <1>1, <1>2, <1>3, <3>2, <3>3, <3>4 DEF NewestOnly, Now
    <3>6. ~want'[c] => Quiet(c)'
      <4>1. ~want[c] => dial[c] > 0 BY <2>1 DEF ClientInv
      <4> QED BY <1>1, <1>3, <3>2, <3>3, <3>4, <4>1 DEF Quiet, Now
    <3> QED BY <3>5, <3>6
  <2> QED BY <2>2, <2>3 DEF ClientInv
<1> QED BY <1>5, <1>6, <1>7

(* Only a first connect() can run out of time: any later one begins when   *)
(* the first is over, and the first is over well only with a clock.        *)
LEMMA ClockTimesOutStep ==
  ASSUME IInv, NEW c \in Client, NEW n \in 1..MaxDials, ClockTimesOut(c, n)
  PROVE  TypeOK' /\ \A d \in Client : ClientInv(d)'
<1>1. /\ TypeOK /\ stage[<<c, n>>] = "greeting" /\ ~clock[c]
      /\ \A m \in 1..(n - 1) : stage[<<c, m>>] # "greeting"
  BY DEF IInv, ClockTimesOut
<1>2. StageMoves(c, n, "failed") BY <1>1, StageSet DEF ClockTimesOut, Stages
<1>3. UNCHANGED <<end, asked, answer, dial, code, want, connection, timers, clock>>
  BY DEF ClockTimesOut
<1>4. /\ retry' \in [Client -> BOOLEAN]
      /\ \A d \in Client \ {c} : retry'[d] = retry[d]
  BY <1>1, RejectedTypes DEF ClockTimesOut
<1>5. TypeOK'
  <2>1. \A d \in Client, m \in 1..MaxDials :
          stage[<<d, m>>] = "running" => stage'[<<d, m>>] = "running"
    BY <1>1, <1>2 DEF StageMoves
  <2>2. /\ timers' \in [Client -> SUBSET (1..MaxDials)]
        /\ \A d \in Client : \A m \in timers'[d] : stage'[<<d, m>>] = "running"
    BY <1>1, <1>3, <2>1, TimersKept
  <2> QED BY <1>1, <1>2, <1>3, <1>4, <2>2 DEF TypeOK, StageMoves
<1>6. ASSUME NEW d \in Client \ {c} PROVE ClientInv(d)'
  BY <1>1, <1>2, <1>3, <1>4, Untouched DEF IInv, StageMoves
<1>7. ClientInv(c)'
  <2>1. ClientInv(c) /\ 1 \in 1..MaxDials /\ <<c, 1>> \in Conn
    BY DialsAssumption, Pairs DEF IInv
  <2>2. Dialled(c)' /\ Clocked(c)' /\ (~want'[c] => dial'[c] > 0)
    BY <1>1, <1>2, <1>3, <2>1 DEF ClientInv, Dialled, Clocked, StageMoves
  <2>3. Clocked(c) /\ Dialled(c) /\ (stage[<<c, 1>>] # "failed" => NewestOnly(c))
    BY <2>1 DEF ClientInv
  <2>5. stage'[<<c, 1>>] = "failed"
    <3>1. CASE n = 1 BY <1>2, <3>1 DEF StageMoves
    <3>2. CASE n # 1
      <4>1. 1 \in 1..(n - 1) BY <3>2, DialsAssumption
      <4>2. stage[<<c, 1>>] # "greeting" BY <1>1, <4>1
      <4>3. stage[<<c, 1>>] # "running" BY <1>1, <2>1, <2>3 DEF Clocked
      <4>4. dial[c] \in Nat BY <1>1, DialsAssumption DEF TypeOK
      <4>5. ~(n > dial[c]) BY <1>1, <2>3 DEF Dialled
      <4>6. stage[<<c, 1>>] # "unused"
        BY <2>1, <2>3, <3>2, <4>4, <4>5, DialsAssumption DEF Dialled
      <4>7. ASSUME stage[<<c, 1>>] = "dialing" PROVE FALSE
        <5>1. 1 = dial[c] BY <2>1, <2>3, <4>7 DEF NewestOnly
        <5> QED BY <3>2, <4>5, <5>1, DialsAssumption
      <4>8. stage[<<c, 1>>] \in Stages BY <1>1, <2>1 DEF TypeOK
      <4>9. stage[<<c, 1>>] = "failed"
        BY <4>2, <4>3, <4>6, <4>7, <4>8 DEF Stages
      <4> QED BY <1>2, <2>1, <3>2, <4>9 DEF StageMoves
    <3> QED BY <3>1, <3>2
  <2> QED BY <2>2, <2>5 DEF ClientInv
<1> QED BY <1>5, <1>6, <1>7

-----------------------------------------------------------------------------
(* Steps that touch no client: the server's own, and the network's. *)
LEMMA ServerStep ==
  ASSUME IInv, UNCHANGED <<stage, end, clientVars>>,
         asked' = asked, answer' \in [Conn -> Answers]
  PROVE  TypeOK' /\ \A d \in Client : ClientInv(d)'
<1>1. TypeOK /\ \A d \in Client : ClientInv(d) BY DEF IInv
<1>2. TypeOK' BY <1>1 DEF TypeOK, clientVars
<1>3. ASSUME NEW d \in Client PROVE ClientInv(d)'
  BY <1>1, Untouched DEF clientVars
<1> QED BY <1>2, <1>3

LEMMA GreetsStep ==
  ASSUME IInv, NEW s \in Conn, ServerGreets(s)
  PROVE  TypeOK' /\ \A d \in Client : ClientInv(d)'
<1>1. TypeOK BY DEF IInv
<1>2. UNCHANGED <<stage, end, clientVars>> /\ asked' = asked
  BY DEF ServerGreets
<1>3. \/ answer' = [answer EXCEPT ![s] = "welcoming"]
      \/ answer' = [answer EXCEPT ![s] = "refusing"]
  BY DEF ServerGreets
<1>4. answer' \in [Conn -> Answers] BY <1>1, <1>3 DEF TypeOK, Answers
<1> QED BY <1>2, <1>4, ServerStep

LEMMA AnsweredStep ==
  ASSUME IInv, NEW s \in Conn, Answered(s)
  PROVE  TypeOK' /\ \A d \in Client : ClientInv(d)'
<1>1. TypeOK /\ ConnsType /\ \A d \in Client : ClientInv(d) BY DEF IInv
<1>2. UNCHANGED <<stage, end, asked, dial, want, connection, retry, timers, clock>>
  BY DEF Answered
<1>3. answer' \in [Conn -> Answers] BY <1>1 DEF Answered, TypeOK, Answers
<1>4. code' \in [Client -> Code \cup {NoRoom}]
  BY <1>1, Pairs DEF Answered, TypeOK, ConnsType
<1>5. TypeOK' BY <1>1, <1>2, <1>3, <1>4 DEF TypeOK
<1>6. ASSUME NEW d \in Client PROVE ClientInv(d)' BY <1>1, <1>2, Untouched
<1> QED BY <1>5, <1>6

LEMMA PongStep ==
  ASSUME IInv, NEW s \in Conn, Pong(s)
  PROVE  TypeOK' /\ \A d \in Client : ClientInv(d)'
<1>1. TypeOK /\ \A d \in Client : ClientInv(d) BY DEF IInv
<1>2. UNCHANGED <<stage, end, asked, answer, dial, code, want, connection, retry, timers>>
  BY DEF Pong, socketVars
<1>3. /\ clock' \in [Client -> BOOLEAN]
      /\ \A d \in Client : clock[d] => clock'[d]
  BY <1>1, Pairs DEF Pong, TypeOK
<1>4. TypeOK' BY <1>1, <1>2, <1>3 DEF TypeOK
<1>5. ASSUME NEW d \in Client PROVE ClientInv(d)'
  <2>1. ClientInv(d) BY <1>1
  <2>2. Clocked(d)' BY <1>2, <1>3, <2>1 DEF ClientInv, Clocked
  <2>3. Dialled(d)' BY <1>2, <2>1 DEF ClientInv, Dialled
  <2>4. /\ NewestOnly(d) => NewestOnly(d)'
        /\ Quiet(d) => Quiet(d)'
    BY <1>2 DEF NewestOnly, Quiet, Now
  <2> QED BY <1>2, <2>1, <2>2, <2>3, <2>4 DEF ClientInv
<1> QED BY <1>4, <1>5

LEMMA GivesUpStep ==
  ASSUME IInv, NEW c \in Client, GivesUp(c)
  PROVE  TypeOK' /\ \A d \in Client : ClientInv(d)'
<1>1. TypeOK /\ \A d \in Client : ClientInv(d) BY DEF IInv
<1>2. dial[c] \in 1..MaxDials BY <1>1 DEF GivesUp, TypeOK
<1>3. EndMoves(c, dial[c], "closing") BY <1>1, <1>2, EndSet DEF GivesUp, Now
<1>4. UNCHANGED <<stage, asked, answer, clientVars>> BY DEF GivesUp
<1>5. TypeOK' BY <1>1, <1>3, <1>4 DEF TypeOK, EndMoves, clientVars
<1>6. ASSUME NEW d \in Client \ {c} PROVE ClientInv(d)'
  BY <1>1, <1>3, <1>4, Untouched DEF EndMoves, clientVars
<1>7. ClientInv(c)'
  <2>1. ClientInv(c) BY <1>1
  <2>2. Dialled(c)' /\ Clocked(c)' /\ (~want'[c] => dial'[c] > 0)
    BY <1>4, <2>1 DEF ClientInv, Dialled, Clocked, clientVars
  <2>3. NewestOnly(c) => NewestOnly(c)' BY <1>4 DEF NewestOnly, Now, clientVars
  <2>4. Quiet(c) => Quiet(c)' BY <1>3, <1>4 DEF Quiet, Now, EndMoves, clientVars
  <2> QED BY <1>4, <2>1, <2>2, <2>3, <2>4 DEF ClientInv, clientVars
<1> QED BY <1>5, <1>6, <1>7

LEMMA CloseEventStep ==
  ASSUME IInv, NEW c \in Client, NEW n \in 1..MaxDials, CloseEvent(c, n)
  PROVE  TypeOK' /\ \A d \in Client : ClientInv(d)'
<1>1. TypeOK /\ stage[<<c, n>>] # "dialing" BY DEF IInv, CloseEvent
<1>2. EndMoves(c, n, "closed") BY <1>1, EndSet DEF CloseEvent
<1>3. UNCHANGED <<stage, asked, answer, dial, code, want, clock>>
  BY DEF CloseEvent
<1>4. /\ connection' \in [Client -> {"closed", "connected", "reconnecting"}]
      /\ retry' \in [Client -> BOOLEAN]
      /\ timers' \in [Client -> SUBSET (1..MaxDials)]
      /\ \A d \in Client : timers'[d] \subseteq timers[d]
      /\ \A d \in Client \ {c} : connection'[d] = connection[d] /\ retry'[d] = retry[d]
      /\ ~want[c] => /\ connection'[c] \in {connection[c], "closed"}
                     /\ retry'[c] = retry[c]
      /\ retry'[c] => retry[c] \/ n = dial[c]
  <2>1. OnSocketClosed(c, n) BY DEF CloseEvent
  <2>2. CASE n # dial[c]
    BY <1>1, <2>1, <2>2 DEF OnSocketClosed, TypeOK
  <2>3. CASE n = dial[c]
    <3>1. /\ timers' = [timers EXCEPT ![c] = {}]
          /\ connection' = [connection EXCEPT ![c] =
                              IF want[c] THEN "reconnecting" ELSE "closed"]
          /\ retry' = [retry EXCEPT ![c] = want[c] \/ @]
      BY <2>1, <2>3 DEF OnSocketClosed
    <3>2. /\ connection' \in [Client -> {"closed", "connected", "reconnecting"}]
          /\ \A d \in Client \ {c} : connection'[d] = connection[d]
          /\ ~want[c] => connection'[c] = "closed"
      BY <1>1, <3>1 DEF TypeOK
    <3>3. /\ retry' \in [Client -> BOOLEAN]
          /\ \A d \in Client \ {c} : retry'[d] = retry[d]
          /\ ~want[c] => retry'[c] = retry[c]
      BY <1>1, <3>1 DEF TypeOK
    <3>4. /\ timers' \in [Client -> SUBSET (1..MaxDials)]
          /\ \A d \in Client : timers'[d] \subseteq timers[d]
      BY <1>1, <3>1 DEF TypeOK
    <3> QED BY <2>3, <3>2, <3>3, <3>4
  <2> QED BY <2>2, <2>3
<1>5. TypeOK'
  <2>1. \A d \in Client : \A m \in timers'[d] : stage'[<<d, m>>] = "running"
    BY <1>1, <1>3, <1>4 DEF TypeOK
  <2> QED BY <1>1, <1>2, <1>3, <1>4, <2>1 DEF TypeOK, EndMoves
<1>6. ASSUME NEW d \in Client \ {c} PROVE ClientInv(d)'
  BY <1>1, <1>2, <1>3, <1>4, Untouched DEF IInv, EndMoves
<1>7. ClientInv(c)'
  <2>1. ClientInv(c) BY DEF IInv
  <2>2. Dialled(c)' /\ Clocked(c)' /\ (~want'[c] => dial'[c] > 0)
    BY <1>3, <2>1 DEF ClientInv, Dialled, Clocked
  <2>3. dial[c] \in 0..MaxDials BY <1>1 DEF TypeOK
  <2>4. NewestOnly(c) => NewestOnly(c)'
    BY <1>1, <1>3, <1>4, <2>3, DialsAssumption DEF NewestOnly, Now
  <2>5. ~want[c] /\ dial[c] > 0 /\ Quiet(c) => Quiet(c)'
    <3>1. dial[c] > 0 => dial[c] \in 1..MaxDials BY <2>3, DialsAssumption
    <3>2. dial[c] > 0 => end'[Now(c)] \in {end[Now(c)], "closed"}
      BY <1>2, <3>1 DEF EndMoves, Now
    <3> QED BY <1>3, <1>4, <3>2 DEF Quiet, Now
  <2> QED BY <1>3, <2>1, <2>2, <2>4, <2>5 DEF ClientInv
<1> QED BY <1>5, <1>6, <1>7

LEMMA ReconnectStep ==
  ASSUME IInv, NEW c \in Client, Reconnect(c)
  PROVE  TypeOK' /\ \A d \in Client : ClientInv(d)'
<1>1. TypeOK /\ retry[c] BY DEF IInv, Reconnect
<1>2. UNCHANGED <<end, asked, answer, code, want, connection, timers, clock>>
  BY DEF Reconnect
<1>3. /\ retry' \in [Client -> BOOLEAN] /\ ~retry'[c]
      /\ \A d \in Client \ {c} : retry'[d] = retry[d]
  BY <1>1 DEF Reconnect, TypeOK
<1>4. ClientInv(c) /\ dial[c] \in 0..MaxDials /\ 1 \in 1..MaxDials
  BY <1>1, DialsAssumption DEF IInv, TypeOK
<1>5. CASE ~want[c]
  <2>1. UNCHANGED <<dial, stage>> BY <1>5 DEF Reconnect
  <2>2. TypeOK' BY <1>1, <1>2, <1>3, <2>1 DEF TypeOK
  <2>3. ASSUME NEW d \in Client \ {c} PROVE ClientInv(d)'
    BY <1>1, <1>2, <1>3, <2>1, Untouched DEF IInv
  <2>4. ClientInv(c)'
    <3>1. Dialled(c)' /\ Clocked(c)' /\ (~want'[c] => dial'[c] > 0)
      BY <1>2, <1>4, <2>1 DEF ClientInv, Dialled, Clocked
    <3>2. stage[<<c, 1>>] = "failed"
      BY <1>1, <1>4, <1>5 DEF ClientInv, Quiet
    <3> QED BY <2>1, <3>1, <3>2 DEF ClientInv
  <2> QED BY <2>2, <2>3, <2>4
<1>6. CASE want[c]
  <2>0. Dial(c) BY <1>6 DEF Reconnect
  <2>1. /\ dial[c] + 1 \in 1..MaxDials
        /\ dial' \in [Client -> 0..MaxDials]
        /\ dial'[c] = dial[c] + 1
        /\ \A d \in Client \ {c} : dial'[d] = dial[d]
        /\ stage' \in [Conn -> Stages]
        /\ stage'[<<c, dial[c] + 1>>] = "dialing"
        /\ \A s \in Conn : s # <<c, dial[c] + 1>> => stage'[s] = stage[s]
    BY <1>1, <2>0, DialTypes
  <2>2. /\ \A m \in 1..MaxDials : m # dial[c] + 1 => stage'[<<c, m>>] = stage[<<c, m>>]
        /\ \A d \in Client \ {c}, m \in 1..MaxDials :
             stage'[<<d, m>>] = stage[<<d, m>>]
    BY <2>1, Pairs
  <2>3. stage[<<c, dial[c] + 1>>] = "unused"
    <3>1. Dialled(c) BY <1>4 DEF ClientInv
    <3> QED BY <1>4, <2>1, <3>1 DEF Dialled
  <2>4. TypeOK'
    <3>1. \A d \in Client, m \in 1..MaxDials :
            stage[<<d, m>>] = "running" => stage'[<<d, m>>] = "running"
      BY <2>2, <2>3
    <3>2. /\ timers' \in [Client -> SUBSET (1..MaxDials)]
          /\ \A d \in Client : \A m \in timers'[d] : stage'[<<d, m>>] = "running"
      BY <1>1, <1>2, <3>1, TimersKept
    <3> QED BY <1>1, <1>2, <1>3, <2>1, <3>2 DEF TypeOK
  <2>5. ASSUME NEW d \in Client \ {c} PROVE ClientInv(d)'
    BY <1>1, <1>2, <1>3, <2>1, <2>2, Untouched DEF IInv
  <2>6. ClientInv(c)'
    <3>1. Dialled(c) /\ Clocked(c) BY <1>4 DEF ClientInv
    <3>2. Dialled(c)' /\ Clocked(c)'
      BY <1>2, <1>4, <2>1, <2>2, <2>3, <3>1 DEF Dialled, Clocked
    <3>3. ASSUME stage'[<<c, 1>>] # "failed" PROVE NewestOnly(c)'
      <4>1. stage[<<c, 1>>] # "failed" BY <1>4, <2>2, <2>3, <3>3
      <4>2. NewestOnly(c) BY <1>4, <4>1 DEF ClientInv
      <4>3. \A m \in 1..MaxDials : m # dial[c] + 1 => stage'[<<c, m>>] # "dialing"
        BY <1>1, <2>2, <4>2 DEF NewestOnly, Now
      <4> QED BY <1>3, <2>1, <4>3 DEF NewestOnly, Now
    <3> QED BY <1>2, <1>6, <3>2, <3>3 DEF ClientInv
  <2> QED BY <2>4, <2>5, <2>6
<1> QED BY <1>5, <1>6

LEMMA LeaveStep ==
  ASSUME IInv, NEW c \in Client, Leave(c)
  PROVE  TypeOK' /\ \A d \in Client : ClientInv(d)'
<1>1. TypeOK /\ dial[c] \in 1..MaxDials
  BY DialsAssumption DEF IInv, Leave, TypeOK
<1>2. UNCHANGED <<stage, asked, answer, dial, code, clock>> BY DEF Leave
<1>3. /\ want' \in [Client -> BOOLEAN]
      /\ retry' \in [Client -> BOOLEAN]
      /\ connection' \in [Client -> {"closed", "connected", "reconnecting"}]
      /\ ~want'[c] /\ ~retry'[c] /\ connection'[c] = "closed"
      /\ \A d \in Client \ {c} : /\ want'[d] = want[d] /\ retry'[d] = retry[d]
                                /\ connection'[d] = connection[d]
  BY <1>1 DEF Leave, TypeOK
<1>4. /\ timers' \in [Client -> SUBSET (1..MaxDials)]
      /\ \A d \in Client : timers'[d] \subseteq timers[d]
  BY <1>1 DEF Leave, TypeOK
<1>5. \E v \in {"none", "open", "closing", "closed"} \ {"none"} : EndMoves(c, dial[c], v)
  <2>1. end[Now(c)] \in {"none", "open", "closing", "closed"}
    BY <1>1, Pairs DEF TypeOK, Now
  <2>2. CASE end[Now(c)] \in {"none", "open"}
    BY <1>1, <2>2, EndSet DEF Leave, Now
  <2>3. CASE end[Now(c)] \notin {"none", "open"}
    BY <1>1, <2>1, <2>3, EndSet DEF Leave, Now
  <2> QED BY <2>2, <2>3
<1>6. TypeOK'
  <2>1. \A d \in Client : \A m \in timers'[d] : stage'[<<d, m>>] = "running"
    BY <1>1, <1>2, <1>4 DEF TypeOK
  <2> QED BY <1>1, <1>2, <1>3, <1>4, <1>5, <2>1 DEF TypeOK, EndMoves
<1>7. ASSUME NEW d \in Client \ {c} PROVE ClientInv(d)'
  BY <1>1, <1>2, <1>3, <1>5, Untouched DEF IInv, EndMoves
<1>8. ClientInv(c)'
  <2>1. ClientInv(c) BY DEF IInv
  <2>2. Dialled(c)' /\ Clocked(c)' /\ dial'[c] > 0
    BY <1>1, <1>2, <2>1, DialsAssumption DEF ClientInv, Dialled, Clocked
  <2>3. NewestOnly(c) => NewestOnly(c)' BY <1>2, <1>3 DEF NewestOnly
  <2>4. Quiet(c)' BY <1>2, <1>3, <1>5 DEF Quiet, Now, EndMoves
  <2> QED BY <1>2, <2>1, <2>2, <2>3, <2>4 DEF ClientInv
<1> QED BY <1>6, <1>7, <1>8

-----------------------------------------------------------------------------
LEMMA InitIInv == Init => IInv
<1> SUFFICES ASSUME Init PROVE IInv
  OBVIOUS
<1>1. TypeOK
  <2>1. 0 \in 0..MaxDials BY DialsAssumption
  <2>2. /\ dial \in [Client -> 0..MaxDials] /\ stage \in [Conn -> Stages]
        /\ end \in [Conn -> {"none", "open", "closing", "closed"}]
        /\ asked \in [Conn -> Code \cup {NoRoom}] /\ answer \in [Conn -> Answers]
    BY <2>1 DEF Init, Stages, Answers
  <2>3. /\ code \in [Client -> Code \cup {NoRoom}] /\ want \in [Client -> BOOLEAN]
        /\ connection \in [Client -> {"closed", "connected", "reconnecting"}]
        /\ retry \in [Client -> BOOLEAN] /\ clock \in [Client -> BOOLEAN]
    BY DEF Init
  <2>4. /\ timers \in [Client -> SUBSET (1..MaxDials)]
        /\ \A c \in Client : \A n \in timers[c] : stage[<<c, n>>] = "running"
    BY DEF Init
  <2> QED BY <2>2, <2>3, <2>4 DEF TypeOK
<1>2. ConnsType BY DEF Init, M!Init, ConnsType
<1>3. ASSUME NEW c \in Client PROVE ClientInv(c)
  <2>1. dial[c] = 0 /\ want[c] /\ ~retry[c] BY DEF Init
  <2>2. \A n \in 1..MaxDials : stage[<<c, n>>] = "unused" BY Pairs DEF Init
  <2> QED BY <2>1, <2>2 DEF ClientInv, Dialled, Clocked, NewestOnly
<1> QED BY <1>1, <1>2, <1>3 DEF IInv

LEMMA NextIInv == IInv /\ [Next]_vars => IInv'
<1> SUFFICES ASSUME IInv, [Next]_vars PROVE IInv'
  OBVIOUS
<1>1. ConnsType' BY ServerSide, ConnsStep DEF IInv
<1>2. TypeOK /\ answer \in [Conn -> Answers]
  BY DEF IInv, TypeOK
<1> DEFINE Kept == TypeOK' /\ \A d \in Client : ClientInv(d)'
<1>3. ASSUME UNCHANGED <<socketVars, clientVars>> PROVE Kept
  BY <1>2, <1>3, ServerStep DEF socketVars
<1>4. ASSUME NEW c \in Client,
             (\E r \in Code \cup {NoRoom} : Start(c, r)) \/ GivesUp(c) \/ Reconnect(c) \/ Leave(c)
      PROVE  Kept
  BY <1>4, StartStep, GivesUpStep, ReconnectStep, LeaveStep
<1>5. ASSUME NEW c \in Client, NEW n \in 1..MaxDials,
             \/ DialOpens(c, n) \/ DialFails(c, n)
             \/ BurstEnds(c, n) \/ ClockTimesOut(c, n) \/ CloseEvent(c, n)
      PROVE  Kept
  BY <1>5, DialOpensStep, DialFailsStep, BurstEndsStep, ClockTimesOutStep, CloseEventStep
<1>6. ASSUME NEW s \in Conn, ServerGreets(s) \/ Answered(s) \/ Pong(s) PROVE Kept
  BY <1>6, GreetsStep, AnsweredStep, PongStep
<1>7. ASSUME NEW s \in Conn, RouteLost(s) \/ ServerSeesClose(s) \/ ServerClosed(s)
      PROVE  Kept
  <2>1. UNCHANGED <<socketVars, clientVars>>
    BY <1>7 DEF RouteLost, ServerSeesClose, ServerClosed
  <2> QED BY <1>3, <2>1
<1>8. ASSUME NEW S \in SUBSET Conn, ServerCloseSilent(S) PROVE Kept
  <2>1. UNCHANGED <<socketVars, clientVars>> BY <1>8 DEF ServerCloseSilent
  <2> QED BY <1>3, <2>1
<1>9. ASSUME NEW S \in SUBSET Code, ServerSweep(S) PROVE Kept
  <2>1. UNCHANGED <<socketVars, clientVars>> BY <1>9 DEF ServerSweep
  <2> QED BY <1>3, <2>1
<1>10. ASSUME UNCHANGED vars PROVE Kept
  <2>1. UNCHANGED <<socketVars, clientVars>> BY <1>10 DEF vars
  <2> QED BY <1>3, <2>1
<1>11. Kept
  BY <1>4, <1>5, <1>6, <1>7, <1>8, <1>9, <1>10 DEF Next
<1> QED BY <1>1, <1>11 DEF IInv

THEOREM ClientInvariant == Spec => []IInv
BY InitIInv, NextIInv, PTL DEF Spec

(* Types, and intervals only behind a connect() that came to its end.      *)
THEOREM ClientTypeCorrect == Spec => []TypeOK
<1>1. IInv => TypeOK BY DEF IInv
<1> QED BY <1>1, ClientInvariant, PTL

(* The server inside RoomClient is written as RoomMembers' actions, so     *)
(* this holds by the way it is written; RoomMembers' theorems apply to it. *)
LEMMA ClientImplementsMembers == Spec => M!Spec
<1>1. Init => M!Init BY DEF Init
<1> QED BY <1>1, ServerSide, PTL DEF Spec, M!Spec

(* Leaving is final once a first connect() has got through: nothing that   *)
(* was dialling, greeting or retrying brings the client back.              *)
THEOREM LeavingStays == Spec => []LeftForGood
<1>1. IInv => LeftForGood BY DEF IInv, ClientInv, Quiet, LeftForGood
<1> QED BY <1>1, ClientInvariant, PTL

(* From then on the two places that schedule a retry never do so at once,  *)
(* and no two connect() calls dial together.                               *)
THEOREM AttemptsDoNotOverlap == Spec => []OneAttempt
<1>1. ASSUME IInv, NEW c \in Client, stage[<<c, 1>>] = "running"
      PROVE  /\ Cardinality({n \in 1..MaxDials : stage[<<c, n>>] = "dialing"}) <= 1
             /\ retry[c] => \A n \in 1..MaxDials : stage[<<c, n>>] # "dialing"
  <2>1. NewestOnly(c) BY <1>1 DEF IInv, ClientInv
  <2>2. {n \in 1..MaxDials : stage[<<c, n>>] = "dialing"} \in SUBSET {dial[c]}
    BY <2>1 DEF NewestOnly
  <2>3. IsFiniteSet({dial[c]}) /\ Cardinality({dial[c]}) = 1 BY FS_Singleton
  <2>4. Cardinality({n \in 1..MaxDials : stage[<<c, n>>] = "dialing"}) <= 1
    BY <2>2, <2>3, FS_Subset
  <2>5. retry[c] => \A n \in 1..MaxDials : stage[<<c, n>>] # "dialing"
    BY <2>1 DEF NewestOnly, Now
  <2> QED BY <2>4, <2>5
<1>2. IInv => OneAttempt BY <1>1 DEF OneAttempt
<1> QED BY <1>2, ClientInvariant, PTL
=============================================================================
