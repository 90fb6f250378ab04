------------------------------ MODULE RoomClient ------------------------------
(***************************************************************************)
(* How a client gets into a room, loses it and comes back: connect(),      *)
(* onSocketClosed(), scheduleReconnect() and close() of                    *)
(* packages/client/src/room-client.ts, against the server's side of the    *)
(* same sockets (RoomMembers).                                             *)
(*                                                                         *)
(* connect() makes a socket of its own each time it is called and goes on  *)
(* by itself: it opens the socket, says hello, sends pings for 200 ms,     *)
(* waits for the clock, and only then starts the intervals that report,    *)
(* ping and tick.  What happens to the socket meanwhile is another thread  *)
(* of events, and the two meet in the fields the client keeps once:        *)
(* this.ws, this.timers, this.connection and o.code.                       *)
(***************************************************************************)
EXTENDS Naturals, FiniteSets

CONSTANTS
  Client,
  MaxDials,         \* bound: how many sockets a client opens in its life
  Code, NoRoom, MaxRoomMembers

ASSUME DialsAssumption == MaxDials \in Nat \ {0}

Conn == Client \X (1..MaxDials)     \* the n-th socket of a client

VARIABLES
  sock, heard, rooms, vacant, conns, memberOf, arrivals, arrival, host,
  control, openControl, seen,       \* the server's, as in RoomMembers
  dial,         \* this.ws is the dial-th socket; 0 before connect()
  stage,        \* per socket: how far the connect() that made it has got
  end,          \* per socket: the client's end of it
  asked,        \* per socket: the code its hello carried
  answer,       \* per socket: hello and the server's answer to it
  code,         \* o.code: the room to ask for
  want,         \* wantConnection
  connection,   \* what the interface shows
  retry,        \* a reconnect timer is pending
  timers,       \* the connect() calls whose intervals are running
  clock         \* the clock has a sample

\* The refinement mapping: a client's dials are the sockets of RoomMembers, its own variables are hidden.
M == INSTANCE RoomMembers
       WITH sock <- sock, heard <- heard, rooms <- rooms, vacant <- vacant, conns <- conns,
            memberOf <- memberOf, arrivals <- arrivals, arrival <- arrival, host <- host,
            control <- control, openControl <- openControl, seen <- seen,
            Conn <- Conn

serverVars == <<sock, heard, rooms, vacant, conns, memberOf, arrivals, arrival,
                host, control, openControl, seen>>
socketVars == <<stage, end, asked, answer>>
clientVars == <<dial, code, want, connection, retry, timers, clock>>
vars == <<serverVars, socketVars, clientVars>>

Stages == {"unused", "dialing", "greeting", "running", "failed"}
Answers == {"none", "sent", "welcoming", "refusing", "welcomed", "refused"}

Now(c) == <<c, dial[c]>>    \* the socket this.ws holds, once there is one

Init ==
  /\ M!Init
  /\ dial = [c \in Client |-> 0]
  /\ stage = [s \in Conn |-> "unused"]
  /\ end = [s \in Conn |-> "none"]
  /\ asked = [s \in Conn |-> NoRoom]
  /\ answer = [s \in Conn |-> "none"]
  /\ code = [c \in Client |-> NoRoom]
  /\ want = [c \in Client |-> TRUE]
  /\ connection = [c \in Client |-> "closed"]
  /\ retry = [c \in Client |-> FALSE]
  /\ timers = [c \in Client |-> {}]
  /\ clock = [c \in Client |-> FALSE]

-----------------------------------------------------------------------------
(***************************************************************************)
(* connect()                                                               *)
(***************************************************************************)
Dial(c) ==
  /\ dial[c] < MaxDials
  /\ dial' = [dial EXCEPT ![c] = @ + 1]
  /\ stage' = [stage EXCEPT ![<<c, dial[c] + 1>>] = "dialing"]

(* The person creates a room, or joins one by its code. *)
Start(c, r) ==
  /\ dial[c] = 0
  /\ code' = [code EXCEPT ![c] = r]
  /\ Dial(c)
  /\ UNCHANGED <<serverVars, end, asked, answer, want, connection, retry, timers,
                 clock>>

(* The socket opens; hello goes out on it with whatever code is known. *)
DialOpens(c, n) ==
  LET s == <<c, n>> IN
  /\ stage[s] = "dialing" /\ end[s] = "none"
  /\ M!Connect(s)
  /\ stage' = [stage EXCEPT ![s] = "greeting"]
  /\ end' = [end EXCEPT ![s] = "open"]
  /\ asked' = [asked EXCEPT ![s] = code[c]]
  /\ answer' = [answer EXCEPT ![s] = "sent"]
  /\ connection' = [connection EXCEPT ![c] = "connected"]
  /\ UNCHANGED <<dial, code, want, retry, timers, clock>>

(* Mutation: a dial that fails is the last one. *)
RejectedForGood(c, n) == retry

(* Mutation: the retry does not look at whether it is still wanted. *)
RetryRegardless(c, n) == IF n > 1 THEN [retry EXCEPT ![c] = TRUE] ELSE retry

(* connect() rejects.  Of a reconnect, the catch schedules the next one;   *)
(* of the first, the rejection is the caller's, and nothing else happens.  *)
Rejected(c, n) ==
  IF n > 1 /\ want[c] THEN [retry EXCEPT ![c] = TRUE] ELSE retry

DialFails(c, n) ==
  /\ stage[<<c, n>>] = "dialing"
  /\ stage' = [stage EXCEPT ![<<c, n>>] = "failed"]
  /\ end' = [end EXCEPT ![<<c, n>>] = "closed"]
  /\ retry' = Rejected(c, n)
  /\ UNCHANGED <<serverVars, asked, answer, dial, code, want, connection,
                 timers, clock>>

(* The burst is over and the clock is ready: the intervals start, whatever *)
(* has become of the socket and of the wish to be connected meanwhile.     *)
BurstEnds(c, n) ==
  /\ stage[<<c, n>>] = "greeting" /\ clock[c]
  /\ stage' = [stage EXCEPT ![<<c, n>>] = "running"]
  /\ timers' = [timers EXCEPT ![c] = @ \cup {n}]
  /\ UNCHANGED <<serverVars, end, asked, answer, dial, code, want, connection,
                 retry, clock>>

(* Five seconds without a sample, counted by each connect() from its own   *)
(* burst: an older one runs out first.                                     *)
ClockTimesOut(c, n) ==
  /\ stage[<<c, n>>] = "greeting" /\ ~clock[c]
  /\ \A m \in 1..(n - 1) : stage[<<c, m>>] # "greeting"
  /\ stage' = [stage EXCEPT ![<<c, n>>] = "failed"]
  /\ retry' = Rejected(c, n)
  /\ UNCHANGED <<serverVars, end, asked, answer, dial, code, want, connection,
                 timers, clock>>

-----------------------------------------------------------------------------
(***************************************************************************)
(* What travels on a socket                                                *)
(***************************************************************************)
(* The server handles the hello: a new room, a place in one, or a refusal. *)
ServerGreets(s) ==
  /\ answer[s] = "sent" /\ sock[s] = "open"
  /\ \/ \E r \in Code :
          /\ asked[s] = NoRoom
          /\ M!HelloCreate(s, r, TRUE)
          /\ answer' = [answer EXCEPT ![s] = "welcoming"]
     \/ \E r \in Code :
          /\ asked[s] = r
          /\ M!HelloJoin(s, r)
          /\ answer' = [answer EXCEPT ![s] = "welcoming"]
     \/ /\ asked[s] # NoRoom
        /\ asked[s] \notin rooms \/ M!Full(asked[s])
        /\ answer' = [answer EXCEPT ![s] = "refusing"]
        /\ UNCHANGED serverVars
  /\ UNCHANGED <<stage, end, asked, clientVars>>

(* The answer arrives.  A welcome names the room, for the next time; a     *)
(* refusal is reported and nothing else.                                   *)
Answered(s) ==
  /\ end[s] = "open" /\ sock[s] = "open"
  /\ \/ /\ answer[s] = "welcoming"
        /\ answer' = [answer EXCEPT ![s] = "welcomed"]
        /\ code' = [code EXCEPT ![s[1]] = conns[s]]
     \/ /\ answer[s] = "refusing"
        /\ answer' = [answer EXCEPT ![s] = "refused"]
        /\ UNCHANGED code
  /\ UNCHANGED <<serverVars, stage, end, asked, dial, want, connection, retry,
                 timers, clock>>

(* A pong, which follows the answer on the same socket. *)
Pong(s) ==
  /\ end[s] = "open" /\ sock[s] = "open"
  /\ answer[s] \in {"welcomed", "refused"} /\ ~clock[s[1]]
  /\ clock' = [clock EXCEPT ![s[1]] = TRUE]
  /\ UNCHANGED <<serverVars, socketVars, dial, code, want, connection, retry,
                 timers>>

(* The route goes: both ends stay open and neither hears the other.  What  *)
(* was on its way is lost.                                                 *)
RouteLost(s) ==
  /\ M!Vanish(s)
  /\ UNCHANGED <<socketVars, clientVars>>

(* The server reads the close the client sent after everything else, or    *)
(* the network reports a lost route broken.                                *)
ServerSeesClose(s) ==
  /\ \/ sock[s] = "lost"
     \/ end[s] \in {"closing", "closed"} /\ sock[s] = "open" /\ answer[s] # "sent"
  /\ M!PeerCloses(s)
  /\ UNCHANGED <<socketVars, clientVars>>

ServerClosed(s) == M!Closed(s) /\ UNCHANGED <<socketVars, clientVars>>

(* Only a peer that has gone quiet: the client pings every two seconds.    *)
ServerCloseSilent(S) ==
  /\ \A s \in S : sock[s] = "lost" \/ end[s] # "open"
  /\ M!CloseSilent(S)
  /\ UNCHANGED <<socketVars, clientVars>>

ServerSweep(S) == M!Sweep(S) /\ UNCHANGED <<socketVars, clientVars>>

-----------------------------------------------------------------------------
(***************************************************************************)
(* Losing the connection                                                   *)
(***************************************************************************)
(* The ping interval of the socket in use has heard nothing for too long   *)
(* and terminates it; the intervals of an older one look at this.ws first. *)
GivesUp(c) ==
  LET s == Now(c) IN
  /\ dial[c] \in timers[c]
  /\ end[s] = "open" /\ sock[s] # "open"
  /\ end' = [end EXCEPT ![s] = "closing"]
  /\ UNCHANGED <<serverVars, stage, asked, answer, clientVars>>

(* Only the socket in use matters; the intervals stop, and unless this was *)
(* on purpose a retry is scheduled, if none is pending already.            *)
OnSocketClosed(c, n) ==
  IF n # dial[c] THEN UNCHANGED <<connection, retry, timers>>
  ELSE /\ timers' = [timers EXCEPT ![c] = {}]
       /\ connection' = [connection EXCEPT ![c] =
                           IF want[c] THEN "reconnecting" ELSE "closed"]
       /\ retry' = [retry EXCEPT ![c] = want[c] \/ @]

(* 'close' on the client's end: after its own close or terminate, when the *)
(* server's end has gone, or when the network reports the socket broken.   *)
CloseEvent(c, n) ==
  LET s == <<c, n>> IN
  /\ stage[s] # "dialing"
  /\ \/ end[s] = "closing"
     \/ end[s] = "open" /\ sock[s] # "open"
  /\ end' = [end EXCEPT ![s] = "closed"]
  /\ OnSocketClosed(c, n)
  /\ UNCHANGED <<serverVars, stage, asked, answer, dial, code, want, clock>>

(* Mutation: the retry is an interval, not a timeout. *)
ReconnectRepeating(c) ==
  /\ retry[c]
  /\ IF want[c] THEN Dial(c) ELSE UNCHANGED <<dial, stage>>
  /\ UNCHANGED <<serverVars, end, asked, answer, code, want, connection, retry,
                 timers, clock>>

(* The reconnect timer fires. *)
Reconnect(c) ==
  /\ retry[c]
  /\ retry' = [retry EXCEPT ![c] = FALSE]
  /\ IF want[c] THEN Dial(c) ELSE UNCHANGED <<dial, stage>>
  /\ UNCHANGED <<serverVars, end, asked, answer, code, want, connection, timers,
                 clock>>

(* close(): left on purpose.  A socket still connecting fails to. *)
Leave(c) ==
  /\ want[c] /\ dial[c] > 0
  /\ want' = [want EXCEPT ![c] = FALSE]
  /\ connection' = [connection EXCEPT ![c] = "closed"]
  /\ retry' = [retry EXCEPT ![c] = FALSE]
  /\ timers' = [timers EXCEPT ![c] = {}]
  /\ end' = [end EXCEPT ![Now(c)] = IF @ \in {"none", "open"} THEN "closing" ELSE @]
  /\ UNCHANGED <<serverVars, stage, asked, answer, dial, code, clock>>

-----------------------------------------------------------------------------
Next ==
  \/ \E c \in Client :
       \/ \E r \in Code \cup {NoRoom} : Start(c, r)
       \/ GivesUp(c) \/ Reconnect(c) \/ Leave(c)
       \/ \E n \in 1..MaxDials :
            \/ DialOpens(c, n) \/ DialFails(c, n)
            \/ BurstEnds(c, n) \/ ClockTimesOut(c, n) \/ CloseEvent(c, n)
  \/ \E s \in Conn :
       \/ ServerGreets(s) \/ Answered(s) \/ Pong(s)
       \/ RouteLost(s) \/ ServerSeesClose(s) \/ ServerClosed(s)
  \/ \E S \in SUBSET Conn : ServerCloseSilent(S)
  \/ \E S \in SUBSET Code : ServerSweep(S)

Spec == Init /\ [][Next]_vars

(***************************************************************************)
(* A dial succeeds or fails, a retry timer fires, and the server handles   *)
(* what has arrived, sees closes and times out what is silent.  Each of    *)
(* these happens to a socket once, so that going on with any of them is    *)
(* enough for every one.  A route may last or not, an answer may never     *)
(* arrive, and nobody is made to start or to leave.                        *)
(***************************************************************************)
ServerWorks ==
  \E s \in Conn :
    \/ ServerGreets(s) \/ ServerClosed(s)
    \/ sock[s] = "open" /\ ServerSeesClose(s)
    \/ sock[s] = "lost" /\ ServerCloseSilent({s})

Fairness ==
  /\ WF_vars(ServerWorks)
  /\ \A c \in Client :
       /\ WF_vars(Reconnect(c))
       /\ WF_vars(\E n \in 1..MaxDials : DialOpens(c, n) \/ DialFails(c, n))

FairSpec == Spec /\ Fairness

-----------------------------------------------------------------------------
(***************************************************************************)
(* Safety                                                                  *)
(***************************************************************************)
(* Types; intervals run only for a connect() that got to the end.          *)
TypeOK ==
  /\ dial \in [Client -> 0..MaxDials]
  /\ stage \in [Conn -> Stages]
  /\ end \in [Conn -> {"none", "open", "closing", "closed"}]
  /\ asked \in [Conn -> Code \cup {NoRoom}]
  /\ answer \in [Conn -> Answers]
  /\ code \in [Client -> Code \cup {NoRoom}]
  /\ want \in [Client -> BOOLEAN]
  /\ connection \in [Client -> {"closed", "connected", "reconnecting"}]
  /\ retry \in [Client -> BOOLEAN]
  /\ timers \in [Client -> SUBSET (1..MaxDials)]
  /\ \A c \in Client : \A n \in timers[c] : stage[<<c, n>>] = "running"
  /\ clock \in [Client -> BOOLEAN]

(* A client whose first connect() got through and that then left shows it  *)
(* and has nothing pending that would bring it back, wherever in dialling, *)
(* greeting or retrying it was.                                            *)
LeftForGood ==
  \A c \in Client :
    stage[<<c, 1>>] = "running" /\ ~want[c] => connection[c] = "closed" /\ ~retry[c]

(* Such a client makes one attempt at a time: onSocketClosed and the catch *)
(* of a failed attempt both schedule the next one, and never both do it    *)
(* for the same socket.                                                    *)
OneAttempt ==
  \A c \in Client :
    stage[<<c, 1>>] = "running" =>
    /\ Cardinality({n \in 1..MaxDials : stage[<<c, n>>] = "dialing"}) <= 1
    /\ retry[c] => \A n \in 1..MaxDials : stage[<<c, n>>] # "dialing"

(***************************************************************************)
(* Liveness                                                                *)
(***************************************************************************)
(* A client that says it is reconnecting tries until it succeeds or leaves: *)
(* with the last socket this model gives it used up, a retry is pending.   *)
KeepsTrying ==
  \A c \in Client :
    connection[c] = "reconnecting" ~>
      connection[c] # "reconnecting" \/ (dial[c] = MaxDials /\ retry[c])
=============================================================================
