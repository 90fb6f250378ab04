----------------------------- MODULE RoomMembers -----------------------------
(***************************************************************************)
(* Who is in a room, who hosts it and who may drive it: the membership     *)
(* half of apps/server/src/room.ts, the room store, and the parts of       *)
(* server.ts that open, watch and close connections.                       *)
(*                                                                         *)
(* The server is single threaded, so one action is one event handler run   *)
(* to its end: a message, a 'close' event or a timer.  A socket joins at   *)
(* most one room in its life and gets a fresh random id when it does, so   *)
(* the socket stands for the member id as well.                            *)
(***************************************************************************)
EXTENDS Naturals, FiniteSets

CONSTANTS
  Conn,             \* sockets, each used for one connection
  Code,             \* room codes
  NoRoom,           \* not in any room
  MaxRoomMembers    \* how many people one room takes

ASSUME CapAssumption == MaxRoomMembers \in Nat \ {0}
ASSUME ConnAssumption == IsFiniteSet(Conn)
ASSUME NoRoomAssumption == NoRoom \notin Code

VARIABLES
  sock,         \* the life of each socket, as the network has it
  heard,        \* sockets the idle timer is watching
  rooms,        \* codes of the rooms in the store
  vacant,       \* rooms whose lastEmptyAtMs is set
  conns,        \* the server's map from socket to room
  memberOf,     \* the room whose member map holds this socket's member
  arrivals,     \* how many members have been added so far
  arrival,      \* when each member was added: the map keeps this order; else 0
  host,         \* members whose isHost flag is set
  control,      \* members whose mayControl flag is set
  openControl,  \* per room: does a newcomer arrive with control?
  seen          \* the roster last sent on each socket that can be written to

memberVars == <<memberOf, arrivals, arrival, host, control>>
storeVars == <<rooms, vacant>>
vars == <<sock, heard, rooms, vacant, conns, memberOf, arrivals, arrival,
          host, control, openControl, seen>>

(* A lost socket is one whose peer has vanished without closing it: the    *)
(* server still sees it as open, sends into it, and hears nothing.         *)
SockState == {"new", "open", "lost", "closing", "closed"}
Writable == {"open", "lost"}

Roster == [members : SUBSET Conn, host : SUBSET Conn,
           control : SUBSET Conn, open : BOOLEAN]
NothingSeen == [members |-> {}, host |-> {}, control |-> {}, open |-> TRUE]

-----------------------------------------------------------------------------
(***************************************************************************)
(* Room helpers                                                            *)
(***************************************************************************)
Members(r) == {c \in Conn : memberOf[c] = r}

RosterOf(r) == [members |-> Members(r),
                host    |-> host \cap Members(r),
                control |-> control \cap Members(r),
                open    |-> openControl[r]]

(* Mutation: remove() promotes everybody who is left. *)
EveryoneOf(S) == S

(* Mutation: remove() promotes whoever arrived last. *)
NewestOf(S) == {c \in S : \A d \in S : arrival[d] <= arrival[c]}

(* The first of S in the order of the member map. *)
LongestOf(S) == {c \in S : \A d \in S : arrival[c] <= arrival[d]}

Full(r) == Cardinality(Members(r)) >= MaxRoomMembers

(* Mutation: a state broadcast sent before hello has recorded the newcomer. *)
EarlyAudience(r) == {c \in Conn : conns[c] = r /\ sock'[c] \in Writable}

(* Everyone a broadcast to r reaches, once the handler has done its work. *)
Audience(r) == {c \in Conn : conns'[c] = r /\ sock'[c] \in Writable}

BroadcastState(r) ==
  seen' = [c \in Conn |-> IF c \in Audience(r) THEN RosterOf(r)' ELSE seen[c]]

Vacate(r, rest) == IF rest = {} THEN vacant \cup {r} ELSE vacant

(* Mutation: somebody arriving does not stop it. *)
StayVacant(r) == vacant

Occupy(r) == vacant \ {r}

-----------------------------------------------------------------------------
Init ==
  /\ sock = [c \in Conn |-> "new"]
  /\ heard = {}
  /\ rooms = {}
  /\ vacant = {}
  /\ conns = [c \in Conn |-> NoRoom]
  /\ memberOf = [c \in Conn |-> NoRoom]
  /\ arrivals = 0
  /\ arrival = [c \in Conn |-> 0]
  /\ host = {}
  /\ control = {}
  /\ openControl = [r \in Code |-> TRUE]
  /\ seen = [c \in Conn |-> NothingSeen]

(***************************************************************************)
(* Sockets                                                                 *)
(***************************************************************************)
Connect(c) ==
  /\ sock[c] = "new"
  /\ sock' = [sock EXCEPT ![c] = "open"]
  /\ heard' = heard \cup {c}
  /\ UNCHANGED <<storeVars, conns, memberVars, openControl, seen>>

(* The peer disappears: a laptop sleeps, Wi-Fi drops, a process is killed. *)
Vanish(c) ==
  /\ sock[c] = "open"
  /\ sock' = [sock EXCEPT ![c] = "lost"]
  /\ UNCHANGED <<heard, storeVars, conns, memberVars, openControl, seen>>

(* The peer closes, or the network reports a lost one broken. *)
PeerCloses(c) ==
  /\ sock[c] \in Writable
  /\ sock' = [sock EXCEPT ![c] = "closing"]
  /\ seen' = [seen EXCEPT ![c] = NothingSeen]
  /\ UNCHANGED <<heard, storeVars, conns, memberVars, openControl>>

(* Mutation: the silent connection is forgotten but never terminated. *)
CloseSilentForgets(S) ==
  /\ S # {} /\ S \subseteq heard
  /\ heard' = heard \ S
  /\ UNCHANGED <<sock, storeVars, conns, memberVars, openControl, seen>>

(* The idle timer: S is everyone not heard from within the idle window,    *)
(* a lost peer, one that is merely stalled or one already closing.         *)
CloseSilent(S) ==
  /\ S # {} /\ S \subseteq heard
  /\ heard' = heard \ S
  /\ sock' = [c \in Conn |-> IF c \in S THEN "closing" ELSE sock[c]]
  /\ seen' = [c \in Conn |-> IF c \in S THEN NothingSeen ELSE seen[c]]
  /\ UNCHANGED <<storeVars, conns, memberVars, openControl>>

-----------------------------------------------------------------------------
(***************************************************************************)
(* Joining and leaving                                                     *)
(***************************************************************************)
(* Room.add and conns.set, as hello makes them.  hosting and open are what *)
(* add computes them from: an empty member map, and the room's policy.     *)
Add(c, r, hosting, open) ==
  /\ memberOf' = [memberOf EXCEPT ![c] = r]
  /\ arrivals' = arrivals + 1
  /\ arrival' = [arrival EXCEPT ![c] = arrivals + 1]
  /\ host' = IF hosting THEN host \cup {c} ELSE host
  /\ control' = IF hosting \/ open THEN control \cup {c} ELSE control
  /\ conns' = [conns EXCEPT ![c] = r]

(* hello without a code: a new room, under a code no room has. *)
HelloCreate(c, r, open) ==
  /\ sock[c] = "open" /\ conns[c] = NoRoom
  /\ r \notin rooms
  /\ rooms' = rooms \cup {r}
  /\ openControl' = [openControl EXCEPT ![r] = open]
  /\ Add(c, r, TRUE, open)
  /\ UNCHANGED <<sock, heard, vacant>>
  /\ BroadcastState(r)

(* hello with a code.  An unknown code and a full room are refused before  *)
(* anything has changed.                                                   *)
HelloJoin(c, r) ==
  /\ sock[c] = "open" /\ conns[c] = NoRoom
  /\ r \in rooms /\ ~Full(r)
  /\ Add(c, r, Members(r) = {}, openControl[r])
  /\ vacant' = Occupy(r)
  /\ UNCHANGED <<sock, heard, rooms, openControl>>
  /\ BroadcastState(r)

(* Room.remove, with the connection's own entry. *)
Remove(c, r) ==
  LET rest == Members(r) \ {c} IN
  /\ memberOf' = [memberOf EXCEPT ![c] = NoRoom]
  /\ arrival' = [arrival EXCEPT ![c] = 0]
  /\ host' = IF c \in host THEN (host \ {c}) \cup LongestOf(rest) ELSE host
  /\ control' = control \ {c}
  /\ vacant' = Vacate(r, rest)
  /\ conns' = [conns EXCEPT ![c] = NoRoom]

(* Mutation: the idle timer's entry outlives the connection. *)
Unwatched(c) == heard

Unheard(c) == heard \ {c}

(* The 'close' event of a socket that never said hello, or of a member's. *)
Closed(c) ==
  /\ sock[c] = "closing"
  /\ sock' = [sock EXCEPT ![c] = "closed"]
  /\ heard' = Unheard(c)
  /\ UNCHANGED <<rooms, openControl>>
  /\ \/ /\ conns[c] = NoRoom
        /\ UNCHANGED <<vacant, conns, memberVars, seen>>
     \/ \E r \in Code :
          /\ conns[c] = r
          /\ Remove(c, r)
          /\ UNCHANGED arrivals
          /\ BroadcastState(r)

(* The store's sweep: S is every room empty for longer than the TTL. *)
Sweep(S) ==
  /\ S # {} /\ S \subseteq rooms \cap vacant
  /\ rooms' = rooms \ S
  /\ vacant' = vacant \ S
  /\ openControl' = [r \in Code |-> IF r \in S THEN TRUE ELSE openControl[r]]
  /\ UNCHANGED <<sock, heard, conns, memberVars, seen>>

-----------------------------------------------------------------------------
(***************************************************************************)
(* What a host may change.  Speaking(c, r): a message from a socket that   *)
(* has joined r and whose member is still there.                           *)
(***************************************************************************)
Speaking(c, r) == sock[c] = "open" /\ conns[c] = r /\ memberOf[c] = r

(* Mutation: the host may be stripped of control too. *)
SetControlOfAnyone(c, r, t, may) ==
  /\ Speaking(c, r) /\ c \in host
  /\ t \in Members(r)
  /\ control' = IF may THEN control \cup {t} ELSE control \ {t}
  /\ UNCHANGED <<sock, heard, storeVars, conns, memberOf, arrivals, arrival,
                 host, openControl>>
  /\ BroadcastState(r)

SetControl(c, r, t, may) ==
  /\ Speaking(c, r) /\ c \in host
  /\ t \in Members(r) /\ t \notin host
  /\ control' = IF may THEN control \cup {t} ELSE control \ {t}
  /\ UNCHANGED <<sock, heard, storeVars, conns, memberOf, arrivals, arrival,
                 host, openControl>>
  /\ BroadcastState(r)

TransferHost(c, r, t) ==
  /\ Speaking(c, r) /\ c \in host
  /\ t \in Members(r)
  /\ host' = (host \ {c}) \cup {t}
  /\ control' = control \cup {t}
  /\ UNCHANGED <<sock, heard, storeVars, conns, memberOf, arrivals, arrival,
                 openControl>>
  /\ BroadcastState(r)

SetOpenControl(c, r, open) ==
  /\ Speaking(c, r) /\ c \in host
  /\ openControl' = [openControl EXCEPT ![r] = open]
  /\ UNCHANGED <<sock, heard, storeVars, conns, memberVars>>
  /\ BroadcastState(r)

(* A handler that changes nothing here but ends by telling some rooms, R,  *)
(* how they stand: every film, mode and setting change does (RoomServer).  *)
Refresh(R) ==
  /\ UNCHANGED <<sock, heard, storeVars, conns, memberVars, openControl>>
  /\ seen' = [c \in Conn |-> IF conns[c] \in R /\ sock[c] \in Writable
                            THEN RosterOf(conns[c]) ELSE seen[c]]

-----------------------------------------------------------------------------
Next ==
  \/ \E c \in Conn : Connect(c) \/ Vanish(c) \/ PeerCloses(c) \/ Closed(c)
  \/ \E S \in SUBSET Conn : CloseSilent(S)
  \/ \E S \in SUBSET Code : Sweep(S) \/ Refresh(S)
  \/ \E c \in Conn, r \in Code :
       \/ \E b \in BOOLEAN : HelloCreate(c, r, b) \/ SetOpenControl(c, r, b)
       \/ HelloJoin(c, r)
       \/ \E t \in Conn : TransferHost(c, r, t)
       \/ \E t \in Conn, b \in BOOLEAN : SetControl(c, r, t, b)

Spec == Init /\ [][Next]_vars

(***************************************************************************)
(* What the runtime does by itself.  A terminated or closed socket always  *)
(* emits 'close'; the idle timer fires for ever, and a lost peer's last    *)
(* message only gets older; the sweep fires for ever, and an empty room    *)
(* only gets older.  Nothing is assumed of the people in the room.         *)
(***************************************************************************)
Fairness ==
  /\ \A c \in Conn : WF_vars(Closed(c))
  /\ \A c \in Conn :
       WF_vars(\E S \in SUBSET Conn :
                 c \in S /\ sock[c] = "lost" /\ CloseSilent(S))
  /\ \A r \in Code : WF_vars(\E S \in SUBSET Code : r \in S /\ Sweep(S))

FairSpec == Spec /\ Fairness

-----------------------------------------------------------------------------
(***************************************************************************)
(* Invariants                                                              *)
(***************************************************************************)
(* Types.  The idle timer's map holds live sockets only: entries that      *)
(* outlived their socket would be scanned and terminated for ever.         *)
TypeOK ==
  /\ sock \in [Conn -> SockState]
  /\ heard \in SUBSET {c \in Conn : sock[c] \in {"open", "lost", "closing"}}
  /\ rooms \in SUBSET Code
  /\ vacant \in SUBSET rooms
  /\ conns \in [Conn -> Code \cup {NoRoom}]
  /\ memberOf \in [Conn -> Code \cup {NoRoom}]
  /\ arrivals \in Nat
  /\ arrival \in [Conn -> Nat]
  /\ host \in SUBSET Conn
  /\ control \in SUBSET Conn
  /\ openControl \in [Code -> BOOLEAN]
  /\ seen \in [Conn -> Roster]

(* A member's room is in the store: no sweep collects a room under the     *)
(* people in it, whatever order they came and went in.                     *)
RoomsOutliveMembers ==
  \A c \in Conn : conns[c] # NoRoom =>
    /\ conns[c] \in rooms
    /\ conns[c] \notin vacant

(* The server's two maps agree: no member is left behind without a         *)
(* connection, and "no longer in the room" is never anybody's answer.      *)
ConnsMatchMembers ==
  \A c \in Conn : /\ conns[c] = memberOf[c]
                  /\ sock[c] \in {"new", "closed"} => memberOf[c] = NoRoom

(* A room with people in it has one host: the flag moves, it is never      *)
(* duplicated by a handover nor lost when the host goes.                   *)
OneHost ==
  \A r \in rooms : Members(r) # {} =>
    \E h \in Members(r) : host \cap Members(r) = {h}

(* A room never holds more people than it takes. *)
RoomCap == \A r \in Code : Cardinality(Members(r)) <= MaxRoomMembers

(* Whatever happened, the last roster sent to everybody in a room is what  *)
(* the room is now: no handler forgets to tell somebody.                   *)
RosterCurrent ==
  \A c \in Conn : (conns[c] # NoRoom /\ sock[c] \in Writable) =>
    seen[c] = RosterOf(conns[c])

-----------------------------------------------------------------------------
(***************************************************************************)
(* Action properties                                                       *)
(***************************************************************************)
HostsOf(r) == host \cap Members(r)

(* Hosting changes hands in two ways only: the host leaves and the member  *)
(* who has been there longest takes over, or a host who stays hands it to  *)
(* somebody, who then may control playback.                                *)
Succession ==
  [][\A r \in rooms : \A h \in HostsOf(r), g \in HostsOf(r)' : h # g =>
       \/ /\ h \notin Members(r)' /\ g \in Members(r)
          /\ \A m \in Members(r) \cap Members(r)' : arrival[g] <= arrival[m]
       \/ /\ h \in Members(r)' /\ g \in Members(r)
          /\ g \in control' ]_vars

(* A host who has control keeps it for as long as they stay, through any   *)
(* change of policy, of anybody's permission or of host.                   *)
HostControlStable ==
  [][\A c \in host \cap control : memberOf'[c] # NoRoom => c \in control']_vars

(***************************************************************************)
(* What the store promises, seen through its own records                   *)
(***************************************************************************)
LeaderOf(r) == IF Members(r) = {} THEN NoRoom
               ELSE CHOOSE h \in Members(r) : h \in host

People == [r \in Code |-> Members(r)]
Before == {e \in Conn \X Conn :
             /\ memberOf[e[1]] # NoRoom /\ memberOf[e[1]] = memberOf[e[2]]
             /\ arrival[e[1]] < arrival[e[2]]}
Leader == [r \in Code |-> LeaderOf(r)]
Drivers == [r \in Code |-> control \cap Members(r)]

Promise == INSTANCE RoomPromise
  WITH Person <- Conn, Room <- Code, Nobody <- NoRoom,
       Capacity <- MaxRoomMembers, known <- rooms, people <- People,
       before <- Before, leader <- Leader, drivers <- Drivers,
       policy <- openControl

(* The two maps, the arrival counter, the flags kept on each member and    *)
(* lastEmptyAtMs come to rooms that exist while anybody is in them, with   *)
(* one leader, succeeded by the longest present, and rights that nobody    *)
(* brings along, leaves behind or loses with somebody else's departure.    *)
KeepsPromise == Promise!Spec

(***************************************************************************)
(* Liveness                                                                *)
(***************************************************************************)
(* A member whose peer vanished does not stay in the room for ever. *)
GhostsReaped == \A c \in Conn : sock[c] = "lost" ~> memberOf[c] = NoRoom
=============================================================================
