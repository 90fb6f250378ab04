-------------------------- MODULE RoomMembersProofs --------------------------
(***************************************************************************)
(* Proofs about RoomMembers, for any number of sockets and rooms.          *)
(***************************************************************************)
EXTENDS RoomMembers, FiniteSetTheorems, WellFoundedInduction, TLAPS

(***************************************************************************)
(* The store and the two maps.  The three facts need each other: a room is *)
(* in the store because its members keep it from being vacant, and a room  *)
(* becomes vacant only when the maps agree that nobody is left.            *)
(***************************************************************************)
Base == TypeOK /\ RoomsOutliveMembers /\ ConnsMatchMembers

LEMMA InitBase == Init => Base
  BY NoRoomAssumption DEF Init, Base, TypeOK, RoomsOutliveMembers,
     ConnsMatchMembers, SockState, Roster, NothingSeen

(* What a room shows of itself is well typed whenever its parts are. *)
LEMMA RosterTyped ==
  ASSUME NEW r \in Code, openControl \in [Code -> BOOLEAN]
  PROVE  RosterOf(r) \in Roster
  BY DEF RosterOf, Roster, Members

LEMMA RosterTypedPrime ==
  ASSUME NEW r \in Code, openControl' \in [Code -> BOOLEAN]
  PROVE  RosterOf(r)' \in Roster
  BY DEF RosterOf, Roster, Members

(* A broadcast leaves everybody with some roster. *)
LEMMA BroadcastTyped ==
  ASSUME NEW r \in Code, TypeOK, openControl' \in [Code -> BOOLEAN],
         BroadcastState(r)
  PROVE  seen' \in [Conn -> Roster]
  BY RosterTypedPrime DEF BroadcastState, TypeOK

LEMMA SocketStepBase ==
  ASSUME Base, NEW c \in Conn, Connect(c) \/ Vanish(c) \/ PeerCloses(c)
  PROVE  Base'
<1>0. USE DEF Base, TypeOK, RoomsOutliveMembers, ConnsMatchMembers, SockState,
        Writable, storeVars, memberVars
<1>1. CASE Connect(c) BY <1>1 DEF Connect
<1>2. CASE Vanish(c) BY <1>2 DEF Vanish
<1>3. CASE PeerCloses(c) BY <1>3 DEF PeerCloses, NothingSeen, Roster
<1> QED BY <1>1, <1>2, <1>3

LEMMA CloseSilentBase ==
  ASSUME Base, NEW S \in SUBSET Conn, CloseSilent(S)
  PROVE  Base'
  BY DEF Base, TypeOK, RoomsOutliveMembers, ConnsMatchMembers, SockState,
     Writable, storeVars, memberVars, CloseSilent, NothingSeen, Roster

LEMMA AddBase ==
  ASSUME Base, NEW c \in Conn, NEW r \in Code, NEW hosting \in BOOLEAN,
         NEW open \in BOOLEAN,
         Add(c, r, hosting, open), BroadcastState(r),
         sock[c] = "open", conns[c] = NoRoom,
         UNCHANGED <<sock, heard>>,
         rooms' \in SUBSET Code, rooms \subseteq rooms', r \in rooms',
         vacant' \in SUBSET vacant, r \notin vacant',
         openControl' \in [Code -> BOOLEAN]
  PROVE  Base'
<1>1. TypeOK'
  <2>1. seen' \in [Conn -> Roster]
    BY BroadcastTyped DEF Base
  <2>2. /\ vacant' \in SUBSET rooms'
        /\ heard' \in SUBSET {d \in Conn : sock'[d] \in {"open", "lost", "closing"}}
    BY DEF Base, TypeOK
  <2>3. host' \in SUBSET Conn /\ control' \in SUBSET Conn
    BY DEF Base, TypeOK, Add
  <2>4. /\ conns' \in [Conn -> Code \cup {NoRoom}]
        /\ memberOf' \in [Conn -> Code \cup {NoRoom}]
        /\ arrivals' \in Nat
        /\ arrival' \in [Conn -> Nat]
    BY DEF Base, TypeOK, Add
  <2> QED
    BY <2>1, <2>2, <2>3, <2>4 DEF Base, TypeOK
<1>2. RoomsOutliveMembers'
  BY DEF Base, TypeOK, RoomsOutliveMembers, Add
<1>3. ConnsMatchMembers'
  BY DEF Base, TypeOK, ConnsMatchMembers, Add
<1> QED BY <1>1, <1>2, <1>3 DEF Base

LEMMA HelloCreateBase ==
  ASSUME Base, NEW c \in Conn, NEW r \in Code, NEW open \in BOOLEAN,
         HelloCreate(c, r, open)
  PROVE  Base'
<1>1. r \notin vacant
  BY DEF Base, TypeOK, HelloCreate
<1> QED
  BY <1>1, AddBase DEF Base, TypeOK, HelloCreate

LEMMA HelloJoinBase ==
  ASSUME Base, NEW c \in Conn, NEW r \in Code, HelloJoin(c, r)
  PROVE  Base'
  BY AddBase DEF Base, TypeOK, HelloJoin, Occupy

LEMMA ClosedBase ==
  ASSUME Base, NEW c \in Conn, Closed(c)
  PROVE  Base'
<1>1. CASE conns[c] = NoRoom
  BY <1>1, NoRoomAssumption
  DEF Base, TypeOK, RoomsOutliveMembers, ConnsMatchMembers, SockState,
      memberVars, Closed, Unheard
<1>2. ASSUME NEW r \in Code, conns[c] = r, Remove(c, r), UNCHANGED arrivals,
             BroadcastState(r)
      PROVE  Base'
  <2>1. r \in rooms /\ memberOf[c] = r
    BY <1>2, NoRoomAssumption DEF Base, RoomsOutliveMembers, ConnsMatchMembers
  <2>2. TypeOK'
    <3>1. seen' \in [Conn -> Roster]
      BY <1>2, BroadcastTyped DEF Base, TypeOK, Closed
    <3>2. host' \in SUBSET Conn
      BY <1>2 DEF Base, TypeOK, Remove, LongestOf, Members
    <3>3. vacant' \in SUBSET rooms'
      BY <1>2, <2>1 DEF Base, TypeOK, Remove, Vacate, Closed
    <3> QED
      BY <1>2, <3>1, <3>2, <3>3
      DEF Base, TypeOK, SockState, Closed, Unheard, Remove
  <2>3. RoomsOutliveMembers'
    <3> SUFFICES ASSUME NEW d \in Conn, conns'[d] # NoRoom
                 PROVE  conns'[d] \in rooms' /\ conns'[d] \notin vacant'
      BY DEF RoomsOutliveMembers
    <3>1. d # c /\ conns'[d] = conns[d]
      BY <1>2 DEF Base, TypeOK, Remove
    <3>2. conns[d] \in rooms /\ conns[d] \notin vacant
      BY <3>1 DEF Base, RoomsOutliveMembers
    <3>3. conns[d] = r => Members(r) \ {c} # {}
      BY <3>1 DEF Base, ConnsMatchMembers, Members
    <3> QED
      BY <1>2, <3>1, <3>2, <3>3 DEF Remove, Vacate, Closed
  <2>4. ConnsMatchMembers'
    BY <1>2 DEF Base, TypeOK, ConnsMatchMembers, Closed, Remove
  <2> QED BY <2>2, <2>3, <2>4 DEF Base
<1> QED BY <1>1, <1>2 DEF Closed

LEMMA SweepBase ==
  ASSUME Base, NEW S \in SUBSET Code, Sweep(S)
  PROVE  Base'
  BY DEF Base, TypeOK, RoomsOutliveMembers, ConnsMatchMembers, memberVars, Sweep

LEMMA RefreshBase ==
  ASSUME Base, NEW R \in SUBSET Code, Refresh(R)
  PROVE  Base'
<1>1. seen' \in [Conn -> Roster]
  BY RosterTyped DEF Base, TypeOK, Refresh
<1> QED
  BY <1>1
  DEF Base, TypeOK, RoomsOutliveMembers, ConnsMatchMembers, memberVars,
      storeVars, Refresh

LEMMA PermissionBase ==
  ASSUME Base, NEW c \in Conn, NEW r \in Code, NEW t \in Conn,
         NEW b \in BOOLEAN,
         \/ SetControl(c, r, t, b)
         \/ TransferHost(c, r, t)
         \/ SetOpenControl(c, r, b)
  PROVE  Base'
<1>1. seen' \in [Conn -> Roster]
  BY BroadcastTyped
  DEF Base, TypeOK, SetControl, TransferHost, SetOpenControl
<1> QED
  BY <1>1
  DEF Base, TypeOK, RoomsOutliveMembers, ConnsMatchMembers, memberVars,
      storeVars, SetControl, TransferHost, SetOpenControl

LEMMA NextBase == Base /\ [Next]_vars => Base'
<1> SUFFICES ASSUME Base, [Next]_vars PROVE Base'
  OBVIOUS
<1>1. CASE UNCHANGED vars
  BY <1>1 DEF Base, TypeOK, RoomsOutliveMembers, ConnsMatchMembers, vars
<1>2. CASE Next
  BY <1>2, SocketStepBase, CloseSilentBase, HelloCreateBase, HelloJoinBase,
     ClosedBase, SweepBase, RefreshBase, PermissionBase DEF Next
<1> QED BY <1>1, <1>2

(* Types, and with them that the idle timer watches live sockets only, are *)
(* kept by every handler.                                                  *)
THEOREM TypeCorrect == Spec => []TypeOK
<1>1. Base => TypeOK BY DEF Base
<1> QED BY <1>1, InitBase, NextBase, PTL DEF Spec

(* No room is swept under its members, however they come and go. *)
THEOREM RoomsOutliveMembersAlways == Spec => []RoomsOutliveMembers
<1>1. Base => RoomsOutliveMembers BY DEF Base
<1> QED BY <1>1, InitBase, NextBase, PTL DEF Spec

(* The connection map and the member maps never disagree. *)
THEOREM ConnsMatchMembersAlways == Spec => []ConnsMatchMembers
<1>1. Base => ConnsMatchMembers BY DEF Base
<1> QED BY <1>1, InitBase, NextBase, PTL DEF Spec
-----------------------------------------------------------------------------
(***************************************************************************)
(* One host.  The flag is only ever set on members, and the members of a   *)
(* room can be told apart by when they arrived, so "whoever has been here  *)
(* longest" names exactly one of them.                                     *)
(***************************************************************************)
FlagsOfMembers == \A c \in host : memberOf[c] # NoRoom

ArrivalOrder ==
  /\ \A c \in Conn : arrival[c] <= arrivals
  /\ \A c, d \in Conn :
       (memberOf[c] # NoRoom /\ memberOf[d] # NoRoom /\ arrival[c] = arrival[d])
         => c = d

HostInv == FlagsOfMembers /\ ArrivalOrder /\ OneHost

(* A non-empty set of numbers has a least element. *)
LEMMA LeastNumber ==
  ASSUME NEW T \in SUBSET Nat, T # {}
  PROVE  \E x \in T : \A y \in T : x <= y
<1>1. PICK x \in T : \A y \in T : ~ (<<y, x>> \in OpToRel(<, Nat))
  BY NatLessThanWellFounded, WFMin
<1>2. \A y \in T : ~ (y < x)
  BY <1>1 DEF OpToRel
<1>3. \A y \in T : y \in Nat /\ x \in Nat
  OBVIOUS
<1>4. \A y \in T : x <= y
  BY <1>2, <1>3
<1> QED BY <1>4

(* Among members there is one who has been there longest, and only one. *)
LEMMA LongestIsOne ==
  ASSUME TypeOK, ArrivalOrder, NEW S \in SUBSET Conn, S # {},
         \A c \in S : memberOf[c] # NoRoom
  PROVE  \E c \in S : LongestOf(S) = {c}
<1>1. PICK c \in S : \A d \in S : arrival[c] <= arrival[d]
  <2>1. {arrival[d] : d \in S} \in SUBSET Nat /\ {arrival[d] : d \in S} # {}
    BY DEF TypeOK
  <2>2. PICK n \in {arrival[d] : d \in S} : \A m \in {arrival[d] : d \in S} : n <= m
    BY <2>1, LeastNumber
  <2> QED BY <2>2
<1>2. ASSUME NEW d \in LongestOf(S) PROVE d = c
  BY <1>1, <1>2 DEF LongestOf, ArrivalOrder, TypeOK
<1> QED BY <1>1, <1>2 DEF LongestOf

LEMMA InitHost == Init => HostInv
  BY DEF Init, HostInv, FlagsOfMembers, ArrivalOrder, OneHost

(* A step that leaves the members, their order and the flags alone, and    *)
(* puts no new room in the store, leaves every room its host.              *)
LEMMA HostFrame ==
  ASSUME HostInv, UNCHANGED <<memberOf, arrivals, arrival, host>>,
         rooms' \subseteq rooms
  PROVE  HostInv'
  BY DEF HostInv, FlagsOfMembers, ArrivalOrder, OneHost, Members

LEMMA AddHost ==
  ASSUME Base, HostInv, NEW c \in Conn, NEW r \in Code,
         NEW hosting \in BOOLEAN, NEW open \in BOOLEAN,
         conns[c] = NoRoom, Add(c, r, hosting, open),
         hosting <=> Members(r) = {},
         r \in rooms \/ Members(r) = {},
         rooms' = rooms \cup {r}
  PROVE  HostInv'
<1>1. memberOf[c] = NoRoom /\ c \notin host
  BY NoRoomAssumption
  DEF Base, TypeOK, ConnsMatchMembers, HostInv, FlagsOfMembers
<1>2. /\ memberOf' = [memberOf EXCEPT ![c] = r]
      /\ host' = IF hosting THEN host \cup {c} ELSE host
  BY DEF Add
<1>3. FlagsOfMembers'
  BY <1>1, <1>2, NoRoomAssumption DEF Base, TypeOK, HostInv, FlagsOfMembers
<1>4. ArrivalOrder'
  <2>1. \A d \in Conn : arrival[d] <= arrivals /\ arrival[d] \in Nat
    BY DEF Base, TypeOK, HostInv, ArrivalOrder
  <2>2. /\ arrivals' = arrivals + 1 /\ arrivals \in Nat
        /\ arrival' = [arrival EXCEPT ![c] = arrivals + 1]
        /\ arrival \in [Conn -> Nat]
    BY DEF Base, TypeOK, Add
  <2>3. \A d \in Conn : d # c => arrival'[d] = arrival[d] /\ memberOf'[d] = memberOf[d]
    BY <1>2, <2>2 DEF Base, TypeOK
  <2>4. arrival'[c] = arrivals + 1
    BY <2>2
  <2>5. \A d \in Conn : arrival'[d] <= arrivals'
    BY <2>1, <2>2, <2>3, <2>4
  <2>6. \A d \in Conn : d # c => arrival'[d] # arrival'[c]
    BY <2>1, <2>2, <2>3, <2>4
  <2> QED
    BY <2>3, <2>5, <2>6 DEF HostInv, ArrivalOrder
<1>5. OneHost'
  <2> SUFFICES ASSUME NEW q \in rooms', Members(q)' # {}
               PROVE  \E h \in Members(q)' : (host \cap Members(q))' = {h}
    BY DEF OneHost
  <2>0. q \in Code
    BY DEF Base, TypeOK
  <2>1. CASE q # r
    <3>1. Members(q)' = Members(q) /\ c \notin Members(q)
      BY <1>1, <1>2, <2>0, <2>1, NoRoomAssumption DEF Base, TypeOK, Members
    <3> QED
      BY <1>2, <2>1, <3>1 DEF HostInv, OneHost
  <2>2. CASE q = r
    <3>1. Members(r)' = Members(r) \cup {c}
      BY <1>2 DEF Base, TypeOK, Members
    <3>2. CASE Members(r) = {}
      BY <1>1, <1>2, <2>2, <3>1, <3>2
    <3>3. CASE Members(r) # {}
      BY <1>1, <1>2, <2>2, <3>1, <3>3 DEF HostInv, OneHost
    <3> QED BY <3>2, <3>3
  <2> QED BY <2>1, <2>2
<1> QED BY <1>3, <1>4, <1>5 DEF HostInv

(* A room nobody could join yet has nobody in it. *)
LEMMA NewRoomIsEmpty ==
  ASSUME Base, NEW r \in Code, r \notin rooms
  PROVE  Members(r) = {}
  BY NoRoomAssumption
  DEF Base, TypeOK, RoomsOutliveMembers, ConnsMatchMembers, Members

LEMMA ClosedHost ==
  ASSUME Base, HostInv, NEW c \in Conn, Closed(c)
  PROVE  HostInv'
<1>1. CASE conns[c] = NoRoom
  BY <1>1, HostFrame, NoRoomAssumption DEF Closed, memberVars
<1>2. ASSUME NEW r \in Code, conns[c] = r, Remove(c, r), UNCHANGED arrivals
      PROVE  HostInv'
  <2> DEFINE rest == Members(r) \ {c}
  <2>1. /\ memberOf[c] = r /\ r \in rooms /\ rooms' = rooms
        /\ memberOf' = [memberOf EXCEPT ![c] = NoRoom]
        /\ arrival' = [arrival EXCEPT ![c] = 0]
        /\ host' = IF c \in host THEN (host \ {c}) \cup LongestOf(rest) ELSE host
    BY <1>2, NoRoomAssumption
    DEF Base, ConnsMatchMembers, RoomsOutliveMembers, Closed, Remove
  <2>2. \A d \in Conn : d # c => memberOf'[d] = memberOf[d] /\ arrival'[d] = arrival[d]
    BY <2>1 DEF Base, TypeOK
  <2>3. memberOf'[c] = NoRoom /\ arrival'[c] = 0
    BY <2>1 DEF Base, TypeOK
  <2>4. LongestOf(rest) \subseteq rest /\ rest \subseteq Conn
    BY DEF LongestOf, Members
  <2>5. FlagsOfMembers'
    BY <2>1, <2>2, <2>4, NoRoomAssumption
    DEF Base, TypeOK, HostInv, FlagsOfMembers, Members
  <2>6. ArrivalOrder'
    BY <1>2, <2>2, <2>3 DEF Base, TypeOK, HostInv, ArrivalOrder
  <2>7. OneHost'
    <3> SUFFICES ASSUME NEW q \in rooms', Members(q)' # {}
                 PROVE  \E h \in Members(q)' : (host \cap Members(q))' = {h}
      BY DEF OneHost
    <3>0. q \in Code /\ q \in rooms
      BY <2>1 DEF Base, TypeOK
    <3>1. Members(q)' = Members(q) \ {c}
      BY <2>2, <2>3, <3>0, NoRoomAssumption DEF Members
    <3>2. PICK h \in Members(q) : host \cap Members(q) = {h}
      BY <3>0, <3>1 DEF HostInv, OneHost
    <3>3. CASE q # r \/ c \notin host
      <4>1. c # h
        BY <2>1, <3>2, <3>3 DEF Members
      <4>2. (LongestOf(rest) \cap Members(q) = {}) \/ c \notin host
        BY <2>4, <3>3 DEF Members
      <4> QED
        BY <2>1, <3>1, <3>2, <4>1, <4>2
    <3>4. CASE q = r /\ c \in host
      <4>1. h = c
        BY <2>1, <3>2, <3>4 DEF Members
      <4>2. rest # {} /\ Members(q)' = rest
        BY <3>1, <3>4
      <4>3. PICK g \in rest : LongestOf(rest) = {g}
        BY <2>4, <4>2, LongestIsOne, NoRoomAssumption
        DEF Base, HostInv, Members
      <4> QED
        BY <2>1, <3>2, <3>4, <4>1, <4>2, <4>3
    <3> QED BY <3>3, <3>4
  <2> QED BY <2>5, <2>6, <2>7 DEF HostInv
<1> QED BY <1>1, <1>2 DEF Closed

LEMMA TransferHostKeepsOne ==
  ASSUME Base, HostInv, NEW c \in Conn, NEW r \in Code, NEW t \in Conn,
         TransferHost(c, r, t)
  PROVE  HostInv'
<1>1. /\ c \in host /\ memberOf[c] = r /\ memberOf[t] = r
      /\ host' = (host \ {c}) \cup {t}
      /\ UNCHANGED <<memberOf, arrivals, arrival, rooms>>
  BY DEF TransferHost, Speaking, storeVars, Members
<1>2. FlagsOfMembers' /\ ArrivalOrder'
  BY <1>1, NoRoomAssumption DEF HostInv, FlagsOfMembers, ArrivalOrder
<1>3. OneHost'
  <2> SUFFICES ASSUME NEW q \in rooms, Members(q) # {}
               PROVE  \E h \in Members(q) : host' \cap Members(q) = {h}
    BY <1>1 DEF OneHost, Members
  <2>1. PICK h \in Members(q) : host \cap Members(q) = {h}
    BY DEF HostInv, OneHost
  <2>2. CASE q = r
    BY <1>1, <2>1, <2>2 DEF Members
  <2>3. CASE q # r
    BY <1>1, <2>1, <2>3 DEF Members
  <2> QED BY <2>2, <2>3
<1> QED BY <1>2, <1>3 DEF HostInv

LEMMA NextHost == Base /\ HostInv /\ [Next]_vars => HostInv'
<1> SUFFICES ASSUME Base, HostInv, [Next]_vars PROVE HostInv'
  OBVIOUS
<1>1. CASE UNCHANGED vars
  BY <1>1, HostFrame DEF vars
<1>2. ASSUME NEW c \in Conn, Connect(c) \/ Vanish(c) \/ PeerCloses(c)
      PROVE  HostInv'
  BY <1>2, HostFrame DEF Connect, Vanish, PeerCloses, storeVars, memberVars
<1>3. ASSUME NEW S \in SUBSET Conn, CloseSilent(S) PROVE HostInv'
  BY <1>3, HostFrame DEF CloseSilent, storeVars, memberVars
<1>4. ASSUME NEW S \in SUBSET Code, Sweep(S) \/ Refresh(S) PROVE HostInv'
  BY <1>4, HostFrame DEF Sweep, Refresh, storeVars, memberVars
<1>5. ASSUME NEW c \in Conn, NEW r \in Code, NEW b \in BOOLEAN,
             HelloCreate(c, r, b)
      PROVE  HostInv'
  BY <1>5, NewRoomIsEmpty, AddHost DEF HelloCreate
<1>6. ASSUME NEW c \in Conn, NEW r \in Code, HelloJoin(c, r)
      PROVE  HostInv'
  <2>1. rooms' = rooms \cup {r} /\ openControl[r] \in BOOLEAN
    BY <1>6 DEF HelloJoin, Base, TypeOK
  <2> QED
    BY <1>6, <2>1, AddHost DEF HelloJoin
<1>7. ASSUME NEW c \in Conn, NEW r \in Code, NEW t \in Conn, NEW b \in BOOLEAN,
             SetControl(c, r, t, b) \/ SetOpenControl(c, r, b)
      PROVE  HostInv'
  BY <1>7, HostFrame DEF SetControl, SetOpenControl, storeVars, memberVars
<1> QED
  BY <1>1, <1>2, <1>3, <1>4, <1>5, <1>6, <1>7, ClosedHost,
     TransferHostKeepsOne DEF Next

(* Every room with people in it has exactly one host, for any number of    *)
(* people, through every join, departure and handover.                     *)
THEOREM OneHostAlways == Spec => []OneHost
<1>1. HostInv => OneHost BY DEF HostInv
<1> QED BY <1>1, InitBase, NextBase, InitHost, NextHost, PTL DEF Spec
-----------------------------------------------------------------------------
(***************************************************************************)
(* The cap.  Only a join adds to a room, and it counts first.              *)
(***************************************************************************)
LEMMA MembersFinite ==
  ASSUME NEW r \in Code
  PROVE  IsFiniteSet(Members(r)) /\ Cardinality(Members(r)) \in Nat
<1>1. Members(r) \subseteq Conn BY DEF Members
<1> QED BY <1>1, ConnAssumption, FS_Subset, FS_CardinalityType

(* A step that adds nobody to any room keeps the cap. *)
LEMMA CapFrame ==
  ASSUME RoomCap, \A q \in Code : Members(q)' \subseteq Members(q)
  PROVE  RoomCap'
<1> SUFFICES ASSUME NEW q \in Code PROVE Cardinality(Members(q)') <= MaxRoomMembers
  BY DEF RoomCap
<1>1. IsFiniteSet(Members(q)) /\ Cardinality(Members(q)) \in Nat
  BY MembersFinite
<1>2. /\ IsFiniteSet(Members(q)')
      /\ Cardinality(Members(q)') <= Cardinality(Members(q))
  BY <1>1, FS_Subset
<1>3. Cardinality(Members(q)') \in Nat
  BY <1>2, FS_CardinalityType
<1>4. Cardinality(Members(q)) <= MaxRoomMembers
  BY DEF RoomCap
<1> QED BY <1>1, <1>2, <1>3, <1>4, CapAssumption

LEMMA AddCap ==
  ASSUME Base, RoomCap, NEW c \in Conn, NEW r \in Code, ~Full(r),
         memberOf' = [memberOf EXCEPT ![c] = r], conns[c] = NoRoom
  PROVE  RoomCap'
<1> SUFFICES ASSUME NEW q \in Code PROVE Cardinality(Members(q)') <= MaxRoomMembers
  BY DEF RoomCap
<1>1. Members(q)' = IF q = r THEN Members(r) \cup {c} ELSE Members(q)
  BY NoRoomAssumption DEF Base, TypeOK, ConnsMatchMembers, Members
<1>2. CASE q # r
  BY <1>1, <1>2 DEF RoomCap
<1>3. CASE q = r
  <2>1. IsFiniteSet(Members(r)) /\ Cardinality(Members(r)) \in Nat
    BY MembersFinite
  <2>2. c \notin Members(r)
    BY NoRoomAssumption DEF Base, ConnsMatchMembers, Members
  <2>3. Cardinality(Members(r) \cup {c}) = Cardinality(Members(r)) + 1
    BY <2>1, <2>2, FS_AddElement
  <2> QED BY <1>1, <1>3, <2>1, <2>3, CapAssumption DEF Full
<1> QED BY <1>2, <1>3

LEMMA NextCap == Base /\ RoomCap /\ [Next]_vars => RoomCap'
<1> SUFFICES ASSUME Base, RoomCap, [Next]_vars PROVE RoomCap'
  OBVIOUS
<1>1. CASE UNCHANGED memberOf
  BY <1>1, CapFrame DEF Members
<1>2. ASSUME NEW c \in Conn, NEW r \in Code, NEW b \in BOOLEAN,
             HelloCreate(c, r, b)
      PROVE  RoomCap'
  <2>1. ~Full(r)
    BY <1>2, NewRoomIsEmpty, FS_EmptySet, CapAssumption DEF HelloCreate, Full
  <2> QED BY <1>2, <2>1, AddCap DEF HelloCreate, Add
<1>3. ASSUME NEW c \in Conn, NEW r \in Code, HelloJoin(c, r) PROVE RoomCap'
  BY <1>3, AddCap DEF HelloJoin, Add
<1>4. ASSUME NEW c \in Conn, Closed(c) PROVE RoomCap'
  <2>1. UNCHANGED memberOf \/ memberOf' = [memberOf EXCEPT ![c] = NoRoom]
    BY <1>4 DEF Closed, Remove, memberVars
  <2>2. \A q \in Code : Members(q)' \subseteq Members(q)
    BY <2>1, NoRoomAssumption DEF Base, TypeOK, Members
  <2> QED BY <2>2, CapFrame
<1>5. Next => \/ UNCHANGED memberOf
              \/ \E c \in Conn : Closed(c)
              \/ \E c \in Conn, r \in Code : HelloJoin(c, r)
              \/ \E c \in Conn, r \in Code, b \in BOOLEAN : HelloCreate(c, r, b)
  BY DEF Next, Connect, Vanish, PeerCloses, CloseSilent, Sweep, Refresh,
     TransferHost, SetControl, SetOpenControl, memberVars
<1> QED BY <1>1, <1>2, <1>3, <1>4, <1>5 DEF vars

(* A room never takes more people than MaxRoomMembers, whatever that is.   *)
THEOREM RoomCapAlways == Spec => []RoomCap
<1>1. Init => RoomCap
  <2> SUFFICES ASSUME Init, NEW r \in Code
               PROVE  Cardinality(Members(r)) <= MaxRoomMembers
    BY DEF RoomCap
  <2>1. Members(r) = {} BY NoRoomAssumption DEF Init, Members
  <2> QED BY <2>1, FS_EmptySet, CapAssumption
<1> QED BY <1>1, InitBase, NextBase, NextCap, PTL DEF Spec
-----------------------------------------------------------------------------
(***************************************************************************)
(* What everybody was last told.                                           *)
(***************************************************************************)
(* A handler that disturbs one room and ends by telling it, and lets       *)
(* nobody into another, leaves nobody with an old roster.                  *)
LEMMA BroadcastKeepsCurrent ==
  ASSUME RosterCurrent, NEW r \in Code, BroadcastState(r),
         \A d \in Conn : sock'[d] \in Writable => sock[d] \in Writable,
         \A d \in Conn : conns'[d] \in {r, NoRoom, conns[d]},
         conns' \in [Conn -> Code \cup {NoRoom}],
         \A q \in Code : q # r => RosterOf(q)' = RosterOf(q)
  PROVE  RosterCurrent'
<1> SUFFICES ASSUME NEW c \in Conn, conns'[c] # NoRoom, sock'[c] \in Writable
             PROVE  seen'[c] = RosterOf(conns[c])'
  BY DEF RosterCurrent
<1>1. CASE conns'[c] = r
  BY <1>1 DEF BroadcastState, Audience, RosterOf, Members
<1>2. CASE conns'[c] # r
  <2>1. conns'[c] = conns[c] /\ conns[c] # NoRoom /\ conns'[c] \in Code
    BY <1>2
  <2>2. seen'[c] = seen[c] /\ seen[c] = RosterOf(conns[c])
    BY <1>2, <2>1 DEF BroadcastState, Audience, RosterCurrent
  <2>3. \A q \in Code : q # r /\ q = conns[c] => RosterOf(q)' = seen[c]
    BY <2>2
  <2> QED BY <1>2, <2>1, <2>2, <2>3 DEF RosterOf, Members
<1> QED BY <1>1, <1>2

(* A step that changes no roster, lets nobody in and tells nobody anything *)
(* they can still read.                                                    *)
LEMMA QuietKeepsCurrent ==
  ASSUME RosterCurrent,
         \A d \in Conn : sock'[d] \in Writable =>
            /\ sock[d] \in Writable \/ conns[d] = NoRoom
            /\ seen'[d] = seen[d],
         UNCHANGED <<conns, memberOf, host, control>>,
         \A d \in Conn : conns[d] # NoRoom => openControl'[conns[d]] = openControl[conns[d]]
  PROVE  RosterCurrent'
  BY DEF RosterCurrent, RosterOf, Members

LEMMA NextCurrent == Base /\ HostInv /\ RosterCurrent /\ [Next]_vars => RosterCurrent'
<1> SUFFICES ASSUME Base, HostInv, RosterCurrent, [Next]_vars
             PROVE  RosterCurrent'
  OBVIOUS
<1>0. conns \in [Conn -> Code \cup {NoRoom}] /\ conns' \in [Conn -> Code \cup {NoRoom}]
  BY NextBase DEF Base, TypeOK
<1>1. CASE UNCHANGED vars
  BY <1>1, QuietKeepsCurrent DEF vars
<1>2. ASSUME NEW c \in Conn, Connect(c) PROVE RosterCurrent'
  <2>1. conns[c] = NoRoom
    BY <1>2 DEF Base, ConnsMatchMembers, Connect
  <2> QED
    BY <1>2, <2>1, QuietKeepsCurrent DEF Connect, Base, TypeOK, memberVars
<1>3. ASSUME NEW c \in Conn, Vanish(c) PROVE RosterCurrent'
  BY <1>3, QuietKeepsCurrent DEF Vanish, Base, TypeOK, memberVars, Writable
<1>4. ASSUME NEW c \in Conn, PeerCloses(c) PROVE RosterCurrent'
  BY <1>4, QuietKeepsCurrent DEF PeerCloses, Base, TypeOK, memberVars, Writable
<1>5. ASSUME NEW S \in SUBSET Conn, CloseSilent(S) PROVE RosterCurrent'
  BY <1>5, QuietKeepsCurrent DEF CloseSilent, Base, TypeOK, memberVars, Writable
<1>6. ASSUME NEW S \in SUBSET Code, Sweep(S) PROVE RosterCurrent'
  <2>1. \A d \in Conn : conns[d] # NoRoom =>
           /\ conns[d] \notin S /\ conns[d] \in Code
    BY <1>0, <1>6 DEF Sweep, Base, RoomsOutliveMembers
  <2>2. \A d \in Conn : conns[d] # NoRoom => openControl'[conns[d]] = openControl[conns[d]]
    BY <1>6, <2>1 DEF Sweep
  <2> QED
    BY <1>6, <2>2, QuietKeepsCurrent DEF Sweep, memberVars
<1>7. ASSUME NEW R \in SUBSET Code, Refresh(R) PROVE RosterCurrent'
  BY <1>7 DEF Refresh, RosterCurrent, RosterOf, Members, memberVars
<1>8. ASSUME NEW c \in Conn, NEW r \in Code, NEW hosting \in BOOLEAN,
             NEW open \in BOOLEAN, Add(c, r, hosting, open), UNCHANGED sock,
             conns[c] = NoRoom, BroadcastState(r),
             \A q \in Code : q # r => openControl'[q] = openControl[q]
      PROVE  RosterCurrent'
  <2>1. memberOf[c] = NoRoom
    BY <1>8 DEF Base, ConnsMatchMembers
  <2>2. \A q \in Code : q # r => Members(q)' = Members(q) /\ c \notin Members(q)
    BY <1>8, <2>1, NoRoomAssumption DEF Add, Members, Base, TypeOK
  <2>3. \A q \in Code : q # r => RosterOf(q)' = RosterOf(q)
    BY <1>8, <2>2 DEF Add, RosterOf
  <2>4. \A d \in Conn : conns'[d] \in {r, NoRoom, conns[d]}
    BY <1>0, <1>8 DEF Add
  <2> QED BY <1>0, <1>8, <2>3, <2>4, BroadcastKeepsCurrent
<1>9. ASSUME NEW c \in Conn, NEW r \in Code, NEW b \in BOOLEAN,
             HelloCreate(c, r, b)
      PROVE  RosterCurrent'
  BY <1>8, <1>9 DEF HelloCreate, Base, TypeOK
<1>10. ASSUME NEW c \in Conn, NEW r \in Code, HelloJoin(c, r) PROVE RosterCurrent'
  BY <1>8, <1>10 DEF HelloJoin, Base, TypeOK
<1>11. ASSUME NEW c \in Conn, Closed(c) PROVE RosterCurrent'
  <2>1. \A d \in Conn : sock'[d] \in Writable => sock[d] \in Writable
    BY <1>11 DEF Closed, Base, TypeOK, Writable
  <2>2. CASE conns[c] = NoRoom
    BY <1>11, <2>1, <2>2, NoRoomAssumption, QuietKeepsCurrent DEF Closed, memberVars
  <2>3. ASSUME NEW r \in Code, conns[c] = r, Remove(c, r), BroadcastState(r)
        PROVE  RosterCurrent'
    <3>1. memberOf[c] = r /\ memberOf' = [memberOf EXCEPT ![c] = NoRoom]
      BY <2>3 DEF Base, ConnsMatchMembers, Remove
    <3>2. \A q \in Code : q # r =>
             Members(q)' = Members(q) /\ Members(q) \cap Members(r) = {}
      BY <3>1, NoRoomAssumption DEF Members, Base, TypeOK
    <3>3. c \in Members(r) /\ LongestOf(Members(r) \ {c}) \subseteq Members(r)
      BY <3>1 DEF Members, LongestOf
    <3>4. /\ openControl' = openControl
          /\ host' = IF c \in host THEN (host \ {c}) \cup LongestOf(Members(r) \ {c})
                     ELSE host
          /\ control' = control \ {c}
      BY <1>11, <2>3 DEF Closed, Remove
    <3>5. \A q \in Code : q # r => RosterOf(q)' = RosterOf(q)
      BY <3>2, <3>3, <3>4 DEF RosterOf
    <3>6. \A d \in Conn : conns'[d] \in {r, NoRoom, conns[d]}
      BY <1>0, <2>3 DEF Remove
    <3> QED BY <1>0, <2>1, <2>3, <3>5, <3>6, BroadcastKeepsCurrent
  <2> QED BY <1>11, <2>2, <2>3 DEF Closed
<1>12. ASSUME NEW c \in Conn, NEW r \in Code, NEW t \in Conn, NEW b \in BOOLEAN,
              \/ SetControl(c, r, t, b)
              \/ TransferHost(c, r, t)
              \/ SetOpenControl(c, r, b)
       PROVE  RosterCurrent'
  <2>1. /\ BroadcastState(r)
        /\ UNCHANGED <<sock, conns, memberOf>>
        /\ memberOf[c] = r
    BY <1>12 DEF SetControl, TransferHost, SetOpenControl, Speaking, memberVars
  <2>2. \A q \in Code : q # r => Members(q)' = Members(q) /\ c \notin Members(q)
    BY <2>1 DEF Members
  <2>3. \A q \in Code : q # r => RosterOf(q)' = RosterOf(q)
    <3>1. CASE SetControl(c, r, t, b)
      BY <2>2, <3>1 DEF SetControl, RosterOf, Members
    <3>2. CASE TransferHost(c, r, t)
      BY <2>2, <3>2 DEF TransferHost, RosterOf, Members
    <3>3. CASE SetOpenControl(c, r, b)
      BY <2>2, <3>3 DEF SetOpenControl, RosterOf, memberVars, Base, TypeOK
    <3> QED BY <1>12, <3>1, <3>2, <3>3
  <2> QED BY <1>0, <2>1, <2>3, BroadcastKeepsCurrent
<1> QED
  BY <1>1, <1>2, <1>3, <1>4, <1>5, <1>6, <1>7, <1>9, <1>10, <1>11, <1>12 DEF Next

(* No handler forgets to tell somebody: everybody a room can still write   *)
(* to holds its roster, host and permissions as they are.                  *)
THEOREM RosterCurrentAlways == Spec => []RosterCurrent
<1>1. Init => RosterCurrent BY DEF Init, RosterCurrent
<1> QED
  BY <1>1, InitBase, NextBase, InitHost, NextHost, NextCurrent, PTL DEF Spec
-----------------------------------------------------------------------------
(***************************************************************************)
(* What a step may do to a host.                                           *)
(***************************************************************************)
LEMMA KeepsControl ==
  ASSUME Base, [Next]_vars, NEW c \in host \cap control, memberOf'[c] # NoRoom
  PROVE  c \in control'
<1>1. ASSUME NEW d \in Conn, Closed(d) PROVE c \in control'
  <2>1. CASE UNCHANGED control
    BY <2>1
  <2>2. CASE control' = control \ {d} /\ memberOf' = [memberOf EXCEPT ![d] = NoRoom]
    BY <2>2 DEF Base, TypeOK
  <2> QED BY <1>1, <2>1, <2>2 DEF Closed, Remove, memberVars
<1>2. ASSUME NEW d \in Conn, NEW r \in Code, NEW t \in Conn, NEW b \in BOOLEAN,
             SetControl(d, r, t, b)
      PROVE  c \in control'
  BY <1>2 DEF SetControl
<1>3. Next => \/ control \subseteq control'
              \/ \E d \in Conn : Closed(d)
              \/ \E d \in Conn, r \in Code, t \in Conn, b \in BOOLEAN :
                    SetControl(d, r, t, b)
  BY DEF Next, Connect, Vanish, PeerCloses, CloseSilent, Sweep, Refresh, Add,
     HelloCreate, HelloJoin, TransferHost, SetOpenControl, memberVars
<1> QED BY <1>1, <1>2, <1>3 DEF vars

(* No policy, permission or handover takes control from a host who has it. *)
THEOREM HostControlIsStable == Spec => HostControlStable
<1>1. Base /\ [Next]_vars =>
        [\A c \in host \cap control : memberOf'[c] # NoRoom => c \in control']_vars
  BY KeepsControl
<1> QED BY <1>1, InitBase, NextBase, PTL DEF Spec, HostControlStable

LEMMA Succeeds ==
  ASSUME Base, HostInv, [Next]_vars, NEW r \in rooms,
         NEW h \in HostsOf(r), NEW g \in HostsOf(r)', h # g
  PROVE  \/ /\ h \notin Members(r)' /\ g \in Members(r)
            /\ \A m \in Members(r) \cap Members(r)' : arrival[g] <= arrival[m]
         \/ /\ h \in Members(r)' /\ g \in Members(r)
            /\ g \in control'
<1>0. /\ r \in Code /\ h \in Members(r) /\ h \in host
      /\ host \cap Members(r) = {h}
      /\ g \in Members(r)' /\ g \in host' /\ g \in Conn
  BY DEF Base, TypeOK, HostInv, OneHost, HostsOf, Members
<1>1. CASE UNCHANGED <<memberOf, host>>
  BY <1>0, <1>1 DEF Members
<1>2. ASSUME NEW c \in Conn, NEW q \in Code, NEW hosting \in BOOLEAN,
             NEW open \in BOOLEAN, Add(c, q, hosting, open),
             conns[c] = NoRoom, hosting => Members(q) = {}
      PROVE  FALSE
  <2>1. memberOf[c] = NoRoom /\ memberOf' = [memberOf EXCEPT ![c] = q]
    BY <1>2 DEF Base, ConnsMatchMembers, Add
  <2>2. c \notin host
    BY <2>1 DEF HostInv, FlagsOfMembers
  <2>3. g = c => q = r
    BY <1>0, <2>1 DEF Base, TypeOK, Members
  <2>4. g # c
    BY <1>0, <1>2, <2>2, <2>3 DEF Add
  <2>5. g \in host /\ g \in Members(r)
    BY <1>0, <1>2, <2>1, <2>4 DEF Add, Base, TypeOK, Members
  <2> QED BY <1>0, <2>5
<1>3. ASSUME NEW c \in Conn, NEW q \in Code, conns[c] = q, Remove(c, q)
      PROVE  /\ h \notin Members(r)' /\ g \in Members(r)
             /\ \A m \in Members(r) \cap Members(r)' : arrival[g] <= arrival[m]
  <2>1. memberOf[c] = q /\ memberOf' = [memberOf EXCEPT ![c] = NoRoom]
    BY <1>3 DEF Base, ConnsMatchMembers, Remove
  <2>2. Members(r)' = Members(r) \ {c}
    BY <1>0, <2>1, NoRoomAssumption DEF Base, TypeOK, Members
  <2>3. g \notin host
    BY <1>0, <2>2
  <2>4. c \in host /\ g \in LongestOf(Members(q) \ {c})
    BY <1>0, <1>3, <2>3 DEF Remove
  <2>5. q = r
    BY <1>0, <2>2, <2>4 DEF LongestOf, Members
  <2>6. c = h
    BY <1>0, <2>1, <2>4, <2>5 DEF Members
  <2> QED BY <2>2, <2>4, <2>5, <2>6 DEF LongestOf
<1>4. ASSUME NEW c \in Conn, NEW q \in Code, NEW t \in Conn, TransferHost(c, q, t)
      PROVE  h \in Members(r)' /\ g \in Members(r) /\ g \in control'
  <2>1. Members(r)' = Members(r)
    BY <1>4 DEF TransferHost, Members
  <2>2. g = t
    BY <1>0, <1>4, <2>1 DEF TransferHost
  <2> QED BY <1>0, <1>4, <2>1, <2>2 DEF TransferHost
<1>5. ASSUME NEW c \in Conn, Closed(c)
      PROVE  \/ UNCHANGED <<memberOf, host>>
             \/ \E q \in Code : conns[c] = q /\ Remove(c, q)
  BY <1>5 DEF Closed, memberVars
<1>6. ASSUME NEW c \in Conn, NEW q \in Code, NEW b \in BOOLEAN,
             HelloCreate(c, q, b)
      PROVE  FALSE
  BY <1>2, <1>6, NewRoomIsEmpty DEF HelloCreate
<1>7. ASSUME NEW c \in Conn, NEW q \in Code, HelloJoin(c, q) PROVE FALSE
  <2>1. openControl[q] \in BOOLEAN BY DEF Base, TypeOK
  <2> QED BY <1>2, <1>7, <2>1 DEF HelloJoin
<1>8. Next => \/ UNCHANGED <<memberOf, host>>
              \/ \E c \in Conn : Closed(c)
              \/ \E c \in Conn, q \in Code : HelloJoin(c, q)
              \/ \E c \in Conn, q \in Code, b \in BOOLEAN : HelloCreate(c, q, b)
              \/ \E c \in Conn, q \in Code, t \in Conn : TransferHost(c, q, t)
  BY DEF Next, Connect, Vanish, PeerCloses, CloseSilent, Sweep, Refresh,
     SetControl, SetOpenControl, memberVars
<1> QED BY <1>1, <1>3, <1>4, <1>5, <1>6, <1>7, <1>8 DEF vars

(* Hosting passes to whoever has been there longest, or by a handover that *)
(* gives control with it.                                                  *)
THEOREM SuccessionHolds == Spec => Succession
<1>1. Base /\ HostInv /\ [Next]_vars =>
        [\A r \in rooms : \A h \in HostsOf(r), g \in HostsOf(r)' : h # g =>
           \/ /\ h \notin Members(r)' /\ g \in Members(r)
              /\ \A m \in Members(r) \cap Members(r)' : arrival[g] <= arrival[m]
           \/ /\ h \in Members(r)' /\ g \in Members(r)
              /\ g \in control' ]_vars
  BY Succeeds
<1> QED
  BY <1>1, InitBase, NextBase, InitHost, NextHost, PTL DEF Spec, Succession
-----------------------------------------------------------------------------
(***************************************************************************)
(* The store implements RoomPromise.  The flags, the two maps and the      *)
(* arrival counter determine who leads and who came first only because of  *)
(* the invariants above, and rights belong to members only.                *)
(***************************************************************************)
ControlOfMembers == \A c \in control : memberOf[c] # NoRoom

StoreInv == Base /\ HostInv /\ ControlOfMembers

LEMMA InitStore == Init => StoreInv
  BY InitBase, InitHost DEF Init, StoreInv, ControlOfMembers

LEMMA NextStore == StoreInv /\ [Next]_vars => StoreInv'
<1> SUFFICES ASSUME StoreInv, [Next]_vars PROVE ControlOfMembers'
  BY NextBase, NextHost DEF StoreInv
<1>0. /\ memberOf \in [Conn -> Code \cup {NoRoom}] /\ control \subseteq Conn
      /\ \A c \in control : memberOf[c] # NoRoom
  BY DEF StoreInv, Base, TypeOK, ControlOfMembers
<1>1. CASE UNCHANGED <<memberOf, control>>
  BY <1>0, <1>1 DEF ControlOfMembers
<1>2. ASSUME NEW c \in Conn, NEW r \in Code, NEW hosting \in BOOLEAN,
             NEW open \in BOOLEAN, Add(c, r, hosting, open)
      PROVE  ControlOfMembers'
  BY <1>0, <1>2, NoRoomAssumption DEF ControlOfMembers, Add
<1>3. ASSUME NEW c \in Conn, NEW r \in Code, Remove(c, r)
      PROVE  ControlOfMembers'
  BY <1>0, <1>3 DEF ControlOfMembers, Remove
<1>4. ASSUME NEW c \in Conn, NEW r \in Code, NEW t \in Conn, NEW b \in BOOLEAN,
             TransferHost(c, r, t) \/ SetControl(c, r, t, b)
      PROVE  ControlOfMembers'
  BY <1>0, <1>4, NoRoomAssumption
  DEF ControlOfMembers, TransferHost, SetControl, Members
<1>5. ASSUME NEW c \in Conn, NEW r \in Code, HelloJoin(c, r)
      PROVE  ControlOfMembers'
  <2>1. openControl[r] \in BOOLEAN
    BY DEF StoreInv, Base, TypeOK
  <2> QED BY <1>2, <1>5, <2>1 DEF HelloJoin
<1>6. ASSUME NEW c \in Conn, NEW r \in Code, NEW b \in BOOLEAN,
             HelloCreate(c, r, b)
      PROVE  ControlOfMembers'
  BY <1>2, <1>6 DEF HelloCreate
<1>7. Next => \/ UNCHANGED <<memberOf, control>>
              \/ \E c \in Conn, r \in Code : Remove(c, r)
              \/ \E c \in Conn, r \in Code : HelloJoin(c, r)
              \/ \E c \in Conn, r \in Code, b \in BOOLEAN : HelloCreate(c, r, b)
              \/ \E c \in Conn, r \in Code, t \in Conn, b \in BOOLEAN :
                   TransferHost(c, r, t) \/ SetControl(c, r, t, b)
  BY DEF Next, Connect, Vanish, PeerCloses, Closed, CloseSilent, Sweep,
     Refresh, SetOpenControl, memberVars
<1> QED BY <1>1, <1>3, <1>4, <1>5, <1>6, <1>7 DEF vars

(* The member whose flag is set is the leader, before a step and after it. *)
LEMMA Led ==
  ASSUME StoreInv, NEW r \in Code, NEW h \in Members(r), h \in host
  PROVE  LeaderOf(r) = h /\ host \cap Members(r) = {h}
<1>1. h \in Conn /\ memberOf[h] = r
  BY DEF Members
<1>2. r \in rooms
  BY <1>1, NoRoomAssumption
  DEF StoreInv, Base, RoomsOutliveMembers, ConnsMatchMembers
<1>3. host \cap Members(r) = {h}
  BY <1>2 DEF StoreInv, HostInv, OneHost
<1> QED BY <1>3 DEF LeaderOf

LEMMA LedPrime ==
  ASSUME StoreInv', NEW r \in Code, NEW h \in Members(r)', h \in host'
  PROVE  LeaderOf(r)' = h /\ (host \cap Members(r))' = {h}
<1>1. h \in Conn /\ memberOf'[h] = r
  BY DEF Members
<1>2. r \in rooms'
  BY <1>1, NoRoomAssumption
  DEF StoreInv, Base, RoomsOutliveMembers, ConnsMatchMembers
<1>3. (host \cap Members(r))' = {h}
  BY <1>2 DEF StoreInv, HostInv, OneHost
<1> QED BY <1>3 DEF LeaderOf

(* A room with members has a leader among them. *)
LEMMA SomeoneLeads ==
  ASSUME StoreInv, NEW r \in Code, Members(r) # {}
  PROVE  LeaderOf(r) \in host \cap Members(r)
<1>1. PICK m \in Members(r) : TRUE
  OBVIOUS
<1>2. r \in rooms
  BY <1>1, NoRoomAssumption
  DEF Members, StoreInv, Base, RoomsOutliveMembers, ConnsMatchMembers
<1>3. PICK h \in Members(r) : host \cap Members(r) = {h}
  BY <1>2 DEF StoreInv, HostInv, OneHost
<1> QED BY <1>3, Led

(* A room whose members and whose host among them stay has the same leader.*)
LEMMA LeaderStays ==
  ASSUME StoreInv, StoreInv', NEW r \in Code,
         Members(r)' = Members(r),
         host' \cap Members(r) = host \cap Members(r)
  PROVE  LeaderOf(r)' = LeaderOf(r)
<1>1. CASE Members(r) = {}
  BY <1>1 DEF LeaderOf
<1>2. CASE Members(r) # {}
  BY <1>2, SomeoneLeads, LedPrime
<1> QED BY <1>1, <1>2

(* What the promise shows of a step that moves nobody and no flag. *)
LEMMA FramePromise ==
  ASSUME UNCHANGED <<memberOf, arrival, host, control>>
  PROVE  UNCHANGED <<People, Before, Leader, Drivers>>
  BY DEF People, Before, Leader, LeaderOf, Drivers, Members

(* Room.add is somebody entering. *)
LEMMA AddEnters ==
  ASSUME StoreInv, StoreInv', NEW c \in Conn, NEW r \in Code,
         NEW hosting \in BOOLEAN, NEW open \in BOOLEAN,
         conns[c] = NoRoom, Add(c, r, hosting, open),
         hosting <=> Members(r) = {}
  PROVE  Promise!Away(c) /\ Promise!Enters(c, r, hosting, open)
<1>1. /\ memberOf[c] = NoRoom /\ c \notin host /\ c \notin control
      /\ memberOf \in [Conn -> Code \cup {NoRoom}]
      /\ memberOf' = [memberOf EXCEPT ![c] = r]
      /\ host' = IF hosting THEN host \cup {c} ELSE host
      /\ control' = IF hosting \/ open THEN control \cup {c} ELSE control
  BY DEF StoreInv, Base, TypeOK, ConnsMatchMembers, HostInv, FlagsOfMembers,
         ControlOfMembers, Add
<1>2. \A q \in Code :
        /\ c \notin Members(q)
        /\ Members(q)' = IF q = r THEN Members(r) \cup {c} ELSE Members(q)
  BY <1>1, NoRoomAssumption DEF Members
<1>3. Promise!Away(c)
  BY <1>2 DEF Promise!Away, People
<1>4. People' = [People EXCEPT ![r] = @ \cup {c}]
  BY <1>2 DEF People
<1>5. Before' = Before \cup (People[r] \X {c})
  <2>1. /\ arrival \in [Conn -> Nat] /\ arrivals \in Nat
        /\ arrival' = [arrival EXCEPT ![c] = arrivals + 1]
        /\ \A d \in Conn : arrival[d] <= arrivals
    BY DEF StoreInv, Base, TypeOK, HostInv, ArrivalOrder, Add
  <2>2. ASSUME NEW d \in Conn, NEW e \in Conn
        PROVE  <<d, e>> \in Before' <=> <<d, e>> \in Before \cup (Members(r) \X {c})
    <3>1. CASE d # c /\ e # c
      BY <1>1, <2>1, <3>1 DEF Before
    <3>2. CASE d = c
      <4>1. \A x \in Conn : arrival'[x] <= arrivals + 1
        BY <2>1
      <4>2. arrival'[c] = arrivals + 1 /\ arrival'[e] \in Nat
        BY <2>1
      <4>3. ~ (arrival'[c] < arrival'[e])
        BY <2>1, <4>1, <4>2
      <4> QED BY <1>1, <1>2, <3>2, <4>3 DEF Before
    <3>3. CASE d # c /\ e = c
      <4>1. arrival'[d] < arrival'[c]
        BY <2>1, <3>3
      <4> QED
        BY <1>1, <3>3, <4>1, NoRoomAssumption DEF Before, Members
    <3> QED BY <3>1, <3>2, <3>3
  <2>3. Before' \subseteq Conn \X Conn /\ Before \subseteq Conn \X Conn
    BY DEF Before
  <2>4. Members(r) \X {c} \subseteq Conn \X Conn /\ People[r] = Members(r)
    BY DEF Members, People
  <2> QED BY <2>2, <2>3, <2>4
<1>6. Leader' = IF hosting THEN [Leader EXCEPT ![r] = c] ELSE Leader
  <2>1. \A q \in Code : q # r => LeaderOf(q)' = LeaderOf(q)
    <3> SUFFICES ASSUME NEW q \in Code, q # r PROVE LeaderOf(q)' = LeaderOf(q)
      OBVIOUS
    <3>1. Members(q)' = Members(q) /\ host' \cap Members(q) = host \cap Members(q)
      BY <1>1, <1>2
    <3> QED BY <3>1, LeaderStays
  <2>2. CASE hosting
    <3>1. c \in Members(r)' /\ c \in host'
      BY <1>1, <1>2, <2>2
    <3>2. LeaderOf(r)' = c
      BY <3>1, LedPrime
    <3> QED BY <2>1, <2>2, <3>2 DEF Leader
  <2>3. CASE ~hosting
    <3>1. LeaderOf(r) \in host \cap Members(r)
      BY <2>3, SomeoneLeads
    <3>2. LeaderOf(r)' = LeaderOf(r)
      BY <1>1, <1>2, <2>3, <3>1, LedPrime
    <3> QED BY <2>1, <2>3, <3>2 DEF Leader
  <2> QED BY <2>2, <2>3
<1>7. Drivers' = IF hosting \/ open THEN [Drivers EXCEPT ![r] = @ \cup {c}]
                 ELSE Drivers
  <2>1. \A q \in Code : q # r =>
          (control \cap Members(q))' = control \cap Members(q)
    BY <1>1, <1>2
  <2>2. (control \cap Members(r))' =
          IF hosting \/ open THEN (control \cap Members(r)) \cup {c}
          ELSE control \cap Members(r)
    BY <1>1, <1>2
  <2> QED BY <2>1, <2>2 DEF Drivers
<1> QED BY <1>3, <1>4, <1>5, <1>6, <1>7 DEF Promise!Enters

(* Room.remove is somebody departing: the flag goes where First points.    *)
LEMMA RemoveDeparts ==
  ASSUME StoreInv, StoreInv', NEW c \in Conn, NEW r \in Code,
         conns[c] = r, Remove(c, r), UNCHANGED <<rooms, openControl>>
  PROVE  Promise!Departs(c, r)
<1> DEFINE rest == Members(r) \ {c}
<1>1. /\ memberOf[c] = r
      /\ memberOf \in [Conn -> Code \cup {NoRoom}]
      /\ arrival \in [Conn -> Nat]
      /\ memberOf' = [memberOf EXCEPT ![c] = NoRoom]
      /\ arrival' = [arrival EXCEPT ![c] = 0]
      /\ host' = IF c \in host THEN (host \ {c}) \cup LongestOf(rest) ELSE host
      /\ control' = control \ {c}
  BY DEF StoreInv, Base, TypeOK, ConnsMatchMembers, Remove
<1>2. \A q \in Code :
        /\ Members(q)' = IF q = r THEN rest ELSE Members(q)
        /\ q # r => c \notin Members(q) /\ Members(q) \cap rest = {}
  BY <1>1, NoRoomAssumption DEF Members
<1>3. People' = [People EXCEPT ![r] = rest] /\ c \in People[r] /\ People[r] = Members(r)
  BY <1>1, <1>2 DEF People, Members
<1>4. Before' = Before \ ((Conn \X {c}) \cup ({c} \X Conn))
  <2>1. ASSUME NEW d \in Conn, NEW e \in Conn
        PROVE  <<d, e>> \in Before' <=>
                 <<d, e>> \in Before \ ((Conn \X {c}) \cup ({c} \X Conn))
    <3>1. CASE d # c /\ e # c
      BY <1>1, <3>1 DEF Before
    <3>2. CASE d = c \/ e = c
      BY <1>1, <3>2 DEF Before
    <3> QED BY <3>1, <3>2
  <2>2. Before' \subseteq Conn \X Conn /\ Before \subseteq Conn \X Conn
    BY DEF Before
  <2> QED BY <2>1, <2>2
<1>5. Leader' = IF rest = {} THEN [Leader EXCEPT ![r] = NoRoom]
                ELSE IF Leader[r] = c THEN [Leader EXCEPT ![r] = Promise!First(rest)]
                ELSE Leader
  <2>1. ASSUME NEW q \in Code, q # r PROVE LeaderOf(q)' = LeaderOf(q)
    <3>1. LongestOf(rest) \cap Members(q) = {} /\ c \notin Members(q)
      BY <1>2, <2>1 DEF LongestOf
    <3>2. host' \cap Members(q) = host \cap Members(q)
      BY <1>1, <3>1
    <3> QED BY <1>2, <2>1, <3>2, LeaderStays
  <2>2. CASE rest = {}
    <3>1. LeaderOf(r)' = NoRoom
      BY <1>2, <2>2 DEF LeaderOf
    <3> QED BY <2>1, <2>2, <3>1 DEF Leader
  <2>3. CASE rest # {} /\ Leader[r] = c
    <3>1. c \in host
      BY <2>3, SomeoneLeads DEF Leader
    <3>2. \A d \in rest : memberOf[d] # NoRoom /\ d \in Conn /\ memberOf[d] = r
      BY NoRoomAssumption DEF Members
    <3>3. PICK g \in rest : LongestOf(rest) = {g}
      BY <2>3, <3>2, LongestIsOne DEF StoreInv, Base, HostInv
    <3>4. LeaderOf(r)' = g
      BY <1>1, <1>2, <3>1, <3>3, LedPrime
    <3>5. \A d \in rest \ {g} : <<g, d>> \in Before
      <4> SUFFICES ASSUME NEW d \in rest \ {g} PROVE <<g, d>> \in Before
        OBVIOUS
      <4>1. arrival[g] <= arrival[d]
        BY <3>3 DEF LongestOf
      <4>2. arrival[g] # arrival[d]
        BY <3>2 DEF StoreInv, HostInv, ArrivalOrder
      <4>3. arrival[g] < arrival[d]
        BY <1>1, <3>2, <4>1, <4>2
      <4> QED BY <3>2, <4>3 DEF Before
    <3>6. \A p \in rest : (\A d \in rest \ {p} : <<p, d>> \in Before) => p = g
      <4> SUFFICES ASSUME NEW p \in rest, p # g, <<p, g>> \in Before
                   PROVE  FALSE
        OBVIOUS
      <4>1. arrival[p] < arrival[g] /\ arrival[g] < arrival[p]
        BY <3>5 DEF Before
      <4> QED BY <1>1, <3>2, <4>1
    <3>7. Promise!First(rest) = g
      BY <3>5, <3>6 DEF Promise!First
    <3> QED BY <2>1, <2>3, <3>4, <3>7 DEF Leader
  <2>4. CASE rest # {} /\ Leader[r] # c
    <3>1. LeaderOf(r) \in host \cap Members(r) /\ LeaderOf(r) # c
      BY <2>4, SomeoneLeads DEF Leader
    <3>2. LeaderOf(r) \in host' /\ LeaderOf(r) \in rest
      BY <1>1, <3>1
    <3>3. LeaderOf(r)' = LeaderOf(r)
      BY <1>2, <3>2, LedPrime
    <3> QED BY <2>1, <2>4, <3>3 DEF Leader
  <2> QED BY <2>2, <2>3, <2>4
<1>6. Drivers' = [Drivers EXCEPT ![r] = @ \ {c}]
  <2>1. \A q \in Code : q # r =>
          (control \cap Members(q))' = control \cap Members(q)
    BY <1>1, <1>2
  <2>2. (control \cap Members(r))' = (control \cap Members(r)) \ {c}
    BY <1>1, <1>2
  <2> QED BY <2>1, <2>2 DEF Drivers
<1> QED BY <1>3, <1>4, <1>5, <1>6 DEF Promise!Departs

(* A permission message is a permission, a handover or a change of policy. *)
LEMMA PermissionPromised ==
  ASSUME StoreInv, StoreInv', NEW c \in Conn, NEW r \in Code, NEW t \in Conn,
         NEW b \in BOOLEAN
  PROVE  /\ SetControl(c, r, t, b) => Promise!Permits(t, r, b)
         /\ TransferHost(c, r, t) => Promise!HandsOver(t, r)
         /\ SetOpenControl(c, r, b) => Promise!SetsPolicy(r, b)
<1>1. ASSUME SetControl(c, r, t, b) PROVE Promise!Permits(t, r, b)
  <2>1. /\ t \in Members(r) /\ t \notin host
        /\ UNCHANGED <<rooms, memberOf, arrival, host, openControl>>
        /\ control' = IF b THEN control \cup {t} ELSE control \ {t}
    BY <1>1 DEF SetControl, storeVars
  <2>2. UNCHANGED <<People, Before, Leader>> /\ \A q \in Code : Members(q)' = Members(q)
    BY <2>1 DEF People, Before, Leader, LeaderOf, Members
  <2>3. t \in People[r] /\ t # Leader[r]
    BY <2>1, SomeoneLeads DEF People, Leader
  <2>4. \A q \in Code : q # r => t \notin Members(q)
    BY <2>1 DEF Members
  <2>5. Drivers' = [Drivers EXCEPT ![r] = IF b THEN @ \cup {t} ELSE @ \ {t}]
    BY <2>1, <2>2, <2>4 DEF Drivers
  <2> QED BY <2>1, <2>2, <2>3, <2>5 DEF Promise!Permits
<1>2. ASSUME TransferHost(c, r, t) PROVE Promise!HandsOver(t, r)
  <2>1. /\ c \in Members(r) /\ t \in Members(r)
        /\ UNCHANGED <<rooms, memberOf, arrival, openControl>>
        /\ host' = (host \ {c}) \cup {t} /\ control' = control \cup {t}
    BY <1>2 DEF TransferHost, Speaking, storeVars, Members
  <2>2. UNCHANGED <<People, Before>> /\ \A q \in Code : Members(q)' = Members(q)
    BY <2>1 DEF People, Before, Members
  <2>3. \A q \in Code : q # r => t \notin Members(q) /\ c \notin Members(q)
    BY <2>1 DEF Members
  <2>4. \A q \in Code : q # r => LeaderOf(q)' = LeaderOf(q)
    <3> SUFFICES ASSUME NEW q \in Code, q # r PROVE LeaderOf(q)' = LeaderOf(q)
      OBVIOUS
    <3>1. host' \cap Members(q) = host \cap Members(q)
      BY <2>1, <2>3
    <3> QED BY <2>2, <3>1, LeaderStays
  <2>5. LeaderOf(r)' = t
    BY <2>1, <2>2, LedPrime
  <2>6. Leader' = [Leader EXCEPT ![r] = t]
    BY <2>4, <2>5 DEF Leader
  <2>7. Drivers' = [Drivers EXCEPT ![r] = @ \cup {t}]
    BY <2>1, <2>2, <2>3 DEF Drivers
  <2>8. t \in People[r]
    BY <2>1 DEF People
  <2> QED BY <2>1, <2>2, <2>6, <2>7, <2>8 DEF Promise!HandsOver
<1>3. ASSUME SetOpenControl(c, r, b) PROVE Promise!SetsPolicy(r, b)
  <2>1. /\ c \in Members(r)
        /\ UNCHANGED <<rooms, memberOf, arrival, host, control>>
        /\ openControl' = [openControl EXCEPT ![r] = b]
    BY <1>3 DEF SetOpenControl, Speaking, Members, storeVars, memberVars
  <2>2. UNCHANGED <<People, Before, Leader, Drivers>>
    BY <2>1, FramePromise
  <2>3. People[r] # {}
    BY <2>1 DEF People
  <2> QED BY <2>1, <2>2, <2>3 DEF Promise!SetsPolicy
<1> QED BY <1>1, <1>2, <1>3

(* The sweep forgets rooms that really are empty. *)
LEMMA SweepForgets ==
  ASSUME StoreInv, NEW S \in SUBSET Code, Sweep(S)
  PROVE  Promise!Forgets(S)
<1>1. /\ S \subseteq rooms \cap vacant
      /\ rooms' = rooms \ S
      /\ openControl' = [r \in Code |-> IF r \in S THEN TRUE ELSE openControl[r]]
      /\ UNCHANGED <<memberOf, arrival, host, control>>
  BY DEF Sweep, memberVars
<1>2. \A r \in S : People[r] = {}
  BY <1>1, NoRoomAssumption
  DEF People, Members, StoreInv, Base, RoomsOutliveMembers, ConnsMatchMembers
<1>3. UNCHANGED <<People, Before, Leader, Drivers>>
  BY <1>1, FramePromise
<1> QED BY <1>1, <1>2, <1>3 DEF Promise!Forgets

LEMMA NextPromised ==
  StoreInv /\ StoreInv' /\ [Next]_vars => [Promise!Next]_(Promise!vars)
<1> SUFFICES ASSUME StoreInv, StoreInv', [Next]_vars
             PROVE  Promise!Next \/ UNCHANGED Promise!vars
  OBVIOUS
<1>1. ASSUME UNCHANGED <<rooms, memberOf, arrival, host, control, openControl>>
      PROVE  UNCHANGED Promise!vars
  BY <1>1, FramePromise DEF Promise!vars
<1>2. ASSUME NEW c \in Conn, NEW r \in Code, NEW b \in BOOLEAN,
             HelloCreate(c, r, b)
      PROVE  Promise!Next
  <2>1. Members(r) = {} /\ r \notin rooms
    BY <1>2, NewRoomIsEmpty DEF HelloCreate, StoreInv
  <2>2. Promise!Away(c) /\ Promise!Enters(c, r, TRUE, b)
    BY <1>2, <2>1, AddEnters DEF HelloCreate
  <2>3. Promise!Opens(c, r, b)
    BY <1>2, <2>1, <2>2 DEF HelloCreate, Promise!Opens
  <2> QED BY <2>3 DEF Promise!Next
<1>3. ASSUME NEW c \in Conn, NEW r \in Code, HelloJoin(c, r)
      PROVE  Promise!Next
  <2>1. openControl[r] \in BOOLEAN /\ People[r] = Members(r)
    BY DEF StoreInv, Base, TypeOK, People
  <2>2. /\ Promise!Away(c)
        /\ Promise!Enters(c, r, Members(r) = {}, openControl[r])
    BY <1>3, <2>1, AddEnters DEF HelloJoin
  <2>3. Cardinality(People[r]) < MaxRoomMembers
    BY <1>3, <2>1, MembersFinite, CapAssumption DEF HelloJoin, Full
  <2>4. Promise!Arrives(c, r)
    BY <1>3, <2>1, <2>2, <2>3
    DEF HelloJoin, Promise!Arrives, Cardinality, Promise!Cardinality
  <2> QED BY <2>4 DEF Promise!Next
<1>4. ASSUME NEW c \in Conn, Closed(c)
      PROVE  Promise!Next \/ UNCHANGED Promise!vars
  <2>1. CASE conns[c] = NoRoom
    BY <1>1, <1>4, <2>1, NoRoomAssumption DEF Closed, memberVars
  <2>2. ASSUME NEW r \in Code, conns[c] = r, Remove(c, r)
        PROVE  Promise!Next
    <3>1. Promise!Departs(c, r)
      BY <1>4, <2>2, RemoveDeparts DEF Closed
    <3> QED BY <3>1 DEF Promise!Next
  <2> QED BY <1>4, <2>1, <2>2 DEF Closed
<1>5. ASSUME NEW c \in Conn, NEW r \in Code, NEW t \in Conn, NEW b \in BOOLEAN,
             \/ SetControl(c, r, t, b)
             \/ TransferHost(c, r, t)
             \/ SetOpenControl(c, r, b)
      PROVE  Promise!Next
  BY <1>5, PermissionPromised DEF Promise!Next
<1>6. ASSUME NEW S \in SUBSET Code, Sweep(S) PROVE Promise!Next
  BY <1>6, SweepForgets DEF Promise!Next
<1>7. ASSUME \/ UNCHANGED vars
             \/ \E c \in Conn : Connect(c) \/ Vanish(c) \/ PeerCloses(c)
             \/ \E S \in SUBSET Conn : CloseSilent(S)
             \/ \E S \in SUBSET Code : Refresh(S)
      PROVE  UNCHANGED Promise!vars
  BY <1>1, <1>7
  DEF vars, Connect, Vanish, PeerCloses, CloseSilent, Refresh, memberVars, storeVars
<1> QED BY <1>2, <1>3, <1>4, <1>5, <1>6, <1>7 DEF Next

LEMMA InitPromised == Init => Promise!Init
<1> SUFFICES ASSUME Init PROVE Promise!Init
  OBVIOUS
<1>1. \A r \in Code : Members(r) = {}
  BY NoRoomAssumption DEF Init, Members
<1>2. People = [r \in Code |-> {}] /\ Leader = [r \in Code |-> NoRoom]
  BY <1>1 DEF People, Leader, LeaderOf
<1>3. Before = {} /\ Drivers = [r \in Code |-> {}]
  BY <1>1 DEF Init, Before, Drivers
<1> QED BY <1>2, <1>3 DEF Init, Promise!Init

(* The store keeps RoomPromise for any number of sockets, rooms and people *)
(* per room: over every order of joins, closes, time-outs, sweeps and      *)
(* permission messages a room has one leader, the longest present follows  *)
(* a leader who goes, and nobody's rights come or go with somebody else.   *)
THEOREM StoreKeepsPromise == Spec => KeepsPromise
<1>1. Init /\ [][Next]_vars => Promise!Init /\ [][Promise!Next]_(Promise!vars)
  BY InitStore, NextStore, InitPromised, NextPromised, PTL
<1> QED BY <1>1 DEF Spec, KeepsPromise, Promise!Spec
=============================================================================
