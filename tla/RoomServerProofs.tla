--------------------------- MODULE RoomServerProofs ---------------------------
(***************************************************************************)
(* Proofs about RoomServer, for any number of sockets, rooms and films;    *)
(* what is proved of RoomMembers' actions holds of it too.                 *)
(***************************************************************************)
EXTENDS RoomServer, TLAPS

P == INSTANCE RoomMembersProofs

LEMMA InitImplements == Init => M!Init
  BY DEF Init

(* A handler that ends in a broadcast and moves nothing else of the        *)
(* membership is a refresh of its room; the status timer refreshes several.*)
LEMMA RefreshImplements ==
  ASSUME NEW R \in SUBSET Code, M!Refresh(R)
  PROVE  M!Next
  BY DEF M!Next

LEMMA ConnectionImplements ==
  ASSUME NEW c \in Conn, Connect(c) \/ Vanish(c) \/ PeerCloses(c) \/ Closed(c)
  PROVE  M!Next
  BY DEF M!Next, Connect, Vanish, PeerCloses, Closed

LEMMA PeopleImplement ==
  ASSUME NEW c \in Conn, NEW r \in Code, NEW t \in Conn, NEW b \in BOOLEAN,
         \/ \E w \in BOOLEAN, m \in Modes : HelloCreate(c, r, b, m, w)
         \/ HelloJoin(c, r)
         \/ SetControl(c, r, t, b)
         \/ TransferHost(c, r, t)
         \/ SetOpenControl(c, r, b)
  PROVE  M!Next
<1>1. \/ M!HelloCreate(c, r, b) \/ M!SetOpenControl(c, r, b)
      \/ M!HelloJoin(c, r)
      \/ M!TransferHost(c, r, t) \/ M!SetControl(c, r, t, b)
  BY DEF HelloCreate, HelloJoin, SetControl, TransferHost, SetOpenControl
<1> QED BY <1>1 DEF M!Next

LEMMA FilmImplements ==
  ASSUME NEW c \in Conn, NEW r \in Code,
         \/ \E f \in Film : MediaAnnounce(c, r, f)
         \/ \E m \in Modes : SetMode(c, r, m)
         \/ MediaClear(c, r)
         \/ StartAnyway(c, r) \/ VoiceState(c, r)
         \/ \E b \in BOOLEAN : SetWaitForLatecomers(c, r, b)
  PROVE  M!Next
<1>1. M!Refresh({r})
  BY DEF MediaAnnounce, SetMode, MediaClear, StartAnyway, VoiceState, Repeat,
     SetWaitForLatecomers, BroadcastState
<1> QED BY <1>1, RefreshImplements

LEMMA QuietImplements ==
  ASSUME NEW c \in Conn, NEW r \in Code,
         \/ \E i \in {"play", "pause", "seek"} : PlaybackRequest(c, r, i)
         \/ \E p \in {"none", "ready"} : PeerReport(c, r, p)
  PROVE  UNCHANGED M!vars
  BY DEF PlaybackRequest, PeerReport, memberStuff, M!vars

LEMMA NextImplements == [Next]_vars => [M!Next]_(M!vars)
<1> SUFFICES ASSUME [Next]_vars PROVE M!Next \/ UNCHANGED M!vars
  OBVIOUS
<1>1. CASE UNCHANGED vars
  BY <1>1 DEF vars, memberStuff, M!vars
<1>2. CASE StatusTick
  <2>1. Changed \in SUBSET Code BY DEF Changed, Occupied
  <2> QED BY <1>2, <2>1, RefreshImplements DEF StatusTick
<1>3. ASSUME NEW S \in SUBSET Conn, CloseSilent(S) PROVE M!Next
  BY <1>3 DEF CloseSilent, M!Next
<1>4. ASSUME NEW S \in SUBSET Code, Sweep(S) PROVE M!Next
  BY <1>4 DEF Sweep, M!Next
<1>5. ASSUME NEW c \in Conn, Connect(c) \/ Vanish(c) \/ PeerCloses(c) \/ Closed(c)
      PROVE  M!Next
  BY <1>5, ConnectionImplements
<1>6. ASSUME NEW c \in Conn, NEW r \in Code, NEW t \in Conn, NEW b \in BOOLEAN,
             \/ \E w \in BOOLEAN, m \in Modes : HelloCreate(c, r, b, m, w)
             \/ HelloJoin(c, r)
             \/ SetControl(c, r, t, b)
             \/ TransferHost(c, r, t)
             \/ SetOpenControl(c, r, b)
      PROVE  M!Next
  BY <1>6, PeopleImplement
<1>7. ASSUME NEW c \in Conn, NEW r \in Code, HelloJoin(c, r) PROVE M!Next
  BY <1>6, <1>7
<1>8. ASSUME NEW c \in Conn, NEW r \in Code,
             \/ \E f \in Film : MediaAnnounce(c, r, f)
             \/ \E m \in Modes : SetMode(c, r, m)
             \/ MediaClear(c, r)
             \/ StartAnyway(c, r) \/ VoiceState(c, r)
             \/ \E b \in BOOLEAN : SetWaitForLatecomers(c, r, b)
      PROVE  M!Next
  BY <1>8, FilmImplements
<1>9. ASSUME NEW c \in Conn, NEW r \in Code,
             \/ \E i \in {"play", "pause", "seek"} : PlaybackRequest(c, r, i)
             \/ \E p \in {"none", "ready"} : PeerReport(c, r, p)
      PROVE  UNCHANGED M!vars
  BY <1>9, QuietImplements
<1> QED
  BY <1>1, <1>2, <1>3, <1>4, <1>5, <1>6, <1>7, <1>8, <1>9 DEF Next

(* RoomServer's handlers are written around RoomMembers' actions, so this  *)
(* says nothing new of the code; it carries over what is proved of them.   *)
LEMMA ServerImplementsMembers == Spec => M!Spec
<1>1. Init /\ [][Next]_vars => M!Init /\ [][M!Next]_(M!vars)
  BY InitImplements, NextImplements, PTL
<1> QED BY <1>1 DEF Spec, M!Spec

LEMMA MembersAssumptions ==
  P!CapAssumption /\ P!ConnAssumption /\ P!NoRoomAssumption
  BY MembersAssumption
  DEF P!CapAssumption, P!ConnAssumption, P!NoRoomAssumption, P!IsFiniteSet,
      IsFiniteSet

(* The two instances name the same specification. *)
LEMMA SameMembers ==
  /\ M!Init <=> P!Init
  /\ [M!Next]_(M!vars) <=> [P!Next]_(P!vars)
  /\ M!RosterCurrent <=> P!RosterCurrent
<1>1. M!Init <=> P!Init
  BY DEF M!Init, P!Init, M!NothingSeen, P!NothingSeen
<1>3. M!Next <=> P!Next
  BY DEF M!Next, P!Next, M!Cardinality, P!Cardinality,
      M!Connect, M!Vanish, M!PeerCloses, M!Closed, M!CloseSilent,
      M!HelloCreate, M!HelloJoin, M!Sweep, M!SetControl,
      M!TransferHost, M!SetOpenControl, M!Refresh, M!Add, M!Remove,
      M!Unheard, M!Occupy, M!Vacate, M!Full, M!Members, M!RosterOf,
      M!LongestOf, M!Audience, M!BroadcastState, M!Speaking,
      M!Writable, M!NothingSeen, M!memberVars, M!storeVars,
      P!Connect, P!Vanish, P!PeerCloses, P!Closed, P!CloseSilent,
      P!HelloCreate, P!HelloJoin, P!Sweep, P!SetControl,
      P!TransferHost, P!SetOpenControl, P!Refresh, P!Add, P!Remove,
      P!Unheard, P!Occupy, P!Vacate, P!Full, P!Members, P!RosterOf,
      P!LongestOf, P!Audience, P!BroadcastState, P!Speaking,
      P!Writable, P!NothingSeen, P!memberVars, P!storeVars
<1>4. M!RosterCurrent <=> P!RosterCurrent
  BY DEF M!RosterCurrent, P!RosterCurrent, M!RosterOf, P!RosterOf, M!Members,
     P!Members, M!Writable, P!Writable
<1>5. UNCHANGED M!vars <=> UNCHANGED P!vars
  BY DEF M!vars, P!vars
<1>6. [M!Next]_(M!vars) <=> [P!Next]_(P!vars)
  BY <1>3, <1>5
<1> QED BY <1>1, <1>4, <1>6

(* So what was proved of the membership holds of the server: for instance, *)
(* that the roster everybody was last sent is current.                     *)
THEOREM ServerRostersCurrent == Spec => []M!RosterCurrent
<1>1. P!Init /\ [][P!Next]_(P!vars) => []P!RosterCurrent
  BY P!RosterCurrentAlways, MembersAssumptions DEF P!Spec
<1>2. M!Init /\ [][M!Next]_(M!vars) => []M!RosterCurrent
  BY <1>1, SameMembers, PTL
<1> QED BY <1>2, ServerImplementsMembers DEF M!Spec
-----------------------------------------------------------------------------
(***************************************************************************)
(* The film.  What the membership guarantees of the connections, then the  *)
(* types of the film half, what everybody was told and the anchors.        *)
(***************************************************************************)
Wired ==
  /\ sock \in [Conn -> M!SockState]
  /\ conns \in [Conn -> Code \cup {NoRoom}]
  /\ memberOf = conns
  /\ rooms \in SUBSET Code
  /\ \A c \in Conn : conns[c] # NoRoom => conns[c] \in rooms
  /\ \A c \in Conn : sock[c] = "new" => conns[c] = NoRoom

LEMMA ServerIsWired == Spec => []Wired
<1>1. P!TypeOK /\ P!RoomsOutliveMembers /\ P!ConnsMatchMembers => Wired
  <2> SUFFICES ASSUME P!TypeOK, P!RoomsOutliveMembers, P!ConnsMatchMembers
               PROVE  Wired
    OBVIOUS
  <2>1. memberOf = conns
    <3>1. \A c \in Conn : memberOf[c] = conns[c]
      BY DEF P!ConnsMatchMembers
    <3> QED BY <3>1 DEF P!TypeOK
  <2> QED
    BY <2>1 DEF P!TypeOK, P!RoomsOutliveMembers, P!ConnsMatchMembers, Wired,
       P!SockState, M!SockState
<1>2. P!Init /\ [][P!Next]_(P!vars) =>
        []P!TypeOK /\ []P!RoomsOutliveMembers /\ []P!ConnsMatchMembers
  BY P!TypeCorrect, P!RoomsOutliveMembersAlways, P!ConnsMatchMembersAlways,
     MembersAssumptions DEF P!Spec
<1>3. M!Init /\ [][M!Next]_(M!vars) => []Wired
  BY <1>1, <1>2, SameMembers, PTL
<1> QED BY <1>3, ServerImplementsMembers DEF M!Spec

LEMMA PhaseTyped == \A r \in Code : Phase(r) \in Phases
  BY DEF Phase, Phases

(* What TellFilm sends and notes is well typed when the room's parts are.  *)
LEMMA TellTyped ==
  ASSUME TypeOK, NEW r \in Code, TellFilm(r),
         media' \in [Code -> Film \cup {NoMedia}], mode' \in [Code -> Modes],
         wait' \in [Code -> BOOLEAN]
  PROVE  told' \in [Conn -> Told] /\ lastPhase' \in [Code -> Phases]
<1>1. Phase(r)' \in Phases
  BY DEF Phase, Phases
<1>2. FilmOf(r)' \in Told
  BY <1>1 DEF FilmOf, Told
<1> QED BY <1>1, <1>2 DEF TellFilm, TypeOK

LEMMA ScheduleTyped ==
  ASSUME TypeOK, NEW r \in Code, Schedule(r),
         playback' \in [Code -> Kinds], seq' \in [Code -> 0..MaxSeq]
  PROVE  sched' \in [Conn -> Anchors]
<1>1. AnchorOf(r)' \in Anchors
  BY DEF AnchorOf, Anchors
<1> QED BY <1>1 DEF Schedule, TypeOK

LEMMA SetMediaTyped ==
  ASSUME TypeOK, Wired, memberOf' = memberOf,
         NEW r \in Code, NEW f \in Film \cup {NoMedia},
         NEW by \in Conn \cup {NoMember}, NEW kind \in Kinds,
         SetMedia(r, f, by, kind)
  PROVE  /\ media' \in [Code -> Film \cup {NoMedia}]
         /\ sharer' \in [Code -> Conn \cup {NoMember}]
         /\ report' \in [Conn -> Reports]
         /\ \A c \in Conn : memberOf'[c] = NoRoom => report'[c] = "none"
         /\ overridden' \in [Code -> BOOLEAN]
         /\ playback' \in [Code -> Kinds]
         /\ seq' \in [Code -> 0..MaxSeq]
<1>1. seq' \in [Code -> 0..MaxSeq]
  BY SeqAssumption DEF TypeOK, SetMedia
<1>2. /\ report' \in [Conn -> Reports]
      /\ \A c \in Conn : memberOf'[c] = NoRoom => report'[c] = "none"
  BY DEF TypeOK, SetMedia, Everyone, Reports
<1> QED BY <1>1, <1>2 DEF TypeOK, SetMedia

LEMMA PeopleTyped ==
  ASSUME TypeOK, Wired,
         NEW c \in Conn, NEW r \in Code, NEW t \in Conn, NEW b \in BOOLEAN,
         \/ \E w \in BOOLEAN, m \in Modes : HelloCreate(c, r, b, m, w)
         \/ HelloJoin(c, r)
         \/ SetControl(c, r, t, b)
         \/ TransferHost(c, r, t)
         \/ SetOpenControl(c, r, b)
  PROVE  TypeOK'
<1>1. ASSUME NEW w \in BOOLEAN, NEW m \in Modes, HelloCreate(c, r, b, m, w)
      PROVE  TypeOK'
  <2>1. /\ wait' \in [Code -> BOOLEAN] /\ mode' \in [Code -> Modes]
        /\ UNCHANGED <<media, sharer, playback, seq, report, overridden, allowed>>
        /\ TellFilm(r)
    BY <1>1 DEF HelloCreate, TypeOK, Modes
  <2>2. told' \in [Conn -> Told] /\ lastPhase' \in [Code -> Phases]
    BY <2>1, TellTyped DEF TypeOK
  <2>3. sched' \in [Conn -> Anchors]
    BY <1>1 DEF HelloCreate, TypeOK, AnchorOf, Anchors
  <2>4. \A d \in Conn : memberOf'[d] = NoRoom => memberOf[d] = NoRoom
    BY <1>1, MembersAssumption DEF HelloCreate, M!HelloCreate, M!Add, Wired
  <2> QED BY <2>1, <2>2, <2>3, <2>4 DEF TypeOK
<1>2. CASE HelloJoin(c, r)
  <2>1. /\ UNCHANGED <<media, sharer, mode, playback, seq, report, overridden,
                       wait, allowed>>
        /\ TellFilm(r)
    BY <1>2 DEF HelloJoin
  <2>2. told' \in [Conn -> Told] /\ lastPhase' \in [Code -> Phases]
    BY <2>1, TellTyped DEF TypeOK
  <2>3. sched' \in [Conn -> Anchors]
    BY <1>2 DEF HelloJoin, TypeOK, AnchorOf, Anchors
  <2>4. \A d \in Conn : memberOf'[d] = NoRoom => memberOf[d] = NoRoom
    BY <1>2, MembersAssumption DEF HelloJoin, M!HelloJoin, M!Add, Wired
  <2> QED BY <2>1, <2>2, <2>3, <2>4 DEF TypeOK
<1>3. CASE SetControl(c, r, t, b) \/ TransferHost(c, r, t) \/ SetOpenControl(c, r, b)
  <2>1. /\ UNCHANGED <<media, sharer, mode, playback, seq, report, overridden,
                       wait, allowed, sched, memberOf>>
        /\ TellFilm(r)
    BY <1>3 DEF SetControl, TransferHost, SetOpenControl, Repeat,
       M!SetControl, M!TransferHost, M!SetOpenControl, M!memberVars
  <2>2. told' \in [Conn -> Told] /\ lastPhase' \in [Code -> Phases]
    BY <2>1, TellTyped DEF TypeOK
  <2> QED BY <2>1, <2>2 DEF TypeOK
<1> QED BY <1>1, <1>2, <1>3

LEMMA FilmTyped ==
  ASSUME TypeOK, Wired, NEW c \in Conn, NEW r \in Code,
         \/ \E f \in Film : MediaAnnounce(c, r, f)
         \/ \E m \in Modes : SetMode(c, r, m)
         \/ MediaClear(c, r)
         \/ StartAnyway(c, r) \/ VoiceState(c, r)
         \/ \E b \in BOOLEAN : SetWaitForLatecomers(c, r, b)
  PROVE  TypeOK'
<1>0. memberOf' = memberOf /\ TellFilm(r)
  BY DEF MediaAnnounce, SetMode, MediaClear, StartAnyway, VoiceState, Repeat,
     SetWaitForLatecomers, BroadcastState, M!Refresh, M!memberVars
<1>1. ASSUME NEW f \in Film, MediaAnnounce(c, r, f) PROVE TypeOK'
  <2>1. /\ SetMedia(r, f, c, "paused") /\ Schedule(r)
        /\ UNCHANGED <<mode, wait>>
        /\ allowed' \in SUBSET P2PFilm
    BY <1>1 DEF MediaAnnounce, TypeOK
  <2>2. /\ media' \in [Code -> Film \cup {NoMedia}]
        /\ sharer' \in [Code -> Conn \cup {NoMember}]
        /\ report' \in [Conn -> Reports]
        /\ \A d \in Conn : memberOf'[d] = NoRoom => report'[d] = "none"
        /\ overridden' \in [Code -> BOOLEAN]
        /\ playback' \in [Code -> Kinds]
        /\ seq' \in [Code -> 0..MaxSeq]
    BY <1>0, <2>1, SetMediaTyped DEF Kinds
  <2>3. told' \in [Conn -> Told] /\ lastPhase' \in [Code -> Phases]
    BY <1>0, <2>1, <2>2, TellTyped DEF TypeOK
  <2>4. sched' \in [Conn -> Anchors]
    BY <2>1, <2>2, ScheduleTyped
  <2> QED BY <2>1, <2>2, <2>3, <2>4 DEF TypeOK
<1>2. ASSUME NEW m \in Modes, SetMode(c, r, m) PROVE TypeOK'
  <2>1. /\ SetMedia(r, NoMedia, c, "paused")
        /\ UNCHANGED <<wait, allowed, sched>>
        /\ mode' \in [Code -> Modes]
    BY <1>2 DEF SetMode, TypeOK
  <2>2. /\ media' \in [Code -> Film \cup {NoMedia}]
        /\ sharer' \in [Code -> Conn \cup {NoMember}]
        /\ report' \in [Conn -> Reports]
        /\ \A d \in Conn : memberOf'[d] = NoRoom => report'[d] = "none"
        /\ overridden' \in [Code -> BOOLEAN]
        /\ playback' \in [Code -> Kinds]
        /\ seq' \in [Code -> 0..MaxSeq]
    BY <1>0, <2>1, SetMediaTyped DEF Kinds
  <2>3. told' \in [Conn -> Told] /\ lastPhase' \in [Code -> Phases]
    BY <1>0, <2>1, <2>2, TellTyped DEF TypeOK
  <2> QED BY <2>1, <2>2, <2>3 DEF TypeOK
<1>3. CASE MediaClear(c, r)
  <2>1. /\ SetMedia(r, NoMedia, NoMember, "idle") /\ Schedule(r)
        /\ UNCHANGED <<mode, wait, allowed>>
    BY <1>3 DEF MediaClear
  <2>2. /\ media' \in [Code -> Film \cup {NoMedia}]
        /\ sharer' \in [Code -> Conn \cup {NoMember}]
        /\ report' \in [Conn -> Reports]
        /\ \A d \in Conn : memberOf'[d] = NoRoom => report'[d] = "none"
        /\ overridden' \in [Code -> BOOLEAN]
        /\ playback' \in [Code -> Kinds]
        /\ seq' \in [Code -> 0..MaxSeq]
    BY <1>0, <2>1, SetMediaTyped DEF Kinds
  <2>3. told' \in [Conn -> Told] /\ lastPhase' \in [Code -> Phases]
    BY <1>0, <2>1, <2>2, TellTyped DEF TypeOK
  <2>4. sched' \in [Conn -> Anchors]
    BY <2>1, <2>2, ScheduleTyped
  <2> QED BY <2>1, <2>2, <2>3, <2>4 DEF TypeOK
<1>4. ASSUME NEW b \in BOOLEAN, StartAnyway(c, r) \/ VoiceState(c, r) \/ SetWaitForLatecomers(c, r, b)
      PROVE  TypeOK'
  <2>1. /\ UNCHANGED <<media, sharer, mode, playback, seq, report, allowed, sched>>
        /\ wait' \in [Code -> BOOLEAN] /\ overridden' \in [Code -> BOOLEAN]
    BY <1>4 DEF StartAnyway, VoiceState, Repeat, SetWaitForLatecomers, TypeOK
  <2>2. told' \in [Conn -> Told] /\ lastPhase' \in [Code -> Phases]
    BY <1>0, <2>1, TellTyped DEF TypeOK
  <2> QED BY <1>0, <2>1, <2>2 DEF TypeOK
<1> QED BY <1>1, <1>2, <1>3, <1>4

LEMMA ConnectionTyped ==
  ASSUME TypeOK, Wired,
         \/ \E c \in Conn : Connect(c) \/ Vanish(c) \/ PeerCloses(c) \/ Closed(c)
         \/ \E S \in SUBSET Conn : CloseSilent(S)
         \/ \E S \in SUBSET Code : Sweep(S)
  PROVE  TypeOK'
<1>1. NothingTold \in Told /\ NoAnchor \in Anchors
  BY SeqAssumption DEF NothingTold, Told, NoAnchor, Anchors, Modes, Phases, Kinds
<1>2. ASSUME NEW c \in Conn, Connect(c) \/ Vanish(c) PROVE TypeOK'
  BY <1>2 DEF Connect, Vanish, M!Connect, M!Vanish, M!memberVars, filmVars, TypeOK
<1>3. ASSUME NEW c \in Conn, PeerCloses(c) PROVE TypeOK'
  BY <1>1, <1>3 DEF PeerCloses, Forget, M!PeerCloses, M!memberVars, TypeOK
<1>4. ASSUME NEW S \in SUBSET Conn, CloseSilent(S) PROVE TypeOK'
  BY <1>1, <1>4 DEF CloseSilent, Forget, M!CloseSilent, M!memberVars, TypeOK
<1>5. ASSUME NEW c \in Conn, Closed(c) PROVE TypeOK'
  <2>1. /\ UNCHANGED <<media, sharer, mode, playback, seq, overridden, wait,
                       allowed, sched>>
        /\ report' = [report EXCEPT ![c] = "none"]
        /\ memberOf' = memberOf \/ memberOf' = [memberOf EXCEPT ![c] = NoRoom]
    BY <1>5 DEF Closed, M!Closed, M!Remove, M!memberVars
  <2>2. told' \in [Conn -> Told] /\ lastPhase' \in [Code -> Phases]
    <3>1. CASE UNCHANGED <<told, lastPhase>>
      BY <3>1 DEF TypeOK
    <3>2. ASSUME NEW r \in Code, TellFilm(r)
          PROVE  told' \in [Conn -> Told] /\ lastPhase' \in [Code -> Phases]
      BY <2>1, <3>2, TellTyped DEF TypeOK
    <3> QED BY <1>5, <3>1, <3>2 DEF Closed
  <2>3. /\ report' \in [Conn -> Reports]
        /\ \A d \in Conn : memberOf'[d] = NoRoom => report'[d] = "none"
    BY <2>1 DEF TypeOK, Reports, Wired
  <2> QED BY <2>1, <2>2, <2>3 DEF TypeOK
<1>6. ASSUME NEW S \in SUBSET Code, Sweep(S) PROVE TypeOK'
  <2>1. seq' \in [Code -> 0..MaxSeq]
    BY <1>6, SeqAssumption DEF Sweep, TypeOK
  <2>2. /\ mode' \in [Code -> Modes] /\ playback' \in [Code -> Kinds]
        /\ lastPhase' \in [Code -> Phases]
    BY <1>6 DEF Sweep, TypeOK, Modes, Kinds, Phases
  <2>3. /\ media' \in [Code -> Film \cup {NoMedia}]
        /\ sharer' \in [Code -> Conn \cup {NoMember}]
        /\ overridden' \in [Code -> BOOLEAN] /\ wait' \in [Code -> BOOLEAN]
    BY <1>6 DEF Sweep, TypeOK
  <2>4. UNCHANGED <<report, allowed, told, sched, memberOf>>
    BY <1>6 DEF Sweep, M!Sweep, M!memberVars
  <2> QED BY <2>1, <2>2, <2>3, <2>4 DEF TypeOK
<1> QED BY <1>2, <1>3, <1>4, <1>5, <1>6

LEMMA QuietTyped ==
  ASSUME TypeOK, Wired,
         \/ StatusTick
         \/ \E c \in Conn, r \in Code :
              \/ \E i \in {"play", "pause", "seek"} : PlaybackRequest(c, r, i)
              \/ \E p \in {"none", "ready"} : PeerReport(c, r, p)
  PROVE  TypeOK'
<1>1. CASE StatusTick
  <2>1. \A r \in Code : Phase(r) \in Phases /\ FilmOf(r) \in Told
    BY PhaseTyped DEF TypeOK, FilmOf, Told
  <2>2. told' \in [Conn -> Told] /\ lastPhase' \in [Code -> Phases]
    BY <1>1, <2>1 DEF StatusTick, TypeOK, Changed, Occupied
  <2> QED
    BY <1>1, <2>2 DEF StatusTick, M!Refresh, M!memberVars, TypeOK
<1>2. ASSUME NEW c \in Conn, NEW r \in Code, NEW i \in {"play", "pause", "seek"},
             PlaybackRequest(c, r, i)
      PROVE  TypeOK'
  <2>1. playback' \in [Code -> Kinds]
    BY <1>2 DEF PlaybackRequest, TypeOK, Kinds
  <2>2. seq' \in [Code -> 0..MaxSeq]
    BY <1>2, SeqAssumption DEF PlaybackRequest, NextSeq, TypeOK
  <2>3. sched' \in [Conn -> Anchors]
    BY <1>2, <2>1, <2>2, ScheduleTyped DEF PlaybackRequest
  <2> QED
    BY <1>2, <2>1, <2>2, <2>3 DEF PlaybackRequest, memberStuff, TypeOK
<1>3. ASSUME NEW c \in Conn, NEW r \in Code, NEW p \in {"none", "ready"},
             PeerReport(c, r, p)
      PROVE  TypeOK'
  BY <1>3, MembersAssumption
  DEF PeerReport, M!Speaking, memberStuff, TypeOK, Reports
<1> QED BY <1>1, <1>2, <1>3

LEMMA InitTyped == Init => TypeOK
  BY SeqAssumption
  DEF Init, TypeOK, Modes, Kinds, Reports, Phases, NothingTold, Told, NoAnchor,
      Anchors

LEMMA NextTyped == TypeOK /\ Wired /\ [Next]_vars => TypeOK'
<1> SUFFICES ASSUME TypeOK, Wired, [Next]_vars PROVE TypeOK'
  OBVIOUS
<1>1. CASE UNCHANGED vars
  BY <1>1 DEF vars, memberStuff, filmVars, TypeOK
<1>2. ASSUME NEW c \in Conn, NEW r \in Code, HelloJoin(c, r) PROVE TypeOK'
  BY <1>2, PeopleTyped
<1> QED
  BY <1>1, <1>2, ConnectionTyped, QuietTyped, PeopleTyped, FilmTyped DEF Next

(* The types of the film half, and that only a member has a report: one    *)
(* who left can neither hold the room back nor make it look ready.         *)
THEOREM FilmTypeCorrect == Spec => []TypeOK
<1>1. Init /\ [][Next]_vars /\ []Wired => []TypeOK
  BY InitTyped, NextTyped, PTL
<1> QED BY <1>1, ServerIsWired DEF Spec
-----------------------------------------------------------------------------
(***************************************************************************)
(* What everybody was told of the film.                                    *)
(***************************************************************************)
(* Nobody becomes writable in a room they were not writable in before,     *)
(* other than in r, and the other rooms' films stay as they are.           *)
OnlyDisturbs(r) ==
  /\ \A d \in Conn : sock'[d] \in M!Writable => sock[d] \in M!Writable
  /\ \A d \in Conn : conns'[d] \in {r, NoRoom, conns[d]}
  /\ \A q \in Code : q # r =>
       /\ media'[q] = media[q] /\ mode'[q] = mode[q] /\ wait'[q] = wait[q]

LEMMA TellKeepsCurrent ==
  ASSUME TypeOK, Wired', FilmCurrent, NEW r \in Code, TellFilm(r), OnlyDisturbs(r)
  PROVE  FilmCurrent'
<1> SUFFICES ASSUME NEW c \in Conn, conns'[c] # NoRoom, sock'[c] \in M!Writable
             PROVE  LET q == conns'[c] IN
                    /\ told'[c].media = media'[q] /\ told'[c].mode = mode'[q]
                    /\ told'[c].wait = wait'[q]
                    /\ told'[c].phase = lastPhase'[q]
  BY DEF FilmCurrent, Reachable
<1>1. CASE conns'[c] = r
  <2>1. told'[c] = FilmOf(r)'
    BY <1>1 DEF TellFilm, M!Audience
  <2>2. lastPhase'[r] = Phase(r)'
    BY DEF TellFilm, TypeOK
  <2>3. /\ FilmOf(r)'.media = media'[r] /\ FilmOf(r)'.mode = mode'[r]
        /\ FilmOf(r)'.wait = wait'[r] /\ FilmOf(r)'.phase = Phase(r)'
    BY DEF FilmOf
  <2> QED BY <1>1, <2>1, <2>2, <2>3
<1>2. CASE conns'[c] # r
  <2>1. conns'[c] = conns[c] /\ sock[c] \in M!Writable /\ conns'[c] \in Code
    BY <1>2 DEF OnlyDisturbs, Wired
  <2>2. told'[c] = told[c]
    BY <1>2 DEF TellFilm, M!Audience
  <2>3. lastPhase'[conns[c]] = lastPhase[conns[c]]
    BY <1>2, <2>1 DEF TellFilm, TypeOK
  <2> QED
    BY <1>2, <2>1, <2>2, <2>3 DEF FilmCurrent, Reachable, OnlyDisturbs
<1> QED BY <1>1, <1>2

LEMMA JoinCurrent ==
  ASSUME TypeOK, Wired, Wired', FilmCurrent, NEW c \in Conn, NEW r \in Code,
         \/ \E b, w \in BOOLEAN, m \in Modes : HelloCreate(c, r, b, m, w)
         \/ HelloJoin(c, r)
  PROVE  FilmCurrent'
<1>1. TellFilm(r) /\ sock' = sock
  BY DEF HelloCreate, HelloJoin, M!HelloCreate, M!HelloJoin
<1>2. \A d \in Conn : conns'[d] \in {r, NoRoom, conns[d]}
  BY DEF HelloCreate, HelloJoin, M!HelloCreate, M!HelloJoin, M!Add, Wired
<1>3. \A q \in Code : q # r =>
        media'[q] = media[q] /\ mode'[q] = mode[q] /\ wait'[q] = wait[q]
  BY DEF HelloCreate, HelloJoin, TypeOK
<1> QED BY <1>1, <1>2, <1>3, TellKeepsCurrent DEF OnlyDisturbs

LEMMA SpokenCurrent ==
  ASSUME TypeOK, Wired, Wired', FilmCurrent,
         NEW c \in Conn, NEW r \in Code,
         \/ \E t \in Conn, b \in BOOLEAN : SetControl(c, r, t, b)
         \/ \E t \in Conn : TransferHost(c, r, t)
         \/ \E b \in BOOLEAN : SetOpenControl(c, r, b) \/ SetWaitForLatecomers(c, r, b)
         \/ \E f \in Film : MediaAnnounce(c, r, f)
         \/ \E m \in Modes : SetMode(c, r, m)
         \/ MediaClear(c, r)
         \/ StartAnyway(c, r) \/ VoiceState(c, r)
  PROVE  FilmCurrent'
<1>1. TellFilm(r) /\ sock' = sock /\ conns' = conns
  BY DEF SetControl, TransferHost, SetOpenControl, SetWaitForLatecomers,
     MediaAnnounce, SetMode, MediaClear, StartAnyway, VoiceState, Repeat,
     BroadcastState,
     M!Refresh, M!SetControl, M!TransferHost, M!SetOpenControl
<1>2. \A q \in Code : q # r =>
        media'[q] = media[q] /\ mode'[q] = mode[q] /\ wait'[q] = wait[q]
  BY DEF SetControl, TransferHost, SetOpenControl, SetWaitForLatecomers,
     MediaAnnounce, SetMode, MediaClear, StartAnyway, VoiceState, Repeat,
     SetMedia, TypeOK
<1> QED BY <1>1, <1>2, TellKeepsCurrent DEF OnlyDisturbs

(* A step that tells nobody anything and moves no room's film.             *)
LEMMA QuietKeepsCurrent ==
  ASSUME FilmCurrent,
         \A d \in Conn : (sock'[d] \in M!Writable /\ conns'[d] # NoRoom) =>
           /\ sock[d] \in M!Writable /\ conns'[d] = conns[d]
           /\ told'[d] = told[d]
           /\ media'[conns[d]] = media[conns[d]] /\ mode'[conns[d]] = mode[conns[d]]
           /\ wait'[conns[d]] = wait[conns[d]]
           /\ lastPhase'[conns[d]] = lastPhase[conns[d]]
  PROVE  FilmCurrent'
  BY DEF FilmCurrent, Reachable

LEMMA NextCurrent == TypeOK /\ Wired /\ Wired' /\ FilmCurrent /\ [Next]_vars => FilmCurrent'
<1> SUFFICES ASSUME TypeOK, Wired, Wired', FilmCurrent, [Next]_vars
             PROVE  FilmCurrent'
  OBVIOUS
<1>1. CASE UNCHANGED vars
  BY <1>1, QuietKeepsCurrent DEF vars, memberStuff, filmVars
<1>2. ASSUME NEW c \in Conn, Connect(c) PROVE FilmCurrent'
  BY <1>2, QuietKeepsCurrent DEF Connect, M!Connect, filmVars, Wired
<1>3. ASSUME NEW c \in Conn, Vanish(c) PROVE FilmCurrent'
  BY <1>3, QuietKeepsCurrent DEF Vanish, M!Vanish, filmVars, Wired, M!Writable
<1>4. ASSUME NEW c \in Conn, PeerCloses(c) PROVE FilmCurrent'
  BY <1>4, QuietKeepsCurrent DEF PeerCloses, M!PeerCloses, Forget, Wired, TypeOK, M!Writable
<1>5. ASSUME NEW S \in SUBSET Conn, CloseSilent(S) PROVE FilmCurrent'
  BY <1>5, QuietKeepsCurrent DEF CloseSilent, M!CloseSilent, Forget, M!Writable
<1>6. ASSUME NEW c \in Conn, Closed(c) PROVE FilmCurrent'
  <2>1. /\ \A d \in Conn : sock'[d] \in M!Writable => sock[d] \in M!Writable
        /\ UNCHANGED <<media, mode, wait>>
    BY <1>6 DEF Closed, M!Closed, Wired, M!Writable
  <2>2. CASE conns[c] = NoRoom
    <3>1. UNCHANGED <<conns, told, lastPhase>>
      BY <1>6, <2>2, MembersAssumption DEF Closed, M!Closed
    <3> QED BY <2>1, <3>1, QuietKeepsCurrent
  <2>3. ASSUME NEW r \in Code, conns[c] = r, TellFilm(r) PROVE FilmCurrent'
    <3>1. \A d \in Conn : conns'[d] \in {r, NoRoom, conns[d]}
      BY <1>6 DEF Closed, M!Closed, M!Remove, Wired
    <3> QED BY <2>1, <2>3, <3>1, TellKeepsCurrent DEF OnlyDisturbs
  <2> QED BY <1>6, <2>2, <2>3 DEF Closed
<1>7. ASSUME NEW S \in SUBSET Code, Sweep(S) PROVE FilmCurrent'
  <2>1. UNCHANGED <<sock, conns, told>> /\ rooms' = rooms \ S
    BY <1>7 DEF Sweep, M!Sweep
  <2>2. \A d \in Conn : conns[d] # NoRoom => conns[d] \in Code /\ conns[d] \notin S
    BY <2>1 DEF Wired
  <2> QED BY <1>7, <2>1, <2>2, QuietKeepsCurrent DEF Sweep
<1>8. CASE StatusTick
  <2> SUFFICES ASSUME NEW c \in Conn, conns[c] # NoRoom, sock[c] \in M!Writable
               PROVE  LET q == conns[c] IN
                      /\ told'[c].media = media[q] /\ told'[c].mode = mode[q]
                      /\ told'[c].wait = wait[q]
                      /\ told'[c].phase = lastPhase'[q]
    BY <1>8 DEF StatusTick, M!Refresh, FilmCurrent, Reachable
  <2>0. conns[c] \in Code
    BY DEF Wired
  <2>1. CASE conns[c] \in Changed
    BY <1>8, <2>0, <2>1 DEF StatusTick, FilmOf
  <2>2. CASE conns[c] \notin Changed
    BY <1>8, <2>0, <2>2 DEF StatusTick, FilmCurrent, Reachable
  <2> QED BY <2>1, <2>2
<1>9. ASSUME NEW c \in Conn, NEW r \in Code,
             \/ \E i \in {"play", "pause", "seek"} : PlaybackRequest(c, r, i)
             \/ \E p \in {"none", "ready"} : PeerReport(c, r, p)
      PROVE  FilmCurrent'
  BY <1>9, QuietKeepsCurrent DEF PlaybackRequest, PeerReport, memberStuff
<1> QED
  BY <1>1, <1>2, <1>3, <1>4, <1>5, <1>6, <1>7, <1>8, <1>9, JoinCurrent,
     SpokenCurrent DEF Next

(* Everybody in a room has been told of its film, mode and settings as     *)
(* they are, and of the phase the server noted: no film handler forgets    *)
(* its broadcast, for any number of people and rooms.                      *)
THEOREM FilmCurrentAlways == Spec => []FilmCurrent
<1>1. Init => FilmCurrent
  BY DEF Init, M!Init, FilmCurrent, Reachable
<1>2. Init /\ [][Next]_vars /\ []Wired /\ []TypeOK => []FilmCurrent
  BY <1>1, NextCurrent, PTL
<1> QED BY <1>2, ServerIsWired, FilmTypeCorrect DEF Spec
-----------------------------------------------------------------------------
(***************************************************************************)
(* Anchors.                                                                *)
(***************************************************************************)
(* A step that moves no anchor of a room with a film on, and sends none.   *)
LEMMA QuietKeepsAnchor ==
  ASSUME AnchorCurrentWithFilm,
         \A d \in Conn :
           (/\ sock'[d] \in M!Writable /\ conns'[d] # NoRoom
            /\ media'[conns'[d]] # NoMedia) =>
           /\ sock[d] \in M!Writable /\ conns'[d] = conns[d]
           /\ sched'[d] = sched[d]
           /\ media[conns[d]] # NoMedia
           /\ playback'[conns[d]] = playback[conns[d]]
           /\ seq'[conns[d]] = seq[conns[d]]
  PROVE  AnchorCurrentWithFilm'
  BY DEF AnchorCurrentWithFilm, Reachable, AnchorOf

LEMMA ScheduleKeepsAnchor ==
  ASSUME AnchorCurrentWithFilm, NEW r \in Code, Schedule(r),
         UNCHANGED <<sock, conns>>,
         \A q \in Code : q # r =>
           media'[q] = media[q] /\ playback'[q] = playback[q] /\ seq'[q] = seq[q],
         Wired
  PROVE  AnchorCurrentWithFilm'
<1> SUFFICES ASSUME NEW c \in Conn, conns[c] # NoRoom, sock[c] \in M!Writable,
                    media'[conns[c]] # NoMedia
             PROVE  sched'[c] = [kind |-> playback'[conns[c]], seq |-> seq'[conns[c]]]
  BY DEF AnchorCurrentWithFilm, Reachable, AnchorOf
<1>0. conns[c] \in Code BY DEF Wired
<1>1. CASE conns[c] = r
  BY <1>1 DEF Schedule, M!Audience, AnchorOf
<1>2. CASE conns[c] # r
  BY <1>0, <1>2 DEF Schedule, M!Audience, AnchorCurrentWithFilm, Reachable, AnchorOf
<1> QED BY <1>1, <1>2

LEMMA JoinAnchor ==
  ASSUME TypeOK, Wired, Wired', AnchorCurrentWithFilm,
         NEW c \in Conn, NEW r \in Code,
         \/ \E b, w \in BOOLEAN, m \in Modes : HelloCreate(c, r, b, m, w)
         \/ HelloJoin(c, r)
  PROVE  AnchorCurrentWithFilm'
<1>1. /\ sock' = sock /\ conns' = [conns EXCEPT ![c] = r]
      /\ sched' = [sched EXCEPT ![c] = AnchorOf(r)]
      /\ UNCHANGED <<media, playback, seq>>
  BY DEF HelloCreate, HelloJoin, M!HelloCreate, M!HelloJoin, M!Add
<1> SUFFICES ASSUME NEW d \in Conn, conns'[d] # NoRoom, sock[d] \in M!Writable,
                    media[conns'[d]] # NoMedia
             PROVE  sched'[d] = [kind |-> playback[conns'[d]], seq |-> seq[conns'[d]]]
  BY <1>1 DEF AnchorCurrentWithFilm, Reachable, AnchorOf
<1>2. CASE d = c
  BY <1>1, <1>2 DEF TypeOK, Wired, AnchorOf
<1>3. CASE d # c
  BY <1>1, <1>3 DEF TypeOK, Wired, AnchorCurrentWithFilm, Reachable, AnchorOf
<1> QED BY <1>2, <1>3

LEMMA NextAnchor ==
  TypeOK /\ Wired /\ Wired' /\ AnchorCurrentWithFilm /\ [Next]_vars
    => AnchorCurrentWithFilm'
<1> SUFFICES ASSUME TypeOK, Wired, Wired', AnchorCurrentWithFilm, [Next]_vars
             PROVE  AnchorCurrentWithFilm'
  OBVIOUS
<1>1. CASE UNCHANGED <<sock, conns, media, playback, seq, sched>>
  BY <1>1, QuietKeepsAnchor
<1>2. ASSUME NEW c \in Conn, Connect(c) \/ Vanish(c) PROVE AnchorCurrentWithFilm'
  BY <1>2, QuietKeepsAnchor
  DEF Connect, M!Connect, Vanish, M!Vanish, filmVars, Wired, M!Writable
<1>3. ASSUME NEW c \in Conn, PeerCloses(c) PROVE AnchorCurrentWithFilm'
  BY <1>3, QuietKeepsAnchor
  DEF PeerCloses, M!PeerCloses, Forget, Wired, TypeOK, M!Writable
<1>4. ASSUME NEW S \in SUBSET Conn, CloseSilent(S) PROVE AnchorCurrentWithFilm'
  BY <1>4, QuietKeepsAnchor DEF CloseSilent, M!CloseSilent, Forget, M!Writable
<1>5. ASSUME NEW c \in Conn, Closed(c) PROVE AnchorCurrentWithFilm'
  <2>1. /\ \A d \in Conn : sock'[d] \in M!Writable => sock[d] \in M!Writable
        /\ UNCHANGED <<media, playback, seq, sched>>
        /\ \A d \in Conn : conns'[d] \in {NoRoom, conns[d]}
    BY <1>5 DEF Closed, M!Closed, M!Remove, Wired, M!Writable
  <2> QED BY <2>1, QuietKeepsAnchor
<1>6. ASSUME NEW S \in SUBSET Code, Sweep(S) PROVE AnchorCurrentWithFilm'
  <2>1. UNCHANGED <<sock, conns, sched>> /\ rooms' = rooms \ S
    BY <1>6 DEF Sweep, M!Sweep
  <2>2. \A d \in Conn : conns[d] # NoRoom => conns[d] \in Code /\ conns[d] \notin S
    BY <2>1 DEF Wired
  <2> QED BY <1>6, <2>1, <2>2, QuietKeepsAnchor DEF Sweep
<1>7. ASSUME NEW c \in Conn, NEW r \in Code,
             \/ \E f \in Film : MediaAnnounce(c, r, f)
             \/ MediaClear(c, r)
             \/ \E i \in {"play", "pause", "seek"} : PlaybackRequest(c, r, i)
      PROVE  AnchorCurrentWithFilm'
  <2>1. Schedule(r) /\ UNCHANGED <<sock, conns>>
    BY <1>7 DEF MediaAnnounce, MediaClear, PlaybackRequest, BroadcastState,
       M!Refresh, memberStuff
  <2>2. \A q \in Code : q # r =>
           media'[q] = media[q] /\ playback'[q] = playback[q] /\ seq'[q] = seq[q]
    BY <1>7 DEF MediaAnnounce, MediaClear, PlaybackRequest, SetMedia, NextSeq, TypeOK
  <2> QED BY <2>1, <2>2, ScheduleKeepsAnchor
<1>8. ASSUME NEW c \in Conn, NEW r \in Code, NEW m \in Modes, SetMode(c, r, m)
      PROVE  AnchorCurrentWithFilm'
  <2>1. /\ UNCHANGED <<sock, conns, sched>> /\ media'[r] = NoMedia
        /\ \A q \in Code : q # r =>
             media'[q] = media[q] /\ playback'[q] = playback[q] /\ seq'[q] = seq[q]
    BY <1>8 DEF SetMode, SetMedia, BroadcastState, M!Refresh, TypeOK
  <2>2. \A d \in Conn : conns[d] # NoRoom => conns[d] \in Code
    BY DEF Wired
  <2> QED BY <2>1, <2>2, QuietKeepsAnchor
<1>9. Next => \/ UNCHANGED <<sock, conns, media, playback, seq, sched>>
              \/ \E c \in Conn : Connect(c) \/ Vanish(c) \/ PeerCloses(c) \/ Closed(c)
              \/ \E S \in SUBSET Conn : CloseSilent(S)
              \/ \E S \in SUBSET Code : Sweep(S)
              \/ \E c \in Conn, r \in Code :
                   \/ \E b, w \in BOOLEAN, m \in Modes : HelloCreate(c, r, b, m, w)
                   \/ HelloJoin(c, r)
                   \/ \E f \in Film : MediaAnnounce(c, r, f)
                   \/ MediaClear(c, r)
                   \/ \E i \in {"play", "pause", "seek"} : PlaybackRequest(c, r, i)
                   \/ \E m \in Modes : SetMode(c, r, m)
  <2>1. StatusTick => UNCHANGED <<sock, conns, media, playback, seq, sched>>
    BY DEF StatusTick, M!Refresh
  <2>2. ASSUME NEW c \in Conn, NEW r \in Code, NEW t \in Conn, NEW b \in BOOLEAN,
               \/ SetControl(c, r, t, b) \/ TransferHost(c, r, t)
               \/ SetOpenControl(c, r, b)
        PROVE  UNCHANGED <<sock, conns, media, playback, seq, sched>>
    BY <2>2 DEF SetControl, TransferHost, SetOpenControl, Repeat,
       M!SetControl, M!TransferHost, M!SetOpenControl
  <2>3. ASSUME NEW c \in Conn, NEW r \in Code, NEW b \in BOOLEAN,
               StartAnyway(c, r) \/ VoiceState(c, r) \/ SetWaitForLatecomers(c, r, b)
        PROVE  UNCHANGED <<sock, conns, media, playback, seq, sched>>
    BY <2>3 DEF StartAnyway, VoiceState, Repeat, SetWaitForLatecomers,
       BroadcastState, M!Refresh
  <2>4. ASSUME NEW c \in Conn, NEW r \in Code, NEW p \in {"none", "ready"},
               PeerReport(c, r, p)
        PROVE  UNCHANGED <<sock, conns, media, playback, seq, sched>>
    BY <2>4 DEF PeerReport, memberStuff
  <2> QED BY <2>1, <2>2, <2>3, <2>4 DEF Next
<1> QED
  BY <1>1, <1>2, <1>3, <1>4, <1>5, <1>6, <1>7, <1>8, <1>9, JoinAnchor
  DEF vars, memberStuff, filmVars

(* While a film is on, everybody the room can write to holds its latest    *)
(* anchor: a newcomer, and everybody through every request.                *)
THEOREM AnchorCurrentAlways == Spec => []AnchorCurrentWithFilm
<1>1. Init => AnchorCurrentWithFilm
  BY DEF Init, M!Init, AnchorCurrentWithFilm, Reachable
<1>2. Init /\ [][Next]_vars /\ []Wired /\ []TypeOK => []AnchorCurrentWithFilm
  BY <1>1, NextAnchor, PTL
<1> QED BY <1>2, ServerIsWired, FilmTypeCorrect DEF Spec
-----------------------------------------------------------------------------
(***************************************************************************)
(* What a step may do to a film and to its anchor.                         *)
(***************************************************************************)
(* The handlers that touch what is on or where it stands. *)
LEMMA FilmMovers ==
  ASSUME Next
  PROVE  \/ UNCHANGED <<media, playback, seq>>
         \/ \E S \in SUBSET Code : Sweep(S)
         \/ \E c \in Conn, q \in Code :
              \/ \E f \in Film : MediaAnnounce(c, q, f)
              \/ MediaClear(c, q) \/ \E m \in Modes : SetMode(c, q, m)
              \/ \E i \in {"play", "pause", "seek"} : PlaybackRequest(c, q, i)
<1>1. StatusTick => UNCHANGED <<media, playback, seq>>
  BY DEF StatusTick
<1>2. ASSUME NEW c \in Conn, Connect(c) \/ Vanish(c) \/ PeerCloses(c) \/ Closed(c)
      PROVE  UNCHANGED <<media, playback, seq>>
  BY <1>2 DEF Connect, Vanish, PeerCloses, Closed, filmVars
<1>3. ASSUME NEW S \in SUBSET Conn, CloseSilent(S)
      PROVE  UNCHANGED <<media, playback, seq>>
  BY <1>3 DEF CloseSilent
<1>4. ASSUME NEW c \in Conn, NEW r \in Code, NEW t \in Conn, NEW b \in BOOLEAN,
             \/ \E w \in BOOLEAN, m \in Modes : HelloCreate(c, r, b, m, w)
             \/ HelloJoin(c, r)
             \/ SetControl(c, r, t, b) \/ TransferHost(c, r, t)
             \/ SetOpenControl(c, r, b)
      PROVE  UNCHANGED <<media, playback, seq>>
  BY <1>4 DEF HelloCreate, HelloJoin, SetControl, TransferHost, SetOpenControl,
     Repeat
<1>5. ASSUME NEW c \in Conn, NEW r \in Code, NEW b \in BOOLEAN,
             \/ StartAnyway(c, r) \/ VoiceState(c, r) \/ SetWaitForLatecomers(c, r, b)
             \/ HelloJoin(c, r)
             \/ \E p \in {"none", "ready"} : PeerReport(c, r, p)
      PROVE  UNCHANGED <<media, playback, seq>>
  BY <1>5 DEF StartAnyway, VoiceState, Repeat, SetWaitForLatecomers,
     HelloJoin, PeerReport
<1> QED BY <1>1, <1>2, <1>3, <1>4, <1>5 DEF Next

(* Only announcing puts a film on.                                         *)
LEMMA OnlyAnnounceShows ==
  ASSUME TypeOK, Wired, Next, NEW r \in Code, media'[r] # media[r],
         media'[r] # NoMedia
  PROVE  \E c \in Conn, f \in Film : MediaAnnounce(c, r, f)
<1>1. ASSUME NEW c \in Conn, NEW q \in Code, NEW f \in Film, MediaAnnounce(c, q, f)
      PROVE  q = r
  BY <1>1 DEF MediaAnnounce, SetMedia, TypeOK
<1>2. ASSUME NEW c \in Conn, NEW q \in Code,
             MediaClear(c, q) \/ \E m \in Modes : SetMode(c, q, m)
      PROVE  FALSE
  BY <1>2 DEF MediaClear, SetMode, SetMedia, TypeOK
<1>3. ASSUME NEW S \in SUBSET Code, Sweep(S) PROVE FALSE
  BY <1>3 DEF Sweep
<1>4. ASSUME NEW c \in Conn, NEW q \in Code, NEW i \in {"play", "pause", "seek"},
             PlaybackRequest(c, q, i)
      PROVE  FALSE
  BY <1>4 DEF PlaybackRequest
<1> QED BY <1>1, <1>2, <1>3, <1>4, FilmMovers

LEMMA AnnounceClosesGate ==
  ASSUME TypeOK, Wired, NEW c \in Conn, NEW r \in Code, NEW f \in Film,
         MediaAnnounce(c, r, f)
  PROVE  Phase(r)' = "preparing"
<1>1. /\ media'[r] = f /\ playback'[r] = "paused" /\ overridden'[r] = FALSE
      /\ report' = Everyone(r, "none")
  BY DEF MediaAnnounce, SetMedia, TypeOK
<1>2. memberOf' = memberOf /\ memberOf[c] = r
  BY DEF MediaAnnounce, BroadcastState, M!Refresh, M!memberVars, M!Speaking
<1>3. c \in Members(r)' /\ report'[c] = "none"
  BY <1>1, <1>2 DEF Members, M!Members, Everyone
<1>4. f # NoMedia
  BY FilmAssumption
<1> QED BY <1>1, <1>3, <1>4 DEF Phase

(* A film just put on is never ready nor playing, whatever its predecessor *)
(* left behind: reports, an override or a running clock.                   *)
THEOREM NewFilmIsGated == Spec => NewFilmClosesGate
<1>1. TypeOK /\ Wired /\ [Next]_vars =>
        [\A r \in Code : (media'[r] # media[r] /\ media'[r] # NoMedia)
                           => Phase(r)' = "preparing"]_vars
  BY OnlyAnnounceShows, AnnounceClosesGate
<1>2. Init /\ [][Next]_vars /\ []Wired /\ []TypeOK => NewFilmClosesGate
  BY <1>1, PTL DEF NewFilmClosesGate
<1> QED BY <1>2, ServerIsWired, FilmTypeCorrect DEF Spec

LEMMA NumberedStep ==
  ASSUME TypeOK, Wired, Next, NEW r \in rooms \cap rooms'
  PROVE  /\ playback'[r] # playback[r] => seq'[r] > seq[r]
         /\ seq'[r] >= seq[r]
<1>0. r \in Code /\ seq[r] \in Nat
  BY DEF Wired, TypeOK
<1>1. CASE UNCHANGED <<playback, seq>>
  BY <1>0, <1>1
<1>2. ASSUME NEW q \in Code, seq' = [seq EXCEPT ![q] = @ + 1],
             \A p \in Code : p # q => playback'[p] = playback[p]
      PROVE  /\ playback'[r] # playback[r] => seq'[r] > seq[r]
             /\ seq'[r] >= seq[r]
  BY <1>0, <1>2 DEF TypeOK
<1>3. ASSUME NEW c \in Conn, NEW q \in Code,
             \/ \E f \in Film : MediaAnnounce(c, q, f)
             \/ MediaClear(c, q) \/ \E m \in Modes : SetMode(c, q, m)
             \/ \E i \in {"play", "pause", "seek"} : PlaybackRequest(c, q, i)
      PROVE  /\ seq' = [seq EXCEPT ![q] = @ + 1]
             /\ \A p \in Code : p # q => playback'[p] = playback[p]
  BY <1>3 DEF MediaAnnounce, MediaClear, SetMode, SetMedia, PlaybackRequest,
     NextSeq, TypeOK
<1>4. ASSUME NEW S \in SUBSET Code, Sweep(S)
      PROVE  playback'[r] = playback[r] /\ seq'[r] = seq[r]
  BY <1>0, <1>4 DEF Sweep, M!Sweep
<1> QED BY <1>0, <1>1, <1>2, <1>3, <1>4, FilmMovers

(* While a room lives its anchors are numbered: playback changes only      *)
(* under a new number, and numbers never go back.                          *)
THEOREM AnchorsNumbered == Spec => AnchorsAreNumbered
<1>1. TypeOK /\ Wired /\ [Next]_vars =>
        [\A r \in rooms \cap rooms' :
           /\ playback'[r] # playback[r] => seq'[r] > seq[r]
           /\ seq'[r] >= seq[r]]_vars
  BY NumberedStep
<1>2. Init /\ [][Next]_vars /\ []Wired /\ []TypeOK => AnchorsAreNumbered
  BY <1>1, PTL DEF AnchorsAreNumbered
<1> QED BY <1>2, ServerIsWired, FilmTypeCorrect DEF Spec
=============================================================================
