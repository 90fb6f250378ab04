------------------------------ MODULE RoomServer ------------------------------
(***************************************************************************)
(* A whole room: RoomMembers, plus the film.  The rest of                  *)
(* apps/server/src/room.ts and of the message handlers in server.ts: what  *)
(* is on, how it is shared, where playback stands, what everybody has      *)
(* reported, and what the clients have last been told of all that.         *)
(*                                                                         *)
(* Each handler is a step of RoomMembers together with its effect on the   *)
(* film, so this specification implements RoomMembers'.                    *)
(*                                                                         *)
(* Playback is abstracted to its kind and its sequence number: the pair    *)
(* identifies an anchor.  A report is abstracted to whether it makes its   *)
(* sender ready.  Whether a seek is refused depends on the piece maps      *)
(* (module Readiness); here any seek may go ahead, and one refused is no   *)
(* step at all.  Chat lines, logging and transfer.status change nothing    *)
(* that is modelled here.                                                  *)
(***************************************************************************)
EXTENDS Naturals, FiniteSets

CONSTANTS
  Conn, Code, NoRoom, MaxRoomMembers,
  P2PFilm, OriginFilm, LocalFilm,   \* films by the kind of their source
  NoMedia, NoMember,
  OriginConfigured,                 \* does this server have relay storage?
  MaxSeq                            \* bound on a room's sequence number

Film == P2PFilm \cup OriginFilm \cup LocalFilm

ASSUME MembersAssumption ==
  /\ MaxRoomMembers \in Nat \ {0} /\ IsFiniteSet(Conn) /\ NoRoom \notin Code
ASSUME FilmAssumption == NoMedia \notin Film /\ NoMember \notin Conn
ASSUME OriginAssumption == OriginConfigured \in BOOLEAN
ASSUME SeqAssumption == MaxSeq \in Nat

VARIABLES
  sock, heard, rooms, vacant, conns, memberOf, arrivals, arrival, host,
  control, openControl, seen,
  media,            \* per room: the film that is on
  sharer,           \* per room: who put it on
  mode,             \* per room: how films are shared
  playback,         \* per room: the kind of the playback state
  seq,              \* per room: the number of the last anchor
  report,           \* per member: their last report, as the room keeps it
  overridden,       \* per room: startOverridden
  wait,             \* per room: waitForLatecomers
  lastPhase,        \* per room: lastBroadcastPhase
  allowed,          \* info hashes the tracker answers for
  told,             \* the film in the last room.state on each writable socket
  sched             \* the anchor in the last playback.schedule on each

\* Membership is kept as RoomMembers has it, under the same variables.
M == INSTANCE RoomMembers
       WITH sock <- sock, heard <- heard, rooms <- rooms, vacant <- vacant, conns <- conns,
            memberOf <- memberOf, arrivals <- arrivals, arrival <- arrival, host <- host,
            control <- control, openControl <- openControl, seen <- seen

memberStuff == <<sock, heard, rooms, vacant, conns, memberOf, arrivals,
                 arrival, host, control, openControl, seen>>
filmVars == <<media, sharer, mode, playback, seq, report, overridden, wait,
              lastPhase, allowed, told, sched>>
vars == <<memberStuff, filmVars>>

Phases == {"lobby", "preparing", "ready", "playing"}
Modes == {"p2p", "origin"}
Kinds == {"idle", "paused", "playing"}
Reports == {"none", "ready"}  \* whether a report makes its sender ready

NothingTold == [media |-> NoMedia, mode |-> "p2p", wait |-> TRUE,
                phase |-> "lobby"]
NoAnchor == [kind |-> "idle", seq |-> 0]

-----------------------------------------------------------------------------
Members(r) == M!Members(r)
Everyone(r, v) == [c \in Conn |-> IF c \in Members(r) THEN v ELSE report[c]]

(* Room.phase, through phaseFor: a member who has not reported is not      *)
(* ready, and nobody at all is not "everybody".                            *)
Phase(r) ==
  CASE media[r] = NoMedia -> "lobby"
    [] media[r] # NoMedia /\ playback[r] = "playing" -> "playing"
    [] /\ media[r] # NoMedia /\ playback[r] # "playing"
       /\ \/ overridden[r]
          \/ Members(r) # {} /\ \A c \in Members(r) : report[c] = "ready"
       -> "ready"
    [] OTHER -> "preparing"

FilmOf(r) == [media |-> media[r], mode |-> mode[r], wait |-> wait[r],
              phase |-> Phase(r)]
AnchorOf(r) == [kind |-> playback[r], seq |-> seq[r]]

(* Mutation: the phase is worked out again for the message but the note of *)
(* what was sent is not.                                                   *)
TellFilmKeepingPhase(r) ==
  /\ told' = [c \in Conn |-> IF c \in M!Audience(r) THEN FilmOf(r)' ELSE told[c]]
  /\ UNCHANGED lastPhase

(* The film's share of broadcastState. *)
TellFilm(r) ==
  /\ told' = [c \in Conn |-> IF c \in M!Audience(r) THEN FilmOf(r)' ELSE told[c]]
  /\ lastPhase' = [lastPhase EXCEPT ![r] = Phase(r)']

BroadcastState(r) == M!Refresh({r}) /\ TellFilm(r)

Schedule(r) ==
  sched' = [c \in Conn |-> IF c \in M!Audience(r) THEN AnchorOf(r)' ELSE sched[c]]

(* Mutation: a new film keeps the old one's reports. *)
SetMediaKeepingReports(r, f, by, kind) ==
  /\ seq[r] < MaxSeq
  /\ media' = [media EXCEPT ![r] = f]
  /\ sharer' = [sharer EXCEPT ![r] = by]
  /\ overridden' = [overridden EXCEPT ![r] = FALSE]
  /\ playback' = [playback EXCEPT ![r] = kind]
  /\ seq' = [seq EXCEPT ![r] = @ + 1]
  /\ UNCHANGED report

(* Room.setMedia, and Room.clearMedia with nothing to put on: both forget  *)
(* the reports and the override, which described the previous film.        *)
SetMedia(r, f, by, kind) ==
  /\ seq[r] < MaxSeq
  /\ media' = [media EXCEPT ![r] = f]
  /\ sharer' = [sharer EXCEPT ![r] = by]
  /\ report' = Everyone(r, "none")
  /\ overridden' = [overridden EXCEPT ![r] = FALSE]
  /\ playback' = [playback EXCEPT ![r] = kind]
  /\ seq' = [seq EXCEPT ![r] = @ + 1]

(* What nobody can write to any more has nothing left to be told. *)
Forget(S) ==
  /\ told' = [c \in Conn |-> IF c \in S THEN NothingTold ELSE told[c]]
  /\ sched' = [c \in Conn |-> IF c \in S THEN NoAnchor ELSE sched[c]]

-----------------------------------------------------------------------------
Init ==
  /\ M!Init
  /\ media = [r \in Code |-> NoMedia]
  /\ sharer = [r \in Code |-> NoMember]
  /\ mode = [r \in Code |-> "p2p"]
  /\ playback = [r \in Code |-> "idle"]
  /\ seq = [r \in Code |-> 0]
  /\ report = [c \in Conn |-> "none"]
  /\ overridden = [r \in Code |-> FALSE]
  /\ wait = [r \in Code |-> TRUE]
  /\ lastPhase = [r \in Code |-> "lobby"]
  /\ allowed = {}
  /\ told = [c \in Conn |-> NothingTold]
  /\ sched = [c \in Conn |-> NoAnchor]

(***************************************************************************)
(* Connections                                                             *)
(***************************************************************************)
Connect(c) == M!Connect(c) /\ UNCHANGED filmVars

Vanish(c) == M!Vanish(c) /\ UNCHANGED filmVars

PeerCloses(c) ==
  /\ M!PeerCloses(c)
  /\ Forget({c})
  /\ UNCHANGED <<media, sharer, mode, playback, seq, report, overridden, wait,
                 lastPhase, allowed>>

CloseSilent(S) ==
  /\ M!CloseSilent(S)
  /\ Forget(S)
  /\ UNCHANGED <<media, sharer, mode, playback, seq, report, overridden, wait,
                 lastPhase, allowed>>

(* The sharer's name stays on the film when they leave. *)
Closed(c) ==
  /\ M!Closed(c)
  /\ report' = [report EXCEPT ![c] = "none"]
  /\ UNCHANGED <<media, sharer, mode, playback, seq, overridden, wait, allowed,
                 sched>>
  /\ \/ conns[c] = NoRoom /\ UNCHANGED <<told, lastPhase>>
     \/ \E r \in Code : conns[c] = r /\ TellFilm(r)

(* The relay is granted to a creator only where there is storage for it. *)
HelloCreate(c, r, open, m, w) ==
  /\ M!HelloCreate(c, r, open)
  /\ mode' = [mode EXCEPT ![r] = IF OriginConfigured THEN m ELSE "p2p"]
  /\ wait' = [wait EXCEPT ![r] = w]
  /\ UNCHANGED <<media, sharer, playback, seq, report, overridden, allowed>>
  /\ TellFilm(r)
  /\ sched' = [sched EXCEPT ![c] = AnchorOf(r)]

(* Mutation: the newcomer waits for the next change to learn the anchor. *)
HelloJoinUnscheduled(c, r) ==
  /\ M!HelloJoin(c, r)
  /\ UNCHANGED <<media, sharer, mode, playback, seq, report, overridden, wait,
                 allowed, sched>>
  /\ TellFilm(r)

HelloJoin(c, r) ==
  /\ M!HelloJoin(c, r)
  /\ UNCHANGED <<media, sharer, mode, playback, seq, report, overridden, wait,
                 allowed>>
  /\ TellFilm(r)
  /\ sched' = [sched EXCEPT ![c] = AnchorOf(r)]

(* A swept room is gone; its code stands for a fresh one from here on. *)
Sweep(S) ==
  /\ M!Sweep(S)
  /\ media' = [r \in Code |-> IF r \in S THEN NoMedia ELSE media[r]]
  /\ sharer' = [r \in Code |-> IF r \in S THEN NoMember ELSE sharer[r]]
  /\ mode' = [r \in Code |-> IF r \in S THEN "p2p" ELSE mode[r]]
  /\ playback' = [r \in Code |-> IF r \in S THEN "idle" ELSE playback[r]]
  /\ seq' = [r \in Code |-> IF r \in S THEN 0 ELSE seq[r]]
  /\ overridden' = [r \in Code |-> IF r \in S THEN FALSE ELSE overridden[r]]
  /\ wait' = [r \in Code |-> IF r \in S THEN TRUE ELSE wait[r]]
  /\ lastPhase' = [r \in Code |-> IF r \in S THEN "lobby" ELSE lastPhase[r]]
  /\ UNCHANGED <<report, allowed, told, sched>>

(***************************************************************************)
(* Permissions, which move nothing of the film but repeat its state        *)
(***************************************************************************)
Repeat(r) ==
  /\ UNCHANGED <<media, sharer, mode, playback, seq, report, overridden, wait,
                 allowed, sched>>
  /\ TellFilm(r)

(* Mutation: the host may be stripped of control too. *)
SetControlOfAnyone(c, r, t, may) == M!SetControlOfAnyone(c, r, t, may) /\ Repeat(r)

SetControl(c, r, t, may) == M!SetControl(c, r, t, may) /\ Repeat(r)
TransferHost(c, r, t) == M!TransferHost(c, r, t) /\ Repeat(r)
SetOpenControl(c, r, open) == M!SetOpenControl(c, r, open) /\ Repeat(r)

(***************************************************************************)
(* The film                                                                *)
(***************************************************************************)
(* media.announce: any member, whatever their permissions, and whatever    *)
(* the room's mode.                                                        *)
MediaAnnounce(c, r, f) ==
  /\ M!Speaking(c, r)
  /\ SetMedia(r, f, c, "paused")
  /\ allowed' = IF f \in P2PFilm THEN allowed \cup {f} ELSE allowed
  /\ UNCHANGED <<mode, wait>>
  /\ BroadcastState(r)
  /\ Schedule(r)

(* room.setMode: puts an empty film on and takes it off again, which       *)
(* leaves playback paused at the start.  No schedule is sent.              *)
SetMode(c, r, m) ==
  /\ M!Speaking(c, r) /\ c \in host
  /\ m = "origin" => OriginConfigured
  /\ m # mode[r]
  /\ mode' = [mode EXCEPT ![r] = m]
  /\ SetMedia(r, NoMedia, c, "paused")
  /\ UNCHANGED <<wait, allowed, sched>>
  /\ BroadcastState(r)

MediaClear(c, r) ==
  /\ M!Speaking(c, r) /\ (c \in host \/ sharer[r] = c)
  /\ SetMedia(r, NoMedia, NoMember, "idle")
  /\ UNCHANGED <<mode, wait, allowed>>
  /\ BroadcastState(r)
  /\ Schedule(r)

NextSeq(r) == [seq EXCEPT ![r] = @ + 1]

(* playback.request and Room.apply.  A seek keeps a playing room playing   *)
(* and leaves any other paused.  Needs control; needs no film.             *)
PlaybackRequest(c, r, intent) ==
  /\ M!Speaking(c, r) /\ c \in control
  /\ seq[r] < MaxSeq
  /\ playback' = [playback EXCEPT ![r] =
       IF intent = "play" \/ (intent = "seek" /\ @ = "playing")
       THEN "playing" ELSE "paused"]
  /\ seq' = NextSeq(r)
  /\ UNCHANGED <<memberStuff, media, sharer, mode, report, overridden, wait,
                 lastPhase, allowed, told>>
  /\ Schedule(r)

PeerReport(c, r, p) ==
  /\ M!Speaking(c, r)
  /\ report' = [report EXCEPT ![c] = p]
  /\ UNCHANGED <<memberStuff, media, sharer, mode, playback, seq, overridden,
                 wait, lastPhase, allowed, told, sched>>

StartAnyway(c, r) ==
  /\ M!Speaking(c, r) /\ c \in host
  /\ overridden' = [overridden EXCEPT ![r] = TRUE]
  /\ UNCHANGED <<media, sharer, mode, playback, seq, report, wait, allowed,
                 sched>>
  /\ BroadcastState(r)

SetWaitForLatecomers(c, r, w) ==
  /\ M!Speaking(c, r) /\ c \in host
  /\ wait' = [wait EXCEPT ![r] = w]
  /\ UNCHANGED <<media, sharer, mode, playback, seq, report, overridden,
                 allowed, sched>>
  /\ BroadcastState(r)

(* voice.state: who is in the call is not modelled here; the room is told. *)
VoiceState(c, r) == M!Speaking(c, r) /\ M!Refresh({r}) /\ Repeat(r)

(* Rooms somebody is connected to, which is where the status timer looks. *)
Occupied == {r \in Code : \E c \in Conn : conns[c] = r}

(* Mutation: the status timer passes over rooms with nothing to download. *)
ChangedWithSource == {r \in Occupied : /\ media[r] \in P2PFilm \cup OriginFilm
                                     /\ Phase(r) # lastPhase[r]}

Changed == {r \in Occupied : Phase(r) # lastPhase[r]}

(* broadcastTransferStatus: the timer that notices a phase that changed by *)
(* itself, through reports and playback, and tells the room.               *)
StatusTick ==
  /\ lastPhase' = [r \in Code |-> IF r \in Changed THEN Phase(r) ELSE lastPhase[r]]
  /\ told' = [c \in Conn |-> IF conns[c] \in Changed /\ sock[c] \in M!Writable
                            THEN FilmOf(conns[c]) ELSE told[c]]
  /\ M!Refresh(Changed)
  /\ UNCHANGED <<media, sharer, mode, playback, seq, report, overridden, wait,
                 allowed, sched>>

-----------------------------------------------------------------------------
Next ==
  \/ StatusTick
  \/ \E c \in Conn : Connect(c) \/ Vanish(c) \/ PeerCloses(c) \/ Closed(c)
  \/ \E S \in SUBSET Conn : CloseSilent(S)
  \/ \E S \in SUBSET Code : Sweep(S)
  \/ \E c \in Conn, r \in Code :
       \/ \E b, w \in BOOLEAN, m \in Modes : HelloCreate(c, r, b, m, w)
       \/ HelloJoin(c, r) \/ MediaClear(c, r) \/ StartAnyway(c, r)
       \/ VoiceState(c, r)
       \/ \E b \in BOOLEAN : SetOpenControl(c, r, b) \/ SetWaitForLatecomers(c, r, b)
       \/ \E t \in Conn : TransferHost(c, r, t)
       \/ \E t \in Conn, b \in BOOLEAN : SetControl(c, r, t, b)
       \/ \E f \in Film : MediaAnnounce(c, r, f)
       \/ \E m \in Modes : SetMode(c, r, m)
       \/ \E i \in {"play", "pause", "seek"} : PlaybackRequest(c, r, i)
       \/ \E p \in {"none", "ready"} : PeerReport(c, r, p)

Spec == Init /\ [][Next]_vars

(* The status timer fires once a second for ever. *)
FairSpec == Spec /\ WF_vars(StatusTick)

-----------------------------------------------------------------------------
(***************************************************************************)
(* Invariants                                                              *)
(***************************************************************************)
Told == [media : Film \cup {NoMedia}, mode : Modes, wait : BOOLEAN,
         phase : Phases]
Anchors == [kind : Kinds, seq : 0..MaxSeq]

(* Types; and only a member has a report, so one who left cannot hold the  *)
(* room back or make it look ready.                                        *)
TypeOK ==
  /\ media \in [Code -> Film \cup {NoMedia}]
  /\ sharer \in [Code -> Conn \cup {NoMember}]
  /\ mode \in [Code -> Modes]
  /\ playback \in [Code -> Kinds]
  /\ seq \in [Code -> 0..MaxSeq]
  /\ report \in [Conn -> Reports]
  /\ \A c \in Conn : memberOf[c] = NoRoom => report[c] = "none"
  /\ overridden \in [Code -> BOOLEAN]
  /\ wait \in [Code -> BOOLEAN]
  /\ lastPhase \in [Code -> Phases]
  /\ allowed \in SUBSET P2PFilm
  /\ told \in [Conn -> Told]
  /\ sched \in [Conn -> Anchors]

Reachable(c) == conns[c] # NoRoom /\ sock[c] \in M!Writable

(* Everybody in the room has been told of the film, the mode and the       *)
(* settings as they are now, and shown the phase the server believes it    *)
(* showed them; otherwise the timer would not notice theirs is old.        *)
FilmCurrent ==
  \A c \in Conn : Reachable(c) =>
    LET r == conns[c] IN
    /\ told[c].media = media[r]
    /\ told[c].mode = mode[r]
    /\ told[c].wait = wait[r]
    /\ told[c].phase = lastPhase[r]

(* While a film is on, the last anchor sent to everybody, newcomers        *)
(* included, is the room's.                                                *)
AnchorCurrentWithFilm ==
  \A c \in Conn : (Reachable(c) /\ media[conns[c]] # NoMedia) =>
    sched[c] = AnchorOf(conns[c])

-----------------------------------------------------------------------------
(***************************************************************************)
(* Action properties                                                       *)
(***************************************************************************)
(* A film nobody has reported on is never ready, nor playing, whatever the *)
(* reports, the override and the playback of the previous one were.        *)
NewFilmClosesGate ==
  [][\A r \in Code :
       (media'[r] # media[r] /\ media'[r] # NoMedia) => Phase(r)' = "preparing"]_vars

(* While a room lives, playback changes kind only under a new number. *)
AnchorsAreNumbered ==
  [][\A r \in rooms \cap rooms' :
       /\ playback'[r] # playback[r] => seq'[r] > seq[r]
       /\ seq'[r] >= seq[r]]_vars

(***************************************************************************)
(* Liveness: the gate opens.  Reports trigger nothing by themselves, yet   *)
(* nobody is left looking at a phase the room has moved on from: it is     *)
(* right again and again, so a phase that lasts is always shown.           *)
(***************************************************************************)
PhaseIsShown ==
  \A c \in Conn : []<>(Reachable(c) => told[c].phase = Phase(conns[c]))
=============================================================================
