---------------------------- MODULE SeekableStretch ----------------------------
(***************************************************************************)
(* Where a room may seek and when it may start, from what its members say  *)
(* they hold.  A desktop fetches pieces of a swarmed film and reports a    *)
(* map of them (pieces.ts, transfer.ts); the server intersects the maps,   *)
(* refuses seeks outside, opens the readiness gate and tells everybody     *)
(* once a second (readiness.ts, server.ts); the interface clamps a seek to *)
(* the stretch it was told of (App.tsx).                                   *)
(*                                                                         *)
(* Time in the film is in ticks, however short: a bucket begins with a     *)
(* tick, as it begins exactly in the code, whose times are fractions.  One *)
(* film is on, put on by Sharer; everybody may control it.  Permissions,   *)
(* overriding the gate and changes of film are RoomServer's.  Bounds:      *)
(* Moves (arrivals and departures) and Asks (what the interface asks of    *)
(* the playback).                                                          *)
(***************************************************************************)
EXTENDS Integers, FiniteSets, FiniteSetsExt

CONSTANTS
  Members, Sharer,
  PieceCount, Duration,  \* of the film, in pieces and in ticks
  Half,                  \* half a second, in ticks
  Buckets,               \* PIECE_MAP_BUCKETS
  StartBuffer,           \* startBufferSec, in ticks
  Tolerance,             \* a whole copy lacks at most one piece of so many: 1000
  Moves, Asks

ASSUME StretchAssumption ==
  /\ Sharer \in Members /\ {PieceCount, Duration, Half, Buckets, StartBuffer, Tolerance} \subseteq Nat \ {0}
  /\ Duration % Buckets = 0
  /\ Moves \in Nat /\ Asks \in Nat

VARIABLES
  present,     \* who is in the room
  have,        \* the pieces each desktop holds
  carry,       \* desktops whose transport handles the film
  opened,      \* desktops that play it, put on or fetched: sharedId is the film
  report,      \* the room's reports
  pos, kind,   \* the room's playback
  shown,       \* per member: seekableMap in the last transfer.status
  fresh,       \* history: members told since anybody last reported a first map
  asked,       \* a seek on its way to the server
  moves, asks
vars == <<present, have, carry, opened, report, pos, kind, shown, fresh, asked, moves, asks>>

Pieces == 0 .. PieceCount - 1
Slots == 0 .. Buckets - 1
Time == 0 .. Duration

-----------------------------------------------------------------------------
(* pieces.ts: what is held. *)

PieceAt(t) == Min({(t * PieceCount) \div Duration, PieceCount - 1})
\* The pieces that make up one sixty-fourth of the film.
SliceOf(b) == LET from == (b * PieceCount) \div Buckets
              IN  from .. Max({from + 1, ((b + 1) * PieceCount) \div Buckets}) - 1
\* pieceMapOf: the buckets with digit f; what is short of it makes no difference to anybody.
PieceMap(held) == {b \in Slots : SliceOf(b) \cap Pieces \subseteq held}
\* contiguousSecondsFrom: how long the film plays from t without a hole.
Contiguous(t, held) ==
  LET gaps == {p \in PieceAt(t) .. PieceCount - 1 : p \notin held}
      end  == IF gaps = {} THEN PieceCount ELSE Min(gaps)
  IN  IF PieceAt(t) \notin held \/ end * Duration < t * PieceCount
     THEN 0 ELSE (end * Duration) \div PieceCount - t

-----------------------------------------------------------------------------
(* readiness.ts: what the room makes of it. *)

\* havePct >= 0.999.
Whole(held) == Tolerance * Cardinality(Pieces \ held) <= PieceCount
\* As if a whole film were not ready near its end.
IsReadyByBuffer(held, buffer) == buffer >= StartBuffer
IsReady(held, buffer) == Whole(held) \/ buffer >= StartBuffer

\* Who has reported nothing counts as holding nothing for the gate, and not at all for seeking.
\* "map" has no or one member: the field is optional.
NoReport == [whole |-> FALSE, ready |-> FALSE, map |-> {}]
Reporting == {m \in present : report[m].map # {}}
\* As if one member were enough.
SeekableAny == {b \in Slots : Reporting # {} => \E m \in Reporting : \A map \in report[m].map : b \in map}
SeekableBuckets == {b \in Slots : \A m \in Reporting : \A map \in report[m].map : b \in map}
BucketOf(t) == Min({(Min({t, Duration - 1}) * Buckets) \div Duration, Buckets - 1})
SeekableAt(t) == BucketOf(t) \in SeekableBuckets
Phase == IF kind = "playing" THEN "playing"
         ELSE IF present # {} /\ \A m \in present : report[m].ready THEN "ready" ELSE "preparing"
\* safeForSharerToLeave.
Durable == Cardinality({m \in present : report[m].whole}) >= 2

-----------------------------------------------------------------------------
(* App.tsx: the stretch drawn, and a seek kept inside it. *)

Lit(m) == UNION shown[m]
Held(m) == BucketOf(pos) \in Lit(m)
\* The bounds of the run of buckets around the position.
From(m) == (Max({b \in 0 .. BucketOf(pos) : b = 0 \/ b - 1 \notin Lit(m)}) * Duration) \div Buckets
To(m) == Min({b \in BucketOf(pos) .. Buckets - 1 : b = Buckets - 1 \/ b + 1 \notin Lit(m)}) + 1
\* As if a seek could go to the very end of the stretch.
ClampToEnd(m, t) == IF ~Held(m) THEN t ELSE Max({From(m), Min({t, (To(m) * Duration) \div Buckets})})
\* Half a second before the end, so that it falls into the last bucket of the stretch.
Clamp(m, t) ==
  IF ~Held(m) THEN t
  ELSE Max({From(m), Min({t, Max({From(m), (To(m) * Duration) \div Buckets - Half})})})

-----------------------------------------------------------------------------
TypeOK ==
  /\ present \subseteq Members /\ have \in [Members -> SUBSET Pieces] /\ opened \subseteq carry /\ carry \subseteq Members
  /\ \A m \in Members : /\ report[m] = NoReport \/ report[m].map \subseteq SUBSET PieceMap(have[m])
                        /\ m \notin present => report[m] = NoReport
                        /\ shown[m] \subseteq SUBSET Slots /\ Cardinality(shown[m]) <= 1
  /\ pos \in Time /\ kind \in {"paused", "playing"} /\ fresh \subseteq present
  /\ asked \subseteq [by : present, at : Time, sure : BOOLEAN] /\ Cardinality(asked) <= 1
  /\ moves \in 0 .. Moves /\ asks \in 0 .. Asks

Init ==
  /\ present = {Sharer} /\ carry = {Sharer} /\ opened = {Sharer}
  /\ have = [m \in Members |-> IF m = Sharer THEN Pieces ELSE {}]
  /\ report = [m \in Members |-> NoReport] /\ pos = 0 /\ kind = "paused"
  /\ shown = [m \in Members |-> {}] /\ fresh = {} /\ asked = {}
  /\ moves = Moves /\ asks = Asks

\* A newcomer has been told nothing.
Join(m) ==
  /\ moves > 0 /\ m \notin present \cup {Sharer} /\ moves' = moves - 1
  /\ present' = present \cup {m} /\ shown' = [shown EXCEPT ![m] = {}]
  /\ UNCHANGED <<have, carry, opened, report, pos, kind, fresh, asked, asks>>
\* The room forgets the report; the desktop keeps the film, and its transport at work.
Leave(m) ==
  /\ moves > 0 /\ m \in present /\ moves' = moves - 1
  /\ present' = present \ {m} /\ fresh' = fresh \ {m}
  /\ report' = [report EXCEPT ![m] = NoReport]
  /\ asked' = {a \in asked : a.by # m}
  /\ UNCHANGED <<have, carry, opened, pos, kind, shown, asks>>
\* A viewer unloads the film, or somebody who has left quits: the pieces stay on disk.  (When the
\* sharer unloads it the room has no film any more.)
CloseFilm(m) ==
  /\ moves > 0 /\ m \in carry /\ (m # Sharer \/ m \notin present) /\ moves' = moves - 1
  /\ carry' = carry \ {m} /\ opened' = opened \ {m}
  /\ UNCHANGED <<present, have, report, pos, kind, shown, fresh, asked, asks>>

\* receive: the torrent's metadata has come, the transport handles the film from here on.
Receive(m) ==
  /\ m \in present \ carry /\ carry' = carry \cup {m}
  /\ UNCHANGED <<present, have, opened, report, pos, kind, shown, fresh, asked, moves, asks>>
\* The player has opened the stream, of which it needs the head; from here on the film counts as one's own.
Opens(m) ==
  /\ m \in carry \ opened /\ 0 \in have[m] /\ opened' = opened \cup {m}
  /\ UNCHANGED <<present, have, carry, report, pos, kind, shown, fresh, asked, moves, asks>>
\* The swarm: a piece comes from whoever is there and has it.
PieceArrives(m, p) ==
  /\ m \in carry /\ p \notin have[m] /\ \E o \in carry : p \in have[o]
  /\ have' = [have EXCEPT ![m] = @ \cup {p}]
  /\ UNCHANGED <<present, carry, opened, report, pos, kind, shown, fresh, asked, moves, asks>>

\* getReport: who has the film open vouches for all of it, however few pieces have come.
ReportFor(m) ==
  IF m \in opened THEN [whole |-> TRUE, ready |-> TRUE, map |-> {PieceMap(have[m])}]
  ELSE [whole |-> Whole(have[m]), ready |-> IsReady(have[m], Contiguous(pos, have[m])), map |-> {PieceMap(have[m])}]
\* peer.report, once a second.  A first map can make the stretch smaller than anybody has been told.
Report(m) ==
  /\ m \in present \cap carry /\ report' = [report EXCEPT ![m] = ReportFor(m)]
  /\ IF report[m].map # {} THEN UNCHANGED <<fresh, asked>>
     ELSE /\ fresh' = {}
          /\ asked' = {[a EXCEPT !.sure = FALSE] : a \in asked}
  /\ UNCHANGED <<present, have, carry, opened, pos, kind, shown, moves, asks>>
\* transfer.status, once a second, to everybody.
StatusTick ==
  /\ shown' = [m \in Members |-> IF m \in present THEN {SeekableBuckets} ELSE shown[m]]
  /\ fresh' = present
  /\ UNCHANGED <<present, have, carry, opened, report, pos, kind, asked, moves, asks>>

\* Somebody moves the seek bar or presses a key.
Ask(m, t) ==
  /\ asks > 0 /\ asked = {} /\ m \in present /\ asks' = asks - 1
  /\ asked' = {[by |-> m, at |-> Clamp(m, t), sure |-> Held(m) /\ m \in fresh]}
  /\ UNCHANGED <<present, have, carry, opened, report, pos, kind, shown, fresh, moves>>
\* playback.request: refused with an error, or the room goes there.
Seek ==
  /\ asked # {} /\ asked' = {} /\ \E a \in asked : pos' = IF SeekableAt(a.at) THEN a.at ELSE pos
  /\ UNCHANGED <<present, have, carry, opened, report, kind, shown, fresh, moves, asks>>
PlayOrPause ==
  /\ asks > 0 /\ present # {} /\ asks' = asks - 1 /\ kind' = IF kind = "paused" THEN "playing" ELSE "paused"
  /\ UNCHANGED <<present, have, carry, opened, report, pos, shown, fresh, asked, moves>>
\* The film runs to its end.
Elapses ==
  /\ kind = "playing" /\ pos < Duration /\ pos' = pos + 1
  /\ UNCHANGED <<present, have, carry, opened, report, kind, shown, fresh, asked, moves, asks>>

Fetches(m) == \E p \in Pieces : PieceArrives(m, p)
Next == \/ \E m \in Members : Join(m) \/ Leave(m) \/ CloseFilm(m) \/ Receive(m) \/ Opens(m) \/ Fetches(m) \/ Report(m) \/ \E t \in Time : Ask(m, t)
        \/ StatusTick \/ Seek \/ PlayOrPause \/ Elapses
\* A swarm with every piece delivers, and reports are sent, once a second.
Fairness == \A m \in Members : WF_vars(Fetches(m)) /\ WF_vars(Report(m))
Spec == Init /\ [][Next]_vars /\ Fairness

-----------------------------------------------------------------------------
(* Properties *)

\* The piece a moment falls into may belong to the next bucket: slices are cut at whole pieces.
Straddles(t) == PieceAt(t) \notin SliceOf(BucketOf(t))
\* A seek the server lets through stalls nobody who has said what they hold: they hold that piece,
\* but for the one that straddles the end of its bucket.
SeekLands ==
  [][asked # {} /\ asked' = {} /\ pos' # pos =>
       \A m \in Reporting : PieceAt(pos') \in have[m] \/ Straddles(pos')]_vars
\* A seek the interface kept inside the stretch it shows is never refused, unless somebody's first
\* map has made the stretch smaller since: no order of reports, departures and ticks does.
ClampAccepted == \A a \in asked : a.sure => SeekableAt(a.at)
\* Not so, and no run checks it: a room that says "the room has a second full copy" (App.tsx:981, from
\* readiness.ts:84) has one besides the sharer's.  A viewer vouches for what it has not fetched.
SecondFullCopy == Durable => \E m \in present \ {Sharer} : Whole(have[m])
\* In a paused room that somebody with the film stays in, everybody whose fetch has begun becomes
\* ready and the gate opens, wherever the room was left.
GateOpens ==
  <>[](kind = "paused" /\ present # {} /\ present \subseteq carry /\ UNION {have[m] : m \in present} = Pieces)
    => <>[](Phase = "ready")
=============================================================================
