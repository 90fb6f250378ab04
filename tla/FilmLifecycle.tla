--------------------------- MODULE FilmLifecycle ---------------------------
(***************************************************************************)
(* The film on one desktop: what the main process (main/index.ts and the   *)
(* film handlers of main/handlers.ts) opens, fetches, shares and puts away *)
(* while the room it is in changes film and mode under its awaits.         *)
(*                                                                         *)
(* Every handler runs to its first `await' in one step; what comes after   *)
(* each await is a step of its own.  A handler still at work is a record   *)
(* of `jobs'.  The other members are actions of the environment, the room  *)
(* what the server keeps of the film, and `news' the room.state messages   *)
(* on their way here.                                                      *)
(***************************************************************************)
EXTENDS Integers, Sequences, SequencesExt

CONSTANTS
    Own,        \* films that are files of the person's own
    Theirs,     \* films that other members put on
    None,       \* no film
    Hosting,    \* whether this member is the host
    MaxTurns    \* bound: how often people do something, here or elsewhere

ASSUME FilmAssumption ==
    /\ None \notin Own \cup Theirs \cup [film: Own \cup Theirs, kind: {"p2p", "origin"}]
    /\ Own \cap Theirs = {}
    /\ Hosting \in BOOLEAN
    /\ MaxTurns \in Nat

VARIABLES
    room,       \* the server's: source and mode, and whether we are the sharer
    news,       \* room.state messages under way
    view,       \* client.media's source and client.mode
    here,       \* "out", "joining" (createRoom has not returned) or "in"
    transport,  \* which transport `transfer' is, and how many came before it
    held,       \* the films it keeps and serves
    me,         \* the film variables of index.ts
    playing,    \* the film in the player
    loads,      \* player.load calls outstanding, oldest first
    jobs,       \* handlers: what each is about and how far it has got
    latest,     \* the job whose ++filmGeneration was the last; 0 if closeFilm's
    history,    \* what has happened so far, for conditions of properties
    turns       \* how often people have done something: the bound only

roomVars == <<room, news, view, here>>
filmVars == <<roomVars, transport, held, me, playing, loads, jobs, latest, history, turns>>

Film == Own \cup Theirs
Mode == {"p2p", "origin"}
\* A source names a film and the transport that reaches its bytes: the same
\* file has one id in the swarm and another in storage.
Source == [film: Film, kind: Mode]
Optional(S) == S \cup {None}
State == [source: Optional(Source), mode: Mode]

Waiting == {"stop", "unload", "receive", "refused", "load", "open", "share", "unsent"}
Job == [source: Optional(Source), at: Waiting \cup {"done"}, via: Nat]
Blank == [path |-> None, sharedId |-> None, sharing |-> "off", announced |-> FALSE,
          receiving |-> None, roomFilmId |-> None, error |-> "none"]

FilmTypeOK ==
    /\ room \in [source: Optional(Source), mode: Mode, byUs: BOOLEAN]
    /\ news \in Seq(State) /\ view \in State
    /\ here \in {"out", "joining", "in"}
    /\ transport \in [kind: Mode \cup {"none"}, serial: Nat] /\ held \subseteq Source
    /\ me \in [path: Optional(Film), sharedId: Optional(Source),
               sharing: {"off", "sharing", "paused"}, announced: BOOLEAN,
               receiving: Optional(Source), roomFilmId: Optional(Source),
               error: {"none", "failed", "no transport"}]
    /\ (me.sharing = "off") <=> (me.sharedId = None)
    /\ playing \in Optional(Film)
    /\ jobs \in Seq(Job) /\ latest \in 0 .. Len(jobs)
    /\ loads \in Seq(DOMAIN jobs) /\ turns \in 0 .. MaxTurns

FilmInit ==
    /\ \E mode \in Mode: \E source \in {None} \cup [film: Theirs, kind: {mode}]:
          room = [source |-> source, mode |-> mode, byUs |-> FALSE]
    /\ news = <<>> /\ view = [source |-> None, mode |-> "p2p"] /\ here = "out"
    /\ transport = [kind |-> "none", serial |-> 0] /\ held = {}
    /\ me = Blank /\ playing = None /\ loads = <<>>
    /\ jobs = <<>> /\ latest = 0 /\ history = {} /\ turns = 0

-----------------------------------------------------------------------------
(* The room, and the other people in it.                                   *)

Move == turns < MaxTurns /\ turns' = turns + 1

\* The server changes its film or mode and tells everybody.
Tell(source, mode, byUs) ==
    /\ room' = [source |-> source, mode |-> mode, byUs |-> byUs]
    /\ news' = IF here = "out" THEN news
               ELSE Append(news, [source |-> source, mode |-> mode])

Elsewhere == UNCHANGED <<view, here, transport, held, me, playing, loads, jobs, latest, history>>

OthersPutOn(f) ==
    LET source == [film |-> f, kind |-> room.mode] IN
    /\ Move /\ room.source # source
    /\ Tell(source, room.mode, FALSE) /\ Elsewhere

OthersTakeOff ==
    /\ Move /\ room.source # None
    /\ Tell(None, room.mode, FALSE) /\ Elsewhere

\* The host's choice of transport takes the film off with it.
SetMode ==
    /\ Move
    /\ \E mode \in Mode \ {room.mode}: Tell(None, mode, Hosting)
    /\ Elsewhere

-----------------------------------------------------------------------------
(* Transports.  Tearing the previous one down drops every film it held.    *)

\* ensureTransfer: in a room, of the client's mode; without a client only a
\* swarm that is there already fits, and nothing can be built.
Fitting(inRoom, mode) == transport.kind = (IF inRoom THEN mode ELSE "p2p")
EnsureTransfer(inRoom, mode) ==
    IF Fitting(inRoom, mode) THEN transport
    ELSE [kind |-> IF inRoom THEN mode ELSE "none", serial |-> transport.serial + 1]
StillHeld(inRoom, mode) == IF Fitting(inRoom, mode) THEN held ELSE {}

\* A job that was given a transport may find another in its place.
Current(j) == jobs[j].via = transport.serial

-----------------------------------------------------------------------------
(* Handlers.  `Begin' adds a job, `Go' puts it, or a new one, at an await.  *)

Waits(source, at, via) == [source |-> source, at |-> at, via |-> via]
Done == Waits(None, "done", 0)
Begin(job) == jobs' = Append(jobs, job)
Go(j, job) == IF j \in DOMAIN jobs THEN jobs' = [jobs EXCEPT ![j] = job] ELSE Begin(job)
Note(what) == history' = history \cup what

\* A handler that begins while a closeFilm or a share is under way crosses it.
AtWork(at) == \E j \in DOMAIN jobs: jobs[j].at \in at
Crossing == IF AtWork({"stop", "unload", "share", "unsent"}) THEN {"crossed"} ELSE {}

\* closeFilm, up to its first await: the generation moves on, and the film
\* shared or being received is stopped if there is a transport to ask.
CloseFilm(source, note) ==
    LET id == IF me.sharedId # None THEN me.sharedId ELSE me.receiving IN
    /\ latest' = 0
    /\ Note(note \cup Crossing)
    /\ IF id # None /\ transport.kind # "none"
       THEN held' = held \ {id} /\ Begin(Waits(source, "stop", 0)) /\ UNCHANGED playing
       ELSE playing' = None /\ Begin(Waits(source, "unload", 0)) /\ UNCHANGED held
    /\ UNCHANGED <<transport, me, loads>>

\* A swarm refuses a torrent it is being asked for already.
Twice(source, tm) ==
    /\ tm.kind = "p2p"
    /\ \E j \in DOMAIN jobs: jobs[j] = [source |-> source, at |-> "receive", via |-> tm.serial]

\* From `++filmGeneration' to the await of tm.receive.  The listener asks for
\* a transport for the module's `room', null until createRoom has returned.
\* Relayed films are in the transport's map from here on, a swarm's only when
\* their metadata has come.
Fetch(j, source, mode, from) ==
    LET inRoom == here = "in"
        tm     == EnsureTransfer(inRoom, mode) IN
    /\ latest' = j /\ transport' = tm
    /\ IF tm.kind = "none"
       THEN /\ me' = [from EXCEPT !.receiving = None, !.error = "no transport"]
            /\ held' = {} /\ Go(j, Done)
       ELSE /\ me' = [from EXCEPT !.receiving = source, !.error = "none"]
            /\ held' = StillHeld(inRoom, mode) \cup
                       (IF tm.kind = "origin" /\ source.kind = "origin" THEN {source} ELSE {})
            /\ Go(j, Waits(source, IF Twice(source, tm) THEN "refused" ELSE "receive", tm.serial))

\* The client's 'media' listener.
MediaChanged(source, mode) ==
    LET current == IF me.roomFilmId # None THEN me.roomFilmId ELSE me.receiving IN
    \/ /\ source = None /\ current # None
       /\ CloseFilm(None, {})
    \/ /\ source = None /\ current = None
       /\ me' = [me EXCEPT !.sharing = "off", !.sharedId = None]
       /\ UNCHANGED <<transport, held, playing, loads, jobs, latest, history>>
    \/ /\ source # None /\ source = me.sharedId
       /\ Note(Crossing)
       /\ UNCHANGED <<transport, held, me, playing, loads, jobs, latest>>
    \/ /\ source \notin {None, me.sharedId} /\ current \notin {None, source}
       /\ CloseFilm(source, {})
    \/ /\ source \notin {None, me.sharedId} /\ current \in {None, source}
       /\ Fetch(Len(jobs) + 1, source, mode, me)
       /\ Note(Crossing) /\ UNCHANGED <<playing, loads>>

Quiet == UNCHANGED <<transport, held, me, playing, loads, jobs, latest, history>>

\* A room.state arrives.  Only a change of film is an event.
Hear ==
    /\ here # "out" /\ news # <<>>
    /\ view' = Head(news) /\ news' = Tail(news)
    /\ IF Head(news).source = view.source THEN Quiet
       ELSE MediaChanged(Head(news).source, Head(news).mode)
    /\ UNCHANGED <<room, here, turns>>

\* room:connect, up to the welcome: the room's film is heard in createRoom.
JoinRoom ==
    /\ here = "out" /\ Move
    /\ here' = "joining" /\ view' = [source |-> room.source, mode |-> room.mode]
    /\ IF room.source = None THEN Quiet ELSE MediaChanged(room.source, room.mode)
    /\ UNCHANGED <<room, news>>

\* createRoom returns: the transport is built, setRoom, and a film that is
\* open is announced, without a source.
Joined ==
    /\ here = "joining" /\ here' = "in"
    /\ transport' = EnsureTransfer(TRUE, view.mode) /\ held' = StillHeld(TRUE, view.mode)
    /\ IF me.path # None
       THEN /\ room' = [source |-> None, mode |-> room.mode, byUs |-> TRUE]
            /\ news' = Append(news, [source |-> None, mode |-> room.mode])
       ELSE UNCHANGED <<room, news>>
    /\ UNCHANGED <<view, me, playing, loads, jobs, latest, history, turns>>

\* room:disconnect.  A share that is still under way keeps the closed client.
LeaveRoom ==
    /\ here = "in" /\ here' = "out" /\ news' = <<>>
    /\ Note({"left"}) /\ room' = [room EXCEPT !.byUs = FALSE]
    /\ jobs' = [j \in DOMAIN jobs |->
                  IF jobs[j].at = "share" THEN [jobs[j] EXCEPT !.at = "unsent"] ELSE jobs[j]]
    /\ UNCHANGED <<view, transport, held, me, playing, loads, latest, turns>>

-----------------------------------------------------------------------------
(* What follows the awaits of closeFilm and of a fetch.                    *)

StopDone(j) ==
    /\ jobs[j].at = "stop" /\ playing' = None /\ Go(j, [jobs[j] EXCEPT !.at = "unload"])
    /\ UNCHANGED <<roomVars, transport, held, me, loads, latest, history>>

\* A mutant: closeFilm clears everything but `receiving'.
UnloadDoneStillReceiving(j) ==
    LET source == jobs[j].source
        left   == [Blank EXCEPT !.receiving = me.receiving] IN
    /\ jobs[j].at = "unload"
    /\ IF source = None
       THEN me' = left /\ Go(j, Done) /\ UNCHANGED <<transport, held, latest>>
       ELSE Fetch(j, source, view.mode, left)
    /\ UNCHANGED <<roomVars, playing, loads, history>>

UnloadDone(j) ==
    LET source == jobs[j].source IN
    /\ jobs[j].at = "unload"
    /\ IF source = None
       THEN me' = Blank /\ Go(j, Done) /\ UNCHANGED <<transport, held, latest>>
       ELSE Fetch(j, source, view.mode, Blank)
    /\ UNCHANGED <<roomVars, playing, loads, history>>

\* A mutant: the generation is not checked, a fetch that ends is opened.
ReceiveDoneRegardless(j) ==
    LET source == jobs[j].source IN
    /\ jobs[j].at = "receive"
    /\ Current(j) => source.kind = transport.kind
    /\ held' = IF Current(j) /\ source.kind = "p2p" THEN held \cup {source} ELSE held
    /\ playing' = source.film /\ loads' = Append(loads, j)
    /\ Go(j, [jobs[j] EXCEPT !.at = "load"])
    /\ UNCHANGED <<roomVars, transport, me, latest, history>>

\* tm.receive resolves.  A fetch the room has moved on from is stopped.
ReceiveDone(j) ==
    LET source == jobs[j].source IN
    /\ jobs[j].at = "receive"
    /\ Current(j) => source.kind = transport.kind
    /\ IF latest # j
       THEN /\ held' = IF Current(j) THEN held \ {source} ELSE held
            /\ Go(j, Done) /\ UNCHANGED <<playing, loads>>
       ELSE /\ held' = IF Current(j) /\ source.kind = "p2p" THEN held \cup {source} ELSE held
            /\ playing' = source.film /\ loads' = Append(loads, j)
            /\ Go(j, [jobs[j] EXCEPT !.at = "load"])
    /\ UNCHANGED <<roomVars, transport, me, latest, history>>

\* The catch: a failure for a film the room has dropped is not news.
Failed(j) ==
    /\ me' = IF latest = j THEN [me EXCEPT !.receiving = None, !.error = "failed"] ELSE me
    /\ Go(j, Done) /\ Note({"failed"})

ReceiveFails(j) ==
    /\ jobs[j].at \in {"receive", "refused"} /\ Failed(j)
    /\ UNCHANGED <<roomVars, transport, held, playing, loads, latest>>

\* What a load that has returned leaves: of the room's film, of one's own.
Loaded(m, j) ==
    IF jobs[j].at = "load"
    THEN [m EXCEPT !.path = jobs[j].source.film, !.receiving = None, !.sharedId = jobs[j].source,
                   !.sharing = "sharing", !.announced = FALSE, !.roomFilmId = jobs[j].source]
    ELSE [m EXCEPT !.path = jobs[j].source.film, !.sharing = "off",
                   !.sharedId = None, !.announced = FALSE]

\* The player says that a file is open, not which: every call outstanding
\* returns, in the order they were made, so the last of the room's films and the
\* last of all are what is left.  Nobody looks at the generation again.
FileLoaded ==
    LET rooms == {i \in DOMAIN loads: jobs[loads[i]].at = "load"}
        kept  == IF rooms = {} THEN me ELSE Loaded(me, loads[Max(rooms)]) IN
    /\ playing # None /\ loads # <<>>
    /\ me' = Loaded(kept, Last(loads))
    /\ jobs' = [j \in DOMAIN jobs |-> IF \E i \in DOMAIN loads: loads[i] = j THEN Done ELSE jobs[j]]
    /\ loads' = <<>>
    /\ UNCHANGED <<roomVars, transport, held, playing, latest, history, turns>>

\* A load ends without its film: an error, or nothing for half a minute.
GivenUp(j) ==
    /\ \E i \in DOMAIN loads: loads[i] = j /\ loads' = RemoveAt(loads, i)
    /\ playing' = IF Last(loads) = j THEN None ELSE playing

FilmLoadFails(j) ==
    /\ jobs[j].at = "load" /\ GivenUp(j) /\ Failed(j)
    /\ UNCHANGED <<roomVars, transport, held, latest>>

-----------------------------------------------------------------------------
(* What the person does.                                                   *)

\* file:open, file:openPath: loadInto.  Opening a film while the one put on is
\* still being announced is noted: what is heard then is not what is open.
OpenFile(f) ==
    LET told   == news # <<>> /\ room.byUs
        opened == {"opened"} \cup (IF told \/ AtWork({"share", "unsent"}) THEN {"raced"} ELSE {}) IN
    /\ Move
    /\ Begin(Waits([film |-> f, kind |-> "p2p"], "open", 0)) /\ playing' = f
    /\ loads' = Append(loads, Len(jobs) + 1) /\ Note(opened)
    /\ UNCHANGED <<roomVars, transport, held, me, latest>>

OpenFileFails(j) ==
    /\ jobs[j].at = "open" /\ GivenUp(j) /\ Go(j, Done)
    /\ UNCHANGED <<roomVars, transport, held, me, latest, history>>

\* film:share, up to the hashing or the upload.  getTransfer() is the
\* transport there is, whatever the room's mode; it is built when there is none.
\* A share begun while a film is fetched or opened is noted: what is open
\* when it ends is not what was shared.
Share ==
    LET tm    == IF transport.kind = "none" THEN EnsureTransfer(TRUE, view.mode) ELSE transport
        raced == IF AtWork(Waiting) THEN {"raced"} ELSE {} IN
    /\ Move /\ here = "in" /\ me.path # None
    /\ transport' = tm /\ Note(Crossing \cup raced)
    /\ Begin(Waits([film |-> me.path, kind |-> tm.kind], "share", tm.serial))
    /\ UNCHANGED <<roomVars, held, me, playing, loads, latest>>

ShareDone(j) ==
    LET source == jobs[j].source IN
    /\ jobs[j].at \in {"share", "unsent"}
    /\ held' = IF Current(j) THEN held \cup {source} ELSE held
    /\ me' = [me EXCEPT !.sharedId = source, !.sharing = "sharing", !.announced = TRUE]
    /\ IF jobs[j].at = "share" THEN Tell(source, room.mode, TRUE) ELSE UNCHANGED <<room, news>>
    /\ Go(j, Done) /\ Note(IF news = <<>> THEN {} ELSE {"crossed"})
    /\ UNCHANGED <<view, here, transport, playing, loads, latest>>

ShareFails(j) ==
    /\ jobs[j].at \in {"share", "unsent"} /\ Go(j, Done)
    /\ UNCHANGED <<roomVars, transport, held, me, playing, loads, latest, history>>

\* film:setSharingPaused.  A swarm refuses for a film it does not hold.
SetSharingPaused ==
    /\ me.sharedId # None /\ (transport.kind = "p2p" => me.sharedId \in held)
    /\ me' = [me EXCEPT !.sharing = IF @ = "paused" THEN "sharing" ELSE "paused"]
    /\ UNCHANGED <<roomVars, transport, held, playing, loads, jobs, latest, history, turns>>

\* A mutant: the film is put away here and left in the room.
UnloadHere ==
    /\ Move /\ UNCHANGED <<room, news>> /\ CloseFilm(None, {"unloaded"})
    /\ UNCHANGED <<view, here>>

\* film:unload.  The server lets the sharer take the film off, and the host.
Unload ==
    /\ Move
    /\ IF me.announced /\ here = "in" /\ (Hosting \/ room.byUs)
       THEN Tell(None, room.mode, FALSE) ELSE UNCHANGED <<room, news>>
    /\ CloseFilm(None, {"unloaded"})
    /\ UNCHANGED <<view, here>>

-----------------------------------------------------------------------------
Proceed(j) ==
    /\ \/ StopDone(j) \/ UnloadDone(j)
       \/ ReceiveDone(j) \/ ReceiveFails(j) \/ FilmLoadFails(j)
       \/ OpenFileFails(j) \/ ShareDone(j) \/ ShareFails(j)
    /\ UNCHANGED turns

FilmNext ==
    \/ \E f \in Theirs: OthersPutOn(f)
    \/ OthersTakeOff \/ SetMode
    \/ JoinRoom \/ Joined \/ LeaveRoom \/ Hear \/ FileLoaded
    \/ \E j \in DOMAIN jobs: Proceed(j)
    \/ \E f \in Own: OpenFile(f)
    \/ Share \/ SetSharingPaused \/ Unload

\* The process runs: messages are handled, and every await ends.
Fairness ==
    /\ WF_filmVars(Hear) /\ WF_filmVars(FileLoaded) /\ WF_filmVars(Joined)
    /\ \A j \in 1 .. 2 * MaxTurns + 1: WF_filmVars(j \in DOMAIN jobs /\ Proceed(j))

FilmSpec == FilmInit /\ [][FilmNext]_filmVars
FilmFairSpec == FilmSpec /\ Fairness

-----------------------------------------------------------------------------
(* What must hold.  Promises are judged when everything has settled: in     *)
(* between, the variables are told of what has been asked, not of what is.  *)

Settled == news = <<>> /\ \A j \in DOMAIN jobs: jobs[j].at = "done"
FilmOf(source) == IF source = None THEN None ELSE source.film

\* Whoever only watches has the room's film open, keeps nothing of another, and
\* if the film is not here then a fetch of it failed, or the person put it away.
\* This is what filmGeneration and closeFilm are for (index.ts:118-158).
WatchesTheRoom ==
    Settled /\ here = "in" /\ history \cap {"opened", "crossed", "left"} = {} =>
        /\ me.sharedId \in {None, view.source} /\ me.path = FilmOf(me.sharedId)
        /\ playing = me.path
        /\ "failed" \notin history => held \subseteq {me.sharedId}
        /\ me.error = "none" /\ history \subseteq {"raced"} => me.sharedId = view.source

\* The film that this machine has put on in the room it is in is one that it
\* serves, whatever it has opened, fetched or left since (handlers.ts:472).
SharerServes ==
    here = "in" /\ room.byUs /\ room.source # None /\ history \cap {"crossed", "raced"} = {} =>
        room.source \in held

\* What the interface says is shared is served: "Whoever receives a film also
\* serves it, so the interface should say so" (index.ts:556-557).  Not so.
ReceiverServes ==
    Settled /\ history = {} /\ me.sharing = "sharing" => me.sharedId \in held

\* Unloading "takes it off the room too when this machine is the one sharing
\* it, so nobody is left fetching from somebody who has moved on"
\* (handlers.ts:471-472).  Not so, if a file opens before the share is heard of.
UnloadLeavesNobody ==
    Settled /\ here = "in" /\ room.byUs /\ room.source # None /\ me.path = None
        /\ "crossed" \notin history => room.source \in held

\* `receiving' ends: every fetch shown is opened, fails or is put away, by its
\* own handler or by the one that overtook it (index.ts:536-569).
SpinnerEnds == me.receiving # None ~> me.receiving = None
=============================================================================
