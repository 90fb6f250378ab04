---------------------------- MODULE SyncedPlayer ----------------------------
(***************************************************************************)
(* The tick of the room client driving a player: RoomClient.runTick asks   *)
(* the engine (tick) what to do and awaits one command of the player.      *)
(* Two players: the <video> element behind RendererPlayer and videoEngine  *)
(* ("html"), whose commands are answered by another process and bounded by *)
(* a timer, and ExternalMpv over MpvIpc ("mpv"), whose commands are not.    *)
(*                                                                         *)
(* Positions are kept relative to where the room should be: everything     *)
(* that holds an absolute position (the element, the last reading, a seek  *)
(* under way) loses Step for each Pass of time in which the room plays.    *)
(* Beyond Far all offsets are alike, the engine seeks.  A playback rate is *)
(* its deviation from 1, in offset per Pass.  Bounds: Changes (what the    *)
(* room and the interface do), MaxHangs, and MaxLag: how many Passes a     *)
(* seek takes at most in a process that is not stuck; MaxQueue:            *)
(* how many commands, given up ones included, wait for one that is.        *)
(***************************************************************************)
EXTENDS Integers, Sequences, SequencesExt

CONSTANTS Dead, SeekAbove, Lead, Horizon, MaxDev, Step, Far, MaxLag, MaxQueue, Changes, MaxHangs
ASSUME SyncAssumption == /\ {Dead, SeekAbove, Lead, Horizon, MaxDev, Step, Far, MaxLag, MaxQueue} \subseteq Nat \ {0}
                         /\ Dead < SeekAbove /\ SeekAbove < Far

VARIABLES engine, target, video, seen, rate, wire, working, stuck, budget
vars == <<engine, target, video, seen, rate, wire, working, stuck, budget>>

Offset == -Far .. Far
Dev == -MaxDev .. MaxDev
Clip(x) == IF x > Far THEN Far ELSE IF x < -Far THEN -Far ELSE x
Abs(x) == IF x < 0 THEN -x ELSE x

\* A command between the call and its end: who awaits it, whether its promise is still
\* open; "off" is where a seek goes.
Command == [cmd: {"play", "pause", "seek", "rate", "load", "unload"}, off: Offset, dev: Dev,
            by: {"tick", "film"}, open: BOOLEAN]
New(cmd, off, dev, by) == [cmd |-> cmd, off |-> off, dev |-> dev, by |-> by, open |-> TRUE]

TypeOK ==
  /\ engine \in {"html", "mpv"} /\ target \in {"idle", "paused", "waiting", "playing"}
  /\ video \in [film: BOOLEAN, paused: BOOLEAN, off: Offset, dev: Dev, seeking: 0 .. MaxLag + 1]
  /\ seen \in [off: Offset, paused: BOOLEAN] /\ rate \in Dev
  /\ wire \in Seq(Command) /\ working \in Seq(Command)
  /\ stuck \in {"no", "hung", "dead"} /\ budget \in [changes: 0 .. Changes, hangs: 0 .. MaxHangs]

Init ==
  /\ engine \in {"html", "mpv"} /\ target \in {"idle", "playing"}
  /\ video = [film |-> FALSE, paused |-> TRUE, off |-> 0, dev |-> 0, seeking |-> 0]
  /\ seen = [off |-> 0, paused |-> TRUE] /\ rate = 0
  /\ wire = <<>> /\ working = <<>> /\ stuck = "no"
  /\ budget = [changes |-> Changes, hangs |-> MaxHangs]

Awaited(w, by) == \E k \in DOMAIN w : w[k].open /\ w[k].by = by
Busy(by) == Awaited(wire, by) \/ Awaited(working, by)

-----------------------------------------------------------------------------
(* The engine's decision, and the tick that carries it out. *)

\* The rate is whatever erases the drift over the horizon.
WantedUnclamped(off) == IF off < 0 THEN (-off) \div Horizon ELSE -(off \div Horizon)
\* The rate erases the drift over the horizon, within what nobody hears.
Wanted(off) ==
  LET dev == WantedUnclamped(off) IN IF dev > MaxDev THEN MaxDev ELSE IF dev < -MaxDev THEN -MaxDev ELSE dev

\* Nothing is corrected inside the deadband, the rate included.
NudgeLeft(off, r) == IF Abs(off) <= Dead THEN r ELSE Wanted(off)
\* Inside the deadband the rate goes back to 1.
Nudge(off, r) == IF Abs(off) <= Dead THEN 0 ELSE Wanted(off)

\* tick: the command the engine asks for, from a reading s and the rate r it believes in.
Decide(t, s, r) ==
  IF t = "idle" THEN IF s.paused THEN <<>> ELSE <<New("pause", 0, 0, "tick")>>
  ELSE IF t # "playing"
  THEN IF ~s.paused THEN <<New("pause", 0, 0, "tick")>>
       ELSE IF Abs(s.off) > Dead THEN <<New("seek", 0, 0, "tick")>>
       ELSE IF t = "paused" /\ r # 0 THEN <<New("rate", 0, 0, "tick")>> ELSE <<>>
  ELSE IF Abs(s.off) > SeekAbove THEN <<New("seek", Lead, 0, "tick")>>
  ELSE IF s.paused THEN <<New("play", 0, 0, "tick")>>
  ELSE IF Nudge(s.off, r) = r THEN <<>> ELSE <<New("rate", 0, Nudge(s.off, r), "tick")>>

\* runTick: nothing while a command of the tick is awaited; a dead mpv refuses at once.
RunTick(t, s) == IF Busy("tick") \/ stuck = "dead" \/ Len(wire) >= MaxQueue THEN <<>> ELSE Decide(t, s, rate)

\* The room's position moves: every absolute position, seeks not yet executed included, falls behind.
Moved(w, by) == [k \in DOMAIN w |-> IF w[k].cmd = "seek" THEN [w[k] EXCEPT !.off = Clip(@ - by)] ELSE w[k]]
\* A seek under way, by how many intervals it has taken.
Longer(n) == IF n = 0 \/ n > MaxLag THEN n ELSE n + 1

\* What the player has pushed since the last interval: all of it (onState), or mpv's time-pos, which
\* has no value without a film.  Its pause is pushed when it changes, see Immediate.
Reading ==
  CASE stuck # "no"      -> seen
    [] engine = "html"   -> [off |-> video.off, paused |-> video.paused]
    [] OTHER             -> IF video.film THEN [seen EXCEPT !.off = video.off] ELSE seen
\* One interval of the tick timer.  The reading is extrapolated at the rate believed in.
Pass ==
  LET by == IF target = "playing" THEN Step ELSE 0
      s  == [Reading EXCEPT !.off = IF Abs(@) = Far THEN @ ELSE Clip(@ - by + IF Reading.paused THEN 0 ELSE Step + rate)]
      goes == video.film /\ ~video.paused /\ video.seeking = 0
  IN /\ stuck = "no" => wire = <<>> /\ video.seeking <= MaxLag
     /\ video' = [video EXCEPT !.off = Clip(@ - by + IF goes THEN Step + video.dev ELSE 0), !.seeking = Longer(@)]
     /\ seen' = s /\ wire' = Moved(wire, by) \o RunTick(target, s)
     /\ UNCHANGED <<engine, target, rate, working, stuck, budget>>

\* playback.schedule: the room pauses, plays or goes somewhere else, and the client reacts at once.
\* The first one a client hears is not a change of the room's.
Schedule(t, by) ==
  /\ budget.changes > 0 \/ target = "idle"
  /\ <<t, by>> # <<target, 0>> /\ (t = "idle" => by = 0)
  /\ target' = t
  /\ budget' = IF target = "idle" THEN budget ELSE [budget EXCEPT !.changes = @ - 1]
  /\ LET s == [seen EXCEPT !.off = Clip(@ - by)]
     IN  seen' = s /\ wire' = Moved(wire, by) \o RunTick(t, s)
  /\ video' = [video EXCEPT !.off = Clip(@ - by)] /\ UNCHANGED <<engine, rate, working, stuck>>
\* The anchor of a scheduled start is reached.
AnchorArrives ==
  /\ target = "waiting" /\ target' = "playing"
  /\ UNCHANGED <<engine, video, seen, rate, wire, working, stuck, budget>>

-----------------------------------------------------------------------------
(* Commands. *)

\* forgetPosition; what a load and an unload leave in RendererPlayer's cache is the same.
Forgotten(start) == [off |-> start, paused |-> TRUE]
\* onReply: an open command that succeeds leaves what it did in the cache (a load of mpv leaves nothing,
\* its time-pos changes before the playback-restart that answers a seek) and in the client's rate.
\* "v" is the element when it answers.
Reply(c, ok, v) ==
  /\ rate' = IF ok /\ c.open /\ c.cmd = "rate" THEN c.dev ELSE rate
  /\ seen' = CASE ~ok \/ ~c.open                                     -> seen
               [] c.cmd = "unload" \/ (c.cmd = "load" /\ engine = "html") -> Forgotten(v.off)
               [] c.cmd = "seek"                                    -> [seen EXCEPT !.off = v.off]
               [] c.cmd \in {"pause", "play"} /\ engine = "mpv" /\ v.paused # video.paused
                                                                    -> [seen EXCEPT !.paused = v.paused]
               [] OTHER                                             -> seen
\* Of a command given up nobody waits for the end; only a load's still matters, see Loaded.
Open(c) == IF c.open THEN <<c>> ELSE <<>>
Without(w, cmd) == SelectSeq(w, LAMBDA c : c.cmd # cmd)

\* The head of the queue is a command that takes effect at once.
Immediate(c) ==
  LET v == CASE c.cmd = "pause" -> [video EXCEPT !.paused = TRUE]
             [] c.cmd = "rate"  -> [video EXCEPT !.dev = c.dev]
             [] c.cmd = "play"  -> [video EXCEPT !.paused = FALSE]
  IN  /\ c.cmd \in {"pause", "rate", "play"} /\ video' = v
      /\ IF c.cmd = "play" /\ engine = "html" /\ ~video.film
         THEN working' = working \o Open(c) /\ UNCHANGED <<seen, rate>>
         ELSE Reply(c, TRUE, v) /\ UNCHANGED working
      /\ wire' = Tail(wire)
\* A seek is acknowledged when it lands; mpv refuses one with nothing loaded.
Seek(c) ==
  /\ c.cmd = "seek" /\ wire' = Tail(wire)
  /\ IF engine = "mpv" /\ ~video.film THEN Reply(c, FALSE, video) /\ UNCHANGED <<video, working>>
     ELSE /\ video' = [video EXCEPT !.off = c.off, !.seeking = IF video.film THEN 1 ELSE 0]
          /\ working' = working \o Open(c) /\ UNCHANGED <<seen, rate>>
\* The film goes: an element is paused and its rate reset, mpv keeps both.
Emptied(start) ==
  [film |-> FALSE, off |-> start, seeking |-> 0,
   paused |-> engine = "html" \/ video.paused, dev |-> IF engine = "html" THEN 0 ELSE video.dev]
\* Loading ends the plays that wait.  mpv says that its time-pos has gone, unless it has another by then.
Load(c, start) ==
  /\ c.cmd = "load" /\ wire' = Tail(wire) /\ video' = Emptied(start)
  /\ working' = Append(Without(working, "play"), c) /\ UNCHANGED rate
  /\ \/ UNCHANGED seen
     \/ engine = "mpv" /\ video.film /\ seen' = Forgotten(start)
Unload(c, start) ==
  /\ c.cmd = "unload" /\ video' = Emptied(start) /\ wire' = Tail(wire) /\ Reply(c, TRUE, Emptied(start))
  /\ working' = Without(working, "play")
Execute ==
  /\ stuck = "no" /\ wire # <<>> /\ UNCHANGED <<engine, target, stuck, budget>>
  /\ \/ Immediate(wire[1]) \/ Seek(wire[1])
     \/ \E start \in {-Far, 0} : Load(wire[1], start) \/ Unload(wire[1], start)

\* seeked, playback-restart: every seek that waits for one is answered.
Seeked ==
  /\ stuck = "no" /\ video.seeking > 0 /\ video' = [video EXCEPT !.seeking = 0]
  /\ LET ours == SelectSeq(working, LAMBDA c : c.cmd = "seek" /\ c.open)
     IN  IF ours = <<>> THEN UNCHANGED <<seen, rate>> ELSE Reply(ours[1], TRUE, video')
  /\ working' = Without(working, "seek") /\ UNCHANGED <<engine, target, wire, stuck, budget>>
\* loadedmetadata or error; file-loaded or end-file.
Loaded(k, ok) ==
  LET v == [video EXCEPT !.film = ok]
  IN  /\ stuck = "no" /\ working[k].cmd = "load" /\ video' = v /\ Reply(working[k], ok, v)
      /\ working' = RemoveAt(working, k)
      /\ wire' = IF engine = "mpv" /\ ok /\ working[k].open THEN Append(wire, New("pause", 0, 0, "film")) ELSE wire
      /\ UNCHANGED <<engine, target, stuck, budget>>
\* A seek that no seeked will answer: bounded by the player itself, an error in html and not in mpv.
SeekLapses(k) ==
  /\ stuck = "no" /\ working[k].cmd = "seek" /\ video.seeking = 0
  /\ working' = RemoveAt(working, k) /\ Reply(working[k], engine = "mpv", video)
  /\ UNCHANGED <<engine, target, video, wire, stuck, budget>>

\* What a command given up leaves behind: in the queue it is still executed, and a load still loads.
GivenUp(w) == [k \in DOMAIN w |-> [w[k] EXCEPT !.open = FALSE]]
Waits(c) == c.cmd # "seek" \/ video.seeking = 0
LoadingOpen == \E k \in DOMAIN working : working[k].open /\ working[k].cmd = "load"
\* As if RendererPlayer, like ExternalMpv, bounded only what loads.
GiveUpLoading ==
  /\ LoadingOpen /\ working' = GivenUp(SelectSeq(working, LAMBDA c : c.cmd = "load")) \o Without(working, "load")
  /\ UNCHANGED <<engine, target, video, seen, rate, wire, stuck, budget>>
\* RendererPlayer.send bounds every command; of mpv's, only a load that was acknowledged is bounded.
GiveUp ==
  /\ IF engine = "mpv" THEN LoadingOpen /\ UNCHANGED wire
     ELSE /\ Busy("tick") \/ Busy("film")
          /\ stuck = "hung" \/ \E k \in DOMAIN working : working[k].open /\ Waits(working[k])
          /\ wire' = IF stuck = "hung" THEN GivenUp(wire) ELSE wire
  /\ working' = GivenUp(SelectSeq(working, LAMBDA c : c.cmd = "load"))
                \o IF engine = "mpv" THEN Without(working, "load") ELSE <<>>
  /\ UNCHANGED <<engine, target, video, seen, rate, stuck, budget>>

-----------------------------------------------------------------------------
(* The interface, and what becomes of the player's process. *)

\* The film lifecycle loads or unloads a film, one call after the other.
FilmCall(cmd) ==
  /\ budget.changes > 0 /\ ~Busy("film") /\ stuck # "dead"
  /\ budget' = [budget EXCEPT !.changes = @ - 1] /\ wire' = Append(wire, New(cmd, 0, 0, "film"))
  /\ UNCHANGED <<engine, target, video, seen, rate, working, stuck>>
\* Somebody leaves and enters a room: the new client believes in rate 1 and has no anchor.
NewClient ==
  /\ budget.changes > 0 /\ ~Busy("tick") /\ rate # 0 /\ rate' = 0 /\ target' = "idle"
  /\ budget' = [budget EXCEPT !.changes = @ - 1]
  /\ UNCHANGED <<engine, video, seen, wire, working, stuck>>
Hangs ==
  /\ stuck = "no" /\ budget.hangs > 0 /\ stuck' \in {"hung", IF engine = "mpv" THEN "dead" ELSE "hung"}
  /\ budget' = [budget EXCEPT !.hangs = @ - 1]
  /\ UNCHANGED <<engine, target, video, seen, rate, wire, working>>
Recovers ==
  stuck = "hung" /\ stuck' = "no" /\ UNCHANGED <<engine, target, video, seen, rate, wire, working, budget>>

Player == Execute \/ Seeked \/ \E k \in DOMAIN working : SeekLapses(k) \/ \E ok \in BOOLEAN : Loaded(k, ok)
Next == \/ Pass \/ AnchorArrives \/ Player \/ GiveUp \/ Hangs \/ Recovers \/ NewClient
        \/ \E t \in {"idle", "paused", "waiting"}, by \in {-Far, 0, Far} : Schedule(t, by)
        \/ \E cmd \in {"load", "unload"} : FilmCall(cmd)
\* Timers fire and a player that is not stuck goes on; a stuck one need not recover.
Fairness == /\ WF_vars(Pass) /\ WF_vars(AnchorArrives) /\ WF_vars(Execute) /\ WF_vars(Seeked)
            /\ WF_vars(\E k \in DOMAIN working : SeekLapses(k) \/ \E ok \in BOOLEAN : Loaded(k, ok)) /\ WF_vars(GiveUp)
Spec == Init /\ [][Next]_vars /\ Fairness

-----------------------------------------------------------------------------
(* Properties *)

\* The tick never stays busy: every command it awaits comes to an end, whatever the renderer does.
\* Only an mpv that hangs or dies can keep it, MpvIpc.command having no timer.
BusyEnds == Busy("tick") ~> \/ ~Busy("tick")
                            \/ engine = "mpv" /\ stuck # "no"

Aligned == video.paused = (target # "playing") /\ (target # "idle" => Abs(video.off) <= Dead)
Settled == stuck = "no" /\ video.film /\ ~Busy("film")
\* The client is wrong about the player, and corrects only what it sees.
Misled == rate # video.dev \/ (engine = "mpv" /\ seen.paused # video.paused)
\* Once the room and the player leave it alone, the film is where the room is and moves as the room
\* does, for good; or else the client believes in another rate or pause than the player has, for good.
Follows == <>[]Settled => (<>[]Aligned \/ <>[]Misled)
=============================================================================
