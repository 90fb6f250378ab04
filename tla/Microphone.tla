------------------------------ MODULE Microphone ------------------------------
(***************************************************************************)
(* The microphone of one person's voice controls: what useVoice opens,     *)
(* swaps, turns on and off and closes (join, leave, rebuild, acquire,      *)
(* reacquire, setInput, refreshDevices, applyMic), and MicWatch, which     *)
(* reports that a track is live, silent or ended.  A microphone is a       *)
(* stream with its one track, from the device it was opened on: the one    *)
(* chosen, or the system's default.                                        *)
(* "page" is what the hook keeps in its refs; "talk" is not being muted    *)
(* and, with push to talk, holding the key.                                *)
(*                                                                         *)
(* getUserMedia and replaceTrack settle at any later time; the             *)
(* replaceTrack of a connection closed meanwhile resolves, rejects or      *)
(* never settles.                                                          *)
(* Bounds: Turns (joining and leaving, rebuilds) and Events (of the        *)
(* devices, the tracks and the connections, choices), not all of both;     *)
(* Attempts (REACQUIRE_ATTEMPTS); Streams (open at a time, whose numbers   *)
(* are used again).                                                        *)
(***************************************************************************)
EXTENDS Integers, Sequences, SequencesExt, FiniteSets

CONSTANTS Turns, Events, Attempts, Streams
ASSUME MicrophoneAssumption ==
  {Turns, Events, Attempts, Streams} \subseteq Nat /\ Streams >= 2

\* "crossed": a replacement was awaited when its call was closed or rebuilt, or has failed.
VARIABLES page, mics, wanted, present, joins, refresh, budget, crossed
micVars == <<page, mics, wanted, present, joins, refresh, budget, crossed>>

Devices == {"default", "chosen"}
NoRun == [at |-> "none", dev |-> "default", call |-> 0, old |-> 0, new |-> 0]
\* What replaceLocalTrack awaits: a replacement, or one of a connection closed meanwhile.
Replacing == {"replacing", "crossed"}
Closed == [open |-> FALSE, dev |-> "default", muted |-> FALSE, ended |-> FALSE, on |-> FALSE]

MicTypeOK ==
  /\ page \in [mesh: BOOLEAN, stream: 0 .. Streams, sent: 0 .. Streams, call: 0 .. 2 * Turns, inVoice: BOOLEAN,
               talk: BOOLEAN, run: [at: {"none", "asking", "standin"} \cup Replacing, dev: Devices, call: 0 .. 2 * Turns,
                     old: 0 .. Streams, new: 0 .. Streams],
               waiters: Seq(Devices), askedFor: Devices, fallback: BOOLEAN, failed: BOOLEAN,
               unheard: BOOLEAN, track: 0 .. Streams, last: {"none", "live", "silent", "ended"}, grace: BOOLEAN,
               retries: 0 .. Attempts, retry: BOOLEAN]
  /\ mics \in [1 .. Streams -> [open: BOOLEAN, dev: Devices, muted: BOOLEAN, ended: BOOLEAN, on: BOOLEAN]]
  /\ wanted \in Devices /\ {present, refresh, crossed} \subseteq BOOLEAN
  /\ joins \subseteq [at: {"access", "asking", "standin", "opening"}, dev: Devices, call: 0 .. 2 * Turns]
  /\ Len(page.waiters) <= 2 * Events /\ budget \in [moves: 0 .. Turns, events: 0 .. Events]

MicInit ==
  /\ page = [mesh |-> FALSE, stream |-> 0, sent |-> 0, call |-> 0, inVoice |-> FALSE, talk |-> FALSE,
             run |-> NoRun, waiters |-> <<>>, askedFor |-> "default", fallback |-> FALSE, failed |-> FALSE,
             unheard |-> FALSE, track |-> 0, last |-> "none", grace |-> FALSE, retries |-> 0, retry |-> FALSE]
  /\ mics = [n \in 1 .. Streams |-> Closed] /\ wanted \in Devices /\ present \in BOOLEAN
  /\ joins = {} /\ refresh = FALSE /\ crossed = FALSE
  /\ budget \in [moves: 0 .. Turns, events: 0 .. Events] /\ budget.moves + budget.events < Turns + Events

Stopped(m, n) == IF n = 0 THEN m ELSE [m EXCEPT ![n] = Closed]
Free == {n \in 1 .. Streams : ~mics[n].open} \ {page.stream, page.sent, page.run.old, page.run.new}
Next1 == CHOOSE n \in Free : \A k \in Free : n <= k
Mic(p) == p.inVoice /\ p.talk
\* applyMic, and what adopt does of it: the track of the call is on as the controls say.
Applied(m, p) == IF p.stream = 0 THEN m ELSE [m EXCEPT ![p.stream].on = Mic(p)]

-----------------------------------------------------------------------------
(* MicWatch and what its reports lead to, on a page p. *)

\* As if only somebody shown in voice had a microphone to replace.
ReacquireInVoice(p, device) ==
  IF ~p.inVoice THEN p
  ELSE IF p.run.at # "none" THEN [p EXCEPT !.waiters = Append(@, device)]
  ELSE [p EXCEPT !.run = [at |-> "asking", dev |-> device, call |-> p.call, old |-> p.stream, new |-> 0],
                 !.askedFor = device, !.failed = FALSE]
\* reacquire: one at a time, a request made meanwhile waits for the end of it.
Reacquire(p, device) ==
  IF ~p.mesh THEN p
  ELSE IF p.run.at # "none" THEN [p EXCEPT !.waiters = Append(@, device)]
  ELSE [p EXCEPT !.run = [at |-> "asking", dev |-> device, call |-> p.call, old |-> p.stream, new |-> 0],
                 !.askedFor = device, !.failed = FALSE]

\* onMicHealth.
Health(p, h) ==
  CASE h = "live"  -> [p EXCEPT !.retries = 0, !.retry = FALSE]
    [] h = "ended" -> Reacquire([p EXCEPT !.retries = 0, !.retry = FALSE], wanted)
    [] OTHER       -> IF p.retries < Attempts THEN [p EXCEPT !.retries = @ + 1, !.retry = TRUE] ELSE p
\* report: each change once.
Heard(p, h) ==
  LET q == [p EXCEPT !.grace = @ /\ h # "live"] IN IF h = q.last THEN q ELSE Health([q EXCEPT !.last = h], h)
Unwatched(p) == [p EXCEPT !.track = 0, !.grace = FALSE]
\* watch: nothing looks whether the track has ended.
Watched(p, n, muted) ==
  LET q == [p EXCEPT !.track = n, !.last = "none", !.grace = muted]
  IN  IF muted THEN q ELSE Heard(q, "live")

-----------------------------------------------------------------------------
(* A call begins and ends. *)

\* The mesh is closed under a replacement that is awaited.
Crossed(p) == IF p.run.at \in Replacing THEN [p EXCEPT !.run.at = "crossed"] ELSE p
Left(p) ==
  [Crossed(Unwatched(p)) EXCEPT !.call = @ + 1, !.mesh = FALSE, !.sent = 0, !.stream = 0, !.retry = FALSE, !.retries = 0,
                       !.fallback = FALSE, !.inVoice = FALSE]
Clicks ==
  /\ budget.moves > 0 /\ budget' = [budget EXCEPT !.moves = @ - 1]
  /\ crossed' = (crossed \/ page.run.at \in Replacing)
Asking(n) == [at |-> "access", dev |-> "default", call |-> n]
\* join, up to the question to the system; a call still open is closed first.
Join ==
  /\ Clicks
  /\ LET p == IF page.mesh \/ page.stream # 0 THEN Left(page) ELSE page IN
     /\ page' = [p EXCEPT !.call = @ + 1] /\ joins' = joins \cup {Asking(p.call + 1)}
     /\ mics' = IF p = page THEN mics ELSE Stopped(mics, page.stream)
  /\ UNCHANGED <<wanted, present, refresh>>
Leave ==
  /\ Clicks /\ (page.inVoice \/ page.mesh) /\ page' = Left(page) /\ mics' = Stopped(mics, page.stream)
  /\ UNCHANGED <<joins, wanted, present, refresh>>
\* As if the new mesh were not given the microphone.
RebuildBare ==
  /\ Clicks /\ page.mesh /\ page' = [page EXCEPT !.sent = 0] /\ UNCHANGED <<mics, joins, wanted, present, refresh>>
\* rebuild: the same call and microphone, under a new member id.
Rebuild ==
  /\ Clicks /\ page.mesh /\ page' = [Crossed(page) EXCEPT !.sent = page.stream]
  /\ UNCHANGED <<mics, joins, wanted, present, refresh>>

\* acquire: the chosen device, and the default when it is gone.
Gone(a) == a.at = "asking" /\ a.dev = "chosen" /\ ~present
StandIn(a) == [a EXCEPT !.at = "standin", !.dev = "default"]
\* acquire's note that the default stands in for the chosen device; nothing ties it to a call.
Noted(p, a) == IF a.at = "asking" THEN [p EXCEPT !.fallback = FALSE] ELSE p
\* A track is on when the system hands it over.
Opened(dev, muted) == [mics EXCEPT ![Next1] = [open |-> TRUE, dev |-> dev, muted |-> muted, ended |-> FALSE, on |-> TRUE]]

JoinAsks(j) ==
  /\ j.at = "access" /\ joins' \in {joins \ {j}, (joins \ {j}) \cup {[j EXCEPT !.at = "asking", !.dev = wanted]}}
  /\ UNCHANGED <<page, mics, wanted, present, refresh, budget, crossed>>
JoinStandsIn(j) ==
  /\ Gone(j) /\ page' = [page EXCEPT !.fallback = TRUE] /\ joins' = (joins \ {j}) \cup {StandIn(j)}
  /\ UNCHANGED <<mics, wanted, present, refresh, budget, crossed>>
JoinRefused(j) ==
  /\ j.at \in {"asking", "standin"} /\ joins' = joins \ {j}
  /\ UNCHANGED <<page, mics, wanted, present, refresh, budget, crossed>>
\* The stream is there: of no use to a call that has ended meanwhile.
JoinOpens(j, muted) ==
  LET n == Next1
      p == Noted(page, j)
      q == Watched([p EXCEPT !.mesh = TRUE, !.stream = n, !.sent = n, !.retries = 0, !.unheard = FALSE], n, muted) IN
  /\ j.at \in {"asking", "standin"} /\ ~Gone(j) /\ Free # {}
  /\ IF j.call # page.call
     THEN page' = p /\ joins' = joins \ {j} /\ UNCHANGED <<mics, refresh>>
     ELSE /\ mics' = Applied(Opened(j.dev, muted), q) /\ page' = q /\ refresh' = TRUE
          /\ joins' = (joins \ {j}) \cup {[j EXCEPT !.at = "opening"]}
  /\ UNCHANGED <<wanted, present, budget, crossed>>
\* setMembers is through: whatever happened meanwhile, this is being in voice.
JoinDone(j) ==
  /\ j.at = "opening" /\ joins' = joins \ {j}
  /\ LET p == [page EXCEPT !.inVoice = TRUE] IN page' = p /\ mics' = Applied(mics, p)
  /\ UNCHANGED <<wanted, present, refresh, budget, crossed>>

-----------------------------------------------------------------------------
(* The microphone is asked for again. *)

\* The run is over; the requests folded into it go on if they asked for another device.
Over(p) ==
  FoldLeft(LAMBDA q, device : IF wanted = device /\ q.askedFor = device THEN q ELSE Reacquire(q, wanted),
           [p EXCEPT !.run = NoRun, !.waiters = <<>>], p.waiters)
RunStandsIn ==
  /\ page.run.at = "asking" /\ Gone(page.run) /\ page' = [page EXCEPT !.fallback = TRUE, !.run = StandIn(@)]
  /\ UNCHANGED <<mics, joins, wanted, present, refresh, budget, crossed>>
RunRefused ==
  /\ page.run.at \in {"asking", "standin"} /\ page' = Over([page EXCEPT !.failed = TRUE])
  /\ UNCHANGED <<mics, joins, wanted, present, refresh, budget, crossed>>
\* As if only the end of the call counted.
StaleOut(p) == ~p.mesh
\* Left voice, or rejoined, while the device was opening.
Stale(p) == p.run.call # p.call \/ ~p.mesh
RunOpens(muted) ==
  LET p == Noted(page, page.run) IN
  /\ page.run.at \in {"asking", "standin"} /\ ~Gone(page.run) /\ Free # {}
  /\ IF Stale(page) THEN page' = Over([p EXCEPT !.failed = TRUE]) /\ UNCHANGED mics
     ELSE /\ page' = [p EXCEPT !.run.at = "replacing", !.run.new = Next1, !.sent = Next1]
          /\ mics' = Opened(page.run.dev, muted)
  /\ UNCHANGED <<joins, wanted, present, refresh, budget, crossed>>
\* A microphone that ended before it is adopted, and so watched, is never heard to end.
Adopting(p) == [p EXCEPT !.stream = page.run.new, !.unheard = mics[page.run.new].ended]
\* As if adopt left the track as the system handed it over.
RunReplacedBare ==
  /\ page.run.at \in Replacing /\ mics' = Stopped(mics, page.run.old)
  /\ page' = Over(Watched(Adopting(page), page.run.new, mics[page.run.new].muted))
  /\ UNCHANGED <<joins, wanted, present, refresh, budget, crossed>>
\* replaceLocalTrack is through: the old track is stopped, the new one adopted, whatever became of the call.
RunReplaced ==
  /\ page.run.at \in Replacing /\ mics' = Applied(Stopped(mics, page.run.old), Adopting(page))
  /\ page' = Over(Watched(Adopting(page), page.run.new, mics[page.run.new].muted))
  /\ UNCHANGED <<joins, wanted, present, refresh, budget, crossed>>
\* The replaceTrack of a connection closed meanwhile rejects: neither track is stopped.
RunReplaceFails ==
  /\ page.run.at = "crossed" /\ page' = Over([page EXCEPT !.failed = TRUE]) /\ crossed' = TRUE
  /\ UNCHANGED <<mics, joins, wanted, present, refresh, budget>>

-----------------------------------------------------------------------------
(* Devices, tracks, timers and choices. *)

Happens == budget.events > 0 /\ budget' = [budget EXCEPT !.events = @ - 1] /\ UNCHANGED crossed
\* devicechange; the tracks of a device that goes end.
DeviceChanges ==
  LET ends == {n \in 1 .. Streams : mics[n].open /\ mics[n].dev = "chosen" /\ ~mics[n].ended /\ present} IN
  /\ Happens /\ present' = ~present /\ refresh' = TRUE
  /\ mics' = [n \in 1 .. Streams |-> IF n \in ends THEN [mics[n] EXCEPT !.ended = TRUE] ELSE mics[n]]
  /\ page' = IF page.track \in ends THEN Heard(page, "ended") ELSE page
  /\ UNCHANGED <<joins, wanted>>
\* mute, unmute: the microphone of the call, or the one that is to replace it.
Sound(n) ==
  /\ Happens /\ n \in {page.stream, page.run.new} /\ mics[n].open /\ ~mics[n].ended
  /\ mics' = [mics EXCEPT ![n].muted = ~@]
  /\ page' = IF page.track # n THEN page ELSE IF mics[n].muted THEN Heard(page, "live") ELSE [page EXCEPT !.grace = TRUE]
  /\ UNCHANGED <<joins, wanted, present, refresh>>
\* A connection is closed while its track is replaced: somebody left, or it failed and is tried again.
ConnectionCloses ==
  /\ Happens /\ page.run.at = "replacing" /\ page' = [page EXCEPT !.run.at = "crossed"]
  /\ UNCHANGED <<mics, joins, wanted, present, refresh>>
GraceOver ==
  LET p == [page EXCEPT !.grace = FALSE] IN
  /\ page.grace /\ page' = IF mics[page.track].muted THEN Heard(p, "silent") ELSE p
  /\ UNCHANGED <<mics, joins, wanted, present, refresh, budget, crossed>>
RetryFires ==
  /\ page.retry /\ page' = Reacquire([page EXCEPT !.retry = FALSE], wanted)
  /\ UNCHANGED <<mics, joins, wanted, present, refresh, budget, crossed>>
\* Muting, unmuting, the key of push to talk.
Talk ==
  /\ Happens
  /\ LET p == [page EXCEPT !.talk = ~@] IN page' = p /\ mics' = Applied(mics, p)
  /\ UNCHANGED <<joins, wanted, present, refresh>>
\* setInput: the choice is kept, and applied when there is a call.
SetInput(d) ==
  /\ Happens /\ d # wanted /\ wanted' = d /\ page' = Reacquire([page EXCEPT !.retries = 0], d)
  /\ UNCHANGED <<mics, joins, present, refresh>>
\* refreshDevices: the chosen device is listed again.
Refreshed ==
  /\ refresh /\ refresh' = FALSE
  /\ page' = IF page.fallback /\ wanted = "chosen" /\ present THEN Reacquire(page, wanted) ELSE page
  /\ UNCHANGED <<mics, joins, wanted, present, budget, crossed>>

Joining == \E j \in joins : JoinAsks(j) \/ JoinStandsIn(j) \/ JoinRefused(j) \/ JoinDone(j)
                            \/ \E muted \in BOOLEAN : JoinOpens(j, muted)
Reopening == RunStandsIn \/ RunRefused \/ RunReplaced \/ \E muted \in BOOLEAN : RunOpens(muted)
MicNext == \/ Join \/ Leave \/ Rebuild \/ Joining \/ Reopening \/ RunReplaceFails
           \/ DeviceChanges \/ ConnectionCloses
           \/ \E n \in 1 .. Streams : Sound(n)
           \/ \E d \in Devices : SetInput(d)
           \/ Talk \/ GraceOver \/ RetryFires \/ Refreshed
\* While there is an answer of the system or a timer to come, one of them comes; the replaceTrack of a
\* closed connection need not settle.
Settles == Joining \/ (page.run.at # "crossed" /\ Reopening) \/ Refreshed \/ GraceOver \/ RetryFires
MicSpec == MicInit /\ [][MicNext]_micVars /\ WF_micVars(Settles)

-----------------------------------------------------------------------------
(* Properties *)

Open == {n \in 1 .. Streams : mics[n].open}
\* Every open microphone is the one of the call, or on its way in or out: none is left on with nothing
\* referring to it, nor after leaving; unless a replacement was awaited when the call was closed or
\* rebuilt, or failed with a connection ("crossed": useVoice.ts:361-363 looks at neither).
NoOrphan == ~crossed => /\ Open \subseteq {page.stream, page.run.old, page.run.new}
                        /\ ~page.mesh => page.stream = 0
\* In a call, what the others are sent is the microphone of the call, which is open, and on exactly while
\* the controls say so, also while another is opened; only while replaceLocalTrack is awaited some are
\* sent the new one, on as the system handed it over.  "Crossed" calls apart, as above.
SentIsAsSet ==
  page.mesh /\ ~crossed =>
    /\ page.stream \in Open /\ mics[page.stream].on = Mic(page)
    /\ page.sent = IF page.run.at \in Replacing THEN page.run.new ELSE page.stream
    /\ page.sent \in Open
\* A microphone that ends while it is the call's is replaced, unless the system refuses another, the
\* request was folded into one that a call already over had made ("failed"), or a replacement never
\* settles.  One that ended before it was adopted is not noticed ("unheard").
Ended == page.mesh /\ page.stream # 0 /\ mics[page.stream].ended /\ ~page.unheard
Replaced == Ended ~> ~Ended \/ page.failed \/ page.run.at = "crossed"
=============================================================================
