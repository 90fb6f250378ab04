# coCine in TLA+

coCine lets a few people watch one film together: a signalling server keeps
rooms, every client drives a local player from the anchor the server hands out,
and the film itself travels between the people (a swarm) or through object
storage (relay mode).  This directory specifies the system, checks the
specifications on small instances with TLC and proves the central ones with
TLAPS.

## 1. The system

| Component | State it keeps | Operations | Talks to |
|---|---|---|---|
| Room membership (`room.ts`, `server.ts`) | member map in order of arrival, host and control flags, room policy, socket map, idle-timer map | connect, hello (create, join), close, idle timeout, setControl, transferHost, setOpenControl | every member, by `room.state` |
| Room store (`store.ts`) | rooms by code, when each became empty | create, get, sweep | server |
| Room film state (`room.ts`, `server.ts`) | film, sharer, mode, playback anchor and its number, reports, override, last phase broadcast | announce, clear, setMode, playback.request, peer.report, startAnyway, the status timer | members by `room.state`, `playback.schedule`; the tracker's allow-list |
| Client connection (`room-client.ts`) | socket, timers, `connection`, retry timer, room code, clock | connect, onSocketClosed, scheduleReconnect, close | server |
| Chat | bounded history | send, replay on join | members |
| Readiness (`readiness.ts`) | none (pure) | isReady, phaseFor, bottleneck, eta, seekable stretch | server |
| Synchronisation (`engine.ts`, `clock.ts`) | clock samples, target, rate | tick, addExchange | player |
| Voice mesh (`mesh.ts`) and controls (`useVoice.ts`, `mic.ts`) | peers, offers, buffered candidates; in call, muted, device | setMembers, handleSignal, offer, drop; join, leave, mute | other members by `rtc.signal` |
| Relay requests (`server.ts`, `room-client.ts`, `origin.ts`) | callers waiting for a signed URL | origin.request, origin.url | server, object storage |
| Transfers (`origin-transfer.ts`, `transfer.ts`, `ranges.ts`, `pieces.ts`) | ranges held per film, prefetch and stream state | share, receive, serve, prefetch, stop, destroy | storage, swarm, player |
| Desktop film lifecycle (`main/index.ts`, `handlers.ts`) | the film open here, received, shared; generation | open, share, receive, unload, mode change, leave | transfers, room client, player |
| Players (`packages/player`, `renderer-player.ts`) | process or page, outstanding commands | load, play, seek, quit | film lifecycle, sync |
| Desktop windows (`video-window.ts`, `chat-overlay.ts`) | the surface mpv draws into, the chat over it, calls under way | slot, embed, show, hide, shape, minimise, fullscreen, the status timer | window manager, page |

The React interface beyond the scrub bar and the voice hooks, logging,
subtitles, conversion, TURN credentials, the tracker library and deployment keep
no state that the others' correctness depends on.  `PROJECT.json` lists all of
them with what is modelled of each.

**What is hard.**  The server is single threaded: each handler runs to its end,
but handlers of many sockets, three timers (idle, sweep, status) and close
events interleave, and each must leave two maps and every client's copy of the
room in order.  On the client nothing is atomic: `connect()`, a film being
received, a negotiation, all go on after an `await` with the world changed under
them.  Peers vanish without closing; replies are lost with their sockets.  The
hazards list in `PROJECT.json` names the line where each of these bites.

## 2. Modules

| Module | Models |
|---|---|
| `RoomPromise` | what a room promises the people in it: rooms, who is in them in order of arrival, a leader, the right to drive; abstract, implemented by `RoomMembers` |
| `RoomMembers` | joining, leaving, hosting, control, the store, sockets; one action per handler, close event or timer |
| `RoomServer` | a whole room: `RoomMembers` through INSTANCE, with the film, mode, anchors, reports and phase; each action is a membership step conjoined with its effect on the film |
| `RoomClient` | clients that connect, lose the connection and return, against `RoomMembers` as the server; a client's n-th socket is a socket of the server |
| `RoomSession` | what one client is told of its room through channels that take their time and are lost: chat, film, transfer figures, signed URLs, reports |
| `SeekableStretch` | piece maps, the readiness gate, the seek check and the interface's clamp, over a film fetched in pieces |
| `FilmLifecycle` | the film on one desktop: what its main process opens, fetches, shares and puts away while the room changes under its awaits |
| `Ranges` | the lists of byte ranges of a film on disk, as folds, with their meaning as sets |
| `OriginTransfer` | relay mode on one machine: receive, prefetch, stream, stop, crash and resume (uses `Ranges`) |
| `SwarmTransfer` | swarm mode on one machine: receive and its attempts, stop, removal from disk, destroy |
| `Transports` | the two transfers, one of which a room's mode selects |
| `SyncedPlayer` | the tick, its decisions, and two kinds of player that answer late, hang or die |
| `VoiceMesh` | two people calling each other through the server, with joins, rejoins, failures and retries |
| `Microphone` | the microphone of one person, across every await of joining, leaving, choosing and the watch |
| `StageWindows` | the native surface under the film and the chat over it |
| `RoomMembersProofs`, `RoomServerProofs`, `RoomClientProofs`, `RoomSessionProofs`, `SeekableStretchProofs`, `TransportsProofs` (with `OriginTransfer`, `Ranges` and `SwarmTransfer`), `DesktopProofs` (`StageWindows`, `Microphone` and `FilmLifecycle`) | the theorems |
| `FoldLemmas` | what the proofs need of minima, maxima and folds over sequences |

`RoomMembers` implements `RoomPromise`: the refinement is the property
`KeepsPromise`, checked by the run `members` and proved.  `RoomServer` and
`RoomClient` are written *around* the actions of `RoomMembers`, so that they
refine it says nothing about the code; it is a lemma of each, which only carries
the theorems about membership over to the larger modules.

### RoomMembers

A socket joins at most one room in its life and gets a random id then, so the
socket stands for the member id.  `memberOf` with `arrival` is `Room.members`
(a Map keeps the order of insertion), `conns` the server's `conns` map, `heard`
the keys of the idle timer's `lastHeard`, `seen` the last `room.state` sent on
each socket.  `sock` is `"lost"` when the peer has gone and the server does not
know: it goes on sending into the socket.  Messages are delivered as they are
sent; a broadcast is therefore an assignment to `seen`, computed from the state
*after* the handler, as the code does by broadcasting last.

`RoomPromise` has neither sockets nor maps nor flags.  Its `people` are the
members of a room in the store (`People`), `before` the pairs of them in order of
arrival (`Before`; the counter is gone), `leader` the one member whose flag is
set (`Leader`), `drivers` who of them may control (`Drivers`).  A connect, a lost
peer, a broadcast, an empty room's noted time are stutters; a join, whichever of
the two ways it comes, a departure, whether by close or timer, a sweep of several
rooms, and the three permission messages are each one step of it.  It could fail
where the records and the promise can part: rights or hosting kept by somebody
who left, or a successor other than the longest present.

### RoomServer

A playback state is abstracted to its kind and its number, which together
identify an anchor; a report to whether it makes its sender ready; a film to the
kind of its source.  Whether a seek is refused depends on piece maps and is left
open, which only adds behaviours (`SeekableStretch` has the refusal).  A swept
code stands for a fresh one.

### RoomClient

`dial` says which socket `this.ws` is; `stage[<<c, n>>]` how far the `connect()`
that made the n-th socket has got, because it goes on by itself: dialing,
greeting (the ping burst and the wait for the clock), running, or failed.
`end` is the client's end of a socket, `sock` of `RoomMembers` the server's, so
that each can close first, or neither notice.  `answer` is the hello and its
reply, which can be lost with the socket.  `timers` are the `connect()` calls
whose intervals are running, `retry` whether `reconnectTimer` is set.  The delay
before a retry, its back-off and the five seconds of `waitForClock` are
nondeterministic choices of when to fire; a later `connect()` cannot run out of
its five seconds before an earlier one, which began them first.

### RoomSession

`up` and `down` are the two directions of a client's socket, each in order; a
loss empties both and leaves a ghost member behind.  `client` has the fields of
`RoomClient` that the messages fill: `messages`, `film`, `figures`
(`transferStatus`) and `waiting` (the queue of callers of `originUrl`), and what
the desktop's transport carries.  `Serve` is the server's handling of one
message.  A request has a number that neither side sends, so that a reply can be
compared with the request at whose turn it comes: `Said` is what the messages of
one kind in a channel say, `Asked(c)` the requests of a client whose answers are
under way, followed by those still to be answered.  A film without a source
(`Local`) compares as no film, as `sourceId` does.  The status timer and
reports, which are periodic, are let into a channel once at a time.

### SeekableStretch

Time is in ticks of any length, the film any number of pieces, which need not
line up with the buckets of the piece map: rounding happens.  A bucket begins at
a tick (`Duration % Buckets = 0`), because the code's times are fractions and
the limits of a bucket exact; `Half` is the half second by which the interface
stays off the end of a stretch.  A copy counts as whole when it lacks no more
than one piece in `Tolerance`, which is 0.999 (`readiness.ts:21`, `:85`) when
that is 1000.  `PieceMap`,
`SeekableBuckets`, `Phase` and the readiness of a report are the pure functions
of `pieces.ts` and `readiness.ts`; actions are a film whose transport begins
(`carry`) or that the player has opened (`opened`: `sharedId` is the film), a
piece that arrives, a report, arrivals and departures, a film unloaded, the
status tick, and what the interface asks.  `ReportFor` is `getReport`: whoever
has the film open vouches for the whole of it (`index.ts:466-476`), and a viewer
has it open once the player has loaded the stream (`:558`), for which the head
of the film is enough; only a fetch whose load is still under way reports what
it holds.  A seek travels (`asked`) and meets the room it finds.  Which piece the
swarm delivers next is left open.

### FilmLifecycle

`me` is the film half of the module variables of `main/index.ts`; `room` what
the server keeps of the film, `news` the `room.state` messages on their way,
`view` what the client last heard.  Every handler (the `media` listener, room
entry and exit, the `film:*` calls) runs to its first `await` in one step, and
what follows each await is a step of its own.  A handler at work is a record in
`jobs`: the film it is about, the await it is at, and which transport it was
given.  `latest` is the job that made the last `++filmGeneration`, so that a
fetch compares itself with it as the code compares numbers.  A film of one's own
that is opened, and the upload or hashing of a share, are awaits like any other.

`history` records conditions that properties depend on: that something failed,
that the person opened, unloaded or left, and two orders of handlers.
`crossed`: a handler began while a `closeFilm` or a share was under way, or a
share ended with news still to be heard.  `raced`: a share was begun while
anything else was at work here, or a file opened while a film put on by this
machine was still being announced; what is open, or heard, is then not what was
shared.  `AtWork` reads both off the jobs, and nothing in the model's steps
depends on `history`.

Three places admit more than the code does, or stand for a library: a transport
that has been torn down may still answer its old fetch; the player's
`file-loaded` event does not say which file, so every load outstanding returns
with it (the code attaches one listener per load); a swarm refuses a film it is
adding already.  Messages to the server arrive at once; those from it wait in
`news`.  Deleting a film from disk is in `SwarmTransfer`; changing players and
conversion are not modelled.

### Ranges, OriginTransfer, SwarmTransfer, Transports

`Ranges` has the loops of `ranges.ts` as folds, and its sort as `InOrder`, some
permutation of a list that is not in order already.  `Tidy` is what the lists
are meant to be: sorted, none empty, none touching.  In `OriginTransfer` bytes
are chunks.  `disk` has what is in the film's file and what `ranges.json` says,
which are two writes; a crash keeps `disk` and forgets the rest.  An `entry` is
a `Held` object; a `job` is a call of `receive`, `prefetch`, `serve` or `stop`
at one of its awaits, and keeps the entry it began with when the map has another
in its place.  The stream server of this transport is started only if its owner
does so (`player.stream`): the property about the stream is stated for an owner
who does, and the run `origin_direct` shows what the desktop does.  Assumed: a
film is asked for anew only when nothing is at work on it any more, which the
code does not enforce (section 5).  Uploading, throttling, statistics and
removal of a relayed film are left out.

In `SwarmTransfer` WebTorrent is modelled as it is used: one torrent of a film
per client, which writes once it has its metadata, and callbacks that never come
for what it refused or destroyed itself.  `torrent.of` is the receive whose
torrent it is; `tracked` the entry of the map, which is made only after the
metadata has been recorded, and which is all that `stop` looks at.  The check
that a film to be removed is not open, and sharing, pausing and piece windows,
are left out.

`Transports` picks one of them at the start.  What becomes of films when a room
changes mode is the subject of `FilmLifecycle`.

### SyncedPlayer

Positions are offsets from where the room should be, so that time passing moves
whatever is absolute.  `wire` is the queue of commands to the player, `working`
the commands it has begun; a command has who awaits it and whether its promise
is open.  `seen` is the reading the client extrapolates, `rate` the rate it
believes in, `video` the player itself.  The element pushes all of its state; of
mpv the reading is a cache of properties observed: its time-pos while it has
one, its pause only when that changes, and `{ 0, paused }` from the moment it
loses its time-pos (`forgetPosition`), whatever its pause is then (`Forgotten`).
A load pauses the element; mpv keeps its pause through `loadfile` and is paused
afterwards, by a command of its own, only if the load had not been given up.  A
target without an anchor is `"idle"`, where the engine only pauses.  The clock
is exact here; `packages/sync`'s filter is not modelled.

### VoiceMesh and Microphone

`VoiceMesh`: a connection has a number; descriptions and candidates carry it, so
that one that comes late can be told from one that is meant.  `told`, `shown`
and `mesh[c].list` are the member list as the room client has it, as React has
rendered it, and as the mesh was given it: three moments of one datum.  A
`setMembers` opens connections in turn and awaits an offer wherever this side
offers; `mesh[c].jobs` are the calls that are at such an await, with those still
before them in the list they were given, which may be stale by then; `late` is
whom a call opened that a newer list, without them, had overtaken.  A third
person (`third`) is offered a connection like anybody and answers nothing: they
change the list and make `setMembers` wait.  An offer whose connection is closed
under it may resolve, reject (which fails the `join()` that awaits it,
`"failed"`) or never settle (`OfferLost`).  Assumed: a render with its effects
happens before the next room state is handled, a reconnect is one step, a
candidate follows its description.

`Microphone`: `page` is the refs of `useVoice`; `joins` the calls of `join()`
under way, each at an await; `page.run` the one `reacquire` that may run.
`sent` is the track the connections send, which `replaceLocalTrack` changes
before it is through, so that during its await (`"replacing"`) the new one is
heard as the system handed it over, on.  Anything may happen during that await.
A call closed or rebuilt meanwhile, or a connection closed under the
replacement, makes it `"crossed"`: the replacement may then also reject
(`RunReplaceFails`) or never settle.  `crossed`, the variable, records that a
call was closed or rebuilt during the await or that a replacement failed, and
`unheard` that the microphone adopted had ended before anybody watched it; these
are the exceptions of the properties (section 5).  The module's names begin with
`Mic` where `StageWindows` has the same ones, and those of `FilmLifecycle` with
`Film`, so that `DesktopProofs` can extend all three.

### StageWindows

Places are one coordinate: a slot in the page plus the place of the parent.
`calls` are the `setVisible(true)` calls of the overlay under way, each at an
await (loading, first shape, shape).  Chrome is folded into the slot; stacking is
left out; embedding the overlay and its first shaping are one await.  The HTML
engine has no native windows and no steps here.

## 3. Checks

| Run | Shows |
|---|---|
| `members` | rooms outlive their members, each has one host, everybody's roster is current, hosting moves only as `room.ts` says, the records of the store implement `RoomPromise`, and ghosts are reaped |
| `server` | everybody's copy of film, mode and anchor is the room's; a new film closes the gate; a phase that changes by itself is shown |
| `client` | leaving is final, attempts do not overlap, retries go on until the client is back or has left |
| `session` | both ends agree on the chat through losses and rejoins; figures belong to a film; every URL answers the request whose turn it is unless one was refused, lost or timed out; reports about the last film do not stay |
| `seeking` | an accepted seek lands on held pieces, but for straddling ones; what the interface kept inside the stretch is accepted; the gate opens |
| `film` | a watcher ends with the film of the room and nothing of another, a sharer goes on serving what it put on until it is put away, every fetch shown ends |
| `transports` | relayed: what is recorded is on disk, the stream serves no holes, a film held gets complete; swarmed: what is removed stays removed, a receive ends |
| `player` | the tick never stays busy (but for an mpv that hangs), and a player that answers follows the room, unless the client is wrong about its rate, or mpv's pause, for good |
| `voice` | two people who stay in the call get connected, and nobody keeps a connection to somebody who left, unless an overtaken list opened it |
| `microphone` | no microphone stays open without a call, what is sent is open, the call's microphone is on as the controls say and is what is sent outside a replacement, one that ends is replaced; but for calls that end, or connections that close, while the track is replaced |
| `windows` | no black box without a film, the chat never covers it, is there when asked for, and the picture comes back |
| `origin_direct` | the desktop plays a relayed film from the file, holes included (section 5) |

Types are documented by `TypeOK` of each module.  It is proved for
`RoomMembers`, `RoomServer`, `RoomClient`, `SeekableStretch`, `OriginTransfer`,
`SwarmTransfer`, `FilmLifecycle` and `StageWindows`, and for `RoomSession` but
for the numbers its bounds limit (`Types` of `RoomSessionProofs`); the others'
held under the same configurations and are not part of the runs.

**Bounds.**  Each bound is a constant of its module, named there.

- `members`: three sockets are the fewest with a host, a successor and somebody
  who must not be the successor; two rooms the fewest in which a broadcast or a
  sweep can hit the wrong one; the cap of three leaves every succession possible
  while the cap itself is proved rather than run.
- `server`: two members are the fewest that can disagree and one room is enough,
  since no handler reads another room; one film, a local one, for a phase must
  be shown of films with nothing to download too; with `MaxSeq` two it is put on
  and then played or taken off, or put on where the mode has changed.  Longer
  histories, and films that replace each other, are left to the proofs, which
  hold for every set of films and every bound; `allowed`, which grows for films
  of the swarm only and is in no property, is empty in this run.
- `client`: one client with two sockets meets every overlap of an old `connect()`
  with its successor; `MaxRoomMembers = 1` makes its own ghost fill the room.
- `session`: one client, a loss, three events, two films with a source and one
  without, a history of two lines: three lines overflow it; two requests and an
  answer can be under way at once; a film can be put on, taken off and replaced.
- `seeking`: three pieces in six ticks and two buckets, so that one piece lies in
  both; a buffer of three ticks is one more than a piece, so that being ready
  takes two pieces; three arrivals, departures or unloadings and two requests, a
  seek and what it finds changed.  With `Tolerance = 1000` a film of three pieces
  is whole only with all of them.
- `film`: one film of one's own and two of others, the fewest for a fetch
  overtaken by another film, and four moves (of this person or of others):
  enough to put on, take off, put on again and switch modes during one fetch, or
  to open, enter, share and unload.  A move may start a handler with up to four
  awaits, so the interleavings are many although the moves are few.
  Unloading after a share that met an earlier load, which is what `raced` is
  about, takes a fifth; the theorem has no bound.
- `transports`: two chunks, a window of one chunk, three calls: the prefetch and
  two streams, or a receive, a stop or crash and another receive; in the swarm a
  receive under way, another and a removal.  `Edge` lets the range functions be
  compared with sets over every list of ranges within four bytes.
- `player`: offsets to four on either side, more than the seek threshold of
  three; two changes by the room; one hang.
- `voice`: one call each by two people, or two moves of one in a call, or one
  mishap, or one who calls another that is in a call with the third and may leave
  it; one retry.  The last is the smallest in which a list is overtaken while its
  `setMembers` awaits an offer.  A mesh that is closed while a `setMembers` of it
  has somebody left to open is not reached within these bounds.  A pool of seven
  connections and signals is not exhausted.
- `microphone`: joins, leaves, rebuilds up to two and events (devices, tracks,
  controls, connections) up to three, fewer than five together, one attempt of
  the timer; three streams are one more than a call and its run hold (one left
  open after a `crossed` replacement may take the third; a request that finds none
  free is then refused).
- `windows`: two slots, two places of the window, seven moves.

`CHECK_DEADLOCK FALSE` stands where what people do is bounded and nothing runs
for ever: sockets are not reused, and every behaviour may end.

**Fairness.**  Nothing is assumed of people, of routes or of answers arriving.
`RoomMembers` assumes of the runtime: a closing socket emits 'close', the idle
timer reaches a lost peer, the sweep reaches an empty room (unconditional
intervals or events).  `RoomServer` assumes the status interval.  `RoomClient`
assumes that the server handles what has arrived, that a dial ends in success or
failure, and that a retry timer fires.  `RoomSession`: the two ends handle what
they are sent, and the report interval runs.  `SeekableStretch`: the swarm goes
on delivering pieces that somebody present holds, and reports are sent.
`FilmLifecycle`: messages are handled and every await ends, in success or
failure: fetches are given up or refused, the player answers or its load times
out after half a minute.  `OriginTransfer`: awaits end, the playhead timer ticks
(it does so only while the film is the room's, `index.ts:429`: `FilmArrives` is
about a film that stays on), and object storage answers again and again, the one
strong fairness: without it no film need arrive.  `SwarmTransfer`: timers fire
and the disk answers; `destroy` calls back for a live torrent only.
`SyncedPlayer`: timers fire and a player that is not stuck goes on.
`VoiceMesh`: on each client, while a promise can settle, a message, a render, a
timer or a verdict of WebRTC is to come, one of them comes: one weak fairness,
since these are events of one loop; an offer whose connection was closed
(`OfferLost`) need not settle.  `Microphone`: likewise for the system's answers
and the timers together; a replacement of a closed connection's track need not
settle.  `StageWindows`: mpv starts, awaits end, and the status timer runs until
quitting.

## 4. Proofs

All theorems hold for every set of sockets, rooms, films, clients, slots and
places, and every bound; the assumptions are `MaxRoomMembers` at least one,
finitely many sockets, `NoRoom` outside `Code`, and the analogous ones on films,
all named next to the constants.

*RoomMembers.*  `Base` is inductive: types, rooms outlive their members and the
two maps agree need each other, because a room stays in the store by having
members and becomes vacant by the maps agreeing that nobody is left.  On top of
it `OneHost` needs that members arrive at distinct times (else the longest
present would be two) and that hosts are members; its proof takes the earliest
arrival by well-founded induction.  `RoomCap` and `RosterCurrent` are inductive
over `Base`; `Succession` and `HostControlStable` are action properties under
it.

`StoreKeepsPromise`, that the records implement `RoomPromise`, is proved from
`StoreInv`: these two and `ControlOfMembers`, that nobody outside a room has
rights (or a newcomer would arrive with them).  `SomeoneLeads` makes the leader
the abstract module chooses the one whose flag is set; that arrivals are
distinct makes its `First` the member `room.ts` finds (`LeaderStays`,
`RemoveDeparts`), and that the newest arrival is later than any other makes a
join add exactly the pairs of `before` that `Enters` adds (`AddEnters`).
`FramePromise` says that what leaves the records alone is a stutter, so that
connects, losses and broadcasts need nothing else.

*RoomServer.*  `NextImplements` maps every handler to a membership step or a
stutter, by the way the actions are written; through the instance of
`RoomMembersProofs` this gives every membership theorem.  `Wired`, the part of
it the film needs, then carries `FilmCurrent`, `AnchorCurrentWithFilm` and the
action properties.  `FilmCurrent` includes that `lastPhase` is what each member
was told, which is what makes the status timer's comparison right.

*RoomClient.*  `ServerSide` carries the membership theorems to the server inside
it, whose actions are those of `RoomMembers`.  `LeftForGood` and `OneAttempt`
are not inductive: that a retry and a dial exclude each other rests on the
socket being dialled always being the newest, that on no older `connect()`
failing late, and that on the clock having a sample once any `connect()` got
through.  `ClientInv` is that chain.

*Folds.*  The provers have no induction over data, and a fold of the community
modules is a function that is CHOSEN on the sets of indices.  `FoldLemmas` gets
both from what they do have.  Induction over an interval is that every nonempty
set of natural numbers has a least element; that a fold is reached one element
at a time is that the function exists (by that induction), that it is the one
chosen, and that it takes off the greatest index.  What follows is specific to
the operator folded, which no lemma can have as a parameter.

*RoomSession.*  What a client knows is compared with the room through everything
still under way to it, so each invariant is about a fold over a channel, and a
handler is judged by what it puts at the end of a channel (`HeardLast`,
`SaidLast`) or takes from its head (`HeardFirst`, `SaidFirst`).  `IInv` has four
parts over the types.  `ChatAgrees` is inductive by itself, because the history
replaces what was heard before and cutting to the last lines at both ends keeps
the same ones.  `FiguresHaveFilm` is not: figures that are under way must arrive
while a film with a source is in effect at that place of the channel, which
needs that the film in effect at its end is the room's (`Films`; its first half
is `FilmReachesAlways`).  `RightUrl` needs that what a client waits for is not
only begun by the answers under way but *is* those, followed by the requests
still on their way up (`Turns`), and that a closed socket carries nothing, or a
redial would bring old answers.  The steps are sorted first, by what they let
clients hear (`StepKinds`), so that chat and film need one case for each kind of
step.

*Ranges.*  `Add`, `Missing` and `Total` are the union, the difference and the
cardinality of the sets of bytes, for tidy lists of every length.  The invariant
of `add`'s loop (`GatheredSoFar`) is that what is out is tidy and ends before
both the range gathered and every range still to come, and that together they
have the bytes of what was looked at and of the range added; that of
`missing` (`SkippedSoFar`) that the gaps are tidy, end before `at`, and are what
is not held before `at`.  The first also says that the sort at the end of
`add` never has anything to do.

*OriginTransfer.*  `SavedIsOnDisk` and `PlaysNoHoles` are inductive in `IInv`,
which says of every job at each of its awaits what it relies on (`Fine`): who
reads the record is alone at work, what is about to be recorded is on disk,
and what a reader is about to get is there, is just being fetched, or belongs to
a film that was stopped.  Of the entries it says that what one has is on disk as
long as it is in the map or some job works on it (`Backed`), which covers the
jobs that go on with an entry after a `stop` and another `receive` have put a
new one in its place.

*SwarmTransfer.*  That a removed film stays removed is inductive only with
`Quiet`, that nothing is at work on a film whose removal is asked for, and that
with `Owned`: until the client is destroyed a torrent is tracked or its receive
is under way, and the receive that records is the one whose torrent the client
has; hence a `stop`, which looks at the map alone, leaves no torrent behind
unless a receive is under way.  `TransportsProofs` carries it to the composition:
a step of the relay leaves the swarm alone.

*SeekableStretch.*  The code's own units go: a bucket is `Width` ticks, and the
bucket of a moment is its quotient (`BucketIs`), so that moments between two
boundaries are in buckets between (`Between`), and the interface's clamp ends in
the run of lit buckets around the position (`ClampLands`).  `ClampAccepted` is
about what the interface was shown, up to a second ago; it is inductive with
`ShownHolds`, that what somebody was shown since the last arrival of a first map
is still seekable, and this rests on `StretchGrows`: the stretch only ever
shrinks when somebody reports a first map, because a map holds what its sender
has and nobody loses a piece (`ReportsHold`).  It depends on the maps alone,
which are honest, and not on the share of the film a report claims, which is not
(section 5).  `SeekLands` is an action property under the same invariant.

*Microphone.*  A page has a microphone just while it has a mesh.  What makes
`NoOrphan` and `SentIsAsSet` hold across the awaits is in `Fit`: every open
stream is the call's or the run's (`OpenFit`); a run that still belongs to the
call will replace the microphone the call has, and one that does not replaces
nothing (`RunFits`); a `join()` that still asks belongs to a call that has no
microphone, and no other `join()` to the same call (`JoinsFit`).  All that a
report, a timer or a choice can do to a call is to begin the one run there may
be (`Asks`), and of any number of requests folded into a run at most one comes
when it ends (`OverAsks`, over the fold).  The theorems have no hypothesis: what
is inductive is `crossed \/ MicInv`, and every step is judged in states that were
not crossed, since `crossed` is never taken back; `ClosingKeeps` is that a
connection closed under a replacement, which does not set it, disturbs nothing
until the replacement fails.  `Streams` is at least two, because one may be open
while another opens.

*StageWindows.*  `Good` of the surface is an invariant because everything that
shows it goes through `SetShown` or `Reposition`, each of which is a lemma.  The
chat's `Uncovered` (uncut and floating it is not on screen) needs `Boxes`, that
its bounds follow its layout; `Asked` strengthens `ChatAsAsked` by what holds
while a call is under way.

*FilmLifecycle.*  A step of any handler is one of few things to `jobs`
(`Moved`, `Begin`, `LoadEnds`, `FileLoadedLeaves`), so that what the handlers
share is proved once and `FilmFits`, the types with what ties jobs, loads and
sources together (who waits for the player is in `loads` exactly once, a fetch
is about a film, `latest` is a job or none), is preserved by lemmas per action.

`SharerServes` says only that a film is held; it is not inductive, since any
fetch that begins, ends or is overtaken, and any `closeFilm`, may take a film
from `held`.  `ShareInv` adds what keeps them away while the room's film is one
this machine put on (`Served`): nothing is being fetched, every handler still at
work opens a file, ends a `closeFilm` that fetches nothing afterwards, or is a
share, and the news still to be heard is about this very film, which the
variables of this machine still say it announced.  To get there when a share
ends, `SharesAlone`: an uncrossed, unraced share is the only handler at work and
has the transport that exists; and `ReceivingEnds`: `receiving` is set only
while the handler that set it, or a `closeFilm`, is at work.  An earlier form of
the property, without `raced`, held in every run of four moves and could not be
proved; what its proof failed on is the behaviour that refutes
`UnloadLeavesNobody` (section 5).

`WatchesTheRoom` is about settled states, so its invariant has to say in every
other state what is still going to happen: `WatchPhase` is one of four phases.
A `closeFilm` is under way and what it puts away is no longer kept (`Closes`);
the room's film is on its way and its handler has the last generation
(`Fetched`); it is open (`Watching`); there is none, and if nothing failed the
room has none either (`Idle`).  In each phase all other handlers are fetches that
were overtaken (`OnlyFetches`), which is what `filmGeneration` is for: one that
ends may drop a film from `held` and change nothing else (`OvertakenEnds`).

Only model-checked: all liveness (out of this prover's reach), the runs of
`SyncedPlayer` and `VoiceMesh`, whose properties are all of that kind,
`Replaced` of `Microphone`, and the run `origin_direct`.  `RangesAgree` compares
the lists with sets over everything within `Edge`, which is what TLC says of the
same facts, and of `ContiguousFrom`.

## 5. Where code and documentation part

**A relayed film is played from the file** (`main/index.ts:551`,
`origin_direct`).  "Open it through the streaming server rather than off disk",
says `main/index.ts:547`, because a sparse file reads as zeros; but the stream
server of the origin transport is started by `ensureStreamServer`
(`origin-transfer.ts:375`), which only the swarm's `receive` calls
(`transfer.ts:127`), so `streamUrl` is null and the path is opened.

Met in the models or in reading, and not given a run of their own:

*The server and its clients.*

- Succession sets `isHost` and leaves `mayControl` as it was (`room.ts:156`).
- Switching modes (`server.ts:489`) moves playback and sends no schedule, alone
  among the handlers that move it; `AnchorCurrentWithFilm` is stated for a room
  with a film for this reason.
- The readiness gate is advisory (`server.ts:527`): play is accepted while
  preparing.  `waitForLatecomers` (`server.ts:437`) is stored and shown, and
  nothing reads it.  `seekableSpan` of `readiness.ts` has no caller.
- A socket lost during the ping burst gets its intervals after they were cleared
  (`room-client.ts:141`); a refused rejoin shows connected (`:131`); the room
  code is learned with the welcome, which can be lost, and the client then makes
  a second room (`:134`).
- If the *first* `connect()` gives up on the clock, it rejects and leaves its
  socket open; when that socket closes, a reconnect is scheduled all the same,
  and two attempts may then run side by side.  `LeftForGood` and `OneAttempt`
  are stated for a first `connect()` that got through.
- Replies with signed URLs carry no request id (`room-client.ts:177`): after a
  refusal (`server.ts:505`, `:518`), a timeout or a loss the next reply goes to
  the wrong caller.  `RightUrl` excepts these (`slipped`).
- The client believes in the rate it last set (`room-client.ts:278`): it is not
  told that a load resets the element's, nor that a command it gave up was
  executed, and asks for nothing while its own figure suits (`engine.ts:122`).
- A film that mpv loads after its load has timed out is not paused, because the
  pause is sent by the call that gave up (`external-mpv.ts:108-129`), and the
  client goes on believing that it is, because `forgetPosition` noted `paused`
  without mpv's pause having changed, which no later event corrects (`:100-106`,
  `:213-218`).  In a paused room the film then plays on.  This and
  the rate are the two halves of `Misled`, which `Follows` excepts.
- A piece that straddles the end of its bucket belongs to the first one only
  (`pieces.ts`), and a seek into the rest of it is accepted without it.  Near
  the end of the film a holder of part of it is never ready for lack of
  `StartBuffer` seconds (`readiness.ts`).
- "Vouching for the whole film" is for a file put on by this machine
  (`index.ts:458`), but the test is that the film is `sharedId`, which is set
  for every viewer whose player has loaded it (`:558`).  From then on a viewer
  reports `havePct` 1 and its whole duration as buffered, with however few
  pieces (`:466-476`).  Two such reports are a "second full copy"
  (`readiness.ts:81-87`), and the sharer reads "Safe for the sharer to leave —
  the room has a second full copy" (`App.tsx:981`) when nobody else has one:
  `SecondFullCopy` fails in seven states (join, receive, one piece, open, two
  reports).  The same report makes a viewer ready as soon as its player has
  opened the film, wherever the room is; only the piece maps are honest, which
  is what the properties of `seeking` are about.

*The film on one machine.*  The first two are `ReceiverServes` and
`UnloadLeavesNobody` of `FilmLifecycle`; neither holds.

- Who receives a film "also serves it, so the interface should say so"
  (`index.ts:556`).  But a fetch that was overtaken stops its film by id
  (`index.ts:544`, `origin-transfer.ts:407`), and with it, in relay mode, the
  fetch that replaced it when the room has put the same film on again: the film
  is then opened and shown as shared, and the transport holds nothing of it.
  `ReceiverServes` as an invariant shows it under the constants of `film`.
- Unloading is to take a film "off the room too when this machine is the one
  sharing it, so nobody is left fetching" (`handlers.ts:471`).  But a file that
  was being opened when the film was shared clears `announcedByUs` when it is
  loaded (`handlers.ts:291`), and `sharedInfoHash`, so that this machine's own
  announcement is then fetched as somebody else's; unloading stops the film and
  leaves it in the room.  `UnloadLeavesNobody` shows it with one film of others
  and five moves.
- A film that is on already is heard inside `createRoom`, where the listener
  asks for a transport for a room that is set only afterwards (`index.ts:534`).
- A file that is open is announced on entering, without a source, in place of
  whatever is on (`handlers.ts:595`).
- Two overlapping `closeFilm`s bring back a dropped film (`index.ts:532`); a
  share that ends after its film was unloaded announces it all the same
  (`handlers.ts:446`), and a share uses the transport that exists, which after a
  change of mode is the previous one's (`index.ts:646`).  These are the orders
  that `crossed` excludes; `raced` excludes shares begun, or announced, while a
  file is opened or fetched.
- `roomFilmId` survives opening a file of one's own (`index.ts:522`), so that the
  room dropping its film closes one's own.  `announcedByUs` can outlive the film
  it was set for (`handlers.ts:484`).
- A second `receive` of a relayed film that begins while the first still awaits
  its file passes the test for an entry, opens the file anew, emptying it, and
  puts its own entry in the map (`origin-transfer.ts:174-198`): what the first
  has recorded is then not on disk.  Admitted in the model, `SavedIsOnDisk`
  fails in ten states and `PlaysNoHoles` in thirteen; `OriginTransfer` assumes
  it away.
- A relayed fetch that fails leaves its entry (`origin-transfer.ts:190`), and
  the next `receive` returns it as if it were ready.
- A receive of the swarm is tracked only once it has its metadata: a `stop`
  before does nothing (`transfer.ts:298`), and a film removed meanwhile comes
  back (`handlers.ts:563`).  Two overlapping receives of a film make a duplicate
  torrent whose callbacks may never come (`transfer.ts:140`); an attempt after
  `destroy` makes a client that nobody destroys (`:136`).
- The list of films on disk takes completeness from the file's size
  (`storage.ts:54`), and a relayed film is sparse from its first chunk on.
- An ffmpeg that failed or was killed leaves a part that the next conversion
  takes for the whole, its size not being zero (`convert.ts`), and a conversion
  that fails leaves its panel on the screen (`index.ts:603`).
- Commands to mpv that are pending when it exits are never settled
  (`mpv-ipc.ts:120`), which is the exception of `BusyEnds`.

*Voice and windows.*

- An offer that arrives before its sender is on the rendered list is forgotten;
  a late signal opens a connection on which nobody will offer (`mesh.ts:134`,
  `useVoice.ts:573`).  These are `Forgotten` and `Ghost` of `Connect`.
- A `setMembers` goes on with the list it was given after every offer it awaits
  (`mesh.ts:140-144`).  Somebody who leaves during the offer to a third person
  is not there to be forgotten by the newer list, and is then opened by the
  older one, until the next list.  `NobodyLingers` without its exception
  (`late`) fails.
- While `replaceLocalTrack` is awaited some of the others are already sent the
  new track, which is on until it is adopted (`useVoice.ts:361` before `:363`): a
  muted person is heard for that long.  `SentIsAsSet` asks of this window only
  that what is sent is the new track and open; with the controls it fails in six
  states.
- A call that is left, joined again or rebuilt in this window, or a replacement
  that fails with a connection, is not looked at afterwards
  (`useVoice.ts:357-363`): a microphone stays open, or the others are sent the
  stopped one.  `NoOrphan` without `~crossed` fails in eight states.  A
  replacement that never settles keeps `reacquiring` and with it every later
  request: `Replaced` without that exception fails in fourteen.
- A new track that ends before it is adopted is neither noticed nor replaced:
  `MicWatch.watch` looks at `muted` and not at `readyState` (`mic.ts:65-74`).
  This is `unheard`, reached in eleven states.
- The window manager's move of the surface is never corrected
  (`video-window.ts:334`); `restore` shows the surface over a dialog; hiding the
  chat during an earlier `setVisible(true)` shows it again (`astray`).

## 6. Not modelled

Signing, TURN credentials and room codes are cryptography and randomness;
rendering, logging and subtitle parsing are input and output with no shared
state; conversion is a call of ffmpeg.  The swarm and WebRTC are libraries and
appear as they are used.  About half of the code is of this kind: the React
views (`App.tsx` alone is 1300 lines, of which the clamp of a seek and the voice
hooks' wiring have behaviour), schemas (`packages/protocol`), network simulation,
command line scripts, locating and starting of players, and formatting.  Of what
has state, the main omissions are: sharing (hashing, uploading) beyond its
awaits, pausing and piece windows of the swarm, the clock filter, volumes and
who is speaking, starting and changing players, the picture's tracks and
subtitles, and the stacking of windows.

## 7. Plan

Done: membership, room, client, session, seeking, film, transfers, player,
voice, microphone, windows.  What is left, in order of worth:

1. Safety properties for `SyncedPlayer` and `VoiceMesh` beside the liveness TLC
   checks (which commands may still reach the player after it was given up;
   that no two connections of a pair carry media), and their proofs.
2. Sharing: hashing and uploading as jobs of `OriginTransfer` and
   `SwarmTransfer`, with pausing.
3. Overlapping receives of a relayed film, with a property that names what of it
   stays true, and meshes closed under a `setMembers` in a run of their own.
4. The clock filter of `packages/sync`, as a function over bounded samples,
   under `SyncedPlayer`'s tick.
5. Starting, changing and ending of players, under `FilmLifecycle`'s loads.
