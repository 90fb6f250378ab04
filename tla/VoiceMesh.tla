------------------------------ MODULE VoiceMesh ------------------------------
(***************************************************************************)
(* Two people calling each other: VoiceMesh (packages/voice) under the     *)
(* React effects of useVoice, and the server's relay of voice.state and    *)
(* rtc.signal.  What a person sends is relayed at once; what the server    *)
(* sends waits in "chan", in order.  A render with its effects is one      *)
(* step, some time after the room state that caused it and before the next *)
(* one; signals are handled before and after it.                           *)
(*                                                                         *)
(* A connection is known by a number; descriptions and candidates carry    *)
(* the number of the connection they describe.  WebRTC connects two        *)
(* connections that have each other's description and candidate, and ends  *)
(* as failed one that has a description nobody stands behind any more.     *)
(* A third person may be in the call: they are offered a connection like   *)
(* anybody, and setMembers waits for that offer, but answer nothing.       *)
(* Bounds: they join once each, or are in a call, with Moves (of b,        *)
(* leaving and joining) or Mishaps (the network takes a connection,        *)
(* somebody joins the room again under a new member id, the third person   *)
(* enters the call or leaves it), or one joins the other and the third,    *)
(* and the other leaves; Retries (RETRY_DELAYS_MS), Pool (connections and  *)
(* signals there are at a time).  Within them no mesh is closed while a    *)
(* setMembers of it has somebody left to open.                             *)
(***************************************************************************)
EXTENDS Integers, Sequences, FiniteSetsExt

CONSTANTS Moves, Mishaps, Retries, Pool
ASSUME VoiceAssumption == {Moves, Mishaps, Retries, Pool} \subseteq Nat

VARIABLES id, chan, told, voice, shown, call, joined, mesh, budget
vars == <<id, chan, told, voice, shown, call, joined, mesh, budget>>

Clients == {"a", "b"}
Other(c) == IF c = "a" THEN "b" ELSE "a"
\* Member ids are random: those a reconnect hands out may be on either side of the first two.
Ids == 1 .. 4
Numbers == 1 .. Pool
Third == 9
Listed == Ids \cup {Third}

\* "at": how far the negotiation is; "of": the remote description being set, "remote": the one that is.
Connection == [n: 0 .. Pool, at: {"new", "offering", "offered", "setting", "accepting", "answering", "stable"},
               of: 0 .. Pool, remote: 0 .. Pool, held: SUBSET Numbers, got: BOOLEAN, sent: BOOLEAN,
               up: {"no", "connected", "failed"}]
NoConnection == [n |-> 0, at |-> "new", of |-> 0, remote |-> 0, held |-> {}, got |-> FALSE, sent |-> FALSE, up |-> "no"]
NewConnection(n, at) == [NoConnection EXCEPT !.n = n, !.at = at]
\* A setMembers that awaits the offer to "at" (0: one that was dropped meanwhile), with "todo" still before
\* it; "join" if the join awaits it.
Job == [at: {0} \cup Listed, todo: SUBSET Listed, join: BOOLEAN]
\* "list" is what setMembers was last given, "third" the connection to the third person, "late" whom a
\* setMembers opened that a newer one, without them, had overtaken.
NoMesh == [self |-> 0, list |-> {}, peers |-> [i \in Ids |-> NoConnection], tries |-> [i \in Ids |-> 0], timer |-> {},
           third |-> "no", jobs |-> {}, late |-> {}]
NewMesh(self) == [NoMesh EXCEPT !.self = self]

Signal == [t: {"offer", "answer", "candidate"}, from: Ids, n: Numbers]
Roster == [t: {"roster"}, inVoice: SUBSET Listed]

TypeOK ==
  /\ id \in [Clients -> Ids] /\ id["a"] # id["b"] /\ voice \subseteq {id[c] : c \in Clients} \cup {Third}
  /\ chan \in [Clients -> Seq(Signal \cup Roster)] /\ told \in [Clients -> SUBSET Listed]
  /\ shown \in [Clients -> [self: Ids, list: SUBSET Listed]]
  /\ call \in [Clients -> {"out", "acquiring", "opening", "failed", "in"}]
  /\ mesh \in [Clients -> [self: 0 .. 4, list: SUBSET Listed, peers: [Ids -> Connection],
                         tries: [Ids -> 0 .. Retries], timer: SUBSET Ids,
                         third: {"no", "offering", "offered"}, jobs: SUBSET Job, late: SUBSET Ids]]
  /\ joined \in [Clients -> [self: Ids, list: SUBSET Listed]]

Budget(a, b, mishaps) == [moves |-> [c \in Clients |-> IF c = "a" THEN a ELSE b], mishaps |-> mishaps]
Settled(m, i, n, k) ==
  [m EXCEPT !.peers[i] = [NoConnection EXCEPT !.n = n, !.at = "stable", !.remote = k, !.got = TRUE, !.sent = TRUE,
                                             !.up = "connected"]]
\* Both are in the room: outside the call, in the middle of one, or b is in one with the third person.
\* Where the two may do the same, which of them has the lower id makes no difference.
Init ==
  /\ id \in [Clients -> {2, 3}] /\ id["a"] # id["b"]
  /\ chan = [c \in Clients |-> <<>>]
  /\ \/ /\ told = [c \in Clients |-> {}] /\ voice = {} /\ call = [c \in Clients |-> "out"]
        /\ shown = [c \in Clients |-> [self |-> id[c], list |-> {id[c]}]]
        /\ mesh = [c \in Clients |-> NoMesh] /\ budget = Budget(1, 1, 0) /\ id["a"] < id["b"]
     \/ /\ voice = {id["a"], id["b"]} /\ told = [c \in Clients |-> voice] /\ call = [c \in Clients |-> "in"]
        /\ shown = [c \in Clients |-> [self |-> id[c], list |-> voice]]
        /\ mesh = [c \in Clients |-> Settled([NoMesh EXCEPT !.self = id[c], !.list = voice], id[Other(c)],
                                            IF c = "a" THEN 1 ELSE 2, IF c = "a" THEN 2 ELSE 1)]
        /\ \/ budget = Budget(0, Moves, 0)
           \/ budget = Budget(0, 0, Mishaps) /\ id["a"] < id["b"]
     \/ /\ voice = {id["b"], Third} /\ told = [c \in Clients |-> voice]
        /\ call = [c \in Clients |-> IF c = "a" THEN "out" ELSE "in"]
        /\ shown = [c \in Clients |-> [self |-> id[c], list |-> voice \cup {id[c]}]]
        /\ mesh = [c \in Clients |-> IF c = "a" THEN NoMesh
                                    ELSE [NoMesh EXCEPT !.self = id[c], !.list = voice, !.third = "offered"]]
        /\ budget = Budget(1, 1, 0)
  /\ joined = shown

-----------------------------------------------------------------------------
(* The mesh. *)

Live == {mesh[c].peers[i] : c \in Clients, i \in Ids}
InFlight == UNION {{chan[c][k] : k \in DOMAIN chan[c]} : c \in Clients} \cap Signal
Used == UNION {{p.n, p.of, p.remote} \cup p.held : p \in Live} \cup {s.n : s \in InFlight}
Fresh(m) ==
  LET free == Numbers \ (Used \cup {m.peers[i].n : i \in Ids}) IN CHOOSE n \in free : \A k \in free : n <= k

Initiates(m, i) == m.self < i
Drop(m, i) == [m EXCEPT !.peers[i] = NoConnection]
Open(m, i) == [m EXCEPT !.peers[i] = NewConnection(Fresh(m), IF Initiates(m, i) THEN "offering" ELSE "new")]
\* A connection opened because a signal came: nothing is offered on it.
OpenFor(m, i) == [m EXCEPT !.peers[i] = NewConnection(Fresh(m), "new")]
Forget(m, ids) ==
  [m EXCEPT !.peers = [i \in Ids |-> IF i \in ids THEN NoConnection ELSE @[i]],
            !.tries = [i \in Ids |-> IF i \in ids THEN 0 ELSE @[i]], !.timer = @ \ ids,
            !.third = IF Third \in ids THEN "no" ELSE @,
            !.jobs = {IF j.at \in ids THEN [j EXCEPT !.at = 0] ELSE j : j \in @}]
Has(m, i) == IF i = Third THEN m.third # "no" ELSE m.peers[i].n # 0
OpenAll(m, ids) ==
  LET opened == FoldSet(LAMBDA i, acc : Open(acc, i), m, ids \ {Third})
  IN  [opened EXCEPT !.third = IF Third \in ids THEN "offering" ELSE @, !.late = @ \cup (ids \ (m.list \cup {Third}))]
\* The loop of setMembers from where it stands, "todo" before it in some order: it passes over those there
\* are, opens the others, and stops at the first it has to offer to.
Opening(m, todo, join) ==
  LET offers == {i \in todo : ~Has(m, i) /\ Initiates(m, i)}
      Opened(ids) == OpenAll(m, {i \in ids : ~Has(m, i)})
      Stopped(i, before) ==
        LET left == todo \ (before \cup {i})
            now == Opened(before \cup {i})
        IN  IF left = {} /\ ~join THEN now
            ELSE [now EXCEPT !.jobs = @ \cup {[at |-> i, todo |-> left, join |-> join]}]
  IN  IF offers = {} THEN {Opened(todo)}
      ELSE {Stopped(i, before) : i \in offers, before \in SUBSET (todo \ offers)}
\* As if nobody were forgotten.
SetMembersKeeping(m, list, join) == Opening([m EXCEPT !.list = list, !.late = @ \ list], list \ {m.self}, join)
\* setMembers up to its first await: whoever left is forgotten, whoever is new is opened.
SetMembers(m, list, join) ==
  LET kept == Forget(m, {i \in Listed \ list : Has(m, i)})
  IN  Opening([kept EXCEPT !.list = list, !.late = (@ \ list) \cap {i \in Ids : Has(kept, i)}], list \ {m.self}, join)
\* The offer a setMembers awaited has been made: it goes on, with the list it was given.
Resumed(m, i) ==
  LET waiting == {j \in m.jobs : j.at = i}
  IN  IF waiting = {} THEN {m}
      ELSE UNION {Opening([m EXCEPT !.jobs = @ \ {j}], j.todo, j.join) : j \in waiting}

\* rtc.signal: relayed to whoever has the id now, stamped with the sender's; dropped when nobody has.
Relayed(c, i, t, n) ==
  [d \in Clients |-> IF id[d] = i /\ i # id[c] THEN Append(chan[d], [t |-> t, from |-> id[c], n |-> n]) ELSE chan[d]]
Told(v, ch) == [d \in Clients |-> Append(ch[d], [t |-> "roster", inVoice |-> v])]

\* offer, after createOffer; a connection dropped meanwhile is no longer in the mesh.
OfferMade(c, i) ==
  LET p == mesh[c].peers[i] IN
  /\ p.at = "offering"
  /\ \E m \in Resumed([mesh[c] EXCEPT !.peers[i].at = "offered"], i) : mesh' = [mesh EXCEPT ![c] = m]
  /\ chan' = Relayed(c, i, "offer", p.n) /\ UNCHANGED <<id, told, voice, shown, call, joined, budget>>
ThirdOffered(c) ==
  /\ mesh[c].third = "offering"
  /\ \E m \in Resumed([mesh[c] EXCEPT !.third = "offered"], Third) : mesh' = [mesh EXCEPT ![c] = m]
  /\ UNCHANGED <<id, chan, told, voice, shown, call, joined, budget>>
\* The connection the offer was for is closed, or was offered to meanwhile: the promise may resolve or
\* reject, which fails the join that awaits it, or do neither.
OfferLost(c) ==
  \E j \in mesh[c].jobs :
    LET without == [mesh[c] EXCEPT !.jobs = @ \ {j}] IN
    /\ IF j.at \in Ids THEN mesh[c].peers[j.at].at # "offering" ELSE j.at = 0
    /\ \/ UNCHANGED call /\ \E m \in Opening(without, j.todo, j.join) : mesh' = [mesh EXCEPT ![c] = m]
       \/ /\ mesh' = [mesh EXCEPT ![c] = without]
          /\ call' = IF j.join THEN [call EXCEPT ![c] = "failed"] ELSE call
    /\ UNCHANGED <<id, chan, told, voice, shown, joined, budget>>
\* onicecandidate, once there is a local description.
Gathered(c, i) ==
  LET p == mesh[c].peers[i] IN
  /\ p.at \in {"offered", "stable"} /\ ~p.sent /\ mesh' = [mesh EXCEPT ![c].peers[i].sent = TRUE]
  /\ chan' = Relayed(c, i, "candidate", p.n) /\ UNCHANGED <<id, told, voice, shown, call, joined, budget>>

\* As if a candidate that comes early were lost.
TakeLate(p, n) == [p EXCEPT !.got = @ \/ p.remote = n]
\* A candidate waits for the description it belongs to; one of another connection is of no use.
Take(p, n) == IF p.remote = 0 THEN [p EXCEPT !.held = @ \cup {n}] ELSE [p EXCEPT !.got = @ \/ p.remote = n]
\* handleSignal up to its first await; an answer nothing was offered for is an error.
HandleOver(m, s) ==
  LET opened == IF m.peers[s.from].n = 0 THEN OpenFor(m, s.from) ELSE m
      p == opened.peers[s.from]
  IN  [opened EXCEPT !.peers[s.from] =
         CASE s.t = "offer" -> [p EXCEPT !.at = "setting", !.of = s.n]
           [] s.t = "answer" -> IF p.at = "offered" THEN [p EXCEPT !.at = "accepting", !.of = s.n] ELSE p
           [] OTHER -> Take(p, s.n)]
\* An offer on a connection that has its remote description is a fresh start.
Handle(m, s) ==
  IF s.from = m.self THEN m
  ELSE HandleOver(IF s.t = "offer" /\ m.peers[s.from].remote # 0 THEN Drop(m, s.from) ELSE m, s)
\* setRemoteDescription resolves: remoteSet, and the candidates held are flushed.
RemoteSet(c, i) ==
  LET p == mesh[c].peers[i]
  IN  /\ p.at \in {"setting", "accepting"}
      /\ mesh' = [mesh EXCEPT ![c].peers[i] =
                    [p EXCEPT !.at = IF p.at = "setting" THEN "answering" ELSE "stable", !.remote = p.of, !.of = 0,
                              !.got = @ \/ p.of \in p.held, !.held = {}]]
      /\ UNCHANGED <<id, chan, told, voice, shown, call, joined, budget>>
\* createAnswer and setLocalDescription.
AnswerMade(c, i) ==
  LET p == mesh[c].peers[i] IN
  /\ p.at = "answering" /\ mesh' = [mesh EXCEPT ![c].peers[i].at = "stable"]
  /\ chan' = Relayed(c, i, "answer", p.n) /\ UNCHANGED <<id, told, voice, shown, call, joined, budget>>

\* onFailed: the side that offers tries again after a delay, while there are delays left.
OnFailed(m, i) ==
  IF ~Initiates(m, i) \/ i \in m.timer \/ m.tries[i] >= Retries THEN m
  ELSE [m EXCEPT !.tries[i] = @ + 1, !.timer = @ \cup {i}]
Retry(c, i) ==
  /\ i \in mesh[c].timer /\ mesh' = [mesh EXCEPT ![c] = Open([@ EXCEPT !.timer = @ \ {i}], i)]
  /\ UNCHANGED <<id, chan, told, voice, shown, call, joined, budget>>

-----------------------------------------------------------------------------
(* WebRTC. *)

Match(p, q) == p.n # 0 /\ q.n # 0 /\ p.remote = q.n /\ q.remote = p.n
Connects(c, i, j) ==
  LET p == mesh[c].peers[i]  q == mesh[Other(c)].peers[j] IN
  /\ Match(p, q) /\ p.got /\ q.got /\ p.up = "no" /\ q.up # "failed"
  /\ mesh' = [mesh EXCEPT ![c].peers[i].up = "connected", ![c].tries[i] = 0]
  /\ UNCHANGED <<id, chan, told, voice, shown, call, joined, budget>>
\* Nobody stands behind the description p was given, nor will.
Doomed(p) ==
  /\ p.remote # 0
  /\ \A q \in Live : q.n = p.remote => \/ q.up = "failed" \/ q.remote \notin {0, p.n}
                                       \/ q.remote = 0 /\ q.of # p.n /\ p.at = "stable"
                                          /\ ~\E s \in InFlight : s.t = "answer" /\ s.n = p.n
Failed(c, i) ==
  /\ mesh[c].peers[i].remote # 0 /\ mesh[c].peers[i].up # "failed"
  /\ mesh' = [mesh EXCEPT ![c] = OnFailed([@ EXCEPT !.peers[i].up = "failed"], i)]
  /\ UNCHANGED <<id, chan, told, voice, shown, call, joined>>
FailsDoomed(c, i) == Doomed(mesh[c].peers[i]) /\ Failed(c, i) /\ UNCHANGED budget
\* The network takes a connection that could live.
NetworkFails(c, i) ==
  /\ budget.mishaps > 0 /\ ~Doomed(mesh[c].peers[i]) /\ Failed(c, i)
  /\ budget' = [budget EXCEPT !.mishaps = @ - 1]

-----------------------------------------------------------------------------
(* useVoice. *)

\* voice.state: Room.setVoice, and the room is told.
Report(c, in) ==
  LET v == IF in THEN voice \cup {id[c]} ELSE voice \ {id[c]} IN voice' = v /\ chan' = Told(v, chan)
\* join: the id and the list are those of the render the button was on; what an attempt that failed has
\* left is closed first, by leaving.
Join(c) ==
  /\ call[c] \in {"out", "failed"} /\ budget.moves[c] > 0 /\ budget' = [budget EXCEPT !.moves[c] = @ - 1]
  /\ call' = [call EXCEPT ![c] = "acquiring"] /\ joined' = [joined EXCEPT ![c] = shown[c]]
  /\ IF call[c] = "failed" THEN mesh' = [mesh EXCEPT ![c] = NoMesh] /\ Report(c, FALSE) ELSE UNCHANGED <<mesh, voice, chan>>
  /\ UNCHANGED <<id, told, shown>>
\* The microphone is there: the mesh is built for that id and given that list.
Acquired(c) ==
  /\ call[c] = "acquiring" /\ call' = [call EXCEPT ![c] = "opening"]
  /\ \E m \in SetMembers(NewMesh(joined[c].self), joined[c].list, TRUE) : mesh' = [mesh EXCEPT ![c] = m]
  /\ joined' = [joined EXCEPT ![c] = shown[c]] /\ UNCHANGED <<id, chan, told, voice, shown, budget>>
\* The setMembers of the join is through: setInVoice(true), reported by an effect.
InVoice(c) ==
  /\ call[c] = "opening" /\ \A j \in mesh[c].jobs : ~j.join
  /\ call' = [call EXCEPT ![c] = "in"] /\ Report(c, TRUE)
  /\ UNCHANGED <<id, told, shown, mesh, joined, budget>>
Leave(c) ==
  /\ call[c] = "in" /\ budget.moves[c] > 0 /\ budget' = [budget EXCEPT !.moves[c] = @ - 1]
  /\ call' = [call EXCEPT ![c] = "out"] /\ mesh' = [mesh EXCEPT ![c] = NoMesh] /\ Report(c, FALSE)
  /\ UNCHANGED <<id, told, shown, joined>>

\* What the next render will show.
Now(c) == [self |-> id[c], list |-> told[c] \cup {id[c]}]
\* A render whose id or members changed, with its effects in order: the report under the new id, the
\* call rebuilt under it, the members.
Render(c) ==
  LET now == Now(c)
      was == mesh[c].self
  IN  /\ now # shown[c] /\ shown' = [shown EXCEPT ![c] = now]
      /\ IF was = 0 THEN UNCHANGED mesh
         ELSE \E m \in SetMembers(IF was = id[c] THEN mesh[c] ELSE NewMesh(id[c]), now.list, FALSE) :
                mesh' = [mesh EXCEPT ![c] = m]
      /\ IF call[c] = "in" /\ shown[c].self # id[c] THEN Report(c, TRUE) ELSE UNCHANGED <<voice, chan>>
      /\ UNCHANGED <<id, told, call, joined, budget>>
\* room.state, or a signal: without a mesh it is dropped.
Receive(c) ==
  /\ chan[c] # <<>> /\ chan' = [chan EXCEPT ![c] = Tail(@)]
  /\ LET s == Head(chan[c]) IN
     IF s.t = "roster" THEN shown[c] = Now(c) /\ told' = [told EXCEPT ![c] = s.inVoice] /\ UNCHANGED mesh
     ELSE /\ mesh' = IF mesh[c].self = 0 THEN mesh ELSE [mesh EXCEPT ![c] = Handle(@, s)]
          /\ UNCHANGED told
  /\ UNCHANGED <<id, voice, shown, call, joined, budget>>
\* The socket is lost and the room joined again, as a new member; what was on its way is lost.
Reconnect(c) ==
  /\ budget.mishaps > 0 /\ budget' = [budget EXCEPT !.mishaps = @ - 1]
  /\ \E i \in Ids \ {id[d] : d \in Clients} : id' = [id EXCEPT ![c] = i]
  /\ voice' = voice \ {id[c]} /\ chan' = Told(voice', [chan EXCEPT ![c] = <<>>])
  /\ UNCHANGED <<told, shown, call, mesh, joined>>

\* A third person enters the call or leaves it.
ThirdMoves ==
  /\ budget.mishaps > 0 /\ budget' = [budget EXCEPT !.mishaps = @ - 1]
  /\ voice' = (voice \ {Third}) \cup ({Third} \ voice) /\ chan' = Told(voice', chan)
  /\ UNCHANGED <<id, told, shown, call, mesh, joined>>

Pending(c) == \/ \E i \in Ids : OfferMade(c, i) \/ Gathered(c, i) \/ RemoteSet(c, i) \/ AnswerMade(c, i)
              \/ ThirdOffered(c)
Network(c) == \E i \in Ids : FailsDoomed(c, i) \/ NetworkFails(c, i) \/ \E j \in Ids : Connects(c, i, j)
Next == ThirdMoves \/ \E c \in Clients :
                           \/ Pending(c) \/ Network(c) \/ \E i \in Ids : Retry(c, i)
                           \/ OfferLost(c) \/ Join(c) \/ Acquired(c) \/ InVoice(c) \/ Leave(c)
                           \/ Render(c) \/ Receive(c) \/ Reconnect(c)
Page(c) == Acquired(c) \/ InVoice(c) \/ Render(c) \/ Receive(c)
Verdict(c) == \E i \in Ids : Retry(c, i) \/ FailsDoomed(c, i) \/ \E j \in Ids : Connects(c, i, j)
\* While there is a promise to settle (but for OfferLost), a message, a render, a timer or a verdict of
\* WebRTC to come, one of them comes.
Fairness == \A c \in Clients : WF_vars(Pending(c) \/ Page(c) \/ Verdict(c))
Spec == Init /\ [][Next]_vars /\ Fairness

-----------------------------------------------------------------------------
(* Properties *)

Meant(c) == mesh[c].peers[id[Other(c)]]
Linked == Match(Meant("a"), Meant("b")) /\ \A c \in Clients : Meant(c).up = "connected"
BothIn == \A c \in Clients : call[c] = "in"
\* The side that offers has no attempt left.
GivenUp == \E c \in Clients : /\ Initiates(mesh[c], id[Other(c)]) /\ Meant(c).up = "failed"
                             /\ mesh[c].tries[id[Other(c)]] = Retries /\ mesh[c].timer = {}
\* The mesh works for the id and the list that are on the screen.
Briefed(c) == mesh[c].self = shown[c].self /\ mesh[c].list = shown[c].list
\* The offer was lost: the other side has forgotten it, or never had a mesh to take it.
Forgotten == \E c \in Clients : Meant(c).at = "offered" /\ Meant(Other(c)).remote # Meant(c).n
\* The side that offers holds a connection a late signal opened, on which it will never offer.
Ghost == \E c \in Clients : Initiates(mesh[c], id[Other(c)]) /\ Meant(c).n # 0 /\ Meant(c).at = "new"
\* Two people who stay in the call end up connected, whatever failed, left or overlapped before,
\* unless a mesh was built from a list already stale, a render that had yet to hear of the caller lost
\* the offer or met a signal too late for it, or the side that offers used up its attempts.
Connect == <>[](BothIn /\ Briefed("a") /\ Briefed("b")) => <>[](Linked \/ GivenUp \/ Forgotten \/ Ghost)
\* Nobody keeps a connection to somebody who has left for good, unless a setMembers that was awaiting an
\* offer when they left has opened it since.
NobodyLingers ==
  \A c \in Clients : <>[](call[c] = "out" /\ Briefed(Other(c)))
                      => <>[](Meant(Other(c)).n = 0 \/ id[c] \in mesh[Other(c)].late)
=============================================================================
