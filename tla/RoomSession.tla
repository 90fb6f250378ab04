------------------------------ MODULE RoomSession ------------------------------
(***************************************************************************)
(* What a client knows of its room through one ordered channel each way:   *)
(* the chat, the film, the figures of the transfer, and the answers to its *)
(* requests for signed URLs (room-client.ts), against a server that        *)
(* handles one message at a time (server.ts, room.ts).  RoomServer has the *)
(* same handlers with delivery at once; here messages take their time, are *)
(* lost with their socket, and a reconnect starts over as a new member.    *)
(*                                                                         *)
(* A film is a number, 0 for none; Local is one without a source.  Lines   *)
(* of chat are numbered.  One room; everybody who announces may.  The      *)
(* status timer and reports are let through one at a time per channel.     *)
(* Bounds: Events (lines said, films announced or cleared, URLs asked for, *)
(* permissions changed, all together) and Losses (of sockets).             *)
(***************************************************************************)
EXTENDS Naturals, FiniteSets, SequencesExt

CONSTANTS Client, Film, Local, History, Events, Losses
ASSUME SessionAssumption == Film \subseteq Nat \ {0} /\ Local \in Film /\ {History, Events, Losses} \subseteq Nat

VARIABLES
  room,     \* the server's room
  up, down, \* the channels of each client's socket
  open,     \* sockets that are open
  client,   \* the fields of each RoomClient, and the film its transport carries
  slipped,  \* history: a request has gone unanswered, or its answer comes too late
  budget
vars == <<room, up, down, open, client, slipped, budget>>

Number == 0 .. Cardinality(Client) + 2 * Losses + Events
Request == 1 .. Events
Msg(t, v) == [t |-> t, v |-> v]
\* sourceId, which tells films apart.
SourceOf(f) == IF f = Local THEN 0 ELSE f
\* room.ts and room-client.ts keep as many lines.
Kept(lines) == IF Len(lines) > History THEN SubSeq(lines, Len(lines) - History + 1, Len(lines)) ELSE lines

TypeOK ==
  /\ room.in \subseteq Client /\ room.ghosts \in 0 .. Losses /\ room.said \in Number
  /\ room.chat \in Seq(Number) /\ Len(room.chat) <= History /\ room.film \in Film \cup {0}
  /\ room.reports \in [Client -> Film \cup {0}] /\ room.control \subseteq Client
  /\ open \subseteq Client /\ room.in \subseteq open /\ slipped \subseteq Client
  /\ \A c \in Client : /\ c \notin open => up[c] = <<>> /\ down[c] = <<>>
                       /\ Len(client[c].messages) <= History /\ client[c].waiting \in Seq(Request)
                       /\ client[c].film \in Film \cup {0} /\ client[c].figures \in Film \cup {0}

Init ==
  /\ room = [in |-> {}, ghosts |-> 0, said |-> 0, chat |-> <<>>, film |-> 0, control |-> Client,
             reports |-> [c \in Client |-> 0]]
  /\ up = [c \in Client |-> <<>>] /\ down = [c \in Client |-> <<>>] /\ open = {} /\ slipped = {}
  /\ client = [c \in Client |-> [messages |-> <<>>, film |-> 0, figures |-> 0, carry |-> 0, waiting |-> <<>>]]
  /\ budget = [events |-> Events, asked |-> 0, losses |-> Losses]

-----------------------------------------------------------------------------
(* The client's side. *)

Happens(request) ==
  budget.events > 0 /\ budget' = [budget EXCEPT !.events = @ - 1, !.asked = @ + request]
\* RoomClient.send: nothing is said over a socket that is not open.
Send(c, m) == up' = IF c \in open THEN [up EXCEPT ![c] = Append(@, m)] ELSE up
\* What messages of a kind say, in their order.
Said(msgs, t) == FoldLeft(LAMBDA said, m : IF m.t = t THEN Append(said, m.v[1]) ELSE said, <<>>, msgs)
\* The requests for URLs that are answered, and that are on their way to be.
Asked(c) == Said(down[c], "origin.url") \o Said(up[c], "origin.request")

\* connect(): hello goes out as soon as the socket opens.
Dial(c) ==
  /\ c \notin open /\ open' = open \cup {c} /\ up' = [up EXCEPT ![c] = <<Msg("hello", <<>>)>>]
  /\ UNCHANGED <<room, down, client, slipped, budget>>
\* The socket is lost with all it carried.  The member stays behind as a ghost.
Lost(c) ==
  /\ c \in open /\ budget.losses > 0 /\ budget' = [budget EXCEPT !.losses = @ - 1]
  /\ open' = open \ {c} /\ up' = [up EXCEPT ![c] = <<>>] /\ down' = [down EXCEPT ![c] = <<>>]
  /\ room' = [room EXCEPT !.in = @ \ {c}, !.ghosts = IF c \in room.in THEN @ + 1 ELSE @, !.reports[c] = 0]
  /\ slipped' = IF client[c].waiting = <<>> THEN slipped ELSE slipped \cup {c}
  /\ UNCHANGED client
SendChat(c) ==
  /\ Happens(0) /\ Send(c, Msg("chat.send", <<>>))
  /\ UNCHANGED <<room, down, open, client, slipped>>
\* Somebody puts a film on, which they hold, or takes the film off (0).
AnnounceMedia(c, f) ==
  /\ Happens(0)
  /\ Send(c, IF f = 0 THEN Msg("media.clear", <<>>) ELSE Msg("media.announce", <<f>>))
  /\ UNCHANGED <<room, down, open, client, slipped>>
\* The transport begins to carry the film the client knows of.
Carries(c) ==
  /\ client[c].carry # SourceOf(client[c].film) /\ client' = [client EXCEPT ![c].carry = SourceOf(client[c].film)]
  /\ UNCHANGED <<room, up, down, open, slipped, budget>>
\* getReport answers for the film the client knows of, if the transport carries it.
SendReport(c) ==
  /\ c \in open /\ client[c].carry # 0 /\ Said(up[c], "peer.report") = <<>>
  /\ Send(c, Msg("peer.report", <<client[c].carry>>))
  /\ UNCHANGED <<room, down, open, client, slipped, budget>>

ThisRequest == budget.asked + 1
\* As if there were one slot instead of a queue.
OriginUrlInOneSlot(c) ==
  /\ Happens(1)
  /\ Send(c, Msg("origin.request", <<ThisRequest>>)) /\ client' = [client EXCEPT ![c].waiting = <<ThisRequest>>]
  /\ slipped' = IF c \in open THEN slipped ELSE slipped \cup {c}
  /\ UNCHANGED <<room, down, open>>
\* The request is queued first, and nothing is sent unless the socket is open.
OriginUrl(c) ==
  /\ Happens(1)
  /\ Send(c, Msg("origin.request", <<ThisRequest>>)) /\ client' = [client EXCEPT ![c].waiting = Append(@, ThisRequest)]
  /\ slipped' = IF c \in open THEN slipped ELSE slipped \cup {c}
  /\ UNCHANGED <<room, down, open>>
\* Nothing asked is unanswered any more.
Drained(c, waiting) == waiting = <<>> /\ Asked(c) = <<>>
\* Fifteen seconds: the entry goes, its answer may still come.
TimesOut(c, k) ==
  /\ client' = [client EXCEPT ![c].waiting = RemoveAt(@, k)]
  /\ slipped' = IF Drained(c, client'[c].waiting) THEN slipped \ {c} ELSE slipped \cup {c}
  /\ UNCHANGED <<room, up, down, open, budget>>

-----------------------------------------------------------------------------
(* onMessage *)

\* room.state: the figures go with the film; the transport lets go of a film that is another.
HeardFilmOnly(k, f) ==
  [k EXCEPT !.film = f, !.carry = IF SourceOf(f) = SourceOf(k.film) THEN @ ELSE 0]
HeardFilm(k, f) ==
  [k EXCEPT !.film = f, !.carry = IF SourceOf(f) = SourceOf(k.film) THEN @ ELSE 0,
            !.figures = IF SourceOf(f) # SourceOf(k.film) /\ SourceOf(f) = 0 THEN 0 ELSE @]
\* chat.history replaces what was there, chat.message adds to it.
HeardChat(messages, m) ==
  CASE m.t = "chat.history" -> Kept(m.v) [] m.t = "chat.message" -> Kept(messages \o m.v) [] OTHER -> messages
Heard(k, m) ==
  CASE m.t = "room.state"      -> HeardFilm(k, m.v[1])
    [] m.t = "transfer.status" -> [k EXCEPT !.figures = m.v[1]]
    [] m.t = "origin.url"      -> [k EXCEPT !.waiting = IF @ = <<>> THEN @ ELSE Tail(@)]
    [] OTHER                   -> [k EXCEPT !.messages = HeardChat(@, m)]
OnMessage(c) ==
  /\ down[c] # <<>> /\ down' = [down EXCEPT ![c] = Tail(@)]
  /\ client' = [client EXCEPT ![c] = Heard(@, down[c][1])]
  /\ slipped' = IF down[c][1].t = "origin.url" /\ Len(Asked(c)) = 1 /\ client'[c].waiting = <<>>
                THEN slipped \ {c} ELSE slipped
  /\ UNCHANGED <<room, up, open, budget>>

-----------------------------------------------------------------------------
(* The server's side. *)

\* r is the room as it becomes; one line is added and everybody hears it, then the film.
Aloud(r) == [r EXCEPT !.said = @ + 1, !.chat = Kept(Append(@, r.said + 1))]
News(r) == <<Msg("chat.message", <<r.said + 1>>), Msg("room.state", <<r.film>>)>>
Tell(r, news) == down' = [c \in Client |-> IF c \in r.in THEN down[c] \o news ELSE down[c]]
Say(r) == room' = Aloud(r) /\ Tell(r, News(r))
Handles(c, t) == c \in open /\ up[c] # <<>> /\ up[c][1].t = t /\ up' = [up EXCEPT ![c] = Tail(@)]

\* As if the history were read once the newcomer has been announced.
HelloHistoryLate(c) ==
  /\ Handles(c, "hello")
  /\ LET r == [room EXCEPT !.in = @ \cup {c}, !.control = @ \cup {c}]
     IN  /\ room' = Aloud(r)
         /\ down' = [o \in Client |->
              IF o = c THEN down[o] \o <<Msg("chat.history", Aloud(r).chat)>> \o News(r)
              ELSE IF o \in r.in THEN down[o] \o News(r) ELSE down[o]]
  /\ UNCHANGED <<open, client, slipped, budget>>
\* A new member: the history so far, and then, with everybody, that they joined.
Hello(c) ==
  /\ Handles(c, "hello")
  /\ LET r == [room EXCEPT !.in = @ \cup {c}, !.control = @ \cup {c}]
     IN  /\ room' = Aloud(r)
         /\ down' = [o \in Client |-> IF o = c THEN down[o] \o <<Msg("chat.history", room.chat)>> \o News(r)
                                      ELSE IF o \in r.in THEN down[o] \o News(r) ELSE down[o]]
  /\ UNCHANGED <<open, client, slipped, budget>>
\* The close of a lost socket reaches the server at last.
GhostGoes ==
  /\ room.ghosts > 0 /\ Say([room EXCEPT !.ghosts = @ - 1]) /\ UNCHANGED <<up, open, client, slipped, budget>>
ChatSend(c) ==
  /\ Handles(c, "chat.send") /\ room' = Aloud(room) /\ Tell(room, <<News(room)[1]>>)
  /\ UNCHANGED <<open, client, slipped, budget>>
\* setMedia, clearMedia: the reports go with the film.
SetFilm(f) == Say([room EXCEPT !.film = f, !.reports = [o \in Client |-> 0]])
MediaAnnounce(c) ==
  Handles(c, "media.announce") /\ SetFilm(up[c][1].v[1]) /\ UNCHANGED <<open, client, slipped, budget>>
MediaClear(c) == Handles(c, "media.clear") /\ SetFilm(0) /\ UNCHANGED <<open, client, slipped, budget>>
\* The server handles what another member sends.
Elsewhere ==
  /\ Happens(0) /\ \/ \E f \in Film \cup {0} : SetFilm(f)
                   \/ room' = Aloud(room) /\ Tell(room, <<News(room)[1]>>)
  /\ UNCHANGED <<up, open, client, slipped>>
\* As if a report counted only once.
PeerReportOnce(c) ==
  /\ Handles(c, "peer.report")
  /\ room' = [room EXCEPT !.reports[c] = IF @ = 0 THEN up[c][1].v[1] ELSE @]
  /\ UNCHANGED <<down, open, client, slipped, budget>>
\* The report is the room's whatever film it was about.
PeerReport(c) ==
  /\ Handles(c, "peer.report") /\ room' = [room EXCEPT !.reports[c] = up[c][1].v[1]]
  /\ UNCHANGED <<down, open, client, slipped, budget>>
\* A URL for whoever may share, an error for whoever may not; errors say nothing of the request.
OriginRequest(c) ==
  /\ Handles(c, "origin.request")
  /\ down' = [down EXCEPT ![c] = Append(@, IF c \in room.control THEN Msg("origin.url", up[c][1].v)
                                           ELSE Msg("error", <<>>))]
  /\ slipped' = IF c \in room.control THEN slipped ELSE slipped \cup {c}
  /\ UNCHANGED <<room, open, client, budget>>
\* The host gives or takes control.
SetControl(c) ==
  /\ c \in room.in /\ Happens(0)
  /\ Say([room EXCEPT !.control = IF c \in @ THEN @ \ {c} ELSE @ \cup {c}])
  /\ UNCHANGED <<up, open, client, slipped>>
\* broadcastTransferStatus: figures only of a film with a source.
StatusTick ==
  /\ SourceOf(room.film) # 0 /\ room.in # {}
  /\ \A c \in Client : \A k \in DOMAIN down[c] : down[c][k].t # "transfer.status"
  /\ Tell(room, <<Msg("transfer.status", <<room.film>>)>>) /\ UNCHANGED <<room, up, open, client, slipped, budget>>

Serve(c) == Hello(c) \/ ChatSend(c) \/ MediaAnnounce(c) \/ MediaClear(c) \/ PeerReport(c) \/ OriginRequest(c)
Next == \/ \E c \in Client : \/ Dial(c) \/ Lost(c) \/ SendChat(c) \/ (\E f \in Film \cup {0} : AnnounceMedia(c, f))
                             \/ Carries(c) \/ SendReport(c) \/ OriginUrl(c) \/ OnMessage(c) \/ Serve(c) \/ SetControl(c)
                             \/ \E k \in DOMAIN client[c].waiting : TimesOut(c, k)
        \/ GhostGoes \/ StatusTick \/ Elsewhere
Fairness == \A c \in Client : WF_vars(SendReport(c)) /\ WF_vars(OnMessage(c)) /\ WF_vars(Serve(c))
Spec == Init /\ [][Next]_vars /\ Fairness

-----------------------------------------------------------------------------
(* Properties *)

\* Everybody in the room has its chat, or has it once what is under way has arrived: no join, loss
\* and reconnect loses a line, doubles one or puts one elsewhere, and both ends forget alike.
ChatAgrees == \A c \in room.in : FoldLeft(HeardChat, client[c].messages, down[c]) = room.chat
\* Figures are shown only of a film that is on with a source, however clearing and the status timer meet.
FiguresHaveFilm == \A c \in Client : client[c].figures # 0 => SourceOf(client[c].film) # 0
\* Every URL answers the request at whose turn it comes, unless one was refused, lost or timed out
\* while others waited.
RightUrl ==
  \A c \in Client \ slipped : IsPrefix(Said(down[c], "origin.url"), client[c].waiting)
\* A report about the film before does not stay: who goes on carrying the film of the room ends up
\* reported with that film.
ReportsCatchUp ==
  \A c \in Client : <>[](c \in room.in /\ client[c].carry = room.film /\ room.film # 0)
                      => <>[](room.reports[c] = room.film)
=============================================================================
