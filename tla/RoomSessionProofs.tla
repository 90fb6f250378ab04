--------------------------- MODULE RoomSessionProofs ---------------------------
(***************************************************************************)
(* What a client knows of its room is what the room is, once the messages  *)
(* under way have been heard: the chat, the film, the figures and the      *)
(* URLs.  Each invariant speaks of the whole channel, so each handler is   *)
(* judged by what it puts at the end of one and takes from its head.       *)
(***************************************************************************)
EXTENDS RoomSession, FoldLemmas, TLAPS

-----------------------------------------------------------------------------
(* Messages, and what is heard of them.                                    *)
(* HeardChat is folded over the messages under way; a fold is a function   *)
(* CHOSEN on the sets of indices (FoldLemmas).                             *)

Plain == {"hello", "chat.send", "media.clear", "error"}
Numbered == {"chat.message", "room.state", "transfer.status", "media.announce", "peer.report",
             "origin.request", "origin.url"}
One == {<<n>> : n \in Nat}
Message == [t: Plain, v: {<<>>}] \cup [t: Numbered, v: One] \cup [t: {"chat.history"}, v: Seq(Nat)]

\* What a message may say, by its kind.
LEMMA Kinds ==
  ASSUME NEW m \in Message
  PROVE  /\ m.v \in Seq(Nat) /\ m = [t |-> m.t, v |-> m.v]
         /\ m.t \in Plain => m.v = <<>>
         /\ m.t \in Numbered => m.v[1] \in Nat /\ m.v = <<m.v[1]>>
<1>1. CASE m \in [t: Plain, v: {<<>>}]
  <2>1. m = [t |-> m.t, v |-> m.v] /\ m.t \in Plain /\ m.v = <<>>
    BY <1>1
  <2>2. m.t \notin Numbered
    BY <2>1 DEF Plain, Numbered
  <2> QED BY <2>1, <2>2
<1>2. CASE m \in [t: Numbered, v: One]
  <2>1. m = [t |-> m.t, v |-> m.v] /\ m.t \in Numbered /\ m.v \in One
    BY <1>2
  <2>2. m.t \notin Plain
    BY <2>1 DEF Plain, Numbered
  <2>3. PICK n \in Nat : m.v = <<n>>
    BY <2>1 DEF One
  <2>4. m.v \in Seq(Nat) /\ m.v[1] = n
    BY <2>3
  <2> QED BY <2>1, <2>2, <2>3, <2>4
<1>3. CASE m \in [t: {"chat.history"}, v: Seq(Nat)]
  BY <1>3 DEF Plain, Numbered
<1> QED BY <1>1, <1>2, <1>3 DEF Message

\* A message as the handlers make it, by its kind.
LEMMA Told ==
  /\ \A t \in Numbered : \A n \in Nat : Msg(t, <<n>>) \in Message /\ Msg(t, <<n>>).t = t /\ Msg(t, <<n>>).v = <<n>>
  /\ \A t \in Plain : Msg(t, <<>>) \in Message /\ Msg(t, <<>>).t = t /\ Msg(t, <<>>).v = <<>>
  /\ \A s \in Seq(Nat) : /\ Msg("chat.history", s) \in Message /\ Msg("chat.history", s).t = "chat.history"
                         /\ Msg("chat.history", s).v = s
BY DEF Msg, Message, One

\* A log that is cut to the last lines is no longer than the bound, and is cut only when it is longer.
LEMMA KeptType ==
  ASSUME NEW lines \in Seq(Nat)
  PROVE  Kept(lines) \in Seq(Nat) /\ Len(Kept(lines)) <= History /\ (Len(lines) <= History => Kept(lines) = lines)
<1>1. History \in Nat
  BY SessionAssumption
<1>2. CASE Len(lines) > History
  <2>1. Kept(lines) = SubSeq(lines, Len(lines) - History + 1, Len(lines))
    BY <1>2 DEF Kept
  <2> QED BY <1>1, <1>2, <2>1
<1>3. CASE ~ (Len(lines) > History)
  BY <1>1, <1>3 DEF Kept
<1> QED BY <1>2, <1>3

\* A client that hears a message goes on having a list of lines.
LEMMA HeardType == ASSUME NEW messages \in Seq(Nat), NEW m \in Message PROVE HeardChat(messages, m) \in Seq(Nat)
<1>1. m.v \in Seq(Nat)
  BY Kinds
<1>2. messages \o m.v \in Seq(Nat)
  BY <1>1
<1>3. Kept(m.v) \in Seq(Nat) /\ Kept(messages \o m.v) \in Seq(Nat)
  BY <1>1, <1>2, KeptType
<1> QED BY <1>3 DEF HeardChat

\* What a client has heard after n messages, for every n.
Hears(f, messages, msgs) ==
  /\ f[0] = messages /\ \A n \in 0 .. Len(msgs) - 1 : f[n + 1] = HeardChat(f[n], msgs[n + 1])
  /\ FoldLeft(HeardChat, messages, msgs) = f[Len(msgs)]

\* What is heard of a sequence of messages is reached one message at a time.
LEMMA HeardFolds ==
  ASSUME NEW msgs \in Seq(Message), NEW base \in Seq(Nat)
  PROVE  \E f \in [0 .. Len(msgs) -> Seq(Nat)] : Hears(f, base, msgs)
<1> DEFINE N == Len(msgs)
           A == Seq(Nat)
           step == [p \in A \X (1 .. N) |-> HeardChat(p[1], msgs[p[2]])]
           iter == CHOOSE iter : iter = [s \in SUBSET DOMAIN msgs |-> IF s = {} THEN base
                                  ELSE HeardChat(iter[s \ {Max(s)}], msgs[Max(s)])]
<1>1. FoldLeft(HeardChat, base, msgs) = iter[DOMAIN msgs]
  BY DEF FoldLeft, MapThenFoldSet
<1>2. N \in Nat /\ DOMAIN msgs = 1 .. N /\ base \in A
  OBVIOUS
<1>3. step \in [A \X (1 .. N) -> A]
  <2> SUFFICES ASSUME NEW p \in A \X (1 .. N) PROVE HeardChat(p[1], msgs[p[2]]) \in A
    OBVIOUS
  <2>1. p[1] \in Seq(Nat) /\ msgs[p[2]] \in Message
    OBVIOUS
  <2> QED BY <2>1, HeardType
<1>4. PICK g \in [SUBSET (1 .. N) -> A] : Folds(g, N, base, step)
  <2> HIDE DEF N, step, A
  <2> QED BY <1>2, <1>3, FoldExists
<1>5. g = [s \in SUBSET DOMAIN msgs |-> IF s = {} THEN base ELSE HeardChat(g[s \ {Max(s)}], msgs[Max(s)])]
  <2> SUFFICES ASSUME NEW s \in SUBSET (1 .. N)
               PROVE g[s] = IF s = {} THEN base ELSE HeardChat(g[s \ {Max(s)}], msgs[Max(s)])
    BY <1>2
  <2>1. CASE s = {}
    BY <1>4, <2>1 DEF Folds
  <2>2. CASE s # {}
    <3>1. g[s] = step[<<g[s \ {Max(s)}], Max(s)>>]
      BY <1>4, <2>2 DEF Folds
    <3>2. Max(s) \in 1 .. N
      BY <1>2, <2>2, MaxIsGreatest
    <3>3. s \ {Max(s)} \in SUBSET (1 .. N)
      OBVIOUS
    <3>4. <<g[s \ {Max(s)}], Max(s)>> \in A \X (1 .. N)
      BY <3>2, <3>3
    <3> QED BY <2>2, <3>1, <3>4
  <2> QED BY <2>1, <2>2
<1>6. iter = [s \in SUBSET DOMAIN msgs |-> IF s = {} THEN base ELSE HeardChat(iter[s \ {Max(s)}], msgs[Max(s)])]
  BY <1>5
<1> HIDE DEF iter
<1>7. iter[{}] = base
  BY <1>6
<1>8. ASSUME NEW n \in 0 .. N - 1, iter[1 .. n] \in A
      PROVE  iter[1 .. n + 1] = step[<<iter[1 .. n], n + 1>>]
  <2>1. n \in Nat /\ n + 1 \in 1 .. N
    BY <1>2
  <2>2. Max(1 .. n + 1) = n + 1 /\ (1 .. n + 1) \ {n + 1} = 1 .. n
    BY <2>1, MaxOfFirst
  <2>3. 1 .. n + 1 # {} /\ 1 .. n + 1 \in SUBSET DOMAIN msgs
    <3>1. 1 \in 1 .. n + 1 /\ \A i \in 1 .. n + 1 : i \in 1 .. N
      BY <2>1
    <3> QED BY <1>2, <3>1
  <2>4. iter[1 .. n + 1] = HeardChat(iter[(1 .. n + 1) \ {Max(1 .. n + 1)}], msgs[Max(1 .. n + 1)])
    BY <1>6, <2>3
  <2> QED BY <1>8, <2>1, <2>2, <2>4
<1>9. PICK f \in [0 .. N -> A] : Chain(f, N, base, step, iter[1 .. N])
  <2>1. Unfolds(iter, N, A, base, step)
    BY <1>7, <1>8 DEF Unfolds
  <2> HIDE DEF N, step, A
  <2> QED BY <1>2, <1>3, <2>1, FoldUnrolled
<1>10. \A n \in 0 .. N - 1 : f[n + 1] = HeardChat(f[n], msgs[n + 1])
  <2> TAKE n \in 0 .. N - 1
  <2>1. n \in 0 .. N /\ n + 1 \in 1 .. N
    BY <1>2
  <2>2. <<f[n], n + 1>> \in A \X (1 .. N)
    BY <2>1
  <2>3. step[<<f[n], n + 1>>] = HeardChat(f[n], msgs[n + 1])
    BY <2>2
  <2> QED BY <1>9, <2>3 DEF Chain
<1> QED BY <1>1, <1>2, <1>9, <1>10 DEF Chain, Hears

\* Two that begin with the same, and go on alike, end with the same.
LEMMA SameEnd ==
  ASSUME NEW N \in Nat, NEW f, NEW g, f[0] = g[0], \A n \in 0 .. N - 1 : f[n] = g[n] => f[n + 1] = g[n + 1]
  PROVE  f[N] = g[N]
<1> DEFINE S == {n \in 0 .. N : f[n] = g[n]}
<1>1. 0 \in S
  OBVIOUS
<1>2. \A n \in 0 .. N - 1 : n \in S => n + 1 \in S
  OBVIOUS
<1>3. N \in 0 .. N
  OBVIOUS
<1> HIDE DEF S
<1>4. N \in S
  BY <1>1, <1>2, <1>3, Induction
<1> QED BY <1>4 DEF S

\* The last message is heard last.
LEMMA HeardLast ==
  ASSUME NEW messages \in Seq(Nat), NEW msgs \in Seq(Message), NEW m \in Message
  PROVE  FoldLeft(HeardChat, messages, Append(msgs, m)) = HeardChat(FoldLeft(HeardChat, messages, msgs), m)
<1> DEFINE more == Append(msgs, m)
           N == Len(msgs)
<1>1. more \in Seq(Message) /\ Len(more) = N + 1 /\ N \in Nat /\ more[N + 1] = m /\ \A i \in 1 .. N : more[i] = msgs[i]
  OBVIOUS
<1> HIDE DEF more
<1>2. PICK f \in [0 .. N -> Seq(Nat)] : Hears(f, messages, msgs)
  BY HeardFolds
<1>3. PICK g \in [0 .. N + 1 -> Seq(Nat)] : Hears(g, messages, more)
  BY <1>1, HeardFolds
<1>4. f[N] = g[N]
  <2>1. f[0] = g[0]
    BY <1>2, <1>3 DEF Hears
  <2>2. ASSUME NEW n \in 0 .. N - 1, f[n] = g[n] PROVE f[n + 1] = g[n + 1]
    <3>1. n + 1 \in 1 .. N /\ n \in 0 .. (N + 1) - 1
      BY <1>1
    <3>2. f[n + 1] = HeardChat(f[n], msgs[n + 1])
      BY <1>2 DEF Hears
    <3>3. g[n + 1] = HeardChat(g[n], more[n + 1])
      BY <1>1, <1>3, <3>1 DEF Hears
    <3>4. more[n + 1] = msgs[n + 1]
      BY <1>1, <3>1
    <3> QED BY <2>2, <3>2, <3>3, <3>4
  <2> QED BY <1>1, <2>1, <2>2, SameEnd
<1>5. g[N + 1] = HeardChat(g[N], more[N + 1])
  <2>1. N \in 0 .. Len(more) - 1
    BY <1>1
  <2> QED BY <1>3, <2>1 DEF Hears
<1>6. FoldLeft(HeardChat, messages, more) = g[N + 1] /\ FoldLeft(HeardChat, messages, msgs) = f[N]
  BY <1>1, <1>2, <1>3 DEF Hears
<1> QED BY <1>1, <1>4, <1>5, <1>6 DEF more

\* The first message is heard first.
LEMMA HeardFirst ==
  ASSUME NEW messages \in Seq(Nat), NEW msgs \in Seq(Message), msgs # <<>>
  PROVE  FoldLeft(HeardChat, messages, msgs) = FoldLeft(HeardChat, HeardChat(messages, msgs[1]), Tail(msgs))
<1> DEFINE rest == Tail(msgs)
           N == Len(rest)
           next == HeardChat(messages, msgs[1])
<1>1. rest \in Seq(Message) /\ Len(msgs) = N + 1 /\ N \in Nat /\ msgs[1] \in Message /\ \A i \in 1 .. N : rest[i] = msgs[i + 1]
  OBVIOUS
<1> HIDE DEF rest
<1>2. next \in Seq(Nat)
  BY <1>1, HeardType
<1> HIDE DEF next
<1>3. PICK f \in [0 .. N + 1 -> Seq(Nat)] : Hears(f, messages, msgs)
  BY <1>1, HeardFolds
<1>4. PICK g \in [0 .. N -> Seq(Nat)] : Hears(g, next, rest)
  BY <1>1, <1>2, HeardFolds
<1> DEFINE h == [n \in 0 .. N |-> f[n + 1]]
<1>5. h[N] = g[N]
  <2>1. h[0] = g[0]
    <3>1. 0 \in 0 .. Len(msgs) - 1 /\ 0 \in 0 .. N /\ 0 + 1 = 1
      BY <1>1
    <3>2. f[0 + 1] = HeardChat(f[0], msgs[0 + 1]) /\ f[0] = messages /\ g[0] = next
      BY <1>3, <1>4, <3>1 DEF Hears
    <3> QED BY <3>1, <3>2 DEF next
  <2>2. ASSUME NEW n \in 0 .. N - 1, h[n] = g[n] PROVE h[n + 1] = g[n + 1]
    <3>1. n + 1 \in 1 .. N /\ n + 1 \in 0 .. Len(msgs) - 1 /\ n \in 0 .. N /\ n + 1 \in 0 .. N
      BY <1>1
    <3>2. f[(n + 1) + 1] = HeardChat(f[n + 1], msgs[(n + 1) + 1])
      BY <1>3, <3>1 DEF Hears
    <3>3. g[n + 1] = HeardChat(g[n], rest[n + 1])
      BY <1>4 DEF Hears
    <3>4. rest[n + 1] = msgs[(n + 1) + 1]
      BY <1>1, <3>1
    <3> QED BY <2>2, <3>1, <3>2, <3>3, <3>4
  <2> HIDE DEF h
  <2> QED BY <1>1, <2>1, <2>2, SameEnd
<1>6. h[N] = f[N + 1]
  BY <1>1
<1>7. FoldLeft(HeardChat, messages, msgs) = f[N + 1] /\ FoldLeft(HeardChat, next, rest) = g[N]
  BY <1>1, <1>3, <1>4 DEF Hears
<1> QED BY <1>5, <1>6, <1>7 DEF next, rest

\* A client that has nothing to hear keeps what it has.
LEMMA HeardNothing == ASSUME NEW messages \in Seq(Nat) PROVE FoldLeft(HeardChat, messages, <<>>) = messages
<1>1. <<>> \in Seq(Message) /\ Len(<<>>) = 0
  OBVIOUS
<1>2. PICK f \in [0 .. 0 -> Seq(Nat)] : Hears(f, messages, <<>>)
  BY <1>1, HeardFolds
<1> QED BY <1>1, <1>2 DEF Hears

\* A client that hears many messages goes on having a list of lines.
LEMMA HeardAllType == ASSUME NEW messages \in Seq(Nat), NEW msgs \in Seq(Message)
  PROVE FoldLeft(HeardChat, messages, msgs) \in Seq(Nat)
<1>1. PICK f \in [0 .. Len(msgs) -> Seq(Nat)] : Hears(f, messages, msgs)
  BY HeardFolds
<1> QED BY <1>1 DEF Hears

-----------------------------------------------------------------------------
(* Types, and what the helpers of the handlers do.                         *)

Room == [in: SUBSET Client, ghosts: Nat, said: Nat, chat: Seq(Nat), film: Nat, control: SUBSET Client,
         reports: [Client -> Nat]]
Knows == [messages: Seq(Nat), film: Nat, figures: Nat, carry: Nat, waiting: Seq(Nat)]

Types ==
  /\ room \in Room /\ Len(room.chat) <= History
  /\ up \in [Client -> Seq(Message)] /\ down \in [Client -> Seq(Message)]
  /\ open \in SUBSET Client /\ slipped \in SUBSET Client /\ client \in [Client -> Knows]
  /\ budget \in [events: Nat, asked: Nat, losses: Nat]

\* A film with a source is told by its number, and having no film is having no source.
LEMMA Sources == /\ 0 \notin Film /\ Film \subseteq Nat /\ Local \in Film /\ SourceOf(0) = 0
                 /\ \A f \in Nat : SourceOf(f) \in Nat /\ (SourceOf(f) # 0 => SourceOf(f) = f)
BY SessionAssumption DEF SourceOf

\* Everybody in the room is told of a line, and then of the film.
Informed(r) ==
  \A c \in Client : down'[c] = IF c \in r.in
                               THEN Append(Append(down[c], Msg("chat.message", <<room.said + 1>>)),
                                           Msg("room.state", <<r.film>>))
                               ELSE down[c]

\* A line that is said is one more line of the log, cut to the bound.
LEMMA AloudType ==
  ASSUME Types, NEW r \in Room, r.said = room.said, r.chat = room.chat
  PROVE  /\ Aloud(r) \in Room /\ Aloud(r).chat = Kept(Append(room.chat, room.said + 1))
         /\ Aloud(r).in = r.in /\ Aloud(r).film = r.film /\ Len(Aloud(r).chat) <= History
<1>1. room.said + 1 \in Nat /\ room.chat \in Seq(Nat)
  BY DEF Types, Room
<1>2. Append(room.chat, room.said + 1) \in Seq(Nat)
  BY <1>1
<1>3. Kept(Append(room.chat, room.said + 1)) \in Seq(Nat) /\ Len(Kept(Append(room.chat, room.said + 1))) <= History
  BY <1>2, KeptType
<1> QED BY <1>1, <1>3 DEF Aloud, Room

\* What Say does: the line, then the room, to everybody in it.
LEMMA Spoken ==
  ASSUME Types, NEW r \in Room, r.said = room.said, r.chat = room.chat, Say(r)
  PROVE  /\ room' \in Room /\ Len(room'.chat) <= History /\ room'.chat = Kept(Append(room.chat, room.said + 1))
         /\ room'.in = r.in /\ room'.film = r.film /\ down' \in [Client -> Seq(Message)] /\ Informed(r)
<1> DEFINE line == Msg("chat.message", <<room.said + 1>>)
           state == Msg("room.state", <<r.film>>)
<1>1. line \in Message /\ state \in Message
  BY Told DEF Types, Room, Numbered
<1>2. News(r) = <<line, state>>
  BY DEF News
<1>3. down' = [c \in Client |-> IF c \in r.in THEN down[c] \o News(r) ELSE down[c]] /\ room' = Aloud(r)
  BY DEF Say, Tell
<1> HIDE DEF line, state
<1>4. \A c \in Client : down[c] \in Seq(Message) /\ down[c] \o News(r) = Append(Append(down[c], line), state)
  BY <1>1, <1>2 DEF Types
<1>5. \A c \in Client : down'[c] = IF c \in r.in THEN Append(Append(down[c], line), state) ELSE down[c]
  BY <1>3, <1>4
<1>6. ASSUME NEW c \in Client PROVE Append(Append(down[c], line), state) \in Seq(Message)
  BY <1>1, <1>4
<1>7. down' \in [Client -> Seq(Message)]
  BY <1>3, <1>4, <1>6
<1> QED BY <1>3, <1>5, <1>7, AloudType DEF Informed, line, state

\* A handler takes the first message of one socket.
LEMMA Taken == ASSUME Types, NEW c \in Client, NEW t, Handles(c, t)
  PROVE /\ up' \in [Client -> Seq(Message)] /\ up[c][1] \in Message /\ up[c][1].t = t
        /\ up[c] # <<>> /\ up'[c] = Tail(up[c]) /\ \A o \in Client : o # c => up'[o] = up[o]
<1>1. up[c] \in Seq(Message) /\ up[c] # <<>> /\ up[c][1].t = t /\ up' = [up EXCEPT ![c] = Tail(@)]
  BY DEF Types, Handles
<1>2. Tail(up[c]) \in Seq(Message) /\ up[c][1] \in Message
  BY <1>1
<1> QED BY <1>1, <1>2 DEF Types

\* A message goes to the end of one channel, if its socket is open.
LEMMA Posted == ASSUME Types, NEW c \in Client, NEW m \in Message, Send(c, m)
  PROVE /\ up' \in [Client -> Seq(Message)] /\ up'[c] = IF c \in open THEN Append(up[c], m) ELSE up[c]
        /\ \A o \in Client : o # c => up'[o] = up[o]
<1>1. up[c] \in Seq(Message) /\ Append(up[c], m) \in Seq(Message)
  BY DEF Types
<1> QED BY <1>1 DEF Types, Send

\* What a client knows after a message, field by field.
LEMMA HeardKnows ==
  ASSUME NEW k \in Knows, NEW m \in Message
  PROVE  /\ Heard(k, m) \in Knows /\ Heard(k, m).messages = HeardChat(k.messages, m)
         /\ Heard(k, m).film = IF m.t = "room.state" THEN m.v[1] ELSE k.film
         /\ Heard(k, m).figures = CASE m.t = "room.state" -> IF SourceOf(m.v[1]) # SourceOf(k.film) /\ SourceOf(m.v[1]) = 0
                                                             THEN 0 ELSE k.figures
                                    [] m.t = "transfer.status" -> m.v[1]
                                    [] OTHER -> k.figures
         /\ Heard(k, m).waiting = IF m.t = "origin.url" /\ k.waiting # <<>> THEN Tail(k.waiting) ELSE k.waiting
<1>0. k.waiting \in Seq(Nat) /\ k.film \in Nat /\ k.messages \in Seq(Nat)
  BY DEF Knows
<1>1. CASE m.t = "room.state"
  <2>1. m.v[1] \in Nat
    BY <1>1, Kinds DEF Numbered
  <2>2. HeardChat(k.messages, m) = k.messages
    BY <1>1 DEF HeardChat
  <2>3. PICK f \in Nat : f = m.v[1]
    BY <2>1
  <2>4. Heard(k, m) = [k EXCEPT !.film = f, !.carry = IF SourceOf(f) = SourceOf(k.film) THEN k.carry ELSE 0,
                                !.figures = IF SourceOf(f) # SourceOf(k.film) /\ SourceOf(f) = 0
                                            THEN 0 ELSE k.figures]
    BY <1>1, <2>3 DEF Heard, HeardFilm
  <2>5. /\ Heard(k, m) \in Knows /\ Heard(k, m).messages = k.messages /\ Heard(k, m).film = f
        /\ Heard(k, m).figures = IF SourceOf(f) # SourceOf(k.film) /\ SourceOf(f) = 0 THEN 0 ELSE k.figures
        /\ Heard(k, m).waiting = k.waiting
    <3> DEFINE x == IF SourceOf(f) = SourceOf(k.film) THEN k.carry ELSE 0
               y == IF SourceOf(f) # SourceOf(k.film) /\ SourceOf(f) = 0 THEN 0 ELSE k.figures
    <3>1. x \in Nat /\ y \in Nat
      BY DEF Knows
    <3>2. Heard(k, m) = [k EXCEPT !.film = f, !.carry = x, !.figures = y]
      BY <2>4
    <3> HIDE DEF x, y
    <3>3. /\ Heard(k, m) \in Knows /\ Heard(k, m).messages = k.messages /\ Heard(k, m).film = f
          /\ Heard(k, m).figures = y /\ Heard(k, m).waiting = k.waiting
      BY <3>1, <3>2 DEF Knows
    <3> QED BY <3>3 DEF y
  <2> QED BY <1>0, <1>1, <2>2, <2>3, <2>5
<1>2. CASE m.t = "transfer.status"
  <2>1. m.v[1] \in Nat
    BY <1>2, Kinds DEF Numbered
  <2>2. HeardChat(k.messages, m) = k.messages
    BY <1>2 DEF HeardChat
  <2>3. Heard(k, m) = [k EXCEPT !.figures = m.v[1]]
    BY <1>2 DEF Heard
  <2> QED BY <1>0, <1>2, <2>1, <2>2, <2>3 DEF Knows
<1>3. CASE m.t = "origin.url"
  <2>1. HeardChat(k.messages, m) = k.messages
    BY <1>3 DEF HeardChat
  <2>2. Heard(k, m) = [k EXCEPT !.waiting = IF k.waiting = <<>> THEN k.waiting ELSE Tail(k.waiting)]
    BY <1>3 DEF Heard
  <2>3. k.waiting # <<>> => Tail(k.waiting) \in Seq(Nat)
    BY <1>0
  <2> QED BY <1>0, <1>3, <2>1, <2>2, <2>3 DEF Knows
<1>4. CASE m.t \notin {"room.state", "transfer.status", "origin.url"}
  <2>1. Heard(k, m) = [k EXCEPT !.messages = HeardChat(k.messages, m)]
    BY <1>4 DEF Heard
  <2>2. HeardChat(k.messages, m) \in Seq(Nat)
    BY <1>0, HeardType
  <2> QED BY <1>0, <1>4, <2>1, <2>2 DEF Knows
<1> QED BY <1>1, <1>2, <1>3, <1>4

-----------------------------------------------------------------------------
(* The kinds of steps, for what clients hear; those of the client.         *)

Line == Msg("chat.message", <<room.said + 1>>)
State(f) == Msg("room.state", <<f>>)
SameTalk == room'.in = room.in /\ room'.chat = room.chat /\ room'.film = room.film
SameEars == \A c \in Client : /\ client'[c].messages = client[c].messages /\ client'[c].film = client[c].film
                              /\ client'[c].figures = client[c].figures

Quiet == SameTalk /\ SameEars /\ down' = down
Gone(c) == /\ SameEars /\ room'.in = room.in \ {c} /\ room'.chat = room.chat /\ room'.film = room.film
           /\ down'[c] = <<>> /\ \A o \in Client : o # c => down'[o] = down[o]
Listens(c) == /\ SameTalk /\ down[c] # <<>> /\ down'[c] = Tail(down[c]) /\ client'[c] = Heard(client[c], down[c][1])
              /\ \A o \in Client : o # c => down'[o] = down[o] /\ client'[o] = client[o]
Adds == room'.chat = Kept(Append(room.chat, room.said + 1))
Speaks == /\ SameEars /\ room'.in = room.in /\ Adds
          /\ \A c \in Client : down'[c] = IF c \in room.in THEN Append(Append(down[c], Line), State(room'.film))
                                          ELSE down[c]
Chats == /\ SameEars /\ room'.in = room.in /\ room'.film = room.film /\ Adds
         /\ \A c \in Client : down'[c] = IF c \in room.in THEN Append(down[c], Line) ELSE down[c]
Joins(c) == /\ SameEars /\ room'.in = room.in \cup {c} /\ room'.film = room.film /\ Adds
            /\ down'[c] = Append(Append(Append(down[c], Msg("chat.history", room.chat)), Line), State(room.film))
            /\ \A o \in Client : o # c => down'[o] = IF o \in room.in THEN Append(Append(down[o], Line), State(room.film))
                                                     ELSE down[o]
Answered(c, m) == /\ SameTalk /\ SameEars /\ down'[c] = Append(down[c], m) /\ m.t \in {"origin.url", "error"}
                  /\ \A o \in Client : o # c => down'[o] = down[o]
Reported == /\ SameTalk /\ SameEars /\ SourceOf(room.film) # 0
            /\ \A c \in Client : down'[c] = IF c \in room.in THEN Append(down[c], Msg("transfer.status", <<room.film>>))
                                            ELSE down[c]
Step == \/ Quiet \/ Speaks \/ Chats \/ Reported
        \/ \E c \in Client : Gone(c) \/ Listens(c) \/ Joins(c) \/ \E m \in Message : Answered(c, m)

\* A step that no client takes part in leaves them what they have heard.
LEMMA SameStays == ASSUME UNCHANGED client PROVE SameEars
BY DEF SameEars

\* Events, like the requests, are counted.
LEMMA Budgeted == ASSUME Types, NEW n \in Nat, Happens(n) PROVE budget' \in [events: Nat, asked: Nat, losses: Nat]
<1>1. budget.events \in Nat /\ budget.events > 0 /\ budget.asked \in Nat
  BY DEF Types, Happens
<1>2. budget' = [budget EXCEPT !.events = budget.events - 1, !.asked = budget.asked + n]
  BY DEF Happens
<1>3. budget.events - 1 \in Nat /\ budget.asked + n \in Nat
  BY <1>1
<1> QED BY <1>2, <1>3 DEF Types

\* A socket that opens lets nobody hear anything.
LEMMA Dialled == ASSUME Types, NEW c \in Client, Dial(c) PROVE Types' /\ Quiet
<1>1. <<Msg("hello", <<>>)>> \in Seq(Message)
  BY Told DEF Plain
<1>2. up' \in [Client -> Seq(Message)]
  BY <1>1 DEF Types, Dial
<1> QED BY <1>2 DEF Types, Dial, Quiet, SameTalk, SameEars

\* A lost socket takes its channels with it, and its member out of the room.
LEMMA LostIt == ASSUME Types, NEW c \in Client, Lost(c) PROVE Types' /\ Gone(c)
<1>1. up' \in [Client -> Seq(Message)] /\ down' \in [Client -> Seq(Message)] /\ down'[c] = <<>>
      /\ \A o \in Client : o # c => down'[o] = down[o]
  BY DEF Types, Lost
<1>2. budget' \in [events: Nat, asked: Nat, losses: Nat]
  BY DEF Types, Lost
<1>3. slipped' \in SUBSET Client /\ open' \in SUBSET Client /\ client' = client
  BY DEF Types, Lost
<1>4. room' \in Room /\ room'.in = room.in \ {c} /\ room'.chat = room.chat /\ room'.film = room.film
  <2> DEFINE ghosts == IF c \in room.in THEN room.ghosts + 1 ELSE room.ghosts
             reports == [room.reports EXCEPT ![c] = 0]
  <2>1. ghosts \in Nat /\ reports \in [Client -> Nat]
    BY DEF Types, Room
  <2>2. room' = [room EXCEPT !.in = room.in \ {c}, !.ghosts = ghosts, !.reports = reports]
    BY DEF Lost, Types, Room
  <2> HIDE DEF ghosts, reports
  <2> QED BY <2>1, <2>2 DEF Types, Room
<1> QED BY <1>1, <1>2, <1>3, <1>4 DEF Types, Gone, SameEars

\* A client sends something, and nothing else changes that anybody hears of.
LEMMA SentIt ==
  ASSUME Types, NEW c \in Client, NEW m \in Message, Send(c, m), UNCHANGED <<room, down, open>>,
         slipped' \in SUBSET Client, client' \in [Client -> Knows], SameEars,
         budget' \in [events: Nat, asked: Nat, losses: Nat]
  PROVE  Types' /\ Quiet
BY Posted DEF Types, Quiet, SameTalk

\* A client that says something, puts a film on or reports lets nobody hear anything yet.
LEMMA ClientSends ==
  ASSUME Types, NEW c \in Client, SendChat(c) \/ (\E f \in Film \cup {0} : AnnounceMedia(c, f)) \/ SendReport(c)
  PROVE  Types' /\ Quiet
<1>0. "chat.send" \in Plain /\ "media.clear" \in Plain /\ "media.announce" \in Numbered /\ "peer.report" \in Numbered
  BY DEF Plain, Numbered
<1>1. PICK m \in Message : Send(c, m)
  <2>1. CASE SendChat(c)
    BY <1>0, <2>1, Told DEF SendChat
  <2>2. ASSUME NEW f \in Film \cup {0}, AnnounceMedia(c, f) PROVE \E m \in Message : Send(c, m)
    BY <1>0, <2>2, Told, Sources DEF AnnounceMedia
  <2>3. CASE SendReport(c)
    <3>1. client[c].carry \in Nat
      BY DEF Types, Knows
    <3> QED BY <1>0, <2>3, <3>1, Told DEF SendReport
  <2> QED BY <2>1, <2>2, <2>3
<1>2. UNCHANGED <<room, down, open, client, slipped>>
  BY DEF SendChat, AnnounceMedia, SendReport
<1>3. budget' \in [events: Nat, asked: Nat, losses: Nat]
  <2>1. CASE SendReport(c)
    BY <2>1 DEF SendReport, Types
  <2>2. CASE Happens(0)
    BY <2>2, Budgeted
  <2> QED BY <2>1, <2>2 DEF SendChat, AnnounceMedia
<1> QED BY <1>1, <1>2, <1>3, SentIt, SameStays DEF Types

\* A request for a URL lets nobody hear anything yet.
LEMMA Asking == ASSUME Types, NEW c \in Client, OriginUrl(c) PROVE Types' /\ Quiet
<1>1. ThisRequest \in Nat
  BY DEF Types, ThisRequest
<1>2. Msg("origin.request", <<ThisRequest>>) \in Message
  BY <1>1, Told DEF Numbered
<1>3. Append(client[c].waiting, ThisRequest) \in Seq(Nat)
  BY <1>1 DEF Types, Knows
<1>4. client' = [client EXCEPT ![c].waiting = Append(client[c].waiting, ThisRequest)]
  BY DEF OriginUrl
<1>5. client' \in [Client -> Knows] /\ SameEars
  BY <1>3, <1>4 DEF Types, Knows, SameEars
<1>6. UNCHANGED <<room, down, open>> /\ slipped' \in SUBSET Client /\ Send(c, Msg("origin.request", <<ThisRequest>>))
  BY DEF OriginUrl, Types
<1>7. budget' \in [events: Nat, asked: Nat, losses: Nat]
  BY Budgeted DEF OriginUrl
<1> QED BY <1>2, <1>5, <1>6, <1>7, SentIt

\* A transport that begins to carry a film lets nobody hear anything.
LEMMA Carrying == ASSUME Types, NEW c \in Client, Carries(c) PROVE Types' /\ Quiet
<1>1. SourceOf(client[c].film) \in Nat
  BY Sources DEF Types, Knows
<1>2. client' \in [Client -> Knows] /\ SameEars
  BY <1>1 DEF Carries, Types, Knows, SameEars
<1> QED BY <1>2 DEF Carries, Types, Quiet, SameTalk

\* A request that times out lets nobody hear anything.
LEMMA TimedOut == ASSUME Types, NEW c \in Client, NEW k \in DOMAIN client[c].waiting, TimesOut(c, k) PROVE Types' /\ Quiet
<1>1. RemoveAt(client[c].waiting, k) \in Seq(Nat)
  <2>1. client[c].waiting \in Seq(Nat)
    BY DEF Types, Knows
  <2>2. PICK w \in Seq(Nat) : w = client[c].waiting
    BY <2>1
  <2>3. RemoveAt(w, k) \in Seq(Nat)
    <3>1. Len(w) \in Nat /\ k \in 1 .. Len(w)
      BY <2>2
    <3>2. SubSeq(w, 1, k - 1) \in Seq(Nat) /\ SubSeq(w, k + 1, Len(w)) \in Seq(Nat)
      BY <3>1
    <3> QED BY <3>2 DEF RemoveAt
  <2> QED BY <2>2, <2>3
<1>2. client' = [client EXCEPT ![c].waiting = RemoveAt(client[c].waiting, k)]
  BY DEF TimesOut
<1>3. client' \in [Client -> Knows] /\ SameEars
  BY <1>1, <1>2 DEF Types, Knows, SameEars
<1> QED BY <1>3 DEF TimesOut, Types, Quiet, SameTalk

\* A client that handles a message listens.
LEMMA Heeds == ASSUME Types, NEW c \in Client, OnMessage(c) PROVE Types' /\ Listens(c)
<1>1. down[c] \in Seq(Message) /\ down[c] # <<>> /\ down' = [down EXCEPT ![c] = Tail(@)]
      /\ client' = [client EXCEPT ![c] = Heard(@, down[c][1])]
  BY DEF Types, OnMessage
<1>2. Tail(down[c]) \in Seq(Message) /\ down[c][1] \in Message /\ client[c] \in Knows
  BY <1>1 DEF Types
<1>3. Heard(client[c], down[c][1]) \in Knows
  BY <1>2, HeardKnows
<1>4. client' \in [Client -> Knows] /\ client'[c] = Heard(client[c], down[c][1])
      /\ \A o \in Client : o # c => client'[o] = client[o]
  BY <1>1, <1>3 DEF Types
<1>5. down' \in [Client -> Seq(Message)] /\ down'[c] = Tail(down[c]) /\ \A o \in Client : o # c => down'[o] = down[o]
  BY <1>1, <1>2 DEF Types
<1>6. slipped' \in SUBSET Client
  BY DEF OnMessage, Types
<1> QED BY <1>1, <1>4, <1>5, <1>6 DEF OnMessage, Types, Listens, SameTalk

-----------------------------------------------------------------------------
(* Those of the server.                                                    *)

\* The line that comes next is a message.
LEMMA NewLine == ASSUME Types PROVE Line \in Message /\ Line.t = "chat.message" /\ Line.v = <<room.said + 1>> /\ room.said + 1 \in Nat
<1>1. room.said + 1 \in Nat /\ "chat.message" \in Numbered
  BY DEF Types, Room, Numbered
<1> QED BY <1>1, Told DEF Line

\* The state of the room is a message.
LEMMA NewState == ASSUME NEW f \in Nat PROVE State(f) \in Message /\ State(f).t = "room.state" /\ State(f).v = <<f>> /\ State(f).v[1] = f
<1>1. "room.state" \in Numbered
  BY DEF Numbered
<1> QED BY <1>1, Told DEF State

\* Something is said aloud, whoever sent what led to it.
LEMMA SaidAloud ==
  ASSUME Types, NEW r \in Room, r.said = room.said, r.chat = room.chat, r.in = room.in, Say(r),
         up' \in [Client -> Seq(Message)], UNCHANGED <<open, client, slipped>>,
         budget' \in [events: Nat, asked: Nat, losses: Nat]
  PROVE  Types' /\ Speaks
<1>1. /\ room' \in Room /\ Len(room'.chat) <= History /\ room'.chat = Kept(Append(room.chat, room.said + 1))
      /\ room'.in = r.in /\ room'.film = r.film /\ down' \in [Client -> Seq(Message)] /\ Informed(r)
  BY Spoken
<1>2. Types'
  BY <1>1 DEF Types
<1>3. Speaks
  BY <1>1, SameStays DEF Speaks, Informed, Line, State, Adds
<1> QED BY <1>2, <1>3

\* A line of chat is said, and the film goes unmentioned.
LEMMA SaidOnly ==
  ASSUME Types, room' = Aloud(room), Tell(room, <<News(room)[1]>>),
         up' \in [Client -> Seq(Message)], UNCHANGED <<open, client, slipped>>,
         budget' \in [events: Nat, asked: Nat, losses: Nat]
  PROVE  Types' /\ Chats
<1>1. News(room)[1] = Line /\ Line \in Message
  BY NewLine DEF News, Line
<1>2. \A c \in Client : down[c] \in Seq(Message) /\ down[c] \o <<Line>> = Append(down[c], Line) /\ Append(down[c], Line) \in Seq(Message)
  BY <1>1 DEF Types
<1>3. down' = [c \in Client |-> IF c \in room.in THEN Append(down[c], Line) ELSE down[c]]
  BY <1>1, <1>2 DEF Tell
<1>4. down' \in [Client -> Seq(Message)]
  BY <1>2, <1>3
<1>5. room' \in Room /\ room'.chat = Kept(Append(room.chat, room.said + 1)) /\ room'.in = room.in /\ room'.film = room.film
      /\ Len(room'.chat) <= History
  <2>1. room \in Room
    BY DEF Types
  <2> QED BY <2>1, AloudType
<1>6. Types'
  BY <1>4, <1>5 DEF Types
<1> QED BY <1>3, <1>5, <1>6, SameStays DEF Chats, Adds

\* Another film, or none, is said aloud.
LEMMA FilmSet ==
  ASSUME Types, NEW f \in Nat, SetFilm(f), up' \in [Client -> Seq(Message)], UNCHANGED <<open, client, slipped>>,
         budget' \in [events: Nat, asked: Nat, losses: Nat]
  PROVE  Types' /\ Speaks
<1> DEFINE r == [room EXCEPT !.film = f, !.reports = [o \in Client |-> 0]]
<1>1. r \in Room /\ r.said = room.said /\ r.chat = room.chat /\ r.in = room.in
  BY DEF Types, Room
<1>2. Say(r)
  BY DEF SetFilm
<1> HIDE DEF r
<1> QED BY <1>1, <1>2, SaidAloud

\* Films and permissions are said aloud.
LEMMA SpeakingSteps ==
  ASSUME Types, NEW c \in Client, MediaAnnounce(c) \/ MediaClear(c) \/ SetControl(c)
  PROVE  Types' /\ Speaks
<1>0. up \in [Client -> Seq(Message)] /\ budget \in [events: Nat, asked: Nat, losses: Nat]
  BY DEF Types
<1>2. CASE MediaAnnounce(c)
  <2>1. Handles(c, "media.announce") /\ SetFilm(up[c][1].v[1]) /\ UNCHANGED <<open, client, slipped, budget>>
    BY <1>2 DEF MediaAnnounce
  <2>2. up' \in [Client -> Seq(Message)] /\ up[c][1].v[1] \in Nat
    BY <2>1, Taken, Kinds DEF Numbered
  <2> QED BY <1>0, <2>1, <2>2, FilmSet
<1>3. CASE MediaClear(c)
  <2>1. Handles(c, "media.clear") /\ SetFilm(0) /\ UNCHANGED <<open, client, slipped, budget>>
    BY <1>3 DEF MediaClear
  <2>2. up' \in [Client -> Seq(Message)]
    BY <2>1, Taken
  <2> QED BY <1>0, <2>1, <2>2, FilmSet
<1>4. CASE SetControl(c)
  <2> DEFINE r == [room EXCEPT !.control = IF c \in @ THEN @ \ {c} ELSE @ \cup {c}]
  <2>1. r \in Room /\ r.said = room.said /\ r.chat = room.chat /\ r.in = room.in
    BY DEF Types, Room
  <2>2. Say(r) /\ UNCHANGED <<up, open, client, slipped>>
    BY <1>4 DEF SetControl
  <2>3. budget' \in [events: Nat, asked: Nat, losses: Nat]
    BY <1>4, Budgeted DEF SetControl
  <2> HIDE DEF r
  <2> QED BY <1>0, <2>1, <2>2, <2>3, SaidAloud
<1> QED BY <1>2, <1>3, <1>4

\* That a ghost goes is said aloud.
LEMMA GhostStep == ASSUME Types, GhostGoes PROVE Types' /\ Speaks
<1> DEFINE r == [room EXCEPT !.ghosts = @ - 1]
<1>1. room \in Room /\ room.ghosts - 1 \in Nat
  BY DEF GhostGoes, Types, Room
<1>2. r \in Room /\ r.said = room.said /\ r.chat = room.chat /\ r.in = room.in
  BY <1>1 DEF Room
<1>3. Say(r) /\ UNCHANGED <<up, open, client, slipped, budget>>
  BY DEF GhostGoes
<1> HIDE DEF r
<1> QED BY <1>2, <1>3, SaidAloud DEF Types

\* What others do is said aloud, or is a line of chat.
LEMMA ElsewhereStep == ASSUME Types, Elsewhere PROVE Types' /\ (Speaks \/ Chats)
<1>1. up' \in [Client -> Seq(Message)] /\ UNCHANGED <<open, client, slipped>>
  BY DEF Elsewhere, Types
<1>2. budget' \in [events: Nat, asked: Nat, losses: Nat]
  BY Budgeted DEF Elsewhere
<1>3. ASSUME NEW f \in Film \cup {0}, SetFilm(f) PROVE Types' /\ Speaks
  <2>1. f \in Nat
    BY Sources
  <2> QED BY <1>1, <1>2, <1>3, <2>1, FilmSet
<1>4. CASE room' = Aloud(room) /\ Tell(room, <<News(room)[1]>>)
  BY <1>1, <1>2, <1>4, SaidOnly
<1> QED BY <1>3, <1>4 DEF Elsewhere

\* A line a client sent is a line of chat.
LEMMA ChatStep == ASSUME Types, NEW c \in Client, ChatSend(c) PROVE Types' /\ Chats
<1>1. up' \in [Client -> Seq(Message)]
  BY Taken DEF ChatSend
<1> QED BY <1>1, SaidOnly DEF ChatSend, Types

\* A report lets nobody hear anything.
LEMMA ReportStep == ASSUME Types, NEW c \in Client, PeerReport(c) PROVE Types' /\ Quiet
<1>1. Handles(c, "peer.report") /\ UNCHANGED <<down, open, client, slipped, budget>>
  BY DEF PeerReport
<1>2. up' \in [Client -> Seq(Message)] /\ up[c][1].v[1] \in Nat
  BY <1>1, Taken, Kinds DEF Numbered
<1>3. PICK f \in Nat : f = up[c][1].v[1]
  BY <1>2
<1>4. room' = [room EXCEPT !.reports = [room.reports EXCEPT ![c] = f]]
  BY <1>3 DEF PeerReport, Types, Room
<1>5. [room.reports EXCEPT ![c] = f] \in [Client -> Nat]
  BY DEF Types, Room
<1>6. room' \in Room /\ SameTalk
  BY <1>4, <1>5 DEF Types, Room, SameTalk
<1>7. room'.chat = room.chat
  BY <1>6 DEF SameTalk
<1> QED BY <1>1, <1>2, <1>6, <1>7, SameStays DEF Types, Quiet

\* A request is answered to who made it, with a URL or an error.
LEMMA AnswerStep == ASSUME Types, NEW c \in Client, OriginRequest(c) PROVE Types' /\ \E m \in Message : Answered(c, m)
<1>1. Handles(c, "origin.request") /\ UNCHANGED <<room, open, client, budget>>
  BY DEF OriginRequest
<1>2. up' \in [Client -> Seq(Message)] /\ up[c][1].v[1] \in Nat /\ up[c][1].v = <<up[c][1].v[1]>>
  BY <1>1, Taken, Kinds DEF Numbered
<1> DEFINE m == IF c \in room.control THEN Msg("origin.url", up[c][1].v) ELSE Msg("error", <<>>)
<1>3. m \in Message /\ m.t \in {"origin.url", "error"}
  <2>1. "origin.url" \in Numbered /\ "error" \in Plain
    BY DEF Numbered, Plain
  <2>2. PICK n \in Nat : up[c][1].v = <<n>>
    BY <1>2
  <2> QED BY <2>1, <2>2, Told
<1>4. down' = [down EXCEPT ![c] = Append(@, m)]
  BY DEF OriginRequest
<1> HIDE DEF m
<1>5. down[c] \in Seq(Message) /\ Append(down[c], m) \in Seq(Message)
  BY <1>3 DEF Types
<1>6. down' \in [Client -> Seq(Message)] /\ down'[c] = Append(down[c], m) /\ \A o \in Client : o # c => down'[o] = down[o]
  BY <1>4, <1>5 DEF Types
<1>7. slipped' \in SUBSET Client
  BY DEF OriginRequest, Types
<1>8. Answered(c, m)
  BY <1>1, <1>3, <1>6, SameStays DEF Answered, SameTalk
<1> QED BY <1>1, <1>2, <1>3, <1>6, <1>7, <1>8 DEF Types

\* The status timer tells everybody the figures of a film with a source.
LEMMA StatusStep == ASSUME Types, StatusTick PROVE Types' /\ Reported
<1> DEFINE m == Msg("transfer.status", <<room.film>>)
<1>1. m \in Message
  BY Told DEF Types, Room, Numbered
<1>2. down' = [c \in Client |-> IF c \in room.in THEN down[c] \o <<m>> ELSE down[c]]
  BY DEF StatusTick, Tell
<1> HIDE DEF m
<1>3. \A c \in Client : down[c] \in Seq(Message) /\ down[c] \o <<m>> = Append(down[c], m) /\ Append(down[c], m) \in Seq(Message)
  BY <1>1 DEF Types
<1>4. down' \in [Client -> Seq(Message)] /\ \A c \in Client : down'[c] = IF c \in room.in THEN Append(down[c], m) ELSE down[c]
  BY <1>2, <1>3
<1>5. UNCHANGED <<room, up, open, client, slipped, budget>> /\ SourceOf(room.film) # 0
  BY DEF StatusTick
<1>6. Types'
  BY <1>4, <1>5 DEF Types
<1> QED BY <1>4, <1>5, <1>6, SameStays DEF Reported, SameTalk, m

\* Who joins hears the history, and then what everybody hears.
LEMMA HelloStep == ASSUME Types, NEW c \in Client, Hello(c) PROVE Types' /\ Joins(c)
<1> DEFINE r == [room EXCEPT !.in = @ \cup {c}, !.control = @ \cup {c}]
           h == Msg("chat.history", room.chat)
<1>1. r \in Room /\ r.said = room.said /\ r.chat = room.chat /\ r.in = room.in \cup {c} /\ r.film = room.film
  BY DEF Types, Room
<1>2. Handles(c, "hello") /\ UNCHANGED <<open, client, slipped, budget>> /\ room' = Aloud(r)
  BY DEF Hello
<1>3. h \in Message
  BY Told DEF Types, Room
<1>4. down' = [o \in Client |-> IF o = c THEN down[o] \o <<h>> \o News(r)
                                ELSE IF o \in r.in THEN down[o] \o News(r) ELSE down[o]]
  BY DEF Hello
<1>5. News(r) = <<Line, State(room.film)>>
  BY <1>1 DEF News, Line, State
<1> HIDE DEF r, h
<1>6. Line \in Message /\ State(room.film) \in Message
  BY NewLine, NewState DEF Types, Room
<1>7. PICK line \in Message, state \in Message : line = Line /\ state = State(room.film)
  BY <1>6
<1>8. ASSUME NEW s \in Seq(Message)
      PROVE  /\ s \o <<h>> \o News(r) = Append(Append(Append(s, h), line), state)
             /\ s \o News(r) = Append(Append(s, line), state)
             /\ Append(Append(Append(s, h), line), state) \in Seq(Message)
             /\ Append(Append(s, line), state) \in Seq(Message)
  BY <1>3, <1>5, <1>7
<1>9. \A o \in Client : down[o] \in Seq(Message)
  BY DEF Types
<1>10. /\ down' \in [Client -> Seq(Message)]
       /\ \A o \in Client : down'[o] = IF o = c THEN Append(Append(Append(down[o], h), line), state)
                                       ELSE IF o \in r.in THEN Append(Append(down[o], line), state) ELSE down[o]
  BY <1>4, <1>8, <1>9
<1>11. room' \in Room /\ Adds /\ room'.in = r.in /\ room'.film = r.film /\ Len(room'.chat) <= History
  BY <1>1, <1>2, AloudType DEF Adds
<1>12. up' \in [Client -> Seq(Message)]
  BY <1>2, Taken
<1>13. Types'
  BY <1>2, <1>10, <1>11, <1>12 DEF Types
<1>14. Joins(c)
  BY <1>1, <1>2, <1>7, <1>10, <1>11, SameStays DEF Joins, h
<1> QED BY <1>13, <1>14

\* Every step is one of these, for what clients know of the room.
LEMMA StepKinds == ASSUME Types, Next PROVE Types' /\ Step
<1>1. ASSUME NEW c \in Client, Serve(c) PROVE Types' /\ Step
  BY <1>1, HelloStep, ChatStep, SpeakingSteps, ReportStep, AnswerStep DEF Serve, Step
<1>2. ASSUME NEW c \in Client, NEW k \in DOMAIN client[c].waiting, TimesOut(c, k) PROVE Types' /\ Step
  BY <1>2, TimedOut DEF Step
<1>3. ASSUME NEW c \in Client, \/ Dial(c) \/ Lost(c) \/ SendChat(c) \/ (\E f \in Film \cup {0} : AnnounceMedia(c, f))
                               \/ Carries(c) \/ SendReport(c) \/ OriginUrl(c) \/ OnMessage(c) \/ SetControl(c)
      PROVE  Types' /\ Step
  BY <1>3, Dialled, LostIt, ClientSends, Carrying, Asking, Heeds, SpeakingSteps DEF Step
<1> QED BY <1>1, <1>2, <1>3, GhostStep, StatusStep, ElsewhereStep DEF Next, Step

-----------------------------------------------------------------------------
(* The chat.                                                               *)

\* What a line, the history and the rest do to what a client has heard.
LEMMA HeardLine == ASSUME Types, NEW s \in Seq(Nat) PROVE HeardChat(s, Line) = Kept(Append(s, room.said + 1))
<1>1. Line.t = "chat.message" /\ Line.v = <<room.said + 1>>
  BY NewLine
<1>2. s \o <<room.said + 1>> = Append(s, room.said + 1)
  BY DEF Types, Room
<1> QED BY <1>1, <1>2 DEF HeardChat

\* The history replaces what was heard before.
LEMMA HeardHistory == ASSUME Types, NEW s PROVE HeardChat(s, Msg("chat.history", room.chat)) = room.chat
<1>1. room.chat \in Seq(Nat) /\ Len(room.chat) <= History
  BY DEF Types, Room
<1>2. Kept(room.chat) = room.chat
  BY <1>1, KeptType
<1>3. Msg("chat.history", room.chat).t = "chat.history" /\ Msg("chat.history", room.chat).v = room.chat
  BY <1>1, Told
<1> QED BY <1>2, <1>3 DEF HeardChat

\* Other messages add nothing to the chat.
LEMMA HeardOther == ASSUME NEW s, NEW m, m.t \notin {"chat.history", "chat.message"} PROVE HeardChat(s, m) = s
BY DEF HeardChat

\* A line and the film after what was under way.
LEMMA HeardNews ==
  ASSUME Types, NEW s \in Seq(Nat), NEW msgs \in Seq(Message), NEW f \in Nat
  PROVE  /\ FoldLeft(HeardChat, s, Append(msgs, Line)) = Kept(Append(FoldLeft(HeardChat, s, msgs), room.said + 1))
         /\ FoldLeft(HeardChat, s, Append(Append(msgs, Line), State(f)))
              = Kept(Append(FoldLeft(HeardChat, s, msgs), room.said + 1))
<1>1. PICK line \in Message, state \in Message : line = Line /\ state = State(f)
  BY NewLine, NewState
<1>2. PICK more \in Seq(Message) : more = Append(msgs, line)
  <2>1. Append(msgs, line) \in Seq(Message)
    BY <1>1
  <2> QED BY <2>1
<1>3. FoldLeft(HeardChat, s, more) = HeardChat(FoldLeft(HeardChat, s, msgs), line)
  BY <1>2, HeardLast
<1>4. FoldLeft(HeardChat, s, msgs) \in Seq(Nat)
  BY HeardAllType
<1>5. HeardChat(FoldLeft(HeardChat, s, msgs), line) = Kept(Append(FoldLeft(HeardChat, s, msgs), room.said + 1))
  BY <1>1, <1>4, HeardLine
<1>6. FoldLeft(HeardChat, s, Append(more, state)) = HeardChat(FoldLeft(HeardChat, s, more), state)
  BY HeardLast
<1>7. HeardChat(FoldLeft(HeardChat, s, more), state) = FoldLeft(HeardChat, s, more)
  BY <1>1, NewState, HeardOther
<1> QED BY <1>1, <1>2, <1>3, <1>5, <1>6, <1>7

\* No step lets the chat of a client and that of the room part.
LEMMA ChatKept == ASSUME Types, ChatAgrees, Types', Step PROVE ChatAgrees'
<1> DEFINE All(c) == FoldLeft(HeardChat, client[c].messages, down[c])
<1>1. \A c \in Client : /\ client[c].messages \in Seq(Nat) /\ down[c] \in Seq(Message) /\ client[c] \in Knows
  BY DEF Types, Knows
<1>2. room.in \subseteq Client /\ room.film \in Nat /\ room.chat \in Seq(Nat)
  BY DEF Types, Room
<1>3. SUFFICES ASSUME NEW c \in room'.in PROVE FoldLeft(HeardChat, client'[c].messages, down'[c]) = room'.chat
  BY DEF ChatAgrees
<1>4. c \in room.in => All(c) = room.chat
  BY DEF ChatAgrees
<1>5. CASE Quiet
  BY <1>2, <1>3, <1>4, <1>5 DEF Quiet, SameTalk, SameEars
<1>6. CASE Speaks
  <2>1. c \in room.in /\ client'[c].messages = client[c].messages /\ Adds
    BY <1>2, <1>3, <1>6 DEF Speaks, SameEars
  <2>2. down'[c] = Append(Append(down[c], Line), State(room'.film))
    BY <1>2, <1>6, <2>1 DEF Speaks
  <2>3. room'.film \in Nat
    BY DEF Types, Room
  <2> QED BY <1>1, <1>2, <1>4, <2>1, <2>2, <2>3, HeardNews DEF Adds
<1>7. CASE Chats
  <2>1. c \in room.in /\ client'[c].messages = client[c].messages /\ Adds
    BY <1>2, <1>3, <1>7 DEF Chats, SameEars
  <2>2. down'[c] = Append(down[c], Line)
    BY <1>2, <1>7, <2>1 DEF Chats
  <2> QED BY <1>1, <1>2, <1>4, <2>1, <2>2, HeardNews DEF Adds
<1>8. CASE Reported
  <2>1. c \in room.in /\ client'[c].messages = client[c].messages /\ room'.chat = room.chat
    BY <1>2, <1>3, <1>8 DEF Reported, SameTalk, SameEars
  <2> DEFINE m == Msg("transfer.status", <<room.film>>)
  <2>2. down'[c] = Append(down[c], m)
    BY <1>2, <1>8, <2>1 DEF Reported
  <2>3. m \in Message /\ m.t = "transfer.status"
    BY <1>2, Told DEF Numbered
  <2> HIDE DEF m
  <2>4. FoldLeft(HeardChat, client[c].messages, Append(down[c], m)) = HeardChat(All(c), m)
    BY <1>1, <1>2, <2>1, <2>3, HeardLast
  <2>5. HeardChat(All(c), m) = All(c)
    BY <2>3, HeardOther
  <2> QED BY <1>4, <2>1, <2>2, <2>4, <2>5
<1>9. ASSUME NEW k \in Client, Gone(k) PROVE FoldLeft(HeardChat, client'[c].messages, down'[c]) = room'.chat
  BY <1>2, <1>3, <1>4, <1>9 DEF Gone, SameEars
<1>10. ASSUME NEW k \in Client, Listens(k) PROVE FoldLeft(HeardChat, client'[c].messages, down'[c]) = room'.chat
  <2>0. c \in room.in /\ room'.chat = room.chat
    BY <1>3, <1>10 DEF Listens, SameTalk
  <2>1. CASE c # k
    BY <1>2, <1>4, <1>10, <2>0, <2>1 DEF Listens
  <2>2. CASE c = k
    <3>1. down[c] # <<>> /\ down'[c] = Tail(down[c]) /\ client'[c] = Heard(client[c], down[c][1])
      BY <1>10, <2>2 DEF Listens
    <3>2. down[c][1] \in Message
      BY <1>1, <1>2, <2>0, <3>1
    <3>3. client'[c].messages = HeardChat(client[c].messages, down[c][1])
      BY <1>1, <1>2, <2>0, <3>1, <3>2, HeardKnows
    <3>4. All(c) = FoldLeft(HeardChat, HeardChat(client[c].messages, down[c][1]), Tail(down[c]))
      BY <1>1, <1>2, <2>0, <3>1, HeardFirst
    <3> QED BY <1>4, <2>0, <3>1, <3>3, <3>4
  <2> QED BY <2>1, <2>2
<1>11. ASSUME NEW k \in Client, Joins(k) PROVE FoldLeft(HeardChat, client'[c].messages, down'[c]) = room'.chat
  <2>0. c \in Client /\ Adds /\ client'[c].messages = client[c].messages
    BY <1>2, <1>3, <1>11 DEF Joins, SameEars
  <2>1. CASE c # k
    <3>1. c \in room.in
      BY <1>3, <1>11, <2>1 DEF Joins
    <3>2. down'[c] = Append(Append(down[c], Line), State(room.film))
      BY <1>11, <2>0, <2>1, <3>1 DEF Joins
    <3> QED BY <1>1, <1>2, <1>4, <2>0, <3>1, <3>2, HeardNews DEF Adds
  <2>2. CASE c = k
    <3> DEFINE h == Msg("chat.history", room.chat)
    <3>1. down'[c] = Append(Append(Append(down[c], h), Line), State(room.film))
      BY <1>11, <2>2 DEF Joins
    <3>2. h \in Message
      BY <1>2, Told
    <3>3. FoldLeft(HeardChat, client[c].messages, Append(down[c], h)) = HeardChat(All(c), h)
      BY <1>1, <2>0, <3>2, HeardLast
    <3>4. HeardChat(All(c), h) = room.chat
      BY HeardHistory
    <3> HIDE DEF h
    <3>5. PICK more \in Seq(Message) : more = Append(down[c], h)
      <4>1. down[c] \in Seq(Message)
        BY <1>1, <2>0
      <4>2. Append(down[c], h) \in Seq(Message)
        BY <3>2, <4>1
      <4> QED BY <4>2
    <3>6. FoldLeft(HeardChat, client[c].messages, Append(Append(more, Line), State(room.film)))
            = Kept(Append(FoldLeft(HeardChat, client[c].messages, more), room.said + 1))
      BY <1>1, <1>2, <2>0, HeardNews
    <3> QED BY <2>0, <3>1, <3>3, <3>4, <3>5, <3>6 DEF Adds
  <2> QED BY <2>1, <2>2
<1>12. ASSUME NEW k \in Client, NEW m \in Message, Answered(k, m)
       PROVE  FoldLeft(HeardChat, client'[c].messages, down'[c]) = room'.chat
  <2>0. c \in room.in /\ room'.chat = room.chat /\ client'[c].messages = client[c].messages
    BY <1>2, <1>3, <1>12 DEF Answered, SameTalk, SameEars
  <2>1. CASE c # k
    BY <1>2, <1>4, <1>12, <2>0, <2>1 DEF Answered
  <2>2. CASE c = k
    <3>1. down'[c] = Append(down[c], m) /\ m.t \in {"origin.url", "error"}
      BY <1>12, <2>2 DEF Answered
    <3>2. FoldLeft(HeardChat, client[c].messages, Append(down[c], m)) = HeardChat(All(c), m)
      BY <1>1, <1>2, <2>0, HeardLast
    <3>3. HeardChat(All(c), m) = All(c)
      BY <3>1, HeardOther
    <3> QED BY <1>4, <2>0, <3>1, <3>2, <3>3
  <2> QED BY <2>1, <2>2
<1> QED BY <1>5, <1>6, <1>7, <1>8, <1>9, <1>10, <1>11, <1>12 DEF Step

-----------------------------------------------------------------------------
(* The film and the figures.                                               *)

\* The film a client knows of after k of the messages, if it knows of one now.
InEffect(film, msgs, k, f) ==
  \/ \E i \in 1 .. k : /\ msgs[i].t = "room.state" /\ msgs[i].v[1] = f
                       /\ \A j \in i + 1 .. k : msgs[j].t # "room.state"
  \/ film = f /\ \A i \in 1 .. k : msgs[i].t # "room.state"

\* Figures under way arrive while a film with a source is on.
FiguresFit(film, msgs) ==
  \A k \in DOMAIN msgs : msgs[k].t = "transfer.status" =>
    \E f \in Nat : SourceOf(f) # 0 /\ InEffect(film, msgs, k, f)

\* A message at the end changes nothing of the film that is in effect before it.
LEMMA EffectBefore ==
  ASSUME NEW film, NEW f, NEW msgs \in Seq(Message), NEW m \in Message, NEW k \in 0 .. Len(msgs),
         InEffect(film, msgs, k, f)
  PROVE  InEffect(film, Append(msgs, m), k, f)
<1>1. \A i \in 1 .. k : Append(msgs, m)[i] = msgs[i]
  OBVIOUS
<1>2. CASE film = f /\ \A i \in 1 .. k : msgs[i].t # "room.state"
  BY <1>1, <1>2 DEF InEffect
<1>3. ASSUME NEW i \in 1 .. k, msgs[i].t = "room.state", msgs[i].v[1] = f, \A j \in i + 1 .. k : msgs[j].t # "room.state"
      PROVE  InEffect(film, Append(msgs, m), k, f)
  <2>1. \A j \in i + 1 .. k : j \in 1 .. k
    OBVIOUS
  <2> QED BY <1>1, <1>3, <2>1 DEF InEffect
<1> QED BY <1>2, <1>3 DEF InEffect

\* After a message the film in effect is the one it tells of, or the one before it.
LEMMA EffectAfter ==
  ASSUME NEW film, NEW f, NEW msgs \in Seq(Message), NEW m \in Message,
         IF m.t = "room.state" THEN m.v[1] = f ELSE InEffect(film, msgs, Len(msgs), f)
  PROVE  InEffect(film, Append(msgs, m), Len(Append(msgs, m)), f)
<1> DEFINE N == Len(msgs)
           more == Append(msgs, m)
<1>1. N \in Nat /\ Len(more) = N + 1 /\ more[N + 1] = m /\ \A i \in 1 .. N : more[i] = msgs[i]
  OBVIOUS
<1> HIDE DEF more, N
<1>2. CASE m.t = "room.state"
  <2>1. N + 1 \in 1 .. N + 1 /\ \A j \in (N + 1) + 1 .. N + 1 : FALSE
    BY <1>1
  <2>2. more[N + 1].t = "room.state" /\ more[N + 1].v[1] = f
    BY <1>1, <1>2
  <2>3. InEffect(film, more, N + 1, f)
    BY <2>1, <2>2 DEF InEffect
  <2> QED BY <1>1, <2>3 DEF more
<1>3. CASE m.t # "room.state"
  <2>0. InEffect(film, msgs, N, f)
    BY <1>3 DEF N
  <2>1. CASE film = f /\ \A i \in 1 .. N : msgs[i].t # "room.state"
    <3>1. \A i \in 1 .. N + 1 : more[i].t # "room.state"
      BY <1>1, <1>3, <2>1
    <3> QED BY <1>1, <2>1, <3>1 DEF InEffect, more
  <2>2. ASSUME NEW i \in 1 .. N, msgs[i].t = "room.state", msgs[i].v[1] = f, \A j \in i + 1 .. N : msgs[j].t # "room.state"
        PROVE  InEffect(film, more, N + 1, f)
    <3>1. more[i].t = "room.state" /\ more[i].v[1] = f /\ i \in 1 .. N + 1
      BY <1>1, <2>2
    <3>2. \A j \in i + 1 .. N + 1 : more[j].t # "room.state"
      BY <1>1, <1>3, <2>2
    <3> QED BY <3>1, <3>2 DEF InEffect
  <2>3. InEffect(film, more, N + 1, f)
    BY <1>1, <2>0, <2>1, <2>2 DEF InEffect, more
  <2> QED BY <1>1, <2>3 DEF more
<1> QED BY <1>2, <1>3

\* Hearing the first message does not change what the later ones meet.
LEMMA EffectHeard ==
  ASSUME NEW film, NEW f, NEW msgs \in Seq(Message), msgs # <<>>, NEW k \in 1 .. Len(msgs),
         InEffect(film, msgs, k, f), NEW next, next = IF msgs[1].t = "room.state" THEN msgs[1].v[1] ELSE film
  PROVE  InEffect(next, Tail(msgs), k - 1, f)
<1> DEFINE rest == Tail(msgs)
<1>1. \A i \in 1 .. k - 1 : rest[i] = msgs[i + 1]
  OBVIOUS
<1> HIDE DEF rest
<1>2. CASE film = f /\ \A i \in 1 .. k : msgs[i].t # "room.state"
  <2>1. next = f
    BY <1>2
  <2>2. \A i \in 1 .. k - 1 : rest[i].t # "room.state"
    BY <1>1, <1>2
  <2> QED BY <2>1, <2>2 DEF InEffect, rest
<1>3. ASSUME NEW i \in 1 .. k, msgs[i].t = "room.state", msgs[i].v[1] = f, \A j \in i + 1 .. k : msgs[j].t # "room.state"
      PROVE  InEffect(next, rest, k - 1, f)
  <2>1. CASE i = 1
    <3>1. next = f
      BY <1>3, <2>1
    <3>2. \A j \in 1 .. k - 1 : rest[j].t # "room.state"
      BY <1>1, <1>3, <2>1
    <3> QED BY <3>1, <3>2 DEF InEffect
  <2>2. CASE i # 1
    <3>1. i - 1 \in 1 .. k - 1 /\ (i - 1) + 1 = i
      BY <2>2
    <3>2. rest[i - 1] = msgs[i]
      BY <1>1, <3>1
    <3>3. \A j \in (i - 1) + 1 .. k - 1 : rest[j].t # "room.state"
      BY <1>1, <1>3, <3>1
    <3> QED BY <1>3, <3>1, <3>2, <3>3 DEF InEffect
  <2> QED BY <2>1, <2>2
<1> QED BY <1>2, <1>3 DEF InEffect, rest

\* Figures fit that are sent while a film with a source is in effect.
LEMMA FiguresFitMore ==
  ASSUME NEW film, NEW msgs \in Seq(Message), NEW m \in Message, FiguresFit(film, msgs),
         m.t = "transfer.status" => \E f \in Nat : SourceOf(f) # 0 /\ InEffect(film, msgs, Len(msgs), f)
  PROVE  FiguresFit(film, Append(msgs, m))
<1> DEFINE more == Append(msgs, m)
           N == Len(msgs)
<1>1. N \in Nat /\ DOMAIN more = 1 .. N + 1 /\ Len(more) = N + 1 /\ more[N + 1] = m /\ DOMAIN msgs = 1 .. N
      /\ \A i \in 1 .. N : more[i] = msgs[i]
  OBVIOUS
<1>2. \A k \in 0 .. N : \A f : InEffect(film, msgs, k, f) => InEffect(film, more, k, f)
  BY EffectBefore
<1>3. m.t = "transfer.status" => \A f : InEffect(film, msgs, N, f) => InEffect(film, more, N + 1, f)
  BY <1>1, EffectAfter
<1> HIDE DEF more, N
<1>4. ASSUME NEW k \in DOMAIN more, more[k].t = "transfer.status"
      PROVE  \E f \in Nat : SourceOf(f) # 0 /\ InEffect(film, more, k, f)
  <2>1. CASE k \in 1 .. N
    <3>1. PICK f \in Nat : SourceOf(f) # 0 /\ InEffect(film, msgs, k, f)
      BY <1>1, <1>4, <2>1 DEF FiguresFit
    <3>2. k \in 0 .. N
      BY <1>1, <2>1
    <3> QED BY <1>2, <3>1, <3>2
  <2>2. CASE k = N + 1
    <3>1. m.t = "transfer.status"
      BY <1>1, <1>4, <2>2
    <3>2. PICK f \in Nat : SourceOf(f) # 0 /\ InEffect(film, msgs, N, f)
      BY <3>1 DEF N
    <3> QED BY <1>3, <2>2, <3>1, <3>2
  <2> QED BY <1>1, <2>1, <2>2
<1> QED BY <1>4 DEF FiguresFit, more

\* Figures that fit go on fitting when the message before them is heard.
LEMMA FiguresFitHeard ==
  ASSUME NEW film, NEW msgs \in Seq(Message), msgs # <<>>, FiguresFit(film, msgs),
         NEW next, next = IF msgs[1].t = "room.state" THEN msgs[1].v[1] ELSE film
  PROVE  FiguresFit(next, Tail(msgs))
<1> DEFINE rest == Tail(msgs)
<1>1. Len(msgs) \in Nat /\ DOMAIN rest = 1 .. Len(msgs) - 1 /\ \A i \in DOMAIN rest : i + 1 \in DOMAIN msgs /\ rest[i] = msgs[i + 1]
  OBVIOUS
<1>2. \A k \in 1 .. Len(msgs) : \A f : InEffect(film, msgs, k, f) => InEffect(next, rest, k - 1, f)
  BY EffectHeard
<1> HIDE DEF rest
<1>3. ASSUME NEW k \in DOMAIN rest, rest[k].t = "transfer.status"
      PROVE  \E f \in Nat : SourceOf(f) # 0 /\ InEffect(next, rest, k, f)
  <2>1. k + 1 \in DOMAIN msgs /\ msgs[k + 1].t = "transfer.status" /\ k + 1 \in 1 .. Len(msgs) /\ (k + 1) - 1 = k
    BY <1>1, <1>3
  <2>2. PICK f \in Nat : SourceOf(f) # 0 /\ InEffect(film, msgs, k + 1, f)
    BY <2>1 DEF FiguresFit
  <2>3. InEffect(next, rest, (k + 1) - 1, f)
    BY <1>2, <2>1, <2>2
  <2> QED BY <2>1, <2>2, <2>3
<1> QED BY <1>3 DEF FiguresFit, rest

\* A line, and then the film.
LEMMA NewsFits ==
  ASSUME Types, NEW film, NEW msgs \in Seq(Message), NEW f \in Nat, FiguresFit(film, msgs)
  PROVE  /\ FiguresFit(film, Append(msgs, Line)) /\ FiguresFit(film, Append(Append(msgs, Line), State(f)))
         /\ InEffect(film, Append(Append(msgs, Line), State(f)), Len(Append(Append(msgs, Line), State(f))), f)
         /\ \A g : InEffect(film, msgs, Len(msgs), g) => InEffect(film, Append(msgs, Line), Len(Append(msgs, Line)), g)
<1>1. PICK line \in Message, state \in Message : line = Line /\ state = State(f)
  BY NewLine, NewState
<1>2. line.t = "chat.message" /\ state.t = "room.state" /\ state.v[1] = f
  BY <1>1, NewLine, NewState
<1>3. FiguresFit(film, Append(msgs, line))
  BY <1>2, FiguresFitMore
<1>4. PICK more \in Seq(Message) : more = Append(msgs, line)
  <2>1. Append(msgs, line) \in Seq(Message)
    OBVIOUS
  <2> QED BY <2>1
<1>5. FiguresFit(film, Append(more, state))
  BY <1>2, <1>3, <1>4, FiguresFitMore
<1>6. InEffect(film, Append(more, state), Len(Append(more, state)), f)
  BY <1>2, EffectAfter
<1>7. \A g : InEffect(film, msgs, Len(msgs), g) => InEffect(film, Append(msgs, line), Len(Append(msgs, line)), g)
  BY <1>2, EffectAfter
<1> QED BY <1>1, <1>3, <1>4, <1>5, <1>6, <1>7

\* What a client that is in the room, or not, meets.
Fits(c) == /\ c \in room.in => InEffect(client[c].film, down[c], Len(down[c]), room.film)
           /\ FiguresFit(client[c].film, down[c])
           /\ client[c].figures # 0 => SourceOf(client[c].film) # 0
Films == \A c \in Client : Fits(c)

\* Nothing changes for a client that hears nothing.
LEMMA FitsStays ==
  ASSUME Types, NEW c \in Client, Fits(c), room'.film = room.film, c \in room'.in => c \in room.in,
         client'[c].film = client[c].film, client'[c].figures = client[c].figures, down'[c] = down[c]
  PROVE  Fits(c)'
BY DEF Fits

\* No step lets a client and the room disagree about the film, or figures come without one.
LEMMA FilmsKept == ASSUME Types, Types', Films, Step PROVE Films'
<1> SUFFICES ASSUME NEW c \in Client PROVE Fits(c)'
  BY DEF Films
<1>1. /\ Fits(c) /\ down[c] \in Seq(Message) /\ client[c] \in Knows
      /\ room.in \subseteq Client /\ room.film \in Nat /\ room'.film \in Nat
  BY DEF Films, Types, Room
<1>2. FiguresFit(client[c].film, down[c])
  BY <1>1 DEF Fits
<1>3. CASE Quiet
  BY <1>1, <1>3, FitsStays DEF Quiet, SameTalk, SameEars
<1>4. CASE Speaks
  <2>0. client'[c].film = client[c].film /\ client'[c].figures = client[c].figures /\ room'.in = room.in
    BY <1>4 DEF Speaks, SameEars
  <2>1. CASE c \in room.in
    <3>1. down'[c] = Append(Append(down[c], Line), State(room'.film))
      BY <1>4, <2>1 DEF Speaks
    <3>2. PICK f \in Nat : f = room'.film
      BY <1>1
    <3>3. FiguresFit(client[c].film, down'[c]) /\ InEffect(client[c].film, down'[c], Len(down'[c]), f)
      BY <1>1, <1>2, <3>1, <3>2, NewsFits
    <3> QED BY <1>1, <2>0, <3>2, <3>3 DEF Fits
  <2>2. CASE c \notin room.in
    <3>1. down'[c] = down[c]
      BY <1>4, <2>2 DEF Speaks
    <3> QED BY <1>1, <2>0, <2>2, <3>1 DEF Fits
  <2> QED BY <2>1, <2>2
<1>5. CASE Chats
  <2>0. /\ client'[c].film = client[c].film /\ client'[c].figures = client[c].figures
        /\ room'.in = room.in /\ room'.film = room.film
    BY <1>5 DEF Chats, SameEars
  <2>1. CASE c \in room.in
    <3>1. down'[c] = Append(down[c], Line)
      BY <1>5, <2>1 DEF Chats
    <3>2. InEffect(client[c].film, down[c], Len(down[c]), room.film)
      BY <1>1, <2>1 DEF Fits
    <3>3. FiguresFit(client[c].film, down'[c]) /\ InEffect(client[c].film, down'[c], Len(down'[c]), room.film)
      BY <1>1, <1>2, <3>1, <3>2, NewsFits
    <3> QED BY <1>1, <2>0, <3>3 DEF Fits
  <2>2. CASE c \notin room.in
    <3>1. down'[c] = down[c]
      BY <1>5, <2>2 DEF Chats
    <3> QED BY <1>1, <2>0, <3>1, FitsStays
  <2> QED BY <2>1, <2>2
<1>6. CASE Reported
  <2>0. /\ client'[c].film = client[c].film /\ client'[c].figures = client[c].figures
        /\ room'.in = room.in /\ room'.film = room.film /\ SourceOf(room.film) # 0
    BY <1>6 DEF Reported, SameTalk, SameEars
  <2>1. CASE c \in room.in
    <3> DEFINE m == Msg("transfer.status", <<room.film>>)
    <3>1. down'[c] = Append(down[c], m)
      BY <1>6, <2>1 DEF Reported
    <3>2. m \in Message /\ m.t = "transfer.status"
      BY <1>1, Told DEF Numbered
    <3> HIDE DEF m
    <3>3. InEffect(client[c].film, down[c], Len(down[c]), room.film)
      BY <1>1, <2>1 DEF Fits
    <3>4. FiguresFit(client[c].film, Append(down[c], m))
      BY <1>1, <1>2, <2>0, <3>2, <3>3, FiguresFitMore
    <3>5. InEffect(client[c].film, Append(down[c], m), Len(Append(down[c], m)), room.film)
      BY <1>1, <3>2, <3>3, EffectAfter
    <3> QED BY <1>1, <2>0, <3>1, <3>4, <3>5 DEF Fits
  <2>2. CASE c \notin room.in
    <3>1. down'[c] = down[c]
      BY <1>6, <2>2 DEF Reported
    <3> QED BY <1>1, <2>0, <3>1, FitsStays
  <2> QED BY <2>1, <2>2
<1>7. ASSUME NEW k \in Client, Gone(k) PROVE Fits(c)'
  <2>0. /\ client'[c].film = client[c].film /\ client'[c].figures = client[c].figures
        /\ room'.in = room.in \ {k} /\ room'.film = room.film
    BY <1>7 DEF Gone, SameEars
  <2>1. CASE c # k
    <3>1. down'[c] = down[c]
      BY <1>7, <2>1 DEF Gone
    <3> QED BY <1>1, <2>0, <3>1, FitsStays
  <2>2. CASE c = k
    <3>1. down'[c] = <<>> /\ c \notin room'.in
      BY <1>7, <2>0, <2>2 DEF Gone
    <3>2. FiguresFit(client[c].film, <<>>)
      BY DEF FiguresFit
    <3> QED BY <1>1, <2>0, <3>1, <3>2 DEF Fits
  <2> QED BY <2>1, <2>2
<1>8. ASSUME NEW k \in Client, Listens(k) PROVE Fits(c)'
  <2>0. room'.in = room.in /\ room'.film = room.film
    BY <1>8 DEF Listens, SameTalk
  <2>1. CASE c # k
    <3>1. down'[c] = down[c] /\ client'[c] = client[c]
      BY <1>8, <2>1 DEF Listens
    <3> QED BY <1>1, <2>0, <3>1, FitsStays
  <2>2. CASE c = k
    <3> DEFINE m == down[c][1]
    <3>1. down[c] # <<>> /\ down'[c] = Tail(down[c]) /\ client'[c] = Heard(client[c], m)
      BY <1>8, <2>2 DEF Listens
    <3>2. m \in Message /\ 1 \in DOMAIN down[c]
      BY <1>1, <3>1
    <3>3. /\ client'[c].film = IF m.t = "room.state" THEN m.v[1] ELSE client[c].film
          /\ m.t = "room.state" => client'[c].figures = IF /\ SourceOf(m.v[1]) # SourceOf(client[c].film)
                                                           /\ SourceOf(m.v[1]) = 0
                                                        THEN 0 ELSE client[c].figures
          /\ m.t \notin {"room.state", "transfer.status"} => client'[c].figures = client[c].figures
      <4> HIDE DEF m
      <4>1. PICK who \in Knows : who = client[c]
        BY <1>1
      <4>2. client'[c] = Heard(who, m)
        BY <3>1, <4>1
      <4>3. client'[c].film = IF m.t = "room.state" THEN m.v[1] ELSE who.film
        BY <3>2, <4>2, HeardKnows
      <4>4. Heard(who, m).figures = CASE m.t = "room.state" -> IF SourceOf(m.v[1]) # SourceOf(who.film) /\ SourceOf(m.v[1]) = 0
                                                             THEN 0 ELSE who.figures
                                    [] m.t = "transfer.status" -> m.v[1]
                                    [] OTHER -> who.figures
        BY <3>2, HeardKnows
      <4>5. CASE m.t = "room.state"
        <5>1. Heard(who, m).figures = IF SourceOf(m.v[1]) # SourceOf(who.film) /\ SourceOf(m.v[1]) = 0
                                    THEN 0 ELSE who.figures
          BY <4>4, <4>5
        <5> QED BY <4>1, <4>2, <4>3, <4>5, <5>1
      <4>6. CASE m.t \notin {"room.state", "transfer.status"}
        <5>1. Heard(who, m).figures = who.figures
          BY <4>4, <4>6
        <5> QED BY <4>1, <4>2, <4>3, <4>6, <5>1
      <4>7. CASE m.t = "transfer.status"
        BY <4>1, <4>3, <4>7
      <4> QED BY <4>5, <4>6, <4>7
    <3>4. FiguresFit(client'[c].film, down'[c])
      BY <1>1, <1>2, <3>1, <3>3, FiguresFitHeard
    <3>5. ASSUME c \in room.in PROVE InEffect(client'[c].film, down'[c], Len(down'[c]), room.film)
      <4>1. InEffect(client[c].film, down[c], Len(down[c]), room.film)
        BY <1>1, <3>5 DEF Fits
      <4>2. Len(down[c]) \in 1 .. Len(down[c]) /\ Len(down'[c]) = Len(down[c]) - 1
        BY <1>1, <3>1
      <4>3. InEffect(client'[c].film, Tail(down[c]), Len(down[c]) - 1, room.film)
        BY <1>1, <3>1, <3>3, <4>1, <4>2, EffectHeard
      <4> QED BY <3>1, <4>2, <4>3
    <3>6. client'[c].figures # 0 => SourceOf(client'[c].film) # 0
      <4>1. CASE m.t = "room.state"
        BY <1>1, <3>3, <4>1 DEF Fits
      <4>2. CASE m.t = "transfer.status"
        <5>1. PICK f \in Nat : SourceOf(f) # 0 /\ InEffect(client[c].film, down[c], 1, f)
          BY <1>2, <3>2, <4>2 DEF FiguresFit
        <5>2. client[c].film = f
          BY <4>2, <5>1 DEF InEffect
        <5> QED BY <3>3, <4>2, <5>1, <5>2
      <4>3. CASE m.t \notin {"room.state", "transfer.status"}
        BY <1>1, <3>3, <4>3 DEF Fits
      <4> QED BY <4>1, <4>2, <4>3
    <3> QED BY <2>0, <3>4, <3>5, <3>6 DEF Fits
  <2> QED BY <2>1, <2>2
<1>9. ASSUME NEW k \in Client, Joins(k) PROVE Fits(c)'
  <2>0. /\ client'[c].film = client[c].film /\ client'[c].figures = client[c].figures
        /\ room'.in = room.in \cup {k} /\ room'.film = room.film
    BY <1>9 DEF Joins, SameEars
  <2>1. CASE c # k /\ c \in room.in
    <3>1. down'[c] = Append(Append(down[c], Line), State(room.film))
      BY <1>9, <2>1 DEF Joins
    <3>2. FiguresFit(client[c].film, down'[c]) /\ InEffect(client[c].film, down'[c], Len(down'[c]), room.film)
      BY <1>1, <1>2, <3>1, NewsFits
    <3> QED BY <1>1, <2>0, <3>2 DEF Fits
  <2>2. CASE c # k /\ c \notin room.in
    <3>1. down'[c] = down[c]
      BY <1>9, <2>2 DEF Joins
    <3> QED BY <1>1, <2>0, <2>2, <3>1, FitsStays
  <2>3. CASE c = k
    <3> DEFINE h == Msg("chat.history", room.chat)
    <3>1. down'[c] = Append(Append(Append(down[c], h), Line), State(room.film))
      BY <1>9, <2>3 DEF Joins
    <3>2. h \in Message /\ h.t = "chat.history"
      BY Told DEF Types, Room
    <3> HIDE DEF h
    <3>3. FiguresFit(client[c].film, Append(down[c], h))
      BY <1>1, <1>2, <3>2, FiguresFitMore
    <3>4. PICK more \in Seq(Message) : more = Append(down[c], h)
      <4>1. Append(down[c], h) \in Seq(Message)
        BY <1>1, <3>2
      <4> QED BY <4>1
    <3>5. FiguresFit(client[c].film, down'[c]) /\ InEffect(client[c].film, down'[c], Len(down'[c]), room.film)
      BY <1>1, <3>1, <3>3, <3>4, NewsFits
    <3> QED BY <1>1, <2>0, <3>5 DEF Fits
  <2> QED BY <2>1, <2>2, <2>3
<1>10. ASSUME NEW k \in Client, NEW m \in Message, Answered(k, m) PROVE Fits(c)'
  <2>0. /\ client'[c].film = client[c].film /\ client'[c].figures = client[c].figures
        /\ room'.in = room.in /\ room'.film = room.film
    BY <1>10 DEF Answered, SameTalk, SameEars
  <2>1. CASE c # k
    <3>1. down'[c] = down[c]
      BY <1>10, <2>1 DEF Answered
    <3> QED BY <1>1, <2>0, <3>1, FitsStays
  <2>2. CASE c = k
    <3>1. down'[c] = Append(down[c], m) /\ m.t \in {"origin.url", "error"}
      BY <1>10, <2>2 DEF Answered
    <3>2. FiguresFit(client[c].film, down'[c])
      BY <1>1, <1>2, <3>1, FiguresFitMore
    <3>3. ASSUME c \in room.in PROVE InEffect(client[c].film, down'[c], Len(down'[c]), room.film)
      <4>1. InEffect(client[c].film, down[c], Len(down[c]), room.film)
        BY <1>1, <3>3 DEF Fits
      <4>2. m.t # "room.state"
        BY <3>1
      <4> QED BY <1>1, <3>1, <4>1, <4>2, EffectAfter
    <3> QED BY <1>1, <2>0, <3>2, <3>3 DEF Fits
  <2> QED BY <2>1, <2>2
<1> QED BY <1>3, <1>4, <1>5, <1>6, <1>7, <1>8, <1>9, <1>10 DEF Step

-----------------------------------------------------------------------------
(* The URLs.                                                               *)

Gets(said, m, t) == IF m.t = t THEN Append(said, m.v[1]) ELSE said

\* What has been said of one kind is a sequence of numbers.
LEMMA GetsType == ASSUME NEW said \in Seq(Nat), NEW m \in Message, NEW t \in Numbered PROVE Gets(said, m, t) \in Seq(Nat)
<1>1. m.t = t => m.v[1] \in Nat
  BY Kinds
<1> QED BY <1>1 DEF Gets

\* What is said in n messages, for every n.
Says(f, msgs, t) ==
  /\ f[0] = <<>> /\ \A n \in 0 .. Len(msgs) - 1 : f[n + 1] = Gets(f[n], msgs[n + 1], t)
  /\ Said(msgs, t) = f[Len(msgs)]

\* What a sequence of messages says of one kind is reached one message at a time.
LEMMA SaidFolds ==
  ASSUME NEW msgs \in Seq(Message), NEW t \in Numbered
  PROVE  \E f \in [0 .. Len(msgs) -> Seq(Nat)] : Says(f, msgs, t)
<1> DEFINE N == Len(msgs)
           A == Seq(Nat)
           base == <<>>
           step == [p \in A \X (1 .. N) |-> Gets(p[1], msgs[p[2]], t)]
           iter == CHOOSE iter : iter = [s \in SUBSET DOMAIN msgs |-> IF s = {} THEN base
                                  ELSE Gets(iter[s \ {Max(s)}], msgs[Max(s)], t)]
<1>1. Said(msgs, t) = iter[DOMAIN msgs]
  BY DEF Said, Gets, FoldLeft, MapThenFoldSet
<1>2. N \in Nat /\ DOMAIN msgs = 1 .. N /\ base \in A
  OBVIOUS
<1>3. step \in [A \X (1 .. N) -> A]
  <2> SUFFICES ASSUME NEW p \in A \X (1 .. N) PROVE Gets(p[1], msgs[p[2]], t) \in A
    OBVIOUS
  <2>1. p[1] \in Seq(Nat) /\ msgs[p[2]] \in Message
    OBVIOUS
  <2> QED BY <2>1, GetsType
<1>4. PICK g \in [SUBSET (1 .. N) -> A] : Folds(g, N, base, step)
  <2> HIDE DEF N, step, A
  <2> QED BY <1>2, <1>3, FoldExists
<1>5. g = [s \in SUBSET DOMAIN msgs |-> IF s = {} THEN base ELSE Gets(g[s \ {Max(s)}], msgs[Max(s)], t)]
  <2> SUFFICES ASSUME NEW s \in SUBSET (1 .. N)
               PROVE g[s] = IF s = {} THEN base ELSE Gets(g[s \ {Max(s)}], msgs[Max(s)], t)
    BY <1>2
  <2>1. CASE s = {}
    BY <1>4, <2>1 DEF Folds
  <2>2. CASE s # {}
    <3>1. g[s] = step[<<g[s \ {Max(s)}], Max(s)>>]
      BY <1>4, <2>2 DEF Folds
    <3>2. Max(s) \in 1 .. N
      BY <1>2, <2>2, MaxIsGreatest
    <3>3. s \ {Max(s)} \in SUBSET (1 .. N)
      OBVIOUS
    <3>4. <<g[s \ {Max(s)}], Max(s)>> \in A \X (1 .. N)
      BY <3>2, <3>3
    <3> QED BY <2>2, <3>1, <3>4
  <2> QED BY <2>1, <2>2
<1>6. iter = [s \in SUBSET DOMAIN msgs |-> IF s = {} THEN base ELSE Gets(iter[s \ {Max(s)}], msgs[Max(s)], t)]
  BY <1>5
<1> HIDE DEF iter
<1>7. iter[{}] = base
  BY <1>6
<1>8. ASSUME NEW n \in 0 .. N - 1, iter[1 .. n] \in A
      PROVE  iter[1 .. n + 1] = step[<<iter[1 .. n], n + 1>>]
  <2>1. n \in Nat /\ n + 1 \in 1 .. N
    BY <1>2
  <2>2. Max(1 .. n + 1) = n + 1 /\ (1 .. n + 1) \ {n + 1} = 1 .. n
    BY <2>1, MaxOfFirst
  <2>3. 1 .. n + 1 # {} /\ 1 .. n + 1 \in SUBSET DOMAIN msgs
    <3>1. 1 \in 1 .. n + 1 /\ \A i \in 1 .. n + 1 : i \in 1 .. N
      BY <2>1
    <3> QED BY <1>2, <3>1
  <2>4. iter[1 .. n + 1] = Gets(iter[(1 .. n + 1) \ {Max(1 .. n + 1)}], msgs[Max(1 .. n + 1)], t)
    BY <1>6, <2>3
  <2> QED BY <1>8, <2>1, <2>2, <2>4
<1>9. PICK f \in [0 .. N -> A] : Chain(f, N, base, step, iter[1 .. N])
  <2>1. Unfolds(iter, N, A, base, step)
    BY <1>7, <1>8 DEF Unfolds
  <2> HIDE DEF N, step, A
  <2> QED BY <1>2, <1>3, <2>1, FoldUnrolled
<1>10. \A n \in 0 .. N - 1 : f[n + 1] = Gets(f[n], msgs[n + 1], t)
  <2> TAKE n \in 0 .. N - 1
  <2>1. n \in 0 .. N /\ n + 1 \in 1 .. N
    BY <1>2
  <2>2. <<f[n], n + 1>> \in A \X (1 .. N)
    BY <2>1
  <2>3. step[<<f[n], n + 1>>] = Gets(f[n], msgs[n + 1], t)
    BY <2>2
  <2> QED BY <1>9, <2>3 DEF Chain
<1> QED BY <1>1, <1>2, <1>9, <1>10 DEF Chain, Says

\* What messages say of one kind is a sequence of numbers.
LEMMA SaidType == ASSUME NEW msgs \in Seq(Message), NEW t \in Numbered PROVE Said(msgs, t) \in Seq(Nat)
<1>1. PICK f \in [0 .. Len(msgs) -> Seq(Nat)] : Says(f, msgs, t)
  BY SaidFolds
<1> QED BY <1>1 DEF Says

\* No messages say nothing.
LEMMA SaidNothing == ASSUME NEW t \in Numbered PROVE Said(<<>>, t) = <<>>
<1>1. <<>> \in Seq(Message) /\ Len(<<>>) = 0
  OBVIOUS
<1>2. PICK f \in [0 .. 0 -> Seq(Nat)] : Says(f, <<>>, t)
  BY <1>1, SaidFolds
<1> QED BY <1>1, <1>2 DEF Says

\* The last message is said last.
LEMMA SaidLast ==
  ASSUME NEW msgs \in Seq(Message), NEW m \in Message, NEW t \in Numbered
  PROVE  Said(Append(msgs, m), t) = IF m.t = t THEN Append(Said(msgs, t), m.v[1]) ELSE Said(msgs, t)
<1> DEFINE more == Append(msgs, m)
           N == Len(msgs)
<1>1. more \in Seq(Message) /\ Len(more) = N + 1 /\ N \in Nat /\ more[N + 1] = m /\ \A i \in 1 .. N : more[i] = msgs[i]
  OBVIOUS
<1> HIDE DEF more
<1>2. PICK f \in [0 .. N -> Seq(Nat)] : Says(f, msgs, t)
  BY SaidFolds
<1>3. PICK g \in [0 .. N + 1 -> Seq(Nat)] : Says(g, more, t)
  BY <1>1, SaidFolds
<1>4. f[N] = g[N]
  <2>1. f[0] = g[0]
    BY <1>2, <1>3 DEF Says
  <2>2. ASSUME NEW n \in 0 .. N - 1, f[n] = g[n] PROVE f[n + 1] = g[n + 1]
    <3>1. n + 1 \in 1 .. N /\ n \in 0 .. (N + 1) - 1
      BY <1>1
    <3>2. f[n + 1] = Gets(f[n], msgs[n + 1], t)
      BY <1>2 DEF Says
    <3>3. g[n + 1] = Gets(g[n], more[n + 1], t)
      BY <1>1, <1>3, <3>1 DEF Says
    <3>4. more[n + 1] = msgs[n + 1]
      BY <1>1, <3>1
    <3> QED BY <2>2, <3>2, <3>3, <3>4
  <2> QED BY <1>1, <2>1, <2>2, SameEnd
<1>5. g[N + 1] = Gets(g[N], more[N + 1], t)
  <2>1. N \in 0 .. Len(more) - 1
    BY <1>1
  <2> QED BY <1>3, <2>1 DEF Says
<1>6. Said(more, t) = g[N + 1] /\ Said(msgs, t) = f[N]
  BY <1>1, <1>2, <1>3 DEF Says
<1>7. Said(more, t) = Gets(Said(msgs, t), m, t)
  BY <1>1, <1>4, <1>5, <1>6
<1> QED BY <1>7 DEF more, Gets

\* The first message is said first.
LEMMA SaidFirst ==
  ASSUME NEW msgs \in Seq(Message), msgs # <<>>, NEW t \in Numbered
  PROVE  Said(msgs, t) = IF msgs[1].t = t THEN <<msgs[1].v[1]>> \o Said(Tail(msgs), t) ELSE Said(Tail(msgs), t)
<1> DEFINE rest == Tail(msgs)
           N == Len(rest)
           first == IF msgs[1].t = t THEN <<msgs[1].v[1]>> ELSE <<>>
<1>1. rest \in Seq(Message) /\ Len(msgs) = N + 1 /\ N \in Nat /\ msgs[1] \in Message /\ \A i \in 1 .. N : rest[i] = msgs[i + 1] /\ rest[i] \in Message
  OBVIOUS
<1>0. first \in Seq(Nat)
  BY <1>1, Kinds
<1> HIDE DEF rest
<1>3. PICK f \in [0 .. N + 1 -> Seq(Nat)] : Says(f, msgs, t)
  BY <1>1, SaidFolds
<1>4. PICK g \in [0 .. N -> Seq(Nat)] : Says(g, rest, t)
  BY <1>1, SaidFolds
<1> DEFINE h == [n \in 0 .. N |-> f[n + 1]]
           j == [n \in 0 .. N |-> first \o g[n]]
<1>5. h[N] = j[N]
  <2>1. h[0] = j[0]
    <3>1. 0 \in 0 .. Len(msgs) - 1 /\ 0 \in 0 .. N /\ 0 + 1 = 1
      BY <1>1
    <3>2. f[0 + 1] = Gets(f[0], msgs[0 + 1], t) /\ f[0] = <<>> /\ g[0] = <<>>
      BY <1>3, <1>4, <3>1 DEF Says
    <3>3. Gets(<<>>, msgs[1], t) = first
      BY DEF Gets
    <3>4. first \o <<>> = first
      BY <1>0
    <3> QED BY <3>1, <3>2, <3>3, <3>4
  <2>2. ASSUME NEW n \in 0 .. N - 1, h[n] = j[n] PROVE h[n + 1] = j[n + 1]
    <3>1. n + 1 \in 1 .. N /\ n + 1 \in 0 .. Len(msgs) - 1 /\ n \in 0 .. N /\ n + 1 \in 0 .. N
      BY <1>1
    <3>2. f[(n + 1) + 1] = Gets(f[n + 1], msgs[(n + 1) + 1], t)
      BY <1>3, <3>1 DEF Says
    <3>3. g[n + 1] = Gets(g[n], rest[n + 1], t)
      BY <1>4 DEF Says
    <3>4. rest[n + 1] = msgs[(n + 1) + 1] /\ rest[n + 1] \in Message
      BY <1>1, <3>1
    <3>5. \A x \in Seq(Nat) : \A m \in Message : first \o Gets(x, m, t) = Gets(first \o x, m, t)
      <4> SUFFICES ASSUME NEW x \in Seq(Nat), NEW m \in Message PROVE first \o Gets(x, m, t) = Gets(first \o x, m, t)
        OBVIOUS
      <4> HIDE DEF first
      <4>1. CASE m.t = t
        <5>1. PICK k \in Nat : k = m.v[1]
          BY <4>1, Kinds
        <5>2. first \o Append(x, k) = Append(first \o x, k)
          BY <1>0
        <5> QED BY <4>1, <5>1, <5>2 DEF Gets
      <4> QED BY <4>1 DEF Gets
    <3>6. f[n + 1] = first \o g[n] /\ g[n] \in Seq(Nat)
      BY <2>2, <3>1
    <3>7. f[(n + 1) + 1] = first \o g[n + 1]
      <4> HIDE DEF first
      <4> QED BY <3>2, <3>3, <3>4, <3>5, <3>6
    <3>8. h[n + 1] = f[(n + 1) + 1] /\ j[n + 1] = first \o g[n + 1]
      BY <3>1
    <3> QED BY <3>7, <3>8
  <2> HIDE DEF h, j
  <2> QED BY <1>1, <2>1, <2>2, SameEnd
<1>6. h[N] = f[N + 1] /\ j[N] = first \o g[N]
  BY <1>1
<1>7. Said(msgs, t) = f[N + 1] /\ Said(rest, t) = g[N]
  BY <1>1, <1>3, <1>4 DEF Says
<1>8. Said(msgs, t) = first \o Said(rest, t)
  BY <1>5, <1>6, <1>7
<1>9. Said(rest, t) \in Seq(Nat)
  BY <1>1, SaidType
<1> QED BY <1>8, <1>9 DEF rest

Url == "origin.url"
Wish == "origin.request"
\* The answers that come are those the client waits for, in its order.
Turn(c) == c \in slipped \/ client[c].waiting = Asked(c)
Shut(c) == c \notin open => up[c] = <<>> /\ down[c] = <<>>
Turns == room.in \subseteq open /\ \A c \in Client : Turn(c) /\ Shut(c)

\* No channel says anything new about URLs, and none of a closed socket anything at all.
SameDown == \A c \in Client : Said(down'[c], Url) = Said(down[c], Url) /\ (down'[c] # down[c] => c \in room'.in)
SameUp == \A c \in Client : Said(up'[c], Wish) = Said(up[c], Wish) /\ (up'[c] # up[c] => c \in open')

\* URLs and requests for them are told from all other messages.
LEMMA Channels ==
  /\ Url \in Numbered /\ Wish \in Numbered
  /\ \A t \in Plain \cup {"chat.message", "room.state", "transfer.status", "media.announce", "peer.report", "chat.history"} :
       t # Url /\ t # Wish
BY DEF Url, Wish, Numbered, Plain

\* Nothing changes for a client whose requests and answers stay as they are.
LEMMA TurnStays ==
  ASSUME NEW c \in Client, Turn(c), Said(down'[c], Url) = Said(down[c], Url), Said(up'[c], Wish) = Said(up[c], Wish),
         client'[c].waiting = client[c].waiting, c \in slipped => c \in slipped'
  PROVE  Turn(c)'
BY DEF Turn, Asked, Url, Wish

\* Nor for all of them.
LEMMA TurnsStay ==
  ASSUME Turns, SameDown, SameUp, slipped \subseteq slipped', open \subseteq open', room'.in \subseteq open',
         \A c \in Client : client'[c].waiting = client[c].waiting
  PROVE  Turns'
<1> SUFFICES ASSUME NEW c \in Client PROVE Turn(c)' /\ Shut(c)'
  BY DEF Turns
<1>1. Turn(c) /\ Shut(c)
  BY DEF Turns
<1>2. Turn(c)'
  BY <1>1, TurnStays DEF SameDown, SameUp
<1>3. Shut(c)'
  BY <1>1 DEF Shut, SameDown, SameUp
<1> QED BY <1>2, <1>3

\* A handler of something else takes no request.
LEMMA TakenSame == ASSUME Types, NEW c \in Client, NEW t, t # Wish, Handles(c, t), open' = open PROVE SameUp
<1> SUFFICES ASSUME NEW o \in Client PROVE Said(up'[o], Wish) = Said(up[o], Wish) /\ (up'[o] # up[o] => o \in open')
  BY DEF SameUp
<1>1. /\ up[c] \in Seq(Message) /\ up[c][1].t = t /\ up[c] # <<>> /\ up'[c] = Tail(up[c]) /\ c \in open
      /\ \A i \in Client : i # c => up'[i] = up[i]
  BY Taken DEF Types, Handles
<1>2. Said(up'[c], Wish) = Said(up[c], Wish)
  BY <1>1, SaidFirst, Channels
<1> QED BY <1>1, <1>2

\* A client that sends something else makes no request.
LEMMA PostedSame ==
  ASSUME Types, NEW c \in Client, NEW m \in Message, m.t # Wish, Send(c, m), open' = open PROVE SameUp
<1> SUFFICES ASSUME NEW o \in Client PROVE Said(up'[o], Wish) = Said(up[o], Wish) /\ (up'[o] # up[o] => o \in open')
  BY DEF SameUp
<1>1. /\ up[c] \in Seq(Message) /\ up'[c] = IF c \in open THEN Append(up[c], m) ELSE up[c]
      /\ \A i \in Client : i # c => up'[i] = up[i]
  BY Posted DEF Types
<1>2. Said(up'[c], Wish) = Said(up[c], Wish)
  BY <1>1, SaidLast, Channels
<1> QED BY <1>1, <1>2

\* What is said aloud, the film and the figures say nothing of URLs.
LEMMA AloudSame == ASSUME Types, Types', Speaks \/ Chats \/ Reported PROVE SameDown
<1> SUFFICES ASSUME NEW o \in Client PROVE Said(down'[o], Url) = Said(down[o], Url) /\ (down'[o] # down[o] => o \in room'.in)
  BY DEF SameDown
<1>1. down[o] \in Seq(Message) /\ Url \in Numbered
  BY Channels DEF Types
<1>2. PICK line \in Message, state \in Message : line = Line /\ state = State(room'.film)
  BY NewLine, NewState DEF Types, Room
<1>3. line.t # Url /\ state.t # Url
  BY <1>2, NewLine, NewState, Channels DEF Types, Room
<1>4. Append(down[o], line) \in Seq(Message)
  BY <1>1
<1>5. Said(Append(down[o], line), Url) = Said(down[o], Url)
  BY <1>1, <1>3, SaidLast
<1>6. Said(Append(Append(down[o], line), state), Url) = Said(down[o], Url)
  BY <1>1, <1>3, <1>4, <1>5, SaidLast
<1>7. CASE Speaks
  BY <1>2, <1>6, <1>7 DEF Speaks
<1>8. CASE Chats
  BY <1>2, <1>5, <1>8 DEF Chats
<1>9. CASE Reported
  <2> DEFINE m == Msg("transfer.status", <<room.film>>)
  <2>1. m \in Message /\ m.t # Url
    BY Told, Channels DEF Types, Room, Numbered
  <2>2. down'[o] = IF o \in room.in THEN Append(down[o], m) ELSE down[o]
    BY <1>9 DEF Reported
  <2>3. room'.in = room.in
    BY <1>9 DEF Reported, SameTalk
  <2> HIDE DEF m
  <2>4. Said(Append(down[o], m), Url) = Said(down[o], Url)
    BY <1>1, <2>1, SaidLast
  <2> QED BY <2>2, <2>3, <2>4
<1> QED BY <1>7, <1>8, <1>9

\* Nor does what is said of a newcomer, to them or to others.
LEMMA JoinSame == ASSUME Types, Types', NEW c \in Client, Joins(c) PROVE SameDown
<1> SUFFICES ASSUME NEW o \in Client PROVE Said(down'[o], Url) = Said(down[o], Url) /\ (down'[o] # down[o] => o \in room'.in)
  BY DEF SameDown
<1>1. down[o] \in Seq(Message) /\ Url \in Numbered
  BY Channels DEF Types
<1>2. PICK line \in Message, state \in Message : line = Line /\ state = State(room.film)
  BY NewLine, NewState DEF Types, Room
<1>3. line.t # Url /\ state.t # Url
  BY <1>2, NewLine, NewState, Channels DEF Types, Room
<1>4. ASSUME NEW s \in Seq(Message) PROVE Said(Append(Append(s, line), state), Url) = Said(s, Url)
  <2>1. Append(s, line) \in Seq(Message)
    OBVIOUS
  <2>2. Said(Append(s, line), Url) = Said(s, Url)
    BY <1>1, <1>3, SaidLast
  <2> QED BY <1>1, <1>3, <2>1, <2>2, SaidLast
<1>5. CASE o # c
  BY <1>1, <1>2, <1>4, <1>5 DEF Joins
<1>6. CASE o = c
  <2>1. PICK h \in Message : h = Msg("chat.history", room.chat) /\ h.t # Url
    <3>1. /\ Msg("chat.history", room.chat) \in Message
          /\ Msg("chat.history", room.chat).t = "chat.history"
      BY Told DEF Types, Room
    <3> QED BY <3>1, Channels
  <2>2. down'[o] = Append(Append(Append(down[o], h), line), state)
    BY <1>2, <1>6, <2>1 DEF Joins
  <2>3. Append(down[o], h) \in Seq(Message) /\ Said(Append(down[o], h), Url) = Said(down[o], Url)
    BY <1>1, <2>1, SaidLast
  <2> QED BY <1>4, <1>6, <2>2, <2>3 DEF Joins
<1> QED BY <1>5, <1>6

\* Nor does a step that says nothing.
LEMMA QuietDown == ASSUME Quiet PROVE SameDown
BY DEF Quiet, SameDown

\* Sequences are the same when their elements are.
LEMMA SameSequence ==
  ASSUME NEW s \in Seq(Nat), NEW t \in Seq(Nat), Len(s) = Len(t), \A i \in 1 .. Len(s) : s[i] = t[i]
  PROVE  s = t
OBVIOUS

\* Concatenation, where an element crosses from one sequence to the other.
LEMMA Shift ==
  ASSUME NEW D \in Seq(Nat), NEW U \in Seq(Nat), NEW n \in Nat
  PROVE  /\ D \o Append(U, n) = Append(D \o U, n) /\ Append(D, n) \o U = D \o (<<n>> \o U)
         /\ (<<n>> \o D) \o U = <<n>> \o (D \o U) /\ Tail(<<n>> \o U) = U /\ Len(<<n>> \o U) = Len(U) + 1
         /\ <<n>> \o U # <<>> /\ (Len(U) = 0 => U = <<>>) /\ D \o U \in Seq(Nat)
<1>1. D \o Append(U, n) = Append(D \o U, n) /\ D \o U \in Seq(Nat)
  OBVIOUS
<1>2. Append(D, n) \o U = D \o (<<n>> \o U)
  <2> DEFINE a == Append(D, n) \o U
             b == D \o (<<n>> \o U)
  <2>1. a \in Seq(Nat) /\ b \in Seq(Nat) /\ Len(a) = Len(b) /\ Len(a) = Len(D) + 1 + Len(U)
    OBVIOUS
  <2>2. ASSUME NEW i \in 1 .. Len(D) + 1 + Len(U) PROVE a[i] = b[i]
    OBVIOUS
  <2> HIDE DEF a, b
  <2>3. a = b
    BY <2>1, <2>2, SameSequence
  <2> QED BY <2>3 DEF a, b
<1>3. (<<n>> \o D) \o U = <<n>> \o (D \o U)
  OBVIOUS
<1>4. Tail(<<n>> \o U) = U
  OBVIOUS
<1>5. Len(<<n>> \o U) = Len(U) + 1 /\ <<n>> \o U # <<>>
  OBVIOUS
<1>6. Len(U) = 0 => U = <<>>
  OBVIOUS
<1> QED BY <1>1, <1>2, <1>3, <1>4, <1>5, <1>6

\* The queues of requests and of answers are sequences of numbers.
LEMMA AskedType == ASSUME Types, NEW c \in Client
  PROVE /\ Said(down[c], Url) \in Seq(Nat) /\ Said(up[c], Wish) \in Seq(Nat)
        /\ Asked(c) = Said(down[c], Url) \o Said(up[c], Wish) /\ client[c].waiting \in Seq(Nat)
BY SaidType, Channels DEF Types, Knows, Asked, Url, Wish

\* Handlers on the server that say something, or nothing, but answer no request.
LEMMA ServedTurns ==
  ASSUME Types, Types', Turns, NEW c \in Client, Hello(c) \/ ChatSend(c) \/ MediaAnnounce(c) \/ MediaClear(c) \/ PeerReport(c)
  PROVE  Turns'
<1>1. open' = open /\ client' = client /\ slipped' = slipped
  BY DEF Hello, ChatSend, MediaAnnounce, MediaClear, PeerReport
<1>2. PICK t \in {"hello", "chat.send", "media.announce", "media.clear", "peer.report"} : Handles(c, t)
  BY DEF Hello, ChatSend, MediaAnnounce, MediaClear, PeerReport
<1>3. SameUp
  <2>1. t # Wish
    BY DEF Wish
  <2> QED BY <1>1, <1>2, <2>1, TakenSame
<1>4. SameDown /\ room'.in \subseteq room.in \cup {c}
  <2>1. CASE Hello(c)
    <3>1. Joins(c)
      BY <2>1, HelloStep
    <3> QED BY <3>1, JoinSame DEF Joins
  <2>2. CASE ChatSend(c)
    <3>1. Chats
      BY <2>2, ChatStep
    <3> QED BY <3>1, AloudSame DEF Chats
  <2>3. CASE MediaAnnounce(c) \/ MediaClear(c)
    <3>1. Speaks
      BY <2>3, SpeakingSteps
    <3> QED BY <3>1, AloudSame DEF Speaks
  <2>4. CASE PeerReport(c)
    <3>1. Quiet
      BY <2>4, ReportStep
    <3> QED BY <3>1, QuietDown DEF Quiet, SameTalk
  <2> QED BY <2>1, <2>2, <2>3, <2>4
<1>5. c \in open /\ room.in \subseteq open
  BY <1>2 DEF Handles, Turns
<1> QED BY <1>1, <1>3, <1>4, <1>5, TurnsStay

\* Nor do steps that nobody in particular asked for.
LEMMA AloneTurns ==
  ASSUME Types, Types', Turns, GhostGoes \/ StatusTick \/ Elsewhere \/ \E c \in Client : SetControl(c)
  PROVE  Turns'
<1>1. open' = open /\ client' = client /\ slipped' = slipped /\ up' = up
  BY DEF GhostGoes, StatusTick, Elsewhere, SetControl
<1>2. Speaks \/ Chats \/ Reported
  BY GhostStep, StatusStep, ElsewhereStep, SpeakingSteps
<1>3. room'.in = room.in
  BY <1>2 DEF Speaks, Chats, Reported, SameTalk
<1>4. SameUp
  BY <1>1 DEF SameUp
<1>5. SameDown
  BY <1>2, AloudSame
<1>6. room.in \subseteq open
  BY DEF Turns
<1> QED BY <1>1, <1>3, <1>4, <1>5, <1>6, TurnsStay

\* Nor do messages that are no requests.
LEMMA SendingTurns ==
  ASSUME Types, Types', Turns, NEW c \in Client,
         SendChat(c) \/ (\E f \in Film \cup {0} : AnnounceMedia(c, f)) \/ SendReport(c)
  PROVE  Turns'
<1>1. open' = open /\ client' = client /\ slipped' = slipped /\ room' = room
  BY DEF SendChat, AnnounceMedia, SendReport
<1>2. PICK m \in Message : Send(c, m) /\ m.t # Wish
  <2>0. "chat.send" \in Plain /\ "media.clear" \in Plain /\ "media.announce" \in Numbered /\ "peer.report" \in Numbered
    BY DEF Plain, Numbered
  <2>1. CASE SendChat(c)
    <3>1. Msg("chat.send", <<>>) \in Message /\ Msg("chat.send", <<>>).t = "chat.send"
      BY <2>0, Told
    <3> QED BY <2>1, <3>1 DEF SendChat, Wish
  <2>2. ASSUME NEW f \in Film \cup {0}, AnnounceMedia(c, f) PROVE \E m \in Message : Send(c, m) /\ m.t # Wish
    <3>1. f \in Nat
      BY Sources
    <3>2. Msg("media.clear", <<>>) \in Message /\ Msg("media.clear", <<>>).t = "media.clear"
      BY <2>0, Told
    <3>3. Msg("media.announce", <<f>>) \in Message /\ Msg("media.announce", <<f>>).t = "media.announce"
      BY <2>0, <3>1, Told
    <3>4. Send(c, IF f = 0 THEN Msg("media.clear", <<>>) ELSE Msg("media.announce", <<f>>))
      BY <2>2 DEF AnnounceMedia
    <3>5. CASE f = 0
      BY <3>2, <3>4, <3>5 DEF Wish
    <3>6. CASE f # 0
      BY <3>3, <3>4, <3>6 DEF Wish
    <3> QED BY <3>5, <3>6
  <2>3. CASE SendReport(c)
    <3>1. client[c].carry \in Nat
      BY DEF Types, Knows
    <3>2. Msg("peer.report", <<client[c].carry>>) \in Message /\ Msg("peer.report", <<client[c].carry>>).t = "peer.report"
      BY <2>0, <3>1, Told
    <3> QED BY <2>3, <3>2, Channels DEF SendReport
  <2> QED BY <2>1, <2>2, <2>3
<1>3. SameUp
  BY <1>1, <1>2, PostedSame
<1>4. SameDown
  BY ClientSends, QuietDown
<1>5. room.in \subseteq open
  BY DEF Turns
<1> QED BY <1>1, <1>3, <1>4, <1>5, TurnsStay

\* A socket opens without requests or answers under way.
LEMMA DialTurns == ASSUME Types, Turns, NEW c \in Client, Dial(c) PROVE Turns'
<1>1. /\ open' = open \cup {c} /\ client' = client /\ slipped' = slipped /\ room' = room /\ down' = down
      /\ up'[c] = <<Msg("hello", <<>>)>> /\ \A o \in Client : o # c => up'[o] = up[o]
  BY DEF Dial, Types
<1>2. up[c] = <<>>
  BY DEF Dial, Turns, Shut
<1>3. Said(up'[c], Wish) = <<>> /\ Said(up[c], Wish) = <<>>
  <2>1. PICK m \in Message : m = Msg("hello", <<>>) /\ m.t = "hello"
    BY Told DEF Plain
  <2>2. up'[c] = Append(<<>>, m) /\ <<>> \in Seq(Message)
    BY <1>1, <2>1
  <2>3. m.t # Wish
    BY <2>1 DEF Wish
  <2>4. Said(Append(<<>>, m), Wish) = Said(<<>>, Wish)
    BY <2>2, <2>3, SaidLast, Channels
  <2> QED BY <1>2, <2>2, <2>4, SaidNothing, Channels
<1>4. SameUp
  BY <1>1, <1>3 DEF SameUp
<1>5. SameDown
  BY <1>1 DEF SameDown
<1>6. room.in \subseteq open
  BY DEF Turns
<1> QED BY <1>1, <1>4, <1>5, <1>6, TurnsStay

\* Carrying a film has nothing to do with requests.
LEMMA CarryTurns == ASSUME Types, Turns, NEW c \in Client, Carries(c) PROVE Turns'
<1>1. UNCHANGED <<room, up, down, open, slipped>> /\ \A o \in Client : client'[o].waiting = client[o].waiting
  BY DEF Carries, Types, Knows
<1>2. SameUp /\ SameDown /\ room'.in \subseteq open'
  BY <1>1 DEF SameUp, SameDown, Turns
<1> QED BY <1>1, <1>2, TurnsStay

\* Who loses a socket with requests unanswered has slipped.
LEMMA LossTurns == ASSUME Types, Turns, NEW c \in Client, Lost(c) PROVE Turns'
<1>1. /\ open' = open \ {c} /\ client' = client /\ up'[c] = <<>> /\ down'[c] = <<>>
      /\ slipped' = IF client[c].waiting = <<>> THEN slipped ELSE slipped \cup {c}
      /\ \A o \in Client : o # c => up'[o] = up[o] /\ down'[o] = down[o]
  BY DEF Types, Lost
<1>2. room'.in \subseteq open'
  <2>1. room'.in = room.in \ {c}
    BY LostIt DEF Gone
  <2> QED BY <1>1, <2>1 DEF Turns
<1> SUFFICES ASSUME NEW o \in Client PROVE Turn(o)' /\ Shut(o)'
  BY <1>2 DEF Turns
<1>3. Turn(o) /\ Shut(o)
  BY DEF Turns
<1>4. CASE o # c
  <2>1. Turn(o)'
    BY <1>1, <1>3, <1>4, TurnStays
  <2> QED BY <1>1, <1>3, <1>4, <2>1 DEF Shut
<1>5. CASE o = c
  <2>1. CASE client[c].waiting = <<>>
    <3>1. Asked(c)' = <<>> \o <<>>
      BY <1>1, SaidNothing, Channels DEF Asked, Url, Wish
    <3>2. Asked(c)' = <<>>
      BY <3>1
    <3> QED BY <1>1, <1>5, <2>1, <3>2 DEF Turn, Shut
  <2>2. CASE client[c].waiting # <<>>
    BY <1>1, <1>5, <2>2 DEF Turn, Shut
  <2> QED BY <2>1, <2>2
<1> QED BY <1>4, <1>5

\* A request goes to the end of the queue and to the end of the channel, or its client has slipped.
LEMMA AskTurns == ASSUME Types, Turns, NEW c \in Client, OriginUrl(c) PROVE Turns'
<1> DEFINE m == Msg(Wish, <<ThisRequest>>)
<1>1. ThisRequest \in Nat /\ m \in Message /\ m.t = Wish /\ m.v = <<ThisRequest>> /\ m.v[1] = ThisRequest
  <2>1. ThisRequest \in Nat
    BY DEF Types, ThisRequest
  <2> QED BY <2>1, Told, Channels
<1>2. /\ UNCHANGED <<room, down, open>> /\ Send(c, m)
      /\ client' = [client EXCEPT ![c].waiting = Append(client[c].waiting, ThisRequest)]
      /\ slipped' = IF c \in open THEN slipped ELSE slipped \cup {c}
  BY DEF OriginUrl, Wish
<1> HIDE DEF m
<1>3. /\ client'[c].waiting = Append(client[c].waiting, ThisRequest)
      /\ \A o \in Client : o # c => client'[o] = client[o]
  BY <1>2 DEF Types, Knows
<1>4. /\ up'[c] = IF c \in open THEN Append(up[c], m) ELSE up[c]
      /\ \A o \in Client : o # c => up'[o] = up[o]
  BY <1>1, <1>2, Posted
<1> SUFFICES ASSUME NEW o \in Client PROVE Turn(o)' /\ Shut(o)'
  BY <1>2 DEF Turns
<1>5. Turn(o) /\ Shut(o)
  BY DEF Turns
<1>6. Shut(o)'
  BY <1>2, <1>4, <1>5 DEF Shut
<1>7. CASE o # c
  <2>1. Turn(o)'
    BY <1>2, <1>3, <1>4, <1>5, <1>7, TurnStays
  <2> QED BY <1>6, <2>1
<1>8. CASE o = c /\ o \in slipped'
  BY <1>6, <1>8 DEF Turn
<1>9. CASE o = c /\ o \notin slipped'
  <2>1. c \in open /\ c \notin slipped /\ client[c].waiting = Asked(c)
    BY <1>2, <1>5, <1>9 DEF Turn
  <2> DEFINE D == Said(down[c], Url)
             U == Said(up[c], Wish)
  <2>2. D \in Seq(Nat) /\ U \in Seq(Nat) /\ Asked(c) = D \o U /\ up[c] \in Seq(Message)
    BY AskedType DEF Types
  <2>3. Said(up'[c], Wish) = Append(U, ThisRequest)
    BY <1>1, <1>4, <2>1, <2>2, SaidLast, Channels
  <2>4. Asked(c)' = Said(down'[c], Url) \o Said(up'[c], Wish)
    BY DEF Asked, Url, Wish
  <2>5. Asked(c)' = D \o Append(U, ThisRequest)
    BY <1>2, <2>3, <2>4
  <2> HIDE DEF D, U
  <2>6. D \o Append(U, ThisRequest) = Append(D \o U, ThisRequest)
    BY <1>1, <2>2, Shift
  <2> QED BY <1>3, <1>6, <1>9, <2>1, <2>2, <2>5, <2>6 DEF Turn
<1> QED BY <1>7, <1>8, <1>9

\* Who lets a request time out has slipped, unless nothing else is waited for or under way.
LEMMA TimeTurns == ASSUME Types, Turns, NEW c \in Client, NEW k \in DOMAIN client[c].waiting, TimesOut(c, k) PROVE Turns'
<1>1. /\ UNCHANGED <<room, up, down, open>>
      /\ slipped' = IF Drained(c, client'[c].waiting) THEN slipped \ {c} ELSE slipped \cup {c}
      /\ \A o \in Client : o # c => client'[o] = client[o]
  BY DEF TimesOut, Types
<1> SUFFICES ASSUME NEW o \in Client PROVE Turn(o)' /\ Shut(o)'
  BY <1>1 DEF Turns
<1>2. Turn(o) /\ Shut(o)
  BY DEF Turns
<1>3. Shut(o)'
  BY <1>1, <1>2 DEF Shut
<1>4. CASE o # c
  <2>1. Turn(o)'
    BY <1>1, <1>2, <1>4, TurnStays
  <2> QED BY <1>3, <2>1
<1>5. CASE o = c
  <2>1. Asked(c)' = Asked(c)
    BY <1>1 DEF Asked
  <2>2. c \notin slipped' => client'[c].waiting = <<>> /\ Asked(c) = <<>>
    BY <1>1 DEF Drained
  <2> QED BY <1>3, <1>5, <2>1, <2>2 DEF Turn
<1> QED BY <1>4, <1>5

\* A URL is taken for the answer to the request at the head of the queue, which it is.
LEMMA HearTurns == ASSUME Types, Turns, NEW c \in Client, OnMessage(c) PROVE Turns'
<1> DEFINE m == down[c][1]
<1>1. /\ down[c] # <<>> /\ down'[c] = Tail(down[c]) /\ client'[c] = Heard(client[c], m)
      /\ \A o \in Client : o # c => down'[o] = down[o] /\ client'[o] = client[o]
  BY Heeds DEF Listens
<1>2. /\ UNCHANGED <<room, up, open>>
      /\ slipped' = IF m.t = Url /\ Len(Asked(c)) = 1 /\ client'[c].waiting = <<>> THEN slipped \ {c} ELSE slipped
  BY DEF OnMessage, Url
<1>3. down[c] \in Seq(Message) /\ m \in Message /\ client[c] \in Knows /\ Tail(down[c]) \in Seq(Message)
  BY <1>1 DEF Types
<1>4. client'[c].waiting = IF m.t = Url /\ client[c].waiting # <<>> THEN Tail(client[c].waiting) ELSE client[c].waiting
  <2> HIDE DEF m
  <2>1. PICK k \in Knows : k = client[c]
    BY <1>3
  <2>2. Heard(k, m).waiting = IF m.t = "origin.url" /\ k.waiting # <<>> THEN Tail(k.waiting) ELSE k.waiting
    BY <1>3, HeardKnows
  <2> QED BY <1>1, <2>1, <2>2 DEF Url
<1> HIDE DEF m
<1> SUFFICES ASSUME NEW o \in Client PROVE Turn(o)' /\ Shut(o)'
  BY <1>2 DEF Turns
<1>5. Turn(o) /\ Shut(o)
  BY DEF Turns
<1>6. Shut(o)'
  BY <1>1, <1>2, <1>5 DEF Shut
<1>7. CASE o # c
  <2>1. Turn(o)'
    BY <1>1, <1>2, <1>5, <1>7, TurnStays
  <2> QED BY <1>6, <2>1
<1>8. CASE o = c /\ m.t # Url
  <2>1. Said(down'[c], Url) = Said(down[c], Url)
    BY <1>1, <1>3, <1>8, SaidFirst, Channels DEF m
  <2>2. Turn(c)'
    BY <1>2, <1>4, <1>5, <1>8, <2>1, TurnStays
  <2> QED BY <1>6, <1>8, <2>2
<1>9. CASE o = c /\ m.t = Url
  <2> DEFINE R == Said(Tail(down[c]), Url)
             U == Said(up[c], Wish)
             w == client[c].waiting
  <2>1. R \in Seq(Nat) /\ U \in Seq(Nat) /\ w \in Seq(Nat)
    BY <1>3, AskedType, SaidType, Channels
  <2>2. PICK n \in Nat : n = m.v[1]
    BY <1>3, <1>9, Kinds, Channels
  <2>3. Said(down[c], Url) = <<n>> \o R
    BY <1>1, <1>3, <1>9, <2>2, SaidFirst, Channels DEF m
  <2>4. Asked(c) = (<<n>> \o R) \o U
    BY <2>3 DEF Asked, Url, Wish
  <2>5. Asked(c)' = R \o U
    BY <1>1, <1>2 DEF Asked, Url, Wish
  <2> HIDE DEF R, U
  <2>6. Asked(c) = <<n>> \o (R \o U) /\ R \o U \in Seq(Nat)
    BY <2>1, <2>2, <2>4, Shift
  <2>7. PICK rest \in Seq(Nat) : rest = R \o U
    BY <2>6
  <2>8. Tail(Asked(c)) = rest /\ Len(Asked(c)) = Len(rest) + 1 /\ Asked(c) # <<>> /\ (Len(rest) = 0 => rest = <<>>)
    <3>1. Asked(c) = <<n>> \o rest
      BY <2>6, <2>7
    <3>2. Tail(<<n>> \o rest) = rest
      BY <2>2, Shift
    <3>3. Len(<<n>> \o rest) = Len(rest) + 1 /\ <<n>> \o rest # <<>> /\ (Len(rest) = 0 => rest = <<>>)
      BY <2>2, Shift
    <3> QED BY <3>1, <3>2, <3>3
  <2>9. CASE c \in slipped'
    BY <1>6, <1>9, <2>9 DEF Turn
  <2>10. CASE c \notin slipped' /\ c \in slipped
    <3>1. Len(Asked(c)) = 1 /\ client'[c].waiting = <<>>
      BY <1>2, <2>10
    <3>2. Len(rest) = 0
      <4>1. Len(rest) \in Nat
        OBVIOUS
      <4>2. Len(Asked(c)) = Len(rest) + 1
        BY <2>8
      <4>3. Len(rest) + 1 = 1
        BY <3>1, <4>2
      <4> QED BY <4>1, <4>3
    <3> QED BY <1>6, <1>9, <2>5, <2>7, <2>8, <3>1, <3>2 DEF Turn
  <2>11. CASE c \notin slipped' /\ c \notin slipped
    <3>1. w = Asked(c)
      BY <1>5, <1>9, <2>11 DEF Turn
    <3>2. client'[c].waiting = Tail(w)
      BY <1>4, <1>9, <2>8, <3>1
    <3> QED BY <1>6, <1>9, <2>5, <2>7, <2>8, <3>1, <3>2 DEF Turn
  <2> QED BY <2>9, <2>10, <2>11
<1> QED BY <1>7, <1>8, <1>9

\* A URL takes the place of the request it answers, and a refusal lets its client slip.
LEMMA AnswerTurns == ASSUME Types, Turns, NEW c \in Client, OriginRequest(c) PROVE Turns'
<1>1. Handles(c, Wish) /\ UNCHANGED <<room, open, client, budget>>
  BY DEF OriginRequest, Wish
<1>2. /\ up[c] # <<>> /\ up[c] \in Seq(Message) /\ down[c] \in Seq(Message) /\ up[c][1] \in Message /\ up[c][1].t = Wish
      /\ up'[c] = Tail(up[c]) /\ c \in open /\ \A o \in Client : o # c => up'[o] = up[o]
  BY <1>1, Taken DEF Types, Handles
<1>3. PICK n \in Nat : up[c][1].v = <<n>> /\ n = up[c][1].v[1]
  BY <1>2, Kinds, Channels
<1>4. /\ down' = [down EXCEPT ![c] = Append(@, IF c \in room.control THEN Msg(Url, <<n>>) ELSE Msg("error", <<>>))]
      /\ slipped' = IF c \in room.control THEN slipped ELSE slipped \cup {c}
  BY <1>3 DEF OriginRequest, Url
<1>5. /\ \A o \in Client : o # c => down'[o] = down[o]
      /\ c \in room.control => down'[c] = Append(down[c], Msg(Url, <<n>>))
  BY <1>4 DEF Types
<1> SUFFICES ASSUME NEW o \in Client PROVE Turn(o)' /\ Shut(o)'
  BY <1>1 DEF Turns
<1>6. Turn(o) /\ Shut(o)
  BY DEF Turns
<1>7. Shut(o)'
  BY <1>1, <1>2, <1>5, <1>6 DEF Shut
<1>8. CASE o # c
  <2>1. Turn(o)'
    BY <1>1, <1>2, <1>4, <1>5, <1>6, <1>8, TurnStays
  <2> QED BY <1>7, <2>1
<1>9. CASE o = c /\ o \in slipped'
  BY <1>7, <1>9 DEF Turn
<1>10. CASE o = c /\ o \notin slipped'
  <2>1. c \in room.control /\ c \notin slipped /\ client[c].waiting = Asked(c)
    BY <1>4, <1>6, <1>10 DEF Turn
  <2> DEFINE D == Said(down[c], Url)
             U == Said(Tail(up[c]), Wish)
  <2>2. D \in Seq(Nat) /\ U \in Seq(Nat) /\ Tail(up[c]) \in Seq(Message)
    <3>1. Tail(up[c]) \in Seq(Message)
      BY <1>2
    <3> QED BY <1>2, <3>1, SaidType, Channels
  <2>3. Said(up[c], Wish) = <<n>> \o U
    BY <1>2, <1>3, SaidFirst, Channels
  <2>4. PICK m \in Message : m = Msg(Url, <<n>>) /\ m.t = Url /\ m.v[1] = n
    <3>1. /\ Msg(Url, <<n>>) \in Message
          /\ Msg(Url, <<n>>).t = Url /\ Msg(Url, <<n>>).v = <<n>>
      BY Told, Channels
    <3> QED BY <3>1
  <2>5. Said(down'[c], Url) = Append(D, n)
    <3>1. down'[c] = Append(down[c], m)
      BY <1>5, <2>1, <2>4
    <3>2. Said(Append(down[c], m), Url) = Append(Said(down[c], Url), m.v[1])
      BY <1>2, <2>4, SaidLast, Channels
    <3> QED BY <2>4, <3>1, <3>2
  <2>6. Asked(c) = D \o (<<n>> \o U)
    BY <2>3 DEF Asked, Url, Wish
  <2>7. Asked(c)' = Said(down'[c], Url) \o Said(up'[c], Wish)
    BY DEF Asked, Url, Wish
  <2>8. Asked(c)' = Append(D, n) \o U
    BY <1>2, <2>5, <2>7
  <2> HIDE DEF D, U
  <2>9. Asked(c)' = Asked(c)
    BY <2>2, <2>6, <2>8, Shift
  <2> QED BY <1>1, <1>7, <1>10, <2>1, <2>9 DEF Turn
<1> QED BY <1>8, <1>9, <1>10

\* No step lets the answers and the requests of a client get out of turn, unless it has slipped.
LEMMA TurnsKept == ASSUME Types, Types', Turns, Next PROVE Turns'
<1>1. ASSUME NEW c \in Client, Serve(c) PROVE Turns'
  BY <1>1, ServedTurns, AnswerTurns DEF Serve
<1>2. ASSUME NEW c \in Client, NEW k \in DOMAIN client[c].waiting, TimesOut(c, k) PROVE Turns'
  BY <1>2, TimeTurns
<1>3. ASSUME NEW c \in Client, SendChat(c) \/ (\E f \in Film \cup {0} : AnnounceMedia(c, f)) \/ SendReport(c) PROVE Turns'
  BY <1>3, SendingTurns
<1>4. ASSUME NEW c \in Client, Dial(c) \/ Lost(c) \/ Carries(c) \/ OriginUrl(c) \/ OnMessage(c) PROVE Turns'
  BY <1>4, DialTurns, LossTurns, CarryTurns, AskTurns, HearTurns
<1>5. CASE GhostGoes \/ StatusTick \/ Elsewhere \/ \E c \in Client : SetControl(c)
  BY <1>5, AloneTurns
<1> QED BY <1>1, <1>2, <1>3, <1>4, <1>5 DEF Next

\* Answers that come in turn are a beginning of what is waited for.
LEMMA TurnsEnough == ASSUME Types, Turns PROVE RightUrl
<1> SUFFICES ASSUME NEW c \in Client \ slipped PROVE IsPrefix(Said(down[c], "origin.url"), client[c].waiting)
  BY DEF RightUrl
<1> DEFINE D == Said(down[c], "origin.url")
           U == Said(up[c], "origin.request")
<1>1. D \in Seq(Nat) /\ U \in Seq(Nat) /\ client[c].waiting = D \o U
  <2>1. client[c].waiting = Asked(c)
    BY DEF Turns, Turn
  <2> QED BY <2>1, AskedType DEF Url, Wish
<1> HIDE DEF D, U
<1>2. ASSUME NEW s \in Seq(Nat), NEW t \in Seq(Nat) PROVE IsPrefix(s, s \o t)
  <2>1. Len(s) <= Len(s \o t) /\ s \o t \in Seq(Nat)
    OBVIOUS
  <2>2. SubSeq(s, 1, Len(s)) = s /\ SubSeq(s \o t, 1, Len(s)) = s
    OBVIOUS
  <2> QED BY <2>1, <2>2 DEF IsPrefix
<1>3. IsPrefix(D, client[c].waiting)
  BY <1>1, <1>2
<1> QED BY <1>3 DEF D

-----------------------------------------------------------------------------
(* The inductive invariant, and what follows from it.                      *)

IInv == Types /\ ChatAgrees /\ Films /\ Turns

\* The inductive invariant holds to begin with.
LEMMA Begins == Init => IInv
<1> SUFFICES ASSUME Init PROVE IInv
  OBVIOUS
<1>1. Types
  <2>1. <<>> \in Seq(Message) /\ <<>> \in Seq(Nat) /\ Len(<<>>) = 0 /\ 0 \in Nat
    OBVIOUS
  <2>2. {History, Events, Losses} \subseteq Nat
    BY SessionAssumption
  <2>3. room \in Room /\ Len(room.chat) <= History
    BY <2>1, <2>2 DEF Init, Room
  <2>4. client \in [Client -> Knows]
    BY <2>1 DEF Init, Knows
  <2>5. up \in [Client -> Seq(Message)] /\ down \in [Client -> Seq(Message)]
    BY <2>1 DEF Init
  <2>6. open \in SUBSET Client /\ slipped \in SUBSET Client /\ budget \in [events: Nat, asked: Nat, losses: Nat]
    BY <2>2 DEF Init
  <2> QED BY <2>3, <2>4, <2>5, <2>6 DEF Types
<1>2. ChatAgrees
  BY DEF Init, ChatAgrees
<1>3. \A c \in Client : /\ client[c].film = 0 /\ client[c].figures = 0 /\ client[c].waiting = <<>>
                        /\ down[c] = <<>> /\ up[c] = <<>> /\ c \notin room.in /\ c \notin open
  BY DEF Init
<1>4. Films
  <2> SUFFICES ASSUME NEW c \in Client PROVE Fits(c)
    BY DEF Films
  <2>1. FiguresFit(client[c].film, down[c])
    BY <1>3 DEF FiguresFit
  <2> QED BY <1>3, <2>1 DEF Fits
<1>5. Turns
  <2> SUFFICES ASSUME NEW c \in Client PROVE Turn(c) /\ Shut(c)
    BY DEF Turns, Init
  <2>1. Asked(c) = <<>> \o <<>>
    BY <1>3, SaidNothing, Channels DEF Asked, Url, Wish
  <2>2. Asked(c) = <<>>
    BY <2>1
  <2> QED BY <1>3, <2>2 DEF Turn, Shut
<1> QED BY <1>1, <1>2, <1>4, <1>5 DEF IInv

\* Every step keeps it.
LEMMA Keeps == IInv /\ [Next]_vars => IInv'
<1> SUFFICES ASSUME IInv, [Next]_vars PROVE IInv'
  OBVIOUS
<1>1. Types /\ ChatAgrees /\ Films /\ Turns
  BY DEF IInv
<1>2. CASE Next
  <2>1. Types' /\ Step
    BY <1>1, <1>2, StepKinds
  <2>2. ChatAgrees'
    BY <1>1, <2>1, ChatKept
  <2>3. Films'
    BY <1>1, <2>1, FilmsKept
  <2>4. Turns'
    BY <1>1, <1>2, <2>1, TurnsKept
  <2> QED BY <2>1, <2>2, <2>3, <2>4 DEF IInv
<1>3. CASE UNCHANGED vars
  <2>1. Types' /\ ChatAgrees'
    BY <1>1, <1>3 DEF vars, Types, ChatAgrees
  <2>2. \A c \in Client : Fits(c)' = Fits(c)
    BY <1>3 DEF vars, Fits
  <2>3. Turns'
    BY <1>1, <1>3 DEF vars, Turns, Turn, Shut, Asked
  <2> QED BY <1>1, <2>1, <2>2, <2>3 DEF IInv, Films
<1> QED BY <1>2, <1>3

\* So it holds for ever.
LEMMA Always == Spec => []IInv
BY Begins, Keeps, PTL DEF Spec

\* Whoever is in the room has its chat, or has it once what is under way has been heard: for any number
\* of clients, of lines kept, and of lines said, sockets lost and members joined (room-client.ts:452).
THEOREM ChatAgreesAlways == Spec => []ChatAgrees
<1>1. IInv => ChatAgrees
  BY DEF IInv
<1> QED BY Always, <1>1, PTL

\* Figures of a transfer are shown only while a film with a source is on, however announcements,
\* clearing and the status timer interleave (server.ts:306, room-client.ts:452).
THEOREM FiguresAlways == Spec => []FiguresHaveFilm
<1>1. IInv => FiguresHaveFilm
  BY DEF IInv, Films, Fits, FiguresHaveFilm
<1> QED BY Always, <1>1, PTL

\* The URLs a client is sent answer its oldest requests, in their order, unless one of them was
\* refused, was lost with its socket or timed out while others waited (room-client.ts:263).
THEOREM RightUrlAlways == Spec => []RightUrl
<1>1. IInv => RightUrl
  BY TurnsEnough DEF IInv
<1> QED BY Always, <1>1, PTL

\* What the variables range over, with the log no longer than its bound.
THEOREM SessionTypes == Spec => []Types
<1>1. IInv => Types
  BY DEF IInv
<1> QED BY Always, <1>1, PTL

\* Whoever is in the room knows the film it has on, or does once what is under way has been heard.
THEOREM FilmReachesAlways ==
  Spec => [](\A c \in Client : c \in room.in => InEffect(client[c].film, down[c], Len(down[c]), room.film))
<1>1. IInv => \A c \in Client : c \in room.in => InEffect(client[c].film, down[c], Len(down[c]), room.film)
  BY DEF IInv, Films, Fits
<1> QED BY Always, <1>1, PTL

=============================================================================
