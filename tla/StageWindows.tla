----------------------------- MODULE StageWindows -----------------------------
(***************************************************************************)
(* The native windows over the stage under the mpv engine: the surface mpv *)
(* draws into, kept over the video area of the main window                 *)
(* (video-window.ts), and the chat drawn over the film in fullscreen       *)
(* (chat-overlay.ts), which on X11 is a window of the size of the film cut *)
(* down to its bubbles (x11-embed.ts).                                     *)
(*                                                                         *)
(* Places are one coordinate.  A slot is where the page puts the video     *)
(* area, with the chrome above the page; parent is where the main window   *)
(* is on the screen.  Stacking of the two windows is left out.  Moves      *)
(* bounds what the person, the room and the window manager do.             *)
(***************************************************************************)
EXTENDS Integers, Sequences, SequencesExt

CONSTANTS
  Slot,      \* places in the page
  Origin,    \* places of the main window on the screen
  Moves

ASSUME StageAssumption == Slot \subseteq Nat /\ Origin \subseteq Nat /\ 0 \in Origin /\ Moves \in Nat

Nowhere == -1
Platform == {"x11", "wayland", "other"}

VARIABLES
  stage,     \* of VideoWindow.start: "loading", "player", "running", "closed"
  video,     \* the surface
  parent, fullscreen, inRoom,
  platform, shapes,  \* where this runs, and whether X can shape windows there
  chat,      \* the overlay
  calls,     \* setVisible(true) calls of the overlay under way: the await each is at
  astray,    \* history: the overlay was hidden while a call was under way, or failed to load
  moves
vars == <<stage, video, parent, fullscreen, inRoom, platform, shapes, chat, calls, astray, moves>>
world == <<platform, shapes, stage>>
overlay == <<chat, calls, astray>>

Init ==
  /\ stage = "loading" /\ parent \in Origin /\ fullscreen = FALSE /\ inRoom = FALSE
  /\ platform \in Platform /\ shapes \in (IF platform = "x11" THEN BOOLEAN ELSE {FALSE})
  /\ video = [slot |-> Nowhere, wanted |-> FALSE, suspended |-> FALSE, visible |-> FALSE, embedded |-> FALSE,
              at |-> 0, applied |-> Nowhere, observed |-> Nowhere, moved |-> FALSE]
  /\ chat = [win |-> "none", wanted |-> FALSE, visible |-> FALSE, layout |-> "floating",
             cut |-> FALSE, box |-> "none"]
  /\ calls = <<>> /\ astray = FALSE /\ moves = 0

Moving == moves < Moves /\ moves' = moves + 1 /\ stage # "closed"

-----------------------------------------------------------------------------
(* The surface *)

Same(a, b) == a # Nowhere /\ b # Nowhere /\ a - b \in -1 .. 1

\* What getBounds answers: the screen's coordinates, whoever the parent is.
Bounds(w, p) == IF w.embedded THEN p + w.at ELSE w.at

TargetBounds(w, p) == (IF w.embedded THEN 0 ELSE p) + w.slot

SetShown(w, shown) ==
  IF shown THEN [w EXCEPT !.visible = TRUE]
  ELSE [w EXCEPT !.visible = FALSE, !.applied = Nowhere, !.observed = Nowhere]

SetBounds(w, p) ==
  IF Same(TargetBounds(w, p), w.applied) THEN w
  ELSE [w EXCEPT !.at = TargetBounds(w, p), !.applied = TargetBounds(w, p), !.moved = FALSE]

Reposition(w, p) ==
  LET placed == SetBounds(w, p)
      shown == [placed EXCEPT !.visible = @ \/ (w.wanted /\ ~w.suspended)]
  IN IF w.slot = Nowhere THEN w ELSE [shown EXCEPT !.observed = Bounds(shown, p)]

Belongs(w) == w.wanted /\ ~w.suspended /\ w.slot # Nowhere

\* Mutant: visible is taken to be in place.
EnsureShown(w, p) ==
  IF Belongs(w) /\ ~w.visible THEN SetShown(Reposition(w, p), TRUE) ELSE w

Adrift(w, p) ==
  \/ ~Same(TargetBounds(w, p), w.applied)
  \/ w.observed # Nowhere /\ ~Same(Bounds(w, p), w.observed)

EnsureVisible(w, p) ==
  IF Belongs(w) /\ w.visible /\ Adrift(w, p) THEN Reposition(w, p) ELSE EnsureShown(w, p)

\* A surface of its own is taken down and put back, to come forward again.
Refresh(w, p) ==
  LET r == Reposition(w, p)
  IN IF ~w.embedded /\ w.wanted /\ ~w.suspended THEN SetShown(SetShown(r, FALSE), TRUE) ELSE r

PlayerReady ==
  /\ stage = "loading"
  /\ stage' = IF platform = "x11" THEN "player" ELSE "running"
  /\ UNCHANGED <<video, parent, fullscreen, inRoom, platform, shapes, overlay, moves>>

\* Mutant: reparenting maps the surface whether or not a film is open.
EmbedMapping ==
  /\ stage = "player" /\ stage' = "running"
  /\ \E ok \in BOOLEAN : video' = SetShown([video EXCEPT !.embedded = ok, !.at = IF ok THEN 0 ELSE @], TRUE)
  /\ UNCHANGED <<parent, fullscreen, inRoom, platform, shapes, overlay, moves>>

\* Reparenting puts the surface at the corner of the main window.
Embed ==
  /\ stage = "player" /\ stage' = "running"
  /\ \E ok \in BOOLEAN :
       video' = SetShown([video EXCEPT !.embedded = ok, !.at = IF ok THEN 0 ELSE @, !.moved = @ \/ ok],
                         video.wanted)
  /\ UNCHANGED <<parent, fullscreen, inRoom, platform, shapes, overlay, moves>>

SetFilmOpen(open) ==
  /\ Moving /\ (open => stage # "loading")
  /\ video' = LET w == [video EXCEPT !.wanted = open]
              IN SetShown(IF open THEN Reposition(w, parent) ELSE w, open)
  /\ UNCHANGED <<parent, fullscreen, inRoom, world, overlay>>

\* The page's own dialog or the system's over the video area.
Suspend ==
  /\ Moving /\ ~video.suspended
  /\ video' = SetShown([video EXCEPT !.suspended = TRUE], FALSE)
  /\ UNCHANGED <<parent, fullscreen, inRoom, world, overlay>>

Resume ==
  /\ stage # "closed" /\ video.suspended
  /\ video' = LET w == [video EXCEPT !.suspended = FALSE]
              IN IF Belongs(w) THEN SetShown(Reposition(w, parent), TRUE) ELSE w
  /\ UNCHANGED <<parent, fullscreen, inRoom, world, overlay, moves>>

Minimise ==
  /\ Moving /\ stage = "running" /\ video' = SetShown(video, FALSE)
  /\ UNCHANGED <<parent, fullscreen, inRoom, world, overlay>>

Restore ==
  /\ Moving /\ stage = "running"
  /\ video' = IF video.slot # Nowhere /\ video.wanted THEN SetShown(video, TRUE) ELSE video
  /\ UNCHANGED <<parent, fullscreen, inRoom, world, overlay>>

ParentMoves ==
  /\ Moving /\ ~fullscreen
  /\ \E p \in Origin \ {parent} :
       /\ parent' = p
       /\ video' = IF stage = "running" THEN Reposition(video, p) ELSE video
  /\ UNCHANGED <<fullscreen, inRoom, world, overlay>>

\* The window manager moves the surface, or unmaps it.
WindowManager ==
  /\ Moving
  /\ \E w \in {[video EXCEPT !.at = p, !.moved = TRUE] : p \in Origin} \union {[video EXCEPT !.visible = FALSE]} :
       w # video /\ video' = w
  /\ UNCHANGED <<parent, fullscreen, inRoom, world, overlay>>

StatusTick ==
  /\ stage = "running" /\ video' = EnsureVisible(video, parent)
  /\ UNCHANGED <<parent, fullscreen, inRoom, world, overlay, moves>>

-----------------------------------------------------------------------------
(* The chat over the film *)

\* Cut the window to its bubbles; where that cannot be done it becomes a panel.
ApplyShape(c) ==
  IF c.layout # "floating" \/ platform = "other" THEN c
  ELSE IF shapes THEN [c EXCEPT !.cut = TRUE]
  ELSE [c EXCEPT !.layout = "panel", !.cut = FALSE, !.box = "panel"]

\* The bounds of a reposition; it has the shape applied too, without waiting.
Boxed(c) == [c EXCEPT !.box = IF c.layout = "floating" THEN "film" ELSE "panel"]

\* Awaits of one kind end in the order they began.
FirstAt(pc) == SelectInSeq(calls, LAMBDA c : c = pc)
Removed(s, i) == SubSeq(s, 1, i - 1) \o SubSeq(s, i + 1, Len(s))

\* Mutant: the window is shown first and shaped after.
ShapeBeganShown(c, rest) ==
  /\ chat' = [Boxed(c) EXCEPT !.visible = TRUE]
  /\ calls' = IF c.layout = "floating" THEN Append(rest, "shape") ELSE rest

\* What setVisible(true) does once it has a window, as far as its next await.
ShapeBegan(c, rest) ==
  IF c.layout = "floating" THEN chat' = Boxed(c) /\ calls' = Append(rest, "shape")
  ELSE chat' = [Boxed(c) EXCEPT !.visible = TRUE] /\ calls' = rest

\* setVisible(true).  A window that is still loading is taken for ready.
Show ==
  LET c == [chat EXCEPT !.wanted = TRUE]
  IN IF chat.win = "none" THEN /\ chat' = [c EXCEPT !.win = "there"]
                               /\ calls' = Append(calls, "load") /\ UNCHANGED astray
     ELSE ShapeBegan(c, calls) /\ UNCHANGED astray

\* Mutant: only a floating window is hidden.
HideFloating ==
  /\ chat' = [chat EXCEPT !.wanted = FALSE, !.visible = @ /\ chat.layout = "panel"]
  /\ astray' = (calls # <<>>) /\ UNCHANGED calls

Hide ==
  /\ chat' = [chat EXCEPT !.wanted = FALSE, !.visible = FALSE]
  /\ astray' = (calls # <<>>) /\ UNCHANGED calls

SyncOverlay(full) == IF full /\ inRoom THEN Show ELSE Hide

FullScreen ==
  /\ Moving /\ fullscreen' = ~fullscreen
  /\ \E p \in IF fullscreen THEN Origin ELSE {0} :
       /\ parent' = p
       /\ video' = IF stage = "running" THEN Refresh(video, p) ELSE video
  /\ SyncOverlay(~fullscreen)
  /\ UNCHANGED <<inRoom, world>>

\* video:slot goes to both windows; the chat is placed if it is wanted.
SetSlot(s) ==
  /\ Moving /\ s # video.slot
  /\ video' = Reposition([video EXCEPT !.slot = s], parent)
  /\ chat' = IF chat.wanted /\ chat.win # "none" THEN ApplyShape(Boxed(chat)) ELSE chat
  /\ UNCHANGED <<parent, fullscreen, inRoom, world, calls, astray>>

\* The page of the overlay has measured its bubbles.
SetShape ==
  /\ chat.win = "there" /\ FirstAt("load") = 0 /\ chat' = ApplyShape(chat)
  /\ UNCHANGED <<parent, video, fullscreen, inRoom, world, calls, astray, moves>>

\* The page is there; the window is embedded and asked for its first, empty shape.
Loads ==
  /\ FirstAt("load") # 0
  /\ IF platform = "x11" THEN calls' = [calls EXCEPT ![FirstAt("load")] = "first"] /\ UNCHANGED chat
     ELSE ShapeBegan(chat, Removed(calls, FirstAt("load")))
  /\ UNCHANGED <<parent, video, fullscreen, inRoom, world, astray, moves>>

LoadFails ==
  /\ FirstAt("load") # 0 /\ calls' = Removed(calls, FirstAt("load")) /\ astray' = TRUE
  /\ UNCHANGED <<parent, video, fullscreen, inRoom, world, chat, moves>>

FirstShaped ==
  /\ FirstAt("first") # 0
  /\ ShapeBegan([chat EXCEPT !.cut = shapes, !.layout = IF shapes THEN "floating" ELSE "panel"],
                Removed(calls, FirstAt("first")))
  /\ UNCHANGED <<parent, video, fullscreen, inRoom, world, astray, moves>>

Shaped ==
  /\ FirstAt("shape") # 0
  /\ chat' = [ApplyShape(chat) EXCEPT !.visible = TRUE] /\ calls' = Removed(calls, FirstAt("shape"))
  /\ UNCHANGED <<parent, video, fullscreen, inRoom, world, astray, moves>>

RoomChanges ==
  /\ Moving /\ inRoom' = ~inRoom
  /\ UNCHANGED <<parent, video, fullscreen, world, overlay>>

\* before-quit: the timer stops, the overlay is destroyed, then the surface.
Quit ==
  /\ stage = "running" /\ stage' = "closed" /\ calls' = <<>> /\ astray' = FALSE
  /\ chat' = [chat EXCEPT !.win = "none", !.wanted = FALSE, !.visible = FALSE]
  /\ video' = [video EXCEPT !.visible = FALSE]
  /\ UNCHANGED <<parent, fullscreen, inRoom, platform, shapes, moves>>

Person == Suspend \/ Resume \/ Minimise \/ Restore \/ ParentMoves \/ FullScreen \/ RoomChanges \/ Quit

Next ==
  \/ PlayerReady \/ Embed \/ StatusTick \/ Person \/ WindowManager
  \/ \E open \in BOOLEAN : SetFilmOpen(open)
  \/ \E s \in Slot : SetSlot(s)
  \/ SetShape \/ Loads \/ LoadFails \/ FirstShaped \/ Shaped

Spec == Init /\ [][Next]_vars

\* Of the program: mpv starts, awaits end, the status timer runs until quitting.
\* Nothing of the person or the window manager.
FairSpec ==
  Spec /\ WF_vars(PlayerReady) /\ WF_vars(Embed) /\ WF_vars(StatusTick)
       /\ WF_vars(Loads) /\ WF_vars(FirstShaped) /\ WF_vars(Shaped)

-----------------------------------------------------------------------------

Surface == [slot : Slot \union {Nowhere}, wanted : BOOLEAN, suspended : BOOLEAN, visible : BOOLEAN,
            embedded : BOOLEAN, at : Int, applied : Int, observed : Int, moved : BOOLEAN]
Overlay == [win : {"none", "there"}, wanted : BOOLEAN, visible : BOOLEAN, layout : {"floating", "panel"},
            cut : BOOLEAN, box : {"none", "film", "panel"}]
Await == {"load", "first", "shape"}

TypeOK ==
  /\ stage \in {"loading", "player", "running", "closed"} /\ parent \in Origin
  /\ fullscreen \in BOOLEAN /\ inRoom \in BOOLEAN /\ shapes \in BOOLEAN /\ astray \in BOOLEAN
  /\ platform \in Platform /\ moves \in 0 .. Moves
  /\ video \in Surface /\ chat \in Overlay /\ calls \in Seq(Await)

\* A surface is on screen only while a film is open: whatever embedding,
\* fullscreen, restoring and the end of dialogs do, no black box is left where
\* the page says what to do next (video-window.ts:122-130, x11-embed.ts:81-87).
BlankStaysAway == video.visible => video.wanted

\* The chat is never an opaque rectangle over the whole film: what is on screen
\* has been cut down, or is the small panel, or is on a platform that blends it
\* (chat-overlay.ts:52-61, 204-206).
FilmNotCovered == chat.visible => chat.cut \/ chat.box = "panel" \/ platform = "other"

\* When no call is under way the chat is on screen exactly if it was last asked
\* to be, unless it was hidden while a call was under way or failed to load.
ChatAsAsked == calls = <<>> /\ ~astray => chat.visible = chat.wanted

\* No order of window events, dialogs and messages leaves a film that is open
\* without its picture, or with it beside the video area, for good, but for a
\* surface that something else has moved (video-window.ts:324-344).
OverVideo == Same(Bounds(video, parent), parent + video.slot)
PictureReturns ==
  <>[](stage = "running" /\ Belongs(video)) => <>[](video.visible /\ (video.moved \/ OverVideo))

=============================================================================
