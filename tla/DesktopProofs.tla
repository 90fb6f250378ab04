----------------------------- MODULE DesktopProofs -----------------------------
(***************************************************************************)
(* Proofs about what one desktop shows, records and plays: StageWindows,   *)
(* for any places and number of moves; Microphone, whatever the page       *)
(* clicks, chooses and is told; and FilmLifecycle, for any films and any   *)
(* number of changes, here and elsewhere in the room.                      *)
(***************************************************************************)
EXTENDS StageWindows, Microphone, FilmLifecycle, FoldLemmas

(***************************************************************************)
(* StageWindows.                                                           *)
(***************************************************************************)
\* A surface that is of its type, and on screen only for a film.
Good(w) == w \in Surface /\ (w.visible => w.wanted)

LEMMA Shown ==
  ASSUME NEW w \in Surface, NEW b \in BOOLEAN, b => w.wanted
  PROVE  Good(SetShown(w, b)) /\ SetShown(w, b).wanted = w.wanted
<1>1. CASE b
  BY <1>1 DEF Good, SetShown, Surface
<1>2. CASE ~b
  <2>1. SetShown(w, b) = [w EXCEPT !.visible = FALSE, !.applied = Nowhere, !.observed = Nowhere]
    BY <1>2 DEF SetShown
  <2>2. Nowhere \in Int
    BY DEF Nowhere
  <2> QED BY <2>1, <2>2 DEF Good, Surface
<1> QED BY <1>1, <1>2

LEMMA Bounded ==
  ASSUME NEW w \in Surface, NEW p \in Origin
  PROVE  /\ Bounds(w, p) \in Int
         /\ w.slot # Nowhere => TargetBounds(w, p) \in Int
<1>1. p \in Nat /\ w.at \in Int /\ w.embedded \in BOOLEAN
  BY StageAssumption DEF Surface
<1>2. w.slot # Nowhere => w.slot \in Nat
  BY StageAssumption DEF Surface
<1> QED BY <1>1, <1>2 DEF Bounds, TargetBounds

LEMMA BoundsSet ==
  ASSUME NEW w, Good(w), w.slot # Nowhere, NEW p \in Origin
  PROVE  /\ Good(SetBounds(w, p)) /\ SetBounds(w, p).wanted = w.wanted
         /\ SetBounds(w, p).slot = w.slot
<1>1. TargetBounds(w, p) \in Int
  BY Bounded DEF Good
<1> QED BY <1>1 DEF Good, SetBounds, Surface

LEMMA Repositioned ==
  ASSUME NEW w, Good(w), NEW p \in Origin
  PROVE  Good(Reposition(w, p)) /\ Reposition(w, p).wanted = w.wanted
<1>1. CASE w.slot = Nowhere
  BY <1>1 DEF Reposition
<1>2. CASE w.slot # Nowhere
  <2> DEFINE placed == SetBounds(w, p)
             v == placed.visible \/ (w.wanted /\ ~w.suspended)
             shown == [placed EXCEPT !.visible = v]
             o == Bounds(shown, p)
  <2>1. Good(placed) /\ placed.wanted = w.wanted
    BY <1>2, BoundsSet
  <2>2. v \in BOOLEAN /\ (v => w.wanted)
    BY <2>1 DEF Good, Surface
  <2> HIDE DEF placed, v
  <2>3. Good(shown) /\ shown.wanted = w.wanted
    BY <2>1, <2>2 DEF Good, Surface
  <2> HIDE DEF shown
  <2>4. o \in Int
    BY <2>3, Bounded DEF Good
  <2> HIDE DEF o
  <2>5. Good([shown EXCEPT !.observed = o]) /\ [shown EXCEPT !.observed = o].wanted = w.wanted
    BY <2>3, <2>4 DEF Good, Surface
  <2>6. Reposition(w, p) = [shown EXCEPT !.observed = o]
    BY <1>2 DEF Reposition, shown, placed, o, v
  <2> QED BY <2>5, <2>6
<1> QED BY <1>1, <1>2

LEMMA Ensured ==
  ASSUME NEW w, Good(w), NEW p \in Origin
  PROVE  Good(EnsureVisible(w, p))
<1>1. Good(Reposition(w, p)) /\ Reposition(w, p).wanted = w.wanted
  BY Repositioned
<1>2. w.wanted => Good(SetShown(Reposition(w, p), TRUE))
  BY <1>1, Shown DEF Good
<1> QED BY <1>1, <1>2 DEF EnsureVisible, EnsureShown, Belongs

LEMMA RefreshGood ==
  ASSUME NEW w, Good(w), NEW p \in Origin
  PROVE  Good(Refresh(w, p))
<1> DEFINE r == Reposition(w, p)
<1>1. Good(r) /\ r.wanted = w.wanted
  BY Repositioned
<1> HIDE DEF r
<1>2. Good(SetShown(r, FALSE)) /\ SetShown(r, FALSE).wanted = w.wanted
  BY <1>1, Shown DEF Good
<1>3. w.wanted => Good(SetShown(SetShown(r, FALSE), TRUE))
  BY <1>2, Shown DEF Good
<1> QED BY <1>1, <1>3 DEF Refresh, r

-----------------------------------------------------------------------------
(* The surface                                                             *)

LEMMA SurfaceStep == ASSUME TypeOK, Good(video), [Next]_vars PROVE Good(video')
<1> USE DEF TypeOK
<1>1. ASSUME NEW s \in Slot \union {Nowhere} PROVE Good([video EXCEPT !.slot = s])
  BY DEF Good, Surface
<1>2. 0 \in Origin /\ Origin \subseteq Int
  BY StageAssumption
<1>3. CASE UNCHANGED video
  BY <1>3
<1>4. CASE Embed
  <2> DEFINE w(ok) == [video EXCEPT !.embedded = ok, !.at = IF ok THEN 0 ELSE @, !.moved = @ \/ ok]
  <2>1. PICK ok \in BOOLEAN: video' = SetShown(w(ok), video.wanted)
    BY <1>4 DEF Embed
  <2>2. w(ok) \in Surface /\ w(ok).wanted = video.wanted
    <3> DEFINE a == IF ok THEN 0 ELSE video.at
               m == video.moved \/ ok
    <3>1. w(ok) = [video EXCEPT !.embedded = ok, !.at = a, !.moved = m]
      OBVIOUS
    <3>2. a \in Int /\ m \in BOOLEAN
      BY DEF Surface
    <3> HIDE DEF w, a, m
    <3> QED BY <3>1, <3>2 DEF Surface
  <2>3. video.wanted \in BOOLEAN
    BY DEF Surface
  <2> HIDE DEF w
  <2> QED BY <2>1, <2>2, <2>3, Shown
<1>5. ASSUME NEW open \in BOOLEAN, SetFilmOpen(open) PROVE Good(video')
  <2> DEFINE w == [video EXCEPT !.wanted = open]
  <2>1. CASE open
    <3>1. Good(w) /\ w.wanted
      BY <2>1 DEF Good, Surface
    <3> HIDE DEF w
    <3>2. Good(Reposition(w, parent)) /\ Reposition(w, parent).wanted
      BY <3>1, Repositioned
    <3>3. Good(SetShown(Reposition(w, parent), TRUE))
      BY <3>2, Shown DEF Good
    <3> QED BY <1>5, <2>1, <3>3 DEF SetFilmOpen, w
  <2>2. CASE ~open
    <3>1. w \in Surface
      BY DEF Surface
    <3> HIDE DEF w
    <3>2. Good(SetShown(w, FALSE))
      BY <3>1, Shown
    <3> QED BY <1>5, <2>2, <3>2 DEF SetFilmOpen, w
  <2> QED BY <2>1, <2>2
<1>6. CASE Suspend
  <2>1. [video EXCEPT !.suspended = TRUE] \in Surface
    BY DEF Surface
  <2> QED BY <1>6, <2>1, Shown DEF Suspend
<1>7. CASE Resume
  <2> DEFINE w == [video EXCEPT !.suspended = FALSE]
  <2>1. Good(w)
    BY DEF Good, Surface
  <2> HIDE DEF w
  <2>2. Good(Reposition(w, parent)) /\ Reposition(w, parent).wanted = w.wanted
    BY <2>1, Repositioned
  <2>3. w.wanted => Good(SetShown(Reposition(w, parent), TRUE))
    BY <2>2, Shown DEF Good
  <2> QED BY <1>7, <2>1, <2>3 DEF Resume, w, Belongs
<1>8. CASE Minimise
  BY <1>8, Shown DEF Minimise
<1>9. CASE Restore
  BY <1>9, Shown DEF Restore
<1>10. CASE ParentMoves
  BY <1>10, Repositioned DEF ParentMoves
<1>11. CASE WindowManager
  <2>1. PICK w \in {[video EXCEPT !.at = p, !.moved = TRUE] : p \in Origin}
                     \union {[video EXCEPT !.visible = FALSE]}: video' = w
    BY <1>11 DEF WindowManager
  <2>2. \A p \in Origin: Good([video EXCEPT !.at = p, !.moved = TRUE])
    BY <1>2 DEF Good, Surface
  <2>3. Good([video EXCEPT !.visible = FALSE])
    BY DEF Good, Surface
  <2> QED BY <2>1, <2>2, <2>3
<1>12. CASE StatusTick
  BY <1>12, Ensured DEF StatusTick
<1>13. CASE FullScreen
  <2>1. PICK p \in IF fullscreen THEN Origin ELSE {0}:
          video' = IF stage = "running" THEN Refresh(video, p) ELSE video
    BY <1>13 DEF FullScreen
  <2>2. p \in Origin
    BY <1>2, <2>1
  <2> QED BY <2>1, <2>2, RefreshGood
<1>14. ASSUME NEW s \in Slot, SetSlot(s) PROVE Good(video')
  BY <1>1, <1>14, Repositioned DEF SetSlot
<1>15. CASE Quit
  BY <1>15 DEF Quit, Good, Surface
<1> QED BY <1>3, <1>4, <1>5, <1>6, <1>7, <1>8, <1>9, <1>10, <1>11, <1>12, <1>13, <1>14, <1>15
        DEF Next, Person, PlayerReady, RoomChanges, SetShape, Loads, LoadFails, FirstShaped, Shaped, vars

-----------------------------------------------------------------------------
(* The chat                                                                *)

\* What may be on screen; and in which the box is that of the layout.
Uncovered(c) == c \in Overlay /\ (c.visible => c.cut \/ c.layout = "panel" \/ platform = "other")
Boxes(c) == c.box = "panel" <=> c.layout = "panel"

LEMMA Boxing ==
  ASSUME NEW c, Uncovered(c)
  PROVE  /\ Uncovered(Boxed(c)) /\ Boxes(Boxed(c)) /\ Boxed(c).layout = c.layout
         /\ Boxed(c).wanted = c.wanted /\ Boxed(c).visible = c.visible
BY DEF Uncovered, Boxes, Boxed, Overlay

LEMMA Shaping ==
  ASSUME NEW c, Uncovered(c), Boxes(c)
  PROVE  /\ Uncovered(ApplyShape(c)) /\ Boxes(ApplyShape(c)) /\ ApplyShape(c).wanted = c.wanted
         /\ ApplyShape(c).visible = c.visible
         /\ Uncovered([ApplyShape(c) EXCEPT !.visible = TRUE])
BY DEF Uncovered, Boxes, ApplyShape, Overlay

LEMMA Beginning ==
  ASSUME NEW c, Uncovered(c), NEW rest \in Seq(Await), ShapeBegan(c, rest)
  PROVE  /\ Uncovered(chat') /\ Boxes(chat') /\ chat'.wanted = c.wanted
         /\ calls' \in Seq(Await) /\ (calls' = <<>> => chat'.visible)
<1>1. CASE c.layout = "floating"
  <2>1. "shape" \in Await
    BY DEF Await
  <2> QED BY <1>1, <2>1, Boxing DEF ShapeBegan
<1>2. CASE c.layout # "floating"
  <2> DEFINE b == Boxed(c)
  <2>1. Uncovered(b) /\ Boxes(b) /\ b.layout = "panel" /\ b.wanted = c.wanted
    BY <1>2, Boxing DEF Uncovered, Overlay
  <2>2. chat' = [b EXCEPT !.visible = TRUE] /\ calls' = rest
    BY <1>2 DEF ShapeBegan
  <2> HIDE DEF b
  <2>3. /\ chat' \in Overlay /\ chat'.visible /\ chat'.layout = "panel"
        /\ chat'.box = b.box /\ chat'.wanted = b.wanted
    BY <2>1, <2>2 DEF Uncovered, Overlay
  <2> QED BY <2>1, <2>2, <2>3 DEF Uncovered, Boxes
<1> QED BY <1>1, <1>2

LEMMA Ending ==
  ASSUME TypeOK, NEW pc \in Await, FirstAt(pc) # 0
  PROVE  /\ FirstAt(pc) \in 1 .. Len(calls)
         /\ calls # <<>> /\ Removed(calls, FirstAt(pc)) \in Seq(Await)
<1>1. FirstAt(pc) \in 1 .. Len(calls)
  <2> DEFINE I == {n \in 1 .. Len(calls) : calls[n] = pc}
  <2>1. FirstAt(pc) = IF I # {} THEN Min(I) ELSE 0
    BY DEF FirstAt, SelectInSeq
  <2>2. I \in SUBSET Nat /\ I \subseteq 1 .. Len(calls)
    BY DEF TypeOK
  <2> QED BY <2>1, <2>2, MinIsLeast
<1> DEFINE i == FirstAt(pc)
<1> HIDE DEF i
<1>2. i \in 1 .. Len(calls) => calls # <<>> /\ Removed(calls, i) \in Seq(Await)
  BY DEF TypeOK, Removed
<1> QED BY <1>1, <1>2 DEF i

\* When no call is under way and nothing went astray, the chat is as wanted;
\* while one is, it is wanted.
Asked == ~astray => IF calls = <<>> THEN chat.visible = chat.wanted ELSE chat.wanted

LEMMA ChatStep ==
  ASSUME TypeOK, Uncovered(chat), Boxes(chat), Asked, [Next]_vars
  PROVE  Uncovered(chat)' /\ Boxes(chat)' /\ Asked' /\ calls' \in Seq(Await)
<1> SUFFICES ASSUME platform' = platform
             PROVE  Uncovered(chat') /\ Boxes(chat') /\ Asked' /\ calls' \in Seq(Await)
  <2>1. platform' = platform
    BY DEF Next, Person, PlayerReady, Embed, StatusTick, SetFilmOpen, Suspend, Resume, Minimise, Restore,
       ParentMoves, WindowManager, FullScreen, RoomChanges, Quit, SetSlot, SetShape, Loads, LoadFails,
       FirstShaped, Shaped, world, vars
  <2>2. Uncovered(chat') => Uncovered(chat)'
    BY <2>1 DEF Uncovered
  <2> QED BY <2>1, <2>2 DEF Boxes
<1>1. CASE UNCHANGED overlay
  BY <1>1 DEF overlay, Asked, TypeOK
<1>2. ASSUME NEW c, NEW rest \in Seq(Await), Uncovered(c), c.wanted, ShapeBegan(c, rest)
      PROVE  Uncovered(chat') /\ Boxes(chat') /\ Asked' /\ calls' \in Seq(Await)
  BY <1>2, Beginning DEF Asked, Uncovered, Overlay
<1>3. CASE Show
  <2> DEFINE c == [chat EXCEPT !.wanted = TRUE]
  <2>1. Uncovered(c) /\ Boxes(c) /\ c.wanted
    BY DEF Uncovered, Boxes, Overlay
  <2> HIDE DEF c
  <2>2. CASE chat.win = "none"
    <3>1. chat' = [c EXCEPT !.win = "there"] /\ calls' = Append(calls, "load")
      BY <1>3, <2>2 DEF Show, c
    <3>2. Uncovered(chat') /\ Boxes(chat') /\ chat'.wanted
      BY <2>1, <3>1 DEF Uncovered, Boxes, Overlay
    <3>3. calls' # <<>> /\ calls' \in Seq(Await)
      BY <3>1 DEF TypeOK, Await
    <3> QED BY <3>2, <3>3 DEF Asked
  <2>3. CASE chat.win # "none"
    BY <1>2, <1>3, <2>1, <2>3 DEF Show, c, TypeOK
  <2> QED BY <2>2, <2>3
<1>4. CASE Hide
  <2>1. Uncovered(chat') /\ Boxes(chat') /\ chat'.wanted = FALSE /\ chat'.visible = FALSE
    BY <1>4 DEF Hide, Uncovered, Boxes, Overlay
  <2> QED BY <1>4, <2>1 DEF Hide, Asked, TypeOK
<1>5. CASE FullScreen
  BY <1>3, <1>4, <1>5 DEF FullScreen, SyncOverlay
<1>6. ASSUME NEW s \in Slot, SetSlot(s) PROVE Uncovered(chat') /\ Boxes(chat') /\ Asked' /\ calls' \in Seq(Await)
  BY <1>6, Boxing, Shaping DEF SetSlot, Asked, TypeOK
<1>7. CASE SetShape
  BY <1>7, Shaping DEF SetShape, Asked, TypeOK
<1>8. "load" \in Await /\ "first" \in Await /\ "shape" \in Await
  BY DEF Await
<1>9. CASE Loads
  <2> DEFINE i == FirstAt("load")
  <2>1. i \in 1 .. Len(calls) /\ calls # <<>> /\ Removed(calls, i) \in Seq(Await)
    BY <1>8, <1>9, Ending DEF Loads
  <2>2. CASE platform = "x11"
    <3>1. calls' = [calls EXCEPT ![i] = "first"] /\ UNCHANGED <<chat, astray>>
      BY <1>9, <2>2 DEF Loads
    <3> HIDE DEF i
    <3>2. calls \in Seq(Await) /\ "first" \in Await
      BY <1>8 DEF TypeOK
    <3>3. calls' \in Seq(Await) /\ Len(calls') = Len(calls)
      BY <2>1, <3>1, <3>2
    <3>4. calls' # <<>>
      BY <2>1, <3>3
    <3> QED BY <2>1, <3>1, <3>3, <3>4 DEF Asked
  <2>3. CASE platform # "x11" /\ ~astray
    BY <1>2, <1>9, <2>1, <2>3 DEF Loads, Asked
  <2>4. CASE platform # "x11" /\ astray
    BY <1>9, <2>1, <2>4, Beginning DEF Loads, Asked
  <2> QED BY <2>2, <2>3, <2>4
<1>10. CASE LoadFails
  BY <1>8, <1>10, Ending DEF LoadFails, Asked
<1>11. CASE FirstShaped
  <2> DEFINE c == [chat EXCEPT !.cut = shapes, !.layout = IF shapes THEN "floating" ELSE "panel"]
  <2>1. calls # <<>> /\ Removed(calls, FirstAt("first")) \in Seq(Await)
    BY <1>8, <1>11, Ending DEF FirstShaped
  <2>2. Uncovered(c) /\ c.wanted = chat.wanted
    BY DEF Uncovered, Overlay, TypeOK
  <2> HIDE DEF c
  <2>3. ShapeBegan(c, Removed(calls, FirstAt("first"))) /\ astray' = astray
    BY <1>11 DEF FirstShaped, c
  <2>4. CASE astray
    BY <2>1, <2>2, <2>3, <2>4, Beginning DEF Asked
  <2>5. CASE ~astray
    BY <1>2, <2>1, <2>2, <2>3, <2>5 DEF Asked
  <2> QED BY <2>4, <2>5
<1>12. CASE Shaped
  <2>1. calls # <<>> /\ Removed(calls, FirstAt("shape")) \in Seq(Await)
    BY <1>8, <1>12, Ending DEF Shaped
  <2> DEFINE a == ApplyShape(chat)
  <2>2. Uncovered(a) /\ Boxes(a) /\ a.wanted = chat.wanted /\ Uncovered([a EXCEPT !.visible = TRUE])
    BY Shaping
  <2> HIDE DEF a
  <2>3. chat' = [a EXCEPT !.visible = TRUE] /\ astray' = astray /\ calls' = Removed(calls, FirstAt("shape"))
    BY <1>12 DEF Shaped, a
  <2>4. Boxes(chat') /\ chat'.wanted = chat.wanted /\ chat'.visible = TRUE
    BY <2>2, <2>3 DEF Uncovered, Boxes, Overlay
  <2> QED BY <2>1, <2>2, <2>3, <2>4 DEF Asked
<1>13. CASE Quit
  <2>1. Uncovered(chat') /\ Boxes(chat') /\ chat'.wanted = FALSE /\ chat'.visible = FALSE
    BY <1>13 DEF Quit, Uncovered, Boxes, Overlay
  <2> QED BY <1>13, <2>1 DEF Quit, Asked
<1> QED BY <1>1, <1>5, <1>6, <1>7, <1>9, <1>10, <1>11, <1>12, <1>13
        DEF Next, Person, PlayerReady, Embed, StatusTick, SetFilmOpen, Suspend, Resume, Minimise, Restore,
            ParentMoves, WindowManager, RoomChanges, vars, overlay

-----------------------------------------------------------------------------
(* All of it                                                               *)

StageInv == TypeOK /\ Good(video) /\ Uncovered(chat) /\ Boxes(chat) /\ Asked

\* The type of everything but the surface, the chat and its calls.
Around ==
  /\ stage \in {"loading", "player", "running", "closed"} /\ parent \in Origin
  /\ fullscreen \in BOOLEAN /\ inRoom \in BOOLEAN /\ shapes \in BOOLEAN /\ astray \in BOOLEAN
  /\ platform \in Platform /\ moves \in 0 .. Moves

LEMMA WorldStep == ASSUME TypeOK, [Next]_vars PROVE Around'
<1> USE DEF TypeOK, Around, world, overlay, vars
<1>1. CASE UNCHANGED vars
  BY <1>1
<1>2. CASE PlayerReady \/ Embed \/ StatusTick
  BY <1>2 DEF PlayerReady, Embed, StatusTick
<1>3. CASE Resume \/ Quit
  BY <1>3 DEF Resume, Quit
<1>4. Moving => moves' \in 0 .. Moves
  BY StageAssumption DEF Moving
<1>5. CASE Suspend \/ Minimise \/ Restore \/ ParentMoves \/ RoomChanges \/ WindowManager
  BY <1>4, <1>5 DEF Suspend, Minimise, Restore, ParentMoves, RoomChanges, WindowManager
<1>6. Show => astray' \in BOOLEAN
  BY DEF Show
<1>7. Hide => astray' \in BOOLEAN
  BY DEF Hide
<1>8. CASE FullScreen
  <2>1. astray' \in BOOLEAN
    BY <1>6, <1>7, <1>8 DEF FullScreen, SyncOverlay
  <2>2. parent' \in Origin
    BY <1>8, StageAssumption DEF FullScreen
  <2> QED BY <1>4, <1>8, <2>1, <2>2 DEF FullScreen
<1>9. ASSUME NEW open \in BOOLEAN, SetFilmOpen(open) PROVE Around'
  BY <1>4, <1>9 DEF SetFilmOpen
<1>10. ASSUME NEW s \in Slot, SetSlot(s) PROVE Around'
  BY <1>4, <1>10 DEF SetSlot
<1>11. CASE SetShape \/ Loads \/ LoadFails \/ FirstShaped \/ Shaped
  BY <1>11 DEF SetShape, Loads, LoadFails, FirstShaped, Shaped
<1> QED BY <1>1, <1>2, <1>3, <1>5, <1>8, <1>9, <1>10, <1>11 DEF Next, Person

LEMMA StageInvAlways == Spec => []StageInv
<1>1. Init => StageInv
  <2> SUFFICES ASSUME Init PROVE StageInv
    OBVIOUS
  <2>1. Good(video)
    BY DEF Init, Good, Surface, Nowhere
  <2>2. Uncovered(chat) /\ Boxes(chat) /\ Asked
    BY DEF Init, Uncovered, Boxes, Overlay, Asked
  <2>3. stage \in {"loading", "player", "running", "closed"} /\ parent \in Origin /\ platform \in Platform
    BY DEF Init
  <2>4. fullscreen \in BOOLEAN /\ inRoom \in BOOLEAN /\ astray \in BOOLEAN
    BY DEF Init
  <2>5. shapes \in BOOLEAN
    BY Zenon DEF Init
  <2>6. moves \in 0 .. Moves
    BY StageAssumption DEF Init
  <2>7. calls \in Seq(Await)
    BY DEF Init
  <2>8. TypeOK
    BY <2>1, <2>2, <2>3, <2>4, <2>5, <2>6, <2>7 DEF TypeOK, Good, Uncovered
  <2> QED BY <2>1, <2>2, <2>8 DEF StageInv
<1>2. StageInv /\ [Next]_vars => StageInv'
  <2> SUFFICES ASSUME StageInv, [Next]_vars PROVE StageInv'
    OBVIOUS
  <2>1. Good(video)'
    BY SurfaceStep DEF StageInv, Good
  <2>2. Uncovered(chat)' /\ Boxes(chat)' /\ Asked' /\ calls' \in Seq(Await)
    BY ChatStep DEF StageInv
  <2>3. TypeOK'
    BY <2>1, <2>2, WorldStep DEF StageInv, TypeOK, Good, Uncovered, Around
  <2> QED BY <2>1, <2>2, <2>3 DEF StageInv
<1> QED BY <1>1, <1>2, PTL DEF Spec

(* Every reachable state is well typed.                                    *)
THEOREM StageTypeCorrect == Spec => []TypeOK
<1>1. StageInv => TypeOK
  BY DEF StageInv
<1> QED BY <1>1, StageInvAlways, PTL

(* No black box is left on the screen without a film, whatever embedding,  *)
(* dialogs, fullscreen and restoring do (video-window.ts:122-130).         *)
THEOREM BlankStaysAwayAlways == Spec => []BlankStaysAway
<1>1. StageInv => BlankStaysAway
  BY DEF StageInv, Good, BlankStaysAway
<1> QED BY <1>1, StageInvAlways, PTL

(* The film is never covered by an uncut chat window, in whatever order    *)
(* shapes, pages and fullscreen arrive (chat-overlay.ts:52-61, 204-206).   *)
THEOREM FilmNotCoveredAlways == Spec => []FilmNotCovered
<1>1. StageInv => FilmNotCovered
  BY DEF StageInv, Uncovered, Boxes, FilmNotCovered
<1> QED BY <1>1, StageInvAlways, PTL

(* The chat is on screen exactly if it was asked for, once no call is      *)
(* under way that was overtaken or failed (chat-overlay.ts:118-150).       *)
THEOREM ChatAsAskedAlways == Spec => []ChatAsAsked
<1>1. StageInv => ChatAsAsked
  BY DEF StageInv, Asked, ChatAsAsked
<1> QED BY <1>1, StageInvAlways, PTL
-----------------------------------------------------------------------------
(***************************************************************************)
(* Microphone, until a call is closed, rebuilt or loses a connection under *)
(* a replacement of its track that is awaited (crossed).                   *)
(***************************************************************************)
(* What a page is, and what a request for the microphone leaves of it.     *)

USE DEF Replacing
\* page.run: the one reacquire that may run.
RunType == [at: {"none", "asking", "standin"} \cup Replacing, dev: Devices, call: Nat,
            old: 0 .. Streams, new: 0 .. Streams]
PageType ==
  [mesh: BOOLEAN, stream: 0 .. Streams, sent: 0 .. Streams, call: Nat, inVoice: BOOLEAN,
   talk: BOOLEAN, run: RunType, waiters: Seq(Devices), askedFor: Devices, fallback: BOOLEAN, failed: BOOLEAN,
   unheard: BOOLEAN, track: 0 .. Streams, last: {"none", "live", "silent", "ended"}, grace: BOOLEAN,
   retries: 0 .. Attempts, retry: BOOLEAN]
MicType == [open: BOOLEAN, dev: Devices, muted: BOOLEAN, ended: BOOLEAN, on: BOOLEAN]
MicsType == [1 .. Streams -> MicType]

\* The call, its microphone and the controls are the same on both pages.
SameCall(p, q) ==
  /\ q.mesh = p.mesh /\ q.stream = p.stream /\ q.sent = p.sent
  /\ q.call = p.call /\ q.inVoice = p.inVoice /\ q.talk = p.talk
\* A run that began on page p.
Begun(p, r) ==
  r.at = "asking" /\ p.mesh /\ r.call = p.call /\ r.old = p.stream /\ r.new = 0
\* All that a report or a request does to a call: it may begin the run, if there is none.
Asks(p, q) == SameCall(p, q) /\ (q.run = p.run \/ (p.run.at = "none" /\ Begun(p, q.run)))

LEMMA NumbersOfMicrophone == Turns \in Nat /\ Events \in Nat /\ Attempts \in Nat /\ Streams \in Nat
BY MicrophoneAssumption

\* A page that only notes something.
LEMMA AsksNothing == ASSUME NEW p, NEW q, SameCall(p, q), q.run = p.run PROVE Asks(p, q)
BY DEF Asks

\* One request after another.
LEMMA AsksTwice == ASSUME NEW p, NEW q, NEW r, Asks(p, q), Asks(q, r) PROVE Asks(p, r)
<1>1. CASE r.run = q.run
  BY <1>1 DEF Asks, SameCall, Begun
<1>2. CASE q.run.at = "none" /\ Begun(q, r.run)
  <2>1. q.run = p.run
    BY <1>2 DEF Asks, Begun
  <2> QED BY <1>2, <2>1 DEF Asks, SameCall, Begun
<1> QED BY <1>1, <1>2 DEF Asks

\* A request for the microphone waits for the run there is, or begins one.
LEMMA ReacquireAsks ==
  ASSUME NEW p \in PageType, NEW d \in Devices
  PROVE  Reacquire(p, d) \in PageType /\ Asks(p, Reacquire(p, d))
<1>1. CASE ~p.mesh
  BY <1>1 DEF Reacquire, Asks, SameCall
<1>2. CASE p.mesh /\ p.run.at # "none"
  <2> DEFINE q == [p EXCEPT !.waiters = Append(@, d)]
  <2>1. Reacquire(p, d) = q
    BY <1>2 DEF Reacquire
  <2>2. Append(p.waiters, d) \in Seq(Devices)
    BY DEF PageType
  <2>3. q \in PageType
    BY <2>2 DEF PageType
  <2>4. SameCall(p, q) /\ q.run = p.run
    BY DEF SameCall, PageType
  <2> QED BY <2>1, <2>3, <2>4 DEF Asks
<1>3. CASE p.mesh /\ p.run.at = "none"
  <2> DEFINE r == [at |-> "asking", dev |-> d, call |-> p.call, old |-> p.stream, new |-> 0]
             q == [p EXCEPT !.run = r, !.askedFor = d, !.failed = FALSE]
  <2>1. Reacquire(p, d) = q
    BY <1>3 DEF Reacquire
  <2>2. r \in RunType
    BY NumbersOfMicrophone DEF PageType, RunType
  <2>3. q \in PageType
    BY <2>2 DEF PageType
  <2>4. SameCall(p, q) /\ q.run = r
    BY DEF SameCall, PageType
  <2>5. Begun(p, r)
    BY <1>3 DEF Begun
  <2> QED BY <1>3, <2>1, <2>3, <2>4, <2>5 DEF Asks
<1> QED BY <1>1, <1>2, <1>3

\* onMicHealth asks for the microphone at most.
LEMMA HealthAsks ==
  ASSUME NEW p \in PageType, NEW h \in {"live", "ended", "silent"}, wanted \in Devices
  PROVE  Health(p, h) \in PageType /\ Asks(p, Health(p, h))
<1> DEFINE q == [p EXCEPT !.retries = 0, !.retry = FALSE]
<1>1. q \in PageType
  <2>1. 0 \in 0 .. Attempts
    BY NumbersOfMicrophone
  <2> QED BY <2>1 DEF PageType
<1>2. Asks(p, q)
  BY DEF Asks, SameCall, PageType
<1>3. CASE h = "live"
  BY <1>1, <1>2, <1>3 DEF Health
<1>4. CASE h = "ended"
  <2>1. Health(p, h) = Reacquire(q, wanted)
    BY <1>4 DEF Health
  <2> HIDE DEF q
  <2>2. Reacquire(q, wanted) \in PageType /\ Asks(q, Reacquire(q, wanted))
    BY <1>1, ReacquireAsks
  <2> QED BY <1>2, <2>1, <2>2, AsksTwice
<1>5. CASE h = "silent"
  <2> DEFINE s == [p EXCEPT !.retries = @ + 1, !.retry = TRUE]
  <2>1. Health(p, h) = IF p.retries < Attempts THEN s ELSE p
    BY <1>5 DEF Health
  <2>2. p.retries < Attempts => p.retries + 1 \in 0 .. Attempts
    BY NumbersOfMicrophone DEF PageType
  <2>3. p.retries < Attempts => s \in PageType
    BY <2>2 DEF PageType
  <2>4. Asks(p, s) /\ Asks(p, p)
    BY DEF Asks, SameCall, PageType
  <2> QED BY <2>1, <2>3, <2>4
<1> QED BY <1>3, <1>4, <1>5

\* What a track says of its health.
LEMMA HeardAsks ==
  ASSUME NEW p \in PageType, NEW h \in {"live", "ended", "silent"}, wanted \in Devices
  PROVE  Heard(p, h) \in PageType /\ Asks(p, Heard(p, h))
<1> DEFINE g == p.grace /\ h # "live"
           q == [p EXCEPT !.grace = g]
           s == [q EXCEPT !.last = h]
<1>1. Heard(p, h) = IF h = q.last THEN q ELSE Health(s, h)
  BY DEF Heard, PageType
<1>2. q \in PageType /\ Asks(p, q)
  <2>1. g \in BOOLEAN
    BY DEF PageType
  <2> HIDE DEF g
  <2> QED BY <2>1 DEF PageType, Asks, SameCall
<1> HIDE DEF q
<1>3. s \in PageType /\ Asks(q, s)
  BY <1>2 DEF PageType, Asks, SameCall
<1> HIDE DEF s
<1>4. Health(s, h) \in PageType /\ Asks(s, Health(s, h))
  BY <1>3, HealthAsks
<1> QED BY <1>1, <1>2, <1>3, <1>4, AsksTwice

\* A newly watched track says how it is at once.
LEMMA WatchedAsks ==
  ASSUME NEW p \in PageType, NEW n \in 0 .. Streams, NEW muted \in BOOLEAN, wanted \in Devices
  PROVE  Watched(p, n, muted) \in PageType /\ Asks(p, Watched(p, n, muted))
<1> DEFINE q == [p EXCEPT !.track = n, !.last = "none", !.grace = muted]
<1>1. q \in PageType /\ Asks(p, q)
  BY DEF PageType, Asks, SameCall
<1>2. Watched(p, n, muted) = IF muted THEN q ELSE Heard(q, "live")
  BY DEF Watched
<1> HIDE DEF q
<1>3. Heard(q, "live") \in PageType /\ Asks(q, Heard(q, "live"))
  BY <1>1, HeardAsks
<1> QED BY <1>1, <1>2, <1>3, AsksTwice
-----------------------------------------------------------------------------
\* What one request that waited for the end of the run does.
Followed(q, device) == IF wanted = device /\ q.askedFor = device THEN q ELSE Reacquire(q, wanted)
\* The pages that a call may be on once the requests folded into a run have gone on.
After(base) == {q \in PageType : Asks(base, q)}

\* The requests that waited for a run go on one after another, and at most one run comes of them all.
LEMMA OverAsks ==
  ASSUME NEW p \in PageType, wanted \in Devices
  PROVE  LET base == [p EXCEPT !.run = NoRun, !.waiters = <<>>]
         IN  base \in PageType /\ Over(p) \in PageType /\ Asks(base, Over(p))
<1> DEFINE base == [p EXCEPT !.run = NoRun, !.waiters = <<>>]
           N == Len(p.waiters)
           A == After(base)
           step == [x \in A \X (1 .. N) |-> Followed(x[1], p.waiters[x[2]])]
           iter == CHOOSE iter : iter = [s \in SUBSET DOMAIN p.waiters |-> IF s = {} THEN base
                                  ELSE Followed(iter[s \ {Max(s)}], p.waiters[Max(s)])]
<1>0. base \in PageType
  <2>1. NoRun \in RunType /\ <<>> \in Seq(Devices)
    BY NumbersOfMicrophone DEF NoRun, RunType, Devices
  <2> QED BY <2>1 DEF PageType
<1>1. Over(p) = iter[DOMAIN p.waiters]
  BY DEF Over, Followed, FoldLeft, MapThenFoldSet
<1>2. N \in Nat /\ DOMAIN p.waiters = 1 .. N /\ base \in A /\ \A i \in 1 .. N : p.waiters[i] \in Devices
  <2>1. p.waiters \in Seq(Devices)
    BY DEF PageType
  <2>2. Asks(base, base)
    BY DEF Asks, SameCall
  <2>3. base \in A
    <3> HIDE DEF base
    <3> QED BY <1>0, <2>2 DEF After
  <2> QED BY <2>1, <2>3
<1> HIDE DEF base
<1>a. \A q \in A, d \in Devices : Followed(q, d) \in A
  <2> SUFFICES ASSUME NEW q \in A, NEW d \in Devices PROVE Followed(q, d) \in A
    OBVIOUS
  <2>1. q \in PageType /\ Asks(base, q)
    BY DEF After
  <2>2. Reacquire(q, wanted) \in PageType /\ Asks(q, Reacquire(q, wanted))
    BY <2>1, ReacquireAsks
  <2>3. Asks(base, Reacquire(q, wanted))
    BY <2>1, <2>2, AsksTwice
  <2> QED BY <2>2, <2>3 DEF Followed, After
<1>3. step \in [A \X (1 .. N) -> A]
  <2> SUFFICES ASSUME NEW x \in A \X (1 .. N) PROVE Followed(x[1], p.waiters[x[2]]) \in A
    OBVIOUS
  <2>1. x[1] \in A /\ p.waiters[x[2]] \in Devices
    BY <1>2
  <2> HIDE DEF A
  <2> QED BY <2>1, <1>a
<1>4. PICK g \in [SUBSET (1 .. N) -> A] : Folds(g, N, base, step)
  <2> HIDE DEF N, step, A
  <2> QED BY <1>2, <1>3, FoldExists
<1>5. g = [s \in SUBSET DOMAIN p.waiters |-> IF s = {} THEN base ELSE Followed(g[s \ {Max(s)}], p.waiters[Max(s)])]
  <2> SUFFICES ASSUME NEW s \in SUBSET (1 .. N)
               PROVE g[s] = IF s = {} THEN base ELSE Followed(g[s \ {Max(s)}], p.waiters[Max(s)])
    BY <1>2
  <2>1. CASE s = {}
    BY <1>4, <2>1 DEF Folds
  <2>2. CASE s # {}
    <3>1. g[s] = step[<<g[s \ {Max(s)}], Max(s)>>]
      BY <1>4, <2>2 DEF Folds
    <3>2. Max(s) \in 1 .. N
      BY <1>2, <2>2, MaxIsGreatest
    <3>3. s \ {Max(s)} \in SUBSET (1 .. N)
      OBVIOUS
    <3>4. <<g[s \ {Max(s)}], Max(s)>> \in A \X (1 .. N)
      BY <3>2, <3>3
    <3> QED BY <2>2, <3>1, <3>4
  <2> QED BY <2>1, <2>2
<1>6. iter = [s \in SUBSET DOMAIN p.waiters |-> IF s = {} THEN base ELSE Followed(iter[s \ {Max(s)}], p.waiters[Max(s)])]
  BY <1>5
<1> HIDE DEF iter
<1>7. iter[{}] = base
  BY <1>6
<1>8. ASSUME NEW n \in 0 .. N - 1, iter[1 .. n] \in A
      PROVE  iter[1 .. n + 1] = step[<<iter[1 .. n], n + 1>>]
  <2>1. n \in Nat /\ n + 1 \in 1 .. N
    BY <1>2
  <2>2. Max(1 .. n + 1) = n + 1 /\ (1 .. n + 1) \ {n + 1} = 1 .. n
    BY <2>1, MaxOfFirst
  <2>3. 1 .. n + 1 # {} /\ 1 .. n + 1 \in SUBSET DOMAIN p.waiters
    <3>1. 1 \in 1 .. n + 1 /\ \A i \in 1 .. n + 1 : i \in 1 .. N
      BY <2>1
    <3> QED BY <1>2, <3>1
  <2>4. iter[1 .. n + 1] = Followed(iter[(1 .. n + 1) \ {Max(1 .. n + 1)}], p.waiters[Max(1 .. n + 1)])
    BY <1>6, <2>3
  <2> QED BY <1>8, <2>1, <2>2, <2>4
<1>9. PICK f \in [0 .. N -> A] : Chain(f, N, base, step, iter[1 .. N])
  <2>1. Unfolds(iter, N, A, base, step)
    BY <1>7, <1>8 DEF Unfolds
  <2> HIDE DEF N, step, A
  <2> QED BY <1>2, <1>3, <2>1, FoldUnrolled
<1>10. Over(p) \in A
  <2>1. iter[1 .. N] = f[N] /\ N \in 0 .. N
    BY <1>2, <1>9 DEF Chain
  <2> HIDE DEF A, N
  <2> QED BY <1>1, <1>2, <2>1
<1> QED BY <1>0, <1>10 DEF After, base
-----------------------------------------------------------------------------
(* The inductive invariant.                                                *)

\* A page has a microphone just while it has a mesh; it is open, and on as the controls say.
CallFits(p, m) ==
  /\ p.mesh <=> p.stream # 0
  /\ ~p.mesh => p.sent = 0
  /\ p.stream # 0 => m[p.stream].open /\ m[p.stream].on = Mic(p)
\* A run that still belongs to the call will replace the microphone of the call; what is sent is the
\* one that is open, or while it is being replaced the other that is.
RunFits(p, m) ==
  /\ p.run.at = "none" => p.run = NoRun
  /\ p.run.at \in {"asking", "standin"} =>
       /\ p.run.new = 0 /\ p.run.call <= p.call
       /\ p.run.call = p.call => p.mesh /\ p.run.old = p.stream
  /\ p.run.at \in Replacing =>
       /\ p.mesh /\ p.run.old = p.stream
       /\ p.run.new \notin {0, p.stream} /\ m[p.run.new].open /\ p.sent = p.run.new
  /\ p.run.at \notin Replacing => p.sent = p.stream
OpenFit(p, m) == \A n \in 1 .. Streams : m[n].open => n \in {p.stream, p.run.new}
\* A join() that still asks belongs to a call that has no microphone, and is the only one that does.
JoinsFit(p, js) ==
  /\ \A j \in js : j.call <= p.call /\ (j.at # "opening" /\ p.stream # 0 => j.call # p.call)
  /\ \A i, j \in js : i.call = j.call => i = j

JoinType == [at: {"access", "asking", "standin", "opening"}, dev: Devices, call: Nat]
Fit(p, m, js) ==
  /\ p \in PageType /\ m \in MicsType /\ js \subseteq JoinType
  /\ CallFits(p, m) /\ RunFits(p, m) /\ OpenFit(p, m) /\ JoinsFit(p, js)
MicInv == Fit(page, mics, joins) /\ wanted \in Devices /\ present \in BOOLEAN /\ refresh \in BOOLEAN

\* What a request changes leaves the microphones in order.
LEMMA FitAsks ==
  ASSUME NEW p, NEW q \in PageType, NEW m, NEW js, Fit(p, m, js), Asks(p, q)
  PROVE  Fit(q, m, js)
<1>0. p \in PageType /\ p.call \in Nat
  BY DEF Fit, PageType
<1>1. CallFits(q, m)
  BY DEF Fit, CallFits, Asks, SameCall, Mic
<1>2. RunFits(q, m) /\ OpenFit(q, m)
  <2>1. CASE q.run = p.run
    BY <2>1 DEF Fit, RunFits, OpenFit, Asks, SameCall
  <2>2. CASE p.run.at = "none" /\ Begun(p, q.run)
    <3>1. p.run = NoRun /\ p.run.new = 0 /\ p.sent = p.stream
      BY <2>2 DEF Fit, RunFits, NoRun
    <3>2. q.run.at = "asking" /\ p.mesh /\ q.run.call = p.call /\ q.run.old = p.stream /\ q.run.new = 0
      BY <2>2 DEF Begun
    <3>3. q.mesh = p.mesh /\ q.stream = p.stream /\ q.sent = p.sent /\ q.call = p.call
      BY DEF Asks, SameCall
    <3>4. RunFits(q, m)
      BY <1>0, <3>1, <3>2, <3>3 DEF RunFits
    <3>5. OpenFit(q, m)
      BY <3>1, <3>2, <3>3 DEF Fit, OpenFit
    <3> QED BY <3>4, <3>5
  <2> QED BY <2>1, <2>2 DEF Asks
<1>3. JoinsFit(q, js)
  BY DEF Fit, JoinsFit, Asks, SameCall
<1> QED BY <1>1, <1>2, <1>3 DEF Fit

\* So does what is not about the call at all.
LEMMA FitSame ==
  ASSUME NEW p, NEW q \in PageType, NEW m, NEW js, Fit(p, m, js), SameCall(p, q), q.run = p.run
  PROVE  Fit(q, m, js)
BY FitAsks, AsksNothing

\* How a microphone sounds is not part of it.
LEMMA FitSound ==
  ASSUME NEW p, NEW m, NEW n \in MicsType, NEW js, Fit(p, m, js),
         \A k \in 1 .. Streams : n[k].open = m[k].open /\ n[k].on = m[k].on
  PROVE  Fit(p, n, js)
<1>1. p.stream # 0 => p.stream \in 1 .. Streams
  BY NumbersOfMicrophone DEF Fit, PageType
<1>2. p.run.new # 0 => p.run.new \in 1 .. Streams
  BY NumbersOfMicrophone DEF Fit, PageType, RunType
<1>3. CallFits(p, n)
  BY <1>1 DEF Fit, CallFits
<1>4. RunFits(p, n)
  BY <1>2 DEF Fit, RunFits
<1>5. OpenFit(p, n)
  BY DEF Fit, OpenFit
<1> QED BY <1>3, <1>4, <1>5 DEF Fit

\* Fewer calls of join(), or one that gets on to another question.
LEMMA FitJoins ==
  ASSUME NEW p, NEW m, NEW js, NEW j \in js, NEW k \in JoinType, Fit(p, m, js),
         k.call = j.call, j.at = "opening" => k.at = "opening"
  PROVE  Fit(p, m, js \ {j}) /\ Fit(p, m, (js \ {j}) \cup {k})
<1>1. JoinsFit(p, js \ {j}) /\ JoinsFit(p, (js \ {j}) \cup {k})
  BY DEF Fit, JoinsFit
<1> QED BY <1>1 DEF Fit
-----------------------------------------------------------------------------
(* What the operations leave.                                              *)

\* applyMic sets what is on of the microphone of the call.
LEMMA AppliedIs ==
  ASSUME NEW p \in PageType, NEW m \in MicsType
  PROVE  /\ Applied(m, p) \in MicsType
         /\ \A n \in 1 .. Streams : /\ Applied(m, p)[n].open = m[n].open
                                    /\ Applied(m, p)[n].on = IF n = p.stream THEN Mic(p) ELSE m[n].on
<1>1. CASE p.stream = 0
  BY <1>1 DEF Applied
<1>2. CASE p.stream # 0
  <2>1. p.stream \in 1 .. Streams /\ Mic(p) \in BOOLEAN
    BY <1>2, NumbersOfMicrophone DEF PageType, Mic
  <2>2. m[p.stream] \in MicType
    BY <2>1 DEF MicsType
  <2> DEFINE c == [m[p.stream] EXCEPT !.on = Mic(p)]
  <2>3. c \in MicType /\ c.open = m[p.stream].open /\ c.on = Mic(p)
    BY <2>1, <2>2 DEF MicType
  <2>4. Applied(m, p) = [m EXCEPT ![p.stream] = c]
    BY <1>2 DEF Applied
  <2> HIDE DEF c
  <2> QED BY <2>1, <2>3, <2>4 DEF MicsType
<1> QED BY <1>1, <1>2

\* Stopping the tracks of a stream closes it.
LEMMA StoppedIs ==
  ASSUME NEW m \in MicsType, NEW n \in 0 .. Streams
  PROVE  /\ Stopped(m, n) \in MicsType
         /\ \A k \in 1 .. Streams : IF k = n THEN ~Stopped(m, n)[k].open ELSE Stopped(m, n)[k] = m[k]
<1>1. Closed \in MicType /\ ~Closed.open
  BY DEF Closed, MicType, Devices
<1>2. CASE n = 0
  BY <1>2 DEF Stopped
<1>3. CASE n # 0
  <2>1. n \in 1 .. Streams
    BY <1>3, NumbersOfMicrophone
  <2>2. Stopped(m, n) = [m EXCEPT ![n] = Closed]
    BY <1>3 DEF Stopped
  <2> QED BY <1>1, <2>1, <2>2 DEF MicsType
<1> QED BY <1>2, <1>3

\* Leaving closes what is open, unless a track is just being replaced (useVoice.ts:357).
LEMMA LeftFits ==
  ASSUME NEW p, NEW m, NEW js, Fit(p, m, js), p.run.at \notin Replacing
  PROVE  Fit(Left(p), Stopped(m, p.stream), js) /\ ~Left(p).mesh /\ Left(p).stream = 0 /\ Left(p).call = p.call + 1
<1> DEFINE q == Left(p)
           n == Stopped(m, p.stream)
<1>0. p \in PageType /\ m \in MicsType /\ p.call \in Nat /\ p.stream \in 0 .. Streams /\ p.run \in RunType
  BY DEF Fit, PageType
<1>1. q \in PageType
  <2>1. 0 \in 0 .. Attempts /\ 0 \in 0 .. Streams /\ p.call + 1 \in Nat
    BY <1>0, NumbersOfMicrophone
  <2> QED BY <1>0, <2>1 DEF Left, Crossed, Unwatched, PageType
<1>2. ~q.mesh /\ q.stream = 0 /\ q.sent = 0 /\ q.call = p.call + 1 /\ q.run = p.run
  BY <1>0 DEF Left, Crossed, Unwatched, PageType
<1>3. n \in MicsType /\ \A k \in 1 .. Streams : IF k = p.stream THEN ~n[k].open ELSE n[k] = m[k]
  BY <1>0, StoppedIs
<1> HIDE DEF q, n
<1>4. CallFits(q, n)
  BY <1>2 DEF CallFits
<1>5. p.run.new = 0
  <2>1. p.run.at \in {"none", "asking", "standin"}
    BY <1>0 DEF RunType
  <2> QED BY <2>1 DEF Fit, RunFits, NoRun
<1>6. RunFits(q, n)
  <2>1. p.run.call \in Nat
    BY <1>0 DEF RunType
  <2>2. p.run.at \in {"asking", "standin"} => p.run.call <= p.call
    BY DEF Fit, RunFits
  <2>3. p.run.at = "none" => p.run = NoRun
    BY DEF Fit, RunFits
  <2> QED BY <1>0, <1>2, <1>5, <2>1, <2>2, <2>3 DEF RunFits
<1>7. OpenFit(q, n)
  <2> SUFFICES ASSUME NEW k \in 1 .. Streams, n[k].open PROVE FALSE
    BY DEF OpenFit
  <2>1. k # p.stream /\ m[k].open
    BY <1>3
  <2>2. k \in {p.stream, p.run.new}
    BY <2>1 DEF Fit, OpenFit
  <2> QED BY <1>5, <2>1, <2>2
<1>8. JoinsFit(q, js)
  <2>1. \A j \in js : j.call \in Nat /\ j.call <= p.call
    BY DEF Fit, JoinsFit, JoinType
  <2> QED BY <1>0, <1>2, <2>1 DEF Fit, JoinsFit
<1> QED BY <1>1, <1>2, <1>3, <1>4, <1>6, <1>7, <1>8 DEF Fit, q, n

\* A join() begins another call, without a microphone so far.
LEMMA JoinFits ==
  ASSUME NEW p, NEW m, NEW js, Fit(p, m, js), p.stream = 0
  PROVE  Fit([p EXCEPT !.call = @ + 1], m, js \cup {Asking(p.call + 1)})
<1> DEFINE q == [p EXCEPT !.call = @ + 1]
           a == Asking(p.call + 1)
<1>0. p \in PageType /\ p.call \in Nat /\ p.run \in RunType /\ p.run.call \in Nat
  BY DEF Fit, PageType, RunType
<1>1. q \in PageType
  BY <1>0 DEF PageType
<1>2. /\ q.mesh = p.mesh /\ q.stream = p.stream /\ q.sent = p.sent /\ q.inVoice = p.inVoice
      /\ q.talk = p.talk /\ q.run = p.run /\ q.call = p.call + 1
  BY <1>0 DEF PageType
<1>3. a \in JoinType /\ a.call = p.call + 1 /\ a.at = "access"
  BY <1>0 DEF Asking, JoinType, Devices
<1> HIDE DEF q, a
<1>4. CallFits(q, m)
  BY <1>2 DEF Fit, CallFits, Mic
<1>5. ~p.mesh
  BY DEF Fit, CallFits
<1>6. RunFits(q, m)
  BY <1>0, <1>2, <1>5 DEF Fit, RunFits
<1>7. OpenFit(q, m)
  BY <1>2 DEF Fit, OpenFit
<1>8. JoinsFit(q, js \cup {a})
  <2>1. \A j \in js : j.call \in Nat /\ j.call <= p.call
    BY DEF Fit, JoinsFit, JoinType
  <2> QED BY <1>0, <1>2, <1>3, <2>1 DEF Fit, JoinsFit
<1> QED BY <1>1, <1>3, <1>4, <1>6, <1>7, <1>8 DEF Fit, q, a

\* A run that replaced nothing is over.
LEMMA OverFits ==
  ASSUME NEW p \in PageType, NEW m, NEW js, wanted \in Devices,
         Fit([p EXCEPT !.run = NoRun, !.waiters = <<>>], m, js)
  PROVE  Fit(Over(p), m, js)
BY OverAsks, FitAsks

\* A run over, with the requests that waited for it.
LEMMA EndFits ==
  ASSUME NEW p, NEW m, NEW js, Fit(p, m, js), p.run.at \notin Replacing, wanted \in Devices
  PROVE  Fit(Over(p), m, js)
<1> DEFINE q == [p EXCEPT !.run = NoRun, !.waiters = <<>>]
<1>0. p \in PageType /\ p.run \in RunType
  BY DEF Fit, PageType
<1>1. q \in PageType
  BY <1>0, OverAsks
<1>2. SameCall(p, q) /\ q.run = NoRun
  BY <1>0 DEF SameCall, PageType
<1> HIDE DEF q
<1>3. p.run.new = 0 /\ p.sent = p.stream
  <2>1. p.run.at \in {"none", "asking", "standin"}
    BY <1>0 DEF RunType
  <2> QED BY <2>1 DEF Fit, RunFits, NoRun
<1>4. CallFits(q, m)
  BY <1>2 DEF Fit, CallFits, SameCall, Mic
<1>5. RunFits(q, m)
  BY <1>2, <1>3 DEF RunFits, SameCall, NoRun
<1>6. OpenFit(q, m)
  BY <1>2, <1>3 DEF Fit, OpenFit, SameCall, NoRun
<1>7. JoinsFit(q, js)
  BY <1>2 DEF Fit, JoinsFit, SameCall
<1>8. Fit(q, m, js)
  BY <1>1, <1>4, <1>5, <1>6, <1>7 DEF Fit
<1> QED BY <1>0, <1>8, OverFits DEF q

\* There is a number for a stream that is opened.
LEMMA OneIsFree ==
  ASSUME Fit(page, mics, joins), page.run.at \notin Replacing, page.stream = 0 \/ page.run.old = page.stream
  PROVE  Next1 \in 1 .. Streams /\ ~mics[Next1].open /\ Next1 \notin {page.stream, page.run.old}
<1>0. page \in PageType /\ page.run \in RunType /\ Streams \in Nat /\ Streams >= 2
  BY MicrophoneAssumption DEF Fit, PageType
<1>1. page.run.new = 0 /\ page.sent = page.stream
  <2>1. page.run.at \in {"none", "asking", "standin"}
    BY <1>0 DEF RunType
  <2> QED BY <2>1 DEF Fit, RunFits, NoRun
<1>2. \A n \in 1 .. Streams : n \notin {page.stream, page.run.old} => n \in Free
  BY <1>0, <1>1 DEF Free, Fit, OpenFit
<1>3. PICK n \in {1, 2} : n \notin {page.stream, page.run.old}
  BY <1>0
<1>4. n \in Free
  BY <1>0, <1>2, <1>3
<1>5. Free \subseteq Nat
  BY DEF Free
<1>6. Next1 \in Free
  <2> HIDE DEF Free
  <2>1. Min(Free) \in Free /\ \A k \in Free : Min(Free) <= k
    BY <1>4, <1>5, MinIsLeast
  <2> QED BY <2>1 DEF Next1
<1> QED BY <1>6 DEF Free
-----------------------------------------------------------------------------
(* Every step keeps the invariant.                                         *)

\* Before the first call.
LEMMA InitFits == MicInit => MicInv
<1> SUFFICES ASSUME MicInit PROVE MicInv
  OBVIOUS
<1>1. 0 \in 0 .. Streams /\ 0 \in 0 .. Attempts
  BY NumbersOfMicrophone
<1>2. NoRun \in RunType /\ <<>> \in Seq(Devices) /\ "default" \in Devices
  BY <1>1 DEF NoRun, RunType, Devices
<1>3. page \in PageType
  BY <1>1, <1>2 DEF MicInit, PageType
<1>4. mics \in MicsType
  BY DEF MicInit, MicsType, MicType, Closed, Devices
<1>5. CallFits(page, mics) /\ RunFits(page, mics)
  BY DEF MicInit, CallFits, RunFits, NoRun
<1>6. OpenFit(page, mics)
  BY DEF MicInit, OpenFit, Closed
<1>7. joins \subseteq JoinType /\ JoinsFit(page, joins)
  BY DEF MicInit, JoinsFit
<1> QED BY <1>3, <1>4, <1>5, <1>6, <1>7 DEF MicInv, Fit, MicInit

\* Joining, leaving, and a new member id.
LEMMA ClickKeeps == ASSUME MicInv, ~crossed', Join \/ Leave \/ Rebuild PROVE MicInv'
<1>0. Fit(page, mics, joins) /\ page \in PageType /\ page.run.at \notin Replacing /\ page.call \in Nat
  <2>1. crossed' = (crossed \/ page.run.at \in Replacing)
    BY DEF Join, Leave, Rebuild, Clicks
  <2> QED BY <2>1 DEF MicInv, Fit, PageType
<1> DEFINE p == Left(page)
           m == Stopped(mics, page.stream)
<1>1. Fit(p, m, joins) /\ ~p.mesh /\ p.stream = 0 /\ p.call = page.call + 1
  BY <1>0, LeftFits
<1>2. UNCHANGED <<wanted, present, refresh>>
  BY DEF Join, Leave, Rebuild
<1>3. CASE Join /\ (page.mesh \/ page.stream # 0)
  <2>1. p # page
    BY <1>0, <1>1
  <2>2. page' = [p EXCEPT !.call = @ + 1] /\ joins' = joins \cup {Asking(p.call + 1)} /\ mics' = m
    BY <1>3, <2>1 DEF Join
  <2> HIDE DEF p, m
  <2>3. Fit([p EXCEPT !.call = @ + 1], m, joins \cup {Asking(p.call + 1)})
    BY <1>1, JoinFits
  <2> QED BY <1>2, <2>2, <2>3 DEF MicInv
<1>4. CASE Join /\ ~ (page.mesh \/ page.stream # 0)
  <2>1. page' = [page EXCEPT !.call = @ + 1] /\ joins' = joins \cup {Asking(page.call + 1)} /\ mics' = mics
    BY <1>4 DEF Join
  <2>2. Fit([page EXCEPT !.call = @ + 1], mics, joins \cup {Asking(page.call + 1)})
    BY <1>0, <1>4, JoinFits
  <2> QED BY <1>2, <2>1, <2>2 DEF MicInv
<1>5. CASE Leave
  <2>1. page' = p /\ mics' = m /\ joins' = joins
    BY <1>5 DEF Leave
  <2> HIDE DEF p, m
  <2> QED BY <1>1, <1>2, <2>1 DEF MicInv
<1>6. CASE Rebuild
  <2> DEFINE q == [page EXCEPT !.sent = page.stream]
  <2>1. page' = q /\ mics' = mics /\ joins' = joins
    BY <1>0, <1>6 DEF Rebuild, Crossed
  <2>2. q \in PageType
    BY <1>0 DEF PageType
  <2>3. page.sent = page.stream
    BY <1>0 DEF Fit, RunFits
  <2>4. SameCall(page, q) /\ q.run = page.run
    BY <1>0, <2>3 DEF SameCall, PageType
  <2> HIDE DEF q
  <2>5. Fit(q, mics, joins)
    BY <1>0, <2>2, <2>4, FitSame
  <2> QED BY <1>2, <2>1, <2>5 DEF MicInv
<1> QED BY <1>3, <1>4, <1>5, <1>6

\* acquire only makes notes.
LEMMA NotedSame ==
  ASSUME NEW p \in PageType, NEW a
  PROVE  Noted(p, a) \in PageType /\ SameCall(p, Noted(p, a)) /\ Noted(p, a).run = p.run
BY DEF Noted, PageType, SameCall

\* The questions of a join() before the microphone is there.
LEMMA JoinAsksKeeps ==
  ASSUME MicInv, NEW j \in joins, JoinAsks(j) \/ JoinStandsIn(j) \/ JoinRefused(j)
  PROVE  MicInv'
<1>0. Fit(page, mics, joins) /\ page \in PageType /\ j \in JoinType
  BY DEF MicInv, Fit
<1>1. UNCHANGED <<mics, wanted, present, refresh>>
  BY DEF JoinAsks, JoinStandsIn, JoinRefused
<1>2. PICK k \in JoinType : /\ k.call = j.call /\ (j.at = "opening" => k.at = "opening")
                            /\ joins' = joins \ {j} \/ joins' = (joins \ {j}) \cup {k}
  <2>1. CASE JoinAsks(j)
    <3> DEFINE k == [j EXCEPT !.at = "asking", !.dev = wanted]
    <3>1. k \in JoinType /\ k.call = j.call
      BY <1>0 DEF JoinType, MicInv
    <3> QED BY <2>1, <3>1 DEF JoinAsks
  <2>2. CASE JoinStandsIn(j)
    <3>1. StandIn(j) \in JoinType /\ StandIn(j).call = j.call
      BY <1>0 DEF JoinType, StandIn, Devices
    <3> QED BY <2>2, <3>1 DEF JoinStandsIn, Gone
  <2>3. CASE JoinRefused(j)
    BY <1>0, <2>3 DEF JoinRefused
  <2> QED BY <2>1, <2>2, <2>3
<1>3. Fit(page, mics, joins')
  <2>1. Fit(page, mics, joins \ {j}) /\ Fit(page, mics, (joins \ {j}) \cup {k})
    BY <1>0, <1>2, FitJoins
  <2> QED BY <1>2, <2>1
<1>4. page' \in PageType /\ SameCall(page, page') /\ page'.run = page.run
  <2>1. page' = page \/ page' = [page EXCEPT !.fallback = TRUE]
    BY DEF JoinAsks, JoinStandsIn, JoinRefused
  <2> QED BY <1>0, <2>1 DEF PageType, SameCall
<1>5. Fit(page', mics, joins')
  BY <1>3, <1>4, FitSame
<1> QED BY <1>1, <1>5 DEF MicInv

\* The stream of a join() is there.
LEMMA JoinOpensKeeps ==
  ASSUME MicInv, NEW j \in joins, NEW muted \in BOOLEAN, JoinOpens(j, muted)
  PROVE  MicInv'
<1> DEFINE p == Noted(page, j)
           n == Next1
           s == [p EXCEPT !.mesh = TRUE, !.stream = n, !.sent = n, !.retries = 0, !.unheard = FALSE]
           q == Watched(s, n, muted)
           o == Opened(j.dev, muted)
           k == [j EXCEPT !.at = "opening"]
<1>0. Fit(page, mics, joins) /\ page \in PageType /\ page.run \in RunType /\ j \in JoinType /\ mics \in MicsType
  BY DEF MicInv, Fit, PageType
<1>1. /\ j.at \in {"asking", "standin"} /\ UNCHANGED <<wanted, present>>
      /\ IF j.call # page.call
         THEN page' = p /\ joins' = joins \ {j} /\ UNCHANGED <<mics, refresh>>
         ELSE mics' = Applied(o, q) /\ page' = q /\ refresh' = TRUE /\ joins' = (joins \ {j}) \cup {k}
  BY DEF JoinOpens
<1>2. p \in PageType /\ SameCall(page, p) /\ p.run = page.run
  BY <1>0, NotedSame
<1>3. CASE j.call # page.call
  <2>1. Fit(page, mics, joins \ {j})
    BY <1>0, FitJoins
  <2> HIDE DEF p
  <2>2. Fit(p, mics, joins \ {j})
    BY <1>2, <2>1, FitSame
  <2> QED BY <1>1, <1>3, <2>2 DEF MicInv
<1>4. CASE j.call = page.call
  <2>1. page.stream = 0 /\ ~page.mesh
    BY <1>0, <1>1, <1>4 DEF Fit, JoinsFit, CallFits
  <2>0. page.run.at \notin Replacing
    BY <1>0, <2>1 DEF Fit, RunFits
  <2>2. n \in 1 .. Streams /\ ~mics[n].open
    BY <1>0, <2>0, <2>1, OneIsFree
  <2> HIDE DEF p, n
  <2>3. s \in PageType
    <3>1. 0 \in 0 .. Attempts /\ n \in 0 .. Streams
      BY <2>2, NumbersOfMicrophone
    <3> QED BY <1>2, <3>1 DEF PageType
  <2>4. /\ s.mesh /\ s.stream = n /\ s.sent = n /\ s.call = page.call /\ s.run = page.run
    BY <1>2 DEF PageType, SameCall
  <2> HIDE DEF s
  <2>5. q \in PageType /\ Asks(s, q)
    <3>1. n \in 0 .. Streams /\ wanted \in Devices
      BY <2>2 DEF MicInv
    <3> QED BY <2>3, <3>1, WatchedAsks
  <2> HIDE DEF q
  <2>6. o \in MicsType /\ \A i \in 1 .. Streams : o[i].open <=> i = n
    <3> DEFINE c == [open |-> TRUE, dev |-> j.dev, muted |-> muted, ended |-> FALSE, on |-> TRUE]
    <3>1. c \in MicType /\ c.open
      BY <1>0 DEF MicType, JoinType
    <3>2. o = [mics EXCEPT ![n] = c]
      BY DEF Opened, n
    <3> HIDE DEF c
    <3>3. \A i \in 1 .. Streams : ~mics[i].open
      <4>1. page.run.new = 0
        <5>1. page.run.at \in {"none", "asking", "standin"}
          BY <1>0, <2>0 DEF RunType
        <5> QED BY <1>0, <5>1 DEF Fit, RunFits, NoRun
      <4> QED BY <1>0, <2>1, <4>1 DEF Fit, OpenFit
    <3> HIDE DEF o
    <3> QED BY <1>0, <2>2, <3>1, <3>2, <3>3 DEF MicsType
  <2> HIDE DEF o
  <2> DEFINE m == Applied(o, q)
  <2>7. /\ m \in MicsType /\ \A i \in 1 .. Streams : m[i].open <=> i = n
        /\ m[n].on = Mic(s)
    <3>1. Mic(q) = Mic(s) /\ q.stream = n
      BY <2>4, <2>5 DEF Asks, SameCall, Mic
    <3> QED BY <2>2, <2>5, <2>6, <3>1, AppliedIs
  <2> HIDE DEF m
  <2>8. CallFits(s, m) /\ OpenFit(s, m)
    BY <2>2, <2>4, <2>7 DEF CallFits, OpenFit
  <2>9. RunFits(s, m)
    <3>1. page.run.at = "none" => page.run = NoRun
      BY <1>0 DEF Fit, RunFits
    <3>2. page.run.at \in {"asking", "standin"} =>
            page.run.new = 0 /\ page.run.call <= page.call /\ page.run.call # page.call
      BY <1>0, <2>1 DEF Fit, RunFits
    <3> QED BY <2>0, <2>4, <3>1, <3>2 DEF RunFits
  <2>10. k \in JoinType /\ k.call = j.call /\ k.at = "opening"
    BY <1>0 DEF JoinType
  <2> HIDE DEF k
  <2>11. JoinsFit(s, (joins \ {j}) \cup {k})
    BY <1>0, <1>4, <2>4, <2>10 DEF Fit, JoinsFit
  <2>12. (joins \ {j}) \cup {k} \subseteq JoinType
    BY <1>0, <2>10 DEF Fit
  <2>13. Fit(s, m, (joins \ {j}) \cup {k})
    BY <2>3, <2>7, <2>8, <2>9, <2>11, <2>12 DEF Fit
  <2>14. Fit(q, m, (joins \ {j}) \cup {k})
    BY <2>5, <2>13, FitAsks
  <2> QED BY <1>1, <1>4, <2>14 DEF MicInv, m
<1> QED BY <1>3, <1>4

\* Being in voice turns the microphone of the call on, if there is one.
LEMMA FitControls ==
  ASSUME NEW p, NEW q \in PageType, NEW m, NEW js, Fit(p, m, js),
         q.mesh = p.mesh, q.stream = p.stream, q.sent = p.sent, q.call = p.call, q.run = p.run
  PROVE  Fit(q, Applied(m, q), js)
<1> DEFINE n == Applied(m, q)
<1>1. m \in MicsType /\ p \in PageType
  BY DEF Fit
<1>2. /\ n \in MicsType
      /\ \A i \in 1 .. Streams : n[i].open = m[i].open /\ n[i].on = IF i = q.stream THEN Mic(q) ELSE m[i].on
  BY <1>1, AppliedIs
<1> HIDE DEF n
<1>3. q.stream # 0 => q.stream \in 1 .. Streams
  BY NumbersOfMicrophone DEF PageType
<1>4. q.run.new # 0 => q.run.new \in 1 .. Streams
  BY NumbersOfMicrophone DEF PageType, RunType
<1>5. CallFits(q, n)
  BY <1>2, <1>3 DEF Fit, CallFits
<1>6. RunFits(q, n)
  BY <1>2, <1>4 DEF Fit, RunFits
<1>7. OpenFit(q, n) /\ JoinsFit(q, js)
  BY <1>2 DEF Fit, OpenFit, JoinsFit
<1> QED BY <1>2, <1>5, <1>6, <1>7 DEF Fit, n

\* The page is in voice.
LEMMA JoinDoneKeeps == ASSUME MicInv, NEW j \in joins, JoinDone(j) PROVE MicInv'
<1> DEFINE p == [page EXCEPT !.inVoice = TRUE]
<1>0. Fit(page, mics, joins) /\ page \in PageType /\ j \in JoinType
  BY DEF MicInv, Fit
<1>1. page' = p /\ mics' = Applied(mics, p) /\ joins' = joins \ {j} /\ UNCHANGED <<wanted, present, refresh>>
  BY DEF JoinDone
<1>2. Fit(page, mics, joins \ {j})
  BY <1>0, FitJoins
<1>3. p \in PageType /\ p.mesh = page.mesh /\ p.stream = page.stream /\ p.sent = page.sent /\ p.call = page.call
      /\ p.run = page.run
  BY <1>0 DEF PageType
<1> HIDE DEF p
<1>4. Fit(p, Applied(mics, p), joins \ {j})
  BY <1>2, <1>3, FitControls
<1> QED BY <1>1, <1>4 DEF MicInv

\* A run asks for the default instead, or is refused.
LEMMA RunAsksKeeps == ASSUME MicInv, RunStandsIn \/ RunRefused PROVE MicInv'
<1>0. Fit(page, mics, joins) /\ page \in PageType /\ page.run \in RunType
  BY DEF MicInv, Fit, PageType
<1>1. UNCHANGED <<mics, joins, wanted, present, refresh>>
  BY DEF RunStandsIn, RunRefused
<1>2. CASE RunStandsIn
  <2> DEFINE r == StandIn(page.run)
             q == [page EXCEPT !.fallback = TRUE, !.run = r]
  <2>1. page' = q /\ page.run.at = "asking"
    BY <1>2 DEF RunStandsIn
  <2>2. r \in RunType /\ r.at = "standin" /\ r.call = page.run.call /\ r.old = page.run.old /\ r.new = page.run.new
    BY <1>0 DEF StandIn, RunType, Devices
  <2> HIDE DEF r
  <2>3. q \in PageType /\ SameCall(page, q) /\ q.run = r
    BY <1>0, <2>2 DEF PageType, SameCall
  <2> HIDE DEF q
  <2>4. CallFits(q, mics) /\ JoinsFit(q, joins)
    BY <1>0, <2>3 DEF Fit, CallFits, JoinsFit, SameCall, Mic
  <2>5. RunFits(q, mics) /\ OpenFit(q, mics)
    BY <1>0, <2>1, <2>2, <2>3 DEF Fit, RunFits, OpenFit, SameCall
  <2>6. Fit(q, mics, joins)
    BY <1>0, <2>3, <2>4, <2>5 DEF Fit
  <2> QED BY <1>1, <2>1, <2>6 DEF MicInv
<1>3. CASE RunRefused
  <2> DEFINE q == [page EXCEPT !.failed = TRUE]
  <2>1. page' = Over(q) /\ page.run.at \notin Replacing
    BY <1>3 DEF RunRefused
  <2>2. q \in PageType /\ SameCall(page, q) /\ q.run = page.run
    BY <1>0 DEF PageType, SameCall
  <2> HIDE DEF q
  <2>3. Fit(q, mics, joins)
    BY <1>0, <2>2, FitSame
  <2>4. Fit(Over(q), mics, joins)
    BY <2>1, <2>2, <2>3, EndFits DEF MicInv
  <2> QED BY <1>1, <2>1, <2>4 DEF MicInv
<1> QED BY <1>2, <1>3

\* The stream of a run is there: for nobody, or to replace the one of the call.
LEMMA RunOpensKeeps == ASSUME MicInv, NEW muted \in BOOLEAN, RunOpens(muted) PROVE MicInv'
<1> DEFINE p == Noted(page, page.run)
           n == Next1
           m == Opened(page.run.dev, muted)
           r == [page.run EXCEPT !.at = "replacing", !.new = n]
           q == [p EXCEPT !.run = r, !.sent = n]
<1>0. Fit(page, mics, joins) /\ page \in PageType /\ page.run \in RunType /\ mics \in MicsType
  BY DEF MicInv, Fit, PageType
<1>1. page.run.at \in {"asking", "standin"} /\ UNCHANGED <<joins, wanted, present, refresh>>
  BY DEF RunOpens
<1>2. p \in PageType /\ SameCall(page, p) /\ p.run = page.run
  BY <1>0, NotedSame
<1>3. CASE Stale(page)
  <2> DEFINE s == [p EXCEPT !.failed = TRUE]
  <2>1. page' = Over(s) /\ mics' = mics
    BY <1>3 DEF RunOpens
  <2> HIDE DEF p
  <2>2. s \in PageType /\ SameCall(page, s) /\ s.run = page.run
    BY <1>2 DEF PageType, SameCall
  <2> HIDE DEF s
  <2>3. Fit(s, mics, joins)
    BY <1>0, <2>2, FitSame
  <2>4. Fit(Over(s), mics, joins)
    BY <1>1, <2>2, <2>3, EndFits DEF MicInv
  <2> QED BY <1>1, <2>1, <2>4 DEF MicInv
<1>4. CASE ~Stale(page)
  <2>1. page.mesh /\ page.run.call = page.call
    BY <1>4 DEF Stale
  <2>2. page.run.old = page.stream /\ page.run.new = 0 /\ page.stream # 0
    BY <1>0, <1>1, <2>1 DEF Fit, RunFits, CallFits
  <2>3. n \in 1 .. Streams /\ ~mics[n].open /\ n # page.stream
    BY <1>0, <1>1, <2>2, OneIsFree
  <2>4. page' = q /\ mics' = m
    <3>1. page' = [p EXCEPT !.run.at = "replacing", !.run.new = Next1, !.sent = Next1] /\ mics' = m
      BY <1>4 DEF RunOpens
    <3>2. [p EXCEPT !.run.at = "replacing", !.run.new = Next1, !.sent = Next1] = q
      BY <1>0, <1>2 DEF PageType, RunType
    <3> QED BY <3>1, <3>2
  <2> HIDE DEF p, n
  <2>5. r \in RunType /\ r.at = "replacing" /\ r.old = page.stream /\ r.new = n
    <3>1. n \in 0 .. Streams
      BY <2>3
    <3>2. r \in RunType
      BY <1>0, <3>1 DEF RunType
    <3>3. r.at = "replacing" /\ r.old = page.run.old /\ r.new = n
      BY <1>0 DEF RunType
    <3> QED BY <2>2, <3>2, <3>3
  <2> HIDE DEF r
  <2>6. /\ q \in PageType /\ q.run = r /\ q.sent = n /\ q.mesh = page.mesh /\ q.stream = page.stream
        /\ q.call = page.call /\ q.inVoice = page.inVoice /\ q.talk = page.talk
    <3>1. n \in 0 .. Streams
      BY <2>3
    <3> QED BY <1>2, <2>5, <3>1 DEF PageType, SameCall
  <2> HIDE DEF q
  <2>7. m \in MicsType /\ m[n].open /\ \A i \in 1 .. Streams : i # n => m[i] = mics[i]
    <3> DEFINE c == [open |-> TRUE, dev |-> page.run.dev, muted |-> muted, ended |-> FALSE, on |-> TRUE]
    <3>1. c \in MicType /\ c.open
      BY <1>0 DEF MicType, RunType
    <3>2. m = [mics EXCEPT ![n] = c]
      BY DEF Opened, n
    <3> HIDE DEF c, m
    <3> QED BY <1>0, <2>3, <3>1, <3>2 DEF MicsType
  <2> HIDE DEF m
  <2>8. page.stream \in 1 .. Streams
    BY <1>0, <2>2, NumbersOfMicrophone DEF PageType
  <2>9. CallFits(q, m)
    BY <1>0, <2>3, <2>6, <2>7, <2>8 DEF Fit, CallFits, Mic
  <2>10. RunFits(q, m)
    BY <2>1, <2>3, <2>5, <2>6, <2>7, <2>8 DEF RunFits
  <2>11. OpenFit(q, m) /\ JoinsFit(q, joins)
    <3>1. OpenFit(q, m)
      BY <1>0, <2>2, <2>5, <2>6, <2>7, <2>8 DEF Fit, OpenFit
    <3>2. JoinsFit(q, joins)
      BY <1>0, <2>6 DEF Fit, JoinsFit
    <3> QED BY <3>1, <3>2
  <2>12. Fit(q, m, joins)
    BY <1>0, <2>6, <2>7, <2>9, <2>10, <2>11 DEF Fit
  <2> QED BY <1>1, <2>4, <2>12 DEF MicInv
<1> QED BY <1>3, <1>4

\* The old track is stopped, the new one adopted.
LEMMA RunReplacedKeeps == ASSUME MicInv, RunReplaced PROVE MicInv'
<1> DEFINE n == page.run.new
           p == Adopting(page)
           m == Applied(Stopped(mics, page.run.old), p)
           w == Watched(p, n, mics[n].muted)
           b == [w EXCEPT !.run = NoRun, !.waiters = <<>>]
<1>0. Fit(page, mics, joins) /\ page \in PageType /\ page.run \in RunType /\ mics \in MicsType
  BY DEF MicInv, Fit, PageType
<1>1. page.run.at \in Replacing /\ page' = Over(w) /\ mics' = m /\ UNCHANGED <<joins, wanted, present, refresh>>
  BY DEF RunReplaced
<1>2. /\ page.mesh /\ page.run.old = page.stream /\ n # 0 /\ n # page.stream /\ mics[n].open /\ page.sent = n
      /\ page.stream # 0
  BY <1>0, <1>1 DEF Fit, RunFits, CallFits
<1>3. n \in 1 .. Streams /\ page.stream \in 0 .. Streams
  BY <1>0, <1>2, NumbersOfMicrophone DEF RunType, PageType
<1>4. /\ p \in PageType /\ p.mesh /\ p.stream = n /\ p.sent = n /\ p.call = page.call /\ p.run = page.run
  <2>1. n \in 0 .. Streams /\ mics[n].ended \in BOOLEAN
    BY <1>0, <1>3 DEF MicsType, MicType
  <2>2. p = [page EXCEPT !.stream = n, !.unheard = mics[n].ended]
    BY DEF Adopting
  <2> HIDE DEF n, p
  <2> QED BY <1>0, <1>2, <2>1, <2>2 DEF PageType
<1>5. mics[n].muted \in BOOLEAN
  BY <1>0, <1>3 DEF MicsType, MicType
<1> HIDE DEF p
<1>6. w \in PageType /\ Asks(p, w)
  <2>1. n \in 0 .. Streams /\ wanted \in Devices
    BY <1>3 DEF MicInv
  <2> HIDE DEF n
  <2> QED BY <1>4, <1>5, <2>1, WatchedAsks
<1>7. SameCall(p, w)
  BY <1>6 DEF Asks
<1> HIDE DEF w
<1>8. b \in PageType /\ SameCall(p, b) /\ b.run = NoRun
  <2>1. b \in PageType
    BY <1>6, OverAsks DEF MicInv
  <2> QED BY <1>6, <1>7, <2>1 DEF PageType, SameCall
<1> HIDE DEF b
<1>9. /\ m \in MicsType /\ m[n].open /\ m[n].on = Mic(p)
      /\ \A k \in 1 .. Streams : m[k].open => mics[k].open /\ k # page.stream
  <2> DEFINE s == Stopped(mics, page.run.old)
  <2>1. s \in MicsType /\ \A k \in 1 .. Streams : IF k = page.stream THEN ~s[k].open ELSE s[k] = mics[k]
    BY <1>0, <1>2, <1>3, StoppedIs
  <2> HIDE DEF s
  <2>2. /\ m \in MicsType
        /\ \A k \in 1 .. Streams : /\ m[k].open = s[k].open
                                   /\ m[k].on = IF k = p.stream THEN Mic(p) ELSE s[k].on
    BY <1>4, <2>1, AppliedIs DEF s
  <2> HIDE DEF m
  <2> QED BY <1>2, <1>3, <1>4, <2>1, <2>2
<1> HIDE DEF m
<1>10. CallFits(b, m)
  BY <1>2, <1>4, <1>8, <1>9 DEF CallFits, SameCall, Mic
<1>11. RunFits(b, m)
  BY <1>4, <1>8 DEF RunFits, SameCall, NoRun
<1>12. OpenFit(b, m)
  BY <1>0, <1>4, <1>8, <1>9 DEF Fit, OpenFit, SameCall
<1>13. JoinsFit(b, joins)
  <2>1. \A j \in joins : j.at # "opening" => j.call # page.call
    BY <1>0, <1>2 DEF Fit, JoinsFit
  <2> QED BY <1>0, <1>4, <1>8, <2>1 DEF Fit, JoinsFit, SameCall
<1>14. Fit(b, m, joins)
  BY <1>0, <1>8, <1>9, <1>10, <1>11, <1>12, <1>13 DEF Fit
<1>15. Fit(Over(w), m, joins)
  BY <1>6, <1>14, OverFits DEF MicInv, b
<1> QED BY <1>1, <1>15 DEF MicInv

\* Devices that come and go, and a track that falls silent or comes back, change how it sounds.
LEMMA SoundKeeps ==
  ASSUME MicInv, DeviceChanges \/ \E n \in 1 .. Streams : Sound(n)
  PROVE  MicInv'
<1>0. Fit(page, mics, joins) /\ page \in PageType /\ mics \in MicsType /\ wanted \in Devices
  BY DEF MicInv, Fit
<1>1. joins' = joins /\ wanted' = wanted /\ present' \in BOOLEAN /\ refresh' \in BOOLEAN
  BY DEF DeviceChanges, Sound, MicInv
<1>2. /\ mics' \in MicsType
      /\ \A k \in 1 .. Streams : mics'[k].open = mics[k].open /\ mics'[k].on = mics[k].on
  <2>1. CASE DeviceChanges
    <3>1. PICK ends \in SUBSET (1 .. Streams) :
            mics' = [k \in 1 .. Streams |-> IF k \in ends THEN [mics[k] EXCEPT !.ended = TRUE] ELSE mics[k]]
      BY <2>1 DEF DeviceChanges
    <3>2. \A k \in 1 .. Streams : mics[k] \in MicType
      BY <1>0 DEF MicsType
    <3>3. \A c \in MicType : /\ [c EXCEPT !.ended = TRUE] \in MicType
                             /\ [c EXCEPT !.ended = TRUE].open = c.open /\ [c EXCEPT !.ended = TRUE].on = c.on
      BY DEF MicType
    <3> QED BY <3>1, <3>2, <3>3 DEF MicsType
  <2>2. ASSUME NEW n \in 1 .. Streams, Sound(n)
        PROVE  /\ mics' \in MicsType
               /\ \A k \in 1 .. Streams : mics'[k].open = mics[k].open /\ mics'[k].on = mics[k].on
    <3> DEFINE c == [mics[n] EXCEPT !.muted = ~@]
    <3>1. mics' = [mics EXCEPT ![n] = c]
      BY <2>2 DEF Sound
    <3>2. mics[n] \in MicType
      BY <1>0 DEF MicsType
    <3>3. c \in MicType /\ c.open = mics[n].open /\ c.on = mics[n].on
      BY <3>2 DEF MicType
    <3> HIDE DEF c
    <3> QED BY <1>0, <3>1, <3>3 DEF MicsType
  <2> QED BY <2>1, <2>2
<1>3. page' \in PageType /\ Asks(page, page')
  <2>1. Heard(page, "ended") \in PageType /\ Asks(page, Heard(page, "ended"))
    BY <1>0, HeardAsks
  <2>2. Heard(page, "live") \in PageType /\ Asks(page, Heard(page, "live"))
    BY <1>0, HeardAsks
  <2> DEFINE g == [page EXCEPT !.grace = TRUE]
  <2>3. g \in PageType /\ Asks(page, g) /\ Asks(page, page)
    BY <1>0 DEF PageType, Asks, SameCall
  <2>4. page' = page \/ page' = g \/ page' = Heard(page, "ended") \/ page' = Heard(page, "live")
    BY DEF DeviceChanges, Sound
  <2> HIDE DEF g
  <2> QED BY <1>0, <2>1, <2>2, <2>3, <2>4
<1>4. Fit(page, mics', joins)
  BY <1>0, <1>2, FitSound
<1>5. Fit(page', mics', joins)
  BY <1>3, <1>4, FitAsks
<1> QED BY <1>0, <1>1, <1>5 DEF MicInv

\* A connection closed under a replacement leaves what is replaced by what.
LEMMA ClosingKeeps == ASSUME MicInv, ConnectionCloses PROVE MicInv'
<1> DEFINE r == [page.run EXCEPT !.at = "crossed"]
           q == [page EXCEPT !.run = r]
<1>0. Fit(page, mics, joins) /\ page \in PageType /\ page.run \in RunType
  BY DEF MicInv, Fit, PageType
<1>1. page.run.at = "replacing" /\ page' = q /\ UNCHANGED <<mics, joins, wanted, present, refresh>>
  BY DEF ConnectionCloses
<1>2. /\ r \in RunType /\ r.at = "crossed" /\ r.old = page.run.old /\ r.new = page.run.new
      /\ r.call = page.run.call
  BY <1>0 DEF RunType
<1> HIDE DEF r
<1>3. q \in PageType /\ SameCall(page, q) /\ q.run = r
  BY <1>0, <1>2 DEF PageType, SameCall
<1> HIDE DEF q
<1>4. CallFits(q, mics) /\ JoinsFit(q, joins)
  BY <1>0, <1>3 DEF Fit, CallFits, JoinsFit, SameCall, Mic
<1>5. RunFits(q, mics) /\ OpenFit(q, mics)
  BY <1>0, <1>1, <1>2, <1>3 DEF Fit, RunFits, OpenFit, SameCall
<1> QED BY <1>0, <1>1, <1>3, <1>4, <1>5 DEF MicInv, Fit

\* What asks for the microphone again: timers, choices, the list of devices.
LEMMA RequestKeeps ==
  ASSUME MicInv, GraceOver \/ RetryFires \/ Refreshed \/ \E d \in Devices : SetInput(d)
  PROVE  MicInv'
<1>0. Fit(page, mics, joins) /\ page \in PageType /\ wanted \in Devices
  BY DEF MicInv, Fit
<1>1. mics' = mics /\ joins' = joins /\ wanted' \in Devices /\ present' \in BOOLEAN /\ refresh' \in BOOLEAN
  BY DEF GraceOver, RetryFires, Refreshed, SetInput, MicInv
<1>2. page' \in PageType /\ Asks(page, page')
  <2>1. ASSUME NEW q \in PageType, Asks(page, q), NEW d \in Devices
        PROVE  Reacquire(q, d) \in PageType /\ Asks(page, Reacquire(q, d))
    BY <2>1, ReacquireAsks, AsksTwice
  <2>2. CASE GraceOver
    <3> DEFINE g == [page EXCEPT !.grace = FALSE]
    <3>1. g \in PageType /\ Asks(page, g)
      BY <1>0 DEF PageType, Asks, SameCall
    <3>2. page' \in {g, Heard(g, "silent")}
      BY <2>2 DEF GraceOver
    <3> HIDE DEF g
    <3>3. Heard(g, "silent") \in PageType /\ Asks(g, Heard(g, "silent"))
      BY <1>0, <3>1, HeardAsks
    <3> QED BY <3>1, <3>2, <3>3, AsksTwice
  <2>3. CASE RetryFires
    <3> DEFINE g == [page EXCEPT !.retry = FALSE]
    <3>1. g \in PageType /\ Asks(page, g)
      BY <1>0 DEF PageType, Asks, SameCall
    <3>2. page' = Reacquire(g, wanted)
      BY <2>3 DEF RetryFires
    <3> HIDE DEF g
    <3> QED BY <1>0, <2>1, <3>1, <3>2
  <2>4. CASE Refreshed
    <3>1. Asks(page, page)
      BY DEF Asks, SameCall
    <3>2. page' \in {page, Reacquire(page, wanted)}
      BY <2>4 DEF Refreshed
    <3> QED BY <1>0, <2>1, <3>1, <3>2
  <2>5. ASSUME NEW d \in Devices, SetInput(d) PROVE page' \in PageType /\ Asks(page, page')
    <3> DEFINE g == [page EXCEPT !.retries = 0]
    <3>0. 0 \in 0 .. Attempts
      BY NumbersOfMicrophone
    <3>1. g \in PageType /\ Asks(page, g)
      BY <1>0, <3>0 DEF PageType, Asks, SameCall
    <3>2. page' = Reacquire(g, d)
      BY <2>5 DEF SetInput
    <3> HIDE DEF g
    <3> QED BY <2>1, <3>1, <3>2
  <2> QED BY <2>2, <2>3, <2>4, <2>5
<1>3. Fit(page', mics, joins)
  BY <1>0, <1>2, FitAsks
<1> QED BY <1>1, <1>3 DEF MicInv

\* Push-to-talk.
LEMMA TalkKeeps == ASSUME MicInv, Talk PROVE MicInv'
<1> DEFINE p == [page EXCEPT !.talk = ~@]
<1>0. Fit(page, mics, joins) /\ page \in PageType
  BY DEF MicInv, Fit
<1>1. page' = p /\ mics' = Applied(mics, p) /\ UNCHANGED <<joins, wanted, present, refresh>>
  BY DEF Talk
<1>2. p \in PageType /\ p.mesh = page.mesh /\ p.stream = page.stream /\ p.sent = page.sent /\ p.call = page.call
      /\ p.run = page.run
  BY <1>0 DEF PageType
<1> HIDE DEF p
<1>3. Fit(p, Applied(mics, p), joins)
  BY <1>0, <1>2, FitControls
<1> QED BY <1>1, <1>3 DEF MicInv

\* From any number of calls, devices and requests, until a replacement is crossed.
LEMMA MicInvAlways == MicSpec => [](crossed \/ MicInv)
<1>1. MicInit => MicInv
  BY InitFits
<1>2. (crossed \/ MicInv) /\ [MicNext]_micVars => (crossed \/ MicInv)'
  <2> SUFFICES ASSUME crossed \/ MicInv, [MicNext]_micVars, ~crossed' PROVE MicInv'
    OBVIOUS
  <2>0. ~crossed
    BY DEF MicNext, Join, Leave, Rebuild, Clicks, Joining, JoinAsks, JoinStandsIn, JoinRefused, JoinDone, JoinOpens,
           Reopening, RunStandsIn, RunRefused, RunReplaced, RunOpens, RunReplaceFails, DeviceChanges, Happens,
           ConnectionCloses, Sound, SetInput, Talk, GraceOver, RetryFires, Refreshed, micVars
  <2>1. CASE Join \/ Leave \/ Rebuild
    BY <2>0, <2>1, ClickKeeps
  <2>2. CASE Joining
    <3>1. PICK j \in joins : JoinAsks(j) \/ JoinStandsIn(j) \/ JoinRefused(j) \/ JoinDone(j)
                             \/ \E muted \in BOOLEAN : JoinOpens(j, muted)
      BY <2>2 DEF Joining
    <3> QED BY <2>0, <3>1, JoinAsksKeeps, JoinDoneKeeps, JoinOpensKeeps
  <2>3. CASE Reopening
    BY <2>0, <2>3, RunAsksKeeps, RunOpensKeeps, RunReplacedKeeps DEF Reopening
  <2>4. CASE RunReplaceFails
    BY <2>4 DEF RunReplaceFails
  <2>5. CASE DeviceChanges \/ \E n \in 1 .. Streams : Sound(n)
    BY <2>0, <2>5, SoundKeeps
  <2>6. CASE ConnectionCloses
    BY <2>0, <2>6, ClosingKeeps
  <2>7. CASE GraceOver \/ RetryFires \/ Refreshed \/ \E d \in Devices : SetInput(d)
    BY <2>0, <2>7, RequestKeeps
  <2>8. CASE Talk
    BY <2>0, <2>8, TalkKeeps
  <2>9. CASE UNCHANGED micVars
    BY <2>0, <2>9 DEF MicInv, micVars, Fit, OpenFit, CallFits, RunFits, Mic
  <2> QED BY <2>1, <2>2, <2>3, <2>4, <2>5, <2>6, <2>7, <2>8, <2>9 DEF MicNext
<1> QED BY <1>1, <1>2, PTL DEF MicSpec

\* Every open microphone is the one of the call or about to be, whatever is left, joined, chosen, lost
\* and reopened across the awaits of useVoice (useVoice.ts:355): by OpenFit.
THEOREM NoOrphanAlways == MicSpec => []NoOrphan
<1>1. crossed \/ MicInv => NoOrphan
  BY DEF MicInv, Fit, OpenFit, CallFits, NoOrphan, Open
<1> QED BY <1>1, MicInvAlways, PTL

\* In a call the microphone of the call is open and on exactly while the controls say so, and it is the
\* one that is sent, or while it is being replaced the one that is to be (useVoice.ts:358).
THEOREM SentIsAsSetAlways == MicSpec => []SentIsAsSet
<1>1. crossed \/ MicInv => SentIsAsSet
  <2> SUFFICES ASSUME crossed \/ MicInv, page.mesh /\ ~crossed
               PROVE  /\ page.stream \in Open /\ mics[page.stream].on = Mic(page)
                      /\ page.sent = IF page.run.at \in Replacing THEN page.run.new ELSE page.stream
                      /\ page.sent \in Open
    BY DEF SentIsAsSet
  <2>1. MicInv
    OBVIOUS
  <2>2. page.stream \in 0 .. Streams /\ page.run.new \in 0 .. Streams /\ Streams \in Nat
    BY <2>1, NumbersOfMicrophone DEF MicInv, Fit, PageType, RunType
  <2>3. CallFits(page, mics) /\ RunFits(page, mics)
    BY <2>1 DEF MicInv, Fit
  <2>4. page.stream \in Open /\ mics[page.stream].on = Mic(page)
    BY <2>2, <2>3 DEF CallFits, Open
  <2>5. CASE page.run.at \in Replacing
    <3>1. page.sent = page.run.new /\ page.run.new # 0 /\ mics[page.run.new].open
      BY <2>3, <2>5 DEF RunFits
    <3> QED BY <2>2, <2>4, <2>5, <3>1 DEF Open
  <2>6. CASE page.run.at \notin Replacing
    BY <2>3, <2>4, <2>6 DEF RunFits
  <2> QED BY <2>4, <2>5, <2>6
<1> QED BY <1>1, MicInvAlways, PTL
HIDE DEF Replacing

(***************************************************************************)
(* FilmLifecycle.  First what every handler leaves of the types (FilmFits) *)
(* and of the list of handlers, then two invariants on top of it: ShareInv *)
(* about what this machine puts on, WatchInv about what it only watches.   *)
(***************************************************************************)
\* The loads outstanding are those of the handlers that await one, each its own;
\* a handler at any other await than those of closeFilm knows its film.
LoadsWait ==
  /\ \A i \in DOMAIN loads : jobs[loads[i]].at \in {"load", "open"}
  /\ \A i, k \in DOMAIN loads : loads[i] = loads[k] => i = k
  /\ \A j \in DOMAIN jobs : jobs[j].at \in {"load", "open"} => \E i \in DOMAIN loads : loads[i] = j
SourcesKnown ==
  \A j \in DOMAIN jobs : jobs[j].at \notin {"stop", "unload", "done"} => jobs[j].source # None

HandlersFit == jobs \in Seq(Job) /\ loads \in Seq(DOMAIN jobs) /\ LoadsWait /\ SourcesKnown

\* What Go(j, job) leaves.
Moved(j, job) ==
  /\ jobs' \in Seq(Job) /\ DOMAIN jobs' = DOMAIN jobs \cup {j}
  /\ jobs'[j] = job /\ \A k \in DOMAIN jobs : k # j => jobs'[k] = jobs[k]
  /\ DOMAIN jobs = 1 .. Len(jobs) /\ DOMAIN jobs' = 1 .. Len(jobs')

LEMMA GoMoves ==
  ASSUME jobs \in Seq(Job), NEW j \in DOMAIN jobs \cup {Len(jobs) + 1}, NEW job \in Job, Go(j, job)
  PROVE  Moved(j, job)
<1>1. CASE j \in DOMAIN jobs
  <2>1. jobs' = [jobs EXCEPT ![j] = job]
    BY <1>1 DEF Go
  <2>2. jobs' \in Seq(Job) /\ Len(jobs') = Len(jobs)
    BY <1>1, <2>1
  <2>3. jobs'[j] = job /\ \A k \in DOMAIN jobs : k # j => jobs'[k] = jobs[k]
    BY <1>1, <2>1
  <2>4. DOMAIN jobs = 1 .. Len(jobs) /\ DOMAIN jobs' = 1 .. Len(jobs')
    BY <2>2
  <2> QED BY <1>1, <2>2, <2>3, <2>4 DEF Moved
<1>2. CASE j \notin DOMAIN jobs
  <2>1. jobs' = Append(jobs, job) /\ j = Len(jobs) + 1
    BY <1>2 DEF Go, Begin
  <2>2. jobs' \in Seq(Job) /\ Len(jobs') = Len(jobs) + 1 /\ Len(jobs) \in Nat
    BY <2>1
  <2>3. jobs'[j] = job /\ \A k \in DOMAIN jobs : k # j => jobs'[k] = jobs[k]
    BY <2>1
  <2>4. DOMAIN jobs = 1 .. Len(jobs) /\ DOMAIN jobs' = 1 .. Len(jobs')
    BY <2>2
  <2> QED BY <2>1, <2>2, <2>3, <2>4 DEF Moved
<1> QED BY <1>1, <1>2

LEMMA BeginGoes ==
  ASSUME jobs \in Seq(Job), NEW job, Begin(job) PROVE Go(Len(jobs) + 1, job)
<1>1. Len(jobs) + 1 \notin DOMAIN jobs
  OBVIOUS
<1> QED BY <1>1 DEF Go

\* Sources, and the jobs they are in.
LEMMA FilmData ==
  /\ None \notin Film /\ None \notin Source
  /\ \A s \in Source : s.film \in Film /\ s.kind \in Mode /\ s = [film |-> s.film, kind |-> s.kind]
  /\ \A f \in Film, k \in Mode : [film |-> f, kind |-> k] \in Source
  /\ \A s \in Optional(Source) : s # None => s \in Source
  /\ \A s \in Optional(Film) : s # None => s \in Film
<1>1. None \notin Film /\ None \notin Source
  BY FilmAssumption DEF Film, Source, Mode
<1> QED BY <1>1 DEF Source, Optional

LEMMA WaitsIsJob ==
  ASSUME NEW s \in Optional(Source), NEW at \in Waiting \cup {"done"}, NEW via \in Nat
  PROVE  Waits(s, at, via) \in Job /\ Waits(s, at, via).at = at /\ Waits(s, at, via).source = s
         /\ Waits(s, at, via).via = via
BY DEF Waits, Job

LEMMA JobMovesOn ==
  ASSUME NEW job \in Job, NEW at \in Waiting
  PROVE  [job EXCEPT !.at = at] = Waits(job.source, at, job.via) /\ [job EXCEPT !.at = at] \in Job
<1>1. job = [source |-> job.source, at |-> job.at, via |-> job.via]
      /\ job.source \in Optional(Source) /\ job.via \in Nat
  BY DEF Job
<1>2. [job EXCEPT !.at = at] = [source |-> job.source, at |-> at, via |-> job.via]
  BY <1>1
<1> QED BY <1>1, <1>2, WaitsIsJob DEF Waits

LEMMA DoneIsJob == Done \in Job /\ Done.at = "done" /\ Done.source = None
BY DEF Done, Waits, Job, Optional

\* A handler that awaits no load moves, and begins none.
LEMMA HandlerMoves ==
  ASSUME HandlersFit, NEW j \in DOMAIN jobs \cup {Len(jobs) + 1}, NEW job \in Job, Go(j, job),
         job.at \notin {"load", "open"}, job.at \notin {"stop", "unload", "done"} => job.source # None,
         j \in DOMAIN jobs => jobs[j].at \notin {"load", "open"}, loads' = loads
  PROVE  HandlersFit' /\ Moved(j, job)
<1>1. Moved(j, job)
  BY GoMoves DEF HandlersFit
<1>2. \A i \in DOMAIN loads : loads[i] \in DOMAIN jobs /\ loads[i] # j
  BY DEF HandlersFit, LoadsWait
<1>3. loads' \in Seq(DOMAIN jobs')
  BY <1>1 DEF HandlersFit, Moved
<1>4. LoadsWait'
  <2>1. \A i \in DOMAIN loads' : jobs'[loads'[i]].at \in {"load", "open"}
    BY <1>1, <1>2 DEF HandlersFit, LoadsWait, Moved
  <2>2. \A i, k \in DOMAIN loads' : loads'[i] = loads'[k] => i = k
    BY DEF HandlersFit, LoadsWait
  <2>3. ASSUME NEW k \in DOMAIN jobs', jobs'[k].at \in {"load", "open"}
        PROVE  \E i \in DOMAIN loads' : loads'[i] = k
    <3>1. k # j /\ k \in DOMAIN jobs /\ jobs'[k] = jobs[k]
      BY <1>1, <2>3 DEF Moved
    <3> QED BY <2>3, <3>1 DEF HandlersFit, LoadsWait
  <2> QED BY <2>1, <2>2, <2>3 DEF LoadsWait
<1>5. SourcesKnown'
  BY <1>1 DEF HandlersFit, SourcesKnown, Moved
<1> QED BY <1>1, <1>3, <1>4, <1>5 DEF HandlersFit, Moved

\* A handler comes to await a load.
LEMMA LoadBegins ==
  ASSUME HandlersFit, NEW j \in DOMAIN jobs \cup {Len(jobs) + 1}, NEW job \in Job, Go(j, job),
         job.at \in {"load", "open"}, job.source # None,
         j \in DOMAIN jobs => jobs[j].at \notin {"load", "open"}, loads' = Append(loads, j)
  PROVE  HandlersFit' /\ Moved(j, job)
<1>1. Moved(j, job)
  BY GoMoves DEF HandlersFit
<1>2. \A i \in DOMAIN loads : loads[i] \in DOMAIN jobs /\ loads[i] # j
  BY DEF HandlersFit, LoadsWait
<1>3. /\ loads' \in Seq(DOMAIN jobs') /\ DOMAIN loads' = DOMAIN loads \cup {Len(loads) + 1}
      /\ loads'[Len(loads) + 1] = j /\ \A i \in DOMAIN loads : loads'[i] = loads[i]
      /\ Len(loads) + 1 \notin DOMAIN loads
  <2>0. DOMAIN jobs' = DOMAIN jobs \cup {j} /\ loads \in Seq(DOMAIN jobs)
    BY <1>1 DEF HandlersFit, Moved
  <2>1. loads \in Seq(DOMAIN jobs') /\ j \in DOMAIN jobs'
    <3> DEFINE A == DOMAIN jobs
               B == DOMAIN jobs'
    <3>1. A \subseteq B /\ j \in B /\ loads \in Seq(A)
      BY <2>0
    <3> HIDE DEF A, B
    <3>2. loads \in Seq(B)
      BY <3>1
    <3> QED BY <3>1, <3>2 DEF B
  <2> QED BY <2>1
<1>4. LoadsWait'
  <2>1. \A i \in DOMAIN loads' : jobs'[loads'[i]].at \in {"load", "open"}
    BY <1>1, <1>2, <1>3 DEF HandlersFit, LoadsWait, Moved
  <2>2. \A i, k \in DOMAIN loads' : loads'[i] = loads'[k] => i = k
    BY <1>1, <1>2, <1>3 DEF HandlersFit, LoadsWait, Moved
  <2>3. ASSUME NEW k \in DOMAIN jobs', jobs'[k].at \in {"load", "open"}
        PROVE  \E i \in DOMAIN loads' : loads'[i] = k
    <3>1. CASE k = j
      BY <1>3, <3>1
    <3>2. CASE k # j
      <4>1. k \in DOMAIN jobs /\ jobs'[k] = jobs[k]
        BY <1>1, <3>2 DEF Moved
      <4>2. PICK i \in DOMAIN loads : loads[i] = k
        BY <2>3, <4>1 DEF HandlersFit, LoadsWait
      <4> QED BY <1>3, <4>2
    <3> QED BY <3>1, <3>2
  <2> QED BY <2>1, <2>2, <2>3 DEF LoadsWait
<1>5. SourcesKnown'
  BY <1>1 DEF HandlersFit, SourcesKnown, Moved
<1> QED BY <1>1, <1>3, <1>4, <1>5 DEF HandlersFit, Moved

\* A list without one of its elements.
LEMMA Without ==
  ASSUME NEW S, NEW s \in Seq(S), NEW i \in DOMAIN s
  PROVE  /\ RemoveAt(s, i) \in Seq(S) /\ Len(RemoveAt(s, i)) = Len(s) - 1
         /\ \A k \in DOMAIN RemoveAt(s, i) :
              RemoveAt(s, i)[k] = IF k < i THEN s[k] ELSE s[k + 1]
<1>1. /\ SubSeq(s, 1, i - 1) \in Seq(S) /\ Len(SubSeq(s, 1, i - 1)) = i - 1
      /\ \A k \in 1 .. i - 1 : SubSeq(s, 1, i - 1)[k] = s[k]
  OBVIOUS
<1>2. /\ SubSeq(s, i + 1, Len(s)) \in Seq(S) /\ Len(SubSeq(s, i + 1, Len(s))) = Len(s) - i
      /\ \A k \in 1 .. Len(s) - i : SubSeq(s, i + 1, Len(s))[k] = s[i + k]
  OBVIOUS
<1> DEFINE a == SubSeq(s, 1, i - 1)
           b == SubSeq(s, i + 1, Len(s))
<1>3. RemoveAt(s, i) = a \o b
  BY DEF RemoveAt
<1>4. a \in Seq(S) /\ b \in Seq(S) /\ Len(a) = i - 1 /\ Len(b) = Len(s) - i
  BY <1>1, <1>2
<1>5. i \in 1 .. Len(s) /\ Len(s) \in Nat
  OBVIOUS
<1>6. /\ \A k \in 1 .. i - 1 : a[k] = s[k]
      /\ \A k \in 1 .. Len(s) - i : b[k] = s[i + k]
  BY <1>1, <1>2
<1> HIDE DEF a, b
<1>7. /\ a \o b \in Seq(S) /\ Len(a \o b) = Len(s) - 1
      /\ \A k \in 1 .. Len(s) - 1 : (a \o b)[k] = IF k <= i - 1 THEN a[k] ELSE b[k - (i - 1)]
  <2>1. Len(a) + Len(b) = Len(s) - 1
    BY <1>4, <1>5
  <2>2. /\ a \o b \in Seq(S) /\ Len(a \o b) = Len(a) + Len(b)
        /\ \A k \in 1 .. Len(a) + Len(b) :
             (a \o b)[k] = IF k <= Len(a) THEN a[k] ELSE b[k - Len(a)]
    BY <1>4, Concatenated, Zenon
  <2>3. Len(a) = i - 1
    BY <1>4
  <2> QED BY <2>1, <2>2, <2>3, Zenon
<1>8. ASSUME NEW k \in 1 .. Len(s) - 1 PROVE (a \o b)[k] = IF k < i THEN s[k] ELSE s[k + 1]
  <2>1. CASE k < i
    <3>1. k \in 1 .. i - 1 /\ k <= i - 1
      BY <2>1, <1>5
    <3>2. (a \o b)[k] = a[k] /\ a[k] = s[k]
      BY <3>1, <1>6, <1>7
    <3> QED BY <2>1, <3>2
  <2>2. CASE ~(k < i)
    <3>1. k - (i - 1) \in 1 .. Len(s) - i /\ i + (k - (i - 1)) = k + 1 /\ ~(k <= i - 1)
      BY <2>2, <1>5
    <3> QED BY <2>2, <3>1, <1>6, <1>7
  <2> QED BY <2>1, <2>2
<1>9. DOMAIN (a \o b) = 1 .. Len(s) - 1
  BY <1>5, <1>7
<1> QED BY <1>3, <1>7, <1>8, <1>9

LEMMA LoadEnds ==
  ASSUME HandlersFit, NEW j \in DOMAIN jobs, Go(j, Done),
         NEW i \in DOMAIN loads, loads[i] = j, loads' = RemoveAt(loads, i)
  PROVE  HandlersFit' /\ Moved(j, Done) /\ (Last(loads) # j => loads' # <<>> /\ Last(loads') = Last(loads))
<1>1. Moved(j, Done)
  BY GoMoves, DoneIsJob DEF HandlersFit
<1>2. /\ loads' \in Seq(DOMAIN jobs) /\ Len(loads') = Len(loads) - 1
      /\ \A k \in DOMAIN loads' : loads'[k] = IF k < i THEN loads[k] ELSE loads[k + 1]
  BY Without DEF HandlersFit
<1>3. DOMAIN loads = 1 .. Len(loads) /\ DOMAIN loads' = 1 .. Len(loads) - 1 /\ Len(loads) \in Nat
  BY <1>2 DEF HandlersFit
<1>4. \A k \in DOMAIN loads' : loads'[k] \in DOMAIN jobs /\ loads'[k] # j /\ jobs[loads'[k]].at \in {"load", "open"}
  <2> SUFFICES ASSUME NEW k \in DOMAIN loads'
               PROVE  loads'[k] \in DOMAIN jobs /\ loads'[k] # j /\ jobs[loads'[k]].at \in {"load", "open"}
    OBVIOUS
  <2>1. k \in DOMAIN loads /\ k + 1 \in DOMAIN loads /\ (k < i \/ k + 1 # i)
    <3> DEFINE n == Len(loads)
    <3>1. i \in 1 .. n /\ k \in 1 .. n - 1 /\ n \in Nat
      BY <1>3
    <3> HIDE DEF n
    <3>2. k \in 1 .. n /\ k + 1 \in 1 .. n /\ (k < i \/ k + 1 # i)
      BY <3>1
    <3> QED BY <1>3, <3>2 DEF n
  <2>2. i \in Nat /\ k \in Nat
    BY <1>3
  <2>3. PICK m \in DOMAIN loads : m # i /\ loads'[k] = loads[m]
    <3>1. CASE k < i
      BY <3>1, <1>2, <2>1, <2>2
    <3>2. CASE ~(k < i)
      BY <3>2, <1>2, <2>1, <2>2
    <3> QED BY <3>1, <3>2
  <2>4. loads[m] # j /\ jobs[loads[m]].at \in {"load", "open"}
    BY <2>3 DEF HandlersFit, LoadsWait
  <2>5. loads[m] \in DOMAIN jobs
    BY <2>3 DEF HandlersFit
  <2> QED BY <2>3, <2>4, <2>5
<1>5. \A k, m \in DOMAIN loads' : loads'[k] = loads'[m] => k = m
  <2> SUFFICES ASSUME NEW k \in DOMAIN loads', NEW m \in DOMAIN loads', loads'[k] = loads'[m] PROVE k = m
    OBVIOUS
  <2> DEFINE n == Len(loads)
             At(x) == IF x < i THEN x ELSE x + 1
  <2>1. i \in 1 .. n /\ k \in 1 .. n - 1 /\ m \in 1 .. n - 1 /\ n \in Nat
    BY <1>3
  <2>2. loads'[k] = loads[At(k)] /\ loads'[m] = loads[At(m)]
    BY <1>2
  <2>3. DOMAIN loads = 1 .. n
    BY <1>3
  <2> HIDE DEF n
  <2>4. At(k) \in DOMAIN loads /\ At(m) \in DOMAIN loads
    BY <2>1, <2>3
  <2>5. At(k) = At(m)
    BY <2>2, <2>4 DEF HandlersFit, LoadsWait
  <2> QED BY <2>1, <2>5
<1>9. ASSUME NEW k \in DOMAIN jobs', jobs'[k].at \in {"load", "open"}
      PROVE  \E m \in DOMAIN loads' : loads'[m] = k
  <2>1. k # j /\ k \in DOMAIN jobs /\ jobs'[k] = jobs[k]
    BY <1>1, <1>9, DoneIsJob DEF Moved
  <2>2. PICK m \in DOMAIN loads : loads[m] = k
    BY <1>9, <2>1 DEF HandlersFit, LoadsWait
  <2> DEFINE n == Len(loads)
             p == IF m < i THEN m ELSE m - 1
  <2>3. m # i /\ m \in 1 .. n /\ i \in 1 .. n /\ n \in Nat
    BY <1>3, <2>1, <2>2
  <2> HIDE DEF n
  <2>4. p \in 1 .. n - 1 /\ (IF p < i THEN p = m ELSE p + 1 = m)
    BY <2>3
  <2> HIDE DEF p
  <2>5. p \in DOMAIN loads'
    BY <1>3, <2>4 DEF n
  <2>6. loads'[p] = loads[m]
    BY <1>2, <2>4, <2>5
  <2> QED BY <2>2, <2>5, <2>6
<1>6. LoadsWait' /\ loads' \in Seq(DOMAIN jobs')
  <2>1. \A m \in DOMAIN loads' : jobs'[loads'[m]].at \in {"load", "open"}
    BY <1>1, <1>4 DEF Moved
  <2>2. loads' \in Seq(DOMAIN jobs')
    BY <1>1, <1>2 DEF Moved
  <2> QED BY <1>5, <1>9, <2>1, <2>2 DEF LoadsWait
<1>7. SourcesKnown'
  BY <1>1, DoneIsJob DEF HandlersFit, SourcesKnown, Moved
<1>8. Last(loads) # j => loads' # <<>> /\ Last(loads') = Last(loads)
  BY <1>2, <1>3 DEF Last
<1> QED BY <1>1, <1>6, <1>7, <1>8 DEF HandlersFit, Moved

-----------------------------------------------------------------------------
FilmMe == [path: Optional(Film), sharedId: Optional(Source),
           sharing: {"off", "sharing", "paused"}, announced: BOOLEAN,
           receiving: Optional(Source), roomFilmId: Optional(Source),
           error: {"none", "failed", "no transport"}]
MeFits(m) == m \in FilmMe /\ (m.sharing = "off" <=> m.sharedId = None)
Transport == [kind: Mode \cup {"none"}, serial: Nat]

\* FilmTypeOK without the handlers, in the names above.
RoomFits ==
  /\ room \in [source: Optional(Source), mode: Mode, byUs: BOOLEAN]
  /\ news \in Seq(State) /\ view \in State /\ here \in {"out", "joining", "in"}
  /\ turns \in 0 .. MaxTurns
DesktopFits ==
  /\ transport \in Transport /\ held \subseteq Source /\ MeFits(me)
  /\ playing \in Optional(Film) /\ latest \in DOMAIN jobs \cup {0}
FilmFits == RoomFits /\ DesktopFits /\ HandlersFit

LEMMA FitsMeansType == FilmFits => FilmTypeOK
<1> SUFFICES ASSUME FilmFits PROVE FilmTypeOK
  OBVIOUS
<1>1. latest \in 0 .. Len(jobs)
  BY DEF FilmFits, DesktopFits, HandlersFit
<1> QED BY <1>1 DEF FilmFits, RoomFits, DesktopFits, HandlersFit, MeFits, FilmMe, Transport, FilmTypeOK

LEMMA BlankFits == MeFits(Blank)
BY DEF Blank, MeFits, FilmMe, Optional

LEMMA FitsAtFirst == FilmInit => FilmFits
<1> SUFFICES ASSUME FilmInit PROVE FilmFits
  OBVIOUS
<1>1. RoomFits
  BY FilmAssumption DEF FilmInit, RoomFits, State, Optional, Source, Mode, Film
<1>2. jobs = <<>> /\ loads = <<>>
  BY DEF FilmInit
<1>3. HandlersFit
  BY <1>2 DEF HandlersFit, LoadsWait, SourcesKnown
<1>4. DesktopFits
  BY BlankFits DEF FilmInit, DesktopFits, Transport, Optional
<1> QED BY <1>1, <1>3, <1>4 DEF FilmFits

\* What the room is told is of the room's type.
LEMMA TellFits ==
  ASSUME RoomFits, NEW s \in Optional(Source), NEW mode \in Mode, NEW b \in BOOLEAN, Tell(s, mode, b),
         UNCHANGED <<view, here>>, turns' \in 0 .. MaxTurns
  PROVE  RoomFits'
<1>1. [source |-> s, mode |-> mode] \in State
  BY DEF State
<1>2. news' \in Seq(State)
  BY <1>1 DEF Tell, RoomFits
<1>3. room' \in [source: Optional(Source), mode: Mode, byUs: BOOLEAN]
  BY DEF Tell
<1> QED BY <1>2, <1>3 DEF RoomFits

LEMMA MoveFits == ASSUME RoomFits, Move PROVE turns' \in 0 .. MaxTurns
BY FilmAssumption DEF RoomFits, Move

LEMMA StaysFits ==
  ASSUME FilmFits, UNCHANGED <<transport, held, me, playing, loads, jobs, latest>>
  PROVE  DesktopFits' /\ HandlersFit'
<1>1. DesktopFits'
  BY DEF FilmFits, DesktopFits, MeFits
<1>2. HandlersFit'
  BY DEF FilmFits, HandlersFit, LoadsWait, SourcesKnown
<1> QED BY <1>1, <1>2

LEMMA TransportFits ==
  ASSUME FilmFits, NEW entered \in BOOLEAN, NEW mode \in Mode
  PROVE  EnsureTransfer(entered, mode) \in Transport /\ StillHeld(entered, mode) \subseteq Source
<1>1. transport \in Transport /\ held \subseteq Source
  BY DEF FilmFits, DesktopFits
<1> QED BY <1>1 DEF EnsureTransfer, StillHeld, Transport

\* What closeFilm does before its first await.
LEMMA CloseFilmLeaves ==
  ASSUME FilmFits, NEW source \in Optional(Source), NEW note, CloseFilm(source, note)
  PROVE  /\ DesktopFits' /\ HandlersFit'
         /\ latest' = 0 /\ UNCHANGED <<transport, me, loads>>
         /\ history' = history \cup (note \cup Crossing)
         /\ LET id == IF me.sharedId # None THEN me.sharedId ELSE me.receiving IN
            \/ /\ id # None /\ held' = held \ {id} /\ UNCHANGED playing
               /\ Moved(Len(jobs) + 1, Waits(source, "stop", 0))
            \/ /\ id = None \/ transport.kind = "none"
               /\ held' = held /\ playing' = None
               /\ Moved(Len(jobs) + 1, Waits(source, "unload", 0))
<1> DEFINE id == IF me.sharedId # None THEN me.sharedId ELSE me.receiving
           n == Len(jobs) + 1
<1>1. /\ latest' = 0 /\ UNCHANGED <<transport, me, loads>>
      /\ history' = history \cup (note \cup Crossing)
  BY DEF CloseFilm, Note
<1>2. n \notin DOMAIN jobs /\ jobs \in Seq(Job)
  BY DEF FilmFits, HandlersFit
<1>3. CASE id # None /\ transport.kind # "none"
  <2>1. held' = held \ {id} /\ Begin(Waits(source, "stop", 0)) /\ UNCHANGED playing
    BY <1>3 DEF CloseFilm
  <2>2. Waits(source, "stop", 0) \in Job /\ Waits(source, "stop", 0).at = "stop"
    BY WaitsIsJob DEF Waiting
  <2>3. HandlersFit' /\ Moved(n, Waits(source, "stop", 0))
    BY <1>1, <1>2, <2>1, <2>2, BeginGoes, HandlerMoves DEF FilmFits
  <2>4. DesktopFits'
    BY <1>1, <2>1 DEF FilmFits, DesktopFits, MeFits
  <2> QED BY <1>1, <1>3, <2>1, <2>3, <2>4
<1>4. CASE ~(id # None /\ transport.kind # "none")
  <2>1. held' = held /\ Begin(Waits(source, "unload", 0)) /\ playing' = None
    BY <1>4 DEF CloseFilm
  <2>2. Waits(source, "unload", 0) \in Job /\ Waits(source, "unload", 0).at = "unload"
    BY WaitsIsJob DEF Waiting
  <2>3. HandlersFit' /\ Moved(n, Waits(source, "unload", 0))
    BY <1>1, <1>2, <2>1, <2>2, BeginGoes, HandlerMoves DEF FilmFits
  <2>4. DesktopFits'
    BY <1>1, <2>1 DEF FilmFits, DesktopFits, MeFits, Optional
  <2> QED BY <1>1, <1>4, <2>1, <2>3, <2>4
<1> QED BY <1>3, <1>4

\* What a fetch does before it awaits the transport.
LEMMA FetchLeaves ==
  ASSUME FilmFits, NEW j \in DOMAIN jobs \cup {Len(jobs) + 1}, NEW source \in Source, NEW mode \in Mode,
         NEW m, MeFits(m), Fetch(j, source, mode, m), UNCHANGED <<loads, playing>>,
         j \in DOMAIN jobs => jobs[j].at \notin {"load", "open"}
  PROVE  /\ DesktopFits' /\ HandlersFit' /\ latest' = j
         /\ transport' = EnsureTransfer(here = "in", mode)
         /\ \/ /\ transport'.kind = "none" /\ held' = {} /\ Moved(j, Done)
               /\ me' = [m EXCEPT !.receiving = None, !.error = "no transport"]
            \/ /\ transport'.kind # "none"
               /\ held' \subseteq held \cup {source}
               /\ \E at \in {"refused", "receive"} : Moved(j, Waits(source, at, transport'.serial))
               /\ me' = [m EXCEPT !.receiving = source, !.error = "none"]
<1> DEFINE tm == EnsureTransfer(here = "in", mode)
           still == StillHeld(here = "in", mode)
<1>1. latest' = j /\ transport' = tm
  BY DEF Fetch
<1>2. tm \in Transport /\ still \subseteq Source
  BY TransportFits
<1>3. j \in DOMAIN jobs' => latest' \in DOMAIN jobs' \cup {0}
  BY <1>1
<1>4. source \in Optional(Source) /\ None \in Optional(Source) /\ source # None
  BY FilmData DEF Optional
<1>5. playing \in Optional(Film)
  BY DEF FilmFits, DesktopFits
<1>6. CASE tm.kind = "none"
  <2>1. held' = {} /\ Go(j, Done) /\ me' = [m EXCEPT !.receiving = None, !.error = "no transport"]
    BY <1>1, <1>6 DEF Fetch
  <2>2. HandlersFit' /\ Moved(j, Done)
    BY <2>1, DoneIsJob, HandlerMoves DEF FilmFits
  <2>3. MeFits(me')
    BY <1>4, <2>1 DEF MeFits, FilmMe
  <2>4. DesktopFits'
    BY <1>1, <1>2, <1>3, <1>5, <2>1, <2>2, <2>3 DEF DesktopFits, Moved, MeFits
  <2> QED BY <1>1, <1>6, <2>1, <2>2, <2>4
<1>7. CASE tm.kind # "none"
  <2> DEFINE at == IF Twice(source, tm) THEN "refused" ELSE "receive"
  <2>1. /\ me' = [m EXCEPT !.receiving = source, !.error = "none"] /\ Go(j, Waits(source, at, tm.serial))
        /\ held' = still \cup (IF tm.kind = "origin" /\ source.kind = "origin" THEN {source} ELSE {})
    BY <1>1, <1>7 DEF Fetch
  <2>2. at \in {"refused", "receive"} /\ at \in Waiting \cup {"done"} /\ tm.serial \in Nat
    BY <1>2 DEF Waiting, Transport
  <2> HIDE DEF at
  <2>3. /\ Waits(source, at, tm.serial) \in Job /\ Waits(source, at, tm.serial).at = at
        /\ Waits(source, at, tm.serial).source = source
    BY <1>4, <2>2, WaitsIsJob
  <2>4. HandlersFit' /\ Moved(j, Waits(source, at, tm.serial))
    BY <1>4, <2>1, <2>2, <2>3, HandlerMoves DEF FilmFits
  <2>5. MeFits(me')
    BY <1>4, <2>1 DEF MeFits, FilmMe
  <2>6. held' \subseteq held \cup {source} /\ held' \subseteq Source
    <3>1. still \subseteq held
      BY DEF StillHeld
    <3> QED BY <1>2, <2>1, <3>1
  <2>7. DesktopFits'
    BY <1>1, <1>2, <1>3, <1>5, <2>1, <2>4, <2>5, <2>6 DEF DesktopFits, Moved, MeFits
  <2> QED BY <1>1, <1>7, <2>1, <2>2, <2>4, <2>6, <2>7
<1> QED BY <1>6, <1>7

LEMMA FunctionSeq ==
  ASSUME NEW S, NEW n \in Nat, NEW f \in [1 .. n -> S]
  PROVE  f \in Seq(S) /\ Len(f) = n
<1>1. f = [i \in 1 .. n |-> f[i]] /\ \A i \in 1 .. n : f[i] \in S
  OBVIOUS
<1>2. [i \in 1 .. n |-> f[i]] \in Seq(S) /\ Len([i \in 1 .. n |-> f[i]]) = n
  BY <1>1
<1> QED BY <1>1, <1>2

LEMMA ReceivedFits ==
  ASSUME NEW s \in Source, NEW f \in Film, NEW e \in {"none", "failed", "no transport"}
  PROVE  MeFits([path |-> f, sharedId |-> s, sharing |-> "sharing", announced |-> FALSE,
                 receiving |-> None, roomFilmId |-> s, error |-> e])
<1>1. s # None
  BY FilmData
<1>2. s \in Optional(Source) /\ None \in Optional(Source) /\ f \in Optional(Film)
  BY DEF Optional
<1> DEFINE m == [path |-> f, sharedId |-> s, sharing |-> "sharing", announced |-> FALSE,
                 receiving |-> None, roomFilmId |-> s, error |-> e]
<1>3. m \in FilmMe
  BY <1>2 DEF FilmMe
<1> QED BY <1>1, <1>3 DEF MeFits

\* What a load that has returned leaves.
LEMMA LoadedLeaves ==
  ASSUME HandlersFit, NEW j \in DOMAIN jobs, jobs[j].at \in {"load", "open"}, NEW m, MeFits(m)
  PROVE  /\ MeFits(Loaded(m, j)) /\ Loaded(m, j).error = m.error
         /\ jobs[j].at = "open" => /\ Loaded(m, j).path = jobs[j].source.film /\ Loaded(m, j).sharedId = None
                                   /\ Loaded(m, j).announced = FALSE /\ Loaded(m, j).receiving = m.receiving
         /\ jobs[j].at = "load" =>
              Loaded(m, j) = [path |-> jobs[j].source.film, sharedId |-> jobs[j].source, sharing |-> "sharing",
                              announced |-> FALSE, receiving |-> None, roomFilmId |-> jobs[j].source,
                              error |-> m.error]
<1>1. jobs[j].source \in Source
  <2>1. jobs[j] \in Job
    BY DEF HandlersFit
  <2>2. jobs[j].source \in Optional(Source) /\ jobs[j].source # None
    BY <2>1 DEF HandlersFit, SourcesKnown, Job
  <2> QED BY <2>2, FilmData
<1>2. jobs[j].source # None /\ jobs[j].source.film \in Film
  BY <1>1, FilmData
<1>3. CASE jobs[j].at = "load"
  <2>1. Loaded(m, j) = [path |-> jobs[j].source.film, sharedId |-> jobs[j].source, sharing |-> "sharing",
                        announced |-> FALSE, receiving |-> None, roomFilmId |-> jobs[j].source,
                        error |-> m.error]
    BY <1>3 DEF Loaded, MeFits, FilmMe
  <2>2. m.error \in {"none", "failed", "no transport"}
    BY DEF MeFits, FilmMe
  <2>3. MeFits(Loaded(m, j))
    BY <1>1, <1>2, <2>1, <2>2, ReceivedFits
  <2> QED BY <1>3, <2>1, <2>3
<1>4. CASE jobs[j].at = "open"
  <2>1. Loaded(m, j) = [m EXCEPT !.path = jobs[j].source.film, !.sharing = "off",
                                 !.sharedId = None, !.announced = FALSE]
    BY <1>4 DEF Loaded
  <2> QED BY <1>1, <1>2, <1>4, <2>1 DEF MeFits, FilmMe, Optional
<1> QED BY <1>3, <1>4

\* What is left of the handlers and of `me' when the player has opened its file.
LEMMA FileLoadedLeaves ==
  ASSUME FilmFits, FileLoaded
  PROVE  /\ HandlersFit' /\ DesktopFits' /\ loads # <<>> /\ loads' = <<>> /\ Last(loads) \in DOMAIN jobs
         /\ DOMAIN jobs' = DOMAIN jobs
         /\ \A j \in DOMAIN jobs : jobs'[j] = IF \E i \in DOMAIN loads : loads[i] = j THEN Done ELSE jobs[j]
         /\ \E i \in DOMAIN loads : loads[i] = Last(loads)
         /\ me'.receiving \in {me.receiving, None}
         /\ (\E i \in DOMAIN loads : jobs[loads[i]].at = "load") => me'.receiving = None
         /\ jobs[Last(loads)].at = "open" => me'.sharedId = None
         /\ jobs[Last(loads)].at = "load" =>
              me' = [path |-> jobs[Last(loads)].source.film, sharedId |-> jobs[Last(loads)].source,
                     sharing |-> "sharing", announced |-> FALSE, receiving |-> None,
                     roomFilmId |-> jobs[Last(loads)].source, error |-> me.error]
<1>1. loads # <<>> /\ loads' = <<>> /\ UNCHANGED <<transport, held, playing, latest>>
  BY DEF FileLoaded
<1>2. HandlersFit /\ DesktopFits
  BY DEF FilmFits
<1>3. /\ DOMAIN loads = 1 .. Len(loads) /\ Len(loads) \in Nat /\ Len(loads) \in DOMAIN loads
      /\ DOMAIN jobs = 1 .. Len(jobs) /\ Len(jobs) \in Nat
      /\ \A i \in DOMAIN loads : loads[i] \in DOMAIN jobs /\ jobs[loads[i]].at \in {"load", "open"}
  BY <1>1, <1>2 DEF HandlersFit, LoadsWait
<1>4. Last(loads) \in DOMAIN jobs /\ jobs[Last(loads)].at \in {"load", "open"}
      /\ \E i \in DOMAIN loads : loads[i] = Last(loads)
  BY <1>3 DEF Last
<1>5. jobs' = [j \in DOMAIN jobs |-> IF \E i \in DOMAIN loads : loads[i] = j THEN Done ELSE jobs[j]]
  BY DEF FileLoaded
<1>6. /\ DOMAIN jobs' = DOMAIN jobs
      /\ \A j \in DOMAIN jobs : jobs'[j] = IF \E i \in DOMAIN loads : loads[i] = j THEN Done ELSE jobs[j]
  BY <1>5
<1>7. HandlersFit'
  <2>1. \A j \in DOMAIN jobs : jobs[j] \in Job
    BY <1>2 DEF HandlersFit
  <2>2. jobs' \in [1 .. Len(jobs) -> Job]
    BY <1>3, <1>5, <2>1, DoneIsJob
  <2>3. jobs' \in Seq(Job)
    BY <1>3, <2>2, FunctionSeq
  <2>4. SourcesKnown'
    BY <1>2, <1>6, DoneIsJob DEF HandlersFit, SourcesKnown
  <2>5. \A j \in DOMAIN jobs' : jobs'[j].at \notin {"load", "open"}
    BY <1>2, <1>6, DoneIsJob DEF HandlersFit, LoadsWait
  <2>6. loads' \in Seq(DOMAIN jobs') /\ LoadsWait'
    BY <1>1, <2>5 DEF LoadsWait
  <2> QED BY <2>3, <2>4, <2>6 DEF HandlersFit
<1> DEFINE rooms == {i \in DOMAIN loads : jobs[loads[i]].at = "load"}
           m == IF rooms = {} THEN me ELSE Loaded(me, loads[Max(rooms)])
<1>8. me' = Loaded(m, Last(loads))
  BY DEF FileLoaded
<1>9. MeFits(me)
  BY <1>2 DEF DesktopFits
<1>10. /\ MeFits(m) /\ m.error = me.error /\ m.receiving \in {me.receiving, None}
       /\ (rooms # {} => m.receiving = None)
  <2>1. CASE rooms = {}
    BY <1>9, <2>1
  <2>2. CASE rooms # {}
    <3>1. rooms \in SUBSET (1 .. Len(loads))
      BY <1>3
    <3>2. Max(rooms) \in rooms
      BY <1>3, <2>2, <3>1, MaxIsGreatest
    <3> DEFINE k == loads[Max(rooms)]
    <3>3. k \in DOMAIN jobs /\ jobs[k].at = "load"
      BY <1>3, <3>2
    <3>4. m = Loaded(me, k)
      BY <2>2
    <3> HIDE DEF m, k, rooms
    <3>5. MeFits(Loaded(me, k)) /\ Loaded(me, k).error = me.error /\ Loaded(me, k).receiving = None
      <4>1. /\ MeFits(Loaded(me, k)) /\ Loaded(me, k).error = me.error
            /\ Loaded(me, k) = [path |-> jobs[k].source.film, sharedId |-> jobs[k].source, sharing |-> "sharing",
                                announced |-> FALSE, receiving |-> None, roomFilmId |-> jobs[k].source,
                                error |-> me.error]
        BY <1>2, <1>9, <3>3, LoadedLeaves
      <4> QED BY <4>1
    <3> QED BY <2>2, <3>4, <3>5
  <2> QED BY <2>1, <2>2
<1>11. (\E i \in DOMAIN loads : jobs[loads[i]].at = "load") => rooms # {}
  OBVIOUS
<1> HIDE DEF m, rooms
<1> DEFINE last == Last(loads)
<1>12. MeFits(me')
  BY <1>2, <1>4, <1>8, <1>10, LoadedLeaves
<1>13. CASE jobs[last].at = "open"
  <2>1. me'.sharedId = None /\ me'.receiving = m.receiving
    BY <1>2, <1>4, <1>8, <1>10, <1>13, LoadedLeaves
  <2>2. DesktopFits'
    BY <1>1, <1>2, <1>6, <1>12 DEF DesktopFits, MeFits
  <2> QED BY <1>1, <1>4, <1>6, <1>7, <1>10, <1>11, <1>13, <2>1, <2>2
<1>14. CASE jobs[last].at = "load"
  <2>1. me' = [path |-> jobs[last].source.film, sharedId |-> jobs[last].source, sharing |-> "sharing",
               announced |-> FALSE, receiving |-> None, roomFilmId |-> jobs[last].source, error |-> me.error]
    BY <1>2, <1>4, <1>8, <1>10, <1>14, LoadedLeaves
  <2>2. DesktopFits'
    BY <1>1, <1>2, <1>6, <1>12 DEF DesktopFits, MeFits
  <2>3. me'.receiving = None
    BY <2>1
  <2> QED BY <1>1, <1>4, <1>6, <1>7, <1>14, <2>1, <2>2, <2>3
<1> QED BY <1>4, <1>13, <1>14

LEMMA MediaFits ==
  ASSUME FilmFits, NEW source \in Optional(Source), NEW mode \in Mode, MediaChanged(source, mode)
  PROVE  DesktopFits' /\ HandlersFit'
<1> DEFINE current == IF me.roomFilmId # None THEN me.roomFilmId ELSE me.receiving
<1>1. CASE CloseFilm(None, {}) \/ CloseFilm(source, {})
  BY <1>1, CloseFilmLeaves DEF Optional
<1>2. CASE source = None /\ current = None
  <2>1. me' = [me EXCEPT !.sharing = "off", !.sharedId = None]
        /\ UNCHANGED <<transport, held, playing, loads, jobs, latest>>
    BY <1>2 DEF MediaChanged
  <2>2. MeFits(me')
    BY <2>1 DEF FilmFits, DesktopFits, MeFits, FilmMe, Optional
  <2>3. HandlersFit'
    BY <2>1 DEF FilmFits, HandlersFit, LoadsWait, SourcesKnown
  <2> QED BY <2>1, <2>2, <2>3 DEF FilmFits, DesktopFits, MeFits
<1>3. CASE UNCHANGED <<transport, held, me, playing, loads, jobs, latest>>
  BY <1>3, StaysFits
<1>4. CASE source \notin {None, me.sharedId} /\ Fetch(Len(jobs) + 1, source, mode, me) /\ UNCHANGED <<playing, loads>>
  <2>1. source \in Source
    BY <1>4, FilmData
  <2>2. MeFits(me) /\ Len(jobs) + 1 \notin DOMAIN jobs
    BY DEF FilmFits, DesktopFits, HandlersFit
  <2> QED BY <1>4, <2>1, <2>2, FetchLeaves
<1> QED BY <1>1, <1>2, <1>3, <1>4 DEF MediaChanged

\* A job of a type at an await has its film.
LEMMA FilmOfJob ==
  ASSUME HandlersFit, NEW j \in DOMAIN jobs
  PROVE  /\ jobs[j] \in Job /\ jobs[j].source \in Optional(Source) /\ jobs[j].via \in Nat
         /\ jobs[j].at \notin {"stop", "unload", "done"} =>
              jobs[j].source \in Source /\ jobs[j].source # None /\ jobs[j].source.film \in Film
<1>1. jobs[j] \in Job
  BY DEF HandlersFit
<1>2. jobs[j].source \in Optional(Source) /\ jobs[j].via \in Nat
  BY <1>1 DEF Job
<1>3. jobs[j].at \notin {"stop", "unload", "done"} => jobs[j].source # None
  BY DEF HandlersFit, SourcesKnown
<1> QED BY <1>1, <1>2, <1>3, FilmData

LEMMA OthersKeepFits ==
  ASSUME FilmFits, (\E f \in Theirs : OthersPutOn(f)) \/ OthersTakeOff \/ SetMode
  PROVE  FilmFits'
<1>1. RoomFits /\ room.mode \in Mode
  BY DEF FilmFits, RoomFits
<1>2. Move /\ UNCHANGED <<view, here, transport, held, me, playing, loads, jobs, latest, history>>
  BY DEF OthersPutOn, OthersTakeOff, SetMode, Elsewhere
<1>3. \E s \in Optional(Source), mode \in Mode, b \in BOOLEAN : Tell(s, mode, b)
  <2>1. CASE \E f \in Theirs : OthersPutOn(f)
    <3>1. PICK f \in Theirs : OthersPutOn(f)
      BY <2>1
    <3>2. [film |-> f, kind |-> room.mode] \in Optional(Source)
      BY <1>1 DEF Optional, Source, Film
    <3> QED BY <1>1, <3>1, <3>2 DEF OthersPutOn
  <2>2. CASE OthersTakeOff
    BY <1>1, <2>2 DEF OthersTakeOff, Optional
  <2>3. CASE SetMode
    BY <1>1, <2>3, FilmAssumption DEF SetMode, Optional
  <2> QED BY <2>1, <2>2, <2>3
<1>4. RoomFits'
  BY <1>1, <1>2, <1>3, MoveFits, TellFits
<1> QED BY <1>2, <1>4, StaysFits DEF FilmFits

\* The shares still under way are of a room that has been left.
LEMMA LeaveMoves ==
  ASSUME HandlersFit, LeaveRoom
  PROVE  /\ jobs' \in Seq(Job) /\ DOMAIN jobs' = DOMAIN jobs
         /\ \A j \in DOMAIN jobs :
              /\ jobs'[j].source = jobs[j].source
              /\ jobs'[j].at = IF jobs[j].at = "share" THEN "unsent" ELSE jobs[j].at
<1>1. jobs' = [j \in DOMAIN jobs |->
                 IF jobs[j].at = "share" THEN [jobs[j] EXCEPT !.at = "unsent"] ELSE jobs[j]]
  BY DEF LeaveRoom
<1>2. DOMAIN jobs = 1 .. Len(jobs) /\ Len(jobs) \in Nat /\ \A j \in DOMAIN jobs : jobs[j] \in Job
  BY DEF HandlersFit
<1>3. ASSUME NEW j \in DOMAIN jobs
      PROVE  /\ jobs'[j] \in Job /\ jobs'[j].source = jobs[j].source
             /\ jobs'[j].at = IF jobs[j].at = "share" THEN "unsent" ELSE jobs[j].at
  <2>1. CASE jobs[j].at = "share"
    <3>1. jobs[j] \in Job /\ jobs'[j] = [jobs[j] EXCEPT !.at = "unsent"]
      BY <1>1, <1>2, <2>1
    <3>2. "unsent" \in Waiting
      BY DEF Waiting
    <3>3. jobs'[j] = Waits(jobs[j].source, "unsent", jobs[j].via) /\ jobs'[j] \in Job
      BY <3>1, <3>2, JobMovesOn
    <3> QED BY <2>1, <3>3 DEF Waits
  <2>2. CASE jobs[j].at # "share"
    <3>1. jobs'[j] = jobs[j] /\ jobs[j] \in Job
      BY <1>1, <1>2, <2>2
    <3> QED BY <2>2, <3>1
  <2> QED BY <2>1, <2>2
<1>4. jobs' \in [1 .. Len(jobs) -> Job]
  BY <1>1, <1>2, <1>3
<1>5. jobs' \in Seq(Job) /\ DOMAIN jobs' = DOMAIN jobs
  BY <1>1, <1>2, <1>4, FunctionSeq
<1> QED BY <1>3, <1>5

LEMMA RoomKeepsFits ==
  ASSUME FilmFits, JoinRoom \/ Joined \/ LeaveRoom \/ Hear
  PROVE  FilmFits'
<1>1. RoomFits /\ DesktopFits /\ HandlersFit
  BY DEF FilmFits
<1>2. CASE JoinRoom
  <2>1. RoomFits'
    BY <1>1, <1>2, MoveFits DEF JoinRoom, RoomFits, State
  <2>2. room.source \in Optional(Source) /\ room.mode \in Mode
    BY <1>1 DEF RoomFits
  <2>3. Quiet \/ MediaChanged(room.source, room.mode)
    BY <1>2 DEF JoinRoom
  <2> QED BY <2>1, <2>2, <2>3, MediaFits, StaysFits DEF FilmFits, Quiet
<1>3. CASE Joined
  <2>1. view.mode \in Mode
    BY <1>1 DEF RoomFits, State
  <2>2. transport' \in Transport /\ held' \subseteq Source /\ UNCHANGED <<me, playing, loads, jobs, latest>>
    BY <1>3, <2>1, TransportFits DEF Joined
  <2>3. DesktopFits' /\ HandlersFit'
    BY <1>1, <2>2 DEF DesktopFits, HandlersFit, LoadsWait, SourcesKnown, MeFits
  <2>4. CASE me.path # None
    <3>1. [source |-> None, mode |-> room.mode] \in State
          /\ [source |-> None, mode |-> room.mode, byUs |-> TRUE]
               \in [source: Optional(Source), mode: Mode, byUs: BOOLEAN]
      BY <1>1 DEF RoomFits, State, Optional
    <3>2. news' \in Seq(State)
      BY <1>1, <1>3, <2>4, <3>1 DEF Joined, RoomFits
    <3> QED BY <1>1, <1>3, <2>3, <2>4, <3>1, <3>2 DEF Joined, RoomFits, FilmFits
  <2>5. CASE me.path = None
    BY <1>1, <1>3, <2>3, <2>5 DEF Joined, RoomFits, FilmFits
  <2> QED BY <2>4, <2>5
<1>4. CASE LeaveRoom
  <2>1. RoomFits'
    <3>1. news' \in Seq(State)
      BY <1>4 DEF LeaveRoom
    <3>2. room' \in [source: Optional(Source), mode: Mode, byUs: BOOLEAN]
      BY <1>1, <1>4 DEF LeaveRoom, RoomFits
    <3> QED BY <1>1, <1>4, <3>1, <3>2 DEF LeaveRoom, RoomFits
  <2>5. DOMAIN jobs' = DOMAIN jobs
    BY <1>1, <1>4, LeaveMoves
  <2>6. loads' = loads /\ UNCHANGED <<transport, held, me, playing, latest>>
    BY <1>4 DEF LeaveRoom
  <2>7. HandlersFit'
    <3>1. \A i \in DOMAIN loads : loads[i] \in DOMAIN jobs
      BY <1>1 DEF HandlersFit
    <3>2. jobs' \in Seq(Job) /\ loads' \in Seq(DOMAIN jobs')
      BY <1>1, <1>4, <2>5, <2>6, LeaveMoves DEF HandlersFit
    <3>3. LoadsWait'
      BY <1>1, <1>4, <2>6, <3>1, LeaveMoves DEF HandlersFit, LoadsWait
    <3>4. SourcesKnown'
      BY <1>1, <1>4, <2>5, LeaveMoves DEF HandlersFit, SourcesKnown
    <3> QED BY <3>2, <3>3, <3>4 DEF HandlersFit
  <2>8. DesktopFits'
    BY <1>1, <2>5, <2>6 DEF DesktopFits, MeFits
  <2> QED BY <2>1, <2>7, <2>8 DEF FilmFits
<1>5. CASE Hear
  <2>1. news # <<>> /\ view' = Head(news) /\ news' = Tail(news) /\ UNCHANGED <<room, here, turns>>
    BY <1>5 DEF Hear
  <2>2. Head(news) \in State /\ Tail(news) \in Seq(State)
    BY <1>1, <2>1 DEF RoomFits
  <2>3. RoomFits'
    BY <1>1, <2>1, <2>2 DEF RoomFits
  <2>4. Head(news).source \in Optional(Source) /\ Head(news).mode \in Mode
    BY <2>2 DEF State
  <2>5. Quiet \/ MediaChanged(Head(news).source, Head(news).mode)
    BY <1>5 DEF Hear
  <2> QED BY <2>3, <2>4, <2>5, MediaFits, StaysFits DEF FilmFits, Quiet
<1> QED BY <1>2, <1>3, <1>4, <1>5

LEMMA PersonKeepsFits ==
  ASSUME FilmFits, (\E f \in Own : OpenFile(f)) \/ Share \/ SetSharingPaused \/ Unload
  PROVE  FilmFits'
<1>1. RoomFits /\ DesktopFits /\ HandlersFit /\ MeFits(me) /\ jobs \in Seq(Job)
  BY DEF FilmFits, DesktopFits, HandlersFit
<1> DEFINE n == Len(jobs) + 1
<1>2. n \notin DOMAIN jobs
  BY <1>1
<1>3. CASE \E f \in Own : OpenFile(f)
  <2>1. PICK f \in Own : OpenFile(f)
    BY <1>3
  <2> DEFINE job == Waits([film |-> f, kind |-> "p2p"], "open", 0)
  <2>2. [film |-> f, kind |-> "p2p"] \in Source /\ [film |-> f, kind |-> "p2p"] # None
    BY FilmData DEF Film, Source, Mode
  <2>3. job \in Job /\ job.at = "open" /\ job.source # None
    BY <2>2, WaitsIsJob DEF Optional, Waiting
  <2>4. Begin(job) /\ loads' = Append(loads, n) /\ playing' = f /\ Move /\ UNCHANGED <<roomVars, transport, held, me, latest>>
    BY <2>1 DEF OpenFile
  <2> HIDE DEF job
  <2>5. HandlersFit' /\ Moved(n, job)
    BY <1>1, <1>2, <2>3, <2>4, BeginGoes, LoadBegins
  <2>6. RoomFits'
    BY <1>1, <2>4, MoveFits DEF RoomFits, roomVars
  <2>7. DesktopFits'
    BY <1>1, <2>4, <2>5 DEF DesktopFits, MeFits, Moved, Optional, Film
  <2> QED BY <2>5, <2>6, <2>7 DEF FilmFits
<1>4. CASE Share
  <2> DEFINE tm == IF transport.kind = "none" THEN EnsureTransfer(TRUE, view.mode) ELSE transport
             source == [film |-> me.path, kind |-> tm.kind]
             job == Waits(source, "share", tm.serial)
  <2>1. /\ Move /\ here = "in" /\ me.path # None /\ transport' = tm /\ Begin(job)
        /\ UNCHANGED <<roomVars, held, me, playing, loads, latest>>
    BY <1>4 DEF Share
  <2>2. tm \in Transport /\ tm.kind # "none"
    <3>1. view.mode \in Mode /\ "none" \notin Mode
      BY <1>1 DEF RoomFits, State, Mode
    <3>2. EnsureTransfer(TRUE, view.mode) \in Transport
      BY <3>1, TransportFits
    <3>3. EnsureTransfer(TRUE, view.mode).kind = view.mode
      BY <1>1, <3>1 DEF EnsureTransfer, Fitting, Transport
    <3> QED BY <1>1, <3>1, <3>2, <3>3 DEF DesktopFits
  <2> HIDE DEF tm
  <2>3. source \in Source /\ source # None
    <3>1. me.path \in Film
      BY <1>1, <2>1, FilmData DEF MeFits, FilmMe
    <3>2. tm.kind \in Mode
      BY <2>2 DEF Transport
    <3> QED BY <3>1, <3>2, FilmData
  <2> HIDE DEF source
  <2>4. job \in Job /\ job.at = "share" /\ job.source # None
    BY <2>2, <2>3, WaitsIsJob DEF Optional, Waiting, Transport
  <2> HIDE DEF job
  <2>5. HandlersFit' /\ Moved(n, job)
    BY <1>1, <1>2, <2>1, <2>4, BeginGoes, HandlerMoves
  <2>6. RoomFits'
    BY <1>1, <2>1, MoveFits DEF RoomFits, roomVars
  <2>7. DesktopFits'
    BY <1>1, <2>1, <2>2, <2>5 DEF DesktopFits, MeFits, Moved
  <2> QED BY <2>5, <2>6, <2>7 DEF FilmFits
<1>5. CASE SetSharingPaused
  <2>1. /\ me.sharedId # None /\ me' = [me EXCEPT !.sharing = IF @ = "paused" THEN "sharing" ELSE "paused"]
        /\ UNCHANGED <<roomVars, transport, held, playing, loads, jobs, latest, history, turns>>
    BY <1>5 DEF SetSharingPaused
  <2>2. MeFits(me')
    BY <1>1, <2>1 DEF MeFits, FilmMe
  <2>3. RoomFits' /\ HandlersFit'
    BY <1>1, <2>1 DEF RoomFits, roomVars, HandlersFit, LoadsWait, SourcesKnown
  <2>4. DesktopFits'
    BY <1>1, <2>1, <2>2 DEF DesktopFits, MeFits
  <2> QED BY <2>3, <2>4 DEF FilmFits
<1>6. CASE Unload
  <2>1. Move /\ CloseFilm(None, {"unloaded"}) /\ UNCHANGED <<view, here>>
        /\ (Tell(None, room.mode, FALSE) \/ UNCHANGED <<room, news>>)
    BY <1>6 DEF Unload
  <2>2. RoomFits'
    <3>1. room.mode \in Mode /\ None \in Optional(Source)
      BY <1>1 DEF RoomFits, Optional
    <3>2. turns' \in 0 .. MaxTurns
      BY <1>1, <2>1, MoveFits
    <3>3. CASE Tell(None, room.mode, FALSE)
      BY <1>1, <2>1, <3>1, <3>2, <3>3, TellFits
    <3>4. CASE UNCHANGED <<room, news>>
      BY <1>1, <2>1, <3>2, <3>4 DEF RoomFits
    <3> QED BY <2>1, <3>3, <3>4
  <2>3. DesktopFits' /\ HandlersFit'
    BY <2>1, CloseFilmLeaves DEF Optional
  <2> QED BY <2>2, <2>3 DEF FilmFits
<1> QED BY <1>3, <1>4, <1>5, <1>6

LEMMA HandlersKeepFits ==
  ASSUME FilmFits, NEW j \in DOMAIN jobs, Proceed(j)
  PROVE  FilmFits'
<1>1. RoomFits /\ DesktopFits /\ HandlersFit /\ MeFits(me) /\ jobs[j] \in Job
  BY FilmOfJob DEF FilmFits, DesktopFits
<1>2. turns' = turns
  BY DEF Proceed
<1>3. ASSUME UNCHANGED roomVars PROVE RoomFits'
  BY <1>1, <1>2, <1>3 DEF RoomFits, roomVars
<1>4. None \in Optional(Film) /\ None \in Optional(Source)
  BY DEF Optional
<1>5. ASSUME Failed(j) PROVE MeFits(me') /\ Go(j, Done)
  <2>1. Go(j, Done) /\ me' = IF latest = j THEN [me EXCEPT !.receiving = None, !.error = "failed"] ELSE me
    BY <1>5 DEF Failed
  <2> QED BY <1>1, <1>4, <2>1 DEF MeFits, FilmMe
<1>6. ASSUME GivenUp(j), Go(j, Done) PROVE HandlersFit' /\ Moved(j, Done) /\ playing' \in Optional(Film)
  <2>1. PICK i \in DOMAIN loads : loads[i] = j /\ loads' = RemoveAt(loads, i)
    BY <1>6 DEF GivenUp
  <2>2. HandlersFit' /\ Moved(j, Done)
    BY <1>1, <1>6, <2>1, LoadEnds
  <2>3. playing' \in Optional(Film)
    BY <1>1, <1>4, <1>6 DEF GivenUp, DesktopFits
  <2> QED BY <2>2, <2>3
<1>7. CASE StopDone(j)
  <2> DEFINE job == [jobs[j] EXCEPT !.at = "unload"]
  <2>1. /\ jobs[j].at = "stop" /\ playing' = None /\ Go(j, job)
        /\ UNCHANGED <<roomVars, transport, held, me, loads, latest, history>>
    BY <1>7 DEF StopDone
  <2>2. job \in Job /\ job.at = "unload"
    <3>1. "unload" \in Waiting
      BY DEF Waiting
    <3>2. job = Waits(jobs[j].source, "unload", jobs[j].via) /\ job \in Job
      BY <1>1, <3>1, JobMovesOn
    <3> QED BY <3>2 DEF Waits
  <2> HIDE DEF job
  <2>3. HandlersFit' /\ Moved(j, job)
    BY <1>1, <2>1, <2>2, HandlerMoves
  <2> QED BY <1>1, <1>3, <1>4, <2>1, <2>3 DEF FilmFits, DesktopFits, Moved, MeFits
<1>8. CASE UnloadDone(j)
  <2> DEFINE source == jobs[j].source
  <2>1. jobs[j].at = "unload" /\ UNCHANGED <<roomVars, playing, loads, history>>
    BY <1>8 DEF UnloadDone
  <2>2. CASE source = None
    <3>1. me' = Blank /\ Go(j, Done) /\ UNCHANGED <<transport, held, latest>>
      BY <1>8, <2>2 DEF UnloadDone
    <3>2. HandlersFit' /\ Moved(j, Done)
      BY <1>1, <2>1, <3>1, HandlerMoves, DoneIsJob
    <3> QED BY <1>1, <1>3, <2>1, <3>1, <3>2, BlankFits DEF FilmFits, DesktopFits, Moved, MeFits
  <2>3. CASE source # None
    <3>1. Fetch(j, source, view.mode, Blank)
      BY <1>8, <2>3 DEF UnloadDone
    <3>2. source \in Source /\ view.mode \in Mode
      BY <1>1, <2>3, FilmOfJob, FilmData DEF RoomFits, State
    <3>3. DesktopFits' /\ HandlersFit'
      BY <2>1, <3>1, <3>2, BlankFits, FetchLeaves
    <3> QED BY <1>3, <2>1, <3>3 DEF FilmFits
  <2> QED BY <2>2, <2>3
<1>9. CASE ReceiveDone(j)
  <2> DEFINE source == jobs[j].source
             job == [jobs[j] EXCEPT !.at = "load"]
  <2>1. jobs[j].at = "receive" /\ UNCHANGED <<roomVars, transport, me, latest, history>>
    BY <1>9 DEF ReceiveDone
  <2>2. source \in Source /\ source # None /\ source.film \in Film
    BY <1>1, <2>1, FilmOfJob
  <2>3. CASE latest # j
    <3>1. held' \subseteq held /\ Go(j, Done) /\ UNCHANGED <<playing, loads>>
      BY <1>9, <2>3 DEF ReceiveDone
    <3>2. HandlersFit' /\ Moved(j, Done)
      BY <1>1, <2>1, <3>1, HandlerMoves, DoneIsJob
    <3> QED BY <1>1, <1>3, <2>1, <3>1, <3>2 DEF FilmFits, DesktopFits, Moved, MeFits
  <2>4. CASE latest = j
    <3>1. /\ held' \subseteq held \cup {source} /\ playing' = source.film /\ loads' = Append(loads, j)
          /\ Go(j, job)
      BY <1>9, <2>4 DEF ReceiveDone
    <3>2. job \in Job /\ job.at = "load" /\ job.source = source
      <4>1. "load" \in Waiting
        BY DEF Waiting
      <4>2. job = Waits(jobs[j].source, "load", jobs[j].via) /\ job \in Job
        BY <1>1, <4>1, JobMovesOn
      <4> QED BY <4>2 DEF Waits
    <3> HIDE DEF job
    <3>3. HandlersFit' /\ Moved(j, job)
      BY <1>1, <2>1, <2>2, <3>1, <3>2, LoadBegins
    <3>4. playing' \in Optional(Film)
      BY <2>2, <3>1 DEF Optional
    <3>5. DesktopFits'
      BY <1>1, <2>1, <2>2, <3>1, <3>3, <3>4 DEF DesktopFits, Moved, MeFits
    <3> QED BY <1>3, <2>1, <3>3, <3>5 DEF FilmFits
  <2> QED BY <2>3, <2>4
<1>10. CASE ReceiveFails(j)
  <2>1. /\ jobs[j].at \in {"receive", "refused"} /\ Failed(j)
        /\ UNCHANGED <<roomVars, transport, held, playing, loads, latest>>
    BY <1>10 DEF ReceiveFails
  <2>2. HandlersFit' /\ Moved(j, Done) /\ MeFits(me')
    BY <1>1, <1>5, <2>1, HandlerMoves, DoneIsJob
  <2> QED BY <1>1, <1>3, <2>1, <2>2 DEF FilmFits, DesktopFits, Moved, MeFits
<1>11. CASE FilmLoadFails(j)
  <2>1. /\ jobs[j].at = "load" /\ GivenUp(j) /\ Failed(j) /\ UNCHANGED <<roomVars, transport, held, latest>>
    BY <1>11 DEF FilmLoadFails
  <2>2. HandlersFit' /\ Moved(j, Done) /\ MeFits(me') /\ playing' \in Optional(Film)
    BY <1>5, <1>6, <2>1
  <2> QED BY <1>1, <1>3, <2>1, <2>2 DEF FilmFits, DesktopFits, Moved, MeFits
<1>12. CASE OpenFileFails(j)
  <2>1. GivenUp(j) /\ Go(j, Done) /\ UNCHANGED <<roomVars, transport, held, me, latest, history>>
    BY <1>12 DEF OpenFileFails
  <2>2. HandlersFit' /\ Moved(j, Done) /\ playing' \in Optional(Film)
    BY <1>6, <2>1
  <2> QED BY <1>1, <1>3, <2>1, <2>2 DEF FilmFits, DesktopFits, Moved, MeFits
<1>13. CASE ShareDone(j)
  <2> DEFINE source == jobs[j].source
  <2>1. /\ jobs[j].at \in {"share", "unsent"} /\ held' \subseteq held \cup {source} /\ Go(j, Done)
        /\ me' = [me EXCEPT !.sharedId = source, !.sharing = "sharing", !.announced = TRUE]
        /\ Tell(source, room.mode, TRUE) \/ UNCHANGED <<room, news>>
        /\ UNCHANGED <<view, here, transport, playing, loads, latest>>
    BY <1>13 DEF ShareDone
  <2>2. source \in Source /\ source # None /\ source \in Optional(Source)
    BY <1>1, <2>1, FilmOfJob
  <2>3. HandlersFit' /\ Moved(j, Done)
    BY <1>1, <2>1, HandlerMoves, DoneIsJob
  <2>4. MeFits(me')
    BY <1>1, <2>1, <2>2 DEF MeFits, FilmMe
  <2>5. DesktopFits'
    BY <1>1, <2>1, <2>2, <2>3, <2>4 DEF DesktopFits, Moved, MeFits
  <2>6. CASE Tell(source, room.mode, TRUE)
    <3>1. room.mode \in Mode /\ turns' \in 0 .. MaxTurns
      BY <1>1, <1>2 DEF RoomFits
    <3>2. RoomFits'
      BY <1>1, <2>1, <2>2, <2>6, <3>1, TellFits
    <3> QED BY <2>3, <2>5, <3>2 DEF FilmFits
  <2>7. CASE UNCHANGED <<room, news>>
    <3>1. RoomFits'
      BY <1>3, <2>1, <2>7 DEF roomVars
    <3> QED BY <2>3, <2>5, <3>1 DEF FilmFits
  <2> QED BY <2>1, <2>6, <2>7
<1>14. CASE ShareFails(j)
  <2>1. /\ jobs[j].at \in {"share", "unsent"} /\ Go(j, Done)
        /\ UNCHANGED <<roomVars, transport, held, me, playing, loads, latest, history>>
    BY <1>14 DEF ShareFails
  <2>2. HandlersFit' /\ Moved(j, Done)
    BY <1>1, <2>1, HandlerMoves, DoneIsJob
  <2> QED BY <1>1, <1>3, <2>1, <2>2 DEF FilmFits, DesktopFits, Moved, MeFits
<1> QED BY <1>7, <1>8, <1>9, <1>10, <1>11, <1>12, <1>13, <1>14 DEF Proceed

LEMMA FilmKeepsFits ==
  ASSUME FilmFits, [FilmNext]_filmVars PROVE FilmFits'
<1>1. CASE FileLoaded
  <2>1. RoomFits'
    BY <1>1 DEF FilmFits, RoomFits, FileLoaded, roomVars
  <2> QED BY <1>1, <2>1, FileLoadedLeaves DEF FilmFits
<1>2. CASE UNCHANGED filmVars
  <2>1. RoomFits'
    BY <1>2 DEF FilmFits, RoomFits, filmVars, roomVars
  <2> QED BY <1>2, <2>1, StaysFits DEF FilmFits, filmVars
<1> QED BY <1>1, <1>2, OthersKeepFits, RoomKeepsFits, PersonKeepsFits, HandlersKeepFits DEF FilmNext

-----------------------------------------------------------------------------
\* The handler of the last generation is still at work; a closeFilm is.
LatestAtWork == latest # 0 /\ jobs[latest].at \in {"receive", "refused", "load"}
Closing == AtWork({"stop", "unload"})

\* What is shown as being received is waited for, or about to be put away.
ReceivingEnds == me.receiving # None => LatestAtWork \/ Closing

\* Nothing has raced or crossed a share so far: a share is then the only
\* handler at work, with the transport it was given.
Uncrossed == history \cap {"crossed", "raced"} = {}
SharesAlone ==
  Uncrossed => \A j \in DOMAIN jobs :
    /\ jobs[j].at \in {"share", "unsent"} => \A k \in DOMAIN jobs : k # j => jobs[k].at = "done"
    /\ jobs[j].at = "share" => Current(j)

\* A film is put on, and a share announced, only in a room.
InRoom ==
  here # "in" => /\ ~(room.byUs /\ room.source # None)
                 /\ \A j \in DOMAIN jobs : jobs[j].at # "share"

\* While the film this machine put on is the room's, nothing is fetched, what
\* is shared is that film or nothing, and what is still to be heard is it.
PutOnByUs == Uncrossed /\ here = "in" /\ room.byUs /\ room.source # None
Announced == me.sharedId = room.source /\ me.announced
Served ==
  /\ room.source \in held /\ me.receiving = None /\ (me.sharedId = None \/ Announced)
  /\ \A j \in DOMAIN jobs : /\ jobs[j].at \in {"done", "open", "stop", "unload", "share"}
                            /\ jobs[j].at \in {"stop", "unload"} => jobs[j].source = None
  /\ news # <<>> => /\ Announced /\ \A i \in DOMAIN news : news[i].source = room.source
                    /\ \A j \in DOMAIN jobs : jobs[j].at \in {"done", "share"}

ShareInv == ReceivingEnds /\ SharesAlone /\ InRoom /\ (PutOnByUs => Served)
FilmInv == FilmFits /\ ShareInv

LEMMA SharesAtFirst == FilmInit => ShareInv
BY DEF FilmInit, ShareInv, ReceivingEnds, SharesAlone, InRoom, PutOnByUs, Blank

\* Handlers that stay where they are, for steps that leave them alone.
LEMMA StillAtWork ==
  ASSUME ShareInv, UNCHANGED <<jobs, latest, transport>>, me'.receiving = me.receiving,
         here' = "in" \/ here' = here, Uncrossed' => Uncrossed
  PROVE  ReceivingEnds' /\ SharesAlone' /\ (here' # "in" => \A j \in DOMAIN jobs' : jobs'[j].at # "share")
<1>1. ReceivingEnds'
  BY DEF ShareInv, ReceivingEnds, LatestAtWork, Closing, AtWork
<1>2. SharesAlone'
  BY DEF ShareInv, SharesAlone, Current
<1> QED BY <1>1, <1>2 DEF ShareInv, InRoom

LEMMA OthersKeepShares ==
  ASSUME FilmInv, (\E f \in Theirs : OthersPutOn(f)) \/ OthersTakeOff \/ SetMode
  PROVE  ShareInv'
<1>1. ShareInv /\ UNCHANGED <<view, here, transport, held, me, playing, loads, jobs, latest, history>>
  BY DEF FilmInv, OthersPutOn, OthersTakeOff, SetMode, Elsewhere
<1>2. room'.byUs = FALSE \/ room'.source = None
  <2>1. \E s, mode, b : Tell(s, mode, b) /\ (s = None \/ b = FALSE)
    <3>1. CASE \E f \in Theirs : OthersPutOn(f)
      BY <3>1 DEF OthersPutOn
    <3>2. CASE OthersTakeOff
      BY <3>2 DEF OthersTakeOff
    <3>3. CASE SetMode
      BY <3>3 DEF SetMode
    <3> QED BY <3>1, <3>2, <3>3
  <2> QED BY <2>1 DEF Tell
<1>3. Uncrossed' => Uncrossed
  BY <1>1 DEF Uncrossed
<1>4. ReceivingEnds' /\ SharesAlone' /\ (here' # "in" => \A j \in DOMAIN jobs' : jobs'[j].at # "share")
  BY <1>1, <1>3, StillAtWork
<1> QED BY <1>2, <1>4 DEF ShareInv, InRoom, PutOnByUs

\* A closeFilm that nothing is crossed by.
LEMMA ClosesApart ==
  ASSUME FilmInv, NEW source \in Optional(Source), NEW note, CloseFilm(source, note)
  PROVE  /\ ReceivingEnds' /\ SharesAlone'
         /\ \A j \in DOMAIN jobs' : jobs'[j].at = "share" => j \in DOMAIN jobs /\ jobs[j].at = "share"
         /\ Uncrossed' => Uncrossed
<1> DEFINE n == Len(jobs) + 1
<1>1. FilmFits /\ ShareInv
  BY DEF FilmInv
<1>2. history' = history \cup (note \cup Crossing)
  BY <1>1, CloseFilmLeaves
<1>3. PICK at \in {"stop", "unload"} : Moved(n, Waits(source, at, 0))
  BY <1>1, CloseFilmLeaves
<1>4. Waits(source, at, 0).at = at
  BY DEF Waits
<1>5. Closing'
  BY <1>3, <1>4 DEF Closing, AtWork, Moved
<1>6. Uncrossed' => Uncrossed /\ \A j \in DOMAIN jobs : jobs[j].at \notin {"share", "unsent"}
  BY <1>2 DEF Uncrossed, Crossing, AtWork
<1>7. Uncrossed' => \A j \in DOMAIN jobs' : jobs'[j].at \notin {"share", "unsent"}
  BY <1>3, <1>4, <1>6 DEF Moved
<1>8. \A j \in DOMAIN jobs' : jobs'[j].at = "share" => j \in DOMAIN jobs /\ jobs[j].at = "share"
  BY <1>3, <1>4 DEF Moved
<1> QED BY <1>5, <1>6, <1>7, <1>8 DEF ReceivingEnds, SharesAlone

\* A fetch that nothing is crossed by.
LEMMA FetchesApart ==
  ASSUME FilmInv, NEW j \in DOMAIN jobs \cup {Len(jobs) + 1}, NEW source \in Source, NEW mode \in Mode,
         NEW m, MeFits(m), Fetch(j, source, mode, m), UNCHANGED <<loads, playing>>,
         j \in DOMAIN jobs => jobs[j].at \notin {"load", "open"},
         Uncrossed' => Uncrossed /\ \A k \in DOMAIN jobs : jobs[k].at \notin {"share", "unsent"}
  PROVE  /\ ReceivingEnds' /\ SharesAlone'
         /\ \A k \in DOMAIN jobs' : jobs'[k].at = "share" => k \in DOMAIN jobs /\ jobs[k].at = "share"
<1>1. FilmFits /\ ShareInv /\ latest' = j
  BY FetchLeaves DEF FilmInv
<1>2. /\ \/ me'.receiving = None
         \/ jobs'[j].at \in {"refused", "receive"} /\ j \in DOMAIN jobs'
      /\ \E job : Moved(j, job) /\ job.at \in {"done", "refused", "receive"}
  <2>1. CASE Moved(j, Done) /\ me' = [m EXCEPT !.receiving = None, !.error = "no transport"]
    BY <2>1, DoneIsJob DEF MeFits, FilmMe
  <2>2. CASE \E at \in {"refused", "receive"} : Moved(j, Waits(source, at, transport'.serial))
    BY <2>2 DEF Moved, Waits
  <2> QED BY <1>1, <2>1, <2>2, FetchLeaves
<1>3. j # 0
  BY <1>1 DEF FilmFits, HandlersFit
<1>4. ReceivingEnds'
  BY <1>1, <1>2, <1>3 DEF ReceivingEnds, LatestAtWork
<1>5. Uncrossed' => \A k \in DOMAIN jobs' : jobs'[k].at \notin {"share", "unsent"}
  BY <1>2 DEF Moved
<1>6. \A k \in DOMAIN jobs' : jobs'[k].at = "share" => k \in DOMAIN jobs /\ jobs[k].at = "share"
  BY <1>2 DEF Moved
<1> QED BY <1>4, <1>5, <1>6 DEF SharesAlone

\* What a change of the room's film leaves of the shares.
LEMMA MediaApart ==
  ASSUME FilmInv, NEW source \in Optional(Source), NEW mode \in Mode, MediaChanged(source, mode)
  PROVE  /\ ReceivingEnds' /\ SharesAlone' /\ (Uncrossed' => Uncrossed)
         /\ \A j \in DOMAIN jobs' : jobs'[j].at = "share" => j \in DOMAIN jobs /\ jobs[j].at = "share"
<1> DEFINE current == IF me.roomFilmId # None THEN me.roomFilmId ELSE me.receiving
           n == Len(jobs) + 1
<1>1. FilmFits /\ ShareInv
  BY DEF FilmInv
<1>2. CASE CloseFilm(None, {}) \/ CloseFilm(source, {})
  BY <1>2, ClosesApart DEF Optional
<1>3. CASE source = None /\ current = None /\ UNCHANGED <<transport, jobs, latest, history>>
           /\ me' = [me EXCEPT !.sharing = "off", !.sharedId = None]
  <2>1. me'.receiving = me.receiving /\ (Uncrossed' => Uncrossed)
    BY <1>1, <1>3 DEF FilmFits, DesktopFits, MeFits, FilmMe, Uncrossed
  <2>2. ReceivingEnds'
    BY <1>1, <1>3, <2>1 DEF ShareInv, ReceivingEnds, LatestAtWork, Closing, AtWork
  <2>3. SharesAlone'
    BY <1>1, <1>3, <2>1 DEF ShareInv, SharesAlone, Current
  <2> QED BY <1>3, <2>1, <2>2, <2>3
<1>4. CASE Note(Crossing) /\ UNCHANGED <<transport, me, jobs, latest>>
  <2>1. Uncrossed' => Uncrossed
    BY <1>4 DEF Note, Uncrossed
  <2>2. ReceivingEnds'
    BY <1>1, <1>4 DEF ShareInv, ReceivingEnds, LatestAtWork, Closing, AtWork
  <2>3. SharesAlone'
    BY <1>1, <1>4, <2>1 DEF ShareInv, SharesAlone, Current
  <2> QED BY <1>4, <2>1, <2>2, <2>3
<1>5. CASE /\ source \notin {None, me.sharedId} /\ Fetch(n, source, mode, me)
           /\ Note(Crossing) /\ UNCHANGED <<playing, loads>>
  <2>1. source \in Source
    BY <1>5, FilmData
  <2>2. MeFits(me) /\ n \notin DOMAIN jobs
    BY <1>1 DEF FilmFits, DesktopFits, HandlersFit
  <2>3. Uncrossed' => Uncrossed /\ \A k \in DOMAIN jobs : jobs[k].at \notin {"share", "unsent"}
    BY <1>5 DEF Uncrossed, Note, Crossing, AtWork
  <2> QED BY <1>5, <2>1, <2>2, <2>3, FetchesApart
<1> QED BY <1>2, <1>3, <1>4, <1>5 DEF MediaChanged

\* A message that names the film this machine has put on changes nothing.
LEMMA HearKeepsShares ==
  ASSUME FilmInv, Hear PROVE ShareInv'
<1>1. FilmFits /\ ShareInv /\ RoomFits
  BY DEF FilmInv, FilmFits
<1>2. news # <<>> /\ view' = Head(news) /\ news' = Tail(news) /\ UNCHANGED <<room, here, turns>>
  BY DEF Hear
<1>3. Head(news) \in State /\ Head(news).source \in Optional(Source) /\ Head(news).mode \in Mode
  <2>1. Head(news) \in State
    BY <1>1, <1>2 DEF RoomFits
  <2> QED BY <2>1 DEF State
<1> DEFINE source == Head(news).source
           mode == Head(news).mode
<1>4. Quiet \/ MediaChanged(source, mode)
  BY DEF Hear
<1>5. /\ ReceivingEnds' /\ SharesAlone' /\ (Uncrossed' => Uncrossed)
      /\ \A j \in DOMAIN jobs' : jobs'[j].at = "share" => j \in DOMAIN jobs /\ jobs[j].at = "share"
  <2>1. CASE Quiet
    <3>1. UNCHANGED <<transport, me, jobs, latest, history>>
      BY <2>1 DEF Quiet
    <3>2. ReceivingEnds'
      BY <1>1, <3>1 DEF ShareInv, ReceivingEnds, LatestAtWork, Closing, AtWork
    <3>3. SharesAlone' /\ (Uncrossed' => Uncrossed)
      BY <1>1, <3>1 DEF ShareInv, SharesAlone, Current, Uncrossed
    <3> QED BY <3>1, <3>2, <3>3
  <2>2. CASE MediaChanged(source, mode)
    BY <1>3, <2>2, MediaApart
  <2> QED BY <1>4, <2>1, <2>2
<1>6. InRoom'
  BY <1>1, <1>2, <1>5 DEF ShareInv, InRoom
<1>7. ASSUME PutOnByUs' PROVE Served'
  <2>1. PutOnByUs
    BY <1>2, <1>5, <1>7 DEF PutOnByUs
  <2>2. Served
    BY <1>1, <2>1 DEF ShareInv
  <2>3. source = room.source /\ Announced /\ \A i \in DOMAIN news : news[i].source = room.source
    <3>1. 1 \in DOMAIN news /\ Head(news) = news[1]
      BY <1>1, <1>2 DEF RoomFits
    <3> QED BY <1>2, <2>2, <3>1 DEF Served
  <2>4. source # None /\ source = me.sharedId
    BY <2>1, <2>3 DEF PutOnByUs, Announced
  <2>5. UNCHANGED <<held, me, jobs>>
    <3>1. CASE Quiet
      BY <3>1 DEF Quiet
    <3>2. CASE MediaChanged(source, mode)
      BY <2>4, <3>2 DEF MediaChanged
    <3> QED BY <1>4, <3>1, <3>2
  <2>6. \A i \in DOMAIN news' : news'[i].source = room.source
    <3>1. DOMAIN news = 1 .. Len(news) /\ Len(news) \in Nat /\ \A i \in DOMAIN news' : news'[i] = news[i + 1] /\ i + 1 \in DOMAIN news
      BY <1>1, <1>2 DEF RoomFits
    <3> QED BY <2>3, <3>1
  <2>7. Announced' /\ (news' # <<>> => \A j \in DOMAIN jobs' : jobs'[j].at \in {"done", "share"})
    BY <1>2, <2>2, <2>3, <2>5 DEF Announced, Served
  <2> QED BY <1>2, <2>2, <2>5, <2>6, <2>7 DEF Served
<1> QED BY <1>5, <1>6, <1>7 DEF ShareInv

LEMMA JoiningKeepsShares ==
  ASSUME FilmInv, JoinRoom PROVE ShareInv'
<1>1. FilmFits /\ ShareInv /\ here = "out" /\ here' = "joining" /\ UNCHANGED <<room, news>>
  BY DEF FilmInv, JoinRoom
<1>2. room.source \in Optional(Source) /\ room.mode \in Mode
  BY <1>1 DEF FilmFits, RoomFits
<1>3. /\ ReceivingEnds' /\ SharesAlone'
      /\ \A j \in DOMAIN jobs' : jobs'[j].at = "share" => j \in DOMAIN jobs /\ jobs[j].at = "share"
  <2>1. CASE Quiet
    <3>1. UNCHANGED <<transport, me, jobs, latest, history>>
      BY <2>1 DEF Quiet
    <3>2. ReceivingEnds'
      BY <1>1, <3>1 DEF ShareInv, ReceivingEnds, LatestAtWork, Closing, AtWork
    <3>3. SharesAlone' /\ (Uncrossed' => Uncrossed)
      BY <1>1, <3>1 DEF ShareInv, SharesAlone, Current, Uncrossed
    <3> QED BY <3>1, <3>2, <3>3
  <2>2. CASE MediaChanged(room.source, room.mode)
    BY <1>2, <2>2, MediaApart
  <2> QED BY <2>1, <2>2 DEF JoinRoom
<1>4. InRoom'
  BY <1>1, <1>3 DEF ShareInv, InRoom
<1> QED BY <1>1, <1>3, <1>4 DEF ShareInv, PutOnByUs

LEMMA JoinedKeepsShares ==
  ASSUME FilmInv, Joined PROVE ShareInv'
<1>1. /\ FilmFits /\ ShareInv /\ here = "joining" /\ here' = "in"
      /\ UNCHANGED <<me, jobs, latest, history>>
  BY DEF FilmInv, Joined
<1>2. ReceivingEnds'
  BY <1>1 DEF ShareInv, ReceivingEnds, LatestAtWork, Closing, AtWork
<1>3. SharesAlone'
  BY <1>1 DEF ShareInv, SharesAlone, InRoom, Uncrossed
<1>4. ~(room'.byUs /\ room'.source # None)
  <2>1. CASE me.path # None
    BY <2>1 DEF Joined
  <2>2. CASE me.path = None
    BY <1>1, <2>2 DEF Joined, ShareInv, InRoom
  <2> QED BY <2>1, <2>2
<1> QED BY <1>1, <1>2, <1>3, <1>4 DEF ShareInv, InRoom, PutOnByUs

LEMMA LeavingKeepsShares ==
  ASSUME FilmInv, LeaveRoom PROVE ShareInv'
<1>1. /\ FilmFits /\ ShareInv /\ HandlersFit /\ here' = "out" /\ UNCHANGED <<transport, me, latest>>
      /\ Note({"left"}) /\ room' = [room EXCEPT !.byUs = FALSE]
  BY DEF FilmInv, LeaveRoom, FilmFits
<1>2. /\ DOMAIN jobs' = DOMAIN jobs
      /\ \A j \in DOMAIN jobs : jobs'[j].at = IF jobs[j].at = "share" THEN "unsent" ELSE jobs[j].at
  BY <1>1, LeaveMoves
<1>3. latest \in DOMAIN jobs \cup {0}
  BY <1>1 DEF FilmFits, DesktopFits
<1>4. ReceivingEnds'
  BY <1>1, <1>2, <1>3 DEF ShareInv, ReceivingEnds, LatestAtWork, Closing, AtWork
<1>5. SharesAlone'
  BY <1>1, <1>2 DEF ShareInv, SharesAlone, Uncrossed, Note
<1>6. ~room'.byUs
  BY <1>1 DEF FilmFits, RoomFits
<1> QED BY <1>1, <1>2, <1>4, <1>5, <1>6 DEF ShareInv, InRoom, PutOnByUs

LEMMA LoadedKeepsShares ==
  ASSUME FilmInv, FileLoaded PROVE ShareInv'
<1>1. /\ FilmFits /\ ShareInv /\ HandlersFit
      /\ UNCHANGED <<room, news, view, here, transport, held, latest, history>>
  BY DEF FilmInv, FileLoaded, roomVars, FilmFits
<1>2. /\ DOMAIN jobs' = DOMAIN jobs /\ loads # <<>> /\ Last(loads) \in DOMAIN jobs
      /\ \A j \in DOMAIN jobs : jobs'[j] = IF \E i \in DOMAIN loads : loads[i] = j THEN Done ELSE jobs[j]
      /\ \E i \in DOMAIN loads : loads[i] = Last(loads)
      /\ me'.receiving \in {me.receiving, None}
      /\ (\E i \in DOMAIN loads : jobs[loads[i]].at = "load") => me'.receiving = None
      /\ jobs[Last(loads)].at = "open" => me'.sharedId = None
  BY <1>1, FileLoadedLeaves
<1>3. \A j \in DOMAIN jobs : IF jobs[j].at \in {"load", "open"} THEN jobs'[j] = Done ELSE jobs'[j] = jobs[j]
  BY <1>1, <1>2 DEF HandlersFit, LoadsWait
<1>4. latest \in DOMAIN jobs \cup {0} /\ Done.at = "done"
  BY <1>1, DoneIsJob DEF FilmFits, DesktopFits
<1>5. ReceivingEnds'
  <2> SUFFICES ASSUME me'.receiving # None PROVE LatestAtWork' \/ Closing'
    BY DEF ReceivingEnds
  <2>1. me.receiving # None /\ \A j \in DOMAIN jobs : jobs[j].at # "load"
    BY <1>1, <1>2 DEF HandlersFit, LoadsWait
  <2>2. LatestAtWork \/ Closing
    BY <1>1, <2>1 DEF ShareInv, ReceivingEnds
  <2>3. CASE LatestAtWork
    BY <1>1, <1>3, <1>4, <2>1, <2>3 DEF LatestAtWork
  <2>4. CASE Closing
    BY <1>1, <1>2, <1>3, <2>4 DEF Closing, AtWork
  <2> QED BY <2>2, <2>3, <2>4
<1>6. SharesAlone'
  <2> SUFFICES ASSUME Uncrossed', NEW j \in DOMAIN jobs', jobs'[j].at \in {"share", "unsent"}
               PROVE  /\ \A k \in DOMAIN jobs' : k # j => jobs'[k].at = "done"
                      /\ jobs'[j].at = "share" => Current(j)'
    BY DEF SharesAlone
  <2>1. Uncrossed /\ j \in DOMAIN jobs /\ jobs'[j] = jobs[j]
    BY <1>1, <1>2, <1>3, <1>4 DEF Uncrossed
  <2>2. /\ \A k \in DOMAIN jobs : k # j => jobs[k].at = "done"
        /\ jobs[j].at = "share" => Current(j)
    BY <1>1, <2>1 DEF ShareInv, SharesAlone
  <2> QED BY <1>1, <1>2, <1>3, <2>1, <2>2 DEF Current
<1>7. \A j \in DOMAIN jobs' : jobs'[j].at # "done" => jobs'[j] = jobs[j]
  BY <1>2, <1>3, <1>4
<1>8. InRoom'
  BY <1>1, <1>2, <1>7 DEF ShareInv, InRoom
<1>9. ASSUME PutOnByUs' PROVE Served'
  <2>1. PutOnByUs /\ Served
    BY <1>1, <1>9 DEF PutOnByUs, Uncrossed, ShareInv
  <2>2. jobs[Last(loads)].at = "open"
    BY <1>1, <1>2, <2>1 DEF Served, HandlersFit, LoadsWait
  <2>3. me'.sharedId = None /\ me'.receiving = None /\ news = <<>>
    BY <1>2, <2>1, <2>2 DEF Served
  <2> QED BY <1>1, <1>2, <1>3, <1>4, <1>7, <2>1, <2>3 DEF Served
<1> QED BY <1>5, <1>6, <1>8, <1>9 DEF ShareInv

\* A handler that begins leaves those at work as they are.
LEMMA BeginsApart ==
  ASSUME FilmInv, NEW job, Moved(Len(jobs) + 1, job), UNCHANGED <<me, latest>>
  PROVE  ReceivingEnds' /\ Len(jobs) + 1 \notin DOMAIN jobs
<1>1. FilmFits /\ ShareInv
  BY DEF FilmInv
<1>2. Len(jobs) + 1 \notin DOMAIN jobs /\ latest \in DOMAIN jobs \cup {0}
  BY <1>1 DEF FilmFits, DesktopFits, HandlersFit
<1> QED BY <1>1, <1>2 DEF ShareInv, ReceivingEnds, LatestAtWork, Closing, AtWork, Moved

LEMMA OpeningKeepsShares ==
  ASSUME FilmInv, NEW f \in Own, OpenFile(f) PROVE ShareInv'
<1> DEFINE n == Len(jobs) + 1
           job == Waits([film |-> f, kind |-> "p2p"], "open", 0)
<1>1. /\ FilmFits /\ ShareInv /\ Begin(job)
      /\ UNCHANGED <<room, news, view, here, transport, held, me, latest>>
  BY DEF FilmInv, OpenFile, roomVars
<1>2. job \in Job /\ job.at = "open"
  <2>1. [film |-> f, kind |-> "p2p"] \in Source /\ "open" \in Waiting
    BY DEF Source, Film, Mode, Waiting
  <2> QED BY <2>1, WaitsIsJob DEF Optional
<1> HIDE DEF job
<1>3. Moved(n, job)
  BY <1>1, <1>2, BeginGoes, GoMoves DEF FilmFits, HandlersFit
<1>4. ReceivingEnds' /\ n \notin DOMAIN jobs
  BY <1>1, <1>3, BeginsApart
<1>5. /\ history' = history \cup {"opened"}
                    \cup (IF (news # <<>> /\ room.byUs) \/ AtWork({"share", "unsent"}) THEN {"raced"} ELSE {})
  BY DEF OpenFile, Note
<1>6. Uncrossed' => /\ Uncrossed /\ ~(news # <<>> /\ room.byUs)
                    /\ \A k \in DOMAIN jobs : jobs[k].at \notin {"share", "unsent"}
  BY <1>5 DEF Uncrossed, AtWork
<1>7. SharesAlone'
  BY <1>2, <1>3, <1>6 DEF SharesAlone, Moved
<1>8. InRoom'
  BY <1>1, <1>2, <1>3 DEF ShareInv, InRoom, Moved
<1>9. ASSUME PutOnByUs' PROVE Served'
  <2>1. PutOnByUs /\ Served /\ news = <<>>
    BY <1>1, <1>6, <1>9 DEF PutOnByUs, ShareInv
  <2> QED BY <1>1, <1>2, <1>3, <2>1 DEF Served, Announced, Moved
<1> QED BY <1>4, <1>7, <1>8, <1>9 DEF ShareInv

LEMMA BegunMoves ==
  ASSUME FilmFits, FilmFits', NEW job, Begin(job) PROVE Moved(Len(jobs) + 1, job)
<1>1. jobs' = Append(jobs, job) /\ jobs \in Seq(Job) /\ jobs' \in Seq(Job)
  BY DEF Begin, FilmFits, HandlersFit
<1>2. jobs'[Len(jobs) + 1] = job /\ Len(jobs) + 1 \in DOMAIN jobs'
  BY <1>1
<1>3. job \in Job
  BY <1>1, <1>2
<1> QED BY <1>1, <1>3, BeginGoes, GoMoves

LEMMA SharingKeepsShares ==
  ASSUME FilmInv, Share PROVE ShareInv'
<1> DEFINE n == Len(jobs) + 1
           tm == IF transport.kind = "none" THEN EnsureTransfer(TRUE, view.mode) ELSE transport
           source == [film |-> me.path, kind |-> tm.kind]
           job == Waits(source, "share", tm.serial)
<1>1. /\ FilmFits /\ FilmFits' /\ ShareInv /\ here = "in" /\ Begin(job) /\ transport' = tm
      /\ UNCHANGED <<room, news, view, here, held, me, latest>>
      /\ Note(Crossing \cup IF AtWork(Waiting) THEN {"raced"} ELSE {})
  BY PersonKeepsFits DEF FilmInv, Share, roomVars
<1>2. job.at = "share" /\ job.via = transport'.serial
  BY <1>1 DEF Waits
<1> HIDE DEF job
<1>3. Moved(n, job)
  BY <1>1, BegunMoves
<1>4. ReceivingEnds' /\ n \notin DOMAIN jobs
  BY <1>1, <1>3, BeginsApart
<1>5. Uncrossed' => Uncrossed /\ \A k \in DOMAIN jobs : jobs[k].at = "done"
  <2>1. \A k \in DOMAIN jobs : jobs[k].at \in Waiting \cup {"done"}
    <3> SUFFICES ASSUME NEW k \in DOMAIN jobs PROVE jobs[k].at \in Waiting \cup {"done"}
      OBVIOUS
    <3>1. jobs[k] \in Job
      BY <1>1, FilmOfJob DEF FilmFits
    <3> QED BY <3>1 DEF Job
  <2>2. ~AtWork(Waiting) => \A k \in DOMAIN jobs : jobs[k].at = "done"
    BY <2>1 DEF AtWork
  <2> QED BY <1>1, <2>2 DEF Uncrossed, Note
<1>6. SharesAlone'
  <2> SUFFICES ASSUME Uncrossed', NEW j \in DOMAIN jobs', jobs'[j].at \in {"share", "unsent"}
               PROVE  /\ \A k \in DOMAIN jobs' : k # j => jobs'[k].at = "done"
                      /\ jobs'[j].at = "share" => Current(j)'
    BY DEF SharesAlone
  <2>1. j = n /\ jobs'[n] = job
    BY <1>3, <1>5 DEF Moved
  <2> QED BY <1>2, <1>3, <1>5, <2>1 DEF Moved, Current
<1>7. InRoom'
  BY <1>1 DEF InRoom
<1>8. ASSUME PutOnByUs' PROVE Served'
  <2>1. PutOnByUs /\ Served
    BY <1>1, <1>5, <1>8 DEF PutOnByUs, ShareInv
  <2> QED BY <1>1, <1>2, <1>3, <2>1 DEF Served, Announced, Moved
<1> QED BY <1>4, <1>6, <1>7, <1>8 DEF ShareInv

LEMMA PausingKeepsShares ==
  ASSUME FilmInv, SetSharingPaused PROVE ShareInv'
<1>1. /\ FilmFits /\ ShareInv /\ UNCHANGED <<room, news, view, here, transport, held, jobs, latest, history>>
      /\ me' = [me EXCEPT !.sharing = IF @ = "paused" THEN "sharing" ELSE "paused"]
  BY DEF FilmInv, SetSharingPaused, roomVars
<1>2. me'.receiving = me.receiving /\ me'.sharedId = me.sharedId /\ me'.announced = me.announced
  BY <1>1 DEF FilmFits, DesktopFits, MeFits, FilmMe
<1>3. Uncrossed' <=> Uncrossed
  BY <1>1 DEF Uncrossed
<1>4. ReceivingEnds' /\ SharesAlone' /\ (here' # "in" => \A j \in DOMAIN jobs' : jobs'[j].at # "share")
  BY <1>1, <1>2, <1>3, StillAtWork
<1>5. PutOnByUs' => Served'
  BY <1>1, <1>2, <1>3 DEF ShareInv, PutOnByUs, Served, Announced
<1> QED BY <1>1, <1>4, <1>5 DEF ShareInv, InRoom

\* Putting the film away takes it off the room, unless nothing is shared.
LEMMA UnloadKeepsShares ==
  ASSUME FilmInv, Unload PROVE ShareInv'
<1> DEFINE n == Len(jobs) + 1
<1>1. /\ FilmFits /\ ShareInv /\ CloseFilm(None, {"unloaded"}) /\ UNCHANGED <<view, here>>
      /\ IF me.announced /\ here = "in" /\ (Hosting \/ room.byUs)
         THEN Tell(None, room.mode, FALSE) ELSE UNCHANGED <<room, news>>
  BY DEF FilmInv, Unload
<1>2. /\ ReceivingEnds' /\ SharesAlone' /\ (Uncrossed' => Uncrossed)
      /\ \A j \in DOMAIN jobs' : jobs'[j].at = "share" => j \in DOMAIN jobs /\ jobs[j].at = "share"
  BY <1>1, ClosesApart DEF Optional
<1>3. InRoom'
  BY <1>1, <1>2 DEF ShareInv, InRoom
<1>4. ASSUME PutOnByUs' PROVE Served'
  <2>1. UNCHANGED <<room, news>> /\ ~(me.announced /\ room.byUs)
    BY <1>1, <1>4 DEF PutOnByUs, Tell
  <2>2. PutOnByUs /\ Served
    BY <1>1, <1>2, <1>4, <2>1 DEF PutOnByUs, ShareInv
  <2>3. me.sharedId = None /\ me.receiving = None /\ news = <<>>
    BY <2>1, <2>2 DEF Served, Announced, PutOnByUs
  <2>4. held' = held /\ me' = me /\ Moved(n, Waits(None, "unload", 0))
    BY <1>1, <2>3, CloseFilmLeaves DEF Optional
  <2>5. Waits(None, "unload", 0).at = "unload" /\ Waits(None, "unload", 0).source = None
    BY DEF Waits
  <2> QED BY <2>1, <2>2, <2>3, <2>4, <2>5 DEF Served, Moved
<1> QED BY <1>2, <1>3, <1>4 DEF ShareInv

\* A handler at work that goes on to anything but a share was alone with no share.
LEMMA AdvancesApart ==
  ASSUME FilmInv, NEW j \in DOMAIN jobs, NEW job, Moved(j, job), latest' = latest,
         jobs[j].at # "done", job.at \notin {"share", "unsent"}, Uncrossed' => Uncrossed,
         \/ me'.receiving = None
         \/ /\ me'.receiving = me.receiving /\ jobs[j].at # "unload"
            /\ jobs[j].at = "stop" => job.at = "unload"
            /\ latest = j /\ jobs[j].at \in {"receive", "refused", "load"} => job.at = "load"
  PROVE  /\ ReceivingEnds' /\ SharesAlone' /\ (Uncrossed' => \A k \in DOMAIN jobs' : jobs'[k].at \notin {"share", "unsent"})
         /\ \A k \in DOMAIN jobs' : jobs'[k].at = "share" => k \in DOMAIN jobs /\ jobs[k].at = "share"
<1>1. FilmFits /\ ShareInv
  BY DEF FilmInv
<1>2. latest \in DOMAIN jobs \cup {0} /\ 0 \notin DOMAIN jobs
  BY <1>1 DEF FilmFits, DesktopFits, HandlersFit
<1>3. ReceivingEnds'
  <2> SUFFICES ASSUME me'.receiving # None PROVE LatestAtWork' \/ Closing'
    BY DEF ReceivingEnds
  <2>1. LatestAtWork \/ Closing
    BY <1>1 DEF ShareInv, ReceivingEnds
  <2>2. CASE LatestAtWork
    BY <1>2, <2>2 DEF LatestAtWork, Moved
  <2>3. CASE Closing
    <3>1. PICK k \in DOMAIN jobs : jobs[k].at \in {"stop", "unload"}
      BY <2>3 DEF Closing, AtWork
    <3>2. jobs'[k].at \in {"stop", "unload"} /\ k \in DOMAIN jobs'
      BY <3>1 DEF Moved
    <3> QED BY <3>2 DEF Closing, AtWork
  <2> QED BY <2>1, <2>2, <2>3
<1>4. Uncrossed' => \A k \in DOMAIN jobs : k # j => jobs[k].at \notin {"share", "unsent"}
  BY <1>1 DEF ShareInv, SharesAlone
<1>5. Uncrossed' => \A k \in DOMAIN jobs' : jobs'[k].at \notin {"share", "unsent"}
  BY <1>4 DEF Moved
<1>6. \A k \in DOMAIN jobs' : jobs'[k].at = "share" => k \in DOMAIN jobs /\ jobs[k].at = "share"
  BY DEF Moved
<1> QED BY <1>3, <1>5, <1>6 DEF SharesAlone

LEMMA StoppingKeepsShares ==
  ASSUME FilmInv, NEW j \in DOMAIN jobs, StopDone(j) PROVE ShareInv'
<1> DEFINE job == [jobs[j] EXCEPT !.at = "unload"]
<1>1. /\ FilmFits /\ ShareInv /\ jobs[j].at = "stop" /\ Go(j, job) /\ jobs[j] \in Job
      /\ UNCHANGED <<room, news, view, here, transport, held, me, loads, latest, history>>
  BY FilmOfJob DEF FilmInv, StopDone, roomVars, FilmFits
<1>2. job \in Job /\ job.at = "unload" /\ job.source = jobs[j].source
  <2>1. "unload" \in Waiting
    BY DEF Waiting
  <2>2. job = Waits(jobs[j].source, "unload", jobs[j].via) /\ job \in Job
    BY <1>1, <2>1, JobMovesOn
  <2> QED BY <2>2 DEF Waits
<1> HIDE DEF job
<1>3. Moved(j, job)
  BY <1>1, <1>2, GoMoves DEF FilmFits, HandlersFit
<1>4. Uncrossed' <=> Uncrossed
  BY <1>1 DEF Uncrossed
<1>5. /\ ReceivingEnds' /\ SharesAlone'
      /\ \A k \in DOMAIN jobs' : jobs'[k].at = "share" => k \in DOMAIN jobs /\ jobs[k].at = "share"
  BY <1>1, <1>2, <1>3, <1>4, AdvancesApart
<1>6. InRoom'
  BY <1>1, <1>5 DEF ShareInv, InRoom
<1>7. ASSUME PutOnByUs' PROVE Served'
  <2>1. PutOnByUs /\ Served
    BY <1>1, <1>4, <1>7 DEF PutOnByUs, ShareInv
  <2>2. news = <<>> /\ jobs[j].source = None
    BY <1>1, <2>1 DEF Served
  <2> QED BY <1>1, <1>2, <1>3, <2>1, <2>2 DEF Served, Announced, Moved
<1> QED BY <1>5, <1>6, <1>7 DEF ShareInv

LEMMA UnloadingKeepsShares ==
  ASSUME FilmInv, NEW j \in DOMAIN jobs, UnloadDone(j) PROVE ShareInv'
<1> DEFINE source == jobs[j].source
<1>1. /\ FilmFits /\ ShareInv /\ HandlersFit /\ RoomFits /\ jobs[j].at = "unload" /\ source \in Optional(Source)
      /\ UNCHANGED <<room, news, view, here, playing, loads, history>>
  BY FilmOfJob DEF FilmInv, UnloadDone, roomVars, FilmFits
<1>2. Uncrossed' <=> Uncrossed
  BY <1>1 DEF Uncrossed
<1>3. PutOnByUs' => PutOnByUs /\ Served /\ source = None /\ news = <<>>
  BY <1>1, <1>2 DEF PutOnByUs, ShareInv, Served
<1>4. CASE source = None
  <2>1. me' = Blank /\ Go(j, Done) /\ UNCHANGED <<transport, held, latest>>
    BY <1>4 DEF UnloadDone
  <2>2. Moved(j, Done) /\ Done.at = "done" /\ me'.receiving = None /\ me'.sharedId = None
    BY <1>1, <2>1, GoMoves, DoneIsJob DEF HandlersFit, Blank
  <2>3. /\ ReceivingEnds' /\ SharesAlone'
        /\ \A k \in DOMAIN jobs' : jobs'[k].at = "share" => k \in DOMAIN jobs /\ jobs[k].at = "share"
    BY <1>1, <1>2, <2>1, <2>2, AdvancesApart
  <2>4. InRoom'
    BY <1>1, <2>3 DEF ShareInv, InRoom
  <2>5. PutOnByUs' => Served'
    BY <1>1, <1>3, <2>1, <2>2 DEF Served, Moved
  <2> QED BY <2>3, <2>4, <2>5 DEF ShareInv
<1>5. CASE source # None
  <2>1. Fetch(j, source, view.mode, Blank)
    BY <1>5 DEF UnloadDone
  <2>2. source \in Source /\ view.mode \in Mode
    BY <1>1, <1>5, FilmData DEF RoomFits, State
  <2>3. Uncrossed' => Uncrossed /\ \A k \in DOMAIN jobs : jobs[k].at \notin {"share", "unsent"}
    BY <1>1, <1>2 DEF ShareInv, SharesAlone
  <2>4. /\ ReceivingEnds' /\ SharesAlone'
        /\ \A k \in DOMAIN jobs' : jobs'[k].at = "share" => k \in DOMAIN jobs /\ jobs[k].at = "share"
    BY <1>1, <2>1, <2>2, <2>3, BlankFits, FetchesApart
  <2>5. InRoom'
    BY <1>1, <2>4 DEF ShareInv, InRoom
  <2> QED BY <1>3, <1>5, <2>4, <2>5 DEF ShareInv
<1> QED BY <1>4, <1>5

\* A film the machine has put on leaves no fetch to end.
LEMMA ReceivingKeepsShares ==
  ASSUME FilmInv, NEW j \in DOMAIN jobs, ReceiveDone(j) \/ ReceiveFails(j) \/ FilmLoadFails(j)
  PROVE  ShareInv'
<1>1. /\ FilmFits /\ ShareInv /\ jobs[j].at \in {"receive", "refused", "load"} /\ jobs[j] \in Job
      /\ UNCHANGED <<room, news, view, here, latest>> /\ history' \in {history, history \cup {"failed"}}
  BY FilmOfJob DEF FilmInv, ReceiveDone, ReceiveFails, FilmLoadFails, Failed, Note, roomVars, FilmFits
<1>2. Uncrossed' <=> Uncrossed
  BY <1>1 DEF Uncrossed
<1>3. ~PutOnByUs'
  BY <1>1, <1>2 DEF PutOnByUs, ShareInv, Served
<1>4. \E job : /\ Moved(j, job) /\ job.at \in {"load", "done"}
               /\ \/ me'.receiving = None
                  \/ me'.receiving = me.receiving /\ (latest = j => job.at = "load")
  <2>1. CASE ReceiveDone(j)
    <3> DEFINE job == [jobs[j] EXCEPT !.at = "load"]
    <3>1. job \in Job /\ job.at = "load"
      <4>1. "load" \in Waiting
        BY DEF Waiting
      <4>2. job = Waits(jobs[j].source, "load", jobs[j].via) /\ job \in Job
        BY <1>1, <4>1, JobMovesOn
      <4> QED BY <4>2 DEF Waits
    <3> HIDE DEF job
    <3>2. me' = me /\ (IF latest = j THEN Go(j, job) ELSE Go(j, Done))
      BY <2>1 DEF ReceiveDone, job
    <3> QED BY <1>1, <3>1, <3>2, DoneIsJob, GoMoves DEF FilmFits, HandlersFit
  <2>2. CASE ReceiveFails(j) \/ FilmLoadFails(j)
    <3>1. Go(j, Done) /\ me' = IF latest = j THEN [me EXCEPT !.receiving = None, !.error = "failed"] ELSE me
      BY <2>2 DEF ReceiveFails, FilmLoadFails, Failed
    <3>2. latest # j \/ me'.receiving = None
      BY <1>1, <3>1 DEF FilmFits, DesktopFits, MeFits, FilmMe
    <3> QED BY <1>1, <3>1, <3>2, DoneIsJob, GoMoves DEF FilmFits, HandlersFit
  <2> QED BY <2>1, <2>2
<1>5. /\ ReceivingEnds' /\ SharesAlone'
      /\ \A k \in DOMAIN jobs' : jobs'[k].at = "share" => k \in DOMAIN jobs /\ jobs[k].at = "share"
  BY <1>1, <1>2, <1>4, AdvancesApart
<1>6. InRoom'
  BY <1>1, <1>5 DEF ShareInv, InRoom
<1> QED BY <1>3, <1>5, <1>6 DEF ShareInv

LEMMA NotOpenedKeepsShares ==
  ASSUME FilmInv, NEW j \in DOMAIN jobs, OpenFileFails(j) \/ ShareFails(j) PROVE ShareInv'
<1>1. /\ FilmFits /\ ShareInv /\ jobs[j].at \in {"open", "share", "unsent"} /\ Go(j, Done)
      /\ UNCHANGED <<room, news, view, here, transport, held, me, latest, history>>
  BY DEF FilmInv, OpenFileFails, ShareFails, roomVars
<1>2. Moved(j, Done) /\ Done.at = "done"
  BY <1>1, GoMoves, DoneIsJob DEF FilmFits, HandlersFit
<1>3. Uncrossed' <=> Uncrossed
  BY <1>1 DEF Uncrossed
<1>4. /\ ReceivingEnds' /\ SharesAlone'
      /\ \A k \in DOMAIN jobs' : jobs'[k].at = "share" => k \in DOMAIN jobs /\ jobs[k].at = "share"
  BY <1>1, <1>2, <1>3, AdvancesApart
<1>5. InRoom'
  BY <1>1, <1>4 DEF ShareInv, InRoom
<1>6. PutOnByUs' => Served'
  BY <1>1, <1>2, <1>3 DEF ShareInv, PutOnByUs, Served, Announced, Moved
<1> QED BY <1>4, <1>5, <1>6 DEF ShareInv

\* A share that nothing has crossed ends alone, with the film in the transport.
LEMMA SharedKeepsShares ==
  ASSUME FilmInv, NEW j \in DOMAIN jobs, ShareDone(j) PROVE ShareInv'
<1> DEFINE source == jobs[j].source
<1>1. /\ FilmFits /\ ShareInv /\ jobs[j].at \in {"share", "unsent"} /\ Go(j, Done)
      /\ held' = IF Current(j) THEN held \cup {source} ELSE held
      /\ me' = [me EXCEPT !.sharedId = source, !.sharing = "sharing", !.announced = TRUE]
      /\ IF jobs[j].at = "share" THEN Tell(source, room.mode, TRUE) ELSE UNCHANGED <<room, news>>
      /\ Note(IF news = <<>> THEN {} ELSE {"crossed"})
      /\ UNCHANGED <<view, here, transport, latest>>
  BY DEF FilmInv, ShareDone
<1>2. Moved(j, Done) /\ Done.at = "done"
  BY <1>1, GoMoves, DoneIsJob DEF FilmFits, HandlersFit
<1>3. Uncrossed' => Uncrossed /\ news = <<>>
  BY <1>1 DEF Uncrossed, Note
<1>4. me'.receiving = me.receiving /\ me'.sharedId = source /\ me'.announced
  BY <1>1 DEF FilmFits, DesktopFits, MeFits, FilmMe
<1>5. /\ ReceivingEnds' /\ SharesAlone'
      /\ \A k \in DOMAIN jobs' : jobs'[k].at = "share" => k \in DOMAIN jobs /\ jobs[k].at = "share"
  BY <1>1, <1>2, <1>3, <1>4, AdvancesApart
<1>6. InRoom'
  BY <1>1, <1>5 DEF ShareInv, InRoom
<1>7. ASSUME PutOnByUs' PROVE Served'
  <2>1. Uncrossed /\ news = <<>> /\ here = "in"
    BY <1>1, <1>3, <1>7 DEF PutOnByUs
  <2>2. jobs[j].at = "share"
    BY <1>1, <1>7, <2>1 DEF PutOnByUs, ShareInv, Served
  <2>3. Current(j) /\ \A k \in DOMAIN jobs : k # j => jobs[k].at = "done"
    BY <1>1, <2>1, <2>2 DEF ShareInv, SharesAlone
  <2>4. \A k \in DOMAIN jobs' : jobs'[k].at = "done"
    BY <1>2, <2>3 DEF Moved
  <2>5. me.receiving = None
    <3>1. latest \in DOMAIN jobs \cup {0} /\ ~Closing /\ ~LatestAtWork
      BY <1>1, <2>2, <2>3 DEF FilmFits, DesktopFits, Closing, AtWork, LatestAtWork
    <3> QED BY <1>1, <3>1 DEF ShareInv, ReceivingEnds
  <2>6. room'.source = source /\ \A i \in DOMAIN news' : news'[i].source = source
    BY <1>1, <2>1, <2>2 DEF Tell
  <2> QED BY <1>1, <1>4, <2>3, <2>4, <2>5, <2>6 DEF Served, Announced
<1> QED BY <1>5, <1>6, <1>7 DEF ShareInv

LEMMA FilmKeepsShares ==
  ASSUME FilmInv, [FilmNext]_filmVars PROVE ShareInv'
<1>1. CASE \E j \in DOMAIN jobs : Proceed(j)
  BY <1>1, StoppingKeepsShares, UnloadingKeepsShares, ReceivingKeepsShares, NotOpenedKeepsShares,
     SharedKeepsShares DEF Proceed
<1>2. CASE UNCHANGED filmVars
  <2>1. /\ ShareInv
        /\ UNCHANGED <<room, news, view, here, transport, held, me, jobs, latest, history>>
    BY <1>2 DEF FilmInv, filmVars, roomVars
  <2>2. Uncrossed' <=> Uncrossed
    BY <2>1 DEF Uncrossed
  <2>3. ReceivingEnds' /\ SharesAlone'
    BY <2>1, <2>2, StillAtWork
  <2> QED BY <2>1, <2>2, <2>3 DEF ShareInv, InRoom, PutOnByUs, Served, Announced
<1> QED BY <1>1, <1>2, OthersKeepShares, HearKeepsShares, JoiningKeepsShares, JoinedKeepsShares,
           LeavingKeepsShares, LoadedKeepsShares, OpeningKeepsShares, SharingKeepsShares,
           PausingKeepsShares, UnloadKeepsShares DEF FilmNext

\* The film that this machine has put on in the room is one it serves, however
\* the handlers of index.ts and handlers.ts interleave, as long as no share was
\* begun or ended while another handler was at work.
THEOREM SharerServesAlways == FilmSpec => []SharerServes
<1>1. FilmInit => FilmInv
  BY FitsAtFirst, SharesAtFirst DEF FilmInv
<1>2. FilmInv /\ [FilmNext]_filmVars => FilmInv'
  BY FilmKeepsFits, FilmKeepsShares DEF FilmInv
<1>3. FilmInv => SharerServes
  BY DEF FilmInv, ShareInv, PutOnByUs, Served, Uncrossed, SharerServes
<1> QED BY <1>1, <1>2, <1>3, PTL DEF FilmSpec

-----------------------------------------------------------------------------
\* Somebody who only watches, and has crossed none of the handlers.
Watches == history \cap {"opened", "crossed", "left"} = {}
NoFailure == "failed" \notin history

\* All handlers but these are fetches, overtaken or not, that have not ended.
OnlyFetches(others) ==
  \A j \in DOMAIN jobs \ others : jobs[j].at \in {"receive", "refused", "load", "done"}
NothingLatest == latest = 0 \/ jobs[latest].at = "done"

\* A closeFilm is under way: the film it puts away is no longer kept.
Closes(j) ==
  /\ jobs[j].at \in {"stop", "unload"} /\ OnlyFetches({j}) /\ latest = 0
  /\ jobs[j].at = "unload" => playing = None
  /\ jobs[j].source # None => /\ here = "in" /\ view.source = jobs[j].source
                              /\ me.roomFilmId # None \/ me.receiving # None
  /\ jobs[j].source = None /\ history \subseteq {"raced"} => view.source = None
  /\ NoFailure => held = {}

NoFilm(m) == m.path = None /\ m.sharedId = None /\ m.roomFilmId = None

\* The room's film is on its way: its handler is that of the last generation.
Fetched(j) ==
  /\ jobs[j].at \in {"receive", "refused", "load"} /\ OnlyFetches({})
  /\ here = "in" /\ view.source = jobs[j].source
  /\ NoFilm(me) /\ me.receiving = jobs[j].source /\ me.error = "none"
  /\ jobs[j].at = "receive" => Current(j)
  /\ jobs[j].at = "load" => /\ jobs[j].source.kind = transport.kind
                            /\ playing = jobs[j].source.film /\ Last(loads) = j
  /\ jobs[j].at # "load" => playing = None
  /\ NoFailure => held \subseteq {jobs[j].source}

\* The room's film is open, and perhaps being shared once more.
Watching ==
  /\ here = "in" /\ me.path # None /\ playing = me.path /\ loads = <<>>
  /\ me.sharedId = [film |-> me.path, kind |-> transport.kind] /\ view.source = me.sharedId
  /\ me.roomFilmId = me.sharedId /\ me.receiving = None
  /\ \A j \in DOMAIN jobs : \/ jobs[j].at \in {"receive", "refused", "done"}
                            \/ jobs[j].at = "share" /\ jobs[j].source = me.sharedId
  /\ NothingLatest
  /\ NoFailure => held \subseteq {me.sharedId}

\* No film: the room has none, or it could not be had, or was put away.
Idle ==
  /\ NoFilm(me) /\ me.receiving = None /\ playing = None
  /\ OnlyFetches({}) /\ NothingLatest
  /\ me.error = "none" /\ history \subseteq {"raced"} => view.source = None
  /\ NoFailure => held = {}

WatchPhase ==
  \/ \E j \in DOMAIN jobs : Closes(j)
  \/ latest # 0 /\ Fetched(latest)
  \/ Watching \/ Idle
WatchInv == Watches => (transport.kind = "none" <=> here # "in") /\ WatchPhase

LEMMA WatchesAtFirst == FilmInit => WatchInv
<1> SUFFICES ASSUME FilmInit PROVE (transport.kind = "none" <=> here # "in") /\ Idle
  BY DEF WatchInv, WatchPhase
<1>1. jobs = <<>> /\ DOMAIN jobs = {} /\ me = Blank
  BY DEF FilmInit
<1> QED BY <1>1 DEF FilmInit, Idle, NoFilm, Blank, OnlyFetches, NothingLatest, NoFailure

\* The room's messages and what other people do there are not heard yet.
LEMMA PhaseStays ==
  ASSUME WatchInv, UNCHANGED <<here, transport, held, me, playing, loads, jobs, latest, history>>,
         view'.source = view.source
  PROVE  WatchInv'
<1> SUFFICES ASSUME Watches PROVE WatchPhase'
  BY DEF WatchInv, Watches
<1>1. \A S : OnlyFetches(S) => OnlyFetches(S)'
  BY DEF OnlyFetches
<1>2. ASSUME NEW j, Closes(j) PROVE Closes(j)'
  BY <1>1, <1>2 DEF Closes, NoFailure
<1>3. ASSUME NEW j, Fetched(j) PROVE Fetched(j)'
  BY <1>1, <1>3 DEF Fetched, NoFilm, Current, NoFailure
<1>4. Watching => Watching'
  BY DEF Watching, NothingLatest, NoFailure
<1>5. Idle => Idle'
  BY <1>1 DEF Idle, NoFilm, NothingLatest, NoFailure
<1> QED BY <1>2, <1>3, <1>4, <1>5 DEF WatchInv, WatchPhase

\* With nothing to cross, the handlers at work are fetches.
LEMMA NothingCrossed ==
  ASSUME FilmFits, WatchPhase, Crossing = {}
  PROVE  OnlyFetches({}) /\ ((latest # 0 /\ Fetched(latest)) \/ Watching \/ Idle)
<1>1. \A j \in DOMAIN jobs : jobs[j].at \notin {"stop", "unload", "share"}
  BY DEF Crossing, AtWork
<1>2. ~\E j \in DOMAIN jobs : Closes(j)
  BY <1>1 DEF Closes
<1> QED BY <1>1, <1>2 DEF WatchPhase, OnlyFetches, Fetched, Watching, Idle

LEMMA ClosingBegins ==
  ASSUME FilmFits, WatchPhase, transport.kind = "none" <=> here # "in", Crossing = {},
         NEW source \in Optional(Source), NEW note, CloseFilm(source, note), here' = "in" <=> here = "in",
         source # None => /\ here = "in" /\ view'.source = source
                          /\ me.roomFilmId # None \/ me.receiving # None,
         source = None /\ history' \subseteq {"raced"} => view'.source = None
  PROVE  WatchInv'
<1>0. PICK n : n = Len(jobs) + 1
  OBVIOUS
<1> DEFINE id == IF me.sharedId # None THEN me.sharedId ELSE me.receiving
<1>1. n \notin DOMAIN jobs /\ held \subseteq Source /\ n # 0
  BY <1>0 DEF FilmFits, DesktopFits, HandlersFit
<1>2. /\ latest' = 0 /\ UNCHANGED <<transport, me, loads>> /\ history' = history \cup note
      /\ \/ /\ id # None /\ held' = held \ {id}
            /\ Moved(n, Waits(source, "stop", 0))
         \/ /\ id = None \/ transport.kind = "none"
            /\ held' = held /\ playing' = None
            /\ Moved(n, Waits(source, "unload", 0))
  BY <1>0, CloseFilmLeaves
<1>3. OnlyFetches({}) /\ ((latest # 0 /\ Fetched(latest)) \/ Watching \/ Idle)
  BY NothingCrossed
<1>4. /\ n \in DOMAIN jobs' /\ jobs'[n].at \in {"stop", "unload"} /\ jobs'[n].source = source
      /\ jobs'[n].at = "unload" => playing' = None
  BY <1>2 DEF Moved, Waits
<1>5. OnlyFetches({n})'
  BY <1>1, <1>2, <1>3 DEF OnlyFetches, Moved
<1>6. NoFailure' => held' = {}
  <2> SUFFICES ASSUME NoFailure PROVE held' = {}
    BY <1>2 DEF NoFailure
  <2>1. CASE latest # 0 /\ Fetched(latest)
    <3>1. me.sharedId = None /\ me.receiving = jobs[latest].source /\ held \subseteq {jobs[latest].source}
      BY <2>1 DEF Fetched, NoFilm
    <3>2. here = "in" /\ transport.kind # "none"
      BY <2>1 DEF Fetched
    <3> QED BY <1>1, <1>2, <3>1, <3>2, FilmData
  <2>2. CASE Watching
    <3>1. held \subseteq {me.sharedId} /\ here = "in" /\ transport.kind # "none"
      BY <2>2 DEF Watching
    <3> QED BY <1>1, <1>2, <3>1, FilmData
  <2>3. CASE Idle
    BY <1>2, <2>3 DEF Idle
  <2> QED BY <1>3, <2>1, <2>2, <2>3
<1>7. Closes(n)'
  BY <1>2, <1>4, <1>5, <1>6 DEF Closes
<1> QED BY <1>2, <1>4, <1>7 DEF WatchInv, WatchPhase

LEMMA FetchBegins ==
  ASSUME FilmFits, NEW j \in DOMAIN jobs \cup {Len(jobs) + 1}, NEW source \in Source, NEW mode \in Mode,
         NEW m, MeFits(m), NoFilm(m), Fetch(j, source, mode, m),
         transport.kind = "none" <=> here # "in", OnlyFetches({j}), NoFailure => held = {}, playing = None,
         UNCHANGED <<loads, playing>>, history \subseteq history',
         j \in DOMAIN jobs => jobs[j].at \notin {"load", "open"},
         here' = "in" <=> here = "in"
  PROVE  view'.source = source => WatchInv'
<1>1. transport \in Transport /\ "none" \notin Mode
  BY DEF FilmFits, DesktopFits, Mode
<1>2. transport' = EnsureTransfer(here = "in", mode) /\ latest' = j /\ j # 0
  <2>1. j # 0
    BY DEF FilmFits, HandlersFit
  <2> QED BY <2>1, FetchLeaves
<1>3. transport'.kind = "none" <=> here # "in"
  <2>1. CASE here = "in"
    <3>1. EnsureTransfer(TRUE, mode).kind = mode
      BY <1>1 DEF EnsureTransfer, Fitting, Transport
    <3> QED BY <1>1, <1>2, <2>1, <3>1
  <2>2. CASE here # "in"
    <3>1. EnsureTransfer(FALSE, mode).kind = "none"
      BY <2>2 DEF EnsureTransfer, Fitting
    <3> QED BY <1>2, <2>2, <3>1
  <2> QED BY <2>1, <2>2
<1>4. \/ /\ here # "in" /\ held' = {} /\ Moved(j, Done)
         /\ me' = [m EXCEPT !.receiving = None, !.error = "no transport"]
      \/ /\ here = "in" /\ held' \subseteq held \cup {source}
         /\ \E at \in {"refused", "receive"} : Moved(j, Waits(source, at, transport'.serial))
         /\ me' = [m EXCEPT !.receiving = source, !.error = "none"]
  <2>1. \/ /\ transport'.kind = "none" /\ held' = {} /\ Moved(j, Done)
           /\ me' = [m EXCEPT !.receiving = None, !.error = "no transport"]
        \/ /\ transport'.kind # "none"
           /\ held' \subseteq held \cup {source}
           /\ \E at \in {"refused", "receive"} : Moved(j, Waits(source, at, transport'.serial))
           /\ me' = [m EXCEPT !.receiving = source, !.error = "none"]
    BY FetchLeaves
  <2> QED BY <1>3, <2>1
<1>5. NoFailure' => NoFailure
  BY DEF NoFailure
<1>6. CASE here # "in"
  <2>1. held' = {} /\ Moved(j, Done) /\ me' = [m EXCEPT !.receiving = None, !.error = "no transport"]
    BY <1>4, <1>6
  <2>2. jobs'[j].at = "done" /\ OnlyFetches({})'
    BY <2>1, DoneIsJob DEF OnlyFetches, Moved
  <2>3. NoFilm(me)' /\ me'.receiving = None /\ me'.error = "no transport"
    BY <2>1 DEF NoFilm, MeFits, FilmMe
  <2>4. Idle'
    BY <1>2, <2>1, <2>2, <2>3 DEF Idle, NothingLatest
  <2> QED BY <1>3, <1>6, <2>4 DEF WatchInv, WatchPhase
<1>7. CASE here = "in"
  <2>1. PICK at \in {"refused", "receive"} : Moved(j, Waits(source, at, transport'.serial))
    BY <1>4, <1>7
  <2>2. /\ jobs'[j].at = at /\ jobs'[j].source = source /\ jobs'[j].via = transport'.serial
        /\ OnlyFetches({})'
    BY <2>1 DEF OnlyFetches, Moved, Waits
  <2>3. NoFilm(me)' /\ me'.receiving = source /\ me'.error = "none"
    <3>1. me' = [m EXCEPT !.receiving = source, !.error = "none"]
      BY <1>4, <1>7
    <3> QED BY <3>1 DEF NoFilm, MeFits, FilmMe
  <2>4. NoFailure' => held' \subseteq {source}
    BY <1>4, <1>5, <1>7
  <2>5. view'.source = source => Fetched(j)'
    BY <1>7, <2>2, <2>3, <2>4 DEF Fetched, Current
  <2> QED BY <1>2, <1>3, <1>7, <2>5 DEF WatchInv, WatchPhase
<1> QED BY <1>6, <1>7

LEMMA WatchedFilm ==
  ASSUME FilmFits, transport.kind = "none" <=> here # "in", Watching
  PROVE  me.sharedId \in Source /\ me.sharedId # None /\ transport.kind # "none"
<1>1. transport.kind \in Mode /\ me.path \in Film
  BY FilmData DEF Watching, FilmFits, DesktopFits, Transport, MeFits, FilmMe
<1> QED BY <1>1, FilmData DEF Watching

LEMMA MediaWatched ==
  ASSUME FilmFits, WatchInv, NEW source \in Optional(Source), NEW mode \in Mode, MediaChanged(source, mode),
         here = "in" => source # view.source, here' = "in" <=> here = "in"
  PROVE  view'.source = source => WatchInv'
<1> DEFINE current == IF me.roomFilmId # None THEN me.roomFilmId ELSE me.receiving
<1> SUFFICES ASSUME Watches' PROVE view'.source = source => WatchInv'
  BY DEF WatchInv
<1>1. history' \in {history, history \cup Crossing} /\ (history' = history \cup Crossing => Crossing = {})
  <2>1. history' \in {history, history \cup Crossing}
    BY CloseFilmLeaves DEF MediaChanged, Note, Optional
  <2>2. Crossing \subseteq {"crossed"}
    BY DEF Crossing
  <2> QED BY <2>1, <2>2 DEF Watches
<1>2. Watches /\ history \subseteq history'
  BY <1>1 DEF Watches
<1>3. (transport.kind = "none" <=> here # "in") /\ WatchPhase
  BY <1>2 DEF WatchInv
<1>4. CASE (source = None /\ current # None /\ CloseFilm(None, {}))
           \/ (source \notin {None, me.sharedId} /\ current \notin {None, source} /\ CloseFilm(source, {}))
  <2>1. CloseFilm(source, {}) /\ current # None
    BY <1>4
  <2>2. Crossing = {}
    BY <1>1, <2>1, CloseFilmLeaves
  <2>3. source # None => here = "in"
    <3> SUFFICES ASSUME source # None PROVE here = "in"
      OBVIOUS
    <3>1. (latest # 0 /\ Fetched(latest)) \/ Watching \/ Idle
      BY <1>3, <2>2, NothingCrossed
    <3> QED BY <2>1, <3>1 DEF Fetched, Watching, Idle, NoFilm
  <2>4. me.roomFilmId # None \/ me.receiving # None
    BY <2>1
  <2> QED BY <1>3, <2>1, <2>2, <2>3, <2>4, ClosingBegins
<1>5. CASE /\ source = None /\ current = None /\ me' = [me EXCEPT !.sharing = "off", !.sharedId = None]
           /\ UNCHANGED <<transport, held, playing, loads, jobs, latest, history>>
  <2>1. /\ me'.path = me.path /\ me'.sharedId = None /\ me'.receiving = me.receiving
        /\ me'.roomFilmId = me.roomFilmId /\ me'.error = me.error
    BY <1>5 DEF FilmFits, DesktopFits, MeFits, FilmMe
  <2>2. me.roomFilmId = None /\ me.receiving = None
    BY <1>5
  <2>3. \A S : OnlyFetches(S) => OnlyFetches(S)'
    BY <1>5 DEF OnlyFetches
  <2>4. ASSUME NEW j \in DOMAIN jobs, Closes(j) PROVE view'.source = source => Closes(j)'
    BY <1>5, <2>2, <2>3, <2>4 DEF Closes, NoFailure
  <2>5. ~(latest # 0 /\ Fetched(latest))
    <3> SUFFICES ASSUME latest # 0, Fetched(latest) PROVE FALSE
      OBVIOUS
    <3>1. latest \in DOMAIN jobs /\ jobs[latest].at \notin {"stop", "unload", "done"}
      BY DEF FilmFits, DesktopFits, Fetched
    <3>2. jobs[latest].source # None
      BY <3>1, FilmOfJob DEF FilmFits
    <3> QED BY <2>2, <3>2 DEF Fetched
  <2>6. ~Watching
    BY <1>3, <2>2, WatchedFilm DEF Watching
  <2>7. Idle => (view'.source = source => Idle')
    BY <1>5, <2>1, <2>3 DEF Idle, NoFilm, NothingLatest, NoFailure
  <2>8. view'.source = source => WatchPhase'
    BY <1>3, <1>5, <2>4, <2>5, <2>6, <2>7 DEF WatchPhase
  <2> QED BY <1>3, <1>5, <2>8 DEF WatchInv
<1>6. CASE source # None /\ source = me.sharedId /\ Note(Crossing)
  <2>1. Crossing = {}
    BY <1>1, <1>6 DEF Note
  <2>2. (latest # 0 /\ Fetched(latest)) \/ Watching \/ Idle
    BY <1>3, <2>1, NothingCrossed
  <2> QED BY <1>6, <2>2 DEF Fetched, Watching, Idle, NoFilm
<1>7. CASE /\ source \notin {None, me.sharedId} /\ current \in {None, source}
           /\ Fetch(Len(jobs) + 1, source, mode, me) /\ Note(Crossing) /\ UNCHANGED <<playing, loads>>
  <2>1. Crossing = {} /\ source \in Source
    BY <1>1, <1>7, FilmData DEF Note
  <2>2. OnlyFetches({}) /\ ((latest # 0 /\ Fetched(latest)) \/ Watching \/ Idle)
    BY <1>3, <2>1, NothingCrossed
  <2>3. ~(latest # 0 /\ Fetched(latest))
    <3> SUFFICES ASSUME latest # 0, Fetched(latest) PROVE FALSE
      OBVIOUS
    <3>1. latest \in DOMAIN jobs /\ jobs[latest].at \notin {"stop", "unload", "done"}
      BY DEF FilmFits, DesktopFits, Fetched
    <3>2. jobs[latest].source # None
      BY <3>1, FilmOfJob DEF FilmFits
    <3> QED BY <1>7, <3>2 DEF Fetched, NoFilm
  <2>4. ~Watching
    BY <1>3, <1>7, WatchedFilm DEF Watching
  <2>5. Idle
    BY <2>2, <2>3, <2>4
  <2>6. MeFits(me) /\ Len(jobs) + 1 \notin DOMAIN jobs
    BY DEF FilmFits, DesktopFits, HandlersFit
  <2>7. OnlyFetches({Len(jobs) + 1})
    BY <2>2 DEF OnlyFetches
  <2>8. NoFilm(me) /\ (NoFailure => held = {}) /\ playing = None
    BY <2>5 DEF Idle
  <2> QED BY <1>2, <1>3, <1>7, <2>1, <2>6, <2>7, <2>8, FetchBegins
<1> QED BY <1>4, <1>5, <1>6, <1>7 DEF MediaChanged

LEMMA HearWatched ==
  ASSUME FilmFits, WatchInv, Hear PROVE WatchInv'
<1>1. news # <<>> /\ view' = Head(news) /\ UNCHANGED here
  BY DEF Hear
<1>2. Head(news).source \in Optional(Source) /\ Head(news).mode \in Mode
  <2>1. Head(news) \in State
    BY <1>1 DEF FilmFits, RoomFits
  <2> QED BY <2>1 DEF State
<1>3. CASE Head(news).source = view.source
  <2>1. Quiet
    BY <1>3 DEF Hear
  <2> QED BY <1>1, <1>3, <2>1, PhaseStays DEF Quiet
<1>4. CASE Head(news).source # view.source
  <2>1. MediaChanged(Head(news).source, Head(news).mode)
    BY <1>4 DEF Hear
  <2>2. view'.source = Head(news).source => WatchInv'
    BY <1>1, <1>2, <1>4, <2>1, MediaWatched
  <2> QED BY <1>1, <2>2
<1> QED BY <1>3, <1>4

\* Nothing was open or fetched in a room before, unless one was left.
LEMMA JoiningWatched ==
  ASSUME FilmFits, WatchInv, JoinRoom PROVE WatchInv'
<1>1. /\ here = "out" /\ here' = "joining" /\ view'.source = room.source
      /\ room.source \in Optional(Source) /\ room.mode \in Mode
  BY DEF JoinRoom, FilmFits, RoomFits
<1>2. CASE room.source = None /\ Quiet
  <2> SUFFICES ASSUME Watches PROVE (transport'.kind = "none" <=> here' # "in") /\ WatchPhase'
    BY <1>2 DEF WatchInv, Watches, Quiet
  <2>1. UNCHANGED <<transport, held, me, playing, loads, jobs, latest, history>>
    BY <1>2 DEF Quiet
  <2>2. (transport.kind = "none" <=> here # "in") /\ WatchPhase
    BY DEF WatchInv
  <2>3. \A S : OnlyFetches(S) => OnlyFetches(S)'
    BY <2>1 DEF OnlyFetches
  <2>4. ASSUME NEW j \in DOMAIN jobs, Closes(j) PROVE Closes(j)'
    BY <1>1, <1>2, <2>1, <2>3, <2>4 DEF Closes, NoFailure
  <2>5. Idle => Idle'
    BY <1>1, <1>2, <2>1, <2>3 DEF Idle, NoFilm, NothingLatest, NoFailure
  <2>6. ~(latest # 0 /\ Fetched(latest)) /\ ~Watching
    BY <1>1 DEF Fetched, Watching
  <2> QED BY <1>1, <2>1, <2>2, <2>4, <2>5, <2>6 DEF WatchPhase
<1>3. CASE MediaChanged(room.source, room.mode)
  <2>1. view'.source = room.source => WatchInv'
    BY <1>1, <1>3, MediaWatched
  <2> QED BY <1>1, <2>1
<1> QED BY <1>2, <1>3 DEF JoinRoom

\* createRoom tears down what was there, and nothing was.
LEMMA JoinedWatched ==
  ASSUME FilmFits, WatchInv, Joined PROVE WatchInv'
<1>1. /\ here = "joining" /\ here' = "in" /\ UNCHANGED <<view, me, playing, loads, jobs, latest, history>>
      /\ transport' = EnsureTransfer(TRUE, view.mode) /\ held' = StillHeld(TRUE, view.mode)
  BY DEF Joined
<1>2. transport \in Transport /\ view.mode \in Mode /\ "none" \notin Mode
  BY DEF FilmFits, RoomFits, State, DesktopFits, Mode
<1>3. transport'.kind # "none" /\ held' \subseteq held
  <2>1. EnsureTransfer(TRUE, view.mode).kind = view.mode
    BY <1>2 DEF EnsureTransfer, Fitting, Transport
  <2> QED BY <1>1, <1>2, <2>1 DEF StillHeld
<1> SUFFICES ASSUME Watches PROVE WatchPhase'
  BY <1>1, <1>3 DEF WatchInv, Watches
<1>4. WatchPhase /\ \A S : OnlyFetches(S) => OnlyFetches(S)'
  BY <1>1 DEF WatchInv, OnlyFetches
<1>5. ASSUME NEW j \in DOMAIN jobs, Closes(j) PROVE Closes(j)'
  BY <1>1, <1>3, <1>4, <1>5 DEF Closes, NoFailure
<1>6. Idle => Idle'
  BY <1>1, <1>3, <1>4 DEF Idle, NoFilm, NothingLatest, NoFailure
<1>7. ~(latest # 0 /\ Fetched(latest)) /\ ~Watching
  BY <1>1 DEF Fetched, Watching
<1> QED BY <1>1, <1>4, <1>5, <1>6, <1>7 DEF WatchPhase

LEMMA UnloadWatched ==
  ASSUME FilmFits, WatchInv, Unload PROVE WatchInv'
<1> SUFFICES ASSUME Watches' PROVE WatchInv'
  BY DEF WatchInv
<1>1. CloseFilm(None, {"unloaded"}) /\ UNCHANGED <<view, here>>
  BY DEF Unload
<1>2. history' = history \cup ({"unloaded"} \cup Crossing)
  BY <1>1, CloseFilmLeaves DEF Optional
<1>3. Crossing = {} /\ Watches /\ ~(history' \subseteq {"raced"})
  <2>1. Crossing \subseteq {"crossed"}
    BY DEF Crossing
  <2> QED BY <1>2, <2>1 DEF Watches
<1> QED BY <1>1, <1>3, ClosingBegins DEF WatchInv, Optional

LEMMA ShareWatched ==
  ASSUME FilmFits, WatchInv, Share PROVE WatchInv'
<1> DEFINE n == Len(jobs) + 1
           tm == IF transport.kind = "none" THEN EnsureTransfer(TRUE, view.mode) ELSE transport
           source == [film |-> me.path, kind |-> tm.kind]
           job == Waits(source, "share", tm.serial)
<1> SUFFICES ASSUME Watches' PROVE WatchInv'
  BY DEF WatchInv
<1>1. /\ FilmFits' /\ here = "in" /\ me.path # None /\ Begin(job) /\ transport' = tm
      /\ UNCHANGED <<room, news, view, here, held, me, playing, loads, latest>>
      /\ Note(Crossing \cup IF AtWork(Waiting) THEN {"raced"} ELSE {})
  BY PersonKeepsFits DEF Share, roomVars
<1>2. Crossing = {} /\ Watches /\ history \subseteq history'
  <2>1. Crossing \subseteq {"crossed"}
    BY DEF Crossing
  <2> QED BY <1>1, <2>1 DEF Watches, Note
<1>3. (transport.kind = "none" <=> here # "in") /\ WatchPhase
  BY <1>2 DEF WatchInv
<1>4. Watching
  <2>1. (latest # 0 /\ Fetched(latest)) \/ Watching \/ Idle
    BY <1>2, <1>3, NothingCrossed
  <2> QED BY <1>1, <2>1 DEF Fetched, Idle, NoFilm
<1>5. transport' = transport /\ source = me.sharedId
  BY <1>1, <1>3, <1>4, WatchedFilm DEF Watching
<1>6. job.at = "share" /\ job.source = me.sharedId
  BY <1>5 DEF Waits
<1> HIDE DEF job
<1>7. Moved(n, job) /\ n \notin DOMAIN jobs
  BY <1>1, BegunMoves DEF FilmFits, HandlersFit
<1>8. \A j \in DOMAIN jobs' : \/ jobs'[j].at \in {"receive", "refused", "done"}
                              \/ jobs'[j].at = "share" /\ jobs'[j].source = me.sharedId
  BY <1>4, <1>6, <1>7 DEF Watching, Moved
<1>9. NothingLatest'
  <2>1. latest \in DOMAIN jobs \cup {0}
    BY DEF FilmFits, DesktopFits
  <2> QED BY <1>1, <1>4, <1>7, <2>1 DEF Watching, NothingLatest, Moved
<1>10. NoFailure' => NoFailure
  BY <1>2 DEF NoFailure
<1>11. Watching'
  BY <1>1, <1>4, <1>5, <1>8, <1>9, <1>10 DEF Watching
<1> QED BY <1>1, <1>3, <1>5, <1>11 DEF WatchInv, WatchPhase

LEMMA PausingWatched ==
  ASSUME FilmFits, WatchInv, SetSharingPaused PROVE WatchInv'
<1>1. /\ UNCHANGED <<view, here, transport, held, playing, loads, jobs, latest, history>>
      /\ me' = [me EXCEPT !.sharing = IF @ = "paused" THEN "sharing" ELSE "paused"]
  BY DEF SetSharingPaused, roomVars
<1>2. /\ me'.path = me.path /\ me'.sharedId = me.sharedId /\ me'.receiving = me.receiving
      /\ me'.roomFilmId = me.roomFilmId /\ me'.error = me.error
  BY <1>1 DEF FilmFits, DesktopFits, MeFits, FilmMe
<1> SUFFICES ASSUME Watches PROVE WatchPhase'
  BY <1>1 DEF WatchInv, Watches
<1>3. \A S : OnlyFetches(S) => OnlyFetches(S)'
  BY <1>1 DEF OnlyFetches
<1>4. ASSUME NEW j, Closes(j) PROVE Closes(j)'
  BY <1>1, <1>2, <1>3, <1>4 DEF Closes, NoFailure
<1>5. ASSUME NEW j, Fetched(j) PROVE Fetched(j)'
  BY <1>1, <1>2, <1>3, <1>5 DEF Fetched, NoFilm, Current, NoFailure
<1>6. Watching => Watching'
  BY <1>1, <1>2 DEF Watching, NothingLatest, NoFailure
<1>7. Idle => Idle'
  BY <1>1, <1>2, <1>3 DEF Idle, NoFilm, NothingLatest, NoFailure
<1> QED BY <1>1, <1>4, <1>5, <1>6, <1>7 DEF WatchInv, WatchPhase

-----------------------------------------------------------------------------
LEMMA OnlyFetchesMove ==
  ASSUME NEW j, NEW job, Moved(j, job), NEW S, OnlyFetches(S),
         j \in S \/ job.at \in {"receive", "refused", "load", "done"}
  PROVE  OnlyFetches(S)'
BY DEF OnlyFetches, Moved

\* The fetch of the last generation, if it is still at work, is the room's.
LEMMA LatestFetched ==
  ASSUME FilmFits, WatchPhase, NEW j \in DOMAIN jobs, latest = j,
         jobs[j].at \in {"receive", "refused", "load"}
  PROVE  Fetched(j)
<1>1. j # 0
  BY DEF FilmFits, HandlersFit
<1> QED BY <1>1 DEF WatchPhase, Closes, Watching, Idle, NothingLatest

\* A fetch that was overtaken ends.
LEMMA OvertakenEnds ==
  ASSUME FilmFits, WatchInv, NEW j \in DOMAIN jobs, jobs[j].at \in {"receive", "refused", "load"}, latest # j,
         Moved(j, Done), UNCHANGED <<view, here, transport, me, latest>>, held' \subseteq held,
         history \subseteq history',
         \/ UNCHANGED <<playing, loads>>
         \/ /\ loads # <<>> /\ Last(loads) = j /\ playing' = None
         \/ /\ loads # <<>> /\ Last(loads) # j /\ Last(loads') = Last(loads) /\ UNCHANGED playing
  PROVE  WatchInv'
<1> SUFFICES ASSUME Watches' PROVE WatchInv'
  BY DEF WatchInv
<1>1. Watches /\ (NoFailure' => NoFailure) /\ (history' \subseteq {"raced"} => history \subseteq {"raced"})
  BY DEF Watches, NoFailure
<1>2. (transport.kind = "none" <=> here # "in") /\ WatchPhase
  BY <1>1 DEF WatchInv
<1>3. /\ DOMAIN jobs' = DOMAIN jobs /\ \A k \in DOMAIN jobs : k # j => jobs'[k] = jobs[k]
      /\ jobs'[j].at = "done"
  BY DoneIsJob DEF Moved
<1>4. latest \in DOMAIN jobs \cup {0} /\ 0 \notin DOMAIN jobs
  BY DEF FilmFits, DesktopFits, HandlersFit
<1>5. \A S : OnlyFetches(S) => OnlyFetches(S)'
  BY OnlyFetchesMove, DoneIsJob
<1>6. NothingLatest => NothingLatest'
  BY <1>3, <1>4 DEF NothingLatest
<1>7. ASSUME NEW k \in DOMAIN jobs, Closes(k) PROVE Closes(k)'
  <2>1. jobs'[k] = jobs[k]
    BY <1>3, <1>7 DEF Closes
  <2>2. OnlyFetches({k})'
    BY <1>5, <1>7 DEF Closes
  <2> QED BY <1>1, <1>7, <2>1, <2>2 DEF Closes
<1>8. ASSUME latest # 0, Fetched(latest) PROVE Fetched(latest)'
  <2>1. jobs'[latest] = jobs[latest]
    BY <1>3, <1>4, <1>8
  <2>2. OnlyFetches({})'
    BY <1>5, <1>8 DEF Fetched
  <2>3. jobs[latest].at = "load" => UNCHANGED playing /\ Last(loads') = latest
    BY <1>8 DEF Fetched
  <2>4. jobs[latest].at # "load" => playing' = None
    BY <1>8 DEF Fetched
  <2> QED BY <1>1, <1>8, <2>1, <2>2, <2>3, <2>4 DEF Fetched, NoFilm, Current
<1>9. ASSUME Watching PROVE Watching'
  <2>1. UNCHANGED <<playing, loads>>
    BY <1>9 DEF Watching
  <2> QED BY <1>1, <1>3, <1>6, <1>9, <2>1 DEF Watching
<1>10. ASSUME Idle PROVE Idle'
  <2>1. playing' = None /\ OnlyFetches({})'
    BY <1>5, <1>10 DEF Idle
  <2> QED BY <1>1, <1>6, <1>10, <2>1 DEF Idle, NoFilm
<1>11. WatchPhase'
  BY <1>2, <1>3, <1>7, <1>8, <1>9, <1>10 DEF WatchPhase
<1> QED BY <1>2, <1>11 DEF WatchInv

LEMMA StoppingWatched ==
  ASSUME FilmFits, WatchInv, NEW j \in DOMAIN jobs, StopDone(j) PROVE WatchInv'
<1> DEFINE job == [jobs[j] EXCEPT !.at = "unload"]
<1>1. /\ jobs[j].at = "stop" /\ Go(j, job) /\ playing' = None /\ jobs[j] \in Job
      /\ UNCHANGED <<room, news, view, here, transport, held, me, loads, latest, history>>
  BY FilmOfJob DEF StopDone, roomVars, FilmFits
<1> SUFFICES ASSUME Watches PROVE WatchPhase'
  BY <1>1 DEF WatchInv, Watches
<1>2. job \in Job /\ job.at = "unload" /\ job.source = jobs[j].source
  <2>1. "unload" \in Waiting
    BY DEF Waiting
  <2>2. job = Waits(jobs[j].source, "unload", jobs[j].via) /\ job \in Job
    BY <1>1, <2>1, JobMovesOn
  <2> QED BY <2>2 DEF Waits
<1> HIDE DEF job
<1>3. Moved(j, job)
  BY <1>1, <1>2, GoMoves DEF FilmFits, HandlersFit
<1>4. latest # 0 => latest \in DOMAIN jobs
  BY DEF FilmFits, DesktopFits
<1>5. Closes(j)
  BY <1>1, <1>4 DEF WatchInv, WatchPhase, Closes, OnlyFetches, Fetched, Watching, Idle
<1>6. jobs'[j] = job /\ j \in DOMAIN jobs' /\ OnlyFetches({j})'
  BY <1>3, <1>5, OnlyFetchesMove DEF Moved, Closes
<1>7. Closes(j)'
  BY <1>1, <1>2, <1>5, <1>6 DEF Closes, NoFailure
<1> QED BY <1>6, <1>7 DEF WatchPhase

LEMMA UnloadingWatched ==
  ASSUME FilmFits, WatchInv, NEW j \in DOMAIN jobs, UnloadDone(j) PROVE WatchInv'
<1> DEFINE source == jobs[j].source
<1>1. /\ jobs[j].at = "unload" /\ UNCHANGED <<room, news, view, here, playing, loads, history>>
      /\ source \in Optional(Source) /\ jobs \in Seq(Job)
  BY FilmOfJob DEF UnloadDone, roomVars, FilmFits, HandlersFit
<1> SUFFICES ASSUME Watches PROVE WatchInv'
  BY <1>1 DEF WatchInv, Watches
<1>2. (transport.kind = "none" <=> here # "in") /\ Closes(j)
  BY <1>1 DEF WatchInv, WatchPhase, Closes, OnlyFetches, Fetched, Watching, Idle
<1>3. CASE source = None
  <2>1. me' = Blank /\ Moved(j, Done) /\ UNCHANGED <<transport, held, latest>>
    BY <1>1, <1>3, GoMoves, DoneIsJob DEF UnloadDone
  <2>2. OnlyFetches({})'
    BY <1>2, <2>1, DoneIsJob DEF Closes, OnlyFetches, Moved
  <2>3. NoFilm(me)' /\ me'.receiving = None
    BY <2>1 DEF NoFilm, Blank
  <2>4. Idle'
    BY <1>1, <1>2, <1>3, <2>1, <2>2, <2>3 DEF Idle, Closes, NothingLatest, NoFailure
  <2> QED BY <1>1, <1>2, <2>1, <2>4 DEF WatchInv, WatchPhase
<1>4. CASE source # None
  <2>1. Fetch(j, source, view.mode, Blank)
    BY <1>4 DEF UnloadDone
  <2>2. source \in Source /\ view.mode \in Mode
    BY <1>1, <1>4, FilmData DEF FilmFits, RoomFits, State
  <2>3. NoFilm(Blank) /\ playing = None /\ (NoFailure => held = {}) /\ view'.source = source /\ OnlyFetches({j})
    BY <1>1, <1>2, <1>4 DEF NoFilm, Blank, Closes
  <2>4. view'.source = source => WatchInv'
    BY <1>1, <1>2, <2>1, <2>2, <2>3, BlankFits, FetchBegins
  <2> QED BY <2>3, <2>4
<1> QED BY <1>3, <1>4

LEMMA ReceivingWatched ==
  ASSUME FilmFits, WatchInv, NEW j \in DOMAIN jobs, ReceiveDone(j) PROVE WatchInv'
<1> DEFINE source == jobs[j].source
           job == [jobs[j] EXCEPT !.at = "load"]
<1>1. /\ jobs[j].at = "receive" /\ UNCHANGED <<room, news, view, here, transport, me, latest, history>>
      /\ jobs[j] \in Job /\ jobs \in Seq(Job)
  BY FilmOfJob DEF ReceiveDone, roomVars, FilmFits, HandlersFit
<1>2. CASE latest # j
  <2>1. held' \subseteq held /\ Moved(j, Done) /\ UNCHANGED <<playing, loads>>
    BY <1>1, <1>2, GoMoves, DoneIsJob DEF ReceiveDone
  <2> QED BY <1>1, <1>2, <2>1, OvertakenEnds
<1>3. CASE latest = j
  <2> SUFFICES ASSUME Watches PROVE WatchInv'
    BY <1>1 DEF WatchInv, Watches
  <2>1. (transport.kind = "none" <=> here # "in") /\ Fetched(j)
    BY <1>1, <1>3, LatestFetched DEF WatchInv
  <2>2. job \in Job /\ job.at = "load" /\ job.source = source
    <3>1. "load" \in Waiting
      BY DEF Waiting
    <3>2. job = Waits(source, "load", jobs[j].via) /\ job \in Job
      BY <1>1, <3>1, JobMovesOn
    <3> QED BY <3>2 DEF Waits
  <2>3. /\ held' \subseteq held \cup {source} /\ playing' = source.film /\ loads' = Append(loads, j)
        /\ Go(j, job) /\ (Current(j) => source.kind = transport.kind)
    BY <1>3 DEF ReceiveDone
  <2> HIDE DEF job
  <2>4. Moved(j, job)
    BY <1>1, <2>2, <2>3, GoMoves
  <2>5. jobs'[j] = job /\ j \in DOMAIN jobs' /\ OnlyFetches({})'
    BY <2>1, <2>2, <2>4, OnlyFetchesMove DEF Moved, Fetched
  <2>6. Last(loads') = j
    BY <2>3 DEF Last, FilmFits, HandlersFit
  <2>7. Fetched(j)'
    BY <1>1, <2>1, <2>2, <2>3, <2>5, <2>6 DEF Fetched, NoFilm, NoFailure
  <2>8. latest' # 0
    BY <1>1, <1>3 DEF FilmFits, HandlersFit
  <2> QED BY <1>1, <1>3, <2>1, <2>7, <2>8 DEF WatchInv, WatchPhase
<1> QED BY <1>2, <1>3

LEMMA FailingWatched ==
  ASSUME FilmFits, WatchInv, NEW j \in DOMAIN jobs, ReceiveFails(j) \/ FilmLoadFails(j) PROVE WatchInv'
<1>1. /\ jobs[j].at \in {"receive", "refused", "load"} /\ jobs \in Seq(Job)
      /\ UNCHANGED <<room, news, view, here, transport, held, latest>>
      /\ Go(j, Done) /\ history' = history \cup {"failed"}
      /\ me' = IF latest = j THEN [me EXCEPT !.receiving = None, !.error = "failed"] ELSE me
  BY DEF ReceiveFails, FilmLoadFails, Failed, Note, roomVars, FilmFits, HandlersFit
<1>2. Moved(j, Done)
  BY <1>1, GoMoves, DoneIsJob
<1>3. \/ UNCHANGED <<playing, loads>> /\ jobs[j].at # "load"
      \/ /\ loads # <<>> /\ Last(loads) = j /\ playing' = None
      \/ /\ loads # <<>> /\ Last(loads) # j /\ Last(loads') = Last(loads) /\ UNCHANGED playing
  <2>1. CASE ReceiveFails(j)
    BY <2>1 DEF ReceiveFails
  <2>2. CASE FilmLoadFails(j)
    <3>1. PICK i \in DOMAIN loads : loads[i] = j /\ loads' = RemoveAt(loads, i)
      BY <2>2 DEF FilmLoadFails, GivenUp
    <3>2. Last(loads) # j => Last(loads') = Last(loads)
      BY <1>1, <3>1, LoadEnds DEF FilmFits
    <3>3. loads # <<>>
      BY <3>1
    <3>4. playing' = IF Last(loads) = j THEN None ELSE playing
      BY <2>2 DEF FilmLoadFails, GivenUp
    <3> QED BY <3>2, <3>3, <3>4
  <2> QED BY <2>1, <2>2
<1>4. CASE latest # j
  BY <1>1, <1>2, <1>3, <1>4, OvertakenEnds
<1>5. CASE latest = j
  <2> SUFFICES ASSUME Watches PROVE WatchInv'
    BY <1>1 DEF WatchInv, Watches
  <2>1. (transport.kind = "none" <=> here # "in") /\ Fetched(j)
    BY <1>1, <1>5, LatestFetched DEF WatchInv
  <2>2. playing' = None
    BY <1>3, <2>1 DEF Fetched
  <2>3. NoFilm(me)' /\ me'.receiving = None /\ me'.error = "failed"
    BY <1>1, <1>5, <2>1 DEF Fetched, NoFilm, FilmFits, DesktopFits, MeFits, FilmMe
  <2>4. jobs'[j].at = "done" /\ OnlyFetches({})'
    BY <1>2, <2>1, DoneIsJob, OnlyFetchesMove DEF Moved, Fetched
  <2>5. Idle'
    BY <1>1, <1>5, <2>2, <2>3, <2>4 DEF Idle, NothingLatest, NoFailure
  <2> QED BY <1>1, <2>1, <2>5 DEF WatchInv, WatchPhase
<1> QED BY <1>4, <1>5

\* What ends up open is what the last of the fetches asked the player for.
LEMMA LoadedWatched ==
  ASSUME FilmFits, WatchInv, FileLoaded PROVE WatchInv'
<1>1. playing # None /\ UNCHANGED <<room, news, view, here, transport, held, playing, latest, history>>
  BY DEF FileLoaded, roomVars
<1> SUFFICES ASSUME Watches PROVE WatchPhase'
  BY <1>1 DEF WatchInv, Watches
<1> DEFINE last == Last(loads)
<1>2. /\ loads # <<>> /\ loads' = <<>> /\ last \in DOMAIN jobs
      /\ DOMAIN jobs' = DOMAIN jobs
      /\ \A j \in DOMAIN jobs : jobs'[j] = IF \E i \in DOMAIN loads : loads[i] = j THEN Done ELSE jobs[j]
      /\ \E i \in DOMAIN loads : loads[i] = last
  BY FileLoadedLeaves
<1>3. /\ \A j \in DOMAIN jobs : IF jobs[j].at \in {"load", "open"} THEN jobs'[j] = Done ELSE jobs'[j] = jobs[j]
      /\ jobs[last].at \in {"load", "open"} /\ Done.at = "done"
  BY <1>2, DoneIsJob DEF FilmFits, HandlersFit, LoadsWait
<1> HIDE DEF last
<1>4. \A S : OnlyFetches(S) => OnlyFetches(S)'
  BY <1>2, <1>3 DEF OnlyFetches
<1>5. jobs[last].at = "load" =>
        me' = [path |-> jobs[last].source.film, sharedId |-> jobs[last].source, sharing |-> "sharing",
               announced |-> FALSE, receiving |-> None, roomFilmId |-> jobs[last].source, error |-> me.error]
  BY FileLoadedLeaves DEF last
<1>6. jobs[last].source \in Source /\ jobs[last].source # None
  BY <1>2, <1>3, FilmOfJob DEF FilmFits
<1>7. ASSUME NEW k \in DOMAIN jobs, Closes(k) PROVE Closes(k)'
  <2>1. jobs'[k] = jobs[k] /\ jobs[last].at = "load" /\ OnlyFetches({k})'
    BY <1>2, <1>3, <1>4, <1>7 DEF Closes, OnlyFetches
  <2>2. me'.roomFilmId # None
    BY <1>5, <1>6, <2>1
  <2> QED BY <1>1, <1>7, <2>1, <2>2 DEF Closes, NoFailure
<1>8. ASSUME latest # 0, Fetched(latest) PROVE Watching'
  <2>1. last = latest /\ jobs[last].at = "load"
    BY <1>1, <1>8 DEF Fetched, last
  <2>2. /\ me'.path = jobs[last].source.film /\ me'.sharedId = jobs[last].source
        /\ me'.receiving = None /\ me'.roomFilmId = jobs[last].source
    BY <1>5, <2>1
  <2>3. /\ jobs[last].source = [film |-> jobs[last].source.film, kind |-> transport.kind]
        /\ jobs[last].source.film # None
    BY <1>6, <1>8, <2>1, FilmData DEF Fetched
  <2>4. \A j \in DOMAIN jobs' : jobs'[j].at \in {"receive", "refused", "done"}
    BY <1>2, <1>3, <1>8 DEF Fetched, OnlyFetches
  <2>5. NothingLatest'
    BY <1>1, <1>2, <1>3, <2>1 DEF NothingLatest
  <2>6. /\ here = "in" /\ view.source = jobs[last].source /\ playing = jobs[last].source.film
        /\ NoFailure => held \subseteq {jobs[last].source}
    BY <1>8, <2>1 DEF Fetched
  <2> QED BY <1>1, <1>2, <2>2, <2>3, <2>4, <2>5, <2>6 DEF Watching, NoFailure
<1>9. ~Watching /\ ~Idle
  BY <1>1, <1>2 DEF Watching, Idle
<1> QED BY <1>2, <1>7, <1>8, <1>9 DEF WatchInv, WatchPhase

LEMMA SharedWatched ==
  ASSUME FilmFits, WatchInv, NEW j \in DOMAIN jobs, ShareDone(j) \/ ShareFails(j) PROVE WatchInv'
<1> DEFINE source == jobs[j].source
<1>1. /\ jobs[j].at \in {"share", "unsent"} /\ Go(j, Done) /\ jobs \in Seq(Job)
      /\ UNCHANGED <<view, here, transport, playing, loads, latest>>
      /\ held' \subseteq held \cup {source} /\ history \subseteq history'
      /\ me' \in {me, [me EXCEPT !.sharedId = source, !.sharing = "sharing", !.announced = TRUE]}
  BY DEF ShareDone, ShareFails, Note, roomVars, FilmFits, HandlersFit
<1> SUFFICES ASSUME Watches' PROVE WatchInv'
  BY DEF WatchInv
<1>2. Watches /\ (NoFailure' => NoFailure)
  BY <1>1 DEF Watches, NoFailure
<1>3. latest # 0 => latest \in DOMAIN jobs
  BY DEF FilmFits, DesktopFits
<1>4. (transport.kind = "none" <=> here # "in") /\ Watching /\ jobs[j].at = "share" /\ source = me.sharedId
  BY <1>1, <1>2 DEF WatchInv, WatchPhase, Closes, OnlyFetches, Fetched, Watching, Idle
<1>5. Moved(j, Done) /\ Done.at = "done"
  BY <1>1, GoMoves, DoneIsJob
<1>6. /\ me'.path = me.path /\ me'.sharedId = me.sharedId /\ me'.receiving = me.receiving
      /\ me'.roomFilmId = me.roomFilmId
  BY <1>1, <1>4 DEF FilmFits, DesktopFits, MeFits, FilmMe
<1>7. NothingLatest'
  BY <1>1, <1>3, <1>4, <1>5 DEF Watching, NothingLatest, Moved
<1>8. \A k \in DOMAIN jobs' : \/ jobs'[k].at \in {"receive", "refused", "done"}
                              \/ jobs'[k].at = "share" /\ jobs'[k].source = me.sharedId
  BY <1>4, <1>5 DEF Watching, Moved
<1>9. Watching'
  BY <1>1, <1>2, <1>4, <1>6, <1>7, <1>8 DEF Watching
<1> QED BY <1>1, <1>4, <1>9 DEF WatchInv, WatchPhase

LEMMA FilmKeepsWatched ==
  ASSUME FilmFits, WatchInv, [FilmNext]_filmVars PROVE WatchInv'
<1>1. CASE \E j \in DOMAIN jobs : Proceed(j)
  <2>1. PICK j \in DOMAIN jobs : Proceed(j)
    BY <1>1
  <2>2. CASE OpenFileFails(j)
    <3>1. jobs[j].at = "open" /\ history' = history
      BY <2>2 DEF OpenFileFails
    <3>2. ~WatchPhase
      BY <3>1 DEF WatchPhase, Closes, OnlyFetches, Fetched, Watching, Idle
    <3> QED BY <3>1, <3>2 DEF WatchInv, Watches
  <2> QED BY <2>1, <2>2, StoppingWatched, UnloadingWatched, ReceivingWatched, FailingWatched,
             SharedWatched DEF Proceed
<1>2. CASE (\E f \in Theirs : OthersPutOn(f)) \/ OthersTakeOff \/ SetMode \/ UNCHANGED filmVars
  BY <1>2, PhaseStays DEF OthersPutOn, OthersTakeOff, SetMode, Elsewhere, filmVars, roomVars
<1>3. CASE LeaveRoom \/ \E f \in Own : OpenFile(f)
  BY <1>3 DEF LeaveRoom, OpenFile, Note, WatchInv, Watches
<1> QED BY <1>1, <1>2, <1>3, HearWatched, JoiningWatched, JoinedWatched, LoadedWatched, ShareWatched,
           PausingWatched, UnloadWatched DEF FilmNext

\* Whoever only watches has, once all is quiet, the room's film open and nothing
\* of another, or none because a fetch failed or the person put it away, however
\* the handlers of the room's changes overtook one another (index.ts:118-158).
THEOREM WatchesTheRoomAlways == FilmSpec => []WatchesTheRoom
<1>1. FilmInit => FilmFits /\ WatchInv
  BY FitsAtFirst, WatchesAtFirst
<1>2. FilmFits /\ WatchInv /\ [FilmNext]_filmVars => (FilmFits /\ WatchInv)'
  BY FilmKeepsFits, FilmKeepsWatched
<1>3. FilmFits /\ WatchInv => WatchesTheRoom
  <2> SUFFICES ASSUME FilmFits, WatchInv, Settled, here = "in", Watches
               PROVE  /\ me.sharedId \in {None, view.source} /\ me.path = FilmOf(me.sharedId)
                      /\ playing = me.path
                      /\ "failed" \notin history => held \subseteq {me.sharedId}
                      /\ me.error = "none" /\ history \subseteq {"raced"} => me.sharedId = view.source
    BY DEF WatchesTheRoom, Watches
  <2>1. latest # 0 => latest \in DOMAIN jobs
    BY DEF FilmFits, DesktopFits
  <2>2. (transport.kind = "none" <=> here # "in") /\ (Watching \/ Idle)
    BY <2>1 DEF WatchInv, WatchPhase, Closes, Fetched, Settled
  <2>3. CASE Watching
    <3>1. me.sharedId # None /\ FilmOf(me.sharedId) = me.path
      BY <2>2, <2>3, WatchedFilm DEF Watching, FilmOf
    <3> QED BY <2>3, <3>1 DEF Watching, NoFailure
  <2>4. CASE Idle
    BY <2>4 DEF Idle, NoFilm, NoFailure, FilmOf
  <2> QED BY <2>2, <2>3, <2>4
<1> QED BY <1>1, <1>2, <1>3, PTL DEF FilmSpec

\* Every variable keeps its type, and sharing is shown exactly of a film.
THEOREM FilmTypesAlways == FilmSpec => []FilmTypeOK
<1>1. FilmInit => FilmFits
  BY FitsAtFirst
<1>2. FilmFits /\ [FilmNext]_filmVars => FilmFits'
  BY FilmKeepsFits
<1> QED BY <1>1, <1>2, FitsMeansType, PTL DEF FilmSpec
=============================================================================
