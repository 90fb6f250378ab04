--------------------------- MODULE OriginTransfer ---------------------------
(***************************************************************************)
(* Relay mode on one machine: one film fetched from object storage in      *)
(* chunks, kept on disk with a record of what is there, and played while   *)
(* it arrives (packages/client/src/origin-transfer.ts).                    *)
(*                                                                         *)
(* receive, prefetch, serve and stop are asynchronous functions over one   *)
(* `Held' object; every call is a job, and a step takes it from one await  *)
(* to the next.  Call n has job n; the Held object it makes, if it is a    *)
(* receive, is entry n; and the prefetch of that entry is job MaxCalls + n.*)
(* A job keeps its entry when the map has another in its place.  The unit  *)
(* of the ranges is a chunk.                                               *)
(***************************************************************************)
EXTENDS Ranges

CONSTANTS
    Size,       \* chunks in the film
    Ahead,      \* chunks in PREFETCH_SECONDS
    MaxCalls    \* bound: calls of receive, stop and serve, and crashes

ASSUME OriginAssumption ==
    Size \in Nat \ {0} /\ Ahead \in Nat \ {0} /\ MaxCalls \in Nat

VARIABLES
    disk,       \* the film's file, and ranges.json beside it
    entries,    \* Held objects
    held,       \* the one the map has for this film; 0 for none
    jobs,       \* asynchronous calls
    player,     \* whether its owner calls ensureStreamServer; what the player was
                \* given, and whether it has read a hole
    calls       \* the bound

vars == <<disk, entries, held, jobs, player, calls>>

Chunk == 0 .. Size - 1
CallId == 1 .. MaxCalls
JobId == 1 .. 2 * MaxCalls
Kind == {"receive", "prefetch", "serve", "stop"}
Waiting == {"reading", "opening", "fetching", "writing", "saving", "fetched", "closing"}
Lists == {ranges \in Seq((0 .. Size) \X (0 .. Size)): Tidy(ranges)}
Held == [ranges: Lists, open: BOOLEAN, stopped: BOOLEAN, aim: Chunk \cup {-1},
         fetching: {"no", "yes", "over"}]
Job == [kind: Kind, e: CallId \cup {0}, at: Waiting \cup {"ensured", "done"},
        todo: SUBSET Chunk, tries: 0 .. 1, snap: Lists, from: 0 .. Size]

Nobody == [ranges |-> <<>>, open |-> FALSE, stopped |-> FALSE, aim |-> -1, fetching |-> "no"]
Idle == [kind |-> "receive", e |-> 0, at |-> "done", todo |-> {}, tries |-> 0, snap |-> <<>>, from |-> 0]

TypeOK ==
    /\ disk \in [bytes: SUBSET Chunk, saved: Lists]
    /\ entries \in [CallId -> Held] /\ held \in CallId \cup {0}
    /\ jobs \in [JobId -> Job] /\ calls \in 0 .. MaxCalls
    /\ player \in [stream: BOOLEAN, has: {"nothing", "url", "path"}, hole: BOOLEAN]
    /\ \A e \in CallId: entries[e].fetching = "yes" <=> jobs[MaxCalls + e].at # "done"

Init ==
    /\ disk = [bytes |-> {}, saved |-> <<>>]
    /\ entries = [e \in CallId |-> Nobody] /\ held = 0
    /\ jobs = [j \in JobId |-> Idle]
    /\ player \in [stream: BOOLEAN, has: {"nothing"}, hole: {FALSE}]
    /\ calls = 0

-----------------------------------------------------------------------------
\* The next call, and its job.
Call(job) == calls < MaxCalls /\ calls' = calls + 1 /\ jobs' = [jobs EXCEPT ![calls + 1] = job]
Go(j, job) == jobs' = [jobs EXCEPT ![j] = job]
Own(j) == entries[jobs[j].e]

\* ensure, between two chunks: the next that was missing, unless stopped.
Loop(job, stopped) ==
    IF job.todo = {} \/ stopped THEN [job EXCEPT !.at = "ensured", !.todo = {}]
    ELSE [job EXCEPT !.at = "fetching", !.tries = 0]
Complete(entry) == Total(entry.ranges) >= Size

\* The chunks of [start, end) that ensure sets out to fetch.
Lacks(entry, start, end) == Bytes(Missing(entry.ranges, start, Lesser(end, Size)))

\* What a caller of receive opens: the stream if its server runs, else the file.
Handed == player' = [player EXCEPT !.has = IF player.stream THEN "url" ELSE "path"]

\* From the playhead on when a duration is known, else everything.
Window(entry) ==
    IF entry.aim = -1 THEN Lacks(entry, 0, Size) ELSE Lacks(entry, entry.aim, entry.aim + Ahead)

\* prefetch(e), up to its first await; `old' is what jobs becomes otherwise.
\* Nothing to do ends the loop before `fetching' is set, which stays set.
Prefetch(e, old) ==
    IF entries[e].fetching # "no" THEN jobs' = old /\ UNCHANGED entries
    ELSE IF entries[e].stopped \/ Complete(entries[e])
    THEN jobs' = old /\ entries' = [entries EXCEPT ![e].fetching = "over"]
    ELSE /\ entries' = [entries EXCEPT ![e].fetching = "yes"]
         /\ jobs' = [old EXCEPT ![MaxCalls + e] =
                Loop([Idle EXCEPT !.kind = "prefetch", !.e = e,
                                  !.todo = Window(entries[e])], FALSE)]

-----------------------------------------------------------------------------
(* receive                                                                 *)

\* Assumed: a film is asked for anew when nothing is at work on it any more.
Receive ==
    /\ \/ held # 0 /\ Call(Idle) /\ Handed
       \/ /\ held = 0 /\ Call([Idle EXCEPT !.at = "reading"])
          /\ \A j \in JobId: jobs[j].at = "done"
          /\ UNCHANGED player
    /\ UNCHANGED <<disk, entries, held>>

\* There may be no room for it on the disk.
Refuse(j) ==
    /\ jobs[j].at = "reading" /\ Go(j, Idle)
    /\ UNCHANGED <<disk, entries, held, player, calls>>

LoadRanges(j) ==
    /\ jobs[j].at = "reading" /\ Go(j, [jobs[j] EXCEPT !.at = "opening", !.snap = disk.saved])
    /\ UNCHANGED <<disk, entries, held, player, calls>>

\* A mutant: the file is emptied whatever there is to resume.
OpenEmptying(j) ==
    LET ranges == jobs[j].snap IN
    /\ jobs[j].at = "opening"
    /\ disk' = [disk EXCEPT !.bytes = {}]
    /\ entries' = [entries EXCEPT ![j] = [Nobody EXCEPT !.ranges = ranges, !.open = TRUE]]
    /\ held' = j
    /\ Go(j, Loop([Idle EXCEPT !.e = j, !.todo = Bytes(Missing(ranges, 0, 1))], FALSE))
    /\ UNCHANGED <<player, calls>>

\* `w+' when there is nothing to resume, which empties the file.
Open(j) ==
    LET ranges == jobs[j].snap IN
    /\ jobs[j].at = "opening"
    /\ disk' = IF ranges = <<>> THEN [disk EXCEPT !.bytes = {}] ELSE disk
    /\ entries' = [entries EXCEPT ![j] = [Nobody EXCEPT !.ranges = ranges, !.open = TRUE]]
    /\ held' = j
    /\ Go(j, Loop([Idle EXCEPT !.e = j, !.todo = Bytes(Missing(ranges, 0, 1))], FALSE))
    /\ UNCHANGED <<player, calls>>

-----------------------------------------------------------------------------
(* fetchInto: what happens to a chunk that was asked for.                  *)

Arrives(j) ==
    /\ jobs[j].at = "fetching"
    /\ Go(j, IF Own(j).stopped THEN Loop(jobs[j], TRUE) ELSE [jobs[j] EXCEPT !.at = "writing"])
    /\ UNCHANGED <<disk, entries, held, player, calls>>

Written(j) ==
    LET c == Min(jobs[j].todo)
        e == jobs[j].e IN
    /\ jobs[j].at = "writing"
    /\ disk' = [disk EXCEPT !.bytes = @ \cup {c}]
    /\ entries' = [entries EXCEPT ![e].ranges = Add(@, c, c + 1)]
    /\ Go(j, [jobs[j] EXCEPT !.at = "saving", !.snap = Add(entries[e].ranges, c, c + 1)])
    /\ UNCHANGED <<held, player, calls>>

\* Two saves at once may leave a file that cannot be read, which is none.
Saved(j) ==
    /\ jobs[j].at = "saving"
    /\ \E saved \in {jobs[j].snap} \cup
            (IF \E i \in JobId \ {j}: jobs[i].at = "saving" THEN {<<>>} ELSE {}):
          disk' = [disk EXCEPT !.saved = saved]
    /\ Go(j, Loop([jobs[j] EXCEPT !.todo = @ \ {Min(@)}, !.snap = <<>>], Own(j).stopped))
    /\ UNCHANGED <<entries, held, player, calls>>

\* The second failure of a chunk ends the call: receive is rejected and leaves
\* its entry, prefetch is free to begin anew.
Fails(j) ==
    /\ jobs[j].at = "fetching"
    /\ \/ /\ jobs[j].tries = 0 /\ Go(j, [jobs[j] EXCEPT !.tries = 1])
          /\ UNCHANGED entries
       \/ /\ jobs[j].tries = 1 /\ Go(j, Idle)
          /\ entries' = [entries EXCEPT ![jobs[j].e].fetching =
                            IF jobs[j].kind = "prefetch" THEN "no" ELSE @]
    /\ UNCHANGED <<disk, held, player, calls>>

Ensured(j) == jobs[j].at = "ensured"

\* The head is here, or the film was stopped meanwhile: receive resolves.
HeadEnsured(j) ==
    /\ jobs[j].kind = "receive" /\ Ensured(j)
    /\ Prefetch(jobs[j].e, [jobs EXCEPT ![j] = Idle]) /\ Handed
    /\ UNCHANGED <<disk, held, calls>>

\* A mutant: a prefetch whose window is full has nothing more to do.
WindowEnsuredOnly(j) ==
    /\ jobs[j].kind = "prefetch" /\ Ensured(j)
    /\ Go(j, Idle) /\ entries' = [entries EXCEPT ![jobs[j].e].fetching = "over"]
    /\ UNCHANGED <<disk, held, player, calls>>

\* A window of the prefetch is here: the first gap, or a new window, or done.
\* `from' tells the two calls of ensure apart.
WindowEnsured(j) ==
    LET entry == Own(j)
        goes  == ~entry.stopped /\ ~Complete(entry) IN
    /\ jobs[j].kind = "prefetch" /\ Ensured(j)
    /\ IF goes
       THEN /\ Go(j, Loop([jobs[j] EXCEPT
                        !.from = 1 - @,
                        !.todo = IF jobs[j].from = 0
                                 THEN {Missing(entry.ranges, 0, Size)[1][1]}
                                 ELSE Window(entry)], FALSE))
            /\ UNCHANGED entries
       ELSE Go(j, Idle) /\ entries' = [entries EXCEPT ![jobs[j].e].fetching = "no"]
    /\ UNCHANGED <<disk, held, player, calls>>

\* The timer of the main process: where playback is, and a prefetch if none runs.
UpdatePlayhead(c) ==
    /\ held # 0
    /\ IF entries[held].fetching = "no" /\ ~Complete(entries[held])
       THEN LET aimed == [entries[held] EXCEPT !.aim = c] IN
            IF aimed.stopped
            THEN entries' = [entries EXCEPT ![held] = [aimed EXCEPT !.fetching = "over"]] /\ UNCHANGED jobs
            ELSE /\ entries' = [entries EXCEPT ![held] = [aimed EXCEPT !.fetching = "yes"]]
                 /\ Go(MaxCalls + held, Loop([Idle EXCEPT !.kind = "prefetch", !.e = held,
                                                          !.todo = Window(aimed)], FALSE))
       ELSE entries' = [entries EXCEPT ![held].aim = c] /\ UNCHANGED jobs
    /\ UNCHANGED <<disk, held, player, calls>>

-----------------------------------------------------------------------------
(* serve: the player reads from `from' to the end.                         *)

Serve ==
    /\ player.has = "url" /\ held # 0 /\ entries[held].open
    /\ \E c \in Chunk:
          /\ Call(Loop([Idle EXCEPT !.kind = "serve", !.e = held, !.from = c,
                                    !.todo = Lacks(entries[held], c, c + 1)], entries[held].stopped))
          /\ entries' = [entries EXCEPT ![held].aim = IF @ = -1 THEN @ ELSE c]
    /\ UNCHANGED <<disk, held, player>>

Reads(c) ==
    player' = [player EXCEPT !.hole = @ \/ c \notin disk.bytes]

\* A mutant: serve asks for the first chunk only.
ChunkEnsuredOnce(j) ==
    LET entry == Own(j)
        next  == jobs[j].from + 1 IN
    /\ jobs[j].kind = "serve" /\ Ensured(j)
    /\ IF entry.stopped THEN Go(j, Idle) /\ UNCHANGED player
       ELSE /\ Reads(jobs[j].from)
            /\ Go(j, IF next = Size THEN Idle ELSE [jobs[j] EXCEPT !.from = next])
    /\ UNCHANGED <<disk, entries, held, calls>>

ChunkEnsured(j) ==
    LET entry == Own(j)
        next  == jobs[j].from + 1 IN
    /\ jobs[j].kind = "serve" /\ Ensured(j)
    /\ IF entry.stopped THEN Go(j, Idle) /\ UNCHANGED player
       ELSE /\ Reads(jobs[j].from)
            /\ Go(j, IF next = Size THEN Idle
                     ELSE Loop([jobs[j] EXCEPT !.from = next, !.todo = Lacks(entry, next, next + 1)], FALSE))
    /\ UNCHANGED <<disk, entries, held, calls>>

\* A player that was given the file reads what is there.
ReadFile ==
    /\ player.has = "path" /\ \E c \in Chunk: Reads(c)
    /\ UNCHANGED <<disk, entries, held, jobs, calls>>

-----------------------------------------------------------------------------
(* stop, and destroy, which does the same for every film.                  *)

Stop ==
    /\ held # 0
    /\ Call([Idle EXCEPT !.kind = "stop", !.e = held, !.at = "fetched"])
    /\ entries' = [entries EXCEPT ![held].stopped = TRUE]
    /\ player' = [player EXCEPT !.has = "nothing"]
    /\ UNCHANGED <<disk, held>>

\* `await held.fetching'.
PrefetchOver(j) ==
    /\ jobs[j].at = "fetched" /\ Own(j).fetching # "yes"
    /\ Go(j, [jobs[j] EXCEPT !.at = "closing"])
    /\ UNCHANGED <<disk, entries, held, player, calls>>

\* close() waits for what the handle is doing.  Whatever the map has for the
\* film by now goes.
Closed(j) ==
    /\ jobs[j].at = "closing"
    /\ ~\E i \in JobId: jobs[i].e = jobs[j].e /\ jobs[i].at = "writing"
    /\ entries' = [entries EXCEPT ![jobs[j].e].open = FALSE]
    /\ held' = 0 /\ Go(j, Idle)
    /\ UNCHANGED <<disk, player, calls>>

\* The process dies.  A save under way may or may not have been made, or half.
Crash ==
    /\ calls < MaxCalls /\ calls' = calls + 1
    /\ \E saved \in {disk.saved} \cup
            UNION {{<<>>, jobs[j].snap} : j \in {i \in JobId: jobs[i].at = "saving"}}:
          disk' = [disk EXCEPT !.saved = saved]
    /\ entries' = [e \in CallId |-> Nobody] /\ held' = 0
    /\ jobs' = [j \in JobId |-> Idle]
    /\ player' = [player EXCEPT !.has = "nothing"]

-----------------------------------------------------------------------------
Proceed(j) ==
    \/ LoadRanges(j) \/ Open(j) \/ Arrives(j) \/ Written(j) \/ Saved(j)
    \/ HeadEnsured(j) \/ WindowEnsured(j) \/ ChunkEnsured(j) \/ PrefetchOver(j) \/ Closed(j)

Next ==
    \/ Receive \/ Serve \/ Stop \/ Crash \/ ReadFile
    \/ \E c \in Chunk: UpdatePlayhead(c)
    \/ \E j \in JobId: Refuse(j) \/ Fails(j) \/ Proceed(j)

\* Every await ends, the timer ticks, and storage answers again and again.
Fairness ==
    /\ WF_vars(\E c \in Chunk: UpdatePlayhead(c))
    /\ \A j \in JobId: WF_vars(Proceed(j))
    /\ \A e \in CallId: SF_vars(Arrives(MaxCalls + e))

Spec == Init /\ [][Next]_vars
FairSpec == Spec /\ Fairness

-----------------------------------------------------------------------------
\* "Trusting them is safe because the file is only ever written at the offsets
\* they record" (origin-transfer.ts:186): what a later run resumes from is on
\* disk, whenever this one dies.
SavedIsOnDisk == Bytes(disk.saved) \subseteq disk.bytes

\* "Waiting for bytes that have not arrived instead of returning zeros"
\* (origin-transfer.ts:323): a player that reads the stream never gets a hole.
PlaysNoHoles == player.stream => ~player.hole

\* "Open it through the streaming server rather than off disk ... reading it
\* directly would give zeros" (main/index.ts:547): no player gets a hole.  The
\* desktop never starts the server of this transport, and hands out the file.
NeverHoles == ~player.hole

\* A film that is held gets complete, whatever failed before, or is let go of.
FilmArrives == held # 0 ~> (held = 0 \/ Complete(entries[held]) \/ entries[held].stopped)

=============================================================================
