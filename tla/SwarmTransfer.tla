---------------------------- MODULE SwarmTransfer ---------------------------
(***************************************************************************)
(* Swarm mode on one machine: one film received over WebTorrent, stopped,  *)
(* and removed from the films kept on disk (packages/client/src/           *)
(* transfer.ts, storage.ts, and films:remove in main/handlers.ts).         *)
(*                                                                         *)
(* Each call of receive, stop and films:remove is a job, taken from one    *)
(* await to the next.  WebTorrent is modelled as it is used: it has one    *)
(* torrent of a film, writes while it has its metadata, and answers        *)
(* neither add of a film it already has nor destroy of what is destroyed.  *)
(***************************************************************************)
EXTENDS Integers

CONSTANT MaxCalls   \* bound: calls of receive, stop and remove

VARIABLES
    dir,        \* the film's directory: there, recorded in meta.json; and gone,
                \* history: asked to remove, or removed, with no receive under way
                \* then or since
    torrent,    \* what the client has of the film: whose, and with metadata
    tracked,    \* whose torrent the map `torrents' has
    jobs,
    over,       \* destroy was called
    calls       \* the bound

vars == <<dir, torrent, tracked, jobs, over, calls>>

CallId == 1 .. MaxCalls
Job == [kind: {"receive", "stop", "remove"}, tries: 0 .. 2, own: BOOLEAN,
        at: {"room", "adding", "destroying", "recording", "stopping", "removing", "done"}]

None == [of |-> 0, ready |-> FALSE]
Idle == [kind |-> "receive", tries |-> 0, own |-> FALSE, at |-> "done"]

TypeOK ==
    /\ dir \in [there: BOOLEAN, recorded: BOOLEAN, gone: {"no", "asked", "yes"}]
    /\ torrent \in [of: CallId \cup {0}, ready: BOOLEAN]
    /\ tracked \in CallId \cup {0} /\ over \in BOOLEAN
    /\ jobs \in [CallId -> Job] /\ calls \in 0 .. MaxCalls

Init ==
    /\ dir = [there |-> FALSE, recorded |-> FALSE, gone |-> "no"]
    /\ torrent = None /\ tracked = 0 /\ over = FALSE
    /\ jobs = [j \in CallId |-> Idle] /\ calls = 0

-----------------------------------------------------------------------------
At(j, kind, at) == jobs[j].kind = kind /\ jobs[j].at = at
Receiving(j) == jobs[j].kind = "receive" /\ jobs[j].at # "done"
Call(job) == ~over /\ calls < MaxCalls /\ calls' = calls + 1
             /\ jobs' = [jobs EXCEPT ![calls + 1] = job]
Go(j, at) == jobs' = [jobs EXCEPT ![j].at = at]

\* torrent.destroy(): it writes no more.  The callback comes later.
Drop(of) == torrent' = IF of # 0 /\ torrent.of = of THEN None ELSE torrent

-----------------------------------------------------------------------------
(* receive                                                                 *)

\* A film that is tracked is answered at once.
Receive ==
    /\ Call(IF tracked # 0 THEN Idle ELSE [Idle EXCEPT !.at = "room"])
    /\ dir' = IF tracked # 0 THEN dir ELSE [dir EXCEPT !.gone = "no"]
    /\ UNCHANGED <<torrent, tracked, over>>

\* OutOfSpaceError.
Refuse(j) ==
    /\ At(j, "receive", "room") /\ jobs' = [jobs EXCEPT ![j] = Idle]
    /\ UNCHANGED <<dir, torrent, tracked, over, calls>>

\* An attempt: the torrent is added, unless the client already has one.
Attempt(j) ==
    /\ jobs' = [jobs EXCEPT ![j].tries = @ + 1, ![j].own = (torrent.of = 0), ![j].at = "adding"]
    /\ torrent' = IF torrent.of = 0 THEN [None EXCEPT !.of = j] ELSE torrent
    /\ UNCHANGED <<dir, tracked, over, calls>>

HasRoom(j) == At(j, "receive", "room") /\ Attempt(j)

Metadata(j) ==
    /\ At(j, "receive", "adding") /\ torrent = [None EXCEPT !.of = j]
    /\ torrent' = [torrent EXCEPT !.ready = TRUE] /\ Go(j, "recording")
    /\ UNCHANGED <<dir, tracked, over, calls>>

\* A mutant: only the first attempt has a timer.
TimesOutOnce(j) ==
    /\ At(j, "receive", "adding") /\ jobs[j].tries = 1
    /\ Drop(j) /\ Go(j, "destroying")
    /\ UNCHANGED <<dir, tracked, over, calls>>

\* No metadata in 45 s.
TimesOut(j) ==
    /\ At(j, "receive", "adding")
    /\ Drop(j) /\ Go(j, "destroying")
    /\ UNCHANGED <<dir, tracked, over, calls>>

\* The callback of destroy: the second attempt, or none.
Retry(j) ==
    /\ At(j, "receive", "destroying")
    /\ \/ jobs[j].tries = 1 /\ Attempt(j)
       \/ /\ jobs[j].tries = 2 /\ jobs' = [jobs EXCEPT ![j] = Idle]
          /\ UNCHANGED <<dir, torrent, tracked, over, calls>>

\* FilmStore.record makes the directory if it must; then the torrent is tracked.
Recorded(j) ==
    /\ At(j, "receive", "recording")
    /\ dir' = [dir EXCEPT !.there = TRUE, !.recorded = TRUE]
    /\ tracked' = j /\ jobs' = [jobs EXCEPT ![j] = Idle]
    /\ UNCHANGED <<torrent, over, calls>>

\* WebTorrent writes a piece, and makes the directory if it must.
Write ==
    /\ torrent.ready /\ ~dir.there /\ dir' = [dir EXCEPT !.there = TRUE]
    /\ UNCHANGED <<torrent, tracked, jobs, over, calls>>

-----------------------------------------------------------------------------
(* stop, films:remove and destroy                                          *)

\* stop: what is not tracked is not stopped.
StopAs(kind, next) ==
    /\ Call([Idle EXCEPT !.kind = kind, !.at = IF tracked = 0 THEN next ELSE "stopping"])
    /\ Drop(tracked) /\ tracked' = 0
    /\ UNCHANGED over

Stop == StopAs("stop", "done") /\ UNCHANGED dir

Asked == dir' = [dir EXCEPT !.gone = IF \E j \in CallId: Receiving(j) THEN "no" ELSE "asked"]

\* A mutant: the directory is removed, and the film goes on being fetched.
RemoveOnly ==
    /\ Call([Idle EXCEPT !.kind = "remove", !.at = "removing"])
    /\ Asked /\ UNCHANGED <<torrent, tracked, over>>

\* Of a film that is not open; what is open is refused, which changes nothing.
Remove == StopAs("remove", "removing") /\ Asked

\* The callback of destroy, or two seconds.
Stopped(j) ==
    /\ jobs[j].at = "stopping"
    /\ IF jobs[j].kind = "remove" THEN Go(j, "removing") ELSE jobs' = [jobs EXCEPT ![j] = Idle]
    /\ UNCHANGED <<dir, torrent, tracked, over, calls>>

Removed(j) ==
    /\ At(j, "remove", "removing")
    /\ dir' = [there |-> FALSE, recorded |-> FALSE,
               gone |-> IF dir.gone = "asked" THEN "yes" ELSE dir.gone]
    /\ jobs' = [jobs EXCEPT ![j] = Idle]
    /\ UNCHANGED <<torrent, tracked, over, calls>>

\* The client goes and its torrents with it; a receive under way is not told,
\* and an attempt that it makes later makes a client of its own.
Destroy ==
    /\ ~over /\ over' = TRUE
    /\ torrent' = None /\ tracked' = 0
    /\ jobs' = [j \in CallId |-> [jobs[j] EXCEPT !.own = FALSE]]
    /\ UNCHANGED <<dir, calls>>

-----------------------------------------------------------------------------
Next ==
    \/ Receive \/ Write \/ Stop \/ Remove \/ Destroy
    \/ \E j \in CallId: \/ Refuse(j) \/ HasRoom(j) \/ Metadata(j) \/ TimesOut(j)
                        \/ Retry(j) \/ Recorded(j) \/ Stopped(j) \/ Removed(j)

\* Timers fire and the file system answers.  destroy answers for a torrent that
\* was alive: not for one the client refused, or destroyed itself.
Fairness ==
    \A j \in CallId: WF_vars(\/ HasRoom(j) \/ TimesOut(j) \/ Recorded(j) \/ Stopped(j)
                              \/ Removed(j) \/ (jobs[j].own /\ Retry(j)))

Spec == Init /\ [][Next]_vars
FairSpec == Spec /\ Fairness

-----------------------------------------------------------------------------
\* "Stop fetching it first.  A transfer still running writes bytes back into
\* the directory while it is being removed, and the film reappears"
\* (handlers.ts:563): a film that was removed does not, unless a receive was
\* under way, which stop does not know of.
RemovedStays == dir.gone = "yes" => ~dir.there

\* "A stalled attempt is torn down and retried" (transfer.ts:133): again and
\* again no receive waits for a torrent of its own, calls being bounded here.
ReceiveEnds == []<>(\A j \in CallId: ~(Receiving(j) /\ jobs[j].own))

=============================================================================
