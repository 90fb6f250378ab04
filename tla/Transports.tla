----------------------------- MODULE Transports -----------------------------
(***************************************************************************)
(* The film transport of one machine: "two implementations, chosen by the  *)
(* room's mode" (packages/client/src/transport.ts:28), of which the main   *)
(* process has one at a time (ensureTransfer).  What becomes of a film     *)
(* when the mode changes under it is in FilmLifecycle.                     *)
(***************************************************************************)
EXTENDS OriginTransfer

VARIABLES
    mode,                                               \* the room's
    dir, torrent, tracked, swarmJobs, over, swarmCalls  \* of SwarmTransfer

swarmVars == <<dir, torrent, tracked, swarmJobs, over, swarmCalls>>

Swarm == INSTANCE SwarmTransfer WITH jobs <- swarmJobs, calls <- swarmCalls

TransportInit == mode \in {"origin", "p2p"} /\ Init /\ Swarm!Init

TransportNext ==
    \/ mode = "origin" /\ Next /\ UNCHANGED <<mode, swarmVars>>
    \/ mode = "p2p" /\ Swarm!Next /\ UNCHANGED <<mode, vars>>

TransportSpec == TransportInit /\ [][TransportNext]_<<mode, vars, swarmVars>>

\* Each asks something of its own mode only: in the other nothing is under way.
FairTransportSpec == TransportSpec /\ Fairness /\ Swarm!Fairness

-----------------------------------------------------------------------------
\* "Stop fetching it first.  A transfer still running writes bytes back into
\* the directory while it is being removed, and the film reappears"
\* (handlers.ts:563): a film that was removed does not, unless a receive was
\* under way, which stop does not know of.
RemovedStays == Swarm!RemovedStays

\* "A stalled attempt is torn down and retried" (transfer.ts:133): no receive
\* waits for ever for a torrent of its own.
ReceiveEnds == Swarm!ReceiveEnds

=============================================================================
