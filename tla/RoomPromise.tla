----------------------------- MODULE RoomPromise -----------------------------
(***************************************************************************)
(* What a room promises the people in it, without sockets, maps, counters  *)
(* or timers: rooms exist while anybody is in them, each has one leader,   *)
(* who is succeeded by whoever has been there longest, and the right to    *)
(* drive goes with the leader's word and the room's policy.  RoomMembers   *)
(* is shown to implement it.                                               *)
(***************************************************************************)
EXTENDS Naturals, FiniteSets

CONSTANTS
  Person,
  Room,
  Nobody,           \* leads a room with nobody in it
  Capacity          \* how many people one room takes

VARIABLES
  known,        \* the rooms that exist
  people,       \* per room: who is in it
  before,       \* <<p, q>>: both are in one room and p came first
  leader,       \* per room: its leader
  drivers,      \* per room: who of them may drive
  policy        \* per room: do newcomers drive?

vars == <<known, people, before, leader, drivers, policy>>

Away(p) == \A r \in Room : p \notin people[r]

(* Whoever of S has been there longest. *)
First(S) == CHOOSE p \in S : \A q \in S \ {p} : <<p, q>> \in before

Init ==
  /\ known = {}
  /\ people = [r \in Room |-> {}]
  /\ before = {}
  /\ leader = [r \in Room |-> Nobody]
  /\ drivers = [r \in Room |-> {}]
  /\ policy = [r \in Room |-> TRUE]

(* p enters r: the first to enter leads it, and drives. *)
Enters(p, r, first, drives) ==
  /\ people' = [people EXCEPT ![r] = @ \cup {p}]
  /\ before' = before \cup (people[r] \X {p})
  /\ leader' = IF first THEN [leader EXCEPT ![r] = p] ELSE leader
  /\ drivers' = IF first \/ drives THEN [drivers EXCEPT ![r] = @ \cup {p}]
                ELSE drivers

Opens(p, r, open) ==
  /\ Away(p) /\ r \notin known
  /\ known' = known \cup {r}
  /\ policy' = [policy EXCEPT ![r] = open]
  /\ Enters(p, r, TRUE, open)

Arrives(p, r) ==
  /\ Away(p) /\ r \in known
  /\ Cardinality(people[r]) < Capacity
  /\ Enters(p, r, people[r] = {}, policy[r])
  /\ UNCHANGED <<known, policy>>

Departs(p, r) ==
  LET rest == people[r] \ {p} IN
  /\ p \in people[r]
  /\ people' = [people EXCEPT ![r] = rest]
  /\ before' = before \ ((Person \X {p}) \cup ({p} \X Person))
  /\ leader' = IF rest = {} THEN [leader EXCEPT ![r] = Nobody]
               ELSE IF leader[r] = p THEN [leader EXCEPT ![r] = First(rest)]
               ELSE leader
  /\ drivers' = [drivers EXCEPT ![r] = @ \ {p}]
  /\ UNCHANGED <<known, policy>>

(* The leader lets somebody else drive, or no longer. *)
Permits(p, r, may) ==
  /\ p \in people[r] /\ p # leader[r]
  /\ drivers' = [drivers EXCEPT ![r] = IF may THEN @ \cup {p} ELSE @ \ {p}]
  /\ UNCHANGED <<known, people, before, leader, policy>>

(* The leader hands the room to somebody in it, who then drives. *)
HandsOver(p, r) ==
  /\ p \in people[r]
  /\ leader' = [leader EXCEPT ![r] = p]
  /\ drivers' = [drivers EXCEPT ![r] = @ \cup {p}]
  /\ UNCHANGED <<known, people, before, policy>>

SetsPolicy(r, open) ==
  /\ people[r] # {}
  /\ policy' = [policy EXCEPT ![r] = open]
  /\ UNCHANGED <<known, people, before, leader, drivers>>

(* Rooms with nobody in them are forgotten. *)
Forgets(S) ==
  /\ S \subseteq known /\ \A r \in S : people[r] = {}
  /\ known' = known \ S
  /\ policy' = [r \in Room |-> IF r \in S THEN TRUE ELSE policy[r]]
  /\ UNCHANGED <<people, before, leader, drivers>>

Next ==
  \/ \E S \in SUBSET Room : Forgets(S)
  \/ \E p \in Person, r \in Room :
       \/ Arrives(p, r) \/ Departs(p, r) \/ HandsOver(p, r)
       \/ \E b \in BOOLEAN : Opens(p, r, b) \/ Permits(p, r, b)
  \/ \E r \in Room, b \in BOOLEAN : SetsPolicy(r, b)

Spec == Init /\ [][Next]_vars
=============================================================================
