---------------------------- MODULE EventDelivery ----------------------------
(***************************************************************************)
(* What the Analytics plugin promises of each event that a client sends: it*)
(* is kept in memory, where it may be lost, until it is written to the     *)
(* store, which happens at most once; from there it only goes when the end *)
(* point has answered it.                                                  *)
(***************************************************************************)
CONSTANT Events

VARIABLE place  \* where each event is

\* Some events go from one place to another.
Move(from, to) ==
    \A e \in Events : place'[e] = place[e] \/ (place[e] = from /\ place'[e] = to)

\* One event does.
MoveOne(from, to) ==
    Move(from, to) /\ \A d, e \in Events : (place'[d] # place[d] /\ place'[e] # place[e]) => d = e

Init == place = [e \in Events |-> "client"]

Send == MoveOne("client", "memory")
Write == MoveOne("memory", "store")
Lose == Move("memory", "lost")
Answer == Move("store", "answered")

\* A step moves something.
Next == place' # place /\ (Send \/ Write \/ Lose \/ Answer)

Spec == Init /\ [][Next]_place
=============================================================================
