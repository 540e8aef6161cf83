------------------------------ MODULE MCQueue ------------------------------
(***************************************************************************)
(* Instances of MissionQueue.                                              *)
(***************************************************************************)
EXTENDS MissionQueue

\* Three missions of a queue and a direct one.  m1 leaves agent a1 to m2 after
\* d1 was refused by it, so that m2 and d1 may each hold an agent of the other.
ThreeMissions == <<"m1", "m2", "m3">>
Crossed == [w \in {"m1", "m2", "m3", "d1"} |->
              IF w \in {"m2", "d1"} THEN {"a1", "a2"} ELSE {"a1"}]

\* A mission of a queue and one that a client inserts, with a common agent.
OneMission == <<"m1">>
SharedAgent == [w \in {"m1", "d1"} |-> {"a1"}]

Symmetry == Permutations(Handler)
=============================================================================
