----------------------------- MODULE MCAssignment -----------------------------
(***************************************************************************)
(* Instances of AssignmentPipeline: the orders of assignments that a       *)
(* planner's assignment_order gives, as functions from an assignment to    *)
(* the next ones and to those it depends on.                               *)
(***************************************************************************)
EXTENDS AssignmentPipeline, TLC

NoRequestOrder == [r \in {"P"} |-> {}]
NoOrderTwo == [r \in {"P", "R"} |-> {}]
OwnerP2 == [a \in {"a1", "a2"} |-> "P"]
OwnerP3 == [a \in {"a1", "a2", "a3"} |-> "P"]

\* The plan of P, a1 before a2, and that of R, a3.
OwnerTwo == [a \in {"a1", "a2", "a3"} |-> IF a = "a3" THEN "R" ELSE "P"]
TwoPlansNext == [a \in {"a1", "a2", "a3"} |-> IF a = "a1" THEN {"a2"} ELSE {}]
TwoPlansDeps == [a \in {"a1", "a2", "a3"} |-> IF a = "a2" THEN {"a1"} ELSE {}]

\* a1 (order 1), then a2 (order 2).
ChainNext == [a \in {"a1", "a2"} |-> IF a = "a1" THEN {"a2"} ELSE {}]
ChainDeps == [a \in {"a1", "a2"} |-> IF a = "a2" THEN {"a1"} ELSE {}]

\* a1 and a2 (order 1), then a3 (order 2).
JoinNext == [a \in {"a1", "a2", "a3"} |-> IF a = "a3" THEN {} ELSE {"a3"}]
JoinDeps == [a \in {"a1", "a2", "a3"} |-> IF a = "a3" THEN {"a1", "a2"} ELSE {}]

\* a1 and a2, dispatched all at once.
ParallelNext == [a \in {"a1", "a2"} |-> {}]
ParallelDeps == [a \in {"a1", "a2"} |-> {}]

Symmetry == Permutations(Handler)
=============================================================================
