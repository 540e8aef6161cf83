------------------------------ MODULE MCService ------------------------------
(***************************************************************************)
(* Instances of ServicePipeline: the shapes of pipelines that recipes of   *)
(* three steps give, as functions from a step to its next steps and to the *)
(* steps it depends on.                                                    *)
(***************************************************************************)
EXTENDS ServicePipeline, TLC

NoAsg == [a \in {} |-> "A"]

\* A, then B, then C.
ChainNext == [r \in {"A", "B", "C"} |-> CASE r = "A" -> {"B"} [] r = "B" -> {"C"} [] OTHER -> {}]
ChainDeps == [r \in {"A", "B", "C"} |-> CASE r = "B" -> {"A"} [] r = "C" -> {"B"} [] OTHER -> {}]

\* A, then B.
PairNext == [r \in {"A", "B"} |-> IF r = "A" THEN {"B"} ELSE {}]
PairDeps == [r \in {"A", "B"} |-> IF r = "B" THEN {"A"} ELSE {}]

\* A (order 1), then B and C (order 2), where C depends on A and on B.
ForkNext == [r \in {"A", "B", "C"} |-> IF r = "A" THEN {"B", "C"} ELSE {}]
ForkDeps == [r \in {"A", "B", "C"} |-> CASE r = "B" -> {"A"} [] r = "C" -> {"A", "B"} [] OTHER -> {}]

\* A and B in parallel, then C, which waits for both.
JoinNext == [r \in {"A", "B", "C"} |-> IF r = "C" THEN {} ELSE {"C"}]
JoinDeps == [r \in {"A", "B", "C"} |-> IF r = "C" THEN {"A", "B"} ELSE {}]

\* A and B in parallel and nothing after them.
ParallelNext == [r \in {"A", "B"} |-> {}]
ParallelDeps == [r \in {"A", "B"} |-> {}]

Symmetry == Permutations(Handler)
=============================================================================
