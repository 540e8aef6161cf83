--------------------------- MODULE MCOrchestration ---------------------------
(***************************************************************************)
(* Instances of Orchestration: planners and services with the assignments  *)
(* of the planners.                                                        *)
(***************************************************************************)
EXTENDS Orchestration

\* P plans one assignment or three.
OneAsg == [a \in {"a1"} |-> {}]
OwnerOne == [a \in {"a1"} |-> "P"]
OwnerThree == [a \in {"a1", "a2", "a3"} |-> "P"]

\* a1, then a2, then a3.
ThreeNext == [a \in {"a1", "a2", "a3"} |-> CASE a = "a1" -> {"a2"} [] a = "a2" -> {"a3"} [] OTHER -> {}]
ThreeDeps == [a \in {"a1", "a2", "a3"} |-> CASE a = "a2" -> {"a1"} [] a = "a3" -> {"a2"} [] OTHER -> {}]

\* P alone.
AloneNext == [r \in {"P"} |-> {}]

\* P, then the service S.
ChainNext == [r \in {"P", "S"} |-> IF r = "P" THEN {"S"} ELSE {}]
ChainDeps == [r \in {"P", "S"} |-> IF r = "S" THEN {"P"} ELSE {}]

\* P and the service Q in parallel, then S, which depends on both.
JoinNext == [r \in {"P", "Q", "S"} |-> IF r = "S" THEN {} ELSE {"S"}]
JoinDeps == [r \in {"P", "Q", "S"} |-> IF r = "S" THEN {"P", "Q"} ELSE {}]
=============================================================================
