-------------------------- MODULE SequentialQueue --------------------------
(***************************************************************************)
(* What a mission queue promises: its missions run one at a time and in    *)
(* their order.  A mission that succeeds is followed by the next one by    *)
(* itself; after one that does not, the user starts the queue again.       *)
(***************************************************************************)
EXTENDS Naturals

CONSTANT Length    \* how many missions the queue has, a natural number

VARIABLE stage     \* how far each mission is

Position == 1..Length

TypeOK == stage \in [Position -> {"waiting", "underway", "succeeded", "stopped"}]

Init == stage = [i \in Position |-> "waiting"]

\* The first waiting mission starts when the one before is over.
Begins(i, before) ==
  /\ stage[i] = "waiting"
  /\ \A j \in 1..i-1 : stage[j] \in {"succeeded", "stopped"}
  /\ i = 1 \/ stage[i - 1] \in before
  /\ stage' = [stage EXCEPT ![i] = "underway"]

Follow(i) == i > 1 /\ Begins(i, {"succeeded"})

UserStarts(i) == Begins(i, {"stopped"})

Finish(i) ==
  /\ stage[i] = "underway"
  /\ \E s \in {"succeeded", "stopped"} : stage' = [stage EXCEPT ![i] = s]

Next == \E i \in Position : Follow(i) \/ UserStarts(i) \/ Finish(i)

\* A mission under way ends, and a success is followed up.
Fairness == \A i \in Position : WF_stage(Finish(i)) /\ WF_stage(Follow(i))

Safety == Init /\ [][Next]_stage

Spec == Safety /\ Fairness

\* One at a time, and in order.
OneAtATime ==
  \A i, j \in Position :
    i < j /\ stage[j] # "waiting" => stage[i] \in {"succeeded", "stopped"}
=============================================================================
