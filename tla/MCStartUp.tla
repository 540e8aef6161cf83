----------------------------- MODULE MCStartUp -----------------------------
(***************************************************************************)
(* Instances of StartUp.                                                   *)
(***************************************************************************)
EXTENDS StartUp

\* Two enabled services of one type, of which one has an unknown context key.
TwoServices ==
  <<[name |-> "s1", entries |-> [type |-> "drive", enable |-> TRUE, colour |-> "red"]],
    [name |-> "s2", entries |-> [type |-> "drive", enable |-> TRUE, url |-> "u",
                                 context |-> {"map_data"}]]>>

OneMission ==
  <<[name |-> "m1",
     entries |-> [maxagents |-> 1,
                  recipe |-> <<[step |-> "A"], [step |-> "B", dependencies |-> {"A"}]>>]]>>

OneAgent == <<"a1">>
=============================================================================
