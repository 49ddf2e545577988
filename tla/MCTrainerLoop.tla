--------------------------- MODULE MCTrainerLoop ---------------------------
(* Instances of TrainerLoop for TLC. *)
EXTENDS TrainerLoop

MCGroups3 == 1..3
MCGroups5 == 1..5
MCGroups6 == 1..6
MCEnvs == {"math", "code"}
MCEnvOf == [g \in 1..6 |-> IF g % 3 = 0 THEN "code" ELSE "math"]
\* batch_caps off, and at most one group of "math" in a take.
MCNoCaps == [n \in 1..2 |-> <<>>]
MCCaps == [n \in 1..2 |-> [e \in {"math"} |-> 1]]
=============================================================================
