---------------------------- MODULE MCLeaseBook -----------------------------
(* LeaseBook for TLC: small sets, one lane per environment. *)
EXTENDS LeaseBook, TLC

CONSTANTS h1, h2, p1, p2, e1, e2, t1, t2

MCEnvOf == [p \in Prompts |-> IF p = p2 /\ e2 \in Envs THEN e2 ELSE e1]
MCExpiry == [e \in Envs |-> 1]
MCNoReserve == [e \in Envs |-> 0]
MCReserve == [e \in Envs |-> IF e = e1 THEN 1 ELSE 0]
MCLaneMax == [e \in Envs |-> 2]
MCNoLaneMax == [e \in Envs |-> MaxLeases + 1]
MCNoTarget == {NoTarget}
MCTargets == {NoTarget, 1}

Symmetry == Permutations(Hotkeys) \cup Permutations(Threads)
=============================================================================
