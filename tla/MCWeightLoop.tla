------------------------------ MODULE MCWeightLoop ------------------------------
(* Two vectors of one epoch and one of the next. *)
EXTENDS WeightLoop

MCKindOf == [o \in Ops |-> "set-weights"]
MCValueOf == [o \in Ops |-> IF o \in {"e1a", "e1b"} THEN 1 ELSE 2]
================================================================================
