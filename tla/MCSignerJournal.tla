---------------------------- MODULE MCSignerJournal ----------------------------
(* Two weight vectors of one epoch and one of the next, an axon and a signature. *)
EXTENDS SignerJournal

MCKindOf ==
    [o \in Ops |-> CASE o \in {"w1", "w1b", "w2"} -> "set-weights" [] o = "axon" -> "serve-axon"
                     [] o = "index" -> "rl-index-sign" [] OTHER -> "checkpoint-sign"]
MCValueOf == [o \in Ops |-> IF o = "w2" THEN 2 ELSE 1]
================================================================================
