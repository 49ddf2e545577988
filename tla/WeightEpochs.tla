------------------------------ MODULE WeightEpochs ------------------------------
(***************************************************************************)
(* What the signer promises the weight setter, without its journal, its    *)
(* handlers and its restarts: epochs are attempted in increasing order and *)
(* the chain takes at most one weight vector of an attempted epoch.        *)
(***************************************************************************)
EXTENDS Integers

CONSTANTS
    Vectors, \* the weight vectors
    EpochOf  \* vector -> the epoch it is for

VARIABLES
    attempted, \* the last epoch attempted, -1 before the first
    included   \* the vectors the chain took

Init == attempted = -1 /\ included = {}

Attempt == \E v \in Vectors : EpochOf[v] > attempted /\ attempted' = EpochOf[v] /\ UNCHANGED included

Include ==
    \E v \in Vectors :
      /\ EpochOf[v] <= attempted
      /\ \A u \in included : EpochOf[u] # EpochOf[v]
      /\ included' = included \union {v}
      /\ UNCHANGED attempted

Spec == Init /\ [][Attempt \/ Include]_<<attempted, included>>
================================================================================
