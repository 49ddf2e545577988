------------------------------- MODULE WeightLoop -------------------------------
(***************************************************************************)
(* The weight setter (reliquary/validator/weight_only.py,                  *)
(* WeightOnlyValidator.run) over the signer of SignerJournal: it polls the *)
(* epoch, asks the signer which epoch was attempted last, computes a       *)
(* vector and has the signer write it.  Epochs pass, either process        *)
(* restarts and calls fail at any point.  The vector is whatever the       *)
(* archives gave that time, so two attempts of an epoch are two operations.*)
(***************************************************************************)
EXTENDS SignerJournal

CONSTANTS MaxEpoch, MaxFaults \* bounds of the instance

VARIABLES
    epoch, lead,  \* the chain: the epoch, and whether its lead window is open
    pc,           \* the loop's step
    eid, eidLead, \* the epoch and the window as the poll read them
    last,         \* _last_submit_epoch, -1 for None
    boot,         \* _bootstrap_pending
    call,         \* the operation the signer was asked for
    late,         \* requests given up on that may still reach the signer
    faults        \* restarts of the setter and failed calls

setter == <<pc, eid, eidLead, last, boot, call>>
clock == <<epoch, lead>>
loopVars == <<vars, clock, setter, late, faults>>

NoCall == "none"

LoopInit ==
    /\ Init
    /\ epoch = 1 /\ lead = FALSE
    /\ pc = "poll" /\ eid = 0 /\ eidLead = FALSE
    /\ last = -1 /\ boot = TRUE /\ call = NoCall /\ late = {} /\ faults = 0

\* The lead window opens, then the next epoch begins.
Blocks ==
    /\ \/ ~ lead /\ lead' = TRUE /\ UNCHANGED epoch
       \/ lead /\ epoch < MaxEpoch /\ epoch' = epoch + 1 /\ lead' = FALSE
    /\ UNCHANGED <<vars, setter, late, faults>>

\* The head is read once and pins the epoch of this iteration.
Poll ==
    /\ pc = "poll"
    /\ eid' = epoch /\ eidLead' = lead
    /\ pc' = "status"
    /\ UNCHANGED <<vars, clock, last, boot, call, late, faults>>

\* An epoch attempted already is left alone.
Attempted(attempt) == attempt >= eid

\* Mutant: a fresh process waits for an epoch attempted already.
StatusForgets ==
    /\ pc = "status"
    /\ last' = cursors["set-weights"]
    /\ pc' = IF last' >= 0 \/ ~ (boot \/ eidLead) THEN "poll" ELSE "submit"
    /\ UNCHANGED <<vars, clock, eid, eidLead, boot, call, late, faults>>

\* last_weight_epoch, then the lead window unless this is the restart's catch-up.
Status ==
    /\ pc = "status"
    /\ last' = cursors["set-weights"]
    /\ pc' = IF Attempted(last') \/ ~ (boot \/ eidLead) THEN "poll" ELSE "submit"
    /\ UNCHANGED <<vars, clock, eid, eidLead, boot, call, late, faults>>

\* The chain's rate limit defers the attempt.
Deferred ==
    /\ pc = "submit"
    /\ faults < MaxFaults
    /\ faults' = faults + 1
    /\ pc' = "poll"
    /\ UNCHANGED <<vars, clock, eid, eidLead, last, boot, call, late>>

\* What the loop records when submit_once returns.
Returned ==
    /\ last' = eid /\ boot' = FALSE
    /\ pc' = "poll" /\ call' = NoCall
    /\ UNCHANGED <<eid, eidLead>>

\* submit_once abstains: a registry or an archive could not be read.
Abstain ==
    /\ pc = "submit"
    /\ faults < MaxFaults
    /\ faults' = faults + 1
    /\ Returned
    /\ UNCHANGED <<vars, clock, late>>

\* submit_once computes a vector of the pinned epoch and calls the signer.
Submit ==
    /\ pc = "submit"
    /\ \E o \in WeightOps : ValueOf[o] = eid /\ call' = o
    /\ pc' = "calling"
    /\ UNCHANGED <<vars, clock, eid, eidLead, last, boot, late, faults>>

\* The signer handles the setter's request: reserved, or answered from the journal.
SignerReceives ==
    /\ pc = "calling"
    /\ Reserve(call) \/ Cached(call)
    /\ pc' = "answer"
    /\ UNCHANGED <<clock, eid, eidLead, last, boot, call, late, faults>>

\* A request the setter gave up on reaches the signer after all.
LateRequest ==
    /\ \E o \in late : (Reserve(o) \/ Cached(o)) /\ late' = late \ {o}
    /\ UNCHANGED <<clock, setter, faults>>

\* The signer's response arrives.
Answer ==
    /\ pc = "answer" /\ answers[call] # {}
    /\ Returned
    /\ UNCHANGED <<vars, clock, late, faults>>

Refused(o) == state[o] # "completed" /\ ~ MayRetry(o) /\ ~ (state[o] = "none" /\ CursorAllows(o))

\* The call raises: refused by the journal, or the handler raised or died.
CallFails ==
    /\ \/ pc = "calling" /\ (Refused(call) \/ handler[call] # "idle")
       \/ pc = "answer" /\ handler[call] = "idle" /\ answers[call] = {}
    /\ pc' = "poll" /\ call' = NoCall
    /\ UNCHANGED <<vars, clock, eid, eidLead, last, boot, late, faults>>

\* The call times out: the signer works on it, or the request is still under way.
CallLost ==
    /\ pc \in {"calling", "answer"} /\ faults < MaxFaults
    /\ faults' = faults + 1
    /\ late' = IF pc = "calling" THEN late \union {call} ELSE late
    /\ pc' = "poll" /\ call' = NoCall
    /\ UNCHANGED <<vars, clock, eid, eidLead, last, boot>>

Restart ==
    /\ faults < MaxFaults
    /\ faults' = faults + 1
    /\ pc' = "poll" /\ last' = -1 /\ boot' = TRUE /\ call' = NoCall
    /\ UNCHANGED <<vars, clock, eid, eidLead, late>>

Setter == Poll \/ Status \/ Submit \/ SignerReceives \/ Answer \/ CallFails

\* The signer works on what it reserved.
Signer ==
    /\ \E o \in Ops : Send(o) \/ ChainAnswers(o) \/ RateLimited(o) \/ Complete(o)
    /\ UNCHANGED <<clock, setter, late, faults>>

SignerFails ==
    /\ Crash \/ \E o \in Ops : Include(o) \/ Raise(o)
    /\ UNCHANGED <<clock, setter, late, faults>>

LoopNext ==
    \/ Setter \/ Signer \/ SignerFails \/ LateRequest
    \/ Blocks \/ Deferred \/ Abstain \/ CallLost \/ Restart

LoopSpec == LoopInit /\ [][LoopNext]_loopVars

FairLoop == LoopSpec /\ WF_loopVars(Setter) /\ WF_loopVars(Signer) /\ WF_loopVars(Blocks)

--------------------------------------------------------------------------------
(* Properties. *)

\* The chain takes at most one vector per epoch from a setter that restarts, retries
\* and loses calls, and none for an epoch the setter had not reached.
EpochWrittenOnce ==
    /\ \A o, p \in WeightOps :
         ValueOf[o] = ValueOf[p] /\ chain[o] + chain[p] > 1 => o = p /\ chain[o] <= 1
    /\ \A o \in WeightOps : chain[o] > 0 => ValueOf[o] <= epoch

\* No failed, uncertain, lost or abstained epoch keeps the setter from attempting the
\* last one.
LaterEpochsAttempted == <>(cursors["set-weights"] = MaxEpoch)
================================================================================
