----------------------------- MODULE LeaseQuota -----------------------------
(***************************************************************************)
(* The per-hotkey lease quota of validator/rl_lease_quota.py: the AIMD     *)
(* controller, as operators on one hotkey's entry.  LeaseBook applies them *)
(* inside its own transactions, as QuotaController's callers do.           *)
(*                                                                         *)
(* The Little's-law target (_measure, _target: throughput x latency x      *)
(* headroom over a window of real time) is a parameter: the ceiling of the *)
(* target the controller computes at that moment, or NoTarget while it has *)
(* fewer than MIN_SAMPLES deliveries.  The rest is exact.                  *)
(***************************************************************************)
EXTENDS Integers

CONSTANTS Floor, Initial, Ceiling   \* QuotaConfig.floor, .initial, .ceiling

\* QuotaConfig.__post_init__
ASSUME QuotaConfigAssumption ==
    /\ Floor \in Nat /\ Initial \in Nat /\ Ceiling \in Nat
    /\ 1 <= Floor /\ Floor <= Initial /\ Initial <= Ceiling

SLOW_START == "slow_start"
STEADY == "steady"
NoTarget == -1

\* _Hotkey: what the properties tell apart of it (reason and since are text
\* and time for people; the buckets are behind the target).
Entry == [cap : Floor..Ceiling, phase : {SLOW_START, STEADY}, in_use : Nat,
          round_quota : Floor..Ceiling, delivered : Nat, saturated : BOOLEAN,
          leased : Nat, submitted : Nat, expired : Nat, rejected : Nat,
          released : Nat]

\* _entry: a hotkey never seen starts at the initial quota.
NewEntry ==
    [cap |-> Initial, phase |-> SLOW_START, in_use |-> 0,
     round_quota |-> Initial, delivered |-> 0, saturated |-> FALSE,
     leased |-> 0, submitted |-> 0, expired |-> 0, rejected |-> 0,
     released |-> 0]

LesserOf(a, b) == IF a <= b THEN a ELSE b
GreaterOf(a, b) == IF a >= b THEN a ELSE b

\* Mutant of Clamp: the floor is forgotten.
ClampCeilingOnly(n) == LesserOf(Ceiling, n)

\* _clamp
Clamp(n) == GreaterOf(Floor, LesserOf(Ceiling, n))

\* _quota
Quota(e, target) ==
    IF e.phase = SLOW_START \/ target = NoTarget
    THEN Clamp(e.cap)
    ELSE Clamp(LesserOf(e.cap, target))

\* _new_round
NewRound(e, target) ==
    [e EXCEPT !.round_quota = Quota(e, target),
              !.delivered = 0,
              !.saturated = e.in_use >= Quota(e, target)]

\* in_use = max(0, in_use - 1), in every record_* that ends a lease
Freed(e) == [e EXCEPT !.in_use = GreaterOf(0, @ - 1)]

\* record_lease
RecordLease(e, target) ==
    [e EXCEPT !.in_use = @ + 1,
              !.leased = @ + 1,
              !.saturated = @ \/ e.in_use + 1 >= Quota(e, target)]

\* Mutant of RecordSubmission: the slot is not freed.
RecordSubmissionKeepsSlot(e) == [e EXCEPT !.submitted = @ + 1]

\* record_submission: the slot is freed, nothing is credited
RecordSubmission(e) == [Freed(e) EXCEPT !.submitted = @ + 1]

\* Mutant of RecordRelease: the release is not counted.
RecordReleaseUncounted(e) == Freed(e)

\* record_release
RecordRelease(e) == [Freed(e) EXCEPT !.released = @ + 1]

\* record_paid: the last delivery of a round doubles the cap when the hotkey
\* had held its whole quota, and otherwise ends slow start.
RecordPaid(e, target) ==
    LET paid == [e EXCEPT !.delivered = @ + 1]
        grown == [paid EXCEPT
                    !.cap = IF e.saturated
                            THEN Clamp(GreaterOf(@, 2 * e.round_quota)) ELSE @,
                    !.phase = IF e.saturated THEN @ ELSE STEADY]
    IN  IF paid.delivered >= GreaterOf(1, e.round_quota)
        THEN NewRound(grown, target) ELSE paid

\* record_expiry, cause "expired": x 0.9 (EXPIRY_BACKOFF), at least one lease
RecordExpiry(e, target) ==
    LET before == Quota(e, target)
        cut == Clamp(LesserOf(before - 1, (9 * before) \div 10))
    IN  NewRound([Freed(e) EXCEPT !.expired = @ + 1, !.cap = cut,
                                  !.phase = STEADY], target)

\* record_expiry, cause "rejected": halved
RecordRejection(e, target) ==
    NewRound([Freed(e) EXCEPT !.rejected = @ + 1,
                              !.cap = Clamp(Quota(e, target) \div 2),
                              !.phase = STEADY], target)
=============================================================================
