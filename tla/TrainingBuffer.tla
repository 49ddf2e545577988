--------------------------- MODULE TrainingBuffer ---------------------------
(***************************************************************************)
(* The training buffer (reliquary/validator/rl_buffer.py): in-zone groups  *)
(* wait here for the trainer.  The table rl_buffer is a function b from    *)
(* groups to rows, and each method of TrainingBuffer is an operator on it. *)
(* A group is named by its place in arrival order, which is the order      *)
(* (arrived_at, lease_id) in which the code serves rows.                   *)
(***************************************************************************)
EXTENDS Integers, Sequences, FiniteSetsExt

CONSTANTS
    Groups,             \* 1 .. N, in arrival order
    Envs,               \* environments
    EnvOf,              \* the environment of a group
    BatchCaps,          \* batch_caps(limit): limit -> (environment -> most groups of one take)
    SuspectAttempts,    \* SUSPECT_ATTEMPTS
    UrgentLagMargin,    \* URGENT_LAG_MARGIN
    MaxLag              \* the lease book's and the trainer's max_lag

\* A row's state is none before its group arrives, then queued or taken, and gone once
\* the group is reported.
NoRow == [state |-> "none", attempts |-> 0, k |-> 0]

Queued(b) == {g \in Groups : b[g].state = "queued"}
Taken(b) == {g \in Groups : b[g].state = "taken"}
Buffered(b) == Queued(b) \union Taken(b)

\* The first n of a set of groups in arrival order.
Oldest(S, n) == {g \in S : Cardinality({h \in S : h < g}) < n}

-----------------------------------------------------------------------------
(* mixed_take on the groups S: the urgent ones first, whatever the caps,   *)
(* then each environment up to its cap, then the extra ones of the capped  *)
(* environments while the take is short.                                   *)

\* Mutant of Urgent: the margin is one checkpoint short.
UrgentLate(b, S, limit, below) == Oldest({g \in S : b[g].k < below - 1}, limit)

\* The groups about to pass the max lag, oldest checkpoint first.
Urgent(b, S, limit, below) ==
    LET late == {g \in S : b[g].k < below}
        Before(h, g) == b[h].k < b[g].k \/ (b[h].k = b[g].k /\ h < g)
    IN  {g \in late : Cardinality({h \in late : Before(h, g)}) < limit}

SameEnv(S, g) == {h \in S : EnvOf[h] = EnvOf[g]}

\* Mutant of WithinCap: the groups handed out so far are not counted.
WithinCapUncounted(caps, urgent, rest) == {g \in rest : EnvOf[g] \in DOMAIN caps => caps[EnvOf[g]] > 0}

\* The groups of the rest whose environment, with the urgent ones and the earlier ones of the rest, is below its cap.
WithinCap(caps, urgent, rest) ==
    {g \in rest : EnvOf[g] \in DOMAIN caps =>
        Cardinality(SameEnv(urgent, g)) + Cardinality({h \in SameEnv(rest, g) : h < g}) < caps[EnvOf[g]]}

\* Mutant of mixed_take: the extra groups are not used when the batch is short.
mixed_take_strict(b, S, caps, limit, below) ==
    LET urgent == Urgent(b, S, limit, below)
    IN  urgent \union Oldest(WithinCap(caps, urgent, S \ urgent), limit - Cardinality(urgent))

mixed_take(b, S, caps, limit, below) ==
    LET urgent == Urgent(b, S, limit, below)
        within == WithinCap(caps, urgent, S \ urgent)
        chosen == urgent \union Oldest(within, limit - Cardinality(urgent))
    IN  chosen \union Oldest(S \ (urgent \union within), limit - Cardinality(chosen))

-----------------------------------------------------------------------------
Fresh(b) == {g \in Queued(b) : b[g].attempts < SuspectAttempts}

\* Groups of older checkpoints are about to pass the max lag.
UrgentBelow(latest) == latest - MaxLag + UrgentLagMargin

\* The fresh groups of a take: arrival order alone, or mixed_take under the caps.
TakeFresh(b, limit, latest) ==
    IF BatchCaps[limit] = <<>> THEN Oldest(Fresh(b), limit)
    ELSE mixed_take(b, Fresh(b), BatchCaps[limit], limit, UrgentBelow(latest))

\* Mutant of SuspectOut: take does not look at what is out.
SuspectNeverOut(b) == FALSE

\* A suspect is out already: take serves one of them at a time.
SuspectOut(b) == \E g \in Taken(b) : b[g].attempts > SuspectAttempts

\* The suspect served next: fewest attempts, then arrival order.
NextSuspect(b) ==
    LET S == Queued(b) \ Fresh(b)
    IN  {g \in S : \A h \in S : \/ b[g].attempts < b[h].attempts
                                \/ b[g].attempts = b[h].attempts /\ g <= h}

\* What take(limit) hands out.
TakeSet(b, limit, latest) ==
    LET fresh == TakeFresh(b, limit, latest)
    IN  fresh \union (IF Cardinality(fresh) >= limit \/ SuspectOut(b) THEN {} ELSE NextSuspect(b))

\* Mutant of HandOut: the hand-out is not counted.
HandOutUncounted(b, S) ==
    [g \in Groups |-> IF g \in S THEN [b[g] EXCEPT !.state = "taken"] ELSE b[g]]

HandOut(b, S) ==
    [g \in Groups |-> IF g \in S THEN [b[g] EXCEPT !.state = "taken", !.attempts = @ + 1] ELSE b[g]]

\* Mutant of TakeExhausted: a group leaves one hand-out early.
TakeNearlyExhausted(b, most) == {g \in Queued(b) : b[g].attempts >= most - 1}

\* What take_older and take_exhausted hand out, and how: the hand-out is not counted.
TakeOlder(b, below) == {g \in Queued(b) : b[g].k < below}
TakeExhausted(b, most) == {g \in Queued(b) : b[g].attempts >= most}
MarkTaken(b, S) == [g \in Groups |-> IF g \in S THEN [b[g] EXCEPT !.state = "taken"] ELSE b[g]]

Push(b, g, k) == [b EXCEPT ![g] = [state |-> "queued", attempts |-> 0, k |-> k]]
Release(b, S) == [g \in Groups |-> IF g \in S \intersect Taken(b) THEN [b[g] EXCEPT !.state = "queued"] ELSE b[g]]
Requeue(b) == Release(b, Groups)

_remove(b, g) == [b EXCEPT ![g].state = "gone"]
=============================================================================
