----------------------------- MODULE LeaseBook ------------------------------
(***************************************************************************)
(* The RL lease book and the submission path that closes its leases:       *)
(* validator/rl_leases.py, the submission and report handlers of           *)
(* validator/rl_submit.py, the submit route of validator/rl_lease_routes.py *)
(* and the sweep of validator/rl_async_service.py.                         *)
(*                                                                         *)
(* Every handler runs in one SQLite transaction under the book's RLock, so *)
(* a handler is one action.  The exception is a handler that treats a list *)
(* of rows one by one (the expiry sweep, a batch of lease requests): it    *)
(* takes `lock', works row by row in any order, and no other handler runs  *)
(* until it gives the lock back.  A crash inside a transaction rolls it    *)
(* back, which is a crash before it began; Crash therefore needs the lock. *)
(*                                                                         *)
(* A request the code refuses without changing anything is a stutter and   *)
(* has no action.                                                          *)
(***************************************************************************)
EXTENDS LeaseQuota, FiniteSets, FiniteSetsExt, Sequences

CONSTANTS
    Hotkeys, Prompts, Envs, EnvOf,  \* a prompt is an (environment, index) pair
    Threads,                        \* submissions the server handles at once
    Verdicts,                       \* what grading can answer (a subset of AllVerdicts)
    Draws, Lengths,                 \* is the group drawn for audit; are its tokens enough
    AuditResults, TrainingResults,  \* what an audit and the trainer can report
    SandboxCauses,                  \* what sandbox_failure can answer, besides nothing
    Targets,                        \* what the quota's Little's-law target can be
    Cooldowns, BanLengths,          \* values cooldown_of and an operator's ban take
    MaxLag,                         \* LeaseBookConfig.max_lag
    Expiry,                         \* LeaseBookConfig.expiry_s, per environment
    RestartGrace, AliveEvery, DowntimeMin, DowntimeKeep, Day, BoxFailedPerDay,
    HotkeyMaxOpen, Cap, Reserve, LaneMax,
    Stalls,                         \* may the expiry loop stall past DowntimeMin?
    MaxLeases, MaxCheckpoint, MaxTime, MaxCrashes    \* the model's bounds

Leases == 1..MaxLeases              \* lease ids
Checkpoints == 0..MaxCheckpoint
NoCheckpoint == -1

IN_ZONE == "in_zone"
TOO_EASY == "too_easy"
TOO_HARD == "too_hard"
REJECTED == "rejected"
GRADER_FAULT == "grader_fault"      \* REJECTED for a reason of GRADER_FAULTS
AllVerdicts == {IN_ZONE, TOO_EASY, TOO_HARD, REJECTED, GRADER_FAULT}
BOX_FAILED == "box_failed"
NoFailure == "none"

ASSUME LeaseBookAssumption ==
    /\ EnvOf \in [Prompts -> Envs] /\ Expiry \in [Envs -> Nat \ {0}]
    /\ Reserve \in [Envs -> Nat] /\ LaneMax \in [Envs -> Nat]
    /\ Verdicts \subseteq AllVerdicts
    /\ Draws \subseteq BOOLEAN /\ Lengths \subseteq BOOLEAN
    /\ AuditResults \subseteq {"passed", "failed", "inconclusive"}
    /\ TrainingResults \subseteq BOOLEAN
    /\ Targets \subseteq Nat \cup {NoTarget} /\ Targets # {}
    /\ Cooldowns \subseteq Nat /\ Cooldowns # {} /\ BanLengths \subseteq Nat
    /\ SandboxCauses \cap {NoFailure, "expired", "forfeited"} = {}
    /\ \A c \in {MaxLag, RestartGrace, AliveEvery, DowntimeMin, DowntimeKeep,
                 Day, BoxFailedPerDay, HotkeyMaxOpen, Cap, MaxLeases,
                 MaxCheckpoint, MaxTime, MaxCrashes} : c \in Nat
    /\ MaxLeases # 0 /\ Stalls \in BOOLEAN
    /\ IsFiniteSet(Hotkeys) /\ IsFiniteSet(Envs) /\ IsFiniteSet(Threads)

VARIABLES
    now,        \* the validator's clock
    up,         \* the validator process runs
    crashes,    \* crashes so far (bounded)
    alive,      \* rl_validator_alive.at, and the memory's _alive_at while up
    downtimes,  \* rl_validator_downtime: [start, end]
    latest,     \* rl_lease_meta 'latest'
    secrets,    \* rl_lease_secrets: per checkpoint none, secret or revealed
    leases,     \* rl_leases
    submitting, \* _submitting: per lease, submissions that hold it (memory)
    subs,       \* the submit route's requests in progress (memory)
    groups,     \* rl_groups, rl_buffer (training = queued), rl_audits (audit = pending)
    events,     \* rl_events: per lease the pay events written, in order
    prompts,    \* rl_prompt_state, and whether rl_prompt_scans has a too_easy
    cooldown,   \* what cooldown_of answers now
    bans,       \* rl_hotkey_bans.until
    quota,      \* QuotaController: one LeaseQuota entry per hotkey
    target,     \* per hotkey, the ceiling of _target as measured now
    revise,     \* adopt_checkpoint committed and its revise_cooldowns is due
    sweeper,    \* the expiry loop: "mark" (mark_alive next) or "sweep"
    lock,       \* who holds the book across steps: "free"; "sweep"; "grant"
                \* (sweeping first), then "claims"
    due, at,    \* _expire(at): the leases it still has to close
    room        \* grant: room[hotkey] of the batch being resolved

clockVars == <<now, up, crashes, alive, downtimes>>
txnVars == <<lock, due, at, room>>
vars == <<now, up, crashes, alive, downtimes, latest, secrets, leases,
          submitting, subs, groups, events, prompts, cooldown, bans, quota,
          target, revise, sweeper, lock, due, at, room>>

-----------------------------------------------------------------------------
(* Rows. *)

Causes == {NoFailure, "expired", "forfeited", "box_failed_over_budget",
           "validator_unavailable"} \cup SandboxCauses
LeaseStates == {"none", "open", "submitted", "expired", "released", "pruned"}
\* A "none" row is not issued yet.  A "pruned" row is deleted: its other
\* fields stay as history that no action reads.
Row == [state : LeaseStates, hotkey : Hotkeys \cup {NoFailure},
        prompt : Prompts \cup {NoFailure}, k : Checkpoints \cup {NoCheckpoint},
        issued : Nat, expires : Nat, closed : Nat,
        cause : Causes]
NoRow == [state |-> "none", hotkey |-> NoFailure, prompt |-> NoFailure,
          k |-> NoCheckpoint, issued |-> 0, expires |-> 0, closed |-> 0,
          cause |-> NoFailure]
Group == [verdict : AllVerdicts \cup {"none"}, first : BOOLEAN,
          enough : BOOLEAN,         \* completion_tokens >= first_scan_min_tokens
          training : {"none", "queued", "accepted", REJECTED},
          audit : {"none", "pending", "not_drawn", "passed", "failed", "inconclusive"}]
NoGroup == [verdict |-> "none", first |-> FALSE, enough |-> FALSE, training |-> "none", audit |-> "none"]
PayEvents == {"trained", "untrained", "first_scan", "first_scan_forfeited"}
Sub == [pc : {"idle", "arrived", "held", "grading", "release"},
        lease : Leases, arrived : Nat]
Prompt == [state : {"new", "cooldown", "blacklisted"}, until : Nat, start : Nat,
           easy : BOOLEAN]

Open(l) == leases[l].state = "open"
OpenOf(h) == {l \in Leases : Open(l) /\ leases[l].hotkey = h}
Graded(l) == groups[l].verdict # "none"
Buffered == {l \in Leases : groups[l].training = "queued"}
BufferedOf(e) == {l \in Buffered : EnvOf[leases[l].prompt] = e}

Init ==
    /\ now = 0 /\ up = TRUE /\ crashes = 0 /\ alive = 0 /\ downtimes = {}
    /\ latest = NoCheckpoint /\ secrets = [k \in Checkpoints |-> "none"]
    /\ leases = [l \in Leases |-> NoRow]
    /\ submitting = [l \in Leases |-> 0]
    /\ subs = [t \in Threads |-> [pc |-> "idle", lease |-> 1, arrived |-> 0]]
    /\ groups = [l \in Leases |-> NoGroup] /\ events = [l \in Leases |-> <<>>]
    /\ prompts = [p \in Prompts |-> [state |-> "new", until |-> 0, start |-> 0,
                                     easy |-> FALSE]]
    /\ cooldown \in [Envs -> Cooldowns]
    /\ bans = [h \in Hotkeys |-> 0] /\ quota = [h \in Hotkeys |-> NewEntry]
    /\ target = [h \in Hotkeys |-> NoTarget]
    /\ revise = FALSE /\ sweeper = "mark"
    /\ lock = "free" /\ due = {} /\ at = 0 /\ room = [h \in Hotkeys |-> 0]

-----------------------------------------------------------------------------
(* The clock, the crash, the restart. *)

\* Time passes, also while the validator is down.  While it is up and does
\* not stall, its loop marks the book alive before DowntimeMin has passed.
Tick ==
    /\ lock = "free" /\ now < MaxTime
    /\ up /\ ~Stalls => now - alive < DowntimeMin
    /\ now' = now + 1
    /\ UNCHANGED <<up, crashes, alive, downtimes, latest, secrets, leases,
                   submitting, subs, groups, events, prompts, cooldown, bans,
                   quota, target, revise, sweeper, txnVars>>

\* _downtime(alive, now): a silence longer than DowntimeMin is recorded and
\* its length given back to every open lease.
SilenceLength == IF now - alive > DowntimeMin THEN now - alive ELSE 0
RecordedDowntimes ==
    IF SilenceLength = 0 THEN downtimes
    ELSE downtimes \cup {[start |-> alive, end |-> now]}
GivenBack ==
    [l \in Leases |-> IF Open(l) THEN [leases[l] EXCEPT !.expires = @ + SilenceLength]
                      ELSE leases[l]]

\* mark_alive, the first half of the expiry loop's turn
MarkAlive ==
    /\ up /\ lock = "free" /\ sweeper = "mark"
    /\ sweeper' = "sweep"
    /\ IF now - alive < AliveEvery
       THEN UNCHANGED <<alive, downtimes, leases>>
       ELSE /\ alive' = now
            /\ downtimes' = RecordedDowntimes
            /\ leases' = GivenBack
    /\ UNCHANGED <<now, up, crashes, latest, secrets, submitting, subs, groups,
                   events, prompts, cooldown, bans, quota, target, revise, txnVars>>

\* The process dies: holds, requests in progress and the loop's place go.
Crash ==
    /\ up /\ lock = "free" /\ crashes < MaxCrashes
    /\ up' = FALSE /\ crashes' = crashes + 1
    /\ submitting' = [l \in Leases |-> 0]
    /\ subs' = [t \in Threads |-> [pc |-> "idle", lease |-> 1, arrived |-> 0]]
    /\ revise' = FALSE /\ sweeper' = "mark"
    /\ UNCHANGED <<now, alive, downtimes, latest, secrets, leases, groups, events,
                   prompts, cooldown, bans, quota, target, txnVars>>

\* Mutant of Revised: a running cooldown also grows with the current figure.
RevisedBothWays ==
    [p \in Prompts |->
        IF prompts[p].state = "cooldown" /\ latest # NoCheckpoint
        THEN [prompts[p] EXCEPT !.until = prompts[p].start + cooldown[EnvOf[p]]]
        ELSE prompts[p]]

\* revise_cooldowns: a running cooldown is shortened to the current figure
Revised ==
    [p \in Prompts |->
        IF prompts[p].state = "cooldown" /\ latest # NoCheckpoint
        THEN [prompts[p] EXCEPT !.until = LesserOf(@, prompts[p].start + cooldown[EnvOf[p]])]
        ELSE prompts[p]]

\* LeaseBook.__init__ and _boot, then build_rl_async's revise_cooldowns: all
\* before the routes and the loops start.
Boot ==
    /\ ~up
    /\ up' = TRUE /\ alive' = now
    /\ downtimes' = {d \in RecordedDowntimes : d.end >= now - DowntimeKeep}
    /\ leases' = [l \in Leases |->
                    IF Open(l)
                    THEN [GivenBack[l] EXCEPT !.expires = GreaterOf(@, now + RestartGrace)]
                    ELSE leases[l]]
    /\ quota' = [h \in Hotkeys |-> [quota[h] EXCEPT !.in_use = Cardinality(OpenOf(h))]]
    /\ prompts' = Revised
    /\ UNCHANGED <<now, crashes, latest, secrets, submitting, subs, groups, events,
                   cooldown, bans, target, revise, sweeper, txnVars>>

-----------------------------------------------------------------------------
(* Checkpoints. *)

\* adopt_checkpoint's transaction: draw S_k, reveal the secrets of retired
\* checkpoints, delete the closed leases of long retired ones.
Adopt(k) ==
    /\ up /\ lock = "free" /\ k > latest
    /\ latest' = k
    /\ secrets' = [j \in Checkpoints |->
                     IF j = k THEN "secret"
                     ELSE IF secrets[j] = "secret" /\ j < k - MaxLag THEN "revealed"
                     ELSE secrets[j]]
    /\ leases' = [l \in Leases |->
                    IF leases[l].state \notin {"none", "open"}
                          /\ leases[l].k < k - MaxLag - MaxLag
                    THEN [leases[l] EXCEPT !.state = "pruned"] ELSE leases[l]]
    /\ revise' = TRUE
    /\ UNCHANGED <<clockVars, submitting, subs, groups, events, prompts, cooldown,
                   bans, quota, target, sweeper, txnVars>>

\* ... and its second transaction
Revise ==
    /\ up /\ lock = "free" /\ revise
    /\ revise' = FALSE /\ prompts' = Revised
    /\ UNCHANGED <<clockVars, latest, secrets, leases, submitting, subs, groups,
                   events, cooldown, bans, quota, target, sweeper, txnVars>>

\* cooldown_of is read live: an operator's schedule or AdaptiveCooldown
SetCooldown(e, c) ==
    /\ lock = "free" /\ cooldown[e] # c
    /\ cooldown' = [cooldown EXCEPT ![e] = c]
    /\ UNCHANGED <<clockVars, latest, secrets, leases, submitting, subs, groups,
                   events, prompts, bans, quota, target, revise, sweeper, txnVars>>

\* the quota's Little's-law target moves with the clock and the deliveries
Measure(h, t) ==
    /\ lock = "free" /\ target[h] # t
    /\ target' = [target EXCEPT ![h] = t]
    /\ UNCHANGED <<clockVars, latest, secrets, leases, submitting, subs, groups,
                   events, prompts, cooldown, bans, quota, revise, sweeper, txnVars>>

\* blacklist / ban: a running ban is never shortened
Ban(h, length) ==
    /\ up /\ lock = "free"
    /\ bans' = [bans EXCEPT ![h] = GreaterOf(@, now + length)]
    /\ UNCHANGED <<clockVars, latest, secrets, leases, submitting, subs, groups,
                   events, prompts, cooldown, quota, target, revise, sweeper, txnVars>>

-----------------------------------------------------------------------------
(* Leases that end unsubmitted. *)

\* Mutant of LivedThroughDowntime: a lease issued at the last mark is missed.
LivedThroughLaterDowntime(l, time) ==
    \E d \in downtimes : d.start > leases[l].issued /\ d.start < time

\* _lived_through_downtime
LivedThroughDowntime(l, time) ==
    \E d \in downtimes : d.start >= leases[l].issued /\ d.start < time

\* The BOX_FAILED releases of the last day, as _close_unsubmitted counts them
BoxFailedReleases(h, time) ==
    {m \in Leases : /\ leases[m].state = "released" /\ leases[m].hotkey = h
                    /\ leases[m].cause = BOX_FAILED /\ leases[m].closed > time - Day}

\* _close_unsubmitted: failure is sandbox_failure's answer for the lease
CloseUnsubmitted(l, time, charged, failure) ==
    LET h == leases[l].hotkey
        over == /\ failure = BOX_FAILED
                /\ Cardinality(BoxFailedReleases(h, time)) >= BoxFailedPerDay
        excused == failure = NoFailure /\ LivedThroughDowntime(l, time)
        expired == over \/ (failure = NoFailure /\ ~excused)
        cause == CASE over -> "box_failed_over_budget"
                   [] ~over /\ failure # NoFailure -> failure
                   [] excused -> "validator_unavailable"
                   [] OTHER -> charged
    IN  /\ leases' = [leases EXCEPT
                        ![l].state = IF expired THEN "expired" ELSE "released",
                        ![l].closed = time, ![l].cause = cause]
        /\ quota' = [quota EXCEPT
                        ![h] = IF expired THEN RecordExpiry(@, target[h]) ELSE RecordRelease(@)]

\* Mutant of Due: the sweep does not look at the holds.
DueIgnoringHolds(time) == {l \in Leases : Open(l) /\ leases[l].expires <= time}

\* _expire(time): what a sweep closes
Due(time) == {l \in Leases : Open(l) /\ leases[l].expires <= time /\ submitting[l] = 0}

\* expire_due, the second half of the expiry loop's turn
ExpireDue ==
    /\ up /\ lock = "free" /\ sweeper = "sweep"
    /\ sweeper' = "mark"
    /\ due' = Due(now)
    /\ lock' = IF due' = {} THEN "free" ELSE "sweep"
    /\ at' = IF due' = {} THEN 0 ELSE now
    /\ UNCHANGED <<clockVars, latest, secrets, leases, submitting, subs, groups,
                   events, prompts, cooldown, bans, quota, target, revise, room>>

\* one lease of the sweep
CloseDue(l, failure) ==
    /\ l \in due
    /\ CloseUnsubmitted(l, at, "expired", failure)
    /\ due' = due \ {l}
    /\ lock' = IF lock = "sweep" /\ due' = {} THEN "free" ELSE lock
    /\ at' = IF lock' = "free" THEN 0 ELSE at
    /\ UNCHANGED <<clockVars, latest, secrets, submitting, subs, groups, events,
                   prompts, cooldown, bans, target, revise, sweeper, room>>

\* forfeit
Forfeit(l, failure) ==
    /\ up /\ lock = "free" /\ Open(l) /\ submitting[l] = 0
    /\ CloseUnsubmitted(l, now, "forfeited", failure)
    /\ UNCHANGED <<clockVars, latest, secrets, submitting, subs, groups, events,
                   prompts, cooldown, bans, target, revise, sweeper, txnVars>>

-----------------------------------------------------------------------------
(* Grants: one interval's requests, resolved together.  Which claims the   *)
(* requests hold is chosen as the batch is resolved: the shuffle allows    *)
(* every order, and a claim that is refused changes nothing.               *)

Banned(h, time) == time < bans[h]

\* grant sweeps first, when there is something to sweep
GrantSweep ==
    /\ up /\ lock = "free" /\ Due(now) # {}
    /\ lock' = "grant" /\ at' = now /\ due' = Due(now)
    /\ UNCHANGED <<clockVars, latest, secrets, leases, submitting, subs, groups,
                   events, prompts, cooldown, bans, quota, target, revise, sweeper, room>>

\* Mutant of Room: the open leases are not subtracted.
RoomWithoutOpen(h) ==
    IF Banned(h, now) THEN -1 ELSE LesserOf(Quota(quota[h], target[h]), HotkeyMaxOpen)

\* each hotkey's room, once for the batch
Room(h) ==
    IF Banned(h, now) THEN -1
    ELSE GreaterOf(0, LesserOf(Quota(quota[h], target[h]), HotkeyMaxOpen)
                        - Cardinality(OpenOf(h)))
OpenBatch ==
    /\ lock' = "claims" /\ at' = now /\ room' = [h \in Hotkeys |-> Room(h)]
    /\ UNCHANGED <<clockVars, latest, secrets, leases, submitting, subs, groups, events,
                   prompts, cooldown, bans, quota, target, revise, sweeper, due>>
GrantBegin == up /\ lock = "free" /\ Due(now) = {} /\ OpenBatch
GrantSwept == lock = "grant" /\ due = {} /\ OpenBatch

\* Mutant of LaneRoom: only the environment's own lane is looked at.
LaneRoomOwn(e) == Cardinality(BufferedOf(e)) <= Cap + Reserve[e]

\* _lane_room, and the lane maximum before it
LaneRoom(e) ==
    \/ Cardinality(BufferedOf(e)) < Reserve[e]
    \/ MapThenSumSet(LAMBDA f : GreaterOf(Cardinality(BufferedOf(f)), Reserve[f]), Envs) < Cap
\* Mutant of Leasable: a key closed by a submission is free again.
LeasableAfterSubmission(p, k) ==
    /\ secrets[k] = "secret"
    /\ ~\E l \in Leases : leases[l].prompt = p /\ Open(l)
    /\ prompts[p].state # "blacklisted"
    /\ prompts[p].state = "cooldown" => latest >= prompts[p].until

\* Mutant of Leasable: the open leases of other checkpoints are not looked at.
LeasablePerCheckpoint(p, k) ==
    /\ secrets[k] = "secret"
    /\ ~\E l \in Leases : /\ leases[l].prompt = p /\ leases[l].k = k
                          /\ leases[l].state \in {"open", "submitted"}
    /\ prompts[p].state # "blacklisted"
    /\ prompts[p].state = "cooldown" => latest >= prompts[p].until

Leasable(p, k) ==
    /\ secrets[k] = "secret"
    /\ ~\E l \in Leases : /\ leases[l].prompt = p
                          /\ Open(l) \/ (leases[l].k = k /\ leases[l].state = "submitted")
    /\ prompts[p].state # "blacklisted"
    /\ prompts[p].state = "cooldown" => latest >= prompts[p].until

\* ... then the claims, in the shuffled order
GrantClaim(h, p, k, l) ==
    /\ lock = "claims" /\ Leasable(p, k) /\ room[h] > 0
    /\ Cardinality(BufferedOf(EnvOf[p])) < LaneMax[EnvOf[p]] /\ LaneRoom(EnvOf[p])
    /\ leases[l].state = "none" /\ \A m \in 1..(l - 1) : leases[m].state # "none"
    /\ leases' = [leases EXCEPT ![l] =
                    [state |-> "open", hotkey |-> h, prompt |-> p, k |-> k, issued |-> at,
                     expires |-> at + Expiry[EnvOf[p]], closed |-> 0, cause |-> NoFailure]]
    /\ room' = [room EXCEPT ![h] = @ - 1]
    /\ quota' = [quota EXCEPT ![h] = RecordLease(@, target[h])]
    /\ UNCHANGED <<clockVars, latest, secrets, submitting, subs, groups, events, prompts,
                   cooldown, bans, target, revise, sweeper, lock, due, at>>

GrantEnd ==
    /\ lock = "claims"
    /\ lock' = "free" /\ at' = 0 /\ room' = [h \in Hotkeys |-> 0]
    /\ UNCHANGED <<clockVars, latest, secrets, leases, submitting, subs, groups, events,
                   prompts, cooldown, bans, quota, target, revise, sweeper, due>>

-----------------------------------------------------------------------------
(* Submissions: the submit route holds the lease, grades without the lock, *)
(* records the group in one transaction, releases the hold.                *)

IdleSub == [pc |-> "idle", lease |-> 1, arrived |-> 0]

\* _submittable
Submittable(l, time) ==
    Open(l) /\ leases[l].expires > time /\ ~Banned(leases[l].hotkey, time)

\* The body is read: the lease's holder submits (or resends) a group, and
\* arrived_at is taken.  Inflating, authenticating and decoding follow.
Arrive(t, l) ==
    /\ up /\ subs[t].pc = "idle" /\ leases[l].state # "none" /\ lock = "free"
    /\ subs' = [subs EXCEPT ![t] = [pc |-> "arrived", lease |-> l, arrived |-> now]]
    /\ UNCHANGED <<clockVars, latest, secrets, leases, submitting, groups, events, prompts,
                   cooldown, bans, quota, target, revise, sweeper, txnVars>>

\* hold: the lease is submittable at its arrival
Hold(t) ==
    /\ lock = "free" /\ subs[t].pc = "arrived"
    /\ ~Graded(subs[t].lease) /\ Submittable(subs[t].lease, subs[t].arrived)
    /\ submitting' = [submitting EXCEPT ![subs[t].lease] = @ + 1]
    /\ subs' = [subs EXCEPT ![t].pc = "held"]
    /\ UNCHANGED <<clockVars, latest, secrets, leases, groups, events, prompts, cooldown,
                   bans, quota, target, revise, sweeper, txnVars>>

\* hold, refused or already answered: nothing is held.  One that finds its
\* lease past its end sweeps (as of its arrival) before it raises.
Refuse(t) ==
    LET l == subs[t].lease
        late == ~Graded(l) /\ Open(l) /\ leases[l].expires <= subs[t].arrived
    IN  /\ lock = "free" /\ subs[t].pc = "arrived"
        /\ Graded(l) \/ ~Submittable(l, subs[t].arrived)
        /\ subs' = [subs EXCEPT ![t] = IdleSub]
        /\ due' = IF late THEN Due(subs[t].arrived) ELSE {}
        /\ lock' = IF due' = {} THEN "free" ELSE "sweep"
        /\ at' = IF due' = {} THEN 0 ELSE subs[t].arrived
        /\ UNCHANGED <<clockVars, latest, secrets, leases, submitting, groups, events,
                       prompts, cooldown, bans, quota, target, revise, sweeper, room>>

\* RlSubmissions.submit up to the grading: a resend of a graded lease is
\* answered, a lease that cannot be submitted any more is refused.
Check(t) ==
    LET l == subs[t].lease
    IN  /\ lock = "free" /\ subs[t].pc = "held"
        /\ subs' = [subs EXCEPT ![t].pc =
                      IF ~Graded(l) /\ Submittable(l, subs[t].arrived)
                      THEN "grading" ELSE "release"]
        /\ UNCHANGED <<clockVars, latest, secrets, leases, submitting, groups, events,
                       prompts, cooldown, bans, quota, target, revise, sweeper, txnVars>>

\* GraderInfrastructureError: the lease stays open, the miner may retry
GradeFails(t) ==
    /\ subs[t].pc = "grading" /\ lock = "free"
    /\ subs' = [subs EXCEPT ![t].pc = "release"]
    /\ UNCHANGED <<clockVars, latest, secrets, leases, submitting, groups, events, prompts,
                   cooldown, bans, quota, target, revise, sweeper, txnVars>>

\* Mutant of Release: the hold of an answered submission is never dropped.
ReleaseKeepsHold(t) ==
    /\ lock = "free" /\ subs[t].pc = "release"
    /\ subs' = [subs EXCEPT ![t] = IdleSub]
    /\ UNCHANGED <<clockVars, latest, secrets, leases, submitting, groups, events, prompts,
                   cooldown, bans, quota, target, revise, sweeper, txnVars>>

\* release_submission, in the route's finally
Release(t) ==
    /\ lock = "free" /\ subs[t].pc = "release"
    /\ submitting' = [submitting EXCEPT ![subs[t].lease] = GreaterOf(0, @ - 1)]
    /\ subs' = [subs EXCEPT ![t] = IdleSub]
    /\ UNCHANGED <<clockVars, latest, secrets, leases, groups, events, prompts, cooldown,
                   bans, quota, target, revise, sweeper, txnVars>>

\* Mutant of Outcome: one too-easy scan is proof enough.
OutcomeBlacklistsAtOnce(p, k, verdict) ==
    IF verdict = TOO_EASY
    THEN [state |-> "blacklisted", until |-> 0, start |-> 0, easy |-> TRUE]
    ELSE [state |-> "cooldown", start |-> GreaterOf(k, latest),
          until |-> GreaterOf(k, latest) + cooldown[EnvOf[p]], easy |-> prompts[p].easy]

\* Mutant of Outcome: the scan is remembered and the prompt is not rested.
OutcomeNoRest(p, k, verdict) ==
    IF verdict = TOO_EASY /\ prompts[p].easy
    THEN [prompts[p] EXCEPT !.state = "blacklisted", !.until = 0, !.start = 0]
    ELSE [prompts[p] EXCEPT !.easy = @ \/ verdict = TOO_EASY]

\* record_outcome: where a scan of p at k moves the prompt
Outcome(p, k, verdict) ==
    LET start == GreaterOf(k, latest)
    IN  IF prompts[p].state = "blacklisted" \/ (verdict = TOO_EASY /\ prompts[p].easy)
        THEN [prompts[p] EXCEPT !.state = "blacklisted", !.until = 0, !.start = 0,
                                !.easy = @ \/ verdict = TOO_EASY]
        ELSE [state |-> "cooldown", start |-> start,
              until |-> GreaterOf(start + cooldown[EnvOf[p]], prompts[p].until),
              easy |-> prompts[p].easy \/ verdict = TOO_EASY]

Scanned(verdict) == verdict \notin {REJECTED, GRADER_FAULT}

\* _first_scan: the event an out-of-zone first scan gets, once
FirstScanEvent(audit, enough) ==
    IF audit \in {"not_drawn", "passed"} /\ enough
    THEN "first_scan" ELSE "first_scan_forfeited"

\* _submit's transaction.  drawn: the audit draw (probation and audit_rate
\* behind it); enough: the model tokens reach first_scan_min_tokens.  A lease
\* closed while it was graded is answered or refused and nothing is recorded.
Commit(t, verdict, drawn, enough) ==
    LET l == subs[t].lease
        h == leases[l].hotkey
        p == leases[l].prompt
        outside == verdict \in {TOO_EASY, TOO_HARD}
        first == Scanned(verdict) /\ prompts[p].state = "new"
        paidNow == outside /\ first /\ ~drawn
        closed == IF verdict = REJECTED THEN RecordRejection(quota[h], target[h])
                  ELSE RecordSubmission(quota[h])
    IN  /\ lock = "free" /\ subs[t].pc = "grading"
        /\ subs' = [subs EXCEPT ![t].pc = "release"]
        /\ IF ~Submittable(l, subs[t].arrived)
           THEN UNCHANGED <<leases, quota, prompts, groups, events>>
           ELSE /\ leases' = [leases EXCEPT ![l].state = "submitted",
                                            ![l].closed = subs[t].arrived]
                /\ quota' = [quota EXCEPT ![h] =
                               IF paidNow /\ enough THEN RecordPaid(closed, target[h])
                               ELSE closed]
                /\ prompts' = IF Scanned(verdict)
                              THEN [prompts EXCEPT ![p] = Outcome(p, leases[l].k, verdict)]
                              ELSE prompts
                /\ groups' = [groups EXCEPT ![l] =
                                [verdict |-> verdict, first |-> first,
                                 enough |-> outside /\ enough,
                                 training |-> IF verdict = IN_ZONE THEN "queued" ELSE "none",
                                 audit |-> IF ~outside THEN "none"
                                           ELSE IF drawn THEN "pending" ELSE "not_drawn"]]
                /\ events' = IF paidNow
                             THEN [events EXCEPT ![l] =
                                     Append(@, FirstScanEvent("not_drawn", enough))]
                             ELSE events
        /\ UNCHANGED <<clockVars, latest, secrets, submitting, cooldown, bans, target,
                       revise, sweeper, txnVars>>

-----------------------------------------------------------------------------
(* Reports: what the trainer and the audits say of a recorded group. *)

\* credit: a paid delivery, unless the lease's row is gone
Credited(l, paid) ==
    IF paid /\ leases[l].state = "submitted"
    THEN [quota EXCEPT ![leases[l].hotkey] = RecordPaid(@, target[leases[l].hotkey])]
    ELSE quota

\* report_training: the buffered group leaves the buffer with one event
ReportTraining(l, accepted) ==
    /\ up /\ lock = "free" /\ groups[l].training = "queued"
    /\ groups' = [groups EXCEPT ![l].training = IF accepted THEN "accepted" ELSE REJECTED]
    /\ events' = [events EXCEPT ![l] = Append(@, IF accepted THEN "trained" ELSE "untrained")]
    /\ quota' = Credited(l, accepted)
    /\ UNCHANGED <<clockVars, latest, secrets, leases, submitting, subs, prompts, cooldown,
                   bans, target, revise, sweeper, txnVars>>

\* Mutant of ReportAudit: the concluded audit stays queued.
ReportAuditStaysQueued(l, result) ==
    /\ up /\ lock = "free" /\ groups[l].audit = "pending" /\ Len(events[l]) < 2
    /\ events' = [events EXCEPT ![l] = Append(@, FirstScanEvent(result, groups[l].enough))]
    /\ UNCHANGED <<clockVars, latest, secrets, leases, submitting, subs, prompts, groups,
                   cooldown, bans, quota, target, revise, sweeper, txnVars>>

\* report_audit: the drawn group is concluded, its first scan paid or not
ReportAudit(l, result) ==
    LET event == FirstScanEvent(result, groups[l].enough)
    IN  /\ up /\ lock = "free" /\ groups[l].audit = "pending"
        /\ groups' = [groups EXCEPT ![l].audit = result]
        /\ events' = IF groups[l].first THEN [events EXCEPT ![l] = Append(@, event)] ELSE events
        /\ quota' = Credited(l, groups[l].first /\ event = "first_scan")
        /\ UNCHANGED <<clockVars, latest, secrets, leases, submitting, subs, prompts,
                       cooldown, bans, target, revise, sweeper, txnVars>>

-----------------------------------------------------------------------------

Failures == SandboxCauses \cup {NoFailure}

SubmissionStep(t) ==
    \/ Hold(t) \/ Refuse(t) \/ Check(t) \/ GradeFails(t) \/ Release(t)
    \/ \E v \in Verdicts, drawn \in Draws, enough \in Lengths : Commit(t, v, drawn, enough)
LockStep ==
    \/ \E l \in Leases, f \in Failures : CloseDue(l, f)
    \/ GrantSwept \/ GrantEnd
MinerStep ==
    \/ GrantSweep \/ GrantBegin
    \/ \E h \in Hotkeys, p \in Prompts, k \in Checkpoints, l \in Leases : GrantClaim(h, p, k, l)
    \/ \E l \in Leases, f \in Failures : Forfeit(l, f)
    \/ \E t \in Threads, l \in Leases : Arrive(t, l)
TrainerStep ==
    \/ \E k \in Checkpoints : Adopt(k)
    \/ \E l \in Leases, accepted \in TrainingResults : ReportTraining(l, accepted)
    \/ \E l \in Leases, r \in AuditResults : ReportAudit(l, r)
OperatorStep ==
    \/ \E e \in Envs, c \in Cooldowns : SetCooldown(e, c)
    \/ \E h \in Hotkeys, n \in BanLengths : Ban(h, n)
    \/ \E h \in Hotkeys, t \in Targets : Measure(h, t)

Next ==
    \/ Tick \/ MarkAlive \/ ExpireDue \/ Revise \/ Crash \/ Boot
    \/ LockStep \/ MinerStep \/ TrainerStep \/ OperatorStep
    \/ \E t \in Threads : SubmissionStep(t)

Spec == Init /\ [][Next]_vars

\* The validator's own steps go on: the expiry loop runs for ever, a handler
\* that holds the lock finishes, a request in progress is served, a process
\* that died is restarted.  Strong for a request: the lock it waits for is
\* taken again and again, at most once per collection interval by grants.
\* Nothing is assumed of miners, trainer or operator.
Fairness ==
    /\ WF_vars(MarkAlive) /\ WF_vars(ExpireDue) /\ WF_vars(Boot) /\ WF_vars(LockStep)
    /\ \A t \in Threads : SF_vars(SubmissionStep(t))
FairSpec == Spec /\ Fairness

-----------------------------------------------------------------------------
(* Properties. *)

\* Every variable stays in its type.
TypeOK ==
    /\ now \in Nat /\ up \in BOOLEAN /\ crashes \in Nat /\ alive \in Nat
    /\ downtimes \subseteq [start : Nat, end : Nat]
    /\ latest \in Checkpoints \cup {NoCheckpoint}
    /\ secrets \in [Checkpoints -> {"none", "secret", "revealed"}]
    /\ leases \in [Leases -> Row] /\ submitting \in [Leases -> Nat]
    /\ subs \in [Threads -> Sub] /\ groups \in [Leases -> Group]
    /\ events \in [Leases -> Seq(PayEvents)]
    /\ prompts \in [Prompts -> Prompt] /\ cooldown \in [Envs -> Nat]
    /\ bans \in [Hotkeys -> Nat] /\ quota \in [Hotkeys -> Entry]
    /\ target \in [Hotkeys -> Nat \cup {NoTarget}] /\ revise \in BOOLEAN
    /\ sweeper \in {"mark", "sweep"} /\ lock \in {"free", "sweep", "grant", "claims"}
    /\ due \subseteq Leases /\ at \in Nat /\ room \in [Hotkeys -> Nat \cup {-1}]

\* A draw is graded once: whatever expires, is forfeited, pruned or granted
\* again, no two groups are recorded for the same (prompt, checkpoint), so
\* no nonce is ever worth two groups (rl_leases_live and grant's TAKEN, with
\* adopt_checkpoint deleting closed rows).
OneGroupPerKey ==
    \A l, m \in Leases :
        l # m /\ Graded(l) /\ Graded(m) /\ leases[l].prompt = leases[m].prompt
            => leases[l].k # leases[m].k

\* One open lease of a prompt at a time, over all unrevealed checkpoints, also
\* when several requests of one batch claim it.
OneOpenPerPrompt ==
    \A l, m \in Leases :
        Open(l) /\ Open(m) /\ leases[l].prompt = leases[m].prompt => l = m

\* The prompt of an open lease is neither cooling nor blacklisted: no scan of
\* it can have been recorded since the grant, and a revision of the cooldowns
\* never makes a leased prompt cool again.
OpenPromptIsLeasable ==
    \A l \in Leases :
        Open(l) => /\ prompts[leases[l].prompt].state # "blacklisted"
                   /\ prompts[leases[l].prompt].until <= latest

\* A submission that was held on time is judged: until it is released its
\* lease is open, or a group of the lease is recorded.  No sweep, forfeit,
\* prune or second submission takes the lease from under the grader.
HeldIsJudged ==
    \A t \in Threads :
        subs[t].pc \in {"held", "grading"} => Open(subs[t].lease) \/ Graded(subs[t].lease)

\* The quota's count of slots in use is the number of open leases.
InUseIsOpen == \A h \in Hotkeys : quota[h].in_use = Cardinality(OpenOf(h))

\* Every lease ends once: leases granted are open, submitted, refused for
\* integrity, expired or released, and no lease is counted twice.
LeasesAccounted ==
    \A h \in Hotkeys :
        quota[h].leased = quota[h].in_use + quota[h].submitted + quota[h].rejected
                            + quota[h].expired + quota[h].released

\* Only one group of a prompt is its first scan, which pays.
OneFirstScan ==
    \A l, m \in Leases :
        groups[l].first /\ groups[m].first /\ leases[l].prompt = leases[m].prompt => l = m

\* Each group gets exactly one pay event when it is concluded (trained or not,
\* first scan paid or forfeited), and none before or otherwise.
OnePayEvent ==
    \A l \in Leases :
        Len(events[l]) =
            IF \/ groups[l].verdict = IN_ZONE /\ groups[l].training # "queued"
               \/ groups[l].first /\ groups[l].verdict # IN_ZONE /\ groups[l].audit # "pending"
            THEN 1 ELSE 0

\* A prompt is blacklisted exactly when two groups of it were too easy.
BlacklistedIffTwiceEasy ==
    \A p \in Prompts :
        prompts[p].state = "blacklisted"
            <=> \E l, m \in Leases : /\ l # m
                                     /\ leases[l].prompt = p /\ leases[m].prompt = p
                                     /\ groups[l].verdict = TOO_EASY
                                     /\ groups[m].verdict = TOO_EASY

\* The cap, an environment's maximum and the reserves of the others bound what
\* is buffered of an environment and what may still arrive, but for the leases
\* open when the bound was met: at most one per prompt of the environment and
\* the quotas of all hotkeys ("the reserves of the envs not using them stay
\* free for them", _lane_room).  Each lane may overshoot on its own.
LaneBounded ==
    \A e \in Envs :
        LET arriving == {l \in Leases : Open(l) /\ EnvOf[leases[l].prompt] = e}
            lane == LesserOf(LaneMax[e],
                             GreaterOf(Reserve[e], Cap - MapThenSumSet(LAMBDA f : Reserve[f], Envs \ {e})))
            most == LesserOf(Cardinality({p \in Prompts : EnvOf[p] = e}),
                             Cardinality(Hotkeys) * LesserOf(HotkeyMaxOpen, Ceiling))
        IN  Cardinality(BufferedOf(e)) + Cardinality(arriving) <= lane + most - 1

\* No lease is charged as expired across a recorded downtime that began in its
\* life, beyond the DowntimeMin it takes to call a silence a downtime.
SilenceNeverCharged ==
    \A l \in Leases, d \in downtimes :
        leases[l].cause = "expired" /\ d.start >= leases[l].issued /\ d.start < leases[l].closed
            => leases[l].closed - d.start <= DowntimeMin

\* A step that gives a hotkey one more open lease leaves it within its quota
\* and its share of the cap, also inside a batch.
GrantWithinQuota ==
    [][\A h \in Hotkeys :
         Cardinality(OpenOf(h)') > Cardinality(OpenOf(h))
             => Cardinality(OpenOf(h)') <= LesserOf(Quota(quota[h], target[h]), HotkeyMaxOpen)]_vars

\* A lease past its end is closed, unless a downtime extends it: no hold and
\* no interleaving of sweeps, grants and submissions keeps it open for ever.
DueLeaseEnds ==
    \A l \in Leases : (Open(l) /\ leases[l].expires <= now)
                          ~> ~(Open(l) /\ leases[l].expires <= now)

=============================================================================
