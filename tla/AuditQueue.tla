------------------------------- MODULE AuditQueue -------------------------------
(***************************************************************************)
(* The queue of out-of-zone audits (validator/rl_submit.py, rl_audits) and *)
(* the two ways it is drained: by the validator's audit loop (run_audits), *)
(* or by the trainer (trainer/audits.py over the trainer link), the loop   *)
(* then only dropping the stale ones.                                      *)
(*                                                                         *)
(* Listing the stale audits, concluding each and judging each are separate *)
(* transactions of concurrent threads; a report may be resent and arrive   *)
(* late; the trainer dies on an exception and starts again, and the book   *)
(* adopts a published checkpoint while a round of audits is judged.        *)
(***************************************************************************)
EXTENDS Integers, Sequences, FiniteSets, SequencesExt

CONSTANTS
    Audits,        \* the leases of drawn groups
    KOf,           \* lease -> its checkpoint
    First,         \* leases of first scans
    Forced,        \* leases of hotkeys in probation
    Poisons,       \* which sets of leases may have a forward that raises
    AUDIT_MAX_LAG, MAX_ATTEMPTS, AUDIT_CHUNK,
    Sources,       \* where the forward may run: "trainer" or "loop"
    MaxVersion, MaxDeaths, MaxResent \* bounds of the instance

VARIABLES
    source,   \* audit_source, set once
    poison,   \* the leases whose forward raises
    queued,   \* rl_audits in arrival order
    audit,    \* rl_groups.audit
    attempts, \* rl_audits.attempts
    verdicts, \* lease -> its rows in rl_verdicts
    events,   \* lease -> its first-scan events
    latest,   \* the book's latest checkpoint
    sweep,    \* the stale audits the loop's drop still has to conclude
    worker,   \* who judges: where it is in its round
    todo,     \* ... the stale audits its own drop still has to conclude
    jobs,     \* ... the audits taken, in order
    done,     \* ... whether one of this round was judged
    version,  \* the trainer's checkpoint
    resent,   \* reports the link sent again, not arrived yet
    deaths, sends

config == <<source, poison>>
records == <<queued, audit, attempts, verdicts, events>>
book == <<config, records, latest>>
rounds == <<worker, todo, jobs, done>>
vars == <<book, sweep, rounds, version, resent, deaths, sends>>

Results == {"passed", "failed", "inconclusive", "suspect"}

Pending(a) == audit[a] = "pending"

\* Mutant: an audit already concluded is concluded again.
ConcludeAgain(a, result) ==
    /\ audit' = [audit EXCEPT ![a] = IF result = "suspect" THEN "inconclusive" ELSE result]
    /\ verdicts' = [verdicts EXCEPT ![a] = IF result = "inconclusive" THEN @ ELSE Append(@, result)]
    /\ events' = [events EXCEPT ![a] = IF a \in First THEN Append(@, result = "passed") ELSE @]

\* report_audit of a pending audit, in one transaction: the verdict (a plain
\* inconclusive leaves none), the state, the lag and a first scan's pay event.
Conclude(a, result) ==
    /\ Pending(a)
    /\ audit' = [audit EXCEPT ![a] = IF result = "suspect" THEN "inconclusive" ELSE result]
    /\ verdicts' = [verdicts EXCEPT ![a] = IF result = "inconclusive" THEN @ ELSE Append(@, result)]
    /\ events' = [events EXCEPT ![a] = IF a \in First THEN Append(@, result = "passed") ELSE @]

\* The queued audits more than AUDIT_MAX_LAG checkpoints behind.
Stale == {a \in Audits : Pending(a) /\ KOf[a] < latest - AUDIT_MAX_LAG}

QueuedAt(a) == CHOOSE i \in DOMAIN queued : queued[i] = a

\* audit_jobs' order: hotkeys past probation, then first scans, then the newest.
Before(a, b) ==
    LET forced(x) == IF x \in Forced THEN 1 ELSE 0
        repeat(x) == IF x \in First THEN 0 ELSE 1
    IN  \/ forced(a) < forced(b)
        \/ forced(a) = forced(b) /\ repeat(a) < repeat(b)
        \/ forced(a) = forced(b) /\ repeat(a) = repeat(b) /\ QueuedAt(a) > QueuedAt(b)

audit_jobs ==
    LET all == SetToSortSeq({a \in Audits : Pending(a)}, Before)
    IN  SubSeq(all, 1, IF Len(all) < AUDIT_CHUNK THEN Len(all) ELSE AUDIT_CHUNK)

Init ==
    /\ source \in Sources /\ poison \in Poisons
    /\ queued = <<>>
    /\ audit = [a \in Audits |-> "none"]
    /\ attempts = [a \in Audits |-> 0]
    /\ verdicts = [a \in Audits |-> <<>>]
    /\ events = [a \in Audits |-> <<>>]
    /\ latest = 0 /\ version = 0
    /\ sweep = {}
    /\ worker = "idle" /\ todo = {} /\ jobs = <<>> /\ done = FALSE
    /\ resent = {} /\ deaths = 0 /\ sends = 0

\* _submit: a drawn out-of-zone group is queued with its group row.
Queue(a) ==
    /\ audit[a] = "none" /\ KOf[a] <= latest
    /\ audit' = [audit EXCEPT ![a] = "pending"]
    /\ queued' = Append(queued, a)
    /\ UNCHANGED <<config, attempts, verdicts, events, latest, sweep, rounds, version, resent, deaths, sends>>

\* The trainer trains and publishes one checkpoint at a time, between its rounds when it is the one who judges.
Publish ==
    /\ version = latest /\ version < MaxVersion
    /\ source = "trainer" => worker = "idle"
    /\ version' = version + 1
    /\ UNCHANGED <<book, sweep, rounds, resent, deaths, sends>>

\* Its publication thread has the book adopt it.
Adopt ==
    /\ latest < version
    /\ latest' = version
    /\ UNCHANGED <<config, records, sweep, rounds, version, resent, deaths, sends>>

--------------------------------------------------------------------------------
(* drop_stale_audits of the audit loop, while the trainer judges. *)

SweepList ==
    /\ source = "trainer" /\ sweep = {} /\ Stale # {}
    /\ sweep' = Stale
    /\ UNCHANGED <<book, rounds, version, resent, deaths, sends>>

SweepDrop(a) ==
    /\ a \in sweep
    /\ Conclude(a, "inconclusive")
    /\ sweep' = sweep \ {a}
    /\ UNCHANGED <<config, queued, attempts, latest, rounds, version, resent, deaths, sends>>

\* The audit was concluded meanwhile: LookupError, and the rest waits for the next pass.
SweepRaises ==
    /\ \E a \in sweep : ~ Pending(a)
    /\ sweep' = {}
    /\ UNCHANGED <<book, rounds, version, resent, deaths, sends>>

--------------------------------------------------------------------------------
(* A round of audits: the trainer's, or the loop's. *)

\* take_audits and run_audits drop the stale ones first.  The trainer takes again within a round once it has judged
\* what it took.
RoundStart ==
    /\ \/ worker = "idle"
       \/ source = "trainer" /\ worker = "judging" /\ jobs = <<>> /\ done
    /\ worker' = "dropping" /\ todo' = Stale
    /\ UNCHANGED <<book, sweep, jobs, done, version, resent, deaths, sends>>

RoundDrop(a) ==
    /\ worker = "dropping" /\ a \in todo
    /\ Conclude(a, "inconclusive")
    /\ todo' = todo \ {a}
    /\ UNCHANGED <<config, queued, attempts, latest, sweep, worker, jobs, done, version, resent, deaths, sends>>

\* Concluded meanwhile: LookupError.  The link answers 404, which take_audits does not expect, and the trainer dies
\* with its step; the loop retries in its next pass.
RoundDropRaises ==
    /\ worker = "dropping" /\ \E a \in todo : ~ Pending(a)
    /\ todo' = {} /\ worker' = "raised"
    /\ UNCHANGED <<book, sweep, jobs, done, version, resent, deaths, sends>>

RoundTake ==
    /\ worker = "dropping" /\ todo = {}
    /\ jobs' = audit_jobs /\ worker' = "judging"
    /\ UNCHANGED <<book, sweep, todo, done, version, resent, deaths, sends>>

\* The forward of a group and its report; an audit concluded meanwhile is left alone.  The link may send the report
\* again, its answer lost.
Judge(result) ==
    /\ worker = "judging" /\ jobs # <<>> /\ Head(jobs) \notin poison
    /\ \/ Conclude(Head(jobs), result)
       \/ ~ Pending(Head(jobs)) /\ UNCHANGED <<audit, verdicts, events>>
    /\ jobs' = Tail(jobs) /\ done' = TRUE
    /\ \/ UNCHANGED <<resent, sends>>
       \/ /\ source = "trainer" /\ sends < MaxResent /\ sends' = sends + 1
          /\ resent' = resent \union {<<Head(jobs), result>>}
    /\ UNCHANGED <<config, queued, attempts, latest, sweep, worker, todo, version, deaths>>

\* A resent report arrives: 404 when the audit is concluded, which counts as done.
LateReport ==
    /\ \E r \in resent :
         /\ resent' = resent \ {r}
         /\ \/ Conclude(r[1], r[2])
            \/ ~ Pending(r[1]) /\ UNCHANGED <<audit, verdicts, events>>
    /\ UNCHANGED <<config, queued, attempts, latest, sweep, rounds, version, deaths, sends>>

\* The budget is spent, looked at only once an audit of the round was judged: the round ends and the
\* rest stays queued.
OutOfBudget ==
    /\ source = "trainer" /\ worker = "judging" /\ jobs # <<>> /\ done
    /\ jobs' = <<>> /\ worker' = "idle" /\ done' = FALSE
    /\ UNCHANGED <<book, sweep, todo, version, resent, deaths, sends>>

\* After MAX_ATTEMPTS raising forwards an audit is concluded.
GivesUp(a) == attempts[a] + 1 >= MAX_ATTEMPTS

\* Mutant: the raising forward is not counted.
JudgeUncounted ==
    /\ source = "loop" /\ worker = "judging" /\ jobs # <<>> /\ Head(jobs) \in poison
    /\ jobs' = Tail(jobs) /\ done' = TRUE
    /\ UNCHANGED <<book, sweep, worker, todo, version, resent, deaths, sends>>

\* run_audits: a raising forward is counted, in its own transaction.
JudgeCounts ==
    /\ source = "loop" /\ worker = "judging" /\ jobs # <<>> /\ Head(jobs) \in poison
    /\ attempts' = [attempts EXCEPT ![Head(jobs)] = @ + 1]
    /\ IF GivesUp(Head(jobs))
         THEN worker' = "givingup" /\ UNCHANGED <<jobs, done>>
         ELSE jobs' = Tail(jobs) /\ done' = TRUE /\ UNCHANGED worker
    /\ UNCHANGED <<config, queued, audit, verdicts, events, latest, sweep, todo, version, resent, deaths, sends>>

\* The last attempt concludes it a suspect, in another.
JudgeGivesUp ==
    /\ worker = "givingup"
    /\ Conclude(Head(jobs), "suspect")
    /\ worker' = "judging" /\ jobs' = Tail(jobs) /\ done' = TRUE
    /\ UNCHANGED <<config, queued, attempts, latest, sweep, todo, version, resent, deaths, sends>>

\* TrainerAudits.run: a raising forward leaves the round, the step and the process.
JudgeRaises ==
    /\ source = "trainer" /\ worker = "judging" /\ jobs # <<>> /\ Head(jobs) \in poison
    /\ worker' = "raised" /\ jobs' = <<>>
    /\ UNCHANGED <<book, sweep, todo, done, version, resent, deaths, sends>>

\* The round is over: the trainer goes on to its batch, the loop sleeps.
RoundEnd ==
    /\ worker = "judging" /\ jobs = <<>>
    /\ worker' = "idle" /\ done' = FALSE
    /\ UNCHANGED <<book, sweep, todo, jobs, version, resent, deaths, sends>>

\* The loop goes on; a trainer starts again from the latest published checkpoint, adopting it, or from the latest
\* adopted one.
Recover ==
    /\ worker = "raised"
    /\ worker' = "idle" /\ done' = FALSE
    /\ \/ source = "loop" /\ UNCHANGED <<latest, version>>
       \/ source = "trainer" /\ latest' \in {latest, version} /\ version' = latest'
    /\ UNCHANGED <<config, records, sweep, todo, jobs, resent, deaths, sends>>

\* The process that judges is killed anywhere, or the validator with what its drop had left.
Die ==
    /\ deaths < MaxDeaths /\ deaths' = deaths + 1
    /\ \/ worker' = "raised" /\ todo' = {} /\ jobs' = <<>> /\ UNCHANGED sweep
       \/ sweep # {} /\ sweep' = {} /\ UNCHANGED <<worker, todo, jobs>>
    /\ UNCHANGED <<book, done, version, resent, sends>>

Loop == SweepList \/ SweepRaises \/ \E a \in Audits : SweepDrop(a)
Round ==
    \/ RoundStart \/ RoundDropRaises \/ RoundTake \/ OutOfBudget \/ JudgeCounts \/ JudgeGivesUp
    \/ JudgeRaises \/ RoundEnd \/ Recover
    \/ \E a \in Audits : RoundDrop(a)
    \/ \E result \in Results : Judge(result)

Next == Loop \/ Round \/ Publish \/ Adopt \/ LateReport \/ Die \/ \E a \in Audits : Queue(a)

Spec == Init /\ [][Next]_vars

\* The loops of the validator and the trainer's steps keep running.
FairSpec == Spec /\ WF_vars(Loop) /\ WF_vars(Round) /\ WF_vars(Adopt)

--------------------------------------------------------------------------------
(* Properties. *)

\* An audit is concluded once however many threads drop it, judge it and resend its report: one verdict that agrees
\* with the group's state, and for a first scan one pay event, payable only after a pass ("Conclude a drawn
\* out-of-zone group (once)", report_audit).
ConcludedOnce ==
    \A a \in Audits :
      /\ Len(verdicts[a]) <= 1 /\ Len(events[a]) <= 1
      /\ audit[a] \in {"passed", "failed"} <=> \E v \in Range(verdicts[a]) : v # "suspect"
      /\ \A v \in Range(verdicts[a]) : v # "suspect" => audit[a] = v
      /\ a \in First /\ audit[a] \notin {"none", "pending"} => events[a] = <<audit[a] = "passed">>

\* Every queued audit is concluded ("one poison group (e.g. an OOM) cannot stall the queue", run_audits).  When the
\* trainer judges this needs forwards that do not raise: it counts no attempts and dies on the same audit again.
QueueDrains == (source = "loop" \/ poison = {}) => \A a \in Audits : Pending(a) ~> ~ Pending(a)
================================================================================
