----------------------------- MODULE TrainerLoop -----------------------------
(***************************************************************************)
(* The async trainer (reliquary/trainer/async_trainer.py, async_cli.py)    *)
(* against the validator's training buffer, over the link of               *)
(* reliquary/trainer/rl_link.py.  The trainer's main thread takes a batch, *)
(* trains it, reports every group and hands the weights to a publication   *)
(* thread; a prefetch thread takes the next batch meanwhile.  The process  *)
(* may die at any point and is restarted.  A call whose answer is lost is  *)
(* sent again, and the validator executes it again.                        *)
(***************************************************************************)
EXTENDS TrainingBuffer

CONSTANTS
    BatchGroups,        \* AsyncTrainerConfig.batch_groups
    MaxAttempts,        \* AsyncTrainerConfig.max_attempts
    PrefetchModes,      \* the values of AsyncTrainerConfig.prefetch
    Cap,                \* rl_max_pending_groups: no lease while so many groups are buffered
    Poison,             \* groups whose step always raises (out of GPU memory)
    \* bounds of the model
    MaxVersion,         \* checkpoints trained
    MaxOpen,            \* leases open at once
    MaxCrashes,         \* deaths of the trainer process
    MaxTimeouts,        \* calls of the link that are sent again
    MaxFails            \* steps, publications and prefetches that fail by themselves

ASSUME TrainerAssumption ==
    /\ BatchGroups \in Nat \ {0} /\ MaxAttempts \in Nat \ {0} /\ PrefetchModes \subseteq BOOLEAN
    /\ Cap \in Nat \ {0} /\ Poison \subseteq Groups /\ SuspectAttempts \in Nat \ {0}
    /\ Groups \subseteq Nat /\ IsFiniteSet(Groups)
    /\ MaxLag \in Nat /\ {MaxVersion, MaxOpen, MaxCrashes, MaxTimeouts, MaxFails} \subseteq Nat
    /\ \A n \in 1..BatchGroups : \A e \in DOMAIN BatchCaps[n] : BatchCaps[n][e] \in Nat

VARIABLES
    \* the validator
    rl_buffer,          \* group -> row
    waiting,            \* TrainingBuffer._waiting_since is set: the last take came back short
    reports,            \* group -> what report_training recorded: none, judged, untrained or exhausted
    latest,             \* the lease book's latest checkpoint, -1 on a fresh book
    open,               \* checkpoint -> open leases
    arrived,            \* groups arrived so far
    looked,             \* history: those the step's last look for stale groups could see
    \* the checkpoint bucket
    bucket,             \* [version, weights] of its index's latest
    \* the trainer process
    prefetch,           \* AsyncTrainerConfig.prefetch, set once
    pc, version,
    weights,            \* group -> how often it is trained into the model
    held,               \* the batch: submitted, or taken so far
    todo,               \* groups still to report
    why,                \* what they are reported for: stale, held_stale, exhausted, skipped or trained
    resent,             \* those whose report was sent before
    pre,                \* _prefetched: [state, groups]
    pub,                \* _pending: [state, version, weights]
    \* counters of the bounds
    crashes, timeouts, fails

validator == <<rl_buffer, waiting, reports>>
book == <<latest, open, arrived, looked>>
counters == <<crashes, timeouts, fails>>
batch == <<held, todo, why, resent>>
vars == <<validator, book, bucket, prefetch, pc, version, weights, batch, pre, pub, counters>>

Versions == 0..MaxVersion
Untrained == [g \in Groups |-> 0]
NoPrefetch == [state |-> "off", groups |-> {}]
NoPublication == [state |-> "none", version |-> 0, weights |-> Untrained]

Init ==
    /\ rl_buffer = [g \in Groups |-> NoRow] /\ waiting = FALSE /\ reports = [g \in Groups |-> "none"]
    /\ latest = -1 /\ open = [k \in Versions |-> 0] /\ arrived = 0 /\ looked = 0
    /\ bucket = [version |-> -1, weights |-> Untrained]
    /\ prefetch \in PrefetchModes /\ pc = "down" /\ version = 0 /\ weights = Untrained
    /\ held = {} /\ todo = {} /\ why = "trained" /\ resent = {}
    /\ pre = NoPrefetch /\ pub = NoPublication
    /\ crashes = 0 /\ timeouts = 0 /\ fails = 0

-----------------------------------------------------------------------------
(* The link.  A request is executed by the validator under the book's      *)
(* lock; TimesOut is the client giving up on its answer and sending again. *)

Request(op, n, S) == [op |-> op, n |-> n, groups |-> S, outcome |-> "none"]
requeue == Request("requeue", 0, {})
take(n) == Request("take", n, {})
take_older(below) == Request("take_older", below, {})
take_exhausted(most) == Request("take_exhausted", most, {})
release(S) == Request("release", 0, S)
report_training(g, o) == [Request("report", 0, {g}) EXCEPT !.outcome = o]

\* The validator's handler of a request.
Execute(r) ==
    \/ /\ r.op = "requeue"
       /\ rl_buffer' = Requeue(rl_buffer)
       /\ UNCHANGED <<waiting, reports>>
    \/ /\ r.op = "take"
       /\ rl_buffer' = HandOut(rl_buffer, TakeSet(rl_buffer, r.n, latest))
       /\ waiting' = (Cardinality(TakeSet(rl_buffer, r.n, latest)) < r.n)
       /\ UNCHANGED reports
    \/ /\ r.op = "take_older"
       /\ rl_buffer' = MarkTaken(rl_buffer, TakeOlder(rl_buffer, r.n))
       /\ UNCHANGED <<waiting, reports>>
    \/ /\ r.op = "take_exhausted"
       /\ rl_buffer' = MarkTaken(rl_buffer, TakeExhausted(rl_buffer, r.n))
       /\ UNCHANGED <<waiting, reports>>
    \/ /\ r.op = "release"
       /\ rl_buffer' = Release(rl_buffer, r.groups)
       /\ UNCHANGED <<waiting, reports>>
    \/ /\ r.op = "report"
       /\ \E g \in r.groups :
             IF g \in Buffered(rl_buffer)
             THEN rl_buffer' = _remove(rl_buffer, g) /\ reports' = [reports EXCEPT ![g] = r.outcome]
             ELSE UNCHANGED <<rl_buffer, reports>>                        \* LookupError: 404
       /\ UNCHANGED waiting

OutcomeOf(w) == CASE w = "trained" -> "judged" [] w = "exhausted" -> "exhausted" [] OTHER -> "untrained"

\* The requests of the main thread and of the prefetch thread that are waiting for an answer.
InFlight ==
    CASE pc = "requeue" -> {requeue}
      [] pc = "collect" /\ pre.state \in {"off", "failed"} -> {requeue}
      [] pc = "stale" -> {take_older(version - MaxLag)}
      [] pc = "exhausted" -> {take_exhausted(MaxAttempts)}
      [] pc = "assemble" /\ Cardinality(held) < BatchGroups -> {take(BatchGroups - Cardinality(held))}
      [] pc = "report" -> {report_training(g, OutcomeOf(why)) : g \in todo}
      [] pc = "release" -> {release(held)}
      [] pc = "release_pre" /\ pre.state = "done" -> {release(pre.groups)}
      [] OTHER -> {}

PrefetchInFlight == IF pre.state = "take" THEN {take(BatchGroups)} ELSE {}

\* The answer is lost, or the request (a lost request changes something only if it is a report: a resent report
\* reads a 404 as done).
TimesOut ==
    /\ timeouts < MaxTimeouts
    /\ \E r \in InFlight \union PrefetchInFlight :
          /\ Execute(r) \/ (r.op = "report" /\ UNCHANGED validator)
          /\ resent' = resent \union (IF r.op = "report" THEN r.groups ELSE {})
    /\ timeouts' = timeouts + 1
    /\ UNCHANGED <<book, bucket, prefetch, pc, version, weights, held, todo, why, pre, pub, crashes, fails>>

-----------------------------------------------------------------------------
(* The lease book, as far as the trainer sees it: a lease names a          *)
(* checkpoint that was leasable when it was granted, and its group arrives *)
(* in zone at any later time.                                              *)

Grant ==
    /\ Cardinality(Buffered(rl_buffer)) < Cap
    /\ SumFunction(open) < MaxOpen
    /\ \E k \in Versions :
          /\ latest - MaxLag <= k /\ k <= latest
          /\ open' = [open EXCEPT ![k] = @ + 1]
    /\ UNCHANGED <<validator, latest, arrived, looked, bucket, prefetch, pc, version, weights, batch, pre, pub,
                   counters>>

Arrive ==
    /\ arrived < Cardinality(Groups)
    /\ \E k \in Versions :
          /\ open[k] > 0
          /\ open' = [open EXCEPT ![k] = @ - 1]
          /\ rl_buffer' = Push(rl_buffer, arrived + 1, k)
    /\ arrived' = arrived + 1
    /\ UNCHANGED <<waiting, reports, latest, looked, bucket, prefetch, pc, version, weights, batch, pre, pub, counters>>

-----------------------------------------------------------------------------
(* run_async_train_worker: resume, adopt what was published but not        *)
(* adopted, requeue, and on a fresh book publish the initial weights as 0. *)

Resume ==
    /\ pc = "down"
    /\ IF latest = -1
       THEN pc' = "requeue" /\ version' = 0 /\ weights' = Untrained
       ELSE /\ version' = bucket.version /\ weights' = bucket.weights
            /\ pc' = IF bucket.version > latest THEN "adopt" ELSE "requeue"
    /\ UNCHANGED <<validator, book, bucket, prefetch, batch, pre, pub, counters>>

AdoptAhead ==
    /\ pc = "adopt"
    /\ latest' = version
    /\ pc' = "requeue"
    /\ UNCHANGED <<validator, open, arrived, looked, bucket, prefetch, version, weights, batch, pre, pub, counters>>

StartRequeue ==
    /\ pc = "requeue"
    /\ Execute(requeue)
    /\ pc' = IF latest = -1 THEN "first" ELSE "collect"
    /\ UNCHANGED <<book, bucket, prefetch, version, weights, batch, pre, pub, counters>>

PublishFirst ==
    \/ /\ pc = "first"
       /\ pub' = [state |-> "publish", version |-> 0, weights |-> weights]
       /\ pc' = "first_wait"
       /\ UNCHANGED <<validator, book, bucket, prefetch, version, weights, batch, pre, counters>>
    \/ /\ pc = "first_wait" /\ pub.state \in {"none", "failed"}
       /\ pc' = IF pub.state = "none" THEN "collect" ELSE "closing"
       /\ pub' = NoPublication
       /\ UNCHANGED <<validator, book, bucket, prefetch, version, weights, batch, pre, counters>>

-----------------------------------------------------------------------------
(* run_once.                                                               *)

\* Mutant of CollectPrefetch: nothing is requeued.
CollectOnly ==
    /\ pc = "collect" /\ pre.state \in {"off", "done", "failed"}
    /\ held' = pre.groups
    /\ pre' = NoPrefetch
    /\ pc' = "stale"
    /\ UNCHANGED <<validator, book, bucket, prefetch, version, weights, todo, why, resent, pub, counters>>

\* Mutant of CollectPrefetch: the requeue does not look at what the prefetch took.
CollectAndRequeue ==
    /\ pc = "collect" /\ pre.state \in {"off", "done", "failed"}
    /\ held' = pre.groups
    /\ Execute(requeue)
    /\ pre' = NoPrefetch
    /\ pc' = "stale"
    /\ UNCHANGED <<book, bucket, prefetch, version, weights, todo, why, resent, pub, counters>>

\* The prefetched batch, or nothing and a requeue; a prefetch in progress is waited for.
CollectPrefetch ==
    /\ pc = "collect" /\ pre.state \in {"off", "done", "failed"}
    /\ IF pre.state = "done" THEN held' = pre.groups /\ UNCHANGED validator
       ELSE held' = {} /\ Execute(requeue)
    /\ pre' = NoPrefetch
    /\ pc' = "stale"
    /\ UNCHANGED <<book, bucket, prefetch, version, weights, todo, why, resent, pub, counters>>

\* _report_untrained and _report: the groups S are reported, then the main thread goes on.
ReportAll(S, w) == todo' = S /\ why' = w /\ resent' = {} /\ pc' = "report"

DropStale ==
    /\ pc = "stale"
    /\ Execute(take_older(version - MaxLag))
    /\ LET stale == TakeOlder(rl_buffer, version - MaxLag)
       IN  IF stale = {} THEN pc' = "held_stale" /\ UNCHANGED <<todo, why, resent>>
           ELSE ReportAll(stale, "stale")
    /\ looked' = arrived
    /\ UNCHANGED <<latest, open, arrived, bucket, prefetch, version, weights, held, pre, pub, counters>>

\* Mutant: what the prefetch holds is not looked at again.
KeepHeldStale ==
    /\ pc = "held_stale" /\ pc' = "exhausted"
    /\ UNCHANGED <<validator, book, bucket, prefetch, version, weights, held, todo, why, resent, pre, pub, counters>>

\* Groups prefetched before the last checkpoint may be past the max lag now.
DropHeldStale ==
    /\ pc = "held_stale"
    /\ LET stale == {g \in held : rl_buffer[g].k < version - MaxLag}
       IN  /\ held' = held \ stale
           /\ IF stale = {} THEN pc' = "exhausted" /\ UNCHANGED <<todo, why, resent>>
              ELSE ReportAll(stale, "held_stale")
    /\ UNCHANGED <<validator, book, bucket, prefetch, version, weights, pre, pub, counters>>

DropExhausted ==
    /\ pc = "exhausted"
    /\ Execute(take_exhausted(MaxAttempts))
    /\ LET exhausted == TakeExhausted(rl_buffer, MaxAttempts)
       IN  IF exhausted = {} THEN pc' = "assemble" /\ UNCHANGED <<todo, why, resent>>
           ELSE ReportAll(exhausted, "exhausted")
    /\ UNCHANGED <<book, bucket, prefetch, version, weights, held, pre, pub, counters>>

\* assemble: take what the batch still lacks, again and again.
Assemble ==
    /\ pc = "assemble" /\ Cardinality(held) < BatchGroups
    /\ Execute(take(BatchGroups - Cardinality(held)))
    /\ held' = held \union TakeSet(rl_buffer, BatchGroups - Cardinality(held), latest)
    /\ UNCHANGED <<book, bucket, prefetch, pc, version, weights, todo, why, resent, pre, pub, counters>>

\* The batch is full: the prefetch of the next one starts, and the step.
StartStep ==
    /\ pc = "assemble" /\ Cardinality(held) >= BatchGroups
    /\ pre' = IF prefetch /\ pre.state = "off" THEN [pre EXCEPT !.state = "depth"] ELSE pre
    /\ pc' = "train"
    /\ UNCHANGED <<validator, book, bucket, prefetch, version, weights, batch, pub, counters>>

\* Mutant of TrainStep: the checkpoint is published without the reports.
TrainStepUnreported ==
    /\ pc = "train" /\ held \intersect Poison = {} /\ version < MaxVersion
    /\ weights' = [g \in Groups |-> weights[g] + (IF g \in held THEN 1 ELSE 0)]
    /\ pc' = "publish" /\ held' = {}
    /\ UNCHANGED <<validator, book, bucket, prefetch, version, todo, why, resent, pre, pub, counters>>

\* train_step succeeds: the groups the gate accepts are in the weights, and every group is reported.
TrainStep ==
    /\ pc = "train" /\ held \intersect Poison = {} /\ version < MaxVersion
    /\ \E accepted \in SUBSET held :
          weights' = [g \in Groups |-> weights[g] + (IF g \in accepted THEN 1 ELSE 0)]
    /\ ReportAll(held, "trained")
    /\ held' = {}
    /\ UNCHANGED <<validator, book, bucket, prefetch, version, pre, pub, counters>>

\* TrainingStepSkipped: the health gate refuses the step.
TrainSkipped ==
    /\ pc = "train" /\ held \intersect Poison = {} /\ fails < MaxFails
    /\ ReportAll(held, "skipped")
    /\ held' = {} /\ fails' = fails + 1
    /\ UNCHANGED <<validator, book, bucket, prefetch, version, weights, pre, pub, crashes, timeouts>>

TrainRaises ==
    /\ pc = "train"
    /\ \/ held \intersect Poison # {} /\ UNCHANGED fails
       \/ held \intersect Poison = {} /\ fails < MaxFails /\ fails' = fails + 1
    /\ pc' = "release"
    /\ UNCHANGED <<validator, book, bucket, prefetch, version, weights, batch, pre, pub, crashes, timeouts>>

\* The groups of a failed step go back, then those of the prefetch; the error is fatal.
ReleaseHeld ==
    /\ pc = "release"
    /\ Execute(release(held))
    /\ held' = {}
    /\ pc' = "release_pre"
    /\ UNCHANGED <<book, bucket, prefetch, version, weights, todo, why, resent, pre, pub, counters>>

ReleasePrefetched ==
    /\ pc = "release_pre" /\ pre.state \in {"off", "done", "failed"}
    /\ Execute(release(pre.groups))
    /\ pre' = NoPrefetch
    /\ pc' = "closing"
    /\ UNCHANGED <<book, bucket, prefetch, version, weights, batch, pub, counters>>

\* One report.  The reports of a step go out in parallel, so in any order.  A 404 is fatal unless the report was
\* sent before.
Report(g) ==
    /\ pc = "report" /\ g \in todo
    /\ Execute(report_training(g, OutcomeOf(why)))
    /\ IF g \in Buffered(rl_buffer) \union resent
       THEN /\ todo' = todo \ {g}
            /\ pc' = IF todo # {g} THEN "report"
                     ELSE CASE why = "stale" -> "stale" [] why \in {"held_stale", "exhausted"} -> "exhausted"
                            [] why = "skipped" -> "collect" [] why = "trained" -> "publish"
       ELSE todo' = {} /\ pc' = "closing"
    /\ UNCHANGED <<book, bucket, prefetch, version, weights, held, why, resent, pre, pub, counters>>

\* _publish: one publication in flight; a failed one stops the loop.
Publish ==
    /\ pc = "publish" /\ pub.state \in {"none", "failed"}
    /\ version' = version + 1
    /\ IF pub.state = "none"
       THEN pub' = [state |-> "publish", version |-> version + 1, weights |-> weights] /\ pc' = "collect"
       ELSE pub' = NoPublication /\ pc' = "closing"
    /\ UNCHANGED <<validator, book, bucket, prefetch, weights, batch, pre, counters>>

-----------------------------------------------------------------------------
(* The publication thread and the prefetch thread.                         *)

\* DeltaPublisher.publish: index.json is written last, and makes the version the bucket's latest.
Upload ==
    /\ pub.state = "publish"
    /\ bucket' = [version |-> pub.version, weights |-> pub.weights]
    /\ pub' = [pub EXCEPT !.state = "adopt"]
    /\ UNCHANGED <<validator, book, prefetch, pc, version, weights, batch, pre, counters>>

AdoptPublished ==
    /\ pub.state = "adopt"
    /\ latest' = pub.version
    /\ pub' = NoPublication
    /\ UNCHANGED <<validator, open, arrived, looked, bucket, prefetch, pc, version, weights, batch, pre, counters>>

PublicationFails ==
    /\ pub.state \in {"publish", "adopt"} /\ fails < MaxFails
    /\ pub' = [NoPublication EXCEPT !.state = "failed"]
    /\ fails' = fails + 1
    /\ UNCHANGED <<validator, book, bucket, prefetch, pc, version, weights, batch, pre, crashes, timeouts>>

\* The prefetch takes only when a full batch is queued.
PrefetchDepth ==
    /\ pre.state = "depth"
    /\ pre' = [pre EXCEPT !.state = IF Cardinality(Queued(rl_buffer)) < BatchGroups THEN "done" ELSE "take"]
    /\ UNCHANGED <<validator, book, bucket, prefetch, pc, version, weights, batch, pub, counters>>

PrefetchTake ==
    /\ pre.state = "take"
    /\ Execute(take(BatchGroups))
    /\ pre' = [state |-> "done", groups |-> TakeSet(rl_buffer, BatchGroups, latest)]
    /\ UNCHANGED <<book, bucket, prefetch, pc, version, weights, batch, pub, counters>>

\* The link or the uniforms of the groups it took raise.
PrefetchFails ==
    /\ pre.state \in {"depth", "take"} /\ fails < MaxFails
    /\ UNCHANGED validator \/ (pre.state = "take" /\ Execute(take(BatchGroups)))
    /\ pre' = [state |-> "failed", groups |-> {}]
    /\ fails' = fails + 1
    /\ UNCHANGED <<book, bucket, prefetch, pc, version, weights, batch, pub, crashes, timeouts>>

-----------------------------------------------------------------------------
(* Deaths.  An error of run_once reaches close(), which waits for the      *)
(* publication and the prefetch; a crash does not.                         *)

Forget ==
    /\ pc' = "down" /\ held' = {} /\ todo' = {} /\ resent' = {} /\ pre' = NoPrefetch /\ pub' = NoPublication
    /\ UNCHANGED <<validator, book, bucket, prefetch, version, weights, why>>

\* A call that found no validator for its whole patience raises.
LinkFails ==
    /\ InFlight # {} /\ fails < MaxFails
    /\ pc' = "closing" /\ held' = {} /\ todo' = {} /\ resent' = {}
    /\ fails' = fails + 1
    /\ UNCHANGED <<validator, book, bucket, prefetch, version, weights, why, pre, pub, crashes, timeouts>>

Close ==
    /\ pc = "closing" /\ pub.state \in {"none", "failed"} /\ pre.state \notin {"depth", "take"}
    /\ Forget
    /\ UNCHANGED counters

Crash ==
    /\ pc # "down" /\ crashes < MaxCrashes
    /\ Forget
    /\ crashes' = crashes + 1
    /\ UNCHANGED <<timeouts, fails>>

-----------------------------------------------------------------------------
MainThread ==
    \/ Resume \/ AdoptAhead \/ StartRequeue \/ PublishFirst
    \/ CollectPrefetch \/ DropStale \/ DropHeldStale \/ DropExhausted \/ Assemble \/ StartStep
    \/ TrainStep \/ TrainRaises \/ ReleaseHeld \/ ReleasePrefetched
    \/ \E g \in Groups : Report(g)
    \/ Publish \/ Close

Threads == Upload \/ AdoptPublished \/ PrefetchDepth \/ PrefetchTake

Miners == Grant \/ Arrive

Faults == TimesOut \/ TrainSkipped \/ PublicationFails \/ PrefetchFails \/ LinkFails \/ Crash

\* The bound on checkpoints is reached.
Stop == pc = "train" /\ version = MaxVersion /\ UNCHANGED vars

Next == MainThread \/ Threads \/ Miners \/ Faults \/ Stop

Spec == Init /\ [][Next]_vars

\* The process's threads run and it is restarted; leases are asked for and submitted.
Fairness ==
    /\ WF_vars(MainThread)
    /\ WF_vars(Upload \/ AdoptPublished) /\ WF_vars(PrefetchDepth \/ PrefetchTake)
    /\ WF_vars(Grant) /\ WF_vars(Arrive)

FairSpec == Spec /\ Fairness

-----------------------------------------------------------------------------
\* The groups the trainer process has in hand.
InHand == held \union todo \union pre.groups

\* The batch, the groups being reported and the prefetched batch are disjoint, and the validator keeps each of them
\* as taken until its report is executed (TrainingBuffer.take: "they stay buffered until reported or released").
\* So no group is handed out twice and no first report meets a 404.  A failed step gives its groups back, and a
\* trainer that closes does nothing more with its own.
HeldIsTaken ==
    pc \notin {"release", "release_pre", "closing"} =>
        /\ held \intersect todo = {} /\ (held \union todo) \intersect pre.groups = {}
        /\ InHand \ resent \subseteq Taken(rl_buffer)

\* Without prefetch a step starts with no group taken by nobody: "the groups of a take whose answer was lost are
\* requeued before each step" (docs/rl-async-implementation-map.md).  A step that starts from a prefetched batch does
\* not requeue.
LostTakeRequeued ==
    [][~ prefetch /\ pc = "collect" /\ pc' = "stale" => Taken(rl_buffer') \subseteq InHand']_vars

\* The weights in the bucket have each group at most once, and only groups whose judgement was reported: whatever
\* dies between a step, its reports, its publication and its adoption, no resumed trainer trains a group again.
PublishedOnce ==
    \A g \in Groups : bucket.weights[g] <= 1 /\ (bucket.weights[g] = 1 => reports[g] = "judged")

\* A batch has at most one suspect (a group handed out SUSPECT_ATTEMPTS times before), whichever of the step and the
\* prefetch took it.
OneSuspectPerBatch ==
    pc = "train" => Cardinality({g \in held : rl_buffer[g].attempts > SuspectAttempts}) <= 1

\* Without prefetch only a group that breaks its steps is dropped as exhausted, not those that shared a batch with it
\* (TrainingBuffer.take: a suspect is served "at most one per batch, so it cannot sink the others again").  A prefetch
\* may take the groups of a failed step as soon as they are released, which counts as one more attempt of theirs.
OnlyPoisonExhausted == ~ prefetch => \A g \in Groups : reports[g] = "exhausted" => g \in Poison

\* A group more than max_lag checkpoints behind the weights is trained only if it arrived after the step looked for
\* stale groups: one that was queued, handed out in an earlier step or prefetched before is reported untrained
\* (drop_stale and the second look at what was prefetched), however the publication, the prefetch and lost answers
\* interleave.  A late arrival is not looked at again.
StaleIsLate ==
    pc = "train" => \A g \in held : rl_buffer[g].k < version - MaxLag => g > looked

-----------------------------------------------------------------------------
(* The batch mix, over every queue the trainer meets and every size of take. *)

Picked(n) == TakeFresh(rl_buffer, n, latest)
LeftBehind(n) == Fresh(rl_buffer) \ Picked(n)
IsUrgent(g) == rl_buffer[g].k < UrgentBelow(latest)
InEnv(S, e) == {g \in S : EnvOf[g] = e}
AtCap(n, e) == e \in DOMAIN BatchCaps[n] /\ Cardinality(InEnv(Picked(n), e)) >= BatchCaps[n][e]

\* A take hands out as many fresh groups as are queued, up to its size: "the cap never makes the trainer wait for
\* groups that are already queued" (mixed_take).
TakeIsFull == \A n \in 1..BatchGroups : Cardinality(Picked(n)) = Min({n, Cardinality(Fresh(rl_buffer))})

\* While an environment is over its cap by more than its urgent groups, what is left behind is of environments that
\* have their share too: an extra group never takes the place of one its cap allows.
ExtraOnlyWhenShort ==
    \A n \in 1..BatchGroups : \A e \in DOMAIN BatchCaps[n] :
        LET taken == InEnv(Picked(n), e)
        IN  Cardinality(taken) > Max({BatchCaps[n][e], Cardinality({g \in taken : IsUrgent(g)})}) =>
                \A g \in LeftBehind(n) : AtCap(n, EnvOf[g])

\* A group about to pass the max lag is left behind only by a take full of groups at least as old.
OldestUrgentFirst ==
    \A n \in 1..BatchGroups : BatchCaps[n] # <<>> =>
        \A g \in LeftBehind(n) : IsUrgent(g) => \A h \in Picked(n) : rl_buffer[h].k <= rl_buffer[g].k

-----------------------------------------------------------------------------
\* Training goes on to the last checkpoint of the model whatever a group does to its steps ("one group that breaks
\* every step cannot stall training").
TrainingProgresses == <>(latest = MaxVersion)

\* The same without prefetch.
InlineTrainingProgresses == ~ prefetch => TrainingProgresses
=============================================================================
