----------------------------- MODULE TrainerProofs -----------------------------
(***************************************************************************)
(* The trainer and the buffer, for any groups, batch sizes, caps and       *)
(* settings and any number of crashes, lost answers and failures: that     *)
(* they agree on who has a group and that a published checkpoint has it at *)
(* most once, that no batch has two suspects, nor a group that was there   *)
(* and stale at the look for stale ones.                                   *)
(***************************************************************************)
EXTENDS TrainerLoop, TLAPS

\* Zenon is the default prover; the steps of arithmetic and of records name SMT.
USE Zenon

--------------------------------------------------------------------------------
(* The inductive invariant: who has a group, and what is trained.          *)

Rows == [state : {"none", "queued", "taken", "gone"}, attempts : Nat, k : Versions]
Trained == [Groups -> {0, 1}]

Typed ==
    /\ rl_buffer \in [Groups -> Rows] /\ reports \in [Groups -> {"none", "judged", "untrained", "exhausted"}]
    /\ arrived \in Nat /\ version \in Int
    /\ weights \in Trained /\ bucket \in [version : Int, weights : Trained]
    /\ pub \in [state : {"none", "publish", "adopt", "failed"}, version : Int, weights : Trained]
    /\ pre \in [state : {"off", "depth", "take", "done", "failed"}, groups : SUBSET Groups]
    /\ held \in SUBSET Groups /\ todo \in SUBSET Groups
    /\ why \in {"stale", "held_stale", "exhausted", "skipped", "trained"}

\* A group has no row before it arrives, and is gone once it is reported.
RowsOfGroups ==
    /\ \A g \in Groups : g > arrived => rl_buffer[g].state = "none"
    /\ \A g \in Groups : reports[g] # "none" => rl_buffer[g].state = "gone"

\* Where the trainer has nothing: whenever it may send a requeue its batch is empty and its prefetch not running.
EmptyHands ==
    /\ pc # "report" => todo = {}
    /\ pc \in {"down", "adopt", "requeue", "first", "first_wait", "collect", "publish"} => held = {}
    /\ pc = "report" /\ why \in {"skipped", "trained"} => held = {}
    /\ pc \in {"down", "adopt", "requeue"} => pre.state = "off"
    /\ pre.state # "done" => pre.groups = {}

\* What the trainer has is taken; a group being reported is gone only when its report was executed and is sent again.
Holds ==
    /\ pc \notin {"release", "release_pre", "closing"} =>
         /\ held \subseteq Taken(rl_buffer) /\ pre.groups \subseteq Taken(rl_buffer)
         /\ held \intersect pre.groups = {} /\ held \intersect todo = {} /\ todo \intersect pre.groups = {}
    /\ \A g \in todo : \/ rl_buffer[g].state = "taken"
                       \/ g \in resent /\ rl_buffer[g].state = "gone" /\ reports[g] = OutcomeOf(why)

\* What is trained was judged, or its report is on the way; what is published was judged.
Weights ==
    /\ pc \notin {"down", "closing"} =>
         \A g \in Groups : weights[g] = 1 => reports[g] = "judged" \/ (pc = "report" /\ why = "trained" /\ g \in todo)
    /\ \A g \in Groups : pub.weights[g] = 1 \/ bucket.weights[g] = 1 => reports[g] = "judged"

TrainInv == Typed /\ RowsOfGroups /\ EmptyHands /\ Holds /\ Weights

\* No prefetch has no groups, and no publication has a version, and the weights of no group.
LEMMA NothingUnderWay ==
    /\ NoPrefetch \in [state : {"off", "depth", "take", "done", "failed"}, groups : SUBSET Groups]
    /\ NoPublication \in [state : {"none", "publish", "adopt", "failed"}, version : Int, weights : Trained]
    /\ NoPrefetch.state = "off" /\ NoPrefetch.groups = {} /\ NoPublication.state = "none"
    /\ \A g \in Groups : NoPublication.weights[g] # 1
  BY SMT DEF NoPrefetch, NoPublication, Untrained, Trained

--------------------------------------------------------------------------------
(* What the validator's handlers do to the rows.                           *)

\* The groups S, all of them queued, are handed out.
Takes(S) ==
    /\ S \subseteq Queued(rl_buffer) /\ reports' = reports
    /\ rl_buffer' \in [Groups -> Rows]
    /\ \A g \in Groups : rl_buffer'[g].state = IF g \in S THEN "taken" ELSE rl_buffer[g].state

\* Those of the groups S that are taken go back to the queue.
GivesBack(S) ==
    /\ reports' = reports
    /\ rl_buffer' \in [Groups -> Rows]
    /\ \A g \in Groups : rl_buffer'[g].state = IF g \in S /\ rl_buffer[g].state = "taken" THEN "queued"
                                               ELSE rl_buffer[g].state

\* The group g is reported with outcome o, or was before.
Reports(g, o) ==
    /\ rl_buffer' \in [Groups -> Rows]
    /\ IF g \in Buffered(rl_buffer)
       THEN /\ reports' = [reports EXCEPT ![g] = o]
            /\ \A x \in Groups : rl_buffer'[x].state = IF x = g THEN "gone" ELSE rl_buffer[x].state
       ELSE UNCHANGED <<rl_buffer, reports>>

\* The mix hands out fresh groups only, whatever the caps and the urgent groups.
LEMMA TakeFreshIsFresh == ASSUME NEW n PROVE TakeFresh(rl_buffer, n, latest) \subseteq Fresh(rl_buffer)
<1>1. \A S, m : Oldest(S, m) \subseteq S
  BY DEF Oldest
<1>2. ASSUME NEW S, NEW caps, NEW below PROVE mixed_take(rl_buffer, S, caps, n, below) \subseteq S
  <2> DEFINE urgent == Urgent(rl_buffer, S, n, below)
             within == WithinCap(caps, urgent, S \ urgent)
             chosen == urgent \union Oldest(within, n - Cardinality(urgent))
  <2>1. urgent \subseteq S
    BY DEF Urgent
  <2>2. within \subseteq S
    BY DEF WithinCap
  <2>3. mixed_take(rl_buffer, S, caps, n, below)
          = chosen \union Oldest(S \ (urgent \union within), n - Cardinality(chosen))
    BY DEF mixed_take
  <2> HIDE DEF urgent, within
  <2>4. chosen \subseteq S
    BY <1>1, <2>1, <2>2
  <2> HIDE DEF chosen
  <2> QED
    BY <1>1, <2>3, <2>4
<1> QED
  BY <1>1, <1>2 DEF TakeFresh

\* take hands out queued groups only.
LEMMA TakeSetQueued == ASSUME NEW n PROVE TakeSet(rl_buffer, n, latest) \subseteq Queued(rl_buffer)
BY TakeFreshIsFresh DEF TakeSet, NextSuspect, Fresh

\* Giving one argument of a function another value of its range keeps the function's type.
LEMMA UpdateTyped ==
    ASSUME NEW G, NEW R, NEW b \in [G -> R], NEW x, NEW r \in R PROVE [b EXCEPT ![x] = r] \in [G -> R]
<1>1. CASE x \in G
  BY <1>1
<1>2. CASE x \notin G
  <2>1. [b EXCEPT ![x] = r] = b
    BY <1>2
  <2> QED
    BY <2>1
<1> QED
  BY <1>1, <1>2

\* HandOut marks the groups it is given as taken, counts the attempt, and touches no other row.
LEMMA HandOutTakes ==
    ASSUME Typed, NEW S \in SUBSET Queued(rl_buffer), rl_buffer' = HandOut(rl_buffer, S), reports' = reports
    PROVE  Takes(S)
<1> DEFINE row(g) == [rl_buffer[g] EXCEPT !.state = "taken", !.attempts = @ + 1]
<1>1. ASSUME NEW g \in Groups PROVE rl_buffer[g] \in Rows /\ row(g) \in Rows /\ row(g).state = "taken"
  <2>1. rl_buffer[g] \in Rows
    BY DEF Typed
  <2>2. row(g) = [[rl_buffer[g] EXCEPT !.state = "taken"] EXCEPT !.attempts = rl_buffer[g].attempts + 1]
    BY <2>1 DEF Rows
  <2>3. [rl_buffer[g] EXCEPT !.state = "taken"] \in Rows
    BY <2>1 DEF Rows
  <2>4. rl_buffer[g].attempts + 1 \in Nat
    BY <2>1, SMT DEF Rows
  <2>5. row(g) \in Rows
    <3>1. \A r \in Rows, m \in Nat : [r EXCEPT !.attempts = m] \in Rows
      BY DEF Rows
    <3> QED
      BY <2>2, <2>3, <2>4, <3>1
  <2>6. row(g).state = "taken"
    BY <2>1, <2>2, <2>3 DEF Rows
  <2> QED
    BY <2>1, <2>5, <2>6
<1>2. rl_buffer' = [g \in Groups |-> IF g \in S THEN row(g) ELSE rl_buffer[g]]
  BY DEF HandOut
<1> HIDE DEF row
<1> QED
  BY <1>1, <1>2 DEF Takes

\* Executing a take hands out the groups TakeSet chooses.
LEMMA ExecuteTake == ASSUME Typed, NEW n, Execute(take(n)) PROVE Takes(TakeSet(rl_buffer, n, latest))
<1>1. rl_buffer' = HandOut(rl_buffer, TakeSet(rl_buffer, n, latest)) /\ reports' = reports
  BY DEF Execute, take, Request
<1> QED
  BY <1>1, TakeSetQueued, HandOutTakes

\* Executing take_older hands out the queued groups that are too old.
LEMMA ExecuteTakeOlder == ASSUME Typed, NEW n, Execute(take_older(n)) PROVE Takes(TakeOlder(rl_buffer, n))
<1>1. rl_buffer' = MarkTaken(rl_buffer, TakeOlder(rl_buffer, n)) /\ reports' = reports
  BY DEF Execute, take_older, Request
<1> QED
  BY <1>1 DEF Takes, MarkTaken, TakeOlder, Typed, Rows

\* Executing take_exhausted hands out the queued groups that have no attempt left.
LEMMA ExecuteTakeExhausted ==
    ASSUME Typed, NEW n, Execute(take_exhausted(n)) PROVE Takes(TakeExhausted(rl_buffer, n))
<1>1. rl_buffer' = MarkTaken(rl_buffer, TakeExhausted(rl_buffer, n)) /\ reports' = reports
  BY DEF Execute, take_exhausted, Request
<1> QED
  BY <1>1 DEF Takes, MarkTaken, TakeExhausted, Typed, Rows

\* Executing a requeue gives back every group that is taken.
LEMMA ExecuteRequeue == ASSUME Typed, Execute(requeue) PROVE GivesBack(Groups)
<1>1. rl_buffer' = Requeue(rl_buffer) /\ reports' = reports
  BY DEF Execute, requeue, Request
<1> QED
  BY <1>1 DEF GivesBack, Requeue, Release, Taken, Typed, Rows

\* Executing a release gives back those of its groups that are taken.
LEMMA ExecuteRelease == ASSUME Typed, NEW S, Execute(release(S)) PROVE GivesBack(S)
<1>1. rl_buffer' = Release(rl_buffer, S) /\ reports' = reports
  BY DEF Execute, release, Request
<1> QED
  BY <1>1 DEF GivesBack, Release, Taken, Typed, Rows

\* Executing a report makes a buffered group gone with that outcome, and does nothing to another.
LEMMA ExecuteReport ==
    ASSUME Typed, NEW g \in Groups, NEW o, Execute(report_training(g, o)) PROVE Reports(g, o)
<1>1. IF g \in Buffered(rl_buffer)
      THEN rl_buffer' = _remove(rl_buffer, g) /\ reports' = [reports EXCEPT ![g] = o]
      ELSE UNCHANGED <<rl_buffer, reports>>
  BY DEF Execute, report_training, Request
<1> DEFINE row == [rl_buffer[g] EXCEPT !.state = "gone"]
<1>2. rl_buffer[g] \in Rows /\ rl_buffer \in [Groups -> Rows]
  BY DEF Typed
<1>3. row \in Rows /\ row.state = "gone"
  BY <1>2 DEF Rows
<1>4. _remove(rl_buffer, g) = [rl_buffer EXCEPT ![g] = row]
  BY DEF _remove
<1> HIDE DEF row
<1>5. [rl_buffer EXCEPT ![g] = row] \in [Groups -> Rows]
  BY <1>2, <1>3, UpdateTyped
<1>6. \A x \in Groups : [rl_buffer EXCEPT ![g] = row][x].state = IF x = g THEN "gone" ELSE rl_buffer[x].state
  BY <1>2, <1>3
<1> QED
  BY <1>1, <1>2, <1>4, <1>5, <1>6 DEF Reports

--------------------------------------------------------------------------------
(* The invariant is kept.                                                  *)

\* The fresh book, the empty bucket and the trainer that is down satisfy the invariant.
LEMMA TrainInvInit == Init => TrainInv
  BY TrainerAssumption, SMT DEF Init, NoRow, NoPrefetch, NoPublication, Untrained, Trained, Rows, Versions, Taken,
     TrainInv, Typed, RowsOfGroups, EmptyHands, Holds, Weights

\* A lease is granted, and a group arrives in a row that nobody has.
LEMMA MinersKeep == TrainInv /\ Miners => TrainInv'
<1> SUFFICES ASSUME TrainInv, Miners PROVE TrainInv'
  OBVIOUS
<1>1. CASE Grant
  <2>1. UNCHANGED <<rl_buffer, reports, arrived, bucket, pc, version, weights, held, todo, why, resent, pre, pub>>
    BY <1>1 DEF Grant, validator, batch
  <2> QED
    BY <2>1, SMT DEF TrainInv, Typed, RowsOfGroups, EmptyHands, Holds, Weights, Taken
<1>2. CASE Arrive
  <2>1. PICK k \in Versions : rl_buffer' = Push(rl_buffer, arrived + 1, k)
    BY <1>2 DEF Arrive
  <2>2. /\ arrived' = arrived + 1
        /\ UNCHANGED <<reports, bucket, pc, version, weights, held, todo, why, resent, pre, pub>>
    BY <1>2 DEF Arrive, batch
  <2>3. rl_buffer' \in [Groups -> Rows]
    <3> DEFINE row == [state |-> "queued", attempts |-> 0, k |-> k]
    <3>1. row \in Rows
      BY DEF Rows
    <3>2. rl_buffer' = [rl_buffer EXCEPT ![arrived + 1] = row] /\ rl_buffer \in [Groups -> Rows]
      BY <2>1 DEF Push, TrainInv, Typed
    <3> HIDE DEF row
    <3> QED
      BY <3>1, <3>2, UpdateTyped
  <2>4. \A g \in Groups : g # arrived + 1 => rl_buffer'[g] = rl_buffer[g]
    BY <2>1 DEF Push, TrainInv, Typed
  <2>5. arrived + 1 \in Groups => rl_buffer[arrived + 1].state = "none"
    BY TrainerAssumption, SMT DEF TrainInv, Typed, RowsOfGroups
  <2>6. Typed'
    BY <2>2, <2>3, SMT DEF TrainInv, Typed
  <2>7. RowsOfGroups'
    <3>1. ASSUME NEW g \in Groups, g > arrived + 1 PROVE rl_buffer'[g].state = "none"
      BY <2>4, <3>1, TrainerAssumption, SMT DEF TrainInv, Typed, RowsOfGroups
    <3>2. ASSUME NEW g \in Groups, reports[g] # "none" PROVE rl_buffer'[g].state = "gone"
      BY <2>4, <2>5, <3>2 DEF TrainInv, RowsOfGroups
    <3> QED
      BY <2>2, <3>1, <3>2 DEF RowsOfGroups
  <2>8. EmptyHands' /\ Weights'
    BY <2>2 DEF TrainInv, EmptyHands, Weights
  <2>9. Holds'
    BY <2>2, <2>4, <2>5, SMT DEF TrainInv, Typed, Holds, Taken
  <2> QED
    BY <2>6, <2>7, <2>8, <2>9 DEF TrainInv
<1> QED
  BY <1>1, <1>2 DEF Miners

\* The start: a trainer that resumes has nothing in hand, and the bucket's weights.
LEMMA StartKeeps == TrainInv /\ (Resume \/ AdoptAhead \/ StartRequeue \/ PublishFirst) => TrainInv'
<1> SUFFICES ASSUME TrainInv, Resume \/ AdoptAhead \/ StartRequeue \/ PublishFirst PROVE TrainInv'
  OBVIOUS
<1>1. CASE Resume
  <2>1. /\ pc = "down" /\ pc' \in {"adopt", "requeue"}
        /\ \/ version' = 0 /\ weights' = Untrained
           \/ version' = bucket.version /\ weights' = bucket.weights
        /\ UNCHANGED <<rl_buffer, reports, arrived, bucket, held, todo, why, resent, pre, pub>>
    BY <1>1 DEF Resume, validator, book, batch
  <2>2. Typed'
    BY <2>1, SMT DEF TrainInv, Typed, Untrained, Trained
  <2>3. RowsOfGroups' /\ EmptyHands' /\ Holds' /\ Weights'
    BY <2>1, SMT DEF TrainInv, Typed, RowsOfGroups, EmptyHands, Holds, Weights, Taken, Untrained
  <2> QED
    BY <2>2, <2>3 DEF TrainInv
<1>2. CASE AdoptAhead
  <2>1. /\ pc = "adopt" /\ pc' = "requeue"
        /\ UNCHANGED <<rl_buffer, reports, arrived, bucket, version, weights, held, todo, why, resent, pre, pub>>
    BY <1>2 DEF AdoptAhead, validator, batch
  <2>2. Typed'
    BY <2>1 DEF TrainInv, Typed
  <2>3. RowsOfGroups' /\ EmptyHands' /\ Holds' /\ Weights'
    BY <2>1 DEF TrainInv, Typed, RowsOfGroups, EmptyHands, Holds, Weights, Taken
  <2> QED
    BY <2>2, <2>3 DEF TrainInv
<1>3. CASE StartRequeue
  <2>1. /\ pc = "requeue" /\ pc' \in {"first", "collect"} /\ GivesBack(Groups)
        /\ UNCHANGED <<arrived, bucket, version, weights, held, todo, why, resent, pre, pub>>
    BY <1>3, ExecuteRequeue DEF StartRequeue, book, batch, TrainInv
  <2>2. Typed'
    BY <2>1 DEF TrainInv, Typed, GivesBack
  <2>3. RowsOfGroups' /\ EmptyHands' /\ Holds' /\ Weights'
    BY <2>1, SMT DEF TrainInv, Typed, RowsOfGroups, EmptyHands, Holds, Weights, Taken, GivesBack
  <2> QED
    BY <2>2, <2>3 DEF TrainInv
<1>4. CASE PublishFirst
  <2>1. /\ \/ /\ pc = "first" /\ pc' = "first_wait"
              /\ pub' = [state |-> "publish", version |-> 0, weights |-> weights]
           \/ /\ pc = "first_wait" /\ pc' \in {"collect", "closing"}
              /\ pub' = NoPublication
        /\ UNCHANGED <<rl_buffer, reports, arrived, bucket, version, weights, held, todo, why, resent, pre>>
    BY <1>4 DEF PublishFirst, validator, book, batch
  <2>2. Typed'
    BY <2>1, SMT DEF TrainInv, Typed, NoPublication, Untrained, Trained
  <2>3. RowsOfGroups' /\ EmptyHands' /\ Holds' /\ Weights'
    BY <2>1, SMT DEF TrainInv, Typed, RowsOfGroups, EmptyHands, Holds, Weights, Taken, NoPublication, Untrained
  <2> QED
    BY <2>2, <2>3 DEF TrainInv
<1> QED
  BY <1>1, <1>2, <1>3, <1>4

\* A batch is collected, cleared of what is stale or exhausted, and filled.
LEMMA BatchKeeps == TrainInv /\ (CollectPrefetch \/ DropStale \/ DropHeldStale \/ DropExhausted \/ Assemble) => TrainInv'
<1> SUFFICES ASSUME TrainInv, CollectPrefetch \/ DropStale \/ DropHeldStale \/ DropExhausted \/ Assemble PROVE TrainInv'
  OBVIOUS
<1>1. CASE CollectPrefetch
  <2>1. /\ pc = "collect" /\ pc' = "stale" /\ pre' = NoPrefetch
        /\ \/ pre.state = "done" /\ held' = pre.groups /\ UNCHANGED <<rl_buffer, reports>>
           \/ pre.state # "done" /\ held' = {} /\ GivesBack(Groups)
        /\ UNCHANGED <<arrived, bucket, version, weights, todo, why, resent, pub>>
    BY <1>1, ExecuteRequeue DEF CollectPrefetch, validator, book, TrainInv
  <2>2. Typed'
    BY <2>1 DEF TrainInv, Typed, GivesBack, NoPrefetch
  <2>3. RowsOfGroups' /\ EmptyHands'
    BY <2>1 DEF TrainInv, Typed, RowsOfGroups, EmptyHands, GivesBack, NoPrefetch
  <2>4. Holds'
    BY <2>1 DEF TrainInv, Typed, RowsOfGroups, EmptyHands, Holds, Taken, GivesBack, NoPrefetch
  <2>5. Weights'
    BY <2>1, SMT DEF TrainInv, Typed, RowsOfGroups, Holds, Weights, Taken, GivesBack, NoPrefetch
  <2> QED
    BY <2>2, <2>3, <2>4, <2>5 DEF TrainInv
<1>2. CASE DropStale
  <2>1. /\ pc = "stale"
        /\ \E S \in SUBSET Queued(rl_buffer) :
             /\ Takes(S)
             /\ IF S = {} THEN pc' = "held_stale" /\ UNCHANGED <<todo, why, resent>> ELSE ReportAll(S, "stale")
        /\ UNCHANGED <<arrived, bucket, version, weights, held, pre, pub>>
    BY <1>2, ExecuteTakeOlder DEF DropStale, Takes, book, TrainInv
  <2>2. Typed'
    BY <2>1 DEF TrainInv, Typed, Takes, ReportAll, Queued
  <2>3. RowsOfGroups' /\ EmptyHands'
    BY <2>1 DEF TrainInv, Typed, RowsOfGroups, EmptyHands, Takes, ReportAll, Queued
  <2>4. Holds'
    BY <2>1, SMT DEF TrainInv, Typed, RowsOfGroups, EmptyHands, Holds, Taken, Takes, ReportAll, Queued
  <2>5. Weights'
    BY <2>1, SMT DEF TrainInv, Typed, RowsOfGroups, Holds, Weights, Taken, Takes, ReportAll, Queued
  <2> QED
    BY <2>2, <2>3, <2>4, <2>5 DEF TrainInv
<1>3. CASE DropHeldStale
  <2>1. /\ pc = "held_stale"
        /\ \E S \in SUBSET held :
             /\ held' = held \ S
             /\ IF S = {} THEN pc' = "exhausted" /\ UNCHANGED <<todo, why, resent>> ELSE ReportAll(S, "held_stale")
        /\ UNCHANGED <<rl_buffer, reports, arrived, bucket, version, weights, pre, pub>>
    BY <1>3 DEF DropHeldStale, validator, book
  <2>2. Typed'
    BY <2>1 DEF TrainInv, Typed, ReportAll
  <2>3. RowsOfGroups' /\ EmptyHands'
    BY <2>1 DEF TrainInv, Typed, RowsOfGroups, EmptyHands, ReportAll
  <2>4. Holds'
    BY <2>1, SMT DEF TrainInv, Typed, RowsOfGroups, EmptyHands, Holds, Taken, ReportAll
  <2>5. Weights'
    BY <2>1 DEF TrainInv, Typed, RowsOfGroups, Holds, Weights, Taken, ReportAll
  <2> QED
    BY <2>2, <2>3, <2>4, <2>5 DEF TrainInv
<1>4. CASE DropExhausted
  <2>1. /\ pc = "exhausted"
        /\ \E S \in SUBSET Queued(rl_buffer) :
             /\ Takes(S)
             /\ IF S = {} THEN pc' = "assemble" /\ UNCHANGED <<todo, why, resent>> ELSE ReportAll(S, "exhausted")
        /\ UNCHANGED <<arrived, bucket, version, weights, held, pre, pub>>
    BY <1>4, ExecuteTakeExhausted DEF DropExhausted, Takes, book, TrainInv
  <2>2. Typed'
    BY <2>1 DEF TrainInv, Typed, Takes, ReportAll, Queued
  <2>3. RowsOfGroups' /\ EmptyHands'
    BY <2>1 DEF TrainInv, Typed, RowsOfGroups, EmptyHands, Takes, ReportAll, Queued
  <2>4. Holds'
    BY <2>1, SMT DEF TrainInv, Typed, RowsOfGroups, EmptyHands, Holds, Taken, Takes, ReportAll, Queued
  <2>5. Weights'
    BY <2>1, SMT DEF TrainInv, Typed, RowsOfGroups, Holds, Weights, Taken, Takes, ReportAll, Queued
  <2> QED
    BY <2>2, <2>3, <2>4, <2>5 DEF TrainInv
<1>5. CASE Assemble
  <2>1. /\ pc = "assemble" /\ pc' = pc
        /\ \E S \in SUBSET Queued(rl_buffer) : Takes(S) /\ held' = held \union S
        /\ UNCHANGED <<arrived, bucket, version, weights, todo, why, resent, pre, pub>>
    BY <1>5, ExecuteTake DEF Assemble, Takes, book, TrainInv
  <2>2. Typed'
    BY <2>1 DEF TrainInv, Typed, Takes, Queued
  <2>3. RowsOfGroups' /\ EmptyHands'
    BY <2>1, SMT DEF TrainInv, Typed, RowsOfGroups, EmptyHands, Takes, Queued
  <2>4. Holds'
    BY <2>1, SMT DEF TrainInv, Typed, RowsOfGroups, EmptyHands, Holds, Taken, Takes, Queued
  <2>5. Weights'
    BY <2>1, SMT DEF TrainInv, Typed, RowsOfGroups, Holds, Weights, Taken, Takes, Queued
  <2> QED
    BY <2>2, <2>3, <2>4, <2>5 DEF TrainInv
<1> QED
  BY <1>1, <1>2, <1>3, <1>4, <1>5

\* The step: what it trains has not been reported, hence was not trained before.
LEMMA StepKeeps == TrainInv /\ (StartStep \/ TrainStep \/ TrainSkipped \/ TrainRaises \/ ReleaseHeld \/ ReleasePrefetched) => TrainInv'
<1> SUFFICES ASSUME TrainInv, StartStep \/ TrainStep \/ TrainSkipped \/ TrainRaises \/ ReleaseHeld \/ ReleasePrefetched PROVE TrainInv'
  OBVIOUS
<1>1. CASE StartStep \/ TrainRaises
  <2>1. /\ \/ pc = "assemble" /\ pc' = "train"
           \/ pc = "train" /\ pc' = "release"
        /\ pre' = pre \/ (pre.state = "off" /\ pre' = [pre EXCEPT !.state = "depth"])
        /\ UNCHANGED <<rl_buffer, reports, arrived, bucket, version, weights, held, todo, why, resent, pub>>
    BY <1>1 DEF StartStep, TrainRaises, validator, book, batch
  <2>2. Typed'
    BY <2>1 DEF TrainInv, Typed
  <2>3. RowsOfGroups' /\ EmptyHands' /\ Holds' /\ Weights'
    BY <2>1 DEF TrainInv, Typed, RowsOfGroups, EmptyHands, Holds, Weights, Taken
  <2> QED
    BY <2>2, <2>3 DEF TrainInv
<1>2. CASE TrainStep
  <2>1. /\ pc = "train" /\ held' = {} /\ ReportAll(held, "trained")
        /\ \E accepted \in SUBSET held : weights' = [g \in Groups |-> weights[g] + (IF g \in accepted THEN 1 ELSE 0)]
        /\ UNCHANGED <<rl_buffer, reports, arrived, bucket, version, pre, pub>>
    BY <1>2 DEF TrainStep, validator, book
  <2>2. Typed'
    BY <2>1, SMT DEF TrainInv, Typed, RowsOfGroups, Holds, Weights, Taken, ReportAll, Trained
  <2>3. RowsOfGroups' /\ EmptyHands'
    BY <2>1 DEF TrainInv, Typed, RowsOfGroups, EmptyHands, ReportAll, Trained
  <2>4. Holds'
    BY <2>1 DEF TrainInv, Typed, RowsOfGroups, EmptyHands, Holds, Taken, ReportAll, Trained
  <2>5. Weights'
    BY <2>1, SMT DEF TrainInv, Typed, RowsOfGroups, Holds, Weights, Taken, ReportAll, Trained
  <2> QED
    BY <2>2, <2>3, <2>4, <2>5 DEF TrainInv
<1>3. CASE TrainSkipped
  <2>1. /\ pc = "train" /\ held' = {} /\ ReportAll(held, "skipped")
        /\ UNCHANGED <<rl_buffer, reports, arrived, bucket, version, weights, pre, pub>>
    BY <1>3 DEF TrainSkipped, validator, book
  <2>2. Typed'
    BY <2>1 DEF TrainInv, Typed, ReportAll
  <2>3. RowsOfGroups' /\ EmptyHands' /\ Holds' /\ Weights'
    BY <2>1 DEF TrainInv, Typed, RowsOfGroups, EmptyHands, Holds, Weights, Taken, ReportAll
  <2> QED
    BY <2>2, <2>3 DEF TrainInv
<1>4. CASE ReleaseHeld
  <2>1. /\ pc = "release" /\ pc' = "release_pre" /\ held' = {} /\ GivesBack(held)
        /\ UNCHANGED <<arrived, bucket, version, weights, todo, why, resent, pre, pub>>
    BY <1>4, ExecuteRelease DEF ReleaseHeld, book, TrainInv
  <2>2. Typed'
    BY <2>1 DEF TrainInv, Typed, GivesBack
  <2>3. RowsOfGroups' /\ EmptyHands' /\ Holds' /\ Weights'
    BY <2>1, SMT DEF TrainInv, Typed, RowsOfGroups, EmptyHands, Holds, Weights, Taken, GivesBack
  <2> QED
    BY <2>2, <2>3 DEF TrainInv
<1>5. CASE ReleasePrefetched
  <2>1. /\ pc = "release_pre" /\ pc' = "closing" /\ pre' = NoPrefetch /\ GivesBack(pre.groups)
        /\ UNCHANGED <<arrived, bucket, version, weights, held, todo, why, resent, pub>>
    BY <1>5, ExecuteRelease DEF ReleasePrefetched, book, batch, TrainInv
  <2>2. Typed'
    BY <2>1 DEF TrainInv, Typed, GivesBack, NoPrefetch
  <2>3. RowsOfGroups' /\ EmptyHands' /\ Holds' /\ Weights'
    BY <2>1, SMT DEF TrainInv, Typed, RowsOfGroups, EmptyHands, Holds, Weights, Taken, GivesBack, NoPrefetch
  <2> QED
    BY <2>2, <2>3 DEF TrainInv
<1> QED
  BY <1>1, <1>2, <1>3, <1>4, <1>5

\* The publication and the prefetch.
LEMMA ThreadsKeep == TrainInv /\ (Publish \/ Threads \/ PublicationFails \/ PrefetchFails) => TrainInv'
<1> SUFFICES ASSUME TrainInv, Publish \/ Threads \/ PublicationFails \/ PrefetchFails PROVE TrainInv'
  OBVIOUS
<1>1. CASE Publish
  <2>1. /\ pc = "publish" /\ pc' \in {"collect", "closing"} /\ version' = version + 1
        /\ \/ pub' = [state |-> "publish", version |-> version + 1, weights |-> weights]
           \/ pub' = NoPublication
        /\ UNCHANGED <<rl_buffer, reports, arrived, bucket, weights, held, todo, why, resent, pre>>
    BY <1>1 DEF Publish, validator, book, batch
  <2>2. Typed'
    <3>1. version \in Int /\ weights \in Trained
      BY DEF TrainInv, Typed
    <3>2. /\ version' \in Int
          /\ pub' \in [state : {"none", "publish", "adopt", "failed"}, version : Int, weights : Trained]
      BY <2>1, <3>1, NothingUnderWay, SMT
    <3> QED BY <2>1, <3>2 DEF TrainInv, Typed
  <2>3. RowsOfGroups' /\ EmptyHands' /\ Holds' /\ Weights'
    BY <2>1, SMT DEF TrainInv, Typed, RowsOfGroups, EmptyHands, Holds, Weights, Taken, NoPublication, Untrained, Trained
  <2> QED
    BY <2>2, <2>3 DEF TrainInv
<1>2. CASE Upload \/ AdoptPublished \/ PublicationFails
  <2>1. /\ \/ bucket' = [version |-> pub.version, weights |-> pub.weights] /\ pub' = [pub EXCEPT !.state = "adopt"]
           \/ bucket' = bucket /\ pub' = NoPublication
           \/ bucket' = bucket /\ pub' = [NoPublication EXCEPT !.state = "failed"]
        /\ UNCHANGED <<rl_buffer, reports, arrived, pc, version, weights, held, todo, why, resent, pre>>
    BY <1>2 DEF Upload, AdoptPublished, PublicationFails, validator, book, batch
  <2>2. Typed'
    BY <2>1, SMT DEF TrainInv, Typed, NoPublication, Untrained, Trained
  <2>3. RowsOfGroups' /\ EmptyHands' /\ Holds' /\ Weights'
    BY <2>1, SMT DEF TrainInv, Typed, RowsOfGroups, EmptyHands, Holds, Weights, Taken, NoPublication, Untrained, Trained
  <2> QED
    BY <2>2, <2>3 DEF TrainInv
<1>3. CASE PrefetchDepth
  <2>1. /\ pre.state = "depth"
        /\ \E x \in {"done", "take"} : pre' = [pre EXCEPT !.state = x]
        /\ UNCHANGED <<rl_buffer, reports, arrived, bucket, pc, version, weights, held, todo, why, resent, pub>>
    BY <1>3 DEF PrefetchDepth, validator, book, batch
  <2>2. Typed'
    BY <2>1 DEF TrainInv, Typed
  <2>3. RowsOfGroups' /\ EmptyHands' /\ Holds' /\ Weights'
    BY <2>1 DEF TrainInv, Typed, RowsOfGroups, EmptyHands, Holds, Weights, Taken
  <2> QED
    BY <2>2, <2>3 DEF TrainInv
<1>4. CASE PrefetchTake
  <2>1. PICK S \in SUBSET Queued(rl_buffer) : Takes(S) /\ pre' = [state |-> "done", groups |-> S]
    BY <1>4, ExecuteTake DEF PrefetchTake, Takes, TrainInv
  <2>2. /\ pre.state = "take"
        /\ UNCHANGED <<arrived, bucket, pc, version, weights, held, todo, why, resent, pub>>
    BY <1>4 DEF PrefetchTake, book, batch
  <2>3. Typed'
    BY <2>1, <2>2 DEF TrainInv, Typed, Takes, Queued
  <2>4. RowsOfGroups' /\ EmptyHands' /\ Weights'
    BY <2>1, <2>2 DEF TrainInv, RowsOfGroups, EmptyHands, Weights, Takes, Queued
  <2>5. Holds'
    BY <2>1, <2>2, <2>3, SMT DEF TrainInv, Typed, Holds, Taken, Takes, Queued
  <2> QED
    BY <2>3, <2>4, <2>5 DEF TrainInv
<1>5. CASE PrefetchFails
  <2>1. /\ pre.state # "off" /\ pre.state # "done" /\ pre' = [state |-> "failed", groups |-> {}]
        /\ UNCHANGED <<arrived, bucket, pc, version, weights, held, todo, why, resent, pub>>
    BY <1>5 DEF PrefetchFails, book, batch
  <2>2. UNCHANGED <<rl_buffer, reports>> \/ \E S : Takes(S)
    BY <1>5, ExecuteTake DEF PrefetchFails, validator, TrainInv
  <2>3. /\ rl_buffer' \in [Groups -> Rows] /\ reports' = reports
        /\ \A g \in Groups : \/ rl_buffer'[g].state = rl_buffer[g].state
                             \/ rl_buffer[g].state = "queued" /\ rl_buffer'[g].state = "taken"
    BY <2>2 DEF TrainInv, Typed, Takes, Queued
  <2>4. Typed'
    BY <2>1, <2>3 DEF TrainInv, Typed
  <2>5. RowsOfGroups' /\ EmptyHands' /\ Weights'
    BY <2>1, <2>3 DEF TrainInv, RowsOfGroups, EmptyHands, Weights
  <2>6. Holds'
    BY <2>1, <2>3 DEF TrainInv, Typed, Holds, Taken
  <2> QED
    BY <2>4, <2>5, <2>6 DEF TrainInv
<1> QED
  BY <1>1, <1>2, <1>3, <1>4, <1>5 DEF Threads

\* A death leaves the trainer with nothing in hand.
LEMMA DeathKeeps == TrainInv /\ (LinkFails \/ Close \/ Crash) => TrainInv'
<1> SUFFICES ASSUME TrainInv, LinkFails \/ Close \/ Crash PROVE TrainInv'
  OBVIOUS
<1>1. CASE LinkFails
  <2>1. /\ pc' = "closing" /\ held' = {} /\ todo' = {}
        /\ UNCHANGED <<rl_buffer, reports, arrived, bucket, version, weights, why, pre, pub>>
    BY <1>1 DEF LinkFails, validator, book
  <2>2. Typed'
    BY <2>1 DEF TrainInv, Typed
  <2>3. RowsOfGroups' /\ EmptyHands' /\ Holds' /\ Weights'
    BY <2>1 DEF TrainInv, Typed, RowsOfGroups, EmptyHands, Holds, Weights, Taken
  <2> QED
    BY <2>2, <2>3 DEF TrainInv
<1>2. CASE Close \/ Crash
  <2>1. /\ pc' = "down" /\ held' = {} /\ todo' = {} /\ pre' = NoPrefetch /\ pub' = NoPublication
        /\ UNCHANGED <<rl_buffer, reports, arrived, bucket, version, weights, why>>
    BY <1>2 DEF Close, Crash, Forget, validator, book
  <2>2. Typed'
    BY <2>1, NothingUnderWay DEF TrainInv, Typed
  <2>3. RowsOfGroups' /\ EmptyHands'
    BY <2>1, NothingUnderWay DEF TrainInv, RowsOfGroups, EmptyHands
  <2>4. Holds' /\ Weights'
    BY <2>1, NothingUnderWay DEF TrainInv, Holds, Weights, Taken
  <2> QED
    BY <2>2, <2>3, <2>4 DEF TrainInv
<1> QED
  BY <1>1, <1>2

\* A stutter.
LEMMA StutterKeeps == TrainInv /\ (Stop \/ UNCHANGED vars) => TrainInv'
<1>1. Stop \/ UNCHANGED vars
        => UNCHANGED <<rl_buffer, reports, arrived, bucket, pc, version, weights, held, todo, why, resent, pre, pub>>
  BY DEF Stop, vars, validator, book, batch
<1> QED
  BY <1>1, SMT DEF TrainInv, Typed, RowsOfGroups, EmptyHands, Holds, Weights, Taken

\* A report of a group, whose outcome is recorded now or was by the same report sent before.
LEMMA ReportKeeps == ASSUME TrainInv, NEW g \in Groups, Report(g) PROVE TrainInv'
<1> USE DEF TrainInv
<1>1. /\ pc = "report" /\ g \in todo
      /\ Reports(g, OutcomeOf(why))
      /\ UNCHANGED <<arrived, bucket, version, weights, held, why, resent, pre, pub>>
  BY ExecuteReport DEF Report, book
<1>2. g \in Buffered(rl_buffer) \union resent
  BY <1>1 DEF Holds, Buffered, Taken, Typed
<1>3. /\ todo' = todo \ {g}
      /\ pc' = IF todo # {g} THEN "report"
               ELSE CASE why = "stale" -> "stale" [] why \in {"held_stale", "exhausted"} -> "exhausted"
                      [] why = "skipped" -> "collect" [] why = "trained" -> "publish"
  BY <1>2 DEF Report
<1>4. OutcomeOf(why) \in {"judged", "untrained", "exhausted"} /\ (why = "trained" => OutcomeOf(why) = "judged")
  BY DEF OutcomeOf, Typed
<1>5. pc' \in {"report", "stale", "exhausted", "collect", "publish"}
  BY <1>3 DEF Typed
<1>6. reports'[g] = OutcomeOf(why) /\ rl_buffer'[g].state = "gone"
  BY <1>1 DEF Reports, Holds, Buffered, Taken, Queued, Typed
<1>7. \A x \in Groups : x # g => reports'[x] = reports[x] /\ rl_buffer'[x].state = rl_buffer[x].state
  BY <1>1 DEF Reports, Typed
<1>8. Typed'
  BY <1>1, <1>3, <1>4 DEF Reports, Typed
<1>9. RowsOfGroups'
  BY <1>1, <1>6, <1>7 DEF RowsOfGroups, Holds, Typed
<1>10. EmptyHands'
  BY <1>1, <1>3 DEF EmptyHands, Typed
<1>11. Holds'
  BY <1>1, <1>3, <1>5, <1>6, <1>7, SMT DEF Holds, Taken, Typed
<1>12. Weights'
  <2>1. reports[g] = "judged" => reports'[g] = "judged"
    BY <1>1, <1>6 DEF RowsOfGroups, Holds, Typed
  <2>2. \A x \in Groups : reports[x] = "judged" => reports'[x] = "judged"
    BY <1>7, <2>1
  <2>3. ASSUME NEW x \in Groups, weights[x] = 1
        PROVE  reports'[x] = "judged" \/ (pc' = "report" /\ why = "trained" /\ x \in todo')
    BY <1>1, <1>3, <1>4, <1>6, <2>2, <2>3 DEF Weights
  <2> QED
    BY <1>1, <2>2, <2>3 DEF Weights
<1> QED
  BY <1>8, <1>9, <1>10, <1>11, <1>12

\* Nothing of the trainer but what was sent before, and nothing of the bucket, has changed.
Unmoved == UNCHANGED <<arrived, bucket, pc, version, weights, held, todo, why, pre, pub>>

\* A take whose answer is lost leaves its groups to nobody.
LEMMA LostTake == ASSUME TrainInv, NEW S, Takes(S), Unmoved, resent' = resent PROVE TrainInv'
<1>1. Typed'
  BY DEF Unmoved, Takes, TrainInv, Typed
<1>2. RowsOfGroups' /\ EmptyHands' /\ Weights'
  BY DEF Unmoved, Takes, Queued, TrainInv, RowsOfGroups, EmptyHands, Weights
<1>3. Holds'
  BY DEF Unmoved, Takes, Queued, Taken, TrainInv, Typed, Holds
<1> QED
  BY <1>1, <1>2, <1>3 DEF TrainInv

\* A requeue or a release whose answer is lost finds the trainer with nothing in hand, or giving it back.
LEMMA LostGiveBack ==
    ASSUME TrainInv, NEW S, GivesBack(S), Unmoved, resent' = resent,
           todo = {}, (held = {} /\ pre.groups = {}) \/ pc \in {"release", "release_pre"}
    PROVE  TrainInv'
<1>1. Typed'
  BY DEF Unmoved, GivesBack, TrainInv, Typed
<1>2. RowsOfGroups' /\ EmptyHands' /\ Weights'
  BY DEF Unmoved, GivesBack, TrainInv, RowsOfGroups, EmptyHands, Weights
<1>3. Holds'
  BY DEF Unmoved, TrainInv, Holds
<1> QED
  BY <1>1, <1>2, <1>3 DEF TrainInv

\* A report that is lost, or whose answer is, will be sent again.
LEMMA LostReport ==
    ASSUME TrainInv, NEW g \in todo, pc = "report", Unmoved, resent' = resent \union {g},
           Reports(g, OutcomeOf(why)) \/ UNCHANGED <<rl_buffer, reports>>
    PROVE  TrainInv'
<1>1. g \in Groups
  BY DEF TrainInv, Typed
<1>2. CASE UNCHANGED <<rl_buffer, reports>>
  <2>1. Typed' /\ RowsOfGroups' /\ EmptyHands' /\ Weights'
    BY <1>2 DEF Unmoved, TrainInv, Typed, RowsOfGroups, EmptyHands, Weights
  <2>2. Holds'
    BY <1>2 DEF Unmoved, TrainInv, Holds, Taken
  <2> QED
    BY <2>1, <2>2 DEF TrainInv
<1>3. CASE Reports(g, OutcomeOf(why))
  <2>1. OutcomeOf(why) \in {"judged", "untrained", "exhausted"} /\ (why = "trained" => OutcomeOf(why) = "judged")
    BY DEF OutcomeOf, TrainInv, Typed
  <2>2. reports'[g] = OutcomeOf(why) /\ rl_buffer'[g].state = "gone"
    BY <1>1, <1>3 DEF Reports, Buffered, Taken, Queued, TrainInv, Holds, Typed
  <2>3. \A x \in Groups : x # g => reports'[x] = reports[x] /\ rl_buffer'[x].state = rl_buffer[x].state
    BY <1>3 DEF Reports, TrainInv, Typed
  <2>4. Typed'
    BY <1>1, <1>3, <2>1 DEF Unmoved, Reports, TrainInv, Typed
  <2>5. RowsOfGroups' /\ EmptyHands'
    BY <1>1, <2>2, <2>3 DEF Unmoved, TrainInv, RowsOfGroups, EmptyHands, Holds, Typed
  <2>6. Holds'
    BY <1>1, <2>2, <2>3, SMT DEF Unmoved, TrainInv, Holds, Taken, Typed
  <2>7. Weights'
    BY <1>1, <2>1, <2>2, <2>3, SMT DEF Unmoved, TrainInv, Weights, Typed, RowsOfGroups, Holds
  <2> QED
    BY <2>4, <2>5, <2>6, <2>7 DEF TrainInv
<1> QED
  BY <1>2, <1>3

\* A request that was executed is sent again because its answer was lost, or a report was lost itself.
LEMMA TimesOutKeeps == TrainInv /\ TimesOut => TrainInv'
<1> SUFFICES ASSUME TrainInv, TimesOut PROVE TrainInv'
  OBVIOUS
<1>1. PICK r \in InFlight \union PrefetchInFlight :
        /\ Execute(r) \/ (r.op = "report" /\ UNCHANGED validator)
        /\ resent' = resent \union (IF r.op = "report" THEN r.groups ELSE {})
  BY DEF TimesOut
<1>2. Unmoved
  BY DEF TimesOut, Unmoved, book
<1>3. Typed
  BY DEF TrainInv
<1>4. CASE r = requeue /\ pc \in {"requeue", "collect"} /\ pre.state \in {"off", "failed"}
  <2>1. Execute(requeue) /\ resent' = resent
    BY <1>1, <1>4 DEF requeue, Request
  <2>2. todo = {} /\ held = {} /\ pre.groups = {}
    BY <1>4 DEF TrainInv, EmptyHands
  <2> QED
    BY <1>2, <1>3, <2>1, <2>2, LostGiveBack, ExecuteRequeue
<1>5. CASE \E S : r = release(S) /\ pc \in {"release", "release_pre"}
  <2>1. PICK S : r = release(S)
    BY <1>5
  <2>2. Execute(release(S)) /\ resent' = resent
    BY <1>1, <2>1 DEF release, Request
  <2>3. todo = {}
    BY <1>5 DEF TrainInv, EmptyHands
  <2> QED
    BY <1>2, <1>3, <1>5, <2>2, <2>3, LostGiveBack, ExecuteRelease
<1>6. CASE \E n : r \in {take(n), take_older(n), take_exhausted(n)}
  <2>1. PICK n : r \in {take(n), take_older(n), take_exhausted(n)}
    BY <1>6
  <2>2. Execute(r) /\ resent' = resent
    BY <1>1, <2>1, SMT DEF take, take_older, take_exhausted, Request
  <2> QED
    BY <1>2, <1>3, <2>1, <2>2, LostTake, ExecuteTake, ExecuteTakeOlder, ExecuteTakeExhausted
<1>7. CASE pc = "report" /\ \E g \in todo : r = report_training(g, OutcomeOf(why))
  <2>1. PICK g \in todo : r = report_training(g, OutcomeOf(why))
    BY <1>7
  <2>2. resent' = resent \union {g} /\ g \in Groups
    BY <1>1, <1>3, <2>1 DEF report_training, Request, Typed
  <2>3. Reports(g, OutcomeOf(why)) \/ UNCHANGED <<rl_buffer, reports>>
    BY <1>1, <1>3, <2>1, <2>2, ExecuteReport DEF validator
  <2> QED
    BY <1>2, <1>7, <2>2, <2>3, LostReport
<1>8. CASE r \in PrefetchInFlight
  BY <1>6, <1>8 DEF PrefetchInFlight
<1>9. CASE r \in InFlight
  <2>1. \/ r = requeue /\ pc \in {"requeue", "collect"} /\ (pc = "collect" => pre.state \in {"off", "failed"})
        \/ r = take_older(version - MaxLag)
        \/ r = take_exhausted(MaxAttempts)
        \/ r = take(BatchGroups - Cardinality(held))
        \/ pc = "report" /\ r \in {report_training(g, OutcomeOf(why)) : g \in todo}
        \/ r = release(held) /\ pc = "release"
        \/ r = release(pre.groups) /\ pc = "release_pre"
    BY <1>9 DEF InFlight
  <2>2. pc = "requeue" => pre.state = "off"
    BY DEF TrainInv, EmptyHands
  <2> QED
    BY <1>4, <1>5, <1>6, <1>7, <2>1, <2>2
<1> QED
  BY <1>8, <1>9

\* Every step keeps the invariant.
LEMMA TrainInvStep == TrainInv /\ [Next]_vars => TrainInv'
  BY MinersKeep, StartKeeps, BatchKeeps, StepKeeps, ThreadsKeep, DeathKeeps, StutterKeeps, ReportKeeps, TimesOutKeeps
     DEF Next, MainThread, Faults

\* The invariant holds throughout.
LEMMA TrainInvAlways == Spec => []TrainInv
  BY TrainInvInit, TrainInvStep, PTL DEF Spec

\* Whatever is lost, resent, prefetched, released or restarted, the groups a trainer has in hand are taken, and each
\* is in one place only (HeldIsTaken).
THEOREM NoGroupHeldTwice == Spec => []HeldIsTaken
<1>1. TrainInv => HeldIsTaken
  BY DEF TrainInv, Typed, EmptyHands, Holds, HeldIsTaken, InHand, Taken
<1> QED
  BY <1>1, TrainInvAlways, PTL

\* A published checkpoint has a group at most once, and only when its judgement was reported (PublishedOnce).
THEOREM NoGroupTrainedTwice == Spec => []PublishedOnce
<1>1. TrainInv => PublishedOnce
  BY SMT DEF TrainInv, Typed, Trained, Weights, PublishedOnce
<1> QED
  BY <1>1, TrainInvAlways, PTL

--------------------------------------------------------------------------------
(* What no step does to the rows, and the batch: the looks for stale groups and the suspects.*)

\* What no step does to the rows: the checkpoint of a group that arrived is never changed, nor the count of a group that
\* is out.
RowsKept ==
    \A g \in Groups :
        /\ g <= arrived => rl_buffer'[g].k = rl_buffer[g].k
        /\ rl_buffer[g].state = "taken" => rl_buffer'[g].attempts = rl_buffer[g].attempts

\* What is queued was queued, or arrives.
QueueKept == \A g \in Groups : rl_buffer'[g].state = "queued" => rl_buffer[g].state = "queued" \/ g > arrived

\* The handlers of the validator.
LEMMA ExecuteRows ==
    ASSUME Typed, NEW r, Execute(r) PROVE RowsKept /\ (r.op \notin {"requeue", "release"} => QueueKept)
<1>1. \A g \in Groups : rl_buffer[g] \in Rows /\ DOMAIN rl_buffer = Groups
  BY DEF Typed
<1>2. ASSUME NEW S, rl_buffer' = Release(rl_buffer, S) PROVE RowsKept
  <2>1. SUFFICES ASSUME NEW g \in Groups
                 PROVE  rl_buffer'[g].k = rl_buffer[g].k /\ rl_buffer'[g].attempts = rl_buffer[g].attempts
    BY DEF RowsKept
  <2>2. rl_buffer'[g] = IF g \in S \intersect Taken(rl_buffer) THEN [rl_buffer[g] EXCEPT !.state = "queued"]
                        ELSE rl_buffer[g]
    BY <1>2 DEF Release
  <2> QED BY <1>1, <2>2 DEF Rows
<1>3. ASSUME NEW S \in SUBSET Queued(rl_buffer), rl_buffer' = HandOut(rl_buffer, S) PROVE RowsKept /\ QueueKept
  <2>1. SUFFICES ASSUME NEW g \in Groups
                 PROVE  /\ rl_buffer'[g].k = rl_buffer[g].k
                        /\ rl_buffer[g].state = "taken" => rl_buffer'[g].attempts = rl_buffer[g].attempts
                        /\ rl_buffer'[g].state = "queued" => rl_buffer[g].state = "queued"
    BY DEF RowsKept, QueueKept
  <2>2. rl_buffer'[g] = IF g \in S THEN [rl_buffer[g] EXCEPT !.state = "taken", !.attempts = @ + 1] ELSE rl_buffer[g]
    BY <1>3 DEF HandOut
  <2>3. g \in S => rl_buffer[g].state = "queued"
    BY <1>3 DEF Queued
  <2> QED BY <1>1, <2>2, <2>3 DEF Rows
<1>4. ASSUME NEW S, rl_buffer' = MarkTaken(rl_buffer, S) PROVE RowsKept /\ QueueKept
  <2>1. SUFFICES ASSUME NEW g \in Groups
                 PROVE  /\ rl_buffer'[g].k = rl_buffer[g].k
                        /\ rl_buffer'[g].attempts = rl_buffer[g].attempts
                        /\ rl_buffer'[g].state = "queued" => rl_buffer[g].state = "queued"
    BY DEF RowsKept, QueueKept
  <2>2. rl_buffer'[g] = IF g \in S THEN [rl_buffer[g] EXCEPT !.state = "taken"] ELSE rl_buffer[g]
    BY <1>4 DEF MarkTaken
  <2> QED BY <1>1, <2>2 DEF Rows
<1>5. ASSUME NEW x, rl_buffer' = _remove(rl_buffer, x) PROVE RowsKept /\ QueueKept
  <2>1. SUFFICES ASSUME NEW g \in Groups
                 PROVE  /\ rl_buffer'[g].k = rl_buffer[g].k
                        /\ rl_buffer'[g].attempts = rl_buffer[g].attempts
                        /\ rl_buffer'[g].state = "queued" => rl_buffer[g].state = "queued"
    BY DEF RowsKept, QueueKept
  <2>2. rl_buffer'[g] = IF g = x THEN [rl_buffer[g] EXCEPT !.state = "gone"] ELSE rl_buffer[g]
    BY <1>1, <1>5 DEF _remove
  <2> QED BY <1>1, <2>2 DEF Rows
<1>6. ASSUME rl_buffer' = rl_buffer PROVE RowsKept /\ QueueKept
  BY <1>6 DEF RowsKept, QueueKept
<1>7. CASE r.op = "requeue" /\ rl_buffer' = Requeue(rl_buffer)
  BY <1>2, <1>7 DEF Requeue
<1>8. CASE r.op = "take" /\ rl_buffer' = HandOut(rl_buffer, TakeSet(rl_buffer, r.n, latest))
  BY <1>3, <1>8, TakeSetQueued
<1>9. CASE rl_buffer' = MarkTaken(rl_buffer, TakeOlder(rl_buffer, r.n))
  BY <1>4, <1>9
<1>10. CASE rl_buffer' = MarkTaken(rl_buffer, TakeExhausted(rl_buffer, r.n))
  BY <1>4, <1>10
<1>11. CASE r.op = "release" /\ rl_buffer' = Release(rl_buffer, r.groups)
  BY <1>2, <1>11
<1>12. CASE \E g \in r.groups : rl_buffer' = _remove(rl_buffer, g) \/ rl_buffer' = rl_buffer
  BY <1>5, <1>6, <1>12
<1> QED BY <1>7, <1>8, <1>9, <1>10, <1>11, <1>12 DEF Execute

\* A step gives a group back to the queue only where it requeues or releases.
LEMMA NextRows ==
    TrainInv /\ [Next]_vars => /\ RowsKept
                               /\ pc \notin {"requeue", "collect", "release", "release_pre"} => QueueKept
<1> SUFFICES ASSUME TrainInv, [Next]_vars
             PROVE  RowsKept /\ (pc \notin {"requeue", "collect", "release", "release_pre"} => QueueKept)
  OBVIOUS
<1>1. Typed
  BY DEF TrainInv
<1>2. ASSUME rl_buffer' = rl_buffer PROVE RowsKept /\ QueueKept
  BY <1>2 DEF RowsKept, QueueKept
<1>3. ASSUME NEW n, Execute(take(n)) \/ Execute(take_older(n)) \/ Execute(take_exhausted(n)) PROVE RowsKept /\ QueueKept
  BY <1>1, <1>3, ExecuteRows, SMT DEF take, take_older, take_exhausted, Request
<1>4. ASSUME NEW g, NEW o, Execute(report_training(g, o)) PROVE RowsKept /\ QueueKept
  BY <1>1, <1>4, ExecuteRows, SMT DEF report_training, Request
<1>5. CASE Arrive
  <2>1. PICK k \in Versions : rl_buffer' = Push(rl_buffer, arrived + 1, k)
    BY <1>5 DEF Arrive
  <2>2. arrived \in Nat /\ DOMAIN rl_buffer = Groups /\ Groups \subseteq Nat
    BY <1>1, TrainerAssumption DEF Typed
  <2>3. \A g \in Groups : g # arrived + 1 => rl_buffer'[g] = rl_buffer[g]
    BY <2>1, <2>2 DEF Push
  <2>4. rl_buffer[arrived + 1].state = "taken" => arrived + 1 \notin Groups
    BY <2>2, SMT DEF TrainInv, RowsOfGroups
  <2>5. \A g \in Groups : \/ rl_buffer'[g] = rl_buffer[g]
                          \/ g > arrived /\ ~ (g <= arrived) /\ rl_buffer[g].state # "taken"
    <3> SUFFICES ASSUME NEW g \in Groups
                 PROVE  \/ rl_buffer'[g] = rl_buffer[g]
                        \/ g > arrived /\ ~ (g <= arrived) /\ rl_buffer[g].state # "taken"
      OBVIOUS
    <3>1. CASE g = arrived + 1
      <4>1. g > arrived /\ ~ (g <= arrived)
        BY <2>2, <3>1, SMT
      <4>2. rl_buffer[g].state # "taken"
        BY <2>4, <3>1
      <4> QED BY <4>1, <4>2
    <3>2. CASE g # arrived + 1
      BY <2>3, <3>2
    <3> QED BY <3>1, <3>2
  <2> QED BY <2>5 DEF RowsKept, QueueKept
<1>6. CASE CollectPrefetch \/ StartRequeue \/ ReleaseHeld \/ ReleasePrefetched
  <2>1. pc \in {"requeue", "collect", "release", "release_pre"}
    BY <1>6 DEF CollectPrefetch, StartRequeue, ReleaseHeld, ReleasePrefetched
  <2>2. rl_buffer' = rl_buffer \/ \E r : Execute(r)
    BY <1>6 DEF CollectPrefetch, StartRequeue, ReleaseHeld, ReleasePrefetched, validator
  <2> QED BY <1>1, <1>2, <2>1, <2>2, ExecuteRows
<1>7. CASE DropStale \/ DropExhausted \/ Assemble \/ PrefetchTake \/ PrefetchFails
  BY <1>2, <1>3, <1>7 DEF DropStale, DropExhausted, Assemble, PrefetchTake, PrefetchFails, validator
<1>8. ASSUME NEW g \in Groups, Report(g) PROVE RowsKept /\ QueueKept
  BY <1>4, <1>8 DEF Report
<1>9. CASE TimesOut
  <2>1. PICK r \in InFlight \union PrefetchInFlight : Execute(r) \/ rl_buffer' = rl_buffer
    BY <1>9 DEF TimesOut, validator
  <2>2. r.op \in {"requeue", "release"} => pc \in {"requeue", "collect", "release", "release_pre"}
    <3>1. SUFFICES ASSUME pc \notin {"requeue", "collect", "release", "release_pre"}
                   PROVE  r.op \notin {"requeue", "release"}
      OBVIOUS
    <3>2. InFlight \in {{take_older(version - MaxLag)}, {take_exhausted(MaxAttempts)},
                       {take(BatchGroups - Cardinality(held))}, {report_training(g, OutcomeOf(why)) : g \in todo}, {}}
      BY <3>1 DEF InFlight
    <3>3. PrefetchInFlight \subseteq {take(BatchGroups)}
      BY DEF PrefetchInFlight
    <3>4. \A n : take(n).op = "take" /\ take_older(n).op = "take_older" /\ take_exhausted(n).op = "take_exhausted"
      BY DEF take, take_older, take_exhausted, Request
    <3>5. \A g, o : report_training(g, o).op = "report"
      BY DEF report_training, Request
    <3> QED BY <2>1, <3>2, <3>3, <3>4, <3>5
  <2> QED BY <1>1, <1>2, <2>1, <2>2, ExecuteRows
<1>10. CASE rl_buffer' = rl_buffer
  BY <1>2, <1>10
<1>11. CASE Resume \/ AdoptAhead \/ PublishFirst \/ DropHeldStale \/ StartStep \/ TrainStep \/ TrainRaises \/ Publish
              \/ Close
  BY <1>10, <1>11 DEF Resume, AdoptAhead, PublishFirst, DropHeldStale, StartStep, TrainStep, TrainRaises, Publish, Close,
                     Forget, validator
<1>12. CASE Upload \/ AdoptPublished \/ PrefetchDepth \/ Grant \/ TrainSkipped \/ PublicationFails \/ LinkFails \/ Crash
              \/ Stop \/ UNCHANGED vars
  BY <1>10, <1>12 DEF Upload, AdoptPublished, PrefetchDepth, Grant, TrainSkipped, PublicationFails, LinkFails, Crash,
                     Stop, Forget, validator, vars
<1> QED BY <1>5, <1>6, <1>7, <1>8, <1>9, <1>11, <1>12 DEF Next, MainThread, Threads, Miners, Faults

\* The main thread has looked for stale groups and has not begun to train, or may look again.
Looked == pc \in {"exhausted", "assemble"} \/ (pc = "report" /\ why \in {"held_stale", "exhausted"})

NotStale(g) == g <= looked => rl_buffer[g].k >= version - MaxLag

\* From the look on, what is queued is not stale, and from the second look on what is held.
StaleInv ==
    /\ looked \in Nat /\ looked <= arrived
    /\ Looked \/ pc = "held_stale" => \A g \in Queued(rl_buffer) : NotStale(g)
    /\ Looked \/ pc = "train" => \A g \in held : NotStale(g)

Suspect(b, g) == b[g].attempts > SuspectAttempts

OneSuspect(b, S) == \A g, h \in S : Suspect(b, g) /\ Suspect(b, h) => g = h

SuspectInv == pc \notin {"release", "release_pre", "closing"} => OneSuspect(rl_buffer, held) /\ OneSuspect(rl_buffer, pre.groups)

InlineInv == ~ prefetch => pre.state = "off"

BatchInv == StaleInv /\ SuspectInv /\ InlineInv

\* What take hands out has at most one suspect, and none while one is out.
LEMMA TakeOneSuspect ==
    ASSUME Typed, NEW n, rl_buffer' = HandOut(rl_buffer, TakeSet(rl_buffer, n, latest))
    PROVE  /\ OneSuspect(rl_buffer', TakeSet(rl_buffer, n, latest))
           /\ SuspectOut(rl_buffer) => \A g \in TakeSet(rl_buffer, n, latest) : ~ Suspect(rl_buffer', g)
<1> DEFINE T == TakeSet(rl_buffer, n, latest)
           F == TakeFresh(rl_buffer, n, latest)
<1>1. T \subseteq Groups /\ T \subseteq Queued(rl_buffer)
  BY TakeSetQueued DEF Queued
<1>2. \A g \in T : g \in Fresh(rl_buffer) \/ (g \in NextSuspect(rl_buffer) /\ ~ SuspectOut(rl_buffer))
  <2>1. F \subseteq Fresh(rl_buffer)
    BY TakeFreshIsFresh
  <2>2. \A g \in T : g \in F \/ (g \in NextSuspect(rl_buffer) /\ ~ SuspectOut(rl_buffer))
    BY DEF TakeSet
  <2> HIDE DEF T, F
  <2> QED BY <2>1, <2>2
<1>3. \A g \in Groups : rl_buffer[g].attempts \in Nat /\ g \in Nat
  BY TrainerAssumption DEF Typed, Rows
<1> HIDE DEF T
<1>4. ASSUME NEW g \in T PROVE rl_buffer'[g].attempts = rl_buffer[g].attempts + 1
  <2>1. g \in Groups
    BY <1>1, <1>4
  <2>2. rl_buffer' = HandOut(rl_buffer, T)
    BY DEF T
  <2>3. rl_buffer'[g] = [rl_buffer[g] EXCEPT !.state = "taken", !.attempts = @ + 1]
    BY <1>4, <2>1, <2>2 DEF HandOut
  <2>4. rl_buffer[g] \in Rows
    BY <2>1 DEF Typed
  <2> QED BY <2>3, <2>4 DEF Rows
<1>5. ASSUME NEW g \in T, Suspect(rl_buffer', g) PROVE g \in NextSuspect(rl_buffer) /\ ~ SuspectOut(rl_buffer)
  <2>1. rl_buffer[g].attempts + 1 > SuspectAttempts /\ rl_buffer[g].attempts \in Nat /\ SuspectAttempts \in Nat
    BY <1>1, <1>3, <1>4, <1>5, TrainerAssumption DEF Suspect
  <2>2. ~ (rl_buffer[g].attempts < SuspectAttempts)
    BY <2>1, SMT
  <2> QED BY <1>2, <2>2 DEF Fresh
<1>6. ASSUME NEW g \in NextSuspect(rl_buffer), NEW h \in NextSuspect(rl_buffer) PROVE g = h
  <2>1. /\ rl_buffer[g].attempts < rl_buffer[h].attempts \/ (rl_buffer[g].attempts = rl_buffer[h].attempts /\ g <= h)
        /\ rl_buffer[h].attempts < rl_buffer[g].attempts \/ (rl_buffer[h].attempts = rl_buffer[g].attempts /\ h <= g)
    BY <1>6 DEF NextSuspect
  <2>2. g \in Groups /\ h \in Groups
    BY <1>6 DEF NextSuspect, Queued
  <2> QED BY <1>3, <2>1, <2>2, SMT
<1> QED BY <1>5, <1>6 DEF T, OneSuspect

\* What is out keeps its count, so at most one of it is suspect as before.
LEMMA SuspectKept ==
    ASSUME RowsKept, NEW S, S \subseteq Taken(rl_buffer), OneSuspect(rl_buffer, S)
    PROVE  OneSuspect(rl_buffer', S)
<1>1. \A g \in S : rl_buffer'[g].attempts = rl_buffer[g].attempts
  BY DEF RowsKept, Taken
<1> QED BY <1>1 DEF OneSuspect, Suspect

\* A group that arrived before the look stays as stale as it was while the weights stay.
LEMMA StaleKept ==
    ASSUME Typed, RowsKept, StaleInv, looked' = looked, version' = version
    PROVE  \A g \in Groups : NotStale(g) => NotStale(g)'
<1>1. looked \in Nat /\ arrived \in Nat /\ looked <= arrived /\ Groups \subseteq Nat
  BY TrainerAssumption DEF Typed, StaleInv
<1>2. \A g \in Groups : g <= looked => rl_buffer'[g].k = rl_buffer[g].k
  BY <1>1, SMT DEF RowsKept
<1> QED BY <1>2 DEF NotStale

\* What is queued from the look on is not stale: a step gives nothing back to the queue before the batch trains.
LEMMA QueueNotStale ==
    ASSUME Typed, RowsKept, QueueKept, StaleInv, looked' = looked, version' = version, Looked \/ pc = "held_stale"
    PROVE  \A g \in Queued(rl_buffer)' : NotStale(g)'
<1>1. looked \in Nat /\ arrived \in Nat /\ looked <= arrived /\ Groups \subseteq Nat
  BY TrainerAssumption DEF Typed, StaleInv
<1>2. SUFFICES ASSUME NEW g \in Groups, rl_buffer'[g].state = "queued" PROVE NotStale(g)'
  BY DEF Queued
<1>3. CASE rl_buffer[g].state = "queued"
  <2>1. NotStale(g)
    BY <1>3 DEF StaleInv, Queued
  <2> QED BY <2>1, StaleKept
<1>4. CASE g > arrived
  BY <1>1, <1>4, SMT DEF NotStale
<1> QED BY <1>2, <1>3, <1>4 DEF QueueKept

\* A step that neither looks nor trains nor takes for the batch keeps what the looks found.
LEMMA StaleStep ==
    ASSUME TrainInv, StaleInv, [Next]_vars, looked' = looked, arrived' \in {arrived, arrived + 1},
           (Looked \/ pc = "held_stale")' => (Looked \/ pc = "held_stale") /\ version' = version,
           (Looked \/ pc = "train")' => (Looked \/ pc = "train") /\ version' = version /\ held' \subseteq held
    PROVE  StaleInv'
<1>1. Typed /\ RowsKept /\ (Looked \/ pc = "held_stale" => QueueKept)
  BY NextRows DEF TrainInv, Looked
<1>2. looked' \in Nat /\ looked' <= arrived'
  BY <1>1, SMT DEF StaleInv, Typed
<1>3. ASSUME (Looked \/ pc = "held_stale")' PROVE \A g \in Queued(rl_buffer)' : NotStale(g)'
  BY <1>1, <1>3, QueueNotStale
<1>4. ASSUME (Looked \/ pc = "train")' PROVE \A g \in held' : NotStale(g)'
  <2>1. \A g \in held' : g \in Groups /\ NotStale(g)
    BY <1>1, <1>4 DEF StaleInv, Typed
  <2> QED BY <1>1, <1>4, <2>1, StaleKept
<1> QED BY <1>2, <1>3, <1>4 DEF StaleInv

\* A step that takes nothing keeps the batch and the prefetched batch at one suspect each.
LEMMA SuspectStep ==
    ASSUME TrainInv, SuspectInv, [Next]_vars,
           pc \in {"release", "release_pre", "closing"} => pc' \in {"release", "release_pre", "closing"},
           held' \subseteq held \/ held' \subseteq pre.groups, pre.groups' \subseteq pre.groups
    PROVE  SuspectInv'
<1>1. SUFFICES ASSUME pc' \notin {"release", "release_pre", "closing"}
               PROVE  OneSuspect(rl_buffer', held') /\ OneSuspect(rl_buffer', pre.groups')
  BY DEF SuspectInv
<1>2. /\ held \subseteq Taken(rl_buffer) /\ pre.groups \subseteq Taken(rl_buffer)
      /\ OneSuspect(rl_buffer, held) /\ OneSuspect(rl_buffer, pre.groups)
  BY <1>1 DEF SuspectInv, TrainInv, Holds
<1>3. RowsKept
  BY NextRows
<1>4. OneSuspect(rl_buffer', held) /\ OneSuspect(rl_buffer', pre.groups)
  BY <1>2, <1>3, SuspectKept
<1> QED BY <1>4 DEF OneSuspect

\* The look at the queue: drop_stale goes on once take_older finds nothing.
LEMMA DropStaleKeeps == TrainInv /\ StaleInv /\ DropStale => StaleInv'
<1> SUFFICES ASSUME TrainInv, StaleInv, DropStale PROVE StaleInv'
  OBVIOUS
<1> DEFINE stale == TakeOlder(rl_buffer, version - MaxLag)
<1>1. Typed
  BY DEF TrainInv
<1>2. /\ looked' = arrived /\ arrived' = arrived /\ version' = version /\ pc = "stale"
      /\ \/ stale = {} /\ pc' = "held_stale"
         \/ pc' = "report" /\ why' = "stale"
  BY DEF DropStale, ReportAll
<1>3. looked' \in Nat /\ looked' <= arrived'
  BY <1>1, <1>2, SMT DEF Typed
<1>4. ~ Looked' /\ pc' # "train"
  BY <1>2 DEF Looked
<1>5. CASE pc' = "held_stale"
  <2>1. [Next]_vars
    BY DEF Next, MainThread
  <2>2. RowsKept /\ QueueKept
    BY <1>2, <2>1, NextRows
  <2>3. ASSUME NEW g \in Queued(rl_buffer)' PROVE NotStale(g)'
    <3>1. g \in Groups /\ rl_buffer'[g].state = "queued"
      BY <2>3 DEF Queued
    <3>2. CASE g > arrived
      <4>1. ~ (g <= looked')
        BY <1>1, <1>2, <3>1, <3>2, TrainerAssumption, SMT DEF Typed
      <4> QED BY <4>1 DEF NotStale
    <3>3. CASE ~ (g > arrived)
      <4>1. g <= arrived /\ rl_buffer[g].state = "queued"
        BY <1>1, <2>2, <3>1, <3>3, TrainerAssumption, SMT DEF Typed, QueueKept
      <4>2. g \notin stale
        BY <1>2, <1>5
      <4>3. ~ (rl_buffer[g].k < version - MaxLag)
        BY <3>1, <4>1, <4>2 DEF TakeOlder, Queued
      <4>4. rl_buffer'[g].k = rl_buffer[g].k
        BY <2>2, <3>1, <4>1 DEF RowsKept
      <4>5. rl_buffer[g].k \in Nat /\ version \in Int /\ MaxLag \in Nat
        BY <1>1, <3>1, TrainerAssumption, SMT DEF Typed, Rows, Versions
      <4>6. rl_buffer'[g].k >= version' - MaxLag
        BY <1>2, <4>3, <4>4, <4>5, SMT
      <4> QED BY <4>6 DEF NotStale
    <3> QED BY <3>2, <3>3
  <2> QED BY <1>3, <1>4, <2>3 DEF StaleInv
<1>6. CASE pc' = "report"
  BY <1>3, <1>4, <1>6 DEF StaleInv
<1> QED BY <1>2, <1>5, <1>6

\* The second look: what was prefetched and is stale leaves the batch.
LEMMA DropHeldStaleKeeps == TrainInv /\ StaleInv /\ DropHeldStale => StaleInv'
<1> SUFFICES ASSUME TrainInv, StaleInv, DropHeldStale PROVE StaleInv'
  OBVIOUS
<1>1. Typed
  BY DEF TrainInv
<1>2. /\ rl_buffer' = rl_buffer /\ looked' = looked /\ arrived' = arrived /\ version' = version /\ pc = "held_stale"
      /\ held' = held \ {g \in held : rl_buffer[g].k < version - MaxLag} /\ pc' # "held_stale"
  BY DEF DropHeldStale, ReportAll, validator, book
<1>3. \A g : NotStale(g)' <=> NotStale(g)
  BY <1>2 DEF NotStale
<1>4. \A g \in Queued(rl_buffer)' : NotStale(g)'
  BY <1>2, <1>3 DEF StaleInv, Queued
<1>5. \A g \in held' : NotStale(g)'
  <2>1. SUFFICES ASSUME NEW g \in held' PROVE rl_buffer[g].k >= version - MaxLag
    BY <1>3 DEF NotStale
  <2>2. g \in Groups /\ ~ (rl_buffer[g].k < version - MaxLag)
    BY <1>1, <1>2, <2>1 DEF Typed
  <2>3. rl_buffer[g].k \in Nat /\ version \in Int /\ MaxLag \in Nat
    BY <1>1, <2>2, TrainerAssumption, SMT DEF Typed, Rows, Versions
  <2> QED BY <2>2, <2>3, SMT
<1> QED BY <1>2, <1>4, <1>5 DEF StaleInv

\* A take for the batch adds queued groups, so none that is stale, and a suspect only when none is out.
LEMMA AssembleKeeps == TrainInv /\ BatchInv /\ Assemble => BatchInv'
<1> SUFFICES ASSUME TrainInv, BatchInv, Assemble PROVE BatchInv'
  OBVIOUS
<1> DEFINE T == TakeSet(rl_buffer, BatchGroups - Cardinality(held), latest)
<1>1. Typed /\ StaleInv /\ SuspectInv /\ InlineInv
  BY DEF TrainInv, BatchInv
<1>2. /\ pc = "assemble" /\ pc' = pc /\ UNCHANGED <<why, version, looked, arrived, pre, prefetch>>
      /\ held' = held \union T
  BY DEF Assemble, book
<1>3. rl_buffer' = HandOut(rl_buffer, T)
  BY DEF Assemble, Execute, take, Request
<1>4. OneSuspect(rl_buffer', T) /\ (SuspectOut(rl_buffer) => \A g \in T : ~ Suspect(rl_buffer', g))
  BY <1>1, <1>3, TakeOneSuspect
<1>5. T \subseteq Queued(rl_buffer)
  BY TakeSetQueued
<1>6. RowsKept /\ QueueKept
  <2>1. [Next]_vars
    BY DEF Next, MainThread
  <2> QED BY <1>2, <2>1, NextRows
<1> HIDE DEF T
<1>7. StaleInv'
  <2>1. Looked /\ Looked'
    BY <1>2 DEF Looked
  <2>2. \A g \in Queued(rl_buffer)' : NotStale(g)'
    BY <1>1, <1>2, <1>6, <2>1, QueueNotStale
  <2>3. \A g \in held \union T : g \in Groups /\ NotStale(g)
    BY <1>1, <1>5, <2>1 DEF Typed, StaleInv, Queued
  <2>4. \A g \in held' : NotStale(g)'
    BY <1>1, <1>2, <1>6, <2>3, StaleKept
  <2>5. looked' \in Nat /\ looked' <= arrived'
    BY <1>1, <1>2 DEF StaleInv
  <2> QED BY <2>2, <2>4, <2>5 DEF StaleInv
<1>8. SuspectInv'
  <2>1. /\ held \subseteq Taken(rl_buffer) /\ pre.groups \subseteq Taken(rl_buffer)
        /\ OneSuspect(rl_buffer, held) /\ OneSuspect(rl_buffer, pre.groups)
    BY <1>1, <1>2 DEF SuspectInv, TrainInv, Holds
  <2>2. OneSuspect(rl_buffer', held) /\ OneSuspect(rl_buffer', pre.groups)
    BY <1>6, <2>1, SuspectKept
  <2>3. ASSUME NEW g \in held, NEW h \in T, Suspect(rl_buffer', g), Suspect(rl_buffer', h) PROVE FALSE
    <3>1. rl_buffer'[g].attempts = rl_buffer[g].attempts
      BY <1>6, <2>1, <2>3 DEF RowsKept, Taken
    <3>2. SuspectOut(rl_buffer)
      BY <2>1, <2>3, <3>1 DEF SuspectOut, Suspect
    <3> QED BY <1>4, <2>3, <3>2
  <2>4. OneSuspect(rl_buffer', held \union T)
    BY <1>4, <2>2, <2>3 DEF OneSuspect
  <2> QED BY <1>2, <2>2, <2>4 DEF SuspectInv
<1>9. InlineInv'
  BY <1>1, <1>2 DEF InlineInv
<1> QED BY <1>7, <1>8, <1>9 DEF BatchInv

\* The trainer starts with nothing in hand.
LEMMA BatchInvInit == Init => BatchInv
<1> SUFFICES ASSUME Init PROVE BatchInv
  OBVIOUS
<1>1. pc = "down" /\ held = {} /\ pre.state = "off" /\ pre.groups = {} /\ looked = 0 /\ arrived = 0
  BY DEF Init, NoPrefetch
<1>2. ~ Looked /\ pc \notin {"held_stale", "train"}
  BY <1>1 DEF Looked
<1>3. looked \in Nat /\ looked <= arrived
  BY <1>1, SMT
<1>4. StaleInv
  BY <1>2, <1>3 DEF StaleInv
<1>5. SuspectInv
  BY <1>1 DEF SuspectInv, OneSuspect
<1> QED BY <1>1, <1>4, <1>5 DEF BatchInv, InlineInv

\* A prefetch runs only in a trainer that prefetches.
LEMMA InlineStep == ASSUME InlineInv, [Next]_vars PROVE InlineInv'
<1>1. prefetch' = prefetch
  <2>1. CASE Miners \/ Threads \/ Faults \/ Stop \/ UNCHANGED vars
    BY <2>1 DEF Miners, Grant, Arrive, Threads, Upload, AdoptPublished, PrefetchDepth, PrefetchTake, Faults, TimesOut,
                TrainSkipped, PublicationFails, PrefetchFails, LinkFails, Crash, Forget, Stop, vars
  <2>2. CASE MainThread
    BY <2>2 DEF MainThread, Resume, AdoptAhead, StartRequeue, PublishFirst, CollectPrefetch, DropStale, DropHeldStale,
                DropExhausted, Assemble, StartStep, TrainStep, TrainRaises, ReleaseHeld, ReleasePrefetched, Report,
                Publish, Close, Forget
  <2> QED BY <2>1, <2>2 DEF Next
<1>2. pre' = pre \/ pre' = NoPrefetch \/ pre.state \in {"depth", "take"} \/ prefetch
  <2>1. CASE Miners \/ Threads \/ Faults \/ Stop \/ UNCHANGED vars
    BY <2>1 DEF Miners, Grant, Arrive, Threads, Upload, AdoptPublished, PrefetchDepth, PrefetchTake, Faults, TimesOut,
                TrainSkipped, PublicationFails, PrefetchFails, LinkFails, Crash, Forget, Stop, vars
  <2>2. CASE MainThread
    BY <2>2 DEF MainThread, Resume, AdoptAhead, StartRequeue, PublishFirst, CollectPrefetch, DropStale, DropHeldStale,
                DropExhausted, Assemble, StartStep, TrainStep, TrainRaises, ReleaseHeld, ReleasePrefetched, Report,
                Publish, Close, Forget, batch
  <2> QED BY <2>1, <2>2 DEF Next
<1> QED BY <1>1, <1>2, SMT DEF InlineInv, NoPrefetch

\* The miners, the threads and a call sent again touch neither the batch nor what the main thread does.
LEMMA OthersKeep == TrainInv /\ BatchInv /\ (Miners \/ Threads \/ TimesOut \/ PublicationFails \/ PrefetchFails) => BatchInv'
<1> SUFFICES ASSUME TrainInv, BatchInv, Miners \/ Threads \/ TimesOut \/ PublicationFails \/ PrefetchFails PROVE BatchInv'
  OBVIOUS
<1>1. StaleInv /\ SuspectInv /\ InlineInv
  BY DEF BatchInv
<1>2. [Next]_vars
  BY DEF Next, Faults
<1>3. UNCHANGED <<pc, why, version, looked, held>> /\ arrived' \in {arrived, arrived + 1}
  BY DEF Miners, Grant, Arrive, Threads, Upload, AdoptPublished, PrefetchDepth, PrefetchTake, TimesOut,
         PublicationFails, PrefetchFails, book, batch
<1>4. StaleInv'
  BY <1>1, <1>2, <1>3, StaleStep DEF Looked
<1>5. InlineInv'
  BY <1>1, <1>2, InlineStep
<1>6. CASE pre'.groups \subseteq pre.groups
  BY <1>1, <1>2, <1>3, <1>4, <1>5, <1>6, SuspectStep DEF BatchInv
<1>7. CASE PrefetchTake
  <2>1. /\ pre'.groups = TakeSet(rl_buffer, BatchGroups, latest)
        /\ rl_buffer' = HandOut(rl_buffer, TakeSet(rl_buffer, BatchGroups, latest))
    BY <1>7 DEF PrefetchTake, Execute, take, Request
  <2>2. Typed
    BY DEF TrainInv
  <2>3. OneSuspect(rl_buffer', pre'.groups)
    BY <2>1, <2>2, TakeOneSuspect
  <2>4. ASSUME pc \notin {"release", "release_pre", "closing"} PROVE OneSuspect(rl_buffer', held)
    <3>1. held \subseteq Taken(rl_buffer) /\ OneSuspect(rl_buffer, held)
      BY <1>1, <2>4 DEF SuspectInv, TrainInv, Holds
    <3>2. RowsKept
      BY <1>2, NextRows
    <3> QED BY <3>1, <3>2, SuspectKept
  <2>5. SuspectInv'
    BY <1>3, <2>3, <2>4 DEF SuspectInv
  <2> QED BY <1>4, <1>5, <2>5 DEF BatchInv
<1>8. pre'.groups \subseteq pre.groups \/ PrefetchTake
  <2>1. pre \in [state : {"off", "depth", "take", "done", "failed"}, groups : SUBSET Groups]
    BY DEF TrainInv, Typed
  <2>2. pre' = pre \/ pre' = [state |-> "failed", groups |-> {}] \/ (\E s : pre' = [pre EXCEPT !.state = s])
          \/ PrefetchTake
    BY DEF Miners, Grant, Arrive, Threads, Upload, AdoptPublished, PrefetchDepth, TimesOut, PublicationFails,
                 PrefetchFails
  <2> QED BY <2>1, <2>2, SMT
<1> QED BY <1>6, <1>7, <1>8

\* The main thread before a batch and after it.
LEMMA IdleKeeps ==
    TrainInv /\ BatchInv /\ (Resume \/ AdoptAhead \/ StartRequeue \/ PublishFirst \/ CollectPrefetch \/ Publish) => BatchInv'
<1> SUFFICES ASSUME TrainInv, BatchInv,
                    Resume \/ AdoptAhead \/ StartRequeue \/ PublishFirst \/ CollectPrefetch \/ Publish
             PROVE  BatchInv'
  OBVIOUS
<1>1. StaleInv /\ SuspectInv /\ InlineInv
  BY DEF BatchInv
<1>2. [Next]_vars
  BY DEF Next, MainThread
<1>3. /\ pc \notin {"release", "release_pre", "closing"}
      /\ pc' \in {"requeue", "adopt", "first", "first_wait", "collect", "closing", "stale"}
      /\ looked' = looked /\ arrived' = arrived
  BY DEF Resume, AdoptAhead, StartRequeue, PublishFirst, CollectPrefetch, Publish, book
<1>4. (held' = held /\ pre' = pre) \/ (held' \in {pre.groups, {}} /\ pre' = NoPrefetch)
  BY DEF Resume, AdoptAhead, StartRequeue, PublishFirst, CollectPrefetch, Publish, batch
<1>5. StaleInv'
  BY <1>1, <1>2, <1>3, StaleStep DEF Looked
<1>6. SuspectInv'
  BY <1>1, <1>2, <1>3, <1>4, SuspectStep, SMT DEF NoPrefetch
<1> QED BY <1>1, <1>2, <1>5, <1>6, InlineStep DEF BatchInv

\* The looks, the step and the release of its groups.
LEMMA WorkKeeps ==
    TrainInv /\ BatchInv /\ (DropStale \/ DropHeldStale \/ DropExhausted \/ StartStep \/ TrainStep \/ TrainSkipped
                             \/ TrainRaises \/ ReleaseHeld \/ ReleasePrefetched) => BatchInv'
<1> SUFFICES ASSUME TrainInv, BatchInv,
                    DropStale \/ DropHeldStale \/ DropExhausted \/ StartStep \/ TrainStep \/ TrainSkipped
                      \/ TrainRaises \/ ReleaseHeld \/ ReleasePrefetched
             PROVE  BatchInv'
  OBVIOUS
<1>1. StaleInv /\ SuspectInv /\ InlineInv
  BY DEF BatchInv
<1>2. [Next]_vars
  BY DEF Next, MainThread, Faults
<1>3. /\ pc \in {"release", "release_pre", "closing"} => pc' \in {"release", "release_pre", "closing"}
      /\ held' \subseteq held
  BY DEF DropStale, DropHeldStale, DropExhausted, StartStep, TrainStep, TrainSkipped, TrainRaises, ReleaseHeld,
         ReleasePrefetched, batch
<1>4. pre'.groups \subseteq pre.groups
  <2>1. pre \in [state : {"off", "depth", "take", "done", "failed"}, groups : SUBSET Groups]
    BY DEF TrainInv, Typed
  <2>2. pre' = pre \/ pre' = NoPrefetch \/ pre' = [pre EXCEPT !.state = "depth"]
    BY DEF DropStale, DropHeldStale, DropExhausted, StartStep, TrainStep, TrainSkipped, TrainRaises, ReleaseHeld,
           ReleasePrefetched
  <2> QED BY <2>1, <2>2, SMT DEF NoPrefetch
<1>5. SuspectInv'
  BY <1>1, <1>2, <1>3, <1>4, SuspectStep
<1>6. StaleInv'
  <2>1. CASE DropStale
    BY <1>1, <2>1, DropStaleKeeps
  <2>2. CASE DropHeldStale
    BY <1>1, <2>2, DropHeldStaleKeeps
  <2>3. CASE DropExhausted \/ StartStep
    <3>1. /\ looked' = looked /\ arrived' = arrived /\ version' = version /\ held' = held /\ Looked
          /\ pc' # "held_stale"
      BY <2>3 DEF DropExhausted, StartStep, book, batch, Looked, ReportAll
    <3> QED BY <1>1, <1>2, <3>1, StaleStep
  <2>4. CASE TrainStep \/ TrainSkipped \/ TrainRaises \/ ReleaseHeld \/ ReleasePrefetched
    <3>1. looked' = looked /\ arrived' = arrived
      BY <2>4 DEF TrainStep, TrainSkipped, TrainRaises, ReleaseHeld, ReleasePrefetched, book
    <3>2. ~ Looked' /\ pc' # "held_stale" /\ pc' # "train"
      BY <2>4 DEF TrainStep, TrainSkipped, TrainRaises, ReleaseHeld, ReleasePrefetched, Looked, ReportAll
    <3> QED BY <1>1, <1>2, <3>1, <3>2, StaleStep
  <2> QED BY <2>1, <2>2, <2>3, <2>4
<1> QED BY <1>1, <1>2, <1>5, <1>6, InlineStep DEF BatchInv

\* A report, and the ends of the process.
LEMMA EndsKeep == TrainInv /\ BatchInv /\ ((\E g \in Groups : Report(g)) \/ LinkFails \/ Close \/ Crash) => BatchInv'
<1> SUFFICES ASSUME TrainInv, BatchInv, (\E g \in Groups : Report(g)) \/ LinkFails \/ Close \/ Crash PROVE BatchInv'
  OBVIOUS
<1>1. StaleInv /\ SuspectInv /\ InlineInv
  BY DEF BatchInv
<1>2. [Next]_vars
  BY DEF Next, MainThread, Faults
<1>3. CASE LinkFails \/ Close \/ Crash
  <2>1. pc' \in {"closing", "down"} /\ looked' = looked /\ arrived' = arrived /\ held' = {}
    BY <1>3 DEF LinkFails, Close, Crash, Forget, book
  <2>2. pc' = "closing" \/ pre'.groups = {}
    <3>1. pc' = "closing" \/ pre' = NoPrefetch
      BY <1>3 DEF LinkFails, Close, Crash, Forget
    <3>2. NoPrefetch.groups = {}
      BY DEF NoPrefetch
    <3> QED BY <3>1, <3>2
  <2>3. StaleInv'
    BY <1>1, <1>2, <2>1, StaleStep DEF Looked
  <2>4. SuspectInv'
    BY <2>1, <2>2 DEF SuspectInv, OneSuspect
  <2> QED BY <1>1, <1>2, <2>3, <2>4, InlineStep DEF BatchInv
<1>4. ASSUME NEW g \in Groups, Report(g) PROVE BatchInv'
  <2>1. pc = "report" /\ UNCHANGED <<looked, arrived, version, held, why, pre>>
    BY <1>4 DEF Report, book
  <2>2. why \in {"stale", "held_stale", "exhausted", "skipped", "trained"}
    BY DEF TrainInv, Typed
  <2>3. \/ pc' \in {"report", "stale", "collect", "publish", "closing"}
        \/ pc' = "exhausted" /\ why \in {"held_stale", "exhausted"}
    BY <1>4, <2>2 DEF Report
  <2>4. Looked' => Looked
    BY <2>1, <2>3 DEF Looked
  <2>5. StaleInv'
    BY <1>1, <1>2, <2>1, <2>3, <2>4, StaleStep
  <2>6. SuspectInv'
    BY <1>1, <1>2, <2>1, SuspectStep
  <2> QED BY <1>1, <1>2, <2>5, <2>6, InlineStep DEF BatchInv
<1> QED BY <1>3, <1>4

\* What the looks found and the one suspect are kept by every step.
LEMMA BatchInvAlways == Spec => []BatchInv
<1>1. TrainInv /\ BatchInv /\ [Next]_vars => BatchInv'
  <2> SUFFICES ASSUME TrainInv, BatchInv, [Next]_vars PROVE BatchInv'
    OBVIOUS
  <2>1. CASE Stop \/ UNCHANGED vars
    BY <2>1 DEF Stop, vars, validator, book, batch, BatchInv, StaleInv, Looked, NotStale, SuspectInv, OneSuspect, Suspect,
                InlineInv, Queued
  <2> QED
    BY <2>1, OthersKeep, IdleKeeps, WorkKeeps, AssembleKeeps, EndsKeep
       DEF Next, MainThread, Faults
<1> QED
  BY <1>1, BatchInvInit, TrainInvAlways, PTL DEF Spec

--------------------------------------------------------------------------------
(* The batch, in every reachable state.                                    *)

\* drop_stale and the second look at the prefetched groups: a group past the max lag is in a training batch only if it
\* arrived after the look.
THEOREM StaleArrivedLate == Spec => []StaleIsLate
<1>1. TrainInv /\ BatchInv => StaleIsLate
  <2> SUFFICES ASSUME TrainInv, BatchInv, pc = "train", NEW g \in held, rl_buffer[g].k < version - MaxLag
               PROVE  g > looked
    BY DEF StaleIsLate
  <2>1. NotStale(g) /\ looked \in Nat
    BY DEF BatchInv, StaleInv
  <2>2. g \in Nat /\ rl_buffer[g].k \in Nat /\ version \in Int /\ MaxLag \in Nat
    <3>1. rl_buffer \in [Groups -> Rows] /\ held \in SUBSET Groups /\ version \in Int
      BY DEF TrainInv, Typed
    <3>2. g \in Groups /\ rl_buffer[g] \in Rows
      BY <3>1
    <3>3. rl_buffer[g].k \in Versions
      BY <3>2 DEF Rows
    <3>4. Groups \subseteq Nat /\ MaxVersion \in Nat /\ MaxLag \in Nat
      BY TrainerAssumption
    <3> QED BY <3>1, <3>2, <3>3, <3>4, SMT DEF Versions
  <2>3. g <= looked => rl_buffer[g].k >= version - MaxLag
    BY <2>1 DEF NotStale
  <2>4. ~ (rl_buffer[g].k >= version - MaxLag)
    BY <2>2, SMT
  <2>5. g <= looked \/ g > looked
    BY <2>1, <2>2, SMT
  <2> QED BY <2>3, <2>4, <2>5
<1> QED BY <1>1, TrainInvAlways, BatchInvAlways, PTL

\* Without prefetch the requeue before each step leaves no group taken that the trainer does not have.
THEOREM LostGroupsRequeued == Spec => LostTakeRequeued
<1>1. TrainInv /\ BatchInv /\ [Next]_vars => [~ prefetch /\ pc = "collect" /\ pc' = "stale" => Taken(rl_buffer') \subseteq InHand']_vars
  <2> SUFFICES ASSUME TrainInv, BatchInv, [Next]_vars, ~ prefetch, pc = "collect", pc' = "stale"
               PROVE  Taken(rl_buffer') \subseteq InHand'
    OBVIOUS
  <2>1. CollectPrefetch
    <3>1. CASE Miners \/ Threads \/ Faults \/ Stop \/ UNCHANGED vars
      BY <3>1 DEF Miners, Grant, Arrive, Threads, Upload, AdoptPublished, PrefetchDepth, PrefetchTake, Faults, TimesOut,
                  TrainSkipped, PublicationFails, PrefetchFails, LinkFails, Crash, Forget, Stop, vars
    <3>2. CASE MainThread
      BY <3>2 DEF MainThread, Resume, AdoptAhead, StartRequeue, PublishFirst, DropStale, DropHeldStale,
                  DropExhausted, Assemble, StartStep, TrainStep, TrainRaises, ReleaseHeld, ReleasePrefetched, Report,
                  Publish, Close, Forget
    <3> QED BY <3>1, <3>2 DEF Next
  <2>2. Execute(requeue)
    BY <2>1 DEF CollectPrefetch, BatchInv, InlineInv
  <2>3. rl_buffer' = Release(rl_buffer, Groups)
    BY <2>2 DEF Execute, requeue, Request, Requeue
  <2>4. ASSUME NEW g \in Groups PROVE rl_buffer'[g].state # "taken"
    <3>1. rl_buffer'[g] = IF g \in Taken(rl_buffer) THEN [rl_buffer[g] EXCEPT !.state = "queued"] ELSE rl_buffer[g]
      BY <2>3 DEF Release, Taken
    <3>2. rl_buffer[g] \in Rows
      BY DEF TrainInv, Typed
    <3> QED BY <3>1, <3>2 DEF Taken, Rows
  <2> QED BY <2>4 DEF Taken
<1> QED BY <1>1, TrainInvAlways, BatchInvAlways, PTL DEF LostTakeRequeued, Spec
================================================================================
