------------------------------- MODULE PayLedger -------------------------------
(***************************************************************************)
(* The payment ledger of the async RL task (reliquary/validator/           *)
(* rl_ledger.py) with the period clock (corpus_periods.py) and the period  *)
(* archives of the bucket (infrastructure/corpus_period_store.py).         *)
(*                                                                         *)
(* One loop of the validator ingests the submission path's events, settles *)
(* the closed periods and publishes their archives; the trainer's          *)
(* heartbeats, the book's alive marks, crashes and late uploads come in    *)
(* between.  Each of ingest, settle, trainer_beat and the two transactions *)
(* of publish is one SQLite transaction, hence one step.  Amounts are      *)
(* integers: a share of an amount is rounded down and the rest stays       *)
(* unpaid, where the code multiplies floats by scale and 1 - scale.        *)
(***************************************************************************)
EXTENDS Integers, Sequences, FiniteSetsExt

CONSTANT Setups \* the ledgers of this instance: the settings of each and its bounds

\* The bounds of time, amounts and settings are naturals, a period has a length and
\* an archive may enter somewhere.
IsSetup(s) ==
    /\ IsFiniteSet(s.Hotkeys) /\ s.Amounts \subseteq Nat
    /\ s.PeriodSeconds \in Nat \ {0} /\ s.CATCHUP_ENTRIES \in Nat \ {0}
    /\ s.cap \in Nat /\ s.slack_s \in Nat /\ s.carry_periods \in Nat /\ s.carry_max_caps \in Nat
    /\ s.outage_grace_s \in Nat /\ s.outage_max_s \in Nat /\ s.OUTAGE_REFERENCE_PERIODS \in Nat
    /\ s.BanSeconds \in Nat /\ s.IngestLimit \in Nat /\ s.MaxTime \in Nat /\ s.DOWNTIME_MIN_S \in Nat
    /\ s.outage_fill \in BOOLEAN /\ s.publishes \in BOOLEAN

ASSUME SetupsAssumption == \A s \in Setups : IsSetup(s)

VARIABLE setup   \* the one that runs, chosen once

VARIABLES
    now,       \* the clock
    events,    \* rl_events, in seq order
    cursor,    \* rl_pay_cursor
    accruals,  \* rl_accruals: seq -> row
    bans,      \* rl_pay_bans: hotkey -> until
    carry,     \* rl_pay_carry: <<hotkey, origin period>> -> amount, 0 without a row
    periods,   \* rl_pay_periods: work period -> archive
    bucket,    \* the archives stored in R2
    late,      \* uploads interrupted after they were sent
    pc, todo,  \* the ledger loop: its step, the archives publish still holds
    up,        \* whether the validator runs
    alive,     \* rl_validator_alive
    downtime,  \* rl_validator_downtime
    last_at,   \* rl_trainer_beat, -1 before the first beat
    outages,   \* rl_trainer_outages
    faults     \* crashes and failed uploads so far

ledger == <<cursor, accruals, bans, carry, periods>>
store == <<bucket, late>>
loop == <<pc, todo>>
uptime == <<up, alive, downtime>>
beats == <<last_at, outages>>
vars == <<setup, now, events, ledger, store, loop, uptime, beats, faults>>

--------------------------------------------------------------------------------
(* The settings of the ledger that runs. *)

Hotkeys == setup.Hotkeys                \* the miners
Amounts == setup.Amounts                \* what one payable event may be worth
PeriodSeconds == setup.PeriodSeconds    \* the length of a period
slack_s == setup.slack_s                \* a period closes this long after its end
cap == setup.cap                        \* the most a period pays
carry_periods == setup.carry_periods    \* how many periods pay over the cap is carried
carry_max_caps == setup.carry_max_caps  \* the most carried at once, in caps
outage_fill == setup.outage_fill        \* whether the time the trainer is down is paid
outage_grace_s == setup.outage_grace_s  \* a longer silence of the trainer is an outage
outage_max_s == setup.outage_max_s      \* an outage is filled for at most this long
CATCHUP_ENTRIES == setup.CATCHUP_ENTRIES \* archives that may enter in one period
OUTAGE_REFERENCE_PERIODS == setup.OUTAGE_REFERENCE_PERIODS \* archives the fill is averaged over
publishes == setup.publishes            \* whether the loop is given the archives of the bucket
ALIVE_EVERY_S == setup.ALIVE_EVERY_S    \* the sweep marks the book alive at most this often
DOWNTIME_MIN_S == setup.DOWNTIME_MIN_S  \* a longer silence of the validator is a downtime
BanSeconds == setup.BanSeconds          \* how long a ban lasts
IngestLimit == setup.IngestLimit        \* events one ingest reads

\* The bounds of the instance, and the kinds of event it has.
MaxTime == setup.MaxTime
MaxEvents == setup.MaxEvents
MaxFaults == setup.MaxFaults
Kinds == setup.Kinds

--------------------------------------------------------------------------------
(* The period clock. *)

period_of(t) == t \div PeriodSeconds
period_end(p) == (p + 1) * PeriodSeconds

\* The last period nothing can still be added to.
closed_through(t, slack) == period_of(t - slack) - 1

Work == 0 .. period_of(MaxTime)

\* Mutant: the archives that already entered are not counted.
EntryAsDue(due, P) == due

\* The first period from due on with room for one more archive of P.
entry_for(due, P) ==
    Min({e \in due .. due + Cardinality(DOMAIN P) :
                Cardinality({p \in DOMAIN P : P[p].entry = e}) < CATCHUP_ENTRIES})

--------------------------------------------------------------------------------
(* Accrual. *)

Payable == {"trained", "first_scan"}

\* Mutant: a late event stays in its own period.
OpenPeriodOfEvent(at) == period_of(at)

\* The period of an event dated at: its own, or the first after the last archive.
_open_period(at) ==
    IF DOMAIN periods = {} THEN period_of(at)
    ELSE Max({period_of(at), Max(DOMAIN periods) + 1})

_banned(B, h, at) == at < B[h]

\* Mutant: the event at the cursor is read again.
UnreadFromCursor == {s \in DOMAIN events : s >= cursor /\ s <= cursor + IngestLimit}

\* The events one ingest reads.
Unread == {s \in DOMAIN events : s > cursor /\ s <= cursor + IngestLimit}

\* The bans of h among the events S, and the end of the latest, 0 without one.
BansOf(h, S) == {t \in S : events[t].kind = "ban" /\ events[t].hotkey = h}
BanUntil(h, S) == Max({0} \union {events[t].at + BanSeconds : t \in BansOf(h, S)})

\* Mutant: the bans the ledger holds are not looked up.
IngestStatusNew(s) ==
    IF BansOf(events[s].hotkey, {t \in Unread : t > s}) # {} THEN "forfeited" ELSE "accrued"

\* What becomes of event s at the end of the ingest: forfeited under a ban known
\* when it is read, or by a ban read after it in the same pass.
IngestStatus(s) ==
    LET h == events[s].hotkey
        known == Max({bans[h], BanUntil(h, {t \in Unread : t < s})})
    IN  IF events[s].at < known \/ BansOf(h, {t \in Unread : t > s}) # {}
        THEN "forfeited" ELSE "accrued"

ingest ==
    /\ up /\ pc = "ingest"
    /\ \E amount \in [{s \in Unread : events[s].kind \in Payable} -> Amounts] :
         accruals' = [s \in DOMAIN accruals \union DOMAIN amount |->
             IF s \in DOMAIN amount
             THEN [hotkey |-> events[s].hotkey, period |-> _open_period(events[s].at),
                   amount |-> amount[s], status |-> IngestStatus(s)]
             ELSE IF /\ accruals[s].status = "accrued"
                     /\ BansOf(accruals[s].hotkey, Unread) # {}
                  THEN [accruals[s] EXCEPT !.status = "forfeited"]
                  ELSE accruals[s]]
    /\ bans' = [h \in Hotkeys |-> Max({bans[h], BanUntil(h, Unread)})]
    /\ cursor' = Max({cursor} \union Unread)
    /\ pc' = "settle"
    /\ UNCHANGED <<setup, now, events, carry, periods, store, todo, uptime, beats, faults>>

--------------------------------------------------------------------------------
(* The trainer's outages. *)

\* The span less the validator's downtimes: the parts of it before the first,
\* between two and after the last.
Pieces(span) ==
    LET cuts == {span[1]} \union {d[2] : d \in downtime}
        EndOf(a) == Min({span[2]} \union {d[1] : d \in {e \in downtime : e[2] > a}})
    IN  {<<a, EndOf(a)>> : a \in {c \in cuts : c >= span[1] /\ c < span[2] /\ EndOf(c) > c}}

\* The outages known at t: the recorded ones and the one going on, without the
\* validator's downtime and the pieces within the grace, each cut to outage_max_s.
_outages(t) ==
    LET spans == outages \union (IF last_at >= 0 /\ t - last_at > outage_grace_s THEN {<<last_at, t>>} ELSE {})
        long == {p \in UNION {Pieces(s) : s \in spans} : p[2] - p[1] > outage_grace_s}
    IN  IF outage_fill THEN {<<p[1], Min({p[2], p[1] + outage_max_s})>> : p \in long} ELSE {}

\* Seconds of period p inside the outages O, overlaps counted once.
_outage_seconds(p, O) ==
    Cardinality({t \in (period_end(p) - PeriodSeconds) .. (period_end(p) - 1) :
                   \E o \in O : o[1] <= t /\ t < o[2]})

\* The archives P an outage is paid after: the last ones mostly free of outage.
References(P) ==
    LET free == {p \in DOMAIN P : 2 * P[p].outage_s < PeriodSeconds}
    IN  {p \in free : Cardinality({q \in free : q > p}) < OUTAGE_REFERENCE_PERIODS}

\* Each hotkey's share of its mean reward for the seconds the trainer was down.
_outage_fill(P, B, down, t) ==
    LET refs == References(P)
    IN  [h \in Hotkeys |->
           IF refs = {} \/ _banned(B, h, t) THEN 0
           ELSE SumFunction([p \in refs |-> (P[p].rewards[h] * down) \div (PeriodSeconds * Cardinality(refs))])]

--------------------------------------------------------------------------------
(* Settlement. *)

\* What stays of the carry C once settling period p has taken the rows before it.
_take_carry(C, p) == [x \in DOMAIN C |-> IF x[2] < p THEN 0 ELSE C[x]]

\* The rows settling period p pays from: neither expired nor of a banned hotkey.
CarriedIn(C, B, p, t) ==
    [x \in DOMAIN C |-> IF x[2] < p /\ p - x[2] <= carry_periods /\ ~ _banned(B, x[1], t) THEN C[x] ELSE 0]

\* Mutant: the carry grows without the bound.
CarryAll(unpaid) == unpaid

\* The unpaid parts of the origin periods O.
Held(unpaid, O) == SumFunctionOnSet(unpaid, {x \in DOMAIN unpaid : x[2] \in O})

\* What the bound on the carry cuts from origin period o, once the older ones were cut.
Cut(unpaid, o) ==
    LET excess == SumFunction(unpaid) - carry_max_caps * cap
    IN  Min({Held(unpaid, {o}), Max({0, excess - Held(unpaid, 0 .. (o - 1))})})

\* The unpaid parts kept, at most carry_max_caps caps: the oldest burn first.
_carry(unpaid) ==
    [x \in DOMAIN unpaid |->
       IF carry_periods = 0 \/ unpaid[x] = 0 THEN 0
       ELSE IF Cut(unpaid, x[2]) = 0 THEN unpaid[x]
       ELSE (unpaid[x] * (Held(unpaid, {x[2]}) - Cut(unpaid, x[2]))) \div Held(unpaid, {x[2]})]

\* The part of an amount a period of this total pays.
Scaled(a, total) == IF total <= cap THEN a ELSE (a * cap) \div total

\* Settling period p at time t from the ledger L of accruals, carry and archives:
\* the accruals of the period, each hotkey's sum of them,
Rows(L, p) == {s \in DOMAIN L.accruals : L.accruals[s].status = "accrued" /\ L.accruals[s].period = p}
RowsOf(L, p, h) == {s \in Rows(L, p) : L.accruals[s].hotkey = h}
Fresh(L, p) == [h \in Hotkeys |-> SumFunction([s \in RowsOf(L, p, h) |-> L.accruals[s].amount])]

\* the fill for its outage seconds,
Down(p, t) == _outage_seconds(p, _outages(t))
Fill(L, p, t) ==
    IF Down(p, t) > 0 THEN _outage_fill(L.periods, bans, Down(p, t), t) ELSE [h \in Hotkeys |-> 0]

\* what is owed by hotkey and origin period, the total the cap is compared with,
Parts(L, p, t) ==
    LET carried == CarriedIn(L.carry, bans, p, t)
        fresh == Fresh(L, p)
    IN  [x \in Hotkeys \X Work |-> carried[x] + (IF x[2] = p THEN fresh[x[1]] ELSE 0)]
Total(L, p, t) == SumFunction(Parts(L, p, t)) + SumFunction(Fill(L, p, t))

\* and what of it is paid now and what is not.
Payout(L, p, t) ==
    LET parts == Parts(L, p, t)
        total == Total(L, p, t)
    IN  [x \in Hotkeys \X Work |-> Scaled(parts[x], total)]
Unpaid(L, p, t) ==
    LET parts == Parts(L, p, t)
        paid == Payout(L, p, t)
    IN  [x \in Hotkeys \X Work |-> parts[x] - paid[x]]
Rewards(L, p, t) ==
    LET paid == Payout(L, p, t)
        fill == Fill(L, p, t)
        total == Total(L, p, t)
    IN  [h \in Hotkeys |-> Scaled(fill[h], total) + SumFunction([o \in Work |-> paid[<<h, o>>]])]

\* A period with nothing to pay is not archived.
Idle(L, p, t) ==
    Rows(L, p) = {} /\ SumFunction(CarriedIn(L.carry, bans, p, t)) = 0 /\ SumFunction(Fill(L, p, t)) = 0

\* Its accruals are settled, the carry taken and what is not paid carried on, and the
\* archive added, to enter in the first period after t with room.
MarkSettled(L, p) ==
    [s \in DOMAIN L.accruals |->
       IF s \in Rows(L, p) THEN [L.accruals[s] EXCEPT !.status = "settled"] ELSE L.accruals[s]]
CarryOn(L, p, t) ==
    LET kept == _take_carry(L.carry, p)
        unpaid == Unpaid(L, p, t)
        carried_out == _carry(unpaid)
    IN  [x \in Hotkeys \X Work |-> kept[x] + carried_out[x]]
Archive(L, p, t) ==
    [work |-> p, entry |-> entry_for(period_of(t) + 1, L.periods), outage_s |-> Down(p, t),
     rewards |-> Rewards(L, p, t), published |-> "unattempted"]
AddArchive(L, p, t) ==
    [q \in DOMAIN L.periods \union {p} |-> IF q = p THEN Archive(L, p, t) ELSE L.periods[q]]

SettlePeriod(L, p, t) ==
    IF Idle(L, p, t) THEN [L EXCEPT !.carry = _take_carry(L.carry, p)]
    ELSE [accruals |-> MarkSettled(L, p), carry |-> CarryOn(L, p, t), periods |-> AddArchive(L, p, t)]

\* The closed periods to archive: those with accruals, those after the last archive
\* with outage time, and every one after it while a carry is pending.
_due_periods(closed, O) ==
    LET next == IF DOMAIN periods = {} THEN {} ELSE {Max(DOMAIN periods) + 1}
        accrued == {accruals[s].period : s \in {r \in DOMAIN accruals : accruals[r].status = "accrued"}}
        down == UNION {Max({period_of(o[1])} \union next) .. period_of(o[2]) : o \in O}
        due == {p \in accrued \union down : p <= closed}
        first == Min(IF due \union next = {} THEN {closed} ELSE due \union next)
    IN  due \union (IF carry_periods > 0 /\ SumFunction(carry) > 0 THEN first .. closed ELSE {})

\* Mutant: a period closes before an outage at its end is known to be one.
SlackOnly == slack_s

\* How long after its end a period is settled.
SettleSlack == IF outage_fill THEN Max({slack_s, outage_grace_s}) ELSE slack_s

\* The tables settle works on.
books == [accruals |-> accruals, carry |-> carry, periods |-> periods]

\* The tables once the due periods before n are settled, oldest first.
Settling(due, t) ==
    LET after[n \in 0 .. Cardinality(Work)] ==
          IF n = 0 THEN books
          ELSE LET L == after[n - 1]
               IN  IF n - 1 \in due THEN SettlePeriod(L, n - 1, t) ELSE L
    IN  after

settle ==
    /\ up /\ pc = "settle"
    /\ \E due \in {_due_periods(closed_through(now, SettleSlack), _outages(now))} :
         \E L \in {Settling(due, now)[Cardinality(Work)]} :
           /\ accruals' = L.accruals
           /\ carry' = L.carry
           /\ periods' = L.periods
    /\ pc' = IF publishes THEN "unpublished" ELSE "ingest"
    /\ UNCHANGED <<setup, now, events, cursor, bans, store, todo, uptime, beats, faults>>

--------------------------------------------------------------------------------
(* Publication. *)

Document(a) == [work |-> a.work, entry |-> a.entry, outage_s |-> a.outage_s, rewards |-> a.rewards]
Stored(d) == {b \in bucket : b.work = d.work /\ b.entry = d.entry}

\* The archive publish works on: the oldest of those it holds.
doc == CHOOSE a \in todo : \A b \in todo : a.work <= b.work

Unpublished ==
    /\ up /\ pc = "unpublished"
    /\ todo' = {periods[p] : p \in {q \in DOMAIN periods : periods[q].published # "yes"}}
    /\ pc' = "read"
    /\ UNCHANGED <<setup, now, events, ledger, store, uptime, beats, faults>>

\* The loop's pass ends, done or raised; the next one starts over.
PassOver == pc' = "ingest" /\ todo' = {}

\* read of the archive: held as it is (confirm), held by another
\* document (raise), or not there yet (commit its identity and write it).
PublishRead ==
    /\ up /\ pc = "read"
    /\ \/ todo = {} /\ PassOver
       \/ /\ todo # {}
          /\ \/ Stored(doc) = {} /\ pc' = "commit" /\ UNCHANGED todo
             \/ Stored(doc) = {Document(doc)} /\ pc' = "confirm" /\ UNCHANGED todo
             \/ Stored(doc) \notin {{}, {Document(doc)}} /\ PassOver
    /\ UNCHANGED <<setup, now, events, ledger, store, uptime, beats, faults>>

\* Mutant: an archive already sent may still move.
MayMoveAny(a) == TRUE

\* Only an archive no upload was tried for may take a later entry period.
MayMove(a) == a.published = "unattempted"

\* Mutant: the archive is confirmed before it is written.
PublishCommitDone ==
    /\ up /\ pc = "commit"
    /\ periods' = [periods EXCEPT ![doc.work].published = "yes"]
    /\ pc' = "write"
    /\ UNCHANGED <<setup, now, events, cursor, accruals, bans, carry, store, todo, uptime, beats, faults>>

PublishCommit ==
    /\ up /\ pc = "commit"
    /\ LET w == doc.work
           a == periods[w]
           due == period_of(now) + 1
           entry == IF MayMove(a) /\ a.entry < due
                    THEN entry_for(due, [q \in DOMAIN periods \ {w} |-> periods[q]]) ELSE a.entry
           sent == [a EXCEPT !.entry = entry, !.published = "attempted"]
       IN  /\ periods' = [periods EXCEPT ![w] = sent]
           /\ todo' = (todo \ {doc}) \union {sent}
    /\ pc' = "write"
    /\ UNCHANGED <<setup, now, events, cursor, accruals, bans, carry, store, uptime, beats, faults>>

\* R2PeriodArchives.write: a document already there is left, another one is refused.
PublishWrite ==
    /\ up /\ pc = "write"
    /\ \/ /\ Stored(doc) \subseteq {Document(doc)}
          /\ bucket' = bucket \union {Document(doc)}
          /\ pc' = "confirm" /\ UNCHANGED todo
       \/ /\ ~ (Stored(doc) \subseteq {Document(doc)})
          /\ PassOver /\ UNCHANGED bucket
    /\ UNCHANGED <<setup, now, events, ledger, late, uptime, beats, faults>>

\* The answer of the upload is lost: it may have been stored, or be stored later.
PublishInterrupted ==
    /\ up /\ pc = "write" /\ faults < MaxFaults
    /\ late' = late \union {Document(doc)}
    /\ faults' = faults + 1
    /\ PassOver
    /\ UNCHANGED <<setup, now, events, ledger, bucket, uptime, beats>>

PublishConfirm ==
    /\ up /\ pc = "confirm"
    /\ periods' = [periods EXCEPT ![doc.work].published = "yes"]
    /\ todo' = todo \ {doc}
    /\ pc' = "read"
    /\ UNCHANGED <<setup, now, events, cursor, accruals, bans, carry, store, uptime, beats, faults>>

\* An interrupted upload reaches the store.
LateUpload ==
    \E d \in late :
      /\ bucket' = (bucket \ Stored(d)) \union {d}
      /\ late' = late \ {d}
      /\ UNCHANGED <<setup, now, events, ledger, loop, uptime, beats, faults>>

--------------------------------------------------------------------------------
(* The clock, the events, the heartbeats and the restarts. *)

Tick ==
    /\ now < MaxTime
    /\ up => now + 1 - alive <= DOWNTIME_MIN_S \* the sweep runs every few seconds
    /\ now' = now + 1
    /\ UNCHANGED <<setup, events, ledger, store, loop, uptime, beats, faults>>

\* The submission path records an event.
_event ==
    /\ up /\ Len(events) < MaxEvents
    /\ \E h \in Hotkeys, k \in Kinds : events' = Append(events, [kind |-> k, hotkey |-> h, at |-> now])
    /\ UNCHANGED <<setup, now, ledger, store, loop, uptime, beats, faults>>

trainer_beat ==
    /\ up /\ outage_fill /\ last_at < now
    /\ outages' = outages \union (IF last_at >= 0 /\ now - last_at > outage_grace_s THEN {<<last_at, now>>} ELSE {})
    /\ last_at' = now
    /\ UNCHANGED <<setup, now, events, ledger, store, loop, uptime, faults>>

\* The downtimes once a mark is written now.
Marked == downtime \union (IF now - alive > DOWNTIME_MIN_S THEN {<<alive, now>>} ELSE {})

mark_alive ==
    /\ up /\ now - alive >= ALIVE_EVERY_S
    /\ downtime' = Marked
    /\ alive' = now
    /\ UNCHANGED <<setup, now, events, ledger, store, loop, up, beats, faults>>

Crash ==
    /\ up /\ faults < MaxFaults
    /\ up' = FALSE
    /\ faults' = faults + 1
    /\ late' = late \union (IF pc = "write" THEN {Document(doc)} ELSE {})
    /\ PassOver
    /\ UNCHANGED <<setup, now, events, ledger, bucket, alive, downtime, beats>>

_boot ==
    /\ ~ up
    /\ up' = TRUE
    /\ downtime' = Marked
    /\ alive' = now
    /\ UNCHANGED <<setup, now, events, ledger, store, loop, beats, faults>>

Init ==
    /\ setup \in Setups
    /\ now = 0 /\ events = <<>> /\ cursor = 0 /\ accruals = <<>>
    /\ bans = [h \in Hotkeys |-> 0]
    /\ carry = [x \in Hotkeys \X Work |-> 0]
    /\ periods = <<>> /\ bucket = {} /\ late = {}
    /\ pc = "ingest" /\ todo = {}
    /\ up = TRUE /\ alive = 0 /\ downtime = {}
    /\ last_at = -1 /\ outages = {} /\ faults = 0

LedgerLoop ==
    ingest \/ settle \/ Unpublished \/ PublishRead \/ PublishCommit \/ PublishWrite \/ PublishConfirm

Next ==
    \/ LedgerLoop \/ PublishInterrupted \/ LateUpload
    \/ Tick \/ _event \/ trainer_beat \/ mark_alive \/ Crash \/ _boot

Spec == Init /\ [][Next]_vars
FairSpec == Spec /\ WF_vars(LedgerLoop) /\ WF_vars(_boot) /\ WF_vars(Tick) /\ WF_vars(mark_alive)

--------------------------------------------------------------------------------
(* Properties. *)

\* However uploads are interrupted, retried or late, the bucket holds at most one
\* archive of a work period, and it is the document the ledger keeps: no period is
\* paid twice (rl_ledger.publish commits the identity before the upload).
PaidOnce ==
    /\ \A a, b \in bucket : a.work = b.work => a = b
    /\ \A a \in bucket : a.work \in DOMAIN periods /\ a = Document(periods[a.work])

\* An archive the ledger marks published is in the bucket, crashes included.
ConfirmedIsStored ==
    \A p \in DOMAIN periods : periods[p].published = "yes" => Document(periods[p]) \in bucket

\* At most CATCHUP_ENTRIES archives enter in one period, after every move of an entry
\* (the weight setter bounds a task's replay at this many caps).
EntriesBounded ==
    \A e \in {periods[p].entry : p \in DOMAIN periods} :
        Cardinality({p \in DOMAIN periods : periods[p].entry = e}) <= CATCHUP_ENTRIES

\* What a hotkey was paid by the archives of L, what L carries and what it settled for it.
Paid(L, h) == SumFunction([p \in DOMAIN L.periods |-> L.periods[p].rewards[h]])
Carried(L, h) == SumFunction([o \in Work |-> L.carry[<<h, o>>]])
SettledRows(L, h) ==
    {s \in DOMAIN L.accruals : L.accruals[s].status = "settled" /\ L.accruals[s].hotkey = h}
Settled(L, h) == SumFunction([s \in SettledRows(L, h) |-> L.accruals[s].amount])

\* What a hotkey was paid and still has carried never exceeds its settled accruals:
\* carrying, expiring and cutting the carry create no pay (without the outage fill).
NoPayCreated ==
    ~ outage_fill => \A h \in Hotkeys : Paid(books, h) + Carried(books, h) <= Settled(books, h)

\* An unsettled accrual never sits in a period already archived: settling it would
\* insert a second row for the work period and fail for good.
AccruedIsOpen ==
    \A s \in DOMAIN accruals : accruals[s].status = "accrued" => accruals[s].period \notin DOMAIN periods

\* No period pays more than the cap, whatever was carried in or filled; the carry
\* stays within carry_max_caps caps and none of it is older than carry_periods
\* periods once a period is archived.
CarryBounded ==
    /\ \A p \in DOMAIN periods : SumFunction(periods[p].rewards) <= cap
    /\ SumFunction(carry) <= carry_max_caps * cap
    /\ \A x \in DOMAIN carry : carry[x] > 0 => Max(DOMAIN periods) - x[2] < carry_periods + 1

\* A settlement pays nothing to a hotkey under a ban the ledger has read: neither
\* accruals, nor a carry, nor the outage fill.
BannedUnpaid ==
    [][\A p \in DOMAIN periods' \ DOMAIN periods : \A h \in Hotkeys :
         bans[h] > now => periods'[p].rewards[h] = 0]_vars

\* No outage time of an archived period comes to light after it was archived, whatever
\* beats, crashes and restarts follow: settle waits for outage_grace_s to be over.
NoOutageMissed ==
    up => \A p \in DOMAIN periods : _outage_seconds(p, _outages(now)) <= periods[p].outage_s

\* Every archive of a ledger that publishes reaches the bucket.
ArchivesReachBucket ==
    \A p \in 0 .. Max({s.MaxTime : s \in Setups}) :
        (publishes /\ p \in DOMAIN periods) ~> (\E a \in bucket : a.work = p)
================================================================================
