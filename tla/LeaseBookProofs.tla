-------------------------- MODULE LeaseBookProofs ---------------------------
(***************************************************************************)
(* What holds of LeaseBook for every value of its constants: its types,    *)
(* its count of slots and its clock.                                       *)
(*                                                                         *)
(* TypeInv is TypeOK made inductive: a row that was issued names a hotkey, *)
(* a prompt and a checkpoint, and what a sweep still has to close is open  *)
(* and not held.  SlotInv adds the room a batch of grants has left;        *)
(* SilenceInv adds that the mark of the expiry loop is never old while the *)
(* process runs, and that what was charged was closed close to a mark.     *)
(* LeaseKeyProofs has the promises about draws, groups and holds.          *)
(***************************************************************************)
EXTENDS LeaseBook, FiniteSetTheorems, TLAPS

\* The leaves are first-order; the few that calculate cite SMT.
USE ZenonT(30)

-----------------------------------------------------------------------------
(* The quota: each of its operators keeps an entry an entry, within floor  *)
(* and ceiling.                                                            *)

\* The greater of a natural and a number is a natural, and so is the lesser of
\* two naturals.
LEMMA GreaterNat == ASSUME NEW a \in Nat, NEW b \in Int PROVE GreaterOf(a, b) \in Nat
BY SMTT(60) DEF GreaterOf

LEMMA LesserNat == ASSUME NEW a \in Nat, NEW b \in Nat PROVE LesserOf(a, b) \in Nat
BY DEF LesserOf

\* _clamp answers within [floor, ceiling].
LEMMA ClampType == ASSUME NEW n \in Int PROVE Clamp(n) \in Floor..Ceiling
BY SMTT(60), QuotaConfigAssumption DEF Clamp, GreaterOf, LesserOf

\* So does _quota.
LEMMA QuotaType ==
    ASSUME NEW e \in Entry, NEW t \in Nat \cup {NoTarget}
    PROVE  Quota(e, t) \in Floor..Ceiling
<1>1. e.cap \in Int /\ LesserOf(e.cap, t) \in Int
  BY SMTT(60), QuotaConfigAssumption DEF Entry, LesserOf, NoTarget
<1>2. Clamp(e.cap) \in Floor..Ceiling /\ Clamp(LesserOf(e.cap, t)) \in Floor..Ceiling
  BY <1>1, ClampType
<1>3. QED
  BY <1>2 DEF Quota

\* Two entries count the same leases.
SameCounts(e, f) ==
    /\ f.in_use = e.in_use /\ f.leased = e.leased /\ f.submitted = e.submitted
    /\ f.rejected = e.rejected /\ f.expired = e.expired /\ f.released = e.released

\* A new round keeps the entry's type and its counts.
LEMMA NewRoundType ==
    ASSUME NEW e \in Entry, NEW t \in Nat \cup {NoTarget}
    PROVE  NewRound(e, t) \in Entry /\ SameCounts(e, NewRound(e, t))
<1> DEFINE q == Quota(e, t)
           full == e.in_use >= q
<1>1. q \in Floor..Ceiling
  BY QuotaType
<1>2. full \in BOOLEAN
  BY SMTT(60), <1>1, QuotaConfigAssumption DEF Entry
<1> HIDE DEF q, full
<1>3. [e EXCEPT !.round_quota = q, !.delivered = 0, !.saturated = full] \in Entry
  BY <1>1, <1>2 DEF Entry
<1>4. SameCounts(e, [e EXCEPT !.round_quota = q, !.delivered = 0, !.saturated = full])
  BY DEF Entry, SameCounts
<1>5. QED
  BY <1>3, <1>4 DEF NewRound, q, full

\* Updates of an entry with values of the right types.
LEMMA EntryUpdates ==
    ASSUME NEW e \in Entry, NEW i \in Nat, NEW n \in Nat, NEW c \in Floor..Ceiling,
           NEW b \in BOOLEAN
    PROVE  /\ [e EXCEPT !.in_use = i] \in Entry
           /\ [e EXCEPT !.in_use = i, !.leased = n, !.saturated = b] \in Entry
           /\ [e EXCEPT !.submitted = n] \in Entry /\ [e EXCEPT !.released = n] \in Entry
           /\ [e EXCEPT !.delivered = n] \in Entry
           /\ [e EXCEPT !.cap = c, !.phase = e.phase] \in Entry
           /\ [e EXCEPT !.cap = c, !.phase = STEADY] \in Entry
           /\ [e EXCEPT !.expired = n, !.cap = c, !.phase = STEADY] \in Entry
           /\ [e EXCEPT !.rejected = n, !.cap = c, !.phase = STEADY] \in Entry
<1>1. STEADY \in {SLOW_START, STEADY} /\ e.phase \in {SLOW_START, STEADY}
  BY DEF Entry
<1> HIDE DEF STEADY
<1>2. QED
  BY <1>1 DEF Entry

\* The counters of an entry are natural numbers.
LEMMA EntryCounters ==
    ASSUME NEW e \in Entry
    PROVE  /\ e.in_use \in Nat /\ e.leased \in Nat /\ e.submitted \in Nat
           /\ e.expired \in Nat /\ e.rejected \in Nat /\ e.released \in Nat
           /\ e.delivered \in Nat /\ e.cap \in Floor..Ceiling
           /\ e.round_quota \in Floor..Ceiling /\ e.saturated \in BOOLEAN
           /\ e.in_use + 1 \in Nat /\ e.leased + 1 \in Nat /\ e.submitted + 1 \in Nat
           /\ e.expired + 1 \in Nat /\ e.rejected + 1 \in Nat /\ e.released + 1 \in Nat
           /\ e.delivered + 1 \in Nat /\ GreaterOf(0, e.in_use - 1) \in Nat
BY SMTT(60) DEF Entry, GreaterOf

\* A slot freed, and the lease it was counted as ended one way or another.
Slotless(e, f) == f.in_use = GreaterOf(0, e.in_use - 1) /\ f.leased = e.leased
Ended(e, f) ==
    /\ Slotless(e, f)
    /\ \E n \in {"submitted", "rejected", "expired", "released"} :
          /\ f[n] = e[n] + 1
          /\ \A m \in {"submitted", "rejected", "expired", "released"} \ {n} : f[m] = e[m]

LEMMA EndedSame ==
    ASSUME NEW e, NEW f, NEW g, Ended(e, f), SameCounts(f, g)
    PROVE  Ended(e, g)
BY DEF Ended, Slotless, SameCounts

LEMMA FreedType ==
    ASSUME NEW e \in Entry
    PROVE  /\ Freed(e) \in Entry /\ Slotless(e, Freed(e))
           /\ Freed(e).submitted = e.submitted /\ Freed(e).rejected = e.rejected
           /\ Freed(e).expired = e.expired /\ Freed(e).released = e.released
<1>1. Freed(e) \in Entry
  BY EntryCounters, EntryUpdates DEF Freed
<1>2. QED
  BY <1>1 DEF Freed, Entry, Slotless

\* record_lease
LEMMA RecordLeaseType ==
    ASSUME NEW e \in Entry, NEW t \in Nat \cup {NoTarget}
    PROVE  /\ RecordLease(e, t) \in Entry /\ RecordLease(e, t).in_use = e.in_use + 1
           /\ SameCounts([e EXCEPT !.in_use = @ + 1, !.leased = @ + 1], RecordLease(e, t))
           /\ \A u : Quota(RecordLease(e, t), u) = Quota(e, u)
<1> DEFINE full == e.saturated \/ e.in_use + 1 >= Quota(e, t)
<1>1. full \in BOOLEAN
  OBVIOUS
<1> HIDE DEF full
<1> DEFINE r == [e EXCEPT !.in_use = e.in_use + 1, !.leased = e.leased + 1, !.saturated = full]
<1>2. r \in Entry
  BY <1>1, EntryCounters, EntryUpdates
<1>3. /\ r.in_use = e.in_use + 1 /\ SameCounts([e EXCEPT !.in_use = e.in_use + 1, !.leased = e.leased + 1], r)
      /\ r.cap = e.cap /\ r.phase = e.phase
  BY DEF Entry, SameCounts
<1>4. r = RecordLease(e, t)
  BY DEF RecordLease, full
<1> HIDE DEF r
<1>5. \A u : Quota(r, u) = Quota(e, u)
  BY <1>3 DEF Quota
<1>6. QED
  BY <1>2, <1>3, <1>4, <1>5

\* record_submission, record_release
LEMMA RecordSubmissionType ==
    ASSUME NEW e \in Entry PROVE RecordSubmission(e) \in Entry /\ Ended(e, RecordSubmission(e))
<1>1. RecordSubmission(e) \in Entry
  BY FreedType, EntryCounters, EntryUpdates DEF RecordSubmission
<1>2. Ended(e, RecordSubmission(e))
  BY FreedType DEF RecordSubmission, Ended, Slotless, Entry
<1>3. QED
  BY <1>1, <1>2
LEMMA RecordReleaseType ==
    ASSUME NEW e \in Entry PROVE RecordRelease(e) \in Entry /\ Ended(e, RecordRelease(e))
<1>1. RecordRelease(e) \in Entry
  BY FreedType, EntryCounters, EntryUpdates DEF RecordRelease
<1>2. Ended(e, RecordRelease(e))
  BY FreedType DEF RecordRelease, Ended, Slotless, Entry
<1>3. QED
  BY <1>1, <1>2

\* record_paid
LEMMA RecordPaidType ==
    ASSUME NEW e \in Entry, NEW t \in Nat \cup {NoTarget}
    PROVE  RecordPaid(e, t) \in Entry /\ SameCounts(e, RecordPaid(e, t))
<1> DEFINE paid == [e EXCEPT !.delivered = @ + 1]
           c == Clamp(GreaterOf(paid.cap, 2 * e.round_quota))
           grown == [paid EXCEPT !.cap = IF e.saturated THEN c ELSE @,
                                 !.phase = IF e.saturated THEN @ ELSE STEADY]
<1>1. paid \in Entry /\ SameCounts(e, paid)
  <2>1. SameCounts(e, paid)
    BY DEF Entry, SameCounts
  <2>2. QED
    BY <2>1, EntryCounters, EntryUpdates
<1>2. GreaterOf(paid.cap, 2 * e.round_quota) \in Int
  BY SMTT(60), <1>1, EntryCounters, QuotaConfigAssumption DEF GreaterOf
<1>3. c \in Floor..Ceiling
  BY <1>2, ClampType
<1> HIDE DEF paid, c
<1>4. grown \in Entry /\ SameCounts(paid, grown)
  <2>0. \A x, y : SameCounts(paid, [paid EXCEPT !.cap = x, !.phase = y])
    BY <1>1 DEF Entry, SameCounts
  <2>1. CASE e.saturated
    <3>1. grown = [paid EXCEPT !.cap = c, !.phase = paid.phase]
      BY <2>1
    <3>2. QED
      BY <1>1, <1>3, <2>0, <3>1, EntryUpdates
  <2>2. CASE ~e.saturated
    <3>1. grown = [paid EXCEPT !.cap = paid.cap, !.phase = STEADY]
      BY <2>2
    <3>2. paid.cap \in Floor..Ceiling
      BY <1>1, EntryCounters
    <3>3. QED
      BY <1>1, <2>0, <3>1, <3>2, EntryUpdates
  <2>3. QED
    BY <2>1, <2>2
<1>5. NewRound(grown, t) \in Entry /\ SameCounts(grown, NewRound(grown, t))
  BY <1>4, NewRoundType
<1>6. SameCounts(e, NewRound(grown, t))
  BY <1>1, <1>4, <1>5 DEF SameCounts
<1>7. QED
  BY <1>1, <1>5, <1>6 DEF RecordPaid, paid, c

\* record_expiry with cause "expired"
LEMMA RecordExpiryType ==
    ASSUME NEW e \in Entry, NEW t \in Nat \cup {NoTarget}
    PROVE  RecordExpiry(e, t) \in Entry /\ Ended(e, RecordExpiry(e, t))
<1> DEFINE before == Quota(e, t)
           cut == Clamp(LesserOf(before - 1, (9 * before) \div 10))
           f == Freed(e)
<1>1. before \in Nat
  BY SMTT(60), QuotaType, QuotaConfigAssumption
<1>2. LesserOf(before - 1, (9 * before) \div 10) \in Int
  BY SMTT(60), <1>1 DEF LesserOf
<1>3. cut \in Floor..Ceiling
  BY <1>2, ClampType
<1>4. f \in Entry
  BY FreedType
<1> HIDE DEF cut
<1> DEFINE g == [f EXCEPT !.expired = @ + 1, !.cap = cut, !.phase = STEADY]
<1>5. Ended(e, g)
  BY FreedType DEF Ended, Slotless, Entry
<1> HIDE DEF f
<1>6. g \in Entry
  BY <1>3, <1>4, EntryCounters, EntryUpdates
<1>7. NewRound(g, t) \in Entry /\ SameCounts(g, NewRound(g, t))
  BY <1>6, NewRoundType
<1>8. NewRound(g, t) = RecordExpiry(e, t)
  BY DEF RecordExpiry, cut, f
<1> HIDE DEF g
<1>9. Ended(e, NewRound(g, t))
  BY <1>5, <1>7, EndedSame
<1>10. QED
  BY <1>7, <1>8, <1>9

\* record_expiry with cause "rejected"
LEMMA RecordRejectionType ==
    ASSUME NEW e \in Entry, NEW t \in Nat \cup {NoTarget}
    PROVE  RecordRejection(e, t) \in Entry /\ Ended(e, RecordRejection(e, t))
<1> DEFINE cut == Clamp(Quota(e, t) \div 2)
           f == Freed(e)
<1>1. Quota(e, t) \in Nat
  BY SMTT(60), QuotaType, QuotaConfigAssumption
<1>2. Quota(e, t) \div 2 \in Int
  BY SMTT(60), <1>1
<1>3. cut \in Floor..Ceiling
  BY <1>2, ClampType
<1>4. f \in Entry
  BY FreedType
<1> HIDE DEF cut
<1> DEFINE g == [f EXCEPT !.rejected = @ + 1, !.cap = cut, !.phase = STEADY]
<1>5. Ended(e, g)
  BY FreedType DEF Ended, Slotless, Entry
<1> HIDE DEF f
<1>6. g \in Entry
  BY <1>3, <1>4, EntryCounters, EntryUpdates
<1>7. NewRound(g, t) \in Entry /\ SameCounts(g, NewRound(g, t))
  BY <1>6, NewRoundType
<1>8. NewRound(g, t) = RecordRejection(e, t)
  BY DEF RecordRejection, cut, f
<1> HIDE DEF g
<1>9. Ended(e, NewRound(g, t))
  BY <1>5, <1>7, EndedSame
<1>10. QED
  BY <1>7, <1>8, <1>9

-----------------------------------------------------------------------------
(* The book.                                                               *)

\* An issued row names its hotkey, prompt and checkpoint.
RowsNamed ==
    \A l \in Leases : leases[l].state # "none" =>
        leases[l].hotkey \in Hotkeys /\ leases[l].prompt \in Prompts /\ leases[l].k \in Checkpoints

\* What a sweep has still to close is open and held by nobody; only a sweep
\* has anything to close.
DueIsOpen ==
    /\ \A l \in due : Open(l) /\ submitting[l] = 0
    /\ lock \notin {"sweep", "grant"} => due = {}

TypeInv == TypeOK /\ RowsNamed /\ DueIsOpen

-----------------------------------------------------------------------------

\* The numeric constants.
LEMMA Numbers ==
    /\ MaxLag \in Nat /\ RestartGrace \in Nat /\ AliveEvery \in Nat /\ DowntimeMin \in Nat
    /\ DowntimeKeep \in Nat /\ Day \in Nat /\ BoxFailedPerDay \in Nat /\ HotkeyMaxOpen \in Nat
    /\ Cap \in Nat /\ MaxLeases \in Nat /\ MaxCheckpoint \in Nat /\ MaxTime \in Nat
    /\ MaxCrashes \in Nat /\ 1 \in Leases
BY SMTT(60), LeaseBookAssumption DEF Leases

\* A set of lease ids is finite.
LEMMA SomeLeasesFinite ==
    ASSUME NEW S \in SUBSET Leases
    PROVE  IsFiniteSet(S) /\ Cardinality(S) \in Nat
<1>1. 1 \in Int /\ MaxLeases \in Int
  BY SMTT(60), Numbers
<1>2. IsFiniteSet(Leases)
  BY <1>1, FS_Interval DEF Leases
<1>3. IsFiniteSet(S)
  BY <1>2, FS_Subset
<1>4. QED
  BY <1>3, FS_CardinalityType

\* Updates of a row with values of the right types.
LEMMA RowUpdates ==
    ASSUME NEW r \in Row, NEW s \in LeaseStates, NEW n \in Nat, NEW c \in Causes
    PROVE  /\ [r EXCEPT !.state = s] \in Row /\ [r EXCEPT !.expires = n] \in Row
           /\ [r EXCEPT !.state = s, !.closed = n] \in Row
           /\ [r EXCEPT !.state = s, !.closed = n, !.cause = c] \in Row
BY DEF Row

\* What _close_unsubmitted leaves behind, when it is given an open lease.
LEMMA CloseUnsubmittedType ==
    ASSUME TypeInv, NEW l \in Leases, Open(l), NEW time \in Nat,
           NEW charged \in {"expired", "forfeited"}, NEW failure \in Failures,
           CloseUnsubmitted(l, time, charged, failure)
    PROVE  /\ leases' \in [Leases -> Row] /\ quota' \in [Hotkeys -> Entry]
           /\ leases'[l].state \in {"expired", "released"}
           /\ leases'[l].hotkey = leases[l].hotkey /\ leases'[l].prompt = leases[l].prompt
           /\ leases'[l].k = leases[l].k
           /\ \A m \in Leases \ {l} : leases'[m] = leases[m]
<1> DEFINE h == leases[l].hotkey
           over == /\ failure = BOX_FAILED
                   /\ Cardinality(BoxFailedReleases(h, time)) >= BoxFailedPerDay
           excused == failure = NoFailure /\ LivedThroughDowntime(l, time)
           expired == over \/ (failure = NoFailure /\ ~excused)
           cause == CASE over -> "box_failed_over_budget"
                      [] ~over /\ failure # NoFailure -> failure
                      [] excused -> "validator_unavailable"
                      [] OTHER -> charged
           state == IF expired THEN "expired" ELSE "released"
<1>1. leases' = [leases EXCEPT ![l].state = state, ![l].closed = time, ![l].cause = cause]
  BY DEF CloseUnsubmitted
<1>2. quota' = [quota EXCEPT ![h] = IF expired THEN RecordExpiry(@, target[h])
                                    ELSE RecordRelease(@)]
  BY DEF CloseUnsubmitted
<1>3. state \in {"expired", "released"}
  OBVIOUS
<1>4. cause \in Causes
  BY DEF Failures, Causes
<1>5. h \in Hotkeys /\ quota \in [Hotkeys -> Entry] /\ quota[h] \in Entry
        /\ target[h] \in Nat \cup {NoTarget} /\ leases \in [Leases -> Row]
  BY DEF TypeInv, TypeOK, RowsNamed, Open
<1> HIDE DEF h, over, excused, expired, cause, state
<1>6. quota' \in [Hotkeys -> Entry]
  <2>1. RecordExpiry(quota[h], target[h]) \in Entry /\ RecordRelease(quota[h]) \in Entry
    BY <1>5, RecordExpiryType, RecordReleaseType
  <2>2. QED
    BY <1>2, <1>5, <2>1
<1>7. leases' \in [Leases -> Row]
  <2> DEFINE row == [leases[l] EXCEPT !.state = state, !.closed = time, !.cause = cause]
  <2>1. leases' = [leases EXCEPT ![l] = row]
    BY <1>1, <1>5
  <2>2. state \in LeaseStates /\ leases[l] \in Row
    BY <1>3, <1>5 DEF LeaseStates
  <2>3. row \in Row
    BY <1>4, <2>2, RowUpdates
  <2> HIDE DEF row
  <2>4. QED
    BY <1>5, <2>1, <2>3
<1>8. /\ leases'[l].state = state /\ leases'[l].hotkey = leases[l].hotkey
      /\ leases'[l].prompt = leases[l].prompt /\ leases'[l].k = leases[l].k
      /\ \A m \in Leases \ {l} : leases'[m] = leases[m]
  BY <1>1, <1>5 DEF Row
<1>9. QED
  BY <1>3, <1>6, <1>7, <1>8

\* Init establishes TypeInv.
LEMMA TypeInit == Init => TypeInv
<1> SUFFICES ASSUME Init PROVE TypeInv
  OBVIOUS
<1>1. NewEntry \in Entry
  BY SMTT(60), QuotaConfigAssumption DEF NewEntry, Entry
<1>2. cooldown \in [Envs -> Nat]
  BY LeaseBookAssumption DEF Init
<1>3. NoRow \in Row
  BY DEF NoRow, Row, LeaseStates, Causes
<1>4. NoGroup \in Group
  BY DEF NoGroup, Group
<1>5. \A t \in Threads : subs[t] \in Sub
  BY Numbers DEF Init, Sub
<1>6. TypeOK
  <2>1. prompts \in [Prompts -> Prompt]
    BY DEF Init, Prompt
  <2>2. quota \in [Hotkeys -> Entry] /\ leases \in [Leases -> Row]
          /\ groups \in [Leases -> Group]
    BY <1>1, <1>3, <1>4 DEF Init
  <2>3. subs \in [Threads -> Sub]
    BY <1>5 DEF Init
  <2>4. up \in BOOLEAN /\ revise \in BOOLEAN /\ latest \in Checkpoints \cup {NoCheckpoint}
    BY DEF Init
  <2>5. /\ events \in [Leases -> Seq(PayEvents)]
        /\ secrets \in [Checkpoints -> {"none", "secret", "revealed"}]
        /\ submitting \in [Leases -> Nat]
    BY SMTT(60) DEF Init
  <2>6. /\ bans \in [Hotkeys -> Nat] /\ target \in [Hotkeys -> Nat \cup {NoTarget}]
        /\ room \in [Hotkeys -> Nat \cup {-1}]
    BY DEF Init
  <2>7. now \in Nat /\ crashes \in Nat /\ alive \in Nat /\ at \in Nat /\ due \subseteq Leases
          /\ downtimes \subseteq [start : Nat, end : Nat]
          /\ sweeper \in {"mark", "sweep"} /\ lock \in {"free", "sweep", "grant", "claims"}
    BY DEF Init
  <2>8. QED
    BY <1>2, <2>1, <2>2, <2>3, <2>4, <2>5, <2>6, <2>7 DEF TypeOK
<1>7. RowsNamed
  BY DEF Init, RowsNamed, NoRow
<1>8. DueIsOpen
  BY DEF Init, DueIsOpen
<1>9. QED
  BY <1>6, <1>7, <1>8 DEF TypeInv

\* The steps that change neither rows, nor entries, nor prompts.
LEMMA TypeQuietStep ==
    ASSUME TypeInv,
           \/ Tick \/ Crash \/ ExpireDue \/ GrantSweep \/ GrantEnd
           \/ \E e \in Envs, c \in Cooldowns : SetCooldown(e, c)
           \/ \E h \in Hotkeys, n \in BanLengths : Ban(h, n)
           \/ \E h \in Hotkeys, x \in Targets : Measure(h, x)
    PROVE  TypeInv'
<1> USE DEF TypeInv, TypeOK, RowsNamed, DueIsOpen, Open, clockVars, txnVars
<1>1. CASE Tick
  BY SMTT(60), <1>1 DEF Tick
<1>2. CASE Crash
  <2>1. subs' \in [Threads -> Sub]
    BY <1>2, Numbers DEF Crash, Sub
  <2>2. up' = FALSE /\ revise' = FALSE /\ sweeper' = "mark" /\ lock = "free"
    BY <1>2 DEF Crash
  <2>3. crashes' \in Nat /\ submitting' \in [Leases -> Nat]
    BY SMTT(60), <1>2 DEF Crash
  <2>4. due = {}
    BY <2>2
  <2>5. TypeOK'
    BY <1>2, <2>1, <2>2, <2>3 DEF Crash
  <2>6. RowsNamed' /\ DueIsOpen'
    BY <1>2, <2>4 DEF Crash
  <2>7. QED
    BY <2>5, <2>6
<1>3. CASE ExpireDue
  BY <1>3 DEF ExpireDue, Due
<1>4. CASE GrantSweep
  BY <1>4 DEF GrantSweep, Due
<1>5. CASE GrantEnd
  BY <1>5 DEF GrantEnd
<1>6. ASSUME NEW e \in Envs, NEW c \in Cooldowns, SetCooldown(e, c) PROVE TypeInv'
  BY <1>6, LeaseBookAssumption DEF SetCooldown
<1>7. ASSUME NEW h \in Hotkeys, NEW n \in BanLengths, Ban(h, n) PROVE TypeInv'
  <2>1. GreaterOf(bans[h], now + n) \in Nat
    <3>1. n \in Nat /\ bans[h] \in Nat /\ now \in Nat
      BY LeaseBookAssumption
    <3>2. QED
      BY SMTT(60), <3>1 DEF GreaterOf
  <2>2. QED
    BY <1>7, <2>1 DEF Ban
<1>8. ASSUME NEW h \in Hotkeys, NEW x \in Targets, Measure(h, x) PROVE TypeInv'
  BY <1>8, LeaseBookAssumption DEF Measure
<1>9. QED
  BY <1>1, <1>2, <1>3, <1>4, <1>5, <1>6, <1>7, <1>8

\* The silence given back is a length, and giving it back changes no more of
\* a row than its end.
LEMMA GivenBackType ==
    ASSUME TypeInv
    PROVE  /\ SilenceLength \in Nat
           /\ RecordedDowntimes \subseteq [start : Nat, end : Nat]
           /\ GivenBack \in [Leases -> Row]
           /\ \A l \in Leases : /\ GivenBack[l].state = leases[l].state
                                /\ GivenBack[l].hotkey = leases[l].hotkey
                                /\ GivenBack[l].prompt = leases[l].prompt
                                /\ GivenBack[l].k = leases[l].k
<1>1. now \in Nat /\ alive \in Nat /\ downtimes \subseteq [start : Nat, end : Nat]
        /\ leases \in [Leases -> Row]
  BY DEF TypeInv, TypeOK
<1>2. SilenceLength \in Nat
  BY SMTT(60), <1>1, Numbers DEF SilenceLength
<1>3. RecordedDowntimes \subseteq [start : Nat, end : Nat]
  BY SMTT(60), <1>1 DEF RecordedDowntimes
<1>4. ASSUME NEW l \in Leases PROVE GivenBack[l] \in Row
  <2>1. leases[l] \in Row /\ leases[l].expires + SilenceLength \in Nat
    BY SMTT(60), <1>1, <1>2 DEF Row
  <2>2. [leases[l] EXCEPT !.expires = @ + SilenceLength] \in Row
    BY <2>1, RowUpdates DEF Causes, LeaseStates
  <2>3. QED
    BY <2>1, <2>2 DEF GivenBack
<1>5. GivenBack \in [Leases -> Row]
  BY <1>4 DEF GivenBack
<1>6. ASSUME NEW l \in Leases
      PROVE  /\ GivenBack[l].state = leases[l].state /\ GivenBack[l].hotkey = leases[l].hotkey
             /\ GivenBack[l].prompt = leases[l].prompt /\ GivenBack[l].k = leases[l].k
  BY <1>1 DEF GivenBack, Row
<1>7. QED
  BY <1>2, <1>3, <1>5, <1>6

\* A revision keeps prompts prompts, their states and their scans, and only
\* shortens a cooldown.
LEMMA RevisedType ==
    ASSUME TypeInv
    PROVE  /\ Revised \in [Prompts -> Prompt]
           /\ \A p \in Prompts : /\ Revised[p].state = prompts[p].state
                                 /\ Revised[p].easy = prompts[p].easy
                                 /\ Revised[p].until <= prompts[p].until
                                 /\ prompts[p].state # "cooldown" => Revised[p] = prompts[p]
<1>1. prompts \in [Prompts -> Prompt] /\ cooldown \in [Envs -> Nat]
  BY DEF TypeInv, TypeOK
<1>2. ASSUME NEW p \in Prompts
      PROVE  /\ Revised[p] \in Prompt /\ Revised[p].state = prompts[p].state
             /\ Revised[p].easy = prompts[p].easy /\ Revised[p].until <= prompts[p].until
             /\ prompts[p].state # "cooldown" => Revised[p] = prompts[p]
  <2> DEFINE n == LesserOf(prompts[p].until, prompts[p].start + cooldown[EnvOf[p]])
  <2>1. prompts[p] \in Prompt /\ prompts[p].until \in Nat /\ prompts[p].start \in Nat
    BY <1>1 DEF Prompt
  <2>2. cooldown[EnvOf[p]] \in Nat
    BY <1>1, LeaseBookAssumption
  <2>3. n \in Nat /\ n <= prompts[p].until
    BY SMTT(60), <2>1, <2>2 DEF LesserOf
  <2>4. Revised[p] = IF prompts[p].state = "cooldown" /\ latest # NoCheckpoint
                     THEN [prompts[p] EXCEPT !.until = n] ELSE prompts[p]
    BY <2>1 DEF Revised
  <2> HIDE DEF n
  <2>5. [prompts[p] EXCEPT !.until = n] \in Prompt
    BY <2>1, <2>3 DEF Prompt
  <2>6. /\ [prompts[p] EXCEPT !.until = n].state = prompts[p].state
        /\ [prompts[p] EXCEPT !.until = n].easy = prompts[p].easy
        /\ [prompts[p] EXCEPT !.until = n].until = n
    BY <2>1 DEF Prompt
  <2>7. QED
    BY SMTT(60), <2>1, <2>3, <2>4, <2>5, <2>6
<1>3. QED
  BY <1>2 DEF Revised

\* The steps of the clock, the restart and the checkpoints.
LEMMA TypeClockStep ==
    ASSUME TypeInv, MarkAlive \/ Boot \/ Revise \/ (\E k \in Checkpoints : Adopt(k))
    PROVE  TypeInv'
<1>1. CASE MarkAlive
  <2>1. now \in Nat /\ alive \in Nat
    BY DEF TypeInv, TypeOK
  <2>2. leases' = leases \/ leases' = GivenBack
    BY <1>1 DEF MarkAlive
  <2>3. leases' \in [Leases -> Row]
    BY <2>2, GivenBackType DEF TypeInv, TypeOK
  <2>4. \A l \in Leases : /\ leases'[l].state = leases[l].state
                          /\ leases'[l].hotkey = leases[l].hotkey
                          /\ leases'[l].prompt = leases[l].prompt
                          /\ leases'[l].k = leases[l].k
    BY <2>2, GivenBackType
  <2>5. alive' \in Nat /\ downtimes' \subseteq [start : Nat, end : Nat]
    BY <1>1, GivenBackType DEF MarkAlive, TypeInv, TypeOK
  <2>6. TypeOK'
    BY <1>1, <2>3, <2>5 DEF MarkAlive, TypeInv, TypeOK, txnVars
  <2>7. RowsNamed' /\ DueIsOpen'
    BY <1>1, <2>4 DEF MarkAlive, TypeInv, TypeOK, RowsNamed, DueIsOpen, Open, txnVars
  <2>8. QED
    BY <2>6, <2>7 DEF TypeInv
<1>2. CASE Boot
  <2>1. ASSUME NEW l \in Leases
        PROVE  /\ leases'[l] \in Row /\ leases'[l].state = leases[l].state
               /\ leases'[l].hotkey = leases[l].hotkey
               /\ leases'[l].prompt = leases[l].prompt /\ leases'[l].k = leases[l].k
    <3> DEFINE r == GivenBack[l]
               n == GreaterOf(r.expires, now + RestartGrace)
    <3>1. r \in Row /\ r.expires \in Nat /\ leases[l] \in Row
      BY GivenBackType DEF TypeInv, TypeOK, Row
    <3>2. n \in Nat
      <4>1. now \in Nat /\ RestartGrace \in Nat
        BY Numbers DEF TypeInv, TypeOK
      <4>2. QED
        BY SMTT(60), <3>1, <4>1 DEF GreaterOf
    <3>3. leases'[l] = IF Open(l) THEN [r EXCEPT !.expires = n] ELSE leases[l]
      BY <1>2 DEF Boot
    <3> HIDE DEF n
    <3>4. [r EXCEPT !.expires = n] \in Row
      BY <3>1, <3>2, RowUpdates DEF Causes, LeaseStates
    <3>5. /\ r.state = leases[l].state /\ r.hotkey = leases[l].hotkey
          /\ r.prompt = leases[l].prompt /\ r.k = leases[l].k
      BY GivenBackType
    <3> HIDE DEF r
    <3>6. /\ [r EXCEPT !.expires = n].state = r.state /\ [r EXCEPT !.expires = n].hotkey = r.hotkey
          /\ [r EXCEPT !.expires = n].prompt = r.prompt /\ [r EXCEPT !.expires = n].k = r.k
      BY <3>1 DEF Row
    <3>7. QED
      BY <3>1, <3>3, <3>4, <3>5, <3>6
  <2>2. leases' \in [Leases -> Row]
    BY <1>2, <2>1 DEF Boot
  <2>3. quota' \in [Hotkeys -> Entry]
    <3>1. ASSUME NEW h \in Hotkeys
          PROVE  [quota[h] EXCEPT !.in_use = Cardinality(OpenOf(h))] \in Entry
      <4>1. OpenOf(h) \in SUBSET Leases
        BY DEF OpenOf
      <4>2. Cardinality(OpenOf(h)) \in Nat
        BY <4>1, SomeLeasesFinite
      <4>3. quota[h] \in Entry
        BY DEF TypeInv, TypeOK
      <4>4. Floor \in Floor..Ceiling
        BY SMTT(60), QuotaConfigAssumption
      <4>5. QED
        BY <4>2, <4>3, <4>4, EntryUpdates
    <3>2. QED
      BY <1>2, <3>1 DEF Boot
  <2>4. prompts' \in [Prompts -> Prompt] /\ downtimes' \subseteq [start : Nat, end : Nat]
    BY <1>2, RevisedType, GivenBackType DEF Boot
  <2>5. up' = TRUE /\ alive' \in Nat
    BY <1>2 DEF Boot, TypeInv, TypeOK
  <2>6. TypeOK'
    BY <1>2, <2>2, <2>3, <2>4, <2>5 DEF Boot, TypeInv, TypeOK, txnVars
  <2>7. RowsNamed' /\ DueIsOpen'
    BY <1>2, <2>1 DEF Boot, TypeInv, TypeOK, RowsNamed, DueIsOpen, Open, txnVars
  <2>8. QED
    BY <2>6, <2>7 DEF TypeInv
<1>3. CASE Revise
  <2>1. prompts' \in [Prompts -> Prompt] /\ revise' = FALSE
    BY <1>3, RevisedType DEF Revise
  <2>2. TypeOK'
    BY <1>3, <2>1 DEF Revise, TypeInv, TypeOK, txnVars, clockVars
  <2>3. RowsNamed' /\ DueIsOpen'
    BY <1>3 DEF Revise, TypeInv, RowsNamed, DueIsOpen, Open, txnVars
  <2>4. QED
    BY <2>2, <2>3 DEF TypeInv
<1>4. ASSUME NEW k \in Checkpoints, Adopt(k) PROVE TypeInv'
  <2>1. ASSUME NEW l \in Leases
        PROVE  /\ leases'[l] \in Row
               /\ leases'[l].state = leases[l].state
                    \/ (leases'[l].state = "pruned" /\ leases[l].state \notin {"none", "open"})
               /\ leases'[l].hotkey = leases[l].hotkey
               /\ leases'[l].prompt = leases[l].prompt /\ leases'[l].k = leases[l].k
    <3>1. leases[l] \in Row /\ "pruned" \in LeaseStates
      BY DEF TypeInv, TypeOK, LeaseStates
    <3>2. leases'[l] = leases[l]
            \/ /\ leases'[l] = [leases[l] EXCEPT !.state = "pruned"]
               /\ leases[l].state \notin {"none", "open"}
      BY <1>4 DEF Adopt
    <3>3. [leases[l] EXCEPT !.state = "pruned"] \in Row
      BY <3>1, RowUpdates DEF Causes
    <3>4. QED
      BY <3>1, <3>2, <3>3 DEF Row
  <2>2. leases' \in [Leases -> Row]
    BY <1>4, <2>1 DEF Adopt
  <2>3. secrets' \in [Checkpoints -> {"none", "secret", "revealed"}]
    BY <1>4 DEF Adopt, TypeInv, TypeOK
  <2>4. revise' = TRUE /\ latest' = k /\ lock = "free"
    BY <1>4 DEF Adopt
  <2>5. TypeOK'
    BY <1>4, <2>2, <2>3, <2>4 DEF Adopt, TypeInv, TypeOK, txnVars, clockVars
  <2>6. RowsNamed' /\ DueIsOpen'
    BY <1>4, <2>1, <2>4 DEF Adopt, TypeInv, RowsNamed, DueIsOpen, Open, txnVars
  <2>7. QED
    BY <2>5, <2>6 DEF TypeInv
<1>5. QED
  BY <1>1, <1>2, <1>3, <1>4

\* The steps that close a lease unsubmitted.
LEMMA TypeCloseStep ==
    ASSUME TypeInv, NEW l \in Leases, NEW f \in Failures, CloseDue(l, f) \/ Forfeit(l, f)
    PROVE  TypeInv'
<1>1. CASE CloseDue(l, f)
  <2>1. Open(l) /\ at \in Nat /\ CloseUnsubmitted(l, at, "expired", f)
    BY <1>1 DEF CloseDue, TypeInv, TypeOK, DueIsOpen
  <2>2. /\ leases' \in [Leases -> Row] /\ quota' \in [Hotkeys -> Entry]
        /\ leases'[l].hotkey = leases[l].hotkey /\ leases'[l].prompt = leases[l].prompt
        /\ leases'[l].k = leases[l].k
        /\ \A m \in Leases \ {l} : leases'[m] = leases[m]
    BY <2>1, CloseUnsubmittedType
  <2>3. TypeOK'
    BY <1>1, <2>2 DEF CloseDue, TypeInv, TypeOK, clockVars
  <2>4. RowsNamed'
    BY <2>1, <2>2 DEF TypeInv, RowsNamed, Open
  <2>5. DueIsOpen'
    BY <1>1, <2>2 DEF CloseDue, TypeInv, TypeOK, DueIsOpen, Open
  <2>6. QED
    BY <2>3, <2>4, <2>5 DEF TypeInv
<1>2. CASE Forfeit(l, f)
  <2>1. Open(l) /\ now \in Nat /\ CloseUnsubmitted(l, now, "forfeited", f) /\ due = {}
    BY <1>2 DEF Forfeit, TypeInv, TypeOK, DueIsOpen
  <2>2. /\ leases' \in [Leases -> Row] /\ quota' \in [Hotkeys -> Entry]
        /\ leases'[l].hotkey = leases[l].hotkey /\ leases'[l].prompt = leases[l].prompt
        /\ leases'[l].k = leases[l].k
        /\ \A m \in Leases \ {l} : leases'[m] = leases[m]
    BY <2>1, CloseUnsubmittedType
  <2>3. TypeOK'
    BY <1>2, <2>2 DEF Forfeit, TypeInv, TypeOK, clockVars, txnVars
  <2>4. RowsNamed'
    BY <2>1, <2>2 DEF TypeInv, RowsNamed, Open
  <2>5. DueIsOpen'
    BY <1>2, <2>1 DEF Forfeit, DueIsOpen, txnVars
  <2>6. QED
    BY <2>3, <2>4, <2>5 DEF TypeInv
<1>3. QED
  BY <1>1, <1>2

\* The steps of a grant.
LEMMA TypeGrantStep ==
    ASSUME TypeInv,
           \/ GrantBegin \/ GrantSwept
           \/ \E h \in Hotkeys, p \in Prompts, k \in Checkpoints, l \in Leases :
                 GrantClaim(h, p, k, l)
    PROVE  TypeInv'
<1>1. CASE GrantBegin \/ GrantSwept
  <2>1. OpenBatch /\ due = {}
    BY <1>1 DEF GrantBegin, GrantSwept, TypeInv, DueIsOpen
  <2>2. ASSUME NEW h \in Hotkeys PROVE Room(h) \in Nat \cup {-1}
    <3>1. OpenOf(h) \in SUBSET Leases
      BY DEF OpenOf
    <3>2. Cardinality(OpenOf(h)) \in Nat
      BY <3>1, SomeLeasesFinite
    <3>3. quota[h] \in Entry /\ target[h] \in Nat \cup {NoTarget}
      BY DEF TypeInv, TypeOK
    <3>4. Quota(quota[h], target[h]) \in Nat
      <4>1. Quota(quota[h], target[h]) \in Floor..Ceiling
        BY <3>3, QuotaType
      <4>2. QED
        BY SMTT(60), <4>1, QuotaConfigAssumption
    <3>5. LesserOf(Quota(quota[h], target[h]), HotkeyMaxOpen) \in Nat
      BY <3>4, Numbers, LesserNat
    <3> DEFINE limit == LesserOf(Quota(quota[h], target[h]), HotkeyMaxOpen)
               used == Cardinality(OpenOf(h))
               cut == GreaterOf(0, limit - used)
    <3>6. limit \in Nat /\ used \in Nat
      BY <3>2, <3>5
    <3> HIDE DEF limit, used
    <3>7. 0 \in Nat /\ limit - used \in Int
      BY SMTT(60), <3>6
    <3>8. cut \in Nat
      BY <3>7, GreaterNat
    <3>9. Room(h) = IF Banned(h, now) THEN -1 ELSE cut
      BY DEF Room, limit, used
    <3> HIDE DEF cut
    <3>10. QED
      BY <3>8, <3>9
  <2>3. room' \in [Hotkeys -> Nat \cup {-1}] /\ at' \in Nat
    BY <2>1, <2>2 DEF OpenBatch, TypeInv, TypeOK
  <2>4. TypeOK'
    BY <2>1, <2>3 DEF OpenBatch, TypeInv, TypeOK, clockVars
  <2>5. RowsNamed' /\ DueIsOpen'
    BY <2>1 DEF OpenBatch, TypeInv, RowsNamed, DueIsOpen
  <2>6. QED
    BY <2>4, <2>5 DEF TypeInv
<1>2. ASSUME NEW h \in Hotkeys, NEW p \in Prompts, NEW k \in Checkpoints, NEW l \in Leases,
             GrantClaim(h, p, k, l)
      PROVE  TypeInv'
  <2> DEFINE row == [state |-> "open", hotkey |-> h, prompt |-> p, k |-> k, issued |-> at,
                     expires |-> at + Expiry[EnvOf[p]], closed |-> 0, cause |-> NoFailure]
  <2>1. lock = "claims" /\ due = {} /\ leases' = [leases EXCEPT ![l] = row]
    BY <1>2 DEF GrantClaim, TypeInv, DueIsOpen
  <2>2. at \in Nat /\ at + Expiry[EnvOf[p]] \in Nat
    <3>1. Expiry[EnvOf[p]] \in Nat
      BY LeaseBookAssumption
    <3>2. at \in Nat
      BY DEF TypeInv, TypeOK
    <3>3. QED
      BY SMTT(60), <3>1, <3>2
  <2>3. row \in Row
    BY <2>2 DEF Row, LeaseStates, Causes
  <2>4. leases' \in [Leases -> Row]
    BY <2>1, <2>3 DEF TypeInv, TypeOK
  <2>5. quota' \in [Hotkeys -> Entry]
    <3>1. quota[h] \in Entry /\ target[h] \in Nat \cup {NoTarget}
      BY DEF TypeInv, TypeOK
    <3>2. RecordLease(quota[h], target[h]) \in Entry
      BY <3>1, RecordLeaseType
    <3>3. QED
      BY <1>2, <3>2 DEF GrantClaim, TypeInv, TypeOK
  <2>6. room' \in [Hotkeys -> Nat \cup {-1}]
    <3>1. room[h] > 0 /\ room[h] \in Nat \cup {-1}
      BY <1>2 DEF GrantClaim, TypeInv, TypeOK
    <3>2. room[h] - 1 \in Nat
      BY SMTT(60), <3>1
    <3>3. QED
      BY <1>2, <3>2 DEF GrantClaim, TypeInv, TypeOK
  <2>7. TypeOK'
    BY <1>2, <2>4, <2>5, <2>6 DEF GrantClaim, TypeInv, TypeOK, clockVars
  <2>8. RowsNamed'
    <3>1. /\ leases'[l].hotkey = h /\ leases'[l].prompt = p /\ leases'[l].k = k
          /\ \A m \in Leases \ {l} : leases'[m] = leases[m]
      BY <2>1 DEF TypeInv, TypeOK
    <3>2. QED
      BY <3>1 DEF TypeInv, RowsNamed
  <2>9. DueIsOpen'
    BY <1>2, <2>1 DEF GrantClaim, DueIsOpen
  <2>10. QED
    BY <2>7, <2>8, <2>9 DEF TypeInv
<1>3. QED
  BY <1>1, <1>2

\* Updates of a request.
LEMMA SubUpdates ==
    ASSUME TypeInv, NEW t \in Threads
    PROVE  /\ subs[t] \in Sub /\ subs[t].lease \in Leases /\ subs[t].arrived \in Nat
           /\ IdleSub \in Sub
           /\ \A c \in {"idle", "arrived", "held", "grading", "release"} :
                 [subs[t] EXCEPT !.pc = c] \in Sub
           /\ \A l \in Leases : [pc |-> "arrived", lease |-> l, arrived |-> now] \in Sub
<1>1. subs[t] \in Sub /\ now \in Nat
  BY DEF TypeInv, TypeOK
<1>2. QED
  BY <1>1, Numbers DEF Sub, IdleSub

\* The steps of a request that record nothing.
LEMMA TypeRequestStep ==
    ASSUME TypeInv, NEW t \in Threads,
           \/ Hold(t) \/ Refuse(t) \/ Check(t) \/ GradeFails(t) \/ Release(t)
           \/ \E l \in Leases : Arrive(t, l)
    PROVE  TypeInv'
<1> DEFINE n == subs[t].lease
<1>0. subs \in [Threads -> Sub] /\ submitting \in [Leases -> Nat] /\ n \in Leases
        /\ submitting[n] \in Nat
  BY SubUpdates DEF TypeInv, TypeOK
<1>1. CASE Hold(t)
  <2>1. subs' = [subs EXCEPT ![t] = [subs[t] EXCEPT !.pc = "held"]]
    BY <1>0, <1>1 DEF Hold
  <2>2. subs' \in [Threads -> Sub]
    BY <1>0, <2>1, SubUpdates
  <2>3. submitting' \in [Leases -> Nat] /\ due = {}
    BY SMTT(60), <1>0, <1>1 DEF Hold, TypeInv, DueIsOpen
  <2>4. TypeOK'
    BY <1>1, <2>2, <2>3 DEF Hold, TypeInv, TypeOK, clockVars, txnVars
  <2>5. RowsNamed' /\ DueIsOpen'
    BY <1>1, <2>3 DEF Hold, TypeInv, RowsNamed, DueIsOpen, txnVars
  <2>6. QED
    BY <2>4, <2>5 DEF TypeInv
<1>2. CASE Refuse(t)
  <2>1. subs' = [subs EXCEPT ![t] = IdleSub] /\ due = {} /\ lock = "free"
    BY <1>2 DEF Refuse, TypeInv, DueIsOpen
  <2>2. subs' \in [Threads -> Sub]
    BY <1>0, <2>1, SubUpdates
  <2>3. due' \subseteq Leases /\ at' \in Nat /\ lock' \in {"free", "sweep"}
    BY <1>2, SubUpdates DEF Refuse, Due
  <2>4. TypeOK'
    BY <1>2, <2>2, <2>3 DEF Refuse, TypeInv, TypeOK, clockVars
  <2>5. RowsNamed'
    BY <1>2 DEF Refuse, TypeInv, RowsNamed
  <2>6. DueIsOpen'
    BY <1>2 DEF Refuse, DueIsOpen, Due, Open
  <2>7. QED
    BY <2>4, <2>5, <2>6 DEF TypeInv
<1>3. CASE Check(t) \/ GradeFails(t)
  <2>1. /\ \E c \in {"grading", "release"} : subs' = [subs EXCEPT ![t].pc = c]
        /\ lock = "free" /\ due = {}
    BY <1>3 DEF Check, GradeFails, TypeInv, DueIsOpen
  <2>2. \E c \in {"grading", "release"} : subs' = [subs EXCEPT ![t] = [subs[t] EXCEPT !.pc = c]]
    BY <1>0, <2>1
  <2>3. subs' \in [Threads -> Sub]
    BY <1>0, <2>2, SubUpdates
  <2>4. TypeOK'
    BY <1>3, <2>3 DEF Check, GradeFails, TypeInv, TypeOK, clockVars, txnVars
  <2>5. RowsNamed' /\ DueIsOpen'
    BY <1>3, <2>1 DEF Check, GradeFails, TypeInv, RowsNamed, DueIsOpen, txnVars
  <2>6. QED
    BY <2>4, <2>5 DEF TypeInv
<1>4. CASE Release(t)
  <2>1. subs' = [subs EXCEPT ![t] = IdleSub] /\ due = {}
    BY <1>4 DEF Release, TypeInv, DueIsOpen
  <2>2. subs' \in [Threads -> Sub]
    BY <1>0, <2>1, SubUpdates
  <2>3. submitting' \in [Leases -> Nat]
    <3>1. \A l \in Leases : submitting[l] - 1 \in Int
      BY SMTT(60) DEF TypeInv, TypeOK
    <3>2. \A l \in Leases : GreaterOf(0, submitting[l] - 1) \in Nat
      BY <3>1, GreaterNat
    <3>3. QED
      BY <1>0, <1>4, <3>2 DEF Release, TypeInv, TypeOK
  <2>4. TypeOK'
    BY <1>4, <2>2, <2>3 DEF Release, TypeInv, TypeOK, clockVars, txnVars
  <2>5. RowsNamed' /\ DueIsOpen'
    BY <1>4, <2>1 DEF Release, TypeInv, RowsNamed, DueIsOpen, txnVars
  <2>6. QED
    BY <2>4, <2>5 DEF TypeInv
<1>5. ASSUME NEW l \in Leases, Arrive(t, l) PROVE TypeInv'
  <2>1. subs' = [subs EXCEPT ![t] = [pc |-> "arrived", lease |-> l, arrived |-> now]]
    BY <1>5 DEF Arrive
  <2>2. subs' \in [Threads -> Sub]
    BY <1>0, <2>1, SubUpdates
  <2>3. TypeOK'
    BY <1>5, <2>2 DEF Arrive, TypeInv, TypeOK, clockVars, txnVars
  <2>4. RowsNamed' /\ DueIsOpen'
    BY <1>5 DEF Arrive, TypeInv, RowsNamed, DueIsOpen, Open, txnVars
  <2>5. QED
    BY <2>3, <2>4 DEF TypeInv
<1>6. QED
  BY <1>1, <1>2, <1>3, <1>4, <1>5

\* A recorded scan leaves a prompt.
LEMMA OutcomeType ==
    ASSUME TypeInv, NEW p \in Prompts, NEW k \in Checkpoints, NEW v
    PROVE  /\ Outcome(p, k, v) \in Prompt
           /\ Outcome(p, k, v).state \in {"cooldown", "blacklisted"}
<1>1. prompts[p] \in Prompt /\ cooldown[EnvOf[p]] \in Nat
  BY LeaseBookAssumption DEF TypeInv, TypeOK
<1>2. k \in Nat /\ latest \in Int
  BY SMTT(60), Numbers DEF TypeInv, TypeOK, Checkpoints, NoCheckpoint
<1> DEFINE start == GreaterOf(k, latest)
           until == GreaterOf(start + cooldown[EnvOf[p]], prompts[p].until)
           easy == prompts[p].easy \/ v = TOO_EASY
<1>3. start \in Nat
  BY <1>2, GreaterNat
<1>4. until \in Nat
  <2> DEFINE first == start + cooldown[EnvOf[p]]
             prior == prompts[p].until
  <2> HIDE DEF start
  <2>1. prior \in Int
    BY SMTT(60), <1>1 DEF Prompt
  <2>2. first \in Nat
    BY SMTT(60), <1>1, <1>3
  <2> HIDE DEF first, prior
  <2>3. GreaterOf(first, prior) \in Nat
    BY <2>1, <2>2, GreaterNat
  <2>4. QED
    BY <2>3 DEF first, prior
<1>5. easy \in BOOLEAN
  BY <1>1 DEF Prompt
<1>6. Outcome(p, k, v) = IF prompts[p].state = "blacklisted" \/ (v = TOO_EASY /\ prompts[p].easy)
        THEN [prompts[p] EXCEPT !.state = "blacklisted", !.until = 0, !.start = 0, !.easy = easy]
        ELSE [state |-> "cooldown", start |-> start, until |-> until, easy |-> easy]
  BY DEF Outcome
<1> HIDE DEF start, until, easy
<1>7. /\ [prompts[p] EXCEPT !.state = "blacklisted", !.until = 0, !.start = 0, !.easy = easy]
           \in Prompt
      /\ [prompts[p] EXCEPT !.state = "blacklisted", !.until = 0, !.start = 0,
                            !.easy = easy].state = "blacklisted"
  BY <1>1, <1>5 DEF Prompt
<1>8. [state |-> "cooldown", start |-> start, until |-> until, easy |-> easy] \in Prompt
  BY <1>3, <1>4, <1>5 DEF Prompt
<1>9. QED
  BY SMTT(60), <1>6, <1>7, <1>8

\* One more event keeps the events typed.
LEMMA EventAppended ==
    ASSUME TypeInv, NEW l \in Leases, NEW e \in PayEvents
    PROVE  [events EXCEPT ![l] = Append(@, e)] \in [Leases -> Seq(PayEvents)]
<1>1. events \in [Leases -> Seq(PayEvents)]
  BY DEF TypeInv, TypeOK
<1>2. Append(events[l], e) \in Seq(PayEvents)
  BY SMTT(60), <1>1
<1>3. QED
  BY <1>1, <1>2

\* The transaction of a submission: what it leaves alone, and what it writes.
LEMMA CommitEffect ==
    ASSUME TypeInv, NEW t \in Threads, NEW v \in Verdicts, NEW drawn \in Draws,
           NEW enough \in Lengths, Commit(t, v, drawn, enough),
           Submittable(subs[t].lease, subs[t].arrived)
    PROVE  LET l == subs[t].lease
               p == leases[l].prompt
           IN  /\ l \in Leases /\ Open(l) /\ p \in Prompts /\ leases[l].k \in Checkpoints
               /\ leases' \in [Leases -> Row] /\ leases'[l].state = "submitted"
               /\ leases'[l].hotkey = leases[l].hotkey
               /\ leases'[l].prompt = p /\ leases'[l].k = leases[l].k
               /\ \A m \in Leases \ {l} : leases'[m] = leases[m]
               /\ groups' \in [Leases -> Group] /\ groups'[l].verdict = v
               /\ groups'[l].first = (Scanned(v) /\ prompts[p].state = "new")
               /\ \A m \in Leases \ {l} : groups'[m] = groups[m]
               /\ prompts' \in [Prompts -> Prompt]
               /\ Scanned(v) => prompts'[p] = Outcome(p, leases[l].k, v)
               /\ ~Scanned(v) => prompts' = prompts
               /\ \A q \in Prompts \ {p} : prompts'[q] = prompts[q]
<1> DEFINE l == subs[t].lease
           p == leases[l].prompt
           k == leases[l].k
           outside == v \in {TOO_EASY, TOO_HARD}
           first == Scanned(v) /\ prompts[p].state = "new"
           row == [leases[l] EXCEPT !.state = "submitted", !.closed = subs[t].arrived]
           group == [verdict |-> v, first |-> first, enough |-> outside /\ enough,
                     training |-> IF v = IN_ZONE THEN "queued" ELSE "none",
                     audit |-> IF ~outside THEN "none"
                               ELSE IF drawn THEN "pending" ELSE "not_drawn"]
<1>1. /\ l \in Leases /\ subs[t].arrived \in Nat
      /\ leases \in [Leases -> Row] /\ groups \in [Leases -> Group]
      /\ prompts \in [Prompts -> Prompt] /\ leases[l] \in Row
  BY SubUpdates DEF TypeInv, TypeOK
<1>2. Open(l)
  BY DEF Submittable
<1>3. p \in Prompts /\ k \in Checkpoints
  BY <1>1, <1>2 DEF TypeInv, RowsNamed, Open
<1>4. leases' = [leases EXCEPT ![l] = row]
  BY <1>1 DEF Commit
<1>5. row \in Row
  BY <1>1, RowUpdates DEF LeaseStates, Causes
<1>6. /\ row.state = "submitted" /\ row.prompt = p /\ row.k = k
      /\ row.hotkey = leases[l].hotkey
  BY <1>1 DEF Row
<1>7. groups' = [groups EXCEPT ![l] = group]
  BY DEF Commit
<1>8. group \in Group
  <2>1. first \in BOOLEAN /\ (outside /\ enough) \in BOOLEAN
    BY LeaseBookAssumption
  <2>2. v \in AllVerdicts \cup {"none"}
    BY LeaseBookAssumption
  <2> HIDE DEF first, outside
  <2>3. QED
    BY <2>1, <2>2 DEF Group
<1>9. group.verdict = v /\ group.first = first
  OBVIOUS
<1>10. prompts' = IF Scanned(v) THEN [prompts EXCEPT ![p] = Outcome(p, k, v)] ELSE prompts
  BY DEF Commit
<1>11. Outcome(p, k, v) \in Prompt
  BY <1>3, OutcomeType
<1> HIDE DEF row, group, l, p, k, first
<1>12. /\ leases' \in [Leases -> Row] /\ leases'[l] = row
       /\ \A m \in Leases \ {l} : leases'[m] = leases[m]
  BY <1>1, <1>4, <1>5
<1>13. /\ groups' \in [Leases -> Group] /\ groups'[l] = group
       /\ \A m \in Leases \ {l} : groups'[m] = groups[m]
  BY <1>1, <1>7, <1>8
<1>14. /\ prompts' \in [Prompts -> Prompt]
       /\ Scanned(v) => prompts'[p] = Outcome(p, k, v)
       /\ ~Scanned(v) => prompts' = prompts
       /\ \A q \in Prompts \ {p} : prompts'[q] = prompts[q]
  BY <1>1, <1>3, <1>10, <1>11
<1>15. QED
  BY <1>1, <1>2, <1>3, <1>6, <1>9, <1>12, <1>13, <1>14 DEF l, p, k, first

\* The transaction of a submission.
LEMMA TypeCommitStep ==
    ASSUME TypeInv, NEW t \in Threads, NEW v \in Verdicts, NEW drawn \in Draws,
           NEW enough \in Lengths, Commit(t, v, drawn, enough)
    PROVE  TypeInv'
<1>1. lock = "free" /\ due = {} /\ subs' = [subs EXCEPT ![t].pc = "release"]
  BY DEF Commit, TypeInv, DueIsOpen
<1>2. subs' \in [Threads -> Sub]
  <2>1. subs' = [subs EXCEPT ![t] = [subs[t] EXCEPT !.pc = "release"]]
    BY <1>1 DEF TypeInv, TypeOK
  <2>2. QED
    BY <2>1, SubUpdates DEF TypeInv, TypeOK
<1>3. DueIsOpen'
  BY <1>1 DEF Commit, DueIsOpen, txnVars
<1>4. CASE ~Submittable(subs[t].lease, subs[t].arrived)
  <2>1. UNCHANGED <<leases, quota, prompts, groups, events>>
    BY <1>4 DEF Commit
  <2>2. TypeOK' /\ RowsNamed'
    BY <1>2, <2>1 DEF Commit, TypeInv, TypeOK, RowsNamed, clockVars, txnVars
  <2>3. QED
    BY <1>3, <2>2 DEF TypeInv
<1>5. CASE Submittable(subs[t].lease, subs[t].arrived)
  <2> DEFINE l == subs[t].lease
             h == leases[l].hotkey
             closed == IF v = REJECTED THEN RecordRejection(quota[h], target[h])
                       ELSE RecordSubmission(quota[h])
  <2>1. h \in Hotkeys /\ quota[h] \in Entry /\ target[h] \in Nat \cup {NoTarget} /\ l \in Leases
    BY <1>5, CommitEffect DEF TypeInv, TypeOK, RowsNamed, Open
  <2>2. closed \in Entry
    BY <2>1, RecordRejectionType, RecordSubmissionType
  <2>3. RecordPaid(closed, target[h]) \in Entry
    BY <2>1, <2>2, RecordPaidType
  <2>4. \E e \in {closed, RecordPaid(closed, target[h])} : quota' = [quota EXCEPT ![h] = e]
    BY <1>5 DEF Commit
  <2> HIDE DEF closed
  <2>5. quota' \in [Hotkeys -> Entry]
    <3>1. quota \in [Hotkeys -> Entry]
      BY DEF TypeInv, TypeOK
    <3>2. PICK e \in Entry : quota' = [quota EXCEPT ![h] = e]
      BY <2>2, <2>3, <2>4
    <3> HIDE DEF h
    <3>3. QED
      BY <3>1, <3>2
  <2>6. events' \in [Leases -> Seq(PayEvents)]
    <3> DEFINE e == FirstScanEvent("not_drawn", enough)
    <3>1. e \in PayEvents
      BY DEF FirstScanEvent, PayEvents
    <3>2. events' = events \/ events' = [events EXCEPT ![l] = Append(@, e)]
      BY <1>5 DEF Commit
    <3>3. events \in [Leases -> Seq(PayEvents)]
      BY DEF TypeInv, TypeOK
    <3> HIDE DEF e, l
    <3>4. [events EXCEPT ![l] = Append(@, e)] \in [Leases -> Seq(PayEvents)]
      BY <2>1, <3>1, EventAppended
    <3>5. QED
      BY <3>2, <3>3, <3>4
  <2>7. leases' \in [Leases -> Row] /\ groups' \in [Leases -> Group]
          /\ prompts' \in [Prompts -> Prompt]
    BY <1>5, CommitEffect
  <2>8. TypeOK'
    BY <1>2, <2>5, <2>6, <2>7 DEF Commit, TypeInv, TypeOK, clockVars, txnVars
  <2>9. RowsNamed'
    BY <1>5, CommitEffect DEF TypeInv, RowsNamed, Open
  <2>10. QED
    BY <1>3, <2>8, <2>9 DEF TypeInv
<1>6. QED
  BY <1>4, <1>5

\* The reports on a recorded group.
LEMMA TypeReportStep ==
    ASSUME TypeInv, NEW l \in Leases,
           \/ \E accepted \in TrainingResults : ReportTraining(l, accepted)
           \/ \E r \in AuditResults : ReportAudit(l, r)
    PROVE  TypeInv'
<1>1. \A paid \in BOOLEAN : Credited(l, paid) \in [Hotkeys -> Entry]
  <2> SUFFICES ASSUME NEW paid \in BOOLEAN, leases[l].state = "submitted"
               PROVE  [quota EXCEPT ![leases[l].hotkey] = RecordPaid(@, target[leases[l].hotkey])]
                        \in [Hotkeys -> Entry]
    BY DEF Credited, TypeInv, TypeOK
  <2> DEFINE h == leases[l].hotkey
  <2>1. h \in Hotkeys /\ quota[h] \in Entry /\ target[h] \in Nat \cup {NoTarget}
    BY DEF TypeInv, TypeOK, RowsNamed
  <2>2. RecordPaid(quota[h], target[h]) \in Entry
    BY <2>1, RecordPaidType
  <2>3. QED
    BY <2>1, <2>2 DEF TypeInv, TypeOK
<1>2. groups \in [Leases -> Group] /\ groups[l] \in Group
  BY DEF TypeInv, TypeOK
<1>3. ASSUME NEW accepted \in TrainingResults, ReportTraining(l, accepted) PROVE TypeInv'
  <2>1. accepted \in BOOLEAN
    BY LeaseBookAssumption
  <2>2. quota' \in [Hotkeys -> Entry]
    BY <1>1, <1>3, <2>1 DEF ReportTraining
  <2>3. groups' \in [Leases -> Group]
    BY <1>2, <1>3 DEF ReportTraining, Group, REJECTED
  <2>4. events' \in [Leases -> Seq(PayEvents)]
    <3>1. (IF accepted THEN "trained" ELSE "untrained") \in PayEvents
      BY DEF PayEvents
    <3>2. QED
      BY <1>3, <3>1, EventAppended DEF ReportTraining
  <2>5. TypeOK'
    BY <1>3, <2>2, <2>3, <2>4 DEF ReportTraining, TypeInv, TypeOK, clockVars, txnVars
  <2>6. RowsNamed' /\ DueIsOpen'
    BY <1>3 DEF ReportTraining, TypeInv, RowsNamed, DueIsOpen, Open, txnVars
  <2>7. QED
    BY <2>5, <2>6 DEF TypeInv
<1>4. ASSUME NEW r \in AuditResults, ReportAudit(l, r) PROVE TypeInv'
  <2> DEFINE event == FirstScanEvent(r, groups[l].enough)
  <2>1. event \in PayEvents
    BY DEF FirstScanEvent, PayEvents
  <2>2. quota' \in [Hotkeys -> Entry]
    BY <1>1, <1>4 DEF ReportAudit
  <2>3. groups' \in [Leases -> Group]
    BY <1>2, <1>4, LeaseBookAssumption DEF ReportAudit, Group
  <2> HIDE DEF event
  <2>4. events' \in [Leases -> Seq(PayEvents)]
    <3>1. events' = events \/ events' = [events EXCEPT ![l] = Append(@, event)]
      BY <1>4 DEF ReportAudit, event
    <3>2. events \in [Leases -> Seq(PayEvents)]
      BY DEF TypeInv, TypeOK
    <3>3. QED
      BY SMTT(60), <2>1, <3>1, <3>2, EventAppended
  <2>5. TypeOK'
    BY <1>4, <2>2, <2>3, <2>4 DEF ReportAudit, TypeInv, TypeOK, clockVars, txnVars
  <2>6. RowsNamed' /\ DueIsOpen'
    BY <1>4 DEF ReportAudit, TypeInv, RowsNamed, DueIsOpen, Open, txnVars
  <2>7. QED
    BY <2>5, <2>6 DEF TypeInv
<1>5. QED
  BY <1>3, <1>4

\* Every step keeps TypeInv.
LEMMA TypeStep == TypeInv /\ [Next]_vars => TypeInv'
<1> SUFFICES ASSUME TypeInv, [Next]_vars PROVE TypeInv'
  OBVIOUS
<1>1. CASE UNCHANGED vars
  BY <1>1 DEF vars, TypeInv, TypeOK, RowsNamed, DueIsOpen, Open
<1>2. CASE Tick \/ Crash \/ ExpireDue \/ OperatorStep \/ GrantSweep \/ GrantEnd
  BY <1>2, TypeQuietStep DEF OperatorStep
<1>3. CASE MarkAlive \/ Boot \/ Revise \/ (\E k \in Checkpoints : Adopt(k))
  BY <1>3, TypeClockStep
<1>4. CASE \E l \in Leases, f \in Failures : CloseDue(l, f) \/ Forfeit(l, f)
  BY <1>4, TypeCloseStep
<1>5. CASE GrantBegin \/ GrantSwept
             \/ \E h \in Hotkeys, p \in Prompts, k \in Checkpoints, l \in Leases :
                   GrantClaim(h, p, k, l)
  BY <1>5, TypeGrantStep
<1>6. CASE \E t \in Threads : SubmissionStep(t) \/ \E l \in Leases : Arrive(t, l)
  BY <1>6, TypeRequestStep, TypeCommitStep DEF SubmissionStep
<1>7. CASE \/ \E l \in Leases, accepted \in TrainingResults : ReportTraining(l, accepted)
           \/ \E l \in Leases, r \in AuditResults : ReportAudit(l, r)
  BY <1>7, TypeReportStep
<1>8. QED
  BY <1>1, <1>2, <1>3, <1>4, <1>5, <1>6, <1>7
  DEF Next, LockStep, MinerStep, TrainerStep, OperatorStep

\* Every variable of the book stays in its type, whatever the constants.
THEOREM TypeCorrect == Spec => []TypeOK
<1>1. TypeInv => TypeOK
  BY DEF TypeInv
<1>2. QED
  BY <1>1, TypeInit, TypeStep, PTL DEF Spec

-----------------------------------------------------------------------------
(* Slots: what the quota counts is what the book has.                      *)

\* What the quota counts of a hotkey's leases adds up.
Balanced(e) == e.leased = e.in_use + e.submitted + e.rejected + e.expired + e.released

\* What a hotkey may hold, and the room a batch of grants still has for it.
Most(h) == LesserOf(Quota(quota[h], target[h]), HotkeyMaxOpen)
RoomInv ==
    lock = "claims" => \A h \in Hotkeys :
        room[h] > 0 => Cardinality(OpenOf(h)) + room[h] <= Most(h)

SlotInv == InUseIsOpen /\ LeasesAccounted /\ RoomInv

\* What GrantWithinQuota says of a step.
WithinQuota ==
    \A h \in Hotkeys : Cardinality(OpenOf(h)') > Cardinality(OpenOf(h))
                           => Cardinality(OpenOf(h)') <= LesserOf(Quota(quota[h], target[h]), HotkeyMaxOpen)

\* A lease that ends leaves the balance, if its slot was in use.
LEMMA EndedBalance ==
    ASSUME NEW e \in Entry, NEW f \in Entry, Ended(e, f), e.in_use > 0, Balanced(e)
    PROVE  f.in_use = e.in_use - 1 /\ Balanced(f)
<1>1. f.in_use = e.in_use - 1 /\ f.leased = e.leased
  BY SMTT(60), EntryCounters DEF Ended, Slotless, GreaterOf
<1>2. \/ /\ f.submitted = e.submitted + 1 /\ f.rejected = e.rejected
         /\ f.expired = e.expired /\ f.released = e.released
      \/ /\ f.submitted = e.submitted /\ f.rejected = e.rejected + 1
         /\ f.expired = e.expired /\ f.released = e.released
      \/ /\ f.submitted = e.submitted /\ f.rejected = e.rejected
         /\ f.expired = e.expired + 1 /\ f.released = e.released
      \/ /\ f.submitted = e.submitted /\ f.rejected = e.rejected
         /\ f.expired = e.expired /\ f.released = e.released + 1
  BY DEF Ended
<1>3. Balanced(f)
  BY SMTT(60), <1>1, <1>2, EntryCounters DEF Balanced
<1>4. QED
  BY <1>1, <1>3

\* A lease that is granted leaves it too.
LEMMA LeaseBalance ==
    ASSUME NEW e \in Entry, NEW t \in Nat \cup {NoTarget}, Balanced(e)
    PROVE  RecordLease(e, t).in_use = e.in_use + 1 /\ Balanced(RecordLease(e, t))
<1> DEFINE r == RecordLease(e, t)
<1>1. /\ r.in_use = e.in_use + 1 /\ r.leased = e.leased + 1 /\ r.submitted = e.submitted
      /\ r.rejected = e.rejected /\ r.expired = e.expired /\ r.released = e.released
  <2> DEFINE b == [e EXCEPT !.in_use = @ + 1, !.leased = @ + 1]
  <2>1. /\ b.leased = e.leased + 1 /\ b.submitted = e.submitted
        /\ b.rejected = e.rejected /\ b.expired = e.expired /\ b.released = e.released
    BY DEF Entry
  <2>2. SameCounts(b, r) /\ r.in_use = e.in_use + 1
    BY RecordLeaseType
  <2> HIDE DEF b, r
  <2>3. QED
    BY <2>1, <2>2 DEF SameCounts
<1> HIDE DEF r
<1>2. Balanced(r)
  BY SMTT(60), <1>1, EntryCounters DEF Balanced
<1>3. QED
  BY <1>1, <1>2 DEF r

\* What a hotkey may hold is a natural number.
LEMMA MostNat == ASSUME TypeInv, NEW h \in Hotkeys PROVE Most(h) \in Nat
<1>1. quota[h] \in Entry /\ target[h] \in Nat \cup {NoTarget}
  BY DEF TypeInv, TypeOK
<1>2. Quota(quota[h], target[h]) \in Floor..Ceiling
  BY <1>1, QuotaType
<1>3. Floor..Ceiling \subseteq Nat
  BY SMTT(60), QuotaConfigAssumption
<1>4. QED
  BY <1>2, <1>3, LesserNat, Numbers DEF Most

\* A step that opens and closes nothing.
LEMMA SlotsKept ==
    ASSUME TypeInv, SlotInv, RoomInv', \A h \in Hotkeys : OpenOf(h)' = OpenOf(h),
           \A h \in Hotkeys : SameCounts(quota[h], quota'[h])
    PROVE  SlotInv' /\ WithinQuota
<1>1. InUseIsOpen'
  BY DEF SlotInv, InUseIsOpen, SameCounts
<1>2. LeasesAccounted'
  BY DEF SlotInv, LeasesAccounted, SameCounts
<1>3. WithinQuota
  <2> SUFFICES ASSUME NEW h \in Hotkeys PROVE ~(Cardinality(OpenOf(h)) > Cardinality(OpenOf(h)))
    BY DEF WithinQuota
  <2>1. Cardinality(OpenOf(h)) \in Nat
    BY SomeLeasesFinite DEF OpenOf
  <2>2. QED
    BY SMTT(60), <2>1
<1>4. QED
  BY <1>1, <1>2, <1>3 DEF SlotInv

\* A step in which one lease ends.
LEMMA SlotsEnded ==
    ASSUME TypeInv, SlotInv, NEW l \in Leases, Open(l), leases'[l].state # "open", lock' # "claims",
           leases'[l].hotkey = leases[l].hotkey,
           \A m \in Leases \ {l} : leases'[m] = leases[m],
           NEW f \in Entry, Ended(quota[leases[l].hotkey], f),
           quota' = [quota EXCEPT ![leases[l].hotkey] = f]
    PROVE  SlotInv' /\ WithinQuota
<1> DEFINE h == leases[l].hotkey
<1>1. h \in Hotkeys /\ quota \in [Hotkeys -> Entry]
  BY DEF TypeInv, TypeOK, RowsNamed, Open
<1>2. \A g \in Hotkeys \ {h} : OpenOf(g)' = OpenOf(g) /\ quota'[g] = quota[g]
  BY <1>1 DEF OpenOf, Open
<1>3. l \in OpenOf(h) /\ OpenOf(h)' = OpenOf(h) \ {l} /\ quota'[h] = f
  BY <1>1 DEF OpenOf, Open
<1>4. \A g \in Hotkeys : IsFiniteSet(OpenOf(g)) /\ Cardinality(OpenOf(g)) \in Nat
  BY SomeLeasesFinite DEF OpenOf
<1>5. Cardinality(OpenOf(h) \ {l}) = Cardinality(OpenOf(h)) - 1 /\ Cardinality(OpenOf(h)) > 0
  <2>1. Cardinality(OpenOf(h) \ {l}) = Cardinality(OpenOf(h)) - 1
    BY <1>1, <1>3, <1>4, FS_RemoveElement
  <2>2. OpenOf(h) # {}
    BY <1>3
  <2>3. Cardinality(OpenOf(h)) # 0
    BY <1>1, <1>4, <2>2, FS_EmptySet
  <2>4. QED
    BY SMTT(60), <1>1, <1>4, <2>1, <2>3
<1>6. f.in_use = quota[h].in_use - 1 /\ Balanced(f)
  <2>1. quota[h] \in Entry /\ quota[h].in_use = Cardinality(OpenOf(h)) /\ Balanced(quota[h])
    BY <1>1 DEF SlotInv, InUseIsOpen, LeasesAccounted, Balanced
  <2>2. quota[h].in_use > 0
    BY <1>5, <2>1
  <2>3. QED
    BY <2>1, <2>2, EndedBalance
<1>7. InUseIsOpen'
  <2>1. \A g \in Hotkeys : quota'[g].in_use = Cardinality(OpenOf(g)')
    BY <1>1, <1>2, <1>3, <1>5, <1>6 DEF SlotInv, InUseIsOpen
  <2>2. QED
    BY <2>1 DEF InUseIsOpen
<1>8. LeasesAccounted'
  BY <1>1, <1>2, <1>3, <1>6 DEF SlotInv, LeasesAccounted, Balanced
<1>9. WithinQuota
  <2> SUFFICES ASSUME NEW g \in Hotkeys PROVE ~(Cardinality(OpenOf(g)') > Cardinality(OpenOf(g)))
    BY DEF WithinQuota
  <2>1. CASE g # h
    BY SMTT(60), <1>2, <1>4, <2>1
  <2>2. CASE g = h
    <3>1. Cardinality(OpenOf(g)') = Cardinality(OpenOf(g)) - 1
      BY <1>3, <1>5, <2>2
    <3>2. QED
      BY SMTT(60), <1>4, <3>1
  <2>3. QED
    BY <2>1, <2>2
<1>10. QED
  BY <1>7, <1>8, <1>9 DEF SlotInv, RoomInv

\* Init establishes SlotInv.
LEMMA SlotInit == Init => SlotInv
<1> SUFFICES ASSUME Init PROVE SlotInv
  OBVIOUS
<1>1. \A h \in Hotkeys : OpenOf(h) = {}
  BY DEF Init, OpenOf, Open, NoRow
<1>2. Cardinality({}) = 0
  BY FS_EmptySet
<1>3. \A h \in Hotkeys : quota[h] = NewEntry
  BY DEF Init
<1>4. NewEntry.in_use = 0 /\ Balanced(NewEntry)
  BY SMTT(60) DEF NewEntry, Balanced
<1>5. lock # "claims"
  BY DEF Init
<1>6. InUseIsOpen
  BY <1>1, <1>2, <1>3, <1>4 DEF InUseIsOpen
<1>7. LeasesAccounted
  BY <1>3, <1>4 DEF LeasesAccounted, Balanced
<1>8. QED
  BY <1>5, <1>6, <1>7 DEF SlotInv, RoomInv

\* The open leases of every hotkey stay the same.
SameOpen ==
    \A l \in Leases : /\ leases'[l].state = "open" <=> leases[l].state = "open"
                      /\ leases'[l].hotkey = leases[l].hotkey

LEMMA SameOpenOf == ASSUME SameOpen PROVE \A h : OpenOf(h)' = OpenOf(h)
BY DEF SameOpen, OpenOf, Open

LEMMA SameOpenQuota ==
    ASSUME TypeInv, SlotInv, SameOpen, quota' = quota,
           lock' # "claims" \/ UNCHANGED <<lock, room, target>>
    PROVE  SlotInv' /\ WithinQuota
<1>1. RoomInv'
  BY SameOpenOf DEF SlotInv, RoomInv, Most
<1>2. \A h \in Hotkeys : SameCounts(quota[h], quota'[h])
  BY DEF SameCounts
<1>3. QED
  BY <1>1, <1>2, SameOpenOf, SlotsKept

\* Steps that leave the leases as they are.
LEMMA SlotQuietStep ==
    ASSUME TypeInv, SlotInv,
           \/ Tick \/ Crash \/ Revise \/ ExpireDue \/ GrantSweep \/ GrantEnd
           \/ \E e \in Envs, c \in Cooldowns : SetCooldown(e, c)
           \/ \E h \in Hotkeys, n \in BanLengths : Ban(h, n)
           \/ \E h \in Hotkeys, x \in Targets : Measure(h, x)
           \/ \E t \in Threads : Hold(t) \/ Refuse(t) \/ Check(t) \/ GradeFails(t) \/ Release(t)
           \/ \E t \in Threads, l \in Leases : Arrive(t, l)
    PROVE  SlotInv' /\ WithinQuota
<1>1. UNCHANGED <<leases, quota>> /\ lock' # "claims"
  <2>1. CASE Tick
    BY <2>1 DEF Tick, txnVars
  <2>2. CASE Crash
    BY <2>2 DEF Crash, txnVars
  <2>3. CASE Revise
    BY <2>3 DEF Revise, txnVars
  <2>4. CASE ExpireDue
    BY <2>4 DEF ExpireDue
  <2>5. CASE GrantSweep
    BY <2>5 DEF GrantSweep
  <2>6. CASE GrantEnd
    BY <2>6 DEF GrantEnd
  <2>7. CASE \E e \in Envs, c \in Cooldowns : SetCooldown(e, c)
    BY <2>7 DEF SetCooldown, txnVars
  <2>8. CASE \E h \in Hotkeys, n \in BanLengths : Ban(h, n)
    BY <2>8 DEF Ban, txnVars
  <2>9. CASE \E h \in Hotkeys, x \in Targets : Measure(h, x)
    BY <2>9 DEF Measure, txnVars
  <2>10. CASE \E t \in Threads : Hold(t) \/ Refuse(t) \/ Check(t) \/ GradeFails(t) \/ Release(t)
    <3>1. PICK t \in Threads : Hold(t) \/ Refuse(t) \/ Check(t) \/ GradeFails(t) \/ Release(t)
      BY <2>10
    <3>2. CASE Hold(t)
      BY <3>2 DEF Hold, txnVars
    <3>3. CASE Refuse(t)
      BY <3>3 DEF Refuse
    <3>4. CASE Check(t)
      BY <3>4 DEF Check, txnVars
    <3>5. CASE GradeFails(t)
      BY <3>5 DEF GradeFails, txnVars
    <3>6. CASE Release(t)
      BY <3>6 DEF Release, txnVars
    <3>7. QED
      BY <3>1, <3>2, <3>3, <3>4, <3>5, <3>6
  <2>11. CASE \E t \in Threads, l \in Leases : Arrive(t, l)
    BY <2>11 DEF Arrive, txnVars
  <2>12. QED
    BY <2>1, <2>2, <2>3, <2>4, <2>5, <2>6, <2>7, <2>8, <2>9, <2>10, <2>11
<1>2. SameOpen
  BY <1>1 DEF SameOpen
<1>3. QED
  BY <1>1, <1>2, SameOpenQuota

\* The mark, the restart (which counts the open leases anew, and finds as many)
\* and a new checkpoint.
LEMMA SlotClockStep ==
    ASSUME TypeInv, SlotInv, MarkAlive \/ Boot \/ \E k \in Checkpoints : Adopt(k)
    PROVE  SlotInv' /\ WithinQuota
<1>1. SameOpen
  <2> SUFFICES ASSUME NEW l \in Leases
               PROVE  /\ leases'[l].state = "open" <=> leases[l].state = "open"
                      /\ leases'[l].hotkey = leases[l].hotkey
    BY DEF SameOpen
  <2>0. leases[l] \in Row /\ GivenBack[l] \in Row
    BY GivenBackType DEF TypeInv, TypeOK
  <2>1. CASE MarkAlive
    <3>1. leases' = leases \/ leases' = GivenBack
      BY <2>1 DEF MarkAlive
    <3>2. QED
      BY <3>1, GivenBackType
  <2>2. CASE Boot
    <3>1. \/ leases'[l] = leases[l]
          \/ leases'[l] = [GivenBack[l] EXCEPT !.expires = GreaterOf(@, now + RestartGrace)]
      BY <2>2 DEF Boot
    <3>2. \A x : /\ [GivenBack[l] EXCEPT !.expires = x].state = GivenBack[l].state
                 /\ [GivenBack[l] EXCEPT !.expires = x].hotkey = GivenBack[l].hotkey
      BY <2>0 DEF Row
    <3>3. QED
      BY <3>1, <3>2, GivenBackType
  <2>3. CASE \E k \in Checkpoints : Adopt(k)
    <3>1. \/ leases'[l] = leases[l]
          \/ leases'[l] = [leases[l] EXCEPT !.state = "pruned"] /\ leases[l].state # "open"
      BY <2>3 DEF Adopt
    <3>2. /\ [leases[l] EXCEPT !.state = "pruned"].state = "pruned"
          /\ [leases[l] EXCEPT !.state = "pruned"].hotkey = leases[l].hotkey
      BY <2>0 DEF Row
    <3>3. QED
      BY <3>1, <3>2
  <2>4. QED
    BY <2>1, <2>2, <2>3
<1>2. quota' = quota /\ UNCHANGED <<lock, room, target>>
  <2>1. CASE Boot
    <3>1. /\ quota' = [h \in Hotkeys |-> [quota[h] EXCEPT !.in_use = Cardinality(OpenOf(h))]]
          /\ UNCHANGED <<lock, room, target>>
      BY <2>1 DEF Boot, txnVars
    <3>2. \A h \in Hotkeys : [quota[h] EXCEPT !.in_use = Cardinality(OpenOf(h))] = quota[h]
      <4> SUFFICES ASSUME NEW h \in Hotkeys
                   PROVE  [quota[h] EXCEPT !.in_use = Cardinality(OpenOf(h))] = quota[h]
        OBVIOUS
      <4>1. quota[h] \in Entry /\ Cardinality(OpenOf(h)) = quota[h].in_use
        BY DEF TypeInv, TypeOK, SlotInv, InUseIsOpen
      <4>2. [quota[h] EXCEPT !.in_use = quota[h].in_use] = quota[h]
        BY <4>1 DEF Entry
      <4>3. QED
        BY <4>1, <4>2
    <3>3. quota \in [Hotkeys -> Entry]
      BY DEF TypeInv, TypeOK
    <3>4. quota = [h \in Hotkeys |-> quota[h]]
      BY <3>3
    <3>5. QED
      BY <3>1, <3>2, <3>4
  <2>2. CASE MarkAlive
    BY <2>2 DEF MarkAlive, txnVars
  <2>3. CASE \E k \in Checkpoints : Adopt(k)
    BY <2>3 DEF Adopt, txnVars
  <2>4. QED
    BY <2>1, <2>2, <2>3
<1>3. QED
  BY <1>1, <1>2, SameOpenQuota

\* A lease ends unsubmitted.
LEMMA SlotCloseStep ==
    ASSUME TypeInv, SlotInv, NEW l \in Leases, NEW failure \in Failures,
           CloseDue(l, failure) \/ Forfeit(l, failure)
    PROVE  SlotInv' /\ WithinQuota
<1>1. PICK time \in Nat, charged \in {"expired", "forfeited"} :
        CloseUnsubmitted(l, time, charged, failure)
  BY DEF CloseDue, Forfeit, TypeInv, TypeOK
<1>2. Open(l) /\ lock' # "claims"
  <2>1. CASE CloseDue(l, failure)
    BY <2>1 DEF CloseDue, TypeInv, TypeOK, DueIsOpen
  <2>2. CASE Forfeit(l, failure)
    BY <2>2 DEF Forfeit, txnVars
  <2>3. QED
    BY <2>1, <2>2
<1>3. /\ leases'[l].state \in {"expired", "released"} /\ leases'[l].hotkey = leases[l].hotkey
      /\ \A m \in Leases \ {l} : leases'[m] = leases[m]
  BY <1>1, <1>2, CloseUnsubmittedType
<1>4. leases'[l].state # "open"
  BY <1>3
<1> DEFINE h == leases[l].hotkey
<1>5. h \in Hotkeys /\ quota[h] \in Entry /\ target[h] \in Nat \cup {NoTarget}
  BY <1>2 DEF TypeInv, TypeOK, RowsNamed, Open
<1>6. PICK f \in {RecordExpiry(quota[h], target[h]), RecordRelease(quota[h])} :
        quota' = [quota EXCEPT ![h] = f]
  BY <1>1 DEF CloseUnsubmitted
<1>7. f \in Entry /\ Ended(quota[h], f)
  BY <1>5, <1>6, RecordExpiryType, RecordReleaseType
<1>8. QED
  BY <1>2, <1>3, <1>4, <1>6, <1>7, SlotsEnded

\* A group is recorded, and its lease ends.
LEMMA SlotCommitStep ==
    ASSUME TypeInv, SlotInv, NEW t \in Threads, NEW v \in Verdicts, NEW drawn \in Draws,
           NEW enough \in Lengths, Commit(t, v, drawn, enough)
    PROVE  SlotInv' /\ WithinQuota
<1> DEFINE l == subs[t].lease
           h == leases[l].hotkey
           closed == IF v = REJECTED THEN RecordRejection(quota[h], target[h])
                     ELSE RecordSubmission(quota[h])
<1>1. lock' # "claims"
  BY DEF Commit, txnVars
<1>2. CASE ~Submittable(l, subs[t].arrived)
  <2>1. leases' = leases /\ quota' = quota
    BY <1>2 DEF Commit
  <2>2. QED
    BY <1>1, <2>1, SameOpenQuota DEF SameOpen
<1>3. CASE Submittable(l, subs[t].arrived)
  <2>1. /\ l \in Leases /\ Open(l) /\ leases'[l].state = "submitted"
        /\ leases'[l].hotkey = h /\ \A m \in Leases \ {l} : leases'[m] = leases[m]
    BY <1>3, CommitEffect
  <2>2. leases'[l].state # "open"
    BY <2>1
  <2>3. h \in Hotkeys /\ quota[h] \in Entry /\ target[h] \in Nat \cup {NoTarget}
    BY <2>1 DEF TypeInv, TypeOK, RowsNamed, Open
  <2>4. PICK f \in {closed, RecordPaid(closed, target[h])} : quota' = [quota EXCEPT ![h] = f]
    BY <1>3 DEF Commit
  <2>5. closed \in Entry /\ Ended(quota[h], closed)
    BY <2>3, RecordRejectionType, RecordSubmissionType
  <2> HIDE DEF closed
  <2>6. f \in Entry /\ Ended(quota[h], f)
    <3>1. CASE f = closed
      BY <2>5, <3>1
    <3>2. CASE f = RecordPaid(closed, target[h])
      <4>1. f \in Entry /\ SameCounts(closed, f)
        BY <2>3, <2>5, <3>2, RecordPaidType
      <4>2. QED
        BY <2>5, <4>1, EndedSame
    <3>3. QED
      BY <2>4, <3>1, <3>2
  <2>7. QED
    BY <1>1, <2>1, <2>2, <2>4, <2>6, SlotsEnded
<1>4. QED
  BY <1>2, <1>3

\* A report pays, or does not.
LEMMA SlotReportStep ==
    ASSUME TypeInv, SlotInv, NEW l \in Leases,
           \/ \E accepted \in TrainingResults : ReportTraining(l, accepted)
           \/ \E r \in AuditResults : ReportAudit(l, r)
    PROVE  SlotInv' /\ WithinQuota
<1>1. leases' = leases /\ lock' # "claims" /\ \E paid : quota' = Credited(l, paid)
  BY DEF ReportTraining, ReportAudit, txnVars
<1>2. \A h \in Hotkeys : SameCounts(quota[h], quota'[h])
  <2> DEFINE g == leases[l].hotkey
  <2>0. quota \in [Hotkeys -> Entry]
    BY DEF TypeInv, TypeOK
  <2>1. CASE quota' = quota
    BY <2>1 DEF SameCounts
  <2>2. CASE quota' # quota
    <3>1. /\ leases[l].state = "submitted"
          /\ quota' = [quota EXCEPT ![g] = RecordPaid(@, target[g])]
      BY <1>1, <2>2 DEF Credited
    <3>2. g \in Hotkeys /\ quota[g] \in Entry /\ target[g] \in Nat \cup {NoTarget}
      BY <3>1 DEF TypeInv, TypeOK, RowsNamed
    <3>3. SameCounts(quota[g], RecordPaid(quota[g], target[g]))
      BY <3>2, RecordPaidType
    <3>4. quota'[g] = RecordPaid(quota[g], target[g]) /\ \A h \in Hotkeys \ {g} : quota'[h] = quota[h]
      BY <2>0, <3>1, <3>2
    <3>5. QED
      BY <3>3, <3>4 DEF SameCounts
  <2>3. QED
    BY <2>1, <2>2
<1>3. \A h \in Hotkeys : OpenOf(h)' = OpenOf(h)
  BY <1>1 DEF OpenOf, Open
<1>4. QED
  BY <1>1, <1>2, <1>3, SlotsKept DEF RoomInv

\* A batch of grants begins: each hotkey has the room its quota leaves.
LEMMA SlotBatchStep ==
    ASSUME TypeInv, SlotInv, OpenBatch
    PROVE  SlotInv' /\ WithinQuota
<1>1. UNCHANGED <<leases, quota, target>> /\ room' = [h \in Hotkeys |-> Room(h)]
  BY DEF OpenBatch
<1>2. \A h \in Hotkeys : OpenOf(h)' = OpenOf(h) /\ Most(h)' = Most(h)
  BY <1>1 DEF OpenOf, Open, Most
<1>3. \A h \in Hotkeys : Room(h) > 0 => Cardinality(OpenOf(h)) + Room(h) <= Most(h)
  <2> SUFFICES ASSUME NEW h \in Hotkeys, Room(h) > 0
               PROVE  Cardinality(OpenOf(h)) + Room(h) <= Most(h)
    OBVIOUS
  <2>1. Cardinality(OpenOf(h)) \in Nat
    BY SomeLeasesFinite DEF OpenOf
  <2>2. Most(h) \in Nat
    BY MostNat
  <2>3. Room(h) \in {-1, GreaterOf(0, Most(h) - Cardinality(OpenOf(h)))}
    BY DEF Room, Most
  <2>4. QED
    BY SMTT(60), <2>1, <2>2, <2>3 DEF GreaterOf
<1>4. RoomInv'
  BY <1>1, <1>2, <1>3 DEF RoomInv
<1>5. \A h \in Hotkeys : SameCounts(quota[h], quota'[h])
  BY <1>1 DEF SameCounts
<1>6. QED
  BY <1>2, <1>4, <1>5, SlotsKept

\* A lease is granted: the room of its hotkey pays for it.
LEMMA SlotClaimStep ==
    ASSUME TypeInv, SlotInv, NEW h \in Hotkeys, NEW p \in Prompts, NEW k \in Checkpoints,
           NEW l \in Leases, GrantClaim(h, p, k, l)
    PROVE  SlotInv' /\ WithinQuota
<1> DEFINE f == RecordLease(quota[h], target[h])
<1>1. /\ quota \in [Hotkeys -> Entry] /\ target[h] \in Nat \cup {NoTarget}
      /\ room \in [Hotkeys -> Nat \cup {-1}] /\ leases \in [Leases -> Row]
  BY DEF TypeInv, TypeOK
<1>2. /\ lock = "claims" /\ room[h] > 0 /\ leases[l].state = "none"
      /\ UNCHANGED <<lock, target>> /\ room' = [room EXCEPT ![h] = @ - 1]
      /\ quota' = [quota EXCEPT ![h] = f]
  BY DEF GrantClaim
<1>3. /\ leases'[l].state = "open" /\ leases'[l].hotkey = h
      /\ \A m \in Leases \ {l} : leases'[m] = leases[m]
  BY <1>1 DEF GrantClaim
<1>4. \A g \in Hotkeys \ {h} : OpenOf(g)' = OpenOf(g) /\ quota'[g] = quota[g] /\ room'[g] = room[g]
  BY <1>1, <1>2, <1>3 DEF OpenOf, Open
<1>5. l \notin OpenOf(h) /\ OpenOf(h)' = OpenOf(h) \cup {l} /\ quota'[h] = f /\ room'[h] = room[h] - 1
  BY <1>1, <1>2, <1>3 DEF OpenOf, Open
<1>6. \A g \in Hotkeys : IsFiniteSet(OpenOf(g)) /\ Cardinality(OpenOf(g)) \in Nat
  BY SomeLeasesFinite DEF OpenOf
<1>7. Cardinality(OpenOf(h)') = Cardinality(OpenOf(h)) + 1
  BY <1>5, <1>6, FS_AddElement
<1>8. f.in_use = quota[h].in_use + 1 /\ Balanced(f) /\ \A u : Quota(f, u) = Quota(quota[h], u)
  <2>1. quota[h] \in Entry /\ Balanced(quota[h])
    BY <1>1 DEF SlotInv, LeasesAccounted, Balanced
  <2>2. QED
    BY <1>1, <2>1, LeaseBalance, RecordLeaseType
<1> HIDE DEF f
<1>9. \A g \in Hotkeys : room[g] > 0 => Cardinality(OpenOf(g)) + room[g] <= Most(g)
  BY <1>2 DEF SlotInv, RoomInv
<1>10. \A g \in Hotkeys : Most(g)' = Most(g)
  <2> SUFFICES ASSUME NEW g \in Hotkeys
               PROVE  LesserOf(Quota(quota'[g], target'[g]), HotkeyMaxOpen)
                        = LesserOf(Quota(quota[g], target[g]), HotkeyMaxOpen)
    BY DEF Most
  <2>1. Quota(quota'[g], target[g]) = Quota(quota[g], target[g])
    BY <1>4, <1>5, <1>8
  <2>2. QED
    BY <1>2, <2>1
<1>11. Most(h) \in Nat
  BY MostNat
<1>12. Cardinality(OpenOf(h)') + room'[h] <= Most(h) /\ Cardinality(OpenOf(h)') <= Most(h)
  <2>1. /\ Cardinality(OpenOf(h)) \in Nat /\ Cardinality(OpenOf(h)) + room[h] <= Most(h)
        /\ room[h] \in Nat \cup {-1}
    BY <1>1, <1>2, <1>6, <1>9
  <2>2. QED
    BY SMTT(60), <1>2, <1>5, <1>7, <1>11, <2>1
<1>13. RoomInv'
  BY <1>4, <1>9, <1>10, <1>12 DEF RoomInv
<1>14. InUseIsOpen'
  <2>1. \A g \in Hotkeys : quota'[g].in_use = Cardinality(OpenOf(g)')
    BY <1>4, <1>5, <1>7, <1>8 DEF SlotInv, InUseIsOpen
  <2>2. QED
    BY <2>1 DEF InUseIsOpen
<1>15. LeasesAccounted'
  BY <1>4, <1>5, <1>8 DEF SlotInv, LeasesAccounted, Balanced
<1>16. WithinQuota
  <2> SUFFICES ASSUME NEW g \in Hotkeys, Cardinality(OpenOf(g)') > Cardinality(OpenOf(g))
               PROVE  Cardinality(OpenOf(g)') <= Most(g)
    BY DEF WithinQuota, Most
  <2>1. CASE g = h
    BY <1>12, <2>1
  <2>2. CASE g # h
    BY SMTT(60), <1>4, <1>6, <2>2
  <2>3. QED
    BY <2>1, <2>2
<1>17. QED
  BY <1>13, <1>14, <1>15, <1>16 DEF SlotInv

\* Every step keeps SlotInv, and opens no lease beyond the quota.
LEMMA SlotStep == TypeInv /\ SlotInv /\ [Next]_vars => SlotInv' /\ WithinQuota
<1> SUFFICES ASSUME TypeInv, SlotInv, [Next]_vars PROVE SlotInv' /\ WithinQuota
  OBVIOUS
<1>1. CASE Tick \/ Crash \/ Revise \/ ExpireDue \/ OperatorStep
  BY <1>1, SlotQuietStep DEF OperatorStep
<1>2. CASE MarkAlive \/ Boot
  BY <1>2, SlotClockStep
<1>3. CASE LockStep
  BY <1>3, SlotQuietStep, SlotCloseStep, SlotBatchStep DEF LockStep, GrantSwept
<1>4. CASE MinerStep
  BY <1>4, SlotQuietStep, SlotCloseStep, SlotBatchStep, SlotClaimStep DEF MinerStep, GrantBegin
<1>5. CASE TrainerStep
  BY <1>5, SlotClockStep, SlotReportStep DEF TrainerStep
<1>6. CASE \E t \in Threads : SubmissionStep(t)
  BY <1>6, SlotQuietStep, SlotCommitStep DEF SubmissionStep
<1>7. CASE UNCHANGED vars
  <2>1. UNCHANGED <<leases, quota, lock, room, target>>
    BY <1>7 DEF vars
  <2>2. QED
    BY <2>1, SameOpenQuota DEF SameOpen
<1>8. QED
  BY <1>1, <1>2, <1>3, <1>4, <1>5, <1>6, <1>7 DEF Next

LEMMA SlotCorrect == Spec => [](TypeInv /\ SlotInv)
<1>1. Init => TypeInv /\ SlotInv
  BY TypeInit, SlotInit
<1>2. (TypeInv /\ SlotInv) /\ [Next]_vars => (TypeInv /\ SlotInv)'
  BY TypeStep, SlotStep
<1>3. QED
  BY <1>1, <1>2, PTL DEF Spec

\* The slots the quota says a hotkey uses are its open leases, whatever the
\* order of grants, submissions, sweeps, forfeits, crashes and recounts.
THEOREM SlotsInUse == Spec => []InUseIsOpen
BY SlotCorrect, PTL DEF SlotInv

\* Every lease that was granted is in use or ended in one way, once.
THEOREM SlotsAccounted == Spec => []LeasesAccounted
BY SlotCorrect, PTL DEF SlotInv

\* No step opens a lease beyond the quota of its hotkey and the cap per hotkey,
\* however many claims a batch resolves.
THEOREM GrantsWithinQuota == Spec => GrantWithinQuota
<1>1. (TypeInv /\ SlotInv) /\ [Next]_vars => WithinQuota
  BY SlotStep
<1>2. QED
  BY <1>1, SlotCorrect, PTL DEF Spec, GrantWithinQuota, WithinQuota

-----------------------------------------------------------------------------
(* Silence: while the expiry loop does not stall, nobody is charged for the *)
(* time the validator was down.                                            *)

\* The clock of the book: the last mark and the arrivals are past, the handler
\* that has the lock runs, and the loop marks the book alive in time.
ClockInv ==
    /\ alive <= now /\ at <= now
    /\ \A t \in Threads : subs[t].arrived <= now
    /\ lock # "free" => up
    /\ ~up => \A t \in Threads : subs[t].pc = "idle"
    /\ up => now - alive <= DowntimeMin

\* A lease that is charged was closed within DowntimeMin of a mark.
ChargedInTime ==
    \A l \in Leases :
        /\ leases[l].cause = "expired" => leases[l].closed - alive <= DowntimeMin
        /\ leases[l].state \in {"none", "open"} => leases[l].cause # "expired"

SilenceInv == ClockInv /\ ChargedInTime /\ SilenceNeverCharged

\* A lease that is charged after the step was charged before it.
ChargedBefore(l) ==
    /\ leases'[l].cause = "expired" =>
          /\ leases[l].cause = "expired" /\ leases'[l].issued = leases[l].issued
          /\ leases'[l].closed = leases[l].closed
    /\ leases'[l].state \in {"none", "open"} => leases'[l].cause # "expired"

\* The clock's variables are numbers.
LEMMA ClockNumbers ==
    ASSUME TypeInv
    PROVE  /\ now \in Int /\ alive \in Int /\ at \in Int /\ DowntimeMin \in Nat
           /\ \A l \in Leases : leases[l].closed \in Int /\ leases[l].issued \in Int
           /\ \A d \in downtimes : d.start \in Int
<1>1. now \in Nat /\ alive \in Nat /\ at \in Nat /\ downtimes \subseteq [start : Nat, end : Nat]
        /\ leases \in [Leases -> Row]
  BY DEF TypeInv, TypeOK
<1>2. \A l \in Leases : leases[l].closed \in Nat /\ leases[l].issued \in Nat
  BY <1>1 DEF Row
<1>3. \A d \in downtimes : d.start \in Nat
  BY <1>1
<1>4. QED
  BY SMTT(60), <1>1, <1>2, <1>3, Numbers

\* A step that closes no lease, and adds to the downtimes at most the one that
\* began at the last mark.
LEMMA SilenceKept ==
    ASSUME TypeInv, TypeInv', SilenceInv, ClockInv', alive <= alive',
           \A l \in Leases : ChargedBefore(l),
           \A d \in downtimes' : d \in downtimes \/ d.start = alive
    PROVE  SilenceInv'
<1>1. ChargedInTime'
  <2> SUFFICES ASSUME NEW l \in Leases
               PROVE  /\ leases'[l].cause = "expired" => leases'[l].closed - alive' <= DowntimeMin
                      /\ leases'[l].state \in {"none", "open"} => leases'[l].cause # "expired"
    BY DEF ChargedInTime
  <2>1. ChargedBefore(l)
    OBVIOUS
  <2>2. /\ leases[l].cause = "expired" => leases[l].closed - alive <= DowntimeMin
        /\ leases[l].state \in {"none", "open"} => leases[l].cause # "expired"
    BY DEF SilenceInv, ChargedInTime
  <2>3. leases[l].closed \in Int /\ alive \in Int /\ alive' \in Int /\ DowntimeMin \in Nat
    <3>1. alive' \in Nat
      BY DEF TypeInv, TypeOK
    <3>2. alive' \in Int
      BY SMTT(60), <3>1
    <3>3. QED
      BY <3>2, ClockNumbers
  <2>4. leases[l].closed - alive <= DowntimeMin => leases[l].closed - alive' <= DowntimeMin
    BY SMTT(60), <2>3
  <2>5. QED
    BY <2>1, <2>2, <2>4 DEF ChargedBefore
<1>2. SilenceNeverCharged'
  <2> SUFFICES ASSUME NEW l \in Leases, NEW d \in downtimes', leases'[l].cause = "expired",
                      d.start >= leases'[l].issued, d.start < leases'[l].closed
               PROVE  leases'[l].closed - d.start <= DowntimeMin
    BY DEF SilenceNeverCharged
  <2>1. ChargedBefore(l)
    OBVIOUS
  <2>2. CASE d \in downtimes
    BY <2>1, <2>2 DEF SilenceInv, SilenceNeverCharged, ChargedBefore
  <2>3. CASE d.start = alive
    BY <2>1, <2>3 DEF SilenceInv, ChargedInTime, ChargedBefore
  <2>4. QED
    BY <2>2, <2>3
<1>3. QED
  BY <1>1, <1>2 DEF SilenceInv

\* Init establishes SilenceInv.
LEMMA SilenceInit == Init => SilenceInv
<1> SUFFICES ASSUME Init PROVE SilenceInv
  OBVIOUS
<1>1. ClockInv
  <2>1. now = 0 /\ alive = 0 /\ at = 0 /\ lock = "free" /\ up /\ \A t \in Threads : subs[t].arrived = 0
    BY DEF Init
  <2>2. QED
    BY SMTT(60), <2>1, Numbers DEF ClockInv
<1>2. ChargedInTime
  <2>1. \A l \in Leases : leases[l].cause = NoFailure
    BY DEF Init, NoRow
  <2>2. QED
    BY <2>1 DEF ChargedInTime, NoFailure
<1>3. SilenceNeverCharged
  BY DEF Init, SilenceNeverCharged
<1>4. QED
  BY <1>1, <1>2, <1>3 DEF SilenceInv

\* A lease closed without a submission: an expired one lived through no downtime.
LEMMA SilenceClose ==
    ASSUME TypeInv, TypeInv', SilenceInv, NEW l \in Leases, NEW f \in Failures,
           CloseDue(l, f) \/ Forfeit(l, f)
    PROVE  SilenceInv'
<1>1. PICK time \in Nat : /\ time <= now /\ up /\ Open(l)
                          /\ \E charged \in {"expired", "forfeited"} : CloseUnsubmitted(l, time, charged, f)
  <2>1. CASE CloseDue(l, f)
    <3>1. l \in due /\ CloseUnsubmitted(l, at, "expired", f)
      BY <2>1 DEF CloseDue
    <3>2. lock # "free" /\ Open(l) /\ at \in Nat
      BY <3>1 DEF TypeInv, TypeOK, DueIsOpen
    <3>3. QED
      BY <3>1, <3>2 DEF SilenceInv, ClockInv
  <2>2. CASE Forfeit(l, f)
    <3>1. up /\ Open(l) /\ CloseUnsubmitted(l, now, "forfeited", f)
      BY <2>2 DEF Forfeit
    <3>2. now \in Nat /\ now <= now
      BY SMTT(60), ClockNumbers DEF TypeInv, TypeOK
    <3>3. QED
      BY <3>1, <3>2
  <2>3. QED
    BY <2>1, <2>2
<1>2. UNCHANGED <<now, up, alive, downtimes, subs>> /\ at' \in {0, at} /\ (lock' # "free" => lock # "free")
  BY DEF CloseDue, Forfeit, clockVars, txnVars
<1>3. ClockInv'
  <2>1. at' <= now
    BY SMTT(60), <1>2, ClockNumbers DEF SilenceInv, ClockInv, TypeInv, TypeOK
  <2>2. QED
    BY <1>2, <2>1 DEF SilenceInv, ClockInv
<1>4. \A m \in Leases \ {l} : leases'[m] = leases[m]
  BY <1>1, CloseUnsubmittedType
<1>5. /\ leases'[l].closed = time /\ leases'[l].issued = leases[l].issued
      /\ leases'[l].state \notin {"none", "open"}
      /\ leases'[l].cause = "expired" => ~LivedThroughDowntime(l, time)
  <2>1. PICK charged \in {"expired", "forfeited"} : CloseUnsubmitted(l, time, charged, f)
    BY <1>1
  <2> DEFINE over == /\ f = BOX_FAILED
                     /\ Cardinality(BoxFailedReleases(leases[l].hotkey, time)) >= BoxFailedPerDay
             excused == f = NoFailure /\ LivedThroughDowntime(l, time)
             expired == over \/ (f = NoFailure /\ ~excused)
             cause == CASE over -> "box_failed_over_budget"
                        [] ~over /\ f # NoFailure -> f
                        [] excused -> "validator_unavailable"
                        [] OTHER -> charged
             state == IF expired THEN "expired" ELSE "released"
  <2>2. leases' = [leases EXCEPT ![l].state = state, ![l].closed = time, ![l].cause = cause]
    BY <2>1 DEF CloseUnsubmitted
  <2>3. cause = "expired" => ~LivedThroughDowntime(l, time)
    <3>1. f # "expired"
      BY LeaseBookAssumption DEF Failures, NoFailure
    <3>2. CASE over
      BY <3>2
    <3>3. CASE ~over /\ f # NoFailure
      BY <3>1, <3>3
    <3>4. CASE ~over /\ f = NoFailure
      BY <3>4
    <3>5. QED
      BY <3>2, <3>3, <3>4
  <2>4. state \notin {"none", "open"}
    OBVIOUS
  <2> HIDE DEF over, excused, expired, cause, state
  <2>5. leases \in [Leases -> Row]
    BY DEF TypeInv, TypeOK
  <2>6. /\ leases'[l].closed = time /\ leases'[l].issued = leases[l].issued
        /\ leases'[l].cause = cause /\ leases'[l].state = state
    BY <2>2, <2>5 DEF Row
  <2>7. QED
    BY <2>3, <2>4, <2>6
<1>6. ChargedInTime'
  <2>1. time - alive <= DowntimeMin
    <3>1. now - alive <= DowntimeMin
      BY <1>1 DEF SilenceInv, ClockInv
    <3>2. QED
      BY SMTT(60), <1>1, <3>1, ClockNumbers
  <2>2. QED
    BY <1>2, <1>4, <1>5, <2>1 DEF SilenceInv, ChargedInTime
<1>7. SilenceNeverCharged'
  <2> SUFFICES ASSUME NEW m \in Leases, NEW d \in downtimes, leases'[m].cause = "expired",
                      d.start >= leases'[m].issued, d.start < leases'[m].closed
               PROVE  leases'[m].closed - d.start <= DowntimeMin
    BY <1>2 DEF SilenceNeverCharged
  <2>1. CASE m # l
    BY <1>4, <2>1 DEF SilenceInv, SilenceNeverCharged
  <2>2. CASE m = l
    <3>1. ~LivedThroughDowntime(l, time)
      BY <1>5, <2>2
    <3>2. QED
      BY <1>5, <2>2, <3>1 DEF LivedThroughDowntime
  <2>3. QED
    BY <2>1, <2>2
<1>8. QED
  BY <1>3, <1>6, <1>7 DEF SilenceInv

\* A step that does not move the clock or the mark.
LEMMA ClockQuiet ==
    ASSUME TypeInv, SilenceInv, UNCHANGED <<now, up, alive>>,
           at' \in {0, at, now} \/ \E t \in Threads : at' = subs[t].arrived,
           \A t \in Threads : subs'[t].arrived \in {0, now, subs[t].arrived},
           lock' # "free" => up, ~up => subs' = subs
    PROVE  ClockInv'
<1>1. 0 <= now /\ now <= now
  BY SMTT(60) DEF TypeInv, TypeOK
<1>2. at' <= now
  BY <1>1 DEF SilenceInv, ClockInv
<1>3. \A t \in Threads : subs'[t].arrived <= now
  BY <1>1 DEF SilenceInv, ClockInv
<1>4. QED
  BY <1>2, <1>3 DEF SilenceInv, ClockInv

\* A step that leaves leases, clock and downtimes as they are.
LEMMA SilenceQuiet ==
    ASSUME TypeInv, TypeInv', SilenceInv, ClockInv', UNCHANGED <<now, alive, downtimes, leases>>
    PROVE  SilenceInv'
BY DEF SilenceInv, ChargedInTime, SilenceNeverCharged

\* The steps of operators, reports and checkpoints, and the opening and the end
\* of a batch.
LEMMA SilenceQuietStep ==
    ASSUME TypeInv, TypeInv', SilenceInv,
           \/ Revise \/ ExpireDue \/ GrantSweep \/ GrantBegin \/ GrantSwept \/ GrantEnd
           \/ \E e \in Envs, c \in Cooldowns : SetCooldown(e, c)
           \/ \E h \in Hotkeys, n \in BanLengths : Ban(h, n)
           \/ \E h \in Hotkeys, x \in Targets : Measure(h, x)
           \/ \E l \in Leases, accepted \in TrainingResults : ReportTraining(l, accepted)
           \/ \E l \in Leases, r \in AuditResults : ReportAudit(l, r)
    PROVE  SilenceInv'
<1>1. /\ UNCHANGED <<now, up, alive, downtimes, leases, subs>> /\ at' \in {0, at, now}
      /\ lock' # "free" => up \/ lock # "free"
  <2>1. CASE Revise
    BY <2>1 DEF Revise, clockVars, txnVars
  <2>2. CASE ExpireDue
    BY <2>2 DEF ExpireDue, clockVars
  <2>3. CASE GrantSweep
    BY <2>3 DEF GrantSweep, clockVars
  <2>4. CASE GrantBegin \/ GrantSwept
    BY <2>4 DEF GrantBegin, GrantSwept, OpenBatch, clockVars
  <2>5. CASE GrantEnd
    BY <2>5 DEF GrantEnd, clockVars
  <2>6. CASE \E e \in Envs, c \in Cooldowns : SetCooldown(e, c)
    BY <2>6 DEF SetCooldown, clockVars, txnVars
  <2>7. CASE \E h \in Hotkeys, n \in BanLengths : Ban(h, n)
    BY <2>7 DEF Ban, clockVars, txnVars
  <2>8. CASE \E h \in Hotkeys, x \in Targets : Measure(h, x)
    BY <2>8 DEF Measure, clockVars, txnVars
  <2>9. CASE \E l \in Leases, accepted \in TrainingResults : ReportTraining(l, accepted)
    BY <2>9 DEF ReportTraining, clockVars, txnVars
  <2>10. CASE \E l \in Leases, r \in AuditResults : ReportAudit(l, r)
    BY <2>10 DEF ReportAudit, clockVars, txnVars
  <2>11. QED
    BY <2>1, <2>2, <2>3, <2>4, <2>5, <2>6, <2>7, <2>8, <2>9, <2>10
<1>2. lock' # "free" => up
  BY <1>1 DEF SilenceInv, ClockInv
<1>3. ClockInv'
  BY <1>1, <1>2, ClockQuiet
<1>4. QED
  BY <1>1, <1>3, SilenceQuiet

\* The steps of a request, the recording of its group excepted.
LEMMA SilenceRequestStep ==
    ASSUME TypeInv, TypeInv', SilenceInv, NEW t \in Threads,
           \/ Hold(t) \/ Refuse(t) \/ Check(t) \/ GradeFails(t) \/ Release(t)
           \/ \E l \in Leases : Arrive(t, l)
    PROVE  SilenceInv'
<1>1. /\ UNCHANGED <<now, up, alive, downtimes, leases>>
      /\ at' \in {0, at} \/ at' = subs[t].arrived
      /\ up \/ subs[t].pc # "idle"
      /\ lock' # "free" => up \/ subs[t].pc # "idle"
      /\ \A u \in Threads \ {t} : subs'[u] = subs[u]
      /\ subs'[t].arrived \in {0, now, subs[t].arrived}
  <2> USE SubUpdates
  <2>0. subs \in [Threads -> Sub]
    BY DEF TypeInv, TypeOK
  <2>1. CASE Hold(t)
    BY <2>0, <2>1 DEF Hold, clockVars, txnVars, Sub
  <2>2. CASE Refuse(t)
    BY <2>0, <2>2 DEF Refuse, clockVars, IdleSub
  <2>3. CASE Check(t)
    BY <2>0, <2>3 DEF Check, clockVars, txnVars, Sub
  <2>4. CASE GradeFails(t)
    BY <2>0, <2>4 DEF GradeFails, clockVars, txnVars, Sub
  <2>5. CASE Release(t)
    BY <2>0, <2>5 DEF Release, clockVars, txnVars, IdleSub
  <2>6. CASE \E l \in Leases : Arrive(t, l)
    <3>1. PICK l \in Leases : Arrive(t, l)
      BY <2>6
    <3>2. /\ subs' = [subs EXCEPT ![t] = [pc |-> "arrived", lease |-> l, arrived |-> now]]
          /\ up /\ lock = "free" /\ UNCHANGED <<now, up, alive, downtimes, leases, lock, at>>
      BY <3>1 DEF Arrive, clockVars, txnVars
    <3>3. subs'[t].arrived = now
      BY <2>0, <3>2
    <3>4. QED
      BY <2>0, <3>2, <3>3
  <2>7. QED
    BY <2>1, <2>2, <2>3, <2>4, <2>5, <2>6
<1>2. up
  BY <1>1 DEF SilenceInv, ClockInv
<1>3. \A u \in Threads : subs'[u].arrived \in {0, now, subs[u].arrived}
  BY <1>1
<1>4. ClockInv'
  BY <1>1, <1>2, <1>3, ClockQuiet
<1>5. QED
  BY <1>1, <1>4, SilenceQuiet

\* A group is recorded: its lease was open, and is not charged.
LEMMA SilenceCommit ==
    ASSUME TypeInv, TypeInv', SilenceInv, NEW t \in Threads, NEW v \in Verdicts,
           NEW drawn \in Draws, NEW enough \in Lengths, Commit(t, v, drawn, enough)
    PROVE  SilenceInv'
<1> DEFINE l == subs[t].lease
<1>1. /\ UNCHANGED <<now, up, alive, downtimes, at, lock>>
      /\ subs' = [subs EXCEPT ![t].pc = "release"] /\ subs[t].pc # "idle" /\ lock = "free"
  BY DEF Commit, clockVars, txnVars
<1>2. up
  BY <1>1 DEF SilenceInv, ClockInv
<1>3. \A u \in Threads : subs'[u].arrived = subs[u].arrived
  BY <1>1, SubUpdates DEF TypeInv, TypeOK, Sub
<1>4. ClockInv'
  BY <1>1, <1>2, <1>3, ClockQuiet
<1>5. alive <= alive'
  BY SMTT(60), <1>1, ClockNumbers
<1>6. CASE Submittable(l, subs[t].arrived)
  <2>1. /\ leases' = [leases EXCEPT ![l].state = "submitted", ![l].closed = subs[t].arrived]
        /\ Open(l) /\ l \in Leases /\ leases \in [Leases -> Row]
    BY <1>6, SubUpdates DEF Commit, Submittable, TypeInv, TypeOK
  <2>2. leases[l].cause # "expired"
    BY <2>1 DEF SilenceInv, ChargedInTime, Open
  <2>3. leases'[l].cause = leases[l].cause
    BY <2>1 DEF Row
  <2>4. \A m \in Leases \ {l} : leases'[m] = leases[m]
    BY <2>1
  <2>5. \A m \in Leases : ChargedBefore(m)
    <3> SUFFICES ASSUME NEW m \in Leases PROVE ChargedBefore(m)
      OBVIOUS
    <3>1. CASE m = l
      BY <2>2, <2>3, <3>1 DEF ChargedBefore
    <3>2. CASE m # l
      BY <2>4, <3>2 DEF ChargedBefore, SilenceInv, ChargedInTime
    <3>3. QED
      BY <3>1, <3>2
  <2>6. QED
    BY <1>1, <1>4, <1>5, <2>5, SilenceKept
<1>7. CASE ~Submittable(l, subs[t].arrived)
  <2>1. leases' = leases
    BY <1>7 DEF Commit
  <2>2. QED
    BY <1>1, <1>4, <2>1, SilenceQuiet
<1>8. QED
  BY <1>6, <1>7

\* A lease is granted, or the closed leases of old checkpoints are deleted.
LEMMA SilenceRows ==
    ASSUME TypeInv, TypeInv', SilenceInv,
           \/ \E k \in Checkpoints : Adopt(k)
           \/ \E h \in Hotkeys, p \in Prompts, k \in Checkpoints, l \in Leases : GrantClaim(h, p, k, l)
    PROVE  SilenceInv'
<1>0. leases \in [Leases -> Row]
  BY DEF TypeInv, TypeOK
<1>1. UNCHANGED <<now, up, alive, downtimes, subs, at, lock>>
  BY DEF Adopt, GrantClaim, clockVars, txnVars
<1>2. ClockInv'
  BY <1>1 DEF SilenceInv, ClockInv
<1>3. alive <= alive'
  BY SMTT(60), <1>1, ClockNumbers
<1>4. \A m \in Leases : ChargedBefore(m)
  <2>1. CASE \E k \in Checkpoints : Adopt(k)
    <3> SUFFICES ASSUME NEW m \in Leases PROVE ChargedBefore(m)
      OBVIOUS
    <3>1. \/ leases'[m] = leases[m]
          \/ leases'[m] = [leases[m] EXCEPT !.state = "pruned"]
      BY <2>1 DEF Adopt
    <3>2. CASE leases'[m] = leases[m]
      BY <3>2 DEF ChargedBefore, SilenceInv, ChargedInTime
    <3>3. CASE leases'[m] = [leases[m] EXCEPT !.state = "pruned"]
      <4>1. /\ leases'[m].state = "pruned" /\ leases'[m].cause = leases[m].cause
            /\ leases'[m].issued = leases[m].issued /\ leases'[m].closed = leases[m].closed
        BY <1>0, <3>3 DEF Row
      <4>2. QED
        BY <4>1 DEF ChargedBefore
    <3>4. QED
      BY <3>1, <3>2, <3>3
  <2>2. ASSUME NEW h \in Hotkeys, NEW p \in Prompts, NEW k \in Checkpoints, NEW l \in Leases,
               GrantClaim(h, p, k, l)
        PROVE  \A m \in Leases : ChargedBefore(m)
    <3> SUFFICES ASSUME NEW m \in Leases PROVE ChargedBefore(m)
      OBVIOUS
    <3>1. leases'[l].cause = NoFailure /\ \A n \in Leases \ {l} : leases'[n] = leases[n]
      BY <1>0, <2>2 DEF GrantClaim
    <3>2. CASE m = l
      BY <3>1, <3>2 DEF ChargedBefore, NoFailure
    <3>3. CASE m # l
      BY <3>1, <3>3 DEF ChargedBefore, SilenceInv, ChargedInTime
    <3>4. QED
      BY <3>2, <3>3
  <2>3. QED
    BY <2>1, <2>2
<1>5. QED
  BY <1>1, <1>2, <1>3, <1>4, SilenceKept

\* The clock moves, the mark moves, the process dies or starts: a recorded
\* downtime began at the last mark.
LEMMA SilenceClock ==
    ASSUME TypeInv, TypeInv', SilenceInv, ~Stalls, Tick \/ MarkAlive \/ Crash \/ Boot
    PROVE  SilenceInv'
<1>0. now - now <= DowntimeMin /\ now <= now /\ 0 <= now /\ alive <= alive
  BY SMTT(60), ClockNumbers DEF TypeInv, TypeOK
<1>1. CASE Tick
  <2>1. /\ UNCHANGED <<up, alive, downtimes, leases, subs, at, lock>> /\ now' = now + 1
        /\ up => now - alive < DowntimeMin
    BY <1>1 DEF Tick, txnVars
  <2>2. alive <= now' /\ at <= now' /\ (up => now' - alive <= DowntimeMin)
    BY SMTT(60), <2>1, ClockNumbers DEF SilenceInv, ClockInv
  <2>3. \A t \in Threads : subs[t].arrived <= now'
    <3>1. \A t \in Threads : subs[t].arrived \in Nat
      BY SubUpdates
    <3>2. \A t \in Threads : subs[t].arrived <= now
      BY DEF SilenceInv, ClockInv
    <3>3. QED
      BY SMTT(60), <2>1, <3>1, <3>2, ClockNumbers
  <2>4. ClockInv'
    BY <2>1, <2>2, <2>3 DEF SilenceInv, ClockInv
  <2>5. \A m \in Leases : ChargedBefore(m)
    BY <2>1 DEF ChargedBefore, SilenceInv, ChargedInTime
  <2>6. QED
    BY <1>0, <2>1, <2>4, <2>5, SilenceKept
<1>2. CASE Crash
  <2>1. /\ UNCHANGED <<now, alive, downtimes, leases, at, lock>> /\ lock = "free" /\ ~up'
        /\ \A t \in Threads : subs'[t].arrived = 0 /\ subs'[t].pc = "idle"
    BY <1>2 DEF Crash, txnVars
  <2>2. ClockInv'
    BY <1>0, <2>1 DEF SilenceInv, ClockInv
  <2>3. QED
    BY <2>1, <2>2, SilenceQuiet
<1>3. CASE MarkAlive \/ Boot
  <2>1. /\ UNCHANGED <<now, subs, at, lock>> /\ up' /\ alive' \in {now, alive}
        /\ alive' = alive => up \/ alive' = now
    <3>1. CASE MarkAlive
      BY <3>1 DEF MarkAlive, txnVars
    <3>2. CASE Boot
      BY <3>2 DEF Boot, txnVars
    <3>3. QED
      BY <1>3, <3>1, <3>2
  <2>2. alive <= alive'
    BY <1>0, <2>1 DEF SilenceInv, ClockInv
  <2>3. ClockInv'
    BY <1>0, <2>1 DEF SilenceInv, ClockInv
  <2>4. \A d \in downtimes' : d \in downtimes \/ d.start = alive
    <3>1. downtimes' \subseteq RecordedDowntimes \cup downtimes
      BY <1>3 DEF MarkAlive, Boot
    <3>2. \A d \in RecordedDowntimes : d \in downtimes \/ d.start = alive
      <4>1. RecordedDowntimes \subseteq downtimes \cup {[start |-> alive, end |-> now]}
        BY DEF RecordedDowntimes
      <4>2. [start |-> alive, end |-> now].start = alive
        OBVIOUS
      <4>3. QED
        BY <4>1, <4>2
    <3>3. QED
      BY <3>1, <3>2
  <2>5. \A m \in Leases : ChargedBefore(m)
    <3> SUFFICES ASSUME NEW m \in Leases PROVE ChargedBefore(m)
      OBVIOUS
    <3>1. CASE leases'[m] = leases[m]
      BY <3>1 DEF ChargedBefore, SilenceInv, ChargedInTime
    <3>2. CASE leases'[m] # leases[m]
      <4>1. Open(m)
        BY <1>3, <3>2 DEF MarkAlive, Boot, GivenBack
      <4>2. leases[m] \in Row
        BY DEF TypeInv, TypeOK
      <4>3. PICK n : leases'[m] = [leases[m] EXCEPT !.expires = n]
        <5>1. GivenBack[m] = [leases[m] EXCEPT !.expires = @ + SilenceLength]
          BY <4>1 DEF GivenBack
        <5>2. CASE MarkAlive
          BY <3>2, <5>1, <5>2 DEF MarkAlive
        <5>3. CASE Boot
          <6>1. leases'[m] = [GivenBack[m] EXCEPT !.expires = GreaterOf(@, now + RestartGrace)]
            BY <4>1, <5>3 DEF Boot
          <6>2. \A x, y : [[leases[m] EXCEPT !.expires = x] EXCEPT !.expires = y] = [leases[m] EXCEPT !.expires = y]
            BY <4>2 DEF Row
          <6>3. QED
            BY <5>1, <6>1, <6>2
        <5>4. QED
          BY <1>3, <5>2, <5>3
      <4>4. leases'[m].cause = leases[m].cause
        BY <4>2, <4>3 DEF Row
      <4>5. leases[m].cause # "expired"
        BY <4>1 DEF Open, SilenceInv, ChargedInTime
      <4>6. QED
        BY <4>4, <4>5 DEF ChargedBefore
    <3>3. QED
      BY <3>1, <3>2
  <2>6. QED
    BY <2>2, <2>3, <2>4, <2>5, SilenceKept
<1>4. QED
  BY <1>1, <1>2, <1>3

\* Every step keeps SilenceInv while the expiry loop does not stall.
LEMMA SilenceStep == ASSUME ~Stalls PROVE TypeInv /\ SilenceInv /\ [Next]_vars => SilenceInv'
<1> SUFFICES ASSUME TypeInv, SilenceInv, [Next]_vars PROVE SilenceInv'
  OBVIOUS
<1>0. TypeInv'
  BY TypeStep
<1>1. CASE Tick \/ MarkAlive \/ Crash \/ Boot
  BY <1>0, <1>1, SilenceClock
<1>2. CASE Revise \/ ExpireDue \/ OperatorStep
  BY <1>0, <1>2, SilenceQuietStep DEF OperatorStep
<1>3. CASE LockStep
  BY <1>0, <1>3, SilenceQuietStep, SilenceClose DEF LockStep
<1>4. CASE MinerStep
  BY <1>0, <1>4, SilenceQuietStep, SilenceClose, SilenceRows, SilenceRequestStep DEF MinerStep
<1>5. CASE TrainerStep
  BY <1>0, <1>5, SilenceQuietStep, SilenceRows DEF TrainerStep
<1>6. CASE \E t \in Threads : SubmissionStep(t)
  BY <1>0, <1>6, SilenceRequestStep, SilenceCommit DEF SubmissionStep
<1>7. CASE UNCHANGED vars
  BY <1>7 DEF vars, SilenceInv, ClockInv, ChargedInTime, SilenceNeverCharged
<1>8. QED
  BY <1>1, <1>2, <1>3, <1>4, <1>5, <1>6, <1>7 DEF Next

\* While the expiry loop marks the book alive in time, no lease is charged as
\* expired for a time the validator was silent: of any downtime that began in
\* its life it saw at most DowntimeMin (_lived_through_downtime, mark_alive,
\* _boot and the sweeps, over crashes and restarts).
THEOREM NoChargeForSilence == ASSUME ~Stalls PROVE Spec => []SilenceNeverCharged
<1>1. Init => TypeInv /\ SilenceInv
  BY TypeInit, SilenceInit
<1>2. (TypeInv /\ SilenceInv) /\ [Next]_vars => (TypeInv /\ SilenceInv)'
  BY TypeStep, SilenceStep
<1>3. SilenceInv => SilenceNeverCharged
  BY DEF SilenceInv
<1>4. QED
  BY <1>1, <1>2, <1>3, PTL DEF Spec
=============================================================================
