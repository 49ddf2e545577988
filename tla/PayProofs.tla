------------------------------- MODULE PayProofs -------------------------------
(***************************************************************************)
(* The safety of the payment ledger for all settings, amounts, numbers of  *)
(* periods, events and faults: no period is paid twice, what is marked     *)
(* published is stored, entries, carry and rewards stay within their       *)
(* bounds, no pay is created, accruals stay open until they are settled, a *)
(* banned hotkey is not paid, and an archive has all its outages counted.  *)
(***************************************************************************)
EXTENDS PaySettleProofs

\* Zenon is the default prover; the steps of arithmetic and of records name SMT.
USE Zenon

--------------------------------------------------------------------------------
(* The inductive invariant.                                                *)

\* An event of the submission path.
Event == [kind : Kinds, hotkey : Hotkeys, at : Nat]

\* The clock, the events and the bans.  An event is dated no later than now, the
\* accruals are those of events before the cursor, and an unsettled one is of a
\* hotkey no ban runs for.
EventsInv ==
    /\ ClockType /\ now <= MaxTime /\ alive \in Nat
    /\ events \in Seq(Event) /\ \A i \in DOMAIN events : events[i].at <= now
    /\ cursor \in Nat /\ DOMAIN accruals \subseteq 1 .. cursor
    /\ \A s \in DOMAIN accruals : accruals[s].status = "accrued" => bans[accruals[s].hotkey] <= now

\* A document sent is the one the ledger keeps for its period, and the ledger knows
\* an upload of it was tried.
SentIsKept(d) ==
    /\ d.work \in DOMAIN periods
    /\ d = Document(periods[d.work])
    /\ periods[d.work].published # "unattempted"

\* What publish holds are the archives as the ledger keeps them, and how far it is with the oldest.
PublishInv ==
    /\ \A d \in bucket \union late : SentIsKept(d)
    /\ ConfirmedIsStored
    /\ \A a \in todo : a.work \in DOMAIN periods /\ a = periods[a.work] /\ a.published # "yes"
    /\ pc \in {"ingest", "settle", "unpublished", "read", "commit", "write", "confirm"}
    /\ pc \in {"ingest", "settle", "unpublished"} => todo = {}
    /\ pc \in {"commit", "write", "confirm"} => todo # {}
    /\ pc = "write" => doc.published = "attempted"
    /\ pc = "confirm" => Document(doc) \in bucket

\* The inductive invariant of the ledger.
PayInv == EventsInv /\ TablesInv(books) /\ Ahead /\ PublishInv

\* The invariant of the tables is about the tables and the settings alone.
LEMMA TablesNext ==
    ASSUME setup' = setup, NEW L, TablesInv(L), books' = L
    PROVE  TablesInv(books)'
<1>1. /\ Hotkeys' = Hotkeys /\ CATCHUP_ENTRIES' = CATCHUP_ENTRIES /\ cap' = cap /\ Work' = Work
      /\ carry_periods' = carry_periods /\ carry_max_caps' = carry_max_caps /\ outage_fill' = outage_fill
  BY SameSettings
<1>2. Table' = Table /\ Row' = Row /\ ArchiveRow' = ArchiveRow
  BY <1>1 DEF Table, Row, ArchiveRow
<1>3. LedgerType(books)'
  BY <1>2, <1>1 DEF TablesInv, LedgerType
<1>4. CarryRecent(books)' /\ CarryFits(books)' /\ ArchivesCapped(books)' /\ Numbered(books)' /\ EntriesFit(books)'
  BY <1>1, <1>2 DEF TablesInv, CarryRecent, CarryFits, ArchivesCapped, Numbered, EntriesFit
<1>5. Earned(books)'
  BY <1>1 DEF TablesInv, Earned, Paid, Carried, Settled, SettledRows
<1> QED BY <1>3, <1>4, <1>5 DEF TablesInv

\* The archive of period w is replaced by one of the same pay, whose entry period has room.
LEMMA ArchiveUpdate ==
    ASSUME setup \in Setups, NEW L, TablesInv(L), NEW w \in DOMAIN L.periods,
           NEW a \in ArchiveRow, a.work = L.periods[w].work, a.rewards = L.periods[w].rewards,
           \/ a.entry = L.periods[w].entry
           \/ Cardinality({q \in DOMAIN L.periods \ {w} : L.periods[q].entry = a.entry}) < CATCHUP_ENTRIES,
           NEW M, M = [accruals |-> L.accruals, carry |-> L.carry, periods |-> [L.periods EXCEPT ![w] = a]]
    PROVE  TablesInv(M)
<1>1. /\ LedgerType(L) /\ CarryRecent(L) /\ CarryFits(L) /\ ArchivesCapped(L) /\ Numbered(L)
      /\ EntriesFit(L) /\ Earned(L)
  BY DEF TablesInv
<1>2. DOMAIN L.periods \subseteq Work /\ L.periods \in [DOMAIN L.periods -> ArchiveRow]
  BY <1>1 DEF LedgerType
<1>3. M.accruals = L.accruals /\ M.carry = L.carry /\ M.periods = [L.periods EXCEPT ![w] = a]
  OBVIOUS
<1>4. /\ DOMAIN M.periods = DOMAIN L.periods
      /\ M.periods \in [DOMAIN L.periods -> ArchiveRow]
      /\ \A q \in DOMAIN L.periods : M.periods[q] = IF q = w THEN a ELSE L.periods[q]
  BY <1>2, <1>3
<1>5. \A q \in DOMAIN L.periods : M.periods[q].work = L.periods[q].work /\ M.periods[q].rewards = L.periods[q].rewards
  BY <1>4
<1>6. LedgerType(M)
  BY <1>1, <1>3, <1>4 DEF LedgerType
<1>7. CarryRecent(M)
  BY <1>1, <1>3, <1>4 DEF CarryRecent
<1>8. CarryFits(M)
  BY <1>1, <1>3 DEF CarryFits
<1>9. ArchivesCapped(M) /\ Numbered(M)
  BY <1>1, <1>4, <1>5 DEF ArchivesCapped, Numbered
<1>10. Earned(M)
  <2>1. \A h : Paid(M, h) = Paid(L, h)
    <3> TAKE h
    <3>1. [q \in DOMAIN M.periods |-> M.periods[q].rewards[h]] = [q \in DOMAIN L.periods |-> L.periods[q].rewards[h]]
      BY <1>4, <1>5
    <3> QED BY <3>1 DEF Paid
  <2>2. \A h : Carried(M, h) = Carried(L, h) /\ Settled(M, h) = Settled(L, h)
    BY <1>3 DEF Carried, Settled, SettledRows
  <2> QED BY <1>1, <2>1, <2>2 DEF Earned
<1>11. EntriesFit(M)
  <2>1. SUFFICES ASSUME NEW e \in Nat
                 PROVE  Cardinality({q \in DOMAIN M.periods : M.periods[q].entry = e}) <= CATCHUP_ENTRIES
    BY DEF EntriesFit
  <2> DEFINE A == {q \in DOMAIN L.periods : L.periods[q].entry = e}
             R == {q \in DOMAIN L.periods \ {w} : L.periods[q].entry = e}
             B == {q \in DOMAIN M.periods : M.periods[q].entry = e}
  <2>2. Cardinality(A) <= CATCHUP_ENTRIES
    BY <1>1 DEF EntriesFit
  <2>3. IsFiniteSet(A) /\ IsFiniteSet(R) /\ CATCHUP_ENTRIES \in Nat
    <3>1. A \in SUBSET Work /\ R \in SUBSET Work /\ IsFiniteSet(Work)
      BY <1>2, WorkType
    <3> QED BY <3>1, FS_Subset, SettingTypes
  <2>4. CASE a.entry = e /\ a.entry # L.periods[w].entry
    <3>1. B = R \union {w} /\ w \notin R
      BY <1>4, <2>4
    <3>2. Cardinality(R) < CATCHUP_ENTRIES
      BY <2>4
    <3> HIDE DEF A, R, B
    <3>3. Cardinality(B) = Cardinality(R) + 1 /\ Cardinality(R) \in Nat
      BY <2>3, <3>1, FS_AddElement, FS_CardinalityType
    <3>4. Cardinality(B) <= CATCHUP_ENTRIES
      BY <2>3, <3>2, <3>3, SMT
    <3> QED BY <3>4 DEF B
  <2>5. CASE ~ (a.entry = e /\ a.entry # L.periods[w].entry)
    <3>1. B \in SUBSET A
      BY <1>4, <2>5
    <3> HIDE DEF A, R, B
    <3>2. Cardinality(B) <= Cardinality(A) /\ Cardinality(A) \in Nat /\ Cardinality(B) \in Nat
      BY <2>3, <3>1, FS_Subset, FS_CardinalityType
    <3>3. Cardinality(B) <= CATCHUP_ENTRIES
      BY <2>2, <2>3, <3>2, SMT
    <3> QED BY <3>3 DEF B
  <2> QED BY <2>4, <2>5
<1> QED BY <1>6, <1>7, <1>8, <1>9, <1>10, <1>11 DEF TablesInv

\* The accruals are replaced, the settled ones kept as they are.
LEMMA AccrualsUpdate ==
    ASSUME NEW L, TablesInv(L), NEW B, IsFiniteSet(DOMAIN B), B \in [DOMAIN B -> Row],
           DOMAIN L.accruals \subseteq DOMAIN B,
           \A s \in DOMAIN L.accruals : L.accruals[s].status = "settled" => B[s] = L.accruals[s],
           \A s \in DOMAIN B : B[s].status = "settled" => s \in DOMAIN L.accruals /\ L.accruals[s].status = "settled",
           NEW M, M = [accruals |-> B, carry |-> L.carry, periods |-> L.periods]
    PROVE  TablesInv(M)
<1>1. /\ LedgerType(L) /\ CarryRecent(L) /\ CarryFits(L) /\ ArchivesCapped(L) /\ Numbered(L)
      /\ EntriesFit(L) /\ Earned(L)
  BY DEF TablesInv
<1>2. M.accruals = B /\ M.carry = L.carry /\ M.periods = L.periods
  OBVIOUS
<1>3. LedgerType(M)
  BY <1>1, <1>2 DEF LedgerType
<1>4. CarryRecent(M) /\ CarryFits(M) /\ ArchivesCapped(M) /\ Numbered(M) /\ EntriesFit(M)
  BY <1>1, <1>2 DEF CarryRecent, CarryFits, ArchivesCapped, Numbered, EntriesFit
<1>5. Earned(M)
  <2>1. \A h : Paid(M, h) = Paid(L, h) /\ Carried(M, h) = Carried(L, h)
    BY <1>2 DEF Paid, Carried
  <2>2. ASSUME NEW h PROVE Settled(M, h) = Settled(L, h)
    <3>1. SettledRows(M, h) = SettledRows(L, h)
      BY <1>2 DEF SettledRows
    <3>2. \A s \in SettledRows(L, h) : M.accruals[s].amount = L.accruals[s].amount
      BY <1>2 DEF SettledRows
    <3>3. [s \in SettledRows(M, h) |-> M.accruals[s].amount] = [s \in SettledRows(L, h) |-> L.accruals[s].amount]
      BY <3>1, <3>2
    <3> QED BY <3>3 DEF Settled
  <2> QED BY <1>1, <2>1, <2>2 DEF Earned
<1> QED BY <1>3, <1>4, <1>5 DEF TablesInv

\* The archive publish works on is one it holds, and the only one of the least period.
LEMMA DocIsOldest ==
    ASSUME todo # {}, \A a \in todo : a.work \in Nat
    PROVE  doc \in todo /\ \A b \in todo : doc.work <= b.work
<1> DEFINE W == {a.work : a \in todo}
<1>1. W \subseteq Nat /\ W # {}
  OBVIOUS
<1>2. PICK n \in W : \A m \in W : n <= m
  <2> HIDE DEF W
  <2> QED BY <1>1, LeastNat
<1>3. PICK a \in todo : a.work = n
  OBVIOUS
<1>4. \A b \in todo : a.work <= b.work
  BY <1>2, <1>3
<1> QED BY <1>4 DEF doc

\* The settings the types of the state are made of stay.
LEMMA SameTypes ==
    ASSUME setup' = setup
    PROVE  /\ Setups' = Setups /\ Event' = Event /\ Row' = Row /\ ArchiveRow' = ArchiveRow
           /\ Hotkeys' = Hotkeys /\ MaxTime' = MaxTime /\ Span' = Span
BY DEF Event, Row, ArchiveRow, Hotkeys, MaxTime, Span, Kinds

\* What the parts of the invariant depend on.
LEMMA EventsFrame ==
    ASSUME EventsInv, UNCHANGED <<setup, now, events, cursor, accruals, bans, alive, downtime, last_at, outages>>
    PROVE  EventsInv'
BY SameTypes DEF EventsInv, ClockType

\* The tables,
LEMMA TablesFrame ==
    ASSUME TablesInv(books), UNCHANGED <<setup, accruals, carry, periods>>
    PROVE  TablesInv(books)'
<1>1. books' = books
  BY DEF books
<1> QED BY <1>1, TablesNext

\* the accruals against the archives,
LEMMA AheadFrame ==
    ASSUME Ahead, UNCHANGED accruals, DOMAIN periods' = DOMAIN periods
    PROVE  Ahead'
BY DEF Ahead

\* and the publication.
LEMMA PublishFrame ==
    ASSUME PublishInv, UNCHANGED <<periods, bucket, late, pc, todo>>
    PROVE  PublishInv'
<1>1. doc' = doc
  BY DEF doc
<1> QED BY <1>1 DEF PublishInv, SentIsKept, ConfirmedIsStored, Document

\* It holds of the empty ledger.
LEMMA PayInit == Init => PayInv
<1> SUFFICES ASSUME Init PROVE PayInv
  OBVIOUS
<1> USE DEF Init
<1>0. setup \in Setups /\ Hotkeys \X Work = Table
  BY DEF Table
<1>1. /\ IsFiniteSet(Hotkeys) /\ cap \in Nat /\ carry_max_caps \in Nat /\ MaxTime \in Nat
      /\ CATCHUP_ENTRIES \in Nat
  BY <1>0, SettingTypes
<1>2. IsFiniteSet(Table)
  BY <1>0, WorkType
<1>3. EventsInv
  <2>1. ClockType
    BY DEF ClockType, Span
  <2>2. now <= MaxTime
    BY <1>1, SMT
  <2>3. events \in Seq(Event) /\ DOMAIN events = {}
    BY SMT
  <2>4. DOMAIN accruals = {}
    BY SMT
  <2> QED BY <2>1, <2>2, <2>3, <2>4 DEF EventsInv
<1>4. DOMAIN accruals = {} /\ DOMAIN periods = {} /\ \A x \in Table : carry[x] = 0
  BY <1>0, SMT
<1>5. /\ books = [accruals |-> accruals, carry |-> carry, periods |-> periods]
      /\ books.accruals = accruals /\ books.carry = carry /\ books.periods = periods
  BY DEF books
<1>6. LedgerType(books)
  <2>1. IsFiniteSet({})
    BY FS_EmptySet
  <2>2. accruals \in [DOMAIN accruals -> Row] /\ periods \in [DOMAIN periods -> ArchiveRow]
    BY SMT
  <2>3. carry \in [Table -> Nat]
    BY <1>0
  <2> QED BY <1>4, <1>5, <2>1, <2>2, <2>3 DEF LedgerType
<1>7. CarryRecent(books)
  BY <1>4, <1>5, SMT DEF CarryRecent
<1>8. CarryFits(books)
  <2>1. SumFunctionOnSet(carry, Table) = 0
    BY <1>2, <1>4, SumZero
  <2>2. carry_max_caps * cap \in Nat
    BY <1>1, SMT
  <2> QED BY <1>5, <2>1, <2>2, SMT DEF CarryFits
<1>9. ArchivesCapped(books) /\ Numbered(books)
  BY <1>4, <1>5 DEF ArchivesCapped, Numbered
<1>10. EntriesFit(books)
  <2>1. \A e \in Nat : {q \in DOMAIN periods : periods[q].entry = e} = {}
    BY <1>4
  <2>2. Cardinality({}) = 0
    BY FS_EmptySet
  <2>3. \A e \in Nat : Cardinality({q \in DOMAIN periods : periods[q].entry = e}) <= CATCHUP_ENTRIES
    BY <1>1, <2>1, <2>2, SMT
  <2> QED BY <1>5, <2>3 DEF EntriesFit
<1>11. Earned(books)
  <2>1. SUFFICES ASSUME NEW h \in Hotkeys PROVE Paid(books, h) + Carried(books, h) <= Settled(books, h)
    BY DEF Earned
  <2>2. /\ Paid(books, h) = SumFunctionOnSet(PaidRows(books, h), DOMAIN periods)
        /\ Carried(books, h) = SumFunctionOnSet(CarriedRow(books, h), Work) /\ IsFiniteSet(Work)
        /\ Settled(books, h) \in Nat
        /\ \A o \in Work : CarriedRow(books, h)[o] = carry[<<h, o>>]
    BY <1>0, <1>5, <1>6, AccountsType, SMT
  <2>3. Paid(books, h) = 0
    BY <1>4, <2>2, SumEmpty
  <2>4. \A o \in Work : CarriedRow(books, h)[o] = 0
    BY <1>4, <2>2 DEF Table
  <2>5. Carried(books, h) = 0
    BY <2>2, <2>4, SumZero
  <2> QED BY <2>2, <2>3, <2>5, SMT
<1>12. Ahead
  BY <1>4 DEF Ahead
<1>13. PublishInv
  BY <1>4 DEF PublishInv, ConfirmedIsStored
<1> QED BY <1>3, <1>6, <1>7, <1>8, <1>9, <1>10, <1>11, <1>12, <1>13 DEF PayInv, TablesInv

\* The clock, the events, the heartbeats and the restarts.
LEMMA ClockStep ==
    ASSUME PayInv, Tick \/ _event \/ trainer_beat \/ mark_alive \/ _boot
    PROVE  PayInv'
<1>0. EventsInv /\ TablesInv(books) /\ Ahead /\ PublishInv
  BY DEF PayInv
<1>1. UNCHANGED <<setup, accruals, carry, periods, bucket, late, pc, todo, cursor, bans>>
  BY DEF Tick, _event, trainer_beat, mark_alive, _boot, ledger, store, loop
<1>2. TablesInv(books)' /\ Ahead' /\ PublishInv'
  BY <1>0, <1>1, TablesFrame, AheadFrame, PublishFrame
<1>3. /\ Setups' = Setups /\ Event' = Event /\ Hotkeys' = Hotkeys /\ MaxTime' = MaxTime /\ Span' = Span
  BY <1>1, SameTypes
<1>4. /\ setup \in Setups /\ now \in Nat /\ bans \in [Hotkeys -> Nat]
      /\ downtime \in SUBSET Span /\ outages \in SUBSET Span /\ last_at \in Nat \union {-1}
      /\ now <= MaxTime /\ alive \in Nat
      /\ events \in Seq(Event) /\ \A i \in DOMAIN events : events[i].at <= now
      /\ cursor \in Nat /\ DOMAIN accruals \subseteq 1 .. cursor
      /\ \A s \in DOMAIN accruals : accruals[s].status = "accrued" => bans[accruals[s].hotkey] <= now
  BY <1>0 DEF EventsInv, ClockType
<1>5. MaxTime \in Nat /\ accruals \in [DOMAIN accruals -> Row]
  <2>1. MaxTime \in Nat
    BY <1>4, SettingTypes
  <2>2. accruals \in [DOMAIN accruals -> Row]
    BY <1>0 DEF TablesInv, LedgerType, books
  <2> QED BY <2>1, <2>2
<1>6. CASE Tick
  <2>1. now' = now + 1 /\ now < MaxTime /\ UNCHANGED <<events, alive, downtime, last_at, outages>>
    BY <1>6 DEF Tick, uptime, beats
  <2>2. now' \in Nat /\ now' <= MaxTime
    BY <1>4, <1>5, <2>1, SMT
  <2>3. \A i \in DOMAIN events : events[i].at <= now'
    <3> TAKE i \in DOMAIN events
    <3>1. events[i] \in Event
      BY <1>4, SMT
    <3>2. events[i].at \in Nat /\ events[i].at <= now
      BY <1>4, <3>1 DEF Event
    <3> QED BY <1>4, <2>1, <3>2, SMT
  <2>4. ASSUME NEW s \in DOMAIN accruals, accruals[s].status = "accrued" PROVE bans[accruals[s].hotkey] <= now'
    <3>1. bans[accruals[s].hotkey] <= now
      BY <1>4, <2>4
    <3>2. accruals[s].hotkey \in Hotkeys
      BY <1>5 DEF Row
    <3>3. bans[accruals[s].hotkey] \in Nat
      BY <1>4, <3>2
    <3> QED BY <1>4, <2>1, <3>1, <3>3, SMT
  <2>5. EventsInv'
    BY <1>1, <1>3, <1>4, <2>1, <2>2, <2>3, <2>4 DEF EventsInv, ClockType
  <2> QED BY <1>2, <2>5 DEF PayInv
<1>7. CASE _event
  <2>1. PICK h \in Hotkeys, k \in Kinds : events' = Append(events, [kind |-> k, hotkey |-> h, at |-> now])
    BY <1>7 DEF _event
  <2>2. UNCHANGED <<now, alive, downtime, last_at, outages>>
    BY <1>7 DEF _event, uptime, beats
  <2> DEFINE e == [kind |-> k, hotkey |-> h, at |-> now]
  <2>3. e \in Event /\ e.at = now
    BY <1>4 DEF Event
  <2> HIDE DEF e
  <2>4. events' \in Seq(Event) /\ \A i \in DOMAIN events' : events'[i].at <= now
    <3>1. events' = Append(events, e)
      BY <2>1 DEF e
    <3>2. events' \in Seq(Event) /\ Len(events') = Len(events) + 1 /\ DOMAIN events' = 1 .. Len(events')
          /\ DOMAIN events = 1 .. Len(events) /\ Len(events) \in Nat
      BY <1>4, <2>3, <3>1, SMT
    <3>3. \A i \in 1 .. Len(events) : events'[i] = events[i]
      BY <1>4, <3>1, SMT
    <3>4. events'[Len(events) + 1] = e
      BY <1>4, <3>1, SMT
    <3>5. ASSUME NEW i \in DOMAIN events' PROVE events'[i].at <= now
      <4>1. CASE i \in 1 .. Len(events)
        <5>1. events[i].at <= now
          BY <1>4, <3>2, <4>1
        <5> QED BY <3>3, <4>1, <5>1
      <4>2. CASE i \notin 1 .. Len(events)
        <5>1. i = Len(events) + 1
          BY <3>2, <4>2, SMT
        <5> QED BY <1>4, <2>3, <3>4, <5>1, SMT
      <4> QED BY <4>1, <4>2
    <3> QED BY <3>2, <3>5
  <2>5. EventsInv'
    BY <1>1, <1>3, <1>4, <2>2, <2>4 DEF EventsInv, ClockType
  <2> QED BY <1>2, <2>5 DEF PayInv
<1>8. CASE trainer_beat
  <2>1. /\ outages' = outages \union (IF last_at >= 0 /\ now - last_at > outage_grace_s THEN {<<last_at, now>>} ELSE {})
        /\ last_at' = now /\ UNCHANGED <<now, events, alive, downtime>>
    BY <1>8 DEF trainer_beat, uptime
  <2>2. last_at >= 0 => <<last_at, now>> \in Span
    BY <1>4, SMT DEF Span
  <2>3. outages' \in SUBSET Span
    BY <1>4, <2>1, <2>2
  <2>4. EventsInv'
    BY <1>1, <1>3, <1>4, <2>1, <2>3 DEF EventsInv, ClockType
  <2> QED BY <1>2, <2>4 DEF PayInv
<1>9. CASE mark_alive \/ _boot
  <2>1. downtime' = Marked /\ alive' = now /\ UNCHANGED <<now, events, last_at, outages>>
    BY <1>9 DEF mark_alive, _boot, beats
  <2>2. downtime' \in SUBSET Span
    <3>1. <<alive, now>> \in Span
      BY <1>4 DEF Span
    <3> QED BY <1>4, <2>1, <3>1 DEF Marked
  <2>3. EventsInv'
    BY <1>1, <1>3, <1>4, <2>1, <2>2 DEF EventsInv, ClockType
  <2> QED BY <1>2, <2>3 DEF PayInv
<1> QED BY <1>6, <1>7, <1>8, <1>9

\* What publish holds: archives of the ledger, each under its own period.
LEMMA HeldArchives ==
    ASSUME PayInv
    PROVE  /\ DOMAIN periods \subseteq Nat
           /\ \A q \in DOMAIN periods : periods[q] \in ArchiveRow /\ periods[q].work = q
           /\ todo # {} => /\ doc \in todo /\ doc.work \in DOMAIN periods /\ doc = periods[doc.work]
                           /\ doc.published # "yes" /\ doc \in ArchiveRow
                           /\ \A b \in todo : doc.work <= b.work
           /\ \A a, b \in todo : a.work = b.work => a = b
<1>1. /\ setup \in Setups /\ LedgerType(books) /\ Numbered(books) /\ PublishInv
  BY DEF PayInv, EventsInv, ClockType, TablesInv
<1>2. DOMAIN periods \subseteq Nat
  <2>1. DOMAIN periods \subseteq Work /\ Work \subseteq Nat
    BY <1>1, WorkType DEF LedgerType, books
  <2> QED BY <2>1
<1>3. \A q \in DOMAIN periods : periods[q] \in ArchiveRow /\ periods[q].work = q
  BY <1>1 DEF LedgerType, Numbered, books
<1>4. \A a \in todo : a.work \in DOMAIN periods /\ a = periods[a.work] /\ a.published # "yes"
  BY <1>1 DEF PublishInv
<1>5. \A a \in todo : a.work \in Nat
  BY <1>2, <1>4
<1>6. ASSUME todo # {} PROVE doc \in todo /\ \A b \in todo : doc.work <= b.work
  BY <1>5, <1>6, DocIsOldest
<1>7. ASSUME todo # {} PROVE doc.work \in DOMAIN periods /\ doc = periods[doc.work] /\ doc.published # "yes" /\ doc \in ArchiveRow
  <2>1. doc \in todo
    BY <1>6, <1>7
  <2>2. doc.work \in DOMAIN periods /\ doc = periods[doc.work] /\ doc.published # "yes"
    BY <1>4, <2>1
  <2>3. periods[doc.work] \in ArchiveRow
    BY <1>3, <2>2
  <2> QED BY <2>2, <2>3
<1>8. \A a, b \in todo : a.work = b.work => a = b
  BY <1>4
<1> QED BY <1>2, <1>3, <1>6, <1>7, <1>8

\* The steps of publish that leave the ledger's tables alone.
LEMMA StoreStep ==
    ASSUME PayInv, Unpublished \/ PublishRead \/ PublishWrite \/ PublishInterrupted \/ LateUpload \/ Crash
    PROVE  PayInv'
<1>0. EventsInv /\ TablesInv(books) /\ Ahead /\ PublishInv
  BY DEF PayInv
<1>1. UNCHANGED <<setup, now, events, cursor, accruals, bans, carry, periods, alive, downtime, last_at, outages>>
  BY DEF Unpublished, PublishRead, PublishWrite, PublishInterrupted, LateUpload, Crash, ledger, uptime, beats
<1>2. EventsInv' /\ TablesInv(books)' /\ Ahead'
  BY <1>0, <1>1, EventsFrame, TablesFrame, AheadFrame
<1>3. /\ \A d \in bucket \union late : SentIsKept(d)
      /\ \A p \in DOMAIN periods : periods[p].published = "yes" => Document(periods[p]) \in bucket
      /\ \A a \in todo : a.work \in DOMAIN periods /\ a = periods[a.work] /\ a.published # "yes"
      /\ pc \in {"ingest", "settle", "unpublished", "read", "commit", "write", "confirm"}
      /\ pc \in {"ingest", "settle", "unpublished"} => todo = {}
      /\ pc \in {"commit", "write", "confirm"} => todo # {}
      /\ pc = "write" => doc.published = "attempted"
      /\ pc = "confirm" => Document(doc) \in bucket
  BY <1>0 DEF PublishInv, ConfirmedIsStored
<1>4. SUFFICES PublishInv'
  BY <1>2 DEF PayInv
<1>5. \A d : SentIsKept(d)' <=> SentIsKept(d)
  BY <1>1 DEF SentIsKept, Document
<1>6. ASSUME todo # {}, pc = "write" PROVE SentIsKept(Document(doc)) /\ Document(doc).work = doc.work
  <2>1. doc.work \in DOMAIN periods /\ doc = periods[doc.work] /\ doc.published = "attempted"
    BY <1>3, <1>6, HeldArchives
  <2>2. Document(doc).work = doc.work
    BY DEF Document
  <2> QED BY <2>1, <2>2 DEF SentIsKept
<1>7. ASSUME todo' = todo PROVE doc' = doc
  BY <1>7 DEF doc
<1>8. \A a : Document(a)' = Document(a)
  BY DEF Document
<1>9. CASE Unpublished
  <2>1. /\ todo' = {periods[p] : p \in {q \in DOMAIN periods : periods[q].published # "yes"}}
        /\ pc' = "read" /\ UNCHANGED <<bucket, late>>
    BY <1>9 DEF Unpublished, store
  <2>2. \A a \in todo' : a.work \in DOMAIN periods /\ a = periods[a.work] /\ a.published # "yes"
    BY <2>1, HeldArchives, SMT
  <2> QED BY <1>1, <1>3, <1>5, <2>1, <2>2 DEF PublishInv, ConfirmedIsStored, Document
<1>10. ASSUME pc' = "ingest", todo' = {}, \A d \in bucket' \union late' : SentIsKept(d), bucket \subseteq bucket'
       PROVE  PublishInv'
  BY <1>1, <1>3, <1>5, <1>10 DEF PublishInv, ConfirmedIsStored, Document
<1>11. CASE PublishRead
  <2>1. UNCHANGED <<bucket, late>> /\ pc = "read"
    BY <1>11 DEF PublishRead, store
  <2>2. CASE PassOver
    BY <1>3, <1>10, <2>1, <2>2 DEF PassOver
  <2>3. CASE todo # {} /\ pc' = "commit" /\ UNCHANGED todo
    BY <1>1, <1>3, <1>5, <2>1, <2>3 DEF PublishInv, ConfirmedIsStored, Document
  <2>4. CASE todo # {} /\ Stored(doc) = {Document(doc)} /\ pc' = "confirm" /\ UNCHANGED todo
    <3>1. Document(doc) \in bucket
      BY <2>4 DEF Stored
    <3>2. doc' = doc
      BY <1>7, <2>4
    <3>3. Document(doc)' \in bucket'
      BY <2>1, <3>1, <3>2 DEF Document
    <3> QED BY <1>1, <1>3, <1>5, <2>1, <2>4, <3>3 DEF PublishInv, ConfirmedIsStored, Document
  <2> QED BY <1>11, <2>2, <2>3, <2>4 DEF PublishRead
<1>12. CASE PublishWrite
  <2>1. UNCHANGED late /\ pc = "write" /\ todo # {}
    BY <1>3, <1>12 DEF PublishWrite
  <2>2. SentIsKept(Document(doc))
    BY <1>6, <2>1
  <2>3. CASE bucket' = bucket \union {Document(doc)} /\ pc' = "confirm" /\ UNCHANGED todo
    <3>1. doc' = doc
      BY <1>7, <2>3
    <3>2. Document(doc)' \in bucket'
      BY <2>3, <3>1 DEF Document
    <3>3. \A d \in bucket' \union late' : SentIsKept(d)'
      BY <1>3, <1>5, <2>1, <2>2, <2>3
    <3>4. ConfirmedIsStored'
      BY <1>1, <1>3, <2>3 DEF ConfirmedIsStored, Document
    <3> QED BY <1>1, <1>3, <2>1, <2>3, <3>2, <3>3, <3>4 DEF PublishInv
  <2>4. CASE PassOver /\ UNCHANGED bucket
    BY <1>3, <1>10, <2>1, <2>4 DEF PassOver
  <2> QED BY <1>12, <2>3, <2>4 DEF PublishWrite
<1>13. CASE PublishInterrupted
  <2>1. /\ late' = late \union {Document(doc)} /\ UNCHANGED bucket /\ pc = "write"
        /\ pc' = "ingest" /\ todo' = {}
    BY <1>13 DEF PublishInterrupted, PassOver
  <2>2. SentIsKept(Document(doc))
    BY <1>3, <1>6, <2>1
  <2> QED BY <1>3, <1>10, <2>1, <2>2
<1>14. CASE Crash
  <2>1. /\ late' = late \union (IF pc = "write" THEN {Document(doc)} ELSE {}) /\ UNCHANGED bucket
        /\ pc' = "ingest" /\ todo' = {}
    BY <1>14 DEF Crash, PassOver
  <2>2. pc = "write" => SentIsKept(Document(doc))
    BY <1>3, <1>6
  <2> QED BY <1>3, <1>10, <2>1, <2>2
<1>15. CASE LateUpload
  <2>1. PICK d \in late : bucket' = (bucket \ Stored(d)) \union {d} /\ late' = late \ {d} /\ UNCHANGED <<pc, todo>>
    BY <1>15 DEF LateUpload, loop
  <2>2. \A b \in Stored(d) : b = d
    BY <1>3, SMT DEF Stored, SentIsKept
  <2>3. bucket \subseteq bucket'
    BY <2>1, <2>2
  <2>4. \A e \in bucket' \union late' : SentIsKept(e)'
    BY <1>3, <1>5, <2>1
  <2>5. doc' = doc
    BY <1>7, <2>1
  <2>6. ConfirmedIsStored'
    BY <1>1, <1>3, <2>3 DEF ConfirmedIsStored, Document
  <2>7. pc' = "confirm" => Document(doc)' \in bucket'
    BY <1>3, <2>1, <2>3, <2>5 DEF Document
  <2> QED BY <1>1, <1>3, <2>1, <2>4, <2>5, <2>6, <2>7 DEF PublishInv
<1> QED BY <1>9, <1>11, <1>12, <1>13, <1>14, <1>15

\* The two transactions of publish: the identity committed, the archive confirmed.
LEMMA CommitStep ==
    ASSUME PayInv, PublishCommit
    PROVE  PayInv'
<1>0. EventsInv /\ TablesInv(books) /\ Ahead /\ PublishInv /\ setup \in Setups /\ now \in Nat
  BY DEF PayInv, EventsInv, ClockType
<1>1. /\ UNCHANGED <<setup, now, events, cursor, accruals, bans, carry, alive, downtime, last_at, outages, bucket, late>>
      /\ pc = "commit" /\ pc' = "write"
  BY DEF PublishCommit, uptime, beats, store
<1>2. /\ \A d \in bucket \union late : SentIsKept(d)
      /\ \A p \in DOMAIN periods : periods[p].published = "yes" => Document(periods[p]) \in bucket
      /\ \A a \in todo : a.work \in DOMAIN periods /\ a = periods[a.work] /\ a.published # "yes"
      /\ todo # {}
  BY <1>0, <1>1 DEF PublishInv, ConfirmedIsStored
<1> DEFINE w == doc.work
           a == periods[w]
           due == period_of(now) + 1
           entry == IF MayMove(a) /\ a.entry < due
                    THEN entry_for(due, [q \in DOMAIN periods \ {w} |-> periods[q]]) ELSE a.entry
           sent == [a EXCEPT !.entry = entry, !.published = "attempted"]
<1>3. periods' = [periods EXCEPT ![w] = sent] /\ todo' = (todo \ {doc}) \union {sent}
  BY DEF PublishCommit
<1>4. /\ w \in DOMAIN periods /\ doc = a /\ a \in ArchiveRow /\ a.work = w /\ a.published # "yes" /\ doc \in todo
      /\ \A b \in todo : w <= b.work
      /\ \A b, c \in todo : b.work = c.work => b = c
      /\ DOMAIN periods \subseteq Nat
  BY <1>2, HeldArchives
<1>5. IsFiniteSet(DOMAIN periods)
  <2>1. LedgerType(books)
    BY <1>0 DEF TablesInv
  <2>2. DOMAIN periods \in SUBSET Work /\ IsFiniteSet(Work)
    BY <1>0, <2>1, WorkType DEF LedgerType, books
  <2> QED BY <2>2, FS_Subset
<1>6. /\ entry \in Nat
      /\ \/ entry = a.entry
         \/ /\ a.published = "unattempted"
            /\ Cardinality({q \in DOMAIN periods \ {w} : periods[q].entry = entry}) < CATCHUP_ENTRIES
  <2>1. CASE MayMove(a) /\ a.entry < due
    <3> DEFINE P == [q \in DOMAIN periods \ {w} |-> periods[q]]
               e == entry_for(due, P)
    <3>1. DOMAIN P = DOMAIN periods \ {w} /\ IsFiniteSet(DOMAIN P)
      BY <1>5, FS_RemoveElement
    <3>2. due \in Nat
      <4>1. period_of(now) \in Nat
        BY <1>0, PeriodOfNat
      <4> QED BY <4>1, SMT
    <3>3. e \in Nat /\ Cardinality({q \in DOMAIN P : P[q].entry = e}) < CATCHUP_ENTRIES
      <4> HIDE DEF P, due
      <4> QED BY <1>0, <3>1, <3>2, EntryHasRoom
    <3>4. {q \in DOMAIN P : P[q].entry = e} = {q \in DOMAIN periods \ {w} : periods[q].entry = e}
      <4> HIDE DEF e
      <4> QED BY <3>1
    <3>5. entry = e /\ a.published = "unattempted"
      BY <2>1 DEF MayMove
    <3> HIDE DEF P, e, entry
    <3> QED BY <3>3, <3>4, <3>5
  <2>2. CASE ~ (MayMove(a) /\ a.entry < due)
    <3>1. entry = a.entry
      BY <2>2
    <3> HIDE DEF entry
    <3> QED BY <1>4, <3>1 DEF ArchiveRow
  <2> QED BY <2>1, <2>2
<1> HIDE DEF entry, due
<1>7. /\ sent \in ArchiveRow /\ sent.work = w /\ sent.rewards = a.rewards /\ sent.entry = entry
      /\ sent.outage_s = a.outage_s /\ sent.published = "attempted"
  BY <1>4, <1>6 DEF ArchiveRow
<1> HIDE DEF sent
<1>8. DOMAIN periods' = DOMAIN periods /\ \A q \in DOMAIN periods : periods'[q] = IF q = w THEN sent ELSE periods[q]
  BY <1>3
<1>9. EventsInv' /\ Ahead'
  BY <1>0, <1>1, <1>8, EventsFrame, AheadFrame
<1>10. TablesInv(books)'
  <2> DEFINE L == books
             M == [accruals |-> L.accruals, carry |-> L.carry, periods |-> [L.periods EXCEPT ![w] = sent]]
  <2>1. L.accruals = accruals /\ L.carry = carry /\ L.periods = periods
    BY DEF books
  <2>2. TablesInv(M)
    <3>1. w \in DOMAIN L.periods /\ sent.work = L.periods[w].work /\ sent.rewards = L.periods[w].rewards
      BY <1>4, <1>7, <2>1
    <3>2. \/ sent.entry = L.periods[w].entry
          \/ Cardinality({q \in DOMAIN L.periods \ {w} : L.periods[q].entry = sent.entry}) < CATCHUP_ENTRIES
      BY <1>6, <1>7, <2>1
    <3> HIDE DEF w, L
    <3> QED BY <1>0, <1>7, <3>1, <3>2, ArchiveUpdate DEF L
  <2>3. books' = M
    BY <1>1, <1>3, <2>1 DEF books
  <2> HIDE DEF M, L
  <2> QED BY <1>1, <2>2, <2>3, TablesNext
<1>11. ASSUME NEW d \in bucket \union late PROVE SentIsKept(d)'
  <2>1. d.work \in DOMAIN periods /\ d = Document(periods[d.work]) /\ periods[d.work].published # "unattempted"
    BY <1>2, <1>11 DEF SentIsKept
  <2>2. CASE d.work # w
    <3>1. periods'[d.work] = periods[d.work]
      BY <1>8, <2>1, <2>2
    <3> QED BY <1>8, <2>1, <3>1 DEF SentIsKept, Document
  <2>3. CASE d.work = w
    <3>1. entry = a.entry /\ periods'[d.work] = sent
      BY <1>6, <1>8, <2>1, <2>3
    <3>2. Document(sent) = Document(a)
      BY <1>4, <1>7, <3>1 DEF Document
    <3>3. d = Document(sent)
      BY <2>1, <2>3, <3>2
    <3> QED BY <1>7, <1>8, <2>1, <3>1, <3>3 DEF SentIsKept, Document
  <2> QED BY <2>2, <2>3
<1>12. ConfirmedIsStored'
  <2>1. ASSUME NEW p \in DOMAIN periods, periods'[p].published = "yes" PROVE Document(periods'[p]) \in bucket
    <3>1. p # w
      BY <1>7, <1>8, <2>1
    <3>2. periods'[p] = periods[p]
      BY <1>8, <3>1
    <3> QED BY <1>2, <2>1, <3>2
  <2> QED BY <1>1, <1>8, <2>1 DEF ConfirmedIsStored, Document
<1>13. \A b \in todo' : b.work \in DOMAIN periods' /\ b = periods'[b.work] /\ b.published # "yes"
  <2> TAKE b \in todo'
  <2>1. CASE b = sent
    BY <1>4, <1>7, <1>8, <2>1
  <2>2. CASE b # sent
    <3>1. b \in todo /\ b # doc
      BY <1>3, <2>2
    <3>2. b.work # w
      BY <1>4, <3>1
    <3>3. b.work \in DOMAIN periods /\ b = periods[b.work] /\ b.published # "yes"
      BY <1>2, <3>1
    <3> HIDE DEF w
    <3> QED BY <1>8, <3>2, <3>3
  <2> QED BY <2>1, <2>2
<1>14. doc' = sent
  <2>1. sent \in todo' /\ \A b \in todo' : sent.work <= b.work
    <3>1. w \in Nat
      BY <1>4
    <3>2. w <= w
      <4> HIDE DEF w
      <4> QED BY <3>1, SMT
    <3> QED BY <1>3, <1>4, <1>7, <3>2
  <2>2. \A b \in todo' : b.work \in Nat
    BY <1>4, <1>8, <1>13
  <2>3. doc' \in todo' /\ \A b \in todo' : doc'.work <= b.work
    BY <2>1, <2>2 DEF doc
  <2>4. doc'.work = sent.work
    <3>1. doc'.work <= sent.work /\ sent.work <= doc'.work /\ doc'.work \in Nat /\ sent.work \in Nat
      BY <2>1, <2>2, <2>3
    <3> QED BY <3>1, SMT
  <2> QED BY <1>13, <2>1, <2>3, <2>4
<1>15. PublishInv'
  <2>1. doc'.published = "attempted" /\ todo' # {}
    BY <1>3, <1>7, <1>14
  <2>2. \A d \in bucket' \union late' : SentIsKept(d)'
    BY <1>1, <1>11
  <2> QED BY <1>1, <1>12, <1>13, <2>1, <2>2 DEF PublishInv
<1> QED BY <1>9, <1>10, <1>15 DEF PayInv

\* Confirming the archive publish works on keeps the invariant: its document is in the bucket.
LEMMA ConfirmStep ==
    ASSUME PayInv, PublishConfirm
    PROVE  PayInv'
<1>0. EventsInv /\ TablesInv(books) /\ Ahead /\ PublishInv /\ setup \in Setups
  BY DEF PayInv, EventsInv, ClockType
<1>1. /\ UNCHANGED <<setup, now, events, cursor, accruals, bans, carry, alive, downtime, last_at, outages, bucket, late>>
      /\ pc = "confirm" /\ pc' = "read"
  BY DEF PublishConfirm, uptime, beats, store
<1>2. /\ \A d \in bucket \union late : SentIsKept(d)
      /\ \A p \in DOMAIN periods : periods[p].published = "yes" => Document(periods[p]) \in bucket
      /\ \A a \in todo : a.work \in DOMAIN periods /\ a = periods[a.work] /\ a.published # "yes"
      /\ todo # {} /\ Document(doc) \in bucket
  BY <1>0, <1>1 DEF PublishInv, ConfirmedIsStored
<1> DEFINE w == doc.work
           a == periods[w]
           done == [a EXCEPT !.published = "yes"]
<1>3. periods' = [periods EXCEPT ![w] = done] /\ todo' = todo \ {doc}
  BY DEF PublishConfirm
<1>4. /\ w \in DOMAIN periods /\ doc = a /\ a \in ArchiveRow /\ a.work = w /\ doc \in todo
      /\ \A b, c \in todo : b.work = c.work => b = c
  BY <1>2, HeldArchives
<1>5. /\ done \in ArchiveRow /\ done.work = w /\ done.rewards = a.rewards /\ done.entry = a.entry
      /\ done.outage_s = a.outage_s /\ done.published = "yes"
  BY <1>4 DEF ArchiveRow
<1> HIDE DEF done
<1>6. DOMAIN periods' = DOMAIN periods /\ \A q \in DOMAIN periods : periods'[q] = IF q = w THEN done ELSE periods[q]
  BY <1>3
<1>7. EventsInv' /\ Ahead'
  BY <1>0, <1>1, <1>6, EventsFrame, AheadFrame
<1>8. TablesInv(books)'
  <2> DEFINE L == books
             M == [accruals |-> L.accruals, carry |-> L.carry, periods |-> [L.periods EXCEPT ![w] = done]]
  <2>1. L.accruals = accruals /\ L.carry = carry /\ L.periods = periods
    BY DEF books
  <2>2. TablesInv(M)
    <3>1. w \in DOMAIN L.periods /\ done.work = L.periods[w].work /\ done.rewards = L.periods[w].rewards
          /\ done.entry = L.periods[w].entry
      BY <1>4, <1>5, <2>1
    <3> HIDE DEF w, L
    <3> QED BY <1>0, <1>5, <3>1, ArchiveUpdate DEF L
  <2>3. books' = M
    BY <1>1, <1>3, <2>1 DEF books
  <2> HIDE DEF M, L
  <2> QED BY <1>1, <2>2, <2>3, TablesNext
<1>9. \A q \in DOMAIN periods : Document(periods'[q]) = Document(periods[q])
                               /\ (periods[q].published # "unattempted" => periods'[q].published # "unattempted")
  BY <1>4, <1>5, <1>6 DEF Document
<1>10. ASSUME NEW d \in bucket \union late PROVE SentIsKept(d)'
  <2>1. d.work \in DOMAIN periods /\ d = Document(periods[d.work]) /\ periods[d.work].published # "unattempted"
    BY <1>2, <1>10 DEF SentIsKept
  <2>2. d = Document(periods'[d.work]) /\ periods'[d.work].published # "unattempted"
    BY <1>9, <2>1
  <2> QED BY <1>6, <2>1, <2>2 DEF SentIsKept, Document
<1>11. ConfirmedIsStored'
  <2>1. ASSUME NEW p \in DOMAIN periods, periods'[p].published = "yes" PROVE Document(periods'[p]) \in bucket
    <3>1. CASE p = w
      BY <1>2, <1>4, <1>9, <3>1
    <3>2. CASE p # w
      <4>1. periods'[p] = periods[p]
        BY <1>6, <3>2
      <4> QED BY <1>2, <2>1, <4>1
    <3> QED BY <3>1, <3>2
  <2> QED BY <1>1, <1>6, <2>1 DEF ConfirmedIsStored, Document
<1>12. \A b \in todo' : b.work \in DOMAIN periods' /\ b = periods'[b.work] /\ b.published # "yes"
  <2> TAKE b \in todo'
  <2>1. b \in todo /\ b # doc
    BY <1>3
  <2>2. b.work # w
    BY <1>4, <2>1
  <2>3. b.work \in DOMAIN periods /\ b = periods[b.work] /\ b.published # "yes"
    BY <1>2, <2>1
  <2> HIDE DEF w
  <2> QED BY <1>6, <2>2, <2>3
<1>13. PublishInv'
  <2>1. \A d \in bucket' \union late' : SentIsKept(d)'
    BY <1>1, <1>10
  <2> QED BY <1>1, <1>11, <1>12, <2>1 DEF PublishInv
<1> QED BY <1>7, <1>8, <1>13 DEF PayInv

\* What settle does to the tables: the accruals left are unchanged and of periods that are
\* not due, the archives added are of due periods and pay no hotkey that is banned now.
LEMMA SettleEffect ==
    ASSUME PayInv, settle
    PROVE  /\ TablesInv(books)' /\ DOMAIN accruals' = DOMAIN accruals
           /\ \A s \in DOMAIN accruals : accruals'[s].status = "accrued" =>
                accruals'[s] = accruals[s] /\ \A q \in DOMAIN periods' : q < accruals[s].period
           /\ DOMAIN periods \subseteq DOMAIN periods'
           /\ \A q \in DOMAIN periods : periods'[q] = periods[q]
           /\ \A q \in DOMAIN periods' \ DOMAIN periods :
                /\ periods'[q].published = "unattempted"
                /\ q \in Work /\ q <= closed_through(now, SettleSlack) /\ periods'[q].outage_s = Down(q, now)
                /\ \A h \in Hotkeys : now < bans[h] => periods'[q].rewards[h] = 0
<1> DEFINE closed == closed_through(now, SettleSlack)
           due == _due_periods(closed, _outages(now))
           N == Cardinality(Work)
           L == Settling(due, now)[N]
<1>0. /\ ClockType /\ now <= MaxTime /\ TablesInv(books) /\ Ahead /\ setup \in Setups /\ now \in Nat
      /\ bans \in [Hotkeys -> Nat]
      /\ \A s \in DOMAIN accruals : accruals[s].status = "accrued" => bans[accruals[s].hotkey] <= now
  BY DEF PayInv, EventsInv, ClockType
<1>1. LedgerType(books) /\ CarryRecent(books)
  BY <1>0 DEF TablesInv
<1>2. setup' = setup /\ accruals' = L.accruals /\ carry' = L.carry /\ periods' = L.periods
  BY DEF settle
<1>3. /\ \A p \in due : p \in Work /\ p <= closed /\ \A q \in DOMAIN periods : q < p
      /\ \A s \in DOMAIN accruals :
           accruals[s].status = "accrued" /\ accruals[s].period <= closed => accruals[s].period \in due
  BY <1>0, <1>1, DuePeriods
<1>4. closed \in Int
  BY <1>0, ClosedType
<1>5. N \in Nat /\ \A p \in Work : p \in Nat /\ p < N
  <2>1. period_of(MaxTime) \in Nat /\ Work = 0 .. period_of(MaxTime) /\ N = period_of(MaxTime) + 1
    BY <1>0, WorkType
  <2> HIDE DEF N
  <2> QED BY <2>1, SMT
<1>6. LoopInv(N, due, now, L)
  <2>1. \A p \in due : \A q \in DOMAIN periods : q < p
    BY <1>3
  <2> HIDE DEF due
  <2> QED BY <1>0, <2>1, SettledTables
<1> HIDE DEF closed, due, N, L
<1>7. /\ TablesInv(L)
      /\ DOMAIN L.accruals = DOMAIN accruals
      /\ \A s \in DOMAIN accruals : L.accruals[s].status = "accrued" =>
           L.accruals[s] = accruals[s] /\ (accruals[s].period \in due => accruals[s].period >= N)
      /\ DOMAIN periods \subseteq DOMAIN L.periods
      /\ \A q \in DOMAIN periods : L.periods[q] = periods[q]
      /\ \A q \in DOMAIN L.periods \ DOMAIN periods :
           /\ q \in due /\ q < N
           /\ L.periods[q].published = "unattempted" /\ L.periods[q].outage_s = Down(q, now)
           /\ \A h \in Hotkeys : now < bans[h] /\ Cleared(h) => L.periods[q].rewards[h] = 0
  BY <1>6 DEF LoopInv
<1>8. TablesInv(books)'
  <2>1. L = [accruals |-> L.accruals, carry |-> L.carry, periods |-> L.periods]
    BY <1>7 DEF TablesInv, LedgerType
  <2>2. books' = L
    BY <1>2, <2>1 DEF books
  <2> QED BY <1>2, <1>7, <2>2, TablesNext
<1>9. ASSUME NEW h \in Hotkeys, now < bans[h] PROVE Cleared(h)
  <2>1. SUFFICES ASSUME NEW s \in DOMAIN accruals, accruals[s].status = "accrued", accruals[s].hotkey = h
                 PROVE  FALSE
    BY DEF Cleared
  <2>2. bans[h] <= now /\ bans[h] \in Nat
    BY <1>0, <2>1
  <2> QED BY <1>0, <1>9, <2>2, SMT
<1>10. ASSUME NEW s \in DOMAIN accruals, accruals'[s].status = "accrued"
       PROVE  accruals'[s] = accruals[s] /\ \A q \in DOMAIN periods' : q < accruals[s].period
  <2>1. accruals'[s] = accruals[s] /\ (accruals[s].period \in due => accruals[s].period >= N)
    BY <1>2, <1>7, <1>10
  <2>2. accruals[s].status = "accrued"
    BY <1>10, <2>1
  <2>3. accruals[s].period \in Nat
    <3>1. accruals[s] \in Row
      BY <1>1 DEF LedgerType, books
    <3> QED BY <3>1 DEF Row
  <2>4. accruals[s].period \notin due
    <3>1. SUFFICES ASSUME accruals[s].period \in due PROVE FALSE
      OBVIOUS
    <3>2. accruals[s].period < N /\ accruals[s].period >= N
      BY <1>3, <1>5, <2>1, <3>1
    <3> QED BY <1>5, <2>3, <3>2, SMT
  <2>5. closed < accruals[s].period
    BY <1>3, <1>4, <2>2, <2>3, <2>4, SMT
  <2>6. ASSUME NEW q \in DOMAIN periods' PROVE q < accruals[s].period
    <3>1. CASE q \in DOMAIN periods
      BY <1>0, <2>2, <3>1 DEF Ahead
    <3>2. CASE q \notin DOMAIN periods
      <4>1. q \in due
        BY <1>2, <1>7, <3>2
      <4>2. q \in Nat /\ q <= closed
        BY <1>3, <1>5, <4>1
      <4> QED BY <1>4, <2>3, <2>5, <4>2, SMT
    <3> QED BY <3>1, <3>2
  <2> QED BY <2>1, <2>6
<1>11. ASSUME NEW q \in DOMAIN periods' \ DOMAIN periods
       PROVE  /\ periods'[q].published = "unattempted"
              /\ \A h \in Hotkeys : now < bans[h] => periods'[q].rewards[h] = 0
  BY <1>2, <1>7, <1>9
<1>12. ASSUME NEW q \in DOMAIN periods' \ DOMAIN periods
       PROVE  q \in Work /\ q <= closed /\ periods'[q].outage_s = Down(q, now)
  BY <1>2, <1>3, <1>7
<1> QED BY <1>2, <1>7, <1>8, <1>10, <1>11, <1>12 DEF closed

\* settle keeps the invariant.
LEMMA SettleStep ==
    ASSUME PayInv, settle
    PROVE  PayInv'
<1>0. EventsInv /\ PublishInv
  BY DEF PayInv
<1>1. /\ UNCHANGED <<setup, now, events, cursor, bans, alive, downtime, last_at, outages, bucket, late, todo>>
      /\ pc = "settle" /\ pc' \in {"unpublished", "ingest"}
  BY DEF settle, store, uptime, beats
<1>2. /\ TablesInv(books)' /\ DOMAIN accruals' = DOMAIN accruals
      /\ \A s \in DOMAIN accruals : accruals'[s].status = "accrued" =>
           accruals'[s] = accruals[s] /\ \A q \in DOMAIN periods' : q < accruals[s].period
      /\ DOMAIN periods \subseteq DOMAIN periods'
      /\ \A q \in DOMAIN periods : periods'[q] = periods[q]
      /\ \A q \in DOMAIN periods' \ DOMAIN periods : periods'[q].published = "unattempted"
  BY SettleEffect
<1>3. EventsInv'
  <2>1. \A s \in DOMAIN accruals : accruals'[s].status = "accrued" => bans[accruals'[s].hotkey] <= now
    BY <1>0, <1>2 DEF EventsInv
  <2> QED BY <1>0, <1>1, <1>2, <2>1, SameTypes DEF EventsInv, ClockType
<1>4. Ahead'
  BY <1>2 DEF Ahead
<1>5. PublishInv'
  <2>1. todo = {} /\ todo' = {}
    BY <1>0, <1>1 DEF PublishInv
  <2>2. ASSUME NEW d \in bucket' \union late' PROVE SentIsKept(d)'
    <3>1. d.work \in DOMAIN periods /\ d = Document(periods[d.work]) /\ periods[d.work].published # "unattempted"
      BY <1>0, <1>1 DEF PublishInv, SentIsKept
    <3>2. d.work \in DOMAIN periods' /\ periods'[d.work] = periods[d.work]
      BY <1>2, <3>1
    <3> QED BY <3>1, <3>2 DEF SentIsKept, Document
  <2>3. ConfirmedIsStored'
    <3>1. ASSUME NEW p \in DOMAIN periods', periods'[p].published = "yes" PROVE Document(periods'[p]) \in bucket
      <4>1. p \in DOMAIN periods /\ periods'[p] = periods[p]
        BY <1>2, <3>1
      <4> QED BY <1>0, <3>1, <4>1 DEF PublishInv, ConfirmedIsStored
    <3> QED BY <1>1, <3>1 DEF ConfirmedIsStored, Document
  <2> QED BY <1>1, <2>1, <2>2, <2>3 DEF PublishInv
<1> QED BY <1>2, <1>3, <1>4, <1>5 DEF PayInv

\* A late event accrues after the last archive.
LEMMA OpenPeriodAhead ==
    ASSUME setup \in Setups, DOMAIN periods \subseteq Work, NEW at \in Nat
    PROVE  _open_period(at) \in Nat /\ \A q \in DOMAIN periods : q < _open_period(at)
<1>1. period_of(at) \in Nat
  BY PeriodOfNat
<1>2. CASE DOMAIN periods = {}
  BY <1>1, <1>2 DEF _open_period
<1>3. CASE DOMAIN periods # {}
  <2> DEFINE m == Max(DOMAIN periods)
  <2>1. IsFiniteSet(DOMAIN periods) /\ DOMAIN periods \subseteq Int /\ DOMAIN periods \subseteq Nat
    <3>1. DOMAIN periods \in SUBSET Work /\ IsFiniteSet(Work) /\ Work \subseteq Nat
      BY WorkType
    <3>2. IsFiniteSet(DOMAIN periods)
      BY <3>1, FS_Subset
    <3>3. DOMAIN periods \subseteq Nat
      BY <3>1
    <3>4. DOMAIN periods \subseteq Int
      BY <3>3, SMT
    <3> QED BY <3>2, <3>3, <3>4
  <2>2. m \in DOMAIN periods /\ \A q \in DOMAIN periods : q <= m
    BY <1>3, <2>1, FiniteHasMax
  <2>3. m \in Nat /\ m + 1 \in Int /\ period_of(at) \in Int
    <3>1. m \in Nat
      BY <2>1, <2>2
    <3> HIDE DEF m
    <3> QED BY <1>1, <3>1, SMT
  <2>4. _open_period(at) = Max({period_of(at), m + 1})
    BY <1>3 DEF _open_period
  <2> HIDE DEF m
  <2>5. Max({period_of(at), m + 1}) = IF period_of(at) <= m + 1 THEN m + 1 ELSE period_of(at)
    BY <2>3, MaxOfTwo
  <2>6. _open_period(at) \in Nat /\ m < _open_period(at)
    BY <1>1, <2>3, <2>4, <2>5, SMT
  <2>7. \A q \in DOMAIN periods : q \in Nat
    BY <2>1
  <2> HIDE DEF _open_period
  <2> QED BY <2>2, <2>3, <2>6, <2>7, SMT
<1> QED BY <1>2, <1>3

\* The end of the latest ban is a time.
LEMMA BanUntilType ==
    ASSUME EventsInv, NEW h, NEW S \in SUBSET DOMAIN events
    PROVE  BanUntil(h, S) \in Nat /\ (BansOf(h, S) = {} => BanUntil(h, S) = 0)
<1> DEFINE T == {0} \union {events[t].at + BanSeconds : t \in BansOf(h, S)}
<1>1. setup \in Setups /\ now \in Nat /\ events \in Seq(Event) /\ \A i \in DOMAIN events : events[i].at <= now
  BY DEF EventsInv, ClockType
<1>2. BanSeconds \in Nat
  BY <1>1, SettingTypes
<1>3. \A t \in BansOf(h, S) : events[t].at \in Nat /\ events[t].at <= now
  <2>1. \A i \in DOMAIN events : events[i] \in Event
    BY <1>1, SMT
  <2>2. \A i \in DOMAIN events : events[i].at \in Nat
    BY <2>1 DEF Event
  <2> QED BY <1>1, <2>2 DEF BansOf
<1>4. T \in SUBSET Nat /\ now + BanSeconds \in Nat /\ \A s \in T : s <= now + BanSeconds
  BY <1>1, <1>2, <1>3, SMT
<1>5. IsFiniteSet(T)
  <2> HIDE DEF T
  <2> QED BY <1>4, FS_BoundedSetOfNaturals
<1>6. Max(T) \in T
  <2>1. T # {} /\ T \subseteq Int
    BY <1>4, SMT
  <2> HIDE DEF T
  <2> QED BY <1>5, <2>1, FiniteHasMax
<1>7. BanUntil(h, S) = Max(T)
  BY DEF BanUntil
<1>8. ASSUME BansOf(h, S) = {} PROVE BanUntil(h, S) = 0
  <2>1. T = {0}
    BY <1>8
  <2> HIDE DEF T
  <2> QED BY <1>6, <1>7, <2>1
<1> HIDE DEF T
<1> QED BY <1>4, <1>6, <1>7, <1>8

\* An event accrues only when no ban the ledger knows after the ingest runs for its hotkey.
LEMMA AccruedUnbanned ==
    ASSUME EventsInv, NEW s \in Unread, events[s].kind \in Payable, IngestStatus(s) = "accrued",
           bans' = [h \in Hotkeys |-> Max({bans[h], BanUntil(h, Unread)})]
    PROVE  bans'[events[s].hotkey] <= now
<1> DEFINE h == events[s].hotkey
           before == {t \in Unread : t < s}
           later == {t \in Unread : t > s}
           known == Max({bans[h], BanUntil(h, before)})
<1>1. /\ setup \in Setups /\ now \in Nat /\ bans \in [Hotkeys -> Nat]
      /\ events \in Seq(Event) /\ \A i \in DOMAIN events : events[i].at <= now
  BY DEF EventsInv, ClockType
<1>2. s \in DOMAIN events /\ \A t \in Unread : t \in DOMAIN events
  BY DEF Unread
<1>3. events[s] \in Event
  BY <1>1, <1>2, SMT
<1>4. h \in Hotkeys /\ events[s].at \in Nat /\ events[s].at <= now
  BY <1>1, <1>2, <1>3 DEF Event
<1>5. BansOf(h, later) = {} /\ ~ (events[s].at < known)
  BY DEF IngestStatus
<1>6. BansOf(h, Unread) = BansOf(h, before)
  <2>1. ASSUME NEW t \in BansOf(h, Unread) PROVE t \in BansOf(h, before)
    <3>1. t \in Unread /\ events[t].kind = "ban" /\ events[t].hotkey = h
      BY <2>1 DEF BansOf
    <3>2. t # s
      BY <3>1 DEF Payable
    <3>3. ~ (t > s)
      BY <1>5, <3>1 DEF BansOf
    <3>4. t \in Nat /\ s \in Nat
      <4>1. DOMAIN events = 1 .. Len(events) /\ Len(events) \in Nat
        BY <1>1, SMT
      <4> QED BY <1>2, <3>1, <4>1, SMT
    <3>5. t < s
      BY <3>2, <3>3, <3>4, SMT
    <3> QED BY <3>1, <3>5 DEF BansOf
  <2>2. BansOf(h, before) \subseteq BansOf(h, Unread)
    BY DEF BansOf
  <2> QED BY <2>1, <2>2
<1>7. BanUntil(h, Unread) = BanUntil(h, before)
  BY <1>6 DEF BanUntil
<1>8. bans'[h] = known
  BY <1>4, <1>7
<1>9. known \in Nat
  <2>1. before \in SUBSET DOMAIN events
    BY <1>2
  <2>2. BanUntil(h, before) \in Nat
    BY <2>1, BanUntilType
  <2>3. bans[h] \in Nat
    BY <1>1, <1>4
  <2> DEFINE x == bans[h]
             y == BanUntil(h, before)
  <2> HIDE DEF x, y
  <2>4. x \in Nat /\ y \in Nat
    BY <2>2, <2>3 DEF x, y
  <2>5. Max({x, y}) = IF x <= y THEN y ELSE x
    BY <2>4, MaxOfTwo, SMT
  <2>6. Max({x, y}) \in Nat
    BY <2>4, <2>5
  <2> QED BY <2>6 DEF x, y
<1> HIDE DEF known, h
<1>10. known <= now
  BY <1>1, <1>4, <1>5, <1>9, SMT
<1> QED BY <1>8, <1>10 DEF h

\* ingest keeps the invariant: the settled accruals stay and the new ones are after the last archive.
LEMMA IngestStep ==
    ASSUME PayInv, ingest
    PROVE  PayInv'
<1>0. EventsInv /\ TablesInv(books) /\ Ahead /\ PublishInv
  BY DEF PayInv
<1>1. /\ UNCHANGED <<setup, now, events, carry, periods, alive, downtime, last_at, outages, bucket, late, todo>>
      /\ pc = "ingest" /\ pc' = "settle"
      /\ bans' = [h \in Hotkeys |-> Max({bans[h], BanUntil(h, Unread)})]
      /\ cursor' = Max({cursor} \union Unread)
  BY DEF ingest, store, uptime, beats
<1> DEFINE Paying == {s \in Unread : events[s].kind \in Payable}
           Kept(s) == IF accruals[s].status = "accrued" /\ BansOf(accruals[s].hotkey, Unread) # {}
                      THEN [accruals[s] EXCEPT !.status = "forfeited"] ELSE accruals[s]
<1>2. PICK amount \in [Paying -> Amounts] :
         accruals' = [s \in DOMAIN accruals \union DOMAIN amount |->
             IF s \in DOMAIN amount
             THEN [hotkey |-> events[s].hotkey, period |-> _open_period(events[s].at),
                   amount |-> amount[s], status |-> IngestStatus(s)]
             ELSE Kept(s)]
  BY DEF ingest
<1> DEFINE New(s) == [hotkey |-> events[s].hotkey, period |-> _open_period(events[s].at),
                      amount |-> amount[s], status |-> IngestStatus(s)]
<1>3. /\ setup \in Setups /\ now \in Nat /\ bans \in [Hotkeys -> Nat]
      /\ downtime \in SUBSET Span /\ outages \in SUBSET Span /\ last_at \in Nat \union {-1}
      /\ now <= MaxTime /\ alive \in Nat
      /\ events \in Seq(Event) /\ \A i \in DOMAIN events : events[i].at <= now
      /\ cursor \in Nat /\ DOMAIN accruals \subseteq 1 .. cursor
      /\ \A s \in DOMAIN accruals : accruals[s].status = "accrued" => bans[accruals[s].hotkey] <= now
  BY <1>0 DEF EventsInv, ClockType
<1>4. /\ accruals \in [DOMAIN accruals -> Row] /\ DOMAIN periods \subseteq Work
  BY <1>0 DEF TablesInv, LedgerType, books
<1>5. DOMAIN events = 1 .. Len(events) /\ Len(events) \in Nat
      /\ Unread \subseteq DOMAIN events /\ \A s \in Unread : s \in Nat /\ s > cursor
  <2>1. DOMAIN events = 1 .. Len(events) /\ Len(events) \in Nat
    BY <1>3, SMT
  <2> QED BY <2>1, SMT DEF Unread
<1>6. \A s \in Unread : s \notin DOMAIN accruals
  BY <1>3, <1>5, SMT
<1>7. DOMAIN amount = Paying /\ Paying \subseteq Unread
  OBVIOUS
<1>8. /\ DOMAIN accruals' = DOMAIN accruals \union Paying
      /\ \A s \in Paying : accruals'[s] = New(s)
      /\ \A s \in DOMAIN accruals : accruals'[s] = Kept(s)
  <2> HIDE DEF Paying, Kept
  <2> QED BY <1>2, <1>6, <1>7
<1>9. ASSUME NEW s \in Paying
      PROVE  /\ New(s) \in Row /\ New(s).status \in {"accrued", "forfeited"}
             /\ \A q \in DOMAIN periods : q < New(s).period
             /\ New(s).hotkey = events[s].hotkey /\ New(s).status = IngestStatus(s)
  <2>1. s \in DOMAIN events /\ events[s] \in Event
    BY <1>3, <1>5, <1>7, SMT
  <2>2. events[s].hotkey \in Hotkeys /\ events[s].at \in Nat
    BY <2>1 DEF Event
  <2>3. _open_period(events[s].at) \in Nat /\ \A q \in DOMAIN periods : q < _open_period(events[s].at)
    BY <1>3, <1>4, <2>2, OpenPeriodAhead
  <2>4. amount[s] \in Nat
    <3>1. Amounts \subseteq Nat
      BY <1>3, SettingTypes
    <3> HIDE DEF Paying
    <3> QED BY <3>1
  <2>5. IngestStatus(s) \in {"accrued", "forfeited"}
    BY DEF IngestStatus
  <2> QED BY <2>2, <2>3, <2>4, <2>5 DEF Row
<1>10. ASSUME NEW s \in DOMAIN accruals
       PROVE  /\ Kept(s) \in Row /\ (Kept(s).status = "settled" <=> accruals[s].status = "settled")
              /\ Kept(s).status \in {"accrued", "settled"} => Kept(s) = accruals[s]
              /\ Kept(s).status = "accrued" => BansOf(accruals[s].hotkey, Unread) = {}
  <2>1. accruals[s] \in Row
    BY <1>4
  <2>2. CASE accruals[s].status = "accrued" /\ BansOf(accruals[s].hotkey, Unread) # {}
    <3> DEFINE r == [accruals[s] EXCEPT !.status = "forfeited"]
    <3>1. r \in Row /\ r.status = "forfeited"
      BY <2>1 DEF Row
    <3>2. Kept(s) = r
      BY <2>2
    <3> HIDE DEF Kept, r
    <3> QED BY <2>2, <3>1, <3>2
  <2>3. CASE ~ (accruals[s].status = "accrued" /\ BansOf(accruals[s].hotkey, Unread) # {})
    <3>1. Kept(s) = accruals[s]
      BY <2>3
    <3> HIDE DEF Kept
    <3> QED BY <2>1, <2>3, <3>1
  <2> QED BY <2>2, <2>3
<1> HIDE DEF New, Kept
<1>11. cursor' \in Nat /\ cursor <= cursor' /\ \A s \in Unread : s <= cursor'
  <2> DEFINE S == {cursor} \union Unread
  <2>1. IsFiniteSet(1 .. Len(events))
    <3>1. 1 \in Int /\ Len(events) \in Int
      BY <1>5, SMT
    <3> QED BY <3>1, FS_Interval
  <2>2. IsFiniteSet(Unread)
    <3>1. Unread \in SUBSET (1 .. Len(events))
      BY <1>5
    <3> QED BY <2>1, <3>1, FS_Subset
  <2>3. IsFiniteSet(Unread \union {cursor}) /\ S = Unread \union {cursor}
    BY <2>2, FS_AddElement
  <2>4. S # {} /\ S \subseteq Int /\ S \subseteq Nat
    BY <1>3, <1>5, SMT
  <2>5. Max(S) \in S /\ \A m \in S : m <= Max(S)
    <3> HIDE DEF S
    <3> QED BY <2>3, <2>4, FiniteHasMax
  <2> QED BY <1>1, <2>4, <2>5
<1>12. DOMAIN accruals' \subseteq 1 .. cursor' /\ IsFiniteSet(DOMAIN accruals')
  <2>1. DOMAIN accruals' \subseteq 1 .. cursor'
    <3> SUFFICES ASSUME NEW s \in DOMAIN accruals' PROVE s \in 1 .. cursor'
      OBVIOUS
    <3>1. CASE s \in DOMAIN accruals
      BY <1>3, <1>11, <3>1, SMT
    <3>2. CASE s \in Paying
      BY <1>3, <1>5, <1>7, <1>11, <3>2, SMT
    <3> QED BY <1>8, <3>1, <3>2
  <2>2. IsFiniteSet(1 .. cursor')
    <3>1. 1 \in Int /\ cursor' \in Int
      BY <1>11, SMT
    <3> QED BY <3>1, FS_Interval
  <2>3. DOMAIN accruals' \in SUBSET (1 .. cursor')
    BY <2>1
  <2> QED BY <2>1, <2>2, <2>3, FS_Subset
<1>13. accruals' \in [DOMAIN accruals' -> Row]
  <2>1. \A s \in DOMAIN accruals' : accruals'[s] \in Row
    BY <1>8, <1>9, <1>10
  <2>2. accruals' = [s \in DOMAIN accruals' |-> accruals'[s]]
    BY <1>2
  <2> QED BY <2>1, <2>2
<1>14. TablesInv(books)'
  <2> DEFINE L == books
             M == [accruals |-> accruals', carry |-> L.carry, periods |-> L.periods]
  <2>1. L.accruals = accruals /\ L.carry = carry /\ L.periods = periods
    BY DEF books
  <2>2. DOMAIN L.accruals \subseteq DOMAIN accruals'
    BY <1>8, <2>1
  <2>3. \A s \in DOMAIN L.accruals : L.accruals[s].status = "settled" => accruals'[s] = L.accruals[s]
    BY <1>8, <1>10, <2>1
  <2>4. \A s \in DOMAIN accruals' :
           accruals'[s].status = "settled" => s \in DOMAIN L.accruals /\ L.accruals[s].status = "settled"
    BY <1>8, <1>9, <1>10, <2>1
  <2>5. TablesInv(M)
    <3> HIDE DEF L
    <3>1. TablesInv(L)
      BY <1>0 DEF L
    <3> QED BY <1>12, <1>13, <2>2, <2>3, <2>4, <3>1, AccrualsUpdate
  <2>6. books' = M
    BY <1>1, <2>1 DEF books
  <2> HIDE DEF M, L
  <2> QED BY <1>1, <2>5, <2>6, TablesNext
<1>15. Ahead'
  <2>1. ASSUME NEW s \in DOMAIN accruals', accruals'[s].status = "accrued", NEW q \in DOMAIN periods
        PROVE  q < accruals'[s].period
    <3>1. CASE s \in DOMAIN accruals
      <4>1. accruals'[s] = accruals[s]
        BY <1>8, <1>10, <2>1, <3>1
      <4> QED BY <1>0, <2>1, <3>1, <4>1 DEF Ahead
    <3>2. CASE s \in Paying
      BY <1>8, <1>9, <3>2
    <3> QED BY <1>8, <3>1, <3>2
  <2> QED BY <1>1, <2>1 DEF Ahead
<1>16. bans' \in [Hotkeys -> Nat] /\ \A h \in Hotkeys : BansOf(h, Unread) = {} => bans'[h] = bans[h]
  <2>1. ASSUME NEW h \in Hotkeys
        PROVE  /\ Max({bans[h], BanUntil(h, Unread)}) \in Nat
               /\ BansOf(h, Unread) = {} => Max({bans[h], BanUntil(h, Unread)}) = bans[h]
    <3>1. Unread \in SUBSET DOMAIN events
      BY <1>5
    <3>2. BanUntil(h, Unread) \in Nat /\ (BansOf(h, Unread) = {} => BanUntil(h, Unread) = 0)
      BY <1>0, <3>1, BanUntilType
    <3> DEFINE x == bans[h]
               y == BanUntil(h, Unread)
    <3> HIDE DEF x, y
    <3>3. x \in Nat /\ y \in Nat /\ (BansOf(h, Unread) = {} => y = 0)
      BY <1>3, <3>2 DEF x, y
    <3>4. Max({x, y}) = IF x <= y THEN y ELSE x
      BY <3>3, MaxOfTwo, SMT
    <3>5. Max({x, y}) \in Nat /\ (BansOf(h, Unread) = {} => Max({x, y}) = x)
      BY <3>3, <3>4, SMT
    <3> QED BY <3>5 DEF x, y
  <2> QED BY <1>1, <2>1
<1>17. ASSUME NEW s \in DOMAIN accruals', accruals'[s].status = "accrued" PROVE bans'[accruals'[s].hotkey] <= now
  <2>1. CASE s \in DOMAIN accruals
    <3>1. accruals'[s] = accruals[s] /\ BansOf(accruals[s].hotkey, Unread) = {} /\ accruals[s] \in Row
      BY <1>4, <1>8, <1>10, <1>17, <2>1
    <3>2. accruals[s].hotkey \in Hotkeys /\ accruals[s].status = "accrued"
      BY <1>17, <3>1 DEF Row
    <3>3. bans'[accruals[s].hotkey] = bans[accruals[s].hotkey]
      BY <1>16, <3>1, <3>2
    <3> QED BY <1>3, <2>1, <3>1, <3>2, <3>3
  <2>2. CASE s \in Paying
    <3>1. accruals'[s].hotkey = events[s].hotkey /\ IngestStatus(s) = "accrued"
      BY <1>8, <1>9, <1>17, <2>2
    <3>2. s \in Unread /\ events[s].kind \in Payable
      BY <2>2
    <3>3. bans'[events[s].hotkey] <= now
      BY <1>0, <1>1, <3>1, <3>2, AccruedUnbanned
    <3> QED BY <3>1, <3>3
  <2> QED BY <1>8, <2>1, <2>2
<1>18. EventsInv'
  BY <1>1, <1>3, <1>11, <1>12, <1>16, <1>17, SameTypes DEF EventsInv, ClockType
<1>19. PublishInv'
  <2>1. todo = {}
    BY <1>0, <1>1 DEF PublishInv
  <2> QED BY <1>0, <1>1, <2>1 DEF PublishInv, SentIsKept, ConfirmedIsStored, Document
<1> QED BY <1>14, <1>15, <1>18, <1>19 DEF PayInv

--------------------------------------------------------------------------------
(* The theorems.                                                           *)

\* Every step of the ledger keeps the invariant.
LEMMA PayNext == PayInv /\ [Next]_vars => PayInv'
<1> SUFFICES ASSUME PayInv, [Next]_vars PROVE PayInv'
  OBVIOUS
<1>1. CASE ingest
  BY <1>1, IngestStep
<1>2. CASE settle
  BY <1>2, SettleStep
<1>3. CASE Unpublished \/ PublishRead \/ PublishWrite \/ PublishInterrupted \/ LateUpload \/ Crash
  BY <1>3, StoreStep
<1>4. CASE PublishCommit
  BY <1>4, CommitStep
<1>5. CASE PublishConfirm
  BY <1>5, ConfirmStep
<1>6. CASE Tick \/ _event \/ trainer_beat \/ mark_alive \/ _boot
  BY <1>6, ClockStep
<1>7. CASE UNCHANGED vars
  <2>1. UNCHANGED <<setup, now, events, cursor, accruals, bans, carry, periods, bucket, late, pc, todo,
                    alive, downtime, last_at, outages>>
    BY <1>7 DEF vars, ledger, store, loop, uptime, beats
  <2>2. EventsInv' /\ TablesInv(books)' /\ Ahead' /\ PublishInv'
    BY <2>1, EventsFrame, TablesFrame, AheadFrame, PublishFrame DEF PayInv
  <2> QED BY <2>2 DEF PayInv
<1> QED BY <1>1, <1>2, <1>3, <1>4, <1>5, <1>6, <1>7 DEF Next, LedgerLoop

\* The invariant of the ledger holds in every reachable state, for all settings, amounts and
\* numbers of periods, events and faults.
THEOREM LedgerInvariant == Spec => []PayInv
BY PayInit, PayNext, PTL DEF Spec

\* No work period is ever paid twice: the bucket holds at most one archive of a period, and it
\* is the one the ledger keeps, however uploads are interrupted, retried or late (publish).
THEOREM PeriodsPaidOnce == Spec => []PaidOnce
<1>1. PayInv => PaidOnce
  <2> SUFFICES ASSUME PayInv PROVE PaidOnce
    OBVIOUS
  <2>1. \A d \in bucket : d.work \in DOMAIN periods /\ d = Document(periods[d.work])
    BY DEF PayInv, PublishInv, SentIsKept
  <2> QED BY <2>1 DEF PaidOnce
<1> QED BY <1>1, LedgerInvariant, PTL

\* An archive the ledger marks published is in the bucket (publish, _mark_published).
THEOREM ConfirmedStored == Spec => []ConfirmedIsStored
<1>1. PayInv => ConfirmedIsStored
  BY DEF PayInv, PublishInv
<1> QED BY <1>1, LedgerInvariant, PTL

\* At most CATCHUP_ENTRIES archives ever enter in one period (entry_for, at settlement and when
\* publish moves an entry).
THEOREM EntriesWithinCatchup == Spec => []EntriesBounded
<1>1. PayInv => EntriesBounded
  <2> SUFFICES ASSUME PayInv, NEW p \in DOMAIN periods
               PROVE  Cardinality({q \in DOMAIN periods : periods[q].entry = periods[p].entry}) <= CATCHUP_ENTRIES
    BY DEF EntriesBounded
  <2>1. EntriesFit(books) /\ books.periods = periods
    BY DEF PayInv, TablesInv, books
  <2>2. periods[p].entry \in Nat
    <3>1. periods[p] \in ArchiveRow
      BY HeldArchives
    <3> QED BY <3>1 DEF ArchiveRow
  <2> QED BY <2>1, <2>2 DEF EntriesFit
<1> QED BY <1>1, LedgerInvariant, PTL

\* Without the outage fill no hotkey is ever paid, or has carried, more than its settled accruals
\* (settle: scaling to the cap, carrying, expiring and cutting create no pay).
THEOREM PayIsEarned == Spec => []NoPayCreated
<1>1. PayInv => NoPayCreated
  BY DEF PayInv, TablesInv, Earned, NoPayCreated
<1> QED BY <1>1, LedgerInvariant, PTL

\* No archive pays more than the cap, the carry stays within carry_max_caps caps and none of it
\* outlives carry_periods (settle, _carry).
THEOREM PayWithinBounds == Spec => []CarryBounded
<1>1. PayInv => CarryBounded
  <2> SUFFICES ASSUME PayInv PROVE CarryBounded
    OBVIOUS
  <2>1. /\ setup \in Setups /\ LedgerType(books) /\ CarryRecent(books) /\ CarryFits(books) /\ ArchivesCapped(books)
        /\ books.periods = periods /\ books.carry = carry
    BY DEF PayInv, EventsInv, ClockType, TablesInv, books
  <2>2. carry \in [Table -> Nat] /\ DOMAIN periods \subseteq Work
    BY <2>1 DEF LedgerType
  <2>3. SumFunction(carry) <= carry_max_caps * cap
    <3>1. DOMAIN carry = Table
      BY <2>2
    <3> QED BY <2>1, <3>1 DEF CarryFits, SumFunction
  <2>4. \A p \in DOMAIN periods : SumFunction(periods[p].rewards) <= cap
    BY <2>1 DEF ArchivesCapped
  <2>5. ASSUME NEW x \in Table, carry[x] > 0 PROVE Max(DOMAIN periods) - x[2] < carry_periods + 1
    <3>1. /\ \E q \in DOMAIN periods : x[2] <= q
          /\ \A q \in DOMAIN periods : q - x[2] <= carry_periods
      BY <2>1, <2>5 DEF CarryRecent
    <3>2. IsFiniteSet(DOMAIN periods) /\ DOMAIN periods \subseteq Int
      <4>1. DOMAIN periods \in SUBSET Work /\ IsFiniteSet(Work) /\ Work \subseteq Nat
        BY <2>1, <2>2, WorkType
      <4>2. IsFiniteSet(DOMAIN periods)
        BY <4>1, FS_Subset
      <4>3. DOMAIN periods \subseteq Nat
        BY <4>1
      <4>4. DOMAIN periods \subseteq Int
        BY <4>3, SMT
      <4> QED BY <4>2, <4>4
    <3> DEFINE m == Max(DOMAIN periods)
    <3>3. m \in DOMAIN periods
      BY <3>1, <3>2, FiniteHasMax
    <3>4. m - x[2] <= carry_periods /\ m \in Int
      BY <3>1, <3>2, <3>3
    <3>5. x[2] \in Int /\ carry_periods \in Nat
      <4>1. x[2] \in Work /\ Work \subseteq Nat
        BY <2>1, WorkType DEF Table
      <4>2. x[2] \in Nat
        BY <4>1
      <4>3. carry_periods \in Nat
        BY <2>1, SettingTypes
      <4> QED BY <4>2, <4>3, SMT
    <3> HIDE DEF m
    <3>6. m - x[2] < carry_periods + 1
      BY <3>4, <3>5, SMT
    <3> QED BY <3>6 DEF m
  <2>6. DOMAIN carry = Table
    BY <2>2
  <2> QED BY <2>3, <2>4, <2>5, <2>6 DEF CarryBounded
<1> QED BY <1>1, LedgerInvariant, PTL

\* An unsettled accrual is never of a period already archived (_open_period, _due_periods).
THEOREM AccruedStaysOpen == Spec => []AccruedIsOpen
<1>1. PayInv => AccruedIsOpen
  <2> SUFFICES ASSUME PayInv, NEW s \in DOMAIN accruals, accruals[s].status = "accrued",
                      accruals[s].period \in DOMAIN periods
               PROVE  FALSE
    BY DEF AccruedIsOpen
  <2>1. accruals[s].period < accruals[s].period
    BY DEF PayInv, Ahead
  <2>2. accruals[s].period \in Nat
    BY HeldArchives
  <2> QED BY <2>1, <2>2, SMT
<1> QED BY <1>1, LedgerInvariant, PTL

\* No settlement pays a hotkey under a ban the ledger has read (ingest forfeits its accruals,
\* settle skips its carry and its fill).
THEOREM BannedIsUnpaid == Spec => BannedUnpaid
<1> DEFINE Step == \A p \in DOMAIN periods' \ DOMAIN periods : \A h \in Hotkeys :
                     bans[h] > now => periods'[p].rewards[h] = 0
<1>1. PayInv /\ [Next]_vars => [Step]_vars
  <2> SUFFICES ASSUME PayInv, Next PROVE Step
    OBVIOUS
  <2>1. CASE settle
    <3>1. \A q \in DOMAIN periods' \ DOMAIN periods : \A h \in Hotkeys : now < bans[h] => periods'[q].rewards[h] = 0
      BY <2>1, SettleEffect
    <3>2. now \in Nat /\ bans \in [Hotkeys -> Nat]
      BY DEF PayInv, EventsInv, ClockType
    <3> QED BY <3>1, <3>2
  <2>2. CASE PublishCommit \/ PublishConfirm
    <3>1. DOMAIN periods' = DOMAIN periods
      BY <2>2 DEF PublishCommit, PublishConfirm
    <3> QED BY <3>1
  <2>3. CASE UNCHANGED periods
    BY <2>3
  <2>4. settle \/ PublishCommit \/ PublishConfirm \/ UNCHANGED periods
    BY DEF Next, LedgerLoop, ingest, Unpublished, PublishRead, PublishWrite, PublishInterrupted, LateUpload, Tick,
           _event, trainer_beat, mark_alive, Crash, _boot, ledger
  <2> QED BY <2>1, <2>2, <2>3, <2>4
<1> QED BY <1>1, LedgerInvariant, PTL DEF Spec, BannedUnpaid

--------------------------------------------------------------------------------
(* Which seconds are in an outage.                                         *)

\* A piece of a span that starts at a ends with it, or where the first downtime D after a begins.
EndFrom(span, D, a) == Min({span[2]} \union {d[1] : d \in {e \in D : e[2] > a}})

\* A piece of a span that starts at a and is longer than grace has x in its first most seconds.
PieceAt(x, span, D, a, grace, most) ==
    /\ a = span[1] \/ (\E d \in D : a = d[2])
    /\ span[1] <= a /\ a < span[2] /\ EndFrom(span, D, a) - a > grace
    /\ a <= x /\ x < EndFrom(span, D, a) /\ x < a + most

\* x is in such a piece of one of the spans.
DownAt(x, spans, D, grace, most) == \E span \in spans : \E a \in Nat : PieceAt(x, span, D, a, grace, most)

\* The trainer's silences at t.
Spans(t) == outages \union (IF last_at >= 0 /\ t - last_at > outage_grace_s THEN {<<last_at, t>>} ELSE {})

\* Where such a piece ends: no later than the span and than any downtime after its start.
LEMMA EndFromIs ==
    ASSUME NEW span \in Span, NEW D \in SUBSET Span, NEW a
    PROVE  /\ EndFrom(span, D, a) \in Nat /\ EndFrom(span, D, a) <= span[2]
           /\ \A d \in D : d[2] > a => EndFrom(span, D, a) <= d[1]
           /\ EndFrom(span, D, a) = span[2] \/ \E d \in D : d[2] > a /\ EndFrom(span, D, a) = d[1]
<1> DEFINE T == {span[2]} \union {d[1] : d \in {e \in D : e[2] > a}}
<1>1. T \subseteq Nat /\ T # {}
  BY DEF Span
<1>2. Min(T) \in T /\ \A m \in T : Min(T) <= m
  <2> HIDE DEF T
  <2> QED BY <1>1, LeastIsMin
<1>3. EndFrom(span, D, a) = Min(T)
  BY DEF EndFrom
<1>4. EndFrom(span, D, a) \in T /\ \A m \in T : EndFrom(span, D, a) <= m
  BY <1>2, <1>3
<1> QED BY <1>1, <1>4

\* A second is in one of the outages exactly when it is in such a piece of a silence.
LEMMA OutageIsDown ==
    ASSUME ClockType, outage_fill, NEW t \in Nat, NEW x \in Nat
    PROVE  (\E o \in _outages(t) : o[1] <= x /\ x < o[2])
             <=> DownAt(x, Spans(t), downtime, outage_grace_s, outage_max_s)
<1>1. outage_grace_s \in Nat /\ outage_max_s \in Nat /\ downtime \in SUBSET Span /\ Spans(t) \in SUBSET Span
  BY SettingTypes, SMT DEF ClockType, Spans, Span
<1> DEFINE Cuts(s) == {s[1]} \union {d[2] : d \in downtime}
           E(s, a) == EndFrom(s, downtime, a)
<1>2. ASSUME NEW s PROVE Pieces(s) = {<<a, E(s, a)>> : a \in {c \in Cuts(s) : c >= s[1] /\ c < s[2] /\ E(s, c) > c}}
  BY DEF Pieces, EndFrom
<1>3. _outages(t) = {<<p[1], Min({p[2], p[1] + outage_max_s})>> :
                       p \in {q \in UNION {Pieces(s) : s \in Spans(t)} : q[2] - q[1] > outage_grace_s}}
  BY DEF _outages, Spans
<1>4. ASSUME NEW s \in Spans(t), NEW a \in Cuts(s)
      PROVE  a \in Nat /\ E(s, a) \in Nat /\ s[1] \in Nat /\ s[2] \in Nat
    <2>1. s \in Span
      BY <1>1
    <2>2. E(s, a) \in Nat
      BY <1>1, <2>1, EndFromIs
    <2>3. a \in Nat /\ s[1] \in Nat /\ s[2] \in Nat
      BY <1>1, <2>1 DEF Span
    <2> QED BY <2>2, <2>3
<1> HIDE DEF E
<1>5. ASSUME NEW o \in _outages(t), o[1] <= x, x < o[2]
      PROVE  DownAt(x, Spans(t), downtime, outage_grace_s, outage_max_s)
  <2>0. PICK s \in Spans(t) : \E q \in Pieces(s) :
                q[2] - q[1] > outage_grace_s /\ o = <<q[1], Min({q[2], q[1] + outage_max_s})>>
    BY <1>3
  <2>1. PICK q \in Pieces(s) : q[2] - q[1] > outage_grace_s /\ o = <<q[1], Min({q[2], q[1] + outage_max_s})>>
    BY <2>0
  <2>2. PICK a \in Cuts(s) : a >= s[1] /\ a < s[2] /\ E(s, a) > a /\ q = <<a, E(s, a)>>
    BY <1>2
  <2>3. a \in Nat /\ E(s, a) \in Nat /\ s[1] \in Nat /\ s[2] \in Nat
    BY <1>4
  <2>4. q[1] = a /\ q[2] = E(s, a)
    BY <2>2
  <2>5. o[1] = a /\ o[2] = Min({E(s, a), a + outage_max_s})
    BY <2>1, <2>4
  <2>6. o[2] = IF E(s, a) <= a + outage_max_s THEN E(s, a) ELSE a + outage_max_s
    BY <1>1, <2>3, <2>5, MinOfTwo, SMT
  <2>7. a <= x /\ x < E(s, a) /\ x < a + outage_max_s
    BY <1>1, <1>5, <2>3, <2>5, <2>6, SMT
  <2>8. a = s[1] \/ \E d \in downtime : a = d[2]
    OBVIOUS
  <2>9. s[1] <= a /\ a < s[2] /\ E(s, a) - a > outage_grace_s
    BY <2>1, <2>2, <2>3, <2>4
  <2>10. PieceAt(x, s, downtime, a, outage_grace_s, outage_max_s)
    BY <2>7, <2>8, <2>9 DEF PieceAt, E
  <2> QED BY <2>3, <2>10 DEF DownAt
<1>6. ASSUME DownAt(x, Spans(t), downtime, outage_grace_s, outage_max_s)
      PROVE  \E o \in _outages(t) : o[1] <= x /\ x < o[2]
  <2>1. PICK s \in Spans(t), a \in Nat : PieceAt(x, s, downtime, a, outage_grace_s, outage_max_s)
    BY <1>6 DEF DownAt
  <2>2. /\ a = s[1] \/ \E d \in downtime : a = d[2]
        /\ s[1] <= a /\ a < s[2] /\ E(s, a) - a > outage_grace_s
        /\ a <= x /\ x < E(s, a) /\ x < a + outage_max_s
    BY <2>1 DEF PieceAt, E
  <2>3. a \in Cuts(s)
    BY <2>2
  <2>4. E(s, a) \in Nat /\ s[1] \in Nat /\ s[2] \in Nat
    BY <1>4, <2>3
  <2>5. a >= s[1] /\ E(s, a) > a
    BY <1>1, <2>2, <2>4, SMT
  <2>6. <<a, E(s, a)>> \in Pieces(s)
    BY <1>2, <2>2, <2>3, <2>5
  <2> DEFINE o == <<a, Min({E(s, a), a + outage_max_s})>>
  <2>7. o \in _outages(t)
    <3> DEFINE q == <<a, E(s, a)>>
    <3>1. q \in Pieces(s) /\ q[1] = a /\ q[2] = E(s, a)
      BY <2>6
    <3>2. o = <<q[1], Min({q[2], q[1] + outage_max_s})>> /\ q[2] - q[1] > outage_grace_s
      BY <2>2, <3>1
    <3> HIDE DEF q, o
    <3> QED BY <1>3, <3>1, <3>2
  <2>8. Min({E(s, a), a + outage_max_s}) = IF E(s, a) <= a + outage_max_s THEN E(s, a) ELSE a + outage_max_s
    BY <1>1, <2>4, MinOfTwo, SMT
  <2>9. o[1] <= x /\ x < o[2]
    BY <2>2, <2>8
  <2> QED BY <2>7, <2>9
<1> QED BY <1>5, <1>6

\* The seconds of the known outages are those of the long pieces,
DownSeconds ==
    ClockType /\ outage_fill =>
        \A x \in Nat : (\E o \in _outages(now) : o[1] <= x /\ x < o[2])
                         <=> DownAt(x, Spans(now), downtime, outage_grace_s, outage_max_s)

\* now, and after a step.
LEMMA DownSecondsNow == DownSeconds
<1>1. ASSUME ClockType PROVE now \in Nat
  BY <1>1 DEF ClockType
<1> QED BY <1>1, OutageIsDown DEF DownSeconds

\* and so in the next one.
LEMMA DownSecondsNext == DownSeconds'
BY DownSecondsNow, PTL

\* A second far enough back is in a piece of a silence that goes on only if it was before.
LEMMA SilenceGoesOn ==
    ASSUME NEW D \in SUBSET Span, NEW grace \in Nat, NEW most \in Nat, NEW x \in Nat, NEW n \in Nat, x + grace < n,
           NEW s \in Nat, NEW a \in Nat, PieceAt(x, <<s, n + 1>>, D, a, grace, most)
    PROVE  n - s > grace /\ PieceAt(x, <<s, n>>, D, a, grace, most)
<1> DEFINE E1 == EndFrom(<<s, n + 1>>, D, a)
           E0 == EndFrom(<<s, n>>, D, a)
<1>1. <<s, n + 1>> \in Span /\ <<s, n>> \in Span /\ <<s, n + 1>>[1] = s /\ <<s, n>>[1] = s
      /\ <<s, n + 1>>[2] = n + 1 /\ <<s, n>>[2] = n
  BY SMT DEF Span
<1>2. /\ E1 \in Nat /\ E1 <= n + 1 /\ \A d \in D : d[2] > a => E1 <= d[1]
  BY <1>1, EndFromIs
<1>3. E0 \in Nat /\ (E0 = n \/ \E d \in D : d[2] > a /\ E0 = d[1])
  BY <1>1, EndFromIs
<1>4. /\ a = s \/ \E d \in D : a = d[2]
      /\ s <= a /\ E1 - a > grace /\ a <= x /\ x < E1 /\ x < a + most
  BY <1>1 DEF PieceAt
<1> HIDE DEF E0, E1
<1>5. E0 = n \/ E0 >= E1
  BY <1>2, <1>3
<1>6. E0 - a > grace /\ x < E0 /\ a < n /\ n - s > grace
  BY <1>2, <1>3, <1>4, <1>5, SMT
<1> QED BY <1>1, <1>4, <1>6 DEF PieceAt, E0

\* Nor does a downtime that ends now put it into one.
LEMMA DowntimeCuts ==
    ASSUME NEW D \in SUBSET Span, NEW grace \in Nat, NEW most \in Nat, NEW x \in Nat, NEW n \in Nat, x < n,
           NEW al \in Nat, NEW s \in Span, NEW a \in Nat, PieceAt(x, s, D \union {<<al, n>>}, a, grace, most)
    PROVE  PieceAt(x, s, D, a, grace, most)
<1> DEFINE F == D \union {<<al, n>>}
           E1 == EndFrom(s, F, a)
           E0 == EndFrom(s, D, a)
<1>1. F \in SUBSET Span
  BY SMT DEF Span
<1>2. E1 \in Nat /\ E1 <= s[2] /\ \A d \in F : d[2] > a => E1 <= d[1]
  <2> HIDE DEF F
  <2> QED BY <1>1, EndFromIs
<1>3. E0 \in Nat /\ (E0 = s[2] \/ \E d \in D : d[2] > a /\ E0 = d[1])
  BY EndFromIs
<1>4. /\ a = s[1] \/ \E d \in F : a = d[2]
      /\ s[1] <= a /\ a < s[2] /\ E1 - a > grace /\ a <= x /\ x < E1 /\ x < a + most
  BY DEF PieceAt
<1>5. a = s[1] \/ \E d \in D : a = d[2]
  <2>1. a # n
    BY <1>4, SMT
  <2> QED BY <1>4, <2>1, SMT
<1> HIDE DEF E0, E1
<1>6. E0 >= E1
  BY <1>2, <1>3
<1>7. E0 - a > grace /\ x < E0
  BY <1>2, <1>3, <1>4, <1>6, SMT
<1> QED BY <1>4, <1>5, <1>7 DEF PieceAt, E0

--------------------------------------------------------------------------------
(* The outages of an archived period.                                      *)

\* The seconds of period p in a known outage.
OutageSeconds(p) ==
    {t \in (period_end(p) - PeriodSeconds) .. (period_end(p) - 1) : \E o \in _outages(now) : o[1] <= t /\ t < o[2]}

\* An archived period ended long enough ago for its outages to be known, and they are counted.
OutagesKnown ==
    \A p \in DOMAIN periods :
        /\ outage_fill => period_end(p) + outage_grace_s <= now
        /\ _outage_seconds(p, _outages(now)) <= periods[p].outage_s

\* They are finitely many, all before the end of the period, and what _outage_seconds counts.
LEMMA OutageSecondsType ==
    ASSUME setup \in Setups, NEW p \in Nat
    PROVE  /\ IsFiniteSet(OutageSeconds(p)) /\ Cardinality(OutageSeconds(p)) \in Nat
           /\ _outage_seconds(p, _outages(now)) = Cardinality(OutageSeconds(p))
           /\ OutageSeconds(p) \subseteq Nat /\ period_end(p) \in Nat
           /\ \A x \in OutageSeconds(p) : x < period_end(p)
<1>1. PeriodSeconds \in Nat /\ period_end(p) \in Nat /\ period_end(p) - PeriodSeconds \in Nat
  <2>1. PeriodSeconds \in Nat
    BY SettingTypes
  <2>2. period_end(p) = p * PeriodSeconds + PeriodSeconds /\ p * PeriodSeconds \in Nat
    BY <2>1, SMT DEF period_end
  <2> QED BY <2>1, <2>2, SMT
<1> DEFINE I == (period_end(p) - PeriodSeconds) .. (period_end(p) - 1)
<1>2. IsFiniteSet(I)
  BY <1>1, FS_Interval, SMT
<1>3. OutageSeconds(p) \in SUBSET I /\ I \subseteq Nat /\ \A x \in I : x < period_end(p)
  BY <1>1, SMT DEF OutageSeconds
<1> HIDE DEF I
<1>4. IsFiniteSet(OutageSeconds(p))
  BY <1>2, <1>3, FS_Subset
<1>5. _outage_seconds(p, _outages(now)) = Cardinality(OutageSeconds(p))
  BY DEF _outage_seconds, OutageSeconds
<1> QED BY <1>1, <1>3, <1>4, <1>5, FS_CardinalityType

\* No step puts a second far enough back into an outage.
LEMMA OutageStays ==
    ASSUME PayInv, PayInv', [Next]_vars, outage_fill, NEW x \in Nat, x + outage_grace_s < now,
           \E o \in _outages(now)' : o[1] <= x /\ x < o[2]
    PROVE  \E o \in _outages(now) : o[1] <= x /\ x < o[2]
<1> DEFINE g == outage_grace_s
           m == outage_max_s
<1>1. /\ ClockType /\ ClockType' /\ alive \in Nat /\ now \in Nat /\ now' \in Nat
      /\ downtime \in SUBSET Span /\ outages \in SUBSET Span /\ last_at \in Nat \union {-1}
  BY DEF PayInv, EventsInv, ClockType
<1>2. setup' = setup
  BY DEF Next, LedgerLoop, ingest, settle, Unpublished, PublishRead, PublishCommit, PublishWrite, PublishConfirm,
         PublishInterrupted, LateUpload, Tick, _event, trainer_beat, mark_alive, Crash, _boot, vars
<1>3. g' = g /\ m' = m /\ outage_fill' /\ g \in Nat /\ m \in Nat
  <2>1. g \in Nat /\ m \in Nat
    BY <1>1, SettingTypes DEF ClockType
  <2> QED BY <1>2, <2>1, SameSettings
<1>4. (\E o \in _outages(now) : o[1] <= x /\ x < o[2]) <=> DownAt(x, Spans(now), downtime, g, m)
  BY <1>1, DownSecondsNow DEF DownSeconds
<1>5. DownAt(x, Spans(now)', downtime', g, m)
  <2>1. DownSeconds'
    BY DownSecondsNext
  <2>2. (\E o \in _outages(now)' : o[1] <= x /\ x < o[2]) <=> DownAt(x, Spans(now)', downtime', g', m')
    BY <1>1, <1>3, <2>1 DEF DownSeconds
  <2> QED BY <1>3, <2>2
<1> HIDE DEF g, m
<1>6. PICK s \in Spans(now)', a \in Nat : PieceAt(x, s, downtime', a, g, m)
  BY <1>5 DEF DownAt
<1>7. SUFFICES \E r \in Spans(now) : PieceAt(x, r, downtime, a, g, m)
  BY <1>4 DEF DownAt
<1>8. Spans(now) = outages \union (IF last_at >= 0 /\ now - last_at > g THEN {<<last_at, now>>} ELSE {})
  BY DEF Spans, g
<1>9. Spans(now)' = outages' \union (IF last_at' >= 0 /\ now' - last_at' > g THEN {<<last_at', now'>>} ELSE {})
  <2>1. Spans(now)' = outages' \union (IF last_at' >= 0 /\ now' - last_at' > g' THEN {<<last_at', now'>>} ELSE {})
    BY DEF Spans, g
  <2> QED BY <1>3, <2>1
<1>10. x + g < now
  BY DEF g
<1>11. CASE Tick
  <2>1. now' = now + 1 /\ downtime' = downtime /\ outages' = outages /\ last_at' = last_at
    BY <1>11 DEF Tick, uptime, beats
  <2>2. CASE s \in outages
    BY <1>6, <1>8, <2>1, <2>2
  <2>3. CASE s \notin outages
    <3>1. s = <<last_at, now + 1>> /\ last_at >= 0
      BY <1>9, <2>1, <2>3
    <3>2. last_at \in Nat
      BY <1>1, <3>1, SMT
    <3>3. PieceAt(x, <<last_at, now + 1>>, downtime, a, g, m)
      BY <1>6, <2>1, <3>1
    <3>4. now - last_at > g /\ PieceAt(x, <<last_at, now>>, downtime, a, g, m)
      BY <1>1, <1>3, <1>10, <3>2, <3>3, SilenceGoesOn
    <3> QED BY <1>8, <3>1, <3>4
  <2> QED BY <2>2, <2>3
<1>12. CASE trainer_beat
  <2>1. /\ now' = now /\ downtime' = downtime /\ last_at' = now
        /\ outages' = outages \union (IF last_at >= 0 /\ now - last_at > g THEN {<<last_at, now>>} ELSE {})
    BY <1>12 DEF trainer_beat, uptime, g
  <2>2. ~ (now' - last_at' > g)
    BY <1>1, <1>3, <2>1, SMT
  <2>3. Spans(now)' = Spans(now)
    BY <1>8, <1>9, <2>1, <2>2
  <2> QED BY <1>6, <2>1, <2>3
<1>13. CASE mark_alive \/ _boot
  <2>1. now' = now /\ outages' = outages /\ last_at' = last_at /\ downtime' = Marked
    BY <1>13 DEF mark_alive, _boot, beats
  <2>2. Spans(now)' = Spans(now) /\ s \in Span
    <3>1. Spans(now)' = Spans(now)
      BY <1>8, <1>9, <2>1
    <3>2. Spans(now) \subseteq Span
      BY <1>1, <1>8, SMT DEF Span
    <3> QED BY <1>6, <3>1, <3>2
  <2>3. downtime' = downtime \/ downtime' = downtime \union {<<alive, now>>}
    BY <2>1 DEF Marked
  <2>4. PieceAt(x, s, downtime, a, g, m)
    <3>1. CASE downtime' = downtime
      BY <1>6, <3>1
    <3>2. CASE downtime' = downtime \union {<<alive, now>>}
      <4>1. PieceAt(x, s, downtime \union {<<alive, now>>}, a, g, m)
        BY <1>6, <3>2
      <4>2. x < now
        BY <1>1, <1>3, <1>10, SMT
      <4> QED BY <1>1, <1>3, <2>2, <4>1, <4>2, DowntimeCuts
    <3> QED BY <2>3, <3>1, <3>2
  <2> QED BY <1>6, <2>2, <2>4
<1>14. CASE UNCHANGED <<now, downtime, outages, last_at>>
  <2>1. Spans(now)' = Spans(now)
    BY <1>8, <1>9, <1>14
  <2> QED BY <1>6, <1>14, <2>1
<1>15. \/ Tick \/ trainer_beat \/ mark_alive \/ _boot
       \/ UNCHANGED <<now, downtime, outages, last_at>>
  BY DEF Next, LedgerLoop, ingest, settle, Unpublished, PublishRead, PublishCommit, PublishWrite, PublishConfirm,
         PublishInterrupted, LateUpload, _event, Crash, vars, uptime, beats
<1> QED BY <1>11, <1>12, <1>13, <1>14, <1>15

\* A closed period is over by the grace.
LEMMA ClosedIsOver ==
    ASSUME ClockType, outage_fill, NEW p \in Nat, p <= closed_through(now, SettleSlack)
    PROVE  period_end(p) + outage_grace_s <= now
<1>1. /\ PeriodSeconds \in Nat /\ PeriodSeconds > 0 /\ slack_s \in Nat /\ outage_grace_s \in Nat /\ now \in Nat
  BY SettingTypes DEF ClockType
<1>2. SettleSlack \in Nat /\ SettleSlack >= outage_grace_s
  <2>1. Max({slack_s, outage_grace_s}) = IF slack_s <= outage_grace_s THEN outage_grace_s ELSE slack_s
    BY <1>1, MaxOfTwo, SMT
  <2> QED BY <1>1, <2>1, SMT DEF SettleSlack
<1> DEFINE d == now - SettleSlack
           k == d \div PeriodSeconds
<1>3. d \in Int /\ p + 1 <= k /\ k \in Int
  <2>1. d \in Int
    BY <1>1, <1>2, SMT
  <2>2. k \in Int
    <3> HIDE DEF d
    <3> QED BY <1>1, <2>1, SMT
  <2>3. p <= k - 1
    BY DEF closed_through, period_of
  <2> HIDE DEF k
  <2> QED BY <2>1, <2>2, <2>3, SMT
<1> HIDE DEF d
<1>4. PeriodSeconds * k <= d
  BY <1>1, <1>3, SMT
<1> HIDE DEF k
<1>5. (p + 1) * PeriodSeconds <= PeriodSeconds * k
  <2>1. k - (p + 1) \in Nat
    BY <1>3, SMT
  <2>2. PeriodSeconds * (k - (p + 1)) >= 0
    BY <1>1, <2>1, SMT
  <2> QED BY <1>1, <1>3, <2>2, SMT
<1>6. (p + 1) * PeriodSeconds \in Nat
  BY <1>1, SMT
<1>7. period_end(p) <= d
  BY <1>1, <1>3, <1>4, <1>5, <1>6, SMT DEF period_end
<1>8. period_end(p) \in Nat
  BY <1>6 DEF period_end
<1> QED BY <1>1, <1>2, <1>7, <1>8, SMT DEF d

\* No step adds a second of outage to a period that is over by the grace.
LEMMA OutageNotAdded ==
    ASSUME PayInv, PayInv', [Next]_vars, NEW p \in Nat, outage_fill => period_end(p) + outage_grace_s <= now
    PROVE  _outage_seconds(p, _outages(now))' <= _outage_seconds(p, _outages(now))
<1> DEFINE Seconds == OutageSeconds(p)
<1>1. setup \in Setups /\ now \in Nat
  BY DEF PayInv, EventsInv, ClockType
<1>2. setup' = setup
  BY DEF Next, LedgerLoop, ingest, settle, Unpublished, PublishRead, PublishCommit, PublishWrite, PublishConfirm,
         PublishInterrupted, LateUpload, Tick, _event, trainer_beat, mark_alive, Crash, _boot, vars
<1>3. /\ IsFiniteSet(Seconds) /\ Cardinality(Seconds) \in Nat
      /\ _outage_seconds(p, _outages(now)) = Cardinality(Seconds)
      /\ period_end(p) \in Nat
  BY <1>1, OutageSecondsType
<1>4. PeriodSeconds' = PeriodSeconds /\ period_end(p)' = period_end(p) /\ (outage_fill' <=> outage_fill)
  <2>1. PeriodSeconds' = PeriodSeconds /\ outage_fill' = outage_fill
    BY <1>2, SameSettings
  <2> QED BY <2>1 DEF period_end
<1>5. _outage_seconds(p, _outages(now))' = Cardinality(Seconds')
  BY DEF _outage_seconds, OutageSeconds
<1>6. Seconds' \subseteq Seconds
  <2> SUFFICES ASSUME NEW x \in Seconds' PROVE x \in Seconds
    OBVIOUS
  <2>1. /\ x \in (period_end(p) - PeriodSeconds) .. (period_end(p) - 1)
        /\ \E o \in _outages(now)' : o[1] <= x /\ x < o[2]
    BY <1>4 DEF OutageSeconds
  <2>2. outage_fill
    <3>1. ASSUME ~ outage_fill PROVE FALSE
      <4>1. _outages(now)' = {}
        BY <1>4, <3>1 DEF _outages
      <4> QED BY <2>1, <4>1
    <3> QED BY <3>1
  <2>3. x \in Nat /\ x < period_end(p)
    <3>1. period_end(p) - PeriodSeconds \in Nat
      <4>1. PeriodSeconds \in Nat
        BY <1>1, SettingTypes
      <4>2. period_end(p) = p * PeriodSeconds + PeriodSeconds /\ p * PeriodSeconds \in Nat
        BY <4>1, SMT DEF period_end
      <4> QED BY <4>1, <4>2, SMT
    <3> QED BY <1>3, <2>1, <3>1, SMT
  <2>4. outage_grace_s \in Nat
    BY <1>1, SettingTypes
  <2>5. x + outage_grace_s < now
    BY <1>1, <1>3, <2>2, <2>3, <2>4, SMT
  <2>6. \E o \in _outages(now) : o[1] <= x /\ x < o[2]
    BY <2>1, <2>2, <2>3, <2>5, OutageStays
  <2> QED BY <2>1, <2>6 DEF OutageSeconds
<1> HIDE DEF Seconds
<1>7. Cardinality(Seconds') <= Cardinality(Seconds)
  BY <1>3, <1>6, FS_Subset
<1> QED BY <1>3, <1>5, <1>7

\* Every step keeps the outages of the archived periods counted.
LEMMA OutagesStep ==
    ASSUME PayInv, PayInv', OutagesKnown, [Next]_vars
    PROVE  OutagesKnown'
<1>1. setup \in Setups /\ now \in Nat /\ now' \in Nat /\ ClockType
  BY DEF PayInv, EventsInv, ClockType
<1>2. setup' = setup
  BY DEF Next, LedgerLoop, ingest, settle, Unpublished, PublishRead, PublishCommit, PublishWrite, PublishConfirm,
         PublishInterrupted, LateUpload, Tick, _event, trainer_beat, mark_alive, Crash, _boot, vars
<1>3. now <= now'
  <2>1. now' = now \/ now' = now + 1
    BY DEF Next, LedgerLoop, ingest, settle, Unpublished, PublishRead, PublishCommit, PublishWrite, PublishConfirm,
           PublishInterrupted, LateUpload, Tick, _event, trainer_beat, mark_alive, Crash, _boot, vars
  <2> QED BY <1>1, <2>1, SMT
<1>4. /\ outage_grace_s' = outage_grace_s /\ (outage_fill' <=> outage_fill) /\ outage_grace_s \in Nat
      /\ \A p : period_end(p)' = period_end(p)
  <2>1. outage_grace_s' = outage_grace_s /\ outage_fill' = outage_fill /\ PeriodSeconds' = PeriodSeconds
    BY <1>2, SameSettings
  <2>2. outage_grace_s \in Nat
    BY <1>1, SettingTypes
  <2> QED BY <2>1, <2>2 DEF period_end
<1>5. DOMAIN periods \subseteq Nat /\ \A p \in DOMAIN periods : periods[p].outage_s \in Nat
  <2>1. DOMAIN periods \subseteq Nat /\ \A p \in DOMAIN periods : periods[p] \in ArchiveRow
    BY HeldArchives
  <2> QED BY <2>1 DEF ArchiveRow
<1>6. \A p \in DOMAIN periods : p \in DOMAIN periods' /\ periods'[p].outage_s = periods[p].outage_s
  <2>1. CASE settle
    BY <2>1, SettleEffect
  <2>2. CASE PublishCommit
    <3>1. doc.work \in DOMAIN periods
      BY <2>2, HeldArchives DEF PublishCommit, PayInv, PublishInv
    <3>2. PICK sent : periods' = [periods EXCEPT ![doc.work] = sent] /\ sent.outage_s = periods[doc.work].outage_s
      <4>1. periods[doc.work] \in ArchiveRow
        BY <3>1, HeldArchives
      <4>2. PICK e : periods' = [periods EXCEPT ![doc.work] = [periods[doc.work] EXCEPT !.entry = e, !.published = "attempted"]]
        BY <2>2 DEF PublishCommit
      <4> DEFINE sent == [periods[doc.work] EXCEPT !.entry = e, !.published = "attempted"]
      <4>3. sent.outage_s = periods[doc.work].outage_s
        BY <4>1 DEF ArchiveRow
      <4>4. periods' = [periods EXCEPT ![doc.work] = sent]
        BY <4>2
      <4> HIDE DEF sent
      <4> QED BY <4>3, <4>4
    <3> QED BY <3>1, <3>2
  <2>3. CASE PublishConfirm
    <3>1. doc.work \in DOMAIN periods
      BY <2>3, HeldArchives DEF PublishConfirm, PayInv, PublishInv
    <3>2. periods[doc.work] \in ArchiveRow
      BY <3>1, HeldArchives
    <3> DEFINE sent == [periods[doc.work] EXCEPT !.published = "yes"]
    <3>3. periods' = [periods EXCEPT ![doc.work] = sent]
      BY <2>3 DEF PublishConfirm
    <3>4. sent.outage_s = periods[doc.work].outage_s
      BY <3>2 DEF ArchiveRow
    <3> HIDE DEF sent
    <3> QED BY <3>1, <3>3, <3>4
  <2>4. CASE UNCHANGED periods
    BY <2>4
  <2>5. settle \/ PublishCommit \/ PublishConfirm \/ UNCHANGED periods
    BY DEF Next, LedgerLoop, ingest, Unpublished, PublishRead, PublishWrite, PublishInterrupted, LateUpload, Tick,
           _event, trainer_beat, mark_alive, Crash, _boot, ledger, vars
  <2> QED BY <2>1, <2>2, <2>3, <2>4, <2>5
<1>7. \A p \in DOMAIN periods' \ DOMAIN periods :
        /\ settle /\ p \in Nat /\ p <= closed_through(now, SettleSlack)
        /\ periods'[p].outage_s = _outage_seconds(p, _outages(now))
  <2>1. CASE settle
    <3>1. Work \subseteq Nat
      BY <1>1, WorkType
    <3>2. \A p \in DOMAIN periods' \ DOMAIN periods :
            p \in Work /\ p <= closed_through(now, SettleSlack) /\ periods'[p].outage_s = Down(p, now)
      BY <2>1, SettleEffect
    <3>3. \A p : Down(p, now) = _outage_seconds(p, _outages(now))
      BY DEF Down
    <3> QED BY <2>1, <3>1, <3>2, <3>3
  <2>2. CASE PublishCommit \/ PublishConfirm
    <3>1. DOMAIN periods' = DOMAIN periods
      BY <2>2 DEF PublishCommit, PublishConfirm
    <3> QED BY <3>1
  <2>3. CASE UNCHANGED periods
    BY <2>3
  <2>4. settle \/ PublishCommit \/ PublishConfirm \/ UNCHANGED periods
    BY DEF Next, LedgerLoop, ingest, Unpublished, PublishRead, PublishWrite, PublishInterrupted, LateUpload, Tick,
           _event, trainer_beat, mark_alive, Crash, _boot, ledger, vars
  <2> QED BY <2>1, <2>2, <2>3, <2>4
<1>8. SUFFICES ASSUME NEW p \in DOMAIN periods'
               PROVE  /\ outage_fill => period_end(p) + outage_grace_s <= now'
                      /\ _outage_seconds(p, _outages(now))' <= periods'[p].outage_s
  BY <1>4 DEF OutagesKnown
<1>9. /\ p \in Nat /\ (outage_fill => period_end(p) + outage_grace_s <= now)
      /\ _outage_seconds(p, _outages(now)) <= periods'[p].outage_s /\ periods'[p].outage_s \in Nat
  <2>1. CASE p \in DOMAIN periods
    BY <1>5, <1>6, <2>1 DEF OutagesKnown
  <2>2. CASE p \notin DOMAIN periods
    <3>1. p \in Nat /\ p <= closed_through(now, SettleSlack) /\ periods'[p].outage_s = _outage_seconds(p, _outages(now))
      BY <1>7, <2>2
    <3>2. _outage_seconds(p, _outages(now)) \in Nat
      BY <1>1, <3>1, OutageSecondsType
    <3>3. outage_fill => period_end(p) + outage_grace_s <= now
      BY <1>1, <3>1, ClosedIsOver
    <3> QED BY <3>1, <3>2, <3>3, SMT
  <2> QED BY <2>1, <2>2
<1>10. period_end(p) \in Nat /\ _outage_seconds(p, _outages(now)) \in Nat
  BY <1>1, <1>9, OutageSecondsType
<1>11. _outage_seconds(p, _outages(now))' <= _outage_seconds(p, _outages(now))
  BY <1>9, OutageNotAdded
<1>12. _outage_seconds(p, _outages(now))' \in Nat
  <2>1. PayInv' => setup' \in Setups'
    BY DEF PayInv, EventsInv, ClockType
  <2>2. IsFiniteSet(OutageSeconds(p)') /\ _outage_seconds(p, _outages(now))' = Cardinality(OutageSeconds(p)')
    <3>1. _outage_seconds(p, _outages(now))' = Cardinality(OutageSeconds(p)')
      BY DEF _outage_seconds, OutageSeconds
    <3>2. PeriodSeconds' = PeriodSeconds /\ period_end(p)' = period_end(p)
      BY <1>2, <1>4, SameSettings
    <3>3. PeriodSeconds \in Nat
      BY <1>1, SettingTypes
    <3> DEFINE I == (period_end(p) - PeriodSeconds) .. (period_end(p) - 1)
    <3>4. IsFiniteSet(I)
      BY <1>10, <3>3, FS_Interval, SMT
    <3>5. OutageSeconds(p)' \in SUBSET I
      BY <3>2 DEF OutageSeconds
    <3> HIDE DEF I
    <3> QED BY <3>1, <3>4, <3>5, FS_Subset
  <2> QED BY <2>2, FS_CardinalityType
<1> QED BY <1>1, <1>3, <1>4, <1>9, <1>10, <1>11, <1>12, SMT

\* An archive counts every second of its period that is ever known to be an outage: settle waits for
\* the grace, so no later beat, silence or restart adds to a period already archived (_outages, settle).
THEOREM OutagesAllCounted == Spec => []NoOutageMissed
<1>1. Init => OutagesKnown
  BY SMT DEF Init, OutagesKnown
<1>2. PayInv /\ PayInv' /\ OutagesKnown /\ [Next]_vars => OutagesKnown'
  BY OutagesStep
<1>3. OutagesKnown => NoOutageMissed
  BY DEF OutagesKnown, NoOutageMissed
<1> QED BY <1>1, <1>2, <1>3, LedgerInvariant, PTL DEF Spec
================================================================================
