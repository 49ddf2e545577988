------------------------------ MODULE AuditProofs ------------------------------
(***************************************************************************)
(* That an audit is concluded once, for any number of audits, deaths and   *)
(* resent reports.                                                         *)
(***************************************************************************)
EXTENDS AuditQueue, TLAPS

States == {"none", "pending", "passed", "failed", "inconclusive"}

\* What is recorded of an audit x in state s, with the rows v and the events e.
Agrees(x, s, v, e) ==
    /\ s \in {"none", "pending"} => v = <<>> /\ e = <<>>
    /\ s \in {"passed", "failed"} => v = <<s>>
    /\ s = "inconclusive" => v \in {<<>>, <<"suspect">>}
    /\ s \notin {"none", "pending"} => e = IF x \in First THEN <<s = "passed">> ELSE <<>>

\* The inductive invariant: the rows agree with the state, and what the link may still deliver is a result.
AuditInv ==
    /\ audit \in [Audits -> States]
    /\ DOMAIN verdicts = Audits /\ DOMAIN events = Audits
    /\ \A x \in Audits : Agrees(x, audit[x], verdicts[x], events[x])
    /\ \A r \in resent : r[2] \in Results

\* Appending to no rows gives one row.
LEMMA AppendToNone ==
    /\ \A r \in Results : Append(<<>>, r) = <<r>>
    /\ \A b \in BOOLEAN : Append(<<>>, b) = <<b>>
  BY DEF Results

\* What report_audit records keeps the rows in agreement with the state, whoever concludes what.
LEMMA ConcludeKeeps ==
    ASSUME AuditInv, NEW a, NEW result \in Results, Conclude(a, result)
    PROVE  /\ audit' \in [Audits -> States]
           /\ DOMAIN verdicts' = Audits /\ DOMAIN events' = Audits
           /\ \A x \in Audits : Agrees(x, audit'[x], verdicts'[x], events'[x])
  <1>1. audit' \in [Audits -> States] /\ DOMAIN verdicts' = Audits /\ DOMAIN events' = Audits
    BY DEF AuditInv, Conclude, States, Results
  <1>2. ASSUME NEW x \in Audits
        PROVE  Agrees(x, audit'[x], verdicts'[x], events'[x])
    <2>1. CASE x # a
      <3>1. audit'[x] = audit[x] /\ verdicts'[x] = verdicts[x] /\ events'[x] = events[x]
        BY <2>1 DEF AuditInv, Conclude
      <3>2. Agrees(x, audit[x], verdicts[x], events[x])
        BY DEF AuditInv
      <3> QED BY <3>1, <3>2
    <2>2. CASE x = a
      <3> DEFINE s == IF result = "suspect" THEN "inconclusive" ELSE result
      <3>1. audit[x] = "pending"
        BY <2>2 DEF Conclude, Pending
      <3>2. verdicts[x] = <<>> /\ events[x] = <<>>
        BY <3>1 DEF AuditInv, Agrees
      <3>3. audit'[x] = s
        BY <2>2 DEF Conclude, AuditInv
      <3>4. verdicts'[x] = IF result = "inconclusive" THEN <<>> ELSE Append(<<>>, result)
        BY <2>2, <3>2 DEF Conclude, AuditInv
      <3>5. events'[x] = IF x \in First THEN Append(<<>>, result = "passed") ELSE <<>>
        BY <2>2, <3>2 DEF Conclude, AuditInv
      <3>6. s \in {"passed", "failed", "inconclusive"} /\ ((s = "passed") <=> (result = "passed"))
        BY DEF Results
      <3>7. events'[x] = IF x \in First THEN <<s = "passed">> ELSE <<>>
        <4>1. Append(<<>>, result = "passed") = <<result = "passed">>
          BY AppendToNone
        <4>2. (s = "passed") = (result = "passed")
          BY DEF Results
        <4> QED BY <3>5, <4>1, <4>2
      <3>8. /\ s \in {"passed", "failed"} => verdicts'[x] = <<s>>
            /\ s = "inconclusive" => verdicts'[x] \in {<<>>, <<"suspect">>}
        BY <3>4, AppendToNone DEF Results
      <3> HIDE DEF s
      <3> QED BY <3>3, <3>6, <3>7, <3>8 DEF Agrees
    <2> QED BY <2>1, <2>2
  <1> QED BY <1>1, <1>2

\* Every audit starts unqueued, without rows.
LEMMA AuditInit == Init => AuditInv
  BY DEF Init, AuditInv, Agrees, States

\* A step that leaves the rows alone, and adds no late report, keeps the invariant.
LEMMA AuditSame ==
    ASSUME AuditInv, UNCHANGED <<audit, verdicts, events>>, resent' \subseteq resent
    PROVE  AuditInv'
  BY DEF AuditInv

\* A step that concludes an audit and adds no late report keeps it.
LEMMA AuditConcludes ==
    ASSUME AuditInv, NEW a, NEW result \in Results, Conclude(a, result), resent' \subseteq resent
    PROVE  AuditInv'
  <1>1. \A r \in resent' : r[2] \in Results
    BY DEF AuditInv
  <1> QED BY <1>1, ConcludeKeeps DEF AuditInv

\* Every step of the validator's loop, of the round and of the link keeps it.
LEMMA AuditNext == AuditInv /\ [Next]_vars => AuditInv'
  <1> SUFFICES ASSUME AuditInv, [Next]_vars PROVE AuditInv'
    OBVIOUS
  <1>1. ASSUME NEW a \in Audits, Queue(a) PROVE AuditInv'
    <2>1. audit' \in [Audits -> States]
      BY <1>1 DEF Queue, AuditInv, States
    <2>2. \A x \in Audits : Agrees(x, audit'[x], verdicts'[x], events'[x])
      BY <1>1 DEF Queue, AuditInv, Agrees
    <2> QED BY <1>1, <2>1, <2>2 DEF Queue, AuditInv
  <1>2. ASSUME NEW a \in Audits, SweepDrop(a) PROVE AuditInv'
    BY <1>2, AuditConcludes DEF SweepDrop, Results
  <1>3. ASSUME NEW a \in Audits, RoundDrop(a) PROVE AuditInv'
    BY <1>3, AuditConcludes DEF RoundDrop, Results
  <1>4. ASSUME NEW result \in Results, Judge(result) PROVE AuditInv'
    <2>1. \A r \in resent' : r[2] \in Results
      BY <1>4 DEF Judge, AuditInv
    <2>2. CASE Conclude(Head(jobs), result)
      BY <2>1, <2>2, ConcludeKeeps DEF AuditInv
    <2>3. CASE UNCHANGED <<audit, verdicts, events>>
      BY <2>1, <2>3 DEF AuditInv
    <2> QED BY <1>4, <2>2, <2>3 DEF Judge
  <1>5. ASSUME LateReport PROVE AuditInv'
    <2>1. PICK r \in resent : /\ resent' = resent \ {r}
                              /\ \/ Conclude(r[1], r[2])
                                 \/ ~ Pending(r[1]) /\ UNCHANGED <<audit, verdicts, events>>
      BY <1>5 DEF LateReport
    <2>2. r[2] \in Results
      BY DEF AuditInv
    <2> QED BY <2>1, <2>2, AuditConcludes, AuditSame
  <1>6. CASE JudgeGivesUp
    BY <1>6, AuditConcludes DEF JudgeGivesUp, Results
  <1>7. CASE \/ Publish \/ Adopt \/ SweepList \/ SweepRaises \/ RoundStart \/ RoundDropRaises \/ RoundTake
             \/ OutOfBudget \/ JudgeCounts \/ JudgeRaises \/ RoundEnd \/ Recover \/ Die \/ UNCHANGED vars
    <2>1. UNCHANGED <<audit, verdicts, events>> /\ resent' \subseteq resent
      BY <1>7 DEF Publish, Adopt, SweepList, SweepRaises, RoundStart, RoundDropRaises, RoundTake, OutOfBudget,
                  JudgeCounts, JudgeRaises, RoundEnd, Recover, Die, vars, book, records
    <2> QED BY <2>1, AuditSame
  <1> QED BY <1>1, <1>2, <1>3, <1>4, <1>5, <1>6, <1>7 DEF Next, Loop, Round

\* What the invariant says of the rows is what the runs check.
LEMMA AuditInvImplies == AuditInv => ConcludedOnce
  <1> SUFFICES ASSUME AuditInv, NEW a \in Audits
      PROVE /\ Len(verdicts[a]) <= 1 /\ Len(events[a]) <= 1
            /\ audit[a] \in {"passed", "failed"} <=> \E v \in Range(verdicts[a]) : v # "suspect"
            /\ \A v \in Range(verdicts[a]) : v # "suspect" => audit[a] = v
            /\ a \in First /\ audit[a] \notin {"none", "pending"} => events[a] = <<audit[a] = "passed">>
    BY DEF ConcludedOnce
  <1>1. audit[a] \in States /\ Agrees(a, audit[a], verdicts[a], events[a])
    BY DEF AuditInv
  <1>2. Len(<<>>) <= 1 /\ Range(<<>>) = {}
    BY DEF Range
  <1>3. \A s \in States \union {"suspect"} : Len(<<s>>) <= 1 /\ Range(<<s>>) = {s}
    BY DEF Range
  <1>4. Len(events[a]) <= 1
    <2>1. events[a] = <<>> \/ events[a] = <<audit[a] = "passed">>
      BY <1>1 DEF Agrees, States
    <2>2. \A b \in BOOLEAN : Len(<<b>>) <= 1
      OBVIOUS
    <2>3. Len(<<audit[a] = "passed">>) <= 1
      BY <2>2
    <2> QED BY <1>2, <2>1, <2>3, Zenon
  <1>5. a \in First /\ audit[a] \notin {"none", "pending"} => events[a] = <<audit[a] = "passed">>
    BY <1>1 DEF Agrees
  <1> DEFINE rows == /\ Len(verdicts[a]) <= 1
                     /\ audit[a] \in {"passed", "failed"} <=> \E v \in Range(verdicts[a]) : v # "suspect"
                     /\ \A v \in Range(verdicts[a]) : v # "suspect" => audit[a] = v
  <1>6. CASE audit[a] \in {"passed", "failed"}
    <2>1. verdicts[a] = <<audit[a]>>
      BY <1>1, <1>6 DEF Agrees
    <2>2. Len(verdicts[a]) <= 1 /\ Range(verdicts[a]) = {audit[a]}
      BY <1>1, <1>3, <2>1, Zenon
    <2>3. rows
      BY <1>6, <2>2
    <2> QED BY <1>4, <1>5, <2>3, Zenon
  <1>7. CASE audit[a] \notin {"passed", "failed"}
    <2>1. verdicts[a] = <<>> \/ verdicts[a] = <<"suspect">>
      BY <1>1, <1>7 DEF Agrees, States
    <2>2. Len(<<"suspect">>) <= 1 /\ Range(<<"suspect">>) = {"suspect"}
      BY <1>3
    <2>3. Len(verdicts[a]) <= 1 /\ (Range(verdicts[a]) = {} \/ Range(verdicts[a]) = {"suspect"})
      BY <1>2, <2>1, <2>2, Zenon
    <2>4. rows
      BY <1>7, <2>3
    <2> QED BY <1>4, <1>5, <2>4, Zenon
  <1> QED BY <1>6, <1>7

\* An audit is concluded once: at most one verdict, agreeing with the group's state, and one pay event of a first scan,
\* whoever drops it, judges it, gives up on it or resends its report (report_audit).
THEOREM AuditConcludedOnce == Spec => []ConcludedOnce
  <1>1. Spec => []AuditInv
    BY AuditInit, AuditNext, PTL DEF Spec
  <1> QED BY <1>1, AuditInvImplies, PTL
================================================================================
