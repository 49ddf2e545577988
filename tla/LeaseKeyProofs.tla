--------------------------- MODULE LeaseKeyProofs ---------------------------
(***************************************************************************)
(* What LeaseBook promises of a draw (a prompt at a checkpoint), of a      *)
(* prompt, of a group's pay and of a submission in progress, for every     *)
(* value of the constants.                                                 *)
(*                                                                         *)
(* KeyInv is the inductive invariant: the promises, and what ties lease    *)
(* rows, recorded groups, secrets and prompt states together.  Three       *)
(* actions work on it: a grant opens a row, a submission records a group,  *)
(* an adoption reveals secrets and deletes rows.  The others only close a  *)
(* row unsubmitted or shorten a cooldown (QuietForKeys).  PayInv ties the  *)
(* pay events to the groups, HoldInv the holds to the requests.            *)
(***************************************************************************)
EXTENDS LeaseBookProofs

\* The leaves are first-order; the few that calculate cite SMT.
USE ZenonT(30)

\* A recorded group closed its lease.
GradedIsClosed == \A l \in Leases : Graded(l) => leases[l].state \in {"submitted", "pruned"}

\* A lease is open only on a draw that no group was recorded for.
OpenKeyIsFresh ==
    \A l, m \in Leases :
        Open(l) /\ Graded(m) /\ leases[l].prompt = leases[m].prompt => leases[l].k # leases[m].k

\* A row is deleted only once its checkpoint's secret is revealed.
PrunedIsRevealed == \A l \in Leases : leases[l].state = "pruned" => secrets[leases[l].k] = "revealed"

\* A row's checkpoint was adopted, and no adopted checkpoint is ahead of the latest.
RowsAreAdopted == \A l \in Leases : leases[l].state # "none" => secrets[leases[l].k] # "none"
AdoptedIsPast == \A k \in Checkpoints : secrets[k] # "none" => k <= latest

\* A prompt never scanned is not cooling.
NewIsNotCooling == \A p \in Prompts : prompts[p].state = "new" => prompts[p].until = 0

\* A first scan was recorded on its prompt.
FirstIsScanned ==
    \A l \in Leases : groups[l].first => Graded(l) /\ prompts[leases[l].prompt].state # "new"

\* A prompt's too-easy mark is the mark of a group.
EasyIsGraded ==
    \A p \in Prompts :
        prompts[p].easy <=> \E l \in Leases : leases[l].prompt = p /\ groups[l].verdict = TOO_EASY

KeyInv ==
    /\ OneOpenPerPrompt /\ OneGroupPerKey /\ OpenPromptIsLeasable /\ OneFirstScan
    /\ BlacklistedIffTwiceEasy
    /\ GradedIsClosed /\ OpenKeyIsFresh /\ PrunedIsRevealed /\ RowsAreAdopted /\ AdoptedIsPast
    /\ NewIsNotCooling /\ FirstIsScanned /\ EasyIsGraded

\* A step that leaves draws and prompts alone, but for closing a lease
\* unsubmitted and for shortening a cooldown.
QuietForKeys ==
    /\ latest' = latest /\ secrets' = secrets
    /\ \A l \in Leases :
          /\ leases'[l].prompt = leases[l].prompt /\ leases'[l].k = leases[l].k
          /\ \/ leases'[l].state = leases[l].state
             \/ Open(l) /\ leases'[l].state \in {"expired", "released"}
          /\ groups'[l].verdict = groups[l].verdict /\ groups'[l].first = groups[l].first
    /\ \A p \in Prompts :
          /\ prompts'[p].state = prompts[p].state /\ prompts'[p].easy = prompts[p].easy
          /\ prompts'[p].until <= prompts[p].until
          /\ prompts[p].state = "new" => prompts'[p].until = prompts[p].until

-----------------------------------------------------------------------------

\* Init establishes KeyInv.
LEMMA KeyInit == Init => KeyInv
<1> SUFFICES ASSUME Init PROVE KeyInv
  OBVIOUS
<1>1. \A l \in Leases : leases[l].state = "none" /\ groups[l].verdict = "none"
                          /\ groups[l].first = FALSE
  BY DEF Init, NoRow, NoGroup
<1>2. \A p \in Prompts : prompts[p].state = "new" /\ prompts[p].until = 0
                           /\ prompts[p].easy = FALSE
  BY DEF Init
<1>3. \A k \in Checkpoints : secrets[k] = "none"
  BY DEF Init
<1>4. OneOpenPerPrompt /\ OneGroupPerKey /\ OpenPromptIsLeasable /\ OneFirstScan
        /\ GradedIsClosed /\ OpenKeyIsFresh /\ PrunedIsRevealed /\ RowsAreAdopted
        /\ AdoptedIsPast /\ NewIsNotCooling /\ FirstIsScanned
  BY <1>1, <1>2, <1>3 DEF OneOpenPerPrompt, OneGroupPerKey, OpenPromptIsLeasable, OneFirstScan,
     GradedIsClosed, OpenKeyIsFresh, PrunedIsRevealed, RowsAreAdopted, AdoptedIsPast,
     NewIsNotCooling, FirstIsScanned, Open, Graded
<1>5. BlacklistedIffTwiceEasy /\ EasyIsGraded
  BY <1>1, <1>2 DEF BlacklistedIffTwiceEasy, EasyIsGraded, TOO_EASY
<1>6. QED
  BY <1>4, <1>5 DEF KeyInv

\* A quiet step keeps KeyInv.
LEMMA KeyQuiet ==
    ASSUME TypeInv, TypeInv', KeyInv, QuietForKeys
    PROVE  KeyInv'
<1>1. latest \in Int /\ latest' = latest
  BY SMTT(60), Numbers DEF QuietForKeys, TypeInv, TypeOK, Checkpoints, NoCheckpoint
<1>2. \A l \in Leases : Open(l)' => Open(l)
  BY DEF QuietForKeys, Open
<1>3. \A l \in Leases : Graded(l)' <=> Graded(l)
  BY DEF QuietForKeys, Graded
<1>4. OneOpenPerPrompt'
  BY <1>2 DEF KeyInv, QuietForKeys, OneOpenPerPrompt
<1>5. OneGroupPerKey'
  BY SMTT(60), <1>3 DEF KeyInv, QuietForKeys, OneGroupPerKey
<1>6. OpenPromptIsLeasable'
  <2> SUFFICES ASSUME NEW l \in Leases, Open(l)'
               PROVE  /\ prompts'[leases'[l].prompt].state # "blacklisted"
                      /\ prompts'[leases'[l].prompt].until <= latest'
    BY DEF OpenPromptIsLeasable
  <2> DEFINE p == leases[l].prompt
  <2>1. leases'[l].prompt = p /\ Open(l)
    BY <1>2 DEF QuietForKeys
  <2>2. p \in Prompts
    BY <2>1 DEF TypeInv, RowsNamed, Open
  <2>3. prompts[p].state # "blacklisted" /\ prompts[p].until <= latest
    BY <2>1 DEF KeyInv, OpenPromptIsLeasable
  <2>4. prompts[p].until \in Int /\ prompts'[p].until \in Int
    BY SMTT(60), <2>2 DEF TypeInv, TypeOK, Prompt
  <2>5. prompts'[p].state = prompts[p].state /\ prompts'[p].until <= prompts[p].until
    BY <2>2 DEF QuietForKeys
  <2> HIDE DEF p
  <2>6. QED
    BY SMTT(60), <1>1, <2>1, <2>3, <2>4, <2>5
<1>7. OneFirstScan'
  BY SMTT(60) DEF KeyInv, QuietForKeys, OneFirstScan
<1>8. BlacklistedIffTwiceEasy'
  BY SMTT(60) DEF KeyInv, QuietForKeys, BlacklistedIffTwiceEasy
<1>9. GradedIsClosed'
  BY <1>3 DEF KeyInv, QuietForKeys, GradedIsClosed, Open
<1>10. OpenKeyIsFresh'
  BY SMTT(60), <1>2, <1>3 DEF KeyInv, QuietForKeys, OpenKeyIsFresh
<1>11. PrunedIsRevealed' /\ RowsAreAdopted'
  BY SMTT(60) DEF KeyInv, QuietForKeys, PrunedIsRevealed, RowsAreAdopted, Open
<1>12. AdoptedIsPast'
  BY DEF KeyInv, QuietForKeys, AdoptedIsPast
<1>13. NewIsNotCooling'
  BY DEF KeyInv, QuietForKeys, NewIsNotCooling
<1>14. FirstIsScanned'
  <2> SUFFICES ASSUME NEW l \in Leases, groups'[l].first
               PROVE  Graded(l)' /\ prompts'[leases'[l].prompt].state # "new"
    BY DEF FirstIsScanned
  <2>1. groups[l].first
    BY DEF QuietForKeys
  <2>2. Graded(l) /\ prompts[leases[l].prompt].state # "new"
    BY <2>1 DEF KeyInv, FirstIsScanned
  <2>3. leases[l].prompt \in Prompts
    BY <2>2 DEF KeyInv, GradedIsClosed, TypeInv, RowsNamed
  <2>4. QED
    BY SMTT(60), <1>3, <2>2, <2>3 DEF QuietForKeys
<1>15. EasyIsGraded'
  BY SMTT(60) DEF KeyInv, QuietForKeys, EasyIsGraded
<1>16. QED
  BY <1>4, <1>5, <1>6, <1>7, <1>8, <1>9, <1>10, <1>11, <1>12, <1>13, <1>14, <1>15 DEF KeyInv

\* An adoption keeps KeyInv: a row is deleted only behind a revealed secret,
\* and a leased prompt stays leasable as the latest checkpoint moves on.
LEMMA KeyAdopt ==
    ASSUME TypeInv, TypeInv', KeyInv, NEW n \in Checkpoints, Adopt(n)
    PROVE  KeyInv'
<1>1. latest \in Int /\ n \in Int /\ MaxLag \in Nat /\ latest' = n /\ n > latest
  <2>1. latest \in Checkpoints \cup {NoCheckpoint}
    BY DEF TypeInv, TypeOK
  <2>2. latest \in Int /\ n \in Int /\ MaxLag \in Nat
    BY SMTT(60), <2>1, Numbers DEF Checkpoints, NoCheckpoint
  <2>3. latest' = n /\ n > latest
    BY DEF Adopt
  <2>4. QED
    BY <2>2, <2>3
<1>2. groups' = groups /\ prompts' = prompts
  BY DEF Adopt
<1>3. ASSUME NEW l \in Leases
      PROVE  /\ leases'[l].prompt = leases[l].prompt /\ leases'[l].k = leases[l].k
             /\ \/ leases'[l].state = leases[l].state
                \/ /\ leases'[l].state = "pruned" /\ leases[l].state \notin {"none", "open"}
                   /\ leases[l].k < n - MaxLag - MaxLag
  <2>1. leases[l] \in Row
    BY DEF TypeInv, TypeOK
  <2>2. \/ leases'[l] = leases[l]
        \/ /\ leases'[l] = [leases[l] EXCEPT !.state = "pruned"]
           /\ leases[l].state \notin {"none", "open"} /\ leases[l].k < n - MaxLag - MaxLag
    BY DEF Adopt
  <2>3. QED
    BY <2>1, <2>2 DEF Row
<1>4. \A l \in Leases : (Open(l)' <=> Open(l)) /\ (Graded(l)' <=> Graded(l))
  BY <1>2, <1>3 DEF Open, Graded
<1>5. ASSUME NEW j \in Checkpoints
      PROVE  /\ secrets'[j] = IF j = n THEN "secret"
                              ELSE IF secrets[j] = "secret" /\ j < n - MaxLag THEN "revealed"
                              ELSE secrets[j]
             /\ j = n => secrets[j] = "none"
  <2>1. j = n => secrets[j] = "none"
    BY SMTT(60), <1>1 DEF KeyInv, AdoptedIsPast
  <2>2. QED
    BY <2>1 DEF Adopt
<1>6. OneOpenPerPrompt' /\ OneGroupPerKey' /\ OneFirstScan' /\ GradedIsClosed' /\ OpenKeyIsFresh'
  BY SMTT(60), <1>2, <1>3, <1>4 DEF KeyInv, OneOpenPerPrompt, OneGroupPerKey, OneFirstScan, GradedIsClosed,
     OpenKeyIsFresh
<1>7. OpenPromptIsLeasable'
  <2> SUFFICES ASSUME NEW l \in Leases, Open(l)'
               PROVE  /\ prompts'[leases'[l].prompt].state # "blacklisted"
                      /\ prompts'[leases'[l].prompt].until <= latest'
    BY DEF OpenPromptIsLeasable
  <2> DEFINE p == leases[l].prompt
  <2>1. Open(l) /\ leases'[l].prompt = p /\ prompts' = prompts
    BY <1>2, <1>3, <1>4
  <2>2. p \in Prompts
    BY <2>1 DEF TypeInv, RowsNamed, Open
  <2>3. prompts[p].state # "blacklisted" /\ prompts[p].until <= latest
    BY <2>1 DEF KeyInv, OpenPromptIsLeasable
  <2>4. prompts[p].until \in Int
    BY SMTT(60), <2>2 DEF TypeInv, TypeOK, Prompt
  <2> HIDE DEF p
  <2>5. QED
    BY SMTT(60), <1>1, <2>1, <2>3, <2>4
<1>8. BlacklistedIffTwiceEasy' /\ EasyIsGraded' /\ NewIsNotCooling' /\ FirstIsScanned'
  BY SMTT(60), <1>2, <1>3, <1>4 DEF KeyInv, BlacklistedIffTwiceEasy, EasyIsGraded, NewIsNotCooling,
     FirstIsScanned
<1>9. PrunedIsRevealed'
  <2> SUFFICES ASSUME NEW l \in Leases, leases'[l].state = "pruned"
               PROVE  secrets'[leases[l].k] = "revealed"
    BY <1>3 DEF PrunedIsRevealed
  <2> DEFINE j == leases[l].k
  <2>1. leases[l].state # "none"
    BY <1>3
  <2>2. j \in Checkpoints /\ secrets[j] # "none" /\ j \in Int
    BY SMTT(60), <2>1, Numbers DEF TypeInv, RowsNamed, KeyInv, RowsAreAdopted, Checkpoints
  <2>3. secrets[j] \in {"secret", "revealed"} /\ j # n
    BY <1>5, <2>2 DEF TypeInv, TypeOK
  <2>4. CASE leases[l].state = "pruned"
    BY <1>5, <2>2, <2>3, <2>4 DEF KeyInv, PrunedIsRevealed
  <2>5. CASE leases[l].state # "pruned"
    <3>1. j < n - MaxLag - MaxLag
      BY <1>3, <2>5
    <3> HIDE DEF j
    <3>2. j < n - MaxLag
      BY SMTT(60), <1>1, <2>2, <3>1
    <3>3. QED
      BY <1>5, <2>2, <2>3, <3>2 DEF j
  <2>6. QED
    BY <2>4, <2>5
<1>10. RowsAreAdopted'
  <2> SUFFICES ASSUME NEW l \in Leases, leases'[l].state # "none"
               PROVE  secrets'[leases[l].k] # "none"
    BY <1>3 DEF RowsAreAdopted
  <2>1. leases[l].state # "none"
    BY <1>3
  <2>2. leases[l].k \in Checkpoints /\ secrets[leases[l].k] # "none"
    BY <2>1 DEF TypeInv, RowsNamed, KeyInv, RowsAreAdopted
  <2>3. QED
    BY <1>5, <2>2
<1>11. AdoptedIsPast'
  <2> SUFFICES ASSUME NEW j \in Checkpoints, secrets'[j] # "none" PROVE j <= n
    BY <1>1 DEF AdoptedIsPast
  <2>1. j \in Int
    BY SMTT(60), Numbers DEF Checkpoints
  <2>2. j = n \/ secrets[j] # "none"
    BY <1>5
  <2>3. QED
    BY SMTT(60), <1>1, <2>1, <2>2 DEF KeyInv, AdoptedIsPast
<1>12. QED
  BY <1>6, <1>7, <1>8, <1>9, <1>10, <1>11 DEF KeyInv

\* A grant keeps KeyInv: the draw it opens was never graded, because a graded
\* one is closed by its row or its secret is out.
LEMMA KeyGrant ==
    ASSUME TypeInv, TypeInv', KeyInv, NEW h \in Hotkeys, NEW p \in Prompts,
           NEW k \in Checkpoints, NEW n \in Leases, GrantClaim(h, p, k, n)
    PROVE  KeyInv'
<1>1. Leasable(p, k) /\ leases[n].state = "none"
  BY DEF GrantClaim
<1>2. groups' = groups /\ prompts' = prompts /\ secrets' = secrets /\ latest' = latest
  BY DEF GrantClaim
<1>3. leases'[n].state = "open" /\ leases'[n].prompt = p /\ leases'[n].k = k
        /\ \A l \in Leases \ {n} : leases'[l] = leases[l]
  BY DEF GrantClaim, TypeInv, TypeOK
<1>4. ~Graded(n) /\ ~groups[n].first
  BY <1>1 DEF KeyInv, GradedIsClosed, FirstIsScanned
<1>5. /\ \A l \in Leases : Graded(l)' <=> Graded(l)
      /\ \A l \in Leases \ {n} : Open(l)' <=> Open(l)
      /\ Open(n)' /\ ~Open(n)
  BY <1>1, <1>2, <1>3 DEF Graded, Open
<1>6. secrets[k] = "secret" /\ ~\E l \in Leases : leases[l].prompt = p /\ Open(l)
  BY <1>1 DEF Leasable
<1>7. \A l \in Leases : Graded(l) /\ leases[l].prompt = p => leases[l].k # k
  <2> SUFFICES ASSUME NEW l \in Leases, Graded(l), leases[l].prompt = p, leases[l].k = k
               PROVE  FALSE
    OBVIOUS
  <2>1. leases[l].state \in {"submitted", "pruned"}
    BY DEF KeyInv, GradedIsClosed
  <2>2. CASE leases[l].state = "submitted"
    BY <1>1, <2>2 DEF Leasable
  <2>3. CASE leases[l].state = "pruned"
    BY <1>6, <2>3 DEF KeyInv, PrunedIsRevealed
  <2>4. QED
    BY <2>1, <2>2, <2>3
<1>8. OneOpenPerPrompt'
  BY <1>3, <1>5, <1>6 DEF KeyInv, OneOpenPerPrompt
<1>9. OneGroupPerKey' /\ OneFirstScan'
  BY <1>2, <1>3, <1>4, <1>5 DEF KeyInv, OneGroupPerKey, OneFirstScan
<1>10. OpenPromptIsLeasable'
  <2>1. prompts[p].state # "blacklisted" /\ prompts[p].until <= latest
    <3>1. prompts[p] \in Prompt /\ latest \in Int /\ k \in Nat /\ k <= latest
      <4>1. latest \in Int /\ k \in Nat
        BY SMTT(60), Numbers DEF TypeInv, TypeOK, Checkpoints, NoCheckpoint
      <4>2. prompts[p] \in Prompt
        BY DEF TypeInv, TypeOK
      <4>3. k <= latest
        BY <1>6 DEF KeyInv, AdoptedIsPast
      <4>4. QED
        BY <4>1, <4>2, <4>3
    <3>2. CASE prompts[p].state = "new"
      BY SMTT(60), <3>1, <3>2 DEF KeyInv, NewIsNotCooling
    <3>3. CASE prompts[p].state = "cooldown"
      BY <1>1, <3>1, <3>3 DEF Leasable, Prompt
    <3>4. QED
      BY <1>1, <3>1, <3>2, <3>3 DEF Leasable, Prompt
  <2>2. QED
    BY <1>2, <1>3, <1>5, <2>1 DEF KeyInv, OpenPromptIsLeasable
<1>11. BlacklistedIffTwiceEasy' /\ EasyIsGraded'
  <2>1. \A l \in Leases : groups[l].verdict = TOO_EASY => leases'[l].prompt = leases[l].prompt
    BY <1>3, <1>4 DEF Graded, TOO_EASY
  <2>2. groups[n].verdict # TOO_EASY
    BY <1>4 DEF Graded, TOO_EASY
  <2>3. BlacklistedIffTwiceEasy'
    BY SMTT(60), <1>2, <1>3, <2>1, <2>2 DEF KeyInv, BlacklistedIffTwiceEasy
  <2>4. EasyIsGraded'
    BY SMTT(60), <1>2, <1>3, <2>1, <2>2 DEF KeyInv, EasyIsGraded
  <2>5. QED
    BY <2>3, <2>4
<1>12. GradedIsClosed' /\ FirstIsScanned' /\ NewIsNotCooling' /\ AdoptedIsPast'
  BY <1>2, <1>3, <1>4, <1>5 DEF KeyInv, GradedIsClosed, FirstIsScanned, NewIsNotCooling,
     AdoptedIsPast
<1>13. OpenKeyIsFresh'
  BY SMTT(60), <1>3, <1>4, <1>5, <1>7 DEF KeyInv, OpenKeyIsFresh
<1>14. PrunedIsRevealed' /\ RowsAreAdopted'
  BY <1>2, <1>3, <1>6 DEF KeyInv, PrunedIsRevealed, RowsAreAdopted
<1>15. QED
  BY <1>8, <1>9, <1>10, <1>11, <1>12, <1>13, <1>14 DEF KeyInv

\* A submission keeps KeyInv: it closes the only open lease of its prompt, so
\* whatever its outcome no open lease is left on a cooling prompt.
LEMMA KeyCommit ==
    ASSUME TypeInv, TypeInv', KeyInv, NEW t \in Threads, NEW v \in Verdicts,
           NEW drawn \in Draws, NEW enough \in Lengths, Commit(t, v, drawn, enough),
           Submittable(subs[t].lease, subs[t].arrived)
    PROVE  KeyInv'
<1>n. PICK n \in Leases : n = subs[t].lease
  BY CommitEffect
<1>p. PICK p \in Prompts : p = leases[n].prompt
  BY <1>n, CommitEffect
<1>k. PICK k \in Checkpoints : k = leases[n].k
  BY <1>n, CommitEffect
<1>1. /\ n \in Leases /\ Open(n) /\ p \in Prompts /\ k \in Checkpoints
      /\ leases'[n].state = "submitted" /\ leases'[n].prompt = p /\ leases'[n].k = k
      /\ \A m \in Leases \ {n} : leases'[m] = leases[m]
  BY <1>n, <1>p, <1>k, CommitEffect
<1>2. /\ groups'[n].verdict = v /\ groups'[n].first = (Scanned(v) /\ prompts[p].state = "new")
      /\ \A m \in Leases \ {n} : groups'[m] = groups[m]
  BY <1>n, <1>p, CommitEffect
<1>3. /\ Scanned(v) => prompts'[p] = Outcome(p, k, v)
      /\ ~Scanned(v) => prompts' = prompts
      /\ \A q \in Prompts \ {p} : prompts'[q] = prompts[q]
  BY <1>n, <1>p, <1>k, CommitEffect
<1>4. secrets' = secrets /\ latest' = latest
  BY DEF Commit
<1>5. v # "none" /\ v \in AllVerdicts
  BY LeaseBookAssumption DEF AllVerdicts, IN_ZONE, TOO_EASY, TOO_HARD, REJECTED, GRADER_FAULT
<1>6. ~Graded(n) /\ ~groups[n].first
  BY <1>1 DEF KeyInv, GradedIsClosed, FirstIsScanned, Open
<1>7. prompts[p].state # "blacklisted"
  BY <1>1, <1>p DEF KeyInv, OpenPromptIsLeasable
<1>8. Outcome(p, k, v).state \in {"cooldown", "blacklisted"}
  BY <1>1, OutcomeType
<1>9. /\ Outcome(p, k, v).state = "blacklisted" <=> (v = TOO_EASY /\ prompts[p].easy)
      /\ Outcome(p, k, v).easy <=> (prompts[p].easy \/ v = TOO_EASY)
  <2>1. prompts[p] \in Prompt
    BY <1>1 DEF TypeInv, TypeOK
  <2>2. CASE v = TOO_EASY /\ prompts[p].easy
    <3>1. Outcome(p, k, v) = [prompts[p] EXCEPT !.state = "blacklisted", !.until = 0, !.start = 0,
                                                !.easy = @ \/ v = TOO_EASY]
      BY <2>2 DEF Outcome
    <3>2. QED
      BY <2>1, <2>2, <3>1 DEF Prompt
  <2>3. CASE ~(v = TOO_EASY /\ prompts[p].easy)
    BY <1>7, <2>3 DEF Outcome
  <2>4. QED
    BY <2>2, <2>3
<1>10. /\ \A m \in Leases \ {n} : (Open(m)' <=> Open(m)) /\ (Graded(m)' <=> Graded(m))
       /\ ~Open(n)' /\ Graded(n)'
       /\ \A m \in Leases : leases'[m].prompt = leases[m].prompt /\ leases'[m].k = leases[m].k
  BY <1>1, <1>2, <1>5, <1>p, <1>k DEF Open, Graded
<1>11. \A m \in Leases : Open(m)' => leases[m].prompt # p /\ m # n
  BY <1>1, <1>10, <1>p DEF KeyInv, OneOpenPerPrompt
<1>12. OneOpenPerPrompt'
  BY <1>10 DEF KeyInv, OneOpenPerPrompt
<1>13. OneGroupPerKey'
  <2>1. \A m \in Leases \ {n} : Graded(m) /\ leases[m].prompt = p => leases[m].k # k
    BY <1>1, <1>p, <1>k DEF KeyInv, OpenKeyIsFresh
  <2>2. QED
    BY SMTT(60), <1>1, <1>10, <2>1, <1>p, <1>k DEF KeyInv, OneGroupPerKey
<1>14. OpenPromptIsLeasable'
  <2> SUFFICES ASSUME NEW l \in Leases, Open(l)'
               PROVE  /\ prompts'[leases'[l].prompt].state # "blacklisted"
                      /\ prompts'[leases'[l].prompt].until <= latest'
    BY DEF OpenPromptIsLeasable
  <2>1. l # n /\ leases[l].prompt # p /\ Open(l) /\ leases'[l].prompt = leases[l].prompt
    BY <1>10, <1>11
  <2>2. leases[l].prompt \in Prompts
    BY <2>1 DEF TypeInv, RowsNamed, Open
  <2>3. prompts'[leases[l].prompt] = prompts[leases[l].prompt]
    BY <1>3, <2>1, <2>2
  <2>4. QED
    BY <1>4, <2>1, <2>3 DEF KeyInv, OpenPromptIsLeasable
<1>15. \A q \in Prompts : prompts[q].state # "new" => prompts'[q].state # "new"
  BY <1>1, <1>3, <1>8
<1>16. FirstIsScanned'
  <2> SUFFICES ASSUME NEW l \in Leases, groups'[l].first
               PROVE  Graded(l)' /\ prompts'[leases[l].prompt].state # "new"
    BY <1>10 DEF FirstIsScanned
  <2>1. CASE l = n
    BY <1>1, <1>2, <1>3, <1>8, <1>10, <2>1, <1>p
  <2>2. CASE l # n
    <3>1. Graded(l) /\ prompts[leases[l].prompt].state # "new"
      BY <1>2, <2>2 DEF KeyInv, FirstIsScanned
    <3>2. leases[l].prompt \in Prompts
      BY <3>1 DEF KeyInv, GradedIsClosed, TypeInv, RowsNamed
    <3>3. QED
      BY <1>10, <1>15, <2>2, <3>1, <3>2
  <2>3. QED
    BY <2>1, <2>2
<1>17. OneFirstScan'
  <2>1. \A m \in Leases \ {n} : groups[m].first /\ leases[m].prompt = p => prompts[p].state # "new"
    BY DEF KeyInv, FirstIsScanned
  <2> SUFFICES ASSUME NEW l \in Leases, NEW m \in Leases, groups'[l].first, groups'[m].first,
                      leases[l].prompt = leases[m].prompt
               PROVE  l = m
    BY <1>10 DEF OneFirstScan
  <2>2. groups'[n].first => prompts[p].state = "new"
    BY <1>2
  <2>3. CASE l # n /\ m # n
    BY <1>2, <2>3 DEF KeyInv, OneFirstScan
  <2>4. CASE l = n /\ m # n
    BY <1>2, <1>p, <2>1, <2>2, <2>4
  <2>5. CASE l # n /\ m = n
    BY <1>2, <1>p, <2>1, <2>2, <2>5
  <2>6. QED
    BY <2>3, <2>4, <2>5
<1>18. GradedIsClosed'
  BY <1>1, <1>10 DEF KeyInv, GradedIsClosed
<1>19. OpenKeyIsFresh'
  BY SMTT(60), <1>1, <1>10, <1>11, <1>p DEF KeyInv, OpenKeyIsFresh
<1>20. PrunedIsRevealed' /\ RowsAreAdopted' /\ AdoptedIsPast'
  BY <1>1, <1>4, <1>10 DEF KeyInv, PrunedIsRevealed, RowsAreAdopted, AdoptedIsPast, Open
<1>21. NewIsNotCooling'
  BY <1>1, <1>3, <1>8 DEF KeyInv, NewIsNotCooling
<1>22. /\ groups[n].verdict # TOO_EASY
       /\ \A m \in Leases \ {n} : groups'[m].verdict = groups[m].verdict
  BY <1>2, <1>6 DEF Graded, TOO_EASY
<1>23. v = TOO_EASY => Scanned(v)
  BY DEF Scanned, TOO_EASY, REJECTED, GRADER_FAULT
<1>24. EasyIsGraded'
  <2> SUFFICES ASSUME NEW q \in Prompts
               PROVE  prompts'[q].easy <=> \E l \in Leases : leases[l].prompt = q
                                                            /\ groups'[l].verdict = TOO_EASY
    BY SMTT(60), <1>10 DEF EasyIsGraded
  <2>1. prompts[q].easy <=> \E l \in Leases : leases[l].prompt = q /\ groups[l].verdict = TOO_EASY
    BY DEF KeyInv, EasyIsGraded
  <2>2. CASE q # p
    BY <1>1, <1>3, <1>22, <2>1, <2>2, <1>p
  <2>3. CASE q = p
    <3>1. prompts'[p].easy <=> (prompts[p].easy \/ v = TOO_EASY)
      BY <1>3, <1>9, <1>23
    <3>2. QED
      BY <1>1, <1>2, <1>22, <2>1, <2>3, <3>1, <1>p
  <2>4. QED
    BY <2>2, <2>3
<1>25. BlacklistedIffTwiceEasy'
  <2> SUFFICES ASSUME NEW q \in Prompts
               PROVE  prompts'[q].state = "blacklisted"
                        <=> \E l, m \in Leases : /\ l # m
                                                 /\ leases[l].prompt = q /\ leases[m].prompt = q
                                                 /\ groups'[l].verdict = TOO_EASY
                                                 /\ groups'[m].verdict = TOO_EASY
    BY SMTT(60), <1>10 DEF BlacklistedIffTwiceEasy
  <2>1. /\ prompts[q].easy <=> \E l \in Leases : leases[l].prompt = q /\ groups[l].verdict = TOO_EASY
        /\ prompts[q].state = "blacklisted"
             <=> \E l, m \in Leases : /\ l # m
                                      /\ leases[l].prompt = q /\ leases[m].prompt = q
                                      /\ groups[l].verdict = TOO_EASY
                                      /\ groups[m].verdict = TOO_EASY
    BY DEF KeyInv, EasyIsGraded, BlacklistedIffTwiceEasy
  <2>2. CASE q # p
    BY SMTT(60), <1>1, <1>3, <1>22, <2>1, <2>2, <1>p
  <2>3. CASE q = p
    <3>1. prompts'[p].state = "blacklisted" <=> (v = TOO_EASY /\ prompts[p].easy)
      BY <1>3, <1>7, <1>9, <1>23
    <3>2. QED
      BY SMTT(60), <1>1, <1>2, <1>7, <1>22, <2>1, <2>3, <3>1, <1>p
  <2>4. QED
    BY <2>2, <2>3
<1>26. QED
  BY <1>12, <1>13, <1>14, <1>16, <1>17, <1>18, <1>19, <1>20, <1>21, <1>24, <1>25 DEF KeyInv

\* Every step keeps KeyInv.
LEMMA KeyStep == TypeInv /\ TypeInv' /\ KeyInv /\ [Next]_vars => KeyInv'
<1> SUFFICES ASSUME TypeInv, TypeInv', KeyInv, [Next]_vars PROVE KeyInv'
  OBVIOUS
<1>0. \A p \in Prompts : prompts[p].until \in Int /\ prompts[p].until <= prompts[p].until
  BY SMTT(60) DEF TypeInv, TypeOK, Prompt
<1> DEFINE Same == UNCHANGED <<latest, secrets, leases, groups, prompts>>
<1>1. Same => QuietForKeys
  BY <1>0 DEF QuietForKeys
<1>2. CASE UNCHANGED vars
  BY <1>1, <1>2, KeyQuiet DEF vars
<1>3. CASE Tick \/ Crash \/ ExpireDue \/ OperatorStep \/ GrantSweep \/ GrantEnd
             \/ GrantBegin \/ GrantSwept
  <2>1. Same
    BY <1>3 DEF Tick, Crash, ExpireDue, OperatorStep, SetCooldown, Ban, Measure, GrantSweep,
       GrantEnd, GrantBegin, GrantSwept, OpenBatch
  <2>2. QED
    BY <1>1, <2>1, KeyQuiet
<1>4. CASE MarkAlive
  <2>1. leases' = leases \/ leases' = GivenBack
    BY <1>4 DEF MarkAlive
  <2>2. UNCHANGED <<latest, secrets, groups, prompts>>
    BY <1>4 DEF MarkAlive
  <2>3. QuietForKeys
    BY <1>0, <2>1, <2>2, GivenBackType DEF QuietForKeys
  <2>4. QED
    BY <2>3, KeyQuiet
<1>5. CASE Boot
  <2>1. UNCHANGED <<latest, secrets, groups>> /\ prompts' = Revised
    BY <1>5 DEF Boot
  <2>2. ASSUME NEW l \in Leases
        PROVE  /\ leases'[l].state = leases[l].state /\ leases'[l].prompt = leases[l].prompt
               /\ leases'[l].k = leases[l].k
    <3> DEFINE r == GivenBack[l]
               e == GreaterOf(r.expires, now + RestartGrace)
    <3>1. r \in Row /\ r.state = leases[l].state /\ r.prompt = leases[l].prompt
            /\ r.k = leases[l].k
      BY GivenBackType
    <3>2. leases'[l] = IF Open(l) THEN [r EXCEPT !.expires = e] ELSE leases[l]
      BY <1>5 DEF Boot
    <3> HIDE DEF r, e
    <3>3. QED
      BY <3>1, <3>2 DEF Row
  <2>3. QuietForKeys
    BY <2>1, <2>2, RevisedType DEF QuietForKeys
  <2>4. QED
    BY <2>3, KeyQuiet
<1>6. CASE Revise
  <2>1. UNCHANGED <<latest, secrets, leases, groups>> /\ prompts' = Revised
    BY <1>6 DEF Revise
  <2>2. QuietForKeys
    BY <2>1, RevisedType DEF QuietForKeys
  <2>3. QED
    BY <2>2, KeyQuiet
<1>7. ASSUME NEW l \in Leases, NEW f \in Failures, CloseDue(l, f) \/ Forfeit(l, f)
      PROVE  KeyInv'
  <2>1. /\ Open(l) /\ UNCHANGED <<latest, secrets, groups, prompts>>
        /\ \E time \in Nat, charged \in {"expired", "forfeited"} :
              CloseUnsubmitted(l, time, charged, f)
    BY <1>7 DEF CloseDue, Forfeit, TypeInv, TypeOK, DueIsOpen
  <2>2. /\ leases'[l].state \in {"expired", "released"}
        /\ leases'[l].prompt = leases[l].prompt /\ leases'[l].k = leases[l].k
        /\ \A m \in Leases \ {l} : leases'[m] = leases[m]
    BY <2>1, CloseUnsubmittedType
  <2>3. QuietForKeys
    BY <1>0, <2>1, <2>2 DEF QuietForKeys
  <2>4. QED
    BY <2>3, KeyQuiet
<1>8. ASSUME NEW t \in Threads, SubmissionStep(t) \/ \E l \in Leases : Arrive(t, l)
      PROVE  KeyInv'
  <2>1. CASE \/ Hold(t) \/ Refuse(t) \/ Check(t) \/ GradeFails(t) \/ Release(t)
             \/ \E l \in Leases : Arrive(t, l)
    <3>1. Same
      BY <2>1 DEF Hold, Refuse, Check, GradeFails, Release, Arrive
    <3>2. QED
      BY <1>1, <3>1, KeyQuiet
  <2>2. ASSUME NEW v \in Verdicts, NEW drawn \in Draws, NEW enough \in Lengths,
               Commit(t, v, drawn, enough)
        PROVE  KeyInv'
    <3>1. CASE Submittable(subs[t].lease, subs[t].arrived)
      BY <2>2, <3>1, KeyCommit
    <3>2. CASE ~Submittable(subs[t].lease, subs[t].arrived)
      <4>1. Same
        BY <2>2, <3>2 DEF Commit
      <4>2. QED
        BY <1>1, <4>1, KeyQuiet
    <3>3. QED
      BY <3>1, <3>2
  <2>3. QED
    BY <1>8, <2>1, <2>2 DEF SubmissionStep
<1>9. CASE \/ \E l \in Leases, accepted \in TrainingResults : ReportTraining(l, accepted)
           \/ \E l \in Leases, r \in AuditResults : ReportAudit(l, r)
  <2>1. UNCHANGED <<latest, secrets, leases, prompts>>
    BY <1>9 DEF ReportTraining, ReportAudit
  <2>2. groups \in [Leases -> Group]
    BY DEF TypeInv, TypeOK
  <2>3. \E l \in Leases : \E x :
          groups' = [groups EXCEPT ![l].training = x] \/ groups' = [groups EXCEPT ![l].audit = x]
    BY <1>9 DEF ReportTraining, ReportAudit
  <2>4. \A m \in Leases : groups'[m].verdict = groups[m].verdict /\ groups'[m].first = groups[m].first
    BY SMTT(60), <2>2, <2>3 DEF Group
  <2>5. QuietForKeys
    BY <1>0, <2>1, <2>4 DEF QuietForKeys
  <2>6. QED
    BY <2>5, KeyQuiet
<1>10. CASE \E k \in Checkpoints : Adopt(k)
  BY <1>10, KeyAdopt
<1>11. CASE \E h \in Hotkeys, p \in Prompts, k \in Checkpoints, l \in Leases :
               GrantClaim(h, p, k, l)
  BY <1>11, KeyGrant
<1>12. QED
  BY <1>2, <1>3, <1>4, <1>5, <1>6, <1>7, <1>8, <1>9, <1>10, <1>11
  DEF Next, LockStep, MinerStep, TrainerStep, OperatorStep

\* KeyInv holds of every reachable state.
LEMMA KeyCorrect == Spec => [](TypeInv /\ KeyInv)
BY TypeInit, TypeStep, KeyInit, KeyStep, PTL DEF Spec

\* No two groups are ever recorded for one draw, whatever expires, is forfeited,
\* released, pruned or granted again in between.
THEOREM DrawGradedOnce == Spec => []OneGroupPerKey
BY KeyCorrect, PTL DEF KeyInv

\* A prompt has one open lease at most, over all checkpoints and within a batch.
THEOREM OneLeasePerPrompt == Spec => []OneOpenPerPrompt
BY KeyCorrect, PTL DEF KeyInv

\* A leased prompt is neither cooling nor blacklisted: revise_cooldowns and
\* record_outcome never take a prompt away from the holder of its lease.
THEOREM LeasedPromptLeasable == Spec => []OpenPromptIsLeasable
BY KeyCorrect, PTL DEF KeyInv

\* One group at most is a prompt's first scan, which pays.
THEOREM FirstScanOnce == Spec => []OneFirstScan
BY KeyCorrect, PTL DEF KeyInv

\* record_outcome blacklists a prompt exactly when two of its groups were too
\* easy.
THEOREM BlacklistExact == Spec => []BlacklistedIffTwiceEasy
BY KeyCorrect, PTL DEF KeyInv

-----------------------------------------------------------------------------
(* Pay events: one when a group is concluded.                              *)

\* A lease without a group has nothing to train, audit or pay.
UngradedIsBlank == \A l \in Leases : ~Graded(l) => groups[l] = NoGroup

\* Only an in-zone group is trained, only an out-of-zone one is audited.
TrainedIsInZone == \A l \in Leases : groups[l].training # "none" => groups[l].verdict = IN_ZONE
AuditedIsOutside ==
    \A l \in Leases : groups[l].audit # "none" => groups[l].verdict \in {TOO_EASY, TOO_HARD}

PayInv == OnePayEvent /\ UngradedIsBlank /\ TrainedIsInZone /\ AuditedIsOutside

\* Whether a group is concluded: OnePayEvent counts one event then, and none before.
Concluded(g) ==
    \/ g.verdict = IN_ZONE /\ g.training # "queued"
    \/ g.first /\ g.verdict # IN_ZONE /\ g.audit # "pending"

\* The pay events of one lease's group.
PaidRight(l) ==
    /\ Len(events[l]) = IF Concluded(groups[l]) THEN 1 ELSE 0
    /\ ~Graded(l) => groups[l] = NoGroup
    /\ groups[l].training # "none" => groups[l].verdict = IN_ZONE
    /\ groups[l].audit # "none" => groups[l].verdict \in {TOO_EASY, TOO_HARD}

\* PayInv, lease by lease.
LEMMA PayPointwise == PayInv <=> \A l \in Leases : PaidRight(l)
BY DEF PayInv, OnePayEvent, UngradedIsBlank, TrainedIsInZone, AuditedIsOutside, PaidRight, Concluded

\* One more event of a lease.
LEMMA EventCounted ==
    ASSUME TypeInv, NEW l \in Leases, NEW e \in PayEvents,
           events' = [events EXCEPT ![l] = Append(@, e)]
    PROVE  Len(events'[l]) = Len(events[l]) + 1 /\ \A m \in Leases \ {l} : events'[m] = events[m]
<1>1. events \in [Leases -> Seq(PayEvents)] /\ events[l] \in Seq(PayEvents)
  BY DEF TypeInv, TypeOK
<1>2. events'[l] = Append(events[l], e) /\ \A m \in Leases \ {l} : events'[m] = events[m]
  BY <1>1
<1>3. Len(Append(events[l], e)) = Len(events[l]) + 1
  BY SMTT(60), <1>1
<1>4. QED
  BY <1>2, <1>3

\* Init establishes PayInv.
LEMMA PayInit == Init => PayInv
<1> SUFFICES ASSUME Init, NEW l \in Leases PROVE PaidRight(l)
  BY PayPointwise
<1>1. groups[l] = NoGroup /\ events[l] = <<>>
  BY DEF Init
<1>2. ~Concluded(groups[l]) /\ groups[l].training = "none" /\ groups[l].audit = "none"
  <2>1. ~Concluded(NoGroup) /\ NoGroup.training = "none" /\ NoGroup.audit = "none"
    BY DEF Concluded, NoGroup, IN_ZONE
  <2>2. QED
    BY <1>1, <2>1
<1>3. Len(<<>>) = 0
  BY SMTT(60)
<1>4. Len(events[l]) = IF Concluded(groups[l]) THEN 1 ELSE 0
  BY <1>1, <1>2, <1>3
<1>5. QED
  BY <1>1, <1>2, <1>4 DEF PaidRight

\* A submission that is recorded: the event of an undrawn first scan, if it is one.
LEMMA PayCommit ==
    ASSUME TypeInv, KeyInv, PayInv, NEW t \in Threads, NEW v \in Verdicts,
           NEW drawn \in Draws, NEW enough \in Lengths, Commit(t, v, drawn, enough),
           Submittable(subs[t].lease, subs[t].arrived)
    PROVE  PayInv'
<1>n. PICK n \in Leases : n = subs[t].lease
  BY CommitEffect
<1> DEFINE outside == v \in {TOO_EASY, TOO_HARD}
           first == Scanned(v) /\ prompts[leases[n].prompt].state = "new"
           group == [verdict |-> v, first |-> first, enough |-> outside /\ enough,
                     training |-> IF v = IN_ZONE THEN "queued" ELSE "none",
                     audit |-> IF ~outside THEN "none"
                               ELSE IF drawn THEN "pending" ELSE "not_drawn"]
<1>1. groups' = [groups EXCEPT ![n] = group]
  BY <1>n DEF Commit
<1>2. events' = IF outside /\ first /\ ~drawn
                THEN [events EXCEPT ![n] = Append(@, FirstScanEvent("not_drawn", enough))]
                ELSE events
  BY <1>n DEF Commit
<1>3. groups \in [Leases -> Group] /\ drawn \in BOOLEAN
  BY LeaseBookAssumption DEF TypeInv, TypeOK
<1>4. groups[n] = NoGroup /\ Len(events[n]) = 0
  <2>1. ~Graded(n)
    BY <1>n, CommitEffect DEF KeyInv, GradedIsClosed, Open
  <2>2. groups[n] = NoGroup /\ PaidRight(n)
    BY <2>1, PayPointwise DEF PaidRight
  <2>3. ~Concluded(NoGroup)
    BY DEF Concluded, NoGroup, IN_ZONE
  <2>4. QED
    BY <2>2, <2>3 DEF PaidRight
<1>5. v \in {IN_ZONE, TOO_EASY, TOO_HARD, REJECTED, GRADER_FAULT}
  BY LeaseBookAssumption DEF AllVerdicts
<1>6. FirstScanEvent("not_drawn", enough) \in PayEvents
  BY DEF FirstScanEvent, PayEvents
<1>7. groups'[n] = group /\ \A m \in Leases \ {n} : groups'[m] = groups[m]
  BY <1>1, <1>3
<1>8. first \in BOOLEAN /\ (v \in {REJECTED, GRADER_FAULT} => ~first)
  BY DEF Scanned
<1>9. Concluded(group) <=> outside /\ first /\ ~drawn
  <2> HIDE DEF first
  <2>1. group.verdict = v /\ group.first = first
    OBVIOUS
  <2>2. group.training = IF v = IN_ZONE THEN "queued" ELSE "none"
    OBVIOUS
  <2>3. group.audit = IF ~outside THEN "none" ELSE IF drawn THEN "pending" ELSE "not_drawn"
    OBVIOUS
  <2> HIDE DEF group
  <2>4. QED
    BY <1>3, <1>5, <1>8, <2>1, <2>2, <2>3 DEF Concluded, IN_ZONE, TOO_EASY, TOO_HARD, REJECTED, GRADER_FAULT
<1>10. Len(events'[n]) = IF Concluded(group) THEN 1 ELSE 0
  <2> HIDE DEF outside, first, group
  <2>1. CASE outside /\ first /\ ~drawn
    <3>1. Len(events'[n]) = Len(events[n]) + 1
      BY <1>2, <1>6, <2>1, EventCounted
    <3>2. Len(events'[n]) = 1
      BY SMTT(60), <1>4, <3>1
    <3>3. QED
      BY <1>9, <2>1, <3>2
  <2>2. CASE ~(outside /\ first /\ ~drawn)
    BY <1>2, <1>4, <1>9, <2>2
  <2>3. QED
    BY <2>1, <2>2
<1>11. \A m \in Leases \ {n} : events'[m] = events[m]
  <2> HIDE DEF outside, first
  <2>1. QED
    BY <1>2, <1>6, EventCounted
<1>12. PaidRight(n)'
  <2>1. group.verdict = v /\ v # "none"
    BY <1>5 DEF IN_ZONE, TOO_EASY, TOO_HARD, REJECTED, GRADER_FAULT
  <2>2. group.training # "none" => v = IN_ZONE
    OBVIOUS
  <2>3. group.audit # "none" => outside
    OBVIOUS
  <2> HIDE DEF group, first
  <2>4. QED
    BY <1>7, <1>10, <2>1, <2>2, <2>3 DEF PaidRight, Graded
<1>13. \A m \in Leases \ {n} : PaidRight(m)'
  <2> HIDE DEF group
  <2>1. \A m \in Leases \ {n} : PaidRight(m)
    BY PayPointwise
  <2>2. QED
    BY <1>7, <1>11, <2>1 DEF PaidRight, Graded
<1>14. \A l \in Leases : PaidRight(l)'
  BY <1>12, <1>13
<1>15. QED
  BY <1>14 DEF PayInv, OnePayEvent, UngradedIsBlank, TrainedIsInZone, AuditedIsOutside, PaidRight,
     Concluded

\* The reports of the trainer and of the audits: one event when a group is concluded.
LEMMA PayReport ==
    ASSUME TypeInv, PayInv, NEW l \in Leases,
           \/ \E accepted \in TrainingResults : ReportTraining(l, accepted)
           \/ \E r \in AuditResults : ReportAudit(l, r)
    PROVE  PayInv'
<1>1. groups \in [Leases -> Group] /\ groups[l] \in Group /\ PaidRight(l)
  BY PayPointwise DEF TypeInv, TypeOK
<1> DEFINE g == groups'[l]
           Effect == /\ \A m \in Leases \ {l} : groups'[m] = groups[m] /\ events'[m] = events[m]
                     /\ g.verdict = groups[l].verdict /\ g.first = groups[l].first
                     /\ g.training # "none" => groups[l].training # "none"
                     /\ g.audit # "none" => groups[l].audit # "none"
                     /\ Len(events'[l]) = IF Concluded(g) THEN 1 ELSE 0
                     /\ groups[l].verdict # "none"
<1>2. Effect
  <2>1. ASSUME NEW accepted \in TrainingResults, ReportTraining(l, accepted) PROVE Effect
    <3> DEFINE x == IF accepted THEN "accepted" ELSE REJECTED
               e == IF accepted THEN "trained" ELSE "untrained"
    <3>1. /\ groups[l].training = "queued" /\ groups' = [groups EXCEPT ![l].training = x]
          /\ events' = [events EXCEPT ![l] = Append(@, e)]
      BY <2>1 DEF ReportTraining
    <3>2. x \notin {"none", "queued"} /\ e \in PayEvents
      BY DEF REJECTED, PayEvents
    <3> HIDE DEF x, e
    <3>3. /\ \A m \in Leases \ {l} : groups'[m] = groups[m]
          /\ g.verdict = groups[l].verdict /\ g.first = groups[l].first
          /\ g.training = x /\ g.audit = groups[l].audit
      BY SMTT(60), <1>1, <3>1 DEF Group
    <3>4. Len(events'[l]) = Len(events[l]) + 1 /\ \A m \in Leases \ {l} : events'[m] = events[m]
      BY <3>1, <3>2, EventCounted
    <3>5. groups[l].verdict = IN_ZONE /\ groups[l].audit = "none"
      BY <1>1, <3>1 DEF PaidRight, IN_ZONE, TOO_EASY, TOO_HARD
    <3>6. ~Concluded(groups[l]) /\ Concluded(g)
      BY <3>1, <3>2, <3>3, <3>5 DEF Concluded
    <3>7. Len(events[l]) = 0
      BY <1>1, <3>6 DEF PaidRight
    <3>8. Len(events'[l]) = 1
      BY SMTT(60), <3>4, <3>7
    <3>9. QED
      BY <3>1, <3>2, <3>3, <3>4, <3>5, <3>6, <3>8 DEF IN_ZONE
  <2>2. ASSUME NEW r \in AuditResults, ReportAudit(l, r) PROVE Effect
    <3> DEFINE e == FirstScanEvent(r, groups[l].enough)
    <3>1. /\ groups[l].audit = "pending" /\ groups' = [groups EXCEPT ![l].audit = r]
          /\ events' = IF groups[l].first THEN [events EXCEPT ![l] = Append(@, e)] ELSE events
      BY <2>2 DEF ReportAudit
    <3>2. r # "pending" /\ e \in PayEvents
      BY LeaseBookAssumption DEF FirstScanEvent, PayEvents
    <3> HIDE DEF e
    <3>3. /\ \A m \in Leases \ {l} : groups'[m] = groups[m]
          /\ g.verdict = groups[l].verdict /\ g.first = groups[l].first
          /\ g.training = groups[l].training /\ g.audit = r
      BY SMTT(60), <1>1, <3>1 DEF Group
    <3>4. groups[l].verdict \in {TOO_EASY, TOO_HARD} /\ groups[l].verdict # IN_ZONE
      BY <1>1, <3>1 DEF PaidRight, IN_ZONE, TOO_EASY, TOO_HARD
    <3>5. ~Concluded(groups[l]) /\ (Concluded(g) <=> groups[l].first)
      BY <3>1, <3>2, <3>3, <3>4 DEF Concluded
    <3>6. Len(events[l]) = 0
      BY <1>1, <3>5 DEF PaidRight
    <3>7. CASE groups[l].first
      <4>1. Len(events'[l]) = Len(events[l]) + 1 /\ \A m \in Leases \ {l} : events'[m] = events[m]
        BY <3>1, <3>2, <3>7, EventCounted
      <4>2. Len(events'[l]) = 1
        BY SMTT(60), <3>6, <4>1
      <4>3. QED
        BY <3>1, <3>3, <3>4, <3>5, <3>7, <4>1, <4>2 DEF TOO_EASY, TOO_HARD
    <3>8. CASE ~groups[l].first
      BY <3>1, <3>3, <3>4, <3>5, <3>6, <3>8 DEF TOO_EASY, TOO_HARD
    <3>9. QED
      BY <3>7, <3>8
  <2>3. QED
    BY <2>1, <2>2
<1>3. PaidRight(l)'
  BY <1>1, <1>2 DEF PaidRight, Graded
<1>4. \A m \in Leases \ {l} : PaidRight(m)'
  BY <1>2, PayPointwise DEF PaidRight, Graded
<1>5. QED
  BY <1>3, <1>4 DEF PayInv, OnePayEvent, UngradedIsBlank, TrainedIsInZone, AuditedIsOutside, PaidRight,
     Concluded

\* Every step keeps PayInv.
LEMMA PayStep == TypeInv /\ KeyInv /\ PayInv /\ [Next]_vars => PayInv'
<1> SUFFICES ASSUME TypeInv, KeyInv, PayInv, [Next]_vars PROVE PayInv'
  OBVIOUS
<1> DEFINE Same == UNCHANGED <<groups, events>>
<1>1. Same => PayInv'
  BY DEF PayInv, OnePayEvent, UngradedIsBlank, TrainedIsInZone, AuditedIsOutside, Graded
<1>2. CASE \/ UNCHANGED vars \/ Tick \/ MarkAlive \/ ExpireDue \/ Revise \/ Crash \/ Boot
           \/ OperatorStep \/ LockStep
  BY <1>1, <1>2 DEF vars, Tick, MarkAlive, ExpireDue, Revise, Crash, Boot, OperatorStep, SetCooldown, Ban,
     Measure, LockStep, CloseDue, GrantSwept, GrantEnd, OpenBatch
<1>3. CASE MinerStep \/ \E k \in Checkpoints : Adopt(k)
  BY <1>1, <1>3 DEF MinerStep, GrantSweep, GrantBegin, OpenBatch, GrantClaim, Forfeit, Arrive, Adopt
<1>4. CASE \/ \E l \in Leases, accepted \in TrainingResults : ReportTraining(l, accepted)
           \/ \E l \in Leases, r \in AuditResults : ReportAudit(l, r)
  BY <1>4, PayReport
<1>5. ASSUME NEW t \in Threads, SubmissionStep(t) PROVE PayInv'
  <2>1. CASE Hold(t) \/ Refuse(t) \/ Check(t) \/ GradeFails(t) \/ Release(t)
    BY <1>1, <2>1 DEF Hold, Refuse, Check, GradeFails, Release
  <2>2. ASSUME NEW v \in Verdicts, NEW drawn \in Draws, NEW enough \in Lengths,
               Commit(t, v, drawn, enough)
        PROVE  PayInv'
    <3>1. CASE Submittable(subs[t].lease, subs[t].arrived)
      BY <2>2, <3>1, PayCommit
    <3>2. CASE ~Submittable(subs[t].lease, subs[t].arrived)
      BY <1>1, <2>2, <3>2 DEF Commit
    <3>3. QED
      BY <3>1, <3>2
  <2>3. QED
    BY <1>5, <2>1, <2>2 DEF SubmissionStep
<1>6. QED
  BY <1>2, <1>3, <1>4, <1>5 DEF Next, TrainerStep

\* Each group gets exactly one pay event, when the trainer, the audit or the
\* submission itself concludes it: no report is paid twice and none is lost.
THEOREM PaidWhenConcluded == Spec => []OnePayEvent
<1>1. PayInv => OnePayEvent
  BY DEF PayInv
<1>2. QED
  BY <1>1, KeyCorrect, PayInit, PayStep, PTL DEF Spec

-----------------------------------------------------------------------------
(* Holds.  The book's count of holds is the number of requests in progress *)
(* that hold the lease, so a sweep or a forfeit that reads 0 takes the lease *)
(* from nobody.                                                            *)

HoldingPcs == {"held", "grading", "release"}
Holding(l) == {t \in Threads : subs[t].pc \in HoldingPcs /\ subs[t].lease = l}

\* _submitting counts the requests that hold a lease.
HoldsCounted == \A l \in Leases : submitting[l] = Cardinality(Holding(l))

HoldInv == HoldsCounted /\ HeldIsJudged

\* The requests are finitely many.
LEMMA HoldingFinite == ASSUME NEW l PROVE IsFiniteSet(Holding(l))
<1>1. Holding(l) \in SUBSET Threads
  BY DEF Holding
<1>2. QED
  BY <1>1, LeaseBookAssumption, FS_Subset

\* A lease that the count says is held by nobody is held by nobody.
LEMMA NotHeld ==
    ASSUME HoldsCounted, NEW l \in Leases, submitting[l] = 0, NEW t \in Threads,
           subs[t].lease = l
    PROVE  subs[t].pc \notin HoldingPcs
<1>1. Cardinality(Holding(l)) = 0 /\ IsFiniteSet(Holding(l))
  BY HoldingFinite DEF HoldsCounted
<1>2. Holding(l) = {}
  BY <1>1, FS_EmptySet
<1>3. QED
  BY <1>2 DEF Holding

\* Init establishes HoldInv.
LEMMA HoldInit == Init => HoldInv
<1> SUFFICES ASSUME Init PROVE HoldInv
  OBVIOUS
<1>1. \A t \in Threads : subs[t].pc = "idle"
  BY DEF Init
<1>2. \A l \in Leases : Holding(l) = {} /\ submitting[l] = 0
  BY <1>1 DEF Holding, HoldingPcs, Init
<1>3. HoldsCounted
  BY <1>2, FS_EmptySet DEF HoldsCounted
<1>4. HeldIsJudged
  BY <1>1 DEF HeldIsJudged
<1>5. QED
  BY <1>3, <1>4 DEF HoldInv

\* A step of request t that changes neither its lease nor whether it holds it.
LEMMA HoldsUnmoved ==
    ASSUME HoldsCounted, TypeInv, NEW t \in Threads, submitting' = submitting,
           NEW s \in Sub, subs' = [subs EXCEPT ![t] = s],
           \/ s.lease = subs[t].lease /\ (s.pc \in HoldingPcs <=> subs[t].pc \in HoldingPcs)
           \/ s.pc \notin HoldingPcs /\ subs[t].pc \notin HoldingPcs
    PROVE  HoldsCounted'
<1>1. subs'[t] = s /\ \A u \in Threads \ {t} : subs'[u] = subs[u]
  BY DEF TypeInv, TypeOK
<1>2. \A l \in Leases : Holding(l)' = Holding(l)
  BY <1>1 DEF Holding
<1>3. QED
  BY <1>2 DEF HoldsCounted

\* A lease is held: one more request holds it.
LEMMA HoldHold ==
    ASSUME TypeInv, HoldInv, NEW t \in Threads, Hold(t)
    PROVE  HoldInv'
<1>n. PICK n \in Leases : n = subs[t].lease
  BY SubUpdates
<1>1. /\ subs[t] \in Sub /\ subs \in [Threads -> Sub] /\ submitting \in [Leases -> Nat]
      /\ subs[t].pc = "arrived" /\ Open(n)
  BY <1>n, SubUpdates DEF Hold, Submittable, TypeInv, TypeOK
<1>2. /\ subs' = [subs EXCEPT ![t].pc = "held"]
      /\ submitting' = [submitting EXCEPT ![n] = @ + 1]
      /\ UNCHANGED <<leases, groups>>
  BY <1>n DEF Hold
<1>3. /\ subs'[t].pc = "held" /\ subs'[t].lease = n
      /\ \A u \in Threads \ {t} : subs'[u] = subs[u]
  BY <1>n, <1>1, <1>2 DEF Sub
<1>4. HoldsCounted'
  <2>1. Holding(n)' = Holding(n) \cup {t} /\ t \notin Holding(n)
    BY <1>1, <1>3 DEF Holding, HoldingPcs
  <2>2. \A l \in Leases \ {n} : Holding(l)' = Holding(l)
    BY <1>n, <1>3 DEF Holding
  <2>3. Cardinality(Holding(n)') = Cardinality(Holding(n)) + 1
    <3>1. IsFiniteSet(Holding(n))
      BY HoldingFinite
    <3>2. QED
      BY <2>1, <3>1, FS_AddElement
  <2>4. submitting'[n] = submitting[n] + 1 /\ \A l \in Leases \ {n} : submitting'[l] = submitting[l]
    BY <1>1, <1>2
  <2>5. QED
    BY <2>2, <2>3, <2>4 DEF HoldInv, HoldsCounted
<1>5. HeldIsJudged'
  BY <1>1, <1>2, <1>3 DEF HoldInv, HeldIsJudged, Open, Graded
<1>6. QED
  BY <1>4, <1>5 DEF HoldInv

\* A hold is released: one request fewer holds the lease.
LEMMA HoldRelease ==
    ASSUME TypeInv, HoldInv, NEW t \in Threads, Release(t)
    PROVE  HoldInv'
<1>n. PICK n \in Leases : n = subs[t].lease
  BY SubUpdates
<1>1. /\ subs[t] \in Sub /\ subs \in [Threads -> Sub] /\ submitting \in [Leases -> Nat]
      /\ subs[t].pc = "release"
  BY SubUpdates DEF Release, TypeInv, TypeOK
<1>2. /\ subs' = [subs EXCEPT ![t] = IdleSub]
      /\ submitting' = [submitting EXCEPT ![n] = GreaterOf(0, @ - 1)]
      /\ UNCHANGED <<leases, groups>>
  BY <1>n DEF Release
<1>3. subs'[t].pc = "idle" /\ \A u \in Threads \ {t} : subs'[u] = subs[u]
  BY <1>1, <1>2 DEF IdleSub
<1>4. HoldsCounted'
  <2>1. Holding(n)' = Holding(n) \ {t} /\ t \in Holding(n)
    BY <1>n, <1>1, <1>3 DEF Holding, HoldingPcs
  <2>2. \A l \in Leases \ {n} : Holding(l)' = Holding(l)
    BY <1>n, <1>3 DEF Holding, HoldingPcs
  <2>3. IsFiniteSet(Holding(n)) /\ Cardinality(Holding(n)) = submitting[n]
    BY HoldingFinite DEF HoldInv, HoldsCounted
  <2>4. Cardinality(Holding(n)') = submitting[n] - 1
    BY <2>1, <2>3, FS_RemoveElement
  <2>5. IsFiniteSet(Holding(n)') /\ Cardinality(Holding(n)') \in Nat
    <3>1. IsFiniteSet(Holding(n) \ {t})
      BY <2>3, FS_RemoveElement
    <3>2. QED
      BY <2>1, <3>1, FS_CardinalityType
  <2>6. submitting[n] - 1 >= 0 /\ submitting[n] \in Nat
    BY SMTT(60), <1>1, <2>4, <2>5
  <2>7. submitting'[n] = submitting[n] - 1
    BY SMTT(60), <1>1, <1>2, <2>6 DEF GreaterOf
  <2>8. \A l \in Leases \ {n} : submitting'[l] = submitting[l]
    BY <1>1, <1>2
  <2>9. QED
    BY <2>2, <2>4, <2>7, <2>8 DEF HoldInv, HoldsCounted
<1>5. HeldIsJudged'
  BY <1>2, <1>3 DEF HoldInv, HeldIsJudged, Open, Graded
<1>6. QED
  BY <1>4, <1>5 DEF HoldInv

\* The other steps of a request.
LEMMA HoldRequest ==
    ASSUME TypeInv, HoldInv, NEW t \in Threads,
           \/ Refuse(t) \/ Check(t) \/ GradeFails(t)
           \/ \E l \in Leases : Arrive(t, l)
    PROVE  HoldInv'
<1>1. subs[t] \in Sub /\ subs \in [Threads -> Sub]
  BY SubUpdates DEF TypeInv, TypeOK
<1>2. PICK s \in Sub :
        /\ subs' = [subs EXCEPT ![t] = s]
        /\ s.pc \in {"held", "grading"} => s.lease = subs[t].lease /\ subs[t].pc \in {"held", "grading"}
        /\ \/ s.lease = subs[t].lease /\ (s.pc \in HoldingPcs <=> subs[t].pc \in HoldingPcs)
           \/ s.pc \notin HoldingPcs /\ subs[t].pc \notin HoldingPcs
  <2>1. CASE Refuse(t)
    <3>1. subs' = [subs EXCEPT ![t] = IdleSub] /\ subs[t].pc = "arrived"
      BY <2>1 DEF Refuse
    <3>2. IdleSub \in Sub /\ IdleSub.pc = "idle"
      BY SubUpdates DEF IdleSub
    <3>3. QED
      BY <3>1, <3>2 DEF HoldingPcs
  <2>2. CASE Check(t) \/ GradeFails(t)
    <3>1. PICK c \in {"grading", "release"} : subs' = [subs EXCEPT ![t].pc = c]
      BY <2>2 DEF Check, GradeFails
    <3>2. subs' = [subs EXCEPT ![t] = [subs[t] EXCEPT !.pc = c]] /\ [subs[t] EXCEPT !.pc = c] \in Sub
      BY <1>1, <3>1, SubUpdates
    <3>3. subs[t].pc \in {"held", "grading"}
      BY <2>2 DEF Check, GradeFails
    <3>4. [subs[t] EXCEPT !.pc = c].pc = c /\ [subs[t] EXCEPT !.pc = c].lease = subs[t].lease
      BY <1>1 DEF Sub
    <3>5. QED
      BY <3>2, <3>3, <3>4 DEF HoldingPcs
  <2>3. ASSUME NEW l \in Leases, Arrive(t, l)
        PROVE  \E s \in Sub :
                 /\ subs' = [subs EXCEPT ![t] = s]
                 /\ s.pc \in {"held", "grading"} => s.lease = subs[t].lease
                                                     /\ subs[t].pc \in {"held", "grading"}
                 /\ s.pc \notin HoldingPcs /\ subs[t].pc \notin HoldingPcs
    <3> DEFINE s == [pc |-> "arrived", lease |-> l, arrived |-> now]
    <3>1. subs' = [subs EXCEPT ![t] = s] /\ subs[t].pc = "idle" /\ s \in Sub
      BY <2>3, SubUpdates DEF Arrive
    <3>2. QED
      BY <3>1 DEF HoldingPcs
  <2>4. QED
    BY <2>1, <2>2, <2>3
<1>3. UNCHANGED <<submitting, leases, groups>>
  BY DEF Refuse, Check, GradeFails, Arrive
<1>4. HoldsCounted'
  BY <1>2, <1>3, HoldsUnmoved DEF HoldInv
<1>5. subs'[t] = s /\ \A u \in Threads \ {t} : subs'[u] = subs[u]
  BY <1>1, <1>2
<1>6. HeldIsJudged'
  BY SMTT(60), <1>2, <1>3, <1>5 DEF HoldInv, HeldIsJudged, Open, Graded
<1>7. QED
  BY <1>4, <1>6 DEF HoldInv

\* A recorded submission: its own lease now has a group.
LEMMA HoldCommit ==
    ASSUME TypeInv, HoldInv, NEW t \in Threads, NEW v \in Verdicts, NEW drawn \in Draws,
           NEW enough \in Lengths, Commit(t, v, drawn, enough)
    PROVE  HoldInv'
<1>n. PICK n \in Leases : n = subs[t].lease
  BY SubUpdates
<1>1. subs[t] \in Sub /\ subs \in [Threads -> Sub]
  BY SubUpdates DEF TypeInv, TypeOK
<1>2. subs[t].pc = "grading" /\ submitting' = submitting
        /\ subs' = [subs EXCEPT ![t] = [subs[t] EXCEPT !.pc = "release"]]
  BY <1>1 DEF Commit
<1>3. PICK s \in Sub : s.pc = "release" /\ s.lease = n /\ subs' = [subs EXCEPT ![t] = s]
  <2>1. [subs[t] EXCEPT !.pc = "release"] \in Sub
    BY SubUpdates
  <2>2. QED
    BY <1>n, <1>1, <1>2, <2>1 DEF Sub
<1>4. HoldsCounted'
  BY <1>n, <1>2, <1>3, HoldsUnmoved DEF HoldInv, HoldingPcs
<1>5. subs'[t] = s /\ \A u \in Threads \ {t} : subs'[u] = subs[u]
  BY <1>1, <1>3
<1>6. \A l \in Leases : Open(l) \/ Graded(l) => Open(l)' \/ Graded(l)'
  <2>1. CASE ~Submittable(n, subs[t].arrived)
    BY <1>n, <2>1 DEF Commit, Open, Graded
  <2>2. CASE Submittable(n, subs[t].arrived)
    <3>1. /\ groups'[n].verdict = v
          /\ \A m \in Leases \ {n} : leases'[m] = leases[m] /\ groups'[m] = groups[m]
      BY <1>n, <2>2, CommitEffect
    <3>2. v # "none"
      BY LeaseBookAssumption DEF AllVerdicts, IN_ZONE, TOO_EASY, TOO_HARD, REJECTED, GRADER_FAULT
    <3>3. QED
      BY <3>1, <3>2 DEF Open, Graded
  <2>3. QED
    BY <2>1, <2>2
<1>7. HeldIsJudged'
  <2> SUFFICES ASSUME NEW u \in Threads, subs'[u].pc \in {"held", "grading"}
               PROVE  (Open(subs[u].lease) \/ Graded(subs[u].lease))'
    BY DEF HeldIsJudged
  <2>1. u # t /\ subs'[u] = subs[u] /\ subs[u].lease \in Leases
    BY <1>3, <1>5, SubUpdates
  <2>2. Open(subs[u].lease) \/ Graded(subs[u].lease)
    BY <2>1 DEF HoldInv, HeldIsJudged
  <2>3. PICK m \in Leases : m = subs[u].lease /\ m = subs'[u].lease
    BY <2>1
  <2>4. Open(m)' \/ Graded(m)'
    BY <1>6, <2>2, <2>3
  <2>5. QED
    BY <2>3, <2>4 DEF Open, Graded
<1>8. QED
  BY <1>4, <1>7 DEF HoldInv

\* Every step keeps HoldInv.
LEMMA HoldStep == TypeInv /\ HoldInv /\ [Next]_vars => HoldInv'
<1> SUFFICES ASSUME TypeInv, HoldInv, [Next]_vars PROVE HoldInv'
  OBVIOUS
<1>0. \A t \in Threads : subs[t].lease \in Leases
  BY SubUpdates
<1> DEFINE Kept == \A l \in Leases : Open(l) \/ Graded(l) => Open(l)' \/ Graded(l)'
<1>1. ASSUME UNCHANGED <<submitting, subs>>, Kept PROVE HoldInv'
  <2>1. HoldsCounted'
    BY <1>1 DEF HoldInv, HoldsCounted, Holding
  <2>2. HeldIsJudged'
    BY <1>0, <1>1 DEF HoldInv, HeldIsJudged, Open, Graded
  <2>3. QED
    BY <2>1, <2>2 DEF HoldInv
<1>2. CASE \/ UNCHANGED vars \/ Tick \/ ExpireDue \/ OperatorStep \/ GrantSweep \/ GrantEnd
           \/ GrantBegin \/ GrantSwept \/ Revise
  <2>1. UNCHANGED <<submitting, subs, leases, groups>>
    BY <1>2 DEF vars, Tick, ExpireDue, OperatorStep, SetCooldown, Ban, Measure, GrantSweep,
       GrantEnd, GrantBegin, GrantSwept, OpenBatch, Revise
  <2>2. Kept
    BY <2>1 DEF Open, Graded
  <2>3. QED
    BY <1>1, <2>1, <2>2
<1>3. CASE Crash
  <2>1. \A t \in Threads : subs'[t].pc = "idle"
    BY <1>3 DEF Crash
  <2>2. \A l \in Leases : Holding(l)' = {} /\ submitting'[l] = 0
    BY <1>3, <2>1 DEF Crash, Holding, HoldingPcs
  <2>3. HoldsCounted'
    BY <2>2, FS_EmptySet DEF HoldsCounted
  <2>4. HeldIsJudged'
    BY <2>1 DEF HeldIsJudged
  <2>5. QED
    BY <2>3, <2>4 DEF HoldInv
<1>4. CASE MarkAlive
  <2>1. UNCHANGED <<submitting, subs, groups>> /\ (leases' = leases \/ leases' = GivenBack)
    BY <1>4 DEF MarkAlive
  <2>2. Kept
    BY <2>1, GivenBackType DEF Open, Graded
  <2>3. QED
    BY <1>1, <2>1, <2>2
<1>5. CASE Boot
  <2>1. UNCHANGED <<submitting, subs, groups>>
    BY <1>5 DEF Boot
  <2>2. ASSUME NEW l \in Leases, Open(l) PROVE Open(l)'
    <3> DEFINE r == GivenBack[l]
               e == GreaterOf(r.expires, now + RestartGrace)
    <3>1. r \in Row /\ r.state = "open"
      BY <2>2, GivenBackType DEF Open
    <3>2. leases'[l] = [r EXCEPT !.expires = e]
      BY <1>5, <2>2 DEF Boot
    <3> HIDE DEF r, e
    <3>3. QED
      BY <3>1, <3>2 DEF Row, Open
  <2>3. Kept
    BY <2>1, <2>2 DEF Graded
  <2>4. QED
    BY <1>1, <2>1, <2>3
<1>6. CASE \E k \in Checkpoints : Adopt(k)
  <2>1. UNCHANGED <<submitting, subs, groups>>
    BY <1>6 DEF Adopt
  <2>2. \A l \in Leases : Open(l) => leases'[l] = leases[l]
    BY <1>6 DEF Adopt, Open
  <2>3. Kept
    BY <2>1, <2>2 DEF Open, Graded
  <2>4. QED
    BY <1>1, <2>1, <2>3
<1>7. ASSUME NEW l \in Leases, NEW f \in Failures, CloseDue(l, f) \/ Forfeit(l, f)
      PROVE  HoldInv'
  <2>1. /\ Open(l) /\ submitting[l] = 0 /\ UNCHANGED <<submitting, subs, groups>>
        /\ \E time \in Nat, charged \in {"expired", "forfeited"} :
              CloseUnsubmitted(l, time, charged, f)
    BY <1>7 DEF CloseDue, Forfeit, TypeInv, TypeOK, DueIsOpen
  <2>2. \A m \in Leases \ {l} : leases'[m] = leases[m]
    BY <2>1, CloseUnsubmittedType
  <2>3. \A t \in Threads : subs[t].pc \in {"held", "grading"} => subs[t].lease # l
    BY <2>1, NotHeld DEF HoldInv, HoldingPcs
  <2>4. HoldsCounted'
    BY <2>1 DEF HoldInv, HoldsCounted, Holding
  <2>5. HeldIsJudged'
    BY <1>0, <2>1, <2>2, <2>3 DEF HoldInv, HeldIsJudged, Open, Graded
  <2>6. QED
    BY <2>4, <2>5 DEF HoldInv
<1>8. ASSUME NEW h \in Hotkeys, NEW p \in Prompts, NEW k \in Checkpoints, NEW n \in Leases,
             GrantClaim(h, p, k, n)
      PROVE  HoldInv'
  <2>1. UNCHANGED <<submitting, subs, groups>>
    BY <1>8 DEF GrantClaim
  <2>2. leases'[n].state = "open" /\ \A l \in Leases \ {n} : leases'[l] = leases[l]
    BY <1>8 DEF GrantClaim, TypeInv, TypeOK
  <2>3. Kept
    BY <2>1, <2>2 DEF Open, Graded
  <2>4. QED
    BY <1>1, <2>1, <2>3
<1>9. ASSUME NEW t \in Threads, SubmissionStep(t) \/ \E l \in Leases : Arrive(t, l)
      PROVE  HoldInv'
  BY <1>9, HoldHold, HoldRelease, HoldRequest, HoldCommit DEF SubmissionStep
<1>10. CASE \/ \E l \in Leases, accepted \in TrainingResults : ReportTraining(l, accepted)
            \/ \E l \in Leases, r \in AuditResults : ReportAudit(l, r)
  <2>1. UNCHANGED <<submitting, subs, leases>>
    BY <1>10 DEF ReportTraining, ReportAudit
  <2>2. groups \in [Leases -> Group]
    BY DEF TypeInv, TypeOK
  <2>3. \E l \in Leases : \E x :
          groups' = [groups EXCEPT ![l].training = x] \/ groups' = [groups EXCEPT ![l].audit = x]
    BY <1>10 DEF ReportTraining, ReportAudit
  <2>4. \A m \in Leases : groups'[m].verdict = groups[m].verdict
    BY SMTT(60), <2>2, <2>3 DEF Group
  <2>5. Kept
    BY <2>1, <2>4 DEF Open, Graded
  <2>6. QED
    BY <1>1, <2>1, <2>5
<1>11. QED
  BY <1>2, <1>3, <1>4, <1>5, <1>6, <1>7, <1>8, <1>9, <1>10
  DEF Next, LockStep, MinerStep, TrainerStep, OperatorStep

\* A submission held on time finds its lease open, or graded by a request that
\* raced it, until it is judged: no sweep, forfeit, grant or adoption takes the
\* lease from under the grader.
THEOREM HeldSubmissionJudged == Spec => []HeldIsJudged
<1>1. HoldInv => HeldIsJudged
  BY DEF HoldInv
<1>2. QED
  BY <1>1, TypeInit, TypeStep, HoldInit, HoldStep, PTL DEF Spec
=============================================================================
