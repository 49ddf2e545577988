------------------------------ MODULE SignerProofs ------------------------------
(***************************************************************************)
(* The signer's promises, proved for any operations, kinds and values, any *)
(* number of signatures and crashes: ChainWriteOnce, OneAnswer, and that   *)
(* the journal and its handlers implement WeightEpochs; and that an epoch  *)
(* is written once and not before it is reached, by the weight setter and  *)
(* the signer together.                                                    *)
(***************************************************************************)
EXTENDS WeightLoop, TLAPS

\* Zenon is the default prover; the steps of arithmetic and of records name SMT.
USE Zenon

USE OpsAssumption

\* A chain write leaves at most once per row: a row that may be (re)tried has sent
\* nothing, a write under way is not included, and a handler's row is pending.
WriteOnce(o) ==
    /\ state[o] # "failed"
    /\ state[o] = "none" \/ handler[o] = "reserved" => chain[o] = 0 /\ o \notin sent
    /\ o \in sent => chain[o] = 0
    /\ chain[o] \in {0, 1}

HandlerPending(o) == handler[o] # "idle" => state[o] = "pending"

\* A reserved epoch is at or below the cursor, and reserved by one vector.
EpochReserved(o) ==
    state[o] # "none" =>
      /\ ValueOf[o] <= cursors["set-weights"]
      /\ \A p \in WeightOps : state[p] # "none" /\ ValueOf[p] = ValueOf[o] => p = o

\* Responses come from the journal's row, and an accepting one from an inclusion.
AnswerRecorded(o) ==
    /\ answers[o] \subseteq {response[o]}
    /\ answers[o] # {} => state[o] = "completed"
    /\ o \in ChainOps /\ state[o] = "completed" /\ response[o] = Accepted => chain[o] > 0
    /\ o \in ChainOps /\ handler[o] = "worked" /\ work[o] = Accepted => chain[o] > 0
    /\ o \in ChainOps /\ handler[o] = "sending" => state[o] # "completed"
    /\ o \in ChainOps /\ handler[o] = "sending" => o \in sent \/ chain[o] > 0

IInv ==
    /\ TypeOK
    /\ \A o \in ChainOps : WriteOnce(o)
    /\ \A o \in Ops : HandlerPending(o)
    /\ \A o \in WeightOps : EpochReserved(o)
    /\ \A o \in Ops : AnswerRecorded(o)

--------------------------------------------------------------------------------

\* Init establishes the invariant.
LEMMA IInvInit == Init => IInv
  BY SMT DEF Init, IInv, TypeOK, WriteOnce, HandlerPending, EpochReserved, AnswerRecorded, Kinds, ChainOps,
         WeightOps, Pure, NoAnswer, Accepted

\* Every step keeps the types.
LEMMA TypeStep == TypeOK /\ [Next]_vars => TypeOK'
<1> SUFFICES ASSUME TypeOK, [Next]_vars PROVE TypeOK'
  OBVIOUS
<1> USE DEF TypeOK, ChainOps
<1>1. ASSUME NEW o \in Ops, Reserve(o) PROVE TypeOK'
  BY <1>1, SMT DEF Reserve, Kinds
<1>2. ASSUME NEW o \in Ops, Cached(o) PROVE TypeOK'
  BY <1>2 DEF Cached, journal
<1>3. ASSUME NEW o \in Ops, Sign(o) PROVE TypeOK'
  BY <1>3, SMT DEF Sign, journal
<1>4. ASSUME NEW o \in Ops, Send(o) PROVE TypeOK'
  BY <1>4 DEF Send, journal
<1>5. ASSUME NEW o \in Ops, Include(o) PROVE TypeOK'
  BY <1>5, SMT DEF Include, journal
<1>6. ASSUME NEW o \in Ops, ChainAnswers(o) PROVE TypeOK'
  BY <1>6, SMT DEF ChainAnswers, journal, Accepted, Rejected
<1>7. ASSUME NEW o \in Ops, RateLimited(o) PROVE TypeOK'
  BY <1>7, SMT DEF RateLimited, journal, Rejected
<1>8. ASSUME NEW o \in Ops, Complete(o) PROVE TypeOK'
  BY <1>8 DEF Complete
<1>9. ASSUME NEW o \in Ops, Raise(o) PROVE TypeOK'
  BY <1>9 DEF Raise
<1>10. CASE Crash
  BY <1>10, SMT DEF Crash
<1>11. CASE UNCHANGED vars
  BY <1>11 DEF vars, journal
<1> QED
  BY <1>1, <1>2, <1>3, <1>4, <1>5, <1>6, <1>7, <1>8, <1>9, <1>10, <1>11 DEF Next, Handle

\* Every step keeps the invariant.
LEMMA IInvStep == IInv /\ [Next]_vars => IInv'
<1> SUFFICES ASSUME IInv, [Next]_vars PROVE IInv'
  OBVIOUS
<1>t. TypeOK /\ TypeOK'
  BY TypeStep DEF IInv
<1> DEFINE Rest == /\ \A o \in ChainOps : WriteOnce(o)
                   /\ \A o \in Ops : HandlerPending(o)
                   /\ \A o \in WeightOps : EpochReserved(o)
                   /\ \A o \in Ops : AnswerRecorded(o)
<1>r. Rest
  BY DEF IInv
<1>1. ASSUME NEW q \in Ops, Reserve(q) PROVE Rest'
  <2> USE <1>t, <1>1, <1>r
  <2>1. (\A o \in ChainOps : WriteOnce(o))'
    BY SMT DEF Reserve, TypeOK, WriteOnce, ChainOps, MayRetry, HandlerPending
  <2>2. (\A o \in Ops : HandlerPending(o))'
    BY DEF Reserve, TypeOK, HandlerPending
  <2>3. (\A o \in WeightOps : EpochReserved(o))'
    BY SMT DEF Reserve, TypeOK, EpochReserved, WeightOps, MayRetry, CursorAllows, CursorMayRepeat, Kinds
  <2>4. (\A o \in Ops : AnswerRecorded(o))'
    BY SMT DEF Reserve, TypeOK, AnswerRecorded, HandlerPending, MayRetry
  <2> QED
    BY <2>1, <2>2, <2>3, <2>4
<1>2. ASSUME NEW q \in Ops, Cached(q) PROVE Rest'
  BY <1>t, <1>r, <1>2, SMT DEF Cached, journal, TypeOK, WriteOnce, HandlerPending, EpochReserved, AnswerRecorded
<1>3. ASSUME NEW q \in Ops, Sign(q) PROVE Rest'
  BY <1>t, <1>r, <1>3, SMT DEF Sign, journal, TypeOK, WriteOnce, HandlerPending, EpochReserved, AnswerRecorded, ChainOps
<1>4. ASSUME NEW q \in Ops, Send(q) PROVE Rest'
  BY <1>t, <1>r, <1>4, SMT DEF Send, journal, TypeOK, WriteOnce, HandlerPending, EpochReserved, AnswerRecorded
<1>5. ASSUME NEW q \in Ops, Include(q) PROVE Rest'
  BY <1>t, <1>r, <1>5, SMT DEF Include, journal, TypeOK, WriteOnce, HandlerPending, EpochReserved, AnswerRecorded
<1>6. ASSUME NEW q \in Ops, ChainAnswers(q) PROVE Rest'
  BY <1>t, <1>r, <1>6, SMT DEF ChainAnswers, journal, TypeOK, WriteOnce, HandlerPending, EpochReserved,
                          AnswerRecorded, Accepted, Rejected
<1>7. ASSUME NEW q \in Ops, RateLimited(q) PROVE Rest'
  BY <1>t, <1>r, <1>7, SMT DEF RateLimited, journal, TypeOK, WriteOnce, HandlerPending, EpochReserved,
                          AnswerRecorded, Accepted, Rejected
<1>8. ASSUME NEW q \in Ops, Complete(q) PROVE Rest'
  BY <1>t, <1>r, <1>8, SMT DEF Complete, TypeOK, WriteOnce, HandlerPending, EpochReserved, AnswerRecorded
<1>9. ASSUME NEW q \in Ops, Raise(q) PROVE Rest'
  <2> USE <1>t, <1>r, <1>9
  <2>1. (\A o \in ChainOps : WriteOnce(o))'
    BY SMT DEF Raise, TypeOK, WriteOnce, HandlerPending, ChainOps
  <2>2. (\A o \in Ops : HandlerPending(o))'
    BY DEF Raise, TypeOK, HandlerPending
  <2>3. (\A o \in WeightOps : EpochReserved(o))'
    BY SMT DEF Raise, TypeOK, EpochReserved, HandlerPending, WeightOps
  <2>4. (\A o \in Ops : AnswerRecorded(o))'
    BY SMT DEF Raise, TypeOK, AnswerRecorded, HandlerPending, ChainOps
  <2> QED
    BY <2>1, <2>2, <2>3, <2>4
<1>10. ASSUME Crash PROVE Rest'
  <2> USE <1>t, <1>r, <1>10
  <2>1. (\A o \in ChainOps : WriteOnce(o))'
    BY DEF Crash, RestartFails, TypeOK, WriteOnce, HandlerPending, ChainOps
  <2>2. (\A o \in Ops : HandlerPending(o))'
    BY DEF Crash, RestartFails, TypeOK, HandlerPending
  <2>3. (\A o \in WeightOps : EpochReserved(o))'
    BY DEF Crash, RestartFails, TypeOK, EpochReserved, HandlerPending, WeightOps
  <2>4. (\A o \in Ops : AnswerRecorded(o))'
    BY DEF Crash, RestartFails, TypeOK, AnswerRecorded, HandlerPending, ChainOps
  <2> QED
    BY <2>1, <2>2, <2>3, <2>4
<1>11. ASSUME UNCHANGED vars PROVE Rest'
  <2> USE <1>t, <1>r, <1>11
  <2>1. (\A o \in ChainOps : WriteOnce(o))'
    BY DEF vars, journal, TypeOK, WriteOnce, HandlerPending, ChainOps
  <2>2. (\A o \in Ops : HandlerPending(o))'
    BY DEF vars, journal, TypeOK, HandlerPending
  <2>3. (\A o \in WeightOps : EpochReserved(o))'
    BY DEF vars, journal, TypeOK, EpochReserved, HandlerPending, WeightOps
  <2>4. (\A o \in Ops : AnswerRecorded(o))'
    BY DEF vars, journal, TypeOK, AnswerRecorded, HandlerPending, ChainOps
  <2> QED
    BY <2>1, <2>2, <2>3, <2>4
<1>12. Rest'
  <2> HIDE DEF Rest
  <2> QED
    BY <1>1, <1>2, <1>3, <1>4, <1>5, <1>6, <1>7, <1>8, <1>9, <1>10, <1>11 DEF Next, Handle
<1> QED
  BY <1>t, <1>12 DEF IInv

\* The invariant holds throughout.
LEMMA IInvAlways == Spec => []IInv
  BY IInvInit, IInvStep, PTL DEF Spec

\* Types are kept (TypeOK): rows, cursors, handlers and chain stay what the code
\* stores, for any operations.
THEOREM SignerTypeCorrect == Spec => []TypeOK
<1>1. IInv => TypeOK
  BY DEF IInv
<1> QED
  BY <1>1, IInvAlways, PTL

\* A write is included at most once and an epoch takes at most one vector, whatever
\* is resent, raises, lands late or is cut by a restart.
THEOREM ChainWritesOnce == Spec => []ChainWriteOnce
<1>1. IInv => ChainWriteOnce
  BY SMT DEF IInv, ChainWriteOnce, WriteOnce, EpochReserved, TypeOK, ChainOps, WeightOps, Pure
<1> QED
  BY <1>1, IInvAlways, PTL

\* Every caller of an operation receives one and the same response, and an accepting
\* one is true of the chain.
THEOREM AnswersAgree == Spec => []OneAnswer
<1>1. IInv => OneAnswer
  BY DEF IInv, OneAnswer, AnswerRecorded, ChainOps
<1> QED
  BY <1>1, IInvAlways, PTL

\* The journal with its handlers, late writes and restarts implements WeightEpochs:
\* a first reservation of a vector is an attempt, an inclusion is an inclusion, and
\* every other step leaves the promise's state alone.
THEOREM SignerKeepsPromise == Spec => KeepsPromise
<1> USE DEF Promise!Include, Promise!Attempt
<1> DEFINE Included == {o \in WeightOps : chain[o] > 0}
<1>1. Init => Promise!Init
  BY SMT DEF Init, Promise!Init, Kinds, WeightOps
<1>2. ASSUME IInv, [Next]_vars
      PROVE [Promise!Attempt \/ Promise!Include]_<<cursors["set-weights"], Included>>
  <2>1. ASSUME NEW o \in Ops, Reserve(o)
        PROVE Promise!Attempt \/ UNCHANGED <<cursors["set-weights"], Included>>
    BY <1>2, <2>1 DEF Reserve, CursorAllows, CursorMayRepeat, IInv, TypeOK, WeightOps, Kinds
  <2>2. ASSUME NEW o \in Ops, Include(o)
        PROVE Promise!Include \/ UNCHANGED <<cursors["set-weights"], Included>>
    <3>1. cursors' = cursors
      BY <2>2 DEF Include, journal
    <3>2. CASE o \notin WeightOps
      BY <1>2, <2>2, <3>1, <3>2 DEF Include, IInv, TypeOK, WeightOps
    <3>3. CASE o \in WeightOps
      <4>1. o \in ChainOps
        BY <3>3 DEF WeightOps, ChainOps, Pure
      <4>2. chain[o] = 0 /\ state[o] # "none" /\ ValueOf[o] <= cursors["set-weights"]
        BY <1>2, <2>2, <3>3, <4>1 DEF IInv, Include, WriteOnce, EpochReserved
      <4>3. \A u \in Included : ValueOf[u] # ValueOf[o]
        <5> SUFFICES ASSUME NEW u \in WeightOps, chain[u] > 0, ValueOf[u] = ValueOf[o] PROVE FALSE
          OBVIOUS
        <5>1. u \in ChainOps
          BY DEF WeightOps, ChainOps, Pure
        <5>2. state[u] # "none"
          BY <1>2, <5>1, SMT DEF IInv, WriteOnce
        <5>3. u = o
          BY <1>2, <5>2, <4>2, <3>3 DEF IInv, EpochReserved
        <5> QED
          BY <5>3, <4>2, SMT
      <4>4. Included' = Included \union {o}
        BY <1>2, <2>2, <3>3, <4>2, SMT DEF Include, IInv, TypeOK, WeightOps
      <4> QED
        BY <3>1, <3>3, <4>2, <4>3, <4>4
    <3> QED
      BY <3>2, <3>3
  <2>3. ASSUME NEW o \in Ops, Cached(o) \/ Sign(o) \/ Send(o) \/ ChainAnswers(o) \/ RateLimited(o)
                                \/ Complete(o) \/ Raise(o)
        PROVE cursors' = cursors /\ chain' = chain
    BY <2>3 DEF Cached, Sign, Send, ChainAnswers, RateLimited, Complete, Raise, journal
  <2>4. Crash \/ UNCHANGED vars => cursors' = cursors /\ chain' = chain
    BY DEF Crash, vars, journal
  <2>5. cursors' = cursors /\ chain' = chain => UNCHANGED <<cursors["set-weights"], Included>>
    OBVIOUS
  <2> HIDE DEF Included, Promise!Include, Promise!Attempt
  <2> QED
    BY <1>2, <2>1, <2>2, <2>3, <2>4, <2>5 DEF Next, Handle
<1> QED
  BY <1>1, <1>2, IInvAlways, PTL DEF Spec, KeepsPromise, Promise!Spec

--------------------------------------------------------------------------------
(* The weight setter and its signer.                                       *)

\* The vectors of the epochs the chain has reached.
Reached == {o \in WeightOps : ValueOf[o] <= epoch}

\* What the signer was asked for, may still be asked for, or has reserved is a vector of an epoch that
\* was reached.
LoopInv ==
    /\ IInv
    /\ epoch \in Nat /\ eid \in Nat /\ eid <= epoch
    /\ pc \in {"calling", "answer"} => call \in Reached
    /\ late \subseteq Reached
    /\ \A o \in WeightOps : state[o] # "none" => o \in Reached

--------------------------------------------------------------------------------

\* LoopInit establishes the invariant.
LEMMA LoopInvInit == LoopInit => LoopInv
  BY IInvInit, SMT DEF LoopInit, LoopInv, Init, WeightOps

\* A step of the setter or of the chain leaves the signer alone, or is a step of it.
LEMMA LoopStepsSigner == LoopInv /\ [LoopNext]_loopVars => [Next]_vars
<1> SUFFICES ASSUME LoopInv, [LoopNext]_loopVars PROVE [Next]_vars
  OBVIOUS
<1> USE DEF Next, Handle
<1>1. CASE SignerReceives
  BY <1>1 DEF SignerReceives, LoopInv, Reached, WeightOps
<1>2. CASE LateRequest
  BY <1>2 DEF LateRequest, LoopInv, Reached, WeightOps
<1>3. CASE Signer
  BY <1>3 DEF Signer
<1>4. CASE SignerFails
  BY <1>4 DEF SignerFails
<1>5. CASE \/ Poll \/ Status \/ Submit \/ Answer \/ CallFails \/ Blocks \/ Deferred \/ Abstain \/ CallLost
           \/ Restart \/ UNCHANGED loopVars
  <2>1. CASE Poll \/ Status \/ Submit \/ Answer \/ CallFails
    BY <2>1 DEF Poll, Status, Submit, Answer, CallFails
  <2>2. CASE Blocks \/ Deferred \/ Abstain \/ CallLost \/ Restart \/ UNCHANGED loopVars
    BY <2>2 DEF Blocks, Deferred, Abstain, CallLost, Restart, loopVars
  <2> QED BY <1>5, <2>1, <2>2
<1> QED
  BY <1>1, <1>2, <1>3, <1>4, <1>5 DEF LoopNext, Setter

\* A step of the signer on a vector of a reached epoch, or on none, reserves no other.
LEMMA SignerReservesReached ==
    ASSUME IInv, NEW o \in Ops, Reserve(o) \/ Cached(o) \/ Send(o) \/ ChainAnswers(o) \/ RateLimited(o) \/ Complete(o)
                                  \/ Include(o) \/ Raise(o)
    PROVE  \A p \in Ops : state'[p] # "none" => state[p] # "none" \/ (Reserve(o) /\ p = o)
<1>1. CASE Reserve(o)
  BY <1>1 DEF Reserve, IInv, TypeOK
<1>2. CASE Cached(o) \/ Send(o) \/ ChainAnswers(o) \/ RateLimited(o) \/ Include(o)
  BY <1>2 DEF Cached, Send, ChainAnswers, RateLimited, Include, journal
<1>3. CASE Complete(o) \/ Raise(o)
  BY <1>3 DEF Complete, Raise, IInv, TypeOK, HandlerPending
<1> QED
  BY <1>1, <1>2, <1>3

\* Every step keeps the invariant.
LEMMA LoopInvStep == LoopInv /\ [LoopNext]_loopVars => LoopInv'
<1> SUFFICES ASSUME LoopInv, [LoopNext]_loopVars PROVE LoopInv'
  OBVIOUS
<1>i. IInv /\ IInv'
  BY LoopStepsSigner, IInvStep DEF LoopInv
<1> DEFINE Reserved == \A o \in WeightOps : state[o] # "none" => o \in Reached
<1>v. ValueOf \in [Ops -> Nat] /\ WeightOps \subseteq Ops
  BY OpsAssumption DEF WeightOps
<1>1. CASE SignerReceives
  <2>1. UNCHANGED <<epoch, eid, call, late>> /\ pc = "calling" /\ call \in Reached /\ call \in Ops
    BY <1>1, <1>v DEF SignerReceives, LoopInv, clock, Reached
  <2>2. Reserved'
    BY <1>i, <1>1, <1>v, <2>1, SignerReservesReached DEF SignerReceives, LoopInv, Reached
  <2> QED
    BY <1>i, <2>1, <2>2 DEF LoopInv, Reached
<1>2. CASE LateRequest
  <2>1. PICK o \in late : (Reserve(o) \/ Cached(o)) /\ late' = late \ {o}
    BY <1>2 DEF LateRequest
  <2>2. UNCHANGED <<epoch, eid, call, pc>> /\ o \in Reached /\ o \in Ops
    BY <1>2, <1>v, <2>1 DEF LateRequest, LoopInv, clock, setter, Reached
  <2>3. Reserved'
    BY <1>i, <1>v, <2>1, <2>2, SignerReservesReached DEF LoopInv, Reached
  <2> QED
    BY <1>i, <2>1, <2>2, <2>3 DEF LoopInv, Reached
<1>3. CASE Signer
  <2>1. PICK o \in Ops : Send(o) \/ ChainAnswers(o) \/ RateLimited(o) \/ Complete(o)
    BY <1>3 DEF Signer
  <2>2. UNCHANGED <<epoch, eid, call, pc, late>>
    BY <1>3 DEF Signer, clock, setter
  <2>3. ~ Reserve(o) \/ state[o] # "none"
    BY <1>i, <2>1 DEF Reserve, Send, ChainAnswers, RateLimited, Complete, IInv, HandlerPending
  <2>4. Reserved'
    BY <1>i, <1>v, <2>1, <2>2, <2>3, SignerReservesReached DEF LoopInv, Reached
  <2> QED
    BY <1>i, <2>2, <2>4 DEF LoopInv, Reached
<1>4. CASE SignerFails
  <2>1. UNCHANGED <<epoch, eid, call, pc, late>>
    BY <1>4 DEF SignerFails, clock, setter
  <2>2. \A p \in Ops : state'[p] # "none" => state[p] # "none"
    <3>1. CASE Crash
      BY <1>i, <3>1 DEF Crash, IInv, TypeOK
    <3>2. ASSUME NEW o \in Ops, Include(o) \/ Raise(o)
          PROVE  \A p \in Ops : state'[p] # "none" => state[p] # "none"
      BY <1>i, <3>2 DEF Include, Raise, journal, IInv, TypeOK, HandlerPending
    <3> QED
      BY <1>4, <3>1, <3>2 DEF SignerFails
  <2> QED
    BY <1>i, <1>v, <2>1, <2>2 DEF LoopInv, Reached
<1>5. CASE Blocks
  <2>1. UNCHANGED <<eid, call, pc, late, state>> /\ epoch' \in Nat /\ epoch' >= epoch
    BY <1>5, SMT DEF Blocks, setter, vars, journal, LoopInv
  <2>2. Reached \subseteq Reached'
    BY <1>v, <2>1, SMT DEF Reached, LoopInv
  <2> QED
    BY <1>i, <2>1, <2>2, SMT DEF LoopInv
<1>6. CASE Submit
  BY <1>i, <1>6 DEF Submit, LoopInv, Reached, clock, vars, journal
<1>7. CASE Poll \/ Status \/ Deferred \/ CallFails \/ Restart
  BY <1>i, <1>7, SMT DEF Poll, Status, Deferred, CallFails, Restart, LoopInv, Reached, clock, vars, journal
<1>8. CASE Answer \/ Abstain
  BY <1>i, <1>8 DEF Answer, Abstain, Returned, LoopInv, Reached, clock, vars, journal
<1>9. CASE CallLost
  BY <1>i, <1>9 DEF CallLost, LoopInv, Reached, clock, vars, journal
<1>10. CASE UNCHANGED loopVars
  BY <1>i, <1>10 DEF loopVars, clock, setter, vars, journal, LoopInv, Reached
<1> QED
  BY <1>1, <1>2, <1>3, <1>4, <1>5, <1>6, <1>7, <1>8, <1>9, <1>10 DEF LoopNext, Setter

\* The setter and the signer together write an epoch once and not before it is reached (EpochWrittenOnce),
\* whatever restarts, is lost, times out or arrives late.
THEOREM WeightsWrittenOnce == LoopSpec => []EpochWrittenOnce
<1>1. LoopInv => EpochWrittenOnce
  <2> SUFFICES ASSUME LoopInv PROVE EpochWrittenOnce
    OBVIOUS
  <2>1. \A o \in WeightOps : o \in ChainOps /\ o \in Ops /\ chain[o] \in {0, 1} /\ (chain[o] > 0 => state[o] # "none")
    BY SMT DEF LoopInv, IInv, WriteOnce, WeightOps, ChainOps, Pure
  <2>2. \A o, p \in WeightOps : state[o] # "none" /\ state[p] # "none" /\ ValueOf[o] = ValueOf[p] => o = p
    BY DEF LoopInv, IInv, EpochReserved
  <2> QED
    BY <2>1, <2>2, SMT DEF EpochWrittenOnce, LoopInv, Reached
<1>2. LoopInit => LoopInv
  BY LoopInvInit
<1>3. LoopInv /\ [LoopNext]_loopVars => LoopInv'
  BY LoopInvStep
<1> QED
  BY <1>1, <1>2, <1>3, PTL DEF LoopSpec
================================================================================
