----------------------------- MODULE SignerJournal -----------------------------
(***************************************************************************)
(* The semantic signer: its durable journal (reliquary/signer/journal.py)  *)
(* and the handlers that sign or write to the chain under it               *)
(* (signer/service.py, signer/backend.py).                                 *)
(*                                                                         *)
(* A handler reserves its operation in one transaction, does its work      *)
(* outside of any, and records the outcome in another; requests are        *)
(* resent, handlers run side by side, the process is killed at any point   *)
(* and a chain write may land after its call has timed out.  A signature   *)
(* is a number: signing the same bytes twice gives two different ones.     *)
(***************************************************************************)
EXTENDS Integers, FiniteSets

CONSTANTS
    Ops,          \* operation ids: an id binds its kind and its whole content
    KindOf,       \* operation id -> kind
    ValueOf,      \* operation id -> cursor value (version, number, epoch)
    MaxSignatures, MaxCrashes \* bounds of the instance

Kinds == {"checkpoint-sign", "rl-index-sign", "rl-observation-sign", "set-weights", "serve-axon"}

ASSUME OpsAssumption ==
    /\ KindOf \in [Ops -> Kinds]
    /\ ValueOf \in [Ops -> Nat]
    /\ MaxSignatures \in Nat /\ MaxCrashes \in Nat

VARIABLES
    state,    \* operations.state, "none" without a row
    response, \* operations.response_json: a signature, or the chain's answer
    cursors,  \* cursors: kind -> value, -1 without a row
    handler,  \* the handler of each operation
    work,     \* what that handler got from the wallet or the chain
    sent,     \* chain writes handed to the chain and not included yet
    chain,    \* operation id -> how often its write was included
    answers,  \* operation id -> the responses its callers received
    signed,   \* signatures made so far
    crashes

journal == <<state, response, cursors>>
vars == <<journal, handler, work, sent, chain, answers, signed, crashes>>

Pure == {"checkpoint-sign", "rl-index-sign", "rl-observation-sign"}
WeightOps == {o \in Ops : KindOf[o] = "set-weights"}
ChainOps == {o \in Ops : KindOf[o] \notin Pure}

NoAnswer == 0
Accepted == -1
Rejected == -2

\* Kinds whose cursor may repeat its value; serve-axon has no cursor.
CursorMayRepeat == {"rl-index-sign", "rl-observation-sign"}

\* Mutant: the cursor is never compared.
CursorOpen(o) == TRUE

\* Whether the cursor of o's kind lets a first reservation through.
CursorAllows(o) ==
    \/ KindOf[o] = "serve-axon"
    \/ ValueOf[o] > cursors[KindOf[o]]
    \/ ValueOf[o] = cursors[KindOf[o]] /\ KindOf[o] \in CursorMayRepeat

\* Mutant: a completed operation is carried out again.
MayRetryCompleted(o) == state[o] \in {"failed", "completed"}

\* Only a definite failure before any side effect may retry the exact request.
MayRetry(o) == state[o] = "failed"

\* reserve: a first reservation moves the cursor, a retry does not look at it.
\* Every other case raises or answers from the journal (Cached).
Reserve(o) ==
    /\ handler[o] = "idle"
    /\ \/ /\ state[o] = "none" /\ CursorAllows(o)
          /\ cursors' = IF KindOf[o] = "serve-axon" THEN cursors ELSE [cursors EXCEPT ![KindOf[o]] = ValueOf[o]]
       \/ MayRetry(o) /\ UNCHANGED cursors
    /\ state' = [state EXCEPT ![o] = "pending"]
    /\ handler' = [handler EXCEPT ![o] = "reserved"]
    /\ UNCHANGED <<response, work, sent, chain, answers, signed, crashes>>

\* A completed operation is answered from the journal.
Cached(o) ==
    /\ state[o] = "completed"
    /\ answers' = [answers EXCEPT ![o] = @ \union {response[o]}]
    /\ UNCHANGED <<journal, handler, work, sent, chain, signed, crashes>>

\* backend.sign_checkpoint and its siblings, on a thread.
Sign(o) ==
    /\ handler[o] = "reserved" /\ KindOf[o] \in Pure /\ signed < MaxSignatures
    /\ signed' = signed + 1
    /\ work' = [work EXCEPT ![o] = signed + 1]
    /\ handler' = [handler EXCEPT ![o] = "worked"]
    /\ UNCHANGED <<journal, sent, chain, answers, crashes>>

ChainBusy == \E o \in ChainOps : handler[o] = "sending"

\* backend.set_weights, serve_axon: one call at a time holds chain_lock.
Send(o) ==
    /\ handler[o] = "reserved" /\ o \in ChainOps /\ ~ ChainBusy
    /\ handler' = [handler EXCEPT ![o] = "sending"]
    /\ sent' = sent \union {o}
    /\ UNCHANGED <<journal, work, chain, answers, signed, crashes>>

\* The chain includes a write, in time or late.
Include(o) ==
    /\ o \in sent
    /\ sent' = sent \ {o}
    /\ chain' = [chain EXCEPT ![o] = @ + 1]
    /\ UNCHANGED <<journal, handler, work, answers, signed, crashes>>

\* The SDK's call returns.  It reports success for an included write only; a failure
\* says nothing of what was sent: refused, included, or to be included later.
ChainAnswers(o) ==
    /\ handler[o] = "sending"
    /\ \E a \in {Accepted, Rejected} :
         /\ a = Accepted => o \notin sent
         /\ work' = [work EXCEPT ![o] = a]
    /\ \/ UNCHANGED sent
       \/ sent' = sent \ {o}
    /\ handler' = [handler EXCEPT ![o] = "worked"]
    /\ UNCHANGED <<journal, chain, answers, signed, crashes>>

\* The wallet refuses before anything is sent: the rate limit is not over.
RateLimited(o) ==
    /\ handler[o] = "reserved" /\ KindOf[o] = "set-weights" /\ ~ ChainBusy
    /\ work' = [work EXCEPT ![o] = Rejected]
    /\ handler' = [handler EXCEPT ![o] = "worked"]
    /\ UNCHANGED <<journal, sent, chain, answers, signed, crashes>>

\* journal.complete and the answer to the caller.
Complete(o) ==
    /\ handler[o] = "worked" /\ state[o] = "pending"
    /\ state' = [state EXCEPT ![o] = "completed"]
    /\ response' = [response EXCEPT ![o] = work[o]]
    /\ answers' = [answers EXCEPT ![o] = @ \union {work[o]}]
    /\ handler' = [handler EXCEPT ![o] = "idle"]
    /\ UNCHANGED <<cursors, work, sent, chain, signed, crashes>>

\* Anything between reserve and complete raises, complete itself included:
\* fail_definite for a pure operation, mark_uncertain for a chain write; when the
\* journal cannot record that either, the operation stays pending.
Raise(o) ==
    /\ handler[o] \in {"reserved", "sending", "worked"}
    /\ \/ state' = [state EXCEPT ![o] = IF KindOf[o] \in Pure THEN "failed" ELSE "uncertain"]
       \/ UNCHANGED state
    /\ handler' = [handler EXCEPT ![o] = "idle"]
    /\ UNCHANGED <<response, cursors, work, sent, chain, answers, signed, crashes>>

\* Mutant: every operation pending at a restart may be retried.
RestartFailsAll(o) == TRUE

\* The pending operations a restart turns into definite failures.
RestartFails(o) == KindOf[o] \in Pure

\* The process is killed and started again over its journal.
Crash ==
    /\ crashes < MaxCrashes
    /\ crashes' = crashes + 1
    /\ handler' = [o \in Ops |-> "idle"]
    /\ state' = [o \in Ops |-> IF state[o] = "pending" /\ RestartFails(o) THEN "failed" ELSE state[o]]
    /\ UNCHANGED <<response, cursors, work, sent, chain, answers, signed>>

Init ==
    /\ state = [o \in Ops |-> "none"]
    /\ response = [o \in Ops |-> NoAnswer]
    /\ cursors = [k \in Kinds |-> -1]
    /\ handler = [o \in Ops |-> "idle"]
    /\ work = [o \in Ops |-> NoAnswer]
    /\ sent = {}
    /\ chain = [o \in Ops |-> 0]
    /\ answers = [o \in Ops |-> {}]
    /\ signed = 0 /\ crashes = 0

Handle(o) ==
    \/ Reserve(o) \/ Cached(o) \/ Sign(o) \/ Send(o) \/ ChainAnswers(o) \/ RateLimited(o)
    \/ Complete(o) \/ Raise(o)

Next == Crash \/ \E o \in Ops : Handle(o) \/ Include(o)

Spec == Init /\ [][Next]_vars

Promise ==
    INSTANCE WeightEpochs WITH
        Vectors <- WeightOps, EpochOf <- ValueOf, attempted <- cursors["set-weights"],
        included <- {o \in WeightOps : chain[o] > 0}

--------------------------------------------------------------------------------
(* Properties. *)

TypeOK ==
    /\ state \in [Ops -> {"none", "pending", "completed", "failed", "uncertain"}]
    /\ response \in [Ops -> Int] /\ work \in [Ops -> Int]
    /\ cursors \in [Kinds -> Int]
    /\ handler \in [Ops -> {"idle", "reserved", "sending", "worked"}]
    /\ sent \subseteq ChainOps
    /\ chain \in [Ops -> Nat]
    /\ answers \in [Ops -> SUBSET Int]
    /\ signed \in 0 .. MaxSignatures /\ crashes \in 0 .. MaxCrashes

\* A write is included in the chain at most once, and at most one weight vector is
\* included per epoch, across resends, timeouts, late inclusions and restarts
\* (journal: "Chain writes retain pending/uncertain state: they may have landed").
ChainWriteOnce ==
    /\ \A o \in ChainOps : chain[o] <= 1
    /\ \A o, p \in WeightOps : ValueOf[o] = ValueOf[p] /\ chain[o] > 0 /\ chain[p] > 0 => o = p

\* Every caller of an operation receives the same response, although a signature
\* made before a crash is made again after it, and one told that its write was
\* accepted finds it in the chain.
OneAnswer ==
    /\ \A o \in Ops : \A a, b \in answers[o] : a = b
    /\ \A o \in ChainOps : Accepted \in answers[o] => chain[o] > 0

\* The journal, the handlers and the restarts implement the promise of WeightEpochs.
KeepsPromise == Promise!Spec
================================================================================
