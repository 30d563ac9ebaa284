-------------------------------- MODULE Mbox --------------------------------
(***************************************************************************)
(* The mailbox of the ReconOS runtime (comp/mbox.c): a ring of Size words, *)
(* one mutex and one counting semaphore per side.  A call locks the mutex  *)
(* of its side and waits on the semaphore WHILE HOLDING the mutex, moves   *)
(* one word, posts the semaphore of the other side and unlocks.            *)
(*                                                                         *)
(* put/get, their interruptible and their try variants share this shape,   *)
(* so each step is one action for both sides; the side of a call selects   *)
(* mutex_write/sem_write/write_idx or mutex_read/sem_read/read_idx.        *)
(*                                                                         *)
(* A signal ends a sem_wait.  The interruptible calls look at its result,  *)
(* mbox_put and mbox_get do not: they go on without a place or a word.     *)
(***************************************************************************)
EXTENDS Naturals, Sequences

CONSTANTS
  Threads,     (* software threads and delegate threads using the mailbox *)
  NoThread,    (* the holder of a free mutex                              *)
  Msg,         (* 32-bit words                                            *)
  NoMsg,       (* a word that was never written                           *)
  Size,        (* mb->size                                                *)
  Ops,         (* the calls each thread makes                             *)
  Signalled,   (* the threads that pthread_kill may reach: the delegates  *)
  MaxSlips     (* bound: how many plain calls a signal makes go on        *)

PutOps == {"put", "put_interruptible", "tryput"}
GetOps == {"get", "get_interruptible", "tryget"}
TryOps == {"tryput", "tryget"}
InterruptOps == {"put_interruptible", "get_interruptible"}
PlainOps == {"put", "get"}
Sides == {"write", "read"}

ASSUME MboxAssumption ==
  /\ Size \in Nat \ {0}
  /\ MaxSlips \in Nat
  /\ NoThread \notin Threads
  /\ NoMsg \notin Msg

ASSUME CallsAssumption ==
  /\ Ops \in [Threads -> SUBSET (PutOps \cup GetOps)]
  /\ Signalled \subseteq Threads

VARIABLES
  mutex,       (* mutex_write, mutex_read: the holder                     *)
  sem,         (* sem_write: free places; sem_read: published words       *)
  idx,         (* write_idx, read_idx                                     *)
  messages,    (* the ring                                                *)
  pc,          (* where each thread is in its call                        *)
  op, val, res, (* the call, its word and its outcome                     *)
  slips        (* how many plain calls went on without sem_wait having taken
                  its place or its word; a history, no field of struct mbox *)

vars == <<mutex, sem, idx, messages, pc, op, val, res, slips>>

Slots == 0 .. (Size - 1)
PCs == {"idle", "lock", "wait", "take", "copy", "post", "unlock"}

Side(o) == IF o \in PutOps THEN "write" ELSE "read"
Other(s) == IF s = "write" THEN "read" ELSE "write"
mySide(t) == Side(op[t])

TypeOK ==
  /\ mutex \in [Sides -> Threads \cup {NoThread}]
  /\ sem \in [Sides -> 0 .. (Size + slips)]
  /\ idx \in [Sides -> Slots]
  /\ messages \in [Slots -> Msg \cup {NoMsg}]
  /\ pc \in [Threads -> PCs]
  /\ op \in [Threads -> PutOps \cup GetOps \cup {"none"}]
  /\ val \in [Threads -> Msg \cup {NoMsg}]
  /\ res \in [Threads -> {"pending", "ok", "fail"}]
  /\ slips \in 0 .. MaxSlips

Goto(t, p) == pc' = [pc EXCEPT ![t] = p]

-----------------------------------------------------------------------------

\* mbox_init: no word published, every place free.
Init ==
  /\ mutex = [s \in Sides |-> NoThread]
  /\ sem = [s \in Sides |-> IF s = "write" THEN Size ELSE 0]
  /\ idx = [s \in Sides |-> 0]
  /\ messages = [i \in Slots |-> NoMsg]
  /\ pc = [t \in Threads |-> "idle"]
  /\ op = [t \in Threads |-> "none"]
  /\ val = [t \in Threads |-> NoMsg]
  /\ res = [t \in Threads |-> "ok"]
  /\ slips = 0

\* A thread enters one of the six calls.
Call(t) ==
  /\ pc[t] = "idle"
  /\ \E o \in Ops[t], m \in Msg :
       /\ op' = [op EXCEPT ![t] = o]
       /\ val' = [val EXCEPT ![t] = IF o \in PutOps THEN m ELSE NoMsg]
  /\ res' = [res EXCEPT ![t] = "pending"]
  /\ Goto(t, "lock")
  /\ UNCHANGED <<mutex, sem, idx, messages, slips>>

\* pthread_mutex_lock on the mutex of the side.
Lock(t) ==
  /\ pc[t] = "lock"
  /\ mutex[mySide(t)] = NoThread
  /\ mutex' = [mutex EXCEPT ![mySide(t)] = t]
  /\ Goto(t, "wait")
  /\ UNCHANGED <<sem, idx, messages, op, val, res, slips>>

\* sem_wait, entered directly or (in the try calls) after sem_getvalue.
SemWait(t) ==
  /\ \/ pc[t] = "wait" /\ op[t] \notin TryOps
     \/ pc[t] = "take"
  /\ sem[mySide(t)] > 0
  /\ sem' = [sem EXCEPT ![mySide(t)] = @ - 1]
  /\ Goto(t, "copy")
  /\ UNCHANGED <<mutex, idx, messages, op, val, res, slips>>

\* Mutant: the interruptible calls do not look at the result of sem_wait either.
InterruptIgnored(t) ==
  /\ pc[t] = "wait" /\ t \in Signalled
  /\ op[t] \in InterruptOps
  /\ Goto(t, "copy")
  /\ UNCHANGED <<mutex, sem, idx, messages, op, val, res, slips>>

\* A signal ends the sem_wait of a delegate.  An interruptible call looks at the
\* result, unlocks and fails.  A plain one does not: it moves a word without
\* having taken the place or the word for it.  (The sem_wait of a try call never
\* blocks, so no signal ends it.)
Interrupt(t) ==
  /\ pc[t] = "wait" /\ t \in Signalled
  /\ \/ /\ op[t] \in InterruptOps
        /\ res' = [res EXCEPT ![t] = "fail"]
        /\ Goto(t, "unlock")
        /\ UNCHANGED slips
     \/ /\ op[t] \in PlainOps
        /\ slips < MaxSlips
        /\ slips' = slips + 1
        /\ Goto(t, "copy")
        /\ UNCHANGED res
  /\ UNCHANGED <<mutex, sem, idx, messages, op, val>>

\* Mutant: fill < 0 instead of fill <= 0.
GetValueOffByOne(t) ==
  /\ pc[t] = "wait" /\ op[t] \in TryOps
  /\ Goto(t, "take")
  /\ UNCHANGED <<mutex, sem, idx, messages, op, val, res, slips>>

\* sem_getvalue in the try calls, and the branch on its result.
GetValue(t) ==
  /\ pc[t] = "wait" /\ op[t] \in TryOps
  /\ IF sem[mySide(t)] > 0
     THEN Goto(t, "take") /\ UNCHANGED res
     ELSE Goto(t, "unlock") /\ res' = [res EXCEPT ![t] = "fail"]
  /\ UNCHANGED <<mutex, sem, idx, messages, op, val, slips>>

\* Mutants: the index does not wrap; the index stays; the index is advanced
\* before the word is copied.
CopyNoWrap(t) ==
  /\ pc[t] = "copy" /\ idx' = [idx EXCEPT ![mySide(t)] = @ + 1]
  /\ Goto(t, "post")
  /\ UNCHANGED <<mutex, sem, messages, op, val, res, slips>>
CopyKeepsIndex(t) ==
  /\ pc[t] = "copy"
  /\ LET s == mySide(t) IN
       IF s = "write"
       THEN messages' = [messages EXCEPT ![idx[s]] = val[t]] /\ UNCHANGED val
       ELSE val' = [val EXCEPT ![t] = messages[idx[s]]] /\ UNCHANGED messages
  /\ Goto(t, "post")
  /\ UNCHANGED <<mutex, sem, idx, op, res, slips>>
CopyAfterAdvance(t) ==
  /\ pc[t] = "copy"
  /\ LET s == mySide(t)
         i == (idx[s] + 1) % Size IN
       /\ IF s = "write"
          THEN messages' = [messages EXCEPT ![idx[s]] = val[t]] /\ UNCHANGED val
          ELSE val' = [val EXCEPT ![t] = messages[i]] /\ UNCHANGED messages
       /\ idx' = [idx EXCEPT ![s] = i]
  /\ Goto(t, "post")
  /\ UNCHANGED <<mutex, sem, op, res, slips>>

\* Move the word and advance the index of the side.
Copy(t) ==
  /\ pc[t] = "copy"
  /\ LET s == mySide(t) IN
       /\ IF s = "write"
          THEN messages' = [messages EXCEPT ![idx[s]] = val[t]] /\ UNCHANGED val
          ELSE val' = [val EXCEPT ![t] = messages[idx[s]]] /\ UNCHANGED messages
       /\ idx' = [idx EXCEPT ![s] = (@ + 1) % Size]
  /\ Goto(t, "post")
  /\ UNCHANGED <<mutex, sem, op, res, slips>>

\* Mutant: the post is made under both mutexes.
PostUnderBoth(t) ==
  /\ pc[t] = "post" /\ mutex[Other(mySide(t))] = NoThread
  /\ sem' = [sem EXCEPT ![Other(mySide(t))] = @ + 1]
  /\ res' = [res EXCEPT ![t] = "ok"]
  /\ Goto(t, "unlock")
  /\ UNCHANGED <<mutex, idx, messages, op, val, slips>>

\* sem_post on the semaphore of the other side.
Post(t) ==
  /\ pc[t] = "post"
  /\ sem' = [sem EXCEPT ![Other(mySide(t))] = @ + 1]
  /\ res' = [res EXCEPT ![t] = "ok"]
  /\ Goto(t, "unlock")
  /\ UNCHANGED <<mutex, idx, messages, op, val, slips>>

\* pthread_mutex_unlock and return to the caller, who gets val and res.
Unlock(t) ==
  /\ pc[t] = "unlock"
  /\ mutex' = [mutex EXCEPT ![mySide(t)] = NoThread]
  /\ op' = [op EXCEPT ![t] = "none"]
  /\ val' = [val EXCEPT ![t] = NoMsg]
  /\ res' = [res EXCEPT ![t] = "ok"]
  /\ Goto(t, "idle")
  /\ UNCHANGED <<sem, idx, messages, slips>>

\* What a thread does once it is inside a call.
Step(t) == Lock(t) \/ SemWait(t) \/ GetValue(t) \/ Copy(t) \/ Post(t) \/ Unlock(t)

Next == \E t \in Threads : Call(t) \/ Interrupt(t) \/ Step(t)

Spec == Init /\ [][Next]_vars

\* Every running thread is scheduled; nobody is obliged to make a call, no
\* signal has to come, and a freed mutex goes to any of its waiters.
Fairness == \A t \in Threads : WF_vars(Step(t))

FairSpec == Spec /\ Fairness

-----------------------------------------------------------------------------

Inside == {"wait", "take", "copy", "post", "unlock"}
At(s, P) == mutex[s] # NoThread /\ pc[mutex[s]] \in P

\* The words published and not yet handed over, oldest first.  A getter that
\* has copied its word has already advanced read_idx but still owns the place.
Unreleased == sem["read"] + (IF At("read", {"copy", "post"}) THEN 1 ELSE 0)
Before(i) == (i + (Size - 1)) % Size
Oldest == IF At("read", {"post"}) THEN Before(idx["read"]) ELSE idx["read"]
Contents == [i \in 1 .. Unreleased |-> messages[(Oldest + (i - 1)) % Size]]

\* The two mutexes: a thread inside a call holds the mutex of its side, and a
\* mutex is held only by a thread inside a call of that side.
LockInv ==
  /\ \A t \in Threads : pc[t] \in Inside => mutex[mySide(t)] = t
  /\ \A s \in Sides : mutex[s] # NoThread =>
       pc[mutex[s]] \in Inside /\ mySide(mutex[s]) = s

\* Places are neither lost nor invented: free places, published words and the
\* places a putter or a getter holds in between add up to the size of the ring
\* (sem_write and sem_read in mbox_put and mbox_get, on every path, the refused
\* and the interrupted ones included), plus one for each plain call whose
\* sem_wait a signal ended: that one posts what it never took, and for good.
TokensConserved ==
  sem["read"] + sem["write"]
    + (IF At("write", {"copy", "post"}) THEN 1 ELSE 0)
    + (IF At("read", {"copy", "post"}) THEN 1 ELSE 0) = Size + slips

\* The places between read_idx and write_idx are the published words plus those
\* that a putter has stored and not yet published, or a getter has claimed and
\* not yet copied.
Span == sem["read"] + (IF At("read", {"copy"}) THEN 1 ELSE 0)
                    + (IF At("write", {"post"}) THEN 1 ELSE 0)
IndexInv == \/ idx["write"] = idx["read"] + Span
            \/ idx["write"] = idx["read"] + Span - Size

\* A putter that is about to store its word stores it in a place that holds no
\* published word, nor the word a getter is reading at this moment - as long as
\* no signal has ended the sem_wait of a plain call, which stores regardless.
NoOverwrite ==
  slips = 0 /\ At("write", {"copy"}) =>
    \A k \in 0 .. (Unreleased - 1) : (Oldest + k) % Size # idx["write"]

\* mbox_tryput and mbox_tryget ask for the value of the semaphore and then wait
\* on it: the wait never blocks, because only the holder of the mutex takes.
TryNeverWaits == \A t \in Threads : pc[t] = "take" => sem[mySide(t)] > 0

\* The inductive invariant behind the safety properties.
IInv == /\ TypeOK /\ LockInv /\ TokensConserved /\ TryNeverWaits
        /\ slips = 0 => IndexInv

\* The word on its way: a put carries a word, a get has none until it copied it,
\* and the outcome of a call is open until its sem_post (or its failure).
CallInv == \A t \in Threads :
  /\ pc[t] = "idle" <=> op[t] = "none"
  /\ pc[t] # "idle" => (pc[t] = "unlock" <=> res[t] # "pending")
  /\ op[t] \in PutOps => val[t] \in Msg
  /\ op[t] \in GetOps /\ pc[t] \in {"lock", "wait", "take", "copy"} => val[t] = NoMsg
  /\ pc[t] = "take" => op[t] \in TryOps
HandoverInv == \A s \in Sides :
  At(s, {"post"}) => messages[Before(idx[s])] = val[mutex[s]]
SimInv == IInv /\ CallInv /\ (slips = 0 => HandoverInv)

\* The mailbox implements the bounded FIFO: a put takes effect at its sem_post,
\* a get at its sem_post, a refused call when it reads the semaphore.  It does so
\* up to the first plain call that a signal makes go on without a place or a word;
\* from that step on nothing is promised.
Seen == [t \in Threads |-> IF pc[t] = "post" /\ op[t] \in GetOps THEN NoMsg ELSE val[t]]
Abstract == INSTANCE BoundedBuffer WITH Capacity <- Size, buffer <- Contents, val <- Seen
Implements == Abstract!Init /\ [][Abstract!Next \/ slips' > 0]_(Abstract!bvars)

\* A call of the other side that is going to post: nothing but the semaphore it
\* waits for, or already has, stands between it and its sem_post.
WillPost(t) == \E u \in Threads :
  /\ mySide(u) = Other(mySide(t))
  /\ \/ pc[u] \in {"take", "copy", "post"}
     \/ pc[u] = "wait" /\ op[u] \notin InterruptOps

\* A call that waits on its semaphore, and holds the mutex of its side meanwhile,
\* does not keep the other side from posting: it returns once there is something
\* for it (a published word, a free place), and also when there is nothing yet but
\* a call of the other side is under way, whatever the other threads do.  (A signal
\* may end the wait instead, which also lets it return.)
WaiterServed ==
  \A t \in Threads :
    (pc[t] = "wait" /\ (sem[mySide(t)] > 0 \/ WillPost(t))) ~> (pc[t] = "idle")
=============================================================================
