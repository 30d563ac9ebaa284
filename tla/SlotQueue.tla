------------------------------ MODULE SlotQueue ------------------------------
(***************************************************************************)
(* The queue of thread numbers between the reconfiguration scheduler and   *)
(* the dispatcher of a slot (application/queue.c).  Unlike the mailbox it  *)
(* has one mutex for both sides, which is taken AFTER waiting on the       *)
(* semaphore and released BEFORE posting the other one: several callers of *)
(* a side may hold a place at once, and post in another order than they    *)
(* moved their words.                                                      *)
(***************************************************************************)
EXTENDS Naturals, Sequences, FiniteSets

CONSTANTS
  Enqueuers, Dequeuers, (* the threads that call queue_enqueue, queue_dequeue *)
  Inspectors,           (* the threads that call queue_isempty                *)
  NoThread,             (* the holder of the free queue_mutex                 *)
  Msg, NoMsg,           (* thread numbers, and the content of a fresh buffer  *)
  Size                  (* queue->size                                        *)

Threads == Enqueuers \cup Dequeuers \cup Inspectors

ASSUME QueueAssumption ==
  /\ Size \in Nat \ {0}
  /\ IsFiniteSet(Threads)
  /\ NoThread \notin Threads
  /\ NoMsg \notin Msg

VARIABLES
  sem_write, sem_read,  (* free places, published words                       *)
  queue_mutex,          (* the holder                                         *)
  head, tail, buf,      (* the ring                                           *)
  pc, op, val, res,     (* the call of each thread, its word and its outcome  *)
  loaded                (* the index queue_isempty has already loaded         *)

vars == <<sem_write, sem_read, queue_mutex, head, tail, buf, pc, op, val, res, loaded>>

Slots == 0 .. (Size - 1)
PCs == {"idle", "sem", "lock", "copy", "advance", "unlock", "post",
        "load", "compare", "answer"}
NotLoaded == [which |-> "none", index |-> 0]

TypeOK ==
  /\ sem_write \in 0 .. Size /\ sem_read \in 0 .. Size
  /\ queue_mutex \in Threads \cup {NoThread}
  /\ head \in Slots /\ tail \in Slots
  /\ buf \in [Slots -> Msg \cup {NoMsg}]
  /\ pc \in [Threads -> PCs]
  /\ op \in [Threads -> {"enqueue", "dequeue", "isempty", "none"}]
  /\ val \in [Threads -> Msg \cup {NoMsg}]
  /\ res \in [Threads -> {"pending", "ok", "empty", "notempty"}]
  /\ loaded \in [Threads -> [which : {"head", "tail", "none"}, index : Slots]]

Goto(t, p) == pc' = [pc EXCEPT ![t] = p]
Ring == <<head, tail, buf>>

-----------------------------------------------------------------------------

\* queue_init
Init ==
  /\ sem_write = Size /\ sem_read = 0
  /\ queue_mutex = NoThread
  /\ head = 0 /\ tail = 0
  /\ buf = [i \in Slots |-> NoMsg]
  /\ pc = [t \in Threads |-> "idle"]
  /\ op = [t \in Threads |-> "none"]
  /\ val = [t \in Threads |-> NoMsg]
  /\ res = [t \in Threads |-> "ok"]
  /\ loaded = [t \in Threads |-> NotLoaded]

Call(t, o, v, p) ==
  /\ pc[t] = "idle"
  /\ op' = [op EXCEPT ![t] = o]
  /\ val' = [val EXCEPT ![t] = v]
  /\ res' = [res EXCEPT ![t] = "pending"]
  /\ Goto(t, p)
  /\ UNCHANGED <<sem_write, sem_read, queue_mutex, Ring, loaded>>

\* The caller gets val and res.
Return(t) ==
  /\ op' = [op EXCEPT ![t] = "none"]
  /\ val' = [val EXCEPT ![t] = NoMsg]
  /\ res' = [res EXCEPT ![t] = "ok"]
  /\ Goto(t, "idle")

CallEnqueue(t) == t \in Enqueuers /\ \E m \in Msg : Call(t, "enqueue", m, "sem")
CallDequeue(t) == t \in Dequeuers /\ Call(t, "dequeue", NoMsg, "sem")
CallIsEmpty(t) == t \in Inspectors /\ Call(t, "isempty", NoMsg, "load")

\* sem_wait
SemWait(t) ==
  /\ pc[t] = "sem"
  /\ \/ /\ op[t] = "enqueue" /\ sem_write > 0
        /\ sem_write' = sem_write - 1 /\ UNCHANGED sem_read
     \/ /\ op[t] = "dequeue" /\ sem_read > 0
        /\ sem_read' = sem_read - 1 /\ UNCHANGED sem_write
  /\ Goto(t, "lock")
  /\ UNCHANGED <<queue_mutex, Ring, op, val, res, loaded>>

\* Mutant: no mutual exclusion.
LockAtOnce(t) ==
  /\ pc[t] = "lock"
  /\ queue_mutex' = t
  /\ Goto(t, "copy")
  /\ UNCHANGED <<sem_write, sem_read, Ring, op, val, res, loaded>>

\* pthread_mutex_lock
Lock(t) ==
  /\ pc[t] = "lock" /\ queue_mutex = NoThread
  /\ queue_mutex' = t
  /\ Goto(t, "copy")
  /\ UNCHANGED <<sem_write, sem_read, Ring, op, val, res, loaded>>

\* Store or fetch the word ...
Copy(t) ==
  /\ pc[t] = "copy"
  /\ \/ op[t] = "enqueue" /\ buf' = [buf EXCEPT ![tail] = val[t]] /\ UNCHANGED val
     \/ op[t] = "dequeue" /\ val' = [val EXCEPT ![t] = buf[head]] /\ UNCHANGED buf
  /\ Goto(t, "advance")
  /\ UNCHANGED <<sem_write, sem_read, queue_mutex, head, tail, op, res, loaded>>

\* ... and move the index of the side on, from the last place to the first.
After(i) == IF i = Size - 1 THEN 0 ELSE i + 1
Advance(t) ==
  /\ pc[t] = "advance"
  /\ \/ op[t] = "enqueue" /\ tail' = After(tail) /\ UNCHANGED head
     \/ op[t] = "dequeue" /\ head' = After(head) /\ UNCHANGED tail
  /\ res' = [res EXCEPT ![t] = "ok"]
  /\ Goto(t, "unlock")
  /\ UNCHANGED <<sem_write, sem_read, queue_mutex, buf, op, val, loaded>>

\* pthread_mutex_unlock
Unlock(t) ==
  /\ pc[t] = "unlock"
  /\ queue_mutex' = NoThread
  /\ Goto(t, "post")
  /\ UNCHANGED <<sem_write, sem_read, Ring, op, val, res, loaded>>

\* Mutants: a dequeue posts nothing; each side posts its own semaphore.
PostNothing(t) ==
  /\ pc[t] = "post"
  /\ sem_read' = IF op[t] = "enqueue" THEN sem_read + 1 ELSE sem_read
  /\ Return(t)
  /\ UNCHANGED <<sem_write, queue_mutex, Ring, loaded>>
PostSwapped(t) ==
  /\ pc[t] = "post"
  /\ \/ op[t] = "dequeue" /\ sem_read' = sem_read + 1 /\ UNCHANGED sem_write
     \/ op[t] = "enqueue" /\ sem_write' = sem_write + 1 /\ UNCHANGED sem_read
  /\ Return(t)
  /\ UNCHANGED <<queue_mutex, Ring, loaded>>

\* sem_post, and return to the caller
Post(t) ==
  /\ pc[t] = "post"
  /\ \/ /\ op[t] = "enqueue"
        /\ sem_read' = sem_read + 1 /\ UNCHANGED sem_write
     \/ /\ op[t] = "dequeue"
        /\ sem_write' = sem_write + 1 /\ UNCHANGED sem_read
  /\ Return(t)
  /\ UNCHANGED <<queue_mutex, Ring, loaded>>

\* queue_isempty loads head and tail without the mutex, in either order.  Equal
\* indices mean an empty ring or a full one, so no property is stated of the answer.
Load(t) ==
  /\ pc[t] = "load"
  /\ \/ loaded' = [loaded EXCEPT ![t] = [which |-> "head", index |-> head]]
     \/ loaded' = [loaded EXCEPT ![t] = [which |-> "tail", index |-> tail]]
  /\ Goto(t, "compare")
  /\ UNCHANGED <<sem_write, sem_read, queue_mutex, Ring, op, val, res>>

\* It compares the loaded one with the other.
Compare(t) ==
  /\ pc[t] = "compare"
  /\ LET other == IF loaded[t].which = "head" THEN tail ELSE head IN
       res' = [res EXCEPT ![t] = IF loaded[t].index = other THEN "empty" ELSE "notempty"]
  /\ loaded' = [loaded EXCEPT ![t] = NotLoaded]
  /\ Goto(t, "answer")
  /\ UNCHANGED <<sem_write, sem_read, queue_mutex, Ring, op, val>>

ReturnIsEmpty(t) ==
  /\ pc[t] = "answer"
  /\ Return(t)
  /\ UNCHANGED <<sem_write, sem_read, queue_mutex, Ring, loaded>>

Step(t) ==
  \/ SemWait(t) \/ Lock(t) \/ Copy(t) \/ Advance(t) \/ Unlock(t) \/ Post(t)
  \/ Load(t) \/ Compare(t) \/ ReturnIsEmpty(t)

Next == \E t \in Threads :
          CallEnqueue(t) \/ CallDequeue(t) \/ CallIsEmpty(t) \/ Step(t)

Spec == Init /\ [][Next]_vars

\* Running threads are scheduled; nobody has to call.
FairSpec == Spec /\ \A t \in Threads : WF_vars(Step(t))

-----------------------------------------------------------------------------

In(o, P) == {t \in Threads : op[t] = o /\ pc[t] \in P}

\* The words stored and not yet fetched: published ones, those whose sem_post
\* is still to come, and those a dequeuer has already a claim on.
Fill == sem_read + Cardinality(In("enqueue", {"unlock", "post"}))
                 + Cardinality(In("dequeue", {"lock", "copy", "advance"}))
Contents == [i \in 1 .. Fill |-> buf[(head + (i - 1)) % Size]]

\* One thread at a time copies words and moves an index.
LockInv == \A t \in Threads : pc[t] \in {"copy", "advance", "unlock"} <=> queue_mutex = t

\* Places are conserved on both sides of the semaphores: what sem_write and
\* sem_read do not count is held by a caller between its sem_wait and sem_post.
PlacesConserved ==
  sem_write + sem_read
    + Cardinality(In("enqueue", {"lock", "copy", "advance", "unlock", "post"}))
    + Cardinality(In("dequeue", {"lock", "copy", "advance", "unlock", "post"})) = Size

\* head and tail lie exactly Fill places apart: a dequeuer that passed its
\* sem_wait finds a stored word, an enqueuer that passed its own finds room.
IndexInv == tail = head + Fill \/ tail = head + Fill - Size

\* head and tail stay Fill places apart, so that a caller that passed its sem_wait
\* finds a stored word (or a free place), and the word an enqueuer is about to
\* store hits none that is still to be fetched.
NoCollision ==
  /\ IndexInv
  /\ \A t \in Threads : pc[t] = "copy" /\ op[t] = "enqueue" =>
       \A k \in 0 .. (Fill - 1) : (head + k) % Size # tail

\* queue_enqueue and queue_dequeue implement the bounded FIFO: both take effect
\* when the index moves, under the mutex, whatever the order of the posts.
Seen == [t \in Threads |-> IF pc[t] = "advance" /\ op[t] = "dequeue" THEN NoMsg ELSE val[t]]
Abstract == INSTANCE BoundedBuffer WITH
  Capacity <- Size, buffer <- Contents, val <- Seen,
  PutOps <- {"enqueue"}, GetOps <- {"dequeue"}, TryOps <- {}, InterruptOps <- {},
  op <- [t \in Threads |-> IF op[t] = "isempty" THEN "none" ELSE op[t]],
  res <- [t \in Threads |-> IF op[t] \in {"enqueue", "dequeue"} THEN res[t] ELSE "ok"]
Implements == Abstract!Spec

\* A stored word does not get stuck behind the order of the posts: when somebody
\* waits for a word and one is stored, some dequeue returns with a word.
DequeueServed ==
  (Fill > 0 /\ In("dequeue", {"sem"}) # {}) ~> (In("dequeue", {"post"}) # {})
=============================================================================
