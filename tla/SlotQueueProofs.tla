-------------------------- MODULE SlotQueueProofs --------------------------
(***************************************************************************)
(* Safety of the queue of thread numbers (queue.c) for every number of     *)
(* callers, every size of the ring and every set of words.                 *)
(***************************************************************************)
EXTENDS SlotQueue, FiniteSetTheorems, TLAPS

\* The callers of side o that hold a place: with the index still to move, and
\* with the index moved but sem_post to come.
Claimed(o) == In(o, {"lock", "copy", "advance"})
Moved(o) == In(o, {"unlock", "post"})
Holders == Cardinality(Claimed("enqueue")) + Cardinality(Moved("enqueue"))
           + Cardinality(Claimed("dequeue")) + Cardinality(Moved("dequeue"))

\* PlacesConserved, counted by stages of a call.
CountInv == sem_write + sem_read + Holders = Size

\* The call of a thread fits the place where it is.
CallInv == \A t \in Threads :
  /\ pc[t] \in {"sem", "lock", "copy", "advance", "unlock", "post"}
       => op[t] \in {"enqueue", "dequeue"}
  /\ pc[t] \in {"load", "compare", "answer"} => op[t] = "isempty"

IInv == TypeOK /\ CallInv /\ LockInv /\ CountInv /\ IndexInv

-----------------------------------------------------------------------------
(* Counting sets of threads *)

LEMMA ThreadSets ==
  ASSUME NEW S \in SUBSET Threads
  PROVE  IsFiniteSet(S) /\ Cardinality(S) \in Nat
  BY QueueAssumption, FS_Subset, FS_CardinalityType

LEMMA OneMore ==
  ASSUME NEW S \in SUBSET Threads, NEW t \in Threads, t \notin S
  PROVE  Cardinality(S \cup {t}) = Cardinality(S) + 1
  BY ThreadSets, FS_AddElement

LEMMA OneLess ==
  ASSUME NEW S \in SUBSET Threads, NEW t \in S
  PROVE  Cardinality(S \ {t}) = Cardinality(S) - 1
  BY ThreadSets, FS_RemoveElement

LEMMA TwoParts ==
  ASSUME NEW S \in SUBSET Threads, NEW T \in SUBSET Threads, S \cap T = {}
  PROVE  Cardinality(S \cup T) = Cardinality(S) + Cardinality(T)
  <1>1. IsFiniteSet(S) /\ IsFiniteSet(T) /\ Cardinality(S) \in Nat /\ Cardinality(T) \in Nat
    BY ThreadSets
  <1>2. Cardinality(S \cap T) = 0
    BY FS_EmptySet
  <1>3. Cardinality(S \cup T) = Cardinality(S) + Cardinality(T) - Cardinality(S \cap T)
    BY <1>1, FS_Union
  <1> QED BY <1>1, <1>2, <1>3

LEMMA StageCounts ==
  ASSUME NEW o
  PROVE  /\ Claimed(o) \in SUBSET Threads /\ Moved(o) \in SUBSET Threads
         /\ Cardinality(Claimed(o)) \in Nat /\ Cardinality(Moved(o)) \in Nat
         /\ Cardinality(Claimed(o))' \in Nat /\ Cardinality(Moved(o))' \in Nat
  <1>1. Claimed(o) \in SUBSET Threads /\ Moved(o) \in SUBSET Threads
    BY DEF Claimed, Moved, In
  <1>2. Claimed(o)' \in SUBSET Threads /\ Moved(o)' \in SUBSET Threads
    BY DEF Claimed, Moved, In
  <1> QED BY <1>1, <1>2, ThreadSets

-----------------------------------------------------------------------------
(* How a step changes the stages of the callers *)

SameStages == \A o \in {"enqueue", "dequeue"} : Claimed(o)' = Claimed(o) /\ Moved(o)' = Moved(o)

\* A step that moves no thread into or out of a stage.
Elsewhere(t) ==
  CallEnqueue(t) \/ CallDequeue(t) \/ CallIsEmpty(t) \/ Lock(t) \/ Copy(t) \/ Unlock(t)
    \/ Load(t) \/ Compare(t) \/ ReturnIsEmpty(t)

LEMMA ElsewhereSame ==
  ASSUME TypeOK, CallInv, NEW t \in Threads, Elsewhere(t)
  PROVE  SameStages /\ UNCHANGED <<sem_write, sem_read, head, tail>>
  <1> USE DEF TypeOK, SameStages, Claimed, Moved, In, Goto, Ring
  <1>1. CASE CallEnqueue(t) \/ CallDequeue(t) \/ CallIsEmpty(t)
    BY <1>1 DEF CallEnqueue, CallDequeue, CallIsEmpty, Call
  <1>2. CASE Lock(t)
    BY <1>2 DEF Lock
  <1>3. CASE Copy(t)
    BY <1>3 DEF Copy
  <1>4. CASE Unlock(t)
    BY <1>4 DEF Unlock
  <1>5. CASE Load(t) \/ Compare(t)
    BY <1>5 DEF Load, Compare
  <1>6. CASE ReturnIsEmpty(t)
    BY <1>6 DEF ReturnIsEmpty, Return, CallInv
  <1> QED BY <1>1, <1>2, <1>3, <1>4, <1>5, <1>6 DEF Elsewhere

\* Passing the semaphore claims a place.
LEMMA SemWaitClaims ==
  ASSUME TypeOK, CallInv, NEW t \in Threads, SemWait(t)
  PROVE  /\ op[t] \in {"enqueue", "dequeue"}
         /\ Cardinality(Claimed(op[t]))' = Cardinality(Claimed(op[t])) + 1
         /\ \A o \in {"enqueue", "dequeue"} : o # op[t] => Claimed(o)' = Claimed(o)
         /\ \A o \in {"enqueue", "dequeue"} : Moved(o)' = Moved(o)
  <1> USE DEF TypeOK, Claimed, Moved, In, Goto, SemWait
  <1>1. op[t] \in {"enqueue", "dequeue"}
    OBVIOUS
  <1>2. Claimed(op[t])' = Claimed(op[t]) \cup {t} /\ t \notin Claimed(op[t])
    OBVIOUS
  <1>3. Cardinality(Claimed(op[t]))' = Cardinality(Claimed(op[t]) \cup {t})
    BY <1>2
  <1>4. Cardinality(Claimed(op[t]) \cup {t}) = Cardinality(Claimed(op[t])) + 1
    BY <1>2, OneMore, StageCounts
  <1>5. \A o \in {"enqueue", "dequeue"} : o # op[t] => Claimed(o)' = Claimed(o)
    OBVIOUS
  <1>6. \A o \in {"enqueue", "dequeue"} : Moved(o)' = Moved(o)
    OBVIOUS
  <1> QED BY <1>1, <1>3, <1>4, <1>5, <1>6

\* Moving the index turns a claimed place into a moved one.
LEMMA AdvanceMoves ==
  ASSUME TypeOK, NEW t \in Threads, Advance(t)
  PROVE  /\ op[t] \in {"enqueue", "dequeue"}
         /\ Cardinality(Claimed(op[t]))' = Cardinality(Claimed(op[t])) - 1
         /\ Cardinality(Moved(op[t]))' = Cardinality(Moved(op[t])) + 1
         /\ \A o \in {"enqueue", "dequeue"} : o # op[t] =>
              Claimed(o)' = Claimed(o) /\ Moved(o)' = Moved(o)
  <1> USE DEF TypeOK, Claimed, Moved, In, Goto, Advance
  <1>1. op[t] \in {"enqueue", "dequeue"}
    OBVIOUS
  <1>2. /\ Claimed(op[t])' = Claimed(op[t]) \ {t} /\ t \in Claimed(op[t])
        /\ Moved(op[t])' = Moved(op[t]) \cup {t} /\ t \notin Moved(op[t])
    OBVIOUS
  <1>3. /\ Cardinality(Claimed(op[t]))' = Cardinality(Claimed(op[t]) \ {t})
        /\ Cardinality(Moved(op[t]))' = Cardinality(Moved(op[t]) \cup {t})
    BY <1>2
  <1>4. /\ Cardinality(Claimed(op[t]) \ {t}) = Cardinality(Claimed(op[t])) - 1
        /\ Cardinality(Moved(op[t]) \cup {t}) = Cardinality(Moved(op[t])) + 1
    BY <1>2, OneMore, OneLess, StageCounts
  <1>5. \A o \in {"enqueue", "dequeue"} : o # op[t] =>
          Claimed(o)' = Claimed(o) /\ Moved(o)' = Moved(o)
    OBVIOUS
  <1> QED BY <1>1, <1>3, <1>4, <1>5

\* sem_post gives the place to the other side.
LEMMA PostGives ==
  ASSUME TypeOK, NEW t \in Threads, Post(t), NEW o \in {"enqueue", "dequeue"}, op[t] = o
  PROVE  /\ Cardinality(Moved(o))' = Cardinality(Moved(o)) - 1
         /\ \A u \in {"enqueue", "dequeue"} : u # o => Moved(u)' = Moved(u)
         /\ \A u \in {"enqueue", "dequeue"} : Claimed(u)' = Claimed(u)
  <1> USE DEF TypeOK, Claimed, Moved, In, Goto, Post, Return
  <1>2. Moved(o)' = Moved(o) \ {t} /\ t \in Moved(o)
    OBVIOUS
  <1>3. Cardinality(Moved(o))' = Cardinality(Moved(o) \ {t})
    BY <1>2
  <1>4. Cardinality(Moved(o) \ {t}) = Cardinality(Moved(o)) - 1
    BY <1>2, OneLess, StageCounts
  <1>5. \A u \in {"enqueue", "dequeue"} : u # o => Moved(u)' = Moved(u)
    OBVIOUS
  <1>6. \A u \in {"enqueue", "dequeue"} : Claimed(u)' = Claimed(u)
    OBVIOUS
  <1> QED BY <1>3, <1>4, <1>5, <1>6

-----------------------------------------------------------------------------
(* The inductive invariant *)

\* Reduction modulo the ring size of an index that is at most one turn ahead.
LEMMA WrapOnce ==
  ASSUME NEW n \in Nat \ {0}, NEW x \in 0 .. (2 * n - 1)
  PROVE  x % n = IF x < n THEN x ELSE x - n
  OBVIOUS

LEMMA InitIInv == Init => IInv
  <1> SUFFICES ASSUME Init PROVE IInv
    OBVIOUS
  <1>1. TypeOK /\ CallInv /\ LockInv
    BY QueueAssumption DEF Init, TypeOK, CallInv, LockInv, Slots, PCs, NotLoaded
  <1>2. \A o : Claimed(o) = {} /\ Moved(o) = {}
    BY DEF Init, Claimed, Moved, In
  <1>3. CountInv
    BY <1>2, FS_EmptySet, QueueAssumption DEF Init, CountInv, Holders
  <1>4. Fill = 0
    BY <1>2, FS_EmptySet DEF Init, Fill, Claimed, Moved
  <1>5. IndexInv
    BY <1>4, QueueAssumption DEF Init, IndexInv
  <1> QED BY <1>1, <1>3, <1>5 DEF IInv

\* The calls keep to their places and to the mutex.
LEMMA NextCalls ==
  ASSUME TypeOK, CallInv, LockInv, [Next]_vars
  PROVE  CallInv' /\ LockInv'
  <1> USE QueueAssumption DEF TypeOK, Goto, Ring, Return, CallInv, LockInv
  <1>1. ASSUME NEW t \in Threads, CallEnqueue(t) \/ CallDequeue(t) \/ CallIsEmpty(t)
        PROVE  CallInv' /\ LockInv'
    BY <1>1 DEF CallEnqueue, CallDequeue, CallIsEmpty, Call
  <1>2. ASSUME NEW t \in Threads, SemWait(t) PROVE CallInv' /\ LockInv'
    BY <1>2 DEF SemWait
  <1>3. ASSUME NEW t \in Threads, Lock(t) PROVE CallInv' /\ LockInv'
    BY <1>3 DEF Lock
  <1>4. ASSUME NEW t \in Threads, Copy(t) \/ Advance(t) PROVE CallInv' /\ LockInv'
    BY <1>4 DEF Copy, Advance
  <1>5. ASSUME NEW t \in Threads, Unlock(t) PROVE CallInv' /\ LockInv'
    BY <1>5 DEF Unlock
  <1>6. ASSUME NEW t \in Threads, Post(t) \/ ReturnIsEmpty(t) PROVE CallInv' /\ LockInv'
    BY <1>6 DEF Post, ReturnIsEmpty
  <1>7. ASSUME NEW t \in Threads, Load(t) \/ Compare(t) PROVE CallInv' /\ LockInv'
    BY <1>7 DEF Load, Compare
  <1>8. CASE UNCHANGED vars
    BY <1>8 DEF vars
  <1> QED BY <1>1, <1>2, <1>3, <1>4, <1>5, <1>6, <1>7, <1>8 DEF Next, Step

\* The counts of places and the distance of the indices are kept.
LEMMA NextCounts ==
  ASSUME IInv, [Next]_vars
  PROVE  sem_write' \in Nat /\ sem_read' \in Nat /\ CountInv' /\ IndexInv'
  <1> DEFINE ce == Cardinality(Claimed("enqueue"))
             me == Cardinality(Moved("enqueue"))
             cd == Cardinality(Claimed("dequeue"))
             md == Cardinality(Moved("dequeue"))
  <1>0. /\ ce \in Nat /\ me \in Nat /\ cd \in Nat /\ md \in Nat
        /\ ce' \in Nat /\ me' \in Nat /\ cd' \in Nat /\ md' \in Nat
    BY StageCounts
  <1>1. /\ sem_write + sem_read + (ce + me + cd + md) = Size
        /\ Fill = sem_read + me + cd
        /\ sem_write \in Nat /\ sem_read \in Nat /\ head \in 0 .. (Size - 1)
        /\ tail \in 0 .. (Size - 1) /\ Size \in Nat \ {0}
        /\ tail = head + Fill \/ tail = head + Fill - Size
    BY QueueAssumption DEF IInv, TypeOK, CountInv, Holders, Fill, Claimed, Moved, IndexInv, Slots
  <1>2. SUFFICES
          /\ sem_write' \in Nat /\ sem_read' \in Nat
          /\ sem_write' + sem_read' + (ce' + me' + cd' + md') = Size
          /\ \/ tail' = head' + (sem_read' + me' + cd')
             \/ tail' = head' + (sem_read' + me' + cd') - Size
    BY DEF CountInv, Holders, IndexInv, Fill, Claimed, Moved
  <1>3. ASSUME NEW t \in Threads, Elsewhere(t) PROVE <1>2!1
    <2>1. SameStages /\ UNCHANGED <<sem_write, sem_read, head, tail>>
      BY <1>3, ElsewhereSame DEF IInv
    <2>2. ce' = ce /\ me' = me /\ cd' = cd /\ md' = md
      BY <2>1 DEF SameStages
    <2> HIDE DEF ce, me, cd, md
    <2> QED BY <1>1, <2>1, <2>2
  <1>4. CASE UNCHANGED vars
    <2>1. ce' = ce /\ me' = me /\ cd' = cd /\ md' = md
      BY <1>4 DEF vars, Claimed, Moved, In
    <2> HIDE DEF ce, me, cd, md
    <2> QED BY <1>1, <1>4, <2>1 DEF vars
  <1>5. ASSUME NEW t \in Threads, SemWait(t) PROVE <1>2!1
    <2>1. CASE op[t] = "enqueue"
      <3>1. ce' = ce + 1 /\ me' = me /\ cd' = cd /\ md' = md
        BY <1>5, <2>1, SemWaitClaims DEF IInv, SemWait
      <3>2. sem_write' = sem_write - 1 /\ sem_write > 0 /\ UNCHANGED <<sem_read, head, tail>>
        BY <1>5, <2>1 DEF SemWait, Ring
      <3> HIDE DEF ce, me, cd, md
      <3> QED BY <1>0, <1>1, <3>1, <3>2
    <2>2. CASE op[t] = "dequeue"
      <3>1. ce' = ce /\ me' = me /\ cd' = cd + 1 /\ md' = md
        BY <1>5, <2>2, SemWaitClaims DEF IInv, SemWait
      <3>2. sem_read' = sem_read - 1 /\ sem_read > 0 /\ UNCHANGED <<sem_write, head, tail>>
        BY <1>5, <2>2 DEF SemWait, Ring
      <3> HIDE DEF ce, me, cd, md
      <3> QED BY <1>0, <1>1, <3>1, <3>2
    <2> QED BY <1>5, <2>1, <2>2 DEF SemWait
  <1>6. ASSUME NEW t \in Threads, Advance(t) PROVE <1>2!1
    <2>1. CASE op[t] = "enqueue"
      <3>1. ce' = ce - 1 /\ me' = me + 1 /\ cd' = cd /\ md' = md
        BY <1>6, <2>1, AdvanceMoves DEF IInv, Advance
      <3>2. tail' = After(tail) /\ UNCHANGED <<sem_read, sem_write, head>>
        BY <1>6, <2>1 DEF Advance, Ring
      <3>3. tail' = IF tail = Size - 1 THEN 0 ELSE tail + 1
        BY <3>2 DEF After
      <3> HIDE DEF ce, me, cd, md
      <3> QED BY <1>0, <1>1, <3>1, <3>2, <3>3
    <2>2. CASE op[t] = "dequeue"
      <3>1. ce' = ce /\ me' = me /\ cd' = cd - 1 /\ md' = md + 1
        BY <1>6, <2>2, AdvanceMoves DEF IInv, Advance
      <3>2. head' = After(head) /\ UNCHANGED <<sem_read, sem_write, tail>>
        BY <1>6, <2>2 DEF Advance, Ring
      <3>3. head' = IF head = Size - 1 THEN 0 ELSE head + 1
        BY <3>2 DEF After
      <3> HIDE DEF ce, me, cd, md
      <3> QED BY <1>0, <1>1, <3>1, <3>2, <3>3
    <2> QED BY <1>6, <2>1, <2>2 DEF Advance
  <1>7. ASSUME NEW t \in Threads, Post(t) PROVE <1>2!1
    <2>1. CASE op[t] = "enqueue"
      <3>1. ce' = ce /\ me' = me - 1 /\ cd' = cd /\ md' = md
        BY <1>7, <2>1, PostGives DEF IInv
      <3>2. sem_read' = sem_read + 1 /\ UNCHANGED <<sem_write, head, tail>>
        BY <1>7, <2>1 DEF Post, Ring
      <3> HIDE DEF ce, me, cd, md
      <3> QED BY <1>0, <1>1, <3>1, <3>2
    <2>2. CASE op[t] = "dequeue"
      <3>1. ce' = ce /\ me' = me /\ cd' = cd /\ md' = md - 1
        BY <1>7, <2>2, PostGives DEF IInv
      <3>2. sem_write' = sem_write + 1 /\ UNCHANGED <<sem_read, head, tail>>
        BY <1>7, <2>2 DEF Post, Ring
      <3> HIDE DEF ce, me, cd, md
      <3> QED BY <1>0, <1>1, <3>1, <3>2
    <2> QED BY <1>7, <2>1, <2>2 DEF Post
  <1> QED BY <1>3, <1>4, <1>5, <1>6, <1>7 DEF Next, Step, Elsewhere

LEMMA NextTypes ==
  ASSUME IInv, [Next]_vars, sem_write' \in Nat, sem_read' \in Nat, CountInv'
  PROVE  TypeOK'
  <1>1. sem_write' \in 0 .. Size /\ sem_read' \in 0 .. Size
    <2>1. Holders' \in Nat
      BY StageCounts DEF Holders
    <2>2. PICK h \in Nat : sem_write' + sem_read' + h = Size
      BY <2>1 DEF CountInv
    <2>3. PICK a \in Nat, b \in Nat : a = sem_write' /\ b = sem_read'
      OBVIOUS
    <2>4. a + b + h = Size
      BY <2>2, <2>3
    <2>5. Size \in Nat
      BY QueueAssumption
    <2>6. a \in 0 .. Size /\ b \in 0 .. Size
      BY <2>4, <2>5
    <2> QED BY <2>3, <2>6
  <1> USE <1>1, QueueAssumption DEF IInv, TypeOK, Goto, Ring, Return, PCs
  <1>2. ASSUME NEW t \in Threads, CallEnqueue(t) \/ CallDequeue(t) \/ CallIsEmpty(t) PROVE TypeOK'
    <2>1. CASE CallEnqueue(t)
      <3>1. PICK m \in Msg : Call(t, "enqueue", m, "sem")
        BY <2>1 DEF CallEnqueue
      <3> QED BY <3>1 DEF Call
    <2>2. CASE CallDequeue(t)
      BY <2>2 DEF CallDequeue, Call
    <2>3. CASE CallIsEmpty(t)
      BY <2>3 DEF CallIsEmpty, Call
    <2> QED BY <1>2, <2>1, <2>2, <2>3
  <1>3. ASSUME NEW t \in Threads, SemWait(t) \/ Lock(t) \/ Unlock(t) PROVE TypeOK'
    BY <1>3 DEF SemWait, Lock, Unlock
  <1>4. ASSUME NEW t \in Threads, Copy(t) PROVE TypeOK'
    BY <1>4 DEF Copy
  <1>5. ASSUME NEW t \in Threads, Advance(t) PROVE TypeOK'
    BY <1>5 DEF Advance, After, Slots
  <1>6. ASSUME NEW t \in Threads, Post(t) \/ ReturnIsEmpty(t) PROVE TypeOK'
    BY <1>6 DEF Post, ReturnIsEmpty
  <1>7. ASSUME NEW t \in Threads, Load(t) PROVE TypeOK'
    <2>1. PICK r \in [which : {"head", "tail", "none"}, index : Slots] :
            loaded' = [loaded EXCEPT ![t] = r]
      BY <1>7 DEF Load
    <2> QED BY <1>7, <2>1 DEF Load
  <1>8. ASSUME NEW t \in Threads, Compare(t) PROVE TypeOK'
    <2>1. NotLoaded \in [which : {"head", "tail", "none"}, index : Slots]
      BY DEF NotLoaded, Slots
    <2> QED BY <1>8, <2>1 DEF Compare
  <1>9. CASE UNCHANGED vars
    BY <1>9 DEF vars
  <1> QED BY <1>2, <1>3, <1>4, <1>5, <1>6, <1>7, <1>8, <1>9 DEF Next, Step

LEMMA NextIInv == IInv /\ [Next]_vars => IInv'
  BY NextCalls, NextCounts, NextTypes DEF IInv

\* queue.c: every call of every thread keeps the places, the indices and the mutex
\* of the queue consistent.
THEOREM InductiveInvariant == Spec => []IInv
  BY InitIInv, NextIInv, PTL DEF Spec

\* The semaphores stay between 0 and the size, the indices inside the ring.
THEOREM TypeCorrect == Spec => []TypeOK
  <1>1. IInv => TypeOK
    BY DEF IInv
  <1> QED BY <1>1, InductiveInvariant, PTL

\* What the semaphores of queue.c do not count is held by a caller between its
\* sem_wait and its sem_post.
THEOREM PlacesAreConserved == Spec => []PlacesConserved
  <1>1. ASSUME NEW o
        PROVE  Cardinality(In(o, {"lock", "copy", "advance", "unlock", "post"}))
               = Cardinality(Claimed(o)) + Cardinality(Moved(o))
    <2>1. In(o, {"lock", "copy", "advance", "unlock", "post"}) = Claimed(o) \cup Moved(o)
      BY DEF In, Claimed, Moved
    <2>2. Claimed(o) \cap Moved(o) = {}
      BY DEF In, Claimed, Moved
    <2> QED BY <2>1, <2>2, StageCounts, TwoParts
  <1>2. IInv => PlacesConserved
    BY <1>1, StageCounts DEF IInv, TypeOK, CountInv, Holders, PlacesConserved
  <1> QED BY <1>2, InductiveInvariant, PTL

\* Nobody stores into a place of the ring that holds a word still to be fetched.
LEMMA IInvNoCollision == IInv => NoCollision
  <1>1. ASSUME IInv, NEW t \in Threads, pc[t] = "copy", op[t] = "enqueue",
               NEW k \in 0 .. (Fill - 1)
        PROVE  (head + k) % Size # tail
    <2>1. Cardinality(Claimed("enqueue")) > 0
      <3>1. t \in Claimed("enqueue")
        BY <1>1 DEF Claimed, In
      <3> QED BY <3>1, StageCounts, ThreadSets, FS_EmptySet
    <2>2. Fill \in 0 .. (Size - 1) /\ head \in 0 .. (Size - 1) /\ tail \in 0 .. (Size - 1)
      <3>1. head \in 0 .. (Size - 1) /\ tail \in 0 .. (Size - 1) /\ sem_read \in Nat /\ sem_write \in Nat
        BY <1>1 DEF IInv, TypeOK, Slots
      <3>2. sem_write + sem_read + Holders = Size
        BY <1>1 DEF IInv, CountInv
      <3>3. Fill = sem_read + Cardinality(Moved("enqueue")) + Cardinality(Claimed("dequeue"))
        BY DEF Fill, Moved, Claimed
      <3>4. PICK a, b, c, d \in Nat :
              /\ a = Cardinality(Claimed("enqueue")) /\ b = Cardinality(Moved("enqueue"))
              /\ c = Cardinality(Claimed("dequeue")) /\ d = Cardinality(Moved("dequeue"))
        BY StageCounts
      <3>5. a > 0 /\ sem_write + sem_read + (a + b + c + d) = Size /\ Fill = sem_read + b + c
        BY <2>1, <3>2, <3>3, <3>4 DEF Holders
      <3> QED BY <3>1, <3>5, QueueAssumption
    <2>3. Size \in Nat \ {0} /\ k \in Int /\ 0 <= k /\ k < Fill
      BY <1>1, <2>2, QueueAssumption
    <2>4. PICK x \in 0 .. (2 * Size - 1) : x = head + k
      BY <2>2, <2>3
    <2>5. x % Size = IF x < Size THEN x ELSE x - Size
      BY <2>3, WrapOnce
    <2>6. tail = head + Fill \/ tail = head + Fill - Size
      BY <1>1 DEF IInv, IndexInv
    <2> QED BY <2>2, <2>3, <2>4, <2>5, <2>6
  <1> QED BY <1>1 DEF NoCollision, IInv

\* The indices stay apart by the number of stored words, and no enqueuer overwrites one.
THEOREM NobodyCollides == Spec => []NoCollision
  BY IInvNoCollision, InductiveInvariant, PTL

-----------------------------------------------------------------------------
(* The refinement: StageInv and HandoverInv say what a caller has done and  *)
(* knows at each place of its call.                                         *)

StageInv == \A t \in Threads :
  /\ pc[t] = "idle" <=> op[t] = "none"
  /\ pc[t] \in {"sem", "lock", "copy", "advance"} => res[t] = "pending"
  /\ pc[t] \in {"unlock", "post"} => res[t] = "ok"
  /\ op[t] \in {"none", "isempty"} => val[t] = NoMsg
  /\ op[t] = "dequeue" /\ pc[t] \in {"sem", "lock", "copy"} => val[t] = NoMsg

\* Between copying its word and moving the index the caller has the word of the place.
HandoverInv == \A t \in Threads : pc[t] = "advance" =>
  /\ op[t] = "enqueue" => buf[tail] = val[t]
  /\ op[t] = "dequeue" => buf[head] = val[t]

SimInv == IInv /\ StageInv /\ HandoverInv

LEMMA InitSim == Init => StageInv /\ HandoverInv
  BY DEF Init, StageInv, HandoverInv

LEMMA NextStageInv ==
  ASSUME SimInv, [Next]_vars PROVE StageInv'
  <1> USE DEF SimInv, IInv, TypeOK, CallInv, StageInv, Goto, Ring, Return
  <1>1. ASSUME NEW t \in Threads, CallEnqueue(t) PROVE StageInv'
    BY <1>1 DEF CallEnqueue, Call
  <1>2. ASSUME NEW t \in Threads, CallDequeue(t) \/ CallIsEmpty(t) PROVE StageInv'
    BY <1>2 DEF CallDequeue, CallIsEmpty, Call
  <1>3. ASSUME NEW t \in Threads, SemWait(t) PROVE StageInv'
    BY <1>3 DEF SemWait
  <1>4. ASSUME NEW t \in Threads, Lock(t) \/ Unlock(t) PROVE StageInv'
    BY <1>4 DEF Lock, Unlock
  <1>5. ASSUME NEW t \in Threads, Copy(t) PROVE StageInv'
    BY <1>5 DEF Copy
  <1>6. ASSUME NEW t \in Threads, Advance(t) PROVE StageInv'
    BY <1>6 DEF Advance
  <1>7. ASSUME NEW t \in Threads, Post(t) \/ ReturnIsEmpty(t) PROVE StageInv'
    BY <1>7 DEF Post, ReturnIsEmpty
  <1>8. ASSUME NEW t \in Threads, Load(t) PROVE StageInv'
    BY <1>8 DEF Load
  <1>9. ASSUME NEW t \in Threads, Compare(t) PROVE StageInv'
    BY <1>9 DEF Compare
  <1>10. CASE UNCHANGED vars
    BY <1>10 DEF vars
  <1> QED BY <1>1, <1>2, <1>3, <1>4, <1>5, <1>6, <1>7, <1>8, <1>9, <1>10 DEF Next, Step

LEMMA NextHandoverInv ==
  ASSUME SimInv, [Next]_vars PROVE HandoverInv'
  <1> USE QueueAssumption DEF SimInv, IInv, TypeOK, CallInv, HandoverInv, LockInv, Goto, Ring, Return
  <1>1. ASSUME NEW t \in Threads, CallEnqueue(t) \/ CallDequeue(t) \/ CallIsEmpty(t)
        PROVE  HandoverInv'
    BY <1>1 DEF CallEnqueue, CallDequeue, CallIsEmpty, Call
  <1>2. ASSUME NEW t \in Threads, SemWait(t) \/ Lock(t) \/ Unlock(t) PROVE HandoverInv'
    BY <1>2 DEF SemWait, Lock, Unlock
  <1>3. ASSUME NEW t \in Threads, Copy(t) PROVE HandoverInv'
    <2>1. \A u \in Threads : u # t => pc'[u] # "advance"
      BY <1>3 DEF Copy
    <2>2. op'[t] = "enqueue" => buf'[tail'] = val'[t]
      BY <1>3 DEF Copy
    <2>3. op'[t] = "dequeue" => buf'[head'] = val'[t]
      BY <1>3 DEF Copy
    <2> QED BY <2>1, <2>2, <2>3
  <1>4. ASSUME NEW t \in Threads, Advance(t) PROVE HandoverInv'
    <2>1. \A u \in Threads : pc'[u] # "advance"
      BY <1>4 DEF Advance
    <2> QED BY <2>1
  <1>5. ASSUME NEW t \in Threads, Post(t) \/ ReturnIsEmpty(t) PROVE HandoverInv'
    BY <1>5 DEF Post, ReturnIsEmpty
  <1>6. ASSUME NEW t \in Threads, Load(t) \/ Compare(t) PROVE HandoverInv'
    BY <1>6 DEF Load, Compare
  <1>7. CASE UNCHANGED vars
    BY <1>7 DEF vars
  <1> QED BY <1>1, <1>2, <1>3, <1>4, <1>5, <1>6, <1>7 DEF Next, Step

LEMMA SimulationInvariant == Spec => []SimInv
  <1>1. Init => SimInv
    BY InitIInv, InitSim DEF SimInv
  <1>2. SimInv /\ [Next]_vars => SimInv'
    BY NextIInv, NextStageInv, NextHandoverInv DEF SimInv
  <1> QED BY <1>1, <1>2, PTL DEF Spec

\* The number of stored words, and the place of each.
LEMMA FillRange ==
  ASSUME IInv
  PROVE  /\ Fill \in 0 .. Size /\ Size \in Nat \ {0}
         /\ head \in 0 .. (Size - 1) /\ tail \in 0 .. (Size - 1)
         /\ tail = head + Fill \/ tail = head + Fill - Size
         /\ \A k \in 0 .. Fill : (head + k) % Size = IF head + k < Size THEN head + k
                                                                   ELSE head + k - Size
  <1>1. /\ Fill \in 0 .. Size /\ Size \in Nat \ {0}
        /\ head \in 0 .. (Size - 1) /\ tail \in 0 .. (Size - 1)
    <2>1. head \in 0 .. (Size - 1) /\ tail \in 0 .. (Size - 1) /\ sem_read \in Nat /\ sem_write \in Nat
      BY DEF IInv, TypeOK, Slots
    <2>2. sem_write + sem_read + Holders = Size
      BY DEF IInv, CountInv
    <2>3. Fill = sem_read + Cardinality(Moved("enqueue")) + Cardinality(Claimed("dequeue"))
      BY DEF Fill, Moved, Claimed
    <2>4. PICK a, b, c, d \in Nat :
            /\ a = Cardinality(Claimed("enqueue")) /\ b = Cardinality(Moved("enqueue"))
            /\ c = Cardinality(Claimed("dequeue")) /\ d = Cardinality(Moved("dequeue"))
      BY StageCounts
    <2>5. sem_write + sem_read + (a + b + c + d) = Size /\ Fill = sem_read + b + c
      BY <2>2, <2>3, <2>4 DEF Holders
    <2> QED BY <2>1, <2>5, QueueAssumption
  <1>2. ASSUME NEW k \in 0 .. Fill
        PROVE  (head + k) % Size = IF head + k < Size THEN head + k ELSE head + k - Size
    <2>1. PICK x \in 0 .. (2 * Size - 1) : x = head + k
      BY <1>1
    <2>2. x % Size = IF x < Size THEN x ELSE x - Size
      BY <1>1, WrapOnce
    <2> QED BY <1>1, <2>1, <2>2
  <1>3. tail = head + Fill \/ tail = head + Fill - Size
    BY DEF IInv, IndexInv
  <1> QED BY ONLY <1>1, <1>2, <1>3

LEMMA FillRangeNext ==
  ASSUME IInv' PROVE Fill' \in 0 .. Size
  BY StageCounts, QueueAssumption
  DEF IInv, TypeOK, CountInv, Holders, Fill, Claimed, Moved

LEMMA ContentsSeq ==
  ASSUME IInv
  PROVE  /\ Contents \in Seq(Msg \cup {NoMsg}) /\ Len(Contents) = Fill
         /\ Contents = [i \in 1 .. Fill |-> buf[(head + (i - 1)) % Size]]
  <1>1. ASSUME NEW i \in 1 .. Fill
        PROVE  buf[(head + (i - 1)) % Size] \in Msg \cup {NoMsg}
    <2>1. PICK k \in 0 .. Fill : k = i - 1
      BY <1>1, FillRange
    <2>2. (head + k) % Size \in Slots
      BY <2>1, FillRange DEF Slots
    <2>3. (head + (i - 1)) % Size \in Slots
      BY <2>1, <2>2
    <2> QED BY <2>3 DEF IInv, TypeOK
  <1>2. Fill \in Nat
    BY FillRange
  <1> HIDE DEF Fill
  <1> QED BY <1>1, <1>2 DEF Contents

\* A step that leaves the indices and the counted callers alone is a stutter of
\* the abstract buffer as long as the stored words stay.
LEMMA SameContents ==
  ASSUME IInv, Fill' = Fill, head' = head,
         \A k \in 0 .. (Fill - 1) : buf'[(head + k) % Size] = buf[(head + k) % Size]
  PROVE  Contents' = Contents
  <1>1. Fill \in Nat
    BY FillRange
  <1>2. ASSUME NEW i \in 1 .. Fill
        PROVE  buf'[(head + (i - 1)) % Size] = buf[(head + (i - 1)) % Size]
    <2>1. i - 1 \in 0 .. (Fill - 1)
      BY <1>1
    <2> QED BY <2>1
  <1> HIDE DEF Fill
  <1> QED BY <1>2 DEF Contents

\* The calls and results as BoundedBuffer sees them.
SeenOp == [t \in Threads |-> IF op[t] = "isempty" THEN "none" ELSE op[t]]
SeenRes == [t \in Threads |-> IF op[t] \in {"enqueue", "dequeue"} THEN res[t] ELSE "ok"]

\* A thread moves on without a visible effect.
LEMMA QuietSteps ==
  ASSUME SimInv, NEW t \in Threads,
         SemWait(t) \/ Lock(t) \/ Copy(t) \/ Unlock(t) \/ Load(t) \/ Compare(t)
  PROVE  SeenOp' = SeenOp /\ SeenRes' = SeenRes /\ Seen' = Seen
  <1> USE DEF SimInv, IInv, TypeOK, CallInv, StageInv, Goto, Ring, SeenOp, SeenRes, Seen
  <1>1. CASE SemWait(t)
    BY <1>1 DEF SemWait
  <1>2. CASE Lock(t) \/ Unlock(t)
    BY <1>2 DEF Lock, Unlock
  <1>3. CASE Copy(t)
    BY <1>3 DEF Copy
  <1>4. CASE Load(t)
    BY <1>4 DEF Load
  <1>5. CASE Compare(t)
    BY <1>5 DEF Compare
  <1> QED BY <1>1, <1>2, <1>3, <1>4, <1>5

\* The number of stored words changes only when an index moves.
LEMMA FillSteps ==
  ASSUME IInv, NEW t \in Threads
  PROVE  /\ Elsewhere(t) \/ SemWait(t) \/ Post(t) => Fill' = Fill
         /\ Advance(t) /\ op[t] = "enqueue" => Fill' = Fill + 1
         /\ Advance(t) /\ op[t] = "dequeue" => Fill' = Fill - 1
  <1> DEFINE me == Cardinality(Moved("enqueue"))
             cd == Cardinality(Claimed("dequeue"))
  <1>0. /\ me \in Nat /\ cd \in Nat /\ me' \in Nat /\ cd' \in Nat /\ sem_read \in Nat
        /\ Fill = sem_read + me + cd /\ Fill' = sem_read' + me' + cd'
    BY StageCounts, QueueAssumption DEF IInv, TypeOK, Fill, Claimed, Moved
  <1>1. CASE Elsewhere(t)
    <2>1. me' = me /\ cd' = cd /\ sem_read' = sem_read
      BY <1>1, ElsewhereSame DEF SameStages, IInv
    <2> QED BY <1>0, <1>1, <2>1 DEF Elsewhere, Advance, Lock, Copy, Unlock, Load, Compare,
          ReturnIsEmpty, CallEnqueue, CallDequeue, CallIsEmpty, Call
  <1>2. CASE SemWait(t)
    <2>1. CASE op[t] = "enqueue"
      <3>1. me' = me /\ cd' = cd /\ sem_read' = sem_read
        BY <1>2, <2>1, SemWaitClaims DEF IInv, SemWait
      <3> QED BY <1>0, <1>2, <3>1 DEF SemWait, Advance
    <2>2. CASE op[t] = "dequeue"
      <3>1. me' = me /\ cd' = cd + 1 /\ sem_read' = sem_read - 1
        BY <1>2, <2>2, SemWaitClaims DEF IInv, SemWait
      <3> HIDE DEF me, cd
      <3>2. Fill' = Fill
        BY <1>0, <3>1
      <3> QED BY <1>2, <3>2 DEF SemWait, Advance
    <2> QED BY <1>2, <2>1, <2>2 DEF SemWait
  <1>3. CASE Post(t)
    <2>1. CASE op[t] = "enqueue"
      <3>1. me' = me - 1 /\ cd' = cd /\ sem_read' = sem_read + 1
        BY <1>3, <2>1, PostGives DEF IInv, Post
      <3> HIDE DEF me, cd
      <3>2. Fill' = Fill
        BY <1>0, <3>1
      <3> QED BY <1>3, <3>2 DEF Post, Advance
    <2>2. CASE op[t] = "dequeue"
      <3>1. me' = me /\ cd' = cd /\ sem_read' = sem_read
        BY <1>3, <2>2, PostGives DEF IInv, Post
      <3> QED BY <1>0, <1>3, <3>1 DEF Post, Advance
    <2> QED BY <1>3, <2>1, <2>2 DEF Post
  <1>4. ASSUME Advance(t), op[t] = "enqueue" PROVE Fill' = Fill + 1
    <2>1. me' = me + 1 /\ cd' = cd /\ sem_read' = sem_read
      BY <1>4, AdvanceMoves DEF IInv, Advance
    <2> HIDE DEF me, cd
    <2> QED BY <1>0, <2>1
  <1>5. ASSUME Advance(t), op[t] = "dequeue" PROVE Fill' = Fill - 1
    <2>1. me' = me /\ cd' = cd - 1 /\ sem_read' = sem_read
      BY <1>5, AdvanceMoves DEF IInv, Advance
    <2> HIDE DEF me, cd
    <2> QED BY <1>0, <2>1
  <1> QED BY <1>1, <1>2, <1>3, <1>4, <1>5

\* Every step of the queue is a step of the bounded FIFO, or changes nothing of
\* what the callers see.
LEMMA StepSimulation ==
  SimInv /\ [Next]_vars => [Abstract!Next]_(Abstract!bvars)
  <1> SUFFICES ASSUME SimInv, [Next]_vars PROVE [Abstract!Next]_(Abstract!bvars)
    OBVIOUS
  <1> USE DEF SimInv
  <1>1. ASSUME NEW t \in Threads, NEW o \in {"enqueue", "dequeue"}, NEW v,
               Call(t, o, v, "sem"), o = "enqueue" => v \in Msg, o = "dequeue" => v = NoMsg,
               Elsewhere(t)
        PROVE  Abstract!Next
    <2>1. Contents' = Contents
      BY <1>1, FillSteps, SameContents DEF Call, Ring
    <2>2. op[t] = "none"
      BY <1>1 DEF Call, StageInv
    <2>3. /\ SeenOp' = [SeenOp EXCEPT ![t] = o] /\ SeenOp[t] = "none"
          /\ SeenRes' = [SeenRes EXCEPT ![t] = "pending"]
          /\ Seen' = [Seen EXCEPT ![t] = v]
      BY <1>1, <2>2 DEF Call, Goto, SeenOp, SeenRes, Seen, IInv, TypeOK
    <2>4. Abstract!Invoke(t)
      BY <1>1, <2>1, <2>3 DEF Abstract!Invoke, SeenOp, SeenRes
    <2> QED BY <2>4 DEF Abstract!Next
  <1>2. ASSUME NEW t \in Threads, CallIsEmpty(t) PROVE UNCHANGED Abstract!bvars
    <2>1. Contents' = Contents
      BY <1>2, FillSteps, SameContents DEF CallIsEmpty, Call, Ring, Elsewhere
    <2>2. SeenOp' = SeenOp /\ SeenRes' = SeenRes /\ Seen' = Seen
      BY <1>2 DEF CallIsEmpty, Call, Goto, SeenOp, SeenRes, Seen, IInv, TypeOK, StageInv
    <2> QED BY <2>1, <2>2 DEF Abstract!bvars, SeenOp, SeenRes
  <1>3. ASSUME NEW t \in Threads, SemWait(t) \/ Lock(t) \/ Unlock(t) \/ Load(t) \/ Compare(t)
        PROVE  UNCHANGED Abstract!bvars
    <2>1. Contents' = Contents
      BY <1>3, FillSteps, SameContents
      DEF SemWait, Lock, Unlock, Load, Compare, Ring, Elsewhere
    <2>2. SeenOp' = SeenOp /\ SeenRes' = SeenRes /\ Seen' = Seen
      BY <1>3, QuietSteps
    <2> QED BY <2>1, <2>2 DEF Abstract!bvars, SeenOp, SeenRes
  <1>4. ASSUME NEW t \in Threads, Copy(t) PROVE UNCHANGED Abstract!bvars
    <2>0. Fill' = Fill /\ head' = head
      BY <1>4, FillSteps DEF Elsewhere, Copy
    <2>1. ASSUME NEW k \in 0 .. (Fill - 1)
          PROVE  buf'[(head + k) % Size] = buf[(head + k) % Size]
      <3>1. CASE op[t] = "enqueue"
        <4>1. (head + k) % Size # tail
          BY <1>4, <2>1, <3>1, IInvNoCollision DEF NoCollision, Copy
        <4>2. buf' = [buf EXCEPT ![tail] = val[t]]
          BY <1>4, <3>1 DEF Copy
        <4> QED BY <4>1, <4>2 DEF IInv, TypeOK
      <3>2. CASE op[t] = "dequeue"
        BY <1>4, <3>2 DEF Copy
      <3> QED BY <1>4, <3>1, <3>2 DEF Copy
    <2>2. Contents' = Contents
      BY <2>0, <2>1, SameContents
    <2>3. SeenOp' = SeenOp /\ SeenRes' = SeenRes /\ Seen' = Seen
      BY <1>4, QuietSteps
    <2> QED BY <2>2, <2>3 DEF Abstract!bvars, SeenOp, SeenRes
  <1>5. ASSUME NEW t \in Threads, Advance(t) PROVE Abstract!Next
    <2> DEFINE f == Fill
               c == Contents
    <2>0. /\ pc[t] = "advance" /\ res[t] = "pending" /\ SeenRes[t] = "pending"
          /\ SeenOp' = SeenOp /\ SeenOp[t] = op[t]
          /\ SeenRes' = [SeenRes EXCEPT ![t] = "ok"] /\ buf' = buf
          /\ op[t] \in {"enqueue", "dequeue"}
      BY <1>5 DEF Advance, StageInv, SeenOp, SeenRes, IInv, TypeOK
    <2>n. /\ f \in 0 .. Size /\ Size \in Nat \ {0}
          /\ head \in 0 .. (Size - 1) /\ tail \in 0 .. (Size - 1)
          /\ tail = head + f \/ tail = head + f - Size
          /\ \A k \in 0 .. f : (head + k) % Size = IF head + k < Size THEN head + k
                                                                 ELSE head + k - Size
          /\ c \in Seq(Msg \cup {NoMsg}) /\ Len(c) = f
          /\ c = [i \in 1 .. f |-> buf[(head + (i - 1)) % Size]]
      BY FillRange, ContentsSeq
    <2>1. CASE op[t] = "enqueue"
      <3>1. Fill' = f + 1 /\ head' = head /\ f < Size
        <4>1. Fill' = f + 1 /\ head' = head
          BY <1>5, <2>1, FillSteps DEF Advance
        <4>2. Fill' \in 0 .. Size
          BY NextIInv, FillRangeNext
        <4> QED BY <2>n, <4>1, <4>2
      <3>2. (head + f) % Size = tail
        <4>1. PICK k \in 0 .. f : k = f
          BY <2>n
        <4>2. (head + k) % Size = IF head + k < Size THEN head + k ELSE head + k - Size
          BY <2>n
        <4> HIDE DEF f
        <4> QED BY <2>n, <3>1, <4>1, <4>2
      <3>3. val[t] = buf[tail] /\ Seen[t] = val[t] /\ Seen' = Seen
        BY <1>5, <2>1 DEF Advance, HandoverInv, Seen, Goto, IInv, TypeOK
      <3>4. Contents' = Append(c, Seen[t])
        <4>1. Contents' = [i \in 1 .. (f + 1) |-> buf[(head + (i - 1)) % Size]]
          BY <2>0, <3>1 DEF Contents
        <4> HIDE DEF f, c
        <4>2. (f + 1) - 1 = f /\ f \in Nat
          BY <2>n
        <4>3. buf[(head + ((f + 1) - 1)) % Size] = Seen[t]
          BY <3>2, <3>3, <4>2
        <4>4. c \in Seq(Msg \cup {NoMsg}) /\ Len(c) = f
              /\ c = [i \in 1 .. f |-> buf[(head + (i - 1)) % Size]]
          BY <2>n
        <4> QED BY ONLY <4>1, <4>2, <4>3, <4>4
      <3>5. Abstract!Insert(t)
        BY <2>0, <2>1, <2>n, <3>1, <3>3, <3>4 DEF Abstract!Insert, SeenOp, SeenRes
      <3> QED BY <3>5 DEF Abstract!Next
    <2>2. CASE op[t] = "dequeue"
      <3>1. Fill' = f - 1 /\ head' = (IF head = Size - 1 THEN 0 ELSE head + 1) /\ f > 0
        <4>1. Fill' = f - 1 /\ head' = (IF head = Size - 1 THEN 0 ELSE head + 1)
          BY <1>5, <2>2, FillSteps DEF Advance, After
        <4>2. Fill' \in 0 .. Size
          BY NextIInv, FillRangeNext
        <4> QED BY <2>n, <4>1, <4>2
      <3>2. ASSUME NEW i \in 1 .. (f - 1)
            PROVE  (head' + (i - 1)) % Size = (head + i) % Size
        <4>1. head' + (i - 1) \in 0 .. (2 * Size - 1) /\ i \in 0 .. f
          BY <2>n, <3>1
        <4>2. PICK x \in 0 .. (2 * Size - 1) : x = head' + (i - 1)
          BY <4>1
        <4>3. x % Size = IF x < Size THEN x ELSE x - Size
          BY <2>n, WrapOnce
        <4>4. (head + i) % Size = IF head + i < Size THEN head + i ELSE head + i - Size
          BY <2>n, <4>1
        <4> HIDE DEF f
        <4> QED BY <2>n, <3>1, <4>2, <4>3, <4>4
      <3>3. Contents' = Tail(c)
        <4>1. Contents' = [i \in 1 .. (f - 1) |-> buf[(head' + (i - 1)) % Size]]
          BY <2>0, <3>1 DEF Contents
        <4>2. Contents' = [i \in 1 .. (f - 1) |-> buf[(head + i) % Size]]
          BY <3>2, <4>1
        <4> HIDE DEF f, c
        <4>3. ASSUME NEW i \in 1 .. (f - 1) PROVE c[i + 1] = buf[(head + i) % Size]
          BY <2>n, <3>1
        <4>4. Tail(c) = [i \in 1 .. (f - 1) |-> c[i + 1]]
          BY <2>n, <3>1
        <4> QED BY <4>2, <4>3, <4>4
      <3>4. Head(c) = val[t] /\ c # <<>>
        <4>1. c[1] = buf[(head + (1 - 1)) % Size]
          BY <2>n, <3>1
        <4>2. (head + 0) % Size = head
          BY <2>n
        <4>3. buf[head] = val[t]
          BY <1>5, <2>2 DEF Advance, HandoverInv
        <4> HIDE DEF f, c
        <4>4. (1 - 1) = 0 /\ Len(c) > 0 /\ c \in Seq(Msg \cup {NoMsg})
          BY <2>n, <3>1
        <4>5. c[1] = val[t]
          BY <4>1, <4>2, <4>3, <4>4
        <4> QED BY ONLY <4>4, <4>5
      <3>5. Seen' = [Seen EXCEPT ![t] = val[t]]
        BY <1>5, <2>2 DEF Advance, Seen, Goto, IInv, TypeOK
      <3>6. Abstract!Remove(t)
        BY <2>0, <2>2, <3>3, <3>4, <3>5 DEF Abstract!Remove, SeenOp, SeenRes
      <3> QED BY <3>6 DEF Abstract!Next
    <2> QED BY <2>0, <2>1, <2>2
  <1>6. ASSUME NEW t \in Threads, Post(t) PROVE Abstract!Next
    <2>1. Contents' = Contents
      BY <1>6, FillSteps, SameContents DEF Post, Ring
    <2>2. /\ SeenOp[t] # "none" /\ SeenRes[t] # "pending"
          /\ SeenOp' = [SeenOp EXCEPT ![t] = "none"]
          /\ SeenRes' = [SeenRes EXCEPT ![t] = "ok"]
          /\ Seen' = [Seen EXCEPT ![t] = NoMsg]
      BY <1>6 DEF Post, Return, Goto, StageInv, SeenOp, SeenRes, Seen, IInv, TypeOK
    <2>3. Abstract!Return(t)
      BY <2>1, <2>2 DEF Abstract!Return, SeenOp, SeenRes
    <2> QED BY <2>3 DEF Abstract!Next
  <1>7. ASSUME NEW t \in Threads, ReturnIsEmpty(t) PROVE UNCHANGED Abstract!bvars
    <2>1. Contents' = Contents
      BY <1>7, FillSteps, SameContents DEF ReturnIsEmpty, Ring, Elsewhere
    <2>2. SeenOp' = SeenOp /\ SeenRes' = SeenRes /\ Seen' = Seen
      BY <1>7 DEF ReturnIsEmpty, Return, Goto, SeenOp, SeenRes, Seen, IInv, TypeOK, StageInv, CallInv
    <2> QED BY <2>1, <2>2 DEF Abstract!bvars, SeenOp, SeenRes
  <1>8. CASE UNCHANGED vars
    <2>1. Fill' = Fill /\ head' = head /\ buf' = buf
      BY <1>8 DEF vars, Fill, In
    <2>2. Contents' = Contents
      BY <2>1 DEF Contents
    <2> QED BY <1>8, <2>2 DEF vars, Seen, Abstract!bvars
  <1>9. ASSUME NEW t \in Threads, CallEnqueue(t) \/ CallDequeue(t) PROVE Abstract!Next
    <2>1. CASE CallEnqueue(t)
      BY <1>1, <2>1 DEF CallEnqueue, Elsewhere
    <2>2. CASE CallDequeue(t)
      BY <1>1, <2>2 DEF CallDequeue, Elsewhere
    <2> QED BY <1>9, <2>1, <2>2
  <1> QED
    BY <1>2, <1>3, <1>4, <1>5, <1>6, <1>7, <1>8, <1>9 DEF Next, Step

\* queue_enqueue and queue_dequeue implement the bounded FIFO for every number of
\* callers, every ring size and every set of words.
THEOREM QueueImplementsFifo == Spec => Implements
  <1>1. Init => Abstract!Init
    <2> SUFFICES ASSUME Init PROVE Abstract!Init
      OBVIOUS
    <2>1. Contents = <<>>
      <3>1. \A o : Claimed(o) = {} /\ Moved(o) = {}
        BY DEF Init, Claimed, Moved, In
      <3>2. Fill = 0
        BY <3>1, FS_EmptySet DEF Init, Fill, Claimed, Moved
      <3> QED BY <3>2, InitIInv, ContentsSeq
    <2> QED BY <2>1 DEF Init, Abstract!Init, Seen
  <1>2. SimInv /\ [Next]_vars => [Abstract!Next]_(Abstract!bvars)
    BY StepSimulation
  <1> QED BY <1>1, <1>2, SimulationInvariant, PTL DEF Spec, Implements, Abstract!Spec
=============================================================================
