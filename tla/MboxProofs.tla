----------------------------- MODULE MboxProofs -----------------------------
(***************************************************************************)
(* Safety of the mailbox for every number of threads, every ring size and  *)
(* every set of words.                                                     *)
(***************************************************************************)
EXTENDS Mbox, TLAPS

\* Reduction modulo the ring size of an index that is at most one turn ahead.
LEMMA WrapOnce ==
  ASSUME NEW n \in Nat \ {0}, NEW x \in 0 .. (2 * n - 1)
  PROVE  x % n = IF x < n THEN x ELSE x - n
  OBVIOUS

\* mb->write_idx and mb->read_idx advance by one place, around the ring.
LEMMA NextIndex ==
  ASSUME NEW x \in Slots
  PROVE  (x + 1) % Size = IF x + 1 = Size THEN 0 ELSE x + 1
  BY MboxAssumption, WrapOnce DEF Slots

\* mbox_init establishes the inductive invariant.
LEMMA InitIInv == Init => IInv
  BY MboxAssumption DEF Init, IInv, TypeOK, LockInv, TokensConserved, IndexInv,
     TryNeverWaits, Span, At, Sides, Slots, PCs, Inside

\* Every call, step, interruption and stutter of every thread preserves it.
LEMMA NextIInv == IInv /\ [Next]_vars => IInv'
  <1> SUFFICES ASSUME IInv, [Next]_vars PROVE IInv'
    OBVIOUS
  <1> USE MboxAssumption DEF IInv, TypeOK, Sides, Slots, Side, Other, mySide, Goto
  <1>1. ASSUME NEW t \in Threads, Call(t) PROVE IInv'
    <2>1. TypeOK'
      <3>1. PICK o \in Ops[t], m \in Msg :
              /\ op' = [op EXCEPT ![t] = o]
              /\ val' = [val EXCEPT ![t] = IF o \in PutOps THEN m ELSE NoMsg]
        BY <1>1 DEF Call
      <3>2. o \in PutOps \cup GetOps
        BY CallsAssumption
      <3> QED BY <1>1, <3>1, <3>2 DEF Call, PCs
    <2>2. LockInv'
      BY <1>1 DEF Call, LockInv, Inside, PCs
    <2>3. (TokensConserved /\ (slips = 0 => IndexInv))'
      BY <1>1 DEF Call, LockInv, Inside, TokensConserved, IndexInv, Span, At
    <2>4. TryNeverWaits'
      BY <1>1 DEF Call, TryNeverWaits, LockInv, Inside
    <2> QED BY <2>1, <2>2, <2>3, <2>4
  <1>2. ASSUME NEW t \in Threads, Lock(t) PROVE IInv'
    <2>1. TypeOK'
      BY <1>2 DEF Lock, PCs
    <2>2. LockInv'
      BY <1>2 DEF Lock, LockInv, Inside, PCs
    <2>3. (TokensConserved /\ (slips = 0 => IndexInv))'
      BY <1>2 DEF Lock, LockInv, Inside, TokensConserved, IndexInv, Span, At
    <2>4. TryNeverWaits'
      BY <1>2 DEF Lock, TryNeverWaits
    <2> QED BY <2>1, <2>2, <2>3, <2>4
  <1>3. ASSUME NEW t \in Threads, SemWait(t) PROVE IInv'
    <2>1. TypeOK'
      BY <1>3 DEF SemWait, PCs
    <2>2. LockInv'
      BY <1>3 DEF SemWait, LockInv, Inside, PCs
    <2>3. (TokensConserved /\ (slips = 0 => IndexInv))'
      <3>0. mutex[mySide(t)] = t /\ t # NoThread
        BY <1>3 DEF SemWait, LockInv, Inside
      <3>1. CASE mySide(t) = "write"
        <4>1. /\ sem'["write"] = sem["write"] - 1 /\ sem'["read"] = sem["read"]
              /\ sem["write"] \in Nat /\ sem["read"] \in Nat /\ idx' = idx
              /\ pc[t] \in {"wait", "take"} /\ pc' = [pc EXCEPT ![t] = "copy"] /\ mutex' = mutex
              /\ slips' = slips
          BY <1>3, <3>1 DEF SemWait
        <4>2. mutex["read"] # t
          BY <3>0, <3>1, <4>1 DEF LockInv
        <4>3. /\ At("read", {"copy", "post"})' <=> At("read", {"copy", "post"})
              /\ At("read", {"copy"})' <=> At("read", {"copy"})
              /\ At("read", {"post"})' <=> At("read", {"post"})
          BY <4>1, <4>2, <3>0 DEF At, LockInv
        <4>4. /\ ~ At("write", {"copy", "post"}) /\ At("write", {"copy", "post"})'
              /\ ~ At("write", {"copy"}) /\ At("write", {"copy"})'
              /\ ~ At("write", {"post"}) /\ ~ At("write", {"post"})'
          BY <3>0, <3>1, <4>1 DEF At
        <4>5. TokensConserved'
          BY <4>1, <4>3, <4>4 DEF TokensConserved
        <4>6. Span' = Span
          BY <4>1, <4>3, <4>4 DEF Span
        <4> QED BY <4>1, <4>5, <4>6 DEF IndexInv
      <3>2. CASE mySide(t) = "read"
        <4>1. /\ sem'["read"] = sem["read"] - 1 /\ sem'["write"] = sem["write"]
              /\ sem["read"] \in Nat /\ sem["write"] \in Nat /\ idx' = idx
              /\ pc[t] \in {"wait", "take"} /\ pc' = [pc EXCEPT ![t] = "copy"] /\ mutex' = mutex
              /\ slips' = slips
          BY <1>3, <3>2 DEF SemWait
        <4>2. mutex["write"] # t
          BY <3>0, <3>2, <4>1 DEF LockInv
        <4>3. /\ At("write", {"copy", "post"})' <=> At("write", {"copy", "post"})
              /\ At("write", {"copy"})' <=> At("write", {"copy"})
              /\ At("write", {"post"})' <=> At("write", {"post"})
          BY <4>1, <4>2, <3>0 DEF At, LockInv
        <4>4. /\ ~ At("read", {"copy", "post"}) /\ At("read", {"copy", "post"})'
              /\ ~ At("read", {"copy"}) /\ At("read", {"copy"})'
              /\ ~ At("read", {"post"}) /\ ~ At("read", {"post"})'
          BY <3>0, <3>2, <4>1 DEF At
        <4>5. TokensConserved'
          BY <4>1, <4>3, <4>4 DEF TokensConserved
        <4>6. Span' = Span
          BY <4>1, <4>3, <4>4 DEF Span
        <4> QED BY <4>1, <4>5, <4>6 DEF IndexInv
      <3> QED BY <3>1, <3>2
    <2>4. TryNeverWaits'
      BY <1>3 DEF SemWait, TryNeverWaits, LockInv, Inside
    <2> QED BY <2>1, <2>2, <2>3, <2>4
  <1>4. ASSUME NEW t \in Threads, Interrupt(t) PROVE IInv'
    <2>1. TypeOK'
      <3>0. slips' \in 0 .. MaxSlips /\ slips' >= slips
        <4>1. MaxSlips \in Nat /\ slips \in 0 .. MaxSlips
          OBVIOUS
        <4>2. slips' = slips \/ (slips < MaxSlips /\ slips' = slips + 1)
          BY ONLY <1>4 DEF Interrupt
        <4> QED BY ONLY <4>1, <4>2
      <3>1. pc' \in [Threads -> PCs] /\ res' \in [Threads -> {"pending", "ok", "fail"}]
        BY <1>4 DEF Interrupt, PCs
      <3>2. UNCHANGED <<mutex, sem, idx, messages, op, val>>
        BY <1>4 DEF Interrupt
      <3>3. sem' \in [Sides -> 0 .. (Size + slips')]
        BY <3>0, <3>2
      <3> QED BY <3>0, <3>1, <3>2, <3>3
    <2>2. LockInv'
      BY <1>4 DEF Interrupt, LockInv, Inside, PCs
    <2>3. (TokensConserved /\ (slips = 0 => IndexInv))'
      BY <1>4 DEF Interrupt, LockInv, Inside, TokensConserved, IndexInv, Span, At
    <2>4. TryNeverWaits'
      BY <1>4 DEF Interrupt, TryNeverWaits
    <2> QED BY <2>1, <2>2, <2>3, <2>4
  <1>5. ASSUME NEW t \in Threads, GetValue(t) PROVE IInv'
    <2>1. TypeOK'
      BY <1>5 DEF GetValue, PCs
    <2>2. LockInv'
      BY <1>5 DEF GetValue, LockInv, Inside, PCs
    <2>3. (TokensConserved /\ (slips = 0 => IndexInv))'
      BY <1>5 DEF GetValue, LockInv, Inside, TokensConserved, IndexInv, Span, At
    <2>4. TryNeverWaits'
      BY <1>5 DEF GetValue, TryNeverWaits
    <2> QED BY <2>1, <2>2, <2>3, <2>4
  <1>6. ASSUME NEW t \in Threads, Copy(t) PROVE IInv'
    <2> DEFINE s == mySide(t)
               next == (idx[s] + 1) % Size
    <2>0. /\ idx[s] \in Slots /\ next \in Slots
          /\ next = IF idx[s] + 1 = Size THEN 0 ELSE idx[s] + 1
      <3>1. idx[s] \in Slots
        OBVIOUS
      <3>2. next = IF idx[s] + 1 = Size THEN 0 ELSE idx[s] + 1
        BY <3>1, NextIndex
      <3> QED BY <3>1, <3>2
    <2>a. /\ pc[t] = "copy" /\ pc' = [pc EXCEPT ![t] = "post"]
          /\ idx' = [idx EXCEPT ![s] = next]
          /\ UNCHANGED <<mutex, sem, op, res, slips>>
      BY <1>6 DEF Copy
    <2>1. TypeOK'
      <3>1. messages' \in [Slots -> Msg \cup {NoMsg}] /\ val' \in [Threads -> Msg \cup {NoMsg}]
        BY <1>6, <2>0 DEF Copy
      <3> HIDE DEF next, s
      <3> QED BY <2>0, <2>a, <3>1 DEF PCs
    <2>2. LockInv'
      BY <2>a DEF LockInv, Inside, PCs
    <2>b. mutex[s] = t /\ mutex[s] # NoThread /\ s \in Sides
      BY <2>a DEF LockInv, Inside
    <2>c. TokensConserved'
      <3> HIDE DEF next
      <3> QED BY <2>a, <2>b DEF LockInv, TokensConserved, At
    <2>d. slips' = 0 => IndexInv'
      <3>a. SUFFICES ASSUME slips = 0 PROVE IndexInv'
        BY <2>a
      <3> HIDE DEF next
      <3>0. idx["read"] \in 0 .. (Size - 1) /\ idx["write"] \in 0 .. (Size - 1)
        OBVIOUS
      <3>1. CASE s = "write"
        <4>1. /\ At("write", {"copy", "post"}) /\ ~ At("write", {"post"})
              /\ At("write", {"post"})'
              /\ At("read", {"copy"})' <=> At("read", {"copy"})
          BY <2>a, <2>b, <3>1 DEF LockInv, At
        <4>2. Span' = Span + 1 /\ Span \in 0 .. (Size - 1)
          BY <2>a, <3>a, <4>1 DEF Span, TokensConserved, At
        <4>3. idx'["read"] = idx["read"] /\ idx'["write"] = next
          BY <2>a, <3>1
        <4> HIDE DEF s
        <4> QED BY <2>0, <3>0, <3>a, <3>1, <4>2, <4>3 DEF IndexInv
      <3>2. CASE s = "read"
        <4>1. /\ At("read", {"copy"}) /\ ~ At("read", {"copy"})'
              /\ At("write", {"post"})' <=> At("write", {"post"})
          BY <2>a, <2>b, <3>2 DEF LockInv, At
        <4>2. Span' = Span - 1 /\ Span \in 1 .. Size
          BY <2>a, <3>a, <4>1 DEF Span, TokensConserved, At
        <4>3. idx'["write"] = idx["write"] /\ idx'["read"] = next
          BY <2>a, <3>2
        <4>4. next = IF idx["read"] + 1 = Size THEN 0 ELSE idx["read"] + 1
          BY <2>0, <3>2
        <4>5. IndexInv
          BY <3>a
        <4> HIDE DEF s, IInv
        <4>6. CASE idx["read"] + 1 = Size
          BY <3>0, <4>2, <4>3, <4>4, <4>5, <4>6 DEF IndexInv
        <4>7. CASE idx["read"] + 1 # Size
          BY <3>0, <4>2, <4>3, <4>4, <4>5, <4>7 DEF IndexInv
        <4> QED BY <4>6, <4>7
      <3> QED BY <2>b, <3>1, <3>2
    <2>4. TryNeverWaits'
      BY <2>a DEF TryNeverWaits
    <2> QED BY <2>1, <2>2, <2>c, <2>d, <2>4
  <1>7. ASSUME NEW t \in Threads, Post(t) PROVE IInv'
    <2>2. LockInv'
      BY <1>7 DEF Post, LockInv, Inside, PCs
    <2>0. mutex[mySide(t)] = t /\ mutex[mySide(t)] # NoThread
      BY <1>7 DEF Post, LockInv, Inside
    <2>3. (TokensConserved /\ (slips = 0 => IndexInv))'
      <3>1. CASE mySide(t) = "write"
        <4>1. /\ At("write", {"post"}) /\ At("write", {"copy", "post"})
              /\ ~ At("write", {"post"})' /\ ~ At("write", {"copy", "post"})'
              /\ \A P : At("read", P)' <=> At("read", P)
          BY <1>7, <2>0, <3>1 DEF Post, LockInv, At
        <4>2. /\ sem'["read"] = sem["read"] + 1 /\ sem'["write"] = sem["write"] /\ idx' = idx
              /\ sem["read"] \in Nat /\ sem["write"] \in Nat /\ slips' = slips /\ slips \in Nat
          BY <1>7, <3>1 DEF Post
        <4>3. Span' = Span
          BY <4>1, <4>2 DEF Span
        <4> QED BY <4>1, <4>2, <4>3 DEF TokensConserved, IndexInv
      <3>2. CASE mySide(t) = "read"
        <4>1. /\ ~ At("read", {"copy"}) /\ At("read", {"copy", "post"})
              /\ ~ At("read", {"copy"})' /\ ~ At("read", {"copy", "post"})'
              /\ \A P : At("write", P)' <=> At("write", P)
          BY <1>7, <2>0, <3>2 DEF Post, LockInv, At
        <4>2. /\ sem'["write"] = sem["write"] + 1 /\ sem'["read"] = sem["read"] /\ idx' = idx
              /\ sem["read"] \in Nat /\ sem["write"] \in Nat /\ slips' = slips /\ slips \in Nat
          BY <1>7, <3>2 DEF Post
        <4>3. Span' = Span
          BY <4>1, <4>2 DEF Span
        <4> QED BY <4>1, <4>2, <4>3 DEF TokensConserved, IndexInv
      <3> QED BY <3>1, <3>2
    <2>1. TypeOK'
      BY <1>7, <2>3 DEF Post, PCs, TokensConserved
    <2>4. TryNeverWaits'
      BY <1>7 DEF Post, TryNeverWaits
    <2> QED BY <2>1, <2>2, <2>3, <2>4
  <1>8. ASSUME NEW t \in Threads, Unlock(t) PROVE IInv'
    <2>1. TypeOK'
      BY <1>8 DEF Unlock, PCs
    <2>2. LockInv'
      BY <1>8 DEF Unlock, LockInv, Inside, PCs
    <2>3. (TokensConserved /\ (slips = 0 => IndexInv))'
      BY <1>8 DEF Unlock, LockInv, Inside, TokensConserved, IndexInv, Span, At
    <2>4. TryNeverWaits'
      BY <1>8 DEF Unlock, TryNeverWaits
    <2> QED BY <2>1, <2>2, <2>3, <2>4
  <1>9. CASE UNCHANGED vars
    BY <1>9 DEF vars, LockInv, TokensConserved, IndexInv, TryNeverWaits, Span, At, Inside
  <1> QED
    BY <1>1, <1>2, <1>3, <1>4, <1>5, <1>6, <1>7, <1>8, <1>9 DEF Next, Step

\* The mailbox keeps the invariant in every reachable state.
THEOREM InductiveInvariant == Spec => []IInv
  BY InitIInv, NextIInv, PTL DEF Spec

-----------------------------------------------------------------------------

\* What slipped once is never undone.
LEMMA SlipsGrow ==
  IInv /\ [Next]_vars => slips \in Nat /\ slips' \in Nat /\ (slips' = 0 => slips = 0)
  BY MboxAssumption DEF IInv, TypeOK, Next, Step, vars, Call, Lock, SemWait,
     Interrupt, GetValue, Copy, Post, Unlock

\* Where the oldest unreleased word lies, and how the span of stored words
\* relates to the count of unreleased ones.
LEMMA OldestSlot ==
  ASSUME IInv, slips = 0
  PROVE  /\ Oldest \in Slots
         /\ Unreleased \in 0 .. Size
         /\ At("read", {"post"}) =>
              /\ Unreleased = sem["read"] + 1 /\ ~ At("read", {"copy"})
              /\ Oldest = IF idx["read"] = 0 THEN Size - 1 ELSE idx["read"] - 1
         /\ ~ At("read", {"post"}) =>
              /\ Oldest = idx["read"]
              /\ Unreleased = sem["read"] + (IF At("read", {"copy"}) THEN 1 ELSE 0)
         /\ At("write", {"copy"}) => ~ At("write", {"post"}) /\ Unreleased \in 0 .. (Size - 1)
         /\ At("write", {"post"}) => Unreleased \in 0 .. (Size - 1)
  <1> USE MboxAssumption DEF IInv, TypeOK, Sides, Slots
  <1> DEFINE back == idx["read"] + (Size - 1)
  <1>1. /\ Size \in Nat \ {0} /\ idx["read"] \in 0 .. (Size - 1)
        /\ back \in 0 .. (2 * Size - 1)
    OBVIOUS
  <1>2. back % Size = IF idx["read"] = 0 THEN Size - 1 ELSE idx["read"] - 1
    <2>1. back % Size = IF back < Size THEN back ELSE back - Size
      <3> HIDE DEF back, IInv, TypeOK, MboxAssumption
      <3> QED BY <1>1, WrapOnce
    <2> QED BY <1>1, <2>1
  <1>3. Oldest \in Slots
    BY <1>1, <1>2 DEF Oldest, Before
  <1>4. Unreleased \in 0 .. Size
    BY DEF Unreleased, TokensConserved, At
  <1>5. At("read", {"post"}) => ~ At("read", {"copy"}) /\ At("read", {"copy", "post"})
    BY DEF At
  <1>6. ~ At("read", {"post"}) => (At("read", {"copy", "post"}) <=> At("read", {"copy"}))
    BY DEF At
  <1>7. /\ At("write", {"copy"}) => ~ At("write", {"post"}) /\ At("write", {"copy", "post"})
        /\ At("write", {"post"}) => At("write", {"copy", "post"})
    BY DEF At
  <1>8. At("write", {"copy", "post"}) => Unreleased \in 0 .. (Size - 1)
    BY DEF Unreleased, TokensConserved
  <1> QED
    BY <1>1, <1>2, <1>3, <1>4, <1>5, <1>6, <1>7, <1>8 DEF Oldest, Before, Unreleased

\* The place a putter is about to fill holds no unreleased word.
LEMMA IInvNoOverwrite == IInv => NoOverwrite
  <1> SUFFICES ASSUME IInv, slips = 0, At("write", {"copy"}), NEW k \in 0 .. (Unreleased - 1)
               PROVE  (Oldest + k) % Size # idx["write"]
    BY DEF NoOverwrite
  <1> USE MboxAssumption DEF IInv, TypeOK, Sides, Slots
  <1>1. /\ Oldest \in 0 .. (Size - 1) /\ Unreleased \in 0 .. (Size - 1)
        /\ ~ At("write", {"post"})
    BY OldestSlot
  <1> DEFINE there == Oldest + k
  <1>2. there % Size = IF there < Size THEN there ELSE there - Size
    <2>1. there \in 0 .. (2 * Size - 1) /\ Size \in Nat \ {0}
      BY <1>1
    <2> HIDE DEF there, IInv, TypeOK, MboxAssumption
    <2> QED BY <2>1, WrapOnce
  <1>3. \/ idx["write"] = idx["read"] + Span
        \/ idx["write"] = idx["read"] + Span - Size
    BY DEF IndexInv
  <1>4. /\ Size \in Nat /\ k \in 0 .. (Unreleased - 1)
        /\ idx["read"] \in 0 .. (Size - 1) /\ idx["write"] \in 0 .. (Size - 1)
    OBVIOUS
  <1>5. CASE At("read", {"post"})
    <2>1. /\ Span = Unreleased - 1
          /\ Oldest = IF idx["read"] = 0 THEN Size - 1 ELSE idx["read"] - 1
      BY <1>1, <1>5, OldestSlot DEF Span
    <2>2. CASE idx["read"] = 0
      <3> HIDE DEF IInv, TypeOK, MboxAssumption
      <3> QED BY <1>1, <1>2, <1>3, <1>4, <2>1, <2>2
    <2>3. CASE idx["read"] # 0
      <3> HIDE DEF IInv, TypeOK, MboxAssumption
      <3> QED BY <1>1, <1>2, <1>3, <1>4, <2>1, <2>3
    <2> QED BY <2>2, <2>3
  <1>6. CASE ~ At("read", {"post"})
    <2>1. Span = Unreleased /\ Oldest = idx["read"]
      BY <1>1, <1>6, OldestSlot DEF Span
    <2> HIDE DEF IInv, TypeOK, MboxAssumption
    <2> QED BY <1>1, <1>2, <1>3, <1>4, <2>1
  <1> QED BY <1>5, <1>6

\* Types, for every number of threads and every ring size.
THEOREM TypeCorrect == Spec => []TypeOK
  BY InductiveInvariant, PTL DEF IInv

\* No place of the ring is ever lost or handed out twice.
THEOREM TokensAreConserved == Spec => []TokensConserved
  BY InductiveInvariant, PTL DEF IInv

\* No mbox_put ever destroys a word that a get has still to deliver.
THEOREM NothingOverwritten == Spec => []NoOverwrite
  BY InductiveInvariant, IInvNoOverwrite, PTL

\* A try call never blocks in the sem_wait that follows its test.
THEOREM TriesNeverWait == Spec => []TryNeverWaits
  BY InductiveInvariant, PTL DEF IInv
-----------------------------------------------------------------------------

\* An index of the ring, and an index plus a distance of at most one turn.
LEMMA SlotMod ==
  ASSUME NEW i \in Slots
  PROVE  /\ (i + 0) % Size = i
         /\ \A k \in 0 .. Size : (i + k) % Size = IF i + k < Size THEN i + k ELSE i + k - Size
  <1>1. Size \in Nat \ {0} /\ i \in 0 .. (Size - 1)
    BY MboxAssumption DEF Slots
  <1>2. ASSUME NEW k \in 0 .. Size
        PROVE  (i + k) % Size = IF i + k < Size THEN i + k ELSE i + k - Size
    <2> DEFINE x == i + k
    <2>1. x \in 0 .. (2 * Size - 1)
      BY <1>1
    <2>2. x % Size = IF x < Size THEN x ELSE x - Size
      <3> HIDE DEF x
      <3> QED BY <1>1, <2>1, WrapOnce
    <2> QED BY <1>1, <2>2
  <1>3. (i + 0) % Size = i
    BY <1>1, <1>2
  <1> QED BY <1>2, <1>3

\* The place before an index: reading it after Next advanced the index gives the
\* place the index pointed at.
LEMMA BeforeNext ==
  ASSUME NEW i \in Slots
  PROVE  Before((i + 1) % Size) = i /\ Before(i) \in Slots
  <1> DEFINE j == (i + 1) % Size
             x == j + (Size - 1)
             y == i + (Size - 1)
  <1>1. Size \in Nat \ {0} /\ i \in 0 .. (Size - 1)
    BY MboxAssumption DEF Slots
  <1>2. j = IF i + 1 = Size THEN 0 ELSE i + 1
    BY NextIndex
  <1>3. x % Size = IF x < Size THEN x ELSE x - Size
    <2>1. x \in 0 .. (2 * Size - 1)
      BY <1>1, <1>2
    <2> HIDE DEF x
    <2> QED BY <1>1, <2>1, WrapOnce
  <1>4. y % Size = IF y < Size THEN y ELSE y - Size
    <2>1. y \in 0 .. (2 * Size - 1)
      BY <1>1
    <2> HIDE DEF y
    <2> QED BY <1>1, <2>1, WrapOnce
  <1>5. x % Size = i
    <2>1. CASE i + 1 = Size
      BY <1>1, <1>2, <1>3, <2>1
    <2>2. CASE i + 1 # Size
      BY <1>1, <1>2, <1>3, <2>2
    <2> QED BY <2>1, <2>2
  <1>6. y % Size \in 0 .. (Size - 1)
    BY <1>1, <1>4
  <1> HIDE DEF j
  <1>7. Before(j) = i /\ Before(i) \in Slots
    BY <1>5, <1>6 DEF Before, Slots
  <1> QED BY <1>7 DEF j

\* The place before an index, without the modulo.
LEMMA BeforeFormula ==
  ASSUME NEW i \in 0 .. (Size - 1)
  PROVE  Before(i) = IF i = 0 THEN Size - 1 ELSE i - 1
  <1> DEFINE y == i + (Size - 1)
  <1>1. Size \in Nat \ {0} /\ y \in 0 .. (2 * Size - 1)
    BY MboxAssumption
  <1>2. y % Size = IF y < Size THEN y ELSE y - Size
    <2> HIDE DEF y
    <2> QED BY <1>1, WrapOnce
  <1> QED BY <1>1, <1>2 DEF Before

\* Initially no call is under way.
LEMMA InitSim == Init => CallInv /\ HandoverInv
  BY MboxAssumption DEF Init, CallInv, HandoverInv, At, PutOps, GetOps, Sides

\* The word of a call is where the code put it: preserved by every step.
LEMMA NextCallInv == IInv /\ CallInv /\ [Next]_vars => CallInv'
  <1> SUFFICES ASSUME IInv, CallInv, [Next]_vars PROVE CallInv'
    OBVIOUS
  <1> USE MboxAssumption DEF IInv, TypeOK, Goto, PCs, CallInv, PutOps, GetOps, TryOps
  <1>1. ASSUME NEW t \in Threads, Call(t) PROVE CallInv'
    <2>1. PICK o \in Ops[t], m \in Msg :
            /\ op' = [op EXCEPT ![t] = o]
            /\ val' = [val EXCEPT ![t] = IF o \in PutOps THEN m ELSE NoMsg]
      BY <1>1 DEF Call
    <2>2. o \in PutOps \cup GetOps
      BY CallsAssumption
    <2> QED BY <1>1, <2>1, <2>2 DEF Call
  <1>2. ASSUME NEW t \in Threads, Lock(t) PROVE CallInv'
    BY <1>2 DEF Lock
  <1>3. ASSUME NEW t \in Threads, SemWait(t) PROVE CallInv'
    BY <1>3 DEF SemWait
  <1>4. ASSUME NEW t \in Threads, Interrupt(t) PROVE CallInv'
    BY <1>4 DEF Interrupt
  <1>5. ASSUME NEW t \in Threads, GetValue(t) PROVE CallInv'
    BY <1>5 DEF GetValue
  <1>6. ASSUME NEW t \in Threads, Copy(t) PROVE CallInv'
    <2>1. CASE mySide(t) = "write"
      BY <1>6, <2>1 DEF Copy, mySide, Side
    <2>2. CASE mySide(t) # "write"
      BY <1>6, <2>2 DEF Copy, mySide, Side
    <2> QED BY <2>1, <2>2
  <1>7. ASSUME NEW t \in Threads, Post(t) PROVE CallInv'
    BY <1>7 DEF Post
  <1>8. ASSUME NEW t \in Threads, Unlock(t) PROVE CallInv'
    BY <1>8 DEF Unlock
  <1>9. CASE UNCHANGED vars
    BY <1>9 DEF vars
  <1> QED
    BY <1>1, <1>2, <1>3, <1>4, <1>5, <1>6, <1>7, <1>8, <1>9 DEF Next, Step

\* Between copying a word and the sem_post, the ring holds that word at the
\* place the index of the side has just left.
LEMMA NextHandoverInv ==
  IInv /\ CallInv /\ (slips = 0 => HandoverInv) /\ [Next]_vars
    => (slips' = 0 => HandoverInv')
  <1> SUFFICES ASSUME IInv, CallInv, slips = 0, HandoverInv, [Next]_vars, slips' = 0, NEW s \in Sides, At(s, {"post"})'
               PROVE  (messages[Before(idx[s])] = val[mutex[s]])'
    BY SlipsGrow DEF HandoverInv
  <1> USE MboxAssumption DEF IInv, TypeOK, Goto, PCs, Sides
  <1>0. ASSUME UNCHANGED <<mutex, idx, messages>>, val'[mutex[s]] = val[mutex[s]], At(s, {"post"})
        PROVE  (messages[Before(idx[s])] = val[mutex[s]])'
    BY <1>0 DEF HandoverInv, Before
  <1>1. ASSUME NEW t \in Threads, Call(t) PROVE (messages[Before(idx[s])] = val[mutex[s]])'
    BY <1>1, <1>0 DEF Call, At, LockInv, Inside
  <1>2. ASSUME NEW t \in Threads, Lock(t) PROVE (messages[Before(idx[s])] = val[mutex[s]])'
    <2>1. s # mySide(t)
      BY <1>2 DEF Lock, At, mySide, Side
    <2>2. mutex'[s] = mutex[s] /\ At(s, {"post"})
      BY <1>2, <2>1 DEF Lock, At
    <2> QED BY <1>2, <2>2 DEF Lock, HandoverInv, Before
  <1>3. ASSUME NEW t \in Threads, SemWait(t) PROVE (messages[Before(idx[s])] = val[mutex[s]])'
    BY <1>3, <1>0 DEF SemWait, At
  <1>4. ASSUME NEW t \in Threads, Interrupt(t) PROVE (messages[Before(idx[s])] = val[mutex[s]])'
    BY <1>4, <1>0 DEF Interrupt, At
  <1>5. ASSUME NEW t \in Threads, GetValue(t) PROVE (messages[Before(idx[s])] = val[mutex[s]])'
    BY <1>5, <1>0 DEF GetValue, At
  <1>7. ASSUME NEW t \in Threads, Post(t) PROVE (messages[Before(idx[s])] = val[mutex[s]])'
    BY <1>7, <1>0 DEF Post, At
  <1>8. ASSUME NEW t \in Threads, Unlock(t) PROVE (messages[Before(idx[s])] = val[mutex[s]])'
    <2>1. s # mySide(t)
      BY <1>8 DEF Unlock, At, mySide, Side
    <2>2. mutex'[s] = mutex[s] /\ At(s, {"post"})
      BY <1>8, <2>1 DEF Unlock, At
    <2>3. t # mutex[s]
      BY <1>8, <2>1 DEF Unlock, LockInv, At
    <2>4. val'[mutex[s]] = val[mutex[s]]
      BY <1>8, <2>3 DEF Unlock
    <2> QED BY <1>8, <2>2, <2>4 DEF Unlock, HandoverInv, Before
  <1>9. CASE UNCHANGED vars
    BY <1>9, <1>0 DEF vars, At
  <1>6. ASSUME NEW t \in Threads, Copy(t) PROVE (messages[Before(idx[s])] = val[mutex[s]])'
    <2> DEFINE i == idx[mySide(t)]
    <2>1. /\ mutex[mySide(t)] = t /\ mySide(t) \in Sides /\ mutex' = mutex /\ op' = op
          /\ idx' = [idx EXCEPT ![mySide(t)] = (i + 1) % Size] /\ i \in Slots
          /\ pc' = [pc EXCEPT ![t] = "post"] /\ pc[t] = "copy" /\ mutex[mySide(t)] # NoThread
      BY <1>6 DEF Copy, LockInv, Inside, mySide, Side
    <2>2. Before((i + 1) % Size) = i
      BY <2>1, BeforeNext
    <2>3. CASE s = mySide(t)
      <3>1. Before(idx'[s]) = i /\ mutex'[s] = t
        BY <2>1, <2>2, <2>3
      <3>2. messages'[i] = val'[t]
        BY <1>6, <2>1 DEF Copy
      <3> QED BY <3>1, <3>2 DEF Before
    <2>4. CASE s # mySide(t)
      <3>1. /\ idx'[s] = idx[s] /\ mutex'[s] = mutex[s] /\ mutex[s] # t
            /\ At(s, {"post"}) /\ val'[mutex[s]] = val[mutex[s]]
        BY <1>6, <2>1, <2>4 DEF Copy, At, LockInv
      <3>2. messages'[Before(idx[s])] = messages[Before(idx[s])]
        <4>1. CASE mySide(t) = "read"
          BY <1>6, <4>1 DEF Copy
        <4>2. CASE mySide(t) = "write"
          <5>1. /\ s = "read" /\ Oldest = Before(idx["read"]) /\ Unreleased \in 1 .. Size
                /\ Oldest \in Slots /\ idx["read"] \in Slots
            BY <2>1, <2>4, <3>1, <4>2, OldestSlot DEF Oldest
          <5>2. At("write", {"copy"})
            BY <2>1, <4>2 DEF At
          <5>3. (Oldest + 0) % Size # idx["write"]
            BY <5>1, <5>2, IInvNoOverwrite DEF NoOverwrite
          <5>4. (Oldest + 0) % Size = Oldest
            BY <5>1, SlotMod
          <5>5. messages' = [messages EXCEPT ![idx["write"]] = val[t]]
            BY <1>6, <4>2 DEF Copy
          <5> QED BY <5>1, <5>3, <5>4, <5>5
        <4> QED BY <2>1, <4>1, <4>2
      <3> QED BY <3>1, <3>2 DEF HandoverInv, Before
    <2> QED BY <2>3, <2>4
  <1> QED
    BY <1>1, <1>2, <1>3, <1>4, <1>5, <1>6, <1>7, <1>8, <1>9 DEF Next, Step

\* The invariant the simulation needs.
LEMMA SimulationInvariant == Spec => []SimInv
  <1>1. Init => SimInv
    BY InitIInv, InitSim DEF SimInv
  <1>2. SimInv /\ [Next]_vars => SimInv'
    BY NextIInv, NextCallInv, NextHandoverInv DEF SimInv
  <1> QED BY <1>1, <1>2, PTL DEF Spec

-----------------------------------------------------------------------------

\* The contents seen as a sequence.
LEMMA ContentsSeq ==
  ASSUME IInv, slips = 0
  PROVE  /\ Contents \in Seq(Msg \cup {NoMsg})
         /\ Len(Contents) = Unreleased
         /\ \A i \in 1 .. Unreleased : Contents[i] = messages[(Oldest + (i - 1)) % Size]
  <1>1. Unreleased \in 0 .. Size /\ Oldest \in Slots
    BY OldestSlot
  <1>2. ASSUME NEW i \in 1 .. Unreleased
        PROVE  messages[(Oldest + (i - 1)) % Size] \in Msg \cup {NoMsg}
    <2>1. Size \in Nat \ {0} /\ Oldest \in 0 .. (Size - 1) /\ i - 1 \in 0 .. Size
      BY <1>1, MboxAssumption DEF Slots
    <2>2. (Oldest + (i - 1)) % Size \in 0 .. (Size - 1)
      BY <1>1, <2>1, SlotMod
    <2> QED BY <2>2 DEF IInv, TypeOK, Slots
  <1> HIDE DEF Unreleased
  <1> QED BY <1>1, <1>2, MboxAssumption DEF Contents

\* Nothing the abstraction sees changes: the step is a stutter.
LEMMA SameContents ==
  ASSUME Unreleased' = Unreleased, Oldest' = Oldest,
         \A i \in 1 .. Unreleased :
           messages'[(Oldest + (i - 1)) % Size] = messages[(Oldest + (i - 1)) % Size]
  PROVE  Contents' = Contents
  BY DEF Contents

\* Every step of the mailbox is a step of the bounded FIFO or changes nothing
\* of what the callers see.
LEMMA StepSimulation ==
  SimInv /\ [Next]_vars => [Abstract!Next \/ slips' > 0]_(Abstract!bvars)
  <1> SUFFICES ASSUME SimInv, [Next]_vars, slips = 0, slips' = 0
               PROVE  [Abstract!Next]_(Abstract!bvars)
    BY SlipsGrow DEF SimInv
  <1> USE MboxAssumption DEF SimInv, IInv, TypeOK, Goto, PCs, Sides
  <1>1. ASSUME NEW t \in Threads, Call(t) PROVE Abstract!Next
    <2>1. Unreleased' = Unreleased /\ Oldest' = Oldest
      BY <1>1 DEF Call, Unreleased, Oldest, Before, At, LockInv, Inside
    <2>2. Contents' = Contents
      BY <1>1, <2>1, SameContents DEF Call
    <2>3. op[t] = "none"
      BY <1>1 DEF Call, CallInv
    <2>4. PICK o \in Ops[t], m \in Msg :
            /\ op' = [op EXCEPT ![t] = o]
            /\ val' = [val EXCEPT ![t] = IF o \in PutOps THEN m ELSE NoMsg]
      BY <1>1 DEF Call
    <2>5. Seen' = [Seen EXCEPT ![t] = IF o \in PutOps THEN m ELSE NoMsg]
      BY <1>1, <2>4 DEF Call, Seen
    <2>7. o \in PutOps \cup GetOps
      BY CallsAssumption
    <2>6. Abstract!Invoke(t)
      BY <1>1, <2>7, <2>2, <2>3, <2>4, <2>5 DEF Abstract!Invoke, Call
    <2> QED BY <2>6 DEF Abstract!Next
  <1>2. ASSUME NEW t \in Threads, Lock(t) PROVE UNCHANGED Abstract!bvars
    <2>1. Unreleased' = Unreleased /\ Oldest' = Oldest
      BY <1>2 DEF Lock, Unreleased, Oldest, Before, At, LockInv, mySide, Side
    <2>2. Contents' = Contents
      BY <1>2, <2>1, SameContents DEF Lock
    <2> QED BY <1>2, <2>2 DEF Lock, Seen, Abstract!bvars
  <1>3. ASSUME NEW t \in Threads, SemWait(t) PROVE UNCHANGED Abstract!bvars
    <2>0. mutex[mySide(t)] = t /\ t # NoThread
      BY <1>3 DEF SemWait, LockInv, Inside
    <2>1. Unreleased' = Unreleased /\ Oldest' = Oldest
      <3>1. CASE mySide(t) = "write"
        BY <1>3, <2>0, <3>1 DEF SemWait, Unreleased, Oldest, Before, At, LockInv
      <3>2. CASE mySide(t) = "read"
        BY <1>3, <2>0, <3>2 DEF SemWait, Unreleased, Oldest, Before, At
      <3> QED BY <3>1, <3>2 DEF mySide, Side
    <2>2. Contents' = Contents
      BY <1>3, <2>1, SameContents DEF SemWait
    <2> QED BY <1>3, <2>2 DEF SemWait, Seen, Abstract!bvars
  <1>4. ASSUME NEW t \in Threads, Interrupt(t) PROVE Abstract!Next
    <2>0. op[t] \in InterruptOps
      BY <1>4 DEF Interrupt
    <2>1. Unreleased' = Unreleased /\ Oldest' = Oldest
      BY <1>4, <2>0 DEF Interrupt, Unreleased, Oldest, Before, At, LockInv, InterruptOps, PlainOps
    <2>2. Contents' = Contents
      BY <1>4, <2>1, SameContents DEF Interrupt
    <2>3. Seen' = Seen
      BY <1>4 DEF Interrupt, Seen
    <2>4. Abstract!Abort(t)
      BY <1>4, <2>0, <2>2, <2>3 DEF Interrupt, CallInv, Abstract!Abort, InterruptOps, PlainOps
    <2> QED BY <2>4 DEF Abstract!Next
  <1>5. ASSUME NEW t \in Threads, GetValue(t) PROVE [Abstract!Next]_(Abstract!bvars)
    <2>0. mutex[mySide(t)] = t /\ t # NoThread
      BY <1>5 DEF GetValue, LockInv, Inside
    <2>1. Unreleased' = Unreleased /\ Oldest' = Oldest
      BY <1>5 DEF GetValue, Unreleased, Oldest, Before, At, LockInv
    <2>2. Contents' = Contents /\ Seen' = Seen
      BY <1>5, <2>1, SameContents DEF GetValue, Seen
    <2>3. CASE sem[mySide(t)] > 0
      BY <1>5, <2>2, <2>3 DEF GetValue, Abstract!bvars
    <2>4. CASE ~ (sem[mySide(t)] > 0)
      <3>1. sem[mySide(t)] = 0 /\ ~ At(mySide(t), {"copy", "post"})
        BY <1>5, <2>0, <2>4 DEF GetValue, At, mySide, Side
      <3>2. op[t] \in PutOps => Len(Contents) = Size
        BY <3>1, ContentsSeq DEF mySide, Side, Unreleased, TokensConserved
      <3>3. op[t] \in GetOps => Contents = <<>>
        <4>1. op[t] \in GetOps => Unreleased = 0
          BY <3>1 DEF mySide, Side, Unreleased, PutOps, GetOps
        <4> QED BY <4>1, ContentsSeq
      <3>4. Abstract!Refuse(t)
        BY <1>5, <2>2, <2>4, <3>2, <3>3 DEF GetValue, CallInv, Abstract!Refuse
      <3> QED BY <3>4 DEF Abstract!Next
    <2> QED BY <2>3, <2>4
  <1>8. ASSUME NEW t \in Threads, Unlock(t) PROVE Abstract!Next
    <2>1. Unreleased' = Unreleased /\ Oldest' = Oldest
      BY <1>8 DEF Unlock, Unreleased, Oldest, Before, At, LockInv, Inside, mySide, Side
    <2>2. Contents' = Contents
      BY <1>8, <2>1, SameContents DEF Unlock
    <2>3. Seen' = [Seen EXCEPT ![t] = NoMsg]
      BY <1>8 DEF Unlock, Seen
    <2>4. /\ op[t] # "none" /\ res[t] # "pending"
          /\ op' = [op EXCEPT ![t] = "none"] /\ res' = [res EXCEPT ![t] = "ok"]
      BY <1>8 DEF Unlock, CallInv
    <2>5. Abstract!Return(t)
      BY <2>2, <2>3, <2>4 DEF Abstract!Return
    <2> QED BY <2>5 DEF Abstract!Next
  <1>9. CASE UNCHANGED vars
    <2>1. Unreleased' = Unreleased /\ Oldest' = Oldest
      BY <1>9 DEF vars, Unreleased, Oldest, Before, At
    <2> QED BY <1>9, <2>1, SameContents DEF vars, Seen, Abstract!bvars
  <1>6. ASSUME NEW t \in Threads, Copy(t) PROVE UNCHANGED Abstract!bvars
    <2>0. /\ mutex[mySide(t)] = t /\ t # NoThread /\ mySide(t) \in Sides
          /\ At(mySide(t), {"copy"})
      BY <1>6 DEF Copy, LockInv, Inside, At, mySide, Side
    <2>1. CASE mySide(t) = "write"
      <3>1. Unreleased' = Unreleased /\ Oldest' = Oldest /\ Unreleased \in Nat
        <4>1. \A P : At("read", P)' <=> At("read", P)
          BY <1>6, <2>0, <2>1 DEF Copy, At, LockInv
        <4>2. sem' = sem /\ idx'["read"] = idx["read"]
          BY <1>6, <2>1 DEF Copy
        <4> QED BY <4>1, <4>2, OldestSlot DEF Unreleased, Oldest, Before
      <3>2. messages' = [messages EXCEPT ![idx["write"]] = val[t]] /\ val' = val
        BY <1>6, <2>1 DEF Copy
      <3>3. ASSUME NEW i \in 1 .. Unreleased
            PROVE  messages'[(Oldest + (i - 1)) % Size] = messages[(Oldest + (i - 1)) % Size]
        <4>1. i - 1 \in 0 .. (Unreleased - 1)
          BY <3>1
        <4>2. (Oldest + (i - 1)) % Size # idx["write"]
          BY <2>0, <2>1, <4>1, IInvNoOverwrite DEF NoOverwrite
        <4> HIDE DEF Unreleased, Oldest
        <4> QED BY <3>2, <4>2
      <3>4. Contents' = Contents
        BY <3>1, <3>3, SameContents
      <3>5. Seen' = Seen
        BY <1>6, <2>1, <3>2 DEF Copy, Seen, mySide, Side, PutOps, GetOps
      <3> QED BY <1>6, <3>4, <3>5 DEF Copy, Abstract!bvars
    <2>2. CASE mySide(t) = "read"
      <3>0. /\ idx' = [idx EXCEPT !["read"] = (idx["read"] + 1) % Size]
            /\ idx["read"] \in Slots /\ messages' = messages /\ sem' = sem
            /\ mutex' = mutex /\ pc' = [pc EXCEPT ![t] = "post"]
            /\ val' = [val EXCEPT ![t] = messages[idx["read"]]]
            /\ op' = op /\ res' = res
        BY <1>6, <2>2 DEF Copy
      <3>1. Unreleased' = Unreleased
        BY <2>0, <2>2, <3>0 DEF Unreleased, At
      <3>2. Oldest = idx["read"]
        BY <2>0, <2>2 DEF Oldest, At
      <3>3. Oldest' = Before((idx["read"] + 1) % Size)
        BY <2>0, <2>2, <3>0 DEF Oldest, At, Before
      <3>4. Contents' = Contents
        BY <3>0, <3>1, <3>2, <3>3, BeforeNext, SameContents
      <3>5. Seen' = Seen
        BY <1>6, <2>2, <3>0 DEF Copy, Seen, CallInv, mySide, Side, PutOps, GetOps
      <3> QED BY <3>0, <3>4, <3>5 DEF Abstract!bvars
    <2> QED BY <2>0, <2>1, <2>2
  <1>7. ASSUME NEW t \in Threads, Post(t) PROVE Abstract!Next
    <2>0. /\ mutex[mySide(t)] = t /\ t # NoThread /\ mySide(t) \in Sides
          /\ At(mySide(t), {"post"}) /\ ~ At(mySide(t), {"post"})'
          /\ ~ At(mySide(t), {"copy"}) /\ ~ At(mySide(t), {"copy"})'
          /\ ~ At(mySide(t), {"copy", "post"})' /\ At(mySide(t), {"copy", "post"})
          /\ messages[Before(idx[mySide(t)])] = val[t]
          /\ UNCHANGED <<mutex, idx, messages, op, val>>
          /\ res[t] = "pending" /\ res' = [res EXCEPT ![t] = "ok"]
          /\ sem' = [sem EXCEPT ![Other(mySide(t))] = @ + 1]
          /\ pc[t] = "post" /\ pc' = [pc EXCEPT ![t] = "unlock"]
      BY <1>7 DEF Post, LockInv, Inside, At, mySide, Side, HandoverInv, CallInv
    <2>n. Size \in Nat \ {0} /\ sem["read"] \in 0 .. Size /\ sem["write"] \in 0 .. Size
          /\ idx["read"] \in 0 .. (Size - 1) /\ idx["write"] \in 0 .. (Size - 1)
      BY DEF Slots
    <2>1. CASE mySide(t) = "write"
      <3>1. \A P : At("read", P)' <=> At("read", P)
        BY <2>0, <2>1 DEF At, LockInv
      <3>2. Unreleased' = Unreleased + 1 /\ Oldest' = Oldest /\ Unreleased \in 0 .. (Size - 1)
            /\ Oldest \in 0 .. (Size - 1)
        <4>1. sem'["read"] = sem["read"] + 1 /\ idx' = idx
          BY <2>0, <2>1, <2>n DEF Other
        <4>2. At("write", {"post"})
          BY <2>0, <2>1
        <4>3. Unreleased \in 0 .. (Size - 1) /\ Oldest \in 0 .. (Size - 1)
          BY <4>2, OldestSlot DEF Slots
        <4> QED BY <2>n, <3>1, <4>1, <4>3 DEF Unreleased, Oldest, Before
      <3>3. (Oldest + Unreleased) % Size = Before(idx["write"])
        <4>1. (Oldest + Unreleased) % Size
                = IF Oldest + Unreleased < Size THEN Oldest + Unreleased
                                                ELSE Oldest + Unreleased - Size
          <5>1. Oldest \in Slots /\ Unreleased \in 0 .. Size
            BY OldestSlot
          <5> QED BY <5>1, SlotMod
        <4>2. Before(idx["write"]) = IF idx["write"] = 0 THEN Size - 1 ELSE idx["write"] - 1
          BY <2>n, BeforeFormula
        <4>3. \/ idx["write"] = idx["read"] + Span
              \/ idx["write"] = idx["read"] + Span - Size
          BY DEF IndexInv
        <4>4. At("write", {"post"})
          BY <2>0, <2>1
        <4>5. CASE At("read", {"post"})
          <5>1. /\ Span = Unreleased
                /\ Oldest = IF idx["read"] = 0 THEN Size - 1 ELSE idx["read"] - 1
            BY <2>n, <4>4, <4>5, OldestSlot DEF Span
          <5> HIDE DEF SimInv, IInv, TypeOK, MboxAssumption
          <5>2. CASE idx["read"] = 0
            BY <2>n, <3>2, <4>1, <4>2, <4>3, <5>1, <5>2
          <5>3. CASE idx["read"] # 0
            BY <2>n, <3>2, <4>1, <4>2, <4>3, <5>1, <5>3
          <5> QED BY <5>2, <5>3
        <4>6. CASE ~ At("read", {"post"})
          <5>1. Span = Unreleased + 1 /\ Oldest = idx["read"]
            BY <2>n, <4>4, <4>6, OldestSlot DEF Span
          <5> HIDE DEF SimInv, IInv, TypeOK, MboxAssumption
          <5> QED BY <2>n, <3>2, <4>1, <4>2, <4>3, <5>1
        <4> QED BY <4>5, <4>6
      <3>4. Contents' = Append(Contents, Seen[t])
        <4>1. /\ Contents \in Seq(Msg \cup {NoMsg}) /\ Len(Contents) = Unreleased
              /\ Contents = [i \in 1 .. Unreleased |-> messages[(Oldest + (i - 1)) % Size]]
              /\ Contents' = [i \in 1 .. Unreleased + 1 |-> messages[(Oldest + (i - 1)) % Size]]
          BY <2>0, <3>2, ContentsSeq DEF Contents
        <4>2. Seen[t] = messages[(Oldest + ((Unreleased + 1) - 1)) % Size]
          BY <2>0, <2>1, <3>2, <3>3 DEF Seen, mySide, Side, PutOps, GetOps
        <4> HIDE DEF Unreleased, Oldest, Contents, Seen
        <4> QED BY <3>2, <4>1, <4>2
      <3>5. Seen' = Seen
        BY <2>0, <2>1 DEF Seen, mySide, Side, PutOps, GetOps
      <3>6. Abstract!Insert(t)
        BY <2>0, <2>1, <3>2, <3>4, <3>5, ContentsSeq DEF Abstract!Insert, mySide, Side
      <3> QED BY <3>6 DEF Abstract!Next
    <2>2. CASE mySide(t) = "read"
      <3>1. /\ Unreleased' = Unreleased - 1 /\ Unreleased \in 1 .. Size
            /\ Oldest = Before(idx["read"]) /\ Oldest' = idx["read"]
        <4>0. mutex["read"] = t /\ mutex'["read"] = t
          BY <2>0, <2>2
        <4>1. At("read", {"copy", "post"}) /\ ~ At("read", {"copy", "post"})'
          BY <2>0, <4>0 DEF At
        <4>2. At("read", {"post"}) /\ ~ At("read", {"post"})' /\ idx'["read"] = idx["read"]
          BY <2>0, <4>0 DEF At
        <4>3. sem'["read"] = sem["read"]
          BY <2>0, <2>2 DEF Other
        <4>4. Unreleased' = Unreleased - 1 /\ Unreleased \in 1 .. Size
          BY <2>n, <4>1, <4>2, <4>3, OldestSlot DEF Unreleased
        <4> QED BY <4>2, <4>4 DEF Oldest
      <3>2. ASSUME NEW i \in 1 .. (Unreleased - 1)
            PROVE  (idx["read"] + (i - 1)) % Size = (Oldest + i) % Size
        <4>1. /\ i - 1 \in 0 .. Size /\ i \in 0 .. Size /\ i \in 1 .. (Size - 1)
              /\ Oldest \in 0 .. (Size - 1)
          BY <2>n, <3>1, <3>2, OldestSlot DEF Slots
        <4>2. (idx["read"] + (i - 1)) % Size
                = IF idx["read"] + (i - 1) < Size THEN idx["read"] + (i - 1)
                                                  ELSE idx["read"] + (i - 1) - Size
          BY <2>n, <4>1, SlotMod DEF Slots
        <4>3. (Oldest + i) % Size = IF Oldest + i < Size THEN Oldest + i ELSE Oldest + i - Size
          BY <2>n, <4>1, SlotMod DEF Slots
        <4>4. Oldest = IF idx["read"] = 0 THEN Size - 1 ELSE idx["read"] - 1
          BY <2>n, <3>1, BeforeFormula
        <4> HIDE DEF SimInv, IInv, TypeOK, MboxAssumption
        <4> QED BY <2>n, <4>1, <4>2, <4>3, <4>4
      <3>3. Contents' = Tail(Contents)
        <4>1. /\ Contents \in Seq(Msg \cup {NoMsg}) /\ Len(Contents) = Unreleased
              /\ Contents = [i \in 1 .. Unreleased |-> messages[(Oldest + (i - 1)) % Size]]
              /\ Contents' = [i \in 1 .. (Unreleased - 1) |-> messages[(idx["read"] + (i - 1)) % Size]]
          BY <2>0, <3>1, ContentsSeq DEF Contents
        <4>2. Contents' = [i \in 1 .. (Unreleased - 1) |-> messages[(Oldest + i) % Size]]
          BY <3>2, <4>1
        <4> HIDE DEF Unreleased, Oldest, Contents
        <4>3. ASSUME NEW i \in 1 .. (Unreleased - 1)
              PROVE  Contents[i + 1] = messages[(Oldest + i) % Size]
          BY <3>1, <4>1
        <4>4. Tail(Contents) = [i \in 1 .. (Unreleased - 1) |-> Contents[i + 1]]
          BY <3>1, <4>1
        <4> QED BY <4>2, <4>3, <4>4
      <3>4. Head(Contents) = val[t] /\ Contents # <<>>
        <4>1. Contents[1] = messages[(Oldest + (1 - 1)) % Size]
          BY <3>1, ContentsSeq
        <4>2. (Oldest + 0) % Size = Oldest
          BY OldestSlot, SlotMod
        <4> QED BY <2>0, <2>2, <3>1, <4>1, <4>2, ContentsSeq
      <3>5. Seen' = [Seen EXCEPT ![t] = val[t]]
        BY <2>0, <2>2 DEF Seen, mySide, Side, PutOps, GetOps
      <3>6. op[t] \in GetOps
        BY <2>0, <2>2 DEF mySide, Side, CallInv
      <3>7. Abstract!Remove(t)
        BY <2>0, <3>3, <3>4, <3>5, <3>6 DEF Abstract!Remove
      <3> QED BY <3>7 DEF Abstract!Next
    <2> QED BY <2>0, <2>1, <2>2
  <1> QED
    BY <1>1, <1>2, <1>3, <1>4, <1>5, <1>6, <1>7, <1>8, <1>9 DEF Next, Step

\* The mailbox implements the bounded FIFO, for every number of threads, every
\* ring size, every set of words and every selection of calls, until a signal ends
\* the sem_wait of a plain call.
THEOREM MboxImplementsFifo == Spec => Implements
  <1>1. Init => Abstract!Init
    <2> SUFFICES ASSUME Init PROVE Abstract!Init
      OBVIOUS
    <2>0. slips = 0 /\ IInv
      BY InitIInv DEF Init
    <2>1. Unreleased = 0
      BY DEF Init, Unreleased, At, Sides
    <2>2. Contents = <<>>
      BY <2>0, <2>1, ContentsSeq
    <2>3. Seen = [t \in Threads |-> NoMsg]
      BY DEF Init, Seen
    <2> QED BY <2>2, <2>3 DEF Init, Abstract!Init
  <1>2. SimInv /\ [Next]_vars => [Abstract!Next \/ slips' > 0]_(Abstract!bvars)
    BY StepSimulation
  <1> QED BY <1>1, <1>2, SimulationInvariant, PTL DEF Spec, Implements

-----------------------------------------------------------------------------

\* No thread that a signal may reach makes a plain call: what a delegate would do
\* if dt_mbox_put used mbox_put_interruptible.
Unsignalled == \A t \in Signalled : Ops[t] \cap PlainOps = {}

\* A thread is in none but its own calls, and nothing has slipped.
NoSlip == slips = 0 /\ \A t \in Threads : op[t] \in Ops[t] \cup {"none"}

LEMMA NoSlipKept == Unsignalled => (Spec => []NoSlip)
  <1> SUFFICES ASSUME Unsignalled PROVE Spec => []NoSlip
    OBVIOUS
  <1> USE CallsAssumption
  <1>1. Init => NoSlip
    BY DEF Init, NoSlip
  <1>2. NoSlip /\ IInv /\ [Next]_vars => NoSlip'
    <2> SUFFICES ASSUME NoSlip, IInv, [Next]_vars PROVE NoSlip'
      OBVIOUS
    <2> USE DEF NoSlip, IInv, TypeOK
    <2>1. ASSUME NEW t \in Threads, Call(t) PROVE NoSlip'
      BY <2>1 DEF Call
    <2>2. ASSUME NEW t \in Threads, Interrupt(t) PROVE NoSlip'
      <3>1. op[t] \notin PlainOps
        BY <2>2 DEF Interrupt, Unsignalled, PlainOps
      <3> QED BY <2>2, <3>1 DEF Interrupt
    <2>3. ASSUME NEW t \in Threads, Step(t) PROVE NoSlip'
      BY <2>3 DEF Step, Lock, SemWait, GetValue, Copy, Post, Unlock
    <2>4. CASE UNCHANGED vars
      BY <2>4 DEF vars
    <2> QED BY <2>1, <2>2, <2>3, <2>4 DEF Next
  <1> QED BY <1>1, <1>2, InductiveInvariant, PTL DEF Spec

\* If no thread that a signal may reach makes a plain call, the mailbox is the
\* bounded FIFO without reservation.
THEOREM UnsignalledFifo ==
  ASSUME Unsignalled
  PROVE  Spec => Abstract!Spec
  <1>1. NoSlip /\ NoSlip' /\ [Abstract!Next \/ slips' > 0]_(Abstract!bvars)
          => [Abstract!Next]_(Abstract!bvars)
    BY DEF NoSlip
  <1>2. Spec => []NoSlip
    BY NoSlipKept
  <1> QED BY <1>1, <1>2, MboxImplementsFifo, PTL DEF Implements, Abstract!Spec
=============================================================================
