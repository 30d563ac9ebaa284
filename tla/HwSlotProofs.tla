---------------------------- MODULE HwSlotProofs ----------------------------
(***************************************************************************)
(* Safety of a hardware slot for every set of commands, every set of       *)
(* calls of the owner, and every size of FIFOs and mailboxes.              *)
(***************************************************************************)
EXTENDS HwSlot, TLAPS

-----------------------------------------------------------------------------
(* The inductive invariant *)

\* Where the owner is tells whether the slot has a thread and a delegate, and
\* what it was called for.
OwnerInv ==
  /\ dt <=> dpc # "none"
  /\ ~ dt => state = "INIT" /\ opc \in {"idle", "create_rt", "create_pulse", "create_start", "create_dt"}
  /\ opc \in {"create_rt", "create_pulse", "create_start", "create_dt"} => ~ dt
  /\ ~ dt => (rt <=> opc \in {"create_pulse", "create_start", "create_dt"})
  /\ dt => state # "INIT"
  /\ opc \in {"load", "pause", "reload", "suspend", "look", "poke", "test"} =>
       rt /\ call \in {"suspend", "suspend_block"} /\ state = "SUSPENDING"
  /\ opc \in {"join", "join_wait", "join_reset", "join_rt"} =>
       /\ rt /\ call \in {"suspend_block", "join"}
       /\ IF call = "join" THEN state \in {"RUNNING_HW", "SUSPENDED"} ELSE state = "SUSPENDING"
  /\ opc = "idle" => state # "SUSPENDING"
  /\ opc \in {"resume_check", "resume_rt"} => ~ rt
  /\ opc = "resume_start" => rt
  /\ opc \in {"resume_check", "resume_rt", "resume_start"} => state \in {"RUNNING_HW", "SUSPENDED"}
  /\ opc # "panic"

\* The delegate works on a call that will be answered, on an exit, on its post.
Unanswered == {"EXIT", "CLEAR_SIGNAL", "INTERRUPTED"}
Serving == \/ dpc \in {"call", "slip", "syscall", "done", "unpause", "answer"}
           \/ dpc \in {"got", "exec"} /\ cmd \notin Unanswered
Exiting == dpc \in {"got", "exec"} /\ cmd = "EXIT"
Posting == dpc \in {"flags", "post"}

\* The words in hw2sw: calls that are not answered, and at the end one of S.
Clears(q) == \A i \in 1 .. Len(q) : q[i] = "CLEAR_SIGNAL"
ClearsThen(q, S) ==
  /\ q # <<>> /\ q[Len(q)] \in S
  /\ \A i \in 1 .. Len(q) - 1 : q[i] = "CLEAR_SIGNAL"
Quiet == sw2hw = <<>> /\ hw2sw = <<>>

\* One run of the hardware thread, from the reset pulse to the exit that is posted
\* and taken: what is on its way in the FIFOs and what the delegate does with it.
ResetInv == hw = "reset" =>
  /\ hwrst /\ Quiet /\ ~ Serving /\ ~ Exiting
  /\ opc \notin {"create_start", "create_dt", "resume_rt", "resume_start"}
  /\ IF rt /\ opc # "create_pulse"
     THEN \/ Posting /\ dt_exit = 0 /\ opc \notin {"join_reset", "join_rt"}
          \/ ~ Posting /\ dt_exit = 1 /\ opc \notin {"join_reset", "join_rt"}
          \/ ~ Posting /\ dt_exit = 0 /\ opc \in {"join_reset", "join_rt"}
     ELSE ~ Posting /\ dt_exit = 0
BootInv == hw = "boot" =>
  /\ hw2sw = <<>> /\ ~ Serving /\ ~ Exiting /\ ~ Posting /\ dt_exit = 0
  /\ opc \notin {"create_rt", "create_pulse", "resume_check", "join_reset", "join_rt"}
  /\ IF opc \in {"create_start", "resume_rt", "resume_start"}
     THEN sw2hw = <<>> ELSE rt /\ Len(sw2hw) = 1
RunInv == hw \in {"run", "await", "done"} =>
  /\ rt /\ dt_exit = 0 /\ ~ Posting
  /\ opc \notin {"create_rt", "create_pulse", "create_start", "resume_check", "resume_rt",
                 "resume_start", "join_reset", "join_rt"}
  /\ hw = "run" => ~ Serving /\ ~ Exiting /\ sw2hw = <<>> /\ Clears(hw2sw)
  /\ hw = "await" =>
       /\ ~ Exiting
       /\ \/ Serving /\ Quiet
          \/ ~ Serving /\ Len(sw2hw) <= 1 /\ hw2sw = <<>>
          \/ ~ Serving /\ sw2hw = <<>> /\ ClearsThen(hw2sw, AllCmds \ {"EXIT", "CLEAR_SIGNAL"})
  /\ hw = "done" =>
       /\ ~ Serving /\ sw2hw = <<>>
       /\ \/ Exiting /\ hw2sw = <<>>
          \/ ~ Exiting /\ ClearsThen(hw2sw, {"EXIT"})
RunsInv == ResetInv /\ BootInv /\ RunInv

\* Only the delegate takes SUSPEND out of the flags, and only after the owner
\* has put it in; a copy the delegate stores back never brings it back.
FlagInv ==
  /\ "SUSPEND" \in dt_flags => opc \in {"look", "poke", "test"}
  /\ "SUSPEND" \notin otmp
  /\ dpc = "unpause" /\ "SUSPEND" \in dtmp => "SUSPEND" \in dt_flags
  /\ dpc = "clear" => "SUSPEND" \in dt_flags
  /\ dpc = "raise" /\ hw = "reset" => state \in {"SUSPENDING", "SUSPENDED"}

\* The delegate has left the call it was in when the pause began before the
\* owner sees its SUSPEND taken.
PauseInv ==
  /\ state \in {"SUSPENDING", "SUSPENDED"} /\ opc \notin {"load", "pause", "reload", "suspend"}
  /\ "SUSPEND" \notin dt_flags /\ "PAUSE_SYSCALLS" \in dt_flags
  => dpc \notin {"call", "slip", "syscall"}

\* The delegate has an answer when it is about to write one.
AnswerInv == dpc \in {"done", "answer"} => ans \in HwWords

IInv == TypeOK /\ OwnerInv /\ RunsInv /\ FlagInv /\ PauseInv /\ AnswerInv

-----------------------------------------------------------------------------
(* Types *)

LEMMA DelegateTypes ==
  ASSUME TypeOK, AnswerInv, Delegate PROVE TypeOK'
  <1> USE SlotAssumption DEF TypeOK, Holders, DKeep, DGoto, DelegatePCs, Flags, DtStates, HwWords,
      procVars, osifVars, mailVars, boxVars, syncVars, resVars, ownerVars
  <1>1. CASE DStart \/ DTop \/ DClear \/ DRaise \/ DBlock \/ DWait \/ DWake
    <2>1. CASE DStart
      BY <2>1 DEF DStart
    <2>2. CASE DTop
      <3>1. dtmp' \in SUBSET Flags /\ dpc' \in DelegatePCs
        BY <2>2 DEF DTop
      <3> QED BY <2>2, <3>1 DEF DTop
    <2>3. CASE DClear
      BY <2>3 DEF DClear
    <2>4. CASE DRaise
      BY <2>4 DEF DRaise
    <2>5. CASE DBlock
      BY <2>5 DEF DBlock
    <2>6. CASE DWait
      BY <2>6 DEF DWait
    <2>7. CASE DWake
      <3>1. brk' \in BOOLEAN
        BY <2>7 DEF DWake
      <3> QED BY <2>7, <3>1 DEF DWake
    <2> QED BY <1>1, <2>1, <2>2, <2>3, <2>4, <2>5, <2>6, <2>7
  <1>2. CASE DTake
    <2>1. Head(hw2sw) \in AllCmds /\ Tail(hw2sw) \in Seq(AllCmds) /\ Len(Tail(hw2sw)) <= FifoSize
      BY <1>2 DEF DTake
    <2> QED BY <1>2, <2>1 DEF DTake
  <1>3. CASE DInterrupted \/ DGot \/ DExec
    <2>1. CASE DInterrupted
      BY <2>1 DEF DInterrupted, Serve, HoldInReset
    <2>2. CASE DGot
      BY <2>2 DEF DGot, Serve, HoldInReset
    <2>3. CASE DExec
      <3>1. dtmp' \in SUBSET Flags /\ dpc' \in DelegatePCs /\ ans' \in HwWords \cup {"none"}
        BY <2>3 DEF DExec, Serve
      <3>2. hwrst' \in BOOLEAN /\ hwsig' \in BOOLEAN /\ hw' \in {"reset", "boot", "run", "await", "done"}
        BY <2>3 DEF DExec, Serve, HoldInReset
      <3> QED BY <2>3, <3>1, <3>2 DEF DExec
    <2> QED BY <1>3, <2>1, <2>2, <2>3
  <1>4. CASE DCall
    <2>1. inbox' \in 0 .. InSize /\ sem' \in 0 .. SemMax
      BY <1>4 DEF DCall, NoWait, TryPut, Put, TryGet, SemPost, MutexUnlock, MutexTryLock,
         CondSignal, CondBroadcast, PutLock
    <2>4. outbox' \in 0 .. (OutSize + slips') /\ slips' \in Nat
      BY <1>4 DEF DCall, NoWait, TryPut, Put, TryGet, SemPost, MutexUnlock, MutexTryLock,
         CondSignal, CondBroadcast, PutLock, Places
    <2>5. readLock' \in Holders /\ writeLock' \in Holders
      BY <1>4 DEF DCall, NoWait, TryPut, Put, TryGet, SemPost, MutexUnlock, MutexTryLock,
         CondSignal, CondBroadcast, PutLock
    <2>2. mutex' \in Holders /\ cond' = cond
      BY <1>4 DEF DCall, NoWait, TryPut, Put, TryGet, SemPost, MutexUnlock, MutexTryLock,
         CondSignal, CondBroadcast, PutLock
    <2>3. ans' \in HwWords \cup {"none"} /\ dt_state' \in DtStates /\ dpc' \in DelegatePCs
      BY <1>4 DEF DCall, NoWait, TryPut, Put, TryGet, SemPost, MutexUnlock, MutexTryLock,
         CondSignal, CondBroadcast, PutLock
    <2>6. UNCHANGED <<dt_flags, procVars, osifVars, cmd, dtmp, hw>> /\ DKeep
      BY <1>4 DEF DCall
    <2>7. UNCHANGED <<uses, rt, dt, dt_exit, state, opc, call, otmp, seen, hwrst, hwsig, sw2hw, hw2sw, brk>>
      BY <2>6
    <2>8. UNCHANGED <<dt_flags, cmd, dtmp, hw>>
      BY <2>6
    <2> HIDE DEF Flags, DtStates, HwWords, DelegatePCs, Holders
    <2> QED BY <2>1, <2>2, <2>3, <2>4, <2>5, <2>7, <2>8
  <1>5. CASE DSyscall
    <2>1. inbox' \in 0 .. InSize /\ sem' \in 0 .. SemMax
      BY <1>5 DEF DSyscall, DBlocked, DGetLock, DGet, DSemWait, DLock, DCondRelease, DCondReturn
    <2>2. /\ mutex' \in Holders /\ cond' \in {"none", "waits", "woken"}
          /\ outbox' = outbox /\ slips' = slips /\ readLock' \in Holders /\ writeLock' = writeLock
      BY <1>5 DEF DSyscall, DBlocked, DGetLock, DGet, DSemWait, DLock, DCondRelease, DCondReturn
    <2>3. ans' \in HwWords \cup {"none"} /\ dpc' \in DelegatePCs
      BY <1>5 DEF DSyscall, DBlocked, DGetLock, DGet, DSemWait, DLock, DCondRelease, DCondReturn, DReturn
    <2>4. UNCHANGED <<dt_state, dt_flags, procVars, osifVars, cmd, dtmp, hw>> /\ DKeep
      BY <1>5 DEF DSyscall, DBlocked, DGetLock, DGet, DSemWait, DLock, DCondRelease, DCondReturn
    <2> QED BY <2>1, <2>2, <2>3, <2>4
  <1>6. CASE DGetDone \/ DUnpause \/ DFlags \/ DPost
    <2>1. CASE DGetDone
      BY <2>1 DEF DGetDone
    <2>2. CASE DUnpause
      BY <2>2 DEF DUnpause
    <2>3. CASE DFlags
      BY <2>3 DEF DFlags
    <2>4. CASE DPost
      BY <2>4 DEF DPost
    <2> QED BY <1>6, <2>1, <2>2, <2>3, <2>4
  <1>7. CASE DAnswer
    <2>1. ans \in HwWords
      BY <1>7 DEF DAnswer, AnswerInv
    <2>2. sw2hw' \in Seq(HwWords) /\ Len(sw2hw') <= FifoSize
      BY <1>7, <2>1 DEF DAnswer
    <2> QED BY <1>7, <2>2 DEF DAnswer
  <1>8. CASE DSlip
    <2>1. outbox' \in 0 .. (OutSize + slips') /\ slips' \in Nat /\ writeLock' \in Holders
      BY <1>8 DEF DSlip
    <2> QED BY <1>8, <2>1 DEF DSlip
  <1> QED BY <1>1, <1>2, <1>3, <1>4, <1>5, <1>6, <1>7, <1>8 DEF Delegate

LEMMA OwnerTypes ==
  ASSUME TypeOK, Owner PROVE TypeOK'
  <1> USE SlotAssumption DEF TypeOK, Holders, OGoto, OKeep, Return, OwnerPCs, DelegatePCs, Flags, DtStates,
      HwWords, States, slotVars, procVars, osifVars, mailVars, boxVars, syncVars, resVars, delegateVars
  <1>1. CASE OCreate
    <2>1. sw2hw' \in Seq(HwWords) /\ Len(sw2hw') <= FifoSize
      BY <1>1 DEF OCreate
    <2>2. /\ dt' \in BOOLEAN /\ dt_state' \in DtStates /\ dt_flags' \in SUBSET Flags
          /\ dpc' \in DelegatePCs
      BY <1>1 DEF OCreate
    <2>5. state' \in States /\ call' \in AllCalls \cup {"none"} /\ opc' \in OwnerPCs
      BY <1>1 DEF OCreate
    <2>3. rt' \in BOOLEAN /\ hwrst' \in BOOLEAN /\ hwsig' \in BOOLEAN
          /\ hw' \in {"reset", "boot", "run", "await", "done"}
      BY <1>1 DEF OCreate, PulseReset
    <2>4. UNCHANGED <<hw2sw, brk, otmp, seen, dt_exit, resVars, uses, cmd, dtmp, ans>>
      BY <1>1 DEF OCreate
    <2> QED BY <2>1, <2>2, <2>3, <2>4, <2>5
  <1>2. CASE OSetFlags \/ OLook \/ OTest
    <2>1. CASE OSetFlags
      <3>1. dt_flags' \in SUBSET Flags /\ otmp' \in SUBSET Flags /\ opc' \in OwnerPCs
        BY <2>1 DEF OSetFlags
      <3> QED BY <2>1, <3>1 DEF OSetFlags
    <2>2. CASE OLook
      BY <2>2 DEF OLook
    <2>3. CASE OTest
      BY <2>3 DEF OTest
    <2> QED BY <1>2, <2>1, <2>2, <2>3
  <1>3. CASE OPoke
    <2>1. /\ brk' \in BOOLEAN /\ dpc' \in DelegatePCs /\ cond' \in {"none", "waits", "woken"}
          /\ readLock' \in Holders
      BY <1>3 DEF OPoke, Break, Kill, NoPoke
    <2> QED BY <1>3, <2>1 DEF OPoke
  <1>4. CASE OJoin \/ OJoinReset \/ OJoinFree
    <2>1. CASE OJoin
      BY <2>1 DEF OJoin, HoldInReset
    <2>2. CASE OJoinReset
      <3>1. hwrst' \in BOOLEAN /\ hwsig' \in BOOLEAN /\ hw' = "reset" /\ opc' \in OwnerPCs
        BY <2>2 DEF OJoinReset, HoldInReset
      <3> QED BY <2>2, <3>1 DEF OJoinReset
    <2>3. CASE OJoinFree
      <3>1. rt' \in BOOLEAN /\ state' \in States /\ opc' \in OwnerPCs /\ call' = "none"
        BY <2>3 DEF OJoinFree
      <3> QED BY <2>3, <3>1 DEF OJoinFree
    <2> QED BY <1>4, <2>1, <2>2, <2>3
  <1>5. CASE OJoinWait
    <2>1. dt_exit - 1 \in Nat
      BY <1>5 DEF OJoinWait
    <2> QED BY <1>5, <2>1 DEF OJoinWait
  <1>6. CASE OResume \/ OResumeSet
    <2>1. CASE OResume
      <3>1. hwrst' \in BOOLEAN /\ hwsig' \in BOOLEAN /\ hw' \in {hw, "boot"} /\ opc' \in OwnerPCs
        BY <2>1 DEF OResume, PulseReset
      <3> QED BY <2>1, <3>1 DEF OResume
    <2>2. CASE OResumeSet
      BY <2>2 DEF OResumeSet, PulseReset
    <2> QED BY <1>6, <2>1, <2>2
  <1>7. CASE OResumeStart
    <2>1. sw2hw' \in Seq(HwWords) /\ Len(sw2hw') <= FifoSize
      BY <1>7 DEF OResumeStart
    <2> QED BY <1>7, <2>1 DEF OResumeStart
  <1> QED BY <1>1, <1>2, <1>3, <1>4, <1>5, <1>6, <1>7 DEF Owner

LEMMA OtherTypes ==
  ASSUME TypeOK, Hardware \/ Environment PROVE TypeOK'
  <1> USE SlotAssumption DEF TypeOK, Holders, slotVars, procVars, osifVars, mailVars, boxVars, syncVars, resVars,
      delegateVars, ownerVars
  <1>1. CASE Hardware
    <2>1. Tail(sw2hw) \in Seq(HwWords) /\ Len(Tail(sw2hw)) <= FifoSize
      BY <1>1 DEF Hardware, HwBoot, HwAnswer
    <2>2. CASE HwBoot
      BY <2>1, <2>2 DEF HwBoot
    <2>3. CASE HwAnswer
      BY <2>1, <2>3 DEF HwAnswer
    <2> QED BY <1>1, <2>2, <2>3 DEF Hardware
  <1>2. ASSUME NEW c \in uses, HwCall(c) PROVE TypeOK'
    <2>1. c \in AllCmds
      OBVIOUS
    <2>2. hw2sw' \in Seq(AllCmds) /\ Len(hw2sw') <= FifoSize
      BY <1>2, <2>1 DEF HwCall
    <2>3. hw' \in {"reset", "boot", "run", "await", "done"}
      BY <1>2 DEF HwCall
    <2> QED BY <1>2, <2>2, <2>3 DEF HwCall
  <1>3. CASE Arrive \/ Drain \/ OtherPost \/ OtherLock \/ OtherUnlock \/ OtherSignal
    BY <1>3 DEF Arrive, Drain, OtherPost, OtherLock, OtherUnlock, OtherSignal, OthersKeep
  <1>5. CASE OtherCalls
    BY <1>5 DEF OtherCalls, OthersKeep
  <1>6. CASE OtherReturns
    <2>1. inbox' \in 0 .. InSize /\ outbox' \in 0 .. (OutSize + slips) /\ slips' = slips
      BY <1>6 DEF OtherReturns, Places
    <2>2. readLock' \in Holders /\ writeLock' \in Holders
      BY <1>6 DEF OtherReturns
    <2> QED BY <1>6, <2>1, <2>2 DEF OtherReturns, OthersKeep
  <1>4. ASSUME NEW c \in AllCalls, Begin(c) PROVE TypeOK'
    <2>1. Entry[c] \in OwnerPCs
      BY DEF Entry, AllCalls, OwnerPCs
    <2>2. state' \in States /\ call' \in AllCalls \cup {"none"} /\ hwsig' \in BOOLEAN
      BY <1>4 DEF Begin, States
    <2>3. /\ opc' = Entry[c]
          /\ UNCHANGED <<rt, dt, dt_state, dt_flags, dt_exit, hwrst, osifVars, resVars, delegateVars,
                         otmp, seen, hw>>
      BY <1>4 DEF Begin, OGoto, OKeep
    <2> QED BY <2>1, <2>2, <2>3
  <1> QED BY <1>1, <1>2, <1>3, <1>4, <1>5, <1>6 DEF Environment, AllCalls

-----------------------------------------------------------------------------
(* The words of hw2sw *)

LEMMA TakeWord ==
  ASSUME NEW q \in Seq(AllCmds), q # <<>>, NEW S
  PROVE  /\ Clears(q) => Head(q) = "CLEAR_SIGNAL" /\ Clears(Tail(q))
         /\ ClearsThen(q, S) => \/ Head(q) \in S /\ Tail(q) = <<>>
                                \/ Head(q) = "CLEAR_SIGNAL" /\ ClearsThen(Tail(q), S)
  <1>1. /\ Len(q) \in Nat /\ Len(q) >= 1 /\ Head(q) = q[1] /\ Len(Tail(q)) = Len(q) - 1
        /\ \A i \in 1 .. Len(Tail(q)) : Tail(q)[i] = q[i + 1]
    OBVIOUS
  <1>0. Tail(q) \in Seq(AllCmds) /\ (Tail(q) = <<>> <=> Len(Tail(q)) = 0)
    <2>1. \A x \in Seq(AllCmds) : x = <<>> <=> Len(x) = 0
      OBVIOUS
    <2>2. Tail(q) \in Seq(AllCmds)
      OBVIOUS
    <2> QED BY <2>1, <2>2
  <1>2. ASSUME Clears(q) PROVE Head(q) = "CLEAR_SIGNAL" /\ Clears(Tail(q))
    BY <1>1, <1>2 DEF Clears
  <1>3. ASSUME ClearsThen(q, S), Len(q) = 1 PROVE Head(q) \in S /\ Tail(q) = <<>>
    <2>1. q[1] \in S
      BY <1>1, <1>3 DEF ClearsThen
    <2>2. Tail(q) = <<>>
      BY <1>0, <1>1, <1>3
    <2> QED BY <1>1, <2>1, <2>2
  <1>4. ASSUME ClearsThen(q, S), Len(q) # 1
        PROVE  Head(q) = "CLEAR_SIGNAL" /\ ClearsThen(Tail(q), S)
    <2>1. Len(q) > 1 /\ Tail(q) # <<>> /\ Len(Tail(q)) = Len(q) - 1
      BY <1>0, <1>1, <1>4
    <2>2. Len(Tail(q)) \in 1 .. Len(Tail(q)) /\ Len(Tail(q)) + 1 = Len(q)
      BY <1>1, <2>1
    <2>3. Tail(q)[Len(Tail(q))] = q[Len(q)]
      BY <1>1, <2>2
    <2>4. q[Len(q)] \in S /\ \A i \in 1 .. Len(q) - 1 : q[i] = "CLEAR_SIGNAL"
      BY <1>4 DEF ClearsThen
    <2>5. \A i \in 1 .. Len(Tail(q)) - 1 : Tail(q)[i] = "CLEAR_SIGNAL"
      BY <1>1, <2>1, <2>4
    <2>6. Head(q) = "CLEAR_SIGNAL"
      BY <1>1, <2>1, <2>4
    <2> QED BY <2>1, <2>3, <2>4, <2>5, <2>6 DEF ClearsThen
  <1> QED BY <1>2, <1>3, <1>4

LEMMA PutWord ==
  ASSUME NEW q \in Seq(AllCmds), NEW c \in AllCmds, NEW S, Clears(q)
  PROVE  /\ c = "CLEAR_SIGNAL" => Clears(Append(q, c))
         /\ c \in S => ClearsThen(Append(q, c), S)
  <1>1. /\ Len(q) \in Nat /\ Len(Append(q, c)) = Len(q) + 1 /\ Append(q, c)[Len(q) + 1] = c
        /\ \A i \in 1 .. Len(q) : Append(q, c)[i] = q[i]
    OBVIOUS
  <1>2. \A i \in 1 .. Len(q) : Append(q, c)[i] = "CLEAR_SIGNAL"
    BY <1>1 DEF Clears
  <1>3. ASSUME c = "CLEAR_SIGNAL" PROVE Clears(Append(q, c))
    BY <1>1, <1>2, <1>3 DEF Clears
  <1>4. ASSUME c \in S PROVE ClearsThen(Append(q, c), S)
    <2>1. Append(q, c) # <<>>
      OBVIOUS
    <2> QED BY <1>1, <1>2, <1>4, <2>1 DEF ClearsThen
  <1> QED BY <1>3, <1>4

-----------------------------------------------------------------------------
(* The delegate *)

Rest == OwnerInv /\ RunsInv /\ FlagInv /\ PauseInv /\ AnswerInv

\* Steps of the delegate between two commands, and up to the call.
LEMMA LoopStep ==
  ASSUME IInv, DStart \/ DTop \/ DClear \/ DRaise \/ DBlock \/ DWait \/ DWake \/ DInterrupted \/ DGot
  PROVE  Rest'
  <1> USE DEF DKeep, DGoto, procVars, osifVars, mailVars, boxVars, syncVars, resVars, ownerVars
  <1>1. UNCHANGED <<rt, dt, dt_exit, state, ownerVars, hwrst, sw2hw, hw2sw, hw, ans>>
    BY DEF DStart, DTop, DClear, DRaise, DBlock, DWait, DWake, DInterrupted, DGot
  <1>2. /\ dpc \notin {"none", "flags", "post", "call", "slip", "syscall", "done", "unpause", "answer"}
        /\ dpc' \notin {"none", "flags", "post", "call", "slip", "syscall", "done", "unpause", "answer"}
    BY DEF DStart, DTop, DClear, DRaise, DBlock, DWait, DWake, DInterrupted, DGot
  <1>7. (Serving' <=> Serving) /\ (Exiting' <=> Exiting) /\ ~ Posting /\ ~ Posting'
    <2>1. CASE DStart \/ DTop \/ DClear \/ DRaise \/ DBlock \/ DWait \/ DWake
      <3>1. dpc \notin {"got", "exec"} /\ dpc' \notin {"got", "exec"}
        BY <2>1 DEF DStart, DTop, DClear, DRaise, DBlock, DWait, DWake
      <3> QED BY <1>2, <3>1 DEF Serving, Exiting, Posting
    <2>2. CASE DInterrupted
      BY <2>2 DEF DInterrupted, Serving, Exiting, Unanswered, Posting
    <2>3. CASE DGot
      BY <2>3 DEF DGot, Serving, Exiting, Unanswered, Posting
    <2> QED BY <2>1, <2>2, <2>3
  <1>3. RunsInv'
    <2>1. ResetInv'
      BY <1>1, <1>7 DEF IInv, RunsInv, ResetInv, Quiet
    <2>2. BootInv'
      BY <1>1, <1>7 DEF IInv, RunsInv, BootInv
    <2>3. RunInv'
      BY <1>1, <1>7 DEF IInv, RunsInv, RunInv, Quiet
    <2> QED BY <2>1, <2>2, <2>3 DEF RunsInv
  <1>4. OwnerInv' /\ AnswerInv'
    BY <1>1, <1>2 DEF IInv, OwnerInv, AnswerInv
  <1>5. PauseInv'
    BY <1>2 DEF PauseInv
  <1>6. FlagInv'
    BY <1>1, <1>2 DEF IInv, OwnerInv, FlagInv, DStart, DTop, DClear, DRaise, DBlock, DWait, DWake,
       DInterrupted, DGot
  <1> QED BY <1>3, <1>4, <1>5, <1>6 DEF Rest

LEMMA TakeStep ==
  ASSUME IInv, DTake PROVE Rest'
  <1> USE DEF DKeep, DGoto, procVars, osifVars, mailVars, boxVars, syncVars, resVars, ownerVars
  <1>1. /\ UNCHANGED <<rt, dt, dt_exit, state, ownerVars, hwrst, sw2hw, hw, ans, dt_flags, dtmp>>
        /\ dpc \in {"read", "woken"} /\ dpc' = "got" /\ hw2sw # <<>> /\ hw2sw \in Seq(AllCmds)
        /\ cmd' = Head(hw2sw) /\ hw2sw' = Tail(hw2sw)
    BY DEF DTake, IInv, TypeOK
  <1>2. ~ Serving /\ ~ Exiting /\ ~ Posting /\ ~ Posting'
    BY <1>1 DEF Serving, Exiting, Posting
  <1>3. hw \in {"run", "await", "done"}
    BY <1>1 DEF IInv, TypeOK, RunsInv, ResetInv, BootInv, Quiet
  <1>4. CASE hw = "run"
    <2>1. cmd' = "CLEAR_SIGNAL" /\ Clears(hw2sw')
      BY <1>1, <1>2, <1>4, TakeWord DEF IInv, RunsInv, RunInv
    <2>2. ~ Serving' /\ ~ Exiting'
      BY <1>1, <2>1 DEF Serving, Exiting, Unanswered
    <2> QED BY <1>1, <1>2, <1>4, <2>1, <2>2 DEF IInv, Rest, OwnerInv, RunsInv, ResetInv, BootInv,
            RunInv, FlagInv, PauseInv, AnswerInv
  <1>5. CASE hw = "await"
    <2>1. sw2hw = <<>> /\ ClearsThen(hw2sw, AllCmds \ {"EXIT", "CLEAR_SIGNAL"})
      BY <1>1, <1>2, <1>5 DEF IInv, RunsInv, RunInv
    <2>2. CASE cmd' \in AllCmds \ {"EXIT", "CLEAR_SIGNAL"} /\ hw2sw' = <<>>
      <3>1. Serving' /\ ~ Exiting'
        BY <1>1, <2>2 DEF Serving, Exiting, Unanswered, AllCmds, MailCmds, SyncCmds, ThreadCmds
      <3> QED BY <1>1, <1>2, <1>5, <2>1, <2>2, <3>1 DEF IInv, Rest, OwnerInv, RunsInv, ResetInv,
              BootInv, RunInv, FlagInv, PauseInv, AnswerInv, Quiet
    <2>3. CASE cmd' = "CLEAR_SIGNAL" /\ ClearsThen(hw2sw', AllCmds \ {"EXIT", "CLEAR_SIGNAL"})
      <3>1. ~ Serving' /\ ~ Exiting'
        BY <1>1, <2>3 DEF Serving, Exiting, Unanswered
      <3> QED BY <1>1, <1>2, <1>5, <2>1, <2>3, <3>1 DEF IInv, Rest, OwnerInv, RunsInv, ResetInv,
              BootInv, RunInv, FlagInv, PauseInv, AnswerInv
    <2> QED BY <1>1, <2>1, <2>2, <2>3, TakeWord
  <1>6. CASE hw = "done"
    <2>1. sw2hw = <<>> /\ ClearsThen(hw2sw, {"EXIT"})
      BY <1>1, <1>2, <1>6 DEF IInv, RunsInv, RunInv
    <2>2. CASE cmd' = "EXIT" /\ hw2sw' = <<>>
      <3>1. ~ Serving' /\ Exiting'
        BY <1>1, <2>2 DEF Serving, Exiting, Unanswered
      <3> QED BY <1>1, <1>2, <1>6, <2>1, <2>2, <3>1 DEF IInv, Rest, OwnerInv, RunsInv, ResetInv,
              BootInv, RunInv, FlagInv, PauseInv, AnswerInv
    <2>3. CASE cmd' = "CLEAR_SIGNAL" /\ ClearsThen(hw2sw', {"EXIT"})
      <3>1. ~ Serving' /\ ~ Exiting'
        BY <1>1, <2>3 DEF Serving, Exiting, Unanswered
      <3> QED BY <1>1, <1>2, <1>6, <2>1, <2>3, <3>1 DEF IInv, Rest, OwnerInv, RunsInv, ResetInv,
              BootInv, RunInv, FlagInv, PauseInv, AnswerInv
    <2> QED BY <1>1, <2>1, <2>2, <2>3, TakeWord
  <1> QED BY <1>3, <1>4, <1>5, <1>6

\* A call that is served keeps the hardware thread waiting; dropping it ends the
\* work on it and leaves the FIFOs empty.
LEMMA ServeStep ==
  ASSUME IInv, Serving, UNCHANGED <<rt, dt, dt_exit, state, opc, call, otmp, hwrst, sw2hw, hw2sw, hw>>,
         dpc' \notin {"none", "clear", "raise", "got", "exec", "flags", "post"},
         dpc' \in {"call", "slip", "syscall"} => \/ dpc \in {"call", "slip", "syscall"}
                                                 \/ "PAUSE_SYSCALLS" \notin dt_flags,
         \/ UNCHANGED dt_flags /\ (dpc' = "unpause" => dtmp' = dt_flags)
         \/ dpc = "unpause" /\ dt_flags' = dtmp \ {"PAUSE_SYSCALLS"} /\ dpc' = "answer",
         dpc' \in {"done", "answer"} => ans' \in HwWords
  PROVE  Rest'
  <1>1. /\ rt /\ dt_exit = 0 /\ hw = "await" /\ Quiet /\ ~ Exiting /\ ~ Posting
        /\ opc \notin {"create_rt", "create_pulse", "create_start", "resume_check", "resume_rt",
                       "resume_start", "join_reset", "join_rt"}
    BY DEF IInv, TypeOK, RunsInv, ResetInv, BootInv, RunInv
  <1>2. /\ ~ Exiting' /\ ~ Posting' /\ Quiet' /\ dpc # "none"
    BY <1>1 DEF Exiting, Posting, Quiet, Serving
  <1>3. RunInv'
    BY <1>1, <1>2 DEF RunInv, Quiet
  <1>4. ResetInv' /\ BootInv'
    BY <1>1 DEF ResetInv, BootInv
  <1>5. OwnerInv' /\ AnswerInv'
    BY <1>2 DEF IInv, OwnerInv, AnswerInv
  <1>6. FlagInv'
    BY <1>1 DEF IInv, FlagInv
  <1>7. PauseInv'
    BY DEF IInv, PauseInv
  <1> QED BY <1>3, <1>4, <1>5, <1>6, <1>7 DEF Rest, RunsInv

LEMMA ExecStep ==
  ASSUME IInv, DExec PROVE Rest'
  <1> USE DEF DKeep, DGoto, procVars, osifVars, mailVars, boxVars, syncVars, resVars, ownerVars
  <1>1. /\ dpc = "exec" /\ UNCHANGED <<rt, dt, dt_exit, state, ownerVars, sw2hw, hw2sw, cmd, dt_flags>>
    BY DEF DExec
  <1>2. CASE cmd \in MailCmds \cup SyncCmds \cup {"GET_INIT_DATA", "GET_STATE_ADDR"}
    <2>1. Serving
      BY <1>1, <1>2 DEF Serving, Unanswered, MailCmds, SyncCmds
    <2>2. UNCHANGED <<hwrst, hw>>
      BY <1>2 DEF DExec, MailCmds, SyncCmds
    <2>3. /\ dpc' \in {"top", "call", "answer", "unpause"}
          /\ dpc' = "call" => "PAUSE_SYSCALLS" \notin dt_flags
          /\ dpc' = "answer" => ans' = "init"
          /\ dpc' = "unpause" => dtmp' = dt_flags
      BY <1>2 DEF DExec, Serve, MailCmds, SyncCmds
    <2> QED BY <1>1, <2>1, <2>2, <2>3, ServeStep DEF HwWords
  <1>3. CASE cmd \in {"CLEAR_SIGNAL", "INTERRUPTED"}
    <2>1. UNCHANGED <<hwrst, hw, ans, dtmp>> /\ dpc' = "top"
      BY <1>3 DEF DExec, Serve, MailCmds, SyncCmds
    <2>2. /\ ~ Serving /\ ~ Exiting /\ ~ Posting /\ ~ Serving' /\ ~ Exiting' /\ ~ Posting'
      BY <1>1, <1>3, <2>1 DEF Serving, Exiting, Posting, Unanswered
    <2>3. RunsInv'
      BY <1>1, <2>1, <2>2 DEF IInv, RunsInv, ResetInv, BootInv, RunInv, Quiet
    <2> QED BY <1>1, <2>1, <2>3 DEF IInv, Rest, OwnerInv, FlagInv, PauseInv, AnswerInv
  <1>4. CASE cmd = "EXIT"
    <2>1. /\ hwrst' = TRUE /\ hw' = "reset" /\ dpc' = "flags" /\ UNCHANGED <<ans, dtmp>>
      BY <1>4 DEF DExec, Serve, HoldInReset, MailCmds, SyncCmds
    <2>2. Exiting
      BY <1>1, <1>4 DEF Exiting
    <2>3. /\ hw = "done" /\ rt /\ dt_exit = 0 /\ Quiet /\ ~ Posting /\ dt
          /\ opc \notin {"create_rt", "create_pulse", "create_start", "resume_check", "resume_rt",
                         "resume_start", "join_reset", "join_rt"}
      BY <1>1, <2>2 DEF IInv, TypeOK, RunsInv, ResetInv, BootInv, RunInv, OwnerInv, ClearsThen, Quiet
    <2>4. opc # "create_dt"
      BY <2>3 DEF IInv, OwnerInv
    <2>5. ~ Serving' /\ ~ Exiting' /\ Posting' /\ Quiet'
      BY <1>1, <2>1, <2>3 DEF Serving, Exiting, Posting, Quiet
    <2>6. RunsInv'
      BY <1>1, <2>1, <2>3, <2>4, <2>5 DEF RunsInv, ResetInv, BootInv, RunInv
    <2> QED BY <1>1, <2>1, <2>6 DEF IInv, Rest, OwnerInv, FlagInv, PauseInv, AnswerInv
  <1> QED BY <1>2, <1>3, <1>4 DEF DExec, Serve

LEMMA AnswerStep ==
  ASSUME IInv, DAnswer PROVE Rest'
  <1> USE DEF DKeep, DGoto, procVars, osifVars, mailVars, boxVars, syncVars, resVars, ownerVars
  <1>1. /\ dpc = "answer" /\ dpc' = "top" /\ sw2hw' = Append(sw2hw, ans)
        /\ UNCHANGED <<rt, dt, dt_exit, state, ownerVars, hwrst, hw2sw, hw, dt_flags, dtmp>>
    BY DEF DAnswer
  <1>2. Serving /\ ~ Serving' /\ ~ Exiting' /\ ~ Posting' /\ ~ Posting
    BY <1>1 DEF Serving, Exiting, Posting
  <1>3. /\ rt /\ dt_exit = 0 /\ hw = "await" /\ sw2hw = <<>> /\ hw2sw = <<>>
        /\ opc \notin {"create_rt", "create_pulse", "create_start", "resume_check", "resume_rt",
                       "resume_start", "join_reset", "join_rt"}
    BY <1>2 DEF IInv, TypeOK, RunsInv, ResetInv, BootInv, RunInv, Quiet
  <1>4. Len(sw2hw') = 1
    BY <1>1, <1>3
  <1>5. RunsInv'
    BY <1>1, <1>2, <1>3, <1>4 DEF RunsInv, ResetInv, BootInv, RunInv
  <1> QED BY <1>1, <1>5 DEF IInv, Rest, OwnerInv, FlagInv, PauseInv, AnswerInv

LEMMA ExitStep ==
  ASSUME IInv, DFlags \/ DPost PROVE Rest'
  <1> USE DEF DKeep, DGoto, procVars, osifVars, mailVars, boxVars, syncVars, resVars, ownerVars
  <1>1. /\ UNCHANGED <<rt, dt, state, ownerVars, hwrst, sw2hw, hw2sw, hw>>
        /\ \/ dpc = "flags" /\ dpc' = "post" /\ dt_exit' = dt_exit /\ dt_flags' = {}
           \/ dpc = "post" /\ dpc' = "top" /\ dt_exit' = dt_exit + 1 /\ dt_flags' = dt_flags
    BY DEF DFlags, DPost
  <1>2. /\ Posting /\ ~ Serving' /\ ~ Exiting' /\ Quiet' = Quiet
    BY <1>1 DEF Serving, Exiting, Posting, Quiet
  <1>3. /\ hw = "reset" /\ hwrst /\ rt /\ dt_exit = 0 /\ Quiet
        /\ opc \notin {"create_start", "create_dt", "resume_rt", "resume_start", "create_pulse",
                       "join_reset", "join_rt"}
    BY <1>2 DEF IInv, TypeOK, RunsInv, ResetInv, BootInv, RunInv
  <1>4. RunsInv'
    BY <1>1, <1>2, <1>3 DEF RunsInv, ResetInv, BootInv, RunInv, Posting
  <1> QED BY <1>1, <1>4 DEF IInv, Rest, OwnerInv, FlagInv, PauseInv, AnswerInv

LEMMA DelegateStep == ASSUME IInv, Delegate PROVE Rest'
  <1> USE DEF DKeep, DGoto, procVars, osifVars, mailVars, boxVars, syncVars, resVars, ownerVars
  <1>1. CASE DCall
    <2>1. /\ dpc = "call" /\ dpc' \in {"call", "answer", "syscall"}
          /\ UNCHANGED <<rt, dt, dt_exit, state, ownerVars, hwrst, sw2hw, hw2sw, hw, dt_flags>>
      BY <1>1 DEF DCall
    <2>2. dpc' = "answer" => ans' \in HwWords
      BY <1>1 DEF DCall, NoWait, TryPut, Put, TryGet, SemPost, MutexUnlock, MutexTryLock,
         CondSignal, CondBroadcast, PutLock, HwWords
    <2>3. Serving
      BY <2>1 DEF Serving
    <2> QED BY <2>1, <2>2, <2>3, ServeStep
  <1>2. CASE DSyscall
    <2>1. /\ dpc = "syscall" /\ dpc' \in {"done", "syscall"}
          /\ UNCHANGED <<rt, dt, dt_exit, state, ownerVars, hwrst, sw2hw, hw2sw, hw, dt_flags>>
      BY <1>2 DEF DSyscall, DBlocked, DGetLock, DGet, DSemWait, DLock, DCondRelease, DCondReturn, DReturn
    <2>2. dpc' = "done" => ans' \in HwWords
      BY <1>2 DEF DSyscall, DBlocked, DGetLock, DGet, DSemWait, DLock, DCondRelease, DCondReturn, DReturn,
         HwWords
    <2>3. Serving
      BY <2>1 DEF Serving
    <2> QED BY <2>1, <2>2, <2>3, ServeStep
  <1>3. CASE DGetDone
    <2>1. /\ dpc = "done" /\ dpc' = "answer"
          /\ UNCHANGED <<rt, dt, dt_exit, state, ownerVars, hwrst, sw2hw, hw2sw, hw, dt_flags, ans>>
      BY <1>3 DEF DGetDone
    <2>2. Serving
      BY <2>1 DEF Serving
    <2>3. ans \in HwWords
      BY <2>1 DEF IInv, AnswerInv
    <2> QED BY <2>1, <2>2, <2>3, ServeStep
  <1>4. CASE DUnpause
    <2>1. /\ dpc = "unpause" /\ dpc' = "answer" /\ dt_flags' = dtmp \ {"PAUSE_SYSCALLS"}
          /\ ans' = "state"
          /\ UNCHANGED <<rt, dt, dt_exit, state, ownerVars, hwrst, sw2hw, hw2sw, hw>>
      BY <1>4 DEF DUnpause
    <2>2. Serving
      BY <2>1 DEF Serving
    <2> QED BY <2>1, <2>2, ServeStep DEF HwWords
  <1>5. CASE DSlip
    <2>1. /\ dpc = "slip" /\ dpc' = "answer" /\ ans' \in HwWords
          /\ UNCHANGED <<rt, dt, dt_exit, state, ownerVars, hwrst, sw2hw, hw2sw, hw, dt_flags>>
      BY <1>5 DEF DSlip, HwWords
    <2>2. Serving
      BY <2>1 DEF Serving
    <2> QED BY <2>1, <2>2, ServeStep
  <1> QED BY <1>1, <1>2, <1>3, <1>4, <1>5, LoopStep, TakeStep, ExecStep, AnswerStep, ExitStep
      DEF Delegate

-----------------------------------------------------------------------------
(* The owner *)

\* A step of the owner that leaves the slot, the delegate and the hardware alone.
LEMMA OwnerMoves ==
  ASSUME IInv, UNCHANGED <<rt, dt, dt_exit, hwrst, sw2hw, hw2sw, hw, dpc, cmd, ans, dtmp>>,
         opc \notin {"create_rt", "create_pulse", "create_start", "create_dt", "join_wait",
                     "join_reset", "join_rt", "resume_check", "resume_rt", "resume_start"},
         opc' \notin {"create_pulse", "create_start", "create_dt", "join_reset", "join_rt",
                      "resume_rt", "resume_start"},
         opc' \in {"create_rt", "resume_check"} => ~ rt
  PROVE  RunsInv' /\ AnswerInv'
  <1>1. (Serving' <=> Serving) /\ (Exiting' <=> Exiting) /\ (Posting' <=> Posting)
    BY DEF Serving, Exiting, Posting
  <1>2. ResetInv'
    BY <1>1 DEF IInv, RunsInv, ResetInv, Quiet
  <1>3. BootInv' /\ RunInv'
    BY <1>1 DEF IInv, RunsInv, BootInv, RunInv, Quiet
  <1> QED BY <1>2, <1>3 DEF RunsInv, IInv, AnswerInv

LEMMA SuspendStep ==
  ASSUME IInv, OSetFlags \/ OLook \/ OTest PROVE Rest'
  <1> USE DEF OGoto, OKeep, Return, slotVars, procVars, osifVars, mailVars, boxVars, syncVars, resVars
  <1>1. /\ UNCHANGED <<rt, dt, dt_exit, hwrst, sw2hw, hw2sw, hw, dpc, cmd, ans, dtmp>>
        /\ opc \in {"load", "pause", "reload", "suspend", "look", "test"}
        /\ rt /\ call \in {"suspend", "suspend_block"} /\ state = "SUSPENDING" /\ dt
    BY DEF OSetFlags, OLook, OTest, IInv, OwnerInv
  <1>2. opc' \in {"pause", "reload", "suspend", "look", "poke", "test", "join", "idle"}
    BY <1>1 DEF OSetFlags, OLook, OTest
  <1>3. RunsInv' /\ AnswerInv'
    BY <1>1, <1>2, OwnerMoves
  <1>4. OwnerInv'
    BY <1>1 DEF IInv, OwnerInv, OSetFlags, OLook, OTest
  <1>5. FlagInv'
    BY <1>1 DEF IInv, FlagInv, OSetFlags, OLook, OTest, Flags
  <1>6. PauseInv'
    BY <1>1 DEF IInv, PauseInv, OSetFlags, OLook, OTest, Flags
  <1> QED BY <1>3, <1>4, <1>5, <1>6 DEF Rest

\* A signal may take the delegate out of a call, which is then dropped.
LEMMA PokeStep ==
  ASSUME IInv, OPoke PROVE Rest'
  <1> USE DEF OGoto, slotVars, procVars
  <1>1. /\ UNCHANGED <<rt, dt, dt_exit, hwrst, sw2hw, hw2sw, hw, cmd, ans, dtmp, state, call, otmp, dt_flags>>
        /\ opc = "poke" /\ opc' = "test"
        /\ rt /\ call \in {"suspend", "suspend_block"} /\ state = "SUSPENDING" /\ dt
    <2>1. /\ opc' = "test"
          /\ UNCHANGED <<slotVars, procVars, sw2hw, hw2sw, cmd, dtmp, ans, call, otmp, hw>>
      BY DEF OPoke
    <2>2. opc = "poke"
      BY DEF OPoke, Break, Kill, NoPoke
    <2> QED BY <2>1, <2>2 DEF IInv, OwnerInv
  <1>2. \/ dpc' = dpc
        \/ dpc = "syscall" /\ dpc' = "top"
        \/ dpc = "call" /\ dpc' = "slip"
        \/ dpc = "wait" /\ dpc' = "woken"
    <2>1. CASE Break \/ NoPoke
      BY <2>1 DEF Break, NoPoke
    <2>2. CASE Kill
      BY <2>2 DEF Kill, WaitsForWord, WaitsForPlace
    <2> QED BY <2>1, <2>2 DEF OPoke
  <1>3. CASE dpc' = dpc
    <2>1. RunsInv' /\ AnswerInv'
      BY <1>1, <1>3, OwnerMoves
    <2> QED BY <1>1, <1>3, <2>1 DEF IInv, Rest, OwnerInv, FlagInv, PauseInv
  <1>4. CASE dpc = "wait" /\ dpc' = "woken"
    <2>1. (Serving' <=> Serving) /\ (Exiting' <=> Exiting) /\ (Posting' <=> Posting)
      BY <1>4 DEF Serving, Exiting, Posting
    <2>2. RunsInv'
      BY <1>1, <2>1 DEF IInv, RunsInv, ResetInv, BootInv, RunInv, Quiet
    <2> QED BY <1>1, <1>4, <2>2 DEF IInv, Rest, OwnerInv, FlagInv, PauseInv, AnswerInv
  <1>5. CASE dpc = "syscall" /\ dpc' = "top"
    <2>1. Serving /\ ~ Serving' /\ ~ Exiting' /\ ~ Posting /\ ~ Posting'
      BY <1>5 DEF Serving, Exiting, Posting
    <2>2. hw = "await" /\ Quiet
      BY <2>1 DEF IInv, TypeOK, RunsInv, ResetInv, BootInv, RunInv
    <2>3. RunsInv'
      BY <1>1, <2>1, <2>2 DEF IInv, RunsInv, ResetInv, BootInv, RunInv, Quiet
    <2> QED BY <1>1, <1>5, <2>3 DEF IInv, Rest, OwnerInv, FlagInv, PauseInv, AnswerInv
  <1>6. CASE dpc = "call" /\ dpc' = "slip"
    <2>1. Serving /\ Serving' /\ (Exiting' <=> Exiting) /\ (Posting' <=> Posting)
      BY <1>6 DEF Serving, Exiting, Posting
    <2>2. RunsInv'
      BY <1>1, <2>1 DEF IInv, RunsInv, ResetInv, BootInv, RunInv, Quiet
    <2> QED BY <1>1, <1>6, <2>2 DEF IInv, Rest, OwnerInv, FlagInv, PauseInv, AnswerInv
  <1> QED BY <1>2, <1>3, <1>4, <1>5, <1>6

LEMMA JoinStep ==
  ASSUME IInv, OJoin \/ OJoinWait \/ OJoinReset \/ OJoinFree PROVE Rest'
  <1> USE DEF OGoto, Return, HoldInReset, slotVars, procVars, osifVars, delegateVars
  <1>1. CASE OJoin
    <2>1. /\ UNCHANGED <<rt, dt, dt_exit, hwrst, sw2hw, hw2sw, hw, dpc, cmd, ans, dtmp, state, call, otmp, dt_flags>>
          /\ opc = "join" /\ opc' = "join_wait" /\ rt
      BY <1>1 DEF OJoin, IInv, OwnerInv
    <2>2. RunsInv' /\ AnswerInv'
      BY <2>1, OwnerMoves
    <2> QED BY <2>1, <2>2 DEF IInv, Rest, OwnerInv, FlagInv, PauseInv
  <1>2. CASE OJoinWait
    <2>1. /\ UNCHANGED <<rt, dt, hwrst, sw2hw, hw2sw, hw, dpc, cmd, ans, dtmp, state, call, otmp, dt_flags>>
          /\ opc = "join_wait" /\ opc' = "join_reset" /\ dt_exit > 0 /\ dt_exit' = dt_exit - 1
      BY <1>2 DEF OJoinWait
    <2>2. hw = "reset" /\ hwrst /\ Quiet /\ ~ Serving /\ ~ Exiting /\ ~ Posting /\ dt_exit = 1 /\ rt
      BY <2>1 DEF IInv, TypeOK, RunsInv, ResetInv, BootInv, RunInv
    <2>3. ~ Serving' /\ ~ Exiting' /\ ~ Posting' /\ Quiet'
      BY <2>1, <2>2 DEF Serving, Exiting, Posting, Quiet
    <2>4. RunsInv'
      BY <2>1, <2>2, <2>3 DEF RunsInv, ResetInv, BootInv, RunInv
    <2> QED BY <2>1, <2>4 DEF IInv, Rest, OwnerInv, FlagInv, PauseInv, AnswerInv
  <1>3. CASE OJoinReset \/ OJoinFree
    <2>1. /\ UNCHANGED <<dt, dt_exit, sw2hw, hw2sw, dpc, cmd, ans, dtmp, otmp, dt_flags>>
          /\ \/ /\ opc = "join_reset" /\ opc' = "join_rt" /\ hw' = "reset" /\ hwrst' = TRUE
                /\ UNCHANGED <<rt, state, call>>
             \/ /\ opc = "join_rt" /\ opc' = "idle" /\ UNCHANGED <<hw, hwrst>> /\ rt' = FALSE
                /\ call' = "none" /\ state' = IF call = "join" THEN state ELSE "SUSPENDED"
      BY <1>3 DEF OJoinReset, OJoinFree
    <2>2. hw = "reset" /\ hwrst /\ Quiet /\ ~ Serving /\ ~ Exiting /\ ~ Posting /\ dt_exit = 0
      BY <2>1 DEF IInv, TypeOK, OwnerInv, RunsInv, ResetInv, BootInv, RunInv
    <2>3. ~ Serving' /\ ~ Exiting' /\ ~ Posting' /\ Quiet'
      BY <2>1, <2>2 DEF Serving, Exiting, Posting, Quiet
    <2>4. RunsInv'
      BY <2>1, <2>2, <2>3 DEF RunsInv, ResetInv, BootInv, RunInv
    <2>5. OwnerInv'
      BY <2>1 DEF IInv, OwnerInv
    <2>6. FlagInv'
      BY <2>1, <2>2 DEF IInv, OwnerInv, FlagInv
    <2>7. PauseInv' /\ AnswerInv'
      BY <2>1 DEF IInv, OwnerInv, PauseInv, AnswerInv
    <2> QED BY <2>4, <2>5, <2>6, <2>7 DEF Rest
  <1> QED BY <1>1, <1>2, <1>3

LEMMA CreateStep ==
  ASSUME IInv, OCreate PROVE Rest'
  <1> USE DEF OGoto, OKeep, Return, slotVars, procVars, mailVars, boxVars, syncVars, resVars
  <1>1. /\ opc \in {"create_rt", "create_pulse", "create_start", "create_dt"}
        /\ ~ dt /\ dpc = "none" /\ state = "INIT" /\ dt_exit' = dt_exit /\ hw2sw' = hw2sw /\ otmp' = otmp
        /\ "SUSPEND" \notin dt_flags /\ dtmp' = dtmp
    BY DEF OCreate, IInv, OwnerInv, FlagInv
  <1>2. ~ Serving /\ ~ Exiting /\ ~ Posting
    BY <1>1 DEF Serving, Exiting, Posting
  <1>3. CASE opc = "create_rt"
    <2>1. /\ ~ rt /\ rt' /\ opc' = "create_pulse"
          /\ UNCHANGED <<dt, dt_flags, state, hwrst, sw2hw, dpc, call, hw>>
      BY <1>1, <1>3 DEF OCreate, IInv, OwnerInv
    <2>2. hw = "reset" /\ hwrst /\ Quiet /\ dt_exit = 0
      BY <1>1, <1>2, <1>3, <2>1 DEF IInv, TypeOK, RunsInv, ResetInv, BootInv, RunInv
    <2>3. ~ Serving' /\ ~ Exiting' /\ ~ Posting' /\ Quiet'
      BY <1>1, <2>1, <2>2 DEF Serving, Exiting, Posting, Quiet
    <2>4. RunsInv'
      BY <1>1, <2>1, <2>2, <2>3 DEF RunsInv, ResetInv, BootInv, RunInv
    <2> QED BY <1>1, <2>1, <2>4 DEF IInv, Rest, OwnerInv, FlagInv, PauseInv, AnswerInv
  <1>4. CASE opc = "create_pulse"
    <2>1. /\ rt /\ rt' /\ opc' = "create_start" /\ hw' = "boot" /\ hwrst' = FALSE
          /\ UNCHANGED <<dt, dt_flags, state, sw2hw, dpc, call>>
      BY <1>1, <1>4 DEF OCreate, IInv, OwnerInv, PulseReset
    <2>2. Quiet /\ dt_exit = 0
      BY <1>1, <1>2, <1>4, <2>1 DEF IInv, TypeOK, RunsInv, ResetInv, BootInv, RunInv
    <2>3. ~ Serving' /\ ~ Exiting' /\ ~ Posting'
      BY <1>1, <2>1 DEF Serving, Exiting, Posting
    <2>4. RunsInv'
      BY <1>1, <2>1, <2>2, <2>3 DEF RunsInv, ResetInv, BootInv, RunInv, Quiet
    <2> QED BY <1>1, <2>1, <2>4 DEF IInv, Rest, OwnerInv, FlagInv, PauseInv, AnswerInv
  <1>5. CASE opc = "create_start"
    <2>1. /\ rt /\ rt' /\ opc' = "create_dt" /\ sw2hw' = Append(sw2hw, "START")
          /\ UNCHANGED <<dt, dt_flags, state, dpc, call, hw, hwrst>>
      BY <1>1, <1>5 DEF OCreate, IInv, OwnerInv
    <2>2. hw = "boot" /\ sw2hw = <<>> /\ hw2sw = <<>> /\ dt_exit = 0
      BY <1>1, <1>2, <1>5, <2>1 DEF IInv, TypeOK, RunsInv, ResetInv, BootInv, RunInv
    <2>3. Len(sw2hw') = 1
      BY <2>1, <2>2
    <2>4. ~ Serving' /\ ~ Exiting' /\ ~ Posting'
      BY <1>1, <2>1 DEF Serving, Exiting, Posting
    <2>5. RunsInv'
      BY <1>1, <2>1, <2>2, <2>3, <2>4 DEF RunsInv, ResetInv, BootInv, RunInv
    <2> QED BY <1>1, <2>1, <2>5 DEF IInv, Rest, OwnerInv, FlagInv, PauseInv, AnswerInv
  <1>6. CASE opc = "create_dt"
    <2>1. /\ rt /\ rt' /\ opc' = "idle" /\ dt' /\ dt_flags' = {} /\ dpc' = "start"
          /\ state' = "RUNNING_HW" /\ UNCHANGED <<hwrst, sw2hw, hw>>
      BY <1>1, <1>6 DEF OCreate, IInv, OwnerInv
    <2>2. ~ Serving' /\ ~ Exiting' /\ ~ Posting'
      BY <2>1 DEF Serving, Exiting, Posting
    <2>3. hw # "reset"
      BY <1>6 DEF IInv, RunsInv, ResetInv
    <2>4. BootInv'
      BY <1>1, <1>2, <1>6, <2>1, <2>2 DEF IInv, RunsInv, BootInv
    <2>5. RunInv'
      BY <1>1, <1>2, <1>6, <2>1, <2>2 DEF IInv, RunsInv, RunInv, Quiet
    <2>6. ResetInv'
      BY <2>1, <2>3 DEF ResetInv
    <2> QED BY <1>1, <2>1, <2>4, <2>5, <2>6 DEF IInv, Rest, RunsInv, OwnerInv, FlagInv, PauseInv,
            AnswerInv
  <1> QED BY <1>1, <1>3, <1>4, <1>5, <1>6

LEMMA ResumeStep ==
  ASSUME IInv, OResume \/ OResumeSet \/ OResumeStart PROVE Rest'
  <1> USE DEF OGoto, Return, PulseReset, slotVars, procVars, osifVars, delegateVars
  <1>0. opc \in {"resume_check", "resume_rt", "resume_start"}
    BY DEF OResume, OResumeSet, OResumeStart
  <1>1. /\ UNCHANGED <<dt, dt_exit, dt_flags, hw2sw, dpc, cmd, ans, dtmp, otmp>>
        /\ (Serving' <=> Serving) /\ (Exiting' <=> Exiting) /\ (Posting' <=> Posting)
    BY DEF OResume, OResumeSet, OResumeStart, Serving, Exiting, Posting
  <1>2. dt /\ state \in {"RUNNING_HW", "SUSPENDED"} /\ "SUSPEND" \notin dt_flags
    BY <1>0 DEF IInv, OwnerInv, FlagInv
  <1>3. CASE opc = "resume_check"
    <2>1. /\ ~ rt /\ ~ rt' /\ opc' = "resume_rt" /\ hw' = "boot" /\ UNCHANGED <<sw2hw, state, call>>
      BY <1>3 DEF OResume, OResumeSet, OResumeStart, IInv, OwnerInv
    <2>2. Quiet /\ dt_exit = 0 /\ ~ Serving /\ ~ Exiting /\ ~ Posting
      BY <1>3, <2>1 DEF IInv, TypeOK, RunsInv, ResetInv, BootInv, RunInv
    <2>3. RunsInv'
      BY <1>1, <2>1, <2>2 DEF RunsInv, ResetInv, BootInv, RunInv, Quiet
    <2> QED BY <1>1, <1>2, <2>1, <2>3 DEF IInv, Rest, OwnerInv, FlagInv, PauseInv, AnswerInv
  <1>4. CASE opc = "resume_rt"
    <2>1. rt' /\ opc' = "resume_start" /\ UNCHANGED <<sw2hw, state, call, hw>>
      BY <1>4 DEF OResume, OResumeSet, OResumeStart
    <2>2. hw = "boot" /\ sw2hw = <<>> /\ hw2sw = <<>> /\ dt_exit = 0 /\ ~ Serving /\ ~ Exiting /\ ~ Posting
      BY <1>4 DEF IInv, TypeOK, RunsInv, ResetInv, BootInv, RunInv
    <2>3. RunsInv'
      BY <1>1, <2>1, <2>2 DEF RunsInv, ResetInv, BootInv, RunInv
    <2> QED BY <1>1, <1>2, <2>1, <2>2, <2>3 DEF IInv, Rest, OwnerInv, FlagInv, PauseInv, AnswerInv
  <1>5. CASE opc = "resume_start"
    <2>1. /\ rt /\ rt' /\ opc' = "idle" /\ sw2hw' = Append(sw2hw, "RESUME") /\ state' = "RUNNING_HW"
          /\ UNCHANGED hw
      BY <1>5 DEF OResume, OResumeSet, OResumeStart, IInv, OwnerInv
    <2>2. hw = "boot" /\ sw2hw = <<>> /\ hw2sw = <<>> /\ dt_exit = 0 /\ ~ Serving /\ ~ Exiting /\ ~ Posting
      BY <1>5 DEF IInv, TypeOK, RunsInv, ResetInv, BootInv, RunInv
    <2>3. Len(sw2hw') = 1
      BY <2>1, <2>2
    <2>4. RunsInv'
      BY <1>1, <2>1, <2>2, <2>3 DEF RunsInv, ResetInv, BootInv, RunInv
    <2> QED BY <1>1, <1>2, <2>1, <2>2, <2>4 DEF IInv, Rest, OwnerInv, FlagInv, PauseInv, AnswerInv
  <1> QED BY <1>0, <1>3, <1>4, <1>5

LEMMA OwnerStep == ASSUME IInv, Owner PROVE Rest'
  BY SuspendStep, PokeStep, JoinStep, CreateStep, ResumeStep DEF Owner

-----------------------------------------------------------------------------
(* The hardware thread and the owner's next call *)

LEMMA HardwareStep ==
  ASSUME IInv, Hardware PROVE Rest'
  <1> USE DEF slotVars, procVars, delegateVars, ownerVars
  <1>1. /\ UNCHANGED <<rt, dt, dt_exit, dt_flags, state, hwrst, hw2sw, dpc, cmd, dtmp, ans, opc, call, otmp>>
        /\ sw2hw # <<>> /\ sw2hw' = Tail(sw2hw) /\ hw' = "run" /\ hw \in {"boot", "await"}
    BY DEF Hardware, HwBoot, HwAnswer
  <1>2. (Serving' <=> Serving) /\ (Exiting' <=> Exiting) /\ (Posting' <=> Posting)
    BY <1>1 DEF Serving, Exiting, Posting
  <1>3. /\ hw2sw = <<>> /\ ~ Serving /\ ~ Exiting /\ ~ Posting /\ dt_exit = 0 /\ rt /\ Len(sw2hw) = 1
        /\ opc \notin {"create_rt", "create_pulse", "create_start", "resume_check", "resume_rt",
                       "resume_start", "join_reset", "join_rt"}
    <2>1. sw2hw \in Seq(HwWords) /\ Len(sw2hw) >= 1
      BY <1>1 DEF IInv, TypeOK
    <2>2. CASE hw = "boot"
      BY <1>1, <2>1, <2>2 DEF IInv, RunsInv, BootInv
    <2>3. CASE hw = "await"
      <3>1. /\ rt /\ dt_exit = 0 /\ ~ Posting /\ ~ Exiting
            /\ opc \notin {"create_rt", "create_pulse", "create_start", "resume_check", "resume_rt",
                           "resume_start", "join_reset", "join_rt"}
        BY <2>3 DEF IInv, RunsInv, RunInv
      <3>2. ~ Serving /\ Len(sw2hw) <= 1 /\ hw2sw = <<>>
        BY <1>1, <2>3 DEF IInv, RunsInv, RunInv, Quiet
      <3>3. Len(sw2hw) = 1
        <4>1. PICK n \in Nat : n = Len(sw2hw)
          BY <2>1
        <4>2. n >= 1 /\ n <= 1
          BY <2>1, <3>2, <4>1
        <4>3. n = 1
          BY ONLY <4>2, n \in Nat
        <4> QED BY <4>1, <4>3
      <3> QED BY <3>1, <3>2, <3>3
    <2> QED BY <1>1, <2>2, <2>3
  <1>4. sw2hw' = <<>>
    BY <1>1, <1>3 DEF IInv, TypeOK
  <1>5. Clears(hw2sw')
    BY <1>1, <1>3 DEF Clears
  <1>6. RunsInv'
    BY <1>1, <1>2, <1>3, <1>4, <1>5 DEF RunsInv, ResetInv, BootInv, RunInv
  <1> QED BY <1>1, <1>6 DEF IInv, Rest, OwnerInv, FlagInv, PauseInv, AnswerInv

LEMMA HwCallStep ==
  ASSUME IInv, NEW c \in uses, HwCall(c) PROVE Rest'
  <1> USE DEF slotVars, procVars, delegateVars, ownerVars
  <1>1. /\ UNCHANGED <<rt, dt, dt_exit, dt_flags, state, hwrst, sw2hw, dpc, cmd, dtmp, ans, opc, call, otmp>>
        /\ hw = "run" /\ hw2sw' = Append(hw2sw, c)
        /\ hw' = IF c = "EXIT" THEN "done" ELSE IF c = "CLEAR_SIGNAL" THEN "run" ELSE "await"
    BY DEF HwCall
  <1>2. (Serving' <=> Serving) /\ (Exiting' <=> Exiting) /\ (Posting' <=> Posting)
    BY <1>1 DEF Serving, Exiting, Posting
  <1>3. c \in AllCmds /\ hw2sw \in Seq(AllCmds)
    BY SlotAssumption DEF IInv, TypeOK
  <1>4. /\ rt /\ dt_exit = 0 /\ ~ Posting /\ ~ Serving /\ ~ Exiting /\ sw2hw = <<>> /\ Clears(hw2sw)
        /\ opc \notin {"create_rt", "create_pulse", "create_start", "resume_check", "resume_rt",
                       "resume_start", "join_reset", "join_rt"}
    BY <1>1 DEF IInv, RunsInv, RunInv
  <1>5. /\ c = "CLEAR_SIGNAL" => Clears(hw2sw')
        /\ c = "EXIT" => ClearsThen(hw2sw', {"EXIT"})
        /\ c \notin {"EXIT", "CLEAR_SIGNAL"} => ClearsThen(hw2sw', AllCmds \ {"EXIT", "CLEAR_SIGNAL"})
    BY <1>1, <1>3, <1>4, PutWord
  <1>6. RunsInv'
    BY <1>1, <1>2, <1>4, <1>5 DEF RunsInv, ResetInv, BootInv, RunInv
  <1> QED BY <1>1, <1>6 DEF IInv, Rest, OwnerInv, FlagInv, PauseInv, AnswerInv

LEMMA OthersStep ==
  ASSUME IInv, Arrive \/ Drain \/ OtherCalls \/ OtherReturns \/ OtherPost \/ OtherLock \/ OtherUnlock \/ OtherSignal PROVE Rest'
  <1>1. OthersKeep
    BY DEF Arrive, Drain, OtherCalls, OtherReturns, OtherPost, OtherLock, OtherUnlock, OtherSignal
  <1> QED BY <1>1 DEF OthersKeep, slotVars, procVars, osifVars, delegateVars, ownerVars, IInv, Rest,
          RunsInv, ResetInv, BootInv, RunInv, Quiet, Serving, Exiting, Posting, OwnerInv, FlagInv,
          PauseInv, AnswerInv

LEMMA BeginStep ==
  ASSUME IInv, NEW c \in AllCalls, Begin(c), c = "create" => state = "INIT" /\ ~ rt PROVE Rest'
  <1> USE DEF OGoto, OKeep, osifVars, mailVars, boxVars, syncVars, resVars
  <1>1. /\ UNCHANGED <<rt, dt, dt_exit, dt_flags, hwrst, sw2hw, hw2sw, hw, dpc, cmd, ans, dtmp, otmp>>
        /\ opc = "idle" /\ opc' = Entry[c] /\ Legal(c)
        /\ call' = IF c = "signal" THEN "none" ELSE c
        /\ state' = IF c \in {"suspend", "suspend_block"} THEN "SUSPENDING"
                    ELSE IF c = "create" THEN "INIT" ELSE state
    BY DEF Begin
  <1>2. /\ c = "create" => opc' = "create_rt" /\ ~ rt /\ state = "INIT" /\ ~ dt
        /\ c \in {"suspend", "suspend_block"} => opc' = "load" /\ rt /\ state = "RUNNING_HW" /\ dt
        /\ c = "join" => opc' = "join" /\ rt /\ dt /\ state \in {"RUNNING_HW", "SUSPENDED"}
        /\ c = "resume" => /\ opc' = "resume_check" /\ ~ rt /\ dt
                           /\ state \in {"RUNNING_HW", "SUSPENDED"}
        /\ c = "signal" => opc' = "idle"
    <2>1. /\ ~ dt => state = "INIT" /\ ~ rt
          /\ dt => state # "INIT"
          /\ state \in States /\ state # "SUSPENDING"
      BY <1>1 DEF IInv, OwnerInv, TypeOK
    <2>2. CASE c = "create"
      BY <1>1, <2>1, <2>2 DEF Entry
    <2>3. CASE c \in {"suspend", "suspend_block"}
      <3>1. rt /\ state = "RUNNING_HW"
        BY <1>1, <2>3 DEF Legal
      <3> QED BY <1>1, <2>1, <2>3, <3>1 DEF Entry
    <2>4. CASE c = "join"
      <3>1. rt
        BY <1>1, <2>4 DEF Legal
      <3> QED BY <1>1, <2>1, <2>4, <3>1 DEF Entry, States
    <2>5. CASE c = "resume"
      <3>1. ~ rt /\ state # "INIT"
        BY <1>1, <2>5 DEF Legal
      <3> QED BY <1>1, <2>1, <2>5, <3>1 DEF Entry, States
    <2>6. CASE c = "signal"
      BY <1>1, <2>6 DEF Entry
    <2> QED BY <2>2, <2>3, <2>4, <2>5, <2>6 DEF AllCalls
  <1>3. RunsInv' /\ AnswerInv'
    BY <1>1, <1>2, OwnerMoves DEF AllCalls
  <1>4. OwnerInv'
    BY <1>1, <1>2 DEF IInv, OwnerInv, AllCalls
  <1>5. FlagInv' /\ PauseInv'
    BY <1>1, <1>2 DEF IInv, OwnerInv, FlagInv, PauseInv, AllCalls
  <1> QED BY <1>3, <1>4, <1>5 DEF Rest

-----------------------------------------------------------------------------
(* The theorems *)

LEMMA InitIInv == Init => IInv
  <1> SUFFICES ASSUME Init PROVE IInv
    OBVIOUS
  <1>1. TypeOK
    <2>1. inbox \in 0 .. InSize /\ outbox \in 0 .. (OutSize + slips) /\ slips \in Nat /\ sem \in 0 .. SemMax
      BY SlotAssumption DEF Init
    <2>2. sw2hw \in Seq(HwWords) /\ hw2sw \in Seq(AllCmds) /\ Len(sw2hw) <= FifoSize /\ Len(hw2sw) <= FifoSize
      BY SlotAssumption DEF Init
    <2> QED BY <2>1, <2>2 DEF Init, TypeOK, Holders, DtStates, States, Flags, DelegatePCs, OwnerPCs
  <1>2. ~ Serving /\ ~ Exiting /\ ~ Posting
    BY DEF Init, Serving, Exiting, Posting
  <1>3. RunsInv
    BY <1>2 DEF Init, RunsInv, ResetInv, BootInv, RunInv, Quiet
  <1> QED BY <1>1, <1>3 DEF Init, IInv, OwnerInv, FlagInv, PauseInv, AnswerInv

LEMMA NextIInv == IInv /\ [Next]_vars => IInv'
  <1> SUFFICES ASSUME IInv, [Next]_vars PROVE IInv'
    OBVIOUS
  <1>1. CASE UNCHANGED vars
    BY <1>1 DEF vars, slotVars, procVars, osifVars, mailVars, boxVars, syncVars, resVars, delegateVars,
       ownerVars, IInv, TypeOK, OwnerInv, RunsInv, ResetInv, BootInv, RunInv, Quiet, Serving,
       Exiting, Posting, FlagInv, PauseInv, AnswerInv
  <1>2. CASE Next
    <2>1. TypeOK'
      BY <1>2, DelegateTypes, OwnerTypes, OtherTypes DEF IInv, Next
    <2>2. ASSUME Environment PROVE Rest'
      <3>1. CASE state = "INIT" /\ ~ rt /\ Begin("create")
        BY <3>1, BeginStep DEF AllCalls
      <3>2. CASE \E c \in Calls : Begin(c)
        BY <3>2, BeginStep, SlotAssumption
      <3> QED BY <2>2, <3>1, <3>2, HwCallStep, OthersStep DEF Environment
    <2>3. Rest'
      BY <1>2, <2>2, DelegateStep, OwnerStep, HardwareStep DEF Next
    <2> QED BY <2>1, <2>3 DEF IInv, Rest
  <1> QED BY <1>1, <1>2

\* The invariant from which the rest follows.
THEOREM InductiveInvariant == Spec => []IInv
  BY InitIInv, NextIInv, PTL DEF Spec

\* Every variable of the slot keeps its type; no FIFO and no mailbox overflows.
THEOREM TypeCorrect == Spec => []TypeOK
  <1>1. IInv => TypeOK
    BY DEF IInv
  <1> QED BY <1>1, InductiveInvariant, PTL

\* A slot without a thread can be reconfigured, and its next thread starts clean.
THEOREM FreeSlotsAreQuiet == Spec => []FreeSlotIsQuiet
  <1>1. IInv => FreeSlotIsQuiet
    <2> SUFFICES ASSUME IInv, ~ rt, ~ Starting
                 PROVE  /\ hwrst /\ hw = "reset" /\ sw2hw = <<>> /\ hw2sw = <<>>
                        /\ "SUSPEND" \notin dt_flags
                        /\ dpc \in {"clear", "raise"} => state = "SUSPENDED"
      BY DEF FreeSlotIsQuiet
    <2>1. hw = "reset" /\ hwrst /\ sw2hw = <<>> /\ hw2sw = <<>>
      BY DEF IInv, TypeOK, RunsInv, ResetInv, BootInv, RunInv, Quiet, Starting
    <2>2. "SUSPEND" \notin dt_flags /\ dpc # "clear"
      BY DEF IInv, OwnerInv, FlagInv
    <2>3. state # "SUSPENDING"
      BY DEF IInv, OwnerInv, TypeOK, OwnerPCs, Starting
    <2> QED BY <2>1, <2>2, <2>3 DEF IInv, FlagInv
  <1> QED BY <1>1, InductiveInvariant, PTL

\* The delegate never reads the thread of an empty slot.
THEOREM ThreadIsThere == Spec => []NoNullThread
  <1>1. IInv => NoNullThread
    <2> SUFFICES ASSUME IInv, dpc \in {"exec", "call", "syscall"},
                        cmd \notin {"EXIT", "CLEAR_SIGNAL", "INTERRUPTED"}
                 PROVE  rt
      BY DEF NoNullThread
    <2>1. Serving
      BY DEF IInv, Serving, Unanswered
    <2> QED BY <2>1 DEF IInv, TypeOK, RunsInv, ResetInv, BootInv, RunInv
  <1> QED BY <1>1, InductiveInvariant, PTL

\* A join takes the exit of its own run.
THEOREM ExitsMatchRuns == Spec => []ExitMatchesRun
  <1>1. IInv => ExitMatchesRun
    BY DEF IInv, TypeOK, RunsInv, ResetInv, BootInv, RunInv, Posting, ExitMatchesRun
  <1> QED BY <1>1, InductiveInvariant, PTL

\* No reset stops a hardware thread in the middle of a call.
THEOREM ResetsComeAfterExits == Spec => ResetOnlyAfterExit
  <1>1. IInv /\ [Next]_vars => [hw' = "reset" => hw \in {"reset", "done"}]_vars
    <2> SUFFICES ASSUME IInv, Next, hw' = "reset", hw # "reset" PROVE hw = "done"
      OBVIOUS
    <2>1. CASE Delegate
      <3>1. CASE DExec
        <4>1. Exiting
          BY <3>1 DEF DExec, Serve, HoldInReset, Exiting
        <4> QED BY <4>1 DEF IInv, TypeOK, RunsInv, ResetInv, BootInv, RunInv
      <3>2. CASE ~ DExec
        BY <2>1, <3>2 DEF Delegate, DStart, DTop, DClear, DRaise, DBlock, DTake, DWait, DWake,
           DInterrupted, DGot, DCall, DSlip, DSyscall, DBlocked, DGetLock, DGet, DSemWait, DLock, DCondRelease,
           DCondReturn, DGetDone, DUnpause, DAnswer, DFlags, DPost
      <3> QED BY <3>1, <3>2
    <2>2. CASE Owner
      <3>1. CASE OJoinReset
        BY <3>1 DEF OJoinReset, IInv, TypeOK, RunsInv, BootInv, RunInv
      <3>2. CASE ~ OJoinReset
        BY <2>2, <3>2 DEF Owner, OCreate, OSetFlags, OLook, OPoke, OTest, OJoin, OJoinWait,
           OJoinFree, OResume, OResumeSet, OResumeStart, PulseReset
      <3> QED BY <3>1, <3>2
    <2>3. CASE Hardware \/ Environment
      BY <2>3 DEF Hardware, HwBoot, HwAnswer, Environment, Begin, HwCall, Arrive, Drain, OtherCalls, OtherReturns, OtherPost,
         OtherLock, OtherUnlock, OtherSignal, OthersKeep
    <2> QED BY <2>1, <2>2, <2>3 DEF Next
  <1> QED BY <1>1, InductiveInvariant, PTL DEF Spec, ResetOnlyAfterExit

\* While a suspended thread pauses the delegate does nothing on its behalf.
THEOREM PausedThreadsRest == Spec => NoCallWhilePaused
  <1>1. IInv /\ [Next]_vars =>
          [state = "SUSPENDED" /\ "PAUSE_SYSCALLS" \in dt_flags /\ Delegate => UNCHANGED resVars]_vars
    <2> SUFFICES ASSUME IInv, state = "SUSPENDED", "PAUSE_SYSCALLS" \in dt_flags, Delegate
                 PROVE  UNCHANGED resVars
      OBVIOUS
    <2>1. "SUSPEND" \notin dt_flags /\ opc \notin {"load", "pause", "reload", "suspend"}
      BY DEF IInv, OwnerInv, FlagInv
    <2>2. dpc \notin {"call", "slip", "syscall"}
      BY <2>1 DEF IInv, PauseInv
    <2>3. ~ DCall /\ ~ DSlip /\ ~ DSyscall
      BY <2>2 DEF DCall, DSlip, DSyscall, DBlocked, DGetLock, DGet, DSemWait, DLock, DCondRelease, DCondReturn
    <2> QED BY <2>3 DEF Delegate, DStart, DTop, DClear, DRaise, DBlock, DTake, DWait, DWake,
            DInterrupted, DGot, DExec, DGetDone, DUnpause, DAnswer, DFlags, DPost
  <1> QED BY <1>1, InductiveInvariant, PTL DEF Spec, NoCallWhilePaused

-----------------------------------------------------------------------------
(* The slot in the tables of the runtime *)

\* The steps of Registry, for one thread and one slot.
LEMMA SeeNothing ==
  ASSUME UNCHANGED <<TableMade, TableCreating, TableState, TableAt, TableRt, dt,
                     TableSuspend, TableExits, TableHw>>
  PROVE  UNCHANGED Tables!vars
  BY DEF Tables!vars, Tables!startVars, Tables!threadVars, Tables!slotVars, OneSlot, OneThread

\* The flag as a value.
LEMMA FlagTaken ==
  ASSUME ~ TableSuspend'
  PROVE  OneSlot(TableSuspend)' = [OneSlot(TableSuspend) EXCEPT ![0] = FALSE]
  <1>1. TableSuspend' = FALSE
    BY DEF TableSuspend
  <1>2. OneSlot(TableSuspend)' = [s \in {0} |-> FALSE]
    BY <1>1 DEF OneSlot
  <1>3. [OneSlot(TableSuspend) EXCEPT ![0] = FALSE] = [s \in {0} |-> FALSE]
    BY DEF OneSlot
  <1> QED BY <1>2, <1>3

LEMMA FlagSet ==
  ASSUME TableSuspend'
  PROVE  OneSlot(TableSuspend)' = [OneSlot(TableSuspend) EXCEPT ![0] = TRUE]
  <1>1. TableSuspend' = TRUE
    BY DEF TableSuspend
  <1>2. OneSlot(TableSuspend)' = [s \in {0} |-> TRUE]
    BY <1>1 DEF OneSlot
  <1>3. [OneSlot(TableSuspend) EXCEPT ![0] = TRUE] = [s \in {0} |-> TRUE]
    BY DEF OneSlot
  <1> QED BY <1>2, <1>3

LEMMA OneOfEach ==
  /\ Tables!Slots = {0} /\ Tables!Threads = {1}
  /\ \A s \in {0} : Tables!DelegateSuspends(s) \/ Tables!HwExit(s) => Tables!Next
  /\ \A t \in {1} : Tables!Call(t) => Tables!Next
  <1>1. Tables!Slots = {0} /\ Tables!Threads = {1}
    BY DEF Tables!Slots, Tables!Threads
  <1> QED BY <1>1 DEF Tables!Next

LEMMA SeeCreate ==
  ASSUME TableMade = 0, TableMade' = 1, TableCreating = -1, TableCreating' = 0, TableRt = 0,
         UNCHANGED <<TableState, TableAt, TableRt, dt, TableSuspend, TableExits, TableHw>>
  PROVE  Tables!Next
  <1>1. Tables!Free(Servo) = {0}
    BY DEF Tables!Free, Tables!NoThread, Servo, OneSlot
  <1>2. Tables!Min({0}) = 0
    BY DEF Tables!Min
  <1>3. Tables!Scan(Servo) = 0
    BY <1>1, <1>2 DEF Tables!Scan
  <1>4. Tables!ThreadInit(Servo)
    BY DEF Tables!ThreadInit, OneThread
  <1>5. OneThread(0) = [OneThread(-1) EXCEPT ![0 + 1] = 0]
    BY DEF OneThread
  <1>6. UNCHANGED <<Tables!startVars, Tables!slotVars, OneThread(TableState), OneThread(TableAt)>>
    BY DEF Tables!startVars, Tables!slotVars, OneSlot, OneThread
  <1>7. Tables!Create(Servo)
    BY <1>3, <1>4, <1>5, <1>6 DEF Tables!Create, Tables!Alive, Tables!NoSlot, Servo
  <1> QED BY <1>7 DEF Tables!Next

LEMMA SeePlace ==
  ASSUME TableMade = 1, TableCreating = 0, TableCreating' = -1, TableRt = 0, TableRt' = 1,
         TableHw' = "run", dt = FALSE, dt' = TRUE, ~ TableSuspend',
         TableState' = "RUNNING_HW", TableAt' = "in", UNCHANGED <<TableMade, TableExits>>
  PROVE  Tables!Next
  <1>1. /\ OneSlot(TableRt)[0] = 0 /\ OneSlot(TableRt)' = [OneSlot(TableRt) EXCEPT ![0] = 1]
        /\ OneSlot(TableHw)' = [OneSlot(TableHw) EXCEPT ![0] = "run"]
        /\ OneThread(TableState)' = [OneThread(TableState) EXCEPT ![1] = "RUNNING_HW"]
        /\ OneThread(TableAt)' = [OneThread(TableAt) EXCEPT ![1] = "in"]
    BY DEF OneSlot, OneThread
  <1>2. ~ OneSlot(dt)[0] /\ OneSlot(dt)' = [OneSlot(dt) EXCEPT ![0] = TRUE]
    BY DEF OneSlot
  <1>3. UNCHANGED <<OneSlot(TableExits), OneThread(IF TableMade = 1 THEN Servo ELSE Saw),
                    OneThread(IF TableMade = 1 THEN 0 ELSE -1)>>
    BY DEF OneSlot, OneThread
  <1>4. Tables!Place
    BY <1>1, <1>2, <1>3, FlagTaken DEF Tables!Place, Tables!Alive, Tables!NoSlot, Tables!NoThread,
       Tables!NoDelegate
  <1> QED BY <1>4 DEF Tables!Next

LEMMA SeeDelegateSuspend ==
  ASSUME dt, TableSuspend, ~ TableSuspend',
         UNCHANGED <<TableMade, TableCreating, TableState, TableAt, TableRt, dt, TableExits, TableHw>>
  PROVE  Tables!Next
  <1>1. OneSlot(dt)[0] /\ OneSlot(TableSuspend)[0]
    BY DEF OneSlot
  <1>2. UNCHANGED <<Tables!startVars, Tables!threadVars>>
    BY DEF Tables!startVars, Tables!threadVars, OneThread
  <1>3. UNCHANGED <<OneSlot(TableRt), OneSlot(dt), OneSlot(TableExits), OneSlot(TableHw)>>
    BY DEF OneSlot
  <1>4. Tables!DelegateSuspends(0)
    BY <1>1, <1>2, <1>3, FlagTaken DEF Tables!DelegateSuspends, Tables!Alive
  <1> QED BY <1>4, OneOfEach

LEMMA SeeExit ==
  ASSUME dt, TableHw = "run", TableHw' = "reset", ~ TableSuspend', TableExits' = TableExits + 1,
         UNCHANGED <<TableMade, TableCreating, TableState, TableAt, TableRt, dt>>
  PROVE  Tables!Next
  <1>1. /\ OneSlot(dt)[0] /\ OneSlot(TableHw)[0] = "run"
        /\ OneSlot(TableHw)' = [OneSlot(TableHw) EXCEPT ![0] = "reset"]
        /\ OneSlot(TableExits)' = [OneSlot(TableExits) EXCEPT ![0] = @ + 1]
    BY DEF OneSlot
  <1>2. UNCHANGED <<Tables!startVars, Tables!threadVars>>
    BY DEF Tables!startVars, Tables!threadVars, OneThread
  <1>3. UNCHANGED <<OneSlot(TableRt), OneSlot(dt)>>
    BY DEF OneSlot
  <1>4. Tables!HwExit(0)
    BY <1>1, <1>2, <1>3, FlagTaken DEF Tables!HwExit, Tables!Alive
  <1> QED BY <1>4, OneOfEach

\* What a call leaves alone, and the slot of its thread.
TableCall == UNCHANGED <<TableMade, TableCreating, dt>> /\ TableMade = 1

LEMMA CallShape ==
  ASSUME TableCall
  PROVE  /\ OneThread(IF TableMade = 1 THEN 0 ELSE -1)[1] = 0
         /\ OneThread(TableAt)[1] = TableAt /\ OneThread(TableState)[1] = TableState
         /\ OneSlot(TableRt)[0] = TableRt /\ OneSlot(TableExits)[0] = TableExits
         /\ OneThread(TableAt)' = [OneThread(TableAt) EXCEPT ![1] = TableAt']
         /\ OneThread(TableState)' = [OneThread(TableState) EXCEPT ![1] = TableState']
         /\ OneSlot(TableRt)' = [OneSlot(TableRt) EXCEPT ![0] = TableRt']
         /\ OneSlot(TableExits)' = [OneSlot(TableExits) EXCEPT ![0] = TableExits']
         /\ OneSlot(TableHw)' = [OneSlot(TableHw) EXCEPT ![0] = TableHw']
         /\ UNCHANGED <<Tables!startVars, OneSlot(dt),
                        OneThread(IF TableMade = 1 THEN Servo ELSE Saw),
                        OneThread(IF TableMade = 1 THEN 0 ELSE -1)>>
         /\ UNCHANGED TableAt => UNCHANGED OneThread(TableAt)
         /\ UNCHANGED TableState => UNCHANGED OneThread(TableState)
         /\ UNCHANGED TableRt => UNCHANGED OneSlot(TableRt)
         /\ UNCHANGED TableExits => UNCHANGED OneSlot(TableExits)
         /\ UNCHANGED TableHw => UNCHANGED OneSlot(TableHw)
         /\ OneSlot(TableSuspend)[0] <=> TableSuspend
         /\ UNCHANGED TableSuspend => UNCHANGED OneSlot(TableSuspend)
  BY DEF TableCall, OneSlot, OneThread, Tables!startVars

LEMMA SeeBeginSuspend ==
  ASSUME TableCall, TableAt = "in", TableState = "RUNNING_HW", TableRt = 1, TableState' = "SUSPENDING",
         TableSuspend', NEW p \in {"suspend", "block"}, TableAt' = p,
         UNCHANGED <<TableRt, TableExits, TableHw>>
  PROVE  Tables!Next
  <1>1. Tables!BeginSuspend(1, p)
    <2>1. /\ OneThread(TableAt)[1] = "in" /\ OneThread(TableState)[1] = "RUNNING_HW"
          /\ OneThread(IF TableMade = 1 THEN 0 ELSE -1)[1] = 0 /\ OneSlot(TableRt)[0] = 1
      BY CallShape
    <2>2. /\ OneThread(TableState)' = [OneThread(TableState) EXCEPT ![1] = "SUSPENDING"]
          /\ OneThread(TableAt)' = [OneThread(TableAt) EXCEPT ![1] = p]
          /\ OneSlot(TableSuspend)' = [OneSlot(TableSuspend) EXCEPT ![0] = TRUE]
      BY CallShape, FlagSet
    <2>3. UNCHANGED <<Tables!startVars, TableMade, TableCreating, OneSlot(dt),
                      OneThread(IF TableMade = 1 THEN Servo ELSE Saw),
                      OneThread(IF TableMade = 1 THEN 0 ELSE -1),
                      OneSlot(TableRt), OneSlot(TableExits), OneSlot(TableHw)>>
      BY CallShape DEF TableCall
    <2> DEFINE h == OneThread(IF TableMade = 1 THEN 0 ELSE -1)[1]
    <2>4. OneSlot(TableRt)[h] # Tables!NoThread
      BY <2>1 DEF Tables!NoThread
    <2>5. OneSlot(TableSuspend)' = [OneSlot(TableSuspend) EXCEPT ![h] = TRUE]
      BY <2>1, <2>2
    <2> QED BY <2>1, <2>2, <2>3, <2>4, <2>5 DEF Tables!BeginSuspend, Tables!Alive, Tables!Goto
  <1> QED BY <1>1, OneOfEach DEF Tables!Call

LEMMA SeeEndSuspend ==
  ASSUME TableCall, TableAt = "suspend", ~ TableSuspend, TableState' = "SUSPENDED",
         TableAt' = "asked", UNCHANGED <<TableRt, TableSuspend, TableExits, TableHw>>
  PROVE  Tables!Next
  <1>1. Tables!EndSuspend(1)
    BY CallShape DEF Tables!EndSuspend, TableCall, Tables!Alive, Tables!Goto, Tables!NoThread, Tables!slotVars
  <1> QED BY <1>1, OneOfEach DEF Tables!Call

LEMMA SeeBeginJoin ==
  ASSUME TableCall, TableAt \in {"in", "asked", "block"}, TableAt = "block" => ~ TableSuspend,
         TableRt = 1, TableAt' = "wait",
         UNCHANGED <<TableState, TableRt, TableSuspend, TableExits, TableHw>>
  PROVE  Tables!Next
  <1>1. Tables!BeginJoin(1)
    <2>1. /\ OneThread(TableAt)[1] \in {"in", "asked", "block"}
          /\ OneThread(IF TableMade = 1 THEN 0 ELSE -1)[1] = 0 /\ OneSlot(TableRt)[0] = 1
          /\ OneThread(TableAt)' = [OneThread(TableAt) EXCEPT ![1] = "wait"]
      BY CallShape
    <2>2. OneThread(TableAt)[1] = "block" => ~ OneSlot(TableSuspend)[0]
      BY CallShape
    <2>3. UNCHANGED <<Tables!startVars, Tables!slotVars, TableMade, TableCreating, OneThread(TableState),
                      OneThread(IF TableMade = 1 THEN Servo ELSE Saw),
                      OneThread(IF TableMade = 1 THEN 0 ELSE -1)>>
      BY CallShape DEF TableCall, Tables!slotVars
    <2> DEFINE h == OneThread(IF TableMade = 1 THEN 0 ELSE -1)[1]
    <2>4. OneSlot(TableRt)[h] # Tables!NoThread
      BY <2>1 DEF Tables!NoThread
    <2>5. OneThread(TableAt)[1] = "block" => ~ OneSlot(TableSuspend)[h]
      BY <2>1, <2>2
    <2> QED BY <2>1, <2>3, <2>4, <2>5 DEF Tables!BeginJoin, Tables!Alive, Tables!Goto
  <1> QED BY <1>1, OneOfEach DEF Tables!Call

LEMMA SeeJoinWait ==
  ASSUME TableCall, TableAt = "wait", TableExits > 0, TableExits' = TableExits - 1,
         TableAt' = "reset", UNCHANGED <<TableState, TableRt, TableSuspend, TableHw>>
  PROVE  Tables!Next
  <1>1. Tables!JoinWait(1)
    <2>1. /\ OneThread(TableAt)[1] = "wait" /\ OneThread(IF TableMade = 1 THEN 0 ELSE -1)[1] = 0
          /\ OneSlot(TableExits)[0] = TableExits
          /\ OneThread(TableAt)' = [OneThread(TableAt) EXCEPT ![1] = "reset"]
          /\ OneSlot(TableExits)' = [OneSlot(TableExits) EXCEPT ![0] = TableExits - 1]
      BY CallShape
    <2> DEFINE h == OneThread(IF TableMade = 1 THEN 0 ELSE -1)[1]
    <2>2. h = 0
      BY <2>1
    <2>3. OneSlot(TableExits)[h] > 0
      BY <2>1
    <2>4. OneSlot(TableExits)' = [OneSlot(TableExits) EXCEPT ![h] = OneSlot(TableExits)[h] - 1]
      BY <2>1
    <2>5. UNCHANGED <<Tables!startVars, TableMade, TableCreating, OneSlot(dt), OneThread(TableState),
                      OneThread(IF TableMade = 1 THEN Servo ELSE Saw),
                      OneThread(IF TableMade = 1 THEN 0 ELSE -1),
                      OneSlot(TableRt), OneSlot(TableSuspend), OneSlot(TableHw)>>
      BY CallShape DEF TableCall
    <2> QED BY <2>1, <2>3, <2>4, <2>5 DEF Tables!JoinWait, Tables!Alive, Tables!Goto
  <1> QED BY <1>1, OneOfEach DEF Tables!Call

LEMMA SeeJoinFree ==
  ASSUME TableCall, TableAt = "reset", TableHw' = "reset", TableRt' = 0,
         TableAt' = (IF TableState = "SUSPENDING" THEN "mark"
                     ELSE IF TableState = "SUSPENDED" THEN "out" ELSE "left"),
         UNCHANGED <<TableState, TableSuspend, TableExits>>
  PROVE  Tables!Next
  <1>1. Tables!JoinFree(1)
    BY CallShape DEF Tables!JoinFree, TableCall, Tables!Alive, Tables!Goto, Tables!NoThread, Tables!AfterJoin
  <1> QED BY <1>1, OneOfEach DEF Tables!Call

LEMMA SeeEndSuspendBlock ==
  ASSUME TableCall, TableAt = "mark", TableState' = "SUSPENDED", TableAt' = "out",
         UNCHANGED <<TableRt, TableSuspend, TableExits, TableHw>>
  PROVE  Tables!Next
  <1>1. Tables!EndSuspendBlock(1)
    BY CallShape DEF Tables!EndSuspendBlock, TableCall, Tables!Alive, Tables!Goto, Tables!NoThread, Tables!slotVars
  <1> QED BY <1>1, OneOfEach DEF Tables!Call

LEMMA SeeBeginResume ==
  ASSUME TableCall, TableAt \in {"out", "left"}, TableRt = 0, TableHw' = "run", TableRt' = 1,
         TableAt' = "resume", UNCHANGED <<TableState, TableSuspend, TableExits>>
  PROVE  Tables!Next
  <1>1. Tables!BeginResume(1)
    BY CallShape DEF Tables!BeginResume, TableCall, Tables!Alive, Tables!Goto, Tables!NoThread
  <1> QED BY <1>1, OneOfEach DEF Tables!Call

LEMMA SeeEndResume ==
  ASSUME TableCall, TableAt = "resume", TableState' = "RUNNING_HW", TableAt' = "in",
         UNCHANGED <<TableRt, TableSuspend, TableExits, TableHw>>
  PROVE  Tables!Next
  <1>1. Tables!EndResume(1)
    BY CallShape DEF Tables!EndResume, TableCall, Tables!Alive, Tables!Goto, Tables!NoThread, Tables!slotVars
  <1> QED BY <1>1, OneOfEach DEF Tables!Call

\* The steps of HwSlot, as Registry sees them.
Seen == Tables!Next \/ UNCHANGED Tables!vars

LEMMA OwnerRests ==
  ASSUME UNCHANGED <<rt, dt, state, opc, call>>
  PROVE  /\ UNCHANGED <<TableMade, TableCreating, TableState, TableRt, dt>>
         /\ UNCHANGED TableAt
         /\ Creating' <=> Creating
  <1>1. Creating' <=> Creating
    BY DEF Creating
  <1>2. UNCHANGED <<TableMade, TableCreating, TableState, TableRt, dt>>
    BY <1>1 DEF TableMade, TableCreating, TableState, TableRt, Claiming
  <1>3. UNCHANGED TableAt
    BY <1>1, <1>2 DEF TableAt, Suspending
  <1> QED BY <1>1, <1>2, <1>3

\* A step that neither the owner nor the flags nor the run of the thread notices.
LEMMA NotSeen ==
  ASSUME UNCHANGED <<rt, dt, state, opc, call, dt_flags, dt_exit>>,
         dpc \notin {"flags", "post"}, dpc' \notin {"flags", "post"},
         hw' = "reset" <=> hw = "reset"
  PROVE  UNCHANGED Tables!vars
  <1>1. UNCHANGED <<TableExits, TableSuspend>>
    BY DEF TableExits, TableSuspend
  <1>2. UNCHANGED TableHw
    BY OwnerRests DEF TableHw
  <1> QED BY <1>1, <1>2, OwnerRests, SeeNothing

LEMMA DelegateSeen ==
  ASSUME IInv, Delegate PROVE Seen
  <1> USE DEF DKeep, DGoto, ownerVars
  <1>0. UNCHANGED <<rt, dt, state, opc, call>>
    BY DEF Delegate, DStart, DTop, DClear, DRaise, DBlock, DTake, DWait, DWake, DInterrupted, DGot, DExec,
       DCall, DSlip, DSyscall, DBlocked, DGetLock, DGet, DSemWait, DLock, DCondRelease, DCondReturn,
       DGetDone, DUnpause, DAnswer, DFlags, DPost
  <1>1. CASE DStart \/ DTop \/ DRaise \/ DBlock \/ DTake \/ DWait \/ DWake \/ DInterrupted \/ DGot
    <2>1. /\ UNCHANGED <<dt_flags, dt_exit, hw>>
          /\ dpc \notin {"flags", "post"} /\ dpc' \notin {"flags", "post"}
      BY <1>1 DEF DStart, DTop, DRaise, DBlock, DTake, DWait, DWake, DInterrupted, DGot
    <2> QED BY <1>0, <2>1, NotSeen DEF Seen
  <1>2. CASE DCall \/ DSlip \/ DSyscall \/ DGetDone \/ DAnswer
    <2>1. /\ UNCHANGED <<dt_flags, dt_exit, hw>>
          /\ dpc \notin {"flags", "post"} /\ dpc' \notin {"flags", "post"}
      BY <1>2 DEF DCall, DSlip, DSyscall, DBlocked, DGetLock, DGet, DSemWait, DLock, DCondRelease, DCondReturn, DReturn,
         DGetDone, DAnswer
    <2> QED BY <1>0, <2>1, NotSeen DEF Seen
  <1>3. CASE DExec
    <2>1. UNCHANGED <<dt_flags, dt_exit>> /\ dpc = "exec"
      BY <1>3 DEF DExec
    <2>2. CASE hw' = hw /\ dpc' \notin {"flags", "post"}
      BY <1>0, <2>1, <2>2, NotSeen DEF Seen
    <2>3. CASE ~ (hw' = hw /\ dpc' \notin {"flags", "post"})
      <3>1. cmd = "EXIT" /\ hw' = "reset" /\ dpc' = "flags"
        BY <1>3, <2>3 DEF DExec, Serve, HoldInReset
      <3>2. hw # "reset"
        BY <2>1, <3>1 DEF IInv, RunsInv, ResetInv, Exiting
      <3>3. UNCHANGED <<TableExits, TableSuspend>>
        BY <2>1, <3>1 DEF TableExits, TableSuspend
      <3>4. UNCHANGED TableHw
        BY <1>0, <3>1, <3>2, OwnerRests DEF TableHw
      <3> QED BY <1>0, <3>3, <3>4, OwnerRests, SeeNothing DEF Seen
    <2> QED BY <2>2, <2>3
  <1>4. CASE DFlags
    <2>1. /\ dpc = "flags" /\ dpc' = "post" /\ dt_flags' = {} /\ UNCHANGED <<dt_exit, hw>>
      BY <1>4 DEF DFlags
    <2>2. hw = "reset" /\ dt /\ ~ Creating /\ opc # "resume_rt"
      BY <2>1 DEF IInv, TypeOK, RunsInv, ResetInv, BootInv, RunInv, Posting, OwnerInv, Creating
    <2>3. TableHw = "run" /\ TableHw' = "reset"
      BY <1>0, <2>1, <2>2 DEF TableHw, Creating
    <2>4. TableExits' = TableExits + 1 /\ ~ TableSuspend'
      BY <2>1 DEF TableExits, TableSuspend
    <2> QED BY <1>0, <2>2, <2>3, <2>4, OwnerRests, SeeExit DEF Seen
  <1>5. CASE DPost
    <2>1. dpc = "post" /\ dpc' = "top" /\ dt_exit' = dt_exit + 1 /\ UNCHANGED <<dt_flags, hw>>
      BY <1>5 DEF DPost
    <2>2. UNCHANGED <<TableExits, TableSuspend>>
      BY <2>1 DEF TableExits, TableSuspend
    <2>3. UNCHANGED TableHw
      BY <1>0, <2>1, OwnerRests DEF TableHw
    <2> QED BY <1>0, <2>2, <2>3, OwnerRests, SeeNothing DEF Seen
  <1>6. CASE DClear \/ DUnpause
    <2>1. /\ dpc \notin {"none", "flags", "post"} /\ dpc' \notin {"flags", "post"}
          /\ UNCHANGED <<dt_exit, hw>>
      BY <1>6 DEF DClear, DUnpause
    <2>2. dt /\ (TableSuspend' => TableSuspend)
      BY <1>6, <2>1 DEF DClear, DUnpause, IInv, OwnerInv, FlagInv, TableSuspend
    <2>3. UNCHANGED TableExits
      BY <2>1 DEF TableExits
    <2>4. UNCHANGED TableHw
      BY <1>0, <2>1, OwnerRests DEF TableHw
    <2>5. CASE TableSuspend /\ ~ TableSuspend'
      BY <1>0, <2>2, <2>3, <2>4, <2>5, OwnerRests, SeeDelegateSuspend DEF Seen
    <2>6. CASE TableSuspend' <=> TableSuspend
      <3>1. UNCHANGED TableSuspend
        BY <2>6 DEF TableSuspend
      <3> QED BY <1>0, <2>3, <2>4, <3>1, OwnerRests, SeeNothing DEF Seen
    <2> QED BY <2>2, <2>5, <2>6
  <1> QED BY <1>1, <1>2, <1>3, <1>4, <1>5, <1>6 DEF Delegate

LEMMA HardwareSeen ==
  ASSUME IInv, \/ Hardware \/ \E c \in uses : HwCall(c)
               \/ Arrive \/ Drain \/ OtherCalls \/ OtherReturns \/ OtherPost \/ OtherLock \/ OtherUnlock \/ OtherSignal
  PROVE  Seen
  <1>1. UNCHANGED <<rt, dt, state, opc, call, dt_flags, dt_exit, dpc>> /\ (hw' = "reset" <=> hw = "reset")
    BY DEF Hardware, HwBoot, HwAnswer, HwCall, Arrive, Drain, OtherCalls, OtherReturns, OtherPost, OtherLock, OtherUnlock,
       OtherSignal, OthersKeep, slotVars, ownerVars, delegateVars
  <1>2. UNCHANGED <<TableExits, TableSuspend>>
    BY <1>1 DEF TableExits, TableSuspend
  <1>3. UNCHANGED TableHw
    BY <1>1, OwnerRests DEF TableHw
  <1> QED BY <1>1, <1>2, <1>3, OwnerRests, SeeNothing DEF Seen

\* A step of the owner outside create: the tables it leaves alone.
LEMMA OwnerCalls ==
  ASSUME IInv, dt, UNCHANGED <<dt, dpc>>, ~ Creating, ~ Creating', state' # "INIT"
  PROVE  /\ TableCall
         /\ UNCHANGED dt_exit => UNCHANGED TableExits
         /\ UNCHANGED dt_flags => UNCHANGED TableSuspend
         /\ UNCHANGED <<state, opc>> => UNCHANGED TableState
  <1>1. state # "INIT"
    BY DEF IInv, OwnerInv
  <1>2. TableCall
    BY <1>1 DEF TableCall, TableMade, TableCreating
  <1>3. UNCHANGED dt_exit => UNCHANGED TableExits
    BY DEF TableExits
  <1>4. UNCHANGED dt_flags => UNCHANGED TableSuspend
    BY DEF TableSuspend
  <1>5. UNCHANGED <<state, opc>> => UNCHANGED TableState
    BY DEF TableState, Claiming
  <1> QED BY <1>2, <1>3, <1>4, <1>5

LEMMA CreateSeen ==
  ASSUME IInv, OCreate PROVE Seen
  <1> USE DEF IInv, OwnerInv
  <1>1. UNCHANGED dt_exit
    BY DEF OCreate, OKeep
  <1>2. CASE opc # "create_dt"
    <2>1. /\ opc \in {"create_rt", "create_pulse", "create_start"}
          /\ opc' \in {"create_pulse", "create_start", "create_dt"}
          /\ UNCHANGED <<dt, state, dt_flags, dpc>>
      BY <1>2 DEF OCreate, OGoto, slotVars
    <2>2. Creating /\ Creating'
      BY <2>1 DEF Creating
    <2>3. UNCHANGED <<TableMade, TableCreating, TableRt, TableHw>>
      BY <2>2 DEF TableMade, TableCreating, TableRt, TableHw
    <2>4. UNCHANGED <<TableState, TableSuspend, TableExits>>
      BY <1>1, <2>1 DEF TableState, TableSuspend, TableExits, Claiming
    <2>5. UNCHANGED TableAt
      BY <2>1, <2>2 DEF TableAt, Suspending
    <2> QED BY <2>1, <2>3, <2>4, <2>5, SeeNothing DEF Seen
  <1>3. CASE opc = "create_dt"
    <2>1. /\ ~ dt /\ dt' /\ dt_flags' = {} /\ state' = "RUNNING_HW" /\ dpc = "none" /\ dpc' = "start"
          /\ opc' = "idle" /\ rt /\ UNCHANGED <<rt, hw>>
      BY <1>3 DEF OCreate, OGoto, Return
    <2>2. dt = FALSE /\ dt' = TRUE
      BY <2>1 DEF TypeOK, OCreate
    <2>3. hw # "reset"
      BY <1>3 DEF RunsInv, ResetInv
    <2>4. Creating /\ ~ Creating'
      BY <1>3, <2>1 DEF Creating
    <2>5. /\ TableMade = 1 /\ TableMade' = 1 /\ TableCreating = 0 /\ TableCreating' = -1
          /\ TableRt = 0 /\ TableRt' = 1
      BY <2>1, <2>4 DEF TableMade, TableCreating, TableRt
    <2>6. TableState' = "RUNNING_HW" /\ ~ TableSuspend' /\ TableHw' = "run" /\ TableExits' = TableExits
      BY <1>1, <2>1, <2>3, <2>4 DEF TableState, TableSuspend, TableHw, TableExits, Claiming
    <2>7. TableAt' = "in"
      BY <2>1, <2>4, <2>5 DEF TableAt, Suspending
    <2> QED BY <2>2, <2>5, <2>6, <2>7, SeePlace DEF Seen
  <1> QED BY <1>2, <1>3

LEMMA SetFlagsSeen ==
  ASSUME IInv, OSetFlags PROVE Seen
  <1> USE DEF IInv, OwnerInv
  <1>1. /\ opc \in {"load", "pause", "reload", "suspend"} /\ rt /\ state = "SUSPENDING"
        /\ call \in {"suspend", "suspend_block"} /\ dt
        /\ UNCHANGED <<rt, dt, state, dt_exit, dpc, call, hw>>
    BY DEF OSetFlags, OKeep
  <1>2. opc' \in {"pause", "reload", "suspend", "look"}
    BY <1>1 DEF OSetFlags, OGoto
  <1>3. ~ Creating /\ ~ Creating'
    BY <1>1, <1>2 DEF Creating
  <1>4. TableCall /\ UNCHANGED TableExits
    BY <1>1, <1>3, OwnerCalls
  <1>5. TableRt = 1 /\ TableRt' = 1 /\ TableState = "RUNNING_HW"
    BY <1>1, <1>2, <1>3 DEF TableRt, TableState, Claiming
  <1>6. UNCHANGED TableHw
    BY <1>1, <1>2, <1>3 DEF TableHw
  <1>7. TableAt = "in"
    BY <1>1, <1>3, <1>4, <1>5 DEF TableAt, Suspending, TableCall
  <1>8. CASE opc' = "look"
    <2>1. TableSuspend' /\ TableState' = "SUSPENDING"
      BY <1>1, <1>8 DEF OSetFlags, OGoto, TableSuspend, TableState, Claiming, Flags
    <2> DEFINE p == IF call = "suspend" THEN "suspend" ELSE "block"
    <2>2. TableAt' = p
      BY <1>1, <1>3, <1>4, <1>8 DEF TableAt, Suspending, TableCall
    <2>3. p \in {"suspend", "block"}
      OBVIOUS
    <2> HIDE DEF p
    <2> QED BY <1>4, <1>5, <1>6, <1>7, <2>1, <2>2, <2>3, SeeBeginSuspend DEF Seen
  <1>9. CASE opc' # "look"
    <2>1. "SUSPEND" \notin dt_flags /\ "SUSPEND" \notin dt_flags'
      BY <1>1, <1>9 DEF OSetFlags, OGoto, FlagInv
    <2>2. UNCHANGED TableSuspend
      BY <2>1 DEF TableSuspend
    <2>3. UNCHANGED TableState
      BY <1>1, <1>2, <1>9 DEF TableState, Claiming
    <2>4. TableAt' = "in"
      BY <1>1, <1>2, <1>3, <1>4, <1>5, <1>9 DEF TableAt, Suspending, TableCall
    <2> QED BY <1>4, <1>5, <1>6, <1>7, <2>2, <2>3, <2>4, SeeNothing DEF Seen, TableCall
  <1> QED BY <1>8, <1>9

LEMMA WaitSeen ==
  ASSUME IInv, OLook \/ OPoke \/ OTest PROVE Seen
  <1> USE DEF IInv, OwnerInv, OGoto
  <1>1. /\ opc \in {"look", "poke", "test"} /\ rt /\ state = "SUSPENDING"
        /\ call \in {"suspend", "suspend_block"} /\ dt
        /\ UNCHANGED <<rt, dt, dt_exit, dt_flags, hw>>
    BY DEF OLook, OPoke, OTest, Break, Kill, NoPoke, OKeep, slotVars
  <1>2. /\ opc' \in {"look", "poke", "test", "join", "idle"}
        /\ state' \in {"SUSPENDING", "SUSPENDED"}
    BY <1>1 DEF OLook, OPoke, OTest, Return, slotVars
  <1>3. ~ Creating /\ ~ Creating'
    BY <1>1, <1>2 DEF Creating
  <1>4. (dpc' = "post" <=> dpc = "post") /\ (dpc' = "flags" <=> dpc = "flags")
    BY DEF OLook, OPoke, OTest, Break, Kill, NoPoke, WaitsForWord, WaitsForPlace
  <1>5. TableCall /\ UNCHANGED <<TableExits, TableSuspend>>
    BY <1>1, <1>2, <1>3, <1>4 DEF TableCall, TableMade, TableCreating, TableExits, TableSuspend
  <1>6. TableRt = 1 /\ TableRt' = 1 /\ UNCHANGED TableHw
    BY <1>1, <1>2, <1>3, <1>4 DEF TableRt, TableHw
  <1>7. TableAt = IF call = "suspend" THEN "suspend" ELSE "block"
    BY <1>1, <1>3, <1>5 DEF TableAt, Suspending, TableCall
  <1>8. CASE opc' = "idle"
    <2>1. call = "suspend" /\ state' = "SUSPENDED" /\ "SUSPEND" \notin dt_flags
      BY <1>1, <1>8 DEF OLook, OPoke, OTest
    <2>2. TableAt = "suspend" /\ ~ TableSuspend /\ TableState' = "SUSPENDED"
      BY <1>7, <1>8, <2>1 DEF TableSuspend, TableState, Claiming
    <2>3. TableAt' = "asked"
      BY <1>3, <1>5, <1>6, <1>8, <2>1 DEF TableAt, Suspending, TableCall
    <2> QED BY <1>5, <1>6, <2>2, <2>3, SeeEndSuspend DEF Seen
  <1>9. CASE opc' # "idle"
    <2>1. UNCHANGED <<state, call>> /\ (opc' = "join" => call = "suspend_block")
      BY <1>1, <1>9 DEF OLook, OPoke, OTest, Return, slotVars
    <2>2. UNCHANGED TableState
      BY <1>1, <1>2, <2>1 DEF TableState, Claiming
    <2>3. UNCHANGED TableAt
      BY <1>1, <1>2, <1>3, <1>5, <1>7, <1>9, <2>1 DEF TableAt, Suspending, TableCall
    <2> QED BY <1>5, <1>6, <2>2, <2>3, SeeNothing DEF Seen, TableCall
  <1> QED BY <1>8, <1>9

LEMMA JoinSeen ==
  ASSUME IInv, OJoin \/ OJoinWait \/ OJoinReset \/ OJoinFree PROVE Seen
  <1> USE DEF IInv, OwnerInv, OGoto
  <1>1. /\ opc \in {"join", "join_wait", "join_reset", "join_rt"}
        /\ opc' \in {"join_wait", "join_reset", "join_rt", "idle"}
        /\ rt /\ dt /\ call \in {"suspend_block", "join"}
        /\ IF call = "join" THEN state \in {"RUNNING_HW", "SUSPENDED"} ELSE state = "SUSPENDING"
        /\ UNCHANGED <<dt, dt_flags, dpc>> /\ state' # "INIT"
    BY DEF OJoin, OJoinWait, OJoinReset, OJoinFree, Return, slotVars, delegateVars
  <1>2. ~ Creating /\ ~ Creating' /\ ~ Suspending /\ ~ Suspending'
    BY <1>1 DEF Creating, Suspending
  <1>3. TableCall /\ UNCHANGED TableSuspend /\ (UNCHANGED dt_exit => UNCHANGED TableExits)
    BY <1>1, <1>2, OwnerCalls
  <1>4. ~ TableSuspend /\ TableState = state /\ TableState' = state'
    BY <1>1 DEF FlagInv, TableSuspend, TableState, Claiming
  <1>5. TableMade = 1 /\ TableMade' = 1
    BY <1>3 DEF TableCall
  <1>6. CASE OJoin
    <2>1. opc = "join" /\ opc' = "join_wait" /\ UNCHANGED <<rt, state, dt_exit, hw, call>>
      BY <1>1, <1>6 DEF OJoin, slotVars
    <2>2. TableRt = 1 /\ TableRt' = 1 /\ UNCHANGED TableHw
      BY <1>1, <1>2, <2>1 DEF TableRt, TableHw
    <2>3. TableAt \in {"in", "asked", "block"} /\ TableAt' = "wait"
      BY <1>1, <1>2, <1>5, <2>1, <2>2 DEF TableAt
    <2> QED BY <1>3, <1>4, <2>1, <2>2, <2>3, SeeBeginJoin DEF Seen
  <1>7. CASE OJoinWait
    <2>1. /\ opc = "join_wait" /\ opc' = "join_reset" /\ UNCHANGED <<rt, state, hw, call>>
          /\ dt_exit \in Nat /\ dt_exit > 0 /\ dt_exit' = dt_exit - 1
      BY <1>7 DEF OJoinWait, TypeOK
    <2>2. UNCHANGED <<TableRt, TableHw>>
      BY <1>2, <2>1, <1>1 DEF TableRt, TableHw
    <2>3. TableAt = "wait" /\ TableAt' = "reset"
      BY <1>2, <1>5, <2>1 DEF TableAt
    <2>4. TableExits > 0 /\ TableExits' = TableExits - 1
      BY <1>1, <2>1 DEF TableExits
    <2> QED BY <1>3, <1>4, <2>1, <2>2, <2>3, <2>4, SeeJoinWait DEF Seen
  <1>8. CASE OJoinReset
    <2>1. /\ opc = "join_reset" /\ opc' = "join_rt" /\ UNCHANGED <<rt, state, dt_exit, call>>
          /\ hw' = "reset"
      BY <1>8 DEF OJoinReset, HoldInReset, slotVars
    <2>2. hw = "reset" /\ ~ Posting
      BY <2>1, <1>1 DEF TypeOK, RunsInv, ResetInv, BootInv, RunInv
    <2>3. TableHw' = "reset" /\ TableRt' = 0
      BY <1>1, <2>1, <2>2 DEF TableHw, TableRt, Posting
    <2>4. TableAt = "reset"
      BY <1>2, <1>5, <2>1 DEF TableAt
    <2>5. TableAt' = IF TableState = "SUSPENDING" THEN "mark"
                     ELSE IF TableState = "SUSPENDED" THEN "out" ELSE "left"
      BY <1>1, <1>2, <1>4, <1>5, <2>1, <2>3 DEF TableAt
    <2> QED BY <1>3, <1>4, <2>1, <2>3, <2>4, <2>5, SeeJoinFree DEF Seen
  <1>9. CASE OJoinFree
    <2>1. /\ opc = "join_rt" /\ opc' = "idle" /\ ~ rt' /\ UNCHANGED <<hw, dt_exit>>
          /\ state' = IF call = "join" THEN state ELSE "SUSPENDED"
      BY <1>9 DEF OJoinFree, Return
    <2>2. TableRt = 0 /\ TableRt' = 0 /\ UNCHANGED TableHw
      BY <1>1, <1>2, <2>1 DEF TableRt, TableHw
    <2>3. TableAt' = IF state' = "SUSPENDED" THEN "out" ELSE "left"
      BY <1>2, <1>5, <2>1, <2>2 DEF TableAt
    <2>4. CASE call = "join"
      <3>1. TableAt = IF state = "SUSPENDED" THEN "out" ELSE "left"
        BY <1>2, <1>5, <2>1, <2>2, <2>4 DEF TableAt
      <3> QED BY <1>3, <1>4, <2>1, <2>2, <2>3, <2>4, <3>1, SeeNothing DEF Seen, TableCall
    <2>5. CASE call = "suspend_block"
      <3>1. TableAt = "mark"
        BY <1>2, <1>5, <2>1, <2>5 DEF TableAt
      <3> QED BY <1>3, <1>4, <2>1, <2>2, <2>3, <2>5, <3>1, SeeEndSuspendBlock DEF Seen
    <2> QED BY <1>1, <2>4, <2>5
  <1> QED BY <1>6, <1>7, <1>8, <1>9

LEMMA ResumeSeen ==
  ASSUME IInv, OResume \/ OResumeSet \/ OResumeStart PROVE Seen
  <1> USE DEF IInv, OwnerInv, OGoto
  <1>1. /\ opc \in {"resume_check", "resume_rt", "resume_start"}
        /\ opc' \in {"resume_rt", "resume_start", "idle"} /\ state \in {"RUNNING_HW", "SUSPENDED"}
        /\ dt /\ UNCHANGED <<dt, dt_flags, dt_exit, dpc>> /\ state' # "INIT"
    BY DEF OResume, OResumeSet, OResumeStart, Return, slotVars, delegateVars
  <1>2. ~ Creating /\ ~ Creating' /\ ~ Suspending /\ ~ Suspending'
    BY <1>1 DEF Creating, Suspending
  <1>3. TableCall /\ UNCHANGED <<TableSuspend, TableExits>>
    BY <1>1, <1>2, OwnerCalls
  <1>4. TableState = state /\ TableState' = state'
    BY <1>1 DEF TableState, Claiming
  <1>5. TableMade = 1 /\ TableMade' = 1
    BY <1>3 DEF TableCall
  <1>6. CASE OResume
    <2>1. /\ opc = "resume_check" /\ opc' = "resume_rt" /\ ~ rt /\ UNCHANGED <<rt, state>>
      BY <1>1, <1>6 DEF OResume, slotVars
    <2>2. hw = "reset" /\ ~ Posting
      BY <2>1 DEF TypeOK, RunsInv, ResetInv, BootInv, RunInv
    <2>3. TableRt = 0 /\ TableRt' = 0 /\ TableHw = "reset" /\ TableHw' = "reset"
      BY <2>1, <2>2 DEF TableRt, TableHw, Posting
    <2>4. UNCHANGED TableAt
      BY <1>2, <1>5, <2>1, <2>3 DEF TableAt
    <2> QED BY <1>3, <1>4, <2>1, <2>3, <2>4, SeeNothing DEF Seen, TableCall
  <1>7. CASE OResumeSet
    <2>1. opc = "resume_rt" /\ opc' = "resume_start" /\ ~ rt /\ rt' /\ UNCHANGED <<state, hw>>
      BY <1>7 DEF OResumeSet
    <2>2. hw # "reset"
      BY <2>1 DEF RunsInv, ResetInv
    <2>3. TableRt = 0 /\ TableRt' = 1 /\ TableHw' = "run"
      BY <1>2, <2>1, <2>2 DEF TableRt, TableHw
    <2>4. TableAt \in {"out", "left"} /\ TableAt' = "resume"
      BY <1>2, <1>5, <2>1, <2>3 DEF TableAt
    <2> QED BY <1>3, <1>4, <2>1, <2>3, <2>4, SeeBeginResume DEF Seen
  <1>8. CASE OResumeStart
    <2>1. /\ opc = "resume_start" /\ opc' = "idle" /\ rt /\ state' = "RUNNING_HW" /\ UNCHANGED <<rt, hw>>
      BY <1>8 DEF OResumeStart, Return
    <2>2. TableRt = 1 /\ TableRt' = 1 /\ UNCHANGED TableHw
      BY <1>1, <1>2, <2>1 DEF TableRt, TableHw
    <2>3. TableAt = "resume" /\ TableAt' = "in"
      BY <1>2, <1>5, <2>1, <2>2 DEF TableAt
    <2> QED BY <1>3, <1>4, <2>1, <2>2, <2>3, SeeEndResume DEF Seen
  <1> QED BY <1>6, <1>7, <1>8

LEMMA OwnerSeen ==
  ASSUME IInv, Owner PROVE Seen
  BY CreateSeen, SetFlagsSeen, WaitSeen, JoinSeen, ResumeSeen DEF Owner

LEMMA BeginSeen ==
  ASSUME IInv, (state = "INIT" /\ ~ rt /\ Begin("create")) \/ (\E c \in Calls : Begin(c))
  PROVE  Seen
  <1> USE DEF IInv, OwnerInv
  <1>1. opc = "idle" /\ UNCHANGED <<rt, dt, dt_flags, dt_exit, dpc, hw>>
    BY DEF Begin, OKeep
  <1>2. UNCHANGED <<TableSuspend, TableExits>>
    BY <1>1 DEF TableSuspend, TableExits
  <1>3. CASE state = "INIT" /\ ~ rt /\ Begin("create")
    <2>1. opc' = "create_rt" /\ state' = "INIT"
      BY <1>3 DEF Begin, OGoto, Entry
    <2>2. hw = "reset" /\ dpc = "none"
      BY <1>1, <1>3 DEF TypeOK, RunsInv, BootInv, RunInv
    <2>3. ~ Creating /\ Creating'
      BY <1>1, <2>1 DEF Creating
    <2>4. TableMade = 0 /\ TableMade' = 1 /\ TableCreating = -1 /\ TableCreating' = 0
      BY <1>3, <2>3 DEF TableMade, TableCreating
    <2>5. TableRt = 0 /\ TableRt' = 0 /\ TableHw = "reset" /\ TableHw' = "reset"
      BY <1>3, <2>2, <2>3 DEF TableRt, TableHw
    <2>6. UNCHANGED TableAt
      BY <1>1, <2>1, <2>3, <2>4 DEF TableAt, Suspending
    <2>7. UNCHANGED TableState
      BY <1>1, <1>3, <2>1 DEF TableState, Claiming
    <2> QED BY <1>1, <1>2, <2>4, <2>5, <2>6, <2>7, SeeCreate DEF Seen
  <1>4. CASE \E c \in Calls : Begin(c)
    <2>1. PICK c \in AllCalls \ {"create"} : Begin(c)
      BY <1>4, SlotAssumption
    <2>2. /\ opc' \in {"load", "join", "resume_check", "idle"}
          /\ opc' = "join" => c = "join" /\ call' = "join"
          /\ opc' = "load" <=> c \in {"suspend", "suspend_block"}
      BY <2>1 DEF Begin, OGoto, Entry, AllCalls
    <2>3. CASE c \in {"suspend", "suspend_block"}
      <3>1. rt /\ dt /\ state = "RUNNING_HW" /\ state' = "SUSPENDING" /\ opc' = "load"
        BY <1>1, <2>1, <2>2, <2>3 DEF Begin, Legal
      <3>2. ~ Creating /\ ~ Creating' /\ ~ Suspending /\ ~ Suspending'
        BY <1>1, <3>1 DEF Creating, Suspending
      <3>3. UNCHANGED <<TableMade, TableCreating, TableRt, TableHw>> /\ TableMade = 1 /\ TableRt = 1
        BY <1>1, <3>1, <3>2 DEF TableMade, TableCreating, TableRt, TableHw
      <3>4. UNCHANGED TableState
        BY <1>1, <3>1 DEF TableState, Claiming
      <3>5. UNCHANGED TableAt
        BY <1>1, <3>1, <3>2, <3>3 DEF TableAt
      <3> QED BY <1>1, <1>2, <3>3, <3>4, <3>5, SeeNothing DEF Seen
    <2>4. CASE c \notin {"suspend", "suspend_block"}
      <3>1. state' = state /\ opc' \in {"join", "resume_check", "idle"}
        BY <2>1, <2>2, <2>4 DEF Begin
      <3>2. ~ Creating /\ ~ Creating' /\ ~ Suspending /\ ~ Suspending'
        BY <1>1, <3>1 DEF Creating, Suspending
      <3>3. UNCHANGED <<TableMade, TableCreating, TableRt, TableHw>>
        BY <1>1, <3>1, <3>2 DEF TableMade, TableCreating, TableRt, TableHw
      <3>4. UNCHANGED TableState
        BY <1>1, <3>1 DEF TableState, Claiming
      <3>5. UNCHANGED TableAt
        BY <1>1, <2>2, <3>1, <3>2, <3>3 DEF TableAt
      <3> QED BY <1>1, <1>2, <3>3, <3>4, <3>5, SeeNothing DEF Seen
    <2> QED BY <2>3, <2>4
  <1> QED BY <1>3, <1>4

LEMMA InitSeen == Init => Tables!Ready
  <1> SUFFICES ASSUME Init PROVE Tables!Ready
    OBVIOUS
  <1>1. /\ TableMade = 0 /\ TableCreating = -1 /\ TableState = "INIT" /\ TableRt = 0
        /\ TableSuspend = FALSE /\ TableExits = 0 /\ TableHw = "reset" /\ dt = FALSE
    BY DEF Init, Creating, Claiming, TableMade, TableCreating, TableState, TableRt, TableSuspend,
       TableExits, TableHw
  <1>2. TableAt = "none"
    BY <1>1 DEF Init, TableAt, Suspending
  <1>3. Tables!SwtSaw = Saw
    BY DEF Tables!SwtSaw, Tables!Fn, Saw
  <1>4. OneSlot(dt) = [s \in {0} |-> FALSE] /\ OneSlot(TableSuspend) = [s \in {0} |-> FALSE]
    BY <1>1 DEF OneSlot
  <1>5. /\ OneThread(IF TableMade = 1 THEN Servo ELSE Saw) = [t \in {1} |-> Saw]
        /\ OneThread(IF TableMade = 1 THEN 0 ELSE -1) = [t \in {1} |-> -1]
        /\ OneThread(TableState) = [t \in {1} |-> "INIT"] /\ OneThread(TableAt) = [t \in {1} |-> "none"]
    BY <1>1, <1>2 DEF OneThread
  <1>6. /\ OneSlot(TableRt) = [s \in {0} |-> 0] /\ OneSlot(TableExits) = [s \in {0} |-> 0]
        /\ OneSlot(TableHw) = [s \in {0} |-> "reset"]
    BY <1>1 DEF OneSlot
  <1> QED BY <1>1, <1>3, <1>4, <1>5, <1>6, OneOfEach DEF Tables!Ready, Tables!NoSlot, Tables!NoThread

\* A slot as HwSlot runs it, with its delegate, its FIFOs and its calls in several
\* steps, is a slot of the tables that Registry describes (reconos_thread_create,
\* _suspend, _suspend_block, _join and _resume over the hwslot functions).
THEOREM SlotImplementsTables == Spec => SlotOfTables
  <1>1. IInv /\ [Next]_vars => [Tables!Next]_(Tables!vars)
    <2> SUFFICES ASSUME IInv, [Next]_vars PROVE Seen
      BY DEF Seen
    <2>1. CASE Next
      BY <2>1, DelegateSeen, OwnerSeen, HardwareSeen, BeginSeen DEF Next, Environment
    <2>2. CASE UNCHANGED vars
      <3>1. UNCHANGED <<rt, dt, state, opc, call, dt_flags, dt_exit, dpc, hw>>
        BY <2>2 DEF vars, slotVars, ownerVars, delegateVars
      <3>2. UNCHANGED <<TableExits, TableSuspend>>
        BY <3>1 DEF TableExits, TableSuspend
      <3>3. UNCHANGED TableHw
        BY <3>1, OwnerRests DEF TableHw
      <3> QED BY <3>1, <3>2, <3>3, OwnerRests, SeeNothing DEF Seen
    <2> QED BY <2>1, <2>2
  <1> QED BY <1>1, InitSeen, InductiveInvariant, PTL DEF Spec, SlotOfTables
=============================================================================
