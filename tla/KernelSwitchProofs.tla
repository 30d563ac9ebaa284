------------------------- MODULE KernelSwitchProofs -------------------------
(***************************************************************************)
(* The video kernel switch uses its slot as HwSlot allows, so that what is *)
(* proved of a slot holds in it, and writes a bitstream only while nothing *)
(* moves in the slot: for all kernels, buffers and sizes.                  *)
(***************************************************************************)
EXTENDS KernelSwitch, HwSlotProofs, SequenceTheorems

\* The place of the server tells which call of the owner is going on, and
\* whether the slot has its thread in between.
ServerInv ==
  /\ spc = "boot" => opc = "idle" /\ ~ rt /\ state = "INIT"
  /\ spc = "booting" => \/ opc \in {"create_rt", "create_pulse", "create_start", "create_dt"}
                        \/ opc = "idle" /\ rt /\ dt /\ state = "RUNNING_HW"
  /\ spc \in {"idle", "handshake", "suspend"} => opc = "idle" /\ rt /\ dt /\ state = "RUNNING_HW"
  /\ spc = "suspending" =>
       \/ /\ opc \in {"load", "pause", "reload", "suspend", "look", "poke", "test",
                      "join", "join_wait", "join_reset", "join_rt"}
          /\ call = "suspend_block"
       \/ opc = "idle" /\ ~ rt /\ dt /\ state = "SUSPENDED"
  /\ spc \in {"program", "loading", "polling", "resume"} => opc = "idle" /\ ~ rt /\ dt /\ state = "SUSPENDED"
  /\ spc = "resuming" => \/ opc \in {"resume_check", "resume_rt", "resume_start"}
                         \/ opc = "idle" /\ rt /\ dt /\ state = "RUNNING_HW"
  /\ spc \in {"boot", "booting", "idle", "handshake", "suspend", "suspending",
              "program", "loading", "polling", "resume", "resuming"}
  /\ want \in Kernels /\ (fabric = "loading" => spc \in {"loading", "polling"})

SInv == IInv /\ ServerInv

\* The place of the kernel in its program against the state of the hardware, and
\* its one call, in hw2sw or with the delegate.
Cmd == CASE kpc = "initialising" -> "GET_INIT_DATA" [] kpc = "getting" -> "MBOX_GET"
         [] kpc = "trying" -> "MBOX_TRYPUT" [] OTHER -> "none"
CallInv ==
  /\ hw \in {"reset", "boot", "done"} => kpc = "init"
  /\ hw = "await" => kpc \in {"initialising", "getting", "trying"}
  /\ hw = "run" => kpc \in {"init", "poll", "get", "work", "try", "exit"}
  /\ hw = "run" => hw2sw = <<>>
  /\ hw = "await" => hw2sw = <<>> \/ hw2sw = <<Cmd>>
  /\ Serving => cmd = Cmd
  /\ dpc \in {"syscall", "done"} => cmd \in BlockCmds
  /\ dpc # "slip" /\ (dpc = "unpause" => cmd = "GET_STATE_ADDR")
  /\ dpc \notin {"done", "answer"} => ans = "none"

\* The word that answers a request was put and, perhaps, taken by the server.
Given == \/ spc = "handshake" /\ outbox = 1
         \/ spc \in {"suspend", "suspending"} /\ outbox = 0
NotGiven == spc \notin {"suspend", "suspending"} /\ outbox = 0

\* One word per request, put by the call the kernel makes before it exits.
WordInv ==
  /\ rc_flag <=> spc \in {"handshake", "suspend", "suspending"}
  /\ Given \/ NotGiven
  /\ kpc \in {"initialising", "poll", "get", "getting", "work"} => NotGiven
  /\ kpc = "init" /\ hw \in {"boot", "run"} => NotGiven
  /\ kpc = "try" => NotGiven /\ spc = "handshake"
  /\ kpc = "trying" => \/ NotGiven /\ spc = "handshake" /\ sw2hw = <<>> /\ ans = "none"
                       \/ Given /\ dpc = "answer" /\ ans = "ok"
                       \/ Given /\ sw2hw = <<"ok">> /\ dpc # "answer"
  /\ kpc = "exit" => Given
  /\ hw = "done" => Given

KInv == SInv /\ CallInv /\ WordInv

-----------------------------------------------------------------------------
(* Every step is a step of the slot *)

LEMMA SwitchSteps ==
  ASSUME TypeOK, ServerInv, SwitchNext PROVE [Next]_vars
  <1>1. CASE Runtime(Delegate) \/ Runtime(Owner)
    BY <1>1 DEF Runtime, Next
  <1>2. CASE Kernel
    <2>1. \A c \in {"GET_INIT_DATA", "MBOX_GET", "MBOX_TRYPUT", "EXIT"} : HwCall(c) => Next
      BY KernelAssumption DEF TypeOK, Next, Environment
    <2>2. HwBoot \/ HwAnswer => Next
      BY DEF Next, Hardware
    <2> QED BY <1>2, <2>1, <2>2 DEF Kernel, KBoot, KInit, KInitDone, KPoll, KGet, KFrame, KShown,
            KTry, KTried, KExit
  <1>3. CASE Server
    <2>1. \A c \in {"suspend_block", "resume"} : Begin(c) => Next
      BY KernelAssumption DEF Next, Environment
    <2>2. CASE SCreate
      <3>1. state = "INIT" /\ ~ rt /\ Begin("create")
        BY <2>2 DEF SCreate, SStep, ServerInv
      <3> QED BY <3>1 DEF Next, Environment
    <2>3. CASE SHandshake
      BY <2>3 DEF SHandshake, Next, Environment
    <2>4. CASE SSuspend \/ SResume
      BY <2>1, <2>4 DEF SSuspend, SResume
    <2> QED BY <1>3, <2>2, <2>3, <2>4 DEF Server, SReady, SClearFlag, SProgram, SProgrammed, SPollsOn,
            SProgramFails, SDone
  <1>4. CASE SRequest \/ Camera \/ Capture
    BY <1>4 DEF SRequest, Camera, CDequeue, CPut, CQueue, Capture, Next, Environment
  <1> QED BY <1>1, <1>2, <1>3, <1>4 DEF SwitchNext

-----------------------------------------------------------------------------
(* The server and the owner *)

\* The delegate, the kernel and the camera change nothing the server relies on.
LEMMA ServerKept ==
  ASSUME ServerInv, UNCHANGED <<spc, want, fabric, opc, call, rt, dt, state>> PROVE ServerInv'
  BY DEF ServerInv

LEMMA OwnerServer ==
  ASSUME SInv, Owner, UNCHANGED <<spc, want, fabric>> PROVE ServerInv'
  <1> USE DEF SInv, IInv, ServerInv, OwnerInv, OGoto, OKeep, Return, slotVars
  <1>1. CASE OCreate
    BY <1>1 DEF OCreate
  <1>2. CASE OSetFlags \/ OLook \/ OTest
    BY <1>2 DEF OSetFlags, OLook, OTest
  <1>3. CASE OPoke
    <2>1. opc = "poke" /\ opc' = "test" /\ UNCHANGED <<rt, dt, state, call>>
      BY <1>3 DEF OPoke, Break, Kill, NoPoke
    <2> QED BY <2>1
  <1>4. CASE OJoin \/ OJoinWait \/ OJoinReset \/ OJoinFree
    BY <1>4 DEF OJoin, OJoinWait, OJoinReset, OJoinFree
  <1>5. CASE OResume \/ OResumeSet \/ OResumeStart
    BY <1>5 DEF OResume, OResumeSet, OResumeStart
  <1> QED BY <1>1, <1>2, <1>3, <1>4, <1>5 DEF Owner

LEMMA ServerStep ==
  ASSUME SInv, Server \/ SRequest PROVE ServerInv'
  <1> USE KernelAssumption DEF SInv, ServerInv, SStep, vars, slotVars, ownerVars
  <1>1. CASE SCreate \/ SSuspend \/ SResume
    <2>1. UNCHANGED <<rt, dt, want, fabric>>
      BY <1>1 DEF SCreate, SSuspend, SResume, Begin
    <2>2. CASE SCreate
      BY <2>1, <2>2 DEF SCreate, Begin, Entry, OGoto
    <2>3. CASE SSuspend
      BY <2>1, <2>3 DEF SSuspend, Begin, Entry, OGoto
    <2>4. CASE SResume
      BY <2>1, <2>4 DEF SResume, Begin, Entry, OGoto
    <2> QED BY <1>1, <2>2, <2>3, <2>4
  <1>2. CASE SHandshake
    BY <1>2 DEF SHandshake, Drain, OthersKeep
  <1>3. CASE SReady \/ SClearFlag \/ SDone
    BY <1>3 DEF SReady, SClearFlag, SDone
  <1>4. CASE SProgram \/ SProgrammed \/ SPollsOn \/ SProgramFails \/ SRequest
    <2>1. CASE SProgram
      BY <2>1 DEF SProgram
    <2>2. CASE SProgrammed
      BY <2>2 DEF SProgrammed
    <2>3. CASE SProgramFails
      BY <2>3 DEF SProgramFails
    <2>4. CASE SRequest
      BY <2>4 DEF SRequest
    <2>5. CASE SPollsOn
      BY <2>5 DEF SPollsOn
    <2> QED BY <1>4, <2>1, <2>2, <2>3, <2>4, <2>5
  <1> QED BY <1>1, <1>2, <1>3, <1>4 DEF Server

LEMMA NextServer ==
  ASSUME SInv, [SwitchNext]_allVars PROVE ServerInv'
  <1> USE DEF switchVars, cameraVars, slotVars, procVars, osifVars, mailVars, boxVars, syncVars, resVars,
      delegateVars, ownerVars, vars
  <1>1. CASE Runtime(Delegate)
    <2>1. UNCHANGED <<opc, call, rt, dt, state>>
      BY <1>1 DEF Runtime, Delegate, DKeep, DStart, DTop, DClear, DRaise, DBlock, DTake, DWait, DWake,
         DInterrupted, DGot, DExec, DCall, DSlip, DSyscall, DBlocked, DGetLock, DGet, DSemWait, DLock, DCondRelease,
         DCondReturn, DGetDone, DUnpause, DAnswer, DFlags, DPost
    <2> QED BY <1>1, <2>1, ServerKept DEF Runtime, SInv
  <1>2. CASE Runtime(Owner)
    BY <1>2, OwnerServer DEF Runtime
  <1>3. CASE Kernel \/ Camera \/ Capture
    <2>1. UNCHANGED <<spc, want, fabric, opc, call, rt, dt, state>>
      BY <1>3 DEF Kernel, KBoot, KInit, KInitDone, KPoll, KGet, KFrame, KShown, KTry, KTried, KExit,
         KStep, KGoes, HwBoot, HwCall, HwAnswer, Camera, CDequeue, CPut, CQueue, CStep, Arrive,
         OthersKeep, Capture
    <2> QED BY <2>1, ServerKept DEF SInv
  <1>4. CASE Server \/ SRequest
    BY <1>4, ServerStep
  <1>5. CASE UNCHANGED allVars
    BY <1>5, ServerKept DEF allVars, SInv
  <1> QED BY <1>1, <1>2, <1>3, <1>4, <1>5 DEF SwitchNext

-----------------------------------------------------------------------------
(* The slot of the video kernels *)

\* The owner and the delegate keep to their invariant whatever server and kernels do.
THEOREM SwitchInvariant == SwitchSpec => []SInv
  <1>1. SwitchInit => SInv
    <2> SUFFICES ASSUME SwitchInit PROVE SInv
      OBVIOUS
    <2>1. IInv
      BY InitIInv DEF SwitchInit
    <2>2. ServerInv
      BY KernelAssumption DEF SwitchInit, Init, ServerInv
    <2> QED BY <2>1, <2>2 DEF SInv
  <1>2. SInv /\ [SwitchNext]_allVars => SInv'
    <2> SUFFICES ASSUME SInv, [SwitchNext]_allVars PROVE SInv'
      OBVIOUS
    <2>1. [Next]_vars
      BY SwitchSteps DEF SInv, IInv, allVars
    <2> QED BY <2>1, NextIInv, NextServer DEF SInv
  <1> QED BY <1>1, <1>2, PTL DEF SwitchSpec

\* The server and the kernels are a legal owner and a legal hardware thread: all
\* that is proved of a slot holds of the slot of the video kernels.
THEOREM SwitchUsesSlot == SwitchSpec => Spec
  <1>1. SwitchInit => Init
    BY DEF SwitchInit
  <1>2. SInv /\ [SwitchNext]_allVars => [Next]_vars
    BY SwitchSteps DEF SInv, IInv, allVars
  <1> QED BY <1>1, <1>2, SwitchInvariant, PTL DEF SwitchSpec, Spec

\* In the tables of the runtime the switch is a sequence of calls of Registry:
\* reconf_server_thread suspends, joins and resumes in an order that never panics.
THEOREM SwitchUsesTables == SwitchSpec => SlotOfTables
  BY SwitchUsesSlot, SlotImplementsTables

\* A bitstream is written only into a slot in which nothing moves.
THEOREM WrittenWhenQuiet == SwitchSpec => []ProgrammedWhenQuiet
  <1>1. SInv => ProgrammedWhenQuiet
    <2> SUFFICES ASSUME SInv, fabric = "loading" PROVE ProgrammedWhenQuiet
      BY DEF ProgrammedWhenQuiet
    <2>1. opc = "idle" /\ ~ rt
      BY DEF SInv, ServerInv
    <2>2. hw = "reset"
      BY <2>1 DEF SInv, IInv, TypeOK, RunsInv, BootInv, RunInv
    <2>3. hwrst /\ Quiet /\ ~ Serving /\ ~ Posting
      BY <2>1, <2>2 DEF SInv, IInv, RunsInv, ResetInv
    <2> QED BY <2>1, <2>2, <2>3 DEF ProgrammedWhenQuiet, Quiet, Serving, Posting
  <1> QED BY <1>1, SwitchInvariant, PTL

-----------------------------------------------------------------------------
(* The call of the kernel and the word for the server *)

\* What follows from the invariant of the slot.
LEMMA SlotFacts ==
  ASSUME IInv
  PROVE  /\ Serving => hw = "await" /\ sw2hw = <<>> /\ hw2sw = <<>>
         /\ Exiting => hw = "done"
         /\ hw = "await" /\ sw2hw # <<>> => ~ Serving /\ hw2sw = <<>> /\ Len(sw2hw) <= 1
         /\ hw = "boot" => hw2sw = <<>> /\ (sw2hw # <<>> => rt)
         /\ hw = "run" => sw2hw = <<>>
         /\ dpc \in {"call", "syscall", "done", "unpause", "answer"} => Serving
         /\ dpc = "answer" => ans # "none"
         /\ opc = "join_reset" => hw = "reset"
         /\ ~ rt /\ opc = "idle" => hw = "reset"
  <1> USE DEF IInv, TypeOK
  <1>1. /\ Serving => hw = "await" /\ sw2hw = <<>> /\ hw2sw = <<>>
        /\ Exiting => hw = "done"
        /\ hw = "await" /\ sw2hw # <<>> => ~ Serving /\ hw2sw = <<>> /\ Len(sw2hw) <= 1
    BY DEF RunsInv, ResetInv, BootInv, RunInv, Quiet
  <1>2. hw = "boot" => hw2sw = <<>> /\ (sw2hw # <<>> => rt)
    BY DEF RunsInv, BootInv
  <1>3. hw = "run" => sw2hw = <<>>
    BY DEF RunsInv, RunInv
  <1>4. dpc \in {"call", "syscall", "done", "unpause", "answer"} => Serving
    BY DEF Serving
  <1>5. dpc = "answer" => ans # "none"
    BY DEF AnswerInv, HwWords
  <1>6. (opc = "join_reset" => hw = "reset") /\ (~ rt /\ opc = "idle" => hw = "reset")
    BY DEF RunsInv, BootInv, RunInv
  <1> QED BY <1>1, <1>2, <1>3, <1>4, <1>5, <1>6

kernelVars == <<rc_flag, spc, kpc>>

\* A step of the delegate that neither takes a call nor answers one.
LEMMA DelegateKeeps ==
  ASSUME KInv, UNCHANGED <<kernelVars, hw, sw2hw, hw2sw, outbox, ans>>,
         Serving' => Serving /\ cmd' = cmd, dpc # "answer", dpc' # "answer",
         dpc # "done",
         dpc' \in {"syscall", "done"} => cmd' \in BlockCmds, dpc' = "unpause" => cmd' = "GET_STATE_ADDR",
         dpc' # "slip"
  PROVE  CallInv' /\ WordInv'
  <1> USE DEF kernelVars
  <1>1. Cmd' = Cmd
    BY DEF Cmd
  <1>2. CallInv'
    BY <1>1 DEF KInv, CallInv
  <1>3. (Given' <=> Given) /\ (NotGiven' <=> NotGiven)
    BY DEF Given, NotGiven
  <1> QED BY <1>2, <1>3 DEF KInv, WordInv

LEMMA DelegateWord ==
  ASSUME KInv, SInv', Delegate, UNCHANGED kernelVars PROVE CallInv' /\ WordInv'
  <1> USE DEF DKeep, DGoto, procVars, osifVars, mailVars, boxVars, syncVars, resVars, ownerVars
  <1>0. IInv /\ IInv' /\ CallInv /\ WordInv /\ OutSize \in Nat \ {0}
    BY SlotAssumption DEF KInv, SInv
  <1>1. CASE DStart \/ DTop \/ DClear \/ DRaise \/ DBlock \/ DWait \/ DWake \/ DInterrupted \/ DGot
    <2>1. /\ UNCHANGED <<hw, sw2hw, hw2sw, outbox, ans>>
          /\ dpc \notin {"none", "call", "slip", "syscall", "done", "unpause", "answer"}
          /\ dpc' \notin {"none", "call", "slip", "syscall", "done", "unpause", "answer"}
      BY <1>1 DEF DStart, DTop, DClear, DRaise, DBlock, DWait, DWake, DInterrupted, DGot
    <2>2. Serving' => Serving /\ cmd' = cmd
      <3>1. CASE DInterrupted
        BY <3>1 DEF DInterrupted, Serving, Unanswered
      <3>2. CASE DGot
        BY <3>2 DEF DGot, Serving
      <3>3. CASE DStart \/ DTop \/ DClear \/ DRaise \/ DBlock \/ DWait \/ DWake
        BY <3>3 DEF DStart, DTop, DClear, DRaise, DBlock, DWait, DWake, Serving
      <3> QED BY <1>1, <3>1, <3>2, <3>3
    <2> QED BY <2>1, <2>2, DelegateKeeps
  <1>2. CASE DTake
    <2>1. /\ UNCHANGED <<hw, sw2hw, outbox, ans>> /\ dpc \in {"read", "woken"} /\ dpc' = "got"
          /\ hw2sw # <<>> /\ cmd' = Head(hw2sw) /\ hw2sw' = Tail(hw2sw)
      BY <1>2 DEF DTake
    <2>2. hw # "run"
      BY <1>0, <2>1 DEF CallInv
    <2>3. hw = "await" => cmd' = Cmd /\ hw2sw' = <<>>
      <3>1. hw = "await" => hw2sw = <<Cmd>>
        BY <1>0, <2>1 DEF CallInv
      <3>2. Head(<<Cmd>>) = Cmd /\ Tail(<<Cmd>>) = <<>>
        OBVIOUS
      <3> QED BY <2>1, <3>1, <3>2
    <2>4. Serving' => hw' = "await"
      BY <1>0 DEF IInv, TypeOK, RunsInv, ResetInv, BootInv, RunInv
    <2>5. Cmd' = Cmd
      BY DEF Cmd, kernelVars
    <2>6. CallInv'
      BY <1>0, <2>1, <2>2, <2>3, <2>4, <2>5 DEF CallInv, kernelVars
    <2>7. (Given' <=> Given) /\ (NotGiven' <=> NotGiven)
      BY <2>1 DEF Given, NotGiven, kernelVars
    <2>8. WordInv'
      BY <1>0, <2>1, <2>7 DEF WordInv, kernelVars
    <2> QED BY <2>6, <2>8
  <1>3. CASE DExec
    <2>1. /\ UNCHANGED <<sw2hw, hw2sw, outbox, cmd>> /\ dpc = "exec"
      BY <1>3 DEF DExec
    <2>2. CASE cmd \in MailCmds \cup SyncCmds \cup {"CLEAR_SIGNAL", "INTERRUPTED", "GET_STATE_ADDR"}
      <3>1. /\ UNCHANGED <<hw, ans>> /\ dpc' \in {"call", "top", "unpause"}
            /\ dpc' = "unpause" => cmd = "GET_STATE_ADDR"
            /\ dpc' = "call" => cmd \in MailCmds \cup SyncCmds
        BY <1>3, <2>2 DEF DExec, Serve, MailCmds, SyncCmds
      <3>2. Serving' => Serving
        BY <2>1, <3>1 DEF Serving, Unanswered, MailCmds, SyncCmds
      <3> QED BY <2>1, <3>1, <3>2, DelegateKeeps
    <2>3. CASE cmd = "GET_INIT_DATA"
      <3>1. UNCHANGED hw /\ dpc' = "answer" /\ ans' = "init" /\ Serving
        BY <1>3, <2>1, <2>3 DEF DExec, Serve, MailCmds, SyncCmds, Serving, Unanswered
      <3>2. kpc = "initialising"
        BY <1>0, <2>3, <3>1 DEF CallInv, Cmd
      <3>3. Cmd' = Cmd
        BY DEF Cmd, kernelVars
      <3>4. CallInv'
        BY <1>0, <2>1, <3>1, <3>3 DEF CallInv, kernelVars
      <3>5. (Given' <=> Given) /\ (NotGiven' <=> NotGiven)
        BY <2>1 DEF Given, NotGiven, kernelVars
      <3>6. WordInv'
        BY <1>0, <2>1, <3>1, <3>2, <3>5 DEF WordInv, kernelVars
      <3> QED BY <3>4, <3>6
    <2>4. CASE cmd = "EXIT"
      <3>1. hw' = "reset" /\ dpc' = "flags" /\ UNCHANGED ans /\ Exiting
        BY <1>3, <2>1, <2>4 DEF DExec, Serve, HoldInReset, MailCmds, SyncCmds, Exiting
      <3>2. hw = "done" /\ kpc = "init"
        BY <1>0, <3>1, SlotFacts DEF CallInv
      <3>3. ~ Serving'
        BY <3>1 DEF Serving
      <3>4. CallInv'
        BY <1>0, <2>1, <3>1, <3>2, <3>3 DEF CallInv, kernelVars
      <3>5. (Given' <=> Given) /\ (NotGiven' <=> NotGiven)
        BY <2>1 DEF Given, NotGiven, kernelVars
      <3>6. WordInv'
        BY <1>0, <3>1, <3>2, <3>5 DEF WordInv, kernelVars
      <3> QED BY <3>4, <3>6
    <2> QED BY <1>3, <2>2, <2>3, <2>4 DEF DExec, Serve
  <1>4. CASE DCall
    <2>1. /\ UNCHANGED <<hw, sw2hw, hw2sw, cmd>> /\ dpc = "call" /\ Serving
          /\ cmd = Cmd /\ kpc \in {"initialising", "getting", "trying"} /\ ans = "none"
      BY <1>0, <1>4, SlotFacts DEF DCall, CallInv
    <2>2. Cmd' = Cmd /\ cmd \in {"GET_INIT_DATA", "MBOX_GET", "MBOX_TRYPUT"}
      BY <2>1 DEF Cmd, kernelVars
    <2>3. \/ cmd = "MBOX_TRYPUT" /\ TryPut /\ dpc' = "answer"
          \/ cmd \in BlockCmds /\ dpc' = "syscall" /\ UNCHANGED <<outbox, ans>>
      BY <1>4, <2>2 DEF DCall, NoWait, TryPut, Put, TryGet, SemPost, MutexUnlock, MutexTryLock,
         CondSignal, CondBroadcast, PutLock
    <2>4. CallInv'
      BY <1>0, <2>1, <2>2, <2>3 DEF CallInv, kernelVars
    <2>5. CASE cmd \in BlockCmds /\ dpc' = "syscall" /\ UNCHANGED <<outbox, ans>>
      BY <2>1, <2>5, DelegateKeeps DEF Serving
    <2>6. CASE cmd = "MBOX_TRYPUT" /\ TryPut /\ dpc' = "answer"
      <3>1. kpc = "trying"
        BY <2>1, <2>6 DEF Cmd
      <3>2. NotGiven /\ spc = "handshake" /\ sw2hw = <<>> /\ outbox = 0
        BY <1>0, <2>1, <3>1, SlotFacts DEF WordInv, NotGiven
      <3>3. outbox' = 1 /\ ans' = "ok"
        BY <1>0, <2>6, <3>2 DEF TryPut, Places, IInv, TypeOK
      <3>4. Given'
        BY <3>2, <3>3 DEF Given, kernelVars
      <3>5. WordInv'
        BY <1>0, <2>1, <2>6, <3>1, <3>2, <3>3, <3>4 DEF WordInv, kernelVars
      <3> QED BY <2>4, <3>5
    <2> QED BY <2>3, <2>5, <2>6
  <1>5. CASE DSyscall
    <2>1. /\ UNCHANGED <<hw, sw2hw, hw2sw, cmd, outbox>> /\ dpc = "syscall" /\ Serving /\ cmd = Cmd
          /\ cmd \in BlockCmds /\ kpc \in {"initialising", "getting", "trying"} /\ ans = "none"
          /\ (dpc' = "syscall" /\ ans' = ans) \/ dpc' = "done"
      BY <1>0, <1>5, SlotFacts DEF CallInv, DSyscall, DBlocked, DGetLock, DGet, DSemWait, DLock, DCondRelease,
         DCondReturn, DReturn
    <2>2. Cmd' = Cmd /\ kpc = "getting"
      BY <2>1 DEF Cmd, kernelVars, BlockCmds
    <2>3. CallInv'
      BY <1>0, <2>1, <2>2 DEF CallInv, kernelVars
    <2>4. (Given' <=> Given) /\ (NotGiven' <=> NotGiven)
      BY <2>1 DEF Given, NotGiven, kernelVars
    <2>5. WordInv'
      BY <1>0, <2>1, <2>2, <2>4 DEF WordInv, kernelVars
    <2> QED BY <2>3, <2>5
  <1>6. CASE DGetDone
    <2>1. /\ UNCHANGED <<hw, sw2hw, hw2sw, cmd, outbox, ans>> /\ dpc = "done" /\ dpc' = "answer"
          /\ Serving /\ cmd = Cmd /\ cmd \in BlockCmds
          /\ kpc \in {"initialising", "getting", "trying"}
      BY <1>0, <1>6, SlotFacts DEF CallInv, DGetDone
    <2>2. Cmd' = Cmd /\ kpc = "getting"
      BY <2>1 DEF Cmd, kernelVars, BlockCmds
    <2>3. CallInv'
      BY <1>0, <2>1, <2>2 DEF CallInv, kernelVars
    <2>4. (Given' <=> Given) /\ (NotGiven' <=> NotGiven)
      BY <2>1 DEF Given, NotGiven, kernelVars
    <2>5. WordInv'
      BY <1>0, <2>1, <2>2, <2>4 DEF WordInv, kernelVars
    <2> QED BY <2>3, <2>5
  <1>7. ~ DUnpause /\ ~ DSlip
    BY <1>0, SlotFacts DEF DUnpause, DSlip, CallInv, Cmd
  <1>8. CASE DAnswer
    <2>1. /\ UNCHANGED <<hw, hw2sw, cmd, outbox>> /\ dpc = "answer" /\ dpc' = "top" /\ Serving
          /\ sw2hw' = Append(sw2hw, ans) /\ ans' = "none" /\ sw2hw = <<>> /\ hw2sw = <<>>
          /\ hw = "await" /\ ans # "none"
      BY <1>0, <1>8, SlotFacts DEF DAnswer
    <2>2. sw2hw' = <<ans>> /\ ~ Serving'
      BY <2>1 DEF Serving
    <2>3. CallInv'
      BY <1>0, <2>1, <2>2 DEF CallInv, kernelVars
    <2>4. (Given' <=> Given) /\ (NotGiven' <=> NotGiven)
      BY <2>1 DEF Given, NotGiven, kernelVars
    <2>5. kpc = "trying" => Given /\ ans = "ok"
      BY <1>0, <2>1 DEF WordInv
    <2>6. WordInv'
      BY <1>0, <2>1, <2>2, <2>4, <2>5 DEF WordInv, kernelVars
    <2> QED BY <2>3, <2>6
  <1>9. CASE DFlags \/ DPost
    <2>1. /\ UNCHANGED <<hw, sw2hw, hw2sw, outbox, ans, cmd>> /\ ~ Serving'
          /\ dpc \in {"flags", "post"} /\ dpc' \in {"post", "top"}
      BY <1>9 DEF DFlags, DPost, Serving
    <2> QED BY <2>1, DelegateKeeps
  <1> QED BY <1>1, <1>2, <1>3, <1>4, <1>5, <1>6, <1>7, <1>8, <1>9 DEF Delegate

\* The kernels only try to put.
LEMMA NeverPuts ==
  ASSUME IInv, CallInv PROVE dpc = "call" => cmd # "MBOX_PUT"
  BY SlotFacts DEF CallInv, Cmd

LEMMA OwnerWord ==
  ASSUME KInv, Owner, UNCHANGED kernelVars PROVE CallInv' /\ WordInv'
  <1> USE DEF OGoto, OKeep, Return, slotVars, procVars, osifVars, mailVars, boxVars, syncVars, resVars,
      delegateVars
  <1>0. IInv /\ ServerInv /\ CallInv /\ WordInv
    BY DEF KInv, SInv
  <1>1. dpc = "syscall" => opc # "poke"
    <2> SUFFICES ASSUME dpc = "syscall", opc = "poke" PROVE FALSE
      OBVIOUS
    <2>1. cmd = Cmd /\ cmd \in BlockCmds
      BY <1>0, SlotFacts DEF CallInv
    <2>2. kpc = "getting"
      BY <2>1 DEF Cmd, BlockCmds
    <2>3. spc = "suspending"
      BY <1>0 DEF ServerInv
    <2> QED BY <1>0, <2>2, <2>3 DEF WordInv, NotGiven
  <1>2. Cmd' = Cmd /\ (outbox' = outbox => (Given' <=> Given) /\ (NotGiven' <=> NotGiven))
    BY DEF Cmd, Given, NotGiven, kernelVars
  <1>3. CASE OPoke
    <2>1. /\ UNCHANGED <<hw, sw2hw, hw2sw, outbox, ans, cmd>>
          /\ dpc' = dpc \/ (dpc = "wait" /\ dpc' = "woken")
      <3>1. opc = "poke" /\ UNCHANGED <<hw, sw2hw, hw2sw, outbox, ans, cmd>>
        BY <1>3 DEF OPoke, Break, Kill, NoPoke
      <3>2. dpc # "syscall"
        BY <1>1, <3>1
      <3>3. Break \/ NoPoke => dpc' = dpc
        BY DEF Break, NoPoke
      <3>4. Kill => dpc' = dpc \/ (dpc = "wait" /\ dpc' = "woken")
        <4> SUFFICES ASSUME Kill PROVE dpc' = dpc \/ (dpc = "wait" /\ dpc' = "woken")
          OBVIOUS
        <4>1. ~ WaitsForWord /\ ~ (dpc = "syscall" /\ cmd = "SEM_WAIT") /\ ~ WaitsForPlace
          BY <1>0, <3>2, NeverPuts DEF WaitsForWord, WaitsForPlace
        <4>2. dpc' = CASE dpc = "wait" -> "woken" [] OTHER -> dpc
          BY <4>1 DEF Kill
        <4> QED BY <4>2
      <3>5. Break \/ Kill \/ NoPoke
        BY <1>3 DEF OPoke
      <3> QED BY <3>1, <3>3, <3>4, <3>5
    <2>2. Serving' <=> Serving
      BY <2>1 DEF Serving
    <2>3. CallInv'
      BY <1>0, <1>2, <2>1, <2>2 DEF CallInv, kernelVars
    <2>4. WordInv'
      BY <1>0, <1>2, <2>1 DEF WordInv, kernelVars
    <2> QED BY <2>3, <2>4
  <1>4. CASE OSetFlags \/ OLook \/ OTest \/ OJoin \/ OJoinWait \/ OJoinFree \/ OResumeSet
    <2>1. UNCHANGED <<hw, sw2hw, hw2sw, outbox, ans, cmd, dpc>>
      BY <1>4 DEF OSetFlags, OLook, OTest, OJoin, OJoinWait, OJoinFree, OResumeSet
    <2>2. Serving' <=> Serving
      BY <2>1 DEF Serving
    <2>3. CallInv'
      BY <1>0, <1>2, <2>1, <2>2 DEF CallInv, kernelVars
    <2>4. WordInv'
      BY <1>0, <1>2, <2>1 DEF WordInv, kernelVars
    <2> QED BY <2>3, <2>4
  <1>5. CASE OJoinReset
    <2>1. UNCHANGED <<sw2hw, hw2sw, outbox, ans, cmd, dpc>> /\ opc = "join_reset" /\ hw' = "reset"
      BY <1>5 DEF OJoinReset, HoldInReset
    <2>2. hw = "reset" /\ (Serving' <=> Serving)
      BY <1>0, <2>1, SlotFacts DEF Serving
    <2>3. CallInv'
      BY <1>0, <1>2, <2>1, <2>2 DEF CallInv, kernelVars
    <2>4. WordInv'
      BY <1>0, <1>2, <2>1, <2>2 DEF WordInv, kernelVars
    <2> QED BY <2>3, <2>4
  <1>6. CASE OCreate
    <2>1. /\ opc \in {"create_rt", "create_pulse", "create_start", "create_dt"}
          /\ UNCHANGED <<outbox, ans, cmd, hw2sw>>
      BY <1>6 DEF OCreate
    <2>2. dpc = "none" /\ spc = "booting" /\ NotGiven
      BY <1>0, <2>1 DEF IInv, OwnerInv, ServerInv, WordInv, Given
    <2>3. CASE opc \in {"create_rt", "create_pulse", "create_start"}
      <3>1. hw \in {"reset", "boot"} /\ kpc = "init"
        BY <1>0, <2>3 DEF IInv, TypeOK, RunsInv, RunInv, CallInv
      <3>2. dpc' = dpc /\ (hw' = hw \/ hw' = "boot")
        BY <1>6, <2>3 DEF OCreate, PulseReset
      <3>3. Serving' <=> Serving
        BY <2>1, <3>2 DEF Serving
      <3>4. CallInv'
        BY <1>0, <1>2, <2>1, <2>2, <3>1, <3>2, <3>3 DEF CallInv, kernelVars
      <3>5. WordInv'
        BY <1>0, <1>2, <2>1, <2>2, <3>1, <3>2 DEF WordInv, kernelVars
      <3> QED BY <3>4, <3>5
    <2>4. CASE opc = "create_dt"
      <3>1. UNCHANGED <<hw, sw2hw>> /\ dpc' \in {"none", "start"}
        BY <1>6, <2>2, <2>4 DEF OCreate
      <3>2. ~ Serving' /\ ~ Serving
        BY <2>2, <3>1 DEF Serving
      <3>3. CallInv'
        BY <1>0, <1>2, <2>1, <2>2, <3>1, <3>2 DEF CallInv, kernelVars
      <3>4. WordInv'
        BY <1>0, <1>2, <2>1, <2>2, <3>1 DEF WordInv, kernelVars
      <3> QED BY <3>3, <3>4
    <2> QED BY <2>1, <2>3, <2>4
  <1>7. CASE OResume \/ OResumeStart
    <2>1. /\ UNCHANGED <<outbox, ans, cmd, hw2sw, dpc>> /\ spc = "resuming"
          /\ hw' = hw \/ hw' = "boot"
      BY <1>0, <1>7 DEF OResume, OResumeStart, PulseReset, ServerInv
    <2>2. Serving' <=> Serving
      BY <2>1 DEF Serving
    <2>3. hw \in {"reset", "boot"} /\ kpc = "init"
      BY <1>0, <1>7 DEF CallInv, OResume, OResumeStart, IInv, TypeOK, OwnerInv, RunsInv, BootInv, RunInv
    <2>4. NotGiven
      BY <1>0, <2>1 DEF WordInv, Given
    <2>5. CallInv'
      BY <1>0, <1>2, <2>1, <2>2, <2>3 DEF CallInv, kernelVars
    <2>6. WordInv'
      BY <1>0, <1>2, <2>1, <2>3, <2>4 DEF WordInv, kernelVars
    <2> QED BY <2>5, <2>6
  <1> QED BY <1>3, <1>4, <1>5, <1>6, <1>7 DEF Owner

LEMMA KernelWord ==
  ASSUME KInv, Kernel PROVE CallInv' /\ WordInv'
  <1> USE DEF KStep, KGoes, slotVars, procVars, osifVars, mailVars, boxVars, syncVars, resVars,
      delegateVars, ownerVars
  <1>0. IInv /\ CallInv /\ WordInv
    BY DEF KInv, SInv
  <1>1. hw \in {"reset", "boot", "run", "await", "done"} /\ sw2hw \in Seq(HwWords)
        /\ hw2sw \in Seq(AllCmds)
    BY <1>0 DEF IInv, TypeOK
  <1>2. UNCHANGED <<rc_flag, spc, outbox, ans, cmd, dpc>>
    BY DEF Kernel, KBoot, KInit, KInitDone, KPoll, KGet, KFrame, KShown, KTry, KTried, KExit,
       HwBoot, HwCall, HwAnswer, vars
  <1>3. (Given' <=> Given) /\ (NotGiven' <=> NotGiven) /\ (Serving' <=> Serving)
    BY <1>2 DEF Given, NotGiven, Serving
  <1>4. CASE KBoot
    <2>1. hw = "boot" /\ hw' = "run" /\ hw2sw' = hw2sw /\ hw2sw = <<>> /\ kpc = "init" /\ kpc' = "init"
      BY <1>0, <1>4, SlotFacts DEF KBoot, HwBoot, CallInv
    <2>2. ~ Serving
      BY <1>0, <2>1, SlotFacts
    <2>3. CallInv'
      BY <1>0, <1>2, <1>3, <2>1, <2>2, SlotFacts DEF CallInv, Serving
    <2>4. WordInv'
      BY <1>0, <1>2, <1>3, <2>1 DEF WordInv
    <2> QED BY <2>3, <2>4
  <1>5. ASSUME NEW c \in {"GET_INIT_DATA", "MBOX_GET", "MBOX_TRYPUT", "EXIT"}, HwCall(c)
        PROVE  /\ hw = "run" /\ ~ Serving /\ hw2sw' = <<c>> /\ sw2hw = <<>> /\ sw2hw' = <<>>
               /\ hw' = IF c = "EXIT" THEN "done" ELSE "await"
               /\ dpc \notin {"call", "syscall", "done", "unpause", "answer"} /\ ans = "none"
    <2>1. hw = "run" /\ hw2sw' = Append(hw2sw, c) /\ sw2hw' = sw2hw
          /\ hw' = IF c = "EXIT" THEN "done" ELSE "await"
      BY <1>5 DEF HwCall
    <2>2. ~ Serving /\ sw2hw = <<>> /\ hw2sw = <<>>
      BY <1>0, <2>1, SlotFacts DEF CallInv
    <2>3. dpc \notin {"call", "syscall", "done", "unpause", "answer"}
      BY <1>0, <2>2, SlotFacts
    <2> QED BY <1>0, <2>1, <2>2, <2>3 DEF CallInv
  <1>6. CASE KInit \/ KGet \/ KTry
    <2>1. PICK c \in {"GET_INIT_DATA", "MBOX_GET", "MBOX_TRYPUT"} :
            /\ HwCall(c)
            /\ kpc = CASE c = "GET_INIT_DATA" -> "init" [] c = "MBOX_GET" -> "get" [] OTHER -> "try"
            /\ kpc' = CASE c = "GET_INIT_DATA" -> "initialising" [] c = "MBOX_GET" -> "getting"
                        [] OTHER -> "trying"
      <3>1. CASE KInit
        BY <3>1 DEF KInit
      <3>2. CASE KGet
        BY <3>2 DEF KGet
      <3>3. CASE KTry
        BY <3>3 DEF KTry
      <3> QED BY <1>6, <3>1, <3>2, <3>3
    <2>2. /\ hw = "run" /\ ~ Serving /\ hw2sw' = <<c>> /\ sw2hw' = <<>> /\ hw' = "await"
          /\ dpc \notin {"call", "syscall", "done", "unpause", "answer"} /\ ans = "none"
      BY <1>5, <2>1
    <2>3. Cmd' = c
      BY <2>1 DEF Cmd
    <2>4. CallInv'
      BY <1>0, <1>2, <1>3, <2>1, <2>2, <2>3 DEF CallInv
    <2>5. WordInv'
      BY <1>0, <1>2, <1>3, <2>1, <2>2 DEF WordInv
    <2> QED BY <2>4, <2>5
  <1>7. CASE KExit
    <2>1. kpc = "exit" /\ kpc' = "init" /\ hw' = "done" /\ ~ Serving
          /\ dpc \notin {"call", "syscall", "done", "unpause", "answer"} /\ ans = "none"
      BY <1>5, <1>7 DEF KExit
    <2>2. CallInv'
      BY <1>0, <1>2, <1>3, <2>1 DEF CallInv
    <2>3. WordInv'
      BY <1>0, <1>2, <1>3, <2>1 DEF WordInv
    <2> QED BY <2>2, <2>3
  <1>8. CASE KInitDone \/ KFrame \/ KTried
    <2>1. HwAnswer /\ kpc \in {"initialising", "getting", "trying"}
      BY <1>8 DEF KInitDone, KFrame, KTried
    <2>2. hw = "await" /\ hw' = "run" /\ sw2hw # <<>> /\ hw2sw' = hw2sw /\ sw2hw' = Tail(sw2hw)
      BY <2>1 DEF HwAnswer
    <2>3. ~ Serving /\ hw2sw = <<>>
      BY <1>0, <2>2, SlotFacts
    <2>4. dpc \notin {"call", "syscall", "done", "unpause", "answer"}
      BY <1>0, <2>3, SlotFacts
    <2>5. kpc' \in {"poll", "work", "exit", "try"}
      BY <1>8 DEF KInitDone, KFrame, KTried
    <2>6. CallInv'
      BY <1>0, <1>2, <1>3, <2>2, <2>3, <2>4, <2>5 DEF CallInv
    <2>7. CASE KInitDone \/ KFrame
      <3>1. kpc \in {"initialising", "getting"} /\ kpc' \in {"poll", "work"}
        BY <2>7 DEF KInitDone, KFrame
      <3>2. WordInv'
        BY <1>0, <1>2, <1>3, <2>2, <3>1 DEF WordInv
      <3> QED BY <2>6, <3>2
    <2>8. CASE KTried
      <3>1. kpc = "trying" /\ kpc' = (IF Head(sw2hw) = "ok" THEN "exit" ELSE "try")
        BY <2>8 DEF KTried
      <3>2. Given /\ sw2hw = <<"ok">>
        BY <1>0, <2>2, <2>4, <3>1 DEF WordInv
      <3>3. kpc' = "exit"
        BY <3>1, <3>2
      <3>4. WordInv'
        BY <1>0, <1>2, <1>3, <3>2, <3>3 DEF WordInv
      <3> QED BY <2>6, <3>4
    <2> QED BY <1>8, <2>7, <2>8
  <1>9. CASE KPoll \/ KShown
    <2>1. UNCHANGED <<hw, sw2hw, hw2sw>> /\ kpc \in {"poll", "work"}
          /\ kpc' \in {"poll", "try", "get"} /\ (kpc' = "try" => rc_flag)
      <3>1. CASE KPoll
        BY <3>1 DEF KPoll, vars
      <3>2. CASE KShown
        BY <3>2 DEF KShown, vars
      <3> QED BY <1>9, <3>1, <3>2
    <2>2. hw = "run" /\ ~ Serving
      BY <1>0, <1>1, <2>1, SlotFacts DEF CallInv
    <2>3. CallInv'
      BY <1>0, <1>2, <1>3, <2>1, <2>2 DEF CallInv
    <2>4. NotGiven /\ (kpc' = "try" => spc = "handshake")
      BY <1>0, <2>1 DEF WordInv, NotGiven
    <2>5. WordInv'
      BY <1>0, <1>2, <1>3, <2>1, <2>2, <2>4 DEF WordInv
    <2> QED BY <2>3, <2>5
  <1> QED BY <1>4, <1>6, <1>7, <1>8, <1>9 DEF Kernel

LEMMA ServerWord ==
  ASSUME KInv, Server \/ SRequest PROVE CallInv' /\ WordInv'
  <1> USE DEF SStep, slotVars, procVars, osifVars, mailVars, boxVars, syncVars, resVars,
      delegateVars, ownerVars
  <1>0. IInv /\ ServerInv /\ CallInv /\ WordInv
    BY DEF KInv, SInv
  <1>1. UNCHANGED <<kpc, hw, sw2hw, hw2sw, ans, cmd, dpc>>
    BY DEF Server, SCreate, SReady, SHandshake, SSuspend, SClearFlag, SProgram, SProgrammed, SPollsOn,
       SProgramFails, SResume, SDone, SRequest, Begin, OKeep, Drain, OthersKeep, vars
  <1>2. CallInv'
    <2>1. Cmd' = Cmd /\ (Serving' <=> Serving)
      BY <1>1 DEF Cmd, Serving
    <2> QED BY <1>0, <1>1, <2>1 DEF CallInv
  <1>3. CASE SHandshake
    <2>1. spc = "handshake" /\ spc' = "suspend" /\ outbox > 0 /\ outbox' = outbox - 1
          /\ rc_flag' = rc_flag
      BY <1>3 DEF SHandshake, Drain
    <2>2. Given /\ ~ NotGiven
      BY <1>0, <2>1 DEF WordInv, NotGiven
    <2>3. Given'
      BY <2>1, <2>2 DEF Given
    <2>4. WordInv'
      BY <1>0, <1>1, <2>1, <2>2, <2>3 DEF WordInv
    <2> QED BY <1>2, <2>4
  <1>4. CASE SClearFlag
    <2>1. spc = "suspending" /\ spc' = "program" /\ outbox' = outbox /\ rc_flag' = FALSE /\ opc = "idle"
      BY <1>4 DEF SClearFlag, vars
    <2>2. ~ rt
      BY <1>0, <2>1 DEF ServerInv
    <2>3. hw = "reset" /\ kpc = "init"
      BY <1>0, <2>1, <2>2, SlotFacts DEF CallInv
    <2>4. NotGiven'
      BY <1>0, <2>1 DEF WordInv, Given, NotGiven
    <2>5. WordInv'
      BY <1>0, <1>1, <2>1, <2>3, <2>4 DEF WordInv
    <2> QED BY <1>2, <2>5
  <1>5. CASE SRequest
    <2>1. spc = "idle" /\ spc' = "handshake" /\ outbox' = outbox /\ rc_flag' = TRUE
      BY <1>5 DEF SRequest, vars
    <2>2. NotGiven /\ NotGiven' /\ ~ Given
      BY <1>0, <2>1 DEF WordInv, Given, NotGiven
    <2>3. WordInv'
      BY <1>0, <1>1, <2>1, <2>2 DEF WordInv
    <2> QED BY <1>2, <2>3
  <1>6. CASE SSuspend
    <2>1. spc = "suspend" /\ spc' = "suspending" /\ outbox' = outbox /\ rc_flag' = rc_flag
      BY <1>6 DEF SSuspend, Begin, OKeep
    <2>2. (Given' <=> Given) /\ ~ NotGiven
      BY <2>1 DEF Given, NotGiven
    <2>3. WordInv'
      BY <1>0, <1>1, <2>1, <2>2 DEF WordInv
    <2> QED BY <1>2, <2>3
  <1>7. CASE SCreate \/ SReady \/ SProgram \/ SProgrammed \/ SPollsOn \/ SProgramFails \/ SResume \/ SDone
    <2>1. /\ spc \in {"boot", "booting", "program", "loading", "polling", "resume", "resuming"}
          /\ spc' \in {"booting", "idle", "loading", "polling", "resume", "resuming"}
          /\ outbox' = outbox /\ rc_flag' = rc_flag
      <3>1. CASE SCreate \/ SResume
        BY <3>1 DEF SCreate, SResume, Begin, OKeep
      <3>2. CASE SReady \/ SProgram \/ SProgrammed \/ SPollsOn \/ SProgramFails \/ SDone
        BY <3>2 DEF SReady, SProgram, SProgrammed, SPollsOn, SProgramFails, SDone, vars
      <3> QED BY <1>7, <3>1, <3>2
    <2>2. NotGiven /\ NotGiven' /\ ~ Given
      BY <1>0, <2>1 DEF WordInv, Given, NotGiven
    <2>3. WordInv'
      BY <1>0, <1>1, <2>1, <2>2 DEF WordInv
    <2> QED BY <1>2, <2>3
  <1> QED BY <1>3, <1>4, <1>5, <1>6, <1>7 DEF Server

LEMMA NextWord ==
  ASSUME KInv, SInv', [SwitchNext]_allVars PROVE CallInv' /\ WordInv'
  <1>1. CASE Runtime(Delegate) \/ Runtime(Owner)
    BY <1>1, DelegateWord, OwnerWord DEF Runtime, switchVars, kernelVars
  <1>2. CASE Kernel \/ Server \/ SRequest
    BY <1>2, KernelWord, ServerWord
  <1>3. CASE Camera \/ Capture \/ UNCHANGED allVars
    <2>1. UNCHANGED <<kernelVars, hw, sw2hw, hw2sw, outbox, ans, cmd, dpc>>
      BY <1>3 DEF Camera, CDequeue, CPut, CQueue, CStep, Capture, Arrive, OthersKeep, kernelVars,
         allVars, vars, switchVars, cameraVars, slotVars, procVars, osifVars, mailVars, boxVars, syncVars,
         resVars, delegateVars, ownerVars
    <2>2. /\ Cmd' = Cmd /\ (Serving' <=> Serving)
          /\ (Given' <=> Given) /\ (NotGiven' <=> NotGiven)
      BY <2>1 DEF Cmd, Serving, Given, NotGiven, kernelVars
    <2>3. CallInv'
      BY <2>1, <2>2 DEF KInv, CallInv, kernelVars
    <2>4. WordInv'
      BY <2>1, <2>2 DEF KInv, WordInv, kernelVars
    <2> QED BY <2>3, <2>4
  <1> QED BY <1>1, <1>2, <1>3 DEF SwitchNext

\* The kernel and the server agree about the request, the word and the flag.
THEOREM HandshakeInvariant == SwitchSpec => []KInv
  <1>1. SwitchInit /\ SInv => KInv
    BY DEF SwitchInit, Init, KInv, CallInv, WordInv, Serving, Given, NotGiven
  <1>2. KInv /\ SInv' /\ [SwitchNext]_allVars => KInv'
    BY NextWord DEF KInv
  <1> QED BY <1>1, <1>2, SwitchInvariant, PTL DEF SwitchSpec

\* Each request is answered by one word, and the mailbox is empty again before
\* the kernel is resumed: no word answers a later request, no kernel finds it full.
THEOREM OneWordPerRequest == SwitchSpec => []OneHandshake
  <1>1. KInv => OneHandshake
    <2> SUFFICES ASSUME KInv PROVE OneHandshake
      OBVIOUS
    <2>0. IInv /\ ServerInv /\ CallInv /\ WordInv
      BY DEF KInv, SInv
    <2>1. outbox \in {0, 1}
      BY <2>0 DEF WordInv, Given, NotGiven
    <2>2. spc # "handshake" => outbox = 0
      BY <2>0 DEF WordInv, Given, NotGiven
    <2>3. kpc = "trying" => "fail" \notin {ans} \cup {sw2hw[i] : i \in DOMAIN sw2hw}
      <3> SUFFICES ASSUME kpc = "trying" PROVE "fail" \notin {ans} \cup {sw2hw[i] : i \in DOMAIN sw2hw}
        OBVIOUS
      <3>1. \/ sw2hw = <<>> /\ ans = "none"
            \/ dpc = "answer" /\ ans = "ok"
            \/ sw2hw = <<"ok">> /\ dpc # "answer"
        BY <2>0 DEF WordInv
      <3>2. sw2hw # <<>> => dpc \notin {"done", "answer"}
        BY <2>0, SlotFacts
      <3>3. ans # "fail" /\ (sw2hw = <<>> \/ sw2hw = <<"ok">>)
        BY <2>0, <3>1, <3>2 DEF CallInv
      <3> QED BY <3>3
    <2> QED BY <2>1, <2>2, <2>3 DEF OneHandshake
  <1> QED BY <1>1, HandshakeInvariant, PTL

\* The suspender never interrupts a call of the kernel: it has none open by then.
THEOREM CallsEndBeforeSuspend == SwitchSpec => NoCallInterrupted
  <1>1. KInv /\ [SwitchNext]_allVars => [OPoke => dpc # "syscall"]_allVars
    <2> SUFFICES ASSUME KInv, OPoke, dpc = "syscall" PROVE FALSE
      OBVIOUS
    <2>0. IInv /\ ServerInv /\ CallInv /\ WordInv
      BY DEF KInv, SInv
    <2>1. opc = "poke"
      BY DEF OPoke, Break, Kill, NoPoke
    <2>2. cmd = Cmd /\ cmd \in BlockCmds
      BY <2>0, SlotFacts DEF CallInv
    <2>3. kpc = "getting" /\ spc = "suspending"
      BY <2>0, <2>1, <2>2 DEF Cmd, BlockCmds, ServerInv
    <2> QED BY <2>0, <2>3 DEF WordInv, NotGiven
  <1> QED BY <1>1, HandshakeInvariant, PTL DEF SwitchSpec, NoCallInterrupted

-----------------------------------------------------------------------------
(* The capture buffers *)

N == Len(Buffers)

CameraTypes ==
  /\ cpc \in {"dequeue", "put", "queue"} /\ held \in BufferSet
  /\ queued \in Seq(BufferSet) /\ filled \in Seq(BufferSet)
  /\ frames \in Seq([buf : BufferSet, refills : Nat])
  /\ reading \in Seq([buf : BufferSet, refills : Nat])
  /\ kpc \in {"init", "initialising", "poll", "get", "getting", "work", "try", "trying", "exit"}

\* The buffers in the order in which their frames will be put: the one the thread
\* is about to put, the filled ones, those to fill, and the one about to be queued.
\* The first Full of them hold a frame that was not put yet.
Ahead == IF cpc = "put" THEN 1 ELSE 0
Behind == IF cpc = "queue" THEN 1 ELSE 0
Full == Len(filled) + Ahead
Line == [k \in 1 .. N |->
  IF (k = 1 /\ cpc = "put") \/ (k = N /\ cpc = "queue") THEN held
  ELSE IF k <= Full THEN filled[k - Ahead] ELSE queued[k - Full]]
LineInv ==
  /\ Full + Len(queued) + Behind = N
  /\ \A i, j \in 1 .. N : Line[i] = Line[j] => i = j

\* f is an announced frame with m later ones: the line is as long as a round of
\* the buffers, so f was overwritten in every round since, and once more when its
\* buffer is full.
Stale(f, m) ==
  \E k \in 1 .. N : /\ Line[k] = f.buf
                    /\ f.refills * N = m + (IF k <= Full THEN k ELSE k - N)
StaleInv ==
  /\ \A j \in 1 .. Len(frames) : Stale(frames[j], Len(frames) - j)
  /\ \A j \in 1 .. Len(reading) : Stale(reading[j], Len(frames))

\* An announced frame is a word in the mailbox, or one the delegate took for the
\* kernel; the kernel reads at most one.
InFlight == kpc = "getting" /\ (dpc \in {"done", "answer"} \/ sw2hw # <<>>)
CountInv ==
  /\ Len(frames) = inbox + (IF InFlight THEN 1 ELSE 0)
  /\ Len(reading) = IF kpc = "work" THEN 1 ELSE 0

FramesInv == CameraTypes /\ LineInv /\ StaleInv /\ CountInv

LEMMA BufferCount == N \in Nat /\ N > 1 /\ Buffers \in [1 .. N -> BufferSet]
  BY KernelAssumption DEF N

LEMMA LineTypes ==
  ASSUME CameraTypes, LineInv
  PROVE  /\ Ahead \in {0, 1} /\ Behind \in {0, 1} /\ Ahead + Behind <= 1
         /\ Len(filled) \in Nat /\ Len(queued) \in Nat /\ Full \in 0 .. N /\ Len(filled) = Full - Ahead
         /\ \A i \in 1 .. Len(filled) : filled[i] = Line[Ahead + i]
         /\ \A i \in 1 .. Len(queued) : queued[i] = Line[Full + i]
         /\ cpc = "put" => held = Line[1]
         /\ cpc = "queue" => held = Line[N]
  <1>1. Ahead \in {0, 1} /\ Behind \in {0, 1} /\ Ahead + Behind <= 1
    BY DEF Ahead, Behind
  <1>2. Len(filled) \in Nat /\ Len(queued) \in Nat
    BY DEF CameraTypes
  <1>3. Full \in 0 .. N /\ Len(filled) = Full - Ahead
    BY <1>1, <1>2, BufferCount DEF LineInv, Full
  <1>4. \A i \in 1 .. Len(filled) : filled[i] = Line[Ahead + i]
    <2> SUFFICES ASSUME NEW i \in 1 .. Len(filled) PROVE filled[i] = Line[Ahead + i]
      OBVIOUS
    <2> DEFINE k == Ahead + i
    <2>1. N = Len(filled) + Ahead + Len(queued) + Behind /\ N \in Nat /\ i \in Nat /\ i > 0 /\ i <= Len(filled)
      BY <1>2, BufferCount DEF LineInv, Full
    <2>2. k \in 1 .. N /\ Ahead < k /\ k <= Full /\ k - Ahead = i
      BY <1>1, <1>2, <1>3, <2>1
    <2>3. ~ (k = 1 /\ cpc = "put")
      BY <2>1 DEF Ahead
    <2>4. ~ (k = N /\ cpc = "queue")
      BY <1>1, <1>2, <2>1 DEF Behind
    <2> HIDE DEF k
    <2>5. Line[k] = filled[k - Ahead]
      BY <2>2, <2>3, <2>4 DEF Line
    <2> QED BY <2>2, <2>5 DEF k
  <1>5. \A i \in 1 .. Len(queued) : queued[i] = Line[Full + i]
    <2> SUFFICES ASSUME NEW i \in 1 .. Len(queued) PROVE queued[i] = Line[Full + i]
      OBVIOUS
    <2> DEFINE k == Full + i
    <2>1. N = Full + Len(queued) + Behind /\ N \in Nat /\ i \in Nat /\ i > 0 /\ i <= Len(queued)
      BY <1>2, BufferCount DEF LineInv
    <2>2. k \in 1 .. N /\ Full < k /\ k <= N - Behind /\ k - Full = i
      BY <1>1, <1>2, <1>3, <2>1
    <2>3. ~ (k = 1 /\ cpc = "put")
      BY <1>2, <2>1 DEF Ahead, Full
    <2>4. ~ (k = N /\ cpc = "queue")
      BY <1>1, <1>3, <2>1 DEF Behind
    <2> HIDE DEF k
    <2>5. Line[k] = queued[k - Full]
      <3>1. Full \in Nat /\ k \in Nat /\ ~ (k <= Full)
        BY <1>3, <2>1, <2>2 DEF k
      <3> QED BY <2>2, <2>3, <2>4, <3>1 DEF Line
    <2> QED BY <2>2, <2>5 DEF k
  <1>6. (cpc = "put" => held = Line[1]) /\ (cpc = "queue" => held = Line[N])
    <2>1. 1 \in 1 .. N /\ N \in 1 .. N /\ N # 1
      BY BufferCount
    <2>2. cpc = "put" => held = Line[1]
      BY <2>1 DEF Line
    <2>3. cpc = "queue" => held = Line[N]
      BY <2>1 DEF Line
    <2> QED BY <2>2, <2>3
  <1> QED BY <1>1, <1>2, <1>3, <1>4, <1>5, <1>6

\* The thread takes the first filled buffer and, later, queues it again: the line
\* stays as it is.
LEMMA DequeueLine ==
  ASSUME CameraTypes, LineInv, CDequeue
  PROVE  Line' = Line /\ Full' = Full /\ LineInv'
  <1>1. /\ cpc = "dequeue" /\ cpc' = "put" /\ filled # <<>> /\ queued' = queued
        /\ held' = filled[1] /\ filled' = Tail(filled)
    BY DEF CDequeue, CStep, CameraTypes
  <1>2. /\ Len(filled) \in Nat /\ Len(filled) > 0 /\ Len(filled') = Len(filled) - 1
        /\ \A i \in 1 .. Len(filled) - 1 : filled'[i] = filled[i + 1]
    BY <1>1 DEF CameraTypes
  <1>3. Ahead = 0 /\ Ahead' = 1 /\ Behind = 0 /\ Behind' = 0
    BY <1>1 DEF Ahead, Behind
  <1>4. Full' = Full /\ Full = Len(filled)
    BY <1>2, <1>3 DEF Full
  <1>5. Line' = Line
    <2> DEFINE Place(i) == IF i <= Full THEN filled[i] ELSE queued[i - Full]
               Later(i) == IF i = 1 THEN held' ELSE IF i <= Full' THEN filled'[i - 1] ELSE queued'[i - Full']
    <2>1. Line = [i \in 1 .. N |-> Place(i)]
      BY <1>1, <1>3 DEF Line
    <2>2. Line' = [i \in 1 .. N |-> Later(i)]
      BY <1>1, <1>3 DEF Line, N
    <2>3. ASSUME NEW i \in 1 .. N PROVE Later(i) = Place(i)
      <3>1. i \in Nat /\ i > 0
        BY BufferCount
      <3>2. CASE i = 1
        BY <1>1, <1>2, <1>4, <3>2
      <3>3. CASE i > 1 /\ i <= Full
        <4>1. i - 1 \in 1 .. Len(filled) - 1 /\ (i - 1) + 1 = i
          BY <1>2, <1>4, <3>1, <3>3
        <4>2. filled'[i - 1] = filled[i]
          BY <1>2, <4>1
        <4> QED BY <1>4, <3>3, <4>2
      <3>4. CASE i > Full
        BY <1>1, <1>2, <1>4, <3>1, <3>4
      <3> QED BY <1>2, <1>4, <3>1, <3>2, <3>3, <3>4
    <2> HIDE DEF Place, Later
    <2> QED BY <2>1, <2>2, <2>3
  <1> QED BY <1>1, <1>3, <1>4, <1>5 DEF LineInv, N

LEMMA QueueLine ==
  ASSUME CameraTypes, LineInv, CQueue
  PROVE  Line' = Line /\ Full' = Full /\ LineInv'
  <1>1. /\ cpc = "queue" /\ cpc' = "dequeue" /\ filled' = filled
        /\ queued' = Append(queued, held)
    BY DEF CQueue, CStep, CameraTypes
  <1>2. /\ Len(queued) \in Nat /\ Len(filled) \in Nat /\ Len(queued') = Len(queued) + 1
        /\ \A i \in 1 .. Len(queued) : queued'[i] = queued[i]
        /\ queued'[Len(queued) + 1] = held
    BY <1>1 DEF CameraTypes
  <1>3. Ahead = 0 /\ Ahead' = 0 /\ Behind = 1 /\ Behind' = 0
    BY <1>1 DEF Ahead, Behind
  <1>4. Full' = Full /\ Full = Len(filled)
    BY <1>1, <1>2, <1>3 DEF Full
  <1>5. N = Full + Len(queued) + 1
    BY <1>3 DEF LineInv
  <1>6. Line' = Line
    BY <1>1, <1>2, <1>3, <1>4, <1>5 DEF Line, N
  <1> QED BY <1>1, <1>2, <1>3, <1>4, <1>5, <1>6 DEF LineInv, N

\* The driver fills the first buffer that is not full.
LEMMA CaptureLine ==
  ASSUME CameraTypes, LineInv, Capture
  PROVE  /\ Line' = Line /\ Full' = Full + 1 /\ Full < N /\ LineInv'
         /\ Head(queued) = Line[Full + 1]
  <1>1. /\ cpc' = cpc /\ held' = held /\ queued # <<>>
        /\ queued' = Tail(queued) /\ filled' = Append(filled, queued[1])
    BY DEF Capture, CameraTypes
  <1>2. /\ Len(queued) \in Nat /\ Len(queued) > 0 /\ Len(queued') = Len(queued) - 1
        /\ \A i \in 1 .. Len(queued) - 1 : queued'[i] = queued[i + 1]
        /\ Len(filled) \in Nat /\ Len(filled') = Len(filled) + 1
        /\ \A i \in 1 .. Len(filled) : filled'[i] = filled[i]
        /\ filled'[Len(filled) + 1] = queued[1] /\ Head(queued) = queued[1]
    BY <1>1 DEF CameraTypes
  <1>3. Ahead' = Ahead /\ Behind' = Behind /\ Ahead \in {0, 1} /\ Behind \in {0, 1}
    BY <1>1 DEF Ahead, Behind
  <1>4. Full' = Full + 1 /\ Full = Len(filled) + Ahead
    BY <1>1, <1>2, <1>3 DEF Full
  <1>5. N = Full + Len(queued) + Behind
    BY DEF LineInv
  <1>6. queued[1] = Line[Full + 1]
    BY <1>2, LineTypes
  <1>7. Line' = Line
    <2>1. \A k \in 1 .. N : k <= Full' /\ ~ (k = 1 /\ cpc = "put") =>
            filled'[k - Ahead] = IF k <= Full THEN filled[k - Ahead] ELSE queued[k - Full]
      <3> SUFFICES ASSUME NEW k \in 1 .. N, k <= Full', ~ (k = 1 /\ cpc = "put")
                   PROVE  filled'[k - Ahead] = IF k <= Full THEN filled[k - Ahead] ELSE queued[k - Full]
        OBVIOUS
      <3>1. k \in Nat /\ k - Ahead \in 1 .. Len(filled) + 1
        BY <1>2, <1>3, <1>4, BufferCount DEF Ahead
      <3>2. CASE k <= Full
        <4>1. k - Ahead \in 1 .. Len(filled)
          BY <1>2, <1>3, <1>4, <3>1, <3>2
        <4> QED BY <1>2, <3>2, <4>1
      <3>3. CASE ~ (k <= Full)
        <4>1. k - Ahead = Len(filled) + 1 /\ k - Full = 1
          BY <1>2, <1>3, <1>4, <3>1, <3>3
        <4> QED BY <1>2, <3>3, <4>1
      <3> QED BY <3>2, <3>3
    <2>2. \A k \in 1 .. N : k > Full' /\ ~ (k = N /\ cpc = "queue") =>
            queued'[k - Full'] = queued[k - Full]
      <3> SUFFICES ASSUME NEW k \in 1 .. N, k > Full', ~ (k = N /\ cpc = "queue")
                   PROVE  queued'[k - Full'] = queued[k - Full]
        OBVIOUS
      <3>1. k - Full' \in 1 .. Len(queued) - 1 /\ (k - Full') + 1 = k - Full
        BY <1>2, <1>3, <1>4, <1>5, BufferCount DEF Behind
      <3> QED BY <1>2, <3>1
    <2>3. \A k \in 1 .. N : k > Full' => ~ (k <= Full)
      BY <1>2, <1>3, <1>4, BufferCount
    <2>4. \A k \in 1 .. N : ~ (k <= Full') => k > Full'
      BY <1>2, <1>3, <1>4, BufferCount
    <2>5. N' = N
      BY DEF N
    <2> QED BY <1>1, <1>3, <2>1, <2>2, <2>3, <2>4, <2>5 DEF Line
  <1> QED BY <1>1, <1>2, <1>3, <1>4, <1>5, <1>6, <1>7 DEF LineInv, N

\* The first buffer of the line was put: it is the last one from now on.
LEMMA PutLine ==
  ASSUME CameraTypes, LineInv, CPut
  PROVE  /\ Full > 0 /\ Full' = Full - 1 /\ LineInv'
         /\ Line[1] = held /\ Line'[N] = held
         /\ \A k \in 2 .. N : Line'[k - 1] = Line[k]
  <1>1. cpc = "put" /\ cpc' = "queue" /\ held' = held /\ queued' = queued /\ filled' = filled
    BY DEF CPut, CStep
  <1>2. Len(queued) \in Nat /\ Len(filled) \in Nat
    BY DEF CameraTypes
  <1>3. Ahead = 1 /\ Ahead' = 0 /\ Behind = 0 /\ Behind' = 1
    BY <1>1 DEF Ahead, Behind
  <1>4. Full' = Full - 1 /\ Full = Len(filled) + 1
    BY <1>1, <1>2, <1>3 DEF Full
  <1>5. N = Full + Len(queued)
    BY <1>2, <1>3, <1>4 DEF LineInv
  <1>6. Line[1] = held /\ Line'[N] = held
    <2>1. 1 \in 1 .. N /\ N \in 1 .. N /\ N # 1 /\ N' = N
      BY BufferCount DEF N
    <2>2. Line[1] = held
      BY <1>1, <2>1 DEF Line
    <2>3. Line'[N] = held
      BY <1>1, <2>1 DEF Line
    <2> QED BY <2>2, <2>3
  <1>7. \A k \in 2 .. N : Line'[k - 1] = Line[k]
    BY <1>1, <1>2, <1>3, <1>4, <1>5, BufferCount DEF Line, N
  <1>8. \A i, j \in 1 .. N : Line'[i] = Line'[j] => i = j
    <2>1. \A i \in 1 .. N : Line'[i] = Line[IF i = N THEN 1 ELSE i + 1]
      BY <1>6, <1>7, BufferCount
    <2> QED BY <2>1, BufferCount DEF LineInv
  <1>9. Full' + Len(queued') + Behind' = N
    BY <1>1, <1>2, <1>3, <1>4, <1>5
  <1> QED BY <1>2, <1>4, <1>6, <1>7, <1>8, <1>9 DEF LineInv, N

-----------------------------------------------------------------------------
(* How often a frame was overwritten *)

LEMMA StaleCapture ==
  ASSUME CameraTypes, LineInv, Capture, NEW m \in Nat,
         NEW f \in [buf : BufferSet, refills : Nat], Stale(f, m),
         NEW g, g = IF f.buf = Head(queued) THEN [f EXCEPT !.refills = @ + 1] ELSE f
  PROVE  \E k \in 1 .. N : /\ Line'[k] = g.buf
                           /\ g.refills * N = m + (IF k <= Full' THEN k ELSE k - N)
  <1>1. /\ Line' = Line /\ Full' = Full + 1 /\ Full < N /\ Full \in 0 .. N
        /\ Head(queued) = Line[Full + 1] /\ N \in Nat
    BY CaptureLine, LineTypes, BufferCount
  <1>2. PICK k \in 1 .. N : Line[k] = f.buf /\ f.refills * N = m + (IF k <= Full THEN k ELSE k - N)
    BY DEF Stale
  <1>3. CASE k = Full + 1
    <2>1. g = [f EXCEPT !.refills = @ + 1]
      BY <1>1, <1>2, <1>3
    <2>2. g.buf = f.buf /\ g.refills = f.refills + 1 /\ f.refills \in Nat
      BY <2>1
    <2>3. f.refills * N = m + k - N
      BY <1>1, <1>2, <1>3
    <2>4. (f.refills + 1) * N = f.refills * N + N
      BY <1>1, <2>2
    <2>5. g.refills * N = m + k
      BY <1>1, <2>2, <2>3, <2>4
    <2> QED BY <1>1, <1>2, <1>3, <2>2, <2>5
  <1>4. CASE k # Full + 1
    <2>1. f.buf # Head(queued)
      <3>1. Full + 1 \in 1 .. N
        BY <1>1
      <3>2. Line[k] # Line[Full + 1]
        BY <1>4, <3>1 DEF LineInv
      <3> QED BY <1>1, <1>2, <3>2
    <2>2. k <= Full + 1 <=> k <= Full
      BY <1>1, <1>4
    <2> QED BY <1>1, <1>2, <2>1, <2>2
  <1> QED BY <1>3, <1>4

LEMMA StalePut ==
  ASSUME CameraTypes, LineInv, CPut, NEW m \in Nat, NEW f, Stale(f, m)
  PROVE  \E k \in 1 .. N : /\ Line'[k] = f.buf
                           /\ f.refills * N = m + 1 + (IF k <= Full' THEN k ELSE k - N)
  <1>1. /\ Full' = Full - 1 /\ Full > 0 /\ Full \in 0 .. N /\ N \in Nat /\ N > 1
        /\ Line[1] = held /\ Line'[N] = held
        /\ \A k \in 2 .. N : Line'[k - 1] = Line[k]
    BY PutLine, LineTypes, BufferCount
  <1>2. PICK k \in 1 .. N : Line[k] = f.buf /\ f.refills * N = m + (IF k <= Full THEN k ELSE k - N)
    BY DEF Stale
  <1>3. CASE k = 1
    <2>1. Line'[N] = f.buf /\ N \in 1 .. N
      BY <1>1, <1>2, <1>3
    <2>2. f.refills * N = m + 1 /\ ~ (N <= Full')
      BY <1>1, <1>2, <1>3
    <2>3. m + 1 + (N - N) = m + 1
      BY <1>1
    <2> QED BY <2>1, <2>2, <2>3
  <1>4. CASE k # 1
    <2>1. Line'[k - 1] = f.buf /\ k - 1 \in 1 .. N
      BY <1>1, <1>2, <1>4
    <2>2. (k - 1 <= Full' <=> k <= Full) /\ m + 1 + (k - 1) = m + k /\ m + 1 + (k - 1 - N) = m + (k - N)
      BY <1>1
    <2>3. f.refills * N = m + 1 + (IF k - 1 <= Full' THEN k - 1 ELSE k - 1 - N)
      BY <1>2, <2>2
    <2> QED BY <2>1, <2>3
  <1> QED BY <1>3, <1>4

LEMMA StaleNew ==
  ASSUME CameraTypes, LineInv, CPut
  PROVE  \E k \in 1 .. N : Line'[k] = held /\ 0 * N = 0 + (IF k <= Full' THEN k ELSE k - N)
  <1>1. Full' = Full - 1 /\ Full \in 0 .. N /\ N \in Nat /\ N > 1 /\ Line'[N] = held
    BY PutLine, LineTypes, BufferCount
  <1>2. N \in 1 .. N /\ ~ (N <= Full') /\ 0 * N = 0 + (N - N)
    BY <1>1
  <1> QED BY <1>1, <1>2

-----------------------------------------------------------------------------
(* The words of the mailbox and the announced frames *)

Words == inbox + (IF InFlight THEN 1 ELSE 0)

\* The delegate takes a word only for the kernel that waits for one.
LEMMA DelegateFrames ==
  ASSUME KInv, Delegate, UNCHANGED kpc PROVE Words' = Words
  <1> USE DEF DKeep, DGoto, mailVars, boxVars, syncVars, resVars, osifVars, procVars
  <1>0. IInv /\ CallInv /\ WordInv /\ inbox \in Nat
    BY SlotAssumption DEF KInv, SInv, IInv, TypeOK
  <1>1. CASE DStart \/ DTop \/ DClear \/ DRaise \/ DBlock \/ DTake \/ DWait \/ DWake \/ DInterrupted
             \/ DGot \/ DFlags \/ DPost
    <2>1. /\ UNCHANGED <<inbox, sw2hw>>
          /\ dpc \notin {"done", "answer"} /\ dpc' \notin {"done", "answer"}
      BY <1>1 DEF DStart, DTop, DClear, DRaise, DBlock, DTake, DWait, DWake, DInterrupted, DGot,
         DFlags, DPost
    <2> QED BY <2>1 DEF Words, InFlight
  <1>2. CASE DExec
    <2>1. UNCHANGED <<inbox, sw2hw>> /\ dpc = "exec"
      BY <1>2 DEF DExec
    <2>2. dpc' \in {"done", "answer"} => Serving /\ cmd = "GET_INIT_DATA"
      BY <1>2, <2>1 DEF DExec, Serve, Serving, Unanswered
    <2>3. dpc' \in {"done", "answer"} => kpc = "initialising"
      BY <1>0, <2>2 DEF CallInv, Cmd
    <2> QED BY <2>1, <2>3 DEF Words, InFlight
  <1>3. CASE DCall
    <2>1. dpc = "call" /\ cmd = Cmd /\ kpc \in {"initialising", "getting", "trying"}
          /\ UNCHANGED sw2hw
      BY <1>0, <1>3, SlotFacts DEF DCall, CallInv
    <2>2. cmd \in {"GET_INIT_DATA", "MBOX_GET", "MBOX_TRYPUT"}
      BY <2>1 DEF Cmd
    <2>3. \/ cmd = "MBOX_TRYPUT" /\ UNCHANGED inbox
          \/ dpc' = "syscall" /\ UNCHANGED inbox
      BY <1>3, <2>2 DEF DCall, NoWait, TryPut, Put, TryGet, SemPost, MutexUnlock, MutexTryLock,
         CondSignal, CondBroadcast, PutLock
    <2>4. cmd = "MBOX_TRYPUT" => kpc = "trying"
      BY <2>1 DEF Cmd
    <2> QED BY <2>1, <2>3, <2>4 DEF Words, InFlight
  <1>4. CASE DSyscall
    <2>1. dpc = "syscall" /\ UNCHANGED sw2hw
      BY <1>4 DEF DSyscall, DBlocked, DGetLock, DGet, DSemWait, DLock, DCondRelease, DCondReturn
    <2>2. cmd = Cmd /\ cmd \in BlockCmds /\ sw2hw = <<>>
      BY <1>0, <2>1, SlotFacts DEF CallInv
    <2>3. cmd = "MBOX_GET" /\ kpc = "getting"
      BY <2>2 DEF Cmd, BlockCmds
    <2>4. CASE DGetLock
      BY <2>1, <2>4 DEF DGetLock, Words, InFlight
    <2>5. CASE ~ DGetLock
      <3>1. inbox' = inbox - 1 /\ dpc' = "done"
        BY <1>4, <2>3, <2>5 DEF DSyscall, DGet, DSemWait, DLock, DCondRelease, DCondReturn, DReturn
      <3>2. ~ InFlight /\ InFlight'
        BY <2>1, <2>2, <2>3, <3>1 DEF InFlight
      <3> QED BY <1>0, <3>1, <3>2 DEF Words
    <2> QED BY <2>4, <2>5
  <1>5. CASE DGetDone
    <2>1. UNCHANGED <<inbox, sw2hw>> /\ dpc = "done" /\ dpc' = "answer"
      BY <1>5 DEF DGetDone
    <2> QED BY <2>1 DEF Words, InFlight
  <1>6. ~ DUnpause /\ ~ DSlip
    BY <1>0, SlotFacts DEF DUnpause, DSlip, CallInv, Cmd
  <1>7. CASE DAnswer
    <2>1. UNCHANGED inbox /\ dpc = "answer" /\ sw2hw' = Append(sw2hw, ans)
      BY <1>7 DEF DAnswer
    <2>2. sw2hw' # <<>>
      BY <1>0, <2>1 DEF IInv, TypeOK
    <2> QED BY <2>1, <2>2 DEF Words, InFlight
  <1> QED BY <1>1, <1>2, <1>3, <1>4, <1>5, <1>6, <1>7 DEF Delegate

\* The owner never moves a word, and writes to a kernel only when it has no call.
LEMMA OwnerFrames ==
  ASSUME KInv, Owner, UNCHANGED kpc PROVE Words' = Words
  <1> USE DEF OGoto, OKeep, Return, slotVars, procVars, osifVars, mailVars, boxVars, syncVars, resVars,
      delegateVars
  <1>0. IInv /\ CallInv
    BY DEF KInv, SInv
  <1>1. CASE OSetFlags \/ OLook \/ OTest \/ OJoin \/ OJoinWait \/ OJoinReset \/ OJoinFree \/ OResumeSet
    <2>1. UNCHANGED <<inbox, sw2hw, dpc>>
      BY <1>1 DEF OSetFlags, OLook, OTest, OJoin, OJoinWait, OJoinReset, OJoinFree, OResumeSet
    <2> QED BY <2>1 DEF Words, InFlight
  <1>2. CASE OPoke
    <2>1. UNCHANGED <<inbox, sw2hw>> /\ (dpc' = dpc \/ (dpc \notin {"done", "answer"} /\ dpc' \notin {"done", "answer"}))
      <3>1. UNCHANGED <<inbox, sw2hw>>
        BY <1>2 DEF OPoke
      <3>2. Break \/ NoPoke => dpc' = dpc
        BY DEF Break, NoPoke
      <3>3. Kill => dpc' = dpc \/ (dpc \notin {"done", "answer"} /\ dpc' \notin {"done", "answer"})
        <4> SUFFICES ASSUME Kill PROVE dpc' = dpc \/ (dpc \notin {"done", "answer"} /\ dpc' \notin {"done", "answer"})
          OBVIOUS
        <4>1. CASE dpc \in {"syscall", "call", "wait"}
          BY <4>1 DEF Kill, WaitsForWord, WaitsForPlace
        <4>2. CASE dpc \notin {"syscall", "call", "wait"}
          BY <4>2 DEF Kill, WaitsForWord, WaitsForPlace
        <4> QED BY <4>1, <4>2
      <3> QED BY <1>2, <3>1, <3>2, <3>3 DEF OPoke
    <2> QED BY <2>1 DEF Words, InFlight
  <1>3. CASE OCreate
    <2>1. opc \in {"create_rt", "create_pulse", "create_start", "create_dt"} /\ UNCHANGED inbox
      BY <1>3 DEF OCreate
    <2>2. CASE opc \in {"create_rt", "create_pulse", "create_start"}
      <3>1. kpc = "init"
        BY <1>0, <2>2 DEF IInv, TypeOK, RunsInv, RunInv, CallInv
      <3> QED BY <2>1, <3>1 DEF Words, InFlight
    <2>3. CASE opc = "create_dt"
      <3>1. UNCHANGED sw2hw /\ dpc = "none" /\ dpc' \in {"none", "start"}
        BY <1>0, <1>3, <2>3 DEF OCreate, IInv, OwnerInv
      <3> QED BY <2>1, <3>1 DEF Words, InFlight
    <2> QED BY <2>1, <2>2, <2>3
  <1>4. CASE OResume \/ OResumeStart
    <2>1. UNCHANGED inbox
      BY <1>4 DEF OResume, OResumeStart
    <2>2. kpc = "init"
      BY <1>0, <1>4 DEF CallInv, OResume, OResumeStart, IInv, TypeOK, OwnerInv, RunsInv, BootInv, RunInv
    <2> QED BY <2>1, <2>2 DEF Words, InFlight
  <1> QED BY <1>1, <1>2, <1>3, <1>4 DEF Owner

\* Of the steps of the kernel only that in which it gets an address matters.
LEMMA KernelFrames ==
  ASSUME KInv, Kernel
  PROVE  \/ KFrame /\ InFlight /\ ~ InFlight' /\ inbox' = inbox
         \/ KShown /\ Words' = Words
         \/ /\ Words' = Words /\ UNCHANGED <<reading, cameraVars>> /\ (kpc' = "work" <=> kpc = "work")
            /\ kpc' \in {"init", "initialising", "poll", "get", "getting", "work", "try", "trying", "exit"}
  <1> USE DEF KStep, KGoes, slotVars, procVars, osifVars, mailVars, boxVars, syncVars, resVars,
      delegateVars, ownerVars
  <1>0. IInv /\ CallInv
    BY DEF KInv, SInv
  <1>1. UNCHANGED <<inbox, dpc>>
    BY DEF Kernel, KBoot, KInit, KInitDone, KPoll, KGet, KFrame, KShown, KTry, KTried, KExit,
       HwBoot, HwCall, HwAnswer, vars
  <1>2. CASE KBoot
    <2>1. kpc = "init" /\ kpc' = "init" /\ UNCHANGED <<reading, cameraVars>>
      BY <1>0, <1>2 DEF KBoot, HwBoot, CallInv
    <2> QED BY <1>1, <2>1 DEF Words, InFlight
  <1>3. CASE KInit \/ KInitDone \/ KPoll \/ KTry \/ KTried \/ KExit
    <2>1. /\ kpc \notin {"getting", "work"} /\ UNCHANGED <<reading, cameraVars>>
          /\ kpc' \in {"init", "initialising", "poll", "get", "try", "trying", "exit"}
      BY <1>3 DEF KInit, KInitDone, KPoll, KTry, KTried, KExit
    <2> QED BY <1>1, <2>1 DEF Words, InFlight
  <1>4. CASE KGet
    <2>1. kpc = "get" /\ kpc' = "getting" /\ UNCHANGED <<reading, cameraVars>> /\ hw = "run" /\ sw2hw' = sw2hw
      BY <1>4 DEF KGet, HwCall
    <2>2. sw2hw = <<>> /\ ~ Serving
      BY <1>0, <2>1, SlotFacts
    <2>3. dpc \notin {"done", "answer"}
      BY <1>0, <2>2, SlotFacts
    <2>4. ~ InFlight /\ ~ InFlight'
      BY <1>1, <2>1, <2>2, <2>3 DEF InFlight
    <2> QED BY <1>1, <2>1, <2>4 DEF Words
  <1>5. CASE KFrame
    <2>1. kpc = "getting" /\ kpc' = "work" /\ sw2hw # <<>>
      BY <1>5 DEF KFrame, HwAnswer
    <2> QED BY <1>1, <1>5, <2>1 DEF InFlight
  <1>6. CASE KShown
    <2>1. kpc = "work" /\ kpc' = "poll"
      BY <1>6 DEF KShown
    <2> QED BY <1>1, <1>6, <2>1 DEF Words, InFlight
  <1> QED BY <1>2, <1>3, <1>4, <1>5, <1>6 DEF Kernel

-----------------------------------------------------------------------------
(* Steps of the camera and of the kernel *)

Frame == [buf : BufferSet, refills : Nat]

LEMMA FramesKept ==
  ASSUME FramesInv, UNCHANGED <<reading, cameraVars>>, Words' = Words,
         kpc' = "work" <=> kpc = "work",
         kpc' \in {"init", "initialising", "poll", "get", "getting", "work", "try", "trying", "exit"}
  PROVE  FramesInv'
  <1> USE DEF FramesInv, cameraVars
  <1>1. CameraTypes'
    BY DEF CameraTypes
  <1>2. Line' = Line /\ Full' = Full /\ Behind' = Behind
    BY DEF Line, Full, Ahead, Behind, N
  <1>3. LineInv'
    BY <1>2 DEF LineInv, N
  <1>4. StaleInv'
    BY <1>2 DEF StaleInv, Stale, N
  <1>5. CountInv'
    BY DEF CountInv, Words
  <1> QED BY <1>1, <1>3, <1>4, <1>5

LEMMA TakeAndQueueFrames ==
  ASSUME FramesInv, CDequeue \/ CQueue PROVE FramesInv'
  <1> USE DEF FramesInv
  <1>1. UNCHANGED <<vars, switchVars, frames>>
    BY DEF CDequeue, CQueue, CStep
  <1>2. CameraTypes'
    <2>1. CASE CDequeue
      <3>1. Head(filled) \in BufferSet /\ Tail(filled) \in Seq(BufferSet)
        BY <2>1, HeadTailProperties DEF CDequeue, CameraTypes
      <3> QED BY <2>1, <3>1 DEF CDequeue, CStep, CameraTypes, switchVars
    <2>2. CASE CQueue
      BY <2>2 DEF CQueue, CStep, CameraTypes, switchVars
    <2> QED BY <2>1, <2>2
  <1>3. Line' = Line /\ Full' = Full /\ LineInv'
    BY DequeueLine, QueueLine
  <1>4. StaleInv'
    BY <1>1, <1>3 DEF StaleInv, Stale, N, switchVars
  <1>5. CountInv'
    BY <1>1 DEF CountInv, InFlight, switchVars, vars, mailVars, resVars, osifVars, delegateVars
  <1> QED BY <1>2, <1>3, <1>4, <1>5

LEMMA PutFrames ==
  ASSUME FramesInv, inbox \in Nat, CPut PROVE FramesInv'
  <1> USE DEF FramesInv
  <1> DEFINE new == [buf |-> held, refills |-> 0]
  <1>1. /\ UNCHANGED <<reading, kpc, dpc, sw2hw, held, queued, filled>> /\ inbox' = inbox + 1
        /\ frames' = Append(frames, new) /\ cpc' = "queue" /\ cpc = "put"
    BY DEF CPut, CStep, Arrive, OthersKeep, switchVars, osifVars, delegateVars
  <1>2. /\ frames \in Seq(Frame) /\ new \in Frame /\ Len(reading) \in Nat /\ reading \in Seq(Frame)
        /\ Len(frames) \in Nat
    BY DEF CameraTypes, Frame
  <1>3. /\ frames' \in Seq(Frame) /\ Len(frames') = Len(frames) + 1
        /\ \A j \in 1 .. Len(frames) : frames'[j] = frames[j]
        /\ frames'[Len(frames) + 1] = new
    <2> HIDE DEF new
    <2> QED BY <1>1, <1>2
  <1>4. CameraTypes'
    BY <1>1, <1>3 DEF CameraTypes, Frame
  <1>5. LineInv'
    BY PutLine
  <1>6. \A j \in 1 .. Len(frames') :
          \E k \in 1 .. N : /\ Line'[k] = frames'[j].buf
                            /\ frames'[j].refills * N = Len(frames') - j + (IF k <= Full' THEN k ELSE k - N)
    <2> SUFFICES ASSUME NEW j \in 1 .. Len(frames')
                 PROVE  \E k \in 1 .. N :
                          /\ Line'[k] = frames'[j].buf
                          /\ frames'[j].refills * N = Len(frames') - j + (IF k <= Full' THEN k ELSE k - N)
      OBVIOUS
    <2>1. CASE j = Len(frames')
      <3>1. frames'[j] = new /\ Len(frames') - j = 0 /\ new.buf = held /\ new.refills = 0
        BY <1>2, <1>3, <2>1
      <3> HIDE DEF new
      <3> QED BY <3>1, StaleNew
    <2>2. CASE j # Len(frames')
      <3> DEFINE m == Len(frames) - j
      <3>1. j \in 1 .. Len(frames) /\ frames'[j] = frames[j] /\ m \in Nat /\ Len(frames') - j = m + 1
        BY <1>2, <1>3, <2>2
      <3>2. Stale(frames[j], m)
        BY <3>1 DEF StaleInv
      <3> HIDE DEF m
      <3> QED BY <3>1, <3>2, StalePut
    <2> QED BY <2>1, <2>2
  <1>7. \A j \in 1 .. Len(reading) :
          \E k \in 1 .. N : /\ Line'[k] = reading[j].buf
                            /\ reading[j].refills * N = Len(frames') + (IF k <= Full' THEN k ELSE k - N)
    <2> SUFFICES ASSUME NEW j \in 1 .. Len(reading)
                 PROVE  \E k \in 1 .. N :
                          /\ Line'[k] = reading[j].buf
                          /\ reading[j].refills * N = Len(frames') + (IF k <= Full' THEN k ELSE k - N)
      OBVIOUS
    <2>1. Stale(reading[j], Len(frames))
      BY DEF StaleInv
    <2> QED BY <1>2, <1>3, <2>1, StalePut
  <1>8. StaleInv'
    <2>1. N' = N /\ reading' = reading
      BY <1>1 DEF N
    <2> QED BY <1>6, <1>7, <2>1 DEF StaleInv, Stale
  <1>9. CountInv'
    BY <1>1, <1>2, <1>3 DEF CountInv, InFlight
  <1> QED BY <1>4, <1>5, <1>8, <1>9

\* The driver: Overwrite counts the frames in the buffer it fills.
LEMMA OverwriteFrames ==
  ASSUME NEW seq \in Seq(Frame), NEW b
  PROVE  /\ Overwrite(seq, b) \in Seq(Frame) /\ Len(Overwrite(seq, b)) = Len(seq)
         /\ \A j \in 1 .. Len(seq) :
              Overwrite(seq, b)[j] = IF seq[j].buf = b THEN [seq[j] EXCEPT !.refills = @ + 1] ELSE seq[j]
  <1>1. DOMAIN seq = 1 .. Len(seq) /\ Len(seq) \in Nat /\ \A j \in 1 .. Len(seq) : seq[j] \in Frame
    OBVIOUS
  <1> DEFINE next(j) == IF seq[j].buf = b THEN [seq[j] EXCEPT !.refills = @ + 1] ELSE seq[j]
  <1>2. \A j \in 1 .. Len(seq) : next(j) \in Frame
    BY <1>1 DEF Frame
  <1>3. Overwrite(seq, b) = [j \in 1 .. Len(seq) |-> next(j)]
    BY <1>1 DEF Overwrite
  <1> HIDE DEF next
  <1>4. [j \in 1 .. Len(seq) |-> next(j)] \in Seq(Frame) /\ Len([j \in 1 .. Len(seq) |-> next(j)]) = Len(seq)
    BY <1>1, <1>2
  <1>5. \A j \in 1 .. Len(seq) : Overwrite(seq, b)[j] = next(j)
    BY <1>3
  <1> QED BY <1>3, <1>4, <1>5 DEF next

LEMMA CaptureFrames ==
  ASSUME FramesInv, Capture PROVE FramesInv'
  <1> USE DEF FramesInv
  <1> DEFINE b == Head(queued)
  <1>1. /\ UNCHANGED <<kpc, dpc, sw2hw, inbox, cpc, held>> /\ queued # <<>>
        /\ queued' = Tail(queued) /\ filled' = Append(filled, b)
        /\ frames' = Overwrite(frames, b) /\ reading' = Overwrite(reading, b)
    BY DEF Capture, vars, osifVars, delegateVars, mailVars, resVars
  <1>2. frames \in Seq(Frame) /\ reading \in Seq(Frame) /\ b \in BufferSet
    BY <1>1 DEF CameraTypes, Frame
  <1> HIDE DEF b
  <1>3. /\ frames' \in Seq(Frame) /\ Len(frames') = Len(frames) /\ Len(frames) \in Nat
        /\ reading' \in Seq(Frame) /\ Len(reading') = Len(reading) /\ Len(reading) \in Nat
        /\ \A j \in 1 .. Len(frames) : frames'[j] =
             IF frames[j].buf = b THEN [frames[j] EXCEPT !.refills = @ + 1] ELSE frames[j]
        /\ \A j \in 1 .. Len(reading) : reading'[j] =
             IF reading[j].buf = b THEN [reading[j] EXCEPT !.refills = @ + 1] ELSE reading[j]
    <2>1. /\ frames' \in Seq(Frame) /\ Len(frames') = Len(frames)
          /\ \A j \in 1 .. Len(frames) : frames'[j] =
               IF frames[j].buf = b THEN [frames[j] EXCEPT !.refills = @ + 1] ELSE frames[j]
      <3>1. /\ Overwrite(frames, b) \in Seq(Frame) /\ Len(Overwrite(frames, b)) = Len(frames)
            /\ \A j \in 1 .. Len(frames) : Overwrite(frames, b)[j] =
                 IF frames[j].buf = b THEN [frames[j] EXCEPT !.refills = @ + 1] ELSE frames[j]
        BY <1>2, OverwriteFrames
      <3> QED BY <1>1, <3>1
    <2>2. /\ reading' \in Seq(Frame) /\ Len(reading') = Len(reading)
          /\ \A j \in 1 .. Len(reading) : reading'[j] =
               IF reading[j].buf = b THEN [reading[j] EXCEPT !.refills = @ + 1] ELSE reading[j]
      <3>1. /\ Overwrite(reading, b) \in Seq(Frame) /\ Len(Overwrite(reading, b)) = Len(reading)
            /\ \A j \in 1 .. Len(reading) : Overwrite(reading, b)[j] =
                 IF reading[j].buf = b THEN [reading[j] EXCEPT !.refills = @ + 1] ELSE reading[j]
        BY <1>2, OverwriteFrames
      <3> QED BY <1>1, <3>1
    <2>3. Len(frames) \in Nat /\ Len(reading) \in Nat
      BY <1>2
    <2> QED BY <2>1, <2>2, <2>3
  <1>4. CameraTypes'
    <2>1. queued' \in Seq(BufferSet) /\ filled' \in Seq(BufferSet)
      BY <1>1, <1>2, HeadTailProperties DEF CameraTypes
    <2> QED BY <1>1, <1>3, <2>1 DEF CameraTypes, Frame
  <1>5. LineInv'
    BY CaptureLine
  <1>6. \A j \in 1 .. Len(frames) :
          \E k \in 1 .. N : /\ Line'[k] = frames'[j].buf
                            /\ frames'[j].refills * N = Len(frames) - j + (IF k <= Full' THEN k ELSE k - N)
    <2> SUFFICES ASSUME NEW j \in 1 .. Len(frames)
                 PROVE  \E k \in 1 .. N :
                          /\ Line'[k] = frames'[j].buf
                          /\ frames'[j].refills * N = Len(frames) - j + (IF k <= Full' THEN k ELSE k - N)
      OBVIOUS
    <2> DEFINE m == Len(frames) - j
    <2>1. m \in Nat /\ frames[j] \in Frame
      BY <1>2, <1>3
    <2>2. Stale(frames[j], m)
      BY DEF StaleInv
    <2>3. frames'[j] = IF frames[j].buf = Head(queued) THEN [frames[j] EXCEPT !.refills = @ + 1] ELSE frames[j]
      BY <1>3 DEF b
    <2> HIDE DEF m
    <2>4. \E k \in 1 .. N : /\ Line'[k] = frames'[j].buf
                            /\ frames'[j].refills * N = m + (IF k <= Full' THEN k ELSE k - N)
      BY <2>1, <2>2, <2>3, StaleCapture DEF Frame
    <2> QED BY <2>4 DEF m
  <1>7. \A j \in 1 .. Len(reading) :
          \E k \in 1 .. N : /\ Line'[k] = reading'[j].buf
                            /\ reading'[j].refills * N = Len(frames) + (IF k <= Full' THEN k ELSE k - N)
    <2> SUFFICES ASSUME NEW j \in 1 .. Len(reading)
                 PROVE  \E k \in 1 .. N :
                          /\ Line'[k] = reading'[j].buf
                          /\ reading'[j].refills * N = Len(frames) + (IF k <= Full' THEN k ELSE k - N)
      OBVIOUS
    <2>1. Len(frames) \in Nat /\ reading[j] \in Frame
      BY <1>2, <1>3
    <2>2. Stale(reading[j], Len(frames))
      BY DEF StaleInv
    <2>3. reading'[j] = IF reading[j].buf = Head(queued) THEN [reading[j] EXCEPT !.refills = @ + 1] ELSE reading[j]
      BY <1>3 DEF b
    <2> QED BY <2>1, <2>2, <2>3, StaleCapture DEF Frame
  <1>8. StaleInv'
    <2>1. N' = N
      BY DEF N
    <2> QED BY <1>3, <1>6, <1>7, <2>1 DEF StaleInv, Stale
  <1>9. CountInv'
    BY <1>1, <1>3 DEF CountInv, InFlight
  <1> QED BY <1>4, <1>5, <1>8, <1>9

\* The kernel gets the address of a frame ...
LEMMA GetFrames ==
  ASSUME FramesInv, inbox \in Nat, KFrame, InFlight, ~ InFlight', inbox' = inbox PROVE FramesInv'
  <1> USE DEF FramesInv
  <1>1. /\ UNCHANGED <<cpc, held, queued, filled>> /\ kpc = "getting" /\ kpc' = "work"
        /\ reading' = <<Head(frames)>> /\ frames' = Tail(frames)
    BY DEF KFrame, KGoes
  <1>2. /\ frames \in Seq(Frame) /\ Len(frames) \in Nat /\ Len(frames) = inbox + 1 /\ frames # <<>>
    BY DEF CountInv, CameraTypes, Frame
  <1>3. /\ frames' \in Seq(Frame) /\ Len(frames') = Len(frames) - 1
        /\ \A j \in 1 .. Len(frames) - 1 : frames'[j] = frames[j + 1]
        /\ reading' \in Seq(Frame) /\ Len(reading') = 1 /\ reading'[1] = frames[1]
    BY <1>1, <1>2, HeadTailProperties
  <1>4. CameraTypes'
    BY <1>1, <1>3 DEF CameraTypes, Frame
  <1>5. Line' = Line /\ Full' = Full /\ Behind' = Behind /\ N' = N
    BY <1>1 DEF Line, Full, Ahead, Behind, N
  <1>6. LineInv'
    BY <1>1, <1>5 DEF LineInv
  <1>7. StaleInv'
    <2>1. \A j \in 1 .. Len(frames') : Stale(frames'[j], Len(frames') - j)
      <3> SUFFICES ASSUME NEW j \in 1 .. Len(frames') PROVE Stale(frames'[j], Len(frames') - j)
        OBVIOUS
      <3>1. j + 1 \in 1 .. Len(frames) /\ frames'[j] = frames[j + 1]
            /\ Len(frames') - j = Len(frames) - (j + 1)
        BY <1>2, <1>3
      <3>2. Stale(frames[j + 1], Len(frames) - (j + 1))
        BY <3>1 DEF StaleInv
      <3> QED BY <3>1, <3>2
    <2>2. \A j \in 1 .. Len(reading') : Stale(reading'[j], Len(frames'))
      BY <1>2, <1>3 DEF StaleInv
    <2> QED BY <1>5, <2>1, <2>2 DEF StaleInv, Stale
  <1>8. CountInv'
    BY <1>1, <1>2, <1>3 DEF CountInv
  <1> QED BY <1>4, <1>6, <1>7, <1>8

\* ... and is done with it.
LEMMA ShownFrames ==
  ASSUME FramesInv, KShown, Words' = Words PROVE FramesInv'
  <1> USE DEF FramesInv
  <1>1. UNCHANGED <<cpc, held, queued, filled, frames>> /\ kpc' = "poll" /\ reading' = <<>>
    BY DEF KShown, KGoes, cameraVars
  <1>2. CameraTypes'
    BY <1>1 DEF CameraTypes
  <1>3. Line' = Line /\ Full' = Full /\ Behind' = Behind /\ N' = N
    BY <1>1 DEF Line, Full, Ahead, Behind, N
  <1>4. LineInv'
    BY <1>1, <1>3 DEF LineInv
  <1>5. StaleInv'
    BY <1>1, <1>3 DEF StaleInv, Stale
  <1>6. CountInv'
    BY <1>1 DEF CountInv, Words
  <1> QED BY <1>2, <1>4, <1>5, <1>6

LEMMA InitFrames == SwitchInit => FramesInv
  <1> SUFFICES ASSUME SwitchInit PROVE FramesInv
    OBVIOUS
  <1>1. /\ cpc = "dequeue" /\ held = Buffers[1] /\ queued = Buffers /\ filled = <<>>
        /\ frames = <<>> /\ reading = <<>> /\ kpc = "init" /\ inbox = 0
    BY DEF SwitchInit, CameraInit, Init
  <1>2. Buffers \in Seq(BufferSet) /\ Buffers[1] \in BufferSet /\ Len(Buffers) = N
        /\ DOMAIN Buffers = 1 .. N /\ N \in Nat /\ N > 1
    BY KernelAssumption, BufferCount DEF BufferSet, N
  <1>3. CameraTypes
    BY <1>1, <1>2 DEF CameraTypes
  <1>4. Ahead = 0 /\ Behind = 0 /\ Full = 0
    BY <1>1 DEF Ahead, Behind, Full
  <1>5. \A k \in 1 .. N : Line[k] = Buffers[k]
    BY <1>1, <1>2, <1>4 DEF Line
  <1>6. LineInv
    BY <1>1, <1>2, <1>4, <1>5, KernelAssumption DEF LineInv
  <1>7. StaleInv /\ CountInv
    BY <1>1 DEF StaleInv, CountInv, InFlight
  <1> QED BY <1>3, <1>6, <1>7 DEF FramesInv

LEMMA NextFrames ==
  ASSUME KInv, FramesInv, [SwitchNext]_allVars PROVE FramesInv'
  <1>0. inbox \in Nat /\ kpc \in {"init", "initialising", "poll", "get", "getting", "work", "try", "trying", "exit"}
    BY SlotAssumption DEF KInv, SInv, IInv, TypeOK, FramesInv, CameraTypes
  <1>1. CASE Runtime(Delegate) \/ Runtime(Owner)
    <2>1. UNCHANGED <<reading, kpc, cameraVars>>
      BY <1>1 DEF Runtime, switchVars
    <2>2. Words' = Words
      BY <1>1, <2>1, DelegateFrames, OwnerFrames DEF Runtime
    <2> QED BY <1>0, <2>1, <2>2, FramesKept
  <1>2. CASE Kernel
    BY <1>0, <1>2, KernelFrames, GetFrames, ShownFrames, FramesKept
  <1>3. CASE Server \/ SRequest \/ UNCHANGED allVars
    <2>1. UNCHANGED <<reading, kpc, cameraVars, inbox, dpc, sw2hw>>
      BY <1>3 DEF Server, SCreate, SReady, SHandshake, SSuspend, SClearFlag, SProgram, SProgrammed, SPollsOn,
         SProgramFails, SResume, SDone, SRequest, SStep, Begin, OKeep, Drain, OthersKeep, allVars, vars,
         switchVars, mailVars, resVars, osifVars, delegateVars
    <2>2. Words' = Words
      BY <2>1 DEF Words, InFlight
    <2> QED BY <1>0, <2>1, <2>2, FramesKept
  <1>4. CASE Camera \/ Capture
    BY <1>0, <1>4, TakeAndQueueFrames, PutFrames, CaptureFrames DEF Camera
  <1> QED BY <1>1, <1>2, <1>3, <1>4 DEF SwitchNext

\* The buffers go round, and every announced frame knows how often its buffer did.
THEOREM FramesGoRound == SwitchSpec => []FramesInv
  <1>1. KInv /\ FramesInv /\ [SwitchNext]_allVars => FramesInv'
    BY NextFrames
  <1> QED BY <1>1, InitFrames, HandshakeInvariant, PTL DEF SwitchSpec

\* A quotient is not below r when N times r is not above the dividend.
LEMMA Rounds ==
  ASSUME NEW r \in Nat, NEW d \in Nat, r * N <= d + N
  PROVE  r <= 1 + d \div N
  <1>1. N \in Nat /\ N > 0
    BY BufferCount
  <1> HIDE DEF N
  <1>2. PICK q \in Nat : q = d \div N /\ d < (q + 1) * N
    <2>1. PICK q \in Nat : q = d \div N
      BY <1>1
    <2>2. d < N * q + N
      BY <1>1, <2>1
    <2>3. (q + 1) * N = N * q + N
      BY <1>1
    <2> QED BY <2>1, <2>2, <2>3
  <1>3. r * N < (q + 2) * N
    <2>1. (q + 2) * N = (q + 1) * N + N
      BY <1>1
    <2> QED BY <1>1, <1>2, <2>1
  <1>4. r < q + 2
    <2> SUFFICES ASSUME r >= q + 2 PROVE FALSE
      OBVIOUS
    <2>1. PICK e \in Nat : r = q + 2 + e
      <3>1. r - (q + 2) \in Nat /\ r = q + 2 + (r - (q + 2))
        OBVIOUS
      <3> QED BY <3>1
    <2>2. r * N = (q + 2) * N + e * N /\ e * N \in Nat
      BY <1>1, <2>1
    <2>3. r * N \in Nat /\ (q + 2) * N \in Nat
      BY <1>1
    <2> QED BY <1>3, <2>2, <2>3
  <1> QED BY <1>2, <1>4

\* How stale a frame can get is decided by the number of buffers and the places in
\* the mailbox alone, however slow the kernel is.
THEOREM StalenessIsBounded == SwitchSpec => []OverwrittenAtMost
  <1>1. KInv /\ FramesInv => OverwrittenAtMost
    <2> SUFFICES ASSUME KInv, FramesInv PROVE OverwrittenAtMost
      OBVIOUS
    <2>0. InSize \in Nat /\ inbox \in 0 .. InSize /\ N \in Nat /\ N > 1
      BY SlotAssumption, BufferCount DEF KInv, SInv, IInv, TypeOK
    <2>1. frames \in Seq(Frame) /\ reading \in Seq(Frame) /\ Len(frames) \in Nat /\ Len(reading) \in Nat
      BY DEF FramesInv, CameraTypes, Frame
    <2>2. Full \in 0 .. N
      BY LineTypes DEF FramesInv
    <2>3. ASSUME NEW f \in Frame, NEW m \in 0 .. InSize, Stale(f, m)
          PROVE  f.refills <= 1 + InSize \div Len(Buffers)
      <3>1. PICK k \in 1 .. N : f.refills * N = m + (IF k <= Full THEN k ELSE k - N)
        BY <2>3 DEF Stale
      <3>2. f.refills \in Nat /\ f.refills * N <= InSize + N
        BY <2>0, <3>1 DEF Frame
      <3> QED BY <2>0, <3>2, Rounds DEF N
    <2>4. \A j \in 1 .. Len(frames) : frames[j].refills <= 1 + InSize \div Len(Buffers)
      <3> SUFFICES ASSUME NEW j \in 1 .. Len(frames)
                   PROVE  frames[j].refills <= 1 + InSize \div Len(Buffers)
        OBVIOUS
      <3>1. Len(frames) - j \in 0 .. InSize
        BY <2>0, <2>1 DEF FramesInv, CountInv
      <3>2. frames[j] \in Frame /\ Stale(frames[j], Len(frames) - j)
        BY <2>1 DEF FramesInv, StaleInv
      <3> QED BY <2>3, <3>1, <3>2
    <2>5. \A j \in 1 .. Len(reading) : reading[j].refills <= 1 + InSize \div Len(Buffers)
      <3> SUFFICES ASSUME NEW j \in 1 .. Len(reading)
                   PROVE  reading[j].refills <= 1 + InSize \div Len(Buffers)
        OBVIOUS
      <3>1. ~ InFlight /\ Len(frames) \in 0 .. InSize
        BY <2>0, <2>1 DEF FramesInv, CountInv, InFlight
      <3>2. reading[j] \in Frame /\ Stale(reading[j], Len(frames))
        BY <2>1 DEF FramesInv, StaleInv
      <3> QED BY <2>3, <3>1, <3>2
    <2>6. /\ DOMAIN (reading \o frames) = 1 .. Len(reading) + Len(frames)
          /\ \A i \in 1 .. Len(reading) + Len(frames) :
               (reading \o frames)[i] = IF i <= Len(reading) THEN reading[i] ELSE frames[i - Len(reading)]
      BY <2>1
    <2>7. ASSUME NEW i \in 1 .. Len(reading) + Len(frames)
          PROVE  (reading \o frames)[i].refills <= 1 + InSize \div Len(Buffers)
      <3>1. CASE i <= Len(reading)
        BY <2>1, <2>5, <2>6, <3>1
      <3>2. CASE ~ (i <= Len(reading))
        <4>1. i - Len(reading) \in 1 .. Len(frames)
          BY <2>1, <3>2
        <4> QED BY <2>4, <2>6, <3>2, <4>1
      <3> QED BY <3>1, <3>2
    <2> QED BY <2>6, <2>7 DEF OverwrittenAtMost
  <1> QED BY <1>1, FramesGoRound, HandshakeInvariant, PTL

\* Every variable of the switch has its type.
THEOREM SwitchTypes == SwitchSpec => []SwitchTypeOK
  <1>1. SwitchInit => fabric \in Kernels \cup {"loading"} /\ rc_flag \in BOOLEAN
    BY DEF SwitchInit
  <1>2. SInv /\ fabric \in Kernels \cup {"loading"} /\ rc_flag \in BOOLEAN /\ [SwitchNext]_allVars
          => (fabric \in Kernels \cup {"loading"} /\ rc_flag \in BOOLEAN)'
    <2> SUFFICES ASSUME SInv, fabric \in Kernels \cup {"loading"}, rc_flag \in BOOLEAN, [SwitchNext]_allVars
                 PROVE  fabric' \in Kernels \cup {"loading"} /\ rc_flag' \in BOOLEAN
      OBVIOUS
    <2>1. want \in Kernels
      BY DEF SInv, ServerInv
    <2>2. CASE Runtime(Delegate) \/ Runtime(Owner) \/ Camera \/ Capture \/ UNCHANGED allVars
      BY <2>2 DEF Runtime, Camera, CDequeue, CPut, CQueue, CStep, Capture, allVars, switchVars
    <2>3. CASE Kernel
      BY <2>3 DEF Kernel, KBoot, KInit, KInitDone, KPoll, KGet, KFrame, KShown, KTry, KTried, KExit,
         KStep, KGoes
    <2>4. CASE Server \/ SRequest
      BY <2>1, <2>4 DEF Server, SCreate, SReady, SHandshake, SSuspend, SClearFlag, SProgram,
         SProgrammed, SPollsOn, SProgramFails, SResume, SDone, SRequest
    <2> QED BY <2>2, <2>3, <2>4 DEF SwitchNext
  <1>3. SInv /\ FramesInv /\ fabric \in Kernels \cup {"loading"} /\ rc_flag \in BOOLEAN => SwitchTypeOK
    <2> SUFFICES ASSUME SInv, FramesInv, fabric \in Kernels \cup {"loading"}, rc_flag \in BOOLEAN
                 PROVE  SwitchTypeOK
      OBVIOUS
    <2>1. TypeOK /\ want \in Kernels
          /\ spc \in {"boot", "booting", "idle", "handshake", "suspend", "suspending",
                      "program", "loading", "polling", "resume", "resuming"}
      BY DEF SInv, IInv, ServerInv
    <2>2. CameraTypes /\ Len(reading) <= 1
      BY DEF FramesInv, CountInv
    <2> QED BY <2>1, <2>2 DEF SwitchTypeOK, CameraTypes
  <1> QED BY <1>1, <1>2, <1>3, SwitchInvariant, FramesGoRound, PTL DEF SwitchSpec
=============================================================================
