------------------------------- MODULE HwSlot -------------------------------
(***************************************************************************)
(* A hardware slot of the ReconOS runtime (reconos.c, struct hwslot): the  *)
(* owner, a software thread that creates, suspends, resumes, signals and   *)
(* joins the hardware thread in the slot; the delegate, the software       *)
(* thread that executes the calls of the hardware thread; and the hardware *)
(* thread itself, which talks to the delegate through two FIFOs (osif).    *)
(*                                                                         *)
(* dt_flags, dt_state and rt are plain variables shared without a lock, so *)
(* their read-modify-writes are split into a load and a store.  The words  *)
(* of one call enter hw2sw together, and so do the words of its answer in  *)
(* sw2hw; they are one element of the FIFO.                                *)
(* Here the hardware thread makes any calls its resources allow and the    *)
(* owner any legal calls out of Calls; KernelSwitch fixes both programs.   *)
(***************************************************************************)
EXTENDS Integers, Sequences

CONSTANTS
  CmdSets,    (* the sets of commands a hardware thread may be built to use  *)
  Calls,      (* the calls the owner makes after the create; there is only   *)
              (* one create, hwslot_createdelegate panics at a second (see   *)
              (* Registry)                                                   *)
  FifoSize,   (* words a FIFO holds                                          *)
  InSize,     (* capacity of the mailbox the hardware thread gets from       *)
  OutSize,    (* capacity of the mailbox it puts to                          *)
  SemMax,     (* bound: the semaphore is not posted beyond this value        *)
  MaxSlips    (* bound: how many calls of mbox_put a signal makes go on      *)

MailCmds == {"MBOX_GET", "MBOX_TRYGET", "MBOX_PUT", "MBOX_TRYPUT"}
SyncCmds == {"SEM_POST", "SEM_WAIT", "MUTEX_LOCK", "MUTEX_UNLOCK", "MUTEX_TRYLOCK",
             "COND_WAIT", "COND_SIGNAL", "COND_BROADCAST"}
ThreadCmds == {"GET_INIT_DATA", "GET_STATE_ADDR", "CLEAR_SIGNAL", "EXIT"}
AllCmds == MailCmds \cup SyncCmds \cup ThreadCmds
\* The calls made through SYSCALL_BLOCK; mbox_put is not one of them.
BlockCmds == {"MBOX_GET", "SEM_WAIT", "MUTEX_LOCK", "COND_WAIT"}
AllCalls == {"create", "suspend", "suspend_block", "resume", "signal", "join"}

ASSUME SlotAssumption ==
  /\ CmdSets \subseteq SUBSET AllCmds
  /\ Calls \subseteq AllCalls \ {"create"}
  /\ FifoSize \in Nat \ {0} /\ InSize \in Nat \ {0} /\ OutSize \in Nat \ {0}
  /\ SemMax \in Nat /\ MaxSlips \in Nat

VARIABLES
  rt,                (* slot->rt # NULL                                      *)
  dt,                (* slot->dt # 0: a delegate was created                 *)
  dt_state, dt_flags, dt_exit,
  state,             (* state of the struct reconos_thread                   *)
  hwrst, hwsig,      (* proc control: reset and signal line of the slot      *)
  sw2hw, hw2sw,      (* the FIFOs of the osif                                *)
  brk,               (* the driver ends the delegate's next wait (osif_break) *)
  inbox, outbox,     (* number of words in the two mailboxes                 *)
  readLock, writeLock, (* holder of mutex_read of the one it gets from, and  *)
                     (* of mutex_write of the one it puts to                 *)
  slips,             (* words put although no place was free (a history)     *)
  sem, mutex, cond,  (* resources of the other kinds: value, owner, and what *)
                     (* became of the delegate's wait on the condition       *)
  uses,              (* the commands the thread uses on rt->resources        *)
  dpc, cmd, dtmp, ans, (* the delegate: place, command, loaded flags, answer *)
  opc, call, otmp, seen, (* the owner: place, call, loaded flags and state   *)
  hw                 (* the hardware thread                                  *)

slotVars == <<rt, dt, dt_state, dt_flags, dt_exit, state>>
procVars == <<hwrst, hwsig>>
osifVars == <<sw2hw, hw2sw, brk>>
boxVars == <<readLock, writeLock, slips>>
mailVars == <<inbox, outbox, boxVars>>
syncVars == <<sem, mutex, cond>>
resVars == <<mailVars, syncVars>>
delegateVars == <<uses, dpc, cmd, dtmp, ans>>
ownerVars == <<opc, call, otmp, seen>>
vars == <<slotVars, procVars, osifVars, resVars, delegateVars, ownerVars, hw>>

Flags == {"PAUSE_SYSCALLS", "SUSPEND"}
DtStates == {"STOPPED", "INIT", "BLOCKED_OSIF", "BLOCKED_SYSCALL", "PROCESSING"}
States == {"INIT", "RUNNING_HW", "SUSPENDING", "SUSPENDED"}
DelegatePCs == {"none", "start", "top", "clear", "raise", "block", "read", "wait",
                "woken", "got", "exec", "call", "slip", "syscall", "done", "unpause",
                "answer", "flags", "post"}
OwnerPCs == {"idle", "create_rt", "create_pulse", "create_start", "create_dt",
             "load", "pause", "reload", "suspend", "look", "poke", "test",
             "join", "join_wait", "join_reset", "join_rt", "resume_check",
             "resume_rt", "resume_start", "panic"}
Holders == {"free", "delegate", "other"}
HwWords == {"START", "RESUME", "init", "msg", "ok", "fail", "state"}

TypeOK ==
  /\ rt \in BOOLEAN /\ dt \in BOOLEAN
  /\ dt_state \in DtStates /\ dt_flags \in SUBSET Flags /\ dt_exit \in Nat
  /\ state \in States
  /\ hwrst \in BOOLEAN /\ hwsig \in BOOLEAN
  /\ sw2hw \in Seq(HwWords) /\ hw2sw \in Seq(AllCmds)
  /\ Len(sw2hw) <= FifoSize /\ Len(hw2sw) <= FifoSize
  /\ brk \in BOOLEAN
  /\ inbox \in 0 .. InSize /\ outbox \in 0 .. (OutSize + slips) /\ slips \in Nat
  /\ readLock \in Holders /\ writeLock \in Holders
  /\ sem \in 0 .. SemMax /\ mutex \in Holders
  /\ cond \in {"none", "waits", "woken"}
  /\ uses \in CmdSets /\ dpc \in DelegatePCs /\ cmd \in AllCmds \cup {"none", "INTERRUPTED"}
  /\ dtmp \in SUBSET Flags /\ ans \in HwWords \cup {"none"}
  /\ opc \in OwnerPCs /\ call \in AllCalls \cup {"none"}
  /\ otmp \in SUBSET Flags /\ seen \in DtStates
  /\ hw \in {"reset", "boot", "run", "await", "done"}

\* reconos_init and hwslot_init; the reset line is asserted until a create.
Init ==
  /\ rt = FALSE /\ dt = FALSE
  /\ dt_state = "STOPPED" /\ dt_flags = {} /\ dt_exit = 0
  /\ state = "INIT"
  /\ hwrst = TRUE /\ hwsig = FALSE
  /\ sw2hw = <<>> /\ hw2sw = <<>> /\ brk = FALSE
  /\ inbox = 0 /\ outbox = 0 /\ readLock = "free" /\ writeLock = "free" /\ slips = 0
  /\ sem = 0 /\ mutex = "free" /\ cond = "none"
  /\ uses \in CmdSets
  /\ dpc = "none" /\ cmd = "none" /\ dtmp = {} /\ ans = "none"
  /\ opc = "idle" /\ call = "none" /\ otmp = {} /\ seen = "STOPPED"
  /\ hw = "reset"

-----------------------------------------------------------------------------
(* The hardware thread (outside this code; its use of the osif is fixed by *)
(* the commands the delegate serves).                                      *)

LeaveRunning == hwsig' = FALSE /\ UNCHANGED <<hwrst, hw>> \* mutant: no reset at exit
HoldInReset == hwrst' = TRUE /\ hwsig' = FALSE /\ hw' = "reset"
PulseReset  == hwrst' = FALSE /\ hwsig' = FALSE /\ hw' = "boot"

\* THREAD_INIT: wait for the start (or resume) word.
HwBoot ==
  /\ hw = "boot" /\ sw2hw # <<>>
  /\ sw2hw' = Tail(sw2hw)
  /\ hw' = "run"
  /\ UNCHANGED <<slotVars, procVars, hw2sw, brk, resVars, delegateVars, ownerVars>>

\* Issue a call; all but two commands are answered.  A mutex is taken once and
\* given back, and waited with, by its holder only.
HwCall(c) ==
  /\ hw = "run" /\ Len(hw2sw) < FifoSize
  /\ c = "MUTEX_LOCK" => mutex # "delegate"
  /\ c \in {"MUTEX_UNLOCK", "COND_WAIT"} => mutex = "delegate"
  /\ hw2sw' = Append(hw2sw, c)
  /\ hw' = CASE c = "EXIT" -> "done" [] c = "CLEAR_SIGNAL" -> "run" [] OTHER -> "await"
  /\ UNCHANGED <<slotVars, procVars, sw2hw, brk, resVars, delegateVars, ownerVars>>

HwAnswer ==
  /\ hw = "await" /\ sw2hw # <<>>
  /\ sw2hw' = Tail(sw2hw)
  /\ hw' = "run"
  /\ UNCHANGED <<slotVars, procVars, hw2sw, brk, resVars, delegateVars, ownerVars>>

\* Other threads put into and get from the mailboxes, post the semaphore, hold
\* the mutex for a while and signal the condition.  The mailboxes belong to all:
\* another getter (putter) holds mutex_read (mutex_write) while it waits for a
\* word (a place) and when it takes or stores one.
OthersKeep == UNCHANGED <<slotVars, procVars, osifVars, delegateVars, ownerVars, hw>>
GetCmds == {"MBOX_GET", "MBOX_TRYGET"}
PutCmds == {"MBOX_PUT", "MBOX_TRYPUT"}
\* The places of the outbox, which grow with each word that was put into none.
Places == OutSize + slips
Arrive ==
  /\ uses \cap GetCmds # {}
  /\ inbox < InSize /\ inbox' = inbox + 1
  /\ UNCHANGED <<outbox, boxVars, syncVars>> /\ OthersKeep
Drain ==
  /\ outbox > 0 /\ outbox' = outbox - 1
  /\ UNCHANGED <<inbox, boxVars, syncVars>> /\ OthersKeep
OtherCalls ==
  /\ \/ uses \cap GetCmds # {} /\ readLock = "free" /\ readLock' = "other" /\ UNCHANGED writeLock
     \/ uses \cap PutCmds # {} /\ writeLock = "free" /\ writeLock' = "other" /\ UNCHANGED readLock
  /\ UNCHANGED <<inbox, outbox, slips, syncVars>> /\ OthersKeep
OtherReturns ==
  /\ \/ /\ readLock = "other" /\ readLock' = "free"
        /\ inbox' \in {inbox, inbox - 1} \cap Nat /\ UNCHANGED <<outbox, writeLock>>
     \/ /\ writeLock = "other" /\ writeLock' = "free"
        /\ outbox' \in {outbox, outbox + 1} \cap (0 .. Places) /\ UNCHANGED <<inbox, readLock>>
  /\ UNCHANGED <<slips, syncVars>> /\ OthersKeep
OtherPost ==
  /\ "SEM_WAIT" \in uses
  /\ sem < SemMax /\ sem' = sem + 1 /\ UNCHANGED <<mailVars, mutex, cond>> /\ OthersKeep
OtherLock ==
  /\ uses \cap {"MUTEX_LOCK", "MUTEX_TRYLOCK"} # {}
  /\ mutex = "free" /\ mutex' = "other" /\ UNCHANGED <<mailVars, sem, cond>> /\ OthersKeep
OtherUnlock == mutex = "other" /\ mutex' = "free" /\ UNCHANGED <<mailVars, sem, cond>> /\ OthersKeep
OtherSignal == cond = "waits" /\ cond' = "woken" /\ UNCHANGED <<mailVars, sem, mutex>> /\ OthersKeep

-----------------------------------------------------------------------------
(* dt_delegate *)

DGoto(p) == dpc' = p
DKeep == UNCHANGED <<uses, rt, dt, dt_exit, state, ownerVars>>

DStart ==
  /\ dpc = "start" /\ dt_state' = "PROCESSING" /\ DGoto("top")
  /\ DKeep /\ UNCHANGED <<dt_flags, procVars, osifVars, resVars, cmd, dtmp, ans, hw>>

\* The head of the loop: load the flags and test SUSPEND ...
DTop ==
  /\ dpc = "top"
  /\ IF "SUSPEND" \in dt_flags
     THEN dtmp' = dt_flags /\ DGoto("clear")
     ELSE UNCHANGED dtmp /\ DGoto("block")
  /\ cmd' = "none"
  /\ DKeep /\ UNCHANGED <<dt_state, dt_flags, procVars, osifVars, resVars, ans, hw>>

\* ... store them without SUSPEND, and raise the signal line.
DClear ==
  /\ dpc = "clear" /\ dt_flags' = dtmp \ {"SUSPEND"} /\ dtmp' = {} /\ DGoto("raise")
  /\ DKeep /\ UNCHANGED <<dt_state, procVars, osifVars, resVars, cmd, ans, hw>>
DRaise ==
  /\ dpc = "raise" /\ hwsig' = TRUE /\ DGoto("block")
  /\ DKeep /\ UNCHANGED <<dt_state, dt_flags, hwrst, osifVars, resVars, cmd, dtmp, ans, hw>>

DBlock ==
  /\ dpc = "block" /\ dt_state' = "BLOCKED_OSIF" /\ DGoto("read")
  /\ DKeep /\ UNCHANGED <<dt_flags, procVars, osifVars, resVars, cmd, dtmp, ans, hw>>

\* reconos_osif_read: take a word, or wait in the driver; a wait that was
\* broken off and finds no word returns OSIF_INTERRUPTED.
DTake ==
  /\ dpc \in {"read", "woken"} /\ hw2sw # <<>>
  /\ cmd' = Head(hw2sw) /\ hw2sw' = Tail(hw2sw) /\ DGoto("got")
  /\ DKeep /\ UNCHANGED <<dt_state, dt_flags, procVars, sw2hw, brk, resVars, dtmp, ans, hw>>
DWait ==
  /\ dpc = "read" /\ hw2sw = <<>> /\ DGoto("wait")
  /\ DKeep /\ UNCHANGED <<dt_state, dt_flags, procVars, osifVars, resVars, cmd, dtmp, ans, hw>>
DWake ==
  /\ dpc = "wait" /\ (brk \/ hw2sw # <<>>)
  /\ brk' = FALSE /\ DGoto("woken")
  /\ DKeep /\ UNCHANGED <<dt_state, dt_flags, procVars, sw2hw, hw2sw, resVars, cmd, dtmp, ans, hw>>
DInterrupted ==
  /\ dpc = "woken" /\ hw2sw = <<>>
  /\ cmd' = "INTERRUPTED" /\ DGoto("got")
  /\ DKeep /\ UNCHANGED <<dt_state, dt_flags, procVars, osifVars, resVars, dtmp, ans, hw>>

DGot ==
  /\ dpc = "got" /\ dt_state' = "PROCESSING" /\ DGoto("exec")
  /\ DKeep /\ UNCHANGED <<dt_flags, procVars, osifVars, resVars, cmd, dtmp, ans, hw>>

\* SYSCALL_BLOCK and SYSCALL_NONBLOCK drop a call without an answer while
\* PAUSE_SYSCALLS is set.
ServeAlways == \* mutant: without the test of PAUSE_SYSCALLS
  cmd \in MailCmds \cup SyncCmds /\ DGoto("call")
Serve ==
  cmd \in MailCmds \cup SyncCmds /\ DGoto(IF "PAUSE_SYSCALLS" \in dt_flags THEN "top" ELSE "call")

\* The switch over the command.
DExec ==
  /\ dpc = "exec"
  /\ \/ Serve
        /\ UNCHANGED <<procVars, dtmp, ans, hw>>
     \/ /\ cmd = "GET_INIT_DATA" /\ ans' = "init" /\ DGoto("answer")
        /\ UNCHANGED <<procVars, dtmp, hw>>
     \/ /\ cmd = "GET_STATE_ADDR" /\ dtmp' = dt_flags /\ DGoto("unpause")
        /\ UNCHANGED <<procVars, ans, hw>>
     \/ /\ cmd = "CLEAR_SIGNAL" /\ hwsig' = FALSE /\ DGoto("top")
        /\ UNCHANGED <<hwrst, dtmp, ans, hw>>
     \/ /\ cmd = "EXIT" /\ HoldInReset /\ DGoto("flags")
        /\ UNCHANGED <<dtmp, ans>>
     \/ /\ cmd = "INTERRUPTED" /\ DGoto("top")
        /\ UNCHANGED <<procVars, dtmp, ans, hw>>
  /\ DKeep /\ UNCHANGED <<dt_state, dt_flags, osifVars, resVars, cmd>>

\* The calls that do not set dt_state.  The try calls wait for the mutex of the
\* mailbox, mbox_put also for a place, with the mutex held.  Signals and broadcasts
\* of a condition are for other threads and change nothing here.
TryPut ==
  /\ cmd = "MBOX_TRYPUT" /\ writeLock = "free"
  /\ ans' = (IF outbox < Places THEN "ok" ELSE "fail")
  /\ outbox' = (IF outbox < Places THEN outbox + 1 ELSE outbox)
  /\ UNCHANGED <<inbox, boxVars, syncVars>>
Put ==
  /\ cmd = "MBOX_PUT" /\ writeLock = "delegate" /\ outbox < Places
  /\ outbox' = outbox + 1 /\ writeLock' = "free" /\ ans' = "ok"
  /\ UNCHANGED <<inbox, readLock, slips, syncVars>>
TryGet ==
  /\ cmd = "MBOX_TRYGET" /\ readLock = "free"
  /\ ans' = (IF inbox > 0 THEN "msg" ELSE "fail")
  /\ inbox' = (IF inbox > 0 THEN inbox - 1 ELSE inbox)
  /\ UNCHANGED <<outbox, boxVars, syncVars>>
SemPost ==
  /\ cmd = "SEM_POST" /\ sem' = (IF sem < SemMax THEN sem + 1 ELSE sem) /\ ans' = "ok"
  /\ UNCHANGED <<mailVars, mutex, cond>>
MutexUnlock ==
  /\ cmd = "MUTEX_UNLOCK" /\ mutex' = "free" /\ ans' = "ok"
  /\ UNCHANGED <<mailVars, sem, cond>>
MutexTryLock ==
  /\ cmd = "MUTEX_TRYLOCK" /\ ans' = (IF mutex = "free" THEN "ok" ELSE "fail")
  /\ mutex' = (IF mutex = "free" THEN "delegate" ELSE mutex)
  /\ UNCHANGED <<mailVars, sem, cond>>
CondSignal == cmd = "COND_SIGNAL" /\ ans' = "ok" /\ UNCHANGED resVars
CondBroadcast == cmd = "COND_BROADCAST" /\ ans' = "ok" /\ UNCHANGED resVars
NoWait == TryPut \/ Put \/ TryGet \/ SemPost \/ MutexUnlock \/ MutexTryLock \/ CondSignal \/ CondBroadcast

\* mbox_put locks mutex_write before it waits for a place.
PutLock ==
  /\ cmd = "MBOX_PUT" /\ writeLock = "free" /\ writeLock' = "delegate"
  /\ UNCHANGED <<inbox, outbox, readLock, slips, syncVars>>

\* A blocking call runs between two assignments of dt_state.
DCall ==
  /\ dpc = "call"
  /\ \/ NoWait /\ DGoto("answer") /\ UNCHANGED dt_state
     \/ PutLock /\ UNCHANGED <<dt_state, dpc, ans>>
     \/ /\ cmd \in BlockCmds /\ dt_state' = "BLOCKED_SYSCALL" /\ DGoto("syscall")
        /\ UNCHANGED <<resVars, ans>>
  /\ DKeep /\ UNCHANGED <<dt_flags, procVars, osifVars, cmd, dtmp, hw>>

\* A signal ended the sem_wait of mbox_put, which does not look: the word is stored
\* over one that nobody has read.
DSlip ==
  /\ dpc = "slip" /\ outbox' = outbox + 1 /\ slips' = slips + 1 /\ writeLock' = "free"
  /\ ans' = "ok" /\ DGoto("answer")
  /\ DKeep
  /\ UNCHANGED <<dt_state, dt_flags, procVars, osifVars, inbox, readLock, syncVars, cmd, dtmp, hw>>

\* The blocking calls: mbox_get_interruptible, which locks mutex_read before it waits
\* for a word, sem_wait, pthread_mutex_lock, and pthread_cond_wait, which releases
\* the mutex and takes it again when it is woken.
DReturn == DGoto("done") /\ ans' = (IF cmd = "MBOX_GET" THEN "msg" ELSE "ok")
DBlocked ==
  /\ dpc = "syscall"
  /\ DKeep /\ UNCHANGED <<dt_state, dt_flags, procVars, osifVars, cmd, dtmp, hw>>
DGetNoWait == \* mutant: returns a word although none was put
  /\ DBlocked /\ cmd = "MBOX_GET" /\ readLock = "delegate" /\ inbox' = inbox - 1
  /\ readLock' = "free" /\ DReturn
  /\ UNCHANGED <<outbox, writeLock, slips, syncVars>>
DGetLock ==
  /\ DBlocked /\ cmd = "MBOX_GET" /\ readLock = "free" /\ readLock' = "delegate"
  /\ UNCHANGED <<inbox, outbox, writeLock, slips, syncVars, dpc, ans>>
DGet ==
  /\ DBlocked /\ cmd = "MBOX_GET" /\ readLock = "delegate" /\ inbox > 0 /\ inbox' = inbox - 1
  /\ readLock' = "free" /\ DReturn
  /\ UNCHANGED <<outbox, writeLock, slips, syncVars>>
DSemWait ==
  /\ DBlocked /\ cmd = "SEM_WAIT" /\ sem > 0 /\ sem' = sem - 1 /\ DReturn
  /\ UNCHANGED <<mailVars, mutex, cond>>
DLock ==
  /\ DBlocked /\ cmd = "MUTEX_LOCK" /\ mutex = "free" /\ mutex' = "delegate" /\ DReturn
  /\ UNCHANGED <<mailVars, sem, cond>>
DCondRelease ==
  /\ DBlocked /\ cmd = "COND_WAIT" /\ cond = "none" /\ cond' = "waits" /\ mutex' = "free"
  /\ UNCHANGED <<mailVars, sem, dpc, ans>>
DCondReturn ==
  /\ DBlocked /\ cmd = "COND_WAIT" /\ cond = "woken" /\ mutex = "free"
  /\ cond' = "none" /\ mutex' = "delegate" /\ DReturn
  /\ UNCHANGED <<mailVars, sem>>
DSyscall == DGetLock \/ DGet \/ DSemWait \/ DLock \/ DCondRelease \/ DCondReturn
DGetDone ==
  /\ dpc = "done" /\ dt_state' = "PROCESSING" /\ DGoto("answer")
  /\ DKeep /\ UNCHANGED <<dt_flags, procVars, osifVars, resVars, cmd, dtmp, ans, hw>>

\* THREAD_GET_STATE_ADDR: end the pause, then answer.
DUnpause ==
  /\ dpc = "unpause" /\ dt_flags' = dtmp \ {"PAUSE_SYSCALLS"} /\ dtmp' = {}
  /\ ans' = "state" /\ DGoto("answer")
  /\ DKeep /\ UNCHANGED <<dt_state, procVars, osifVars, resVars, cmd, hw>>

\* reconos_osif_write
DAnswer ==
  /\ dpc = "answer" /\ Len(sw2hw) < FifoSize
  /\ sw2hw' = Append(sw2hw, ans) /\ ans' = "none" /\ DGoto("top")
  /\ DKeep /\ UNCHANGED <<dt_state, dt_flags, procVars, hw2sw, brk, resVars, cmd, dtmp, hw>>

\* THREAD_EXIT after the reset: clear the flags, post dt_exit.
DFlags ==
  /\ dpc = "flags" /\ dt_flags' = {} /\ DGoto("post")
  /\ DKeep /\ UNCHANGED <<dt_state, procVars, osifVars, resVars, cmd, dtmp, ans, hw>>
DPostLost == \* mutant: the exit is not posted
  /\ dpc = "post" /\ DGoto("top")
  /\ DKeep
  /\ UNCHANGED <<dt_state, dt_flags, procVars, osifVars, resVars, cmd, dtmp, ans, hw>>
DPost ==
  /\ dpc = "post" /\ dt_exit' = dt_exit + 1 /\ DGoto("top")
  /\ UNCHANGED <<rt, dt, state, dt_state, dt_flags, procVars, osifVars, resVars,
                 uses, cmd, dtmp, ans, ownerVars, hw>>

Delegate ==
  \/ DStart \/ DTop \/ DClear \/ DRaise \/ DBlock \/ DTake \/ DWait \/ DWake
  \/ DInterrupted \/ DGot \/ DExec \/ DCall \/ DSlip \/ DSyscall \/ DGetDone \/ DUnpause
  \/ DAnswer \/ DFlags \/ DPost

-----------------------------------------------------------------------------
(* The owner: reconos_thread_* and hwslot_*thread *)

OGoto(p) == opc' = p
OKeep == UNCHANGED <<dt_exit, resVars, uses, cmd, dtmp, ans>>
Return == OGoto("idle") /\ call' = "none"

\* Calls the headers allow: one create first; suspend a running thread, join
\* while the slot has a thread, resume once it was joined, create another
\* thread (PUT /thread/.../start in rt_web.c) when the slot is free.
Legal(c) ==
  CASE c = "create" -> ~rt
    [] c \in {"suspend", "suspend_block"} -> rt /\ state = "RUNNING_HW"
    [] c = "join" -> rt
    [] c = "resume" -> ~rt /\ state # "INIT"
    [] c = "signal" -> state # "INIT"

Entry == [create |-> "create_rt", suspend |-> "load", suspend_block |-> "load",
          resume |-> "resume_check", join |-> "join", signal |-> "idle"]

Begin(c) ==
  /\ opc = "idle" /\ Legal(c)
  /\ OGoto(Entry[c])
  /\ call' = IF c = "signal" THEN "none" ELSE c
  /\ state' = CASE c \in {"suspend", "suspend_block"} -> "SUSPENDING"
                [] c = "create" -> "INIT"
                [] OTHER -> state
  /\ hwsig' = IF c = "signal" THEN TRUE ELSE hwsig
  /\ OKeep /\ UNCHANGED <<rt, dt, dt_state, dt_flags, hwrst, osifVars, dpc, otmp, seen, hw>>

\* hwslot_createthread, hwslot_createdelegate
OCreate ==
  /\ \/ /\ opc = "create_rt"
        /\ IF rt THEN OGoto("panic") ELSE OGoto("create_pulse")
        /\ rt' = TRUE
        /\ UNCHANGED <<dt, dt_state, dt_flags, state, procVars, sw2hw, dpc, call, hw>>
     \/ /\ opc = "create_pulse" /\ PulseReset /\ OGoto("create_start")
        /\ UNCHANGED <<slotVars, sw2hw, dpc, call>>
     \/ /\ opc = "create_start" /\ Len(sw2hw) < FifoSize
        /\ sw2hw' = Append(sw2hw, "START") /\ OGoto("create_dt")
        /\ UNCHANGED <<slotVars, procVars, dpc, call, hw>>
     \/ /\ opc = "create_dt"
        /\ IF dt
           THEN OGoto("panic") /\ UNCHANGED <<dt, dt_state, dt_flags, state, dpc, call>>
           ELSE /\ dt' = TRUE /\ dt_state' = "INIT" /\ dt_flags' = {} /\ dpc' = "start"
                /\ state' = "RUNNING_HW" /\ Return
        /\ UNCHANGED <<rt, procVars, sw2hw, hw>>
  /\ OKeep /\ UNCHANGED <<hw2sw, brk, otmp, seen>>

\* hwslot_suspendthread, setting the flags: two |= on a plain variable, which
\* the compiler may also merge into one store.
OSetFlags ==
  /\ \/ /\ opc = "load"
        /\ IF ~rt THEN OGoto("panic") ELSE OGoto("pause")
        /\ otmp' = dt_flags /\ UNCHANGED dt_flags
     \/ /\ opc = "pause" /\ dt_flags' = otmp \cup {"PAUSE_SYSCALLS"}
        /\ OGoto("reload") /\ otmp' = {}
     \/ /\ opc = "pause" /\ dt_flags' = otmp \cup Flags
        /\ OGoto("look") /\ otmp' = {}
     \/ /\ opc = "reload" /\ otmp' = dt_flags
        /\ OGoto("suspend") /\ UNCHANGED dt_flags
     \/ /\ opc = "suspend" /\ dt_flags' = otmp \cup {"SUSPEND"}
        /\ OGoto("look") /\ otmp' = {}
  /\ OKeep /\ UNCHANGED <<rt, dt, dt_state, state, procVars, osifVars, dpc, call, seen, hw>>

\* ... and waiting for the delegate: break its wait on the osif, or send it
\* SIGUSR1 (installed without SA_RESTART, so that a wait returns), and yield.
OLook ==
  /\ opc = "look" /\ seen' = dt_state /\ OGoto("poke")
  /\ OKeep /\ UNCHANGED <<slotVars, procVars, osifVars, dpc, call, otmp, hw>>
Break ==
  /\ opc = "poke" /\ seen = "BLOCKED_OSIF"
  /\ brk' \in IF dpc = "wait" THEN {TRUE} ELSE {brk, TRUE}
  /\ UNCHANGED <<dpc, readLock, cond>>
KillRestarts == \* mutant: a handler installed with SA_RESTART
  /\ opc = "poke" /\ seen = "BLOCKED_SYSCALL"
  /\ UNCHANGED <<brk, dpc, readLock, cond>>
\* The delegate waits in sem_wait with a mutex of the mailbox held.
WaitsForWord == dpc = "syscall" /\ cmd = "MBOX_GET" /\ readLock = "delegate"
WaitsForPlace == dpc = "call" /\ cmd = "MBOX_PUT" /\ writeLock = "delegate" /\ outbox = Places
\* A signal ends sem_wait, and a wait in the driver; it never ends
\* pthread_mutex_lock, and pthread_cond_wait may only return as woken.
\* mbox_get_interruptible unlocks and fails, dt_sem_wait fails, mbox_put goes on.
\* (seen may be old: the delegate may long be in another call.)
Kill ==
  /\ opc = "poke" /\ seen = "BLOCKED_SYSCALL"
  /\ dpc' = CASE WaitsForWord \/ (dpc = "syscall" /\ cmd = "SEM_WAIT") -> "top"
              [] WaitsForPlace /\ slips < MaxSlips -> "slip"
              [] dpc = "wait" -> "woken"
              [] OTHER -> dpc
  /\ readLock' = (IF WaitsForWord THEN "free" ELSE readLock)
  /\ cond' \in IF cond = "waits" THEN {"waits", "woken"} ELSE {cond}
  /\ UNCHANGED brk
NoPoke ==
  /\ opc = "poke" /\ seen \notin {"BLOCKED_OSIF", "BLOCKED_SYSCALL"}
  /\ UNCHANGED <<brk, dpc, readLock, cond>>
OPoke ==
  /\ Break \/ Kill \/ NoPoke
  /\ OGoto("test") /\ seen' = "STOPPED"
  /\ UNCHANGED <<slotVars, procVars, sw2hw, hw2sw, inbox, outbox, writeLock, slips, sem, mutex,
                 uses, cmd, dtmp, ans, call, otmp, hw>>
OTest ==
  /\ opc = "test"
  /\ \/ "SUSPEND" \in dt_flags /\ OGoto("look") /\ UNCHANGED <<state, call>>
     \/ /\ "SUSPEND" \notin dt_flags /\ call = "suspend"
        /\ state' = "SUSPENDED" /\ Return
     \/ /\ "SUSPEND" \notin dt_flags /\ call = "suspend_block"
        /\ OGoto("join") /\ UNCHANGED <<state, call>>
  /\ OKeep /\ UNCHANGED <<rt, dt, dt_state, dt_flags, procVars, osifVars, dpc, otmp, seen, hw>>

\* hwslot_jointhread: check, wait for the exit, hold the slot in reset, free it.
OJoin ==
  /\ opc = "join" /\ OGoto(IF rt THEN "join_wait" ELSE "panic")
  /\ UNCHANGED <<slotVars, procVars, osifVars, resVars, delegateVars, call, otmp, seen, hw>>
OJoinNoWait == \* mutant: goes on without the exit (an interrupted sem_wait)
  /\ opc = "join_wait" /\ OGoto("join_reset")
  /\ UNCHANGED <<slotVars, procVars, osifVars, resVars, delegateVars, call, otmp, seen, hw>>
OJoinPeek == \* mutant: sees the exit but does not take it
  /\ opc = "join_wait" /\ dt_exit > 0 /\ OGoto("join_reset")
  /\ UNCHANGED <<slotVars, procVars, osifVars, resVars, delegateVars, call, otmp, seen, hw>>
OJoinWait ==
  /\ opc = "join_wait" /\ dt_exit > 0
  /\ dt_exit' = dt_exit - 1 /\ OGoto("join_reset")
  /\ UNCHANGED <<rt, dt, dt_state, dt_flags, state, procVars, osifVars, resVars,
                 delegateVars, call, otmp, seen, hw>>
OJoinReset ==
  /\ opc = "join_reset" /\ HoldInReset /\ OGoto("join_rt")
  /\ UNCHANGED <<slotVars, osifVars, resVars, delegateVars, call, otmp, seen>>
OJoinFree ==
  /\ opc = "join_rt" /\ rt' = FALSE /\ Return
  /\ state' = IF call = "join" THEN state ELSE "SUSPENDED"
  /\ UNCHANGED <<dt, dt_state, dt_flags, dt_exit, procVars, osifVars, resVars,
                 delegateVars, otmp, seen, hw>>

\* hwslot_resumethread: check and pulse the reset, set rt, write the word that
\* the hardware thread waits for.
OResume ==
  /\ opc = "resume_check"
  /\ IF rt THEN OGoto("panic") /\ UNCHANGED <<procVars, hw>>
           ELSE OGoto("resume_rt") /\ PulseReset
  /\ UNCHANGED <<slotVars, osifVars, resVars, delegateVars, call, otmp, seen>>
OResumeSet ==
  /\ opc = "resume_rt" /\ rt' = TRUE /\ OGoto("resume_start")
  /\ UNCHANGED <<dt, dt_state, dt_flags, dt_exit, state, procVars, osifVars, resVars,
                 delegateVars, call, otmp, seen, hw>>
OResumeStart ==
  /\ opc = "resume_start" /\ Len(sw2hw) < FifoSize
  /\ sw2hw' = Append(sw2hw, "RESUME") /\ state' = "RUNNING_HW" /\ Return
  /\ UNCHANGED <<rt, dt, dt_state, dt_flags, dt_exit, procVars, hw2sw, brk, resVars,
                 delegateVars, otmp, seen, hw>>

Owner ==
  \/ OCreate \/ OSetFlags \/ OLook \/ OPoke \/ OTest
  \/ OJoin \/ OJoinWait \/ OJoinReset \/ OJoinFree
  \/ OResume \/ OResumeSet \/ OResumeStart

Hardware == HwBoot \/ HwAnswer
Environment ==
  \/ (state = "INIT" /\ ~rt /\ Begin("create"))
  \/ \E c \in Calls : Begin(c)
  \/ \E c \in uses : HwCall(c)
  \/ Arrive \/ Drain \/ OtherCalls \/ OtherReturns \/ OtherPost \/ OtherLock \/ OtherUnlock \/ OtherSignal

Next == Delegate \/ Owner \/ Hardware \/ Environment

Spec == Init /\ [][Next]_vars

\* Running software threads are scheduled and the driver wakes them; nobody has
\* to call, and no word has to arrive in a mailbox.
Fairness == WF_vars(Delegate) /\ WF_vars(Owner) /\ WF_vars(Hardware)
FairSpec == Spec /\ Fairness

-----------------------------------------------------------------------------

\* The owner is between the test of slot->rt and the end of create or resume.
Starting == opc \in {"create_pulse", "create_start", "create_dt",
                     "resume_rt", "resume_start"}

\* A slot without a thread is held in reset, with no word left in a FIFO and no
\* unseen request to suspend: the fabric may be reconfigured and the next thread
\* starts from clean FIFOs (hwslot_jointhread, THREAD_EXIT in dt_delegate).  The
\* delegate clears SUSPEND before it raises the signal line, so the line may go up
\* in a slot that was joined; but only when its thread was suspended, never when
\* it was left to end by itself.
FreeSlotIsQuiet ==
  ~rt /\ ~Starting => /\ hwrst /\ hw = "reset"
                      /\ sw2hw = <<>> /\ hw2sw = <<>>
                      /\ "SUSPEND" \notin dt_flags
                      /\ dpc \in {"clear", "raise"} => state = "SUSPENDED"

\* Whenever the delegate serves a command that reads slot->rt (its resources,
\* init data or state data), the slot has a thread, although hwslot_resumethread
\* releases the reset before it sets rt.
NoNullThread ==
  dpc \in {"exec", "call", "syscall"} /\ cmd \notin {"EXIT", "CLEAR_SIGNAL", "INTERRUPTED"}
    => rt

\* One exit is posted per run of the hardware thread, and none is left over
\* when the next run starts: a join never returns for an earlier exit.
ExitMatchesRun ==
  /\ dt_exit <= 1
  /\ hw \in {"boot", "run", "await"} => dt_exit = 0 /\ dpc \notin {"flags", "post"}

\* The delegate and the owner assert the reset of a slot only when its hardware
\* thread has exited: none is stopped in the middle of a call.
ResetOnlyAfterExit == [][hw' = "reset" => hw \in {"reset", "done"}]_vars

\* Once reconos_thread_suspend has returned, and until the pause ends, the delegate
\* neither takes nor gives anything on behalf of the suspended thread: the call it
\* was in when the pause began is over before the suspend returns.
NoCallWhilePaused ==
  [][state = "SUSPENDED" /\ "PAUSE_SYSCALLS" \in dt_flags /\ Delegate
       => UNCHANGED resVars]_vars

\* The owner is in the loop of hwslot_suspendthread.
Suspending == opc \in {"look", "poke", "test"}
Stuck ==
  \/ WaitsForPlace
  \/ dpc \in {"call", "syscall"} /\ cmd \in GetCmds /\ readLock = "other"
  \/ dpc = "call" /\ cmd \in PutCmds /\ writeLock = "other"
  \/ dpc = "syscall" /\ cmd \in {"MUTEX_LOCK", "COND_WAIT"}

\* mbox.h: mbox_put "blocks if it is full".
NeverOverfull == outbox <= OutSize

\* hwslot_suspendthread returns: the delegate acknowledges SUSPEND, whether it
\* waits for a command, waits for a word of its mailbox or handles an exit.  Only
\* three things may keep the suspender waiting: a mailbox that is full under
\* mbox_put, a mutex of a mailbox that another thread holds (it may itself be
\* waiting for a word or a place), and a call that no signal ends (mutex_lock,
\* cond_wait).
SuspendReturns == Suspending ~> (~Suspending \/ Stuck)

-----------------------------------------------------------------------------
(* What the tables of the runtime (Registry) see of the slot: thread 1 in   *)
(* slot 0, whose create function allows no other slot.  A create is over    *)
(* when the delegate exists, a suspend begins when the flag is stored, the  *)
(* exit of the hardware thread is the store that clears the flags, and the  *)
(* join frees the slot with its reset.                                      *)

Creating == opc \in {"create_rt", "create_pulse", "create_start", "create_dt"}
Claiming == opc \in {"load", "pause", "reload", "suspend"}

TableMade == IF state # "INIT" \/ Creating THEN 1 ELSE 0
TableCreating == IF Creating THEN 0 ELSE -1
TableState == IF Claiming THEN "RUNNING_HW" ELSE state
TableRt == IF rt /\ ~Creating /\ opc # "join_rt" THEN 1 ELSE 0
TableSuspend == "SUSPEND" \in dt_flags
TableExits == IF dpc = "post" THEN dt_exit + 1 ELSE dt_exit
TableHw == IF (hw # "reset" \/ dpc = "flags") /\ ~Creating /\ opc # "resume_rt"
           THEN "run" ELSE "reset"
TableAt ==
  CASE TableMade = 0 \/ Creating -> "none"
    [] Suspending -> IF call = "suspend" THEN "suspend" ELSE "block"
    [] opc = "join" /\ call = "suspend_block" -> "block"
    [] opc = "join_wait" -> "wait"
    [] opc = "join_reset" -> "reset"
    [] opc = "join_rt" /\ call = "suspend_block" -> "mark"
    [] opc = "resume_start" -> "resume"
    [] OTHER -> IF TableRt = 1 THEN IF state = "SUSPENDED" THEN "asked" ELSE "in"
                               ELSE IF state = "SUSPENDED" THEN "out" ELSE "left"

OneSlot(x) == [s \in {0} |-> x]
OneThread(x) == [t \in {1} |-> x]
Servo == [name |-> "servo", mode |-> "HW", slots |-> {0}]
Saw == [name |-> "saw", mode |-> "SW", slots |-> {}]
Tables == INSTANCE Registry WITH
  Functions <- {Servo}, NumHwts <- 1, MaxThreads <- 1,
  up <- "ready", panic <- "none", made <- TableMade, creating <- TableCreating,
  fn <- OneThread(IF TableMade = 1 THEN Servo ELSE Saw),
  hwslot <- OneThread(IF TableMade = 1 THEN 0 ELSE -1),
  state <- OneThread(TableState), at <- OneThread(TableAt),
  rt <- OneSlot(TableRt), dt <- OneSlot(dt), suspend <- OneSlot(TableSuspend),
  exits <- OneSlot(TableExits), hw <- OneSlot(TableHw)

\* The slot with its delegate, FIFOs and half-done calls is a slot of Registry after
\* start-up: what the owner does to the tables looks like the calls of Registry in
\* their order, the delegate like one that only takes suspend requests and exits,
\* and no call panics.  (That a step may leave the tables alone is written out: most
\* steps do, and TLC sees it before it tries the calls.)
SlotOfTables ==
  Tables!Ready /\ [][UNCHANGED Tables!vars \/ Tables!Next]_(Tables!vars)
=============================================================================
