------------------------------ MODULE Registry ------------------------------
(***************************************************************************)
(* The threads and the hardware slots of the ReconOS runtime as an         *)
(* application sees them: start-up (reconos_init, reconos_app_init), the   *)
(* create functions of the application library, which look for a free slot *)
(* among the allowed ones, and suspend, suspend_block, resume and join of  *)
(* several threads at the same time, each by a caller of its own.          *)
(*                                                                         *)
(* HwSlot holds the detail of one slot; here a delegate is one variable    *)
(* (it exists or not) and handling a suspend request or an exit one step.  *)
(* One thread of the application creates the others, as main does.         *)
(***************************************************************************)
EXTENDS Integers, FiniteSetsExt

CONSTANTS
  Functions,   (* the create functions the application calls, in any order   *)
  NumHwts,     (* RECONOS_NUM_HWTS: slots of the hardware design             *)
  MaxThreads   (* bound: threads created                                     *)

-----------------------------------------------------------------------------
(* The create functions of reconos_app.c: the stage, hardware or software,  *)
(* and the slots the thread is allowed to run in.                           *)

Fn(name, mode, slots) == [name |-> name, mode |-> mode, slots |-> slots]

HwtServo == Fn("servo", "HW", {0})
HwtTouch == Fn("touch", "HW", {1})
HwtVga == Fn("vga", "HW", {2})
HwtControl == Fn("control", "HW", {3})
\* The array has one element but three are read; what the other two name is
\* never looked at, as the thread is a software thread.
SwtControl == Fn("control", "SW", {3})
HwtPerformance == Fn("performance", "HW", {4})
HwtInverse == Fn("inverse", "HW", 5 .. 9)
SwtInverse == Fn("inverse", "SW", 5 .. 9)
SwtPower == Fn("power", "SW", {})
SwtSaw == Fn("saw", "SW", {})
SwtWeb == Fn("web", "SW", {})
AppFunctions == {HwtServo, HwtTouch, HwtVga, HwtControl, SwtControl, HwtPerformance,
                 HwtInverse, SwtInverse, SwtPower, SwtSaw, SwtWeb}

Slots == 0 .. NumHwts - 1
Threads == 1 .. MaxThreads
NoThread == 0
NoSlot == -1

ASSUME RegistryAssumption ==
  /\ NumHwts \in Nat /\ MaxThreads \in Nat
  /\ Functions \subseteq AppFunctions
  /\ \A f \in Functions : f.slots \subseteq Slots

VARIABLES
  up,                (* how far start-up has come                            *)
  panic,             (* why the process ended, or "none"                     *)
  made,              (* _thread_id: threads initialized so far               *)
  creating,          (* slot in which the newest thread is being created     *)
  fn, state, hwslot, (* of each thread: create function, state, slot         *)
  at,                (* of each thread: how its caller left it, or where in  *)
                     (* a call the caller is                                 *)
  rt, dt, suspend, exits, hw (* of each slot: thread, delegate exists, flag  *)
                     (* SUSPEND, dt_exit, hardware in reset or running       *)

startVars == <<up, panic>>
threadVars == <<made, creating, fn, state, hwslot, at>>
slotVars == <<rt, dt, suspend, exits, hw>>
vars == <<startVars, threadVars, slotVars>>

States == {"INIT", "RUNNING_HW", "SUSPENDING", "SUSPENDED"}
Panics == {"none", "startup", "exit", "delegate", "busy", "not running", "no thread"}
Outside == {"none", "out", "left", "mark"}
Inside == {"in", "asked", "suspend", "block", "wait", "reset", "resume"}

TypeOK ==
  /\ up \in {"off", "driver", "runtime", "ready"} /\ panic \in Panics
  /\ made \in 0 .. MaxThreads /\ creating \in Slots \cup {NoSlot}
  /\ fn \in [Threads -> Functions \cup {SwtSaw}]
  /\ state \in [Threads -> States] /\ hwslot \in [Threads -> Slots \cup {NoSlot}]
  /\ at \in [Threads -> Outside \cup Inside]
  /\ rt \in [Slots -> Threads \cup {NoThread}]
  /\ dt \in [Slots -> BOOLEAN] /\ suspend \in [Slots -> BOOLEAN]
  /\ exits \in [Slots -> Nat] /\ hw \in [Slots -> {"reset", "run"}]

Init ==
  /\ up = "off" /\ panic = "none"
  /\ made = 0 /\ creating = NoSlot
  /\ fn = [t \in Threads |-> SwtSaw] /\ state = [t \in Threads |-> "INIT"]
  /\ hwslot = [t \in Threads |-> NoSlot] /\ at = [t \in Threads |-> "none"]
  /\ rt = [s \in Slots |-> NoThread]
  /\ dt = [s \in Slots |-> FALSE] /\ suspend = [s \in Slots |-> FALSE]
  /\ exits = [s \in Slots |-> 0] /\ hw \in [Slots -> {"reset", "run"}]

Alive == panic = "none"
Panic(why) == panic' = why /\ UNCHANGED <<up, threadVars, slotVars>>
AllReset == hw' = [s \in Slots |-> "reset"]

-----------------------------------------------------------------------------
(* Start-up and end *)

\* reconos_drv_init: opens the devices and resets the whole system.
DrvInit ==
  /\ Alive /\ up = "off"
  /\ \/ Panic("startup")
     \/ /\ up' = "driver" /\ AllReset
        /\ UNCHANGED <<panic, threadVars, rt, dt, suspend, exits>>

\* The rest of reconos_init, with hwslot_init of every slot.
InitRuntime ==
  /\ Alive /\ up = "driver"
  /\ \/ Panic("startup")
     \/ /\ up' = "runtime" /\ AllReset
        /\ rt' = [s \in Slots |-> NoThread] /\ dt' = [s \in Slots |-> FALSE]
        /\ suspend' = [s \in Slots |-> FALSE] /\ exits' = [s \in Slots |-> 0]
        /\ UNCHANGED <<panic, threadVars>>

\* reconos_app_init: the mailboxes.
AppInit ==
  /\ Alive /\ up = "runtime" /\ up' = "ready"
  /\ UNCHANGED <<panic, threadVars, slotVars>>

\* exit_signal: resets the system and ends the process.
Exit ==
  /\ Alive /\ up = "ready" /\ panic' = "exit" /\ AllReset
  /\ UNCHANGED <<up, threadVars, rt, dt, suspend, exits>>

\* What start-up leaves behind: empty tables, and every slot held in reset.
Ready ==
  /\ up = "ready" /\ panic = "none"
  /\ made = 0 /\ creating = NoSlot
  /\ fn = [t \in Threads |-> SwtSaw] /\ state = [t \in Threads |-> "INIT"]
  /\ hwslot = [t \in Threads |-> NoSlot] /\ at = [t \in Threads |-> "none"]
  /\ rt = [s \in Slots |-> NoThread]
  /\ dt = [s \in Slots |-> FALSE] /\ suspend = [s \in Slots |-> FALSE]
  /\ exits = [s \in Slots |-> 0] /\ hw = [s \in Slots |-> "reset"]

-----------------------------------------------------------------------------
(* The create functions, reconos_thread_create_auto, reconos_thread_create  *)

Free(f) == {s \in f.slots : rt[s] = NoThread}

\* The slot the scan of create_auto ends at; the allowed slots are in
\* ascending order in every create function.
Scan(f) == IF Free(f) = {} THEN NoSlot ELSE Min(Free(f))

\* reconos_thread_init and the set functions: the thread gets the next number.
ThreadInit(f) == made' = made + 1 /\ fn' = [fn EXCEPT ![made + 1] = f]

\* Make the thread and look for a slot.  Without a free one create_auto only
\* warns, and the create function returns the thread as if it ran.
Create(f) ==
  /\ Alive /\ up = "ready" /\ creating = NoSlot /\ made < MaxThreads
  /\ ThreadInit(f)
  /\ IF f.mode = "SW"
     THEN UNCHANGED <<creating, hwslot>>
     ELSE creating' = Scan(f) /\ hwslot' = [hwslot EXCEPT ![made + 1] = Scan(f)]
  /\ UNCHANGED <<startVars, state, at, slotVars>>

\* hwslot_createdelegate for slot s
DelegateAgain(s) == TRUE \* mutant: creates a second delegate in the slot
NoDelegate(s) == ~ dt[s]

\* hwslot_createthread, and the new state
Place ==
  /\ Alive /\ creating # NoSlot
  /\ IF rt[creating] # NoThread
     THEN Panic("busy")
     ELSE /\ rt' = [rt EXCEPT ![creating] = made]
          /\ hw' = [hw EXCEPT ![creating] = "run"]
          /\ IF NoDelegate(creating)
             THEN /\ dt' = [dt EXCEPT ![creating] = TRUE]
                  /\ suspend' = [suspend EXCEPT ![creating] = FALSE]
                  /\ state' = [state EXCEPT ![made] = "RUNNING_HW"]
                  /\ at' = [at EXCEPT ![made] = "in"]
                  /\ creating' = NoSlot /\ UNCHANGED panic
             ELSE panic' = "delegate" /\ UNCHANGED <<creating, state, at, dt, suspend>>
          /\ UNCHANGED <<up, made, fn, hwslot, exits>>

-----------------------------------------------------------------------------
(* The delegate and the hardware thread of a slot *)

\* The delegate finds SUSPEND set and raises the signal line.
DelegateSuspends(s) ==
  /\ Alive /\ dt[s] /\ suspend[s] /\ suspend' = [suspend EXCEPT ![s] = FALSE]
  /\ UNCHANGED <<startVars, threadVars, rt, dt, exits, hw>>

\* The hardware thread leaves, on its own or because it was asked to.
HwExit(s) ==
  /\ Alive /\ dt[s] /\ hw[s] = "run"
  /\ hw' = [hw EXCEPT ![s] = "reset"] /\ suspend' = [suspend EXCEPT ![s] = FALSE]
  /\ exits' = [exits EXCEPT ![s] = @ + 1]
  /\ UNCHANGED <<startVars, threadVars, rt, dt>>

-----------------------------------------------------------------------------
(* The calls of an application.  at[t] is what the caller knows of thread t *)
(* when it makes a call; the state and the slot are what the code tests.    *)

Goto(t, p) == at' = [at EXCEPT ![t] = p]

\* reconos_thread_suspend (p = "suspend") and _suspend_block (p = "block")
BeginSuspend(t, p) ==
  /\ Alive /\ at[t] = "in"
  /\ IF state[t] # "RUNNING_HW" THEN Panic("not running")
     ELSE IF rt[hwslot[t]] = NoThread THEN Panic("no thread")
     ELSE /\ state' = [state EXCEPT ![t] = "SUSPENDING"]
          /\ suspend' = [suspend EXCEPT ![hwslot[t]] = TRUE]
          /\ Goto(t, p)
          /\ UNCHANGED <<startVars, made, creating, fn, hwslot, rt, dt, exits, hw>>

\* hwslot_suspendthread returns once the flag is gone.
EndSuspend(t) ==
  /\ Alive /\ at[t] = "suspend" /\ ~ suspend[hwslot[t]]
  /\ state' = [state EXCEPT ![t] = "SUSPENDED"] /\ Goto(t, "asked")
  /\ UNCHANGED <<startVars, made, creating, fn, hwslot, slotVars>>

\* hwslot_jointhread, called by suspend_block or by reconos_thread_join
BeginJoin(t) ==
  /\ Alive /\ at[t] \in {"in", "asked", "block"}
  /\ at[t] = "block" => ~ suspend[hwslot[t]]
  /\ IF rt[hwslot[t]] = NoThread
     THEN Panic("no thread")
     ELSE Goto(t, "wait") /\ UNCHANGED <<startVars, made, creating, fn, state, hwslot, slotVars>>

JoinAtOnce(t) == \* mutant: does not wait for the exit
  /\ Alive /\ at[t] = "wait" /\ Goto(t, "reset")
  /\ UNCHANGED <<startVars, made, creating, fn, state, hwslot, slotVars>>
JoinWait(t) ==
  /\ Alive /\ at[t] = "wait" /\ exits[hwslot[t]] > 0
  /\ exits' = [exits EXCEPT ![hwslot[t]] = @ - 1] /\ Goto(t, "reset")
  /\ UNCHANGED <<startVars, made, creating, fn, state, hwslot, rt, dt, suspend, hw>>

\* A thread that was suspended and one that has ended may both be resumed; the
\* state of the latter stays RUNNING_HW.
AfterJoin(t) ==
  IF state[t] = "SUSPENDING" THEN "mark" ELSE IF state[t] = "SUSPENDED" THEN "out" ELSE "left"
JoinKeepsThread(t) == \* mutant: does not clear slot->rt
  /\ Alive /\ at[t] = "reset"
  /\ hw' = [hw EXCEPT ![hwslot[t]] = "reset"] /\ Goto(t, AfterJoin(t))
  /\ UNCHANGED <<startVars, made, creating, fn, state, hwslot, rt, dt, suspend, exits>>
JoinFree(t) ==
  /\ Alive /\ at[t] = "reset"
  /\ hw' = [hw EXCEPT ![hwslot[t]] = "reset"]
  /\ rt' = [rt EXCEPT ![hwslot[t]] = NoThread]
  /\ Goto(t, AfterJoin(t))
  /\ UNCHANGED <<startVars, made, creating, fn, state, hwslot, dt, suspend, exits>>

EndSuspendBlock(t) ==
  /\ Alive /\ at[t] = "mark"
  /\ state' = [state EXCEPT ![t] = "SUSPENDED"] /\ Goto(t, "out")
  /\ UNCHANGED <<startVars, made, creating, fn, hwslot, slotVars>>

\* reconos_thread_resume: the slot it is given is checked and not used, the
\* thread goes back to rt->hwslot.
BeginResume(t) ==
  /\ Alive /\ at[t] \in {"out", "left"}
  /\ IF rt[hwslot[t]] # NoThread THEN Panic("busy")
     ELSE /\ hw' = [hw EXCEPT ![hwslot[t]] = "run"]
          /\ rt' = [rt EXCEPT ![hwslot[t]] = t]
          /\ Goto(t, "resume")
          /\ UNCHANGED <<startVars, made, creating, fn, state, hwslot, dt, suspend, exits>>
EndResume(t) ==
  /\ Alive /\ at[t] = "resume"
  /\ state' = [state EXCEPT ![t] = "RUNNING_HW"] /\ Goto(t, "in")
  /\ UNCHANGED <<startVars, made, creating, fn, hwslot, slotVars>>

Call(t) ==
  \/ BeginSuspend(t, "suspend") \/ BeginSuspend(t, "block") \/ EndSuspend(t)
  \/ BeginJoin(t) \/ JoinWait(t) \/ JoinFree(t) \/ EndSuspendBlock(t)
  \/ BeginResume(t) \/ EndResume(t)

Next ==
  \/ DrvInit \/ InitRuntime \/ AppInit \/ Exit
  \/ \E f \in Functions : Create(f)
  \/ Place
  \/ \E s \in Slots : DelegateSuspends(s) \/ HwExit(s)
  \/ \E t \in Threads : Call(t)

Spec == Init /\ [][Next]_vars

-----------------------------------------------------------------------------
(* Properties *)

\* The two tables agree while several callers change them: the thread a slot
\* names is inside that slot and is allowed to be there, a thread that is inside
\* is the one its slot names, and a slot without a thread is held in reset and
\* keeps no exit for a later join.
SlotsAgree ==
  up \in {"runtime", "ready"} /\ Alive =>
    /\ \A s \in Slots :
         IF rt[s] = NoThread
         THEN hw[s] = "reset" /\ exits[s] = 0 /\ ~ suspend[s]
         ELSE /\ hwslot[rt[s]] = s /\ s \in fn[rt[s]].slots /\ at[rt[s]] \in Inside
              /\ at[rt[s]] \in {"in", "asked", "suspend", "block", "wait", "resume"} =>
                   (hw[s] = "run" <=> exits[s] = 0)
    /\ \A t \in Threads : at[t] \in Inside => rt[hwslot[t]] = t

\* A slot serves one thread for ever: no second one is created in it, even
\* after the first was suspended or has ended, and resume brings a thread back
\* to the slot it came from.
SlotServesOne ==
  Alive => \A t, u \in Threads :
    at[t] # "none" /\ at[u] # "none" /\ hwslot[t] = hwslot[u] => t = u

\* Of the panics on the way of a well-behaved application only one kind can be
\* met: create_auto chose a slot whose thread is suspended or has ended, because
\* such a slot looks free.  No suspend, join or resume ever panics.
PanicOnlyOnReuse ==
  /\ panic \notin {"not running", "no thread"}
  /\ panic \in {"delegate", "busy"} =>
       creating # NoSlot /\ \E t \in Threads : t # made /\ at[t] # "none" /\ hwslot[t] = creating
=============================================================================
