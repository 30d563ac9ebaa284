--------------------------- MODULE RegistryProofs ---------------------------
(***************************************************************************)
(* The slot and thread tables for every number of slots and threads and    *)
(* every set of create functions.                                          *)
(***************************************************************************)
EXTENDS Registry, WellFoundedInduction, TLAPS

\* Before the mailboxes exist nothing was created; the slots are in reset from
\* the first reset of the system on.
StartInv == up # "ready" =>
  /\ made = 0 /\ creating = NoSlot /\ \A t \in Threads : at[t] = "none"
  /\ \A s \in Slots : rt[s] = NoThread /\ ~ dt[s] /\ ~ suspend[s] /\ exits[s] = 0
  /\ up # "off" => \A s \in Slots : hw[s] = "reset"

\* A thread in creation is the newest one and has never run.
CreateInv ==
  /\ \A t \in Threads : t > made => at[t] = "none"
  /\ creating # NoSlot => /\ made \in Threads /\ at[made] = "none"
                          /\ hwslot[made] = creating /\ creating \in fn[made].slots

\* What the place of its caller says of a thread: its state, and whether its slot
\* names it.  A thread that ran once left a delegate behind.
ThreadOK(t) ==
  /\ at[t] # "none" => /\ hwslot[t] \in Slots /\ hwslot[t] \in fn[t].slots
                       /\ dt[hwslot[t]]
  /\ at[t] \in Inside => rt[hwslot[t]] = t
  /\ at[t] \in {"out", "left", "mark"} => rt[hwslot[t]] = NoThread
  /\ at[t] = "in" => state[t] = "RUNNING_HW"
  /\ at[t] \in {"suspend", "block", "mark"} => state[t] = "SUSPENDING"
  /\ at[t] \in {"asked", "out"} => state[t] = "SUSPENDED"

\* A delegate was started for some thread; one exit at most is kept, and it is
\* kept exactly while the hardware that sent it is stopped and not yet joined.
SlotOK(s) ==
  /\ dt[s] => \E t \in Threads : at[t] # "none" /\ hwslot[t] = s
  /\ rt[s] = NoThread => /\ exits[s] = 0 /\ ~ suspend[s]
                         /\ up # "off" => hw[s] = "reset"
  /\ rt[s] # NoThread =>
       /\ hwslot[rt[s]] = s /\ at[rt[s]] \in Inside
       /\ IF at[rt[s]] = "reset" THEN exits[s] = 0 /\ hw[s] = "reset"
          ELSE \/ exits[s] = 0 /\ hw[s] = "run"
               \/ exits[s] = 1 /\ hw[s] = "reset"
       /\ suspend[s] => at[rt[s]] \in {"suspend", "block"}

TableInv == Alive =>
  /\ \A t \in Threads : ThreadOK(t)
  /\ \A s \in Slots : SlotOK(s)

IInv ==
  TypeOK /\ StartInv /\ CreateInv /\ TableInv /\ SlotServesOne /\ PanicOnlyOnReuse

-----------------------------------------------------------------------------
(* Choosing a slot *)

\* The least of some numbers is one of them.
LEMMA MinIsElement ==
  ASSUME NEW S \in SUBSET Nat, S # {} PROVE Min(S) \in S
  <1>1. PICK x \in S : \A y \in S : ~ (<<y, x>> \in OpToRel(<, Nat))
    BY NatLessThanWellFounded, WFMin
  <1>2. ASSUME NEW y \in S PROVE x =< y
    <2>1. x \in Nat /\ y \in Nat
      OBVIOUS
    <2>2. y < x => <<y, x>> \in OpToRel(<, Nat)
      BY ONLY <2>1 DEF OpToRel
    <2>3. ~ (<<y, x>> \in OpToRel(<, Nat))
      BY <1>1
    <2>4. ~ (y < x)
      BY <2>2, <2>3
    <2> QED BY <2>1, <2>4
  <1> QED BY <1>2, Zenon DEF Min

\* The scan ends at a free slot that the function allows, if there is one.
LEMMA ScanFindsFree ==
  ASSUME TypeOK, NEW f \in Functions
  PROVE  /\ Scan(f) \in Slots \cup {NoSlot}
         /\ Scan(f) # NoSlot => Scan(f) \in f.slots /\ rt[Scan(f)] = NoThread
  <1>1. CASE Free(f) = {}
    BY <1>1 DEF Scan
  <1>2. CASE Free(f) # {}
    <2>1. NumHwts \in Nat /\ f.slots \subseteq Slots
      BY RegistryAssumption
    <2>2. Free(f) \subseteq Slots
      BY <2>1 DEF Free
    <2>3. Free(f) \subseteq Nat
      BY <2>1, <2>2 DEF Slots
    <2>4. Min(Free(f)) \in Free(f)
      BY <1>2, <2>3, MinIsElement
    <2> QED BY <1>2, <2>2, <2>4 DEF Scan, Free
  <1> QED BY <1>1, <1>2

-----------------------------------------------------------------------------
(* Types *)

LEMMA NextTypes ==
  ASSUME TypeOK, StartInv, CreateInv, TableInv, [Next]_vars PROVE TypeOK'
  <1> USE RegistryAssumption DEF TypeOK, startVars, threadVars, slotVars, Panics
  <1>1. CASE DrvInit \/ InitRuntime \/ AppInit \/ Exit
    <2>1. CASE DrvInit
      BY <2>1 DEF DrvInit, Panic, AllReset
    <2>2. CASE InitRuntime
      <3>1. CASE panic' = "startup"
        BY <2>2, <3>1 DEF InitRuntime, Panic, Alive
      <3>2. CASE panic' # "startup"
        <4>1. /\ up' = "runtime" /\ UNCHANGED <<panic, threadVars>>
              /\ rt' = [s \in Slots |-> NoThread] /\ dt' = [s \in Slots |-> FALSE]
              /\ suspend' = [s \in Slots |-> FALSE] /\ exits' = [s \in Slots |-> 0]
              /\ hw' = [s \in Slots |-> "reset"]
          BY <2>2, <3>2 DEF InitRuntime, Panic, AllReset
        <4>2. exits' \in [Slots -> Nat] /\ hw' \in [Slots -> {"reset", "run"}]
          BY <4>1
        <4> QED BY <4>1, <4>2
      <3> QED BY <3>1, <3>2
    <2>3. CASE AppInit \/ Exit
      BY <2>3 DEF AppInit, Exit, AllReset
    <2> QED BY <1>1, <2>1, <2>2, <2>3
  <1>2. ASSUME NEW f \in Functions, Create(f) PROVE TypeOK'
    <2>1. made' = made + 1 /\ made' \in Threads /\ made' \in 0 .. MaxThreads
      <3>1. made \in 0 .. MaxThreads /\ MaxThreads \in Nat /\ made < MaxThreads /\ made' = made + 1
        BY <1>2 DEF Create, ThreadInit
      <3> QED BY ONLY <3>1 DEF Threads
    <2>2. fn' \in [Threads -> Functions \cup {SwtSaw}]
      BY <1>2, <2>1 DEF Create, ThreadInit
    <2>3. creating' \in Slots \cup {NoSlot} /\ hwslot' \in [Threads -> Slots \cup {NoSlot}]
      BY <1>2, <2>1, ScanFindsFree DEF Create
    <2> QED BY <1>2, <2>1, <2>2, <2>3 DEF Create
  <1>3. CASE Place
    <2>1. made \in Threads /\ creating \in Slots
      BY <1>3 DEF Place, CreateInv
    <2>2. CASE rt[creating] # NoThread
      BY <1>3, <2>2 DEF Place, Panic
    <2>3. CASE rt[creating] = NoThread /\ NoDelegate(creating)
      <3>1. /\ rt' = [rt EXCEPT ![creating] = made] /\ hw' = [hw EXCEPT ![creating] = "run"]
            /\ dt' = [dt EXCEPT ![creating] = TRUE] /\ suspend' = [suspend EXCEPT ![creating] = FALSE]
            /\ state' = [state EXCEPT ![made] = "RUNNING_HW"] /\ at' = [at EXCEPT ![made] = "in"]
            /\ creating' = NoSlot /\ UNCHANGED <<panic, up, made, fn, hwslot, exits>>
        BY <1>3, <2>3 DEF Place
      <3>2. rt' \in [Slots -> Threads \cup {NoThread}] /\ hw' \in [Slots -> {"reset", "run"}]
        BY <2>1, <3>1
      <3>3. state' \in [Threads -> States] /\ at' \in [Threads -> Outside \cup Inside]
        BY <2>1, <3>1 DEF States, Inside
      <3> QED BY <2>1, <3>1, <3>2, <3>3
    <2>4. CASE rt[creating] = NoThread /\ ~ NoDelegate(creating)
      BY <1>3, <2>1, <2>4 DEF Place
    <2> QED BY <2>2, <2>3, <2>4
  <1>4. ASSUME NEW s \in Slots, DelegateSuspends(s) \/ HwExit(s) PROVE TypeOK'
    <2>1. CASE DelegateSuspends(s)
      BY <2>1 DEF DelegateSuspends
    <2>2. CASE HwExit(s)
      <3>1. exits' = [exits EXCEPT ![s] = @ + 1] /\ exits \in [Slots -> Nat]
        BY <2>2 DEF HwExit
      <3>2. exits[s] \in Nat
        BY <3>1
      <3>3. exits' \in [Slots -> Nat]
        BY ONLY <3>1, <3>2
      <3> QED BY <2>2, <3>3 DEF HwExit
    <2> QED BY <1>4, <2>1, <2>2
  <1>5. ASSUME NEW t \in Threads, Call(t) PROVE TypeOK'
    <2> USE DEF Goto, Panic, States, Outside, Inside
    <2>1. at[t] \in Inside => hwslot[t] \in Slots /\ (Alive => rt[hwslot[t]] = t)
      BY <1>5 DEF TableInv, ThreadOK, Call, BeginSuspend, EndSuspend, BeginJoin, JoinWait,
         JoinFree, EndSuspendBlock, BeginResume, EndResume
    <2>2. CASE BeginSuspend(t, "suspend") \/ BeginSuspend(t, "block") \/ EndSuspend(t)
      BY <2>2 DEF BeginSuspend, EndSuspend
    <2>3. CASE BeginJoin(t)
      BY <2>3 DEF BeginJoin
    <2>4. CASE JoinWait(t)
      <3>1. hwslot[t] \in Slots /\ exits[hwslot[t]] \in Nat /\ exits[hwslot[t]] > 0
        BY <2>1, <2>4 DEF JoinWait
      <3>2. exits[hwslot[t]] - 1 \in Nat
        BY ONLY <3>1
      <3> QED BY <2>4, <3>1, <3>2 DEF JoinWait
    <2>5. CASE JoinFree(t)
      BY <2>5 DEF JoinFree, AfterJoin
    <2>6. CASE EndSuspendBlock(t) \/ BeginResume(t) \/ EndResume(t)
      BY <2>6 DEF EndSuspendBlock, BeginResume, EndResume
    <2> QED BY <1>5, <2>2, <2>3, <2>4, <2>5, <2>6 DEF Call
  <1>6. CASE UNCHANGED vars
    BY <1>6 DEF vars
  <1> QED BY <1>1, <1>2, <1>3, <1>4, <1>5, <1>6 DEF Next

-----------------------------------------------------------------------------
(* Calls *)

\* What a call for thread t leaves alone: the other threads, the other slots,
\* and the delegate of its own.
Shape(t) ==
  /\ at'[t] # "none" /\ \A u \in Threads \ {t} : at'[u] = at[u] /\ state'[u] = state[u]
  /\ \A s \in Slots \ {hwslot[t]} :
       rt'[s] = rt[s] /\ suspend'[s] = suspend[s] /\ exits'[s] = exits[s] /\ hw'[s] = hw[s]
  /\ UNCHANGED <<up, panic, made, creating, fn, hwslot, dt>>

LEMMA CallFrame ==
  ASSUME IInv, Alive, NEW t \in Threads, at[t] # "none", NEW h \in Slots, h = hwslot[t],
         Shape(t), ThreadOK(t)', SlotOK(h)'
  PROVE  StartInv' /\ CreateInv' /\ TableInv' /\ SlotServesOne' /\ PanicOnlyOnReuse'
  <1>2. \A u \in Threads : at[u] # "none" <=> at'[u] # "none"
    BY DEF Shape
  <1>3. StartInv'
    BY DEF Shape, StartInv, IInv
  <1>4. CreateInv' /\ SlotServesOne'
    BY <1>2 DEF Shape, CreateInv, SlotServesOne, IInv, Alive
  <1>5. PanicOnlyOnReuse'
    BY DEF Shape, PanicOnlyOnReuse, IInv, Alive
  <1>6. ASSUME NEW u \in Threads \ {t} PROVE ThreadOK(u)'
    <2>1. at'[u] = at[u] /\ state'[u] = state[u] /\ ThreadOK(u)
      BY DEF Shape, IInv, TableInv
    <2>2. at[u] = "none" \/ (hwslot[u] \in Slots /\ hwslot[u] # hwslot[t])
      BY <2>1 DEF IInv, SlotServesOne, ThreadOK
    <2> QED BY <2>1, <2>2 DEF Shape, ThreadOK, Inside
  <1>7. ASSUME NEW s \in Slots \ {hwslot[t]} PROVE SlotOK(s)'
    <2>1. SlotOK(s) /\ rt[s] \in Threads \cup {NoThread}
      BY DEF IInv, TableInv, TypeOK
    <2>2. rt[s] # NoThread => rt[s] \in Threads \ {t}
      BY <2>1 DEF SlotOK
    <2>3. dt'[s] => \E u \in Threads : at'[u] # "none" /\ hwslot'[u] = s
      BY <1>2, <2>1 DEF Shape, SlotOK
    <2>4. rt'[s] = NoThread => exits'[s] = 0 /\ ~ suspend'[s] /\ (up' # "off" => hw'[s] = "reset")
      BY <2>1 DEF Shape, SlotOK
    <2>5. rt[s] # NoThread => at'[rt[s]] = at[rt[s]]
      BY <2>2 DEF Shape
    <2> QED BY <2>1, <2>3, <2>4, <2>5 DEF Shape, SlotOK
  <1>8. (\A u \in Threads : ThreadOK(u)') /\ (\A s \in Slots : SlotOK(s)')
    BY <1>6, <1>7
  <1> QED BY <1>3, <1>4, <1>5, <1>8 DEF TableInv

LEMMA CallStep ==
  ASSUME IInv, NEW t \in Threads, Call(t)
  PROVE  StartInv' /\ CreateInv' /\ TableInv' /\ SlotServesOne' /\ PanicOnlyOnReuse'
  <1>0. Alive /\ at[t] # "none" /\ hwslot[t] \in Slots /\ ThreadOK(t) /\ SlotOK(hwslot[t])
    BY DEF Call, BeginSuspend, EndSuspend, BeginJoin, JoinWait, JoinFree, EndSuspendBlock,
       BeginResume, EndResume, IInv, TableInv, ThreadOK, Inside
  <1> PICK h \in Slots : h = hwslot[t]
    BY <1>0
  <1>1. Alive /\ at[t] # "none" /\ h = hwslot[t] /\ ThreadOK(t) /\ SlotOK(h)
    BY <1>0
  <1>2. SUFFICES Shape(t) /\ ThreadOK(t)' /\ SlotOK(h)'
    BY <1>1, CallFrame
  <1> USE DEF ThreadOK, SlotOK, Inside, Shape, Goto, Panic
  <1>3. at \in [Threads -> Outside \cup Inside] /\ state \in [Threads -> States]
        /\ rt \in [Slots -> Threads \cup {NoThread}] /\ suspend \in [Slots -> BOOLEAN]
        /\ exits \in [Slots -> Nat] /\ hw \in [Slots -> {"reset", "run"}]
    BY DEF IInv, TypeOK
  <1>4. up # "off"
    BY <1>1 DEF IInv, StartInv
  <1>5. ASSUME NEW p \in {"suspend", "block"}, BeginSuspend(t, p)
        PROVE  Shape(t) /\ ThreadOK(t)' /\ SlotOK(h)'
    <2>0. state[t] = "RUNNING_HW" /\ rt[h] = t /\ t # NoThread /\ at[t] = "in"
      <3>1. t # NoThread
        BY DEF NoThread, Threads
      <3> QED BY <1>1, <1>5, <3>1 DEF BeginSuspend
    <2>1. /\ state' = [state EXCEPT ![t] = "SUSPENDING"] /\ at' = [at EXCEPT ![t] = p]
          /\ suspend' = [suspend EXCEPT ![h] = TRUE]
          /\ UNCHANGED <<startVars, made, creating, fn, hwslot, rt, dt, exits, hw>>
      BY <1>1, <1>5, <2>0 DEF BeginSuspend
    <2>2. p \in Inside /\ p # "none"
      OBVIOUS
    <2>3. Shape(t)
      BY <1>1, <1>3, <2>1, <2>2 DEF startVars
    <2>4. ThreadOK(t)'
      BY <1>1, <1>3, <2>0, <2>1, <2>2 DEF startVars
    <2>5. SlotOK(h)'
      BY <1>1, <1>3, <1>4, <2>0, <2>1, <2>2 DEF startVars
    <2> QED BY <2>3, <2>4, <2>5
  <1>6. CASE EndSuspend(t)
    BY <1>1, <1>3, <1>4, <1>6 DEF EndSuspend, slotVars, startVars
  <1>7. CASE BeginJoin(t)
    <2>1. at' = [at EXCEPT ![t] = "wait"] /\ at[t] \in {"in", "asked", "block"}
          /\ (at[t] = "block" => ~ suspend[h])
          /\ UNCHANGED <<startVars, made, creating, fn, state, hwslot, slotVars>>
      <3>1. t # NoThread
        BY DEF NoThread, Threads
      <3>2. rt[h] = t /\ at[t] \in {"in", "asked", "block"} /\ (at[t] = "block" => ~ suspend[h])
        BY <1>1, <1>7 DEF BeginJoin
      <3> QED BY <1>1, <1>7, <3>1, <3>2 DEF BeginJoin
    <2> QED BY <1>1, <1>3, <1>4, <2>1 DEF slotVars, startVars
  <1>8. CASE JoinWait(t)
    BY <1>1, <1>3, <1>4, <1>8 DEF JoinWait, startVars
  <1>9. CASE JoinFree(t)
    BY <1>1, <1>3, <1>4, <1>9 DEF JoinFree, AfterJoin, startVars
  <1>10. CASE EndSuspendBlock(t)
    BY <1>1, <1>3, <1>4, <1>10 DEF EndSuspendBlock, slotVars, startVars
  <1>11. CASE BeginResume(t)
    <2>1. /\ hw' = [hw EXCEPT ![h] = "run"] /\ rt' = [rt EXCEPT ![h] = t]
          /\ at' = [at EXCEPT ![t] = "resume"] /\ at[t] \in {"out", "left"}
          /\ UNCHANGED <<startVars, made, creating, fn, state, hwslot, dt, suspend, exits>>
      BY <1>1, <1>11 DEF BeginResume
    <2>2. t # NoThread
      BY DEF NoThread, Threads
    <2> QED BY <1>1, <1>3, <1>4, <2>1, <2>2 DEF startVars
  <1>12. CASE EndResume(t)
    BY <1>1, <1>3, <1>4, <1>12 DEF EndResume, slotVars, startVars
  <1> QED BY <1>5, <1>6, <1>7, <1>8, <1>9, <1>10, <1>11, <1>12 DEF Call

LEMMA SlotStep ==
  ASSUME IInv, NEW s \in Slots, DelegateSuspends(s) \/ HwExit(s)
  PROVE  StartInv' /\ CreateInv' /\ TableInv' /\ SlotServesOne' /\ PanicOnlyOnReuse'
  <1>1. Alive /\ dt[s] /\ SlotOK(s)
    BY DEF DelegateSuspends, HwExit, IInv, TableInv
  <1>2. up # "off"
    BY <1>1 DEF IInv, StartInv
  <1>3. rt[s] \in Threads /\ hwslot[rt[s]] = s /\ at[rt[s]] \in Inside
    BY <1>1, <1>2 DEF DelegateSuspends, HwExit, SlotOK, IInv, TypeOK
  <1> PICK t \in Threads : t = rt[s]
    BY <1>3
  <1>4. at \in [Threads -> Outside \cup Inside] /\ suspend \in [Slots -> BOOLEAN]
        /\ exits \in [Slots -> Nat] /\ hw \in [Slots -> {"reset", "run"}]
    BY DEF IInv, TypeOK
  <1>5. Shape(t)
    BY <1>3, <1>4 DEF Shape, DelegateSuspends, HwExit, startVars, threadVars, Inside
  <1>6. SlotOK(s)'
    BY <1>1, <1>2, <1>3, <1>4 DEF SlotOK, DelegateSuspends, HwExit, startVars, threadVars
  <1>7. ThreadOK(t)'
    BY <1>1, <1>3 DEF IInv, TableInv, ThreadOK, DelegateSuspends, HwExit, startVars, threadVars
  <1>8. at[t] # "none" /\ s = hwslot[t]
    BY <1>3 DEF Inside
  <1> QED BY <1>1, <1>5, <1>6, <1>7, <1>8, CallFrame

-----------------------------------------------------------------------------
(* Start-up and creation *)

LEMMA StartStep ==
  ASSUME IInv, DrvInit \/ InitRuntime \/ AppInit \/ Exit
  PROVE  StartInv' /\ CreateInv' /\ TableInv' /\ SlotServesOne' /\ PanicOnlyOnReuse'
  <1> USE DEF startVars, threadVars, slotVars
  <1>1. panic = "none"
    BY DEF DrvInit, InitRuntime, AppInit, Exit, Alive
  <1>2. CASE panic' # "none"
    <2>1. panic' \in {"startup", "exit"} /\ UNCHANGED <<up, threadVars, rt, dt, suspend, exits>>
      BY <1>1, <1>2 DEF DrvInit, InitRuntime, AppInit, Exit, Panic
    <2>2. panic' = "startup" => hw' = hw
      BY <1>1, <1>2 DEF DrvInit, InitRuntime, AppInit, Exit, Panic
    <2>3. panic' = "exit" => up = "ready"
      BY <1>1, <1>2 DEF DrvInit, InitRuntime, AppInit, Exit, Panic
    <2>4. StartInv'
      BY <2>1, <2>2, <2>3 DEF StartInv, IInv
    <2>5. CreateInv'
      BY <2>1 DEF CreateInv, IInv
    <2>6. TableInv' /\ SlotServesOne' /\ PanicOnlyOnReuse'
      BY <2>1 DEF TableInv, SlotServesOne, PanicOnlyOnReuse, Alive
    <2> QED BY <2>4, <2>5, <2>6
  <1>3. CASE panic' = "none" /\ up # "ready"
    <2>0. /\ made = 0 /\ creating = NoSlot /\ \A t \in Threads : at[t] = "none"
          /\ \A s \in Slots : rt[s] = NoThread /\ ~ dt[s] /\ ~ suspend[s] /\ exits[s] = 0
          /\ up # "off" => \A s \in Slots : hw[s] = "reset"
      BY <1>3 DEF IInv, StartInv
    <2>1. /\ UNCHANGED <<threadVars>> /\ panic' = "none"
          /\ \A t \in Threads : at'[t] = "none"
      BY <1>1, <1>3, <2>0 DEF DrvInit, InitRuntime, AppInit, Exit, Panic
    <2>2. ASSUME NEW s \in Slots
          PROVE rt'[s] = NoThread /\ ~ dt'[s] /\ ~ suspend'[s] /\ exits'[s] = 0 /\ hw'[s] = "reset"
      <3>1. CASE DrvInit
        BY <1>1, <1>3, <2>0, <3>1 DEF DrvInit, Panic, AllReset
      <3>2. CASE InitRuntime
        BY <1>1, <1>3, <2>0, <3>2 DEF InitRuntime, Panic, AllReset
      <3>3. CASE AppInit
        BY <2>0, <3>3 DEF AppInit
      <3>4. ~ Exit
        BY <1>3 DEF Exit
      <3> QED BY <3>1, <3>2, <3>3, <3>4
    <2>3. StartInv' /\ CreateInv'
      BY <2>0, <2>1, <2>2 DEF StartInv, CreateInv
    <2>4. SlotServesOne' /\ PanicOnlyOnReuse'
      BY <2>1 DEF SlotServesOne, PanicOnlyOnReuse
    <2>5. ASSUME NEW t \in Threads PROVE ThreadOK(t)'
      BY <2>1 DEF ThreadOK, Inside
    <2>6. ASSUME NEW s \in Slots PROVE SlotOK(s)'
      BY <2>2 DEF SlotOK
    <2> QED BY <2>3, <2>4, <2>5, <2>6 DEF TableInv
  <1>4. CASE panic' = "none" /\ up = "ready"
    BY <1>4 DEF DrvInit, InitRuntime, AppInit, Exit
  <1> QED BY <1>2, <1>3, <1>4

LEMMA CreateStep ==
  ASSUME IInv, NEW f \in Functions, Create(f)
  PROVE  StartInv' /\ CreateInv' /\ TableInv' /\ SlotServesOne' /\ PanicOnlyOnReuse'
  <1>1. /\ made \in 0 .. MaxThreads /\ MaxThreads \in Nat
        /\ fn \in [Threads -> Functions \cup {SwtSaw}]
        /\ hwslot \in [Threads -> Slots \cup {NoSlot}]
        /\ Alive /\ creating = NoSlot
    BY RegistryAssumption DEF IInv, TypeOK, Create
  <1> PICK n \in Threads : n = made + 1
    BY <1>1 DEF Create, Threads
  <1>2. /\ made' = n /\ at[n] = "none" /\ \A t \in Threads : t > made' => at[t] = "none"
    <2>1. \A t \in Threads : t > made => at[t] = "none"
      BY DEF IInv, CreateInv
    <2>2. n > made /\ \A t \in Threads : t > n => t > made
      BY <1>1 DEF Threads
    <2> QED BY <2>1, <2>2 DEF Create, ThreadInit
  <1>3. \A t \in Threads \ {n} : fn'[t] = fn[t] /\ hwslot'[t] = hwslot[t]
    BY <1>1 DEF Create, ThreadInit
  <1>4. UNCHANGED <<up, panic, state, at, rt, dt, suspend, exits, hw>>
    BY DEF Create, startVars, slotVars
  <1>5. creating' # NoSlot => hwslot'[n] = creating' /\ creating' \in fn'[n].slots
    BY <1>1, ScanFindsFree DEF Create, ThreadInit, IInv
  <1>6. CreateInv'
    BY <1>2, <1>4, <1>5 DEF CreateInv
  <1>7. StartInv'
    BY <1>4 DEF StartInv, Create
  <1>8. SlotServesOne'
    <2>1. \A t \in Threads : at'[t] # "none" => t # n /\ at[t] # "none"
      BY <1>2, <1>4
    <2> QED BY <1>1, <1>3, <2>1 DEF IInv, SlotServesOne, Alive
  <1>9. PanicOnlyOnReuse'
    BY <1>1, <1>4 DEF PanicOnlyOnReuse, Alive
  <1>10. ASSUME NEW t \in Threads PROVE ThreadOK(t)'
    BY <1>1, <1>2, <1>3, <1>4 DEF ThreadOK, IInv, TableInv, Inside
  <1>11. ASSUME NEW s \in Slots PROVE SlotOK(s)'
    <2>1. SlotOK(s) /\ rt[s] \in Threads \cup {NoThread}
      BY <1>1 DEF IInv, TableInv, TypeOK
    <2>2. dt[s] => \E t \in Threads : at'[t] # "none" /\ hwslot'[t] = s
      BY <1>2, <1>3, <1>4, <2>1 DEF SlotOK
    <2>3. rt[s] # NoThread => rt[s] \in Threads \ {n}
      BY <1>2, <2>1 DEF SlotOK, Inside
    <2> QED BY <1>3, <1>4, <2>1, <2>2, <2>3 DEF SlotOK
  <1> QED BY <1>6, <1>7, <1>8, <1>9, <1>10, <1>11 DEF TableInv

\* A slot in which a thread has run is left by a panic; otherwise the thread
\* finds it as start-up left it.
LEMMA PlaceStep ==
  ASSUME IInv, Place
  PROVE  StartInv' /\ CreateInv' /\ TableInv' /\ SlotServesOne' /\ PanicOnlyOnReuse'
  <1>1. /\ Alive /\ creating \in Slots /\ made \in Threads /\ at[made] = "none"
        /\ hwslot[made] = creating /\ creating \in fn[made].slots
        /\ up = "ready" /\ made # NoThread
    BY DEF Place, IInv, TypeOK, CreateInv, StartInv, Threads, NoThread
  <1> PICK h \in Slots, n \in Threads : h = creating /\ n = made
    BY <1>1
  <1>2. SlotOK(h) /\ rt[h] \in Threads \cup {NoThread}
    BY <1>1 DEF IInv, TableInv, TypeOK
  <1>3. CASE rt[h] # NoThread \/ dt[h]
    <2>1. /\ panic' \in {"busy", "delegate"}
          /\ UNCHANGED <<up, made, creating, fn, hwslot, at>>
      BY <1>1, <1>3 DEF Place, Panic, NoDelegate, threadVars
    <2>2. PICK t \in Threads : at[t] # "none" /\ hwslot[t] = h
      BY <1>2, <1>3 DEF SlotOK, Inside
    <2>3. PanicOnlyOnReuse'
      BY <1>1, <2>1, <2>2 DEF PanicOnlyOnReuse, Place
    <2>4. TableInv' /\ SlotServesOne'
      BY <2>1 DEF TableInv, SlotServesOne, Alive
    <2> QED BY <1>1, <2>1, <2>3, <2>4 DEF StartInv, CreateInv, IInv
  <1>4. CASE rt[h] = NoThread /\ ~ dt[h]
    <2>1. /\ rt' = [rt EXCEPT ![h] = n] /\ hw' = [hw EXCEPT ![h] = "run"]
          /\ dt' = [dt EXCEPT ![h] = TRUE] /\ suspend' = [suspend EXCEPT ![h] = FALSE]
          /\ state' = [state EXCEPT ![n] = "RUNNING_HW"] /\ at' = [at EXCEPT ![n] = "in"]
          /\ creating' = NoSlot /\ UNCHANGED <<panic, up, made, fn, hwslot, exits>>
      BY <1>1, <1>4 DEF Place, NoDelegate
    <2>2. /\ at \in [Threads -> Outside \cup Inside] /\ state \in [Threads -> States]
          /\ rt \in [Slots -> Threads \cup {NoThread}] /\ suspend \in [Slots -> BOOLEAN]
          /\ dt \in [Slots -> BOOLEAN] /\ hw \in [Slots -> {"reset", "run"}]
      BY DEF IInv, TypeOK
    <2>3. \A t \in Threads : at[t] # "none" => ThreadOK(t) /\ hwslot[t] # h
      BY <1>1, <1>4 DEF IInv, TableInv, ThreadOK
    <2>4. SlotServesOne'
      BY <1>1, <2>1, <2>2, <2>3 DEF SlotServesOne, IInv, Alive
    <2>5. ASSUME NEW t \in Threads PROVE ThreadOK(t)'
      BY <1>1, <2>1, <2>2, <2>3 DEF ThreadOK, Inside
    <2>6. ASSUME NEW s \in Slots PROVE SlotOK(s)'
      <3>1. CASE s = h
        BY <1>1, <1>2, <1>4, <2>1, <2>2, <3>1 DEF SlotOK, Inside
      <3>2. CASE s # h
        <4>1. SlotOK(s) /\ rt[s] \in Threads \cup {NoThread}
          BY <1>1 DEF IInv, TableInv, TypeOK
        <4>2. rt[s] # NoThread => rt[s] # n
          BY <1>1, <4>1 DEF SlotOK, Inside
        <4> QED BY <1>1, <2>1, <2>2, <3>2, <4>1, <4>2 DEF SlotOK
      <3> QED BY <3>1, <3>2
    <2>7. CreateInv' /\ StartInv'
      BY <1>1, <2>1, <2>2 DEF IInv, CreateInv, StartInv, TypeOK, Threads
    <2>8. PanicOnlyOnReuse'
      BY <1>1, <2>1 DEF PanicOnlyOnReuse, Alive
    <2> QED BY <2>4, <2>5, <2>6, <2>7, <2>8 DEF TableInv
  <1> QED BY <1>3, <1>4

-----------------------------------------------------------------------------
(* The theorems *)

LEMMA InitIInv == Init => IInv
  <1> SUFFICES ASSUME Init PROVE IInv
    OBVIOUS
  <1>1. 0 \in 0 .. MaxThreads
    BY RegistryAssumption
  <1>2. TypeOK
    BY <1>1 DEF Init, TypeOK, Panics, States, Outside
  <1>3. StartInv /\ CreateInv /\ TableInv
    BY DEF Init, StartInv, CreateInv, TableInv, ThreadOK, SlotOK, Inside
  <1>4. SlotServesOne /\ PanicOnlyOnReuse
    BY DEF Init, SlotServesOne, PanicOnlyOnReuse
  <1> QED BY <1>2, <1>3, <1>4 DEF IInv

LEMMA NextIInv == IInv /\ [Next]_vars => IInv'
  <1> SUFFICES ASSUME IInv, [Next]_vars PROVE IInv'
    OBVIOUS
  <1>1. TypeOK'
    BY NextTypes DEF IInv
  <1>2. CASE UNCHANGED vars
    <2> USE DEF vars, startVars, threadVars, slotVars
    <2>1. StartInv' /\ CreateInv' /\ SlotServesOne' /\ PanicOnlyOnReuse'
      BY <1>2 DEF IInv, StartInv, CreateInv, SlotServesOne, PanicOnlyOnReuse, Alive
    <2>2. TableInv'
      BY <1>2 DEF IInv, TableInv, ThreadOK, SlotOK, Alive
    <2> QED BY <1>1, <2>1, <2>2 DEF IInv
  <1>3. CASE Next
    BY <1>1, <1>3, StartStep, CreateStep, PlaceStep, SlotStep, CallStep DEF IInv, Next
  <1> QED BY <1>2, <1>3

\* The invariant from which the rest follows.
THEOREM InductiveInvariant == Spec => []IInv
  BY InitIInv, NextIInv, PTL DEF Spec

\* Every variable of the tables keeps its type.
THEOREM TypeCorrect == Spec => []TypeOK
  <1>1. IInv => TypeOK
    BY DEF IInv
  <1> QED BY <1>1, InductiveInvariant, PTL

\* The table of the slots and that of the threads never contradict each other,
\* however the calls for different threads interleave.
THEOREM TablesAgree == Spec => []SlotsAgree
  <1>1. IInv => SlotsAgree
    <2> SUFFICES ASSUME IInv, up \in {"runtime", "ready"}, Alive PROVE SlotsAgree
      BY DEF SlotsAgree
    <2>1. ASSUME NEW t \in Threads, at[t] \in Inside PROVE rt[hwslot[t]] = t
      BY <2>1 DEF IInv, TableInv, ThreadOK
    <2>2. ASSUME NEW s \in Slots
          PROVE IF rt[s] = NoThread
                THEN hw[s] = "reset" /\ exits[s] = 0 /\ ~ suspend[s]
                ELSE /\ hwslot[rt[s]] = s /\ s \in fn[rt[s]].slots /\ at[rt[s]] \in Inside
                     /\ at[rt[s]] \in {"in", "asked", "suspend", "block", "wait", "resume"} =>
                          (hw[s] = "run" <=> exits[s] = 0)
      <3>1. SlotOK(s) /\ rt[s] \in Threads \cup {NoThread}
        BY DEF IInv, TableInv, TypeOK
      <3>2. CASE rt[s] = NoThread
        BY <3>1, <3>2 DEF SlotOK
      <3>3. CASE rt[s] # NoThread
        <4>1. ThreadOK(rt[s]) /\ hwslot[rt[s]] = s /\ at[rt[s]] \in Inside
          BY <3>1, <3>3 DEF IInv, TableInv, SlotOK
        <4>2. s \in fn[rt[s]].slots
          BY <4>1 DEF ThreadOK, Inside
        <4>3. at[rt[s]] # "reset" => (hw[s] = "run" <=> exits[s] = 0)
          BY <3>1, <3>3 DEF SlotOK
        <4> QED BY <3>3, <4>1, <4>2, <4>3
      <3> QED BY <3>2, <3>3
    <2> QED BY <2>1, <2>2 DEF SlotsAgree
  <1> QED BY <1>1, InductiveInvariant, PTL

\* At most one thread is ever created in a slot.
THEOREM OneThreadPerSlot == Spec => []SlotServesOne
  <1>1. IInv => SlotServesOne
    BY DEF IInv
  <1> QED BY <1>1, InductiveInvariant, PTL

\* The only panic after start-up is the reuse of a slot whose thread is out.
THEOREM OnlyReusePanics == Spec => []PanicOnlyOnReuse
  <1>1. IInv => PanicOnlyOnReuse
    BY DEF IInv
  <1> QED BY <1>1, InductiveInvariant, PTL

\* No thread is touched before start-up is over.
FreshInv == up # "ready" =>
  /\ fn = [t \in Threads |-> SwtSaw] /\ state = [t \in Threads |-> "INIT"]
  /\ hwslot = [t \in Threads |-> NoSlot]

LEMMA NextFresh == IInv /\ FreshInv /\ [Next]_vars => FreshInv'
  <1> SUFFICES ASSUME IInv, FreshInv, [Next]_vars, up' # "ready" PROVE UNCHANGED <<fn, state, hwslot>> /\ up # "ready"
    BY DEF FreshInv
  <1>1. CASE DrvInit \/ InitRuntime \/ AppInit \/ Exit
    BY <1>1 DEF DrvInit, InitRuntime, AppInit, Exit, Panic, threadVars
  <1>2. ASSUME NEW f \in Functions, Create(f) PROVE FALSE
    BY <1>2 DEF Create, startVars
  <1>3. CASE Place
    <2>1. up = "ready"
      BY <1>3 DEF Place, IInv, StartInv
    <2> QED BY <1>3, <2>1 DEF Place, Panic
  <1>4. ASSUME NEW s \in Slots, DelegateSuspends(s) \/ HwExit(s) PROVE FALSE
    <2>1. up = "ready"
      BY <1>4 DEF DelegateSuspends, HwExit, IInv, StartInv
    <2> QED BY <1>4, <2>1 DEF DelegateSuspends, HwExit, startVars
  <1>5. ASSUME NEW t \in Threads, Call(t) PROVE FALSE
    <2>1. at[t] # "none"
      BY <1>5 DEF Call, BeginSuspend, EndSuspend, BeginJoin, JoinWait, JoinFree, EndSuspendBlock,
         BeginResume, EndResume
    <2>2. up = "ready"
      BY <2>1 DEF IInv, StartInv
    <2>3. up' = up
      BY <1>5 DEF Call, BeginSuspend, EndSuspend, BeginJoin, JoinWait, JoinFree, EndSuspendBlock,
         BeginResume, EndResume, Panic, startVars
    <2> QED BY <2>2, <2>3
  <1>6. CASE UNCHANGED vars
    BY <1>6 DEF vars, startVars, threadVars
  <1> QED BY <1>1, <1>2, <1>3, <1>4, <1>5, <1>6 DEF Next

\* reconos_init and reconos_app_init leave empty tables and every slot in reset,
\* whatever state the design was in: the state the slots of HwSlot start from.
THEOREM StartUpLeavesReady == Spec => [][AppInit => Ready']_vars
  <1>1. Init => FreshInv
    BY DEF Init, FreshInv
  <1>2. IInv /\ FreshInv /\ [Next]_vars => [AppInit => Ready']_vars
    <2> SUFFICES ASSUME IInv, FreshInv, AppInit PROVE Ready'
      OBVIOUS
    <2>1. /\ up = "runtime" /\ up' = "ready" /\ panic = "none"
          /\ UNCHANGED <<panic, threadVars, slotVars>>
      BY DEF AppInit, Alive
    <2>2. /\ made = 0 /\ creating = NoSlot /\ \A t \in Threads : at[t] = "none"
          /\ \A s \in Slots : /\ rt[s] = NoThread /\ dt[s] = FALSE /\ suspend[s] = FALSE
                              /\ exits[s] = 0 /\ hw[s] = "reset"
      BY <2>1 DEF IInv, StartInv, TypeOK
    <2>3. /\ at = [t \in Threads |-> "none"] /\ rt = [s \in Slots |-> NoThread]
          /\ dt = [s \in Slots |-> FALSE] /\ suspend = [s \in Slots |-> FALSE]
          /\ exits = [s \in Slots |-> 0] /\ hw = [s \in Slots |-> "reset"]
      BY <2>2 DEF IInv, TypeOK
    <2> QED BY <2>1, <2>2, <2>3 DEF Ready, FreshInv, threadVars, slotVars
  <1> QED BY <1>1, <1>2, NextFresh, InductiveInvariant, PTL DEF Spec
=============================================================================
