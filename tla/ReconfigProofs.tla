--------------------------- MODULE ReconfigProofs ---------------------------
(***************************************************************************)
(* Safety of the time-shared slots for every number of slots and tasks,    *)
(* every schedule, every order of registration and every size of queue.    *)
(***************************************************************************)
EXTENDS Reconfig, FiniteSetTheorems, TLAPS

\* The dispatcher between Lock and Unlock holds reconfiguration_mutex.
Inside == {"load", "resume", "mark", "unlock"}
MutexInv == \A s \in Slots : dpc[s] \in Inside <=> mutex = s

\* A slot is registered before its dispatcher and its hardware thread exist.
SetupInv == \A i \in DOMAIN Setup :
  i > setup /\ Setup[i].what = "slot" => dpc[Setup[i].of] = "none"

\* The dispatcher and the hardware thread of a slot: one request per run of the
\* hardware thread, and each is where the other's place lets it be.
PhaseInv == \A s \in Slots :
  /\ dpc[s] = "none" => hw[s] = "none" /\ requests[s] = <<>>
  /\ dpc[s] \in {"request", "mark", "unlock"} =>
       \/ hw[s] = "running" /\ requests[s] = <<>>
       \/ hw[s] \in {"requested", "exited"} /\ \E w \in Words : requests[s] = <<w>>
  /\ dpc[s] \in {"dequeue", "suspend", "ended"} =>
       hw[s] \in {"requested", "exited"} /\ requests[s] = <<>>
  /\ dpc[s] \in {"lock", "load", "resume"} => hw[s] = "exited" /\ requests[s] = <<>>

IInv == TypeOK /\ MutexInv /\ SetupInv /\ PhaseInv

\* An element of a sequence over S is in S.
LEMMA ElementType ==
  ASSUME NEW S, NEW q \in Seq(S), NEW i \in DOMAIN q PROVE q[i] \in S
  OBVIOUS

LEMMA InitIInv == Init => IInv
  <1> SUFFICES ASSUME Init PROVE IInv
    OBVIOUS
  <1>1. TypeOK
    <2>1. Len(Setup) \in Nat /\ 1 \in DOMAIN Schedule
      BY ReconfigAssumption
    <2>2. FirstTask \in Tasks /\ QueueSize \in Nat
      BY ReconfigAssumption
    <2>3. setup \in 0 .. Len(Setup) /\ timer \in BOOLEAN /\ next \in DOMAIN Schedule
      <3>1. setup = 0 /\ timer = FALSE /\ next = 1
        BY DEF Init
      <3>2. 0 \in 0 .. Len(Setup)
        BY ONLY <2>1
      <3> QED BY ONLY <2>1, <3>1, <3>2
    <2>4. /\ queue \in [Slots -> Seq(Tasks)] /\ \A s \in Slots : Len(queue[s]) <= QueueSize
          /\ requests \in [Slots -> Seq(Words)]
      BY <2>2 DEF Init
    <2> QED BY <2>2, <2>3, <2>4 DEF Init, TypeOK, DispatcherPCs
  <1>2. MutexInv /\ PhaseInv /\ SetupInv
    BY ReconfigAssumption DEF Init, MutexInv, PhaseInv, SetupInv, Inside
  <1> QED BY <1>1, <1>2 DEF IInv

LEMMA SetupCallType ==
  ASSUME TypeOK, NEW w \in SetupCalls, SetupCall(w)
  PROVE  /\ setup' \in 0 .. Len(Setup) /\ setup' = setup + 1
         /\ setup' \in DOMAIN Setup /\ Setup[setup'].what = w
         /\ w = "slot" => Setup[setup'].of \in Slots
         /\ w = "task" => Setup[setup'].of \in Tasks
  <1>1. /\ Len(Setup) \in Nat /\ setup \in 0 .. Len(Setup) /\ setup < Len(Setup)
        /\ setup' = setup + 1 /\ DOMAIN Setup = 1 .. Len(Setup)
    BY ReconfigAssumption DEF SetupCall, IsNext, TypeOK
  <1>2. setup' \in 0 .. Len(Setup) /\ setup' \in DOMAIN Setup
    BY ONLY <1>1
  <1> QED BY <1>1, <1>2, ReconfigAssumption DEF SetupCall, IsNext

LEMMA NextTypes ==
  ASSUME TypeOK, [Next]_vars PROVE TypeOK'
  <1> USE ReconfigAssumption DEF TypeOK, setupVars, dispatcherVars, hwVars, schedulerVars
  <1>1. CASE TimerInit \/ SchedulerInit
    BY <1>1, SetupCallType DEF TimerInit, SchedulerInit, SetupCalls, SetupCall
  <1>12. CASE EndProgram \/ PollOn
    BY <1>12 DEF EndProgram, PollOn
  <1>2. CASE RegisterSlot
    BY <1>2, SetupCallType DEF RegisterSlot, SetupCalls, SetupCall, Dispatched, DispatcherPCs
  <1>3. CASE RegisterTask
    BY <1>3, SetupCallType DEF RegisterTask, SetupCalls, SetupCall
  <1>4. CASE Enter \/ Broadcast \/ SpuriousWakeup
    BY <1>4 DEF Enter, Broadcast, SpuriousWakeup
  <1>5. CASE Enqueue
    <2> DEFINE e == Schedule[next]
    <2>1. e.slot \in Slots /\ e.task \in Tasks
      <3>1. Schedule \in Seq([slot : Slots, task : Tasks]) /\ next \in DOMAIN Schedule
        BY DEF TypeOK
      <3>2. Schedule[next] \in [slot : Slots, task : Tasks]
        BY ONLY <3>1, ElementType
      <3> QED BY ONLY <3>2
    <2>2. queue' = [queue EXCEPT ![e.slot] = Append(@, e.task)] /\ Len(queue[e.slot]) # QueueSize
      BY <1>5 DEF Enqueue, Full
    <2>3. next' \in DOMAIN Schedule /\ spc' \in {"none", "enter", "waiting", "fill"}
      BY <1>5 DEF Enqueue, NextEntry
    <2>4. queue' \in [Slots -> Seq(Tasks)]
      BY <2>1, <2>2
    <2>5. ASSUME NEW s \in Slots PROVE Len(queue'[s]) <= QueueSize
      <3>1. queue[s] \in Seq(Tasks) /\ Len(queue[s]) <= QueueSize
        OBVIOUS
      <3> HIDE DEF e
      <3>2. CASE s = e.slot
        BY <2>1, <2>2, <3>1, <3>2
      <3>3. CASE s # e.slot
        BY <2>1, <2>2, <3>1, <3>3
      <3> QED BY <3>2, <3>3
    <2> QED BY <1>5, <2>3, <2>4, <2>5 DEF Enqueue
  <1>6. ASSUME NEW s \in Slots, TakeRequest(s) PROVE TypeOK'
    <2>1. requests'[s] \in Seq(Words)
      BY <1>6 DEF TakeRequest
    <2> QED BY <1>6, <2>1 DEF TakeRequest, DStep, DispatcherPCs
  <1>7. ASSUME NEW s \in Slots, Dequeue(s) PROVE TypeOK'
    <2>1. queue[s] \in Seq(Tasks) /\ queue[s] # <<>>
      BY <1>7 DEF Dequeue
    <2>2. Head(queue[s]) \in Tasks /\ Tail(queue[s]) \in Seq(Tasks)
          /\ Len(Tail(queue[s])) <= QueueSize
      BY <2>1
    <2> QED BY <1>7, <2>2 DEF Dequeue, DStep, DispatcherPCs
  <1>8. ASSUME NEW s \in Slots, SuspendBlock(s) \/ Lock(s) \/ Load(s) \/ Resume(s) PROVE TypeOK'
    <2>1. CASE SuspendBlock(s)
      BY <2>1 DEF SuspendBlock, DStep, DispatcherPCs
    <2>2. CASE Lock(s)
      BY <2>2 DEF Lock, DStep, DispatcherPCs
    <2>3. CASE Load(s)
      BY <2>3 DEF Load, DStep, DispatcherPCs
    <2>4. CASE Resume(s)
      BY <2>4 DEF Resume, DStep, DispatcherPCs
    <2> QED BY <1>8, <2>1, <2>2, <2>3, <2>4
  <1>9. ASSUME NEW s \in Slots, MarkRunning(s) \/ Unlock(s) PROVE TypeOK'
    BY <1>9 DEF MarkRunning, Unlock, DStep, DispatcherPCs
  <1>10. ASSUME NEW s \in Slots, Request(s) \/ Exit(s) PROVE TypeOK'
    <2>1. CASE Request(s)
      <3>1. PICK w \in Words : requests' = [requests EXCEPT ![s] = Append(@, w)]
        BY <2>1 DEF Request
      <3>2. Append(requests[s], w) \in Seq(Words)
        OBVIOUS
      <3> QED BY <2>1, <3>1, <3>2 DEF Request
    <2>2. CASE Exit(s)
      BY <2>2 DEF Exit
    <2> QED BY <1>10, <2>1, <2>2
  <1>11. CASE UNCHANGED vars
    BY <1>11 DEF vars
  <1> QED
    BY <1>1, <1>2, <1>3, <1>4, <1>5, <1>6, <1>7, <1>8, <1>9, <1>10, <1>11, <1>12
    DEF Next, Lives, Start, Scheduler, Dispatcher, Hardware

LEMMA NextMutex ==
  ASSUME TypeOK, MutexInv, SetupInv, [Next]_vars PROVE MutexInv'
  <1> USE ReconfigAssumption
      DEF TypeOK, MutexInv, Inside, DStep, setupVars, dispatcherVars, hwVars, schedulerVars
  <1>1. CASE TimerInit \/ SchedulerInit \/ EndProgram \/ PollOn \/ RegisterTask
    BY <1>1 DEF TimerInit, SchedulerInit, EndProgram, PollOn, SetupCall, RegisterTask
  <1>2. CASE RegisterSlot
    <2>1. /\ Setup[setup'].of \in Slots /\ dpc[Setup[setup'].of] = "none"
      <3>1. SetupCall("slot")
        BY <1>2 DEF RegisterSlot
      <3>2. /\ setup' = setup + 1 /\ setup' \in DOMAIN Setup /\ Setup[setup'].what = "slot"
            /\ Setup[setup'].of \in Slots
        BY <3>1, SetupCallType DEF SetupCalls
      <3>3. setup' > setup
        BY <3>2 DEF TypeOK
      <3> QED BY ONLY SetupInv, <3>2, <3>3 DEF SetupInv
    <2> QED BY <1>2, <2>1 DEF RegisterSlot, Dispatched
  <1>3. CASE Enter \/ Broadcast \/ SpuriousWakeup \/ Enqueue
    BY <1>3 DEF Enter, Broadcast, SpuriousWakeup, Enqueue
  <1>4. ASSUME NEW s \in Slots, TakeRequest(s) \/ Dequeue(s) \/ SuspendBlock(s) PROVE MutexInv'
    <2>1. CASE TakeRequest(s)
      BY <2>1 DEF TakeRequest
    <2>2. CASE Dequeue(s)
      BY <2>2 DEF Dequeue
    <2>3. CASE SuspendBlock(s)
      BY <2>3 DEF SuspendBlock
    <2> QED BY <1>4, <2>1, <2>2, <2>3
  <1>5. ASSUME NEW s \in Slots, Lock(s) PROVE MutexInv'
    BY <1>5 DEF Lock
  <1>6. ASSUME NEW s \in Slots, Load(s) \/ Resume(s) \/ MarkRunning(s) PROVE MutexInv'
    BY <1>6 DEF Load, Resume, MarkRunning
  <1>7. ASSUME NEW s \in Slots, Unlock(s) PROVE MutexInv'
    BY <1>7 DEF Unlock
  <1>8. ASSUME NEW s \in Slots, Request(s) \/ Exit(s) PROVE MutexInv'
    BY <1>8 DEF Request, Exit
  <1>9. CASE UNCHANGED vars
    BY <1>9 DEF vars
  <1> QED
    BY <1>1, <1>2, <1>3, <1>4, <1>5, <1>6, <1>7, <1>8, <1>9
    DEF Next, Lives, Start, Scheduler, Dispatcher, Hardware

LEMMA NextSetup ==
  ASSUME TypeOK, SetupInv, [Next]_vars PROVE SetupInv'
  <1> USE ReconfigAssumption DEF TypeOK, SetupInv, DStep
  <1>0. DOMAIN Setup \subseteq Nat
    OBVIOUS
  <1>1. CASE TimerInit \/ SchedulerInit \/ EndProgram \/ PollOn \/ RegisterTask
    <2>1. setup' >= setup /\ dpc' = dpc /\ setup \in Nat /\ setup' \in Nat
      <3>1. CASE TimerInit \/ SchedulerInit \/ RegisterTask
        BY <3>1, SetupCallType DEF TimerInit, SchedulerInit, RegisterTask, SetupCalls, dispatcherVars
      <3>2. CASE EndProgram \/ PollOn
        BY <3>2 DEF EndProgram, PollOn, dispatcherVars
      <3> QED BY <1>1, <3>1, <3>2
    <2> QED BY <1>0, <2>1
  <1>2. CASE RegisterSlot
    <2>1. /\ setup' = setup + 1 /\ setup \in Nat /\ setup' \in DOMAIN Setup
          /\ Setup[setup'].what = "slot"
          /\ dpc' = [dpc EXCEPT ![Setup[setup'].of] = "request"]
      BY <1>2, SetupCallType DEF RegisterSlot, SetupCalls, Dispatched
    <2>2. ASSUME NEW i \in DOMAIN Setup, i > setup', Setup[i].what = "slot"
          PROVE  dpc'[Setup[i].of] = "none"
      <3>1. i # setup' /\ i > setup
        BY <1>0, <2>1, <2>2
      <3>2. Setup[i].of # Setup[setup'].of /\ dpc[Setup[i].of] = "none"
        BY <2>1, <2>2, <3>1
      <3> QED BY <2>1, <3>2
    <2> QED BY <2>2
  <1>3. CASE Enter \/ Broadcast \/ SpuriousWakeup \/ Enqueue
    BY <1>3 DEF Enter, Broadcast, SpuriousWakeup, Enqueue, setupVars, dispatcherVars
  <1>4. ASSUME NEW s \in Slots, Dispatcher(s) \/ Hardware(s) PROVE SetupInv'
    <2>1. setup' = setup /\ \A r \in Slots : dpc[r] = "none" => dpc'[r] = "none"
      BY <1>4 DEF Dispatcher, TakeRequest, Dequeue, SuspendBlock, Lock, Load, Resume, MarkRunning,
           Unlock, Hardware, Request, Exit, setupVars, dispatcherVars
    <2> QED BY <2>1
  <1>5. CASE UNCHANGED vars
    BY <1>5 DEF vars
  <1> QED
    BY <1>1, <1>2, <1>3, <1>4, <1>5 DEF Next, Lives, Start, Scheduler

LEMMA NextPhase ==
  ASSUME TypeOK, SetupInv, PhaseInv, [Next]_vars PROVE PhaseInv'
  <1> USE ReconfigAssumption
      DEF TypeOK, PhaseInv, DStep, setupVars, dispatcherVars, hwVars, schedulerVars
  <1>1. CASE TimerInit \/ SchedulerInit \/ EndProgram \/ PollOn \/ RegisterTask
    BY <1>1 DEF TimerInit, SchedulerInit, EndProgram, PollOn, SetupCall, RegisterTask
  <1>2. CASE RegisterSlot
    <2>1. /\ Setup[setup'].of \in Slots /\ dpc[Setup[setup'].of] = "none"
      <3>1. SetupCall("slot")
        BY <1>2 DEF RegisterSlot
      <3>2. /\ setup' = setup + 1 /\ setup' \in DOMAIN Setup /\ Setup[setup'].what = "slot"
            /\ Setup[setup'].of \in Slots
        BY <3>1, SetupCallType DEF SetupCalls
      <3>3. setup' > setup
        BY <3>2 DEF TypeOK
      <3> QED BY ONLY SetupInv, <3>2, <3>3 DEF SetupInv
    <2> QED BY <1>2, <2>1 DEF RegisterSlot, Dispatched
  <1>3. CASE Enter \/ Broadcast \/ SpuriousWakeup \/ Enqueue
    BY <1>3 DEF Enter, Broadcast, SpuriousWakeup, Enqueue
  <1>4. ASSUME NEW s \in Slots, TakeRequest(s) PROVE PhaseInv'
    <2>1. /\ dpc[s] = "request" /\ hw[s] \in {"requested", "exited"}
          /\ \E w \in Words : requests[s] = <<w>>
      BY <1>4 DEF TakeRequest
    <2>2. requests'[s] = <<>> /\ dpc'[s] \in {"dequeue", "ended"}
      BY <1>4, <2>1 DEF TakeRequest
    <2>3. \A r \in Slots \ {s} : requests'[r] = requests[r] /\ dpc'[r] = dpc[r]
      BY <1>4 DEF TakeRequest
    <2>4. UNCHANGED hw
      BY <1>4 DEF TakeRequest
    <2> QED BY ONLY PhaseInv, <2>1, <2>2, <2>3, <2>4 DEF PhaseInv
  <1>5. ASSUME NEW s \in Slots, Dequeue(s) \/ SuspendBlock(s) PROVE PhaseInv'
    <2>1. CASE Dequeue(s)
      BY <2>1 DEF Dequeue
    <2>2. CASE SuspendBlock(s)
      BY <2>2 DEF SuspendBlock
    <2> QED BY <1>5, <2>1, <2>2
  <1>6. ASSUME NEW s \in Slots, Lock(s) \/ Load(s) PROVE PhaseInv'
    <2>1. CASE Lock(s)
      BY <2>1 DEF Lock
    <2>2. CASE Load(s)
      BY <2>2 DEF Load
    <2> QED BY <1>6, <2>1, <2>2
  <1>7. ASSUME NEW s \in Slots, Resume(s) PROVE PhaseInv'
    BY <1>7 DEF Resume
  <1>8. ASSUME NEW s \in Slots, MarkRunning(s) \/ Unlock(s) PROVE PhaseInv'
    <2>1. CASE MarkRunning(s)
      BY <2>1 DEF MarkRunning
    <2>2. CASE Unlock(s)
      BY <2>2 DEF Unlock
    <2> QED BY <1>8, <2>1, <2>2
  <1>9. ASSUME NEW s \in Slots, Request(s) PROVE PhaseInv'
    <2>1. PICK w \in Words : requests' = [requests EXCEPT ![s] = Append(@, w)]
      BY <1>9 DEF Request
    <2>2. requests[s] = <<>> /\ dpc[s] \in {"request", "mark", "unlock"}
      BY <1>9 DEF Request, DispatcherPCs
    <2>3. requests'[s] = <<w>>
      BY <2>1, <2>2
    <2> QED BY <1>9, <2>1, <2>2, <2>3 DEF Request
  <1>10. ASSUME NEW s \in Slots, Exit(s) PROVE PhaseInv'
    BY <1>10 DEF Exit
  <1>11. CASE UNCHANGED vars
    BY <1>11 DEF vars
  <1> QED
    BY <1>1, <1>2, <1>3, <1>4, <1>5, <1>6, <1>7, <1>8, <1>9, <1>10, <1>11
    DEF Next, Lives, Start, Scheduler, Dispatcher, Hardware

\* Dispatchers, hardware threads, requests and the mutex stay consistent while slots
\* are registered and tasks exchanged.
THEOREM InductiveInvariant == Spec => []IInv
  <1>1. IInv /\ [Next]_vars => IInv'
    BY NextTypes, NextMutex, NextSetup, NextPhase DEF IInv
  <1> QED BY <1>1, InitIInv, PTL DEF Spec

\* No queue of a slot ever holds more words than fit, among other types.
THEOREM TypeCorrect == Spec => []TypeOK
  <1>1. IInv => TypeOK
    BY DEF IInv
  <1> QED BY <1>1, InductiveInvariant, PTL

\* reconfig_dispatcher_thread gives a slot its next task only after its hardware
\* thread has exited, and no two dispatchers do so at the same time.
THEOREM SlotsAreLoadedAlone == Spec => []LoadsAlone
  <1>1. IInv => LoadsAlone
    BY ReconfigAssumption DEF IInv, TypeOK, MutexInv, PhaseInv, Inside, LoadsAlone
  <1> QED BY <1>1, InductiveInvariant, PTL

-----------------------------------------------------------------------------
(* Tasks take turns *)

\* u may follow t in the slot; the first task follows none.
Turn(s, t, u) == Follows(s, t, u) \/ (t = None /\ FirstOf(s, u))
Current(s) == IF s \in turned THEN new[s] ELSE None

\* The next call the scheduler makes for the slot.
Due(s, k) ==
  \/ next <= k /\ \A j \in Entries(s) : j < next \/ k <= j
  \/ k < next /\ \A j \in Entries(s) : k <= j /\ j < next

\* The task before the i-th word of the queue.
Before(s, i) == IF i = 1 THEN Current(s) ELSE queue[s][i - 1]
Latest(s) == Before(s, Len(queue[s]) + 1)

\* The task of the slot, the words in its queue and the call that is due are
\* consecutive calls of the schedule.
TurnInv == \A s \in Slots :
  /\ \A i \in 1 .. Len(queue[s]) : Turn(s, Before(s, i), queue[s][i])
  /\ \A k \in Entries(s) : Due(s, k) => Turn(s, Latest(s), Schedule[k].task)

\* A task is in one slot only; it is marked from the time it was started until its
\* hardware thread asks for the next one.
Own(s) == {Schedule[i].task : i \in Entries(s)}
RunningInv == \A s \in Slots :
  /\ \A i \in DOMAIN queue[s] : queue[s][i] \in Own(s)
  /\ dpc[s] \in {"suspend", "lock", "load", "resume", "mark", "unlock"} => new[s] \in Own(s)
  /\ \A t \in Own(s) : tstate[t] = "RUNNING" => new[s] = t /\ dpc[s] \in {"unlock", "request", "ended"}

LEMMA ScheduleTypes ==
  /\ Len(Schedule) \in Nat /\ Len(Schedule) > 0 /\ DOMAIN Schedule = 1 .. Len(Schedule)
  /\ \A i \in DOMAIN Schedule : Schedule[i] \in [slot : Slots, task : Tasks]
  /\ \A s : Entries(s) \subseteq 1 .. Len(Schedule)
  <1>1. Schedule \in Seq([slot : Slots, task : Tasks]) /\ Schedule # <<>>
    BY ReconfigAssumption
  <1>2. Len(Schedule) \in Nat /\ Len(Schedule) > 0 /\ DOMAIN Schedule = 1 .. Len(Schedule)
    BY <1>1
  <1>3. \A i \in DOMAIN Schedule : Schedule[i] \in [slot : Slots, task : Tasks]
    BY <1>1, ElementType
  <1> QED BY <1>2, <1>3 DEF Entries

\* After a call was made, what is due for its slot is its successor, and nothing
\* changes for the other slots.
LEMMA DueAfter ==
  ASSUME next \in DOMAIN Schedule, NextEntry, NEW s \in Slots, NEW k \in Entries(s), Due(s, k)'
  PROVE  /\ Schedule[next].slot = s => Successor(s, next, k)
         /\ Schedule[next].slot # s => Due(s, k)
  <1> DEFINE L == Len(Schedule)
  <1>1. /\ L \in Nat /\ next \in 1 .. L /\ Entries(s) \subseteq 1 .. L
        /\ next' = IF next = L THEN 1 ELSE next + 1
        /\ Schedule[next].slot = s <=> next \in Entries(s)
    BY ScheduleTypes DEF NextEntry, Entries
  <1> HIDE DEF L
  <1>2. \/ next' <= k /\ \A j \in Entries(s) : j < next' \/ k <= j
        \/ k < next' /\ \A j \in Entries(s) : k <= j /\ j < next'
    BY DEF Due, Entries
  <1>3. CASE next = L
    <2>1. \A j \in Entries(s) : k <= j /\ j <= next
      BY <1>1, <1>2, <1>3
    <2>2. k \in Nat /\ \A j \in Entries(s) : j \in Nat
      BY <1>1
    <2>3. Schedule[next].slot = s => Successor(s, next, k)
      BY <1>1, <2>1, <2>2 DEF Successor
    <2>4. Schedule[next].slot # s => \A j \in Entries(s) : j # next
      BY <1>1
    <2>5. Schedule[next].slot # s => Due(s, k)
      BY <1>1, <2>1, <2>2, <2>4 DEF Due
    <2> QED BY <2>3, <2>5
  <1>4. CASE next # L /\ next + 1 <= k /\ \A j \in Entries(s) : j < next + 1 \/ k <= j
    <2>1. k \in Nat /\ \A j \in Entries(s) : j \in Nat
      BY <1>1
    <2>2. Schedule[next].slot = s => Successor(s, next, k)
      BY <1>1, <1>4, <2>1 DEF Successor
    <2>3. Schedule[next].slot # s => \A j \in Entries(s) : j # next
      BY <1>1
    <2>4. Schedule[next].slot # s => Due(s, k)
      BY <1>1, <1>4, <2>1, <2>3 DEF Due
    <2> QED BY <2>2, <2>4
  <1>5. CASE next # L /\ k < next + 1 /\ \A j \in Entries(s) : k <= j /\ j < next + 1
    <2>1. k \in Nat /\ \A j \in Entries(s) : j \in Nat
      BY <1>1
    <2>2. Schedule[next].slot = s => Successor(s, next, k)
      BY <1>1, <1>5, <2>1 DEF Successor
    <2>3. Schedule[next].slot # s => \A j \in Entries(s) : j # next
      BY <1>1
    <2>4. Schedule[next].slot # s => Due(s, k)
      BY <1>1, <1>5, <2>1, <2>3 DEF Due
    <2> QED BY <2>2, <2>4
  <1> QED BY <1>1, <1>2, <1>3, <1>4, <1>5

\* Steps that touch neither queues nor the current tasks.
LEMMA TurnKept ==
  ASSUME TurnInv, UNCHANGED <<queue, new, turned, next>> PROVE TurnInv'
  <1>1. \A s, k : Due(s, k)' = Due(s, k)
    BY DEF Due
  <1>2. \A s \in Slots, i \in Nat : Before(s, i)' = Before(s, i)
    BY DEF Before, Current
  <1>3. \A s \in Slots : queue'[s] = queue[s]
    OBVIOUS
  <1> QED BY <1>1, <1>2 DEF TurnInv, Due, Before, Latest

LEMMA EnqueueTurn ==
  ASSUME TypeOK, TurnInv, Enqueue PROVE TurnInv'
  <1> DEFINE e == Schedule[next]
  <1>1. /\ next \in DOMAIN Schedule /\ NextEntry /\ new' = new /\ turned' = turned
        /\ queue' = [queue EXCEPT ![e.slot] = Append(@, e.task)]
    BY DEF TypeOK, Enqueue, dispatcherVars
  <1>2. e \in [slot : Slots, task : Tasks]
    BY <1>1, ScheduleTypes
  <1>3. queue \in [Slots -> Seq(Tasks)]
    BY DEF TypeOK
  <1>4. Due(e.slot, next) /\ next \in Entries(e.slot)
    <2>1. next \in Entries(e.slot)
      BY <1>1 DEF Entries
    <2>2. next \in Nat /\ Entries(e.slot) \subseteq Nat
      BY <1>1, ScheduleTypes
    <2> QED BY <2>1, <2>2 DEF Due
  <1> SUFFICES ASSUME NEW s \in Slots
               PROVE  /\ \A i \in 1 .. Len(queue'[s]) : Turn(s, Before(s, i)', queue'[s][i])
                      /\ \A k \in Entries(s) :
                           Due(s, k)' => Turn(s, Latest(s)', Schedule[k].task)
    BY DEF TurnInv, Turn, Follows, FirstOf, Successor, Entries
  <1>5. CASE e.slot # s
    <2>1. queue'[s] = queue[s]
      BY <1>1, <1>3, <1>5
    <2>2. /\ \A i : Before(s, i)' = Before(s, i)
          /\ Latest(s)' = Latest(s)
      <3>1. new'[s] = new[s]
        BY <1>1
      <3>2. Current(s)' = Current(s)
        BY <1>1, <3>1 DEF Current
      <3> QED BY <2>1, <3>2 DEF Before, Latest
    <2>3. \A k \in Entries(s) : Due(s, k)' => Due(s, k)
      BY <1>1, <1>5, DueAfter
    <2> QED BY <2>1, <2>2, <2>3 DEF TurnInv
  <1>6. CASE e.slot = s
    <2> DEFINE q == queue[s]
    <2>1. q \in Seq(Tasks) /\ queue'[s] = Append(q, e.task) /\ e.task \in Tasks
      BY <1>1, <1>2, <1>3, <1>6
    <2> HIDE DEF e, q
    <2>2. /\ Len(q) \in Nat /\ Len(queue'[s]) = Len(q) + 1
          /\ \A i \in 1 .. Len(q) : queue'[s][i] = q[i]
          /\ queue'[s][Len(q) + 1] = e.task
      BY <2>1
    <2>3. \A i \in 1 .. Len(q) + 1 : Before(s, i)' = Before(s, i)
      BY <1>1, <2>2 DEF Before, Current, q
    <2>4. Turn(s, Before(s, Len(q) + 1), e.task)
      BY <1>4, <1>6 DEF TurnInv, Latest, e, q
    <2>5. \A i \in 1 .. Len(queue'[s]) : Turn(s, Before(s, i)', queue'[s][i])
      <3> SUFFICES ASSUME NEW i \in 1 .. Len(queue'[s]) PROVE Turn(s, Before(s, i)', queue'[s][i])
        OBVIOUS
      <3>1. CASE i = Len(q) + 1
        BY <2>2, <2>3, <2>4, <3>1
      <3>2. CASE i # Len(q) + 1
        <4>1. i \in 1 .. Len(q)
          BY <2>2, <3>2
        <4>2. Turn(s, Before(s, i), q[i])
          BY <4>1 DEF TurnInv, q
        <4> QED BY <2>2, <2>3, <4>1, <4>2
      <3> QED BY <3>1, <3>2
    <2>6. Latest(s)' = e.task
      BY <2>2 DEF Before, Latest
    <2>7. ASSUME NEW k \in Entries(s), Due(s, k)' PROVE Follows(s, e.task, Schedule[k].task)
      <3>1. Successor(s, next, k)
        BY <1>1, <1>6, <2>7, DueAfter DEF e
      <3> QED BY <1>4, <1>6, <3>1 DEF Follows, e
    <2> QED BY <2>5, <2>6, <2>7 DEF Turn
  <1> QED BY <1>5, <1>6

LEMMA DequeueTurn ==
  ASSUME TypeOK, TurnInv, NEW r \in Slots, Dequeue(r)
  PROVE  TurnInv' /\ Turn(r, Current(r), new'[r])
  <1>1. /\ next' = next /\ queue[r] # <<>> /\ turned' = turned \cup {r}
        /\ new' = [new EXCEPT ![r] = Head(queue[r])]
        /\ queue' = [queue EXCEPT ![r] = Tail(@)]
    BY DEF Dequeue, schedulerVars
  <1>2. queue \in [Slots -> Seq(Tasks)] /\ new \in [Slots -> Tasks]
    BY DEF TypeOK
  <1> DEFINE q == queue[r]
  <1>3. q \in Seq(Tasks) /\ q # <<>> /\ queue'[r] = Tail(q) /\ new'[r] = Head(q)
    BY <1>1, <1>2
  <1> HIDE DEF q
  <1>4. /\ Len(q) \in Nat /\ Len(q) > 0 /\ Len(queue'[r]) = Len(q) - 1 /\ new'[r] = q[1]
        /\ \A i \in 1 .. Len(q) - 1 : queue'[r][i] = q[i + 1]
    BY <1>3
  <1>5. Turn(r, Current(r), new'[r])
    <2>1. 1 \in 1 .. Len(q)
      BY <1>4
    <2>2. Turn(r, Before(r, 1), q[1])
      BY <2>1 DEF TurnInv, q
    <2> QED BY <1>4, <2>2 DEF Before
  <1>6. \A i \in 1 .. Len(q) : Before(r, i)' = Before(r, i + 1)
    <2> SUFFICES ASSUME NEW i \in 1 .. Len(q) PROVE Before(r, i)' = Before(r, i + 1)
      OBVIOUS
    <2>1. Before(r, i + 1) = q[i]
      BY <1>4 DEF Before, q
    <2>2. Before(r, i)' = q[i]
      <3>1. CASE i = 1
        BY <1>1, <1>4, <3>1 DEF Before, Current
      <3>2. CASE i # 1
        <4>1. i - 1 \in 1 .. Len(q) - 1 /\ (i - 1) + 1 = i
          BY <1>4, <3>2
        <4>2. queue'[r][i - 1] = q[i]
          BY <1>4, <4>1
        <4> QED BY <3>2, <4>2 DEF Before
      <3> QED BY <3>1, <3>2
    <2> QED BY <2>1, <2>2
  <1>7. ASSUME NEW s \in Slots
        PROVE  /\ \A i \in 1 .. Len(queue'[s]) : Turn(s, Before(s, i)', queue'[s][i])
               /\ \A k \in Entries(s) :
                    Due(s, k)' => Turn(s, Latest(s)', Schedule[k].task)
    <2>1. \A k \in Entries(s) : Due(s, k)' <=> Due(s, k)
      BY <1>1 DEF Due
    <2>2. CASE s # r
      <3>1. queue'[s] = queue[s] /\ new'[s] = new[s]
        BY <1>1, <1>2, <2>2
      <3>2. (\A i : Before(s, i)' = Before(s, i)) /\ Latest(s)' = Latest(s)
        BY <1>1, <2>2, <3>1 DEF Before, Latest, Current
      <3> QED BY <2>1, <3>1, <3>2 DEF TurnInv
    <2>3. CASE s = r
      <3>1. ASSUME NEW i \in 1 .. Len(queue'[r]) PROVE Turn(r, Before(r, i)', queue'[r][i])
        <4>1. i + 1 \in 1 .. Len(q) /\ i \in 1 .. Len(q) /\ i \in 1 .. Len(q) - 1
          BY <1>4
        <4>2. Turn(r, Before(r, i + 1), q[i + 1])
          BY <4>1 DEF TurnInv, q
        <4> QED BY <1>4, <1>6, <4>1, <4>2
      <3>2. Latest(r)' = Before(r, Len(q) + 1)
        <4>1. PICK n \in 1 .. Len(q) : n = Len(q) /\ Len(queue'[r]) + 1 = n
          BY <1>4
        <4>2. Latest(r)' = Before(r, n)'
          BY <4>1 DEF Latest, Before
        <4>3. Before(r, n)' = Before(r, n + 1)
          BY <1>6, <4>1
        <4> QED BY <4>1, <4>2, <4>3
      <3>3. \A k \in Entries(r) : Due(r, k) => Turn(r, Before(r, Len(q) + 1), Schedule[k].task)
        BY DEF TurnInv, Latest, q
      <3> QED BY <2>1, <2>3, <3>1, <3>2, <3>3
    <2> QED BY <2>2, <2>3
  <1>8. TurnInv'
    BY <1>7 DEF TurnInv, Turn, Follows, FirstOf, Successor, Entries
  <1> QED BY <1>5, <1>8

LEMMA InitTurn == Init => TurnInv
  <1> SUFFICES ASSUME Init, NEW s \in Slots
               PROVE  /\ \A i \in 1 .. Len(queue[s]) : Turn(s, Before(s, i), queue[s][i])
                      /\ \A k \in Entries(s) : Due(s, k) => Turn(s, Latest(s), Schedule[k].task)
    BY DEF TurnInv
  <1>1. queue[s] = <<>> /\ turned = {} /\ next = 1
    BY DEF Init
  <1>2. Latest(s) = None
    BY <1>1 DEF Latest, Before, Current
  <1>3. ASSUME NEW k \in Entries(s), Due(s, k) PROVE FirstOf(s, Schedule[k].task)
    <2>1. Entries(s) \subseteq Nat \ {0}
      BY ScheduleTypes
    <2>2. \A j \in Entries(s) : k <= j
      BY <1>1, <1>3, <2>1 DEF Due
    <2> QED BY <2>2 DEF FirstOf
  <1> QED BY <1>1, <1>2, <1>3 DEF Turn

LEMMA NextTurn ==
  ASSUME IInv, TurnInv, [Next]_vars
  PROVE  TurnInv' /\ \A s \in Slots : Dequeue(s) => Turn(s, Current(s), new'[s])
  <1>0. TypeOK
    BY DEF IInv
  <1>1. \A s \in Slots : Dequeue(s) => TurnInv' /\ Turn(s, Current(s), new'[s])
    BY <1>0, DequeueTurn
  <1>2. Enqueue => TurnInv'
    BY <1>0, EnqueueTurn
  <1>3. CASE Start \/ Broadcast \/ SpuriousWakeup \/ Enter \/ UNCHANGED vars
    BY <1>1, <1>3, TurnKept DEF Start, TimerInit, SchedulerInit, EndProgram, PollOn, RegisterSlot, RegisterTask, Broadcast,
       SpuriousWakeup, Enter, dispatcherVars, vars
  <1>4. ASSUME NEW r \in Slots, TakeRequest(r) \/ SuspendBlock(r) \/ Lock(r) \/ Load(r) \/ Resume(r)
                 \/ MarkRunning(r) \/ Unlock(r) \/ Hardware(r)
        PROVE  TurnInv'
    BY <1>4, TurnKept DEF TakeRequest, SuspendBlock, Lock, Load, Resume, MarkRunning, Unlock, Hardware,
       Request, Exit, schedulerVars, dispatcherVars
  <1> QED BY <1>1, <1>2, <1>3, <1>4 DEF Next, Lives, Scheduler, Dispatcher

\* The queue and the current task of a slot are consecutive calls of the schedule ...
THEOREM QueuesFollowSchedule == Spec => []TurnInv
  <1>1. IInv /\ TurnInv /\ [Next]_vars => TurnInv'
    BY NextTurn
  <1> QED BY <1>1, InitTurn, InductiveInvariant, PTL DEF Spec

\* ... so the tasks of a slot take turns, whatever delays scheduler and dispatchers.
THEOREM TasksTakeTurns == Spec => InTurn
  <1>1. IInv /\ TurnInv /\ [Next]_vars =>
          [\A s \in Slots : Dequeue(s) =>
             IF s \in turned THEN Follows(s, new[s], new'[s]) ELSE FirstOf(s, new'[s])]_vars
    <2> SUFFICES ASSUME IInv, TurnInv, [Next]_vars, NEW s \in Slots, Dequeue(s)
                 PROVE  IF s \in turned THEN Follows(s, new[s], new'[s]) ELSE FirstOf(s, new'[s])
      OBVIOUS
    <2>1. Turn(s, Current(s), new'[s])
      BY NextTurn
    <2>2. new[s] \in Tasks /\ None \notin Tasks
      BY ReconfigAssumption DEF IInv, TypeOK
    <2>3. ~ Follows(s, None, new'[s])
      BY <2>2, ScheduleTypes DEF Follows, Entries
    <2> QED BY <2>1, <2>2, <2>3 DEF Turn, Current
  <1> QED BY <1>1, QueuesFollowSchedule, InductiveInvariant, PTL DEF Spec, InTurn

-----------------------------------------------------------------------------
(* One task of a slot is marked as running *)

LEMMA OwnTasks ==
  ASSUME NEW s \in Slots
  PROVE  /\ Own(s) \subseteq Tasks
         /\ \A r \in Slots \ {s} : Own(r) \cap Own(s) = {}
  BY ScheduleTypes, ScheduleAssumption DEF Own, Entries

LEMMA InitRunning == Init => RunningInv
  <1> SUFFICES ASSUME Init, NEW s \in Slots
               PROVE  /\ queue[s] = <<>> /\ dpc[s] = "none"
                      /\ \A t \in Own(s) : tstate[t] = "WAITING"
    BY DEF RunningInv
  <1> QED BY OwnTasks DEF Init

LEMMA NextRunning ==
  ASSUME IInv, RunningInv, [Next]_vars PROVE RunningInv'
  <1> USE DEF RunningInv
  <1>0. TypeOK /\ \A s \in Slots : Own(s) \subseteq Tasks
    BY OwnTasks DEF IInv
  <1>1. CASE TimerInit \/ SchedulerInit \/ EndProgram \/ PollOn \/ Broadcast \/ SpuriousWakeup \/ Enter \/ UNCHANGED vars
    <2>1. UNCHANGED <<queue, dpc, new, tstate>>
      BY <1>1 DEF TimerInit, SchedulerInit, EndProgram, PollOn, Broadcast, SpuriousWakeup, Enter, dispatcherVars, vars
    <2> QED BY <2>1 DEF Own
  <1>2. CASE RegisterSlot
    <2>1. /\ Setup[setup'].of \in Slots /\ dpc[Setup[setup'].of] = "none"
          /\ dpc' = [dpc EXCEPT ![Setup[setup'].of] = "request"] /\ UNCHANGED <<queue, new, tstate>>
      <3>1. SetupCall("slot")
        BY <1>2 DEF RegisterSlot
      <3>2. /\ setup' = setup + 1 /\ setup' \in DOMAIN Setup /\ Setup[setup'].what = "slot"
            /\ Setup[setup'].of \in Slots
        BY <1>0, <3>1, SetupCallType DEF SetupCalls
      <3>3. setup' > setup
        BY <1>0, <3>2 DEF TypeOK
      <3> QED BY <1>2, <3>2, <3>3 DEF IInv, SetupInv, RegisterSlot, Dispatched
    <2>2. \A s \in Slots : dpc'[s] = dpc[s] \/ (dpc[s] = "none" /\ dpc'[s] = "request")
      BY <1>0, <2>1 DEF TypeOK
    <2> QED BY <2>1, <2>2
  <1>3. CASE RegisterTask
    <2>1. UNCHANGED <<queue, new, dpc>> /\ tstate' = [tstate EXCEPT ![Setup[setup'].of] = "WAITING"]
      BY <1>3 DEF RegisterTask
    <2>2. \A t \in Tasks : tstate'[t] = tstate[t] \/ tstate'[t] = "WAITING"
      BY <1>0, <2>1 DEF TypeOK
    <2> QED BY <1>0, <2>1, <2>2
  <1>4. CASE Enqueue
    <2> DEFINE e == Schedule[next]
    <2>1. /\ next \in DOMAIN Schedule /\ UNCHANGED <<dpc, new, tstate>>
          /\ queue' = [queue EXCEPT ![e.slot] = Append(@, e.task)]
      BY <1>0, <1>4 DEF TypeOK, Enqueue, dispatcherVars
    <2>2. e.slot \in Slots /\ e.task \in Tasks /\ e.task \in Own(e.slot)
      BY <2>1, ScheduleTypes DEF Own, Entries
    <2> HIDE DEF e
    <2>3. ASSUME NEW s \in Slots, NEW i \in DOMAIN queue'[s] PROVE queue'[s][i] \in Own(s)
      <3>1. queue[s] \in Seq(Tasks)
        BY <1>0 DEF TypeOK
      <3>2. CASE s = e.slot
        <4>1. queue'[s] = Append(queue[s], e.task)
          BY <1>0, <2>1, <3>2 DEF TypeOK
        <4>2. (i \in DOMAIN queue[s] /\ queue'[s][i] = queue[s][i]) \/ queue'[s][i] = e.task
          BY <2>2, <2>3, <3>1, <4>1
        <4> QED BY <2>2, <3>2, <4>2
      <3>3. CASE s # e.slot
        <4>1. queue'[s] = queue[s]
          BY <1>0, <2>1, <3>3 DEF TypeOK
        <4> QED BY <2>3, <4>1
      <3> QED BY <3>2, <3>3
    <2> QED BY <2>1, <2>3
  <1>5. ASSUME NEW r \in Slots, TakeRequest(r) PROVE RunningInv'
    <2>1. UNCHANGED <<queue, new>> /\ dpc[r] = "request"
      BY <1>5 DEF TakeRequest, DStep
    <2>2. CASE dpc' = [dpc EXCEPT ![r] = "ended"] /\ UNCHANGED tstate
      BY <1>0, <2>1, <2>2 DEF TypeOK
    <2>3. CASE dpc' = [dpc EXCEPT ![r] = "dequeue"] /\ tstate' = [tstate EXCEPT ![new[r]] = "WAITING"]
      <3>1. \A t \in Tasks : tstate'[t] = IF t = new[r] THEN "WAITING" ELSE tstate[t]
        BY <1>0, <2>3 DEF TypeOK
      <3>2. \A s \in Slots : dpc'[s] = IF s = r THEN "dequeue" ELSE dpc[s]
        BY <1>0, <2>3 DEF TypeOK
      <3> QED BY <1>0, <2>1, <3>1, <3>2
    <2> QED BY <1>5, <2>2, <2>3 DEF TakeRequest, DStep
  <1>6. ASSUME NEW r \in Slots, Dequeue(r) PROVE RunningInv'
    <2>1. /\ dpc[r] = "dequeue" /\ dpc' = [dpc EXCEPT ![r] = "suspend"] /\ queue[r] # <<>>
          /\ new' = [new EXCEPT ![r] = Head(queue[r])] /\ queue' = [queue EXCEPT ![r] = Tail(@)]
          /\ tstate' = tstate
      BY <1>6 DEF Dequeue, DStep
    <2>2. /\ Head(queue[r]) \in Own(r)
          /\ \A i \in DOMAIN Tail(queue[r]) : Tail(queue[r])[i] \in Own(r)
      <3>1. queue[r] \in Seq(Tasks)
        BY <1>0 DEF TypeOK
      <3>2. /\ Head(queue[r]) = queue[r][1] /\ 1 \in DOMAIN queue[r]
            /\ \A i \in DOMAIN Tail(queue[r]) :
                 i + 1 \in DOMAIN queue[r] /\ Tail(queue[r])[i] = queue[r][i + 1]
        BY <2>1, <3>1
      <3> QED BY <3>2
    <2>3. \A s \in Slots : /\ dpc'[s] = IF s = r THEN "suspend" ELSE dpc[s]
                           /\ new'[s] = IF s = r THEN Head(queue[r]) ELSE new[s]
                           /\ queue'[s] = IF s = r THEN Tail(queue[r]) ELSE queue[s]
      BY <1>0, <2>1 DEF TypeOK
    <2>4. \A t \in Own(r) : tstate[t] # "RUNNING"
      BY <2>1
    <2> QED BY <2>1, <2>2, <2>3, <2>4
  <1>7. ASSUME NEW r \in Slots, SuspendBlock(r) \/ Lock(r) \/ Load(r) \/ Resume(r) PROVE RunningInv'
    <2>1. /\ UNCHANGED <<queue, new, tstate>>
          /\ dpc[r] \in {"suspend", "lock", "load", "resume"}
          /\ \E p \in {"lock", "load", "resume", "mark"} : dpc' = [dpc EXCEPT ![r] = p]
      BY <1>7 DEF SuspendBlock, Lock, Load, Resume, DStep, hwVars
    <2>2. PICK p \in {"lock", "load", "resume", "mark"} : dpc' = [dpc EXCEPT ![r] = p]
      BY <2>1
    <2>3. \A s \in Slots : dpc'[s] = IF s = r THEN p ELSE dpc[s]
      BY <1>0, <2>2 DEF TypeOK
    <2> QED BY <2>1, <2>2, <2>3
  <1>8. ASSUME NEW r \in Slots, MarkRunning(r) PROVE RunningInv'
    <2>1. /\ UNCHANGED <<queue, new>> /\ dpc[r] = "mark" /\ dpc' = [dpc EXCEPT ![r] = "unlock"]
          /\ tstate' = [tstate EXCEPT ![new[r]] = "RUNNING"]
      BY <1>8 DEF MarkRunning, DStep
    <2>2. \A s \in Slots : dpc'[s] = IF s = r THEN "unlock" ELSE dpc[s]
      BY <1>0, <2>1 DEF TypeOK
    <2>3. \A t \in Tasks : tstate'[t] = IF t = new[r] THEN "RUNNING" ELSE tstate[t]
      BY <1>0, <2>1 DEF TypeOK
    <2>4. new[r] \in Own(r) /\ \A s \in Slots \ {r} : new[r] \notin Own(s)
      BY <2>1, OwnTasks
    <2> QED BY <1>0, <2>1, <2>2, <2>3, <2>4
  <1>9. ASSUME NEW r \in Slots, Unlock(r) PROVE RunningInv'
    <2>1. UNCHANGED <<queue, new, tstate>> /\ dpc[r] = "unlock" /\ dpc' = [dpc EXCEPT ![r] = "request"]
      BY <1>9 DEF Unlock, DStep
    <2>2. \A s \in Slots : dpc'[s] = IF s = r THEN "request" ELSE dpc[s]
      BY <1>0, <2>1 DEF TypeOK
    <2> QED BY <2>1, <2>2
  <1>10. ASSUME NEW r \in Slots, Hardware(r) PROVE RunningInv'
    <2>1. UNCHANGED <<queue, dpc, new, tstate>>
      BY <1>10 DEF Hardware, Request, Exit, dispatcherVars
    <2> QED BY <2>1 DEF Own
  <1> QED BY <1>1, <1>2, <1>3, <1>4, <1>5, <1>6, <1>7, <1>8, <1>9, <1>10
          DEF Next, Lives, Start, Scheduler, Dispatcher

\* The mark of a task is set and cleared by the dispatcher of its slot only.
THEOREM MarksFollowSlots == Spec => []RunningInv
  <1>1. IInv /\ RunningInv /\ [Next]_vars => RunningInv'
    BY NextRunning
  <1> QED BY <1>1, InitRunning, InductiveInvariant, PTL DEF Spec

\* At most one task of a slot is marked as running.
THEOREM OneTaskRunsPerSlot == Spec => []OneRunningPerSlot
  <1>1. RunningInv => OneRunningPerSlot
    <2> SUFFICES ASSUME RunningInv, NEW s \in Slots
                 PROVE  Cardinality({i \in Entries(s) : tstate[Schedule[i].task] = "RUNNING"}) <= 1
      BY DEF OneRunningPerSlot
    <2> DEFINE R == {i \in Entries(s) : tstate[Schedule[i].task] = "RUNNING"}
    <2>1. \A i \in R : Schedule[i].task = new[s] /\ i \in DOMAIN Schedule
      BY DEF RunningInv, Own, Entries
    <2>2. \A i, j \in R : i = j
      BY <2>1, ScheduleAssumption
    <2> HIDE DEF R
    <2>3. Cardinality(R) <= 1
      <3>1. CASE R = {}
        BY <3>1, FS_EmptySet
      <3>2. CASE R # {}
        <4>1. PICK i : i \in R
          BY <3>2
        <4>2. R = {i}
          BY <2>2, <4>1
        <4>3. Cardinality({i}) = 1
          BY FS_Singleton
        <4> QED BY <4>2, <4>3
      <3> QED BY <3>1, <3>2
    <2> QED BY <2>3 DEF R
  <1> QED BY <1>1, MarksFollowSlots, PTL
=============================================================================
