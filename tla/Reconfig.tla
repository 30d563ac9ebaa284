------------------------------ MODULE Reconfig ------------------------------
(***************************************************************************)
(* Time sharing of reconfigurable slots: the cycle timer, the scheduler    *)
(* that fills one queue of tasks per slot once per cycle, and a dispatcher *)
(* per slot that exchanges the hardware thread of the slot for the next    *)
(* task whenever the thread asks for it (cycle_timer.c,                    *)
(* reconfig_scheduler.c, reconfig_dispatcher.c).  The program starts timer *)
(* and scheduler and registers slots and tasks while they already run.     *)
(*                                                                         *)
(* The queues and the request mailboxes are FIFOs of atomic calls, which   *)
(* SlotQueue and Mbox implement; suspend_block waits for the exit of the   *)
(* hardware thread and resume starts it again, as HwSlot has it.           *)
(***************************************************************************)
EXTENDS Naturals, Sequences, FiniteSets

CONSTANTS
  Setup,            (* the calls of the program at start-up, in order      *)
  Slots, Tasks,     (* slots and thread numbers (MAX_SLOTS, MAX_THREADS)   *)
  None,             (* no slot, or no task                                 *)
  FirstTask,        (* thread number 0                                     *)
  Schedule,         (* the calls of reconfig_queue_enqueue in their order  *)
  QueueSize,        (* words a slot queue holds (MAX_THREADS)              *)
  Words             (* what a hardware thread may put as its request: "id",
                       a number below MAX_THREADS, or "wrong", a larger one *)

SetupCalls == {"timer", "scheduler", "slot", "task"}
ASSUME ReconfigAssumption ==
  /\ Setup \in Seq([what : SetupCalls, of : Slots \cup Tasks \cup {None}])
  /\ \A i \in DOMAIN Setup : /\ Setup[i].what = "slot" => Setup[i].of \in Slots
                             /\ Setup[i].what = "task" => Setup[i].of \in Tasks
  \* a slot is given the next free number, so none is registered twice
  /\ \A i, j \in DOMAIN Setup :
       Setup[i].what = "slot" /\ Setup[j].what = "slot" /\ Setup[i].of = Setup[j].of => i = j
  /\ None \notin Slots /\ None \notin Tasks
  /\ FirstTask \in Tasks
  /\ Schedule \in Seq([slot : Slots, task : Tasks]) /\ Schedule # <<>>
  /\ QueueSize \in Nat \ {0}
  /\ Words \subseteq {"id", "wrong"}

\* reconfig_scheduler.c: "every thread is called in every cycle once"
ASSUME ScheduleAssumption ==
  \A i, j \in DOMAIN Schedule : Schedule[i].task = Schedule[j].task => i = j

VARIABLES
  program, setup,   (* the program, and number of calls of Setup made      *)
  timer,            (* the thread of the cycle timer runs                  *)
  queue,            (* reconfig_queue->slotqueue                           *)
  spc, next,        (* the scheduler: place, and entry of Schedule         *)
  dpc, new,         (* the dispatchers: place, and newthreadid             *)
  turned,           (* slots that have had a turn (a history)              *)
  tstate,           (* state of each task                                  *)
  initData,         (* the task whose init_data recon_thread carries       *)
  mutex,            (* reconfiguration_mutex                               *)
  hw, requests      (* the hardware threads and their mailboxes            *)

vars == <<program, setup, timer, queue, spc, next, dpc, new, turned, tstate, initData, mutex, hw, requests>>

DispatcherPCs ==
  {"none", "request", "dequeue", "suspend", "lock", "load", "resume", "mark", "unlock", "ended"}

TypeOK ==
  /\ program \in {"starts", "polls", "ended"}
  /\ setup \in 0 .. Len(Setup) /\ timer \in BOOLEAN
  /\ queue \in [Slots -> Seq(Tasks)]
  /\ \A s \in Slots : Len(queue[s]) <= QueueSize
  /\ spc \in {"none", "enter", "waiting", "fill"} /\ next \in DOMAIN Schedule
  /\ dpc \in [Slots -> DispatcherPCs] /\ new \in [Slots -> Tasks] /\ turned \subseteq Slots
  /\ tstate \in [Tasks -> {"WAITING", "RUNNING"}]
  /\ initData \in [Slots -> Tasks \cup {None}]
  /\ mutex \in Slots \cup {None}
  /\ hw \in [Slots -> {"none", "running", "requested", "exited"}]
  /\ requests \in [Slots -> Seq(Words)]

Init ==
  /\ program = "starts" /\ setup = 0 /\ timer = FALSE
  /\ queue = [s \in Slots |-> <<>>]
  /\ spc = "none" /\ next = 1
  /\ dpc = [s \in Slots |-> "none"] /\ new = [s \in Slots |-> FirstTask] /\ turned = {}
  /\ tstate = [t \in Tasks |-> "WAITING"]
  /\ initData = [s \in Slots |-> None]
  /\ mutex = None
  /\ hw = [s \in Slots |-> "none"] /\ requests = [s \in Slots |-> <<>>]

setupVars == <<program, setup, timer>>
dispatcherVars == <<dpc, new, turned, tstate, initData, mutex>>
hwVars == <<hw, requests>>

-----------------------------------------------------------------------------
(* start-up: the calls of the program *)

IsNext(w) == program = "starts" /\ setup < Len(Setup) /\ Setup[setup + 1].what = w
SetupCall(w) == IsNext(w) /\ setup' = setup + 1 /\ UNCHANGED program
Registered == {Setup[i].of : i \in 1 .. setup}

\* cycle_timer_init and reconfig_scheduler_init create their threads, unless an
\* attribute of the thread cannot be set; they then return with a message only.
\* When the memory cannot be locked they end the whole program.
EndProgram ==
  /\ IsNext("timer") \/ IsNext("scheduler")
  /\ program' = "ended"
  /\ UNCHANGED <<setup, timer, queue, spc, next, dispatcherVars, hwVars>>
TimerInit ==
  /\ SetupCall("timer") /\ timer' \in BOOLEAN
  /\ UNCHANGED <<queue, spc, next, dispatcherVars, hwVars>>
SchedulerInit ==
  /\ SetupCall("scheduler") /\ spc' \in {"none", "enter"}
  /\ UNCHANGED <<timer, queue, next, dispatcherVars, hwVars>>

\* reconfig_scheduler_register_new_slot: the initial bitstream is written (without
\* reconfiguration_mutex; a failure is ignored) and the hardware thread and the
\* dispatcher of the slot are started.  prog_done may be read for ever; the
\* program then gets no further.
PollOn ==
  /\ IsNext("slot") /\ program' = "polls"
  /\ UNCHANGED <<setup, timer, queue, spc, next, dispatcherVars, hwVars>>
Dispatched(s) == dpc' = [dpc EXCEPT ![s] = "request"]
RegisterSlot ==
  /\ SetupCall("slot")
  /\ hw' = [hw EXCEPT ![Setup[setup'].of] = "running"] /\ Dispatched(Setup[setup'].of)
  /\ UNCHANGED <<timer, queue, spc, next, new, turned, tstate, initData, mutex, requests>>

\* reconfig_scheduler_register_new_task
RegisterTask ==
  /\ SetupCall("task") /\ tstate' = [tstate EXCEPT ![Setup[setup'].of] = "WAITING"]
  /\ UNCHANGED <<timer, queue, spc, next, dpc, new, turned, initData, mutex, hwVars>>
Start == TimerInit \/ SchedulerInit \/ EndProgram \/ RegisterSlot \/ PollOn \/ RegisterTask

-----------------------------------------------------------------------------
(* cycle timer and scheduler *)

Full(s) == Len(queue[s]) = QueueSize

\* cycle_timer_wait: the scheduler starts to wait on the condition ...
Enter ==
  /\ spc = "enter" /\ spc' = "waiting"
  /\ UNCHANGED <<setupVars, queue, next, dispatcherVars, hwVars>>

\* ... and the timer wakes it, if it is waiting already; a broadcast that comes
\* earlier is not remembered.
Broadcast ==
  /\ timer
  /\ spc' = IF spc = "waiting" THEN "fill" ELSE spc
  /\ UNCHANGED <<setupVars, queue, next, dispatcherVars, hwVars>>

\* pthread_cond_wait has no predicate here: it may also return by itself.
SpuriousWakeup ==
  /\ spc = "waiting" /\ spc' = "fill"
  /\ UNCHANGED <<setupVars, queue, next, dispatcherVars, hwVars>>

NextEntry ==
  IF next = Len(Schedule) THEN next' = 1 /\ spc' = "enter"
                          ELSE next' = next + 1 /\ UNCHANGED spc

\* Mutants: a task is skipped when its queue is full; the queue grows.
EnqueueOrSkip ==
  /\ spc = "fill"
  /\ LET e == Schedule[next] IN
       queue' = IF Full(e.slot) THEN queue
                ELSE [queue EXCEPT ![e.slot] = Append(@, e.task)]
  /\ NextEntry
  /\ UNCHANGED <<setupVars, dispatcherVars, hwVars>>
EnqueueAtOnce ==
  /\ spc = "fill"
  /\ queue' = [queue EXCEPT ![Schedule[next].slot] = Append(@, Schedule[next].task)]
  /\ NextEntry
  /\ UNCHANGED <<setupVars, dispatcherVars, hwVars>>

\* reconfig_queue_enqueue, which blocks while the queue of the slot is full
Enqueue ==
  /\ spc = "fill" /\ ~Full(Schedule[next].slot)
  /\ queue' = [queue EXCEPT ![Schedule[next].slot] = Append(@, Schedule[next].task)]
  /\ NextEntry
  /\ UNCHANGED <<setupVars, dispatcherVars, hwVars>>

Scheduler == Enter \/ Enqueue

-----------------------------------------------------------------------------
(* reconfig_dispatcher_thread of slot s *)

DStep(s, from, to) == dpc[s] = from /\ dpc' = [dpc EXCEPT ![s] = to]
schedulerVars == <<spc, next>>

\* Mutant: the task that leaves the slot stays marked.
TakeRequestOnly(s) ==
  /\ requests[s] # <<>>
  /\ requests' = [requests EXCEPT ![s] = Tail(@)]
  /\ DStep(s, "request", IF Head(requests[s]) = "wrong" THEN "ended" ELSE "dequeue")
  /\ UNCHANGED <<setupVars, queue, schedulerVars, new, turned, tstate, initData, mutex, hw>>
\* mbox_get; a wrong number ends the dispatcher, otherwise the task of the last
\* turn (thread 0 in the first one) is marked as waiting.
TakeRequest(s) ==
  /\ requests[s] # <<>>
  /\ requests' = [requests EXCEPT ![s] = Tail(@)]
  /\ \/ /\ Head(requests[s]) = "wrong" /\ DStep(s, "request", "ended")
        /\ UNCHANGED tstate
     \/ /\ Head(requests[s]) = "id" /\ DStep(s, "request", "dequeue")
        /\ tstate' = [tstate EXCEPT ![new[s]] = "WAITING"]
  /\ UNCHANGED <<setupVars, queue, schedulerVars, new, turned, initData, mutex, hw>>

Dequeue(s) ==
  /\ DStep(s, "dequeue", "suspend") /\ queue[s] # <<>>
  /\ new' = [new EXCEPT ![s] = Head(queue[s])] /\ turned' = turned \cup {s}
  /\ queue' = [queue EXCEPT ![s] = Tail(@)]
  /\ UNCHANGED <<setupVars, schedulerVars, tstate, initData, mutex, hwVars>>

\* Mutant: does not wait for the exit.
SuspendAtOnce(s) ==
  /\ DStep(s, "suspend", "lock")
  /\ UNCHANGED <<setupVars, queue, schedulerVars, new, turned, tstate, initData, mutex, hwVars>>
\* reconos_thread_suspend_block returns when the hardware thread has exited.
SuspendBlock(s) ==
  /\ DStep(s, "suspend", "lock") /\ hw[s] = "exited"
  /\ UNCHANGED <<setupVars, queue, schedulerVars, new, turned, tstate, initData, mutex, hwVars>>

Lock(s) ==
  /\ DStep(s, "lock", "load") /\ mutex = None /\ mutex' = s
  /\ UNCHANGED <<setupVars, queue, schedulerVars, new, turned, tstate, initData, hwVars>>

\* init_data of the task, which is NULL until the task is registered;
\* breconfigurable is never 1, so no bitstream is written.
Load(s) ==
  /\ DStep(s, "load", "resume")
  /\ initData' = [initData EXCEPT ![s] = IF new[s] \in Registered THEN new[s] ELSE None]
  /\ UNCHANGED <<setupVars, queue, schedulerVars, new, turned, tstate, mutex, hwVars>>

Resume(s) ==
  /\ DStep(s, "resume", "mark") /\ hw' = [hw EXCEPT ![s] = "running"]
  /\ UNCHANGED <<setupVars, queue, schedulerVars, new, turned, tstate, initData, mutex, requests>>

MarkRunning(s) ==
  /\ DStep(s, "mark", "unlock") /\ tstate' = [tstate EXCEPT ![new[s]] = "RUNNING"]
  /\ UNCHANGED <<setupVars, queue, schedulerVars, new, turned, initData, mutex, hwVars>>

\* Mutant: the mutex is not released.
UnlockForgotten(s) ==
  /\ DStep(s, "unlock", "request")
  /\ UNCHANGED <<setupVars, queue, schedulerVars, new, turned, tstate, initData, mutex, hwVars>>
Unlock(s) ==
  /\ DStep(s, "unlock", "request") /\ mutex' = None
  /\ UNCHANGED <<setupVars, queue, schedulerVars, new, turned, tstate, initData, hwVars>>

Dispatcher(s) ==
  \/ TakeRequest(s) \/ Dequeue(s) \/ SuspendBlock(s) \/ Lock(s) \/ Load(s)
  \/ Resume(s) \/ MarkRunning(s) \/ Unlock(s)

-----------------------------------------------------------------------------
(* The hardware thread of slot s (outside this code): it puts its request and *)
(* exits, as the video kernels do.                                            *)

Request(s) ==
  /\ hw[s] = "running" /\ hw' = [hw EXCEPT ![s] = "requested"]
  /\ \E w \in Words : requests' = [requests EXCEPT ![s] = Append(@, w)]
  /\ UNCHANGED <<setupVars, queue, schedulerVars, dispatcherVars>>
Exit(s) ==
  /\ hw[s] = "requested" /\ hw' = [hw EXCEPT ![s] = "exited"]
  /\ UNCHANGED <<setupVars, queue, schedulerVars, dispatcherVars, requests>>
Hardware(s) == Request(s) \/ Exit(s)

\* exit ends all threads with the program.
Lives(A) == program # "ended" /\ A

Next == Lives(
  \/ Start \/ Broadcast \/ SpuriousWakeup \/ Scheduler
  \/ \E s \in Slots : Dispatcher(s) \/ Hardware(s))

Spec == Init /\ [][Next]_vars

\* The program gets on with its start-up; the threads and the timer run; the
\* hardware threads ask to be exchanged again and again; no dispatcher waits for the
\* mutex for ever.
Fairness ==
  /\ WF_vars(Start) /\ WF_vars(Lives(Broadcast)) /\ WF_vars(Lives(Scheduler))
  /\ \A s \in Slots : /\ WF_vars(Lives(Dispatcher(s))) /\ SF_vars(Lives(Lock(s)))
                       /\ WF_vars(Lives(Hardware(s)))
FairSpec == Spec /\ Fairness

-----------------------------------------------------------------------------

\* The calls for a slot in the schedule, and the one that comes after call i.
Entries(s) == {i \in DOMAIN Schedule : Schedule[i].slot = s}
Successor(s, i, j) ==
  \/ i < j /\ \A k \in Entries(s) : k <= i \/ j <= k
  \/ j <= i /\ \A k \in Entries(s) : j <= k /\ k <= i
Follows(s, t, u) ==
  \E i, j \in Entries(s) :
    Successor(s, i, j) /\ Schedule[i].task = t /\ Schedule[j].task = u
FirstOf(s, t) ==
  \E i \in Entries(s) : Schedule[i].task = t /\ \A k \in Entries(s) : i <= k

\* The tasks of a slot take turns in the order of the schedule: none is left
\* out or run twice in a row, however often the scheduler is blocked by a full
\* queue, misses a broadcast of the timer or wakes up without one, and however far
\* the registration of slots and tasks has come.  In its first turn a dispatcher
\* gets the first task of its slot.
InTurn ==
  [][\A s \in Slots : Dequeue(s) =>
       IF s \in turned THEN Follows(s, new[s], new'[s]) ELSE FirstOf(s, new'[s])]_vars

\* A slot is given its next task only after its hardware thread has exited, and
\* by one dispatcher at a time.  (The initial bitstreams are written at registration,
\* before the slot has a dispatcher, and take no mutex.)
LoadsAlone ==
  \A s \in Slots : dpc[s] \in {"load", "resume"} =>
    /\ hw[s] = "exited" /\ requests[s] = <<>>
    /\ \A r \in Slots \ {s} : dpc[r] \notin {"load", "resume", "mark", "unlock"}

\* At most one task of a slot is marked as running.
OneRunningPerSlot ==
  \A s \in Slots :
    Cardinality({i \in Entries(s) : tstate[Schedule[i].task] = "RUNNING"}) <= 1

\* Every task gets its slot again and again, unless a wrong request has ended a
\* dispatcher (its queue then fills up and stops the scheduler), the timer or the
\* scheduler could not be started, or the start-up ends the program or reads
\* prog_done for ever.
EveryTaskRuns ==
  \A i \in DOMAIN Schedule :
    \/ []<>(initData[Schedule[i].slot] = Schedule[i].task)
    \/ <>(\E s \in Slots : dpc[s] = "ended")
    \/ <>(setup = Len(Setup) /\ (~timer \/ spc = "none"))
    \/ <>(program # "starts")

\* reconfig_scheduler.c: "every thread is called in every cycle once".  A cycle that
\* began while the scheduler is blocked by a full queue would call nobody.
CalledEveryCycle == ~(timer /\ spc = "fill" /\ Full(Schedule[next].slot))
=============================================================================
