# Formal model of Recobop

Recobop is a demonstrator on a Zynq SoC: three ball-on-plate plants and a video
path, whose stages run as software or hardware threads on top of the ReconOS
runtime. The C runtime in `src/clean/lib/runtime` gives hardware threads access
to POSIX services; the application in `src/src/application` exchanges hardware
threads at run time by partial reconfiguration. What can go wrong here is
almost entirely a matter of interleavings: two dozen threads, flags shared
without locks, mailboxes built from semaphores, and hardware that is stopped,
rewritten and restarted under the feet of the software that serves it.

This directory holds the TLA+ specification of that core, the TLC configurations
that check it on small instances, and TLAPS proofs.

## 1. Inventory

| component | source | state | operations | talks to |
|---|---|---|---|---|
| mailbox | `clean/lib/runtime/comp/mbox.c` | ring, two indices, a semaphore and a mutex per side | put, get, interruptible and try variants | every thread |
| queue of thread numbers | `src/application/queue.c`, `reconfig_queue.c` | ring, head, tail, two semaphores, one mutex | enqueue, dequeue, isempty | scheduler to dispatchers |
| hardware slot and delegate | `clean/lib/runtime/reconos.c`, `arch/arch_linux.c` | `rt`, `dt`, `dt_state`, `dt_flags`, `dt_exit`; reset and signal line; two FIFOs | create, suspend, suspend_block, resume, join, signal; the delegate loop with the mailbox, semaphore, mutex, condition and thread commands | owner thread, hardware, resources |
| slot and thread tables | `reconos.c`, `reconos_app.c` | `slot->rt`, `rt->hwslot`, state of each thread, allowed slots | start-up, create_auto, create, suspend, join, resume of several threads | slots, application |
| clock of the hardware threads | `arch/arch_linux.c` | one register with two counters | set the frequency | AXI |
| video kernel switch | `src/application/reconf_server.c`, `rt_color2bw.cpp`, `rt_sobel.cpp` | `rc_flag`, content of the fabric, place of the kernel | request, handshake, suspend, write bitstream, resume | slot, `video_cmd`, `reconfiguration_v_request` |
| capture buffers | `hdmi_input.c` | buffers at the driver, at the kernel, in the mailbox | dequeue, announce, queue again | driver, video kernel |
| pixel pipelines | `rt_sobel`, `rt_color2bw`, C and HLS | ring of four lines | read ahead, write a line | memory |
| time-sharing scheduler | `reconfig_scheduler.c`, `reconfig_dispatcher.c`, `cycle_timer.c` | registered slots and tasks, queue per slot, state of each task, `reconfiguration_mutex` | register; broadcast, wait, enqueue; request, dequeue, suspend, load, resume | slot, mailboxes, timer |
| control pipeline | `rt_touch`, `rt_control`, `rt_inverse`, `rt_servo`, C, HLS and VHDL | mailboxes between the stages, filter state | one loop per stage | mailboxes, AXI registers, cycle timer |
| number codec | `recobop.h` | none | `fltofi`, `fitofl` | pipeline |
| measurement log | `log.c`, `difference_measurement.c` | ring of samples, last index | poll, dump | measurement core |
| web control, touch pacing | `clean/rt_web`, `clean/rt_saw` | `ctrl_touch_wait`, thread control | HTTP requests, saw tooth | pipeline, slot |
| drivers and scripts | `a9timer.c`, `axi_*.c`, `memory.c`, `scripts/`, `hd_visual/`, `ip_repo/` | none of their own | register access, tool scripts | |

The behaviours that are hard to test, and what makes each component correct:

* **mailbox** - the semaphore is waited on while the mutex of the side is held,
  a signal may end the wait (the plain put and get do not notice and go on), and
  the try calls read a semaphore before taking it. Correct means: tokens are
  conserved on all paths, a word is neither overwritten nor read early, the whole is
  a FIFO, and the wait under the mutex does not stop a caller that could go on. The
  ignored signal breaks the middle two; how far is stated exactly.
* **queue** - one mutex for both sides, but the semaphores are used outside of
  it, so posts come in another order than moves. Correct means: still a FIFO.
* **slot** - `dt_flags`, `dt_state` and `rt` are shared without a lock; the exit
  of the hardware thread races with a suspend; the suspender breaks a wait it
  only believes in. Correct means: nobody is reset in mid-call, the next thread
  of the slot starts from a clean slot, `rt` is never NULL when it is read, a
  join takes the exit of its own run, a paused thread has no call served, a
  suspend returns.
* **tables** - `slot->rt` and `rt->hwslot` are changed apart from one another by
  callers that hold no lock, and the search for a free slot looks only at one of
  them. Correct means: the two agree, a slot serves one thread, and a
  well-behaved application meets no panic but the one for a slot used before.
* **kernel switch** - four waits on three parties. Correct means: the fabric is
  written only when nothing moves in the slot, handshakes are not mixed up, and
  a switch that has begun ends with a kernel that works.
* **capture buffers** - a buffer goes back to the driver while the kernel still has
  to read it. Correct means: how stale a frame can get is bounded.
* **arithmetic** - sign bits, dividers at the ends of their range, a ring of lines
  read ahead. Correct means: what is coded is decoded, the register makes the
  frequency that is returned, an output line comes from its own input lines.
* **scheduler** - registration while everything already runs, a blocking queue in the middle of a cycle, a condition
  variable without a predicate, one configuration port for all slots. Correct
  means: order of turns, exclusive loading, nobody starves.
* **control pipeline** - stages that block each other in small mailboxes, that
  may be in hardware or in software, and that leave and return one by one.
  Correct means: a stage leaves between two frames of six commands, the filter of
  the controller survives, positions do not overtake each other, and the servos
  follow the ball.

`PROJECT.json` lists these hazards line by line with the properties about them.

## 2. Modules

```
BoundedBuffer              abstract FIFO of atomic calls
   ^ refined by               ^ refined by
 Mbox  <- MboxProofs        SlotQueue  <- SlotQueueProofs
   ^ MCMbox                   ^ MCSlotQueue

 HwSlot  <- HwSlotProofs    slot, delegate, owner, any hardware thread
   ^ MCHwSlot   ^
   ^ extended   ^ used by
 KernelSwitch  <- KernelSwitchProofs   the two programs that use the slot of the
   ^ MCKernelSwitch                    video kernels, and the camera

 Registry  <- RegistryProofs   thread and slot tables of the runtime, many callers
   ^ MCRegistry   ^ refined by HwSlot, for one slot and its thread (Tables)

 Reconfig  <- ReconfigProofs   registration, timer, scheduler, dispatchers (queues,
   ^ MCReconfig                mailboxes and slots at their abstract level)

 Pipeline  <- PipelineProofs   the four stages of a ball-on-plate demonstrator
   ^ MCPipeline

 Arithmetic  <- ArithmeticProofs   number codec, clock divider, line buffer
   ^ MCArithmetic
```

**Mbox.** One action per step of a call: lock, `sem_getvalue` and branch,
`sem_wait`, interruption, copy and advance of the index, `sem_post`, unlock and
return. All six functions of `mbox.c` have the same steps, so the side of a call
(`Side(op[t])`) selects mutex, semaphore and index. Copy and advance are one
step because the mutex of the side covers both and nobody else reads the index.
Each thread makes the calls in `Ops`, and signals reach the threads in `Signalled`,
which in the runtime are the delegates (`pthread_kill` in `hwslot_suspendthread`;
`SIGUSR1` without `SA_RESTART`, `reconos.c:413-414`). A signal ends a wait on a
semaphore. The interruptible calls return -1; `mbox_put` and `mbox_get` ignore the
result (`mbox.c:58`, `:93`) and move a word without having taken its place or word:
a *slip*, counted in `slips`. A slip leaves the semaphores one too high for good
(`TokensConserved` says exactly that) and ends what the mailbox promises as a FIFO, so
`NoOverwrite` and `Implements` speak of the time before the first. The theorem
`UnsignalledFifo` says what would lift the reservation: delegates that make no plain
call.

**SlotQueue.** As Mbox, but the mutex is taken after the `sem_wait` and released
before the `sem_post`, and copy and advance are two steps because
`queue_isempty` reads `head` and `tail` without the mutex (in either order, as
the compiler pleases). The call answers "empty" for a full ring as well, since
`head == tail` in both; its only caller prints a message (`reconfig_scheduler.c:26-28`).

**BoundedBuffer.** The promise of both: a sequence of at most `Capacity` words
on which each call takes effect at one instant between its call and its return.
`Mbox!Contents` counts a word from the `sem_post` of its putter to the
`sem_post` of its getter; `SlotQueue!Contents` from one move of an index to the
other.

**HwSlot.** Delegate actions start with `D`, owner actions with `O`; the
hardware thread (`HwBoot`, `HwCall`, `HwAnswer`) and the threads at the other
ends of its mailboxes, semaphore, mutex and condition (`Environment`) are external.
All commands of the delegate are there; a thread is built for some set of them
(`uses`). The owner creates the thread once: a join frees the slot but leaves
`slot->dt`, and the next create panics for the second delegate (`reconos.c:505`),
although `private.h:122` reads as if it were created only when missing; Registry
shows this path. A `|=` on `dt_flags` is
a load and a store, as is `&= ~`; two `|=` in a row may also be merged. The
owner makes any call that is legal (`Legal`) in any order. Assumptions on what
lies outside of the C code: the words of one call enter the FIFO together; a
reset leaves the FIFOs as they are (`FreeSlotIsQuiet` shows that they are empty
then); `RECONOS_OSIF_INTC_BREAK` ends a wait that is going on, and otherwise is
either remembered for the next wait or lost; the reset line is asserted before
the first create. `SIGUSR1` is installed without `SA_RESTART` (`sa_flags` is 0,
`reconos.c:413-414`), so it ends a wait on a semaphore as well as in the driver.
The suspender sends it by a `dt_state` it has read before (`seen`), so that it may
reach the delegate in a later call: `Kill` then ends the wait of `mbox_put` for a
place, and `DSlip` stores the word regardless (`slips`, as in Mbox; the run `slot_full`).

The mailboxes are counts of words, and the holder of `mutex_read` of the one it gets
from and of `mutex_write` of the one it puts to (`readLock`, `writeLock`). The
mailboxes of a stage are shared, so another caller (`OtherCalls`, `OtherReturns`) may
hold these mutexes for as long as it likes, waiting for a word itself; the delegate
then waits in `pthread_mutex_lock`, which no signal ends. That other delegates may
slip on the same mailbox is left to Mbox.

The last section of the module says what Registry sees of the slot, as an instance
of Registry (`Tables`) with one slot and one thread. The steps of a call that Registry
takes at once are hidden until the one that counts: a create until the delegate
exists, a suspend until the flag is stored (`Claiming`), an exit until the delegate
has cleared the flags, a join until the reset, a resume until `rt` is set.
`SlotOfTables` says that the slot starts as start-up leaves it (`Ready` of Registry)
and then makes only steps of Registry, none of them a panic.

**KernelSwitch** extends HwSlot and replaces the free owner and the free
hardware thread by the two programs of the video path: `reconf_server_thread`
(actions `S...`) and the kernels (actions `K...`; both kernels have the same
control flow). A request is any kernel at any time, reading the UDP socket is not
modelled. A bitstream that cannot be opened leaves the fabric as it is, and
the return value is ignored. When `prog_done` cannot be opened, or its first reads do
not give '1' (there is no `lseek`), the server reads it for ever (`SPollsOn`,
`reconf_server.c:79-85`). `main.c` creates the kernel (`SCreate`); it does
not start the server at this commit, so the model runs the server as its own
`reconf_server_init` would. The camera (`Camera`, `Capture`) is the capture
thread of `hdmi_input.c` and the driver; `frames` and `reading` count how often a
buffer was filled again since its address was announced. `InSize` is the size of
`video_cmd`, 1 in `build.cfg:102-103`; the bound is proved for every size.

**Registry** looks at all slots at once. Start-up may fail at each step; the create
functions (`AppFunctions`, from the generated `reconos_app.c`) make a thread and scan
its allowed slots; `Place` is `hwslot_createthread`. Each thread then has a caller
of its own, and `at` is where that caller is in its call. The code does not test
why a slot is empty, so a thread that has ended is resumed like one that was
suspended. The delegate is reduced to what HwSlot shows of it: it takes a suspend
request, and it posts one exit per run. HwSlot is shown to implement this for one
slot (`SlotOfTables`).

**Arithmetic** has three computations. `fltofi` works on words of `Bits` bits and
takes a step per binary place, as its loop does; `fitofl` reads the word back. A float
is an integer number of half binary places, so that rounding is seen. The powers of
two are a table (`Pow`) of which `PowAssumption` says that they are powers of two.
The clock takes the divider apart as the code does. A video kernel takes a step per
output line; the state is the input line in each of the four parts of its buffer.

**Reconfig** is one level up: a queue call, a mailbox call, `suspend_block` and
`resume` are single steps, as SlotQueue, Mbox and HwSlot justify. (Mbox does so up to the
first slip; here, as in Pipeline, there is none: a slot is only suspended after its
thread has put the request, its last call but the exit, so that the suspender sees no
delegate in a blocking call and sends no signal. KernelSwitch shows this for the
protocol of the video kernels, `NoCallInterrupted`.) `Schedule` is
the list of enqueue calls in `reconfig_scheduler_schedule`. `breconfigurable` is
0 on every path of the registration, so that loading a task only sets
`init_data`. `RECONFIG_ENABLE` is 0 in `reconfig_settings.h`; the model is that of
the build with 1. `Setup` is the list of calls of the program at start-up: timer,
scheduler, slots and tasks, in any order, while the threads of the earlier calls
already run. Timer and scheduler may fail to start (a message is all that happens), or
end the program when `mlockall` fails (`EndProgram`, `program`); the registration of a
slot writes the initial bitstream, ignores its failure, takes no mutex for it and may
read `prog_done` for ever (`PollOn`). `turned` is a history variable, the slots that
have had a turn, which `InTurn` needs to tell the first from the others. A
`pthread_create` that fails is not modelled.

**Pipeline** stands on the abstract mailbox as well. One thread of a stage is a
pair of stage and copy; actions `Hw...` translate the VHDL and HLS sources,
`Sw...` the C sources, as `build.cfg` has both for every stage. As compiled,
`DIRECTAXIACCESS` is 1: the software controller reads the panel and the software
inverse writes the servo registers, which leaves `touch_pos` without a reader (the
touch thread then blocks for ever) and `servo_cmd` without a writer. The data is
reduced to the number of the sample a command was computed from; the controller's
context (24 words) to the last sample its filter took in. A read of x and y is one
step. The three critical sections of `cycle_timer_cmd_mutex` are one step each, as they
exclude each other. Whoever sets the flags and serves `reconfiguration_N_request` is
outside this repository's sources: flags change at any time (`SetFlag`), and a stage
whose request is taken is started again in the same kind (`Restart`).

Operators marked "Mutant" in a module are deliberate mistakes next to the
definition they distort; nothing in `Next` uses them. `PROJECT.json` pairs each
checked property with one of them, and TLC finds the property violated when
the mutant replaces the original.

## 3. Runs

| run | instance | what it shows |
|---|---|---|
| `mbox` | a software thread (put, get) and two delegates (put, get_interruptible, tryput, tryget) that signals reach, 2 words, ring of 2, one slip | types, `TokensConserved`, `NoOverwrite`, `TryNeverWaits`, refinement of BoundedBuffer, `WaiterServed` |
| `queue` | 2 enqueuers (one inspects), 2 dequeuers, ring of 2 | `PlacesConserved`, `NoCollision`, refinement of BoundedBuffer, `DequeueServed` |
| `slot` | threads built for mailboxes, for a semaphore, or for mutex and condition; all calls but a second create | types, `FreeSlotIsQuiet`, `NoNullThread`, `ExitMatchesRun`, `ResetOnlyAfterExit`, `NoCallWhilePaused`, refinement of Registry (`SlotOfTables`), `SuspendReturns` |
| `registry` | 10 slots, 3 threads out of servo, hardware and software inverse | `SlotsAgree`, `SlotServesOne`, `PanicOnlyOnReuse` |
| `kernel_switch` | two kernels, requests at any time, two capture buffers, `video_cmd` of 2 | `ProgrammedWhenQuiet`, `OneHandshake`, `OverwrittenAtMost`, `NoCallInterrupted`, `SwitchFinishes` |
| `reconfig` | 2 slots with 3 tasks and 1, queues of 2, registration while running, right and wrong requests | types, `LoadsAlone`, `OneRunningPerSlot`, `InTurn`, `EveryTaskRuns` |
| `pipeline` | all hardware; hardware between software ends; all software with two controllers and two inverse threads | types, `FramesWhole`, `ContextCarried`, `NeverBackwards`, `Converges`, `AskedLeaves` |
| `numbers` | 14-bit words in and out of range, a frequency per divider, frames of 9 lines | `RoundTrip`, `ClockTrue`, `RowsRight` |

Four runs expect a violation; each is a disagreement between the code and what it
says of itself, listed with the quoted lines under "findings" in `PROJECT.json`:

| run | property | disagreement |
|---|---|---|
| `kernel_resume` | `CallsAnswered` | an exit handled before `PAUSE_SYSCALLS` is set leaves the flag set for ever, and the resumed kernel gets no answer |
| `reconfig_cycle` | `CalledEveryCycle` | "every thread is called in every cycle once", but a broadcast is lost while the scheduler is blocked |
| `slot_full` | `NeverOverfull` | `mbox.h` says of `mbox_put` that it blocks if the mailbox is full; a late signal makes it store over an unread word |
| `rows_grey` | `GreyRowsRight` | the hardware grey kernel reads two lines ahead but starts to write at line 0: from its second line on it shows the line below |

`SuspendReturns` excepts three things (`Stuck`) that keep `reconos_thread_suspend`
spinning, although `reconos.h:256` says that it does not block: a delegate inside
`mbox_put` on a full mailbox, one waiting for a mutex of a mailbox that another caller
holds, and one inside `mutex_lock` or `cond_wait`. The try calls of a mailbox wait
for that mutex too, although `comp/mbox.h:83` and `:94` say that they do not block;
`TryNeverWaits` speaks of the semaphore only.

A disagreement without a run: `recobop.h:36-38` gives the touch stage the flag at offset
40 and the servo stage that at 48, but `rt_touch.vhd:221` reads offset 48. The flag of
the touch stage is read by nobody, and asking the servo stage to leave asks touch as
well; `HwTouchCheck` follows the code.

### Bounds and why they are enough

* *Threads and words.* Three mailbox threads give two callers of one side (the
  contention for a mutex) with one of the other. Two callers of each side of the
  queue are needed for posts out of order. Two different words tell orders
  apart.
* *Ring of 2.* The smallest ring in which an index can be wrong without the other
  being equal to it; full, empty and wrap-around all happen within a few calls.
  The proofs cover every size.
* *Calls of the mailbox.* Those the programs make: delegates put, get_interruptible,
  tryput and tryget, software threads put and get. put_interruptible is called
  nowhere. The proofs cover every combination.
* *`MaxSlips` of 1.* One put that goes on without a place shows the damage; the
  proofs cover any number.
* *FIFOs of 2, mailboxes of 1 (2 in `kernel_switch`), a semaphore up to 1.* The
  protocol has at most one start word and one answer on its way (`ExitMatchesRun`,
  `OneHandshake`), so larger FIFOs add no behaviour; a mailbox of one word is empty
  or full at once. `reconfiguration_v_request` has 8 words in `build.cfg`, and
  `OneHandshake` shows that one is used. `video_cmd` has one place in `build.cfg`; with
  two, a frame can wait behind another while its buffer is filled again; two buffers is what
  `hdmi_input.c` asks the driver for.
* *Three threads in ten slots.* Two threads that want the same slot and a third that
  changes the tables in between; the slots are those of the generated functions.
* *Queues of 2.* The code has 6 (`MAX_THREADS`), as the run `reconfig_cycle`. A queue
  shorter than a cycle of the slot blocks the scheduler in the middle of every
  cycle; with 6 it does so later.
* *14-bit words with 6 bits before the point, inputs at half a binary place.* This is
  the format of `rt_control.c:282` and `rt_inverse.c:91`; every word of it, both ends
  of the range and numbers beyond it are inputs. Every divider of the register from 1 to 126 and some beyond; nine
  lines go round the four-line buffer twice.
* *Two legs, mailboxes of one word, two samples.* Two legs make a frame that can be
  cut; a mailbox of one word makes every stage wait for the next as often as can
  be. Six legs and eight words differ in that a whole frame fits into a mailbox;
  all hardware with an `inverse_cmd` of two words gives the same results, but
  takes twice as long. Two samples suffice to tell old from new.
* `MaxFlags` is 1: one stage is asked to leave at a time, others may still be away.
  Two stages asked at once are not in the run (`AskedLeaves` and the others hold with
  `MaxFlags` 2 as well, in three times the time). `MaxCopies` is 2 where `main.c`
  starts three.
* There are no counters to cap: `dt_exit` is bounded by 1 (`ExitMatchesRun`), the
  request mailboxes by the protocol, `refills` by `OverwrittenAtMost`.

`CHECK_DEADLOCK FALSE` is set where all threads may rightly wait (nobody has to
call, a kernel need not exit), where the process may have ended (`registry`) or a
computation ends (`numbers`), and in `reconfig`, because a timer or scheduler that
could not be started leaves the system at rest. In `pipeline` deadlock is checked.

### Fairness

Weak fairness of every running software thread, of the hardware threads and of
the timer: SCHED_FIFO and CFS both run a ready thread on this system in the end,
the FPGA never stops. Not assumed: that anybody calls, that a mailbox is filled
or drained by its other users (except the camera, which delivers frames all the
time), that a request or a signal comes, that a freed mutex goes to a particular
waiter. In Reconfig the program gets on with its start-up, as far as it does not end or
read `prog_done` for ever, and the hardware threads ask to be exchanged again and
again. The exception is the
`reconfiguration_mutex` (strong fairness of `Lock`
in Reconfig): a dispatcher that finds it free again and again gets it.
In Pipeline some thread of each stage that can go on does, and requests are served
in some order; nothing is assumed of the ball or the flags.
`WaiterServed` therefore speaks of callers that hold the mutex, and
`DequeueServed` of some dequeuer, not of each.

## 4. Proofs

Every theorem holds for all values of the constants that satisfy the named
assumptions of its module. All safety properties of the passing runs are proved,
and in addition the types of SlotQueue, Registry and KernelSwitch, `SwitchUsesSlot` and
`StartUpLeavesReady`. The properties of the runs that expect a violation are of
course not.

**MboxProofs** (from `MboxAssumption`: the size is a positive number, `NoThread`
and `NoMsg` are no thread and no word; and `CallsAssumption`, which types `Ops` and
`Signalled`):

* `InductiveInvariant`: `Spec => []IInv`. `TokensConserved` is not inductive by
  itself: that a thread in "copy" counts once needs `LockInv` (the thread inside
  a call is the holder of its mutex, so there is at most one per side).
  `IndexInv` ties the distance of the indices to the tokens; without it
  `NoOverwrite` does not follow.
* `TypeCorrect`, `TokensAreConserved`, `NothingOverwritten`, `TriesNeverWait`:
  the invariants of the run `mbox`, from `IInv`. `IndexInv` and with it
  `NothingOverwritten` hold as long as nothing has slipped (`SlipsGrow`: what
  slipped is never undone); types and token count take the slips in.
* `MboxImplementsFifo`: `Spec => Implements`, every step up to the first slip is one of
  the FIFO. Needs `CallInv` (outcome and
  word at each place of a call) and `HandoverInv` (a caller about to post holds
  the word of the place it leaves) in addition: `SimInv`. Lemmas state how
  `Contents` changes: not at all (`SameContents`), by an append at a putter's
  `sem_post`, by a tail at a getter's. The only arithmetic is reduction modulo
  the ring size of numbers below twice the size (`WrapOnce`).
* `UnsignalledFifo`: `Spec => Abstract!Spec` for all time, assuming `Unsignalled`: no
  thread that signals reach makes a plain call. Nothing then ever slips (`NoSlipKept`).

**SlotQueueProofs.** The semaphores are used outside the mutex, so any number of
callers hold places at once, and counting them one by one no longer works: `CountInv`
adds the cardinalities of the callers that have claimed a place (`Claimed`) and that
have moved the index but not posted (`Moved`), per side, to the semaphores. `LockInv`
makes the one between `lock` and `unlock` unique, `IndexInv` ties head and tail to the
stages. `PlacesAreConserved` and `NobodyCollides` follow. `QueueImplementsFifo` needs
`StageInv` (outcome and word at each place) and `HandoverInv` (between copy and
advance the caller has the word of its place); a call takes effect when it moves
the index, the post and its order are invisible.

**HwSlotProofs.** `IInv` relates five parties. `OwnerInv`: what the place of the
owner says about `rt`, `dt` and the state. `RunsInv`: one run of the hardware thread,
from the reset pulse to the exit that is joined; at each stage it fixes what is in
the two FIFOs, what the delegate does and how many exits are posted (`ResetInv`,
`BootInv`, `RunInv`). This is the heart of the proof, and none of `FreeSlotIsQuiet`,
`ExitMatchesRun`, `NoNullThread` and `ResetOnlyAfterExit` is inductive without it,
since each is about a moment that the others prepare. `FlagInv`: the split
read-modify-writes of `dt_flags` never bring SUSPEND back. `PauseInv`: by the time the
owner sees SUSPEND taken, the delegate has left the call the pause began in.
`AnswerInv`: a type of the answer.

`SlotImplementsTables` (`Spec => SlotOfTables`) is step simulation under `IInv`. The
lemmas `See...` are the steps of Registry for one thread and one slot, stated on the
mapped variables; the lemmas `...Seen` take the actions of HwSlot one by one and show
which of them each is, or that nothing is seen. `IInv` is what makes this work:
that a join finds the hardware in reset already and no exit left to post (so that
freeing the slot is one step of Registry), that a resume finds the slot empty, that
a flag the delegate stores back never makes a suspend request appear (`FlagInv`), and
that `opc` is never at "panic".

**KernelSwitchProofs.** `ServerInv` says which call of the owner is going on at each
place of the server; with `IInv` of HwSlot it is inductive (`SwitchInvariant`), and
then every step of server, kernel and camera is a step of the slot or leaves it alone:
`SwitchUsesSlot` (`SwitchSpec => Spec` of HwSlot). `WrittenWhenQuiet` follows from
both. `CallInv` (the kernel's place against its one call in FIFO or delegate) and
`WordInv` (the word of a request is given once: `Given`, `NotGiven`) prove
`OneWordPerRequest` and `CallsEndBeforeSuspend`. `SwitchUsesTables` joins this to
the refinement above: the switch is a sequence of calls of Registry.

`StalenessIsBounded` is about the camera. A bound on `refills` is not inductive: it
must be known how far each frame is from its next overwriting. `LineInv` puts the
buffers in one line, first those the driver has filled, then those waiting to be
filled, with the one the capture thread holds before or behind them; the line does
not change while buffers move along it and turns by one place per announced frame.
`StaleInv` then fixes the count: a frame with `m` later ones whose buffer is at place
`k` was overwritten `(m + k) / N` times if that place is filled, one round less if
not, for `N` buffers. `CountInv` bounds `m` by the places of the mailbox. The bound
`1 + InSize \div N` does not depend on the speed of the kernel.

**RegistryProofs.** `StartInv` (nothing exists before start-up ends), `CreateInv`
(a thread in creation is the newest), and `TableInv`: `ThreadOK` reads the tables
from the side of a thread, `SlotOK` from the side of a slot. `SlotsAgree` is the
overlap; alone it does not say that a thread left a delegate behind, which
`SlotServesOne` and `PanicOnlyOnReuse` need. `StartUpLeavesReady`: whatever state
the design is in, after `reconos_app_init` the tables are empty and every slot is in
reset (`FreshInv`), which is the state HwSlot starts from.

**ReconfigProofs.** `MutexInv` (who holds the configuration mutex), `SetupInv` (a slot
has no dispatcher before it is registered) and `PhaseInv` (dispatcher, hardware thread
and request mailbox of a slot) give `LoadsAlone` and the types. `InTurn` compares one
task with the next and so does not say which request comes after that; `TurnInv`
does: the task of the dispatcher, the words in the queue and the call that is due
(`Due`) follow one another in the schedule. `OneRunningPerSlot` needs `RunningInv`,
which says where the dispatcher must be for a task to be marked at all. Both rest on
`ScheduleAssumption`, that no task is listed twice, as in
`reconfig_scheduler_schedule`, where each of the calls names another task: with a
task in two places of the schedule a word in a queue would not tell which call it
came from, and with a task in two slots the mark would not tell which slot it is in.

**PipelineProofs** proves `ContextIsCarried` for all deployments. `ContextCarried` says
nothing of a controller about to restore, so `CInv` adds that the memory holds the
last context from the save to the restore, and that a hardware stage has one thread.

`FramesAreWhole`: the commands on their way continue one another leg
by leg (`Chain`), from the leg the receiver expects to the leg the sender puts next;
`InverseFrame` and `ServoFrame` state this for the two mailboxes and the counters
of the stages. `ServosNeverGoBack`: the positions are followed along nine places, from
the panel over held commands and mailboxes to the servo registers (`Place`); every
position at an earlier place is as new as any at a later one (`Ordered`), and the
mailboxes rise. `OneGoesOn` shows that a step that moves one position to the next
place keeps this.

**ArithmeticProofs** (from `ArithmeticAssumption`: the format has a bit before and a
bit after the point, a frame more than three lines; and `PowAssumption`). `NumbersSurvive` for every
width of the word: `CodingInv` is the invariant of the loop of `fltofi`, what is left
of the fraction and what has been set make up the fraction, and what is left is worth
less than the place last looked at. The rest is division with remainder
(`Division`, `Quotient`, `Wrapped`), which the solver does not do for symbolic divisors
and which the lemmas spell out, down to `FitoflWord`: the sign bit of a negative
number is read as such. `ClockTellsTruth` takes the two counters of the register
apart; `RowsAreRight` needs `BufferInv`, which line is in which part of the buffer
before a line is computed.

Only model-checked are the seven liveness properties (`WaiterServed`, `DequeueServed`,
`SuspendReturns`, `SwitchFinishes`, `EveryTaskRuns`, `Converges`, `AskedLeaves`): they rest
on fairness and ENABLED, which the prover does not handle.

## 5. Plan

All modules of section 2 and the proofs of section 4 are done. Left:

1. Carry the theorems of the parts over to Reconfig, whose queue and slots are single
   steps: the refinements of BoundedBuffer and Registry are proved for the parts,
   and that Reconfig uses them as they are is by reading only.
2. The calls of the runtime that no program uses yet (`hwslot_reset`, `mbox_destroy`).

## 6. Not modelled

* Pixel and control arithmetic, floating point beyond rounding, HTTP and UDP
  formats, logging.
* `rt_web`, `rt_saw`: at this commit the generated `reconos_app.c` hands init data 0
  to saw, web, power, performance, inverse, `hwt_control` and vga whatever the caller
  passes (`reconos_app.c:401` for saw), so that their first access dereferences NULL.
  There is no run of them to model, and no thread that would pace the touch stage.
* `log.c` and `difference_measurement.c`: `log_init` has no caller.
* The write of a bitstream inside `reconfig_dispatcher_reconfigure` (never reached
  after registration), `reconfig_scheduler_dispatcher_feedback` and
  `reconfig_scheduler_free_bitstream` (no caller).
* The page fault handler, whose other half is in a kernel module outside this
  repository; `hwslot_reset` and `hwslot_setreset` (debugging aids);
  `mbox_destroy`, failing `malloc`.
* `rqueue.c` (unused), the Xilkernel port, AXI drivers, the VHDL difference core, tool
  scripts and the generated parts of `ip_repo`.
* Hazards without a property: an argument word read while its wait is broken off
  (`reconos.c:875`; the words of a call are assumed to arrive together); the shifted
  offsets in `rt_control.cpp:165` and the uninitialised stack of the controller
  (`main.c:80`), which matter to a manager outside this repository;
  a dispatcher ended by a wrong number (`reconfig_dispatcher.c:106`),
  whose effect on the other slot the code leaves open; `queue_isempty` (above).
* Memory ordering below the C level: shared flags are single words, each load and
  store is one atomic step in program order.
