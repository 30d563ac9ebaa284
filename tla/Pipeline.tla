------------------------------ MODULE Pipeline ------------------------------
(***************************************************************************)
(* The control loop of one ball-on-plate demonstrator: four stages joined  *)
(* by mailboxes.                                                           *)
(*                                                                         *)
(*   touch --touch_pos--> control --inverse_cmd--> inverse --servo_cmd-->  *)
(*   servo --> registers of the servos, one per leg                        *)
(*                                                                         *)
(* Every stage exists in hardware (VHDL or HLS) and in software (C), see   *)
(* the thread sections of build.cfg.  The software control reads the touch *)
(* panel itself and the software inverse writes the servo registers itself *)
(* (DIRECTAXIACCESS), so touch_pos and servo_cmd are unused behind them.   *)
(* A hardware stage looks at a flag in recobop_info between two pieces of  *)
(* work; if it is set the stage sends a request and exits.  Who serves the *)
(* requests is outside this repository's sources: Restart starts the stage *)
(* again, as the runtime does for any hardware thread.                     *)
(*                                                                         *)
(* Abstractions.  A position is the number of the sample the panel showed  *)
(* when it was read (the generator of the software touch is such a source  *)
(* too); a command carries the position it was computed from.  A mailbox   *)
(* call is one step on a bounded FIFO, which MboxProofs shows the mailbox  *)
(* to implement.  The cycle timer's three critical sections are one step   *)
(* each: they exclude each other by cycle_timer_cmd_mutex.                 *)
(***************************************************************************)
EXTENDS Integers, Sequences, FiniteSets

CONSTANTS
  Legs,         \* number of servo legs, 6 in the program
  MaxFlags,     \* bound: flags set at the same time
  MaxSample,    \* bound: the ball moves at most this often
  MaxCopies,    \* copies of a stage main.c starts at most, 3 there
  Deployments   \* builds: [impl, copies] of each stage, [cap] of each mailbox

Stage == {"touch", "control", "inverse", "servo"}
Box == {"touch_pos", "inverse_cmd", "servo_cmd"}

ASSUME PipelineAssumption ==
  /\ Legs \in Nat \ {0} /\ MaxSample \in Nat /\ MaxFlags \in Nat
  /\ MaxCopies \in Nat \ {0}
  /\ Deployments # {}
  /\ \A d \in Deployments : /\ d.impl \in [Stage -> {"hw", "sw"}]
                            /\ d.copies \in [Stage -> 1 .. MaxCopies]
                            /\ d.cap \in [Box -> Nat \ {0}]

Copy == 1 .. MaxCopies
Thread == Stage \X Copy
Leg == 0 .. (Legs - 1)
Sample == 0 .. MaxSample
NoSample == -1          \* what memory or a register holds before the first write
Nothing == [pos |-> NoSample, leg |-> 0]
Command == [pos : Sample, leg : Leg]

VARIABLES
  dep,      \* how the stages are built; fixed during a run
  sample,   \* the position the panel shows now
  flag,     \* rc_flag_* of struct recobop_info
  pc,       \* where each thread stands
  hold,     \* the position or command a thread works on
  cnt,      \* leg_cnt of the inverse and loop_cnt of the servo stage, in hardware
  box,      \* the three mailboxes
  servo,    \* the servo registers
  ctx,      \* the controller's context: the sample its filter took in last
  stack,    \* the context in memory at stack_addr
  req,      \* whether a request waits in the reconfiguration mailbox of each stage
  filtered  \* history: the last sample taken in by any run of the controller

vars == <<dep, sample, flag, pc, hold, cnt, box, servo, ctx, stack, req, filtered>>

Hw(s) == dep.impl[s] = "hw"
TheHw(s) == <<s, 1>>    \* a hardware stage has one slot, hence one thread

(* After THREAD_INIT and the words of recobop_info, set before the threads start. *)
FirstStep(s) == CASE s = "touch" -> "cycle"
                  [] s = "control" -> IF Hw(s) THEN "restore" ELSE "cycle"
                  [] OTHER -> "get"

-----------------------------------------------------------------------------
(* main.c starts the copies of each stage; all get the same recobop_info.  *)

(* Mutant: a second thread of every software stage, whatever the deployment says. *)
InitCopyEach ==
  /\ dep \in Deployments
  /\ sample = 0
  /\ flag = [s \in Stage |-> FALSE]
  /\ pc = [t \in Thread |->
             IF Hw(t[1]) /\ t[2] > 1 THEN "none"
             ELSE FirstStep(t[1])]
  /\ hold = [t \in Thread |-> Nothing]
  /\ cnt = [s \in {"inverse", "servo"} |-> 0]
  /\ box = [b \in Box |-> <<>>]
  /\ servo = [l \in Leg |-> NoSample]
  /\ ctx = NoSample /\ stack = NoSample /\ filtered = NoSample
  /\ req = [s \in Stage |-> FALSE]

Init ==
  /\ dep \in Deployments
  /\ sample = 0
  /\ flag = [s \in Stage |-> FALSE]
  /\ pc = [t \in Thread |->
             IF t[2] > dep.copies[t[1]] \/ (Hw(t[1]) /\ t[2] > 1) THEN "none"
             ELSE FirstStep(t[1])]
  /\ hold = [t \in Thread |-> Nothing]
  /\ cnt = [s \in {"inverse", "servo"} |-> 0]
  /\ box = [b \in Box |-> <<>>]
  /\ servo = [l \in Leg |-> NoSample]
  /\ ctx = NoSample /\ stack = NoSample /\ filtered = NoSample
  /\ req = [s \in Stage |-> FALSE]

Goto(t, from, to) == pc[t] = from /\ pc' = [pc EXCEPT ![t] = to]
Take(t, v) == hold' = [hold EXCEPT ![t] = v]

(* mbox_put and mbox_get of the runtime, blocking. *)
Put(b, v) == Len(box[b]) < dep.cap[b] /\ box' = [box EXCEPT ![b] = Append(@, v)]
Get(b) == box[b] # <<>> /\ box' = [box EXCEPT ![b] = Tail(@)]

(* The check of a flag between two pieces of work of a hardware stage. *)
CheckFlag(t, f, again) ==
  /\ pc[t] = "check"
  /\ pc' = [pc EXCEPT ![t] = IF flag[f] THEN "leave" ELSE again]

(* The request to the reconfiguration mailbox, and the exit after it. *)
RequestAndExit(t) ==
  /\ Goto(t, "leave", "exit")
  /\ ~req[t[1]]
  /\ req' = [req EXCEPT ![t[1]] = TRUE]
  /\ UNCHANGED <<dep, sample, flag, hold, cnt, box, servo, ctx, stack, filtered>>

-----------------------------------------------------------------------------
(* The cycle timer.  A broadcast wakes exactly the threads that wait then. *)

CycleWait(t) ==
  /\ Goto(t, "cycle", "wait")
  /\ UNCHANGED <<dep, sample, flag, hold, cnt, box, servo, ctx, stack, req, filtered>>

Broadcast ==
  /\ \E t \in Thread : pc[t] = "wait"
  /\ pc' = [t \in Thread |-> IF pc[t] = "wait" THEN "read" ELSE pc[t]]
  /\ UNCHANGED <<dep, sample, flag, hold, cnt, box, servo, ctx, stack, req, filtered>>

-----------------------------------------------------------------------------
(* The touch stage. *)

HwTouchRead(t) ==
  /\ Hw("touch") /\ Goto(t, "read", "put")
  /\ Take(t, [pos |-> sample, leg |-> 0])
  /\ UNCHANGED <<dep, sample, flag, cnt, box, servo, ctx, stack, req, filtered>>

HwTouchPut(t) ==
  /\ Hw("touch") /\ Goto(t, "put", "check")
  /\ Put("touch_pos", hold[t].pos) /\ Take(t, Nothing)
  /\ UNCHANGED <<dep, sample, flag, cnt, servo, ctx, stack, req, filtered>>

(* The word at rb_info + 48, which is the flag of the servo stage. *)
HwTouchCheck(t) ==
  /\ Hw("touch") /\ CheckFlag(t, "servo", "cycle")
  /\ UNCHANGED <<dep, sample, flag, hold, cnt, box, servo, ctx, stack, req, filtered>>

HwTouchLeave(t) == Hw("touch") /\ RequestAndExit(t)

SwTouchRead(t) ==
  /\ ~Hw("touch") /\ Goto(t, "read", "put")
  /\ Take(t, [pos |-> sample, leg |-> 0])
  /\ UNCHANGED <<dep, sample, flag, cnt, box, servo, ctx, stack, req, filtered>>

SwTouchPut(t) ==
  /\ ~Hw("touch") /\ Goto(t, "put", "cycle")
  /\ Put("touch_pos", hold[t].pos) /\ Take(t, Nothing)
  /\ UNCHANGED <<dep, sample, flag, cnt, servo, ctx, stack, req, filtered>>

Touch(t) ==
  \/ HwTouchRead(t) \/ HwTouchPut(t) \/ HwTouchCheck(t)
  \/ HwTouchLeave(t)
  \/ SwTouchRead(t) \/ SwTouchPut(t)
  \/ CycleWait(t)

-----------------------------------------------------------------------------
(* The control stage: one position in, one command per leg out. *)

(* Mutant: the loop ends one leg early. *)
PutCommandShort(t, after) ==
  /\ pc[t] = "put"
  /\ Put("inverse_cmd", hold[t])
  /\ IF hold[t].leg < Legs - 2
     THEN UNCHANGED pc /\ Take(t, [hold[t] EXCEPT !.leg = @ + 1])
     ELSE pc' = [pc EXCEPT ![t] = after] /\ Take(t, Nothing)
  /\ UNCHANGED <<dep, sample, flag, cnt, servo, ctx, stack, req, filtered>>

(* One word of a burst of Legs commands; i of the loop is hold[t].leg. *)
PutCommand(t, after) ==
  /\ pc[t] = "put"
  /\ Put("inverse_cmd", hold[t])
  /\ IF hold[t].leg < Legs - 1
     THEN UNCHANGED pc /\ Take(t, [hold[t] EXCEPT !.leg = @ + 1])
     ELSE pc' = [pc EXCEPT ![t] = after] /\ Take(t, Nothing)
  /\ UNCHANGED <<dep, sample, flag, cnt, servo, ctx, stack, req, filtered>>

(* What the filter and the PD terms keep of the past. *)
Kalman(context, pos) == pos

(* Restores x, P, error_*_last and u from memory. *)
HwControlRestore(t) ==
  /\ Hw("control") /\ Goto(t, "restore", "get")
  /\ ctx' = stack
  /\ UNCHANGED <<dep, sample, flag, hold, cnt, box, servo, stack, req, filtered>>

HwControlGet(t) ==
  /\ Hw("control") /\ Goto(t, "get", "put")
  /\ Get("touch_pos")
  /\ LET pos == Head(box["touch_pos"]) IN
       /\ Take(t, [pos |-> pos, leg |-> 0])
       /\ ctx' = Kalman(ctx, pos)
       /\ filtered' = pos
  /\ UNCHANGED <<dep, sample, flag, cnt, servo, stack, req>>

HwControlPut(t) == Hw("control") /\ PutCommand(t, "check")

HwControlCheck(t) ==
  /\ Hw("control")
  /\ pc[t] = "check"
  /\ pc' = [pc EXCEPT ![t] = IF flag["control"] THEN "save" ELSE "get"]
  /\ UNCHANGED <<dep, sample, flag, hold, cnt, box, servo, ctx, stack, req, filtered>>

(* Mutant: the loop is left without marshalling. *)
HwControlSaveNothing(t) ==
  /\ Hw("control") /\ Goto(t, "save", "leave")
  /\ UNCHANGED <<dep, sample, flag, hold, cnt, box, servo, ctx, stack, req, filtered>>

HwControlSave(t) ==
  /\ Hw("control") /\ Goto(t, "save", "leave")
  /\ stack' = ctx
  /\ UNCHANGED <<dep, sample, flag, hold, cnt, box, servo, ctx, req, filtered>>

HwControlLeave(t) == Hw("control") /\ RequestAndExit(t)

SwControlRead(t) ==
  /\ ~Hw("control") /\ Goto(t, "read", "put")
  /\ Take(t, [pos |-> sample, leg |-> 0])
  /\ UNCHANGED <<dep, sample, flag, cnt, box, servo, ctx, stack, req, filtered>>

SwControlPut(t) == ~Hw("control") /\ PutCommand(t, "cycle")

Control(t) ==
  \/ HwControlRestore(t) \/ HwControlGet(t) \/ HwControlPut(t) \/ HwControlCheck(t)
  \/ HwControlSave(t) \/ HwControlLeave(t)
  \/ SwControlRead(t) \/ SwControlPut(t)
  \/ CycleWait(t)

-----------------------------------------------------------------------------
(* The inverse stage: the angle of one leg for each command. *)

(* Mutant: leg_cnt is not reset after a frame. *)
HwInverseGetNoReset(t) ==
  /\ Hw("inverse") /\ Goto(t, "get", "put")
  /\ Get("inverse_cmd") /\ Take(t, Head(box["inverse_cmd"]))
  /\ cnt' = [cnt EXCEPT !["inverse"] = @ + 1]
  /\ UNCHANGED <<dep, sample, flag, servo, ctx, stack, req, filtered>>

HwInverseGet(t) ==
  /\ Hw("inverse") /\ Goto(t, "get", "put")
  /\ Get("inverse_cmd") /\ Take(t, Head(box["inverse_cmd"]))
  /\ cnt' = [cnt EXCEPT !["inverse"] = IF @ < Legs THEN @ + 1 ELSE 1]
  /\ UNCHANGED <<dep, sample, flag, servo, ctx, stack, req, filtered>>

HwInversePut(t) ==
  /\ Hw("inverse") /\ Goto(t, "put", "check")
  /\ Put("servo_cmd", hold[t]) /\ Take(t, Nothing)
  /\ UNCHANGED <<dep, sample, flag, cnt, servo, ctx, stack, req, filtered>>

(* Mutant: leaves after any leg. *)
HwInverseCheckEarly(t) ==
  /\ Hw("inverse")
  /\ pc[t] = "check"
  /\ pc' = [pc EXCEPT ![t] =
              IF flag["inverse"] THEN "leave" ELSE "get"]
  /\ UNCHANGED <<dep, sample, flag, hold, cnt, box, servo, ctx, stack, req, filtered>>

(* Mutant: waits for one leg too many. *)
HwInverseCheckLate(t) ==
  /\ Hw("inverse")
  /\ pc[t] = "check"
  /\ pc' = [pc EXCEPT ![t] =
              IF flag["inverse"] /\ cnt["inverse"] = Legs + 1 THEN "leave" ELSE "get"]
  /\ UNCHANGED <<dep, sample, flag, hold, cnt, box, servo, ctx, stack, req, filtered>>

HwInverseCheck(t) ==
  /\ Hw("inverse")
  /\ pc[t] = "check"
  /\ pc' = [pc EXCEPT ![t] =
              IF flag["inverse"] /\ cnt["inverse"] = Legs THEN "leave" ELSE "get"]
  /\ UNCHANGED <<dep, sample, flag, hold, cnt, box, servo, ctx, stack, req, filtered>>

HwInverseLeave(t) == Hw("inverse") /\ RequestAndExit(t)

SwInverseGet(t) ==
  /\ ~Hw("inverse") /\ Goto(t, "get", "store")
  /\ Get("inverse_cmd") /\ Take(t, Head(box["inverse_cmd"]))
  /\ UNCHANGED <<dep, sample, flag, cnt, servo, ctx, stack, req, filtered>>

SwInverseStore(t) ==
  /\ ~Hw("inverse") /\ Goto(t, "store", "get")
  /\ servo' = [servo EXCEPT ![hold[t].leg] = hold[t].pos] /\ Take(t, Nothing)
  /\ UNCHANGED <<dep, sample, flag, cnt, box, ctx, stack, req, filtered>>

Inverse(t) ==
  \/ HwInverseGet(t) \/ HwInversePut(t) \/ HwInverseCheck(t)
  \/ HwInverseLeave(t)
  \/ SwInverseGet(t) \/ SwInverseStore(t)

-----------------------------------------------------------------------------
(* The servo stage: each command into the register of its leg. *)

HwServoGet(t) ==
  /\ Hw("servo") /\ Goto(t, "get", "store")
  /\ Get("servo_cmd") /\ Take(t, Head(box["servo_cmd"]))
  /\ UNCHANGED <<dep, sample, flag, cnt, servo, ctx, stack, req, filtered>>

(* Legs commands are stored before the flag is looked at. *)
HwServoStore(t) ==
  /\ Hw("servo") /\ pc[t] = "store"
  /\ servo' = [servo EXCEPT ![hold[t].leg] = hold[t].pos] /\ Take(t, Nothing)
  /\ IF cnt["servo"] < Legs - 1
     THEN cnt' = [cnt EXCEPT !["servo"] = @ + 1] /\ pc' = [pc EXCEPT ![t] = "get"]
     ELSE cnt' = [cnt EXCEPT !["servo"] = 0] /\ pc' = [pc EXCEPT ![t] = "check"]
  /\ UNCHANGED <<dep, sample, flag, box, ctx, stack, req, filtered>>

HwServoCheck(t) ==
  /\ Hw("servo") /\ CheckFlag(t, "servo", "get")
  /\ UNCHANGED <<dep, sample, flag, hold, cnt, box, servo, ctx, stack, req, filtered>>

HwServoLeave(t) == Hw("servo") /\ RequestAndExit(t)

SwServoGet(t) ==
  /\ ~Hw("servo") /\ Goto(t, "get", "store")
  /\ Get("servo_cmd") /\ Take(t, Head(box["servo_cmd"]))
  /\ UNCHANGED <<dep, sample, flag, cnt, servo, ctx, stack, req, filtered>>

SwServoStore(t) ==
  /\ ~Hw("servo") /\ Goto(t, "store", "get")
  /\ servo' = [servo EXCEPT ![hold[t].leg] = hold[t].pos] /\ Take(t, Nothing)
  /\ UNCHANGED <<dep, sample, flag, cnt, box, ctx, stack, req, filtered>>

Servo(t) ==
  \/ HwServoGet(t) \/ HwServoStore(t) \/ HwServoCheck(t)
  \/ HwServoLeave(t)
  \/ SwServoGet(t) \/ SwServoStore(t)

-----------------------------------------------------------------------------
(* The surroundings: the ball, whoever sets the flags, and whoever serves  *)
(* the requests.                                                           *)

BallMoves ==
  /\ sample < MaxSample
  /\ sample' = sample + 1
  /\ UNCHANGED <<dep, flag, pc, hold, cnt, box, servo, ctx, stack, req, filtered>>

(* No stage reads rc_flag_touch, so it is left alone. *)
SetFlag(s, v) ==
  /\ Hw(s) /\ s # "touch" /\ flag[s] # v
  /\ v => Cardinality({f \in Stage : flag[f]}) < MaxFlags
  /\ flag' = [flag EXCEPT ![s] = v]
  /\ UNCHANGED <<dep, sample, pc, hold, cnt, box, servo, ctx, stack, req, filtered>>

(* The reset of a slot clears the counters of its thread. *)
Restart(s) ==
  /\ req[s]
  /\ Goto(TheHw(s), "exit", FirstStep(s))
  /\ req' = [req EXCEPT ![s] = FALSE]
  /\ cnt' = [c \in DOMAIN cnt |-> IF c = s THEN 0 ELSE cnt[c]]
  /\ UNCHANGED <<dep, sample, flag, hold, box, servo, ctx, stack, filtered>>

Step(t) ==
  \/ t[1] = "touch" /\ Touch(t)
  \/ t[1] = "control" /\ Control(t)
  \/ t[1] = "inverse" /\ Inverse(t)
  \/ t[1] = "servo" /\ Servo(t)

Next ==
  \/ \E t \in Thread : Step(t)
  \/ Broadcast
  \/ BallMoves
  \/ \E s \in Stage : Restart(s) \/ \E v \in BOOLEAN : SetFlag(s, v)

Spec == Init /\ [][Next]_vars

(* In each stage some thread that can go on does, the timer goes on, and   *)
(* requests are served in some order.  That is less than the scheduler     *)
(* gives (each thread); the ball and the flags may do what they like.      *)
Fairness ==
  /\ \A s \in Stage : WF_vars(\E c \in Copy : Step(<<s, c>>))
  /\ WF_vars(Broadcast)
  /\ WF_vars(\E s \in Stage : Restart(s))

FairSpec == Spec /\ Fairness

-----------------------------------------------------------------------------
(* Properties. *)

Pc == {"none", "restore", "cycle", "wait", "read", "get", "put", "store", "check",
       "save", "leave", "exit"}

(* Types; the boxes hold at most their capacity. *)
TypeOK ==
  /\ dep \in Deployments
  /\ sample \in Sample
  /\ flag \in [Stage -> BOOLEAN]
  /\ pc \in [Thread -> Pc]
  /\ hold \in [Thread -> Command \cup {Nothing}]
  /\ cnt \in [{"inverse", "servo"} -> 0 .. Legs] /\ cnt["servo"] < Legs
  /\ DOMAIN box = Box /\ \A b \in Box : Len(box[b]) <= dep.cap[b]
  /\ box["touch_pos"] \in Seq(Sample)
  /\ box["inverse_cmd"] \in Seq(Command) /\ box["servo_cmd"] \in Seq(Command)
  /\ servo \in [Leg -> Sample \cup {NoSample}]
  /\ {ctx, stack, filtered} \subseteq Sample \cup {NoSample}
  /\ req \in [Stage -> BOOLEAN]

SingleCopies == \A s \in Stage : dep.copies[s] = 1
Gone(s) == pc[TheHw(s)] \in {"leave", "exit"}

(* A hardware stage leaves between two frames: whenever the inverse or the *)
(* servo stage has left, the next command for it is the first of a frame,  *)
(* so its successor, which counts from zero again, stays in step with the  *)
(* bursts of the controller (leg_cnt == 6 in rt_inverse.cpp, loop_cnt in   *)
(* rt_servo.vhd).                                                          *)
FramesWhole ==
  SingleCopies =>
    /\ (Hw("inverse") /\ Gone("inverse") /\ box["inverse_cmd"] # <<>>)
         => Head(box["inverse_cmd"]).leg = 0
    /\ (Hw("servo") /\ Gone("servo") /\ box["servo_cmd"] # <<>>)
         => Head(box["servo_cmd"]).leg = 0

(* A servo never goes back to an older position of the ball, through all   *)
(* mailboxes, suspensions and restarts, as long as each stage has one copy *)
(* (main.c starts three of each).                                          *)
NeverBackwards ==
  [][SingleCopies => \A l \in Leg : servo'[l] >= servo[l]]_servo

(* The controller carries its filter over a suspension: a running hardware *)
(* controller has the context the last run ended with (the marshalling to  *)
(* and from stack_addr in rt_control.cpp).                                 *)
ContextCarried ==
  (Hw("control") /\ pc[TheHw("control")] # "restore") =>
     /\ ctx = filtered
     /\ pc[TheHw("control")] \in {"leave", "exit"} => stack = filtered

(* The servos catch up: when the ball comes to rest, every servo register  *)
(* is in the end computed from its last position and stays so, whichever   *)
(* stages are in hardware, however many copies run and however often       *)
(* stages are suspended.                                                   *)
Converges == <>[](\A l \in Leg : servo[l] = sample)

(* A hardware stage that is asked to leave does so again and again, in the *)
(* deployment where all its neighbours are in hardware: it is never stuck  *)
(* in a call in front of the check.                                        *)
AskedLeaves ==
  (\A s \in Stage : Hw(s)) =>
    \A s \in {"control", "inverse", "servo"} :
      []<>(~flag[s] \/ pc[TheHw(s)] = "exit")
=============================================================================
