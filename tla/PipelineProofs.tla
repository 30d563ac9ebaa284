--------------------------- MODULE PipelineProofs ---------------------------
(***************************************************************************)
(* The control pipeline for any number of legs, copies, positions, mailbox *)
(* sizes and deployments: the hardware controller carries its filter over  *)
(* every suspension, the frames of one command per leg travel whole, and   *)
(* positions stay in order.                                                *)
(***************************************************************************)
EXTENDS Pipeline, TLAPS

(* A hardware stage has no second thread. *)
OneThread == \A t \in Thread : (Hw(t[1]) /\ t[2] # 1) => pc[t] = "none"

ControlPc == pc[TheHw("control")]

(* ContextCarried says nothing of a controller about to restore; there it  *)
(* is the memory that has to hold the last context.                        *)
ContextInv ==
  Hw("control") =>
     /\ ControlPc # "restore" => ctx = filtered
     /\ ControlPc \in {"restore", "leave", "exit"} => stack = filtered

PcType == pc \in [Thread -> Pc]

CInv == PcType /\ OneThread /\ ContextInv

ControlVars == <<ctx, stack, filtered>>

LEMMA HwInThread == \A s \in Stage : TheHw(s) \in Thread
  BY PipelineAssumption DEF TheHw, Thread, Copy

LEMMA FirstStepType ==
  /\ \A s \in Stage : FirstStep(s) \in Pc /\ FirstStep(s) \notin {"none", "leave", "exit"}
  /\ Hw("control") => FirstStep("control") = "restore"
  BY DEF FirstStep, Pc, Stage

LEMMA InitCInv == Init => CInv
<1> SUFFICES ASSUME Init PROVE CInv
  OBVIOUS
<1>1. PcType
  BY FirstStepType DEF Init, PcType, Pc, Thread
<1>2. OneThread
  <2> SUFFICES ASSUME NEW t \in Thread, Hw(t[1]), t[2] # 1 PROVE pc[t] = "none"
    BY DEF OneThread
  <2>1. t[2] > 1
    BY PipelineAssumption DEF Thread, Copy
  <2> QED BY <2>1 DEF Init
<1>3. ContextInv
  BY DEF Init, ContextInv
<1> QED BY <1>1, <1>2, <1>3 DEF CInv

(* A step that leaves the controller's data alone, and does not move the   *)
(* controller to one of the places where the memory counts.                *)
LEMMA Elsewhere ==
  ASSUME CInv, UNCHANGED <<dep, ctx, stack, filtered>>,
         NEW t \in Thread, NEW p \in Pc,
         pc[t] # "none", pc' = [pc EXCEPT ![t] = p],
         t[1] = "control" => /\ pc[t] = "restore" <=> p = "restore"
                             /\ p \in {"leave", "exit"} => pc[t] = "leave"
  PROVE  CInv'
<1>1. PcType'
  BY DEF CInv, PcType
<1>2. OneThread'
  BY DEF CInv, PcType, OneThread, Hw
<1>3. ContextInv'
  BY HwInThread DEF CInv, PcType, ContextInv, ControlPc, Hw, TheHw, Stage
<1> QED BY <1>1, <1>2, <1>3 DEF CInv

LEMMA SamePc ==
  ASSUME CInv, UNCHANGED <<dep, pc, ctx, stack, filtered>>
  PROVE  CInv'
  BY DEF CInv, PcType, OneThread, ContextInv, ControlPc, Hw

(* Actions of the four stages.  Only three touch the controller's data: a  *)
(* restore, a position taken in, a save.                                   *)
LEMMA TouchCInv ==
  ASSUME CInv, NEW t \in Thread, t[1] = "touch", Touch(t) PROVE CInv'
<1>1. PICK p \in Pc : pc' = [pc EXCEPT ![t] = p]
  BY DEF Touch, HwTouchRead, HwTouchPut, HwTouchCheck, HwTouchLeave, SwTouchRead,
         SwTouchPut, CycleWait, CheckFlag, RequestAndExit, Goto, Pc
<1>2. pc[t] # "none" /\ UNCHANGED <<dep, ctx, stack, filtered>>
  BY DEF Touch, HwTouchRead, HwTouchPut, HwTouchCheck, HwTouchLeave, SwTouchRead,
         SwTouchPut, CycleWait, CheckFlag, RequestAndExit, Goto
<1> QED BY <1>1, <1>2, Elsewhere

LEMMA InverseCInv ==
  ASSUME CInv, NEW t \in Thread, t[1] = "inverse", Inverse(t) PROVE CInv'
<1>1. PICK p \in Pc : pc' = [pc EXCEPT ![t] = p]
  BY DEF Inverse, HwInverseGet, HwInversePut, HwInverseCheck, HwInverseLeave,
         SwInverseGet, SwInverseStore, RequestAndExit, Goto, Pc
<1>2. pc[t] # "none" /\ UNCHANGED <<dep, ctx, stack, filtered>>
  BY DEF Inverse, HwInverseGet, HwInversePut, HwInverseCheck, HwInverseLeave,
         SwInverseGet, SwInverseStore, RequestAndExit, Goto
<1> QED BY <1>1, <1>2, Elsewhere

LEMMA ServoCInv ==
  ASSUME CInv, NEW t \in Thread, t[1] = "servo", Servo(t) PROVE CInv'
<1>1. PICK p \in Pc : pc' = [pc EXCEPT ![t] = p]
  BY DEF Servo, HwServoGet, HwServoStore, HwServoCheck, HwServoLeave,
         SwServoGet, SwServoStore, CheckFlag, RequestAndExit, Goto, Pc
<1>2. pc[t] # "none" /\ UNCHANGED <<dep, ctx, stack, filtered>>
  BY DEF Servo, HwServoGet, HwServoStore, HwServoCheck, HwServoLeave,
         SwServoGet, SwServoStore, CheckFlag, RequestAndExit, Goto
<1> QED BY <1>1, <1>2, Elsewhere

(* A thread of the controller that takes a step in hardware is its only one. *)
LEMMA TheController ==
  ASSUME CInv, NEW t \in Thread, t[1] = "control", Hw("control"), pc[t] # "none"
  PROVE  t = TheHw("control")
  BY DEF CInv, OneThread, Thread, TheHw

LEMMA ControlCInv ==
  ASSUME CInv, NEW t \in Thread, t[1] = "control", Control(t) PROVE CInv'
<1>1. CASE HwControlRestore(t)
  <2>1. t = TheHw("control")
    BY <1>1, TheController DEF HwControlRestore, Goto
  <2>2. PcType' /\ OneThread'
    BY <1>1 DEF HwControlRestore, Goto, CInv, PcType, OneThread, Hw, Pc
  <2>3. ContextInv'
    BY <1>1, <2>1, HwInThread DEF HwControlRestore, Goto, CInv, PcType, ContextInv, ControlPc, Hw, Stage
  <2> QED BY <2>2, <2>3 DEF CInv
<1>2. CASE HwControlGet(t)
  <2>1. t = TheHw("control")
    BY <1>2, TheController DEF HwControlGet, Goto
  <2>2. PcType' /\ OneThread'
    BY <1>2 DEF HwControlGet, Goto, CInv, PcType, OneThread, Hw, Pc
  <2>3. ContextInv'
    BY <1>2, <2>1, HwInThread
       DEF HwControlGet, Kalman, Goto, CInv, PcType, ContextInv, ControlPc, Hw, Stage
  <2> QED BY <2>2, <2>3 DEF CInv
<1>3. CASE HwControlSave(t)
  <2>1. t = TheHw("control")
    BY <1>3, TheController DEF HwControlSave, Goto
  <2>2. PcType' /\ OneThread'
    BY <1>3 DEF HwControlSave, Goto, CInv, PcType, OneThread, Hw, Pc
  <2>3. ContextInv'
    BY <1>3, <2>1, HwInThread DEF HwControlSave, Goto, CInv, PcType, ContextInv, ControlPc, Hw, Stage
  <2> QED BY <2>2, <2>3 DEF CInv
<1>4. CASE HwControlPut(t) \/ SwControlPut(t)
  <2>1. CASE UNCHANGED pc
    BY <1>4, <2>1, SamePc DEF HwControlPut, SwControlPut, PutCommand
  <2>2. CASE pc' = [pc EXCEPT ![t] = "check"] \/ pc' = [pc EXCEPT ![t] = "cycle"]
    BY <1>4, <2>2, Elsewhere DEF HwControlPut, SwControlPut, PutCommand, Pc
  <2> QED BY <1>4, <2>1, <2>2 DEF HwControlPut, SwControlPut, PutCommand
<1>5. CASE HwControlCheck(t)
  <2>1. PICK p \in {"save", "get"} : pc' = [pc EXCEPT ![t] = p]
    BY <1>5 DEF HwControlCheck
  <2> QED BY <1>5, <2>1, Elsewhere DEF HwControlCheck, Pc
<1>6. CASE HwControlLeave(t)
  BY <1>6, Elsewhere DEF HwControlLeave, RequestAndExit, Goto, Pc
<1>7. CASE SwControlRead(t) \/ CycleWait(t)
  BY <1>7, Elsewhere DEF SwControlRead, CycleWait, Goto, Pc
<1> QED BY <1>1, <1>2, <1>3, <1>4, <1>5, <1>6, <1>7 DEF Control

LEMMA BroadcastCInv == ASSUME CInv, Broadcast PROVE CInv'
<1>1. PcType'
  BY DEF Broadcast, CInv, PcType, Pc
<1>2. OneThread'
  BY DEF Broadcast, CInv, PcType, OneThread, Hw
<1>3. ContextInv'
  BY HwInThread DEF Broadcast, CInv, PcType, ContextInv, ControlPc, Hw, Stage
<1> QED BY <1>1, <1>2, <1>3 DEF CInv

LEMMA RestartCInv == ASSUME CInv, NEW s \in Stage, Restart(s) PROVE CInv'
<1>1. FirstStep(s) \in Pc /\ FirstStep(s) # "none"
  BY FirstStepType
<1>2. PcType'
  BY <1>1 DEF Restart, Goto, CInv, PcType
<1>3. OneThread'
  BY DEF Restart, Goto, CInv, PcType, OneThread, Hw, TheHw
<1>4. ContextInv'
  <2>1. CASE s = "control"
    BY <1>1, <2>1, HwInThread, FirstStepType
       DEF Restart, Goto, CInv, PcType, ContextInv, ControlPc, Hw, Stage
  <2>2. CASE s # "control"
    BY <1>1, <2>2, HwInThread
       DEF Restart, Goto, CInv, PcType, ContextInv, ControlPc, Hw, TheHw, Stage
  <2> QED BY <2>1, <2>2
<1> QED BY <1>2, <1>3, <1>4 DEF CInv

LEMMA NextCInv == CInv /\ [Next]_vars => CInv'
<1> SUFFICES ASSUME CInv, [Next]_vars PROVE CInv'
  OBVIOUS
<1>1. ASSUME NEW t \in Thread, Step(t) PROVE CInv'
  BY <1>1, TouchCInv, ControlCInv, InverseCInv, ServoCInv DEF Step
<1>2. CASE Broadcast
  BY <1>2, BroadcastCInv
<1>3. CASE BallMoves
  BY <1>3, SamePc DEF BallMoves
<1>4. ASSUME NEW s \in Stage, NEW v \in BOOLEAN, SetFlag(s, v) PROVE CInv'
  BY <1>4, SamePc DEF SetFlag
<1>5. ASSUME NEW s \in Stage, Restart(s) PROVE CInv'
  BY <1>5, RestartCInv
<1>6. CASE UNCHANGED vars
  BY <1>6, SamePc DEF vars
<1> QED BY <1>1, <1>2, <1>3, <1>4, <1>5, <1>6 DEF Next

(* The controller's context survives every suspension: ContextCarried      *)
(* holds in every behaviour (the marshalling in rt_control.cpp).           *)
THEOREM ContextIsCarried == Spec => []ContextCarried
<1>1. CInv => ContextCarried
  BY DEF CInv, ContextInv, ContextCarried, ControlPc
<1> QED BY <1>1, InitCInv, NextCInv, PTL DEF Spec

-----------------------------------------------------------------------------
(* Types *)

(* A thread that is about to put or store has something to put or store.   *)
HoldInv == \A t \in Thread : pc[t] \in {"put", "store"} => hold[t] \in Command
BoxInv == box = [b \in Box |-> box[b]]

TInv == TypeOK /\ HoldInv /\ BoxInv

LEMMA InitTInv == Init => TInv
<1> SUFFICES ASSUME Init PROVE TInv
  OBVIOUS
<1> USE PipelineAssumption DEF Init
<1>1. pc \in [Thread -> Pc] /\ \A t \in Thread : pc[t] \notin {"put", "store"}
  BY DEF Pc, Thread, FirstStep
<1>2. sample \in Sample /\ NoSample \in Sample \cup {NoSample}
  BY DEF Sample
<1>3. cnt \in [{"inverse", "servo"} -> 0 .. Legs] /\ cnt["servo"] < Legs
  OBVIOUS
<1>4. \A b \in Box : box[b] = <<>> /\ Len(box[b]) <= dep.cap[b]
  OBVIOUS
<1>5. flag \in [Stage -> BOOLEAN] /\ req \in [Stage -> BOOLEAN]
  OBVIOUS
<1>6. TypeOK
  BY <1>1, <1>2, <1>3, <1>4, <1>5 DEF TypeOK, Box
<1>7. BoxInv
  BY DEF BoxInv
<1> QED BY <1>1, <1>6, <1>7 DEF TInv, HoldInv

(* A step of one thread keeps the types of its place and of what it holds. *)
LEMMA OneMoves ==
  ASSUME TInv, NEW t \in Thread, NEW p \in Pc, NEW v \in Command \cup {Nothing},
         pc' = [pc EXCEPT ![t] = p], hold' = [hold EXCEPT ![t] = v],
         p \in {"put", "store"} => v \in Command
  PROVE  pc' \in [Thread -> Pc] /\ hold' \in [Thread -> Command \cup {Nothing}] /\ HoldInv'
  BY DEF TInv, TypeOK, HoldInv

LEMMA OneGoes ==
  ASSUME TInv, NEW t \in Thread, NEW p \in Pc \ {"put", "store"},
         pc' = [pc EXCEPT ![t] = p], UNCHANGED hold
  PROVE  pc' \in [Thread -> Pc] /\ hold' \in [Thread -> Command \cup {Nothing}] /\ HoldInv'
  BY DEF TInv, TypeOK, HoldInv

(* A put and a get of one of the mailboxes. *)
LEMMA PutBox ==
  ASSUME TInv, NEW b \in Box, NEW v, Put(b, v), UNCHANGED dep,
         IF b = "touch_pos" THEN v \in Sample ELSE v \in Command
  PROVE  /\ box'[b] = Append(box[b], v) /\ \A c \in Box \ {b} : box'[c] = box[c]
         /\ DOMAIN box' = Box /\ BoxInv'
         /\ \A c \in Box : Len(box'[c]) <= dep'.cap[c]
         /\ box'["touch_pos"] \in Seq(Sample)
         /\ box'["inverse_cmd"] \in Seq(Command) /\ box'["servo_cmd"] \in Seq(Command)
<1> USE DEF TInv, TypeOK, BoxInv
<1>1. box' = [box EXCEPT ![b] = Append(box[b], v)] /\ Len(box[b]) < dep.cap[b]
  BY DEF Put
<1>2. DOMAIN box' = Box /\ BoxInv'
  BY <1>1
<1>3. box'[b] = Append(box[b], v) /\ \A c \in Box \ {b} : box'[c] = box[c]
  BY <1>1
<1>4. b = "touch_pos" => box[b] \in Seq(Sample) /\ Append(box[b], v) \in Seq(Sample)
  OBVIOUS
<1>5. b # "touch_pos" => box[b] \in Seq(Command) /\ Append(box[b], v) \in Seq(Command)
  BY DEF Box
<1>6. Len(Append(box[b], v)) = Len(box[b]) + 1 /\ Len(box[b]) \in Nat
  BY <1>4, <1>5
<1>7. dep.cap[b] \in Nat
  BY PipelineAssumption
<1>8. \A c \in Box : Len(box'[c]) <= dep'.cap[c]
  BY <1>1, <1>3, <1>6, <1>7
<1>9. box'["touch_pos"] \in Seq(Sample) /\ box'["inverse_cmd"] \in Seq(Command)
      /\ box'["servo_cmd"] \in Seq(Command)
  BY <1>3, <1>4, <1>5 DEF Box
<1> QED BY <1>2, <1>3, <1>8, <1>9

LEMMA GetBox ==
  ASSUME TInv, NEW b \in Box, Get(b), UNCHANGED dep
  PROVE  /\ box'[b] = Tail(box[b]) /\ \A c \in Box \ {b} : box'[c] = box[c]
         /\ DOMAIN box' = Box /\ BoxInv'
         /\ \A c \in Box : Len(box'[c]) <= dep'.cap[c]
         /\ box'["touch_pos"] \in Seq(Sample)
         /\ box'["inverse_cmd"] \in Seq(Command) /\ box'["servo_cmd"] \in Seq(Command)
         /\ box[b] # <<>>
         /\ IF b = "touch_pos" THEN Head(box[b]) \in Sample ELSE Head(box[b]) \in Command
<1> USE DEF TInv, TypeOK, BoxInv
<1>1. box' = [box EXCEPT ![b] = Tail(box[b])] /\ box[b] # <<>>
  BY DEF Get
<1>2. DOMAIN box' = Box /\ BoxInv'
  BY <1>1
<1>3. box'[b] = Tail(box[b]) /\ \A c \in Box \ {b} : box'[c] = box[c]
  BY <1>1
<1>4. b = "touch_pos" => box[b] \in Seq(Sample) /\ Tail(box[b]) \in Seq(Sample)
                         /\ Head(box[b]) \in Sample
  BY <1>1
<1>5. b # "touch_pos" => box[b] \in Seq(Command) /\ Tail(box[b]) \in Seq(Command)
                         /\ Head(box[b]) \in Command
  BY <1>1 DEF Box
<1>6. Len(Tail(box[b])) = Len(box[b]) - 1 /\ Len(box[b]) \in Nat
  BY <1>1, <1>4, <1>5
<1>7. dep.cap[b] \in Nat
  BY PipelineAssumption
<1>8. \A c \in Box : Len(box'[c]) <= dep'.cap[c]
  <2>1. \A c \in Box : Len(box[c]) <= dep.cap[c]
    OBVIOUS
  <2>2. Len(box'[b]) <= dep.cap[b]
    <3>1. PICK n \in Nat : n = Len(box[b])
      BY <1>6
    <3>2. PICK m \in Nat : m = dep.cap[b]
      BY <1>7
    <3>3. n <= m /\ Len(box'[b]) = n - 1
      BY <1>3, <1>6, <2>1, <3>1, <3>2
    <3> QED BY <3>2, <3>3
  <2> QED BY <1>3, <2>1, <2>2
<1>9. box'["touch_pos"] \in Seq(Sample) /\ box'["inverse_cmd"] \in Seq(Command)
      /\ box'["servo_cmd"] \in Seq(Command)
  BY <1>3, <1>4, <1>5 DEF Box
<1> QED BY <1>1, <1>2, <1>3, <1>4, <1>5, <1>8, <1>9

LEMMA CommandFacts ==
  /\ 0 \in Leg
  /\ Nothing \in Command \cup {Nothing}
  /\ \A p \in Sample : [pos |-> p, leg |-> 0] \in Command
  /\ \A c \in Command : /\ c.pos \in Sample /\ c.leg \in Leg
                        /\ c.leg < Legs - 1 =>
                             /\ [c EXCEPT !.leg = @ + 1] \in Command
                             /\ [c EXCEPT !.leg = @ + 1].leg = c.leg + 1
                             /\ [c EXCEPT !.leg = @ + 1].pos = c.pos
<1>1. 0 \in Leg
  BY PipelineAssumption DEF Leg
<1>2. ASSUME NEW c \in Command, c.leg < Legs - 1 PROVE c.leg + 1 \in Leg
  BY <1>2, PipelineAssumption DEF Command, Leg
<1> QED BY <1>1, <1>2 DEF Command

(* Steps that move one thread and change nothing else that has a type.     *)
LEMMA PlainTypes ==
  ASSUME TInv, NEW t \in Thread, NEW p \in Pc \ {"put", "store"},
         pc' = [pc EXCEPT ![t] = p],
         UNCHANGED <<dep, sample, flag, hold, cnt, box, servo, filtered>>,
         {ctx', stack'} \subseteq {ctx, stack}, req' \in [Stage -> BOOLEAN]
  PROVE  TInv'
<1>1. pc' \in [Thread -> Pc] /\ hold' \in [Thread -> Command \cup {Nothing}] /\ HoldInv'
  BY OneGoes
<1>2. {ctx', stack', filtered'} \subseteq Sample \cup {NoSample}
  BY DEF TInv, TypeOK
<1>3. TypeOK'
  BY <1>1, <1>2 DEF TInv, TypeOK
<1> QED BY <1>1, <1>3 DEF TInv, BoxInv

LEMMA PlainStepTypes ==
  ASSUME TInv, NEW t \in Thread,
         \/ RequestAndExit(t) \/ CycleWait(t)
         \/ HwTouchCheck(t) \/ HwServoCheck(t) \/ HwInverseCheck(t) \/ HwControlCheck(t)
         \/ HwControlRestore(t) \/ HwControlSave(t)
  PROVE  TInv'
<1>1. PICK p \in Pc \ {"put", "store"} : pc' = [pc EXCEPT ![t] = p]
  <2>1. CASE RequestAndExit(t)
    BY <2>1 DEF RequestAndExit, Goto, Pc
  <2>2. CASE CycleWait(t)
    BY <2>2 DEF CycleWait, Goto, Pc
  <2>3. CASE HwTouchCheck(t) \/ HwServoCheck(t)
    BY <2>3 DEF HwTouchCheck, HwServoCheck, CheckFlag, Pc
  <2>4. CASE HwInverseCheck(t)
    BY <2>4 DEF HwInverseCheck, Pc
  <2>5. CASE HwControlCheck(t)
    BY <2>5 DEF HwControlCheck, Pc
  <2>6. CASE HwControlRestore(t) \/ HwControlSave(t)
    BY <2>6 DEF HwControlRestore, HwControlSave, Goto, Pc
  <2> QED BY <2>1, <2>2, <2>3, <2>4, <2>5, <2>6
<1>2. /\ UNCHANGED <<dep, sample, flag, hold, cnt, box, servo, filtered>>
      /\ {ctx', stack'} \subseteq {ctx, stack}
  BY DEF RequestAndExit, CycleWait, HwTouchCheck, HwServoCheck, HwInverseCheck, HwControlCheck,
         HwControlRestore, HwControlSave
<1>3. req' \in [Stage -> BOOLEAN]
  <2>1. CASE RequestAndExit(t)
    <3>1. req' = [req EXCEPT ![t[1]] = TRUE]
      BY <2>1 DEF RequestAndExit
    <3> QED BY <3>1 DEF TInv, TypeOK
  <2>2. CASE req' = req
    BY <2>2 DEF TInv, TypeOK
  <2> QED BY <2>1, <2>2 DEF CycleWait, HwTouchCheck, HwServoCheck, HwInverseCheck, HwControlCheck,
         HwControlRestore, HwControlSave
<1> QED BY <1>1, <1>2, <1>3, PlainTypes

(* The touch panel is read by the touch stage or by the software control.  *)
Read(t) == HwTouchRead(t) \/ SwTouchRead(t) \/ SwControlRead(t)
LEMMA ReadTypes == ASSUME TInv, NEW t \in Thread, Read(t) PROVE TInv'
<1>1. /\ pc' = [pc EXCEPT ![t] = "put"] /\ hold' = [hold EXCEPT ![t] = [pos |-> sample, leg |-> 0]]
      /\ UNCHANGED <<dep, sample, flag, cnt, box, servo, ctx, stack, req, filtered>>
  BY DEF Read, HwTouchRead, SwTouchRead, SwControlRead, Goto, Take
<1>2. [pos |-> sample, leg |-> 0] \in Command
  BY CommandFacts DEF TInv, TypeOK
<1>3. pc' \in [Thread -> Pc] /\ hold' \in [Thread -> Command \cup {Nothing}] /\ HoldInv'
  BY <1>1, <1>2, OneMoves DEF Pc
<1>4. TypeOK'
  BY <1>1, <1>3 DEF TInv, TypeOK
<1> QED BY <1>1, <1>3, <1>4 DEF TInv, BoxInv

(* A position or an angle is put, and the thread has nothing any more.     *)
PutOne(t) == HwTouchPut(t) \/ SwTouchPut(t) \/ HwInversePut(t)
LEMMA PutOneTypes == ASSUME TInv, NEW t \in Thread, PutOne(t) PROVE TInv'
<1>1. /\ pc[t] = "put" /\ hold' = [hold EXCEPT ![t] = Nothing]
      /\ UNCHANGED <<dep, sample, flag, cnt, servo, ctx, stack, req, filtered>>
      /\ Put("touch_pos", hold[t].pos) \/ Put("servo_cmd", hold[t])
  BY DEF PutOne, HwTouchPut, SwTouchPut, HwInversePut, Goto, Take
<1>2. hold[t] \in Command /\ hold[t].pos \in Sample
  BY <1>1, CommandFacts DEF TInv, HoldInv
<1>3. PICK p \in {"check", "cycle"} : pc' = [pc EXCEPT ![t] = p]
  BY DEF PutOne, HwTouchPut, SwTouchPut, HwInversePut, Goto
<1>4. pc' \in [Thread -> Pc] /\ hold' \in [Thread -> Command \cup {Nothing}] /\ HoldInv'
  BY <1>1, <1>3, OneMoves DEF Pc
<1>5. /\ DOMAIN box' = Box /\ BoxInv'
      /\ \A c \in Box : Len(box'[c]) <= dep'.cap[c]
      /\ box'["touch_pos"] \in Seq(Sample)
      /\ box'["inverse_cmd"] \in Seq(Command) /\ box'["servo_cmd"] \in Seq(Command)
  BY <1>1, <1>2, PutBox DEF Box
<1>6. TypeOK'
  BY <1>1, <1>4, <1>5 DEF TInv, TypeOK
<1> QED BY <1>4, <1>5, <1>6 DEF TInv

LEMMA PutCommandTypes ==
  ASSUME TInv, NEW t \in Thread, NEW after \in {"check", "cycle"}, PutCommand(t, after) PROVE TInv'
<1>1. /\ pc[t] = "put" /\ Put("inverse_cmd", hold[t])
      /\ UNCHANGED <<dep, sample, flag, cnt, servo, ctx, stack, req, filtered>>
  BY DEF PutCommand
<1>2. hold[t] \in Command
  BY <1>1 DEF TInv, HoldInv
<1>3. pc' \in [Thread -> Pc] /\ hold' \in [Thread -> Command \cup {Nothing}] /\ HoldInv'
  <2>1. CASE hold[t].leg < Legs - 1
    <3>1. pc' = pc /\ hold' = [hold EXCEPT ![t] = [hold[t] EXCEPT !.leg = @ + 1]]
      BY <2>1 DEF PutCommand, Take
    <3>2. pc' = [pc EXCEPT ![t] = "put"]
      BY <1>1, <3>1 DEF TInv, TypeOK
    <3>3. [hold[t] EXCEPT !.leg = @ + 1] \in Command
      BY <1>2, <2>1, CommandFacts
    <3> QED BY <3>1, <3>2, <3>3, OneMoves DEF Pc
  <2>2. CASE ~ (hold[t].leg < Legs - 1)
    <3>1. pc' = [pc EXCEPT ![t] = after] /\ hold' = [hold EXCEPT ![t] = Nothing]
      BY <2>2 DEF PutCommand, Take
    <3> QED BY <3>1, OneMoves DEF Pc
  <2> QED BY <2>1, <2>2
<1>4. /\ DOMAIN box' = Box /\ BoxInv'
      /\ \A c \in Box : Len(box'[c]) <= dep'.cap[c]
      /\ box'["touch_pos"] \in Seq(Sample)
      /\ box'["inverse_cmd"] \in Seq(Command) /\ box'["servo_cmd"] \in Seq(Command)
  BY <1>1, <1>2, PutBox DEF Box
<1>5. TypeOK'
  BY <1>1, <1>3, <1>4 DEF TInv, TypeOK
<1> QED BY <1>3, <1>4, <1>5 DEF TInv

(* A command is taken by the inverse or the servo stage.                   *)
LEMMA GetCommandTypes ==
  ASSUME TInv, NEW t \in Thread, NEW b \in {"inverse_cmd", "servo_cmd"},
         NEW p \in {"put", "store"}, Goto(t, "get", p), Get(b), Take(t, Head(box[b])),
         UNCHANGED <<dep, sample, flag, servo, ctx, stack, req, filtered>>,
         cnt' \in [{"inverse", "servo"} -> 0 .. Legs], cnt'["servo"] < Legs
  PROVE  TInv'
<1>1. /\ DOMAIN box' = Box /\ BoxInv'
      /\ \A c \in Box : Len(box'[c]) <= dep'.cap[c]
      /\ box'["touch_pos"] \in Seq(Sample)
      /\ box'["inverse_cmd"] \in Seq(Command) /\ box'["servo_cmd"] \in Seq(Command)
      /\ Head(box[b]) \in Command
  BY GetBox DEF Box
<1>2. pc' \in [Thread -> Pc] /\ hold' \in [Thread -> Command \cup {Nothing}] /\ HoldInv'
  BY <1>1, OneMoves DEF Pc, Goto, Take
<1>3. TypeOK'
  BY <1>1, <1>2 DEF TInv, TypeOK
<1> QED BY <1>1, <1>2, <1>3 DEF TInv

LEMMA GetTypes ==
  ASSUME TInv, NEW t \in Thread,
         \/ HwInverseGet(t) \/ SwInverseGet(t) \/ HwServoGet(t) \/ SwServoGet(t) \/ HwControlGet(t)
  PROVE  TInv'
<1>1. CASE HwInverseGet(t)
  <2>1. cnt' = [cnt EXCEPT !["inverse"] = IF @ < Legs THEN @ + 1 ELSE 1]
    BY <1>1 DEF HwInverseGet
  <2>2. cnt' \in [{"inverse", "servo"} -> 0 .. Legs] /\ cnt'["servo"] < Legs
    BY <2>1, PipelineAssumption DEF TInv, TypeOK
  <2> QED BY <1>1, <2>2, GetCommandTypes DEF HwInverseGet
<1>2. CASE SwInverseGet(t) \/ HwServoGet(t) \/ SwServoGet(t)
  <2>1. cnt' \in [{"inverse", "servo"} -> 0 .. Legs] /\ cnt'["servo"] < Legs
    BY <1>2 DEF TInv, TypeOK, SwInverseGet, HwServoGet, SwServoGet
  <2> QED BY <1>2, <2>1, GetCommandTypes DEF SwInverseGet, HwServoGet, SwServoGet
<1>3. CASE HwControlGet(t)
  <2> DEFINE pos == Head(box["touch_pos"])
  <2>1. /\ pc' = [pc EXCEPT ![t] = "put"] /\ Get("touch_pos")
        /\ hold' = [hold EXCEPT ![t] = [pos |-> pos, leg |-> 0]]
        /\ ctx' = pos /\ filtered' = pos
        /\ UNCHANGED <<dep, sample, flag, cnt, servo, stack, req>>
    BY <1>3 DEF HwControlGet, Goto, Take, Kalman
  <2>2. /\ DOMAIN box' = Box /\ BoxInv'
        /\ \A c \in Box : Len(box'[c]) <= dep'.cap[c]
        /\ box'["touch_pos"] \in Seq(Sample)
        /\ box'["inverse_cmd"] \in Seq(Command) /\ box'["servo_cmd"] \in Seq(Command)
        /\ pos \in Sample
    BY <2>1, GetBox DEF Box
  <2>3. pc' \in [Thread -> Pc] /\ hold' \in [Thread -> Command \cup {Nothing}] /\ HoldInv'
    BY <2>1, <2>2, CommandFacts, OneMoves DEF Pc
  <2>4. {ctx', stack', filtered'} \subseteq Sample \cup {NoSample}
    BY <2>1, <2>2 DEF TInv, TypeOK
  <2>5. TypeOK'
    BY <2>1, <2>2, <2>3, <2>4 DEF TInv, TypeOK
  <2> QED BY <2>2, <2>3, <2>5 DEF TInv
<1> QED BY <1>1, <1>2, <1>3

(* A command reaches the register of its leg.                              *)
Store(t) == SwInverseStore(t) \/ SwServoStore(t) \/ HwServoStore(t)
LEMMA StoreTypes == ASSUME TInv, NEW t \in Thread, Store(t) PROVE TInv'
<1>1. /\ pc[t] = "store" /\ hold' = [hold EXCEPT ![t] = Nothing]
      /\ servo' = [servo EXCEPT ![hold[t].leg] = hold[t].pos]
      /\ UNCHANGED <<dep, sample, flag, box, ctx, stack, req, filtered>>
  BY DEF Store, SwInverseStore, SwServoStore, HwServoStore, Goto, Take
<1>2. hold[t].pos \in Sample
  BY <1>1, CommandFacts DEF TInv, HoldInv
<1>3. servo' \in [Leg -> Sample \cup {NoSample}]
  BY <1>1, <1>2 DEF TInv, TypeOK
<1>4. PICK p \in {"get", "check"} : pc' = [pc EXCEPT ![t] = p]
  BY DEF Store, SwInverseStore, SwServoStore, HwServoStore, Goto
<1>5. pc' \in [Thread -> Pc] /\ hold' \in [Thread -> Command \cup {Nothing}] /\ HoldInv'
  BY <1>1, <1>4, OneMoves DEF Pc
<1>6. cnt' \in [{"inverse", "servo"} -> 0 .. Legs] /\ cnt'["servo"] < Legs
  <2>1. CASE HwServoStore(t)
    <3>1. \/ cnt["servo"] < Legs - 1 /\ cnt' = [cnt EXCEPT !["servo"] = cnt["servo"] + 1]
          \/ cnt' = [cnt EXCEPT !["servo"] = 0]
      BY <2>1 DEF HwServoStore
    <3> QED BY <3>1, PipelineAssumption DEF TInv, TypeOK
  <2>2. CASE cnt' = cnt
    BY <2>2 DEF TInv, TypeOK
  <2> QED BY <2>1, <2>2 DEF Store, SwInverseStore, SwServoStore
<1>7. TypeOK'
  BY <1>1, <1>3, <1>5, <1>6 DEF TInv, TypeOK
<1> QED BY <1>1, <1>5, <1>7 DEF TInv, BoxInv

LEMMA BroadcastTypes == ASSUME TInv, Broadcast PROVE TInv'
<1>1. /\ pc' = [t \in Thread |-> IF pc[t] = "wait" THEN "read" ELSE pc[t]]
      /\ UNCHANGED <<dep, sample, flag, hold, cnt, box, servo, ctx, stack, req, filtered>>
  BY DEF Broadcast
<1>2. pc' \in [Thread -> Pc] /\ HoldInv'
  BY <1>1 DEF TInv, TypeOK, HoldInv, Pc
<1>3. TypeOK'
  BY <1>1, <1>2 DEF TInv, TypeOK
<1> QED BY <1>1, <1>2, <1>3 DEF TInv, BoxInv

LEMMA RestartTypes == ASSUME TInv, NEW s \in Stage, Restart(s) PROVE TInv'
<1>1. /\ pc' = [pc EXCEPT ![TheHw(s)] = FirstStep(s)]
      /\ req' = [req EXCEPT ![s] = FALSE]
      /\ cnt' = [c \in DOMAIN cnt |-> IF c = s THEN 0 ELSE cnt[c]]
      /\ UNCHANGED <<dep, sample, flag, hold, box, servo, ctx, stack, filtered>>
  BY DEF Restart, Goto
<1>2. FirstStep(s) \in Pc \ {"put", "store"} /\ TheHw(s) \in Thread
  BY HwInThread DEF FirstStep, Pc, Stage
<1>3. pc' \in [Thread -> Pc] /\ hold' \in [Thread -> Command \cup {Nothing}] /\ HoldInv'
  BY <1>1, <1>2, OneGoes
<1>4. cnt' \in [{"inverse", "servo"} -> 0 .. Legs] /\ cnt'["servo"] < Legs
  BY <1>1, PipelineAssumption DEF TInv, TypeOK
<1>5. req' \in [Stage -> BOOLEAN]
  BY <1>1 DEF TInv, TypeOK
<1>6. TypeOK'
  BY <1>1, <1>3, <1>4, <1>5 DEF TInv, TypeOK
<1> QED BY <1>1, <1>3, <1>6 DEF TInv, BoxInv

(* The steps of a thread by what they do to the data.                      *)
LEMMA StepKinds ==
  ASSUME NEW t \in Thread, Step(t)
  PROVE  \/ RequestAndExit(t) \/ CycleWait(t)
         \/ HwTouchCheck(t) \/ HwServoCheck(t) \/ HwInverseCheck(t) \/ HwControlCheck(t)
         \/ HwControlRestore(t) \/ HwControlSave(t)
         \/ Read(t) \/ PutOne(t) \/ PutCommand(t, "check") \/ PutCommand(t, "cycle")
         \/ HwInverseGet(t) \/ SwInverseGet(t) \/ HwServoGet(t) \/ SwServoGet(t) \/ HwControlGet(t)
         \/ Store(t)
  BY DEF Step, Touch, Control, Inverse, Servo, HwTouchLeave, HwControlLeave, HwInverseLeave,
         HwServoLeave, HwControlPut, SwControlPut, Read, PutOne, Store

LEMMA NextTInv == TInv /\ [Next]_vars => TInv'
<1> SUFFICES ASSUME TInv, [Next]_vars PROVE TInv'
  OBVIOUS
<1>1. ASSUME NEW t \in Thread, Step(t) PROVE TInv'
  BY <1>1, StepKinds, PlainStepTypes, ReadTypes, PutOneTypes, PutCommandTypes, GetTypes, StoreTypes
<1>2. CASE BallMoves
  <2>1. sample' = sample + 1 /\ sample' \in Sample
    BY <1>2, PipelineAssumption DEF BallMoves, TInv, TypeOK, Sample
  <2>2. TypeOK'
    BY <1>2, <2>1 DEF BallMoves, TInv, TypeOK
  <2> QED BY <1>2, <2>2 DEF BallMoves, TInv, HoldInv, BoxInv
<1>3. ASSUME NEW s \in Stage, NEW v \in BOOLEAN, SetFlag(s, v) PROVE TInv'
  <2>1. flag' \in [Stage -> BOOLEAN]
    BY <1>3 DEF SetFlag, TInv, TypeOK
  <2>2. TypeOK'
    BY <1>3, <2>1 DEF SetFlag, TInv, TypeOK
  <2> QED BY <1>3, <2>2 DEF SetFlag, TInv, HoldInv, BoxInv
<1>4. CASE UNCHANGED vars
  BY <1>4 DEF vars, TInv, TypeOK, HoldInv, BoxInv
<1> QED BY <1>1, <1>2, <1>3, <1>4, BroadcastTypes, RestartTypes DEF Next

(* The types of the control loop.                                          *)
THEOREM PipelineTypes == Spec => []TypeOK
<1>1. TInv => TypeOK
  BY DEF TInv
<1> QED BY <1>1, InitTInv, NextTInv, PTL DEF Spec

-----------------------------------------------------------------------------
(* Frames: one command per leg, in the order of the legs *)

(* The leg after leg l, in turn.                                           *)
After(l) == IF l < Legs - 1 THEN l + 1 ELSE 0

(* The commands of q continue one another: the first is for leg f, the one *)
(* that is put next will be for leg n.                                     *)
Chain(q, f, n) ==
  /\ q = <<>> => f = n
  /\ q # <<>> => q[1].leg = f /\ After(q[Len(q)].leg) = n
  /\ \A i \in 1 .. Len(q) - 1 : q[i + 1].leg = After(q[i].leg)

LEMMA ChainGrows ==
  ASSUME NEW q \in Seq(Command), NEW f, NEW n, NEW v \in Command, Chain(q, f, n), v.leg = n
  PROVE  Chain(Append(q, v), f, After(n))
<1> DEFINE r == Append(q, v)
<1>1. r \in Seq(Command) /\ Len(r) = Len(q) + 1 /\ r[Len(q) + 1] = v /\ Len(q) \in Nat
      /\ \A i \in 1 .. Len(q) : r[i] = q[i]
  OBVIOUS
<1>2. r # <<>> /\ After(r[Len(r)].leg) = After(n)
  BY <1>1
<1>3. r[1].leg = f
  BY <1>1 DEF Chain
<1>4. ASSUME NEW i \in 1 .. Len(r) - 1 PROVE r[i + 1].leg = After(r[i].leg)
  <2>1. CASE i = Len(q)
    <3>1. q # <<>> /\ r[i] = q[Len(q)] /\ r[i + 1] = v
      BY <1>1, <2>1
    <3> QED BY <3>1 DEF Chain
  <2>2. CASE i # Len(q)
    <3>1. i \in 1 .. Len(q) - 1 /\ i \in 1 .. Len(q) /\ i + 1 \in 1 .. Len(q)
      BY <1>1, <2>2
    <3>2. q[i + 1].leg = After(q[i].leg)
      BY <3>1 DEF Chain
    <3> QED BY <1>1, <3>1, <3>2
  <2> QED BY <2>1, <2>2
<1> QED BY <1>2, <1>3, <1>4 DEF Chain

LEMMA ChainShrinks ==
  ASSUME NEW q \in Seq(Command), NEW f, NEW n, q # <<>>, Chain(q, f, n)
  PROVE  Head(q).leg = f /\ Chain(Tail(q), After(f), n)
<1> DEFINE r == Tail(q)
<1>1. r \in Seq(Command) /\ Len(r) = Len(q) - 1 /\ Len(q) \in Nat \ {0} /\ Head(q) = q[1]
      /\ \A i \in 1 .. Len(r) : r[i] = q[i + 1]
  OBVIOUS
<1>2. Head(q).leg = f
  BY <1>1 DEF Chain
<1>3. r = <<>> => After(f) = n
  <2>1. r = <<>> => Len(q) = 1
    BY <1>1
  <2> QED BY <2>1 DEF Chain
<1>4. r # <<>> => r[1].leg = After(f) /\ After(r[Len(r)].leg) = n
  <2> SUFFICES ASSUME r # <<>> PROVE r[1].leg = After(f) /\ After(r[Len(r)].leg) = n
    OBVIOUS
  <2>1. Len(r) # 0 /\ Len(q) - 1 >= 1
    BY <1>1
  <2>2. r[1] = q[2] /\ r[Len(r)] = q[Len(q)]
    BY <1>1, <2>1
  <2>3. q[2].leg = After(q[1].leg)
    BY <1>1, <2>1 DEF Chain
  <2> QED BY <2>2, <2>3 DEF Chain
<1>5. ASSUME NEW i \in 1 .. Len(r) - 1 PROVE r[i + 1].leg = After(r[i].leg)
  <2>1. i + 1 \in 1 .. Len(q) - 1 /\ i \in 1 .. Len(r) /\ i + 1 \in 1 .. Len(r)
    BY <1>1
  <2>2. q[i + 1 + 1].leg = After(q[i + 1].leg)
    BY <2>1 DEF Chain
  <2> QED BY <1>1, <2>1, <2>2
<1> QED BY <1>2, <1>3, <1>4, <1>5 DEF Chain

(* With one copy of each stage, where it stands and what it holds; the legs *)
(* its neighbours are about to give to it and want from it.                *)
At(s) == pc[TheHw(s)]
Held(s) == hold[TheHw(s)]
ControlGives == IF At("control") = "put" THEN Held("control").leg ELSE 0
InverseWants == IF cnt["inverse"] = Legs THEN 0 ELSE cnt["inverse"]
InverseGives == IF At("inverse") = "put" THEN Held("inverse").leg ELSE InverseWants
ServoWants == IF At("servo") = "store" THEN After(cnt["servo"]) ELSE cnt["servo"]

Single == \A t \in Thread : t[2] # 1 => pc[t] = "none"

(* The counters of the stages, which alone survive between two commands,   *)
(* agree with the commands on their way.                                   *)
InverseFrame == Hw("inverse") =>
  /\ Chain(box["inverse_cmd"], InverseWants, ControlGives)
  /\ At("inverse") = "put" => After(Held("inverse").leg) = InverseWants
  /\ At("inverse") \in {"leave", "exit"} => cnt["inverse"] = Legs
ServoFrame == Hw("inverse") /\ Hw("servo") =>
  /\ Chain(box["servo_cmd"], ServoWants, InverseGives)
  /\ At("servo") \in {"check", "leave", "exit"} => cnt["servo"] = 0
NoServoCmd == ~ Hw("inverse") => box["servo_cmd"] = <<>> /\ At("servo") # "store"

FInv == SingleCopies => Single /\ InverseFrame /\ ServoFrame /\ NoServoCmd

LEMMA InitFInv == Init => FInv
<1> SUFFICES ASSUME Init, SingleCopies PROVE Single /\ InverseFrame /\ ServoFrame /\ NoServoCmd
  BY DEF FInv
<1> USE PipelineAssumption DEF Init
<1>1. Single
  <2> SUFFICES ASSUME NEW t \in Thread, t[2] # 1 PROVE pc[t] = "none"
    BY DEF Single
  <2>1. t[1] \in Stage /\ t[2] \in Copy /\ t[2] > 1
    BY DEF Thread, Copy
  <2> QED BY <2>1 DEF SingleCopies
<1>2. \A s \in Stage : At(s) \notin {"put", "store", "check", "leave", "exit"}
  BY HwInThread, FirstStepType DEF At, FirstStep, Stage
<1>3. InverseWants = 0 /\ ControlGives = 0 /\ InverseGives = 0 /\ ServoWants = 0
  BY <1>2 DEF InverseWants, ControlGives, InverseGives, ServoWants, Stage
<1>4. box["inverse_cmd"] = <<>> /\ box["servo_cmd"] = <<>>
  BY DEF Box
<1>5. Chain(<<>>, 0, 0)
  BY DEF Chain
<1> QED BY <1>1, <1>2, <1>3, <1>4, <1>5 DEF InverseFrame, ServoFrame, NoServoCmd, Stage

(* Only the first copy of a stage moves.                                   *)
LEMMA FirstCopy ==
  ASSUME Single, NEW t \in Thread, pc[t] # "none" PROVE t = TheHw(t[1]) /\ t[1] \in Stage
  BY DEF Single, Thread, TheHw

LEMMA StageMoves ==
  ASSUME TInv, Single, NEW s \in Stage, NEW p, pc' = [pc EXCEPT ![TheHw(s)] = p]
  PROVE  Single' /\ At(s)' = p /\ \A u \in Stage \ {s} : At(u)' = At(u)
<1>1. pc \in [Thread -> Pc] /\ \A u \in Stage : TheHw(u) \in Thread
  BY HwInThread DEF TInv, TypeOK
<1>2. \A u \in Stage \ {s} : TheHw(u) # TheHw(s)
  BY DEF TheHw
<1>3. Single'
  BY <1>1 DEF Single, TheHw
<1> QED BY <1>1, <1>2, <1>3 DEF At

LEMMA StageTakes ==
  ASSUME TInv, NEW s \in Stage, NEW v, hold' = [hold EXCEPT ![TheHw(s)] = v]
  PROVE  Held(s)' = v /\ \A u \in Stage \ {s} : Held(u)' = Held(u)
<1>1. hold \in [Thread -> Command \cup {Nothing}] /\ \A u \in Stage : TheHw(u) \in Thread
  BY HwInThread DEF TInv, TypeOK
<1>2. \A u \in Stage \ {s} : TheHw(u) # TheHw(s)
  BY DEF TheHw
<1> QED BY <1>1, <1>2 DEF Held

(* What the frames do not notice.                                          *)
Frames == /\ dep' = dep /\ cnt' = cnt
          /\ box'["inverse_cmd"] = box["inverse_cmd"] /\ box'["servo_cmd"] = box["servo_cmd"]
LEMMA FramesKept ==
  ASSUME SingleCopies, FInv, Single', Frames, ControlGives' = ControlGives,
         Held("inverse")' = Held("inverse"),
         At("inverse")' = "put" <=> At("inverse") = "put",
         At("inverse")' \in {"leave", "exit"} => At("inverse") \in {"leave", "exit"},
         At("servo")' = "store" <=> At("servo") = "store",
         At("servo")' \in {"check", "leave", "exit"} => At("servo") \in {"check", "leave", "exit"}
  PROVE  FInv'
<1>1. InverseWants' = InverseWants /\ InverseGives' = InverseGives /\ ServoWants' = ServoWants
  BY DEF InverseWants, InverseGives, ServoWants, Frames, After
<1>2. (Hw("inverse")' <=> Hw("inverse")) /\ (Hw("servo")' <=> Hw("servo"))
  BY DEF Hw, Frames
<1>3. InverseFrame'
  BY <1>1, <1>2 DEF FInv, InverseFrame, Frames, Chain, After
<1>4. ServoFrame'
  BY <1>1, <1>2 DEF FInv, ServoFrame, Frames, Chain, After
<1>5. NoServoCmd'
  BY <1>1, <1>2 DEF FInv, NoServoCmd, Frames
<1> QED BY <1>3, <1>4, <1>5 DEF FInv

LEMMA TouchFrames ==
  ASSUME TInv, FInv, SingleCopies, NEW t \in Thread, t[1] = "touch", Touch(t) PROVE FInv'
<1>1. PICK p : pc' = [pc EXCEPT ![t] = p]
  BY DEF Touch, HwTouchRead, HwTouchPut, HwTouchCheck, HwTouchLeave, SwTouchRead,
         SwTouchPut, CycleWait, CheckFlag, RequestAndExit, Goto
<1>2. pc[t] # "none" /\ UNCHANGED <<dep, cnt>>
  BY DEF Touch, HwTouchRead, HwTouchPut, HwTouchCheck, HwTouchLeave, SwTouchRead,
         SwTouchPut, CycleWait, CheckFlag, RequestAndExit, Goto
<1>3. (\E v : hold' = [hold EXCEPT ![t] = v]) \/ hold' = hold
  BY DEF Touch, HwTouchRead, HwTouchPut, HwTouchCheck, HwTouchLeave, SwTouchRead,
         SwTouchPut, CycleWait, CheckFlag, RequestAndExit, Take
<1>4. box' = box \/ \E v : box' = [box EXCEPT !["touch_pos"] = v]
  BY DEF Touch, HwTouchRead, HwTouchPut, HwTouchCheck, HwTouchLeave, SwTouchRead,
         SwTouchPut, CycleWait, CheckFlag, RequestAndExit, Put
<1>5. t = TheHw("touch")
  BY <1>2, FirstCopy DEF FInv
<1>6. Single' /\ \A u \in Stage \ {"touch"} : At(u)' = At(u)
  BY <1>1, <1>5, StageMoves DEF FInv, Stage
<1>7. \A u \in Stage \ {"touch"} : Held(u)' = Held(u)
  <2>1. CASE hold' = hold
    BY <2>1 DEF Held
  <2>2. ASSUME NEW v, hold' = [hold EXCEPT ![t] = v] PROVE \A u \in Stage \ {"touch"} : Held(u)' = Held(u)
    BY <1>5, <2>2, StageTakes DEF Stage
  <2> QED BY <1>3, <2>1, <2>2
<1>8. Frames
  BY <1>2, <1>4 DEF Frames, TInv, TypeOK, Box
<1>9. ControlGives' = ControlGives
  BY <1>6, <1>7 DEF ControlGives, Stage
<1> QED BY <1>6, <1>7, <1>8, <1>9, FramesKept DEF Stage

(* The controller: nothing, the start of a burst, or one command of it.    *)
LEMMA ControlFrames ==
  ASSUME TInv, FInv, SingleCopies, NEW t \in Thread, t[1] = "control", Control(t) PROVE FInv'
<1>1. pc[t] # "none" /\ UNCHANGED <<dep, cnt>>
  BY DEF Control, HwControlRestore, HwControlGet, HwControlPut, HwControlCheck, HwControlSave,
         HwControlLeave, SwControlRead, SwControlPut, CycleWait, PutCommand, RequestAndExit, Goto
<1>2. t = TheHw("control") /\ "control" \in Stage /\ t \in DOMAIN hold
  BY <1>1, FirstCopy DEF FInv, Stage, TInv, TypeOK
<1>3. CASE \/ HwControlRestore(t) \/ HwControlCheck(t) \/ HwControlSave(t) \/ HwControlLeave(t)
           \/ CycleWait(t)
  <2>1. PICK p : pc' = [pc EXCEPT ![t] = p] /\ p # "put"
    BY <1>3 DEF HwControlRestore, HwControlCheck, HwControlSave, HwControlLeave, CycleWait,
       RequestAndExit, Goto
  <2>2. pc[t] # "put" /\ UNCHANGED <<hold, box>>
    BY <1>3 DEF HwControlRestore, HwControlCheck, HwControlSave, HwControlLeave, CycleWait,
       RequestAndExit, Goto
  <2>3. Single' /\ At("control")' # "put" /\ \A u \in Stage \ {"control"} : At(u)' = At(u)
    BY <1>2, <2>1, StageMoves DEF FInv
  <2>4. ControlGives' = ControlGives
    BY <1>2, <2>2, <2>3 DEF ControlGives, At
  <2>5. Held("inverse")' = Held("inverse") /\ Frames
    BY <1>1, <2>2 DEF Held, Frames
  <2> QED BY <2>3, <2>4, <2>5, FramesKept DEF Stage
<1>4. CASE HwControlGet(t) \/ SwControlRead(t)
  <2>1. pc' = [pc EXCEPT ![t] = "put"] /\ pc[t] # "put"
    BY <1>4 DEF HwControlGet, SwControlRead, Goto
  <2>2. PICK v : hold' = [hold EXCEPT ![t] = v] /\ v.leg = 0
    <3>1. [pos |-> Head(box["touch_pos"]), leg |-> 0].leg = 0 /\ [pos |-> sample, leg |-> 0].leg = 0
      OBVIOUS
    <3>2. \/ hold' = [hold EXCEPT ![t] = [pos |-> Head(box["touch_pos"]), leg |-> 0]]
          \/ hold' = [hold EXCEPT ![t] = [pos |-> sample, leg |-> 0]]
      BY <1>4 DEF HwControlGet, SwControlRead, Take
    <3> QED BY <3>1, <3>2
  <2>3. Single' /\ At("control")' = "put" /\ \A u \in Stage \ {"control"} : At(u)' = At(u)
    BY <1>2, <2>1, StageMoves DEF FInv
  <2>4. Held("control")' = v /\ \A u \in Stage \ {"control"} : Held(u)' = Held(u)
    BY <1>2, <2>2, StageTakes
  <2>5. ControlGives' = ControlGives
    BY <1>2, <2>1, <2>2, <2>3, <2>4 DEF ControlGives, At
  <2>6. Frames
    BY <1>1, <1>4 DEF HwControlGet, SwControlRead, Get, Frames, TInv, TypeOK, Box
  <2> QED BY <2>3, <2>4, <2>5, <2>6, FramesKept DEF Stage
<1>5. ASSUME NEW after \in {"check", "cycle"}, PutCommand(t, after) PROVE FInv'
  <2>1. pc[t] = "put" /\ Put("inverse_cmd", hold[t]) /\ hold[t] \in Command
    BY <1>5 DEF PutCommand, TInv, HoldInv
  <2>2. box'["inverse_cmd"] = Append(box["inverse_cmd"], hold[t]) /\ box'["servo_cmd"] = box["servo_cmd"]
    BY <1>1, <2>1, PutBox DEF Box
  <2>3. /\ Single' /\ \A u \in Stage \ {"control"} : At(u)' = At(u) /\ Held(u)' = Held(u)
        /\ ControlGives' = After(hold[t].leg)
    <3>1. CASE hold[t].leg < Legs - 1
      <4>1. pc' = pc /\ hold' = [hold EXCEPT ![t] = [hold[t] EXCEPT !.leg = @ + 1]]
        BY <1>5, <3>1 DEF PutCommand, Take
      <4>2. [hold[t] EXCEPT !.leg = @ + 1].leg = hold[t].leg + 1
        BY <2>1, <3>1, CommandFacts
      <4>3. Held("control")' = [hold[t] EXCEPT !.leg = @ + 1]
            /\ \A u \in Stage \ {"control"} : Held(u)' = Held(u)
        BY <1>2, <4>1, StageTakes
      <4>4. Single' /\ \A u \in Stage : At(u)' = At(u)
        BY <4>1 DEF At, Single, FInv
      <4>5. ControlGives' = hold[t].leg + 1
        BY <1>2, <2>1, <4>2, <4>3, <4>4 DEF ControlGives, At
      <4> QED BY <3>1, <4>3, <4>4, <4>5 DEF After
    <3>2. CASE ~ (hold[t].leg < Legs - 1)
      <4>1. pc' = [pc EXCEPT ![t] = after] /\ hold' = [hold EXCEPT ![t] = Nothing]
        BY <1>5, <3>2 DEF PutCommand, Take
      <4>2. Single' /\ At("control")' = after /\ \A u \in Stage \ {"control"} : At(u)' = At(u)
        BY <1>2, <4>1, StageMoves DEF FInv
      <4>3. \A u \in Stage \ {"control"} : Held(u)' = Held(u)
        BY <1>2, <4>1, StageTakes
      <4> QED BY <3>2, <4>2, <4>3 DEF After, ControlGives
    <3> QED BY <3>1, <3>2
  <2>4. ControlGives = hold[t].leg
    BY <1>2, <2>1 DEF ControlGives, At, Held
  <2>5. InverseWants' = InverseWants /\ InverseGives' = InverseGives /\ ServoWants' = ServoWants
        /\ (Hw("inverse")' <=> Hw("inverse")) /\ (Hw("servo")' <=> Hw("servo"))
    BY <1>1, <2>3 DEF InverseWants, InverseGives, ServoWants, After, Hw, Stage
  <2>6. InverseFrame'
    <3> SUFFICES ASSUME Hw("inverse") PROVE InverseFrame'
      BY <2>5 DEF InverseFrame
    <3>1. Chain(box["inverse_cmd"], InverseWants, hold[t].leg) /\ box["inverse_cmd"] \in Seq(Command)
      BY <2>4 DEF FInv, InverseFrame, TInv, TypeOK
    <3>2. Chain(Append(box["inverse_cmd"], hold[t]), InverseWants, After(hold[t].leg))
      BY <2>1, <3>1, ChainGrows
    <3>3. Chain(box["inverse_cmd"], InverseWants, ControlGives)'
      BY <2>2, <2>3, <2>5, <3>2 DEF Chain, After
    <3> QED BY <1>1, <2>3, <2>5, <3>3 DEF InverseFrame, FInv, Stage, After
  <2>7. ServoFrame' /\ NoServoCmd'
    BY <1>1, <2>2, <2>3, <2>5 DEF FInv, ServoFrame, NoServoCmd, Chain, After, Stage
  <2> QED BY <2>3, <2>6, <2>7 DEF FInv
<1> QED BY <1>3, <1>4, <1>5 DEF Control, HwControlPut, SwControlPut

LEMMA InverseFrames ==
  ASSUME TInv, FInv, SingleCopies, NEW t \in Thread, t[1] = "inverse", Inverse(t) PROVE FInv'
<1>1. pc[t] # "none" /\ UNCHANGED dep
  BY DEF Inverse, HwInverseGet, HwInversePut, HwInverseCheck, HwInverseLeave, SwInverseGet,
         SwInverseStore, RequestAndExit, Goto
<1>2. t = TheHw("inverse") /\ "inverse" \in Stage
  BY <1>1, FirstCopy DEF FInv, Stage
<1>3. (Hw("inverse")' <=> Hw("inverse")) /\ (Hw("servo")' <=> Hw("servo"))
  BY <1>1 DEF Hw
<1>4. Single /\ InverseFrame /\ ServoFrame /\ NoServoCmd
  BY DEF FInv
<1>5. CASE HwInverseGet(t)
  <2> DEFINE f == InverseWants
  <2>1. /\ Hw("inverse") /\ pc[t] = "get" /\ pc' = [pc EXCEPT ![t] = "put"] /\ Get("inverse_cmd")
        /\ hold' = [hold EXCEPT ![t] = Head(box["inverse_cmd"])]
        /\ cnt' = [cnt EXCEPT !["inverse"] = IF @ < Legs THEN @ + 1 ELSE 1]
    BY <1>5 DEF HwInverseGet, Goto, Take
  <2>2. /\ box'["inverse_cmd"] = Tail(box["inverse_cmd"]) /\ box'["servo_cmd"] = box["servo_cmd"]
        /\ box["inverse_cmd"] # <<>> /\ box["inverse_cmd"] \in Seq(Command)
    BY <1>1, <2>1, GetBox DEF Box, TInv, TypeOK
  <2>3. Single' /\ At("inverse")' = "put" /\ \A u \in Stage \ {"inverse"} : At(u)' = At(u)
    BY <1>2, <1>4, <2>1, StageMoves
  <2>4. Held("inverse")' = Head(box["inverse_cmd"]) /\ \A u \in Stage \ {"inverse"} : Held(u)' = Held(u)
    BY <1>2, <2>1, StageTakes
  <2>5. Head(box["inverse_cmd"]).leg = f /\ Chain(Tail(box["inverse_cmd"]), After(f), ControlGives)
    BY <1>4, <2>1, <2>2, ChainShrinks DEF InverseFrame
  <2>6. cnt'["servo"] = cnt["servo"] /\ InverseWants' = After(f)
    <3>1. cnt \in [{"inverse", "servo"} -> 0 .. Legs]
      BY DEF TInv, TypeOK
    <3>2. cnt'["servo"] = cnt["servo"] /\ cnt'["inverse"] = IF cnt["inverse"] < Legs THEN cnt["inverse"] + 1 ELSE 1
      BY <2>1, <3>1
    <3>3. PICK n \in 0 .. Legs : n = cnt["inverse"]
      BY <3>1
    <3> QED BY <3>2, <3>3, PipelineAssumption DEF InverseWants, After
  <2>7. ControlGives' = ControlGives /\ ServoWants' = ServoWants /\ InverseGives' = InverseGives
    BY <1>2, <2>1, <2>3, <2>4, <2>5, <2>6
       DEF ControlGives, ServoWants, InverseGives, At, After, Stage
  <2>8. InverseFrame'
    BY <2>2, <2>3, <2>4, <2>5, <2>6, <2>7 DEF InverseFrame, Chain, After
  <2>9. ServoFrame'
    BY <1>3, <1>4, <2>2, <2>3, <2>6, <2>7 DEF ServoFrame, Chain, After, Stage
  <2> QED BY <1>3, <2>1, <2>3, <2>8, <2>9 DEF FInv, NoServoCmd
<1>6. CASE HwInversePut(t)
  <2>1. /\ Hw("inverse") /\ pc[t] = "put" /\ pc' = [pc EXCEPT ![t] = "check"]
        /\ Put("servo_cmd", hold[t]) /\ hold' = [hold EXCEPT ![t] = Nothing] /\ cnt' = cnt
        /\ hold[t] \in Command
    BY <1>6 DEF HwInversePut, Goto, Take, TInv, HoldInv
  <2>2. /\ box'["servo_cmd"] = Append(box["servo_cmd"], hold[t])
        /\ box'["inverse_cmd"] = box["inverse_cmd"] /\ box["servo_cmd"] \in Seq(Command)
    BY <1>1, <2>1, PutBox DEF Box, TInv, TypeOK
  <2>3. Single' /\ At("inverse")' = "check" /\ \A u \in Stage \ {"inverse"} : At(u)' = At(u)
    BY <1>2, <1>4, <2>1, StageMoves
  <2>4. \A u \in Stage \ {"inverse"} : Held(u)' = Held(u)
    BY <1>2, <2>1, StageTakes
  <2>5. InverseWants' = InverseWants /\ ControlGives' = ControlGives /\ ServoWants' = ServoWants
    BY <2>1, <2>3, <2>4 DEF InverseWants, ControlGives, ServoWants, After, Stage
  <2>6. InverseGives = hold[t].leg /\ After(hold[t].leg) = InverseWants /\ InverseGives' = InverseWants
    BY <1>2, <1>4, <2>1, <2>3, <2>5 DEF InverseGives, InverseFrame, At, Held
  <2>7. InverseFrame'
    BY <1>4, <2>1, <2>2, <2>3, <2>5 DEF InverseFrame, Chain, After
  <2>8. ServoFrame'
    <3> SUFFICES ASSUME Hw("servo") PROVE ServoFrame'
      BY <1>3 DEF ServoFrame
    <3>1. Chain(box["servo_cmd"], ServoWants, hold[t].leg)
      BY <1>4, <2>1, <2>6 DEF ServoFrame
    <3>2. Chain(Append(box["servo_cmd"], hold[t]), ServoWants, After(hold[t].leg))
      BY <2>1, <2>2, <3>1, ChainGrows
    <3>3. Chain(box["servo_cmd"], ServoWants, InverseGives)'
      BY <2>2, <2>5, <2>6, <3>2 DEF Chain, After
    <3> QED BY <1>4, <2>1, <2>3, <3>3 DEF ServoFrame, Stage
  <2> QED BY <1>3, <2>1, <2>3, <2>7, <2>8 DEF FInv, NoServoCmd
<1>7. CASE HwInverseCheck(t)
  <2>1. /\ Hw("inverse") /\ pc[t] = "check" /\ UNCHANGED <<hold, box, cnt>>
        /\ pc' = [pc EXCEPT ![t] = IF flag["inverse"] /\ cnt["inverse"] = Legs THEN "leave" ELSE "get"]
    BY <1>7 DEF HwInverseCheck
  <2>2. PICK p \in {"leave", "get"} : pc' = [pc EXCEPT ![t] = p] /\ (p = "leave" => cnt["inverse"] = Legs)
    BY <2>1
  <2>3. Single' /\ At("inverse")' = p /\ \A u \in Stage \ {"inverse"} : At(u)' = At(u)
    BY <1>2, <1>4, <2>2, StageMoves
  <2>4. /\ InverseWants' = InverseWants /\ ControlGives' = ControlGives /\ ServoWants' = ServoWants
        /\ InverseGives' = InverseGives
    BY <1>2, <2>1, <2>3 DEF InverseWants, InverseGives, ControlGives, ServoWants, After, Stage, At, Held
  <2>5. InverseFrame'
    BY <1>4, <2>1, <2>2, <2>3, <2>4 DEF InverseFrame, Chain, After
  <2>6. ServoFrame'
    BY <1>3, <1>4, <2>1, <2>3, <2>4 DEF ServoFrame, Chain, After, Stage
  <2> QED BY <1>3, <2>1, <2>3, <2>5, <2>6 DEF FInv, NoServoCmd
<1>8. CASE HwInverseLeave(t)
  <2>1. pc[t] = "leave" /\ pc' = [pc EXCEPT ![t] = "exit"] /\ UNCHANGED <<hold, box, cnt>>
    BY <1>8 DEF HwInverseLeave, RequestAndExit, Goto
  <2>2. Single' /\ At("inverse")' = "exit" /\ \A u \in Stage \ {"inverse"} : At(u)' = At(u)
    BY <1>2, <1>4, <2>1, StageMoves
  <2>3. ControlGives' = ControlGives /\ Held("inverse")' = Held("inverse") /\ Frames
    BY <1>1, <2>1, <2>2 DEF ControlGives, Held, Frames, Stage
  <2> QED BY <1>2, <2>1, <2>2, <2>3, FramesKept DEF Stage, At
<1>9. CASE SwInverseGet(t) \/ SwInverseStore(t)
  <2>1. ~ Hw("inverse") /\ \E p : pc' = [pc EXCEPT ![t] = p]
    BY <1>9 DEF SwInverseGet, SwInverseStore, Goto
  <2>2. Single' /\ \A u \in Stage \ {"inverse"} : At(u)' = At(u)
    BY <1>2, <1>4, <2>1, StageMoves
  <2>3. box'["servo_cmd"] = box["servo_cmd"]
    BY <1>9 DEF SwInverseGet, SwInverseStore, Get, TInv, TypeOK, Box
  <2> QED BY <1>3, <1>4, <2>1, <2>2, <2>3 DEF FInv, InverseFrame, ServoFrame, NoServoCmd, Stage
<1> QED BY <1>5, <1>6, <1>7, <1>8, <1>9 DEF Inverse

LEMMA ServoFrames ==
  ASSUME TInv, FInv, SingleCopies, NEW t \in Thread, t[1] = "servo", Servo(t) PROVE FInv'
<1>1. pc[t] # "none" /\ UNCHANGED dep /\ cnt'["inverse"] = cnt["inverse"]
      /\ \E p : pc' = [pc EXCEPT ![t] = p]
  <2>1. cnt' = cnt \/ \E v : cnt' = [cnt EXCEPT !["servo"] = v]
    BY DEF Servo, HwServoGet, HwServoStore, HwServoCheck, HwServoLeave, SwServoGet,
         SwServoStore, RequestAndExit
  <2> QED BY <2>1 DEF Servo, HwServoGet, HwServoStore, HwServoCheck, HwServoLeave, SwServoGet,
         SwServoStore, RequestAndExit, CheckFlag, Goto, TInv, TypeOK
<1>2. t = TheHw("servo") /\ "servo" \in Stage
  BY <1>1, FirstCopy DEF FInv, Stage
<1>3. (Hw("inverse")' <=> Hw("inverse")) /\ (Hw("servo")' <=> Hw("servo"))
  BY <1>1 DEF Hw
<1>4. Single /\ InverseFrame /\ ServoFrame /\ NoServoCmd
  BY DEF FInv
<1>5. Single' /\ \A u \in Stage \ {"servo"} : At(u)' = At(u)
  BY <1>1, <1>2, <1>4, StageMoves
<1>6. \A u \in Stage \ {"servo"} : Held(u)' = Held(u)
  <2>1. CASE hold' = hold
    BY <2>1 DEF Held
  <2>2. ASSUME NEW v, hold' = [hold EXCEPT ![t] = v] PROVE \A u \in Stage \ {"servo"} : Held(u)' = Held(u)
    BY <1>2, <2>2, StageTakes
  <2> QED BY <2>1, <2>2 DEF Servo, HwServoGet, HwServoStore, HwServoCheck, HwServoLeave, SwServoGet,
         SwServoStore, RequestAndExit, CheckFlag, Take
<1>7. InverseWants' = InverseWants /\ ControlGives' = ControlGives /\ InverseGives' = InverseGives
  BY <1>1, <1>5, <1>6 DEF InverseWants, ControlGives, InverseGives, Stage
<1>8. box'["inverse_cmd"] = box["inverse_cmd"]
  BY DEF Servo, HwServoGet, HwServoStore, HwServoCheck, HwServoLeave, SwServoGet,
         SwServoStore, RequestAndExit, CheckFlag, Get, TInv, TypeOK, Box
<1>9. InverseFrame'
  BY <1>1, <1>3, <1>4, <1>5, <1>6, <1>7, <1>8 DEF InverseFrame, Chain, After, Stage
<1>10. CASE HwServoGet(t)
  <2>1. /\ Hw("servo") /\ pc[t] = "get" /\ pc' = [pc EXCEPT ![t] = "store"] /\ Get("servo_cmd")
        /\ cnt' = cnt
    BY <1>10 DEF HwServoGet, Goto
  <2>2. /\ box'["servo_cmd"] = Tail(box["servo_cmd"])
        /\ box["servo_cmd"] # <<>> /\ box["servo_cmd"] \in Seq(Command)
    BY <1>1, <2>1, GetBox DEF Box, TInv, TypeOK
  <2>3. At("servo")' = "store" /\ At("servo") = "get" /\ Hw("inverse")
    BY <1>2, <1>4, <2>1, <2>2, StageMoves DEF At, NoServoCmd
  <2>4. ServoWants = cnt["servo"] /\ ServoWants' = After(cnt["servo"])
    BY <2>1, <2>3 DEF ServoWants, After
  <2>5. Chain(Tail(box["servo_cmd"]), After(ServoWants), InverseGives)
    BY <1>4, <2>1, <2>2, <2>3, ChainShrinks DEF ServoFrame
  <2>6. ServoFrame'
    BY <1>7, <2>2, <2>3, <2>4, <2>5 DEF ServoFrame, Chain, After
  <2> QED BY <1>3, <1>5, <1>9, <2>3, <2>6 DEF FInv, NoServoCmd
<1>11. CASE HwServoStore(t)
  <2>1. pc[t] = "store" /\ box' = box /\ Hw("servo")
    BY <1>11 DEF HwServoStore
  <2>2. At("servo") = "store" /\ Hw("inverse")
    BY <1>2, <1>4, <2>1 DEF At, NoServoCmd
  <2>3. /\ At("servo")' \in {"get", "check"} /\ cnt'["servo"] = After(cnt["servo"])
        /\ At("servo")' = "check" => cnt'["servo"] = 0
    <3>1. CASE cnt["servo"] < Legs - 1
      <4>1. cnt' = [cnt EXCEPT !["servo"] = @ + 1] /\ pc' = [pc EXCEPT ![t] = "get"]
        BY <1>11, <3>1 DEF HwServoStore
      <4>2. At("servo")' = "get"
        BY <1>2, <1>4, <4>1, StageMoves
      <4> QED BY <3>1, <4>1, <4>2 DEF After, TInv, TypeOK
    <3>2. CASE ~ (cnt["servo"] < Legs - 1)
      <4>1. cnt' = [cnt EXCEPT !["servo"] = 0] /\ pc' = [pc EXCEPT ![t] = "check"]
        BY <1>11, <3>2 DEF HwServoStore
      <4>2. At("servo")' = "check"
        BY <1>2, <1>4, <4>1, StageMoves
      <4> QED BY <3>2, <4>1, <4>2 DEF After, TInv, TypeOK
    <3> QED BY <3>1, <3>2
  <2>4. ServoWants' = ServoWants
    BY <2>2, <2>3 DEF ServoWants, After
  <2>5. ServoFrame'
    BY <1>3, <1>4, <1>7, <2>1, <2>2, <2>3, <2>4 DEF ServoFrame, Chain, After
  <2> QED BY <1>3, <1>5, <1>9, <2>2, <2>5 DEF FInv, NoServoCmd
<1>12. CASE HwServoCheck(t) \/ HwServoLeave(t)
  <2>1. PICK p \in {"leave", "get", "exit"} : pc' = [pc EXCEPT ![t] = p]
    BY <1>12 DEF HwServoCheck, HwServoLeave, CheckFlag, RequestAndExit, Goto
  <2>2. At("servo") \in {"check", "leave"} /\ Frames
    BY <1>1, <1>2, <1>12 DEF HwServoCheck, HwServoLeave, CheckFlag, RequestAndExit, Goto, At, Frames
  <2>3. At("servo")' = p
    BY <1>2, <1>4, <2>1, StageMoves
  <2> QED BY <1>5, <1>6, <1>7, <2>2, <2>3, FramesKept DEF Stage
<1>13. CASE SwServoGet(t) \/ SwServoStore(t)
  <2>1. ~ Hw("servo")
    BY <1>13 DEF SwServoGet, SwServoStore
  <2>2. Hw("inverse")
    BY <1>2, <1>4, <1>13 DEF SwServoGet, SwServoStore, Goto, Get, NoServoCmd, At
  <2> QED BY <1>3, <1>5, <1>9, <2>1, <2>2 DEF FInv, ServoFrame, NoServoCmd
<1> QED BY <1>10, <1>11, <1>12, <1>13 DEF Servo

LEMMA BroadcastFrames == ASSUME TInv, FInv, SingleCopies, Broadcast PROVE FInv'
<1>1. /\ pc' = [t \in Thread |-> IF pc[t] = "wait" THEN "read" ELSE pc[t]]
      /\ UNCHANGED <<dep, hold, cnt, box>>
  BY DEF Broadcast
<1>2. Single'
  BY <1>1 DEF FInv, Single
<1>3. \A s \in Stage : At(s)' = IF At(s) = "wait" THEN "read" ELSE At(s)
  BY <1>1, HwInThread DEF At
<1>4. ControlGives' = ControlGives /\ Held("inverse")' = Held("inverse") /\ Frames
  BY <1>1, <1>3 DEF ControlGives, Held, Frames, Stage
<1> QED BY <1>2, <1>3, <1>4, FramesKept DEF Stage

LEMMA RestartFrames ==
  ASSUME TInv, FInv, SingleCopies, NEW s \in Stage, Restart(s) PROVE FInv'
<1>1. /\ pc[TheHw(s)] = "exit" /\ pc' = [pc EXCEPT ![TheHw(s)] = FirstStep(s)]
      /\ cnt' = [c \in DOMAIN cnt |-> IF c = s THEN 0 ELSE cnt[c]]
      /\ UNCHANGED <<dep, hold, box>>
  BY DEF Restart, Goto
<1>2. Single /\ InverseFrame /\ ServoFrame /\ NoServoCmd
  BY DEF FInv
<1>3. Single' /\ At(s)' = FirstStep(s) /\ \A u \in Stage \ {s} : At(u)' = At(u)
  BY <1>1, <1>2, StageMoves
<1>4. FirstStep(s) \notin {"put", "store", "check", "leave", "exit"} /\ At(s) = "exit"
  BY <1>1 DEF FirstStep, At, Stage
<1>5. \A u \in Stage : Held(u)' = Held(u)
  BY <1>1 DEF Held
<1>6. ControlGives' = ControlGives
  BY <1>3, <1>4, <1>5 DEF ControlGives, Stage
<1>7. \A c \in {"inverse", "servo"} : cnt'[c] = IF c = s THEN 0 ELSE cnt[c]
  BY <1>1 DEF TInv, TypeOK
<1>8. (Hw("inverse")' <=> Hw("inverse")) /\ (Hw("servo")' <=> Hw("servo"))
  BY <1>1 DEF Hw
<1>9. Hw("inverse") => InverseWants' = InverseWants
  BY <1>2, <1>4, <1>7, PipelineAssumption DEF InverseWants, InverseFrame
<1>10. Hw("inverse") => InverseGives' = InverseGives
  BY <1>3, <1>4, <1>5, <1>9 DEF InverseGives, Stage
<1>11. InverseFrame'
  BY <1>1, <1>2, <1>3, <1>4, <1>5, <1>6, <1>7, <1>8, <1>9 DEF InverseFrame, Chain, After, Stage
<1>12. Hw("inverse") /\ Hw("servo") => ServoWants' = ServoWants /\ (s = "servo" => cnt["servo"] = 0)
  BY <1>2, <1>3, <1>4, <1>7 DEF ServoWants, ServoFrame, After, Stage
<1>13. ServoFrame'
  BY <1>1, <1>2, <1>3, <1>4, <1>7, <1>8, <1>10, <1>12 DEF ServoFrame, Chain, After, Stage
<1>14. NoServoCmd'
  BY <1>1, <1>2, <1>3, <1>4, <1>8 DEF NoServoCmd, Stage
<1> QED BY <1>3, <1>11, <1>13, <1>14 DEF FInv

LEMMA SameFrames ==
  ASSUME FInv, UNCHANGED <<dep, pc, hold, cnt, box>> PROVE FInv'
  BY DEF FInv, SingleCopies, Single, InverseFrame, ServoFrame, NoServoCmd, Chain, After, Hw, At, Held,
         InverseWants, InverseGives, ControlGives, ServoWants

LEMMA NextFInv == TInv /\ FInv /\ [Next]_vars => FInv'
<1> SUFFICES ASSUME TInv, FInv, [Next]_vars PROVE FInv'
  OBVIOUS
<1>1. dep' = dep
  BY DEF Next, Step, Touch, HwTouchRead, HwTouchPut, HwTouchCheck, HwTouchLeave, SwTouchRead,
         SwTouchPut, Control, HwControlRestore, HwControlGet, HwControlPut, HwControlCheck,
         HwControlSave, HwControlLeave, SwControlRead, SwControlPut, PutCommand, Inverse,
         HwInverseGet, HwInversePut, HwInverseCheck, HwInverseLeave, SwInverseGet, SwInverseStore,
         Servo, HwServoGet, HwServoStore, HwServoCheck, HwServoLeave, SwServoGet, SwServoStore,
         CycleWait, RequestAndExit, Broadcast, BallMoves, SetFlag, Restart, vars
<1>2. CASE ~ SingleCopies
  BY <1>1, <1>2 DEF FInv, SingleCopies
<1>3. CASE SingleCopies
  <2>1. ASSUME NEW t \in Thread, Step(t) PROVE FInv'
    BY <1>3, <2>1, TouchFrames, ControlFrames, InverseFrames, ServoFrames DEF Step
  <2>2. CASE BallMoves
    BY <2>2, SameFrames DEF BallMoves
  <2>3. ASSUME NEW s \in Stage, NEW v \in BOOLEAN, SetFlag(s, v) PROVE FInv'
    BY <2>3, SameFrames DEF SetFlag
  <2>4. CASE UNCHANGED vars
    BY <2>4, SameFrames DEF vars
  <2> QED BY <1>3, <2>1, <2>2, <2>3, <2>4, BroadcastFrames, RestartFrames DEF Next
<1> QED BY <1>2, <1>3

LEMMA FrameInvariant == Spec => [](TInv /\ FInv)
  BY InitTInv, NextTInv, InitFInv, NextFInv, PTL DEF Spec

(* A stage leaves between two frames, so its successor, whose counters are *)
(* zero again, takes the first command of a frame first.                   *)
THEOREM FramesAreWhole == Spec => []FramesWhole
<1>1. TInv /\ FInv => FramesWhole
  <2> SUFFICES ASSUME TInv, FInv, SingleCopies
               PROVE  /\ (Hw("inverse") /\ Gone("inverse") /\ box["inverse_cmd"] # <<>>)
                           => Head(box["inverse_cmd"]).leg = 0
                      /\ (Hw("servo") /\ Gone("servo") /\ box["servo_cmd"] # <<>>)
                           => Head(box["servo_cmd"]).leg = 0
    BY DEF FramesWhole
  <2>1. InverseFrame /\ ServoFrame /\ NoServoCmd
    BY DEF FInv
  <2>2. ASSUME Hw("inverse"), Gone("inverse"), box["inverse_cmd"] # <<>>
        PROVE  Head(box["inverse_cmd"]).leg = 0
    <3>1. InverseWants = 0
      BY <2>1, <2>2 DEF InverseFrame, Gone, At, InverseWants
    <3>2. Chain(box["inverse_cmd"], InverseWants, ControlGives) /\ box["inverse_cmd"] \in Seq(Command)
      BY <2>1, <2>2 DEF InverseFrame, TInv, TypeOK
    <3> QED BY <2>2, <3>1, <3>2, ChainShrinks
  <2>3. ASSUME Hw("servo"), Gone("servo"), box["servo_cmd"] # <<>>
        PROVE  Head(box["servo_cmd"]).leg = 0
    <3>1. Hw("inverse")
      BY <2>1, <2>3 DEF NoServoCmd
    <3>2. ServoWants = 0
      BY <2>1, <2>3, <3>1 DEF ServoFrame, Gone, At, ServoWants
    <3>3. Chain(box["servo_cmd"], ServoWants, InverseGives) /\ box["servo_cmd"] \in Seq(Command)
      BY <2>1, <2>3, <3>1 DEF ServoFrame, TInv, TypeOK
    <3> QED BY <2>3, <3>2, <3>3, ChainShrinks
  <2> QED BY <2>2, <2>3
<1> QED BY <1>1, FrameInvariant, PTL

-----------------------------------------------------------------------------
(* Order: a position never overtakes another one *)

Pos(b, x) == IF b = "touch_pos" THEN x ELSE x.pos
Rising(b, q) == \A i, j \in 1 .. Len(q) : i <= j => Pos(b, q[i]) <= Pos(b, q[j])
Inside(b, q) == {Pos(b, q[i]) : i \in 1 .. Len(q)}

(* The positions on their way, from the panel (0) to the registers (8).  A *)
(* software controller reads the panel itself: what the touch stage sends  *)
(* then goes nowhere.                                                      *)
Places == 0 .. 8
Place == [i \in Places |->
  CASE i = 0 -> {sample}
    [] i = 1 -> IF Hw("control") /\ At("touch") = "put" THEN {Held("touch").pos} ELSE {}
    [] i = 2 -> IF Hw("control") THEN Inside("touch_pos", box["touch_pos"]) ELSE {}
    [] i = 3 -> IF At("control") = "put" THEN {Held("control").pos} ELSE {}
    [] i = 4 -> Inside("inverse_cmd", box["inverse_cmd"])
    [] i = 5 -> IF At("inverse") \in {"put", "store"} THEN {Held("inverse").pos} ELSE {}
    [] i = 6 -> Inside("servo_cmd", box["servo_cmd"])
    [] i = 7 -> IF At("servo") = "store" THEN {Held("servo").pos} ELSE {}
    [] i = 8 -> {servo[l] : l \in Leg}]

Ordered(P) == \A i, j \in Places : i < j => \A a \in P[i], b \in P[j] : b <= a
AllRising == /\ Hw("control") => Rising("touch_pos", box["touch_pos"])
             /\ Rising("inverse_cmd", box["inverse_cmd"]) /\ Rising("servo_cmd", box["servo_cmd"])

OInv == SingleCopies => Ordered(Place) /\ AllRising

LEMMA PlaceIs ==
  /\ Place[0] = {sample}
  /\ Place[1] = IF Hw("control") /\ At("touch") = "put" THEN {Held("touch").pos} ELSE {}
  /\ Place[2] = IF Hw("control") THEN Inside("touch_pos", box["touch_pos"]) ELSE {}
  /\ Place[3] = IF At("control") = "put" THEN {Held("control").pos} ELSE {}
  /\ Place[4] = Inside("inverse_cmd", box["inverse_cmd"])
  /\ Place[5] = IF At("inverse") \in {"put", "store"} THEN {Held("inverse").pos} ELSE {}
  /\ Place[6] = Inside("servo_cmd", box["servo_cmd"])
  /\ Place[7] = IF At("servo") = "store" THEN {Held("servo").pos} ELSE {}
  /\ Place[8] = {servo[l] : l \in Leg}
  BY DEF Place, Places

LEMMA PlaceWillBe ==
  /\ Place'[0] = {sample'}
  /\ Place'[1] = IF Hw("control")' /\ At("touch")' = "put" THEN {Held("touch")'.pos} ELSE {}
  /\ Place'[2] = IF Hw("control")' THEN Inside("touch_pos", box'["touch_pos"]) ELSE {}
  /\ Place'[3] = IF At("control")' = "put" THEN {Held("control")'.pos} ELSE {}
  /\ Place'[4] = Inside("inverse_cmd", box'["inverse_cmd"])
  /\ Place'[5] = IF At("inverse")' \in {"put", "store"} THEN {Held("inverse")'.pos} ELSE {}
  /\ Place'[6] = Inside("servo_cmd", box'["servo_cmd"])
  /\ Place'[7] = IF At("servo")' = "store" THEN {Held("servo")'.pos} ELSE {}
  /\ Place'[8] = {servo'[l] : l \in Leg}
  BY DEF Place, Places, Inside, Leg

LEMMA PlaceInt == ASSUME TInv PROVE \A i \in Places : Place[i] \subseteq Int
<1> USE DEF TInv, TypeOK
<1>0. Sample \subseteq Int /\ \A c \in Command : c.pos \in Int
  <2>1. Sample \subseteq Int
    BY PipelineAssumption DEF Sample
  <2>2. \A c \in Command : c.pos \in Sample
    BY CommandFacts
  <2> QED BY <2>1, <2>2
<1>1. /\ Inside("touch_pos", box["touch_pos"]) \subseteq Int
      /\ Inside("inverse_cmd", box["inverse_cmd"]) \subseteq Int
      /\ Inside("servo_cmd", box["servo_cmd"]) \subseteq Int
  <2>1. \A i \in 1 .. Len(box["touch_pos"]) : box["touch_pos"][i] \in Sample
    OBVIOUS
  <2>2. \A i \in 1 .. Len(box["inverse_cmd"]) : box["inverse_cmd"][i] \in Command
    OBVIOUS
  <2>3. \A i \in 1 .. Len(box["servo_cmd"]) : box["servo_cmd"][i] \in Command
    OBVIOUS
  <2> QED BY <1>0, <2>1, <2>2, <2>3 DEF Inside, Pos
<1>2. \A s \in Stage : At(s) \in {"put", "store"} => Held(s).pos \in Int
  BY <1>0, HwInThread DEF At, Held, HoldInv
<1>3. sample \in Int /\ {servo[l] : l \in Leg} \subseteq Int
  BY PipelineAssumption DEF TInv, TypeOK, Sample, NoSample
<1> QED BY <1>1, <1>2, <1>3, PlaceIs DEF Places, Stage

(* A position v goes on from place i to place m.                           *)
LEMMA OneGoesOn ==
  ASSUME NEW C, NEW D, NEW i \in Places, NEW m \in Places, i < m,
         Ordered(C), \A k \in Places : C[k] \subseteq Int,
         NEW v \in C[i], \A a \in D[i] : v <= a,
         D[m] \subseteq C[m] \cup {v}, \A k \in Places \ {m} : D[k] \subseteq C[k],
         \A k \in Places : i < k /\ k < m => D[k] = {}
  PROVE  Ordered(D)
<1> SUFFICES ASSUME NEW j \in Places, NEW k \in Places, j < k, NEW a \in D[j], NEW b \in D[k]
             PROVE  b <= a
  BY DEF Ordered
<1>1. a \in Int /\ b \in Int /\ v \in Int
  OBVIOUS
<1>2. CASE a \in C[j] /\ b \in C[k]
  BY <1>2 DEF Ordered
<1>3. CASE b \notin C[k]
  <2>1. k = m /\ b = v /\ a \in C[j]
    BY <1>3
  <2>2. CASE j = i
    BY <2>1, <2>2
  <2>3. CASE j < i
    BY <2>1, <2>3 DEF Ordered
  <2>4. ~ (i < j)
    BY <2>1
  <2> QED BY <2>2, <2>3, <2>4 DEF Places
<1>4. CASE a \notin C[j]
  <2>1. j = m /\ a = v /\ b \in C[k] /\ i < k
    BY <1>4 DEF Places
  <2> QED BY <2>1 DEF Ordered
<1> QED BY <1>2, <1>3, <1>4

LEMMA NoneGoesOn ==
  ASSUME NEW C, NEW D, Ordered(C), \A k \in Places : D[k] \subseteq C[k] PROVE Ordered(D)
  BY DEF Ordered

(* A mailbox gives the oldest position and takes the newest one.           *)
LEMMA Oldest ==
  ASSUME NEW b, NEW S, NEW q \in Seq(S), q # <<>>, Rising(b, q)
  PROVE  /\ Rising(b, Tail(q)) /\ Inside(b, Tail(q)) \subseteq Inside(b, q)
         /\ Pos(b, Head(q)) \in Inside(b, q)
         /\ \A a \in Inside(b, Tail(q)) : Pos(b, Head(q)) <= a
<1> DEFINE r == Tail(q)
<1>1. r \in Seq(S) /\ Len(r) = Len(q) - 1 /\ Len(q) \in Nat \ {0} /\ Head(q) = q[1]
      /\ \A i \in 1 .. Len(r) : r[i] = q[i + 1] /\ i + 1 \in 1 .. Len(q)
  OBVIOUS
<1>2. Rising(b, r)
  <2> SUFFICES ASSUME NEW i \in 1 .. Len(r), NEW j \in 1 .. Len(r), i <= j
               PROVE  Pos(b, r[i]) <= Pos(b, r[j])
    BY DEF Rising
  <2>1. i + 1 <= j + 1 /\ i + 1 \in 1 .. Len(q) /\ j + 1 \in 1 .. Len(q)
    BY <1>1
  <2> QED BY <1>1, <2>1 DEF Rising
<1>3. Inside(b, r) \subseteq Inside(b, q)
  BY <1>1 DEF Inside
<1>4. Pos(b, Head(q)) \in Inside(b, q)
  BY <1>1 DEF Inside
<1>5. ASSUME NEW a \in Inside(b, r) PROVE Pos(b, Head(q)) <= a
  <2>1. PICK i \in 1 .. Len(r) : a = Pos(b, r[i])
    BY DEF Inside
  <2>2. i + 1 \in 1 .. Len(q) /\ 1 \in 1 .. Len(q) /\ 1 <= i + 1 /\ r[i] = q[i + 1]
    BY <1>1
  <2> QED BY <1>1, <2>1, <2>2 DEF Rising
<1> QED BY <1>2, <1>3, <1>4, <1>5

LEMMA Newest ==
  ASSUME NEW b, NEW S, NEW q \in Seq(S), NEW v \in S, Rising(b, q), Pos(b, v) \in Int,
         \A a \in Inside(b, q) : a <= Pos(b, v)
  PROVE  Rising(b, Append(q, v)) /\ Inside(b, Append(q, v)) = Inside(b, q) \cup {Pos(b, v)}
<1> DEFINE r == Append(q, v)
<1>1. r \in Seq(S) /\ Len(r) = Len(q) + 1 /\ Len(q) \in Nat /\ r[Len(q) + 1] = v
      /\ \A i \in 1 .. Len(q) : r[i] = q[i]
  OBVIOUS
<1>2. Rising(b, r)
  <2> SUFFICES ASSUME NEW i \in 1 .. Len(r), NEW j \in 1 .. Len(r), i <= j
               PROVE  Pos(b, r[i]) <= Pos(b, r[j])
    BY DEF Rising
  <2>1. CASE j \in 1 .. Len(q)
    <3>1. i \in 1 .. Len(q)
      BY <1>1, <2>1
    <3> QED BY <1>1, <2>1, <3>1 DEF Rising
  <2>2. CASE j = Len(q) + 1 /\ i \in 1 .. Len(q)
    BY <1>1, <2>2 DEF Inside
  <2>3. CASE j = Len(q) + 1 /\ i = Len(q) + 1
    BY <1>1, <2>3
  <2> QED BY <1>1, <2>1, <2>2, <2>3
<1>3. Inside(b, r) \subseteq Inside(b, q) \cup {Pos(b, v)}
  <2> SUFFICES ASSUME NEW i \in 1 .. Len(r) PROVE Pos(b, r[i]) \in Inside(b, q) \cup {Pos(b, v)}
    BY DEF Inside
  <2>1. i \in 1 .. Len(q) \/ i = Len(q) + 1
    BY <1>1
  <2> QED BY <1>1, <2>1 DEF Inside
<1>4. Inside(b, q) \cup {Pos(b, v)} \subseteq Inside(b, r)
  <2>1. 1 .. Len(q) \subseteq 1 .. Len(r) /\ Len(q) + 1 \in 1 .. Len(r)
    BY <1>1
  <2> QED BY <1>1, <2>1 DEF Inside
<1> QED BY <1>2, <1>3, <1>4

LEMMA InitOInv == Init => OInv
<1> SUFFICES ASSUME Init, SingleCopies PROVE Ordered(Place) /\ AllRising
  BY DEF OInv
<1> USE PipelineAssumption DEF Init
<1>1. \A s \in Stage : At(s) \notin {"put", "store"}
  BY HwInThread DEF At, FirstStep, Stage
<1>2. \A b \in Box : Inside(b, box[b]) = {} /\ Rising(b, box[b])
  BY DEF Inside, Rising
<1>3. \A k \in Places \ {0, 8} : Place[k] = {}
  BY <1>1, <1>2, PlaceIs DEF Places, Stage, Box
<1>4. Place[0] = {0} /\ \A a \in Place[8] : a = NoSample
  BY PlaceIs
<1>5. Ordered(Place)
  BY <1>3, <1>4 DEF Ordered, Places, NoSample
<1> QED BY <1>2, <1>5 DEF AllRising, Box

(* Steps in which no position goes on.                                     *)
LEMMA PlacesKept ==
  ASSUME OInv, SingleCopies, UNCHANGED <<dep, sample, box, servo, hold>>,
         \A s \in Stage : At(s)' = At(s) \/ At(s)' \notin {"put", "store"}
  PROVE  OInv'
<1>1. \A s \in Stage : Held(s)' = Held(s)
  BY DEF Held
<1>2. Hw("control")' <=> Hw("control")
  BY DEF Hw
<1>3. \A k \in Places : Place'[k] \subseteq Place[k]
  BY <1>1, <1>2, PlaceIs, PlaceWillBe DEF Places, Stage
<1>4. Ordered(Place)'
  BY <1>3, NoneGoesOn DEF OInv, Ordered
<1>5. AllRising'
  BY <1>2 DEF OInv, AllRising, Rising, Pos
<1> QED BY <1>4, <1>5 DEF OInv

LEMMA PlainOrder ==
  ASSUME TInv, FInv, OInv, SingleCopies, NEW t \in Thread,
         \/ RequestAndExit(t) \/ CycleWait(t)
         \/ HwTouchCheck(t) \/ HwServoCheck(t) \/ HwInverseCheck(t) \/ HwControlCheck(t)
         \/ HwControlRestore(t) \/ HwControlSave(t)
  PROVE  OInv'
<1>1. /\ UNCHANGED <<dep, sample, box, servo, hold>> /\ pc[t] # "none"
      /\ \E p : pc' = [pc EXCEPT ![t] = p] /\ p \notin {"put", "store"}
  BY DEF RequestAndExit, CycleWait, HwTouchCheck, HwServoCheck, HwInverseCheck, HwControlCheck,
         HwControlRestore, HwControlSave, CheckFlag, Goto
<1>2. t = TheHw(t[1]) /\ t[1] \in Stage
  BY <1>1, FirstCopy DEF FInv
<1>3. \A s \in Stage : At(s)' = At(s) \/ At(s)' \notin {"put", "store"}
  BY <1>1, <1>2, StageMoves DEF FInv
<1> QED BY <1>1, <1>3, PlacesKept

(* The panel is read.                                                      *)
LEMMA ReadOrder ==
  ASSUME TInv, FInv, OInv, SingleCopies, NEW t \in Thread, Step(t), Read(t) PROVE OInv'
<1>1. /\ pc[t] # "none" /\ pc' = [pc EXCEPT ![t] = "put"]
      /\ hold' = [hold EXCEPT ![t] = [pos |-> sample, leg |-> 0]]
      /\ UNCHANGED <<dep, sample, box, servo>>
  BY DEF Read, HwTouchRead, SwTouchRead, SwControlRead, Goto, Take
<1>2. t = TheHw(t[1]) /\ t[1] \in Stage
  BY <1>1, FirstCopy DEF FInv
<1>3. /\ At(t[1])' = "put" /\ Held(t[1])' = [pos |-> sample, leg |-> 0]
      /\ \A u \in Stage \ {t[1]} : At(u)' = At(u) /\ Held(u)' = Held(u)
  BY <1>1, <1>2, StageMoves, StageTakes DEF FInv
<1>4. (Hw("control")' <=> Hw("control")) /\ Held(t[1])'.pos = sample
  BY <1>1, <1>3 DEF Hw
<1>5. t[1] = "touch" \/ (t[1] = "control" /\ ~ Hw("control"))
  <2>1. pc[t] = "read"
    BY DEF Read, HwTouchRead, SwTouchRead, SwControlRead, Goto
  <2>2. t[1] = "control" => ~ Hw("control")
    BY <2>1 DEF Step, Control, HwControlRestore, HwControlGet, HwControlPut, HwControlCheck,
       HwControlSave, HwControlLeave, SwControlRead, SwControlPut, CycleWait, PutCommand,
       RequestAndExit, Goto
  <2>3. t[1] \notin {"inverse", "servo"}
    BY <2>1 DEF Step, Inverse, HwInverseGet, HwInversePut, HwInverseCheck, HwInverseLeave,
       SwInverseGet, SwInverseStore, Servo, HwServoGet, HwServoStore, HwServoCheck, HwServoLeave,
       SwServoGet, SwServoStore, RequestAndExit, CheckFlag, Goto
  <2> QED BY <1>2, <2>2, <2>3 DEF Stage
<1>6. AllRising'
  BY <1>1, <1>4 DEF OInv, AllRising, Rising, Pos
<1>7. Ordered(Place)
  BY DEF OInv
<1>8. sample \in Place[0] /\ \A a \in Place'[0] : sample <= a
  <2>1. sample \in Int
    BY PlaceInt, PlaceIs DEF Places
  <2> QED BY <1>1, <2>1, PlaceIs, PlaceWillBe
<1>9. CASE t[1] = "touch"
  <2>1. \A k \in Places \ {1} : Place'[k] \subseteq Place[k]
    BY <1>1, <1>3, <1>4, <1>9, PlaceIs, PlaceWillBe DEF Places, Stage
  <2>2. Place'[1] \subseteq Place[1] \cup {sample}
    BY <1>4, <1>9, PlaceWillBe
  <2>3. Ordered(Place')
    BY <1>7, <1>8, <2>1, <2>2, PlaceInt, OneGoesOn DEF Places
  <2> QED BY <1>6, <2>3 DEF OInv, Ordered
<1>10. CASE t[1] = "control" /\ ~ Hw("control")
  <2>1. \A k \in Places \ {3} : Place'[k] \subseteq Place[k]
    BY <1>1, <1>3, <1>4, <1>10, PlaceIs, PlaceWillBe DEF Places, Stage
  <2>2. Place'[3] \subseteq Place[3] \cup {sample}
    BY <1>3, <1>4, <1>10, PlaceWillBe
  <2>3. \A k \in Places : 0 < k /\ k < 3 => Place'[k] = {}
    BY <1>4, <1>10, PlaceWillBe DEF Places
  <2>4. Ordered(Place')
    BY <1>7, <1>8, <2>1, <2>2, <2>3, PlaceInt, OneGoesOn DEF Places
  <2> QED BY <1>6, <2>4 DEF OInv, Ordered
<1> QED BY <1>5, <1>9, <1>10

(* The touch stage puts a position.                                        *)
LEMMA TouchPutOrder ==
  ASSUME TInv, FInv, OInv, SingleCopies, NEW t \in Thread, t[1] = "touch",
         HwTouchPut(t) \/ SwTouchPut(t)
  PROVE  OInv'
<1> DEFINE v == hold[t].pos
<1>1. /\ pc[t] = "put" /\ Put("touch_pos", v) /\ hold[t] \in Command
      /\ hold' = [hold EXCEPT ![t] = Nothing]
      /\ UNCHANGED <<dep, sample, servo>> /\ \E p \in {"check", "cycle"} : pc' = [pc EXCEPT ![t] = p]
  BY DEF HwTouchPut, SwTouchPut, Goto, Take, TInv, HoldInv
<1>2. t = TheHw("touch") /\ "touch" \in Stage
  BY <1>1, FirstCopy DEF FInv, Stage
<1>3. /\ At("touch")' # "put"
      /\ \A u \in Stage \ {"touch"} : At(u)' = At(u) /\ Held(u)' = Held(u)
  BY <1>1, <1>2, StageMoves, StageTakes DEF FInv
<1>4. Hw("control")' <=> Hw("control")
  BY <1>1 DEF Hw
<1>5. v \in Sample /\ box["touch_pos"] \in Seq(Sample)
  BY <1>1, CommandFacts DEF TInv, TypeOK
<1>6. /\ box'["touch_pos"] = Append(box["touch_pos"], v)
      /\ box'["inverse_cmd"] = box["inverse_cmd"] /\ box'["servo_cmd"] = box["servo_cmd"]
  BY <1>1, <1>5, PutBox DEF Box
<1>7. Ordered(Place) /\ AllRising
  BY DEF OInv
<1>8. \A k \in Places \ {1, 2} : Place'[k] \subseteq Place[k]
  BY <1>1, <1>3, <1>4, <1>6, PlaceIs, PlaceWillBe DEF Places, Stage
<1>9. Place'[1] = {}
  BY <1>3, PlaceWillBe
<1>10. CASE ~ Hw("control")
  <2>1. Place'[2] = {}
    BY <1>4, <1>10, PlaceWillBe
  <2>2. Ordered(Place')
    BY <1>7, <1>8, <1>9, <2>1, NoneGoesOn DEF Places
  <2>3. AllRising'
    BY <1>4, <1>6, <1>7, <1>10 DEF AllRising, Rising, Pos
  <2> QED BY <2>2, <2>3 DEF OInv, Ordered
<1>11. CASE Hw("control")
  <2>1. v \in Place[1] /\ Place[2] = Inside("touch_pos", box["touch_pos"])
    BY <1>1, <1>2, <1>11, PlaceIs DEF At, Held
  <2>2. v \in Int /\ Pos("touch_pos", v) = v /\ \A a \in Place[2] : a <= v
    BY <1>7, <2>1, PlaceInt DEF Ordered, Places, Pos
  <2>3. /\ Rising("touch_pos", box'["touch_pos"])
        /\ Inside("touch_pos", box'["touch_pos"]) = Inside("touch_pos", box["touch_pos"]) \cup {v}
    BY <1>5, <1>6, <1>7, <1>11, <2>1, <2>2, Newest DEF AllRising
  <2>4. Place'[2] = Place[2] \cup {v}
    BY <1>4, <1>11, <2>1, <2>3, PlaceWillBe
  <2>5. Ordered(Place')
    BY <1>7, <1>8, <1>9, <2>1, <2>4, PlaceInt, OneGoesOn DEF Places
  <2>6. AllRising'
    BY <1>6, <1>7, <2>3 DEF AllRising, Rising, Pos
  <2> QED BY <2>5, <2>6 DEF OInv, Ordered
<1> QED BY <1>10, <1>11

(* A stage takes the oldest position out of the mailbox in front of it.    *)
LEMMA GetOrder ==
  ASSUME TInv, FInv, OInv, SingleCopies,
         NEW s \in Stage, NEW b \in Box, NEW i \in Places, NEW w,
         \/ s = "control" /\ b = "touch_pos" /\ i = 2 /\ Hw("control")
         \/ s = "inverse" /\ b = "inverse_cmd" /\ i = 4
         \/ s = "servo" /\ b = "servo_cmd" /\ i = 6,
         Get(b), UNCHANGED <<dep, sample, servo>>,
         \E p : pc' = [pc EXCEPT ![TheHw(s)] = p],
         hold' = [hold EXCEPT ![TheHw(s)] = w], w.pos = Pos(b, Head(box[b]))
  PROVE  OInv'
<1> DEFINE v == w.pos
<1>1. \A u \in Stage \ {s} : At(u)' = At(u) /\ Held(u)' = Held(u)
  BY StageMoves, StageTakes DEF FInv
<1>2. Held(s)' = w /\ (Hw("control")' <=> Hw("control"))
  BY StageTakes DEF Hw
<1>3. /\ box'[b] = Tail(box[b]) /\ box[b] # <<>> /\ \A c \in Box \ {b} : box'[c] = box[c]
  BY GetBox
<1>4. Ordered(Place) /\ AllRising /\ Rising(b, box[b])
  BY DEF OInv, AllRising
<1>5. box[b] \in Seq(Sample) \/ box[b] \in Seq(Command)
  BY DEF TInv, TypeOK, Box
<1>6. /\ Rising(b, box'[b]) /\ Inside(b, box'[b]) \subseteq Inside(b, box[b])
      /\ v \in Inside(b, box[b]) /\ \A a \in Inside(b, box'[b]) : v <= a
  <2> DEFINE q == box[b]
  <2>1. /\ Rising(b, Tail(q)) /\ Inside(b, Tail(q)) \subseteq Inside(b, q)
        /\ Pos(b, Head(q)) \in Inside(b, q)
        /\ \A a \in Inside(b, Tail(q)) : Pos(b, Head(q)) <= a
    <3>1. q # <<>> /\ Rising(b, q) /\ (q \in Seq(Sample) \/ q \in Seq(Command))
      BY <1>3, <1>4, <1>5
    <3> HIDE DEF q
    <3> QED BY <3>1, Oldest
  <2> QED BY <1>3, <2>1
<1>7. Place[i] = Inside(b, box[b]) /\ Place'[i] = Inside(b, box'[b])
  BY <1>2, PlaceIs, PlaceWillBe
<1>8. i + 1 \in Places /\ Place'[i + 1] \subseteq {v}
  BY <1>2, PlaceWillBe DEF Places
<1>9. \A k \in Places \ {i, i + 1} : Place'[k] \subseteq Place[k]
  <2>1. CASE i = 2
    BY <1>1, <1>2, <1>3, <2>1, PlaceIs, PlaceWillBe DEF Places, Stage, Box
  <2>2. CASE i = 4
    BY <1>1, <1>2, <1>3, <2>2, PlaceIs, PlaceWillBe DEF Places, Stage, Box
  <2>3. CASE i = 6
    BY <1>1, <1>2, <1>3, <2>3, PlaceIs, PlaceWillBe DEF Places, Stage, Box
  <2> QED BY <2>1, <2>2, <2>3
<1>10. Ordered(Place')
  BY <1>4, <1>6, <1>7, <1>8, <1>9, PlaceInt, OneGoesOn DEF Places
<1>11. AllRising'
  BY <1>2, <1>3, <1>4, <1>6 DEF AllRising, Rising, Pos, Box
<1> QED BY <1>10, <1>11 DEF OInv, Ordered

LEMMA GetsOrder ==
  ASSUME TInv, FInv, OInv, SingleCopies, NEW t \in Thread, Step(t),
         \/ HwInverseGet(t) \/ SwInverseGet(t) \/ HwServoGet(t) \/ SwServoGet(t) \/ HwControlGet(t)
  PROVE  OInv'
<1>1. pc[t] = "get"
  BY DEF HwInverseGet, SwInverseGet, HwServoGet, SwServoGet, HwControlGet, Goto
<1>2. t = TheHw(t[1]) /\ t[1] \in Stage
  BY <1>1, FirstCopy DEF FInv
<1>3. t[1] # "touch"
  BY <1>1 DEF Step, Touch, HwTouchRead, HwTouchPut, HwTouchCheck, HwTouchLeave, SwTouchRead,
     SwTouchPut, CycleWait, CheckFlag, RequestAndExit, Goto
<1>4. \A b \in {"inverse_cmd", "servo_cmd"} : Head(box[b]).pos = Pos(b, Head(box[b]))
  BY DEF Pos
<1>5. t[1] = "control" => HwControlGet(t)
  BY <1>1 DEF Step, Control, HwControlRestore, HwControlPut, HwControlCheck, HwControlSave,
     HwControlLeave, SwControlRead, SwControlPut, CycleWait, PutCommand, RequestAndExit, Goto
<1>6. t[1] = "inverse" => HwInverseGet(t) \/ SwInverseGet(t)
  BY <1>1 DEF Step, Inverse, HwInversePut, HwInverseCheck, HwInverseLeave, SwInverseStore,
     RequestAndExit, Goto
<1>7. t[1] = "servo" => HwServoGet(t) \/ SwServoGet(t)
  BY <1>1 DEF Step, Servo, HwServoStore, HwServoCheck, HwServoLeave, SwServoStore,
     RequestAndExit, CheckFlag, Goto
<1>8. CASE t[1] = "control"
  <2> DEFINE w == [pos |-> Head(box["touch_pos"]), leg |-> 0]
  <2>1. /\ Hw("control") /\ Get("touch_pos") /\ UNCHANGED <<dep, sample, servo>>
        /\ pc' = [pc EXCEPT ![t] = "put"] /\ hold' = [hold EXCEPT ![t] = w]
    BY <1>5, <1>8 DEF HwControlGet, Goto, Take
  <2>2. w.pos = Pos("touch_pos", Head(box["touch_pos"]))
    BY DEF Pos
  <2>3. t = TheHw("control") /\ "control" \in Stage /\ "touch_pos" \in Box /\ 2 \in Places
    BY <1>2, <1>8 DEF Stage, Box, Places
  <2> HIDE DEF w
  <2> QED BY <2>1, <2>2, <2>3, GetOrder
<1>9. CASE t[1] = "inverse"
  <2>1. /\ Get("inverse_cmd") /\ UNCHANGED <<dep, sample, servo>> /\ \E p : pc' = [pc EXCEPT ![t] = p]
        /\ hold' = [hold EXCEPT ![t] = Head(box["inverse_cmd"])]
    BY <1>6, <1>9 DEF HwInverseGet, SwInverseGet, Goto, Take
  <2>2. t = TheHw("inverse") /\ "inverse" \in Stage /\ "inverse_cmd" \in Box /\ 4 \in Places
    BY <1>2, <1>9 DEF Stage, Box, Places
  <2> QED BY <1>4, <2>1, <2>2, GetOrder
<1>10. CASE t[1] = "servo"
  <2>1. /\ Get("servo_cmd") /\ UNCHANGED <<dep, sample, servo>> /\ \E p : pc' = [pc EXCEPT ![t] = p]
        /\ hold' = [hold EXCEPT ![t] = Head(box["servo_cmd"])]
    BY <1>7, <1>10 DEF HwServoGet, SwServoGet, Goto, Take
  <2>2. t = TheHw("servo") /\ "servo" \in Stage /\ "servo_cmd" \in Box /\ 6 \in Places
    BY <1>2, <1>10 DEF Stage, Box, Places
  <2> QED BY <1>4, <2>1, <2>2, GetOrder
<1> QED BY <1>2, <1>3, <1>8, <1>9, <1>10 DEF Stage

(* The controller or the inverse puts the command it holds.                *)
LEMMA PutOrder ==
  ASSUME TInv, FInv, OInv, SingleCopies,
         NEW s \in Stage, NEW b \in Box, NEW i \in Places, NEW v \in Command,
         \/ s = "control" /\ b = "inverse_cmd" /\ i = 3
         \/ s = "inverse" /\ b = "servo_cmd" /\ i = 5,
         At(s) = "put", Held(s) = v, Put(b, v), UNCHANGED <<dep, sample, servo>>,
         \A u \in Stage \ {s} : At(u)' = At(u) /\ Held(u)' = Held(u),
         At(s)' \in {"put", "store"} => Held(s)'.pos = v.pos
  PROVE  OInv'
<1>1. Hw("control")' <=> Hw("control")
  BY DEF Hw
<1>2. /\ box'[b] = Append(box[b], v) /\ \A c \in Box \ {b} : box'[c] = box[c]
      /\ box[b] \in Seq(Command)
  BY PutBox DEF TInv, TypeOK
<1>3. Ordered(Place) /\ AllRising /\ Rising(b, box[b])
  BY DEF OInv, AllRising
<1>4. Place[i] = {v.pos} /\ Place'[i] \subseteq {v.pos}
  BY PlaceIs, PlaceWillBe
<1>5. i + 1 \in Places /\ Place[i + 1] = Inside(b, box[b]) /\ Place'[i + 1] = Inside(b, box'[b])
  BY PlaceIs, PlaceWillBe DEF Places
<1>6. Pos(b, v) = v.pos /\ v.pos \in Int /\ \A a \in Inside(b, box[b]) : a <= v.pos
  <2>1. v.pos \in Int
    BY <1>4, PlaceInt
  <2> QED BY <1>3, <1>4, <1>5, <2>1 DEF Ordered, Pos, Places
<1>7. /\ Rising(b, box'[b])
      /\ Inside(b, box'[b]) = Inside(b, box[b]) \cup {v.pos}
  BY <1>2, <1>3, <1>6, Newest
<1>8. \A k \in Places \ {i, i + 1} : Place'[k] \subseteq Place[k]
  <2>1. CASE i = 3
    BY <1>1, <1>2, <2>1, PlaceIs, PlaceWillBe DEF Places, Stage, Box
  <2>2. CASE i = 5
    BY <1>1, <1>2, <2>2, PlaceIs, PlaceWillBe DEF Places, Stage, Box
  <2> QED BY <2>1, <2>2
<1>9. Ordered(Place')
  <2>1. \A a \in Place'[i] : v.pos <= a
    BY <1>4, <1>6
  <2>2. Place'[i + 1] \subseteq Place[i + 1] \cup {v.pos}
    BY <1>5, <1>7
  <2> QED BY <1>3, <1>4, <1>5, <1>8, <2>1, <2>2, PlaceInt, OneGoesOn DEF Places
<1>10. AllRising'
  BY <1>1, <1>2, <1>3, <1>7 DEF AllRising, Rising, Pos, Box
<1> QED BY <1>9, <1>10 DEF OInv, Ordered

LEMMA PutsOrder ==
  ASSUME TInv, FInv, OInv, SingleCopies, NEW t \in Thread, Step(t),
         PutOne(t) \/ PutCommand(t, "check") \/ PutCommand(t, "cycle")
  PROVE  OInv'
<1>1. pc[t] = "put" /\ hold[t] \in Command
  BY DEF PutOne, HwTouchPut, SwTouchPut, HwInversePut, PutCommand, Goto, TInv, HoldInv
<1>2. t = TheHw(t[1]) /\ t[1] \in Stage
  BY <1>1, FirstCopy DEF FInv
<1>3. CASE t[1] = "touch"
  <2>1. HwTouchPut(t) \/ SwTouchPut(t)
    BY <1>1, <1>3 DEF Step, Touch, HwTouchRead, HwTouchCheck, HwTouchLeave, SwTouchRead,
       CycleWait, CheckFlag, RequestAndExit, Goto
  <2> QED BY <1>3, <2>1, TouchPutOrder
<1>4. CASE t[1] = "control"
  <2>1. PICK after \in {"check", "cycle"} : PutCommand(t, after)
    BY <1>1, <1>4 DEF Step, Control, HwControlRestore, HwControlGet, HwControlPut, HwControlCheck,
       HwControlSave, HwControlLeave, SwControlRead, SwControlPut, CycleWait, RequestAndExit, Goto
  <2>2. Put("inverse_cmd", hold[t]) /\ UNCHANGED <<dep, sample, servo>>
    BY <2>1 DEF PutCommand
  <2>3. t = TheHw("control") /\ "control" \in Stage /\ "inverse_cmd" \in Box /\ 3 \in Places
    BY <1>2, <1>4 DEF Stage, Box, Places
  <2>4. At("control") = "put" /\ Held("control") = hold[t]
    BY <1>1, <2>3 DEF At, Held
  <2>5. /\ \A u \in Stage \ {"control"} : At(u)' = At(u) /\ Held(u)' = Held(u)
        /\ At("control")' \in {"put", "store"} => Held("control")'.pos = hold[t].pos
    <3>1. CASE hold[t].leg < Legs - 1
      <4> DEFINE w == [hold[t] EXCEPT !.leg = @ + 1]
      <4>1. pc' = pc /\ hold' = [hold EXCEPT ![t] = w]
        BY <2>1, <3>1 DEF PutCommand, Take
      <4>2. w.pos = hold[t].pos
        BY <1>1, <3>1, CommandFacts
      <4> HIDE DEF w
      <4>3. Held("control")' = w /\ \A u \in Stage \ {"control"} : Held(u)' = Held(u)
        BY <2>3, <4>1, StageTakes
      <4> QED BY <4>1, <4>2, <4>3 DEF At
    <3>2. CASE ~ (hold[t].leg < Legs - 1)
      <4>1. pc' = [pc EXCEPT ![t] = after] /\ hold' = [hold EXCEPT ![t] = Nothing]
        BY <2>1, <3>2 DEF PutCommand, Take
      <4>2. At("control")' = after /\ \A u \in Stage \ {"control"} : At(u)' = At(u)
        BY <2>3, <4>1, StageMoves DEF FInv
      <4>3. \A u \in Stage \ {"control"} : Held(u)' = Held(u)
        BY <2>3, <4>1, StageTakes
      <4> QED BY <4>2, <4>3
    <3> QED BY <3>1, <3>2
  <2> QED BY <1>1, <2>2, <2>3, <2>4, <2>5, PutOrder
<1>5. CASE t[1] = "inverse"
  <2>1. HwInversePut(t)
    BY <1>1, <1>5 DEF Step, Inverse, HwInverseGet, HwInverseCheck, HwInverseLeave, SwInverseGet,
       SwInverseStore, RequestAndExit, Goto
  <2>2. /\ Put("servo_cmd", hold[t]) /\ UNCHANGED <<dep, sample, servo>>
        /\ pc' = [pc EXCEPT ![t] = "check"] /\ hold' = [hold EXCEPT ![t] = Nothing]
    BY <2>1 DEF HwInversePut, Goto, Take
  <2>3. t = TheHw("inverse") /\ "inverse" \in Stage /\ "servo_cmd" \in Box /\ 5 \in Places
    BY <1>2, <1>5 DEF Stage, Box, Places
  <2>4. At("inverse") = "put" /\ Held("inverse") = hold[t]
    BY <1>1, <2>3 DEF At, Held
  <2>5. /\ At("inverse")' = "check" /\ \A u \in Stage \ {"inverse"} : At(u)' = At(u)
        /\ \A u \in Stage \ {"inverse"} : Held(u)' = Held(u)
    BY <2>2, <2>3, StageMoves, StageTakes DEF FInv
  <2> QED BY <1>1, <2>2, <2>3, <2>4, <2>5, PutOrder
<1>6. t[1] # "servo"
  BY <1>1 DEF Step, Servo, HwServoGet, HwServoStore, HwServoCheck, HwServoLeave, SwServoGet,
     SwServoStore, RequestAndExit, CheckFlag, Goto
<1> QED BY <1>2, <1>3, <1>4, <1>5, <1>6 DEF Stage

(* A command reaches its register, from the inverse or the servo stage.    *)
LEMMA StoreFrom ==
  ASSUME NEW t \in Thread, Step(t), Store(t), TInv, FInv, SingleCopies
  PROVE  /\ t = TheHw(t[1]) /\ At(t[1]) = "store" /\ hold[t] = Held(t[1]) /\ hold[t] \in Command
         /\ t[1] = "servo" \/ (t[1] = "inverse" /\ ~ Hw("inverse"))
         /\ servo' = [servo EXCEPT ![hold[t].leg] = hold[t].pos]
         /\ hold' = [hold EXCEPT ![t] = Nothing] /\ UNCHANGED <<dep, sample, box>>
         /\ \E p \in {"get", "check"} : pc' = [pc EXCEPT ![t] = p]
<1>1. /\ pc[t] = "store" /\ servo' = [servo EXCEPT ![hold[t].leg] = hold[t].pos]
      /\ hold' = [hold EXCEPT ![t] = Nothing] /\ UNCHANGED <<dep, sample, box>>
      /\ \E p \in {"get", "check"} : pc' = [pc EXCEPT ![t] = p]
  BY DEF Store, SwInverseStore, SwServoStore, HwServoStore, Goto, Take
<1>2. t = TheHw(t[1]) /\ t[1] \in Stage
  BY <1>1, FirstCopy DEF FInv
<1>3. t[1] \notin {"touch", "control"}
  BY <1>1 DEF Step, Touch, HwTouchRead, HwTouchPut, HwTouchCheck, HwTouchLeave, SwTouchRead,
     SwTouchPut, Control, HwControlRestore, HwControlGet, HwControlPut, HwControlCheck,
     HwControlSave, HwControlLeave, SwControlRead, SwControlPut, PutCommand, CycleWait, CheckFlag,
     RequestAndExit, Goto
<1>4. t[1] = "inverse" => ~ Hw("inverse")
  BY <1>1 DEF Step, Inverse, HwInverseGet, HwInversePut, HwInverseCheck, HwInverseLeave,
     SwInverseGet, SwInverseStore, RequestAndExit, Goto
<1> QED BY <1>1, <1>2, <1>3, <1>4 DEF At, Held, Stage, TInv, HoldInv

LEMMA StoreOrder ==
  ASSUME TInv, FInv, FInv', OInv, SingleCopies, NEW t \in Thread, Step(t), Store(t) PROVE OInv'
<1> DEFINE s == t[1]
           v == hold[t].pos
<1>1. /\ t = TheHw(s) /\ At(s) = "store" /\ hold[t] = Held(s) /\ hold[t] \in Command
      /\ s = "servo" \/ (s = "inverse" /\ ~ Hw("inverse"))
      /\ servo' = [servo EXCEPT ![hold[t].leg] = v]
      /\ hold' = [hold EXCEPT ![t] = Nothing] /\ UNCHANGED <<dep, sample, box>>
      /\ \E p \in {"get", "check"} : pc' = [pc EXCEPT ![t] = p]
  BY StoreFrom
<1>2. /\ At(s)' \in {"get", "check"}
      /\ \A u \in Stage \ {s} : At(u)' = At(u) /\ Held(u)' = Held(u)
  BY <1>1, StageMoves, StageTakes DEF FInv, Stage
<1>3. \A r \in Stage : Hw(r)' <=> Hw(r)
  BY <1>1 DEF Hw
<1>4. Ordered(Place) /\ AllRising
  BY DEF OInv
<1>5. Place'[8] \subseteq Place[8] \cup {v}
  BY <1>1, PlaceIs, PlaceWillBe DEF TInv, TypeOK
<1>6. \A k \in Places \ {8} : Place'[k] \subseteq Place[k]
  BY <1>1, <1>2, <1>3, PlaceIs, PlaceWillBe DEF Places, Stage
<1>7. CASE s = "servo"
  <2>1. v \in Place[7] /\ Place'[7] = {}
    BY <1>1, <1>2, <1>7, PlaceIs, PlaceWillBe
  <2>2. Ordered(Place')
    BY <1>4, <1>5, <1>6, <2>1, PlaceInt, OneGoesOn DEF Places
  <2> QED BY <1>1, <1>3, <1>4, <2>2 DEF OInv, Ordered, AllRising, Rising, Pos, Stage
<1>8. CASE s = "inverse" /\ ~ Hw("inverse")
  <2>1. v \in Place[5] /\ Place'[5] = {}
    BY <1>1, <1>2, <1>8, PlaceIs, PlaceWillBe
  <2>2. Place'[6] = {} /\ Place'[7] = {}
    <3>1. box["servo_cmd"] = <<>> /\ At("servo") # "store"
      BY <1>8 DEF FInv, NoServoCmd
    <3>2. Inside("servo_cmd", <<>>) = {}
      BY DEF Inside
    <3> QED BY <1>1, <1>2, <1>8, <3>1, <3>2, PlaceWillBe DEF Stage
  <2>3. Ordered(Place')
    BY <1>4, <1>5, <1>6, <2>1, <2>2, PlaceInt, OneGoesOn DEF Places
  <2> QED BY <1>1, <1>3, <1>4, <2>3 DEF OInv, Ordered, AllRising, Rising, Pos, Stage
<1> QED BY <1>1, <1>7, <1>8

LEMMA BallOrder == ASSUME TInv, OInv, SingleCopies, BallMoves PROVE OInv'
<1>1. /\ sample' = sample + 1
      /\ UNCHANGED <<dep, flag, pc, hold, cnt, box, servo, ctx, stack, req, filtered>>
  BY DEF BallMoves
<1>2. \A s \in Stage : At(s)' = At(s) /\ Held(s)' = Held(s) /\ (Hw(s)' <=> Hw(s))
  BY <1>1 DEF At, Held, Hw
<1>3. \A k \in Places \ {0} : Place'[k] \subseteq Place[k]
  BY <1>1, <1>2, PlaceIs, PlaceWillBe DEF Places, Stage
<1>4. sample \in Int /\ Place[0] = {sample} /\ Place'[0] = {sample + 1}
  BY <1>1, PlaceIs, PlaceWillBe, PlaceInt DEF Places
<1>5. Ordered(Place')
  <2> SUFFICES ASSUME NEW i \in Places, NEW j \in Places, i < j, NEW a \in Place'[i], NEW b \in Place'[j]
               PROVE  b <= a
    BY DEF Ordered
  <2>1. b \in Place[j] /\ b \in Int
    BY <1>3, PlaceInt DEF Places
  <2>2. CASE i = 0
    BY <1>4, <2>1, <2>2 DEF OInv, Ordered
  <2>3. CASE i # 0
    BY <1>3, <2>1, <2>3 DEF OInv, Ordered
  <2> QED BY <2>2, <2>3
<1>6. AllRising'
  BY <1>1, <1>2 DEF OInv, AllRising, Rising, Pos, Stage
<1> QED BY <1>5, <1>6 DEF OInv, Ordered

LEMMA NextOInv == TInv /\ FInv /\ FInv' /\ OInv /\ [Next]_vars => OInv'
<1> SUFFICES ASSUME TInv, FInv, FInv', OInv, [Next]_vars PROVE OInv'
  OBVIOUS
<1>1. dep' = dep
  BY DEF Next, Step, Touch, HwTouchRead, HwTouchPut, HwTouchCheck, HwTouchLeave, SwTouchRead,
         SwTouchPut, Control, HwControlRestore, HwControlGet, HwControlPut, HwControlCheck,
         HwControlSave, HwControlLeave, SwControlRead, SwControlPut, PutCommand, Inverse,
         HwInverseGet, HwInversePut, HwInverseCheck, HwInverseLeave, SwInverseGet, SwInverseStore,
         Servo, HwServoGet, HwServoStore, HwServoCheck, HwServoLeave, SwServoGet, SwServoStore,
         CycleWait, RequestAndExit, Broadcast, BallMoves, SetFlag, Restart, vars
<1>2. CASE ~ SingleCopies
  BY <1>1, <1>2 DEF OInv, SingleCopies
<1>3. CASE SingleCopies
  <2>1. ASSUME NEW t \in Thread, Step(t) PROVE OInv'
    BY <1>3, <2>1, StepKinds, PlainOrder, ReadOrder, PutsOrder, GetsOrder, StoreOrder
  <2>2. CASE Broadcast
    <3>1. UNCHANGED <<dep, sample, box, servo, hold>>
      BY <2>2 DEF Broadcast
    <3>2. \A s \in Stage : At(s)' = IF At(s) = "wait" THEN "read" ELSE At(s)
      BY <2>2, HwInThread DEF Broadcast, At
    <3> QED BY <1>3, <3>1, <3>2, PlacesKept
  <2>3. ASSUME NEW s \in Stage, Restart(s) PROVE OInv'
    <3>1. UNCHANGED <<dep, sample, box, servo, hold>> /\ pc' = [pc EXCEPT ![TheHw(s)] = FirstStep(s)]
      BY <2>3 DEF Restart, Goto
    <3>2. At(s)' = FirstStep(s) /\ \A u \in Stage \ {s} : At(u)' = At(u)
      BY <1>3, <3>1, StageMoves DEF FInv
    <3>3. FirstStep(s) \notin {"put", "store"}
      BY DEF FirstStep, Stage
    <3> QED BY <1>3, <3>1, <3>2, <3>3, PlacesKept
  <2>4. ASSUME NEW s \in Stage, NEW v \in BOOLEAN, SetFlag(s, v) PROVE OInv'
    BY <1>3, <2>4, PlacesKept DEF SetFlag, At
  <2>5. CASE UNCHANGED vars
    BY <1>3, <2>5, PlacesKept DEF vars, At
  <2> QED BY <1>3, <2>1, <2>2, <2>3, <2>4, <2>5, BallOrder DEF Next
<1> QED BY <1>2, <1>3

LEMMA OrderInvariant == Spec => [](TInv /\ FInv /\ OInv)
  BY InitTInv, NextTInv, InitFInv, NextFInv, InitOInv, NextOInv, PTL DEF Spec

(* No servo goes back to an older position of the ball, however the stages *)
(* are built and however often they are suspended and started again.       *)
THEOREM ServosNeverGoBack == Spec => NeverBackwards
<1>1. TInv /\ FInv /\ OInv /\ [Next]_vars => [SingleCopies => \A l \in Leg : servo'[l] >= servo[l]]_servo
  <2> SUFFICES ASSUME TInv, FInv, OInv, [Next]_vars, SingleCopies, NEW l \in Leg, servo' # servo
               PROVE  servo'[l] >= servo[l]
    OBVIOUS
  <2>1. PICK t \in Thread : Step(t) /\ Store(t)
    <3>1. \E t \in Thread : Step(t)
      BY DEF Next, Broadcast, BallMoves, Restart, SetFlag, vars
    <3>2. PICK t \in Thread : Step(t)
      BY <3>1
    <3>3. Store(t)
      BY <3>2, StepKinds DEF RequestAndExit, CycleWait, HwTouchCheck, HwServoCheck, HwInverseCheck,
         HwControlCheck, HwControlRestore, HwControlSave, Read, HwTouchRead, SwTouchRead,
         SwControlRead, PutOne, HwTouchPut, SwTouchPut, HwInversePut, PutCommand, HwInverseGet,
         SwInverseGet, HwServoGet, SwServoGet, HwControlGet
    <3> QED BY <3>2, <3>3
  <2>2. /\ servo' = [servo EXCEPT ![hold[t].leg] = hold[t].pos]
        /\ hold[t].pos \in Place[5] \cup Place[7]
    BY <2>1, StoreFrom, PlaceIs
  <2>3. servo[l] \in Place[8] /\ servo[l] \in Int /\ hold[t].pos \in Int
    BY <2>2, PlaceIs, PlaceInt DEF Places
  <2>4. servo[l] <= hold[t].pos
    BY <2>2, <2>3 DEF OInv, Ordered, Places
  <2>5. servo'[l] \in {servo[l], hold[t].pos}
    BY <2>2 DEF TInv, TypeOK
  <2> QED BY <2>3, <2>4, <2>5
<1> QED BY <1>1, OrderInvariant, PTL DEF Spec, NeverBackwards
==============================================================================
