---------------------------- MODULE KernelSwitch ----------------------------
(***************************************************************************)
(* The user of a hardware slot that switches between the video kernels at  *)
(* run time (reconf_server.c): on a request it raises rc_flag, waits until *)
(* the kernel answers in the mailbox reconfiguration_v_request, suspends   *)
(* and joins the hardware thread, writes the new bitstream and resumes.    *)
(* The kernels (rt_color2bw.cpp, rt_sobel.cpp) have the same program: look *)
(* at rc_flag, get the address of a frame, process it; when the flag is    *)
(* set, put one word and exit.                                             *)
(* The frames come from hdmi_input.c: a thread takes a filled buffer from  *)
(* the capture driver, puts its address into the mailbox and gives the     *)
(* buffer back to the driver at once, while the kernel still has to read it.*)
(*                                                                         *)
(* The slot, its delegate and the calls of its owner are those of HwSlot;  *)
(* inbox is the mailbox video_cmd, outbox is reconfiguration_v_request.    *)
(***************************************************************************)
EXTENDS HwSlot

CONSTANTS
  Kernels,          (* the bitstreams a request may select                 *)
  Buffers           (* the capture buffers, in the order they are queued   *)

BufferSet == {Buffers[i] : i \in DOMAIN Buffers}

ASSUME KernelAssumption ==
  \* what the kernels and the server use
  /\ \A u \in CmdSets : {"GET_INIT_DATA", "MBOX_GET", "MBOX_TRYPUT", "EXIT"} \subseteq u
  /\ {"suspend_block", "resume"} \subseteq Calls
  /\ "loading" \notin Kernels
  /\ Buffers \in Seq(BufferSet) /\ Len(Buffers) > 1
  /\ \A i, j \in DOMAIN Buffers : Buffers[i] = Buffers[j] => i = j

VARIABLES
  rc_flag,          (* shared with the kernel                              *)
  spc, want,        (* the server: place and requested bitstream           *)
  fabric,           (* what the slot is configured with                    *)
  kpc,              (* the kernel: place in its program                    *)
  reading,          (* the frames it reads: one, or none                   *)
  cpc, held,        (* the capture thread: place and buffer it has taken   *)
  queued, filled,   (* the driver: buffers to fill, and filled ones        *)
  frames            (* announced frames, until the kernel gets them: the   *)
                    (* buffer, and how often it was filled again since     *)

cameraVars == <<cpc, held, queued, filled, frames>>
switchVars == <<rc_flag, spc, want, fabric, kpc, reading>>
allVars == <<vars, switchVars, cameraVars>>

SwitchTypeOK ==
  /\ TypeOK
  /\ rc_flag \in BOOLEAN
  /\ spc \in {"boot", "booting", "idle", "handshake", "suspend", "suspending",
              "program", "loading", "polling", "resume", "resuming"}
  /\ want \in Kernels /\ fabric \in Kernels \cup {"loading"}
  /\ kpc \in {"init", "initialising", "poll", "get", "getting", "work", "try", "trying", "exit"}
  /\ cpc \in {"dequeue", "put", "queue"} /\ held \in BufferSet
  /\ queued \in Seq(BufferSet) /\ filled \in Seq(BufferSet)
  /\ frames \in Seq([buf : BufferSet, refills : Nat]) /\ Len(reading) <= 1

\* hdmi_input_init queues the buffers, starts the stream and then the thread.
CameraInit ==
  /\ cpc = "dequeue" /\ held = Buffers[1]
  /\ queued = Buffers /\ filled = <<>> /\ frames = <<>>

SwitchInit ==
  /\ Init /\ CameraInit
  /\ rc_flag = FALSE /\ spc = "boot" /\ kpc = "init"
  /\ \E k \in Kernels : want = k /\ fabric = k
  /\ reading = <<>>

-----------------------------------------------------------------------------
(* The kernel in the slot *)

KGoes(from, to) == kpc = from /\ kpc' = to /\ UNCHANGED <<rc_flag, spc, want, fabric>>
KStep(from, to) == KGoes(from, to) /\ UNCHANGED <<reading, cameraVars>>

KBoot ==
  /\ HwBoot /\ kpc' = "init"
  /\ UNCHANGED <<rc_flag, spc, want, fabric, reading, cameraVars>>
KInit == HwCall("GET_INIT_DATA") /\ KStep("init", "initialising")
KInitDone == HwAnswer /\ KStep("initialising", "poll")

\* Read rc_flag in memory.
KPoll ==
  /\ hw = "run" /\ KStep("poll", IF rc_flag THEN "try" ELSE "get")
  /\ UNCHANGED vars
KGet == HwCall("MBOX_GET") /\ KStep("get", "getting")
\* The address arrives; the frame is processed before the flag is read again.
KFrame ==
  /\ HwAnswer /\ KGoes("getting", "work")
  /\ reading' = <<Head(frames)>> /\ frames' = Tail(frames)
  /\ UNCHANGED <<cpc, held, queued, filled>>
KShown ==
  /\ KGoes("work", "poll") /\ reading' = <<>>
  /\ UNCHANGED <<vars, cameraVars>>

\* while (MBOX_TRYPUT(reconfiguration_v_request, ...) != 1); then exit
KTry == HwCall("MBOX_TRYPUT") /\ KStep("try", "trying")
KTried == HwAnswer /\ KStep("trying", IF Head(sw2hw) = "ok" THEN "exit" ELSE "try")
KExit == HwCall("EXIT") /\ KStep("exit", "init")

Kernel == KBoot \/ KInit \/ KInitDone \/ KPoll \/ KGet \/ KFrame \/ KShown \/ KTry \/ KTried \/ KExit

-----------------------------------------------------------------------------
(* reconf_server_thread; main creates the thread before the server starts *)

SStep(from, to) == spc = from /\ spc' = to /\ UNCHANGED <<kpc, reading, cameraVars>>

SCreate == SStep("boot", "booting") /\ Begin("create") /\ UNCHANGED <<rc_flag, want, fabric>>
SReady == SStep("booting", "idle") /\ opc = "idle" /\ UNCHANGED <<vars, rc_flag, want, fabric>>

SRequest ==
  /\ SStep("idle", "handshake")
  /\ rc_flag' = TRUE
  /\ want' \in Kernels
  /\ UNCHANGED <<vars, fabric>>

SHurry == \* mutant: does not wait for the kernel
  SStep("handshake", "suspend") /\ UNCHANGED <<vars, rc_flag, want, fabric>>
\* mbox_get on reconfiguration_v_request
SHandshake == SStep("handshake", "suspend") /\ Drain /\ UNCHANGED <<rc_flag, want, fabric>>

SSuspendOnly == \* mutant: reconos_thread_suspend, which does not join
  /\ SStep("suspend", "suspending") /\ Begin("suspend")
  /\ UNCHANGED <<rc_flag, want, fabric>>
SSuspend ==
  /\ SStep("suspend", "suspending") /\ Begin("suspend_block")
  /\ UNCHANGED <<rc_flag, want, fabric>>

SKeepFlag == \* mutant: rc_flag stays set
  /\ SStep("suspending", "program") /\ opc = "idle"
  /\ UNCHANGED <<vars, rc_flag, want, fabric>>
SClearFlag ==
  /\ SStep("suspending", "program") /\ opc = "idle"
  /\ rc_flag' = FALSE
  /\ UNCHANGED <<vars, want, fabric>>

\* reconf_server_reconfigure writes the bitstream and waits until it is loaded.
\* When the bitstream or the port cannot be opened it returns -1, which is ignored.
\* When prog_done cannot be opened, or its first byte is not '1', it reads for ever:
\* neither the open nor the reads are looked at, and the file is never rewound.
SProgram ==
  /\ SStep("program", "loading") /\ fabric' = "loading"
  /\ UNCHANGED <<vars, rc_flag, want>>
SProgrammed ==
  /\ SStep("loading", "resume") /\ fabric' = want
  /\ UNCHANGED <<vars, rc_flag, want>>
SPollsOn == SStep("loading", "polling") /\ UNCHANGED <<vars, rc_flag, want, fabric>>
SProgramFails == SStep("program", "resume") /\ UNCHANGED <<vars, rc_flag, want, fabric>>

SResume == SStep("resume", "resuming") /\ Begin("resume") /\ UNCHANGED <<rc_flag, want, fabric>>
SDone == SStep("resuming", "idle") /\ opc = "idle" /\ UNCHANGED <<vars, rc_flag, want, fabric>>

Server ==
  \/ SCreate \/ SReady \/ SHandshake \/ SSuspend \/ SClearFlag
  \/ SProgram \/ SProgrammed \/ SPollsOn \/ SProgramFails \/ SResume \/ SDone

-----------------------------------------------------------------------------
(* hdmi_input_buffer_thread and the capture driver *)

CStep(from, to) == cpc = from /\ cpc' = to /\ UNCHANGED switchVars

\* VIDIOC_DQBUF; EAGAIN is tried again, any other error ends the program.
CDequeue ==
  /\ CStep("dequeue", "put") /\ filled # <<>>
  /\ held' = Head(filled) /\ filled' = Tail(filled)
  /\ UNCHANGED <<vars, queued, frames>>
CTryPut == \* mutant: MBOX_TRYPUT, which drops the frame when the mailbox is full
  /\ CStep("put", "queue") /\ UNCHANGED <<held, queued, filled>>
  /\ IF inbox < InSize THEN Arrive /\ frames' = Append(frames, [buf |-> held, refills |-> 0])
                       ELSE UNCHANGED <<vars, frames>>
CPut ==
  /\ CStep("put", "queue") /\ Arrive
  /\ frames' = Append(frames, [buf |-> held, refills |-> 0])
  /\ UNCHANGED <<held, queued, filled>>
\* VIDIOC_QBUF
CQueue ==
  /\ CStep("queue", "dequeue") /\ queued' = Append(queued, held)
  /\ UNCHANGED <<vars, held, filled, frames>>

Camera == CDequeue \/ CPut \/ CQueue

\* The driver fills its buffers in order; whoever still has the address of an
\* earlier frame in this buffer has it overwritten.
Overwrite(seq, b) ==
  [i \in DOMAIN seq |-> IF seq[i].buf = b THEN [seq[i] EXCEPT !.refills = @ + 1] ELSE seq[i]]
Capture ==
  /\ queued # <<>>
  /\ LET b == Head(queued) IN
       /\ queued' = Tail(queued) /\ filled' = Append(filled, b)
       /\ frames' = Overwrite(frames, b) /\ reading' = Overwrite(reading, b)
  /\ UNCHANGED <<vars, rc_flag, spc, want, fabric, kpc, cpc, held>>

-----------------------------------------------------------------------------
Runtime(A) == A /\ UNCHANGED <<switchVars, cameraVars>>

SwitchNext ==
  \/ Runtime(Delegate) \/ Runtime(Owner)
  \/ Kernel \/ Server \/ SRequest \/ Camera \/ Capture

SwitchSpec == SwitchInit /\ [][SwitchNext]_allVars

\* All threads and the kernel run, and the camera keeps delivering frames; a
\* request need not come.
SwitchFairness ==
  /\ WF_allVars(Runtime(Delegate)) /\ WF_allVars(Runtime(Owner))
  /\ WF_allVars(Kernel) /\ WF_allVars(Server)
  /\ WF_allVars(Camera) /\ WF_allVars(Capture)
FairSwitchSpec == SwitchSpec /\ SwitchFairness

-----------------------------------------------------------------------------

\* While the bitstream of a slot is being written, its hardware thread is held
\* in reset, no word is in its FIFOs, and the delegate does not serve a call.
\* (The order of suspend_block, reconfigure and resume in reconf_server_thread
\* against the delegate's own steps.)
ProgrammedWhenQuiet ==
  fabric = "loading" =>
    /\ hwrst /\ hw = "reset" /\ ~rt
    /\ sw2hw = <<>> /\ hw2sw = <<>>
    /\ dpc \notin {"call", "syscall", "done", "answer", "flags", "post"}

\* A request is answered by exactly one word of the kernel: the mailbox is empty
\* again before the kernel is resumed, so that a later request is never taken
\* for answered by an earlier one, and the kernel never finds the mailbox full.
OneHandshake ==
  /\ spc \in {"idle", "suspend", "suspending", "program", "loading", "polling", "resume", "resuming"}
       => outbox = 0
  /\ outbox <= 1
  /\ kpc = "trying" => "fail" \notin {ans} \cup {sw2hw[i] : i \in DOMAIN sw2hw}

\* A kernel that has exited or is in reset is not asked to suspend by a broken
\* or killed CALL: when the suspender pokes the delegate, the delegate is not
\* inside a call of the kernel, so no frame is taken from the mailbox and lost.
NoCallInterrupted ==
  [][OPoke => dpc # "syscall"]_allVars

\* A frame that was announced is overwritten at most once, and once more for every
\* Len(Buffers) places of the mailbox, before the kernel has finished with it: the
\* capture thread gives each buffer back after it found a place for the address, so
\* that only these sizes, and not the speed of the kernel, decide how stale a frame
\* can be.
OverwrittenAtMost ==
  \A i \in DOMAIN (reading \o frames) :
    (reading \o frames)[i].refills <= 1 + InSize \div Len(Buffers)

\* Once the kernel has answered the request, the switch is carried through: the
\* delegate acknowledges the suspend, the exit is joined, the kernel resumed.  Only
\* the endless reading of prog_done keeps the server from it.
SwitchFinishes == (spc = "suspend") ~> (spc \in {"idle", "polling"})

\* reconos.h: resume starts "execution" again; as long as frames arrive, a call
\* of the kernel is then answered.
CallsAnswered == (hw = "await") ~> (hw # "await")
=============================================================================
