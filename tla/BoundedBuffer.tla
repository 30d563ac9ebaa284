---------------------------- MODULE BoundedBuffer ----------------------------
(***************************************************************************)
(* What a mailbox (struct mbox) and a slot queue (t_queue) promise to the  *)
(* threads that call them: one FIFO of at most Capacity words in which     *)
(* every call takes effect at one instant between its invocation and its   *)
(* return.  A call that only tries fails exactly when the buffer is full   *)
(* (or empty) at that instant; a call that may be interrupted may also     *)
(* give up, leaving the buffer as it was.  Locks, semaphores and indices   *)
(* do not appear: Mbox and SlotQueue implement this module.                *)
(***************************************************************************)
EXTENDS Naturals, Sequences

CONSTANTS
  Threads,          (* the calling threads                                *)
  Msg,              (* the words that are exchanged                       *)
  NoMsg,            (* the result of a get that has not delivered a word  *)
  Capacity,         (* how many words fit                                 *)
  PutOps, GetOps,   (* names of the calls that insert and that remove     *)
  TryOps,           (* the calls that fail instead of waiting             *)
  InterruptOps      (* the calls that a signal may abort                  *)

VARIABLES
  buffer,           (* the words inserted and not yet removed, oldest first *)
  op,               (* the call a thread is in, or "none"                 *)
  val,              (* the word it inserts, or has received               *)
  res               (* "pending", "ok" or "fail"                          *)

bvars == <<buffer, op, val, res>>

BufferTypeOK ==
  /\ buffer \in Seq(Msg)
  /\ Len(buffer) <= Capacity
  /\ op \in [Threads -> PutOps \cup GetOps \cup {"none"}]
  /\ val \in [Threads -> Msg \cup {NoMsg}]
  /\ res \in [Threads -> {"pending", "ok", "fail"}]

Init ==
  /\ buffer = <<>>
  /\ op = [t \in Threads |-> "none"]
  /\ val = [t \in Threads |-> NoMsg]
  /\ res = [t \in Threads |-> "ok"]

Invoke(t) ==
  /\ op[t] = "none"
  /\ \/ \E o \in PutOps, m \in Msg : /\ op' = [op EXCEPT ![t] = o]
                                     /\ val' = [val EXCEPT ![t] = m]
     \/ \E o \in GetOps : /\ op' = [op EXCEPT ![t] = o]
                          /\ val' = [val EXCEPT ![t] = NoMsg]
  /\ res' = [res EXCEPT ![t] = "pending"]
  /\ UNCHANGED buffer

Insert(t) ==
  /\ op[t] \in PutOps /\ res[t] = "pending"
  /\ Len(buffer) < Capacity
  /\ buffer' = Append(buffer, val[t])
  /\ res' = [res EXCEPT ![t] = "ok"]
  /\ UNCHANGED <<op, val>>

Remove(t) ==
  /\ op[t] \in GetOps /\ res[t] = "pending"
  /\ buffer # <<>>
  /\ val' = [val EXCEPT ![t] = Head(buffer)]
  /\ buffer' = Tail(buffer)
  /\ res' = [res EXCEPT ![t] = "ok"]
  /\ UNCHANGED op

Refuse(t) ==
  /\ op[t] \in TryOps /\ res[t] = "pending"
  /\ op[t] \in PutOps => Len(buffer) = Capacity
  /\ op[t] \in GetOps => buffer = <<>>
  /\ res' = [res EXCEPT ![t] = "fail"]
  /\ UNCHANGED <<buffer, op, val>>

Abort(t) ==
  /\ op[t] \in InterruptOps /\ res[t] = "pending"
  /\ res' = [res EXCEPT ![t] = "fail"]
  /\ UNCHANGED <<buffer, op, val>>

\* The caller learns res[t] and val[t].
Return(t) ==
  /\ op[t] # "none" /\ res[t] # "pending"
  /\ op' = [op EXCEPT ![t] = "none"]
  /\ val' = [val EXCEPT ![t] = NoMsg]
  /\ res' = [res EXCEPT ![t] = "ok"]
  /\ UNCHANGED buffer

Next == \E t \in Threads :
          Invoke(t) \/ Insert(t) \/ Remove(t) \/ Refuse(t) \/ Abort(t) \/ Return(t)

Spec == Init /\ [][Next]_bvars
=============================================================================
