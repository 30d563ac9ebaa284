---------------------------- MODULE MCSlotQueue ----------------------------
(* Instance of SlotQueue for TLC: several callers of each side. *)
EXTENDS SlotQueue

CONSTANTS e1, e2, d1, d2, m1, m2

MCEnqueuers == {e1, e2}
MCDequeuers == {d1, d2}
MCInspectors == {e1}
MCMsg == {m1, m2}
=============================================================================
