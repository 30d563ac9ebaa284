------------------------------ MODULE MCHwSlot ------------------------------
(* The instances of HwSlot for TLC: a hardware thread that gets from a mailbox, *)
(* one that waits for a semaphore and puts into a mailbox, one with a mutex and *)
(* a condition, and, for the full mailbox, one that gets and puts.              *)
EXTENDS HwSlot

EndCmds == {"GET_STATE_ADDR", "EXIT"}
MCCmdSets == {ThreadCmds \cup GetCmds,
              EndCmds \cup PutCmds \cup {"SEM_POST", "SEM_WAIT"},
              EndCmds \cup (SyncCmds \ {"SEM_POST", "SEM_WAIT"})}
MCGetPut == {ThreadCmds \cup {"MBOX_GET", "MBOX_PUT"}}

\* Every call but a second create.
MCCalls == AllCalls \ {"create"}
=============================================================================
