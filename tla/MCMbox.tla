------------------------------- MODULE MCMbox -------------------------------
(* Instances of Mbox for TLC: a software thread and two delegates, a ring of
   two words. *)
EXTENDS Mbox

CONSTANTS t1, t2, t3, m1, m2

MCThreads == {t1, t2, t3}
MCMsg == {m1, m2}
MCSignalled == {t2, t3}
\* The calls of dt_mbox_get, dt_mbox_put, dt_mbox_tryget and dt_mbox_tryput; the
\* software threads use the plain calls.  put_interruptible is called nowhere.
MCOps == [t \in MCThreads |->
            IF t \in MCSignalled THEN {"get_interruptible", "put", "tryget", "tryput"}
                                 ELSE {"get", "put"}]
=============================================================================
