----------------------------- MODULE MCReconfig -----------------------------
(* Instances of Reconfig for TLC: two slots registered one after the other,    *)
(* three tasks for the first, two of them registered after it, and one for the *)
(* second (MCSchedule); and reconfig_scheduler_schedule with three tasks each. *)
EXTENDS Reconfig

CONSTANTS s0, s1

Call(s, t) == [slot |-> s, task |-> t]
MCSlots == {s0, s1}
Do(w, x) == [what |-> w, of |-> x]

MCTasks == 0 .. 3
MCSchedule == <<Call(s0, 0), Call(s0, 1), Call(s0, 2), Call(s1, 3)>>
MCSetup == <<Do("timer", None), Do("scheduler", None),
             Do("task", 0), Do("slot", s0), Do("task", 1), Do("task", 2),
             Do("task", 3), Do("slot", s1)>>

FullTasks == 0 .. 5
FullSchedule == <<Call(s0, 0), Call(s0, 1), Call(s0, 2),
                  Call(s1, 3), Call(s1, 4), Call(s1, 5)>>
FullSetup == <<Do("timer", None), Do("scheduler", None),
               Do("slot", s0), Do("task", 0), Do("task", 1), Do("task", 2),
               Do("slot", s1), Do("task", 3), Do("task", 4), Do("task", 5)>>
RightWords == {"id"}
AnyWords == {"id", "wrong"}
=============================================================================
