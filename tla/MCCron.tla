------------------------------ MODULE MCCron ------------------------------
(* Instances of Cron for TLC. *)
EXTENDS Cron

Sched(t, w) == [type |-> t, when |-> w]

\* With two requests that are refused.
TableSchedules ==
    {Sched("periodic", 0), Sched("periodic", 1), Sched("once", 1),
     Sched("daily", 1), Sched("daily", 3)}
=============================================================================
