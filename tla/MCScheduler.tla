----------------------------- MODULE MCScheduler -----------------------------
(* Scheduler for TLC: a week of one day of two hours, in half hours; the      *)
(* schedules every hour and a half, and daily at half past, for the job, and  *)
(* daily for the check.                                                       *)
EXTENDS Scheduler

MCSchedules ==
    { [kind |-> "interval", period |-> 3],
      [kind |-> "calendar", period |-> 4, at |-> 1, days |-> {0}] }
MCCheckSchedules == { [kind |-> "check", period |-> 4, at |-> 1] }
==============================================================================
