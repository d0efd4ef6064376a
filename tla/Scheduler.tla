------------------------------ MODULE Scheduler ------------------------------
(* The scheduler of restic-web (scheduler.go): a tick every 15 seconds walks  *)
(* the jobs and then the repository's check, compares the wall clock with     *)
(* what the records say of the last runs, and starts what is due. The model   *)
(* has one repository, its jobs and its check.                                *)
(*                                                                            *)
(* Time is counted in units of a repeating week, minutes for one: Hour, Day   *)
(* and Week say how many make up each, and a week may have fewer days than    *)
(* ours. It passes at any moment, between the steps of a tick too: a computer *)
(* may sleep anywhere. A moment is written as its distance from now, 0 or     *)
(* negative; what lies further back than any rule looks is kept at a horizon. *)
EXTENDS Integers, FiniteSets

CONSTANTS
    NJobs,            \* jobs 1..NJobs, in the order the scheduler lists them
    Hour, Day, Week,  \* units of time
    Schedules,        \* what a job's schedule may be, when it is enabled
    CheckSchedules,   \* what the repository's check schedule may be
    MaxLate,          \* how long one tick may take
    MaxEvents         \* runs that users start, settings they save, statements
                      \* that fail, and crashes

Jobs == 1..NJobs
Check == NJobs + 1
Items == 1..(NJobs + 1)
Other == NJobs + 2          \* a run of another kind
Off == [kind |-> "off"]

JobSchedules ==
    [kind: {"interval"}, period: Hour..Week]
      \cup [kind: {"calendar"}, period: {Day, Week}, at: 0..(Day - 1), days: SUBSET Nat]
CheckKinds == [kind: {"check"}, period: {Day, Week}, at: 0..(Day - 1)]

ASSUME ConstantsAssumption ==
    /\ NJobs \in Nat /\ Hour \in Nat /\ Day \in Nat /\ Week \in Nat
    /\ Hour >= 1 /\ Day - (Day \div 2) >= Hour /\ Week >= Day
    /\ Schedules \subseteq JobSchedules
    /\ CheckSchedules \subseteq CheckKinds
    /\ MaxLate \in Nat /\ 2 * MaxLate <= Week /\ MaxEvents \in Nat

VARIABLES
    clock,     \* the time of the week
    sched,     \* job -> its schedule
    saved,     \* job -> how long ago the job was saved (updated_at)
    last,      \* job -> its newest backup recorded as ended: how, and how long ago
    checkSched, since,   \* the check schedule, and how long ago it was saved
    checked,   \* the newest check: whether there is one, how long ago it started
    run,       \* the run that the server drives on the repository
    stale,     \* what the rows are of that call a run active which nobody drives
    up,        \* whether restic-web runs
    at,        \* where the tick is: 0 between ticks, else the item it looks at
    stage,     \* what it does next, about that item
    late,      \* how long ago the tick took the time
    list,      \* the jobs as the tick has listed them
    fired,     \* history: item -> scheduled starts that crowd, each less than an
               \* hour after the one before and with no reason for another since
    rest,      \* history: item -> how long ago the newest of these was
    served,    \* history: job -> scheduled backups that succeeded since its
               \* newest slot; the check -> scheduled starts since the newest At
    faults,    \* statements that have failed
    events     \* these and the other things MaxEvents bounds

settings == <<sched, saved, checkSched, since>>
records == <<last, checked, run, stale>>
tickVars == <<at, stage, late, list>>
history == <<fired, rest, served>>
budgets == <<faults, events>>
vars == <<clock, settings, records, up, tickVars, history, budgets>>

\* How far the rules look back: for a job, to when the check schedule was saved,
\* and to when the last check started.
Horizon == Week + MaxLate
SinceHorizon == Day + MaxLate
CheckHorizon == Week + Day + MaxLate

------------------------------------------------------------------------------
(* What is due at t, which is when the tick took the time.                  *)

\* The time of the week at a moment not more than two weeks ago.
TimeAt(d) ==
    IF clock + d >= 0 THEN clock + d
    ELSE IF clock + d + Week >= 0 THEN clock + d + Week
    ELSE clock + d + Week + Week

\* Whether a schedule has a slot at a time of the week: at its time of day, on
\* one of its days (weekdayAllowed; a daily schedule has all of them).
IsSlot(s, c) == s.kind = "calendar" /\ c % Day = s.at /\ c \div Day \in s.days

\* nextCalendarFire(s, from) is not after t.
FiredSince(s, from, t) == \E d \in from..t : IsSlot(s, TimeAt(d))

\* nextCalendarFireAfter is not after t: strictly after the last attempt.
FiredAfter(s, after, t) == \E d \in after..t : d > after /\ IsSlot(s, TimeAt(d))

\* Mutant: a failure is retried at once.
retryWaitNone(period) == 0

retryWait(period) == IF period > Hour THEN Hour ELSE period

\* nextDueAt is not after t, for a job that was saved savedAgo before t and the
\* last attempt that the database reports. A job saved after t counts from t.
jobDue(s, savedAgo, attempt, t) ==
    \/ /\ s.kind = "interval"
       /\ \/ attempt.end = "never"
          \/ attempt.end = "ok" /\ attempt.ago + t >= s.period
          \/ attempt.end = "failed" /\ attempt.ago + t >= retryWait(s.period)
    \/ /\ s.kind = "calendar"
       /\ \/ attempt.end = "never" /\ FiredSince(s, IF savedAgo > 0 THEN t - savedAgo ELSE t, t)
          \/ attempt.end # "never" /\ FiredAfter(s, -attempt.ago, t)
          \/ attempt.end = "failed" /\ attempt.ago + t >= retryWait(s.period)

\* nextCheckAt: the first At from when the schedule was saved, and from half a
\* day before the period since the last check is over.
CheckFrom(check) ==
    LET again == checkSched.period - (Day \div 2) - check.ago
    IN  IF check.made /\ again > -since THEN again ELSE -since

IsCheckTime(c) == c % Day = checkSched.at

checkDue(check, t) ==
    /\ checkSched.kind = "check"
    /\ \E d \in CheckFrom(check)..t : IsCheckTime(TimeAt(d))

NeverRun == [end |-> "never", ago |-> 0]
NeverChecked == [made |-> FALSE, ago |-> 0]

------------------------------------------------------------------------------
(* Runs.                                                                    *)

NoRun == [what |-> 0, by |-> "nobody"]
Run(x, by) == [what |-> x, by |-> by]

jobHasActiveBackup(j) == run.what = j \/ j \in stale

\* A check's row makes it the newest one, whatever becomes of it.
NoteCheck(x) == checked' = IF x = Check THEN [made |-> TRUE, ago |-> 0] ELSE checked

\* The coordinator accepts a run. It does while it drives none and reads no row
\* that says one is active; rows it cannot read do not hold it up.
Begin(x, by) == run = NoRun /\ run' = Run(x, by) /\ NoteCheck(x) /\ UNCHANGED <<last, stale>>

\* The insert of a run's row is reported as failed but took effect: a row that
\* nobody drives.
BeginUnheard(x) ==
    /\ run = NoRun /\ stale = {}
    /\ stale' = {x} /\ NoteCheck(x) /\ UNCHANGED <<last, run>>

Listed == [j \in Jobs |-> [sched |-> sched[j], saved |-> saved[j] - late]]
NoList == [j \in Jobs |-> [sched |-> Off, saved |-> 0]]

Init ==
    /\ clock \in 0..(Week - 1)
    /\ sched \in [Jobs -> Schedules \cup {Off}]
    /\ saved = [j \in Jobs |-> 0]
    /\ last = [j \in Jobs |-> NeverRun]
    /\ checkSched \in CheckSchedules \cup {Off} /\ since = 0
    /\ checked = NeverChecked
    /\ run = NoRun /\ stale = {} /\ up = TRUE
    /\ at = 0 /\ stage = "look" /\ late = 0 /\ list = NoList
    /\ fired = [x \in Items |-> 0] /\ rest = [x \in Items |-> Hour]
    /\ served = [x \in Items |-> 0]
    /\ faults = 0 /\ events = 0

------------------------------------------------------------------------------
(* The tick. Other requests, and time, come between any two of its steps.   *)

Event == events < MaxEvents /\ events' = events + 1
Fault == Event /\ faults' = faults + 1
NoFault == UNCHANGED budgets

\* tickOnce takes the time.
TickBegin ==
    /\ up /\ at = 0
    /\ at' = 1 /\ stage' = "list"
    /\ UNCHANGED <<clock, settings, records, up, late, list, history, budgets>>

\* It lists the jobs; a list that cannot be read is an empty one.
ListJobs ==
    /\ up /\ stage = "list"
    /\ stage' = "look"
    /\ \/ list' = Listed /\ NoFault
       \/ list' = NoList /\ Fault
    /\ UNCHANGED <<clock, settings, records, up, at, late, history>>

\* Mutant: what need not or cannot be started ends the tick.
OnwardReturns == at' = 0 /\ stage' = "look" /\ late' = 0 /\ list' = NoList

\* The tick goes on to the next item, or is over.
Onward ==
    /\ stage' = "look"
    /\ \/ at = Check /\ at' = 0 /\ late' = 0 /\ list' = NoList
       \/ at # Check /\ at' = at + 1 /\ UNCHANGED <<late, list>>
Stay(s) == stage' = s /\ UNCHANGED <<at, late, list>>

\* A job that is off or has a backup under way is passed over.
LookAtJob ==
    /\ up /\ at \in Jobs /\ stage = "look"
    /\ \/ (list[at].sched.kind = "off" \/ jobHasActiveBackup(at)) /\ Onward /\ NoFault
       \/ list[at].sched.kind # "off" /\ ~jobHasActiveBackup(at) /\ Stay("time") /\ NoFault
       \/ list[at].sched.kind # "off" /\ jobHasActiveBackup(at) /\ Stay("time") /\ Fault
    /\ UNCHANGED <<clock, settings, records, up, history>>

Decide(due) == IF due THEN Stay("start") ELSE Onward

\* backupTiming: an attempt that cannot be read counts as none.
TimeJob ==
    /\ up /\ at \in Jobs /\ stage = "time"
    /\ \/ Decide(jobDue(list[at].sched, list[at].saved, last[at], -late)) /\ NoFault
       \/ Decide(jobDue(list[at].sched, list[at].saved, NeverRun, -late)) /\ Fault
    /\ UNCHANGED <<clock, settings, records, up, history>>

\* The check schedule and the newest check are read after the jobs. A schedule
\* that cannot be read is passed over, a check that cannot be read was never.
TimeCheck ==
    /\ up /\ at = Check /\ stage = "look"
    /\ \/ Decide(checkDue(checked, -late)) /\ NoFault
       \/ (Decide(checkDue(NeverChecked, -late)) \/ Onward) /\ Fault
    /\ UNCHANGED <<clock, settings, records, up, history>>

\* A scheduled run begins, and counts.
BeginDue ==
    /\ Begin(at, "schedule")
    /\ fired' = [fired EXCEPT ![at] = @ + 1] /\ rest' = [rest EXCEPT ![at] = 0]
    /\ served' = IF at = Check THEN [served EXCEPT ![at] = @ + 1] ELSE served

\* StartBackupTriggered or StartCheckTriggered: a busy repository, like any
\* other refusal, leaves it to the next tick.
StartDue ==
    /\ up /\ at # 0 /\ stage = "start"
    /\ \/ stale = {} /\ BeginDue /\ NoFault
       \/ stale # {} /\ BeginDue /\ Fault
       \/ (run # NoRun \/ stale # {}) /\ NoFault /\ UNCHANGED <<records, history>>
       \/ run = NoRun /\ Fault /\ UNCHANGED <<records, history>>
       \/ BeginUnheard(at) /\ Fault /\ UNCHANGED history
    /\ Onward
    /\ UNCHANGED <<clock, settings, up>>

------------------------------------------------------------------------------
(* Runs end, users act, the server dies, time passes.                       *)

\* A backup that succeeds counts for its slot if the schedule started it; one
\* that does not asks for another.
CountEnd(end) ==
    served' = IF run.what \in Jobs /\ end = "failed" THEN [served EXCEPT ![run.what] = 0]
              ELSE IF /\ run.what \in Jobs /\ run.by = "schedule"
                      /\ sched[run.what].kind = "calendar"
                   THEN [served EXCEPT ![run.what] = @ + 1]
              ELSE served

\* Mutant: a backup that succeeded, with warnings, counts as one that failed.
EndedAmiss(end) ==
    last' = IF run.what \in Jobs
            THEN [last EXCEPT ![run.what] = [end |-> "failed", ago |-> 0]] ELSE last

Ended(end) ==
    last' = IF run.what \in Jobs
            THEN [last EXCEPT ![run.what] = [end |-> end, ago |-> 0]] ELSE last

\* A backup that succeeds may hand the repository to its job's retention run.
HandOver(end) ==
    \/ run' = NoRun
    \/ run.what \in Jobs /\ end = "ok" /\ stale = {} /\ run' = Run(Other, "follow")

\* The same with a statement that fails: the rows that say the repository is
\* busy, or the insert of the retention run, which takes effect.
HandOverAmiss(end) ==
    /\ run.what \in Jobs /\ end = "ok"
    /\ \/ run' = Run(Other, "follow") /\ UNCHANGED stale
       \/ run' = NoRun /\ stale' = stale \cup {Other}

\* A run ends. Its last write may be lost; then its row still says that it runs.
Finish(end) ==
    /\ up /\ run # NoRun
    /\ CountEnd(end)
    /\ \/ HandOver(end) /\ Ended(end) /\ UNCHANGED stale /\ NoFault
       \/ HandOverAmiss(end) /\ Ended(end) /\ Fault
       \/ HandOver(end) /\ UNCHANGED last /\ stale' = stale \cup {run.what} /\ Fault
    /\ UNCHANGED <<clock, settings, checked, up, tickVars, fired, rest>>

\* A user starts a run in the browser.
Request(x) ==
    /\ up
    /\ \/ stale = {} /\ Begin(x, "request") /\ Event /\ UNCHANGED faults
       \/ stale # {} /\ Begin(x, "request") /\ Fault
       \/ BeginUnheard(x) /\ Fault
    /\ UNCHANGED <<clock, settings, up, tickVars, history>>

\* A user saves a job, perhaps with another schedule.
SaveJob(j, s) ==
    /\ up /\ Event
    /\ sched' = [sched EXCEPT ![j] = s] /\ saved' = [saved EXCEPT ![j] = 0]
    /\ served' = [served EXCEPT ![j] = 0]
    /\ fired' = [fired EXCEPT ![j] = 0] /\ rest' = [rest EXCEPT ![j] = Hour]
    /\ UNCHANGED <<clock, checkSched, since, records, up, tickVars, faults>>

\* A user saves the repository's check schedule.
SaveCheckSchedule(s) ==
    /\ up /\ Event
    /\ checkSched' = s /\ since' = 0
    /\ served' = [served EXCEPT ![Check] = 0]
    /\ UNCHANGED <<clock, sched, saved, records, up, tickVars, fired, rest, faults>>

\* The server dies, with the run it drives, whose row stays as it is.
Crash ==
    /\ up /\ Event
    /\ up' = FALSE
    /\ run' = NoRun /\ stale' = stale \cup ({run.what} \ {0}) /\ CountEnd("failed")
    /\ at' = 0 /\ stage' = "look" /\ late' = 0 /\ list' = NoList
    /\ UNCHANGED <<clock, settings, last, checked, fired, rest, faults>>

\* The server boots: before the scheduler starts, the rows that say a run is
\* active are marked interrupted, as of now; a mark may be lost.
Boot ==
    /\ ~up /\ up' = TRUE
    /\ \/ stale' = {} /\ NoFault
       \/ stale' \in (SUBSET stale) \ {{}} /\ Fault
    /\ last' = [j \in Jobs |-> IF j \in stale \ stale' THEN [end |-> "failed", ago |-> 0]
                                                       ELSE last[j]]
    /\ UNCHANGED <<clock, settings, checked, run, tickVars, history>>

Older(ago, horizon) == IF ago < horizon THEN ago + 1 ELSE horizon

\* A slot of the job's calendar passes.
SlotPasses(x) == x \in Jobs /\ IsSlot(sched[x], clock')
CheckTimePasses(x) == x = Check /\ checkSched.kind = "check" /\ IsCheckTime(clock')

\* A unit of time passes, in a tick too.
Advance ==
    /\ late' = IF at = 0 THEN late ELSE late + 1
    /\ late' <= MaxLate
    /\ clock' = IF clock = Week - 1 THEN 0 ELSE clock + 1
    /\ saved' = [j \in Jobs |-> Older(saved[j], Horizon)]
    /\ last' = [j \in Jobs |-> IF last[j].end = "never" THEN last[j]
                                ELSE [last[j] EXCEPT !.ago = Older(@, Horizon)]]
    /\ since' = Older(since, SinceHorizon)
    /\ checked' = IF checked.made THEN [checked EXCEPT !.ago = Older(@, CheckHorizon)]
                                  ELSE checked
    /\ rest' = [x \in Items |-> IF SlotPasses(x) THEN Hour ELSE Older(rest[x], Hour)]
    /\ fired' = [x \in Items |-> IF rest'[x] = Hour THEN 0 ELSE fired[x]]
    /\ served' = [x \in Items |->
          IF SlotPasses(x) \/ CheckTimePasses(x) THEN 0 ELSE served[x]]
    /\ UNCHANGED <<sched, checkSched, run, stale, up, at, stage, list, budgets>>

Tick == TickBegin \/ ListJobs \/ LookAtJob \/ TimeJob \/ TimeCheck \/ StartDue

Next ==
    \/ Tick
    \/ \E end \in {"ok", "failed"} : Finish(end)
    \/ \E x \in Items \cup {Other} : Request(x)
    \/ \E j \in Jobs, s \in Schedules \cup {Off} : SaveJob(j, s)
    \/ \E s \in CheckSchedules \cup {Off} : SaveCheckSchedule(s)
    \/ Crash \/ Boot \/ Advance

Spec == Init /\ [][Next]_vars

\* The scheduler's goroutine goes on, every run ends, and a server that went
\* down is started again. Time need not go on.
Fairness ==
    /\ WF_vars(Tick) /\ WF_vars(\E end \in {"ok", "failed"} : Finish(end)) /\ WF_vars(Boot)

FairSpec == Spec /\ Fairness

------------------------------------------------------------------------------
(* Properties.                                                              *)

Attempt == [end: {"never", "ok", "failed"}, ago: 0..Horizon]

\* Type invariant. Ages stay below their horizons and a tick within its time,
\* and between ticks nothing of a tick is left.
TypeOK ==
    /\ clock \in 0..(Week - 1)
    /\ sched \in [Jobs -> Schedules \cup {Off}] /\ saved \in [Jobs -> 0..Horizon]
    /\ last \in [Jobs -> Attempt]
    /\ checkSched \in CheckSchedules \cup {Off} /\ since \in 0..SinceHorizon
    /\ checked \in [made: BOOLEAN, ago: 0..CheckHorizon]
    /\ run \in [what: Items \cup {0, Other}, by: {"nobody", "request", "schedule", "follow"}]
    /\ (run.what = 0) = (run = NoRun)
    /\ stale \in SUBSET (Items \cup {Other})
    /\ up \in BOOLEAN /\ (~up => at = 0 /\ run = NoRun)
    /\ at \in Items \cup {0} /\ stage \in {"list", "look", "time", "start"}
    /\ late \in 0..MaxLate
    /\ at = 0 => stage = "look" /\ late = 0 /\ list = NoList
    /\ stage = "list" => at = 1
    /\ at = Check => stage # "time"
    /\ list \in [Jobs -> [sched: Schedules \cup {Off}, saved: (-MaxLate)..Horizon]]
    /\ fired \in [Items -> Nat] /\ served \in [Items -> Nat] /\ rest \in [Items -> 0..Hour]
    /\ faults \in Nat /\ events \in 0..MaxEvents /\ faults <= events

\* Missed slots catch up once (README.md), and none is served twice: since a
\* job's newest slot, save or backup that failed, was stopped or died, whoever
\* started it, its schedule led to one successful backup; since the newest time of day of
\* the check, or its save, to one check; and to one more for each statement that
\* failed. Slots missed while the server was down, manual runs that succeed,
\* edits in the midst of a tick, ticks that are late, and a run that takes the
\* repository between decision and start make no difference (tickOnce).
OncePerSlot == \A x \in Items : served[x] <= 1 + faults

\* A failed, canceled or interrupted run is not tried again at every tick
\* (retryWait; TestSchedulerDoesNotRetryStorm): two scheduled starts of a job lie
\* an hour apart, unless a slot of its calendar passes or the job is saved
\* between them, and two scheduled starts of the check always do; but for one
\* start more for each statement that failed. The exceptions are needed: a
\* backup that failed at 01:15 is tried again at 02:15, and for its slot at 02:30.
NoRetryStorm == \A x \in Items : fired[x] <= 1 + faults

IsDue(x) ==
    IF x \in Jobs THEN ~jobHasActiveBackup(x) /\ jobDue(sched[x], saved[x], last[x], 0)
    ELSE checkDue(checked, 0)

\* What is due is started in the end, or stops being due, for a busy repository
\* is tried again at the next tick (tickOnce). It may wait for ever only while
\* the schedule starts others on the repository over and over, or behind a row
\* that calls a run active which nobody drives, until the server is restarted.
DueIsServed ==
    \A x \in Items :
      <>[]IsDue(x) =>
        \/ []<>(run.by = "schedule" /\ run.what \notin {0, x})
        \/ <>[](stale # {})
==============================================================================
