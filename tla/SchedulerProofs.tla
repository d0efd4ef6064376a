--------------------------- MODULE SchedulerProofs ---------------------------
(* Proofs about Scheduler, for any number of jobs, any schedules, any unit of  *)
(* time, any length of a day and a week, and any number of requests, edits,    *)
(* failing statements and crashes.                                             *)
EXTENDS Scheduler, TLAPS

------------------------------------------------------------------------------
(* Type correctness.                                                        *)

\* What the constants' assumption says of schedules and horizons.
LEMMA ScheduleFacts ==
    /\ \A s \in Schedules \cup {Off} :
          s.kind \in {"interval", "calendar"} => s.period \in Nat /\ s.period >= Hour
    /\ \A s \in CheckSchedules \cup {Off} : s.kind = "check" => s.period \in {Day, Week}
    /\ NJobs \in Nat /\ Hour \in Nat /\ Day \in Nat /\ Week \in Nat
    /\ Hour >= 1 /\ Day - (Day \div 2) >= Hour /\ Day >= 1 /\ Week >= Day
    /\ MaxLate \in Nat /\ 2 * MaxLate <= Week /\ MaxEvents \in Nat
    /\ Horizon \in Nat /\ Horizon = Week + MaxLate
    /\ SinceHorizon \in Nat /\ SinceHorizon = Day + MaxLate /\ CheckHorizon \in Nat
<1>1. Day >= Hour /\ Week >= Day /\ Day >= 1
  BY ConstantsAssumption
<1>2. \A s \in JobSchedules : s.period \in Nat /\ s.period >= Hour
  BY <1>1, ConstantsAssumption DEF JobSchedules
<1>3. \A s \in CheckKinds : s.period \in {Day, Week}
  BY DEF CheckKinds
<1>4. Off.kind = "off"
  BY DEF Off
<1>5. \A s \in Schedules \cup {Off} :
         s.kind \in {"interval", "calendar"} => s.period \in Nat /\ s.period >= Hour
  BY <1>2, <1>4, ConstantsAssumption
<1>6. \A s \in CheckSchedules \cup {Off} : s.kind = "check" => s.period \in {Day, Week}
  BY <1>3, <1>4, ConstantsAssumption
<1> QED BY <1>1, <1>5, <1>6, ConstantsAssumption DEF Horizon, SinceHorizon, CheckHorizon

\* An age that grows stays below its horizon.
LEMMA OlderFacts ==
    ASSUME NEW h \in Nat, NEW a \in 0..h
    PROVE  /\ Older(a, h) \in 0..h /\ Older(a, h) <= a + 1
           /\ Older(a, h) # h => Older(a, h) = a + 1 /\ a < h
BY DEF Older

ListEntry == [sched: Schedules \cup {Off}, saved: (-MaxLate)..Horizon]
AnyRun == [what: Items \cup {0, Other}, by: {"nobody", "request", "schedule", "follow"}]

\* What a tick lists is well typed.
LEMMA ListedType ==
    ASSUME TypeOK
    PROVE  Listed \in [Jobs -> ListEntry] /\ NoList \in [Jobs -> ListEntry]
<1>1. 0 \in (-MaxLate)..Horizon
  BY ScheduleFacts
<1>2. NoList \in [Jobs -> ListEntry]
  BY <1>1 DEF NoList, ListEntry
<1>3. ASSUME NEW j \in Jobs PROVE saved[j] - late \in (-MaxLate)..Horizon
  BY ScheduleFacts DEF TypeOK
<1> QED BY <1>2, <1>3 DEF TypeOK, Listed, ListEntry

\* The parts of the repository's items.
LEMMA ItemFacts ==
    /\ \A j \in Jobs : j \in Items /\ j # 0 /\ j # Check /\ j # Other
    /\ Check \in Items /\ Check # 0 /\ Check \notin Jobs /\ Check # Other /\ Other # 0
    /\ 1 \in Items /\ (\A x \in Items : x # 0 /\ x # Other /\ (x \in Jobs \/ x = Check))
BY ScheduleFacts DEF Jobs, Items, Check, Other

\* The initial state is well typed.
LEMMA InitTyped == Init => TypeOK
<1> SUFFICES ASSUME Init PROVE TypeOK
  OBVIOUS
<1>1. list \in [Jobs -> ListEntry]
  <2>1. 0 \in (-MaxLate)..Horizon
    BY ScheduleFacts
  <2> QED BY <2>1 DEF Init, NoList, ListEntry
<1>2. last \in [Jobs -> Attempt]
  BY ScheduleFacts DEF Init, NeverRun, Attempt
<1>3. checked \in [made: BOOLEAN, ago: 0..CheckHorizon]
  BY ScheduleFacts DEF Init, NeverChecked
<1>4. run \in AnyRun /\ run = NoRun /\ run.what = 0
  BY DEF Init, NoRun, AnyRun
<1>5. /\ saved \in [Jobs -> 0..Horizon] /\ fired \in [Items -> Nat] /\ served \in [Items -> Nat]
      /\ rest \in [Items -> 0..Hour]
  BY ScheduleFacts DEF Init
<1>6. /\ at \in Items \cup {0} /\ at = 0 /\ at # Check /\ late \in 0..MaxLate /\ late = 0
      /\ stage = "look" /\ stage \in {"list", "look", "time", "start"} /\ list = NoList
  BY ScheduleFacts, ItemFacts DEF Init
<1>7. /\ clock \in 0..(Week - 1) /\ since \in 0..SinceHorizon
      /\ sched \in [Jobs -> Schedules \cup {Off}]
      /\ checkSched \in CheckSchedules \cup {Off}
      /\ up \in BOOLEAN /\ up /\ stale = {}
      /\ faults \in Nat /\ events \in 0..MaxEvents /\ faults <= events
  <2>1. 0 \in 0..SinceHorizon /\ 0 \in 0..MaxEvents /\ 0 \in Nat /\ 0 <= 0
    BY ScheduleFacts
  <2> QED BY <2>1 DEF Init
<1> QED BY <1>1, <1>2, <1>3, <1>4, <1>5, <1>6, <1>7 DEF TypeOK, ListEntry, AnyRun

\* What TypeOK says of the tick, once more.
TickOK ==
    /\ at \in Items \cup {0} /\ stage \in {"list", "look", "time", "start"}
    /\ late \in 0..MaxLate
    /\ at = 0 => stage = "look" /\ late = 0 /\ list = NoList
    /\ stage = "list" => at = 1
    /\ at = Check => stage # "time"
    /\ list \in [Jobs -> ListEntry]

\* Where the tick goes is in range, and between ticks nothing of it is left.
LEMMA TickStepTyped ==
    ASSUME TypeOK, at # 0,
           Onward \/ (\E s \in {"time", "start"} : Stay(s) /\ (at = Check => s # "time"))
    PROVE  TickOK'
<1>0. Check' = Check /\ NoList' = NoList /\ at \in Items /\ ListEntry' = ListEntry
  BY DEF TypeOK, Check, NoList, ListEntry
<1>1. CASE Onward
  <2>1. at' \in Items \cup {0} /\ (at' = 0 <=> at = Check)
    BY <1>0, <1>1, ScheduleFacts DEF Onward, Check, Items
  <2>2. late' \in 0..MaxLate /\ list' \in [Jobs -> ListEntry]
    <3>1. 0 \in 0..MaxLate
      BY ScheduleFacts
    <3> QED BY <1>1, <3>1, ListedType DEF TypeOK, Onward, ListEntry
  <2>3. stage' = "look" /\ (at = Check => list' = NoList /\ late' = 0)
    BY <1>1 DEF Onward
  <2> QED BY <1>0, <2>1, <2>2, <2>3 DEF TickOK, Items
<1>2. CASE \E s \in {"time", "start"} : Stay(s) /\ (at = Check => s # "time")
  BY <1>0, <1>2 DEF TypeOK, Stay, TickOK, ListEntry
<1> QED BY <1>1, <1>2

\* A step fails at most one statement.
LEMMA BudgetTyped ==
    ASSUME TypeOK, NoFault \/ Fault \/ (Event /\ UNCHANGED faults)
    PROVE  faults' \in Nat /\ events' \in 0..MaxEvents /\ faults' <= events' /\ faults <= faults'
           /\ faults' \in {faults, faults + 1}
BY ScheduleFacts DEF TypeOK, NoFault, Fault, Event, budgets

\* What the steps of a tick other than a start leave alone.
LookOnly ==
    /\ UNCHANGED <<clock, settings, records, up, history>>
    /\ at # 0 /\ up
    /\ NoFault \/ Fault
    /\ Onward \/ (\E s \in {"time", "start"} : Stay(s) /\ (at = Check => s # "time"))

\* The steps that look at an item and read its records do only that.
LEMMA LooksOnly == TypeOK /\ (LookAtJob \/ TimeJob \/ TimeCheck) => LookOnly
<1> SUFFICES ASSUME TypeOK, LookAtJob \/ TimeJob \/ TimeCheck PROVE LookOnly
  OBVIOUS
<1>0. Check \notin Jobs /\ 0 \notin Jobs /\ Check # 0
  BY ItemFacts
<1>1. CASE LookAtJob
  BY <1>0, <1>1 DEF LookAtJob, LookOnly
<1>2. CASE TimeJob
  BY <1>0, <1>2 DEF TimeJob, LookOnly, Decide
<1>3. CASE TimeCheck
  BY <1>0, <1>3 DEF TimeCheck, LookOnly, Decide
<1> QED BY <1>1, <1>2, <1>3

\* Looking keeps the types.
LEMMA LookTyped == TypeOK /\ LookOnly => TypeOK'
<1> SUFFICES ASSUME TypeOK, LookOnly PROVE TypeOK'
  OBVIOUS
<1>1. TickOK'
  BY TickStepTyped DEF LookOnly
<1>2. faults' \in Nat /\ events' \in 0..MaxEvents /\ faults' <= events'
  BY BudgetTyped DEF LookOnly
<1> QED BY <1>1, <1>2 DEF LookOnly, TypeOK, TickOK, ListEntry, settings, records, history

\* Taking the time, and listing the jobs, keep the types.
LEMMA ListTyped == TypeOK /\ (TickBegin \/ ListJobs) => TypeOK'
<1> SUFFICES ASSUME TypeOK, TickBegin \/ ListJobs PROVE TypeOK'
  OBVIOUS
<1>1. CASE TickBegin
  BY <1>1, ItemFacts DEF TickBegin, TypeOK, settings, records, history, budgets
<1>2. CASE ListJobs
  <2>1. list' \in [Jobs -> ListEntry]
    BY <1>2, ListedType DEF ListJobs
  <2>2. faults' \in Nat /\ events' \in 0..MaxEvents /\ faults' <= events'
    BY <1>2, BudgetTyped DEF ListJobs
  <2>3. at = 1 /\ at' = at /\ stage' = "look"
    BY <1>2 DEF ListJobs, TypeOK
  <2> QED BY <1>2, <2>1, <2>2, <2>3 DEF ListJobs, TypeOK, ListEntry, settings, records, history
<1> QED BY <1>1, <1>2

\* What TypeOK says of the runs and their rows, once more.
RunsOK ==
    /\ last \in [Jobs -> Attempt]
    /\ checked \in [made: BOOLEAN, ago: 0..CheckHorizon]
    /\ run \in AnyRun /\ (run.what = 0) = (run = NoRun)
    /\ stale \in SUBSET (Items \cup {Other})

\* What a run's row makes of the newest check.
LEMMA NoteTyped ==
    ASSUME TypeOK, NEW x, NoteCheck(x)
    PROVE  checked' \in [made: BOOLEAN, ago: 0..CheckHorizon]
<1>1. 0 \in 0..CheckHorizon
  BY ScheduleFacts
<1> QED BY <1>1 DEF NoteCheck, TypeOK

\* What Begin and BeginUnheard make of the runs and of the newest check.
LEMMA BeginTyped ==
    ASSUME TypeOK, NEW x \in Items \cup {Other}, NEW by \in {"request", "schedule"},
           Begin(x, by) \/ BeginUnheard(x)
    PROVE  /\ RunsOK'
           /\ last' = last
           /\ checked' = IF x = Check THEN [made |-> TRUE, ago |-> 0] ELSE checked
           /\ run = NoRun /\ run.what = 0
           /\ Begin(x, by) => run'.what = x /\ run'.by = by /\ stale' = stale
           /\ BeginUnheard(x) => run' = run /\ stale' = {x} /\ stale = {}
<1>1. x # 0 /\ NoRun' = NoRun
  BY ItemFacts DEF NoRun
<1>2. checked' \in [made: BOOLEAN, ago: 0..CheckHorizon]
  BY NoteTyped DEF Begin, BeginUnheard
<1>3. CASE Begin(x, by)
  <2>1. run' = [what |-> x, by |-> by] /\ run = NoRun /\ last' = last /\ stale' = stale
    BY <1>3 DEF Begin, Run
  <2>2. run' \in AnyRun /\ run' # NoRun /\ run'.what # 0
    BY <1>1, <2>1 DEF AnyRun, NoRun
  <2> QED BY <1>1, <1>2, <1>3, <2>1, <2>2, ScheduleFacts
          DEF Begin, NoteCheck, BeginUnheard, RunsOK, TypeOK, Attempt, NoRun
<1>4. CASE BeginUnheard(x)
  BY <1>1, <1>2, <1>4 DEF Begin, NoteCheck, BeginUnheard, RunsOK, TypeOK, AnyRun, NoRun, Run
<1> QED BY <1>3, <1>4

\* Starting what is due, or being refused, keeps the types.
LEMMA StartTyped == TypeOK /\ StartDue => TypeOK'
<1> SUFFICES ASSUME TypeOK, StartDue PROVE TypeOK'
  OBVIOUS
<1>1. TickOK'
  BY TickStepTyped DEF StartDue
<1>2. faults' \in Nat /\ events' \in 0..MaxEvents /\ faults' <= events'
  BY BudgetTyped DEF StartDue
<1>3. at \in Items /\ up
  BY DEF StartDue, TypeOK
<1>4. CASE BeginDue
  <2>1. RunsOK'
    BY <1>3, <1>4, BeginTyped DEF BeginDue
  <2>2. fired' \in [Items -> Nat] /\ served' \in [Items -> Nat] /\ rest' \in [Items -> 0..Hour]
    <3>1. 0 \in 0..Hour
      BY ScheduleFacts
    <3> QED BY <1>3, <1>4, <3>1 DEF BeginDue, TypeOK
  <2> QED BY <1>1, <1>2, <1>3, <2>1, <2>2
          DEF StartDue, TypeOK, TickOK, RunsOK, ListEntry, AnyRun, settings
<1>5. CASE UNCHANGED <<records, history>>
  BY <1>1, <1>2, <1>3, <1>5
  DEF StartDue, TypeOK, TickOK, ListEntry, settings, records, history
<1>6. CASE BeginUnheard(at) /\ UNCHANGED history
  <2>1. RunsOK'
    BY <1>3, <1>6, BeginTyped
  <2> QED BY <1>1, <1>2, <1>3, <1>6, <2>1
          DEF StartDue, TypeOK, TickOK, RunsOK, ListEntry, AnyRun, settings, history
<1> QED BY <1>4, <1>5, <1>6 DEF StartDue

\* How a run's end changes the newest attempt, the counts and who has the
\* repository.
LEMMA EndTyped ==
    ASSUME TypeOK, NEW end \in {"ok", "failed"}, Finish(end)
    PROVE  RunsOK' /\ served' \in [Items -> Nat]
<1>1. [end |-> end, ago |-> 0] \in Attempt
  BY ScheduleFacts DEF Attempt
<1>2. last' \in [Jobs -> Attempt]
  BY <1>1 DEF Finish, Ended, TypeOK
<1>3. served' \in [Items -> Nat]
  BY ItemFacts DEF Finish, CountEnd, TypeOK
<1>4. run' = NoRun \/ run' = Run(Other, "follow")
  BY DEF Finish, HandOver, HandOverAmiss
<1>5. run' \in AnyRun /\ (run'.what = 0) = (run' = NoRun)
  BY <1>4, ItemFacts DEF Run, NoRun, AnyRun
<1>6. stale' \in SUBSET (Items \cup {Other})
  <2>1. run.what \in Items \cup {Other}
    BY DEF Finish, TypeOK
  <2> QED BY <2>1 DEF Finish, HandOver, HandOverAmiss, TypeOK
<1>7. Attempt' = Attempt /\ AnyRun' = AnyRun /\ NoRun' = NoRun
  BY DEF Attempt, AnyRun, NoRun
<1> QED BY <1>2, <1>3, <1>5, <1>6, <1>7 DEF RunsOK, Finish, TypeOK

\* The end of a run keeps the types.
LEMMA FinishTyped == ASSUME TypeOK, NEW end \in {"ok", "failed"}, Finish(end) PROVE TypeOK'
<1>1. RunsOK' /\ served' \in [Items -> Nat]
  BY EndTyped
<1>2. faults' \in Nat /\ events' \in 0..MaxEvents /\ faults' <= events'
  BY BudgetTyped DEF Finish
<1> QED BY <1>1, <1>2 DEF Finish, TypeOK, RunsOK, AnyRun, settings, tickVars

\* A run that a user starts keeps the types.
LEMMA RequestTyped == ASSUME TypeOK, NEW x \in Items \cup {Other}, Request(x) PROVE TypeOK'
<1>1. RunsOK'
  BY BeginTyped DEF Request
<1>2. faults' \in Nat /\ events' \in 0..MaxEvents /\ faults' <= events'
  BY BudgetTyped DEF Request
<1> QED BY <1>1, <1>2 DEF Request, TypeOK, RunsOK, AnyRun, settings, tickVars, history

\* Saving a job keeps the types.
LEMMA SaveJobTyped ==
    ASSUME TypeOK, NEW j \in Jobs, NEW s \in Schedules \cup {Off}, SaveJob(j, s) PROVE TypeOK'
<1>1. faults' \in Nat /\ events' \in 0..MaxEvents /\ faults' <= events'
  BY BudgetTyped DEF SaveJob
<1>2. /\ sched' \in [Jobs -> Schedules \cup {Off}] /\ saved' \in [Jobs -> 0..Horizon]
      /\ served' \in [Items -> Nat] /\ fired' \in [Items -> Nat] /\ rest' \in [Items -> 0..Hour]
  <2>1. 0 \in 0..Horizon /\ 0 \in Nat /\ Hour \in 0..Hour
    BY ScheduleFacts
  <2> QED BY <2>1 DEF SaveJob, TypeOK
<1> QED BY <1>1, <1>2 DEF SaveJob, TypeOK, records, tickVars

\* Saving the check schedule keeps the types.
LEMMA SaveCheckTyped ==
    ASSUME TypeOK, NEW s \in CheckSchedules \cup {Off}, SaveCheckSchedule(s) PROVE TypeOK'
<1>1. faults' \in Nat /\ events' \in 0..MaxEvents /\ faults' <= events'
  BY BudgetTyped DEF SaveCheckSchedule
<1>2. /\ since' \in 0..SinceHorizon /\ served' \in [Items -> Nat]
      /\ checkSched' \in CheckSchedules \cup {Off}
  <2>1. 0 \in 0..SinceHorizon /\ 0 \in Nat
    BY ScheduleFacts
  <2> QED BY <2>1 DEF SaveCheckSchedule, TypeOK
<1> QED BY <1>1, <1>2 DEF SaveCheckSchedule, TypeOK, records, tickVars

\* A crash keeps the types.
LEMMA CrashTyped == TypeOK /\ Crash => TypeOK'
<1> SUFFICES ASSUME TypeOK, Crash PROVE TypeOK'
  OBVIOUS
<1>1. faults' \in Nat /\ events' \in 0..MaxEvents /\ faults' <= events'
  BY BudgetTyped DEF Crash
<1>2. list' \in [Jobs -> ListEntry] /\ late' \in 0..MaxLate
  BY ListedType, ScheduleFacts DEF Crash
<1>3. at' = 0 /\ Check # 0 /\ run' = NoRun /\ run' \in AnyRun /\ run'.what = 0
  BY ItemFacts DEF Crash, NoRun, AnyRun
<1>4. stale' \in SUBSET (Items \cup {Other}) /\ served' \in [Items -> Nat]
  BY ItemFacts DEF Crash, CountEnd, TypeOK
<1> QED BY <1>1, <1>2, <1>3, <1>4 DEF Crash, TypeOK, ListEntry, AnyRun, settings

\* A boot keeps the types.
LEMMA BootTyped == TypeOK /\ Boot => TypeOK'
<1> SUFFICES ASSUME TypeOK, Boot PROVE TypeOK'
  OBVIOUS
<1>1. last' \in [Jobs -> Attempt]
  BY ScheduleFacts DEF Boot, TypeOK, Attempt
<1>2. stale' \in SUBSET (Items \cup {Other})
  BY DEF Boot, TypeOK
<1>3. faults' \in Nat /\ events' \in 0..MaxEvents /\ faults' <= events'
  BY BudgetTyped DEF Boot
<1> QED BY <1>1, <1>2, <1>3 DEF Boot, TypeOK, settings, tickVars, history

\* How the ages change with time.
LEMMA AgesTyped ==
    ASSUME TypeOK, Advance
    PROVE  /\ saved' \in [Jobs -> 0..Horizon] /\ since' \in 0..SinceHorizon
           /\ last' \in [Jobs -> Attempt] /\ checked' \in [made: BOOLEAN, ago: 0..CheckHorizon]
           /\ rest' \in [Items -> 0..Hour]
<1>1. saved' \in [Jobs -> 0..Horizon] /\ since' \in 0..SinceHorizon
  BY OlderFacts, ScheduleFacts DEF Advance, TypeOK
<1>2. last' \in [Jobs -> Attempt]
  <2> SUFFICES ASSUME NEW j \in Jobs
               PROVE  (IF last[j].end = "never" THEN last[j]
                       ELSE [last[j] EXCEPT !.ago = Older(@, Horizon)]) \in Attempt
    BY DEF Advance
  <2>1. last[j] \in Attempt /\ last[j].ago \in 0..Horizon
    BY DEF TypeOK, Attempt
  <2>2. Older(last[j].ago, Horizon) \in 0..Horizon
    BY <2>1, OlderFacts, ScheduleFacts
  <2> QED BY <2>1, <2>2 DEF Attempt
<1>3. checked' \in [made: BOOLEAN, ago: 0..CheckHorizon]
  <2>1. Older(checked.ago, CheckHorizon) \in 0..CheckHorizon
    BY OlderFacts, ScheduleFacts DEF TypeOK
  <2> QED BY <2>1 DEF Advance, TypeOK
<1>4. rest' \in [Items -> 0..Hour]
  <2>1. Hour \in 0..Hour /\ \A x \in Items : Older(rest[x], Hour) \in 0..Hour
    BY OlderFacts, ScheduleFacts DEF TypeOK
  <2> QED BY <2>1 DEF Advance
<1> QED BY <1>1, <1>2, <1>3, <1>4

\* Time that passes keeps the types.
LEMMA AdvanceTyped == TypeOK /\ Advance => TypeOK'
<1> SUFFICES ASSUME TypeOK, Advance PROVE TypeOK'
  OBVIOUS
<1>1. late' \in 0..MaxLate /\ (at = 0 => late' = 0)
  BY ScheduleFacts DEF Advance, TypeOK
<1>2. fired' \in [Items -> Nat] /\ served' \in [Items -> Nat]
  BY DEF Advance, TypeOK
<1>3. clock' \in 0..(Week - 1)
  <2>1. clock' = IF clock = Week - 1 THEN 0 ELSE clock + 1
    BY DEF Advance
  <2>2. clock \in 0..(Week - 1)
    BY DEF TypeOK
  <2> QED BY <2>1, <2>2, ScheduleFacts
<1> QED BY <1>1, <1>2, <1>3, AgesTyped DEF Advance, TypeOK, Attempt, budgets

\* Every step keeps the types.
LEMMA NextTyped == TypeOK /\ [Next]_vars => TypeOK'
<1> SUFFICES ASSUME TypeOK, [Next]_vars PROVE TypeOK'
  OBVIOUS
<1>1. CASE TickBegin \/ ListJobs BY <1>1, ListTyped
<1>2. CASE LookAtJob \/ TimeJob \/ TimeCheck BY <1>2, LooksOnly, LookTyped
<1>3. CASE StartDue BY <1>3, StartTyped
<1>4. CASE \E end \in {"ok", "failed"} : Finish(end) BY <1>4, FinishTyped
<1>5. CASE \E x \in Items \cup {Other} : Request(x) BY <1>5, RequestTyped
<1>6. CASE \E j \in Jobs, s \in Schedules \cup {Off} : SaveJob(j, s) BY <1>6, SaveJobTyped
<1>7. CASE \E s \in CheckSchedules \cup {Off} : SaveCheckSchedule(s) BY <1>7, SaveCheckTyped
<1>8. CASE Crash BY <1>8, CrashTyped
<1>9. CASE Boot BY <1>9, BootTyped
<1>10. CASE Advance BY <1>10, AdvanceTyped
<1>11. CASE UNCHANGED vars
  BY <1>11 DEF vars, settings, records, tickVars, history, budgets, TypeOK
<1> QED BY <1>1, <1>2, <1>3, <1>4, <1>5, <1>6, <1>7, <1>8, <1>9, <1>10, <1>11 DEF Next, Tick

\* Every reachable state is well typed: ages stay within their horizons and a
\* tick within its time, no trace of a tick is left between ticks, and a server
\* that is down drives no run.
THEOREM TypeCorrect == Spec => []TypeOK
<1>1. Init => TypeOK
  BY InitTyped
<1>2. TypeOK /\ [Next]_vars => TypeOK'
  BY NextTyped
<1> QED BY <1>1, <1>2, PTL DEF Spec

------------------------------------------------------------------------------
(* What is started, and how often.                                          *)

\* The schedule's own backup of a job is under way.
Scheduled(j) == run.what = j /\ run.by = "schedule"

\* The tick finds the job due, by what it has listed of it.
ListDue(j) == jobDue(list[j].sched, list[j].saved, last[j], -late)

\* No slot of the job's calendar has passed since its last attempt.
SlotIsServed(j) == ~FiredAfter(sched[j], -last[j].ago, 0)

\* The successes a job's schedule has led to since its newest slot: none to
\* spare unless its last attempt succeeded and no slot came since, nor while
\* another is decided or under way or a row calls one active.
SlotOK(j) ==
    /\ served[j] <= 1 + faults
    /\ sched[j].kind # "calendar" => served[j] = 0
    /\ last[j].end # "ok" \/ ~SlotIsServed(j) => served[j] <= faults
    /\ j \in stale \/ Scheduled(j) => served[j] <= faults
    /\ j \in stale /\ Scheduled(j) => served[j] + 1 <= faults
    /\ at # 0 /\ ListDue(j) => served[j] <= faults
    /\ at = j /\ stage = "time" /\ Scheduled(j) => served[j] + 1 <= faults
    /\ at = j /\ stage = "start" => served[j] + (IF Scheduled(j) THEN 1 ELSE 0) <= faults

\* The last attempt ended after the last scheduled start of less than an hour
\* ago, and gives no reason for another.
Settled(j) ==
    /\ last[j].end # "never" /\ last[j].ago <= rest[j] /\ SlotIsServed(j)
    /\ at # 0 => ~ListDue(j)

\* The scheduled starts of a job that crowd: none to spare unless the newest is
\* under way, or called so by a row, or settled; nor once another is decided.
StartsOK(j) ==
    /\ fired[j] <= 1 + faults
    /\ fired[j] > faults => rest[j] < Hour /\ (run.what = j \/ j \in stale \/ Settled(j))
    /\ at = j /\ stage = "time" /\ ListDue(j) => fired[j] <= faults
    /\ at = j /\ stage = "start" => fired[j] <= faults

\* The same of the check, whose start is what counts.
CheckOK ==
    /\ served[Check] <= 1 + faults /\ fired[Check] <= 1 + faults
    /\ checkDue(checked, 0) => served[Check] <= faults
    /\ ~checked.made => served[Check] = 0
    /\ fired[Check] > faults =>
          rest[Check] < Hour /\ checked.made /\ checked.ago <= rest[Check]
    /\ at = Check /\ stage = "start" => served[Check] <= faults /\ fired[Check] <= faults

CountsOK ==
    /\ \A j \in Jobs : SlotOK(j)
    /\ \A j \in Jobs : StartsOK(j)
    /\ CheckOK

IInv == TypeOK /\ CountsOK

\* What the parts of the state are, for one job.
LEMMA JobFacts ==
    ASSUME TypeOK, NEW j \in Jobs
    PROVE  /\ last[j] \in Attempt /\ last[j].ago \in 0..Horizon
           /\ last[j].end \in {"never", "ok", "failed"}
           /\ sched[j] \in Schedules \cup {Off}
           /\ list[j].sched \in Schedules \cup {Off} /\ list[j].saved \in (-MaxLate)..Horizon
           /\ saved[j] \in 0..Horizon /\ late \in 0..MaxLate
           /\ served[j] \in Nat /\ fired[j] \in Nat /\ faults \in Nat
           /\ rest[j] \in 0..Hour
           /\ j \in Items /\ j # 0 /\ j # Check /\ j # Other
<1>1. j \in Items /\ j # 0 /\ j # Check /\ j # Other
  BY ItemFacts
<1> QED BY <1>1 DEF TypeOK, Attempt

\* What the parts of the state are, for the check.
LEMMA CheckFacts ==
    ASSUME TypeOK
    PROVE  /\ served[Check] \in Nat /\ fired[Check] \in Nat /\ faults \in Nat
           /\ rest[Check] \in 0..Hour
           /\ Check \in Items /\ Check # 0 /\ Check \notin Jobs /\ Check # Other
           /\ checked \in [made: BOOLEAN, ago: 0..CheckHorizon]
           /\ checked.made \in BOOLEAN /\ checked.ago \in 0..CheckHorizon
           /\ since \in 0..SinceHorizon
           /\ checkSched.kind = "check" => checkSched.period \in {Day, Week}
BY ItemFacts, ScheduleFacts DEF TypeOK

\* A slot after the last attempt and before t is one before now.
LEMMA FiredBeforeNow ==
    ASSUME NEW s, NEW a \in Int, NEW t \in Int, t <= 0, FiredAfter(s, a, t)
    PROVE  FiredAfter(s, a, 0)
BY DEF FiredAfter

\* A job whose last attempt lies less than an hour before t is due at t only for
\* a slot since.
LEMMA RestedOrSlot ==
    ASSUME NEW s \in Schedules \cup {Off}, NEW n, NEW attempt, NEW t \in Int, t <= 0,
           attempt.end \in {"ok", "failed"}, attempt.ago \in Nat, attempt.ago < Hour,
           jobDue(s, n, attempt, t)
    PROVE  FiredAfter(s, -attempt.ago, t)
<1>1. s.kind \in {"interval", "calendar"} => s.period \in Nat /\ s.period >= Hour
  BY ScheduleFacts
<1>2. s.kind \in {"interval", "calendar"} => retryWait(s.period) = Hour
  BY <1>1, ScheduleFacts DEF retryWait
<1>3. attempt.end # "never" /\ attempt.ago + t < Hour
  BY ScheduleFacts
<1>4. CASE s.kind = "interval"
  <2>1. ~(attempt.ago + t >= s.period) /\ ~(attempt.ago + t >= retryWait(s.period))
    BY <1>1, <1>2, <1>3, <1>4, ScheduleFacts
  <2> QED BY <2>1, <1>3, <1>4 DEF jobDue
<1>5. CASE s.kind = "calendar"
  <2>1. ~(attempt.ago + t >= retryWait(s.period))
    BY <1>2, <1>3, <1>5, ScheduleFacts
  <2> QED BY <2>1, <1>3, <1>5 DEF jobDue
<1> QED BY <1>4, <1>5 DEF jobDue

\* No schedule makes a job due that has just had an attempt.
LEMMA FreshIsNotDue ==
    ASSUME NEW s \in Schedules \cup {Off}, NEW n, NEW attempt, NEW t \in Int, t <= 0,
           attempt.end \in {"ok", "failed"}, attempt.ago = 0
    PROVE  ~jobDue(s, n, attempt, t) /\ ~FiredAfter(s, -attempt.ago, 0)
<1>1. ~FiredAfter(s, -attempt.ago, 0)
  BY DEF FiredAfter
<1>2. ~FiredAfter(s, -attempt.ago, t)
  BY DEF FiredAfter
<1>3. attempt.ago \in Nat /\ attempt.ago < Hour
  BY ScheduleFacts
<1>4. jobDue(s, n, attempt, t) => FiredAfter(s, -attempt.ago, t)
  BY <1>3, RestedOrSlot
<1> QED BY <1>1, <1>2, <1>4

\* A check that is due was not started within the last hour.
LEMMA CheckIsRested ==
    ASSUME TypeOK, NEW check, check.made, check.ago \in Nat, NEW t \in Int, t <= 0,
           checkDue(check, t)
    PROVE  check.ago >= Hour
<1>1. checkSched.period \in {Day, Week} /\ since \in 0..SinceHorizon
  BY CheckFacts DEF checkDue
<1>2. checkSched.period - (Day \div 2) >= Hour /\ checkSched.period \in Nat /\ Day \div 2 \in Nat
  BY <1>1, ScheduleFacts
<1>3. CheckFrom(check) \in Int /\ CheckFrom(check) >= checkSched.period - (Day \div 2) - check.ago
  BY <1>1, <1>2, ScheduleFacts DEF CheckFrom
<1>4. CheckFrom(check) <= t
  BY <1>3 DEF checkDue
<1> QED BY <1>2, <1>3, <1>4, ScheduleFacts

\* A check that is due at t is due now.
LEMMA CheckDueNow ==
    ASSUME TypeOK, checkDue(checked, -late) PROVE checkDue(checked, 0)
<1>1. late \in Nat
  BY ScheduleFacts DEF TypeOK
<1>2. CheckFrom(checked) \in Int
  BY CheckFacts, ScheduleFacts DEF checkDue, CheckFrom
<1>3. CheckFrom(checked)..(-late) \subseteq CheckFrom(checked)..0
  BY <1>1, <1>2
<1> QED BY <1>3 DEF checkDue

\* A schedule that is off makes nothing due.
LEMMA OffIsNotDue == \A n, attempt, t : ~jobDue(Off, n, attempt, t)
BY DEF jobDue, Off

\* The counts of the initial state.
LEMMA InitCounts == Init => CountsOK
<1> SUFFICES ASSUME Init PROVE CountsOK
  OBVIOUS
<1>1. TypeOK
  BY InitTyped
<1>2. /\ \A x \in Items : fired[x] = 0 /\ served[x] = 0
      /\ faults = 0 /\ at = 0 /\ Check \in Items /\ Check # 0 /\ stale = {}
  BY CheckFacts, <1>1 DEF Init
<1>3. ASSUME NEW j \in Jobs PROVE SlotOK(j) /\ StartsOK(j)
  <2>1. run.what = 0 /\ j # 0 /\ j \in Items
    BY <1>1, JobFacts DEF Init, NoRun
  <2> QED BY <1>2, <2>1 DEF SlotOK, StartsOK, Scheduled
<1>4. CheckOK
  BY <1>2 DEF CheckOK
<1> QED BY <1>3, <1>4 DEF CountsOK

------------------------------------------------------------------------------
(* Each action keeps the counts.                                            *)

\* A step that leaves a job's schedule, attempts, row and counts alone.
SameFor(j) ==
    /\ clock' = clock /\ sched'[j] = sched[j] /\ last'[j] = last[j]
    /\ served'[j] = served[j] /\ fired'[j] = fired[j] /\ rest'[j] = rest[j]
    /\ faults' \in {faults, faults + 1}

\* At the same time the same is due.
LEMMA SameTime ==
    ASSUME clock' = clock, NEW j
    PROVE  /\ SlotIsServed(j)' <=> ~FiredAfter(sched'[j], -last'[j].ago, 0)
           /\ ListDue(j)' <=> jobDue(list'[j].sched, list'[j].saved, last'[j], -late')
<1>1. \A d : TimeAt(d)' = TimeAt(d)
  BY DEF TimeAt
<1> QED BY <1>1 DEF FiredAfter, FiredSince, ListDue, jobDue, SlotIsServed

\* A step that also lets the tick find no more due than before, and decides
\* nothing about the job.
KeepsFor(j) ==
    /\ SameFor(j)
    /\ at' # 0 /\ ListDue(j)' => at # 0 /\ ListDue(j)
    /\ at' = j /\ stage' \in {"time", "start"} => at = j /\ stage = stage'

\* A step that leaves the tick alone is one, if it leaves the job alone.
LEMMA OutsideTick ==
    ASSUME NEW j, SameFor(j), UNCHANGED tickVars PROVE KeepsFor(j)
BY SameTime DEF SameFor, KeepsFor, tickVars, ListDue

\* What a step leaves alone it keeps: the successes of a job,
LEMMA SlotFrame ==
    ASSUME TypeOK, NEW j \in Jobs, SlotOK(j), KeepsFor(j),
           Scheduled(j)' => Scheduled(j), j \in stale' => j \in stale
    PROVE  SlotOK(j)'
<1>1. SlotIsServed(j)' <=> SlotIsServed(j)
  BY SameTime DEF KeepsFor, SameFor, SlotIsServed
<1>2. served[j] \in Nat /\ faults \in Nat /\ j # 0
  BY JobFacts
<1> QED BY <1>1, <1>2 DEF SlotOK, SameFor, KeepsFor

\* the starts of a job,
LEMMA StartsFrame ==
    ASSUME TypeOK, NEW j \in Jobs, StartsOK(j), KeepsFor(j),
           run.what = j \/ j \in stale => run'.what = j \/ j \in stale'
    PROVE  StartsOK(j)'
<1>1. SlotIsServed(j)' <=> SlotIsServed(j)
  BY SameTime DEF KeepsFor, SameFor, SlotIsServed
<1>2. fired[j] \in Nat /\ faults \in Nat /\ rest[j] \in 0..Hour
  BY JobFacts
<1>3. Settled(j) => Settled(j)'
  BY <1>1 DEF Settled, KeepsFor, SameFor
<1>4. /\ fired'[j] = fired[j] /\ rest'[j] = rest[j] /\ faults' \in {faults, faults + 1}
      /\ at' = j /\ stage' \in {"time", "start"} => at = j /\ stage = stage'
      /\ at' # 0 /\ ListDue(j)' => ListDue(j)
  BY DEF SameFor, KeepsFor
<1>5. fired'[j] > faults' => fired[j] > faults
  BY <1>2, <1>4
<1>6. j # 0
  BY JobFacts
<1> QED BY <1>2, <1>3, <1>4, <1>5, <1>6 DEF StartsOK

\* and the counts of the check.
LEMMA CheckFrame ==
    ASSUME TypeOK, CheckOK, clock' = clock, UNCHANGED <<checkSched, since, checked>>,
           served'[Check] = served[Check], fired'[Check] = fired[Check],
           rest'[Check] = rest[Check], faults' \in {faults, faults + 1},
           at' = Check /\ stage' = "start" => at = Check /\ stage = "start"
    PROVE  CheckOK'
<1>1. checkDue(checked, 0)' => checkDue(checked, 0)
  BY DEF checkDue, CheckFrom, TimeAt, IsCheckTime
<1>2. served[Check] \in Nat /\ fired[Check] \in Nat /\ faults \in Nat /\ Check' = Check
  BY CheckFacts DEF Check
<1> QED BY <1>1, <1>2 DEF CheckOK

\* A step of the tick that goes on or stays keeps what it has listed.
LEMMA TickKeepsList ==
    ASSUME TypeOK, at # 0, clock' = clock, NEW j, last'[j] = last[j],
           Onward \/ (\E s \in {"time", "start"} : Stay(s))
    PROVE  at' # 0 /\ ListDue(j)' => ListDue(j)
<1>1. CASE at' = 0
  BY <1>1
<1>2. CASE UNCHANGED <<late, list>>
  BY <1>2, SameTime DEF ListDue
<1> QED BY <1>1, <1>2 DEF Onward, Stay

\* Looking at a job and reading its records.
LEMMA LookCounts ==
    ASSUME TypeOK, LookAtJob \/ TimeJob, NEW j \in Jobs, SlotOK(j), StartsOK(j)
    PROVE  SlotOK(j)' /\ StartsOK(j)'
<1>0. LookOnly
  BY LooksOnly
<1>1. SameFor(j) /\ run' = run /\ stale' = stale /\ at # 0
  BY <1>0, BudgetTyped DEF LookOnly, SameFor, settings, records, history
<1>2. /\ served[j] \in Nat /\ fired[j] \in Nat /\ faults \in Nat /\ faults' \in {faults, faults + 1}
      /\ Scheduled(j)' = Scheduled(j) /\ SlotIsServed(j)' = SlotIsServed(j)
      /\ j # 0
  BY <1>1, JobFacts, SameTime DEF SameFor, Scheduled, SlotIsServed
<1>3. at' # 0 /\ ListDue(j)' => ListDue(j)
  BY <1>0, <1>1, TickKeepsList DEF LookOnly, SameFor
<1>4. Settled(j) => Settled(j)'
  BY <1>1, <1>2, <1>3 DEF Settled, SameFor
<1>5. CASE at' = j /\ stage' = "time"
  <2>1. at = j /\ LookAtJob /\ (Fault \/ ~jobHasActiveBackup(j))
    BY <1>5, <1>2 DEF LookAtJob, TimeJob, Decide, Onward, Stay
  <2>2. Scheduled(j) \/ run.what = j \/ j \in stale => faults' = faults + 1
    BY <2>1 DEF Fault, jobHasActiveBackup, Scheduled
  <2>3. ListDue(j) => fired[j] <= faults'
    BY <1>1, <1>2, <2>1, <2>2 DEF StartsOK, Settled
  <2> QED BY <1>1, <1>2, <1>3, <1>4, <1>5, <2>2, <2>3 DEF SlotOK, StartsOK, SameFor
<1>6. CASE at' = j /\ stage' = "start"
  <2>1. at = j /\ stage = "time" /\ TimeJob
    BY <1>6, <1>2 DEF LookAtJob, TimeJob, Decide, Onward, Stay
  <2>2. faults' = faults + 1 \/ ListDue(j)
    BY <1>6, <2>1 DEF TimeJob, Decide, Onward, Stay, Fault, ListDue
  <2>3. SlotOK(j)'
    BY <1>1, <1>2, <1>3, <1>6, <2>1, <2>2 DEF SlotOK, SameFor
  <2>4. StartsOK(j)'
    BY <1>1, <1>2, <1>4, <1>6, <2>1, <2>2 DEF StartsOK, SameFor
  <2> QED BY <2>3, <2>4
<1>7. CASE ~(at' = j /\ stage' \in {"time", "start"})
  <2>1. KeepsFor(j)
    BY <1>1, <1>3, <1>7 DEF KeepsFor
  <2> QED BY <1>1, <1>2, <2>1, SlotFrame, StartsFrame
<1> QED BY <1>5, <1>6, <1>7

\* The step that looks at the check leaves the jobs' counts alone.
LEMMA TimeCheckJobs ==
    ASSUME TypeOK, TimeCheck, NEW j \in Jobs, SlotOK(j), StartsOK(j)
    PROVE  SlotOK(j)' /\ StartsOK(j)'
<1>0. LookOnly
  BY LooksOnly
<1>1. SameFor(j) /\ run' = run /\ stale' = stale /\ at # 0
  BY <1>0, BudgetTyped DEF LookOnly, SameFor, settings, records, history
<1>2. at' # j
  BY JobFacts DEF TimeCheck, Decide, Onward, Stay
<1>3. at' # 0 /\ ListDue(j)' => ListDue(j)
  BY <1>0, <1>1, TickKeepsList DEF LookOnly, SameFor
<1>4. KeepsFor(j)
  BY <1>1, <1>2, <1>3 DEF KeepsFor
<1> QED BY <1>1, <1>4, SlotFrame, StartsFrame DEF Scheduled

\* No look at a job or at the check disturbs the check's counts.
LEMMA LookCheck ==
    ASSUME TypeOK, LookAtJob \/ TimeJob \/ TimeCheck, CheckOK
    PROVE  CheckOK'
<1>0. LookOnly
  BY LooksOnly
<1>1. /\ clock' = clock /\ UNCHANGED <<checkSched, since, checked>>
      /\ served' = served /\ fired' = fired /\ rest' = rest
      /\ faults' \in {faults, faults + 1} /\ Check' = Check
  BY <1>0, BudgetTyped DEF LookOnly, settings, records, history, Check
<1>2. CASE at' = Check /\ stage' = "start"
  <2>1. TimeCheck
    BY <1>2, CheckFacts DEF LookAtJob, TimeJob, Decide, Onward, Stay
  <2>2. faults' = faults + 1 \/ checkDue(checked, -late)
    BY <1>2, <2>1 DEF TimeCheck, Decide, Onward, Stay, Fault
  <2>3. faults' = faults + 1 \/ (served[Check] <= faults /\ fired[Check] <= faults)
    <3>1. ASSUME checkDue(checked, 0) PROVE served[Check] <= faults /\ fired[Check] <= faults
      <4>1. checked.made => checked.ago >= Hour
        BY <3>1, CheckIsRested, CheckFacts
      <4> QED BY <3>1, <4>1, CheckFacts, ScheduleFacts DEF CheckOK
    <3> QED BY <2>2, <3>1, CheckDueNow
  <2>4. checkDue(checked, 0)' => checkDue(checked, 0)
    BY <1>1 DEF checkDue, CheckFrom, TimeAt, IsCheckTime
  <2> QED BY <1>1, <2>3, <2>4, CheckFacts DEF CheckOK
<1>3. CASE ~(at' = Check /\ stage' = "start")
  BY <1>1, <1>3, CheckFrame
<1> QED BY <1>2, <1>3

\* A tick begins, with nothing listed.
LEMMA TickBeginCounts == TypeOK /\ CountsOK /\ TickBegin => CountsOK'
<1> SUFFICES ASSUME TypeOK, CountsOK, TickBegin PROVE CountsOK'
  OBVIOUS
<1>1. /\ clock' = clock /\ run' = run /\ stale' = stale
      /\ UNCHANGED <<sched, last, served, fired, rest, checkSched, since, checked, late, list>>
      /\ faults' = faults /\ stage' = "list" /\ list = NoList
  BY DEF TickBegin, TypeOK, settings, records, history, budgets
<1>2. ASSUME NEW j \in Jobs PROVE SlotOK(j)' /\ StartsOK(j)'
  <2>1. SameFor(j)
    BY <1>1, JobFacts DEF SameFor
  <2>2. ~ListDue(j)'
    BY <1>1, SameTime, OffIsNotDue DEF NoList
  <2>3. KeepsFor(j)
    BY <1>1, <2>1, <2>2 DEF KeepsFor
  <2> QED BY <1>1, <2>3, SlotFrame, StartsFrame DEF CountsOK, Scheduled
<1>3. CheckOK'
  BY <1>1, CheckFrame DEF CountsOK
<1> QED BY <1>2, <1>3 DEF CountsOK, Jobs

\* What the tick lists is due only if the settings say so.
LEMMA ListCounts == TypeOK /\ CountsOK /\ ListJobs => CountsOK'
<1> SUFFICES ASSUME TypeOK, CountsOK, ListJobs PROVE CountsOK'
  OBVIOUS
<1>1. /\ clock' = clock /\ run' = run /\ stale' = stale
      /\ UNCHANGED <<sched, saved, last, served, fired, rest, checkSched, since, checked, late>>
      /\ faults' \in {faults, faults + 1} /\ stage' = "look" /\ at' = at /\ at # 0
  BY BudgetTyped DEF ListJobs, TypeOK, settings, records, history
<1>2. ASSUME NEW j \in Jobs PROVE SlotOK(j)' /\ StartsOK(j)'
  <2>1. SlotOK(j) /\ StartsOK(j)
    BY DEF CountsOK
  <2>2. /\ served[j] \in Nat /\ fired[j] \in Nat /\ faults \in Nat /\ rest[j] \in 0..Hour
        /\ last[j].end \in {"never", "ok", "failed"} /\ last[j].ago \in 0..Horizon
        /\ sched[j] \in Schedules \cup {Off} /\ j # 0 /\ -late \in Int /\ -late <= 0
    BY JobFacts, ScheduleFacts
  <2>3. SlotIsServed(j)' = SlotIsServed(j)
    BY <1>1, SameTime DEF SlotIsServed
  <2>4. ListDue(j)' => jobDue(sched[j], saved[j] - late, last[j], -late)
    <3>1. CASE list'[j].sched = Off
      BY <3>1, SameTime, OffIsNotDue, <1>1
    <3>2. CASE list'[j].sched = sched[j] /\ list'[j].saved = saved[j] - late
      BY <3>2, SameTime, <1>1 DEF jobDue, FiredSince, FiredAfter, TimeAt
    <3>3. list' = Listed \/ list' = NoList
      BY DEF ListJobs
    <3> QED BY <3>1, <3>2, <3>3 DEF Listed, NoList
  <2>5. jobDue(sched[j], saved[j] - late, last[j], -late) =>
           sched[j].kind # "calendar" \/ last[j].end # "ok" \/ ~SlotIsServed(j)
    <3>1. FiredAfter(sched[j], -last[j].ago, -late) => ~SlotIsServed(j)
      BY <2>2, FiredBeforeNow DEF SlotIsServed
    <3> QED BY <3>1 DEF jobDue
  <2>6. ListDue(j)' => served[j] <= faults
    BY <2>1, <2>2, <2>4, <2>5 DEF SlotOK
  <2>7. SlotOK(j)'
    BY <1>1, <2>1, <2>2, <2>3, <2>6 DEF SlotOK, Scheduled
  <2>8. ASSUME fired[j] > faults, Settled(j) PROVE Settled(j)'
    <3>1. last[j].ago \in Nat /\ last[j].ago < Hour /\ last[j].end \in {"ok", "failed"}
      BY <2>1, <2>2, <2>8, ScheduleFacts DEF StartsOK, Settled
    <3>2. ~FiredAfter(sched[j], -last[j].ago, -late)
      BY <2>2, <2>8, FiredBeforeNow DEF Settled, SlotIsServed
    <3>3. ~jobDue(sched[j], saved[j] - late, last[j], -late)
      BY <2>2, <3>1, <3>2, RestedOrSlot
    <3> QED BY <1>1, <2>3, <2>4, <2>8, <3>3 DEF Settled
  <2>9. StartsOK(j)'
    BY <1>1, <2>1, <2>2, <2>8 DEF StartsOK
  <2> QED BY <2>7, <2>9
<1>3. CheckOK'
  BY <1>1, CheckFrame DEF CountsOK
<1> QED BY <1>2, <1>3 DEF CountsOK, Jobs

\* A check that has just been started is not due.
LEMMA FreshCheckIsNotDue ==
    ASSUME TypeOK, clock' = clock, UNCHANGED <<checkSched, since>>,
           checked' = [made |-> TRUE, ago |-> 0]
    PROVE  ~checkDue(checked, 0)'
<1>1. checkDue(checked, 0)' <=> checkDue(checked', 0)
  BY DEF checkDue, CheckFrom, TimeAt, IsCheckTime
<1>2. checked'.made /\ checked'.ago = 0
  OBVIOUS
<1>3. ~checkDue(checked', 0)
  BY <1>2, CheckIsRested, ScheduleFacts
<1> QED BY <1>1, <1>3

\* A run that is started counts if the schedule started it.
LEMMA BeginCounts ==
    ASSUME TypeOK, CountsOK, StartDue, BeginDue, (stale = {} /\ NoFault) \/ Fault
    PROVE  CountsOK'
<1>1. /\ clock' = clock /\ UNCHANGED <<sched, saved, checkSched, since>>
      /\ faults' \in {faults, faults + 1} /\ at # 0 /\ stage = "start" /\ Onward
      /\ stage' = "look" /\ at \in Items
      /\ stale # {} => faults' = faults + 1
  BY BudgetTyped DEF StartDue, settings, Onward, TypeOK, Fault
<1>2. /\ run'.what = at /\ run'.by = "schedule" /\ last' = last /\ stale' = stale
      /\ run.what = 0
      /\ checked' = IF at = Check THEN [made |-> TRUE, ago |-> 0] ELSE checked
  BY <1>1, BeginTyped DEF BeginDue
<1>3. ASSUME NEW j \in Jobs PROVE SlotOK(j)' /\ StartsOK(j)'
  <2>0. /\ SlotOK(j) /\ StartsOK(j) /\ j \in Items /\ j # Check /\ j # 0
        /\ served[j] \in Nat /\ fired[j] \in Nat /\ faults \in Nat
        /\ served'[j] = served[j] /\ (j \in stale => faults' = faults + 1)
    BY <1>1, JobFacts DEF CountsOK, BeginDue, TypeOK
  <2>1. at' # 0 /\ ListDue(j)' => ListDue(j)
    BY <1>1, <1>2, TickKeepsList
  <2>2. CASE at # j
    <3>1. KeepsFor(j) /\ run'.what # j
      BY <1>1, <1>2, <2>0, <2>1, <2>2 DEF SameFor, KeepsFor, BeginDue, TypeOK
    <3> QED BY <1>2, <2>0, <3>1, SlotFrame, StartsFrame DEF Scheduled
  <2>3. CASE at = j
    <3>1. fired'[j] = fired[j] + 1 /\ rest'[j] = 0
      BY <2>0, <2>3 DEF BeginDue, TypeOK
    <3>2. ~Scheduled(j) /\ served[j] <= faults /\ fired[j] <= faults
      BY <1>1, <1>2, <2>0, <2>3 DEF Scheduled, SlotOK, StartsOK
    <3>3. Scheduled(j)' /\ stage' = "look" /\ SlotIsServed(j)' = SlotIsServed(j)
      BY <1>1, <1>2, <2>3, SameTime DEF Scheduled, SlotIsServed
    <3>4. SlotOK(j)'
      BY <1>1, <1>2, <2>0, <2>1, <3>2, <3>3 DEF SlotOK
    <3>5. StartsOK(j)'
      BY <1>1, <1>2, <2>0, <2>3, <3>1, <3>2, <3>3, ScheduleFacts DEF StartsOK
    <3> QED BY <3>4, <3>5
  <2> QED BY <2>2, <2>3
<1>4. CheckOK'
  <2>0. CheckOK /\ Check' = Check
    BY DEF CountsOK, Check
  <2>1. CASE at # Check
    <3>1. /\ UNCHANGED checked /\ served'[Check] = served[Check] /\ fired'[Check] = fired[Check]
          /\ rest'[Check] = rest[Check]
      BY <1>1, <1>2, <2>1, CheckFacts DEF BeginDue, TypeOK
    <3> QED BY <1>1, <2>0, <3>1, CheckFrame
  <2>2. CASE at = Check
    <3>1. served'[Check] = served[Check] + 1 /\ fired'[Check] = fired[Check] + 1 /\ rest'[Check] = 0
      BY <2>2, CheckFacts DEF BeginDue, TypeOK
    <3>2. served[Check] <= faults /\ fired[Check] <= faults
      BY <1>1, <2>0, <2>2 DEF CheckOK
    <3>3. checked'.made /\ checked'.ago = 0 /\ ~checkDue(checked, 0)'
      BY <1>1, <1>2, <2>2, FreshCheckIsNotDue
    <3> QED BY <1>1, <2>0, <3>1, <3>2, <3>3, CheckFacts, ScheduleFacts DEF CheckOK
  <2> QED BY <2>1, <2>2
<1> QED BY <1>3, <1>4 DEF CountsOK, Jobs

\* A row that says a run is active which nobody drives costs a failed statement.
LEMMA UnheardCounts ==
    ASSUME TypeOK, CountsOK, NEW x \in Items \cup {Other}, BeginUnheard(x), Fault,
           UNCHANGED <<clock, settings, history>>,
           UNCHANGED tickVars \/ (at # 0 /\ Onward)
    PROVE  CountsOK'
<1>1. /\ clock' = clock /\ UNCHANGED <<sched, checkSched, since, served, fired, rest>>
      /\ faults' = faults + 1 /\ faults' \in {faults, faults + 1}
      /\ last' = last /\ run' = run /\ stale' = {x} /\ stale = {} /\ run.what = 0
      /\ checked' = IF x = Check THEN [made |-> TRUE, ago |-> 0] ELSE checked
      /\ stage' # "look" => UNCHANGED tickVars
  <2>1. \A by \in {"request", "schedule"} :
           /\ last' = last /\ run.what = 0 /\ run' = run /\ stale' = {x} /\ stale = {}
           /\ checked' = IF x = Check THEN [made |-> TRUE, ago |-> 0] ELSE checked
    BY BeginTyped
  <2> QED BY <2>1 DEF settings, history, Fault, Onward
<1>2. ASSUME NEW j \in Jobs PROVE SlotOK(j)' /\ StartsOK(j)'
  <2>0. /\ SlotOK(j) /\ StartsOK(j) /\ j # 0
        /\ served[j] \in Nat /\ fired[j] \in Nat /\ faults \in Nat
    BY JobFacts DEF CountsOK
  <2>1. ~Scheduled(j) /\ ~Scheduled(j)'
    BY <1>1, <2>0 DEF Scheduled
  <2>2. SlotOK(j)'
    BY <1>1, <2>0, <2>1 DEF SlotOK
  <2>3. StartsOK(j)'
    BY <1>1, <2>0 DEF StartsOK
  <2> QED BY <2>2, <2>3
<1>3. CheckOK'
  <2>0. /\ CheckOK /\ Check' = Check /\ served[Check] \in Nat /\ fired[Check] \in Nat
        /\ faults \in Nat
    BY CheckFacts DEF CountsOK, Check
  <2>1. CASE x = Check
    BY <1>1, <2>0, <2>1 DEF CheckOK
  <2>2. CASE x # Check
    BY <1>1, <2>0, <2>2 DEF CheckOK
  <2> QED BY <2>1, <2>2
<1> QED BY <1>2, <1>3 DEF CountsOK, Jobs

\* A run is started for what was decided, or refused.
LEMMA StartCounts == TypeOK /\ CountsOK /\ StartDue => CountsOK'
<1> SUFFICES ASSUME TypeOK, CountsOK, StartDue PROVE CountsOK'
  OBVIOUS
<1>1. /\ clock' = clock /\ UNCHANGED <<sched, saved, checkSched, since>>
      /\ faults' \in {faults, faults + 1} /\ at # 0 /\ stage = "start" /\ Onward
      /\ stage' = "look" /\ at \in Items
  BY BudgetTyped DEF StartDue, settings, Onward, TypeOK
<1>2. CASE UNCHANGED <<records, history>>
  <2>1. ASSUME NEW j \in Jobs PROVE SlotOK(j)' /\ StartsOK(j)'
    <3>1. SameFor(j) /\ run' = run /\ stale' = stale /\ SlotOK(j) /\ StartsOK(j)
      BY <1>1, <1>2 DEF SameFor, records, history, CountsOK
    <3>2. KeepsFor(j)
      BY <1>1, <3>1, TickKeepsList DEF KeepsFor, SameFor
    <3> QED BY <3>1, <3>2, SlotFrame, StartsFrame DEF Scheduled
  <2>2. CheckOK'
    BY <1>1, <1>2, CheckFrame DEF CountsOK, records, history
  <2> QED BY <2>1, <2>2 DEF CountsOK, Jobs
<1>3. CASE ((stale = {} /\ NoFault) \/ Fault) /\ BeginDue
  BY <1>3, BeginCounts
<1>4. CASE BeginUnheard(at) /\ Fault /\ UNCHANGED history
  BY <1>1, <1>4, UnheardCounts DEF StartDue
<1> QED BY <1>2, <1>3, <1>4 DEF StartDue

\* A run ends while the server drives it, and its end is recorded or lost.
LEMMA FinishCounts ==
    ASSUME TypeOK, CountsOK, NEW end \in {"ok", "failed"}, Finish(end) PROVE CountsOK'
<1>1. /\ UNCHANGED <<clock, sched, saved, checkSched, since, checked, fired, rest>>
      /\ UNCHANGED tickVars /\ UNCHANGED <<at, stage, late, list>>
      /\ faults' \in {faults, faults + 1} /\ NoRun.what = 0 /\ Other # 0
      /\ run'.what \in {0, Other}
  BY BudgetTyped, ItemFacts DEF Finish, settings, tickVars, NoRun, Run, HandOver, HandOverAmiss
<1>2. \/ Ended(end) /\ stale' \in {stale, stale \cup {Other}}
      \/ last' = last /\ stale' = stale \cup {run.what} /\ faults' = faults + 1
  BY DEF Finish, HandOverAmiss, Fault
<1>3. ASSUME NEW j \in Jobs PROVE SlotOK(j)' /\ StartsOK(j)'
  <2>0. /\ SlotOK(j) /\ StartsOK(j) /\ j \in Items /\ j # Check /\ j # 0 /\ j # Other
        /\ served[j] \in Nat /\ fired[j] \in Nat /\ faults \in Nat /\ run'.what # j
        /\ rest[j] \in 0..Hour /\ sched[j] \in Schedules \cup {Off}
        /\ list[j].sched \in Schedules \cup {Off} /\ -late \in Int /\ -late <= 0
    BY <1>1, JobFacts, ScheduleFacts DEF CountsOK
  <2>1. CASE run.what # j
    <3>1. SameFor(j) /\ (j \in stale' <=> j \in stale)
      BY <1>1, <1>2, <2>0, <2>1 DEF SameFor, Ended, Finish, CountEnd, TypeOK
    <3> QED BY <1>1, <2>0, <2>1, <3>1, OutsideTick, SlotFrame, StartsFrame DEF Scheduled
  <2>2. CASE run.what = j
    <3>1. served'[j] = IF end = "failed" THEN 0
                       ELSE IF Scheduled(j) /\ sched[j].kind = "calendar"
                       THEN served[j] + 1 ELSE served[j]
      BY <2>0, <2>2 DEF Finish, CountEnd, TypeOK, Scheduled
    <3>2. /\ served'[j] \in Nat /\ served'[j] <= 1 + faults /\ ~Scheduled(j)'
          /\ sched[j].kind # "calendar" => served'[j] = 0
          /\ at = j /\ stage = "start" => served'[j] <= faults
      BY <2>0, <3>1 DEF SlotOK, Scheduled
    <3>3. CASE Ended(end) /\ stale' \in {stale, stale \cup {Other}}
      <4>1. last'[j] = [end |-> end, ago |-> 0] /\ (j \in stale' <=> j \in stale)
        BY <2>0, <2>2, <3>3 DEF Ended, TypeOK
      <4>2. last'[j].end \in {"ok", "failed"} /\ last'[j].ago = 0
        BY <4>1
      <4>3. SlotIsServed(j)' /\ ~ListDue(j)'
        BY <1>1, <2>0, <4>2, SameTime, FreshIsNotDue
      <4>4. j \in stale => served'[j] <= faults
        BY <2>0, <3>1 DEF SlotOK
      <4>5. end = "failed" => served'[j] = 0
        BY <3>1
      <4>6. SlotOK(j)'
        BY <1>1, <2>0, <3>2, <4>1, <4>2, <4>3, <4>4, <4>5 DEF SlotOK
      <4>7. Settled(j)'
        BY <1>1, <2>0, <4>2, <4>3 DEF Settled
      <4>8. StartsOK(j)'
        BY <1>1, <2>0, <4>3, <4>7 DEF StartsOK
      <4> QED BY <4>6, <4>8
    <3>4. CASE last' = last /\ stale' = stale \cup {run.what} /\ faults' = faults + 1
      <4>1. SlotOK(j)'
        BY <1>1, <2>0, <3>2, <3>4 DEF SlotOK
      <4>2. StartsOK(j)'
        BY <1>1, <2>0, <2>2, <3>4 DEF StartsOK
      <4> QED BY <4>1, <4>2
    <3> QED BY <1>2, <3>3, <3>4
  <2> QED BY <2>1, <2>2
<1>4. CheckOK'
  <2>1. served'[Check] = served[Check]
    BY CheckFacts DEF Finish, CountEnd, TypeOK
  <2> QED BY <1>1, <2>1, CheckFrame DEF CountsOK
<1> QED BY <1>3, <1>4 DEF CountsOK, Jobs

\* A run that a user starts counts for nothing, but a check that a user starts
\* serves for its time of day.
LEMMA RequestCounts ==
    ASSUME TypeOK, CountsOK, NEW x \in Items \cup {Other}, Request(x) PROVE CountsOK'
<1>1. CASE BeginUnheard(x) /\ Fault
  BY <1>1, UnheardCounts DEF Request
<1>2. CASE Begin(x, "request")
  <2>1. /\ UNCHANGED <<clock, sched, saved, checkSched, since, served, fired, rest>>
        /\ UNCHANGED tickVars /\ UNCHANGED <<at, stage>>
        /\ faults' \in {faults, faults + 1} /\ run.what = 0
        /\ run'.by = "request" /\ last' = last /\ stale' = stale
        /\ checked' = IF x = Check THEN [made |-> TRUE, ago |-> 0] ELSE checked
    BY <1>2, BeginTyped, BudgetTyped DEF Request, settings, tickVars, history
  <2>2. ASSUME NEW j \in Jobs PROVE SlotOK(j)' /\ StartsOK(j)'
    <3>1. SlotOK(j) /\ StartsOK(j) /\ SameFor(j) /\ j # 0 /\ ~Scheduled(j)'
      BY <2>1, JobFacts DEF CountsOK, SameFor, Scheduled
    <3> QED BY <2>1, <3>1, OutsideTick, SlotFrame, StartsFrame
  <2>3. CheckOK'
    <3>1. CASE x = Check
      <4>1. ~checkDue(checked, 0)' /\ checked'.made /\ checked'.ago = 0
        BY <2>1, <3>1, FreshCheckIsNotDue
      <4> QED BY <2>1, <4>1, CheckFacts DEF CountsOK, CheckOK, Check
    <3>2. CASE x # Check
      BY <2>1, <3>2, CheckFrame DEF CountsOK
    <3> QED BY <3>1, <3>2
  <2> QED BY <2>2, <2>3 DEF CountsOK, Jobs
<1> QED BY <1>1, <1>2 DEF Request

\* A saved job has its slots before it; the tick may still hold its old settings.
LEMMA SaveJobCounts ==
    ASSUME TypeOK, CountsOK, NEW k \in Jobs, NEW s \in Schedules \cup {Off}, SaveJob(k, s)
    PROVE  CountsOK'
<1>1. /\ UNCHANGED <<clock, last, checked, run, stale, checkSched, since>>
      /\ UNCHANGED tickVars /\ UNCHANGED <<at, stage, late, list>>
      /\ faults' \in {faults, faults + 1} /\ faults' = faults
      /\ sched' = [sched EXCEPT ![k] = s] /\ served' = [served EXCEPT ![k] = 0]
      /\ fired' = [fired EXCEPT ![k] = 0] /\ rest' = [rest EXCEPT ![k] = Hour]
  BY DEF SaveJob, records, tickVars
<1>2. ASSUME NEW j \in Jobs PROVE SlotOK(j)' /\ StartsOK(j)'
  <2>0. /\ SlotOK(j) /\ StartsOK(j) /\ j \in Items /\ j # 0
        /\ served[j] \in Nat /\ fired[j] \in Nat /\ faults \in Nat
        /\ Scheduled(j)' = Scheduled(j)
    BY <1>1, JobFacts DEF CountsOK, Scheduled
  <2>1. CASE j # k
    <3>1. SameFor(j)
      BY <1>1, <2>0, <2>1 DEF SameFor, TypeOK
    <3> QED BY <1>1, <2>0, <3>1, OutsideTick, SlotFrame, StartsFrame
  <2>2. CASE j = k
    <3>1. served'[j] = 0 /\ fired'[j] = 0
      BY <1>1, <2>0, <2>2 DEF TypeOK
    <3>2. SlotOK(j)'
      BY <1>1, <2>0, <3>1 DEF SlotOK
    <3>3. StartsOK(j)'
      BY <1>1, <2>0, <3>1 DEF StartsOK
    <3> QED BY <3>2, <3>3
  <2> QED BY <2>1, <2>2
<1>3. CheckOK'
  <2>1. served'[Check] = served[Check] /\ fired'[Check] = fired[Check] /\ rest'[Check] = rest[Check]
    BY <1>1, CheckFacts DEF TypeOK
  <2> QED BY <1>1, <2>1, CheckFrame DEF CountsOK
<1> QED BY <1>2, <1>3 DEF CountsOK, Jobs

\* A saved check schedule has its times of day before it.
LEMMA SaveCheckCounts ==
    ASSUME TypeOK, CountsOK, NEW s \in CheckSchedules \cup {Off}, SaveCheckSchedule(s)
    PROVE  CountsOK'
<1>1. /\ UNCHANGED <<clock, sched, saved, last, checked, run, stale, fired, rest>>
      /\ UNCHANGED tickVars /\ UNCHANGED <<at, stage>>
      /\ faults' \in {faults, faults + 1} /\ faults' = faults
      /\ served' = [served EXCEPT ![Check] = 0]
  BY DEF SaveCheckSchedule, records, tickVars
<1>2. ASSUME NEW j \in Jobs PROVE SlotOK(j)' /\ StartsOK(j)'
  <2>1. SlotOK(j) /\ StartsOK(j) /\ SameFor(j)
    BY <1>1, JobFacts DEF CountsOK, SameFor, TypeOK
  <2> QED BY <1>1, <2>1, OutsideTick, SlotFrame, StartsFrame DEF Scheduled
<1>3. CheckOK'
  <2>1. served'[Check] = 0 /\ Check' = Check /\ faults \in Nat
    BY <1>1, CheckFacts DEF TypeOK, Check
  <2> QED BY <1>1, <2>1 DEF CountsOK, CheckOK
<1> QED BY <1>2, <1>3 DEF CountsOK, Jobs

\* A crash drops the tick, and leaves the row of the run.
LEMMA CrashCounts == TypeOK /\ CountsOK /\ Crash => CountsOK'
<1> SUFFICES ASSUME TypeOK, CountsOK, Crash PROVE CountsOK'
  OBVIOUS
<1>1. /\ UNCHANGED <<clock, sched, saved, checkSched, since, last, checked, fired, rest>>
      /\ faults' \in {faults, faults + 1} /\ faults' = faults /\ at' = 0
      /\ run'.what = 0 /\ stale' = stale \cup ({run.what} \ {0})
  BY DEF Crash, settings, NoRun
<1>2. ASSUME NEW j \in Jobs PROVE SlotOK(j)' /\ StartsOK(j)'
  <2>0. /\ SlotOK(j) /\ StartsOK(j) /\ j \in Items /\ j # 0 /\ ~Scheduled(j)'
        /\ served[j] \in Nat /\ fired[j] \in Nat /\ faults \in Nat
    BY <1>1, JobFacts DEF CountsOK, Scheduled
  <2>1. CASE run.what # j
    <3>1. KeepsFor(j) /\ (j \in stale' <=> j \in stale)
      BY <1>1, <2>0, <2>1 DEF SameFor, KeepsFor, Crash, CountEnd, TypeOK
    <3> QED BY <2>0, <2>1, <3>1, SlotFrame, StartsFrame
  <2>2. CASE run.what = j
    <3>1. served'[j] = 0 /\ j \in stale'
      BY <1>1, <2>0, <2>2 DEF Crash, CountEnd, TypeOK
    <3>2. SlotOK(j)'
      BY <1>1, <2>0, <3>1 DEF SlotOK
    <3>3. StartsOK(j)'
      BY <1>1, <2>0, <3>1 DEF StartsOK
    <3> QED BY <3>2, <3>3
  <2> QED BY <2>1, <2>2
<1>3. CheckOK'
  <2>1. served'[Check] = served[Check]
    BY CheckFacts DEF Crash, CountEnd, TypeOK
  <2> QED BY <1>1, <2>1, CheckFacts, CheckFrame DEF CountsOK
<1> QED BY <1>2, <1>3 DEF CountsOK, Jobs

\* A boot marks rows interrupted, all or some.
LEMMA BootCounts == TypeOK /\ CountsOK /\ Boot => CountsOK'
<1> SUFFICES ASSUME TypeOK, CountsOK, Boot PROVE CountsOK'
  OBVIOUS
<1>1. /\ UNCHANGED <<clock, sched, saved, checkSched, since, checked, run, served, fired, rest>>
      /\ UNCHANGED tickVars /\ UNCHANGED <<at, stage>> /\ at = 0
      /\ faults' \in {faults, faults + 1} /\ stale' \subseteq stale
  BY BudgetTyped DEF Boot, settings, tickVars, history, TypeOK
<1>2. ASSUME NEW j \in Jobs PROVE SlotOK(j)' /\ StartsOK(j)'
  <2>0. /\ SlotOK(j) /\ StartsOK(j) /\ j # 0 /\ Scheduled(j)' = Scheduled(j)
        /\ served[j] \in Nat /\ fired[j] \in Nat /\ faults \in Nat /\ rest[j] \in 0..Hour
        /\ sched[j] \in Schedules \cup {Off}
    BY <1>1, JobFacts DEF CountsOK, Scheduled
  <2>1. CASE j \in stale \ stale'
    <3>1. last'[j] = [end |-> "failed", ago |-> 0]
      BY <2>1 DEF Boot
    <3>2. last'[j].end \in {"ok", "failed"} /\ last'[j].ago = 0
      BY <3>1
    <3>3. SlotIsServed(j)'
      BY <1>1, <2>0, <3>2, SameTime, FreshIsNotDue
    <3>4. SlotOK(j)'
      BY <1>1, <2>0, <2>1 DEF SlotOK
    <3>5. Settled(j)'
      BY <1>1, <2>0, <3>2, <3>3 DEF Settled
    <3>6. StartsOK(j)'
      BY <1>1, <2>0, <3>5 DEF StartsOK
    <3> QED BY <3>4, <3>6
  <2>2. CASE j \notin stale \ stale'
    <3>1. SameFor(j) /\ (j \in stale' <=> j \in stale)
      BY <1>1, <2>2 DEF SameFor, Boot
    <3> QED BY <1>1, <2>0, <3>1, OutsideTick, SlotFrame, StartsFrame
  <2> QED BY <2>1, <2>2
<1>3. CheckOK'
  BY <1>1, CheckFrame DEF CountsOK
<1> QED BY <1>2, <1>3 DEF CountsOK, Jobs

\* A unit of time later a moment is one further back.
LEMMA TimePasses ==
    ASSUME TypeOK, Advance
    PROVE  /\ TimeAt(0)' = clock'
           /\ \A d \in (-(2 * Week))..(-1) : TimeAt(d)' = TimeAt(d + 1)
<1>1. clock \in 0..(Week - 1) /\ clock' = (IF clock = Week - 1 THEN 0 ELSE clock + 1)
  BY DEF TypeOK, Advance
<1>2. clock' \in 0..(Week - 1)
  BY <1>1, ScheduleFacts
<1>3. TimeAt(0)' = clock'
  <2>1. TimeAt(0)' = IF clock' + 0 >= 0 THEN clock' + 0
                     ELSE IF clock' + 0 + Week >= 0 THEN clock' + 0 + Week
                     ELSE clock' + 0 + Week + Week
    BY DEF TimeAt
  <2>2. \A c \in 0..(Week - 1) : c + 0 >= 0 /\ c + 0 = c
    BY ScheduleFacts
  <2> QED BY <1>2, <2>1, <2>2, Zenon
<1>4. ASSUME NEW d \in (-(2 * Week))..(-1) PROVE TimeAt(d)' = TimeAt(d + 1)
  <2>1. TimeAt(d)' = IF clock' + d >= 0 THEN clock' + d
                     ELSE IF clock' + d + Week >= 0 THEN clock' + d + Week
                     ELSE clock' + d + Week + Week
    BY DEF TimeAt
  <2>2. TimeAt(d + 1) = IF clock + (d + 1) >= 0 THEN clock + (d + 1)
                        ELSE IF clock + (d + 1) + Week >= 0 THEN clock + (d + 1) + Week
                        ELSE clock + (d + 1) + Week + Week
    BY DEF TimeAt
  <2> QED BY <1>1, <2>1, <2>2, ScheduleFacts
<1> QED BY <1>3, <1>4

\* How a job's attempt and the tick's time grow older together.
LEMMA AgesOfJob ==
    ASSUME TypeOK, Advance, NEW j \in Jobs
    PROVE  /\ last'[j].end = last[j].end /\ last'[j].ago \in 0..Horizon
           /\ last'[j].ago <= last[j].ago + 1
           /\ at # 0 => late' = late + 1
           /\ late' \in 0..MaxLate /\ list' = list /\ at' = at
           /\ Horizon + MaxLate <= 2 * Week
<1>1. last'[j] = IF last[j].end = "never" THEN last[j]
                 ELSE [last[j] EXCEPT !.ago = Older(@, Horizon)]
  BY DEF Advance
<1>2. Older(last[j].ago, Horizon) \in 0..Horizon /\ Older(last[j].ago, Horizon) <= last[j].ago + 1
  BY JobFacts, OlderFacts, ScheduleFacts
<1>3. last[j].ago <= last[j].ago + 1 /\ last[j] \in Attempt /\ last[j].ago \in 0..Horizon
  BY JobFacts
<1>4. last'[j].end = last[j].end /\ last'[j].ago \in 0..Horizon /\ last'[j].ago <= last[j].ago + 1
  BY <1>1, <1>2, <1>3 DEF Attempt
<1>5. (at # 0 => late' = late + 1) /\ late' \in 0..MaxLate /\ list' = list /\ at' = at
  BY ScheduleFacts DEF Advance, TypeOK
<1> QED BY <1>4, <1>5, ScheduleFacts

\* A slot that lies after the attempt and not after t did so a unit before.
LEMMA FiredLater ==
    ASSUME TypeOK, Advance, NEW s, NEW a \in 0..Horizon, NEW b \in 0..Horizon, b <= a + 1,
           NEW t \in Int, t <= -1,
           \E d \in (-b)..t : d > -b /\ IsSlot(s, TimeAt(d)')
    PROVE  FiredAfter(s, -a, t + 1)
<1>1. PICK d \in (-b)..t : d > -b /\ IsSlot(s, TimeAt(d)')
  OBVIOUS
<1>2. d \in (-(2 * Week))..(-1) /\ d + 1 \in (-a)..(t + 1) /\ d + 1 > -a
  BY <1>1, ScheduleFacts
<1>3. IsSlot(s, TimeAt(d + 1))
  BY <1>1, <1>2, TimePasses
<1> QED BY <1>2, <1>3 DEF FiredAfter

\* What the tick finds due after a step that leaves its list alone.
LEMMA DueLater ==
    ASSUME NEW j, list' = list, ListDue(j)'
    PROVE  LET s == list[j].sched
               n == list[j].saved
               b == last'[j]
           IN  \/ /\ s.kind = "interval"
                  /\ \/ b.end = "never"
                     \/ b.end = "ok" /\ b.ago + (-late') >= s.period
                     \/ b.end = "failed" /\ b.ago + (-late') >= retryWait(s.period)
               \/ /\ s.kind = "calendar" /\ b.end = "never"
                  /\ \E d \in (IF n > 0 THEN -late' - n ELSE -late')..(-late') :
                        IsSlot(s, TimeAt(d)')
               \/ /\ s.kind = "calendar" /\ b.end # "never"
                  /\ \E d \in (-b.ago)..(-late') : d > -b.ago /\ IsSlot(s, TimeAt(d)')
               \/ /\ s.kind = "calendar" /\ b.end = "failed"
                  /\ b.ago + (-late') >= retryWait(s.period)
BY Zenon DEF ListDue, jobDue, FiredSince, FiredAfter, IsSlot, retryWait

\* Time that passes in a tick makes nothing due that was not: the tick compares
\* with the time it has taken.
LEMMA TickKeepsTime ==
    ASSUME TypeOK, Advance, NEW j \in Jobs, at # 0, ListDue(j)'
    PROVE  ListDue(j)
<1> DEFINE s == list[j].sched
           n == list[j].saved
           a == last[j].ago
           b == last'[j].ago
<1>1. /\ last'[j].end = last[j].end /\ b \in 0..Horizon /\ b <= a + 1 /\ a \in 0..Horizon
      /\ late' = late + 1 /\ late \in 0..MaxLate /\ late' \in 0..MaxLate /\ list' = list
      /\ n \in (-MaxLate)..Horizon /\ Horizon + MaxLate <= 2 * Week
      /\ s \in Schedules \cup {Off}
  BY AgesOfJob, JobFacts
<1>2. s.kind \in {"interval", "calendar"} =>
         s.period \in Nat /\ retryWait(s.period) \in Int
  BY <1>1, ScheduleFacts DEF retryWait
<1>3. b + (-late') <= a + (-late) /\ -late' <= -1 /\ -late' \in Int /\ -late' + 1 = -late
  BY <1>1, ScheduleFacts
<1>4. \A w \in Int : b + (-late') >= w => a + (-late) >= w
  BY <1>1, <1>3
<1>5. CASE /\ s.kind = "interval"
           /\ \/ last[j].end = "never"
              \/ last[j].end = "ok" /\ b + (-late') >= s.period
              \/ last[j].end = "failed" /\ b + (-late') >= retryWait(s.period)
  BY <1>1, <1>2, <1>4, <1>5 DEF jobDue, ListDue
<1>6. CASE /\ s.kind = "calendar" /\ last[j].end = "never"
           /\ \E d \in (IF n > 0 THEN -late' - n ELSE -late')..(-late') : IsSlot(s, TimeAt(d)')
  <2> DEFINE f == IF n > 0 THEN -late' - n ELSE -late'
             g == IF n > 0 THEN -late - n ELSE -late
  <2>1. f \in Int /\ f >= -(2 * Week) /\ g = f + 1
    BY <1>1, ScheduleFacts
  <2>2. PICK d \in f..(-late') : IsSlot(s, TimeAt(d)')
    BY <1>6
  <2> HIDE DEF f, g
  <2>3. d \in (-(2 * Week))..(-1) /\ d + 1 \in g..(-late)
    BY <1>1, <1>3, <2>1, <2>2, ScheduleFacts
  <2>4. IsSlot(s, TimeAt(d + 1))
    BY <2>2, <2>3, TimePasses
  <2>5. FiredSince(s, g, -late)
    BY <2>3, <2>4 DEF FiredSince
  <2> QED BY <1>6, <2>5 DEF jobDue, ListDue, g
<1>7. CASE /\ s.kind = "calendar" /\ last[j].end # "never"
           /\ \E d \in (-b)..(-late') : d > -b /\ IsSlot(s, TimeAt(d)')
  <2>1. FiredAfter(s, -a, -late)
    BY <1>1, <1>3, <1>7, FiredLater
  <2> QED BY <1>7, <2>1 DEF jobDue, ListDue
<1>8. CASE /\ s.kind = "calendar" /\ last[j].end = "failed"
           /\ b + (-late') >= retryWait(s.period)
  BY <1>2, <1>4, <1>8 DEF jobDue, ListDue
<1>9. list' = list /\ last'[j].end = last[j].end
  BY <1>1
<1>10. \/ /\ s.kind = "interval"
          /\ \/ last'[j].end = "never"
             \/ last'[j].end = "ok" /\ b + (-late') >= s.period
             \/ last'[j].end = "failed" /\ b + (-late') >= retryWait(s.period)
       \/ /\ s.kind = "calendar" /\ last'[j].end = "never"
          /\ \E d \in (IF n > 0 THEN -late' - n ELSE -late')..(-late') : IsSlot(s, TimeAt(d)')
       \/ /\ s.kind = "calendar" /\ last'[j].end # "never"
          /\ \E d \in (-b)..(-late') : d > -b /\ IsSlot(s, TimeAt(d)')
       \/ /\ s.kind = "calendar" /\ last'[j].end = "failed"
          /\ b + (-late') >= retryWait(s.period)
  BY <1>9, DueLater, Zenon
<1> HIDE DEF s, n, a, b
<1> QED BY <1>5, <1>6, <1>7, <1>8, <1>9, <1>10

\* Time that passes makes a job due again only at a slot, which starts its
\* counts anew, or when an hour is over.
LEMMA AdvanceJob ==
    ASSUME TypeOK, Advance, NEW j \in Jobs, SlotOK(j), StartsOK(j)
    PROVE  SlotOK(j)' /\ StartsOK(j)'
<1>1. /\ j \in Items /\ j # 0 /\ served[j] \in Nat /\ fired[j] \in Nat /\ faults \in Nat
      /\ last[j].ago \in 0..Horizon /\ rest[j] \in 0..Hour /\ Hour \in Nat
  BY JobFacts, ScheduleFacts
<1>2. /\ sched' = sched /\ faults' = faults /\ at' = at /\ stage' = stage /\ run' = run
      /\ stale' = stale
  BY DEF Advance, budgets
<1>3. /\ served'[j] = (IF SlotPasses(j) THEN 0 ELSE served[j])
      /\ rest'[j] = (IF SlotPasses(j) THEN Hour ELSE Older(rest[j], Hour))
      /\ fired'[j] = (IF rest'[j] = Hour THEN 0 ELSE fired[j])
  BY <1>1, ItemFacts DEF Advance, CheckTimePasses
<1>4. Older(rest[j], Hour) # Hour => Older(rest[j], Hour) = rest[j] + 1 /\ rest[j] < Hour
  BY <1>1, OlderFacts
<1>5. ~SlotIsServed(j)' /\ ~SlotPasses(j) => ~SlotIsServed(j)
  <2> SUFFICES ASSUME ~SlotIsServed(j)', ~SlotPasses(j)
               PROVE  FiredAfter(sched[j], -last[j].ago, 0)
    BY DEF SlotIsServed
  <2>1. last'[j].ago \in 0..Horizon /\ last'[j].ago <= last[j].ago + 1
    BY AgesOfJob
  <2>2. PICK d \in (-last'[j].ago)..0 : d > -last'[j].ago /\ IsSlot(sched[j], TimeAt(d)')
    BY <1>2 DEF SlotIsServed, FiredAfter, IsSlot
  <2>3. d # 0
    BY <1>2, <2>2, TimePasses DEF SlotPasses
  <2>4. /\ d \in (-(2 * Week))..(-1) /\ d + 1 \in (-last[j].ago)..0 /\ d + 1 > -last[j].ago
    BY <1>1, <2>1, <2>2, <2>3, ScheduleFacts
  <2>5. IsSlot(sched[j], TimeAt(d + 1))
    BY <2>2, <2>4, TimePasses
  <2> QED BY <2>4, <2>5 DEF FiredAfter
<1>6. at # 0 /\ ListDue(j)' => ListDue(j)
  BY TickKeepsTime
<1>7. last'[j].end = last[j].end /\ last'[j].ago \in 0..Horizon /\ last'[j].ago <= last[j].ago + 1
  BY AgesOfJob
<1>8. Scheduled(j)' = Scheduled(j)
  BY <1>2 DEF Scheduled
<1>9. SlotOK(j)'
  <2>1. CASE SlotPasses(j)
    <3>1. served'[j] = 0
      BY <1>3, <2>1
    <3>2. /\ j \in stale /\ Scheduled(j) => served[j] + 1 <= faults
          /\ at = j /\ stage = "time" /\ Scheduled(j) => served[j] + 1 <= faults
          /\ at = j /\ stage = "start" => served[j] + (IF Scheduled(j) THEN 1 ELSE 0) <= faults
      BY DEF SlotOK
    <3> QED BY <1>1, <1>2, <1>8, <3>1, <3>2 DEF SlotOK
  <2>2. CASE ~SlotPasses(j)
    BY <1>1, <1>2, <1>3, <1>5, <1>6, <1>7, <1>8, <2>2 DEF SlotOK
  <2> QED BY <2>1, <2>2
<1>10. StartsOK(j)'
  <2>1. fired'[j] \in {0, fired[j]}
    BY <1>3
  <2>2. ASSUME fired'[j] > faults
        PROVE  rest'[j] < Hour /\ (run.what = j \/ j \in stale \/ Settled(j)')
    <3>0. rest'[j] # Hour /\ fired'[j] = fired[j]
      BY <1>1, <1>3, <2>2
    <3>1. fired'[j] = fired[j] /\ ~SlotPasses(j) /\ rest'[j] = rest[j] + 1 /\ rest'[j] < Hour
      BY <1>1, <1>3, <1>4, <3>0
    <3>2. run.what = j \/ j \in stale \/ Settled(j)
      BY <2>2, <3>1 DEF StartsOK
    <3>3. Settled(j) => Settled(j)'
      BY <1>1, <1>2, <1>5, <1>6, <1>7, <3>1 DEF Settled
    <3> QED BY <3>1, <3>2, <3>3
  <2> QED BY <1>1, <1>2, <1>6, <2>1, <2>2 DEF StartsOK
<1> QED BY <1>9, <1>10

\* Where the check's times of day begin, before and after.
LEMMA CheckFromLater ==
    ASSUME TypeOK, Advance, checkSched.kind = "check"
    PROVE  /\ CheckFrom(checked) \in Int /\ CheckFrom(checked)' \in Int
           /\ CheckFrom(checked)' >= -(2 * Week) /\ CheckFrom(checked) <= CheckFrom(checked)' + 1
<1>1. /\ checkSched.period \in {Day, Week} /\ since \in 0..SinceHorizon
      /\ checked \in [made: BOOLEAN, ago: 0..CheckHorizon]
      /\ checkSched' = checkSched
  BY CheckFacts DEF Advance
<1>2. since' \in 0..SinceHorizon /\ since' <= since + 1
  BY <1>1, OlderFacts, ScheduleFacts DEF Advance
<1>3. Older(checked.ago, CheckHorizon) <= checked.ago + 1
      /\ Older(checked.ago, CheckHorizon) \in 0..CheckHorizon
  BY <1>1, OlderFacts, ScheduleFacts
<1>4. /\ checked'.made = checked.made
      /\ checked.made => checked'.ago <= checked.ago + 1 /\ checked'.ago \in Nat
  BY <1>1, <1>3, ScheduleFacts DEF Advance
<1>5. SinceHorizon <= 2 * Week /\ Day \div 2 \in Int
  BY ScheduleFacts
<1> DEFINE again == checkSched.period - (Day \div 2) - checked.ago
           later == checkSched.period - (Day \div 2) - checked'.ago
<1>6. /\ CheckFrom(checked) = IF checked.made /\ again > -since THEN again ELSE -since
      /\ CheckFrom(checked)' = IF checked.made /\ later > -since' THEN later ELSE -since'
  BY <1>1, <1>4 DEF CheckFrom
<1>7. again \in Int /\ (checked.made => later \in Int /\ again <= later + 1)
  BY <1>1, <1>4, <1>5, ScheduleFacts
<1> HIDE DEF again, later
<1> QED BY <1>1, <1>2, <1>5, <1>6, <1>7, ScheduleFacts

\* The same of the check and its time of day.
LEMMA AdvanceCheck ==
    ASSUME TypeOK, Advance, CheckOK PROVE CheckOK'
<1>1. /\ served[Check] \in Nat /\ fired[Check] \in Nat /\ faults \in Nat /\ Check \in Items
      /\ Check # 0 /\ Check \notin Jobs /\ rest[Check] \in 0..Hour /\ Hour \in Nat
      /\ checked \in [made: BOOLEAN, ago: 0..CheckHorizon]
  BY CheckFacts, ScheduleFacts
<1>2. /\ checkSched' = checkSched /\ faults' = faults /\ at' = at /\ stage' = stage
      /\ Check' = Check
  BY DEF Advance, budgets, Check
<1>3. /\ served'[Check] = (IF CheckTimePasses(Check) THEN 0 ELSE served[Check])
      /\ rest'[Check] = Older(rest[Check], Hour)
      /\ fired'[Check] = (IF rest'[Check] = Hour THEN 0 ELSE fired[Check])
  BY <1>1 DEF Advance, SlotPasses
<1>4. Older(rest[Check], Hour) # Hour =>
         Older(rest[Check], Hour) = rest[Check] + 1 /\ rest[Check] < Hour
  BY <1>1, OlderFacts
<1>5. /\ checked'.made = checked.made
      /\ checked.made => checked'.ago <= checked.ago + 1 /\ checked'.ago \in Nat
  <2>1. Older(checked.ago, CheckHorizon) \in 0..CheckHorizon
        /\ Older(checked.ago, CheckHorizon) <= checked.ago + 1
    BY <1>1, OlderFacts, ScheduleFacts
  <2> QED BY <1>1, <2>1, ScheduleFacts DEF Advance
<1>6. checkDue(checked, 0)' => served'[Check] <= faults
  <2> SUFFICES ASSUME checkDue(checked, 0)', ~CheckTimePasses(Check)
               PROVE  served[Check] <= faults
    BY <1>1, <1>3
  <2>1. checkSched.kind = "check"
    BY <1>2 DEF checkDue
  <2>2. PICK d \in (CheckFrom(checked)')..0 : TimeAt(d)' % Day = checkSched.at
    BY <1>2 DEF checkDue, IsCheckTime, CheckFrom
  <2>3. d # 0
    BY <1>2, <2>1, <2>2, TimePasses DEF CheckTimePasses, IsCheckTime
  <2>4. d \in (-(2 * Week))..(-1) /\ d + 1 \in CheckFrom(checked)..0
    BY <2>1, <2>2, <2>3, CheckFromLater, ScheduleFacts
  <2>5. IsCheckTime(TimeAt(d + 1))
    BY <2>2, <2>4, TimePasses DEF IsCheckTime
  <2>6. checkDue(checked, 0)
    BY <2>1, <2>4, <2>5 DEF checkDue
  <2> QED BY <2>6 DEF CheckOK
<1>7. ASSUME fired'[Check] > faults
      PROVE  rest'[Check] < Hour /\ checked'.made /\ checked'.ago <= rest'[Check]
  <2>1. rest'[Check] # Hour /\ fired'[Check] = fired[Check]
    BY <1>1, <1>3, <1>7
  <2>2. rest'[Check] = rest[Check] + 1 /\ rest[Check] < Hour
    BY <1>3, <1>4, <2>1
  <2>3. checked.made /\ checked.ago <= rest[Check]
    BY <1>7, <2>1 DEF CheckOK
  <2> QED BY <1>1, <1>5, <2>1, <2>2, <2>3
<1>8. served'[Check] \in {0, served[Check]} /\ fired'[Check] \in {0, fired[Check]}
  BY <1>3
<1> QED BY <1>1, <1>2, <1>5, <1>6, <1>7, <1>8 DEF CheckOK

\* Time passes.
LEMMA AdvanceCounts == TypeOK /\ CountsOK /\ Advance => CountsOK'
BY AdvanceJob, AdvanceCheck DEF CountsOK, Jobs

\* Every step keeps the counts.
LEMMA CountsKept == TypeOK /\ CountsOK /\ [Next]_vars => CountsOK'
<1> SUFFICES ASSUME TypeOK, CountsOK, [Next]_vars PROVE CountsOK'
  OBVIOUS
<1>1. CASE TickBegin BY <1>1, TickBeginCounts
<1>2. CASE ListJobs BY <1>2, ListCounts
<1>3. CASE LookAtJob \/ TimeJob
  BY <1>3, LookCounts, LookCheck DEF CountsOK, Jobs
<1>4. CASE TimeCheck
  BY <1>4, TimeCheckJobs, LookCheck DEF CountsOK, Jobs
<1>5. CASE StartDue BY <1>5, StartCounts
<1>6. CASE \E end \in {"ok", "failed"} : Finish(end) BY <1>6, FinishCounts
<1>7. CASE \E x \in Items \cup {Other} : Request(x) BY <1>7, RequestCounts
<1>8. CASE \E j \in Jobs, s \in Schedules \cup {Off} : SaveJob(j, s) BY <1>8, SaveJobCounts
<1>9. CASE \E s \in CheckSchedules \cup {Off} : SaveCheckSchedule(s) BY <1>9, SaveCheckCounts
<1>10. CASE Crash BY <1>10, CrashCounts
<1>11. CASE Boot BY <1>11, BootCounts
<1>12. CASE Advance BY <1>12, AdvanceCounts
<1>13. CASE UNCHANGED vars
  <2>1. /\ UNCHANGED <<clock, sched, saved, last, checked, run, stale, checkSched, since>>
        /\ UNCHANGED tickVars /\ UNCHANGED <<at, stage>>
        /\ UNCHANGED <<served, fired, rest, faults>>
    BY <1>13 DEF vars, settings, records, tickVars, history, budgets
  <2>2. ASSUME NEW j \in Jobs PROVE SlotOK(j)' /\ StartsOK(j)'
    <3>1. SlotOK(j) /\ StartsOK(j) /\ SameFor(j)
      BY <2>1 DEF CountsOK, SameFor
    <3> QED BY <2>1, <3>1, OutsideTick, SlotFrame, StartsFrame DEF Scheduled
  <2>3. CheckOK'
    BY <2>1, CheckFrame DEF CountsOK
  <2> QED BY <2>2, <2>3 DEF CountsOK, Jobs
<1> QED BY <1>1, <1>2, <1>3, <1>4, <1>5, <1>6, <1>7, <1>8, <1>9, <1>10, <1>11, <1>12, <1>13
        DEF Next, Tick

\* The counts hold in every reachable state, and imply both promises.
LEMMA Invariant == Spec => []IInv
<1>1. Init => IInv
  BY InitTyped, InitCounts DEF IInv
<1>2. IInv /\ [Next]_vars => IInv'
  BY NextTyped, CountsKept DEF IInv
<1> QED BY <1>1, <1>2, PTL DEF Spec

\* Since a job's newest slot, its newest save and the newest backup of it that
\* failed, was stopped or died with the server, whoever started it, at most one
\* backup that its schedule started has succeeded; since the newest time of day
\* of the check, and its newest save, its schedule started at most one; but for
\* one more for each statement that failed: however many jobs there are, however
\* slow the ticks and long the server's absence, whoever starts runs, and with
\* the insert or the last write of a run lost or unheard.
THEOREM SlotsServedOnce == Spec => []OncePerSlot
<1>1. IInv => OncePerSlot
  <2> SUFFICES ASSUME IInv, NEW x \in Items PROVE served[x] <= 1 + faults
    BY DEF OncePerSlot
  <2>1. x \in Jobs \/ x = Check
    BY ItemFacts
  <2> QED BY <2>1 DEF IInv, CountsOK, SlotOK, CheckOK
<1> QED BY <1>1, Invariant, PTL

\* Two starts of a job by its schedule lie an hour apart, unless a slot of its
\* calendar passes or the job is saved between them, and two of the check always
\* do; but for one start more for each statement that failed. On any grid of
\* retry waits and slots: time is counted in units of any length.
THEOREM NoStorm == Spec => []NoRetryStorm
<1>1. IInv => NoRetryStorm
  <2> SUFFICES ASSUME IInv, NEW x \in Items PROVE fired[x] <= 1 + faults
    BY DEF NoRetryStorm
  <2>1. x \in Jobs \/ x = Check
    BY ItemFacts
  <2> QED BY <2>1 DEF IInv, CountsOK, StartsOK, CheckOK
<1> QED BY <1>1, Invariant, PTL
==============================================================================
