---------------------------- MODULE Coordinator ----------------------------
(***************************************************************************)
(* The run coordinator (internal/core/coordinator.go) over the run store   *)
(* (runstore.go) and startup reconcile (reconcile.go), in every process    *)
(* that shares the database: the web server and any number of              *)
(* restic-webctl processes.                                                *)
(*                                                                         *)
(* Each run is driven by one goroutine; pc is where that goroutine stands: *)
(*   unused   no record yet        begun   record created, drive launched  *)
(*   exec     restic steps         judged  outcome classified              *)
(*   handed   the follow-up run has taken the slot, not yet named          *)
(*   closing  about to finalize    settled final status written            *)
(*   final    live copy dropped    done    slot released                   *)
(*   dead     its process is gone                                          *)
(*   ghost    recorded although its start was refused; never driven        *)
(* A step is one critical section or one database statement.               *)
(***************************************************************************)
EXTENDS Naturals, FiniteSets

CONSTANTS
    Procs,        \* processes that share the database
    Server,       \* the web server, the only one to reconcile and shut down
    Repos,        \* repositories
    Runs,         \* pool of run ids (bounds how many runs are started)
    NoRepo, NoRun,
    MaxSteps,     \* bound: restic children one run launches
    MaxDbFaults,  \* bound: database statements that fail
    MaxCrashes    \* bound: processes that end without finishing their runs

ASSUME ServerAssumption == Server \in Procs
ASSUME NoneAssumption == NoRepo \notin Repos /\ NoRun \notin Runs
ASSUME BoundsAssumption == {MaxSteps, MaxDbFaults, MaxCrashes} \subseteq Nat

VARIABLES
    \* per process
    mode,      \* "down", "boot" (server before it serves) or "up"
    pending,   \* the start that holds Coordinator.mu between check and insert
    active,    \* Coordinator.active: repository -> run holding its slot
    \* the web server only
    shut,      \* Coordinator.Shutdown: "no", "waiting" (up to its timeout), "clean"
    toStop,    \* run ids Shutdown still has to stop
    todo,      \* runs RunStore.reconcile still has to settle
    \* per run
    row,       \* the durable record
    live,      \* RunStore.live of the process that drives the run
    owner, repoOf,
    pc, verdict, next,
    stopped,   \* activeRun.stopped (with the context canceled)
    signalled, \* its restic child got SIGINT (or SIGKILL) from another process
    spawned,   \* restic children launched so far; the last one's pid
    alive,     \* that child is alive
    \* bounds
    dbFaults, crashes

procVars == <<mode, pending, active>>
serverVars == <<shut, toStop, todo>>
storeVars == <<row, live, dbFaults>>
identVars == <<owner, repoOf>>
driveVars == <<pc, verdict, next>>
childVars == <<stopped, signalled, spawned, alive>>
vars == <<procVars, serverVars, storeVars, identVars, driveVars, childVars, crashes>>

ActiveStatus == {"starting", "running"}
\* success_warnings takes the same paths as success and is folded into it.
TerminalStatus == {"success", "failed", "canceled", "interrupted"}
Outcomes == {"ok", "fail", "interrupt"}
PCs == {"unused", "begun", "exec", "judged", "handed", "closing", "settled",
        "final", "done", "dead", "ghost"}

NoRecord == [status |-> "none", pid |-> 0, followUp |-> NoRun]
Record == [status : ActiveStatus \cup TerminalStatus \cup {"none"},
           pid : 0 .. MaxSteps,
           followUp : Runs \cup {NoRun}]

NoStart == [repo |-> NoRepo, prev |-> NoRun]
PendingStart == [repo : Repos, prev : Runs \cup {NoRun}]

Init ==
    /\ mode = [p \in Procs |-> "down"]
    /\ pending = [p \in Procs |-> NoStart]
    /\ active = [p \in Procs |-> [q \in Repos |-> NoRun]]
    /\ shut = "no" /\ toStop = {} /\ todo = {}
    /\ row = [r \in Runs |-> NoRecord]
    /\ live = [r \in Runs |-> NoRecord]
    /\ owner = [r \in Runs |-> Server]
    /\ repoOf = [r \in Runs |-> NoRepo]
    /\ pc = [r \in Runs |-> "unused"]
    /\ verdict = [r \in Runs |-> "none"]
    /\ next = [r \in Runs |-> NoRun]
    /\ stopped = [r \in Runs |-> FALSE]
    /\ signalled = [r \in Runs |-> FALSE]
    /\ spawned = [r \in Runs |-> 0]
    /\ alive = [r \in Runs |-> FALSE]
    /\ dbFaults = 0 /\ crashes = 0

-----------------------------------------------------------------------------
(* The run store as one process sees it.                                   *)

\* Get: the driving process reads its live copy, everyone else the database.
Seen(p, r) == IF owner[r] = p /\ live[r].status # "none" THEN live[r] ELSE row[r]

DbFault == dbFaults < MaxDbFaults /\ dbFaults' = dbFaults + 1

\* mutate with persist: the live copy changes, and the whole row is written
\* from it; an error of that write is ignored.
Persist(r, rec) ==
    /\ live' = [live EXCEPT ![r] = rec]
    /\ \/ row' = [row EXCEPT ![r] = rec] /\ UNCHANGED dbFaults
       \/ DbFault /\ UNCHANGED row

MutexFree(p) == pending[p] = NoStart
Unused == {r \in Runs : pc[r] = "unused"}
Starting == {p \in Procs : pending[p] # NoStart}
\* A run id is left for one more start (the pool is a bound of the model).
IdLeft == Cardinality(Starting) < Cardinality(Unused)

-----------------------------------------------------------------------------
(* Starting a run: startRunAfter.                                          *)

\* No run starts once Shutdown began, a follow-up included.
DoorOpenForFollowUp(p, prev) == p = Server /\ prev = NoRun => shut = "no"
DoorOpen(p, prev) == p = Server => shut = "no"

\* The slot does not block: empty, held by the run being followed, or held by
\* one that already reached a terminal state.
HolderYieldsAlways(p, q, prev) == TRUE
HolderYields(p, q, prev) ==
    active[p][q] \notin {NoRun, prev} => Seen(p, active[p][q]).status \in TerminalStatus

\* No other record of the repository is starting or running. The query fails
\* open: an error reads as no active run.
DurablyFree(p, q) ==
    \/ /\ \A o \in Runs : /\ repoOf[o] = q
                          /\ row[o].status \in ActiveStatus
                          => o = active[p][q]
       /\ UNCHANGED dbFaults
    \/ DbFault

Reserve(p, q, prev) ==
    /\ mode[p] = "up"
    /\ MutexFree(p)
    /\ IdLeft
    /\ DoorOpen(p, prev)
    /\ HolderYields(p, q, prev)
    /\ DurablyFree(p, q)
    /\ pending' = [pending EXCEPT ![p] = [repo |-> q, prev |-> prev]]
    /\ UNCHANGED <<mode, active, serverVars, row, live, identVars, driveVars,
                   childVars, crashes>>

\* A request, a CLI command or the scheduler starts an operation.
StartRun(p) == \E q \in Repos : Reserve(p, q, NoRun)

\* startFollowUp: a successful backup starts retention on the job's repository
\* (another one when the job was moved meanwhile). Any run but a follow-up may
\* turn out to be such a backup; other kinds never get here.
StartFollowUp(b) ==
    /\ pc[b] = "judged"
    /\ verdict[b] = "success"
    /\ \A x \in Runs : next[x] # b
    /\ \E q \in Repos : Reserve(owner[b], q, b)

\* RunStore.Begin and the rest of the critical section.
BeginRun(p) ==
    /\ mode[p] = "up"
    /\ ~MutexFree(p)
    /\ LET s == pending[p]
           rec == [NoRecord EXCEPT !.status = "starting"]
       IN \E r \in Unused :
            /\ row' = [row EXCEPT ![r] = rec]
            /\ live' = [live EXCEPT ![r] = rec]
            /\ owner' = [owner EXCEPT ![r] = p]
            /\ repoOf' = [repoOf EXCEPT ![r] = s.repo]
            /\ active' = [active EXCEPT ![p][s.repo] = r]
            /\ pc' = [x \in Runs |-> CASE x = r -> "begun"
                                       [] x = s.prev -> "handed"
                                       [] OTHER -> pc[x]]
            /\ next' = [x \in Runs |-> IF x = s.prev THEN r ELSE next[x]]
    /\ pending' = [pending EXCEPT ![p] = NoStart]
    /\ UNCHANGED <<mode, serverVars, dbFaults, verdict, childVars, crashes>>

\* Begin returns an error: the start is refused, whether or not the insert
\* reached the database. If it did, nothing drives that record.
BeginFails(p) ==
    /\ mode[p] = "up"
    /\ ~MutexFree(p)
    /\ DbFault
    /\ LET s == pending[p]
       IN \E ghosts \in SUBSET Unused :
            /\ Cardinality(ghosts) <= 1
            /\ row' = [r \in Runs |-> IF r \in ghosts
                         THEN [NoRecord EXCEPT !.status = "starting"] ELSE row[r]]
            /\ owner' = [r \in Runs |-> IF r \in ghosts THEN p ELSE owner[r]]
            /\ repoOf' = [r \in Runs |-> IF r \in ghosts THEN s.repo ELSE repoOf[r]]
            /\ pc' = [r \in Runs |-> CASE r \in ghosts -> "ghost"
                                       [] r = s.prev -> "closing"
                                       [] OTHER -> pc[r]]
    /\ pending' = [pending EXCEPT ![p] = NoStart]
    /\ UNCHANGED <<mode, active, serverVars, live, verdict, next, childVars, crashes>>

-----------------------------------------------------------------------------
(* Driving a run: drive.                                                   *)

SetRunning(r) ==
    /\ pc[r] = "begun"
    /\ pc' = [pc EXCEPT ![r] = "exec"]
    /\ Persist(r, [live[r] EXCEPT !.status = "running"])
    /\ UNCHANGED <<procVars, serverVars, identVars, verdict, next, childVars, crashes>>

\* Reconcile in another process killed the child: the step failed.
Killed(r) == signalled[r] /\ ~alive[r]

\* exec launches a restic child; a canceled context launches none.
Spawn(r) ==
    /\ pc[r] = "exec" /\ ~alive[r] /\ ~stopped[r] /\ ~Killed(r)
    /\ spawned[r] < MaxSteps
    /\ spawned' = [spawned EXCEPT ![r] = @ + 1]
    /\ alive' = [alive EXCEPT ![r] = TRUE]
    /\ UNCHANGED <<procVars, serverVars, storeVars, identVars, driveVars, stopped,
                   signalled, crashes>>

\* The sink records the child's pid on the run (not every step does: Init).
RecordPid(r) ==
    /\ pc[r] = "exec" /\ alive[r]
    /\ live[r].pid # spawned[r]
    /\ Persist(r, [live[r] EXCEPT !.pid = spawned[r]])
    /\ UNCHANGED <<procVars, serverVars, identVars, driveVars, childVars, crashes>>

\* One step of several succeeds and exec goes on.
StepDone(r) ==
    /\ pc[r] = "exec" /\ alive[r]
    /\ spawned[r] < MaxSteps
    /\ alive' = [alive EXCEPT ![r] = FALSE]
    /\ signalled' = [signalled EXCEPT ![r] = FALSE]
    /\ UNCHANGED <<procVars, serverVars, storeVars, identVars, driveVars, stopped,
                   spawned, crashes>>

\* classifyRun: a stop wins over whatever restic returned.
ClassifyUnmapped(r, out) == IF stopped[r] THEN "canceled" ELSE out
Classify(r, out) ==
    CASE stopped[r] -> "canceled"
      [] out = "ok" -> "success"
      [] out = "interrupt" -> "canceled"
      [] OTHER -> "failed"

ExecReturn(r) ==
    /\ pc[r] = "exec"
    /\ \E out \in Outcomes :
         /\ out = "interrupt" => signalled[r] /\ alive[r]
         /\ Killed(r) => out = "fail"
         /\ verdict' = [verdict EXCEPT ![r] = Classify(r, out)]
    /\ pc' = [pc EXCEPT ![r] = "judged"]
    /\ alive' = [alive EXCEPT ![r] = FALSE]
    /\ signalled' = [signalled EXCEPT ![r] = FALSE]
    /\ UNCHANGED <<procVars, serverVars, storeVars, identVars, next, stopped, spawned,
                   crashes>>

\* No follow-up is due, or it was refused.
NoFollowUp(r) ==
    /\ pc[r] = "judged"
    /\ pending[owner[r]].prev # r
    /\ pc' = [pc EXCEPT ![r] = "closing"]
    /\ UNCHANGED <<procVars, serverVars, storeVars, identVars, verdict, next, childVars,
                   crashes>>

\* The follow-up's id goes on the live record only; finalize writes it.
NameFollowUp(r) ==
    /\ pc[r] = "handed"
    /\ pc' = [pc EXCEPT ![r] = "closing"]
    /\ live' = [live EXCEPT ![r].followUp = next[r]]
    /\ UNCHANGED <<procVars, serverVars, row, dbFaults, identVars, verdict, next,
                   childVars, crashes>>

\* The final status is written once, if that write gets through; then the live
\* copy goes.
FinalRecordOfRow(r) == [row[r] EXCEPT !.status = verdict[r]]
FinalRecordUnset(r) == live[r]
FinalRecord(r) == [live[r] EXCEPT !.status = verdict[r]]

Finalize(r) ==
    /\ pc[r] = "closing"
    /\ pc' = [pc EXCEPT ![r] = "settled"]
    /\ verdict' = [verdict EXCEPT ![r] = "none"]
    /\ Persist(r, FinalRecord(r))
    /\ UNCHANGED <<procVars, serverVars, identVars, next, childVars, crashes>>

DropLive(r) ==
    /\ pc[r] = "settled"
    /\ pc' = [pc EXCEPT ![r] = "final"]
    /\ live' = [live EXCEPT ![r] = NoRecord]
    /\ UNCHANGED <<procVars, serverVars, row, dbFaults, identVars, verdict, next,
                   childVars, crashes>>

\* finish: give the slot up, unless another run took it over already. The
\* activeRun goes with it, its stopped flag included.
ReleaseAnySlot(p, r) == NoRun
KeepSlot(p, r) == active[p][repoOf[r]]
ReleaseSlot(p, r) == IF active[p][repoOf[r]] = r THEN NoRun ELSE active[p][repoOf[r]]

Finish(r) ==
    /\ pc[r] = "final"
    /\ MutexFree(owner[r])
    /\ pc' = [pc EXCEPT ![r] = "done"]
    /\ active' = [active EXCEPT ![owner[r]][repoOf[r]] = ReleaseSlot(owner[r], r)]
    /\ stopped' = [stopped EXCEPT ![r] = FALSE]
    /\ UNCHANGED <<mode, pending, serverVars, storeVars, identVars, verdict, next,
                   signalled, spawned, alive, crashes>>

-----------------------------------------------------------------------------
(* Stopping a run: Stop and Shutdown.                                      *)

HoldsSlot(p, r) == \E q \in Repos : active[p][q] = r

\* The process that drives the run marks it stopped and cancels its context.
StopOwn(p, r) ==
    /\ mode[p] = "up" /\ MutexFree(p)
    /\ Seen(p, r).status \in ActiveStatus
    /\ HoldsSlot(p, r)
    /\ ~stopped[r]
    /\ stopped' = [stopped EXCEPT ![r] = TRUE]

\* Any other process signals the recorded child, if that very child lives.
SignalOther(p, r) ==
    /\ mode[p] = "up" /\ MutexFree(p)
    /\ Seen(p, r).status \in ActiveStatus
    /\ ~HoldsSlot(p, r)
    /\ alive[r] /\ Seen(p, r).pid = spawned[r]
    /\ signalled' = [signalled EXCEPT ![r] = TRUE]

StopRequest(p, r) ==
    /\ \/ StopOwn(p, r) /\ UNCHANGED signalled
       \/ SignalOther(p, r) /\ UNCHANGED stopped
    /\ UNCHANGED <<procVars, serverVars, storeVars, identVars, driveVars, spawned, alive,
                   crashes>>

\* Shutdown closes the door under the mutex and lists the runs to stop.
ShutdownBegin ==
    /\ mode[Server] = "up" /\ MutexFree(Server)
    /\ shut = "no"
    /\ shut' = "waiting"
    /\ toStop' = {r \in Runs : HoldsSlot(Server, r)}
    /\ UNCHANGED <<procVars, todo, storeVars, identVars, driveVars, childVars, crashes>>

\* Its Stop finds the run either still holding its slot, or over.
ShutdownStopsRunning(r) == Seen(Server, r).status = "running" /\ HoldsSlot(Server, r)
ShutdownStops(r) == Seen(Server, r).status \in ActiveStatus /\ HoldsSlot(Server, r)

ShutdownStop(r) ==
    /\ shut = "waiting" /\ MutexFree(Server) /\ r \in toStop
    /\ toStop' = toStop \ {r}
    /\ stopped' = [stopped EXCEPT ![r] = @ \/ ShutdownStops(r)]
    /\ UNCHANGED <<procVars, shut, todo, storeVars, identVars, driveVars, signalled,
                   spawned, alive, crashes>>

\* It returns true: no slot is held any more.
ShutdownReturn ==
    /\ shut = "waiting" /\ toStop = {} /\ MutexFree(Server)
    /\ \A q \in Repos : active[Server][q] = NoRun
    /\ shut' = "clean"
    /\ UNCHANGED <<procVars, toStop, todo, storeVars, identVars, driveVars, childVars,
                   crashes>>

-----------------------------------------------------------------------------
(* Processes.                                                              *)

\* Everything a process held in memory goes; its restic children may live on.
Vanish(p) ==
    LET mine == {r \in Runs : owner[r] = p /\ pc[r] \notin {"unused", "done", "ghost"}}
    IN  /\ mode' = [mode EXCEPT ![p] = "down"]
        /\ pending' = [pending EXCEPT ![p] = NoStart]
        /\ active' = [active EXCEPT ![p] = [q \in Repos |-> NoRun]]
        /\ live' = [r \in Runs |-> IF r \in mine THEN NoRecord ELSE live[r]]
        /\ pc' = [r \in Runs |-> IF r \in mine THEN "dead" ELSE pc[r]]
        /\ verdict' = [r \in Runs |-> IF r \in mine THEN "none" ELSE verdict[r]]
        /\ stopped' = [r \in Runs |-> stopped[r] /\ r \notin mine]
        /\ IF p = Server
           THEN shut' = "no" /\ toStop' = {} /\ todo' = {}
           ELSE UNCHANGED serverVars
        /\ UNCHANGED <<row, dbFaults, identVars, next, signalled, spawned, alive>>

Crash(p) ==
    /\ mode[p] # "down"
    /\ crashes < MaxCrashes
    /\ crashes' = crashes + 1
    /\ Vanish(p)

\* main returns once Shutdown did, be it by its timeout.
ServerExit ==
    /\ mode[Server] = "up" /\ shut # "no" /\ toStop = {}
    /\ crashes < MaxCrashes
    /\ crashes' = crashes + 1
    /\ Vanish(Server)

\* restic-webctl runs no reconcile.
CliLaunch(p) ==
    /\ p # Server /\ mode[p] = "down"
    /\ mode' = [mode EXCEPT ![p] = "up"]
    /\ UNCHANGED <<pending, active, serverVars, storeVars, identVars, driveVars,
                   childVars, crashes>>

\* A child that outlived its process ends by itself.
OrphanExit(r) ==
    /\ pc[r] = "dead" /\ alive[r]
    /\ alive' = [alive EXCEPT ![r] = FALSE]
    /\ UNCHANGED <<procVars, serverVars, storeVars, identVars, driveVars, stopped,
                   signalled, spawned, crashes>>

\* Reconcile reads the records still active; an error reads as none.
RecordedRuns == {r \in Runs : row[r].status # "none"}
LeftActive == {r \in Runs : row[r].status \in ActiveStatus}

ServerBoot ==
    /\ mode[Server] = "down"
    /\ mode' = [mode EXCEPT ![Server] = "boot"]
    /\ \/ todo' = LeftActive /\ UNCHANGED dbFaults
       \/ DbFault /\ todo' = {}
    /\ UNCHANGED <<pending, active, shut, toStop, row, live, identVars, driveVars,
                   childVars, crashes>>

\* The recorded child is killed if it is still that child (Linux), and the
\* record is read again and written back as interrupted, whatever it says now.
ReapNothing(r) == FALSE
ReapChild(r) == alive[r] /\ row[r].pid = spawned[r]

ReconcileRun(r) ==
    /\ mode[Server] = "boot" /\ r \in todo
    /\ todo' = todo \ {r}
    /\ alive' = [alive EXCEPT ![r] = @ /\ ~ReapChild(r)]
    /\ signalled' = [signalled EXCEPT ![r] = @ \/ ReapChild(r)]
    /\ \/ row' = [row EXCEPT ![r].status = "interrupted"] /\ UNCHANGED dbFaults
       \/ DbFault /\ UNCHANGED row
    /\ UNCHANGED <<procVars, shut, toStop, live, identVars, driveVars, stopped, spawned,
                   crashes>>

ServerServe ==
    /\ mode[Server] = "boot" /\ todo = {}
    /\ mode' = [mode EXCEPT ![Server] = "up"]
    /\ UNCHANGED <<pending, active, serverVars, storeVars, identVars, driveVars,
                   childVars, crashes>>

-----------------------------------------------------------------------------
Next ==
    \/ \E r \in Runs :
         \/ SetRunning(r) \/ Spawn(r) \/ RecordPid(r) \/ StepDone(r) \/ ExecReturn(r)
         \/ NoFollowUp(r) \/ StartFollowUp(r) \/ NameFollowUp(r) \/ Finalize(r)
         \/ DropLive(r) \/ Finish(r) \/ OrphanExit(r) \/ ReconcileRun(r) \/ ShutdownStop(r)
    \/ \E p \in Procs :
         \/ StartRun(p) \/ BeginRun(p) \/ BeginFails(p) \/ Crash(p) \/ CliLaunch(p)
         \/ \E r \in Runs : StopRequest(p, r)
    \/ ShutdownBegin \/ ShutdownReturn \/ ServerExit \/ ServerBoot \/ ServerServe

Spec == Init /\ [][Next]_vars

\* Goroutines are scheduled; a restic child whose context is canceled exits,
\* if need be killed after WaitDelay (runner.go). A child nobody stopped may
\* run for ever.
Fairness ==
    /\ \A r \in Runs :
         /\ WF_vars(SetRunning(r)) /\ WF_vars(stopped[r] /\ ExecReturn(r))
         /\ WF_vars(NoFollowUp(r)) /\ WF_vars(NameFollowUp(r)) /\ WF_vars(Finalize(r))
         /\ WF_vars(DropLive(r)) /\ SF_vars(Finish(r)) /\ SF_vars(ShutdownStop(r))
         /\ WF_vars(ReconcileRun(r))
    /\ \A p \in Procs : WF_vars(BeginRun(p))
    /\ WF_vars(ServerServe) /\ SF_vars(ShutdownReturn)

FairSpec == Spec /\ Fairness

-----------------------------------------------------------------------------
(* Properties.                                                             *)

TypeOK ==
    /\ mode \in [Procs -> {"down", "boot", "up"}]
    /\ pending \in [Procs -> PendingStart \cup {NoStart}]
    /\ active \in [Procs -> [Repos -> Runs \cup {NoRun}]]
    /\ shut \in {"no", "waiting", "clean"}
    /\ toStop \subseteq Runs /\ todo \subseteq Runs
    /\ row \in [Runs -> Record] /\ live \in [Runs -> Record]
    /\ owner \in [Runs -> Procs]
    /\ repoOf \in [Runs -> Repos \cup {NoRepo}]
    /\ pc \in [Runs -> PCs]
    /\ verdict \in [Runs -> TerminalStatus \cup {"none"}]
    /\ next \in [Runs -> Runs \cup {NoRun}]
    /\ stopped \in [Runs -> BOOLEAN] /\ signalled \in [Runs -> BOOLEAN]
    /\ spawned \in [Runs -> 0 .. MaxSteps] /\ alive \in [Runs -> BOOLEAN]
    /\ dbFaults \in Nat /\ crashes \in Nat

\* Runs whose work on the repository may still lie ahead or be under way.
Claims(r) == pc[r] \in {"begun", "exec"}

\* One process never works on a repository for two runs at once, whatever the
\* database answers and whatever other processes do to the records
\* (coordinator.go: "Coordinator serializes work per repository").
ClaimsExclusive ==
    \A r, s \in Runs :
        Claims(r) /\ Claims(s) /\ owner[r] = owner[s] /\ repoOf[r] = repoOf[s] => r = s

\* A run with work ahead of it holds its slot, so that Stop finds it there: no
\* superseded run's finish, and no hand-over, takes the slot from under it.
ClaimHoldsSlot ==
    \A r \in Runs : Claims(r) => active[owner[r]][repoOf[r]] = r

\* Whoever sees a backup finished successfully sees which run follows it, and
\* finds that run recorded (model.go on ParamFollowUpRun).
FollowUpVisible ==
    \A b \in Runs :
        /\ row[b].status = "success" => row[b].followUp = next[b]
        /\ row[b].followUp # NoRun => row[row[b].followUp].status # "none"

\* When the server serves again after a crash, no restic child whose pid made
\* it to the record is left from before (Reconcile on Linux, no query failing).
ReapedBeforeServing ==
    mode[Server] = "up" /\ dbFaults = 0 =>
        \A r \in Runs : ~(pc[r] = "dead" /\ alive[r] /\ row[r].pid = spawned[r])

\* A record that reached a final status keeps it (RunStatus.Terminal).
TerminalIsFinal ==
    [][\A r \in Runs : row[r].status \in TerminalStatus => row'[r].status = row[r].status]_vars

\* When no run is in flight every repository can take one: no slot is held and
\* no record says starting or running.
QuiescentMeansFree ==
    /\ mode[Server] = "up" /\ dbFaults = 0
    /\ \A r \in Runs : pc[r] \in {"unused", "done", "dead"}
    => /\ \A r \in Runs : row[r].status \notin ActiveStatus
       /\ \A q \in Repos : active[Server][q] = NoRun

\* Once Shutdown began, no run of this server starts any more, not even a
\* retention run that a backup hands over to ("No new run starts afterwards").
NothingStartsAfterShutdown ==
    [][shut # "no" /\ shut' # "no" =>
         \A r \in Runs : pc[r] = "unused" /\ pc'[r] # "unused" => owner'[r] # Server]_vars

\* With one process the coordinator implements per-repository serialization of
\* the runs it told a caller it started.
Serial == INSTANCE RepositorySerial WITH
    status <- [r \in Runs |-> IF pc[r] = "ghost" THEN "none" ELSE row[r].status],
    repo <- [r \in Runs |-> IF pc[r] = "ghost" THEN NoRepo ELSE repoOf[r]],
    relieved <- {b \in Runs : next[b] # NoRun}

ImplementsSerial == Serial!Spec

\* A stop accepted by the process driving the run ends it: the final status is
\* recorded and the repository slot is given up.
StopFreesRepository ==
    \A r \in Runs :
        stopped[r] ~> \/ pc[r] = "dead"
                      \/ /\ row[r].status \in TerminalStatus
                         /\ active[owner[r]][repoOf[r]] # r

\* Shutdown gets to the end of the runs it stops instead of waiting in vain.
ShutdownDrains == shut = "waiting" ~> shut # "waiting"
=============================================================================
