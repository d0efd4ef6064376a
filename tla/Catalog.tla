------------------------------ MODULE Catalog ------------------------------
(***************************************************************************)
(* What is backed up, where to and when: sources (folders and databases),  *)
(* repositories and jobs, kept by the server in a database and edited by   *)
(* the dialogs and cards of any number of browser tabs.  A form is filled  *)
(* from what its page had loaded, sent, handled by the server in several   *)
(* steps that are separate statements of the database, and answered; other *)
(* forms and the runs of the jobs go on between any two of these.          *)
(*                                                                         *)
(* Names are left out: a name that is in use is one reason more for which  *)
(* a statement that stores a row may be refused.  So are the fields of a   *)
(* repository that say where it is; its password stands for both secrets.  *)
(* Forms stand for every client: restic-webctl and callers of the API fill *)
(* theirs in the same way, and with more than the pages offer.             *)
(***************************************************************************)
EXTENDS Naturals, FiniteSets

CONSTANTS Folders,      \* paths of folders
          Databases,    \* databases inside containers
          Sources, Repositories, Jobs,   \* bound: ids that are handed out
          Passwords,    \* passwords a user may type
          Settings,     \* values of a check, limit, schedule or retention
          Forms,        \* bound: dialogs and cards in use at once
          MaxOpened,    \* bound: forms that are opened
          MaxFaults,    \* bound: lost answers, also the database's, failed undos, crashes
          Nobody,       \* no source, no repository, no job, no place
          Blank,        \* a password left empty
          Off           \* a setting never made

Places == Folders \union Databases

ASSUME IdsAreIds == Nobody \notin Sources \union Repositories \union Jobs \union Places
ASSUME ValuesDiffer == Blank \notin Passwords /\ Off \notin Settings
ASSUME PlacesDiffer == Folders \intersect Databases = {}
ASSUME BoundsAreNat == MaxOpened \in Nat /\ MaxFaults \in Nat

VARIABLES
    sources,    \* rows of folders and databases: [state, place]
    repos,      \* rows of repositories: [state, password, check, limit]
    jobs,       \* rows of jobs: [state, source, repo, schedule, retention]
    slot,       \* slot[r]: the run the coordinator lets work on r
    snaps,      \* <<r, j>>: repository r holds snapshots tagged for job j
    form,       \* form[n]: a dialog or card and the request it sent
    late,       \* history: jobs for which a backup began after the job was gone
    moved,      \* history: jobs that were given another repository
    forgot,     \* history: <<r, j>>: job j was deleted with its snapshots, by a run on r
    opened, faults

store == <<sources, repos, jobs>>
past  == <<late, moved, forgot>>
work  == <<slot, snaps, past>>
vars  == <<store, work, form, opened, faults>>

States  == {"unused", "live", "deleted"}
Setting == Settings \union {Off}
NoRow   == [state |-> "unused", source |-> Nobody, repo |-> Nobody, schedule |-> Off, retention |-> Off]
NoRepo  == [state |-> "unused", password |-> Blank, check |-> Off, limit |-> Off]
Closed  == [kind |-> "none", phase |-> "closed", on |-> Nobody, job |-> NoRow,
            value |-> Off, password |-> Blank, place |-> Nobody, then |-> FALSE,
            read |-> NoRepo, made |-> Nobody, at |-> Nobody]
Idle    == [kind |-> "none", job |-> Nobody]

Live(rows)   == {x \in DOMAIN rows : rows[x].state = "live"}
Unused(rows) == {x \in DOMAIN rows : rows[x].state = "unused"}

SourceUsed(s) == \E j \in Live(jobs) : jobs[j].source = s
RepoUsed(r)   == \E j \in Live(jobs) : jobs[j].repo = r
\* The rows for a folder, or for a database of a container.
SourceAt(p)   == {s \in Live(sources) : sources[s].place = p}

\* Job j may have to do with repository r: it is its own, or it was another's before.
Owns(r, j) == jobs[j].repo = r \/ j \in moved

-----------------------------------------------------------------------------
(* Forms: what each page offers once it has loaded, and what a form is      *)
(* filled with.  A page shows only what is live when it loads.              *)

F(kind, on) == [Closed EXCEPT !.kind = kind, !.phase = "open", !.on = on]

\* FolderDialog: a new folder, or another path for one.
FolderDialog == {[F("folder", s) EXCEPT !.place = p] :
                    s \in {Nobody} \union {x \in Live(sources) : sources[x].place \in Folders},
                    p \in Folders}
\* DatabaseSources: databases are added from the Coolify page, here only deleted.
DatabaseSources == {F("remove source", s) : s \in {x \in Live(sources) : sources[x].place \in Databases}}
FoldersRoute == FolderDialog \union DatabaseSources \union
                {F("remove source", s) : s \in {x \in Live(sources) : sources[x].place \in Folders}}

\* RepositoryDialog: passwords are never loaded; when editing, an empty one means
\* to keep what is stored.
RepositoryDialog == {[F("repository", r) EXCEPT !.password = w] :
                        r \in {Nobody} \union Live(repos), w \in Passwords \union {Blank}}
RepositoryCard(r) == {f \in RepositoryDialog : f.on = r} \union {F("remove repository", r)}
RepositoriesRoute == {f \in RepositoryDialog : f.on = Nobody} \union
                     UNION {RepositoryCard(r) : r \in Live(repos)}

CheckScheduleCard == {[F("check", r) EXCEPT !.value = v] : r \in Live(repos), v \in Settings}
SpeedLimitCard    == {[F("limit", r) EXCEPT !.value = v] : r \in Live(repos), v \in Settings}
RepositoryDetail  == {f \in RepositoryDialog : f.on # Nobody} \union CheckScheduleCard \union
                     SpeedLimitCard \union {F("reset", r) : r \in Live(repos)}

JobOf(s, r, v) == [NoRow EXCEPT !.source = s, !.repo = r, !.schedule = v]
\* NewJobDialog: only when there is a source and a repository to pick.
NewJobDialog == {[F("job", Nobody) EXCEPT !.job = JobOf(s, r, v)] :
                    s \in Live(sources), r \in Live(repos), v \in Setting}
JobsRoute    == NewJobDialog \union {F("run", j) : j \in Live(jobs)}

\* Jobs.save sends the whole job as it was loaded, with the one change.
ScheduleEditor  == {[F("save", j) EXCEPT !.job = [jobs[j] EXCEPT !.schedule = v]] :
                        j \in Live(jobs), v \in Settings}
RetentionEditor == {[F("save", j) EXCEPT !.job = [jobs[j] EXCEPT !.retention = v]] :
                        j \in Live(jobs), v \in Settings}
JobDeleteDialog == {[F("remove job", j) EXCEPT !.then = b] : j \in Live(jobs), b \in BOOLEAN}
JobDetail       == ScheduleEditor \union RetentionEditor \union JobDeleteDialog \union
                   {F("run", j) : j \in Live(jobs)}

\* restic-webctl job update, and PUT: the job may get another source and repository.
Given(j, s, r) == [jobs[j] EXCEPT !.source = s, !.repo = r]
JobUpdate      == {[F("save", j) EXCEPT !.job = Given(j, s, r)] :
                      j \in Live(jobs), s \in Live(sources), r \in Live(repos)}

\* QuickBackupDialog: then is "run the first backup now".
QuickBackupDialog(p) == {[F("quick", Nobody) EXCEPT !.place = p, !.then = b, !.job = JobOf(Nobody, r, v)] :
                           b \in BOOLEAN, r \in Live(repos), v \in Setting}
\* What was discovered on the host has its row: that it is backed up, or a button.
BackedUp(p) == SourceAt(p) # {} /\ \A s \in SourceAt(p) : SourceUsed(s)
VolumeRow(p)         == IF BackedUp(p) THEN {} ELSE QuickBackupDialog(p)
DatabaseServerRow(p) == IF BackedUp(p) THEN {} ELSE QuickBackupDialog(p)
CoolifyRoute == (UNION {VolumeRow(p) : p \in Folders}) \union (UNION {DatabaseServerRow(p) : p \in Databases})

Pages == FoldersRoute \union RepositoriesRoute \union RepositoryDetail \union
         JobsRoute \union JobDetail \union CoolifyRoute \union JobUpdate

-----------------------------------------------------------------------------
(* Sending a form and hearing of it.                                        *)

Open(n) ==
    /\ form[n] = Closed /\ opened < MaxOpened
    /\ opened' = opened + 1
    /\ \E f \in Pages : form' = [form EXCEPT ![n] = f]
    /\ UNCHANGED <<store, work, faults>>

\* The user gives up, or the page loads again and its form is filled anew.
Cancel(n) ==
    /\ form[n].phase = "open"
    /\ form' = [form EXCEPT ![n] = Closed]
    /\ UNCHANGED <<store, work, opened, faults>>

Submit(n) ==
    /\ form[n].phase = "open"
    /\ form' = [form EXCEPT ![n].phase = "sent"]
    /\ UNCHANGED <<store, work, opened, faults>>

Phase(n, p)   == form' = [form EXCEPT ![n].phase = p]
Handles(n, kind, p) == form[n].kind = kind /\ form[n].phase = p

\* After a failure a dialog or card keeps what was typed; a question that was
\* confirmed and a button are gone.
Failed(f) == IF f.kind \in {"remove source", "remove repository", "reset", "run"} THEN Closed
             ELSE [f EXCEPT !.phase = "open", !.read = NoRepo, !.made = Nobody, !.at = Nobody,
                            !.on = IF f.kind \in {"job", "quick"} THEN Nobody ELSE f.on]

\* A dialog closes; QuickBackupDialog may go on to run the job it has made.
Answered(n) ==
    /\ form[n].phase \in {"ok", "refused"}
    /\ form' = [form EXCEPT ![n] =
           CASE @.phase = "refused"                -> Failed(@)
             [] @.phase = "ok" /\ ~(@.kind = "quick" /\ @.then) -> Closed
             [] @.phase = "ok" /\ @.kind = "quick" /\ @.then    -> [F("run", @.on) EXCEPT !.phase = "sent"]]
    /\ UNCHANGED <<store, work, opened, faults>>

\* The answer is lost: to the form that is a failure.
AnswerLost(n) ==
    /\ form[n].phase \in {"ok", "refused"} /\ faults < MaxFaults
    /\ faults' = faults + 1
    /\ form' = [form EXCEPT ![n] = Failed(@)]
    /\ UNCHANGED <<store, work, opened>>

\* Validation, a name in use, a statement that fails, a busy repository.
Refused(n) ==
    /\ form[n].phase = "checked" \/ (form[n].phase = "sent" /\ form[n].kind # "quick")
    /\ Phase(n, "refused")
    /\ UNCHANGED <<store, work, opened, faults>>

-----------------------------------------------------------------------------
(* Sources.                                                                 *)

SaveFolder(n) ==
    /\ Handles(n, "folder", "sent")
    /\ \/ /\ form[n].on = Nobody
          /\ \E s \in Unused(sources) :
                sources' = [sources EXCEPT ![s] = [state |-> "live", place |-> form[n].place]]
          /\ Phase(n, "ok")
       \/ /\ form[n].on \in Live(sources)
          /\ sources' = [sources EXCEPT ![form[n].on].place = form[n].place]
          /\ Phase(n, "ok")
    /\ UNCHANGED <<repos, jobs, work, opened, faults>>

CheckUnused(n) ==
    /\ \/ Handles(n, "remove source", "sent") /\ ~SourceUsed(form[n].on)
       \/ Handles(n, "remove repository", "sent") /\ ~RepoUsed(form[n].on)
    /\ Phase(n, "checked")
    /\ UNCHANGED <<store, work, opened, faults>>

\* Mutant: jobs do not hold on to their source.
MayDropAnySource(s) == s \in Live(sources)
\* DELETE: the foreign key of jobs restricts it.
MayDropSource(s) == s \in Live(sources) /\ ~SourceUsed(s)
MayDropRepo(r)   == r \in Live(repos) /\ ~RepoUsed(r)

RemoveSource(n) ==
    /\ Handles(n, "remove source", "checked")
    /\ MayDropSource(form[n].on)
    /\ sources' = [sources EXCEPT ![form[n].on].state = "deleted"]
    /\ Phase(n, "ok")
    /\ UNCHANGED <<repos, jobs, work, opened, faults>>

-----------------------------------------------------------------------------
(* Repositories.                                                            *)

CreateRepository(n) ==
    /\ Handles(n, "repository", "sent") /\ form[n].on = Nobody /\ form[n].password # Blank
    /\ \E r \in Unused(repos) :
          repos' = [repos EXCEPT ![r] = [NoRepo EXCEPT !.state = "live", !.password = form[n].password]]
    /\ Phase(n, "ok")
    /\ UNCHANGED <<sources, jobs, work, opened, faults>>

\* handleRepoUpdate reads what is stored, to fill in what was left empty ...
ReadStored(n) ==
    /\ Handles(n, "repository", "sent") /\ form[n].on \in Live(repos)
    /\ form' = [form EXCEPT ![n].read = repos[form[n].on], ![n].phase = "checked"]
    /\ UNCHANGED <<store, work, opened, faults>>

\* Mutant: an empty password is stored as it is.
EditedAsTyped(row, f) == [row EXCEPT !.password = f.password]

\* Mutant: the settings that have their own setters are written back too.
EditedWhole(row, f) ==
    [f.read EXCEPT !.password = IF f.password = Blank THEN f.read.password ELSE f.password]

\* ... and writes every column but those of the settings with their own setters.
Edited(row, f) ==
    [row EXCEPT !.password = IF f.password = Blank THEN f.read.password ELSE f.password]

EditRepository(n) ==
    /\ Handles(n, "repository", "checked") /\ form[n].on \in Live(repos)
    /\ repos' = [repos EXCEPT ![form[n].on] = Edited(@, form[n])]
    /\ Phase(n, "ok")
    /\ UNCHANGED <<sources, jobs, work, opened, faults>>

SetSetting(n) ==
    /\ form[n].on \in Live(repos)
    /\ \/ /\ Handles(n, "check", "sent")
          /\ repos' = [repos EXCEPT ![form[n].on].check = form[n].value]
       \/ /\ Handles(n, "limit", "sent")
          /\ repos' = [repos EXCEPT ![form[n].on].limit = form[n].value]
    /\ Phase(n, "ok")
    /\ UNCHANGED <<sources, jobs, work, opened, faults>>

RemoveRepository(n) ==
    /\ Handles(n, "remove repository", "checked")
    /\ MayDropRepo(form[n].on)
    /\ repos' = [repos EXCEPT ![form[n].on].state = "deleted"]
    /\ Phase(n, "ok")
    /\ UNCHANGED <<sources, jobs, work, opened, faults>>

-----------------------------------------------------------------------------
(* Jobs.                                                                    *)

\* ValidateJobRefs; and what the foreign keys demand of a row that is stored.
RefsLive(job) == job.source \in Live(sources) /\ job.repo \in Live(repos)

CheckRefs(n) ==
    /\ Handles(n, "job", "sent") \/ Handles(n, "save", "sent")
    /\ RefsLive(form[n].job)
    /\ Phase(n, "checked")
    /\ UNCHANGED <<store, work, opened, faults>>

\* form[n].on is the new job's id in the answer.
InsertJob(n) ==
    /\ RefsLive(form[n].job)
    /\ \E j \in Unused(jobs) :
          /\ jobs' = [jobs EXCEPT ![j] = [form[n].job EXCEPT !.state = "live"]]
          /\ form' = [form EXCEPT ![n].on = j, ![n].phase = "ok"]
    /\ UNCHANGED <<sources, repos, work, opened, faults>>

CreateJob(n) == Handles(n, "job", "checked") /\ InsertJob(n)

\* PUT replaces the whole job, its repository too; snapshots stay where they are.
SaveJob(n) ==
    /\ Handles(n, "save", "checked")
    /\ form[n].on \in Live(jobs) /\ RefsLive(form[n].job)
    /\ jobs' = [jobs EXCEPT ![form[n].on] = form[n].job]
    /\ moved' = IF form[n].job.repo = jobs[form[n].on].repo THEN moved ELSE moved \union {form[n].on}
    /\ Phase(n, "ok")
    /\ UNCHANGED <<sources, repos, slot, snaps, late, forgot, opened, faults>>

\* JobActiveRun, which is asked before a job is deleted or forgotten.
Active(j) == \E r \in Repositories : slot[r].job = j
CheckIdle(n) ==
    /\ Handles(n, "remove job", "sent") /\ ~form[n].then /\ ~Active(form[n].on)
    /\ Phase(n, "checked")
    /\ UNCHANGED <<store, work, opened, faults>>

RemoveJob(n) ==
    /\ Handles(n, "remove job", "checked") /\ ~form[n].then /\ form[n].on \in Live(jobs)
    /\ jobs' = [jobs EXCEPT ![form[n].on].state = "deleted"]
    /\ Phase(n, "ok")
    /\ UNCHANGED <<sources, repos, work, opened, faults>>

-----------------------------------------------------------------------------
(* Runs, as far as they change what is stored: Coordinator has the rest.    *)

Begin(n, r, run) ==
    /\ slot[r] = Idle
    /\ slot' = [slot EXCEPT ![r] = run]
    /\ Phase(n, "ok")
    /\ UNCHANGED <<store, snaps, moved, forgot, opened, faults>>

\* A run works on the repository that its job had when it was resolved, before
\* the coordinator is asked for the slot.
ResolveJob(n) ==
    /\ \/ Handles(n, "run", "sent")
       \/ Handles(n, "remove job", "sent") /\ form[n].then /\ ~Active(form[n].on)
    /\ form[n].on \in Live(jobs)
    /\ form' = [form EXCEPT ![n].at = jobs[form[n].on].repo, ![n].phase = "checked"]
    /\ UNCHANGED <<store, work, opened, faults>>

StartBackup(n) ==
    /\ Handles(n, "run", "checked")
    /\ Begin(n, form[n].at, [kind |-> "backup", job |-> form[n].on])
    /\ late' = IF form[n].on \in Live(jobs) THEN late ELSE late \union {form[n].on}

\* Mutant: the job is deleted without waiting for its repository.
StartForgetJobAnyway(n) ==
    /\ Handles(n, "remove job", "checked") /\ form[n].then
    /\ jobs' = [jobs EXCEPT ![form[n].on].state = "deleted"]
    /\ snaps' = snaps \ {<<form[n].at, form[n].on>>}
    /\ forgot' = forgot \union {<<form[n].at, form[n].on>>}
    /\ Phase(n, "ok")
    /\ UNCHANGED <<sources, repos, slot, late, moved, opened, faults>>

\* StartForgetJob with deleteJob.
StartForgetJob(n) ==
    /\ Handles(n, "remove job", "checked") /\ form[n].then
    /\ Begin(n, form[n].at, [kind |-> "forget", job |-> form[n].on])
    /\ UNCHANGED late

StartResetRepo(n) ==
    /\ Handles(n, "reset", "sent") /\ form[n].on \in Live(repos)
    /\ Begin(n, form[n].on, [kind |-> "reset", job |-> Nobody])
    /\ UNCHANGED late

\* restic is done with what the run came for ...
ResticSucceeds(r) ==
    LET run == slot[r]
    IN /\ \/ /\ run.kind = "backup"
             /\ snaps' = snaps \union {<<r, run.job>>}
             /\ slot' = [slot EXCEPT ![r] = Idle]
          \/ /\ run.kind = "reset"
             /\ snaps' = {x \in snaps : x[1] # r}
             /\ slot' = [slot EXCEPT ![r] = Idle]
          \/ /\ run.kind = "forget"
             /\ snaps' = snaps \ {<<r, run.job>>}
             /\ slot' = [slot EXCEPT ![r].kind = "forgotten"]
       /\ UNCHANGED <<store, past, form, opened, faults>>

\* ... and only then is the job's row deleted, if it is still there.
EraseJob(r) ==
    LET j == slot[r].job
    IN /\ slot[r].kind = "forgotten"
       /\ IF j \in Live(jobs)
          THEN /\ jobs' = [jobs EXCEPT ![j].state = "deleted"]
               /\ forgot' = forgot \union {<<r, j>>}
          ELSE UNCHANGED <<jobs, forgot>>
       /\ slot' = [slot EXCEPT ![r] = Idle]
       /\ UNCHANGED <<sources, repos, snaps, late, moved, form, opened, faults>>

\* restic, or the statement after it, fails, or the run is stopped.
RunFails(r) ==
    /\ slot[r] # Idle
    /\ slot' = [slot EXCEPT ![r] = Idle]
    /\ UNCHANGED <<store, snaps, past, form, opened, faults>>

-----------------------------------------------------------------------------
(* CreateQuickJob: a source, made or found, and a job for it.               *)

\* The source to use is looked up; when there is none one must be made.
FindSource(n) ==
    /\ Handles(n, "quick", "sent")
    /\ IF form[n].job.repo \notin Live(repos) THEN Phase(n, "refused")
       ELSE IF SourceAt(form[n].place) = {} THEN Phase(n, "make")
       ELSE \E s \in SourceAt(form[n].place) :
               form' = [form EXCEPT ![n].job.source = s, ![n].phase = "placed"]
    /\ UNCHANGED <<store, work, opened, faults>>

\* Its INSERT may be refused; with a fault it took effect though it failed.
MakeSource(n) ==
    /\ Handles(n, "quick", "make")
    /\ \/ \E s \in Unused(sources) :
             /\ sources' = [sources EXCEPT ![s] = [state |-> "live", place |-> form[n].place]]
             /\ \/ /\ form' = [form EXCEPT ![n].job.source = s, ![n].made = s, ![n].phase = "placed"]
                   /\ UNCHANGED faults
                \/ Phase(n, "refused") /\ faults < MaxFaults /\ faults' = faults + 1
       \/ UNCHANGED <<sources, faults>> /\ Phase(n, "refused")
    /\ UNCHANGED <<repos, jobs, work, opened>>

\* Mutant: there is no undo.
AfterQuickRefusedNoUndo(f) == "refused"

\* The job is refused: its references are gone, its name is in use, or its
\* INSERT fails. Undo follows if the source was made for it.
AfterQuickRefused(f) == IF f.made = Nobody THEN "refused" ELSE "undo"

\* The INSERT of the job took effect, though it failed.
InsertUnheard(n) ==
    /\ RefsLive(form[n].job) /\ faults < MaxFaults
    /\ \E j \in Unused(jobs) : jobs' = [jobs EXCEPT ![j] = [form[n].job EXCEPT !.state = "live"]]
    /\ Phase(n, AfterQuickRefused(form[n]))
    /\ faults' = faults + 1
    /\ UNCHANGED <<sources, repos, work, opened>>

QuickJob(n) ==
    /\ Handles(n, "quick", "placed")
    /\ \/ InsertJob(n)
       \/ InsertUnheard(n)
       \/ /\ Phase(n, AfterQuickRefused(form[n]))
          /\ UNCHANGED <<store, work, opened, faults>>

\* The error of the undo is dropped: with a fault the source stays.
Undo(n) ==
    /\ Handles(n, "quick", "undo")
    /\ \/ /\ MayDropSource(form[n].made)
          /\ sources' = [sources EXCEPT ![form[n].made].state = "deleted"]
          /\ UNCHANGED faults
       \/ ~MayDropSource(form[n].made) /\ UNCHANGED <<sources, faults>>
       \/ faults < MaxFaults /\ faults' = faults + 1 /\ UNCHANGED sources
    /\ Phase(n, "refused")
    /\ UNCHANGED <<repos, jobs, work, opened>>

\* The server goes down between any two statements; runs do not go on.
Crash ==
    /\ faults < MaxFaults /\ faults' = faults + 1
    /\ slot' = [r \in Repositories |-> Idle]
    /\ form' = [n \in Forms |-> IF form[n].phase \in {"closed", "open"} THEN form[n]
                                ELSE Failed(form[n])]
    /\ UNCHANGED <<store, snaps, past, opened>>

-----------------------------------------------------------------------------
\* Any content that the program itself could have stored.
Init ==
    /\ sources \in [Sources -> [state : {"unused", "live"}, place : Places \union {Nobody}]]
    /\ \A s \in Sources : sources[s].state = "live" <=> sources[s].place \in Places
    /\ repos \in [Repositories -> {NoRepo} \union
                     [state : {"live"}, password : Passwords, check : {Off}, limit : {Off}]]
    /\ jobs \in [Jobs -> {NoRow} \union [state : {"live"}, source : Sources, repo : Repositories,
                                         schedule : {Off}, retention : {Off}]]
    /\ \A j \in Live(jobs) : RefsLive(jobs[j])
    /\ slot = [r \in Repositories |-> Idle]
    /\ snaps \in SUBSET (Repositories \X Live(jobs))
    /\ late = {} /\ forgot = {}
    /\ moved = {j \in Jobs : \E r \in Repositories : <<r, j>> \in snaps /\ r # jobs[j].repo}
    /\ form = [n \in Forms |-> Closed]
    /\ opened = 0 /\ faults = 0

FormStep(n)   == Open(n) \/ Cancel(n) \/ Submit(n) \/ Answered(n) \/ AnswerLost(n) \/ Refused(n)
SourceStep(n) == SaveFolder(n) \/ CheckUnused(n) \/ RemoveSource(n)
RepoStep(n)   == CreateRepository(n) \/ ReadStored(n) \/ EditRepository(n) \/ SetSetting(n) \/ RemoveRepository(n)
JobStep(n)    == CheckRefs(n) \/ CreateJob(n) \/ SaveJob(n) \/ CheckIdle(n) \/ RemoveJob(n)
StartStep(n)  == ResolveJob(n) \/ StartBackup(n) \/ StartForgetJob(n) \/ StartResetRepo(n)
QuickStep(n)  == FindSource(n) \/ MakeSource(n) \/ QuickJob(n) \/ Undo(n)
RunStep(r)    == ResticSucceeds(r) \/ EraseJob(r) \/ RunFails(r)

Next == \/ \E n \in Forms : \/ FormStep(n) \/ SourceStep(n) \/ RepoStep(n)
                             \/ JobStep(n) \/ StartStep(n) \/ QuickStep(n)
        \/ \E r \in Repositories : RunStep(r)
        \/ Crash

Spec == Init /\ [][Next]_vars

-----------------------------------------------------------------------------
(* Properties.                                                              *)

FormKinds == {"none", "folder", "remove source", "repository", "remove repository", "check",
              "limit", "reset", "job", "save", "remove job", "run", "quick"}
Phases    == {"closed", "open", "sent", "checked", "make", "placed", "undo", "ok", "refused"}
SourceRows == [state : States, place : Places \union {Nobody}]
RepoRows   == [state : States, password : Passwords \union {Blank}, check : Setting, limit : Setting]
JobRows    == [state : States, source : Sources \union {Nobody}, repo : Repositories \union {Nobody},
               schedule : Setting, retention : Setting]
Targets    == Sources \union Repositories \union Jobs \union {Nobody}
FormRows   == [kind : FormKinds, phase : Phases, on : Targets, job : JobRows, value : Setting,
               password : Passwords \union {Blank}, place : Places \union {Nobody}, then : BOOLEAN,
               read : RepoRows, made : Sources \union {Nobody}, at : Repositories \union {Nobody}]

\* Type invariant. A run of a job is in the slot of the job's own repository,
\* unless the job was given another one, and a repository that exists has a
\* password.
TypeOK ==
    /\ sources \in [Sources -> SourceRows] /\ repos \in [Repositories -> RepoRows]
    /\ jobs \in [Jobs -> JobRows]
    /\ slot \in [Repositories -> [kind : {"none", "backup", "forget", "forgotten", "reset"},
                                  job : Jobs \union {Nobody}]]
    /\ snaps \subseteq Repositories \X Jobs /\ forgot \subseteq Repositories \X Jobs
    /\ late \subseteq Jobs /\ moved \subseteq Jobs
    /\ form \in [Forms -> FormRows]
    /\ opened \in 0..MaxOpened /\ faults \in 0..MaxFaults
    /\ \A r \in Repositories : slot[r].job # Nobody => Owns(r, slot[r].job)
    /\ \A r \in Live(repos) : repos[r].password # Blank

\* A job that exists has its source and its repository, whatever was deleted
\* while requests that were checked earlier were still on their way (the
\* handlers' checks and the foreign keys of jobs).
References == \A j \in Live(jobs) : RefsLive(jobs[j])

\* A job deleted together with its snapshots leaves none behind in the repository
\* on which they were forgotten, whatever ran or was asked for meanwhile: the
\* forget run holds that repository from before it lists the snapshots until the
\* job is gone (StartForgetJob). It leaves none in any other either, unless the
\* job was given another repository at some time: nobody asks the one it had
\* before (JobStore.Update). Excused is a backup that had resolved the job and
\* got its slot when the job was gone.
ForgetTakesAll ==
    \A x \in forgot :
       x[2] \notin late => /\ x \notin snaps
                          /\ (x[2] \notin moved => \A r \in Repositories : <<r, x[2]>> \notin snaps)

\* A repository's password, its check schedule and its speed limits are set by
\* three forms, none of which undoes what another of them saved, even between
\* the read and the write of an edit (pgRepoStore.Update).
Saves(n, kind, r) == form[n].kind = kind /\ form[n].on = r /\ form[n].phase # "ok" /\ form'[n].phase = "ok"
SettersKeepApart ==
    [][\A r \in Live(repos), n \in Forms :
          /\ Saves(n, "repository", r) => repos'[r] = [repos[r] EXCEPT !.password = repos'[r].password]
          /\ Saves(n, "check", r)      => repos'[r] = [repos[r] EXCEPT !.check = repos'[r].check]
          /\ Saves(n, "limit", r)      => repos'[r] = [repos[r] EXCEPT !.limit = repos'[r].limit]]_vars

\* An attempt to make a job in one step that is refused leaves no source behind
\* that it made: it is deleted, by the attempt or by someone else, or another
\* job uses it by now. Only a failing undo, a statement that took effect though it
\* failed, or a crash leaves one (CreateQuickJob).
QuickLeavesNothing ==
    [][\A n \in Forms :
          (/\ form[n].kind = "quick" /\ form[n].made # Nobody
           /\ form[n].phase # "refused" /\ form'[n].phase = "refused" /\ faults' = faults)
          => \/ sources'[form[n].made].state = "deleted"
             \/ \E j \in Live(jobs) : jobs[j].source = form[n].made]_vars
=============================================================================
