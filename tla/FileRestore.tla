---------------------------- MODULE FileRestore ----------------------------
(***************************************************************************)
(* Restoring files: what the dialogs of the snapshots panel ask for, the   *)
(* plan the server makes of it, the containers it stops meanwhile, and     *)
(* what restic then writes and deletes.  A path is a sequence: <<>> is the *)
(* root, <<f>> a backed-up folder, <<f, x>> a file in it, and <<t, f, x>>  *)
(* what a restore into the folder t makes of it.                           *)
(*                                                                         *)
(* A repository holds snapshots of any shape.  The coordinator lets one    *)
(* run work on a repository; runs on two repositories go on side by side,  *)
(* on the same folders and containers.  What the n-th restore wrote is n.  *)
(***************************************************************************)
EXTENDS Naturals, FiniteSets, SequencesExt

CONSTANTS Repositories, Folders, Files, Containers,
          NoPath,      \* no path
          MaxStored,   \* bound: files in a snapshot
          MaxSelected, \* bound: paths that are selected
          MaxRuns,     \* bound: restores that are started
          MaxFaults,   \* bound: queries and row updates that fail, what Docker refuses a run,
                       \* what others do to containers
          MaxCrashes   \* bound: times the server goes down

ASSUME BoundsAreNat == {MaxStored, MaxSelected, MaxRuns, MaxFaults, MaxCrashes} \subseteq Nat
ASSUME NamesDiffer  == Folders \intersect Files = {} /\ Repositories \intersect Containers = {}

VARIABLES
    disk,       \* disk[p]: who wrote the file p: the site, a restore, or nothing is there
    mount,      \* mount[c]: the folder container c works in
    state,      \* state[c]: up, down, or stopped by a restore
    dialog,     \* the dialog on screen
    run,        \* run[r]: the active restore of repository r
    booting,    \* containers that the server starts after it has booted
    abandoned,  \* history: stopped containers nobody will start any more
    started, faults, crashes

docker == <<mount, state, booting, abandoned>>
bounds == <<started, faults, crashes>>
vars   == <<disk, docker, dialog, run, bounds>>

Roots   == {<<f>> : f \in Folders}
Targets == Roots \union {<<>>}
InPlace == {<<f, x>> : f \in Folders, x \in Files}
Paths   == InPlace \union {t \o p : t \in Roots, p \in InPlace}
within(p, base) == IsPrefix(base, p)
Nothing == 0
Site    == MaxRuns + 1

\* A snapshot of a job holds one folder; a repository may hold others.
Snapshots ==
    {s \in [paths : SUBSET Roots \ {{}}, files : SUBSET InPlace] :
        /\ \A p \in s.files : \E q \in s.paths : within(p, q)
        /\ Cardinality(s.files) \in 1..MaxStored}
NoSnapshot == [paths |-> {}, files |-> {}]

Fault == faults < MaxFaults /\ faults' = faults + 1

-----------------------------------------------------------------------------
(* The dialogs of the snapshots panel. While one is open it asks which      *)
(* containers use the folder it would restore over; the rest of what the    *)
(* user chose matters only when the request is sent.                        *)

NoDialog == [watched |-> NoPath, offered |-> FALSE]
Ask(s, t, x, w) == [snap |-> s, target |-> t, include |-> x, watched |-> w]

\* RestoreDialog: in the folder the job has by now, or anywhere else.
RestoreDialog(s) ==
    {Ask(s, t, {}, t) : t \in IF Cardinality(s.paths) = 1 THEN Roots ELSE {}}
    \union {Ask(s, t, {}, NoPath) : t \in Targets}

Nodes(s)      == s.paths \union s.files
Selections(s) == {x \in SUBSET Nodes(s) \ {{}} : Cardinality(x) <= MaxSelected}

\* The backed-up folder that holds every selected path, if there is one.
commonRoot(s, selected) == {p \in s.paths : \A q \in selected : within(q, p)}

\* SnapshotBrowser: the selection goes back where it was, or under another folder.
SnapshotBrowser(s) ==
    {Ask(s, t, x, NoPath) : t \in Targets, x \in Selections(s)}
    \union UNION {{Ask(s, p, x, p) : p \in commonRoot(s, x)} : x \in Selections(s)}

\* The panel may still show a snapshot that is gone: the run then fails.
SnapshotsPanel == UNION {RestoreDialog(s) \union SnapshotBrowser(s) : s \in Snapshots}

\* A dialog is opened on a folder, or is turned to it.
OpenDialog ==
    /\ started < MaxRuns
    /\ \E p \in Roots \ {dialog.watched} : dialog' = [NoDialog EXCEPT !.watched = p]
    /\ UNCHANGED <<disk, docker, run, bounds>>

CloseDialog ==
    /\ dialog # NoDialog /\ dialog' = NoDialog
    /\ UNCHANGED <<disk, docker, run, bounds>>

\* Discovery.ContainersUsingPath: this program's and Coolify's own left aside.
Using(p) == {c \in Containers : state[c] = "up" /\ (within(mount[c], p) \/ within(p, mount[c]))}

\* useContainersUsing: until it is answered the dialog does not offer to stop the site.
ContainersKnown ==
    /\ dialog.watched # NoPath /\ ~dialog.offered /\ Using(dialog.watched) # {}
    /\ dialog' = [dialog EXCEPT !.offered = TRUE]
    /\ UNCHANGED <<disk, docker, run, bounds>>

-----------------------------------------------------------------------------
(* The plan of a restore (restore_target.go).                               *)

\* Mutant: a restore into a folder of the snapshot is like any other.
resolvedNested(target, paths) ==
    IF target = <<>> THEN [target |-> <<>>, include |-> paths] ELSE [target |-> target, include |-> {}]

\* planResticRestore: a target that is a path of the snapshot means in place.
resolved(target, paths) ==
    CASE target \in paths -> [target |-> <<>>, include |-> {target}]
      [] target = <<>>    -> [target |-> <<>>, include |-> paths]
      [] OTHER            -> [target |-> target, include |-> {}]

\* Mutant: a selection replaces everything in the folder it was made in.
SelectedLost(whole, selected) == whole
\* planResticRestoreSelection.
Selected(whole, selected) == IF selected = {} THEN whole ELSE [whole EXCEPT !.include = selected]

Plan(target, paths, selected) == Selected(resolved(target, paths), selected)

\* What it refuses: a selection outside the snapshot, or outside the folder restored in place.
Refuses(target, s, selected) ==
    \E p \in selected :
        \/ p \notin Nodes(s)
        \/ resolved(target, s.paths).target = <<>> /\ ~within(p, target)

-----------------------------------------------------------------------------
(* restic restore --target --delete [--include]: it handles what its filter *)
(* covers, writes what the snapshot has and deletes what it has not.        *)

Covered(plan) ==
    IF plan.include = {} THEN {p \in Paths : within(p, plan.target)}
    ELSE {p \in Paths : \E q \in plan.include : within(p, plan.target \o q)}
Wanted(s, plan) ==
    {plan.target \o p : p \in {q \in s.files :
        plan.include = {} \/ \E i \in plan.include : within(q, i)}}

AtWork(r) == run[r].phase \in {"writing", "deleting"}

\* Somebody writes: a restore that covers it does not alone decide what is there.
Disturb(written, who) ==
    [r \in Repositories |-> IF r # who /\ AtWork(r) /\ written \intersect Covered(run[r].plan) # {}
                            THEN [run[r] EXCEPT !.others = @ \union {who}] ELSE run[r]]

-----------------------------------------------------------------------------
(* The run.                                                                 *)

NoPlan == [target |-> NoPath, include |-> {}]
NoRun  == [phase |-> "none", no |-> 0, snap |-> NoSnapshot, target |-> NoPath, include |-> {}, stop |-> FALSE,
           plan |-> NoPlan, halt |-> {}, halting |-> {}, ours |-> {}, params |-> {}, noted |-> {},
           failed |-> {}, outcome |-> "none", woken |-> {}, others |-> {}]
Active(r) == run[r].phase # "none"

\* StartRestoreWith, refused while the repository is busy; the dialog closes.
Submit ==
    /\ started < MaxRuns /\ started' = started + 1
    /\ dialog' = NoDialog
    /\ \E r \in Repositories, stopSite \in {FALSE, dialog.offered}, q \in SnapshotsPanel :
          /\ ~Active(r) /\ q.watched = dialog.watched
          /\ run' = [run EXCEPT ![r] = [NoRun EXCEPT !.phase = "planning", !.no = started',
                         !.snap = q.snap, !.target = q.target, !.include = q.include,
                         !.stop = stopSite]]
    /\ UNCHANGED <<disk, docker, faults, crashes>>

Set(r, x) == run' = [run EXCEPT ![r] = x]
\* RunStore.mutate: the stopped containers in memory, and in the row unless that is lost.
Records(x, list) == [x EXCEPT !.params = list, !.noted = list]
Loses(x, list)   == [x EXCEPT !.params = list]

\* By any end of its work a run goes on to start the containers it stopped.
Leaves(x, outcome) == [NoRun EXCEPT !.phase = "starting", !.stop = x.stop, !.ours = x.ours,
                                    !.params = x.params, !.noted = x.noted, !.outcome = outcome]
Fails(x) == Leaves(x, "failed")

PlanRestore(r) ==
    LET x == run[r]
        p == [x EXCEPT !.plan = Plan(x.target, x.snap.paths, x.include)]
    IN /\ x.phase = "planning"
       /\ Set(r, CASE Refuses(x.target, x.snap, x.include) -> Fails(x)
                   [] OTHER -> IF x.stop THEN [p EXCEPT !.phase = "listing"] ELSE [p EXCEPT !.phase = "writing"])
       /\ UNCHANGED <<disk, docker, dialog, bounds>>

\* stopContainersUsing: the containers that are up now.
ListContainers(r) ==
    /\ run[r].phase = "listing"
    /\ Set(r, [run[r] EXCEPT !.phase = "stopping", !.halt = Using(run[r].target)])
    /\ UNCHANGED <<disk, docker, dialog, bounds>>

\* Mutant: what is recorded lacks the container that is stopped next.
NotedBefore(x, c) == x.ours
\* The record of the run names a container before it is stopped.
Noted(x, c) == x.ours \union {c}

NoteContainer(r) ==
    /\ run[r].phase = "stopping" /\ run[r].halting = {}
    /\ \E c \in run[r].halt :
          LET x == [run[r] EXCEPT !.halt = @ \ {c}, !.halting = {c}, !.ours = @ \union {c}]
          IN \/ Set(r, Records(x, Noted(run[r], c))) /\ UNCHANGED faults
             \/ Set(r, Loses(x, Noted(run[r], c))) /\ Fault
    /\ UNCHANGED <<disk, docker, dialog, started, crashes>>

Stopped(c) == [state EXCEPT ![c] = IF @ = "up" THEN "stopped" ELSE @]

\* Docker stops it, or says it could not, be that so or not.
StopContainer(r) ==
    /\ run[r].phase = "stopping"
    /\ \E c \in run[r].halting :
          \/ /\ state' = Stopped(c)
             /\ Set(r, [run[r] EXCEPT !.halting = {}])
             /\ UNCHANGED faults
          \/ /\ Fault
             /\ state' \in {state, Stopped(c)}
             /\ Set(r, Fails(run[r]))
    /\ UNCHANGED <<disk, mount, booting, abandoned, dialog, started, crashes>>

\* Mutant: restic does not wait for the last container.
AllStoppedButOne(x) == x.halting = {} /\ Cardinality(x.halt) <= 1
AllStopped(x) == x.halting = {} /\ x.halt = {}

\* The pid is recorded, and with it what is in memory.
StartRestic(r) ==
    /\ run[r].phase = "stopping" /\ AllStopped(run[r])
    /\ LET x == [run[r] EXCEPT !.phase = "writing"]
       IN \/ Set(r, Records(x, x.params)) /\ UNCHANGED faults
          \/ x.noted # x.params /\ Set(r, x) /\ Fault
    /\ UNCHANGED <<disk, docker, dialog, started, crashes>>

ResticWrites(r) ==
    /\ run[r].phase = "writing"
    /\ LET written == Wanted(run[r].snap, run[r].plan)
       IN /\ disk' = [p \in Paths |-> IF p \in written THEN run[r].no ELSE disk[p]]
          /\ run' = [Disturb(written, r) EXCEPT ![r].phase = "deleting"]
    /\ UNCHANGED <<docker, dialog, bounds>>

ResticDeletes(r) ==
    /\ run[r].phase = "deleting"
    /\ LET extra == {p \in Covered(run[r].plan) \ Wanted(run[r].snap, run[r].plan) : disk[p] # Nothing}
       IN /\ disk' = [p \in Paths |-> IF p \in extra THEN Nothing ELSE disk[p]]
          /\ run' = [Disturb(extra, r) EXCEPT ![r] = Leaves(@, "success")]
    /\ UNCHANGED <<docker, dialog, bounds>>

\* A stop of the run, an error of restic or of Docker, a snapshot that is gone.
RunFails(r) ==
    /\ run[r].phase \in {"planning", "listing", "stopping", "writing", "deleting"}
    /\ Set(r, Fails(run[r]))
    /\ UNCHANGED <<disk, docker, dialog, bounds>>

\* A container comes up; the restores that listed the containers before do not know.
Wakes(c, runs) ==
    /\ state' = [state EXCEPT ![c] = "up"]
    /\ abandoned' = abandoned \ {c}
    /\ run' = [r \in Repositories |-> IF runs[r].phase \in {"stopping", "writing", "deleting"}
                                      THEN [runs[r] EXCEPT !.woken = @ \union {c}] ELSE runs[r]]

\* restart, whatever the outcome; what could not be started stays recorded.
StartContainer(r) ==
    /\ run[r].phase = "starting"
    /\ \E c \in run[r].ours :
          \/ Wakes(c, [run EXCEPT ![r].ours = @ \ {c}]) /\ UNCHANGED faults
          \/ /\ Fault
             /\ Set(r, [run[r] EXCEPT !.ours = @ \ {c}, !.failed = @ \union {c}])
             /\ UNCHANGED <<state, abandoned>>
    /\ UNCHANGED <<disk, mount, booting, dialog, started, crashes>>

AllStarted(r) ==
    /\ run[r].phase = "starting" /\ run[r].stop /\ run[r].ours = {}
    /\ LET x == [run[r] EXCEPT !.phase = "settling"]
       IN \/ Set(r, Records(x, x.failed)) /\ UNCHANGED faults
          \/ x.noted # x.failed /\ Set(r, Loses(x, x.failed)) /\ Fault
    /\ UNCHANGED <<disk, docker, dialog, started, crashes>>

StoppedOf(S) == {c \in S : state[c] = "stopped"}

\* A row that says it is active, though nobody works on it: it keeps the
\* repository busy until a boot settles it.
LeftBehind(x) == [NoRun EXCEPT !.phase = "left", !.noted = x.noted]

\* Once the run is over nothing looks at what it could not start, unless a row
\* that was left behind names it.
Finish(r) ==
    /\ run[r].phase = IF run[r].stop THEN "settling" ELSE "starting"
    /\ \/ /\ Set(r, NoRun) /\ UNCHANGED faults
          /\ abandoned' = abandoned \union StoppedOf(run[r].failed)
       \/ /\ Set(r, LeftBehind(run[r])) /\ Fault
          /\ abandoned' = abandoned \union StoppedOf(run[r].failed \ run[r].noted)
    /\ UNCHANGED <<disk, mount, state, booting, dialog, started, crashes>>

-----------------------------------------------------------------------------
(* The server, the user and whoever else is at work.                        *)

\* What a run stopped, or could not start, and its row does not name.
Unrecorded == UNION {run[r].params \ run[r].noted : r \in Repositories}

\* The server goes down, and restic with it; it boots, marks what was active
\* interrupted (reconcile), and starts the containers those rows name. If it
\* cannot read the rows they stay as they are, and so does one whose update is
\* lost. Of interest is only when there may be such containers.
Restart ==
    /\ crashes < MaxCrashes /\ crashes' = crashes + 1
    /\ booting # {} \/ \E r \in Repositories : run[r].stop \/ run[r].phase = "left"
    /\ \/ /\ UNCHANGED faults
          /\ booting' = UNION {run[r].noted : r \in Repositories}
          /\ run' = [r \in Repositories |-> NoRun]
       \/ /\ Fault
          /\ booting' = {}
          /\ run' = [r \in Repositories |-> IF Active(r) THEN LeftBehind(run[r]) ELSE NoRun]
       \/ \E q \in Repositories :
             /\ Active(q) /\ Fault
             /\ booting' = UNION {run[r].noted : r \in Repositories}
             /\ run' = [r \in Repositories |-> IF r = q THEN LeftBehind(run[r]) ELSE NoRun]
    /\ abandoned' = (abandoned \union StoppedOf(booting \union Unrecorded)) \ booting'
    /\ UNCHANGED <<disk, mount, state, dialog, started>>

\* One attempt each; a refusal is logged and that is all.
BootStarts ==
    /\ \E c \in booting :
          /\ booting' = booting \ {c}
          /\ \/ Wakes(c, run)
             \/ /\ abandoned' = IF state[c] = "stopped" THEN abandoned \union {c} ELSE abandoned
                /\ UNCHANGED <<state, run>>
    /\ UNCHANGED <<disk, mount, dialog, bounds>>

\* The site at work; of interest is only what it writes during a restore that
\* was to stop it.
ContainerWrites ==
    /\ \E c \in Containers, x \in Files :
          LET p == Append(mount[c], x)
          IN /\ state[c] = "up" /\ disk[p] # Site
             /\ \E r \in Repositories :
                   run[r].phase = "deleting" /\ run[r].stop /\ p \in Covered(run[r].plan)
             /\ disk' = [disk EXCEPT ![p] = Site]
             /\ run' = Disturb({p}, c)
    /\ UNCHANGED <<docker, dialog, bounds>>

\* Docker's user, or Coolify, stops a container or starts one; of interest is
\* only when a restore is to stop containers.
OutsideActs ==
    /\ Fault
    /\ dialog.offered \/ \E r \in Repositories : run[r].stop
    /\ \E c \in Containers :
          \/ state[c] = "up" /\ state' = [state EXCEPT ![c] = "down"] /\ UNCHANGED <<abandoned, run>>
          \/ state[c] # "up" /\ Wakes(c, run)
    /\ UNCHANGED <<disk, mount, booting, dialog, started, crashes>>

-----------------------------------------------------------------------------
Init ==
    /\ disk = [p \in Paths |-> IF p \in InPlace THEN Site ELSE Nothing]
    /\ mount \in [Containers -> Roots] /\ state = [c \in Containers |-> "up"]
    /\ booting = {} /\ abandoned = {}
    /\ dialog = NoDialog /\ run = [r \in Repositories |-> NoRun]
    /\ started = 0 /\ faults = 0 /\ crashes = 0

RunStep(r) == \/ PlanRestore(r) \/ ListContainers(r) \/ NoteContainer(r) \/ StopContainer(r)
              \/ StartRestic(r) \/ ResticWrites(r) \/ ResticDeletes(r) \/ RunFails(r)
              \/ StartContainer(r) \/ AllStarted(r) \/ Finish(r)

Next == \/ OpenDialog \/ CloseDialog \/ ContainersKnown \/ Submit
        \/ \E r \in Repositories : RunStep(r)
        \/ Restart \/ BootStarts \/ ContainerWrites \/ OutsideActs

Spec == Init /\ [][Next]_vars

-----------------------------------------------------------------------------
(* Properties.                                                              *)

RunPhases == {"none", "planning", "listing", "stopping", "writing", "deleting", "starting", "settling", "left"}

\* Type invariant. What a run stops, has to start or could not start is in its
\* parameters.
TypeOK ==
    /\ disk \in [Paths -> 0..Site]
    /\ dialog \in [watched : Roots \union {NoPath}, offered : BOOLEAN]
    /\ mount \in [Containers -> Roots] /\ state \in [Containers -> {"up", "down", "stopped"}]
    /\ booting \subseteq Containers /\ abandoned \subseteq Containers
    /\ started \in 0..MaxRuns /\ faults \in 0..MaxFaults /\ crashes \in 0..MaxCrashes
    /\ \A r \in Repositories :
          /\ run[r].phase \in RunPhases
          /\ run[r].halting # {} => run[r].phase = "stopping"
          /\ run[r].halting \union run[r].ours \union run[r].failed \subseteq run[r].params

\* No restore leaves a site down: a container it stopped is yet to be started by
\* the run, is named by a row that the next boot settles, or is about to be
\* started by the boot. It is given up (abandoned) only if Docker refused to start
\* it, at the end of the run or after a boot; if another crash cut the starts of
\* that boot short; or if the update of the row that was to name it failed and no
\* later one of the run made up for it (stopContainersUsing, mutate, reconcile).
SitesBroughtBack ==
    \A c \in Containers : state[c] = "stopped" =>
        \/ c \in abandoned \union booting
        \/ \E r \in Repositories : c \in run[r].ours \union run[r].failed \union run[r].noted

\* While restic restores into a folder whose site was to be stopped, every
\* container that is up there came up after the containers were listed: by the
\* user, by another restore that had stopped it too, or by the boot.
QuietWhileRestoring ==
    \A r \in Repositories : (run[r].phase \in {"writing", "deleting"} /\ run[r].stop)
                             => Using(run[r].target) \subseteq run[r].woken

\* What the dialog says a restore touches is all it touches: the selected paths
\* when they go back where they were, and nothing outside the target it names
\* (planResticRestoreSelection; restic deletes what the filter covers).
Said(x, p) == IF x.include # {} /\ x.target \in Roots /\ x.plan.target = <<>>
              THEN \E q \in x.include : within(p, q)
              ELSE within(p, x.target)
TouchesOnlyWhatItSaid ==
    [][\A r \in Repositories, p \in Paths :
          (run[r].phase \in {"writing", "deleting"} /\ run'[r].phase # run[r].phase /\ disk'[p] # disk[p]) => Said(run[r], p)]_vars

\* A restore that succeeded left what was to be replaced exactly as the snapshot
\* has it, unless another restore wrote there too, or the site did that nobody
\* was to stop or that somebody started meanwhile.
Alone(x)     == x.others \subseteq (IF x.stop THEN Containers \ x.woken ELSE {})
Whole(x, p)  == x.include = {} /\ (x.target \in x.snap.paths => within(p, x.target))
Chosen(x, p) == \E q \in x.include : within(p, q)
Placed(x, p) == IF x.target \in x.snap.paths THEN p ELSE x.target \o p
Replaced(x)  ==
    /\ \A p \in x.snap.files : Whole(x, p) \/ Chosen(x, p) => disk'[Placed(x, p)] = x.no
    /\ x.include = {} /\ x.target # <<>> =>
          \A p \in Paths : within(p, x.target) => disk'[p] \in {x.no, Nothing}
RestoredAsTaken ==
    [][\A r \in Repositories :
          (AtWork(r) /\ run'[r].outcome = "success" /\ Alone(run[r])) => Replaced(run[r])]_vars

\* What RestoreDialog says of a restore into the folder of the job (the only one
\* of a whole snapshot that may stop the site): files from the backup overwrite
\* matching files there. So they have once restic has written.
JobFolderReplaced ==
    \A r \in Repositories :
        LET x == run[r]
        IN (x.phase = "deleting" /\ x.stop /\ x.include = {} /\ x.others = {})
           => \A p \in x.snap.files : disk[Append(x.target, p[2])] = x.no
=============================================================================
