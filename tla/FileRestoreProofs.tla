-------------------------- MODULE FileRestoreProofs --------------------------
(***************************************************************************)
(* For any number of repositories, folders, containers, restores and       *)
(* faults: a restore leaves no site down that nobody is to start again,    *)
(* and none of those it was to stop works while restic writes, unless it   *)
(* came up after they were listed; it touches only what its dialog said,   *)
(* and when it succeeds beside nobody, the folder is as the snapshot has   *)
(* it.                                                                     *)
(***************************************************************************)
EXTENDS FileRestore, SequenceTheorems, TLAPS

Selectable == Roots \union InPlace
Plans == [target : Targets \union {NoPath}, include : SUBSET Selectable]
Runs  == [phase : RunPhases, no : 0..MaxRuns, snap : Snapshots \union {NoSnapshot},
          target : Targets \union {NoPath}, include : SUBSET Selectable, stop : BOOLEAN, plan : Plans,
          halt : SUBSET Containers, halting : SUBSET Containers, ours : SUBSET Containers,
          params : SUBSET Containers, noted : SUBSET Containers, failed : SUBSET Containers,
          outcome : {"none", "success", "failed"},
          woken : SUBSET Containers, others : SUBSET (Repositories \union Containers)]

\* What a run has stopped it still has to start, or could not; only a run that
\* was to stop the site has stopped anything, and when it settles it is done.
RunOK(x) ==
    /\ x.halting # {} => x.phase = "stopping"
    /\ x.halting \subseteq x.ours /\ \A c, d \in x.halting : c = d
    /\ x.ours \union x.failed \subseteq x.params
    /\ x.failed # {} => x.phase \in {"starting", "settling"}
    /\ x.ours # {} => x.stop /\ x.phase \in {"stopping", "writing", "deleting", "starting"}
    /\ x.phase \in {"listing", "stopping"} => x.stop
    /\ x.phase = "none" => x.noted = {}

\* From the listing on, the containers of the folder that are up are yet to be
\* stopped or came up since.
Quiet(x) ==
    /\ x.phase = "stopping" => Using(x.target) \subseteq x.halt \union x.halting \union x.woken
    /\ x.phase \in {"writing", "deleting"} /\ x.stop => Using(x.target) \subseteq x.woken

DiskOK   == disk \in [Paths -> 0..Site]
DockerOK == /\ mount \in [Containers -> Roots] /\ state \in [Containers -> {"up", "down", "stopped"}]
            /\ booting \subseteq Containers /\ abandoned \subseteq Containers
DialogOK == dialog \in [watched : Roots \union {NoPath}, offered : BOOLEAN]
BoundsOK == started \in 0..MaxRuns /\ faults \in 0..MaxFaults /\ crashes \in 0..MaxCrashes
RunsOK   == run \in [Repositories -> Runs] /\ \A r \in Repositories : RunOK(run[r]) /\ Quiet(run[r])

\* A container that is stopped is in the hands of a run, or of the boot; what a
\* row names that was left behind is for the next boot.
HeldBy(x)  == x.ours \union x.failed \union IF x.phase = "left" THEN x.noted ELSE {}
Held(c)    == \E r \in Repositories : c \in HeldBy(run[r])
AllHeld    == \A c \in Containers : state[c] = "stopped" => c \in abandoned \union booting \/ Held(c)

IInv == DiskOK /\ DockerOK /\ DialogOK /\ BoundsOK /\ RunsOK /\ AllHeld

-----------------------------------------------------------------------------
(* Records.                                                                 *)

\* The bounds are numbers, one by one.
LEMMA BoundTypes == MaxStored \in Nat /\ MaxSelected \in Nat /\ MaxRuns \in Nat /\ MaxFaults \in Nat
                     /\ MaxCrashes \in Nat
BY BoundsAreNat

\* A repository without a restore is well typed and disturbs nobody.
LEMMA NoRunOK == NoRun \in Runs /\ RunOK(NoRun) /\ Quiet(NoRun)
<1>1. NoPlan \in Plans
  BY DEF NoPlan, Plans
<1>2. NoRun \in Runs
  BY <1>1, BoundTypes DEF NoRun, Runs, RunPhases
<1>3. QED
  BY <1>2 DEF NoRun, RunOK, Quiet

\* Whatever way the work of a run ends, it keeps hold of what it stopped.
LEMMA LeavesOK ==
    ASSUME NEW x \in Runs, RunOK(x), NEW outcome \in {"success", "failed"}
    PROVE  /\ Leaves(x, outcome) \in Runs /\ RunOK(Leaves(x, outcome)) /\ Quiet(Leaves(x, outcome))
           /\ Leaves(x, outcome).ours = x.ours /\ Leaves(x, outcome).failed = {}
           /\ Leaves(x, outcome).phase = "starting"
<1>1. PICK y : y = Leaves(x, outcome)
  OBVIOUS
<1>2. /\ y \in Runs /\ y.phase = "starting" /\ y.stop = x.stop /\ y.ours = x.ours
      /\ y.params = x.params /\ y.failed = {} /\ y.halting = {}
  <2>1. NoRun \in Runs /\ NoRun.failed = {} /\ NoRun.halting = {}
    BY NoRunOK DEF NoRun
  <2> HIDE DEF NoRun
  <2>2. QED
    BY <1>1, <2>1 DEF Leaves, Runs, RunPhases
<1>3. RunOK(y) /\ Quiet(y)
  BY <1>2 DEF RunOK, Quiet
<1>4. QED
  BY <1>1, <1>2, <1>3

\* The plan of a restore names folders and what was selected.
LEMMA PlanTyped ==
    ASSUME NEW target \in Targets \union {NoPath}, NEW s \in Snapshots \union {NoSnapshot},
           NEW selected \in SUBSET Selectable
    PROVE  Plan(target, s.paths, selected) \in Plans
<1>1. s.paths \subseteq Roots
  BY DEF Snapshots, NoSnapshot
<1>2. PICK whole : whole = resolved(target, s.paths)
  OBVIOUS
<1>3. whole \in Plans
  <2>1. CASE target \in s.paths
    BY <1>1, <1>2, <2>1 DEF resolved, Plans, Selectable, Targets
  <2>2. CASE target \notin s.paths /\ target = <<>>
    BY <1>1, <1>2, <2>2 DEF resolved, Plans, Selectable, Targets
  <2>3. CASE target \notin s.paths /\ target # <<>>
    BY <1>2, <2>3 DEF resolved, Plans
  <2>4. QED
    BY <2>1, <2>2, <2>3
<1>4. QED
  BY <1>2, <1>3 DEF Plan, Selected, Plans

\* What the dialogs ask for.
LEMMA Asked ==
    ASSUME NEW q \in SnapshotsPanel
    PROVE  q.snap \in Snapshots /\ q.target \in Targets /\ q.include \in SUBSET Selectable
<1>1. PICK s \in Snapshots : q \in RestoreDialog(s) \union SnapshotBrowser(s)
  BY DEF SnapshotsPanel
<1>2. s.paths \subseteq Roots /\ s.files \subseteq InPlace /\ Roots \subseteq Targets
  BY DEF Snapshots, Targets
<1>3. Selections(s) \subseteq SUBSET Selectable
  BY <1>2 DEF Selections, Nodes, Selectable
<1>4. PICK t \in Targets, x \in SUBSET Selectable : \E w : q = Ask(s, t, x, w)
  <2>1. CASE q \in RestoreDialog(s)
    BY <1>2, <2>1 DEF RestoreDialog
  <2>2. CASE q \in {Ask(s, t, x, NoPath) : t \in Targets, x \in Selections(s)}
    BY <1>3, <2>2
  <2>3. CASE q \in UNION {{Ask(s, p, x, p) : p \in commonRoot(s, x)} : x \in Selections(s)}
    <3>1. PICK x \in Selections(s) : q \in {Ask(s, p, x, p) : p \in commonRoot(s, x)}
      BY <2>3
    <3>2. PICK p \in commonRoot(s, x) : q = Ask(s, p, x, p)
      BY <3>1
    <3>3. QED
      BY <1>2, <1>3, <3>2 DEF commonRoot
  <2>4. QED
    BY <1>1, <2>1, <2>2, <2>3 DEF SnapshotBrowser
<1>5. QED
  BY <1>4 DEF Ask

-----------------------------------------------------------------------------
(* Frames.                                                                  *)

\* Containers only go down: what was quiet stays so.
LEMMA QuietKept ==
    ASSUME UNCHANGED mount, \A c \in Containers : state'[c] = "up" => state[c] = "up",
           NEW x \in Runs, Quiet(x)
    PROVE  Quiet(x)'
<1>1. Using(x.target)' \subseteq Using(x.target)
  BY DEF Using
<1>2. QED
  BY <1>1 DEF Quiet

\* Some runs change.
LEMMA RunsChange ==
    ASSUME NEW rs \in [Repositories -> Runs], run' = rs,
           \A r \in Repositories : RunOK(rs[r]) /\ Quiet(rs[r])'
    PROVE  RunsOK'
<1>1. ASSUME NEW r \in Repositories PROVE RunOK(run'[r]) /\ Quiet(run[r])'
  BY DEF Quiet, Using
<1>2. QED
  BY <1>1 DEF RunsOK

\* One run goes on. It holds on to what it had, and containers go down only by it.
LEMMA OneRun ==
    ASSUME IInv, DiskOK', DialogOK', BoundsOK', DockerOK', UNCHANGED <<mount, booting, abandoned>>,
           NEW r \in Repositories, NEW x \in Runs, RunOK(x), Quiet(x)', run' = [run EXCEPT ![r] = x],
           HeldBy(run[r]) \subseteq x.ours \union x.failed,
           \A c \in Containers : state'[c] = "up" => state[c] = "up",
           \A c \in Containers : state'[c] = "stopped" => state[c] = "stopped" \/ c \in x.ours
    PROVE  IInv'
<1>1. run \in [Repositories -> Runs] /\ \A q \in Repositories : RunOK(run[q]) /\ Quiet(run[q])
  BY DEF IInv, RunsOK
<1>2. PICK rs : rs = [run EXCEPT ![r] = x]
  OBVIOUS
<1>3. rs \in [Repositories -> Runs] /\ \A q \in Repositories : rs[q] = IF q = r THEN x ELSE run[q]
  BY <1>1, <1>2
<1>4. ASSUME NEW q \in Repositories PROVE RunOK(rs[q]) /\ Quiet(rs[q])'
  <2>1. CASE q = r
    BY <1>3, <2>1 DEF Quiet, Using
  <2>2. CASE q # r
    <3>1. PICK y \in Runs : y = rs[q] /\ RunOK(y) /\ Quiet(y)
      BY <1>1, <1>3, <2>2
    <3>2. Quiet(y)'
      BY <3>1, QuietKept
    <3>3. QED
      BY <3>1, <3>2
  <2>3. QED
    BY <2>1, <2>2
<1>5. RunsOK'
  BY <1>2, <1>3, <1>4, RunsChange
<1>6. AllHeld'
  <2>1. ASSUME NEW c \in Containers, c \in x.ours \union x.failed PROVE Held(c)'
    BY <1>2, <1>3, <2>1 DEF Held, HeldBy
  <2>2. ASSUME NEW c \in Containers, Held(c) PROVE Held(c)'
    <3>1. PICK q \in Repositories : c \in HeldBy(run[q])
      BY <2>2 DEF Held
    <3>2. CASE q = r
      BY <2>1, <3>1, <3>2
    <3>3. CASE q # r
      BY <1>2, <1>3, <3>1, <3>3 DEF Held, HeldBy
    <3>4. QED
      BY <3>2, <3>3
  <2>3. QED
    BY <2>1, <2>2 DEF IInv, AllHeld
<1>7. QED
  BY <1>5, <1>6 DEF IInv

\* The same when Docker is left alone.
LEMMA OnlyRun ==
    ASSUME IInv, UNCHANGED <<disk, docker, dialog, started, crashes>>, UNCHANGED faults \/ Fault,
           NEW r \in Repositories, NEW x \in Runs, RunOK(x), Quiet(x), run' = [run EXCEPT ![r] = x],
           HeldBy(run[r]) \subseteq x.ours \union x.failed
    PROVE  IInv'
<1>1. DiskOK' /\ DialogOK' /\ DockerOK' /\ UNCHANGED <<mount, state, booting, abandoned>>
  BY DEF IInv, DiskOK, DialogOK, DockerOK, docker
<1>0. BoundsOK'
  BY BoundTypes DEF IInv, BoundsOK, Fault
<1>2. Quiet(x)'
  BY <1>1, QuietKept
<1>3. QED
  BY <1>0, <1>1, <1>2, OneRun

\* A run that is at work holds what it stopped, whatever the row names.
LEMMA HeldAtWork ==
    ASSUME NEW x, x.phase # "left"
    PROVE  HeldBy(x) = x.ours \union x.failed
BY DEF HeldBy

\* What the invariant says of the restore of one repository.
LEMMA Typings ==
    ASSUME IInv, NEW r \in Repositories
    PROVE  run[r] \in Runs /\ RunOK(run[r]) /\ Quiet(run[r]) /\ run \in [Repositories -> Runs]
BY DEF IInv, RunsOK

-----------------------------------------------------------------------------
(* Steps of the dialogs.                                                    *)

\* A dialog that opens, closes or hears of containers leaves the rest alone.
LEMMA DialogInv ==
    ASSUME IInv, OpenDialog \/ CloseDialog \/ ContainersKnown
    PROVE  IInv'
<1>1. UNCHANGED <<disk, docker, run, bounds>>
  BY DEF OpenDialog, CloseDialog, ContainersKnown
<1>2. DialogOK'
  <2>1. CASE OpenDialog \/ CloseDialog
    <3>1. NoDialog \in [watched : Roots \union {NoPath}, offered : BOOLEAN]
      BY DEF NoDialog
    <3>2. QED
      BY <2>1, <3>1 DEF OpenDialog, CloseDialog, IInv, DialogOK
  <2>2. CASE ContainersKnown
    BY <2>2 DEF ContainersKnown, IInv, DialogOK
  <2>3. QED
    BY <2>1, <2>2 DEF OpenDialog, CloseDialog, ContainersKnown
<1>3. QED
  BY <1>1, <1>2 DEF IInv, DiskOK, DockerOK, BoundsOK, RunsOK, AllHeld, Held, HeldBy, Quiet, Using, docker, bounds

\* A restore that starts has stopped nothing.
LEMMA SubmitInv ==
    ASSUME IInv, Submit
    PROVE  IInv'
<1>1. PICK r \in Repositories, stopSite \in BOOLEAN, q \in SnapshotsPanel :
        /\ ~Active(r)
        /\ run' = [run EXCEPT ![r] = [NoRun EXCEPT !.phase = "planning", !.no = started', !.snap = q.snap,
                                      !.target = q.target, !.include = q.include, !.stop = stopSite]]
  <2>1. dialog.offered \in BOOLEAN
    BY DEF IInv, DialogOK
  <2>2. PICK r \in Repositories, stopSite \in {FALSE, dialog.offered}, q \in SnapshotsPanel :
        /\ ~Active(r)
        /\ run' = [run EXCEPT ![r] = [NoRun EXCEPT !.phase = "planning", !.no = started', !.snap = q.snap,
                                      !.target = q.target, !.include = q.include, !.stop = stopSite]]
    BY DEF Submit
  <2>3. stopSite \in BOOLEAN
    BY <2>1, <2>2
  <2>4. QED
    BY <2>2, <2>3
<1>2. PICK x : x = [NoRun EXCEPT !.phase = "planning", !.no = started', !.snap = q.snap,
                                 !.target = q.target, !.include = q.include, !.stop = stopSite]
  OBVIOUS
<1>3. started' \in 0..MaxRuns /\ BoundsOK'
  BY BoundTypes DEF Submit, IInv, BoundsOK
<1>4. /\ x \in Runs /\ x.phase = "planning" /\ x.halting = {} /\ x.ours = {} /\ x.failed = {}
      /\ x.noted = {}
  <2>1. /\ NoRun \in Runs /\ NoRun.halting = {} /\ NoRun.ours = {} /\ NoRun.failed = {} /\ NoRun.noted = {}
    BY NoRunOK DEF NoRun
  <2>2. q.snap \in Snapshots /\ q.target \in Targets /\ q.include \in SUBSET Selectable
    BY Asked
  <2> HIDE DEF NoRun
  <2>3. QED
    BY <1>2, <1>3, <2>1, <2>2 DEF Runs, RunPhases
<1>5. RunOK(x) /\ Quiet(x)'
  BY <1>4 DEF RunOK, Quiet
<1>6. HeldBy(run[r]) = {}
  BY <1>1, Typings DEF Active, RunOK, HeldBy
<1>7. DiskOK' /\ DialogOK' /\ DockerOK' /\ UNCHANGED <<mount, state, booting, abandoned>>
  BY DEF Submit, IInv, DiskOK, DialogOK, DockerOK, docker, NoDialog
<1>8. QED
  BY <1>1, <1>2, <1>3, <1>4, <1>5, <1>6, <1>7, OneRun

-----------------------------------------------------------------------------
(* Steps of a run.                                                          *)

\* A restore that fails goes on to start what it had stopped.
LEMMA RunFailsInv ==
    ASSUME IInv, NEW r \in Repositories,
           \/ RunFails(r)
           \/ Set(r, Fails(run[r])) /\ UNCHANGED <<disk, docker, dialog, bounds>>
                                    /\ run[r].phase \in {"planning", "stopping"}
    PROVE  IInv'
<1>1. /\ run[r] \in Runs /\ RunOK(run[r]) /\ run[r].phase \notin {"starting", "settling", "left"}
      /\ UNCHANGED <<disk, docker, dialog, bounds>>
  BY Typings DEF RunFails
<1>2. PICK x : x = Fails(run[r])
  OBVIOUS
<1>3. x \in Runs /\ RunOK(x) /\ Quiet(x) /\ x.ours = run[r].ours
  BY <1>1, <1>2, LeavesOK DEF Fails
<1>4. run' = [run EXCEPT ![r] = x]
  BY <1>2 DEF RunFails, Set
<1>5. run[r].failed = {}
  BY <1>1 DEF RunOK
<1>6. QED
  BY <1>1, <1>3, <1>4, <1>5, OnlyRun, HeldAtWork DEF bounds

\* The plan of a restore is well typed; a refused one goes on to its end.
LEMMA PlanRestoreInv ==
    ASSUME IInv, NEW r \in Repositories, PlanRestore(r)
    PROVE  IInv'
<1>1. /\ run[r] \in Runs /\ RunOK(run[r]) /\ run[r].phase = "planning"
      /\ UNCHANGED <<disk, docker, dialog, bounds>>
  BY Typings DEF PlanRestore
<1>2. CASE Set(r, Fails(run[r]))
  BY <1>1, <1>2, RunFailsInv
<1>3. PICK plan : plan = Plan(run[r].target, run[r].snap.paths, run[r].include)
  OBVIOUS
<1>4. plan \in Plans
  BY <1>1, <1>3, PlanTyped DEF Runs
<1>5. ASSUME NEW phase \in {"listing", "writing"}, phase = "listing" <=> run[r].stop,
             Set(r, [[run[r] EXCEPT !.plan = plan] EXCEPT !.phase = phase])
      PROVE  IInv'
  <2>1. PICK x : x = [[run[r] EXCEPT !.plan = plan] EXCEPT !.phase = phase]
    OBVIOUS
  <2>2. /\ x \in Runs /\ x.phase = phase /\ x.stop = run[r].stop /\ x.halting = run[r].halting
        /\ x.ours = run[r].ours /\ x.failed = run[r].failed /\ x.params = run[r].params
    BY <1>1, <1>4, <2>1 DEF Runs, RunPhases
  <2>3. RunOK(x) /\ Quiet(x)
    BY <1>1, <1>5, <2>2 DEF RunOK, Quiet
  <2>4. QED
    BY <1>1, <1>5, <2>1, <2>2, <2>3, OnlyRun, HeldAtWork DEF Set, bounds
<1>6. QED
  BY <1>2, <1>3, <1>5 DEF PlanRestore

\* All the containers that are up on the folder are on the list.
LEMMA ListContainersInv ==
    ASSUME IInv, NEW r \in Repositories, ListContainers(r)
    PROVE  IInv'
<1>1. /\ run[r] \in Runs /\ RunOK(run[r]) /\ run[r].phase = "listing"
      /\ UNCHANGED <<disk, docker, dialog, bounds>>
  BY Typings DEF ListContainers
<1>2. PICK x : x = [run[r] EXCEPT !.phase = "stopping", !.halt = Using(run[r].target)]
  OBVIOUS
<1>3. Using(run[r].target) \subseteq Containers
  BY DEF Using
<1>4. /\ x \in Runs /\ x.phase = "stopping" /\ x.stop = run[r].stop /\ x.halting = run[r].halting
      /\ x.ours = run[r].ours /\ x.failed = run[r].failed /\ x.params = run[r].params
      /\ x.target = run[r].target /\ x.halt = Using(x.target)
  BY <1>1, <1>2, <1>3 DEF Runs, RunPhases
<1>5. RunOK(x) /\ Quiet(x)
  BY <1>1, <1>4 DEF RunOK, Quiet
<1>6. QED
  BY <1>1, <1>2, <1>4, <1>5, OnlyRun, HeldAtWork DEF ListContainers, Set, bounds

\* A container moves from the list to the record, and stays accounted for.
LEMMA NoteContainerInv ==
    ASSUME IInv, NEW r \in Repositories, NoteContainer(r)
    PROVE  IInv'
<1>1. /\ run[r] \in Runs /\ RunOK(run[r]) /\ Quiet(run[r]) /\ run[r].phase = "stopping"
      /\ run[r].halting = {} /\ UNCHANGED <<disk, docker, dialog, started, crashes>>
  BY Typings DEF NoteContainer
<1>2. PICK c, y :
        /\ c \in run[r].halt
        /\ y = [run[r] EXCEPT !.halt = @ \ {c}, !.halting = {c}, !.ours = @ \union {c}]
        /\ \/ Set(r, Records(y, run[r].ours \union {c})) /\ UNCHANGED faults
           \/ Set(r, Loses(y, run[r].ours \union {c})) /\ Fault
  BY DEF NoteContainer, Noted
<1>3. /\ y \in Runs /\ y.phase = "stopping" /\ y.stop = run[r].stop /\ y.halting = {c}
      /\ y.ours = run[r].ours \union {c} /\ y.failed = run[r].failed
      /\ y.target = run[r].target /\ y.halt = run[r].halt \ {c} /\ y.woken = run[r].woken
  BY <1>1, <1>2 DEF Runs
<1>4. PICK x : /\ x \in {Records(y, run[r].ours \union {c}), Loses(y, run[r].ours \union {c})}
               /\ Set(r, x)
  BY <1>2
<1>5. /\ x \in Runs /\ x.phase = "stopping" /\ x.stop = run[r].stop /\ x.halting = {c}
      /\ x.ours = run[r].ours \union {c} /\ x.failed = run[r].failed /\ x.params = x.ours
      /\ x.target = run[r].target /\ x.halt = run[r].halt \ {c} /\ x.woken = run[r].woken
  BY <1>1, <1>3, <1>4 DEF Runs, Records, Loses
<1>6. RunOK(x) /\ Quiet(x)
  BY <1>1, <1>5 DEF RunOK, Quiet
<1>7. UNCHANGED faults \/ Fault
  BY <1>2
<1>8. HeldBy(run[r]) \subseteq x.ours \union x.failed
  BY <1>1, <1>5, HeldAtWork
<1>9. QED
  BY <1>1, <1>4, <1>5, <1>6, <1>7, <1>8, OnlyRun DEF Set

\* A container is stopped when it is on record; a refusal fails the restore.
LEMMA StopContainerInv ==
    ASSUME IInv, NEW r \in Repositories, StopContainer(r)
    PROVE  IInv'
<1>1. /\ run[r] \in Runs /\ RunOK(run[r]) /\ Quiet(run[r]) /\ run[r].phase = "stopping"
      /\ UNCHANGED <<disk, mount, booting, abandoned, dialog, started, crashes>>
  BY Typings DEF StopContainer
<1>2. PICK c \in run[r].halting :
        \/ /\ state' = Stopped(c) /\ Set(r, [run[r] EXCEPT !.halting = {}]) /\ UNCHANGED faults
        \/ Fault /\ state' \in {state, Stopped(c)} /\ Set(r, Fails(run[r]))
  BY DEF StopContainer
<1>3. c \in Containers /\ c \in run[r].ours /\ run[r].failed = {}
  BY <1>1, <1>2 DEF RunOK, Runs
<1>4. /\ DockerOK'
      /\ \A d \in Containers : state'[d] = "up" => state[d] = "up"
      /\ \A d \in Containers : state'[d] = "stopped" => state[d] = "stopped" \/ d = c
  BY <1>1, <1>2 DEF IInv, DockerOK, Stopped
<1>5. DiskOK' /\ DialogOK' /\ BoundsOK'
  BY <1>1, <1>2, BoundTypes DEF IInv, DiskOK, DialogOK, BoundsOK, Fault
<1>6. CASE state' = Stopped(c) /\ Set(r, [run[r] EXCEPT !.halting = {}])
  <2>1. PICK x : x = [run[r] EXCEPT !.halting = {}]
    OBVIOUS
  <2>2. /\ x \in Runs /\ x.phase = "stopping" /\ x.stop = run[r].stop /\ x.halting = {}
        /\ x.ours = run[r].ours /\ x.failed = {} /\ x.params = run[r].params
        /\ x.target = run[r].target /\ x.halt = run[r].halt /\ x.woken = run[r].woken
    BY <1>1, <1>3, <2>1 DEF Runs
  <2>3. RunOK(x)
    BY <1>1, <2>2 DEF RunOK
  <2>4. Quiet(x)'
    <3>1. run[r].halting = {c}
      BY <1>1, <1>2 DEF RunOK
    <3>2. Using(x.target)' \subseteq Using(x.target) \ {c}
      BY <1>1, <1>3, <1>4, <1>6 DEF Using, Stopped, IInv, DockerOK
    <3>3. QED
      BY <1>1, <2>2, <3>1, <3>2 DEF Quiet
  <2>5. QED
    BY <1>1, <1>3, <1>4, <1>5, <1>6, <2>1, <2>2, <2>3, <2>4, OneRun, HeldAtWork DEF Set
<1>7. CASE Set(r, Fails(run[r]))
  <2>1. PICK x : x = Fails(run[r])
    OBVIOUS
  <2>2. x \in Runs /\ RunOK(x) /\ Quiet(x) /\ x.ours = run[r].ours
    BY <1>1, <2>1, LeavesOK DEF Fails
  <2>3. Quiet(x)'
    BY <1>1, <1>4, <2>2, QuietKept
  <2>4. QED
    BY <1>1, <1>3, <1>4, <1>5, <1>7, <2>1, <2>2, <2>3, OneRun, HeldAtWork DEF Set
<1>8. QED
  BY <1>2, <1>6, <1>7

\* restic starts when the list is empty, so that all that were up are down or woken.
LEMMA StartResticInv ==
    ASSUME IInv, NEW r \in Repositories, StartRestic(r)
    PROVE  IInv'
<1>1. /\ run[r] \in Runs /\ RunOK(run[r]) /\ Quiet(run[r]) /\ run[r].phase = "stopping"
      /\ run[r].halting = {} /\ run[r].halt = {} /\ UNCHANGED <<disk, docker, dialog, started, crashes>>
  BY Typings DEF StartRestic, AllStopped
<1>2. PICK y : /\ y = [run[r] EXCEPT !.phase = "writing"]
               /\ \/ Set(r, Records(y, y.params)) /\ UNCHANGED faults
                  \/ Set(r, y) /\ Fault
  BY DEF StartRestic
<1>3. PICK x : x \in {Records(y, y.params), y} /\ Set(r, x)
  BY <1>2
<1>4. /\ y \in Runs /\ y.phase = "writing" /\ y.stop = run[r].stop /\ y.halting = {}
      /\ y.ours = run[r].ours /\ y.failed = run[r].failed /\ y.params = run[r].params
      /\ y.target = run[r].target /\ y.woken = run[r].woken
  BY <1>1, <1>2 DEF Runs, RunPhases
<1>5. /\ x \in Runs /\ x.phase = "writing" /\ x.stop = run[r].stop /\ x.halting = {}
      /\ x.ours = run[r].ours /\ x.failed = run[r].failed /\ x.params = run[r].params
      /\ x.target = run[r].target /\ x.woken = run[r].woken
  BY <1>3, <1>4 DEF Runs, Records
<1>6. RunOK(x) /\ Quiet(x)
  BY <1>1, <1>5 DEF RunOK, Quiet
<1>7. UNCHANGED faults \/ Fault
  BY <1>2
<1>8. HeldBy(run[r]) \subseteq x.ours \union x.failed
  BY <1>1, <1>5, HeldAtWork
<1>9. QED
  BY <1>1, <1>3, <1>5, <1>6, <1>7, <1>8, OnlyRun DEF Set

\* What others write is on the record of a run, and nothing else of it changes.
LEMMA DisturbOK ==
    ASSUME IInv, NEW who \in Repositories \union Containers, NEW written
    PROVE  /\ Disturb(written, who) \in [Repositories -> Runs]
           /\ \A r \in Repositories :
                 /\ RunOK(Disturb(written, who)[r]) /\ Quiet(Disturb(written, who)[r])
                 /\ Disturb(written, who)[r].ours = run[r].ours
                 /\ Disturb(written, who)[r].failed = run[r].failed
                 /\ HeldBy(Disturb(written, who)[r]) = HeldBy(run[r])
                 /\ Disturb(written, who)[r].phase = run[r].phase
<1>1. ASSUME NEW r \in Repositories
      PROVE  \E x \in Runs : /\ x = Disturb(written, who)[r] /\ RunOK(x) /\ Quiet(x)
                             /\ x.ours = run[r].ours /\ x.failed = run[r].failed /\ x.phase = run[r].phase
                             /\ HeldBy(x) = HeldBy(run[r])
  <2>1. run[r] \in Runs /\ RunOK(run[r]) /\ Quiet(run[r])
    BY Typings
  <2>2. PICK x : x = [run[r] EXCEPT !.others = @ \union {who}]
    OBVIOUS
  <2>3. /\ x \in Runs /\ x.phase = run[r].phase /\ x.stop = run[r].stop /\ x.halting = run[r].halting
        /\ x.ours = run[r].ours /\ x.failed = run[r].failed /\ x.params = run[r].params
        /\ x.noted = run[r].noted
        /\ x.target = run[r].target /\ x.halt = run[r].halt /\ x.woken = run[r].woken
    BY <2>1, <2>2 DEF Runs
  <2>4. RunOK(x) /\ Quiet(x)
    BY <2>1, <2>3 DEF RunOK, Quiet
  <2>5. Disturb(written, who)[r] \in {x, run[r]}
    BY <2>2 DEF Disturb
  <2>6. QED
    BY <2>1, <2>3, <2>4, <2>5 DEF HeldBy
<1>2. QED
  BY <1>1 DEF Disturb

\* Files are written and the runs of others are disturbed; the run that writes
\* goes on, or is over.
LEMMA WrittenInv ==
    ASSUME IInv, DiskOK', UNCHANGED <<docker, dialog, bounds>>,
           NEW rs \in [Repositories -> Runs], run' = rs,
           \A r \in Repositories : /\ RunOK(rs[r]) /\ Quiet(rs[r])
                                   /\ HeldBy(rs[r]) = HeldBy(run[r])
    PROVE  IInv'
<1>1. DialogOK' /\ BoundsOK' /\ DockerOK' /\ UNCHANGED <<mount, state, booting, abandoned>>
  BY DEF IInv, DialogOK, BoundsOK, DockerOK, docker, bounds
<1>2. ASSUME NEW r \in Repositories PROVE Quiet(rs[r])'
  <2>1. PICK y \in Runs : y = rs[r] /\ Quiet(y)
    OBVIOUS
  <2>2. Quiet(y)'
    BY <1>1, <2>1, QuietKept
  <2>3. QED
    BY <2>1, <2>2 DEF Quiet, Using
<1>3. RunsOK'
  BY <1>2, RunsChange
<1>4. AllHeld'
  BY <1>1 DEF IInv, AllHeld, Held
<1>5. QED
  BY <1>1, <1>3, <1>4 DEF IInv

\* What restic writes changes the files and who else was there, no container.
LEMMA ResticWritesInv ==
    ASSUME IInv, NEW r \in Repositories, ResticWrites(r)
    PROVE  IInv'
<1>1. /\ run[r].phase = "writing" /\ run[r] \in Runs /\ UNCHANGED <<docker, dialog, bounds>>
  BY Typings DEF ResticWrites
<1>2. PICK ds : ds = Disturb(Wanted(run[r].snap, run[r].plan), r)
  OBVIOUS
<1>3. /\ ds \in [Repositories -> Runs]
      /\ \A q \in Repositories : /\ RunOK(ds[q]) /\ Quiet(ds[q]) /\ ds[q].phase = run[q].phase
                                 /\ ds[q].ours = run[q].ours /\ ds[q].failed = run[q].failed
                                 /\ HeldBy(ds[q]) = HeldBy(run[q])
  BY <1>2, DisturbOK
<1>4. PICK x : x = [ds[r] EXCEPT !.phase = "deleting"]
  OBVIOUS
<1>5. /\ x \in Runs /\ x.phase = "deleting" /\ x.stop = ds[r].stop /\ x.halting = ds[r].halting
      /\ x.ours = ds[r].ours /\ x.failed = ds[r].failed /\ x.params = ds[r].params
      /\ x.target = ds[r].target /\ x.halt = ds[r].halt /\ x.woken = ds[r].woken
  BY <1>3, <1>4 DEF Runs, RunPhases
<1>6. RunOK(x) /\ Quiet(x)
  BY <1>1, <1>3, <1>5 DEF RunOK, Quiet
<1>7. PICK rs : rs = [ds EXCEPT ![r] = x]
  OBVIOUS
<1>8. run' = rs
  BY <1>2, <1>4, <1>7 DEF ResticWrites
<1>9. /\ rs \in [Repositories -> Runs]
      /\ \A q \in Repositories : rs[q] = IF q = r THEN x ELSE ds[q]
  BY <1>3, <1>5, <1>7
<1>10. DiskOK'
  <2>1. run[r].no \in 0..Site
    BY <1>1, BoundTypes DEF Runs, Site
  <2>2. QED
    BY <2>1 DEF ResticWrites, IInv, DiskOK
<1>11. HeldBy(x) = HeldBy(run[r])
  BY <1>1, <1>3, <1>5, HeldAtWork
<1>12. QED
  BY <1>1, <1>3, <1>6, <1>8, <1>9, <1>10, <1>11, WrittenInv

\* What restic deletes changes the files; the restore goes on to start what it stopped.
LEMMA ResticDeletesInv ==
    ASSUME IInv, NEW r \in Repositories, ResticDeletes(r)
    PROVE  IInv'
<1>1. /\ run[r].phase = "deleting" /\ UNCHANGED <<docker, dialog, bounds>>
      /\ RunOK(run[r])
  BY Typings DEF ResticDeletes
<1>2. PICK extra : /\ disk' = [p \in Paths |-> IF p \in extra THEN Nothing ELSE disk[p]]
                   /\ run' = [Disturb(extra, r) EXCEPT ![r] = Leaves(@, "success")]
  BY DEF ResticDeletes
<1>3. PICK ds : ds = Disturb(extra, r)
  OBVIOUS
<1>4. /\ ds \in [Repositories -> Runs]
      /\ \A q \in Repositories : /\ RunOK(ds[q]) /\ Quiet(ds[q]) /\ ds[q].phase = run[q].phase
                                 /\ ds[q].ours = run[q].ours /\ ds[q].failed = run[q].failed
                                 /\ HeldBy(ds[q]) = HeldBy(run[q])
  BY <1>3, DisturbOK
<1>5. PICK x : x = Leaves(ds[r], "success")
  OBVIOUS
<1>6. x \in Runs /\ RunOK(x) /\ Quiet(x) /\ x.ours = ds[r].ours /\ x.failed = {}
      /\ x.phase = "starting"
  BY <1>4, <1>5, LeavesOK
<1>7. run[r].failed = {}
  BY <1>1 DEF RunOK
<1>8. PICK rs : rs = [ds EXCEPT ![r] = x]
  OBVIOUS
<1>9. run' = rs
  BY <1>2, <1>3, <1>4, <1>5, <1>8
<1>10. /\ rs \in [Repositories -> Runs]
       /\ \A q \in Repositories : rs[q] = IF q = r THEN x ELSE ds[q]
  BY <1>4, <1>6, <1>8
<1>11. DiskOK'
  <2>1. Nothing \in 0..Site
    BY BoundTypes DEF Nothing, Site
  <2>2. QED
    BY <1>2, <2>1 DEF IInv, DiskOK
<1>12. \A q \in Repositories : /\ RunOK(rs[q]) /\ Quiet(rs[q])
                               /\ HeldBy(rs[q]) = HeldBy(run[q])
  BY <1>1, <1>4, <1>6, <1>7, <1>10, HeldAtWork
<1>13. QED
  BY <1>1, <1>9, <1>10, <1>11, <1>12, WrittenInv

\* A site that writes changes a file and who else was there.
LEMMA ContainerWritesInv ==
    ASSUME IInv, ContainerWrites
    PROVE  IInv'
<1>0. PICK c \in Containers, x \in Files :
          /\ disk' = [disk EXCEPT ![Append(mount[c], x)] = Site]
          /\ run' = Disturb({Append(mount[c], x)}, c)
  BY DEF ContainerWrites
<1>1. PICK p : disk' = [disk EXCEPT ![p] = Site] /\ run' = Disturb({p}, c)
  BY <1>0
<1>2. PICK ds : ds = Disturb({p}, c)
  OBVIOUS
<1>3. /\ ds \in [Repositories -> Runs]
      /\ \A q \in Repositories : /\ RunOK(ds[q]) /\ Quiet(ds[q])
                                 /\ HeldBy(ds[q]) = HeldBy(run[q])
  BY <1>2, DisturbOK
<1>4. DiskOK'
  <2>1. Site \in 0..Site
    BY BoundTypes DEF Site
  <2>2. QED
    BY <1>1, <2>1 DEF IInv, DiskOK
<1>5. UNCHANGED <<docker, dialog, bounds>> /\ run' = ds
  BY <1>1, <1>2 DEF ContainerWrites
<1>6. QED
  BY <1>3, <1>4, <1>5, WrittenInv

-----------------------------------------------------------------------------
(* Containers come up.                                                      *)

\* A container comes up: whoever had it need not hold it any more, and the runs
\* that listed the containers know.
LEMMA WakesInv ==
    ASSUME IInv, NEW c \in Containers, NEW rs \in [Repositories -> Runs], Wakes(c, rs),
           \A r \in Repositories :
              /\ RunOK(rs[r]) /\ Quiet(rs[r])
              /\ HeldBy(run[r]) \subseteq HeldBy(rs[r]) \union {c},
           UNCHANGED <<disk, mount, dialog>>, BoundsOK', booting' \subseteq booting, booting \ {c} \subseteq booting'
    PROVE  IInv'
<1>1. /\ state' = [state EXCEPT ![c] = "up"] /\ abandoned' = abandoned \ {c}
      /\ run' = [r \in Repositories |-> IF rs[r].phase \in {"stopping", "writing", "deleting"}
                                        THEN [rs[r] EXCEPT !.woken = @ \union {c}] ELSE rs[r]]
  BY DEF Wakes
<1>2. DiskOK' /\ DialogOK' /\ DockerOK'
  BY <1>1 DEF IInv, DiskOK, DialogOK, DockerOK
<1>3. \A d \in Containers : state'[d] = IF d = c THEN "up" ELSE state[d]
  BY <1>1 DEF IInv, DockerOK
<1>4. ASSUME NEW r \in Repositories
      PROVE  \E y \in Runs : /\ y = run'[r] /\ RunOK(y) /\ Quiet(y)'
                             /\ HeldBy(y) = HeldBy(rs[r])
  <2>1. rs[r] \in Runs /\ RunOK(rs[r]) /\ Quiet(rs[r])
    OBVIOUS
  <2>2. CASE rs[r].phase \in {"stopping", "writing", "deleting"}
    <3>1. PICK y : y = [rs[r] EXCEPT !.woken = @ \union {c}]
      OBVIOUS
    <3>2. /\ y \in Runs /\ y.phase = rs[r].phase /\ y.stop = rs[r].stop /\ y.halting = rs[r].halting
          /\ y.ours = rs[r].ours /\ y.failed = rs[r].failed /\ y.params = rs[r].params
          /\ y.target = rs[r].target /\ y.halt = rs[r].halt /\ y.woken = rs[r].woken \union {c}
      BY <2>1, <3>1 DEF Runs
    <3>3. Using(y.target)' \subseteq Using(y.target) \union {c}
      BY <1>3 DEF Using
    <3>4. RunOK(y) /\ Quiet(y)'
      BY <2>1, <2>2, <3>2, <3>3 DEF RunOK, Quiet
    <3>5. QED
      BY <1>1, <2>2, <3>1, <3>2, <3>4, HeldAtWork
  <2>3. CASE rs[r].phase \notin {"stopping", "writing", "deleting"}
    <3>1. PICK y \in Runs : y = rs[r] /\ RunOK(y)
      BY <2>1
    <3>2. Quiet(y)'
      BY <2>3, <3>1 DEF Quiet
    <3>3. QED
      BY <1>1, <2>3, <3>1, <3>2
  <2>4. QED
    BY <2>2, <2>3
<1>5. PICK ws : ws = run'
  OBVIOUS
<1>6. /\ ws \in [Repositories -> Runs]
      /\ \A r \in Repositories : HeldBy(ws[r]) = HeldBy(rs[r])
  BY <1>1, <1>4, <1>5
<1>7. ASSUME NEW r \in Repositories PROVE RunOK(ws[r]) /\ Quiet(ws[r])'
  <2>1. PICK y \in Runs : y = ws[r] /\ RunOK(y) /\ Quiet(y)'
    BY <1>4, <1>5
  <2>2. QED
    BY <2>1 DEF Quiet, Using
<1>8. RunsOK'
  BY <1>5, <1>6, <1>7, RunsChange
<1>9. AllHeld'
  <2>1. ASSUME NEW d \in Containers, d # c, Held(d) PROVE Held(d)'
    BY <1>5, <1>6, <2>1 DEF Held
  <2>2. QED
    BY <1>1, <1>3, <2>1 DEF IInv, AllHeld
<1>10. QED
  BY <1>2, <1>8, <1>9 DEF IInv

\* A container that a restore stopped is started, or is remembered as refused.
LEMMA StartContainerInv ==
    ASSUME IInv, NEW r \in Repositories, StartContainer(r)
    PROVE  IInv'
<1>1. /\ run[r] \in Runs /\ RunOK(run[r]) /\ Quiet(run[r]) /\ run[r].phase = "starting"
      /\ run \in [Repositories -> Runs]
      /\ UNCHANGED <<disk, mount, booting, dialog, started, crashes>>
  BY Typings DEF StartContainer
<1>2. PICK c \in run[r].ours :
        \/ Wakes(c, [run EXCEPT ![r].ours = @ \ {c}]) /\ UNCHANGED faults
        \/ /\ Fault /\ UNCHANGED <<state, abandoned>>
           /\ Set(r, [run[r] EXCEPT !.ours = @ \ {c}, !.failed = @ \union {c}])
  BY DEF StartContainer
<1>3. c \in Containers /\ BoundsOK'
  BY <1>1, <1>2, BoundTypes DEF Runs, Fault, IInv, BoundsOK
<1>4. CASE Wakes(c, [run EXCEPT ![r].ours = @ \ {c}])
  <2>1. PICK x : x = [run[r] EXCEPT !.ours = @ \ {c}]
    OBVIOUS
  <2>2. /\ x \in Runs /\ x.phase = "starting" /\ x.stop = run[r].stop /\ x.halting = run[r].halting
        /\ x.ours = run[r].ours \ {c} /\ x.failed = run[r].failed /\ x.params = run[r].params
    BY <1>1, <2>1 DEF Runs
  <2>3. RunOK(x) /\ Quiet(x)
    BY <1>1, <2>2 DEF RunOK, Quiet
  <2>4. PICK rs : rs = [run EXCEPT ![r] = x]
    OBVIOUS
  <2>5. Wakes(c, rs)
    BY <1>4, <2>1, <2>4
  <2>6. /\ rs \in [Repositories -> Runs]
        /\ \A q \in Repositories : rs[q] = IF q = r THEN x ELSE run[q]
    BY <1>1, <2>2, <2>4
  <2>7. \A q \in Repositories :
           /\ RunOK(rs[q]) /\ Quiet(rs[q])
           /\ HeldBy(run[q]) \subseteq HeldBy(rs[q]) \union {c}
    BY <1>1, <2>2, <2>3, <2>6, Typings, HeldAtWork
  <2>8. QED
    BY <1>1, <1>3, <2>5, <2>6, <2>7, WakesInv
<1>5. CASE UNCHANGED <<state, abandoned>> /\ Set(r, [run[r] EXCEPT !.ours = @ \ {c}, !.failed = @ \union {c}])
  <2>1. PICK x : x = [run[r] EXCEPT !.ours = @ \ {c}, !.failed = @ \union {c}]
    OBVIOUS
  <2>2. /\ x \in Runs /\ x.phase = "starting" /\ x.stop = run[r].stop /\ x.halting = run[r].halting
        /\ x.ours = run[r].ours \ {c} /\ x.failed = run[r].failed \union {c} /\ x.params = run[r].params
    BY <1>1, <1>3, <2>1 DEF Runs
  <2>3. RunOK(x) /\ Quiet(x)'
    BY <1>1, <1>2, <2>2 DEF RunOK, Quiet
  <2>4. DiskOK' /\ DialogOK' /\ DockerOK'
    BY <1>1, <1>5 DEF IInv, DiskOK, DialogOK, DockerOK
  <2>5. HeldBy(run[r]) \subseteq x.ours \union x.failed
    BY <1>1, <2>2, HeldAtWork
  <2>6. QED
    BY <1>1, <1>3, <1>5, <2>1, <2>2, <2>3, <2>4, <2>5, OneRun DEF Set
<1>6. QED
  BY <1>2, <1>4, <1>5

\* The record is cleared of what was started, not of what was refused.
LEMMA AllStartedInv ==
    ASSUME IInv, NEW r \in Repositories, AllStarted(r)
    PROVE  IInv'
<1>1. /\ run[r] \in Runs /\ RunOK(run[r]) /\ run[r].phase = "starting" /\ run[r].ours = {}
      /\ UNCHANGED <<disk, docker, dialog, started, crashes>>
  BY Typings DEF AllStarted
<1>2. PICK y : /\ y = [run[r] EXCEPT !.phase = "settling"]
               /\ \/ Set(r, Records(y, y.failed)) /\ UNCHANGED faults
                  \/ Set(r, Loses(y, y.failed)) /\ Fault
  BY DEF AllStarted
<1>3. PICK x : x \in {Records(y, y.failed), Loses(y, y.failed)} /\ Set(r, x)
  BY <1>2
<1>4. /\ y \in Runs /\ y.phase = "settling" /\ y.stop = run[r].stop /\ y.halting = run[r].halting
      /\ y.ours = {} /\ y.failed = run[r].failed
  BY <1>1, <1>2 DEF Runs, RunPhases
<1>5. /\ x \in Runs /\ x.phase = "settling" /\ x.stop = run[r].stop /\ x.halting = run[r].halting
      /\ x.ours = {} /\ x.failed = run[r].failed /\ x.params = run[r].failed
  BY <1>3, <1>4 DEF Runs, Records, Loses
<1>6. RunOK(x) /\ Quiet(x)
  BY <1>1, <1>5 DEF RunOK, Quiet
<1>7. UNCHANGED faults \/ Fault
  BY <1>2
<1>8. HeldBy(run[r]) \subseteq x.ours \union x.failed
  BY <1>1, <1>5, HeldAtWork
<1>9. QED
  BY <1>1, <1>3, <1>5, <1>6, <1>7, <1>8, OnlyRun DEF Set

\* A row that was left behind holds what it names.
LEMMA LeftBehindOK ==
    ASSUME NEW x \in Runs
    PROVE  /\ LeftBehind(x) \in Runs /\ RunOK(LeftBehind(x)) /\ Quiet(LeftBehind(x)) /\ Quiet(LeftBehind(x))'
           /\ HeldBy(LeftBehind(x)) = x.noted
<1>1. PICK y : y = LeftBehind(x)
  OBVIOUS
<1>2. /\ y \in Runs /\ y.phase = "left" /\ y.ours = {} /\ y.failed = {} /\ y.halting = {}
      /\ y.noted = x.noted
  <2>1. NoRun \in Runs /\ NoRun.failed = {} /\ NoRun.halting = {} /\ NoRun.ours = {}
    BY NoRunOK DEF NoRun
  <2> HIDE DEF NoRun
  <2>2. QED
    BY <1>1, <2>1 DEF LeftBehind, Runs, RunPhases
<1>3. RunOK(y) /\ Quiet(y) /\ Quiet(y)' /\ HeldBy(y) = x.noted
  BY <1>2 DEF RunOK, Quiet, HeldBy
<1>4. QED
  BY <1>1, <1>2, <1>3 DEF Quiet, Using

\* A run is over: what it could not start is given up.
LEMMA FinishInv ==
    ASSUME IInv, NEW r \in Repositories, Finish(r)
    PROVE  IInv'
<1>1. /\ run[r] \in Runs /\ RunOK(run[r]) /\ run \in [Repositories -> Runs]
      /\ run[r].phase = (IF run[r].stop THEN "settling" ELSE "starting")
      /\ UNCHANGED <<disk, mount, state, booting, dialog, started, crashes>>
  BY Typings DEF Finish
<1>2. run[r].ours = {} /\ run[r].failed \subseteq Containers /\ HeldBy(run[r]) = run[r].failed
  BY <1>1 DEF RunOK, Runs, HeldBy
<1>3. PICK x \in Runs :
        /\ run' = [run EXCEPT ![r] = x] /\ RunOK(x) /\ Quiet(x)'
        /\ abandoned' = abandoned \union StoppedOf(run[r].failed \ HeldBy(x))
        /\ UNCHANGED faults \/ Fault
  <2>1. CASE /\ Set(r, NoRun) /\ UNCHANGED faults
             /\ abandoned' = abandoned \union StoppedOf(run[r].failed)
    <3>1. PICK x \in Runs : x = NoRun /\ RunOK(x) /\ Quiet(x) /\ HeldBy(x) = {}
      BY NoRunOK DEF HeldBy, NoRun
    <3>2. Quiet(x)'
      BY <1>1, <3>1, QuietKept
    <3>3. run[r].failed \ HeldBy(x) = run[r].failed
      BY <3>1
    <3>4. QED
      BY <2>1, <3>1, <3>2, <3>3 DEF Set
  <2>2. CASE /\ Set(r, LeftBehind(run[r])) /\ Fault
             /\ abandoned' = abandoned \union StoppedOf(run[r].failed \ run[r].noted)
    <3>1. PICK x \in Runs : x = LeftBehind(run[r]) /\ RunOK(x) /\ Quiet(x) /\ HeldBy(x) = run[r].noted
      BY <1>1, LeftBehindOK
    <3>2. Quiet(x)'
      BY <1>1, <3>1, QuietKept
    <3>3. QED
      BY <2>2, <3>1, <3>2 DEF Set
  <2>3. QED
    BY <2>1, <2>2 DEF Finish
<1>4. PICK rs : rs = [run EXCEPT ![r] = x]
  OBVIOUS
<1>5. /\ rs \in [Repositories -> Runs] /\ run' = rs
      /\ \A q \in Repositories : rs[q] = IF q = r THEN x ELSE run[q]
  BY <1>1, <1>3, <1>4
<1>6. DiskOK' /\ DialogOK' /\ BoundsOK' /\ DockerOK'
  BY <1>1, <1>2, <1>3, BoundTypes DEF IInv, DiskOK, DialogOK, BoundsOK, DockerOK, StoppedOf, Fault
<1>7. ASSUME NEW q \in Repositories PROVE RunOK(rs[q]) /\ Quiet(rs[q])'
  <2>1. CASE q = r
    BY <1>3, <1>5, <2>1 DEF Quiet, Using
  <2>2. CASE q # r
    <3>1. PICK y \in Runs : y = rs[q] /\ RunOK(y) /\ Quiet(y)
      BY <1>5, <2>2, Typings
    <3>2. Quiet(y)'
      BY <1>1, <3>1, QuietKept
    <3>3. QED
      BY <3>1, <3>2 DEF Quiet, Using
  <2>3. QED
    BY <2>1, <2>2
<1>8. RunsOK'
  BY <1>5, <1>7, RunsChange
<1>9. AllHeld'
  <2>1. ASSUME NEW c \in Containers, Held(c), c \notin run[r].failed \ HeldBy(x) PROVE Held(c)'
    <3>1. PICK q \in Repositories : c \in HeldBy(run[q])
      BY <2>1 DEF Held
    <3>2. CASE q = r
      BY <1>2, <1>5, <2>1, <3>1, <3>2 DEF Held, HeldBy
    <3>3. CASE q # r
      BY <1>5, <3>1, <3>3 DEF Held, HeldBy
    <3>4. QED
      BY <3>2, <3>3
  <2>2. ASSUME NEW c \in Containers, c \in run[r].failed \ HeldBy(x), state[c] = "stopped" PROVE c \in abandoned'
    BY <1>3, <2>2 DEF StoppedOf
  <2>3. QED
    BY <1>1, <1>3, <2>1, <2>2 DEF IInv, AllHeld
<1>10. QED
  BY <1>6, <1>8, <1>9 DEF IInv

-----------------------------------------------------------------------------
(* The server, and others who start and stop containers.                    *)

\* What the rows name is what the boot is to start, or what waits for the next;
\* what no row names is given up.
LEMMA RestartInv ==
    ASSUME IInv, Restart
    PROVE  IInv'
<1>1. /\ UNCHANGED <<disk, mount, state, dialog, started>>
      /\ UNCHANGED faults \/ Fault
      /\ crashes < MaxCrashes /\ crashes' = crashes + 1
      /\ abandoned' = (abandoned \union StoppedOf(booting \union Unrecorded)) \ booting'
      /\ \/ /\ booting' = UNION {run[r].noted : r \in Repositories}
            /\ run' = [r \in Repositories |-> NoRun]
         \/ /\ booting' = {}
            /\ run' = [r \in Repositories |-> IF Active(r) THEN LeftBehind(run[r]) ELSE NoRun]
         \/ \E q \in Repositories :
               /\ booting' = UNION {run[r].noted : r \in Repositories}
               /\ run' = [r \in Repositories |-> IF r = q THEN LeftBehind(run[r]) ELSE NoRun]
  BY DEF Restart
<1>2. \A r \in Repositories : run[r].noted \subseteq Containers /\ run[r].params \subseteq Containers
  BY Typings DEF Runs
<1>3. DiskOK' /\ DialogOK' /\ BoundsOK' /\ DockerOK'
  <2>1. DiskOK' /\ DialogOK' /\ BoundsOK'
    BY <1>1, BoundTypes DEF IInv, DiskOK, DialogOK, BoundsOK, Fault
  <2>2. booting' \subseteq Containers /\ Unrecorded \subseteq Containers
    BY <1>1, <1>2 DEF Unrecorded
  <2>3. QED
    BY <1>1, <2>1, <2>2 DEF IInv, DockerOK, StoppedOf
<1>4. PICK rs : rs = run'
  OBVIOUS
<1>5. ASSUME NEW r \in Repositories
      PROVE  \E y \in Runs : /\ y = rs[r] /\ RunOK(y) /\ Quiet(y)'
                             /\ run[r].noted \subseteq booting' \union HeldBy(y)
  <2>1. PICK y \in Runs : y = NoRun /\ RunOK(y) /\ Quiet(y)'
    <3>1. PICK y \in Runs : y = NoRun /\ RunOK(y) /\ Quiet(y)
      BY NoRunOK
    <3>2. Quiet(y)'
      BY <1>1, <3>1, QuietKept
    <3>3. QED
      BY <3>1, <3>2
  <2>2. PICK z \in Runs : z = LeftBehind(run[r]) /\ RunOK(z) /\ Quiet(z)' /\ HeldBy(z) = run[r].noted
    <3>1. PICK z \in Runs : z = LeftBehind(run[r]) /\ RunOK(z) /\ Quiet(z) /\ HeldBy(z) = run[r].noted
      BY Typings, LeftBehindOK
    <3>2. Quiet(z)'
      BY <1>1, <3>1, QuietKept
    <3>3. QED
      BY <3>1, <3>2
  <2>3. CASE booting' = UNION {run[q].noted : q \in Repositories} /\ run' = [q \in Repositories |-> NoRun]
    BY <1>4, <2>1, <2>3
  <2>4. CASE run' = [q \in Repositories |-> IF Active(q) THEN LeftBehind(run[q]) ELSE NoRun]
    <3>1. CASE Active(r)
      BY <1>4, <2>2, <2>4, <3>1
    <3>2. CASE ~Active(r)
      <4>1. run[r].noted = {}
        BY <3>2, Typings DEF RunOK, Active
      <4>2. QED
        BY <1>4, <2>1, <2>4, <3>2, <4>1
    <3>3. QED
      BY <3>1, <3>2
  <2>5. CASE \E p \in Repositories :
               /\ booting' = UNION {run[q].noted : q \in Repositories}
               /\ run' = [q \in Repositories |-> IF q = p THEN LeftBehind(run[q]) ELSE NoRun]
    <3>1. run[r].noted \subseteq booting' /\ rs[r] \in {y, z}
      BY <1>4, <2>1, <2>2, <2>5
    <3>2. QED
      BY <2>1, <2>2, <3>1
  <2>6. QED
    BY <1>1, <2>3, <2>4, <2>5
<1>6. RunsOK'
  <2>1. rs \in [Repositories -> Runs]
    <3>1. rs = [r \in Repositories |-> rs[r]]
      BY <1>1, <1>4
    <3>2. QED
      BY <1>5, <3>1
  <2>2. ASSUME NEW r \in Repositories PROVE RunOK(rs[r]) /\ Quiet(rs[r])'
    <3>1. PICK y \in Runs : y = rs[r] /\ RunOK(y) /\ Quiet(y)'
      BY <1>5
    <3>2. QED
      BY <3>1 DEF Quiet, Using
  <2>3. QED
    BY <1>4, <2>1, <2>2, RunsChange
<1>7. AllHeld'
  <2>1. ASSUME NEW c \in Containers, NEW r \in Repositories, c \in run[r].noted
        PROVE  c \in booting' \/ Held(c)'
    <3>1. PICK y \in Runs : y = rs[r] /\ run[r].noted \subseteq booting' \union HeldBy(y)
      BY <1>5
    <3>2. QED
      BY <1>4, <2>1, <3>1 DEF Held, HeldBy
  <2>2. ASSUME NEW c \in Containers, NEW r \in Repositories, c \in run[r].params, state[c] = "stopped"
        PROVE  c \in abandoned' \union booting' \/ Held(c)'
    <3>1. CASE c \in run[r].noted
      BY <2>1, <3>1
    <3>2. CASE c \notin run[r].noted
      BY <1>1, <2>2, <3>2 DEF Unrecorded, StoppedOf
    <3>3. QED
      BY <3>1, <3>2
  <2>3. ASSUME NEW c \in Containers, Held(c), state[c] = "stopped"
        PROVE  c \in abandoned' \union booting' \/ Held(c)'
    <3>1. PICK r \in Repositories : c \in HeldBy(run[r])
      BY <2>3 DEF Held
    <3>2. c \in run[r].params \/ c \in run[r].noted
      BY <3>1, Typings DEF HeldBy, RunOK
    <3>3. QED
      BY <2>1, <2>2, <2>3, <3>2
  <2>4. ASSUME NEW c \in Containers, state[c] = "stopped", c \in abandoned \union booting
        PROVE  c \in abandoned' \union booting'
    BY <1>1, <2>4 DEF StoppedOf
  <2>5. QED
    BY <1>1, <2>3, <2>4 DEF IInv, AllHeld
<1>8. QED
  BY <1>3, <1>6, <1>7 DEF IInv

\* Wakes of runs that are otherwise left alone.
LEMMA OnlyWakes ==
    ASSUME IInv, NEW c \in Containers, Wakes(c, run),
           UNCHANGED <<disk, mount, dialog>>, BoundsOK', booting' \subseteq booting, booting \ {c} \subseteq booting'
    PROVE  IInv'
<1>1. /\ run \in [Repositories -> Runs]
      /\ \A r \in Repositories : RunOK(run[r]) /\ Quiet(run[r])
  BY DEF IInv, RunsOK
<1>2. QED
  BY <1>1, WakesInv

\* Containers that go down, or are given up.
LEMMA OnlyDocker ==
    ASSUME IInv, UNCHANGED <<disk, mount, dialog, run>>, BoundsOK', DockerOK',
           \A c \in Containers : state'[c] # "down" => state'[c] = state[c],
           \A c \in Containers : c \in abandoned \union booting /\ state'[c] = "stopped"
                                  => c \in abandoned' \union booting'
    PROVE  IInv'
<1>1. DiskOK' /\ DialogOK'
  BY DEF IInv, DiskOK, DialogOK
<1>2. ASSUME NEW r \in Repositories PROVE RunOK(run[r]) /\ Quiet(run[r])'
  <2>1. PICK y \in Runs : y = run[r] /\ RunOK(y) /\ Quiet(y)
    BY Typings
  <2>2. Quiet(y)'
    BY <2>1, QuietKept
  <2>3. QED
    BY <2>1, <2>2 DEF Quiet, Using
<1>3. RunsOK'
  BY <1>2 DEF IInv, RunsOK
<1>4. AllHeld'
  BY DEF IInv, AllHeld, Held, HeldBy
<1>5. QED
  BY <1>1, <1>3, <1>4 DEF IInv

\* A container the boot cannot start is given up, and remembered as such.
LEMMA BootStartsInv ==
    ASSUME IInv, BootStarts
    PROVE  IInv'
<1>1. PICK c \in booting :
        /\ booting' = booting \ {c}
        /\ \/ Wakes(c, run)
           \/ /\ abandoned' = IF state[c] = "stopped" THEN abandoned \union {c} ELSE abandoned
              /\ UNCHANGED <<state, run>>
  BY DEF BootStarts
<1>2. UNCHANGED <<disk, mount, dialog>> /\ BoundsOK' /\ c \in Containers
  BY DEF BootStarts, IInv, BoundsOK, DockerOK, bounds
<1>3. CASE Wakes(c, run)
  BY <1>1, <1>2, <1>3, OnlyWakes
<1>4. CASE /\ abandoned' = IF state[c] = "stopped" THEN abandoned \union {c} ELSE abandoned
           /\ UNCHANGED <<state, run>>
  <2>1. DockerOK'
    BY <1>1, <1>2, <1>4 DEF IInv, DockerOK
  <2>2. QED
    BY <1>1, <1>2, <1>4, <2>1, OnlyDocker
<1>5. QED
  BY <1>1, <1>3, <1>4

\* Whoever starts a container beside a restore is known to it.
LEMMA OutsideActsInv ==
    ASSUME IInv, OutsideActs
    PROVE  IInv'
<1>1. PICK c \in Containers :
        \/ state[c] = "up" /\ state' = [state EXCEPT ![c] = "down"] /\ UNCHANGED <<abandoned, run>>
        \/ state[c] # "up" /\ Wakes(c, run)
  BY DEF OutsideActs
<1>2. UNCHANGED <<disk, mount, booting, dialog>> /\ BoundsOK'
  BY BoundTypes DEF OutsideActs, Fault, IInv, BoundsOK
<1>3. CASE Wakes(c, run)
  BY <1>2, <1>3, OnlyWakes
<1>4. CASE state' = [state EXCEPT ![c] = "down"] /\ UNCHANGED <<abandoned, run>>
  <2>1. DockerOK'
    BY <1>2, <1>4 DEF IInv, DockerOK
  <2>2. \A d \in Containers : state'[d] # "down" => state'[d] = state[d]
    BY <1>4 DEF IInv, DockerOK
  <2>3. QED
    BY <1>2, <1>4, <2>1, <2>2, OnlyDocker
<1>5. QED
  BY <1>1, <1>3, <1>4

-----------------------------------------------------------------------------
(* The invariant.                                                           *)

\* At first every container is up and no restore is under way.
LEMMA InitInv ==
    ASSUME Init
    PROVE  IInv
<1>1. DiskOK
  <2>1. Site \in 0..Site /\ Nothing \in 0..Site
    BY BoundTypes DEF Site, Nothing
  <2>2. QED
    BY <2>1 DEF Init, DiskOK
<1>2. DockerOK
  BY DEF Init, DockerOK
<1>3. DialogOK
  <2>1. NoDialog \in [watched : Roots \union {NoPath}, offered : BOOLEAN]
    BY DEF NoDialog
  <2>2. QED
    BY <2>1 DEF Init, DialogOK
<1>4. BoundsOK
  BY BoundTypes DEF Init, BoundsOK
<1>5. RunsOK
  BY NoRunOK DEF Init, RunsOK
<1>6. AllHeld
  BY DEF Init, AllHeld
<1>7. QED
  BY <1>1, <1>2, <1>3, <1>4, <1>5, <1>6 DEF IInv

\* Every step keeps the invariant.
LEMMA NextInv ==
    ASSUME IInv, [Next]_vars
    PROVE  IInv'
<1>1. CASE UNCHANGED vars
  BY <1>1 DEF vars, docker, bounds, IInv, DiskOK, DockerOK, DialogOK, BoundsOK, RunsOK, Quiet, Using,
              AllHeld, Held, HeldBy
<1>2. CASE OpenDialog \/ CloseDialog \/ ContainersKnown \/ Submit
  BY <1>2, DialogInv, SubmitInv
<1>3. ASSUME NEW r \in Repositories, RunStep(r) PROVE IInv'
  BY <1>3, PlanRestoreInv, ListContainersInv, NoteContainerInv, StopContainerInv, StartResticInv,
     ResticWritesInv, ResticDeletesInv, RunFailsInv, StartContainerInv, AllStartedInv, FinishInv DEF RunStep
<1>4. CASE Restart \/ BootStarts \/ ContainerWrites \/ OutsideActs
  BY <1>4, RestartInv, BootStartsInv, ContainerWritesInv, OutsideActsInv
<1>5. QED
  BY <1>1, <1>2, <1>3, <1>4 DEF Next

\* The invariant holds in every state.
LEMMA Invariant == Spec => []IInv
<1>1. Init => IInv
  BY InitInv
<1>2. IInv /\ [Next]_vars => IInv'
  BY NextInv
<1>3. QED
  BY <1>1, <1>2, PTL DEF Spec

\* Disk, dialog and containers stay well typed, and what a run stops, has to
\* start or could not start is in its parameters (stopContainersUsing).
THEOREM TypeCorrect == Spec => []TypeOK
<1>1. IInv => TypeOK
  <2>1. ASSUME IInv, NEW r \in Repositories
        PROVE  /\ run[r].phase \in RunPhases
               /\ run[r].halting # {} => run[r].phase = "stopping"
               /\ run[r].halting \union run[r].ours \union run[r].failed \subseteq run[r].params
    BY <2>1, Typings DEF Runs, RunOK
  <2>2. QED
    BY <2>1 DEF IInv, DiskOK, DockerOK, DialogOK, BoundsOK, TypeOK
<1>2. QED
  BY <1>1, Invariant, PTL

\* A restore leaves no container stopped that no run, no row and no boot is to
\* start again, but those that Docker refused to start, those whose boot a second
\* crash cut short, and those that the row does not name because its update failed
\* and was not made up for (stopContainersUsing, mutate, reconcile).
THEOREM SitesComeBack == Spec => []SitesBroughtBack
<1>1. IInv => SitesBroughtBack
  <2>1. ASSUME IInv, NEW c \in Containers, Held(c)
        PROVE  \E r \in Repositories : c \in run[r].ours \union run[r].failed \union run[r].noted
    BY <2>1 DEF Held, HeldBy
  <2>2. QED
    BY <2>1 DEF IInv, AllHeld, SitesBroughtBack
<1>2. QED
  BY <1>1, Invariant, PTL

\* While restic restores into a folder whose site was to be stopped, a container
\* that is up there came up after the containers were listed: somebody outside
\* started it, or another restore at its end, or the boot (stopContainersUsing).
THEOREM SitesAreQuiet == Spec => []QuietWhileRestoring
<1>1. IInv => QuietWhileRestoring
  BY DEF IInv, RunsOK, Quiet, QuietWhileRestoring
<1>2. QED
  BY <1>1, Invariant, PTL

-----------------------------------------------------------------------------
(* What a restore writes and deletes.                                       *)

Names  == Folders \union Files
Asking == {"planning", "listing", "stopping", "writing", "deleting"}

\* What a plan that was not refused was made of.
AsPlanned(x) ==
    /\ x.snap \in Snapshots /\ x.target \in Targets
    /\ x.plan = Plan(x.target, x.snap.paths, x.include) /\ ~Refuses(x.target, x.snap, x.include)

\* A restore keeps what it was asked for, and works by its plan.
Planned(x) ==
    /\ x.phase \in Asking => x.snap \in Snapshots /\ x.target \in Targets /\ x.outcome = "none"
    /\ x.phase \in Asking \ {"planning"} => AsPlanned(x)

\* What nobody else has touched is as restic wrote it.
Written(x) == x.phase = "deleting" /\ Alone(x) => \A p \in Wanted(x.snap, x.plan) : disk[p] = x.no

AllPlanned == \A r \in Repositories : Planned(run[r])
AllWritten == \A r \in Repositories : Written(run[r])

-----------------------------------------------------------------------------
(* Paths.                                                                   *)

\* A path is within another one if it begins like it.
LEMMA BeginsLike ==
    ASSUME NEW S, NEW p \in Seq(S), NEW q \in Seq(S)
    PROVE  within(p, q) <=> Len(q) <= Len(p) /\ \A i \in 1..Len(q) : q[i] = p[i]
<1>1. Len(p) \in Nat /\ Len(q) \in Nat
  BY LenProperties
<1>2. SubSeq(q, 1, Len(q)) = q
  BY SubSeqFull
<1>3. CASE Len(q) <= Len(p)
  <2>1. \A i \in 1..Len(q) : p[i] \in S
    BY <1>1, <1>3, ElementOfSeq
  <2>2. PICK h : h = SubSeq(p, 1, Len(q))
    OBVIOUS
  <2>3. h \in Seq(S) /\ Len(h) = Len(q) /\ \A i \in 1..Len(q) : h[i] = p[i]
    <3>1. /\ h \in Seq(S) /\ Len(h) = (IF 1 <= Len(q) THEN Len(q) - 1 + 1 ELSE 0)
          /\ \A i \in 1 .. Len(q) - 1 + 1 : h[i] = p[1 + i - 1]
      BY <1>1, <2>1, <2>2, SubSeqProperties
    <3>2. QED
      BY <1>1, <3>1
  <2>4. h = q <=> \A i \in 1..Len(q) : q[i] = p[i]
    <3>1. ASSUME \A i \in 1..Len(q) : q[i] = p[i] PROVE h = q
      BY <1>1, <2>3, <3>1, SeqEqual
    <3>2. QED
      BY <2>3, <3>1
  <2>5. QED
    BY <1>2, <1>3, <2>2, <2>4 DEF within, IsPrefix
<1>4. QED
  BY <1>1, <1>3 DEF within, IsPrefix

\* All is within the root, and a path within itself.
LEMMA WithinAll == ASSUME NEW S, NEW p \in Seq(S) PROVE within(p, <<>>) /\ within(p, p)
<1>1. <<>> \in Seq(S) /\ Len(<<>>) = 0 /\ Len(p) \in Nat
  BY EmptySeq, LenProperties
<1>2. within(p, p)
  BY <1>1, BeginsLike
<1>3. PICK e \in Seq(S) : e = <<>> /\ Len(e) = 0
  BY <1>1
<1>4. Len(e) <= Len(p) /\ \A i \in 1..Len(e) : e[i] = p[i]
  BY <1>1, <1>3
<1>5. within(p, e)
  BY <1>4, BeginsLike
<1>6. QED
  BY <1>2, <1>3, <1>5

\* Within is transitive.
LEMMA WithinWithin ==
    ASSUME NEW S, NEW p \in Seq(S), NEW q \in Seq(S), NEW t \in Seq(S), within(p, q), within(q, t)
    PROVE  within(p, t)
<1>1. Len(p) \in Nat /\ Len(q) \in Nat /\ Len(t) \in Nat
  BY LenProperties
<1>2. Len(q) <= Len(p) /\ \A i \in 1..Len(q) : q[i] = p[i]
  BY BeginsLike
<1>3. Len(t) <= Len(q) /\ \A i \in 1..Len(t) : t[i] = q[i]
  BY BeginsLike
<1>4. Len(t) <= Len(p) /\ \A i \in 1..Len(t) : t[i] = p[i]
  BY <1>1, <1>2, <1>3
<1>5. QED
  BY <1>4, BeginsLike

\* What is put under a folder stays in order there.
LEMMA WithinUnder ==
    ASSUME NEW S, NEW t \in Seq(S), NEW p \in Seq(S), NEW q \in Seq(S)
    PROVE  /\ t \o p \in Seq(S) /\ within(t \o p, t)
           /\ within(p, q) => within(t \o p, t \o q)
<1>1. Len(p) \in Nat /\ Len(q) \in Nat /\ Len(t) \in Nat
  BY LenProperties
<1>2. PICK tp \in Seq(S) : tp = t \o p /\ Len(tp) = Len(t) + Len(p)
         /\ \A i \in 1 .. Len(t) + Len(p) : tp[i] = IF i <= Len(t) THEN t[i] ELSE p[i - Len(t)]
  <2>1. /\ t \o p \in Seq(S) /\ Len(t \o p) = Len(t) + Len(p)
        /\ \A i \in 1 .. Len(t) + Len(p) : (t \o p)[i] = IF i <= Len(t) THEN t[i] ELSE p[i - Len(t)]
    BY ConcatProperties, Zenon
  <2>2. QED
    BY <2>1
<1>3. PICK tq \in Seq(S) : tq = t \o q /\ Len(tq) = Len(t) + Len(q)
         /\ \A i \in 1 .. Len(t) + Len(q) : tq[i] = IF i <= Len(t) THEN t[i] ELSE q[i - Len(t)]
  <2>1. /\ t \o q \in Seq(S) /\ Len(t \o q) = Len(t) + Len(q)
        /\ \A i \in 1 .. Len(t) + Len(q) : (t \o q)[i] = IF i <= Len(t) THEN t[i] ELSE q[i - Len(t)]
    BY ConcatProperties, Zenon
  <2>2. QED
    BY <2>1
<1>4. within(tp, t)
  <2>1. Len(t) <= Len(tp) /\ \A i \in 1..Len(t) : t[i] = tp[i]
    BY <1>1, <1>2
  <2>2. QED
    BY <2>1, BeginsLike
<1>5. ASSUME within(p, q) PROVE within(tp, tq)
  <2>1. Len(q) <= Len(p) /\ \A i \in 1..Len(q) : q[i] = p[i]
    BY <1>5, BeginsLike
  <2>2. ASSUME NEW i \in 1..Len(tq) PROVE tq[i] = tp[i]
    <3>1. i \in 1 .. Len(t) + Len(q) /\ i \in 1 .. Len(t) + Len(p)
      BY <1>1, <1>3, <2>1
    <3>2. CASE i <= Len(t)
      BY <1>2, <1>3, <3>1, <3>2
    <3>3. CASE ~(i <= Len(t))
      <4>1. i - Len(t) \in 1..Len(q)
        BY <1>1, <3>1, <3>3
      <4>2. QED
        BY <1>2, <1>3, <2>1, <3>1, <3>3, <4>1
    <3>4. QED
      BY <3>2, <3>3
  <2>3. Len(tq) <= Len(tp)
    BY <1>1, <1>2, <1>3, <2>1
  <2>4. QED
    BY <2>2, <2>3, BeginsLike
<1>6. QED
  BY <1>2, <1>3, <1>4, <1>5

\* Short paths.
LEMMA ShortPaths ==
    ASSUME NEW S, NEW a \in S, NEW b \in S
    PROVE  /\ <<a>> \in Seq(S) /\ Len(<<a>>) = 1 /\ <<a>>[1] = a /\ <<a>> # <<>>
           /\ <<a, b>> \in Seq(S) /\ Append(<<a>>, b) = <<a, b>> /\ <<a, b>>[1] = a
<1>1. <<a>> \in Seq(S) /\ Len(<<a>>) = 1 /\ <<a>>[1] = a /\ <<a>> # <<>>
  OBVIOUS
<1>2. <<a, b>> \in Seq(S) /\ Len(<<a, b>>) = 2 /\ <<a, b>>[1] = a /\ <<a, b>>[2] = b
  OBVIOUS
<1>3. PICK p \in Seq(S) : p = Append(<<a>>, b) /\ Len(p) = 2 /\ p[1] = a /\ p[2] = b
  <2>1. PICK o \in Seq(S) : o = <<a>> /\ Len(o) = 1 /\ o[1] = a
    BY <1>1
  <2>2. PICK p : p = Append(o, b)
    OBVIOUS
  <2>3. /\ p \in Seq(S) /\ Len(p) = Len(o) + 1 /\ p[Len(o) + 1] = b
        /\ \A i \in 1..Len(o) : p[i] = o[i]
    BY <2>2, AppendProperties
  <2>4. QED
    BY <2>1, <2>2, <2>3
<1>4. \A i \in 1..2 : p[i] = <<a, b>>[i]
  BY <1>2, <1>3
<1>5. p = <<a, b>>
  BY <1>2, <1>3, <1>4, SeqEqual
<1>6. QED
  BY <1>1, <1>2, <1>3, <1>5

\* Everything that is named is a sequence of names.
LEMMA PathsAreSeqs ==
    /\ Roots \subseteq Seq(Names) /\ InPlace \subseteq Seq(Names)
    /\ Targets \subseteq Seq(Names) /\ Paths \subseteq Seq(Names)
    /\ <<>> \notin Roots /\ <<>> \in Seq(Names)
<1>1. ASSUME NEW m \in Roots PROVE m \in Seq(Names) /\ m # <<>>
  <2>1. PICK f \in Folders : m = <<f>>
    BY DEF Roots
  <2>2. f \in Names
    BY DEF Names
  <2>3. QED
    BY <2>1, <2>2, ShortPaths
<1>2. ASSUME NEW p \in InPlace PROVE p \in Seq(Names)
  <2>1. PICK f \in Folders, x \in Files : p = <<f, x>>
    BY DEF InPlace
  <2>2. f \in Names /\ x \in Names
    BY DEF Names
  <2>3. QED
    BY <2>1, <2>2, ShortPaths
<1>3. <<>> \in Seq(Names)
  BY EmptySeq
<1>4. ASSUME NEW p \in Paths PROVE p \in Seq(Names)
  <2>1. CASE p \in InPlace
    BY <1>2, <2>1
  <2>2. CASE p \in {t \o q : t \in Roots, q \in InPlace}
    <3>1. PICK t \in Roots, q \in InPlace : p = t \o q
      BY <2>2
    <3>2. t \in Seq(Names) /\ q \in Seq(Names)
      BY <1>1, <1>2
    <3>3. QED
      BY <3>1, <3>2, ConcatProperties
  <2>3. QED
    BY <2>1, <2>2 DEF Paths
<1>5. QED
  BY <1>1, <1>2, <1>3, <1>4 DEF Targets

\* A file lies in one folder.
LEMMA FileInFolder ==
    ASSUME NEW m \in Roots, NEW x \in Files, NEW t \in Targets, within(Append(m, x), t)
    PROVE  within(m, t)
<1>1. PICK f \in Folders : m = <<f>>
  BY DEF Roots
<1>2. m \in Seq(Names) /\ t \in Seq(Names)
  BY PathsAreSeqs
<1>3. CASE t = <<>>
  BY <1>2, <1>3, WithinAll
<1>4. CASE t \in Roots
  <2>1. PICK g \in Folders : t = <<g>>
    BY <1>4 DEF Roots
  <2>2. f \in Names /\ x \in Names /\ g \in Names
    BY DEF Names
  <2>3. PICK p \in Seq(Names) : p = Append(m, x) /\ p[1] = f
    BY <1>1, <2>2, ShortPaths
  <2>4. Len(t) = 1 /\ t[1] = g
    BY <2>1, <2>2, ShortPaths
  <2>5. within(p, t)
    BY <2>3
  <2>6. \A i \in 1..1 : t[i] = p[i]
    BY <1>2, <2>4, <2>5, BeginsLike
  <2>7. m = t
    BY <1>1, <2>1, <2>3, <2>4, <2>6
  <2>8. QED
    BY <1>2, <2>7, WithinAll
<1>5. QED
  BY <1>3, <1>4 DEF Targets

-----------------------------------------------------------------------------
(* Plans.                                                                   *)

\* A snapshot holds files of its folders.
LEMMA SnapshotIs ==
    ASSUME NEW s \in Snapshots
    PROVE  /\ s.paths \subseteq Roots /\ s.files \subseteq InPlace
           /\ \A p \in s.files : \E q \in s.paths : within(p, q)
           /\ Nodes(s) \subseteq Seq(Names)
<1>1. s.paths \subseteq Roots /\ s.files \subseteq InPlace /\ \A p \in s.files : \E q \in s.paths : within(p, q)
  BY DEF Snapshots
<1>2. QED
  BY <1>1, PathsAreSeqs DEF Nodes

\* A plan is in place or into another folder.
LEMMA PlanIs ==
    ASSUME NEW x, AsPlanned(x)
    PROVE  /\ x.include \subseteq Nodes(x.snap)
           /\ \/ /\ x.target \in x.snap.paths /\ x.plan.target = <<>>
                 /\ x.plan.include = IF x.include = {} THEN {x.target} ELSE x.include
                 /\ \A q \in x.include : within(q, x.target)
              \/ /\ x.target = <<>> /\ x.target \notin x.snap.paths /\ x.plan.target = <<>>
                 /\ x.plan.include = IF x.include = {} THEN x.snap.paths ELSE x.include
              \/ /\ x.target \in Roots \ x.snap.paths /\ x.plan.target = x.target
                 /\ x.plan.include = x.include
<1>1. PICK whole : whole = resolved(x.target, x.snap.paths)
  OBVIOUS
<1>2. /\ x.plan = IF x.include = {} THEN whole ELSE [whole EXCEPT !.include = x.include]
      /\ \A q \in x.include : q \in Nodes(x.snap) /\ (whole.target = <<>> => within(q, x.target))
  BY <1>1 DEF AsPlanned, Plan, Selected, Refuses
<1>3. x.target \in Targets /\ x.snap.paths \subseteq Roots /\ <<>> \notin Roots
  BY SnapshotIs, PathsAreSeqs DEF AsPlanned
<1>4. CASE x.target \in x.snap.paths
  <2>1. whole = [target |-> <<>>, include |-> {x.target}]
    BY <1>1, <1>3, <1>4 DEF resolved
  <2>2. QED
    BY <1>2, <1>4, <2>1
<1>5. CASE x.target = <<>> /\ x.target \notin x.snap.paths
  <2>1. whole = [target |-> <<>>, include |-> x.snap.paths]
    BY <1>1, <1>5 DEF resolved
  <2>2. QED
    BY <1>2, <1>5, <2>1
<1>6. CASE x.target # <<>> /\ x.target \notin x.snap.paths
  <2>1. whole = [target |-> x.target, include |-> {}]
    BY <1>1, <1>6 DEF resolved
  <2>2. x.target \in Roots
    BY <1>3, <1>6 DEF Targets
  <2>3. x.plan.target = x.target /\ x.plan.include = x.include
    <3>1. CASE x.include = {}
      BY <1>2, <2>1, <3>1
    <3>2. CASE x.include # {}
      BY <1>2, <2>1, <3>2
    <3>3. QED
      BY <3>1, <3>2
  <2>4. QED
    BY <1>2, <1>6, <2>2, <2>3
<1>7. QED
  BY <1>3, <1>4, <1>5, <1>6

\* All that is named in a plan is a sequence of names.
LEMMA PlanSeqs ==
    ASSUME NEW x, AsPlanned(x)
    PROVE  /\ x.target \in Seq(Names) /\ x.plan.target \in Targets /\ x.plan.target \in Seq(Names)
           /\ x.plan.include \subseteq Seq(Names) /\ x.snap.files \subseteq Seq(Names)
           /\ \A q \in Seq(Names) : <<>> \o q = q
<1>1. /\ x.snap \in Snapshots /\ x.target \in Targets /\ x.snap.paths \subseteq Roots
      /\ x.snap.files \subseteq InPlace /\ Nodes(x.snap) \subseteq Seq(Names)
  BY SnapshotIs DEF AsPlanned
<1>2. x.target \in Seq(Names) /\ x.snap.files \subseteq Seq(Names) /\ x.snap.paths \subseteq Seq(Names)
  BY <1>1, PathsAreSeqs
<1>3. x.plan.target \in Targets /\ x.plan.target \in Seq(Names) /\ x.plan.include \subseteq Seq(Names)
  <2>1. x.plan.target \in {<<>>, x.target}
    BY PlanIs
  <2>2. x.plan.include \subseteq Nodes(x.snap) \union x.snap.paths \union {x.target}
    BY PlanIs
  <2>3. <<>> \in Targets /\ <<>> \in Seq(Names)
    BY PathsAreSeqs DEF Targets
  <2>4. QED
    BY <1>1, <1>2, <2>1, <2>2, <2>3
<1>4. QED
  BY <1>2, <1>3, ConcatEmptySeq

\* What restic writes its filter covers.
LEMMA WantedCovered ==
    ASSUME NEW x, AsPlanned(x)
    PROVE  Wanted(x.snap, x.plan) \subseteq Covered(x.plan)
<1>1. x.snap.files \subseteq InPlace
  BY SnapshotIs DEF AsPlanned
<1>2. PICK t : t = x.plan.target /\ t \in Targets /\ t \in Seq(Names)
  BY PlanSeqs
<1>3. ASSUME NEW p \in x.snap.files,
             x.plan.include = {} \/ \E i \in x.plan.include : within(p, i)
      PROVE  t \o p \in Covered(x.plan)
  <2>1. p \in InPlace /\ p \in Seq(Names) /\ <<>> \o p = p
    BY <1>1, PlanSeqs
  <2>2. t \o p \in Paths
    <3>1. CASE t = <<>>
      BY <2>1, <3>1 DEF Paths
    <3>2. CASE t \in Roots
      BY <2>1, <3>2 DEF Paths
    <3>3. QED
      BY <1>2, <3>1, <3>2 DEF Targets
  <2>3. CASE x.plan.include = {}
    <3>1. within(t \o p, t)
      BY <1>2, <2>1, WithinUnder
    <3>2. QED
      BY <1>2, <2>2, <2>3, <3>1 DEF Covered
  <2>4. CASE x.plan.include # {}
    <3>1. PICK i \in x.plan.include : within(p, i)
      BY <1>3, <2>4
    <3>2. within(t \o p, t \o i)
      BY <1>2, <2>1, <3>1, PlanSeqs, WithinUnder
    <3>3. QED
      BY <1>2, <2>2, <2>4, <3>2 DEF Covered
  <2>5. QED
    BY <2>3, <2>4
<1>4. QED
  BY <1>2, <1>3 DEF Wanted

\* What it covers lies in the folder that the dialog names, and if a selection
\* goes back where it was, in the selection.
LEMMA CoveredSaid ==
    ASSUME NEW x, AsPlanned(x), NEW p \in Covered(x.plan)
    PROVE  within(p, x.target) /\ Said(x, p)
<1>1. p \in Paths /\ p \in Seq(Names)
  BY PathsAreSeqs DEF Covered
<1>2. /\ x.target \in Seq(Names) /\ x.plan.include \subseteq Seq(Names)
      /\ \A q \in Seq(Names) : <<>> \o q = q
  BY PlanSeqs
<1>3. CASE x.plan.include = {}
  <2>1. within(p, x.plan.target)
    BY <1>3 DEF Covered
  <2>2. x.include = {} \/ x.plan.target # <<>>
    BY <1>3, PlanIs
  <2>3. within(p, x.target)
    <3>1. x.plan.target = x.target \/ x.target = <<>>
      BY <1>3, PlanIs
    <3>2. QED
      BY <1>1, <2>1, <3>1, WithinAll
  <2>4. QED
    BY <2>2, <2>3 DEF Said
<1>4. CASE x.plan.include # {}
  <2>1. PICK q \in x.plan.include : within(p, x.plan.target \o q)
    BY <1>4 DEF Covered
  <2>2. CASE x.plan.target = <<>>
    <3>1. within(p, q)
      BY <1>2, <2>1, <2>2
    <3>2. within(p, x.target)
      <4>1. CASE x.target = <<>>
        BY <1>1, <4>1, WithinAll
      <4>2. CASE x.target # <<>>
        <5>1. within(q, x.target)
          <6>1. q = x.target \/ (q \in x.include /\ within(q, x.target))
            BY <2>1, <2>2, <4>2, PlanIs
          <6>2. QED
            BY <1>2, <6>1, WithinAll
        <5>2. QED
          BY <1>1, <1>2, <3>1, <5>1, WithinWithin
      <4>3. QED
        BY <4>1, <4>2
    <3>3. x.include = {} \/ q \in x.include
      BY PlanIs
    <3>4. QED
      BY <3>1, <3>2, <3>3 DEF Said
  <2>3. CASE x.plan.target # <<>>
    <3>1. x.plan.target = x.target
      BY <2>3, PlanIs
    <3>2. within(x.target \o q, x.target) /\ x.target \o q \in Seq(Names)
      BY <1>2, WithinUnder
    <3>3. within(p, x.target)
      BY <1>1, <1>2, <2>1, <3>1, <3>2, WithinWithin
    <3>4. QED
      BY <2>3, <3>3 DEF Said
  <2>4. QED
    BY <2>2, <2>3
<1>5. QED
  BY <1>3, <1>4

\* What was to be put somewhere is what restic writes there.
LEMMA PlacedWanted ==
    ASSUME NEW x, AsPlanned(x), NEW p \in x.snap.files, Whole(x, p) \/ Chosen(x, p)
    PROVE  Placed(x, p) \in Wanted(x.snap, x.plan)
<1>1. PICK path \in x.snap.paths : within(p, path)
  BY SnapshotIs DEF AsPlanned
<1>2. x.plan.include = {} \/ \E i \in x.plan.include : within(p, i)
  BY <1>1, PlanIs DEF Whole, Chosen
<1>3. x.plan.target \o p \in Wanted(x.snap, x.plan)
  BY <1>2 DEF Wanted
<1>4. p \in Seq(Names) /\ <<>> \o p = p
  BY PlanSeqs
<1>5. Placed(x, p) = x.plan.target \o p
  BY <1>4, PlanIs DEF Placed
<1>6. QED
  BY <1>3, <1>5

\* A whole folder is covered whole.
LEMMA FolderCovered ==
    ASSUME NEW x, AsPlanned(x), x.include = {}, x.target # <<>>, NEW p \in Paths, within(p, x.target)
    PROVE  p \in Covered(x.plan)
<1>1. \A q \in Seq(Names) : <<>> \o q = q
  BY PlanSeqs
<1>2. x.target \in Seq(Names)
  BY PlanSeqs
<1>3. CASE x.target \in x.snap.paths
  <2>1. x.plan.target = <<>> /\ x.plan.include = {x.target}
    BY <1>3, PlanIs
  <2>2. QED
    BY <1>1, <1>2, <2>1 DEF Covered
<1>4. CASE x.target \notin x.snap.paths
  <2>1. x.plan.target = x.target /\ x.plan.include = {}
    BY <1>4, PlanIs
  <2>2. QED
    BY <2>1 DEF Covered
<1>5. QED
  BY <1>3, <1>4

-----------------------------------------------------------------------------
(* How the restore of a repository goes on.                                 *)

\* It stays the one that was asked for; others may have written beside it, and
\* containers may have come up.
Goes(x, y) ==
    /\ y.snap = x.snap /\ y.target = x.target /\ y.include = x.include /\ y.plan = x.plan
    /\ y.no = x.no /\ y.stop = x.stop /\ y.outcome = x.outcome
    /\ x.others \subseteq y.others /\ x.woken \subseteq y.woken

\* It ends, stays in its phase, or enters the next.
Onward(x, y) ==
    \/ y.phase \notin Asking
    \/ Goes(x, y) /\ y.phase = x.phase
    \/ Goes(x, y) /\ x.phase \in {"listing", "stopping"} /\ y.phase \in {"stopping", "writing"}

\* Who goes on keeps to the plan.
LEMMA PlannedOnward == ASSUME NEW x, NEW y, Planned(x), Onward(x, y) PROVE Planned(y)
BY DEF Planned, AsPlanned, Onward, Goes, Asking

\* Nobody is disturbed but by name.
LEMMA DisturbGoes ==
    ASSUME NEW q \in Repositories, run[q] \in Runs, NEW written, NEW who
    PROVE  LET y == Disturb(written, who)[q]
           IN /\ Goes(run[q], y) /\ y.phase = run[q].phase
              /\ q = who => y = run[q]
              /\ q # who /\ AtWork(q) /\ written \intersect Covered(run[q].plan) # {} => who \in y.others
<1>1. PICK y : y = Disturb(written, who)[q]
  OBVIOUS
<1>2. y = IF q # who /\ AtWork(q) /\ written \intersect Covered(run[q].plan) # {}
          THEN [run[q] EXCEPT !.others = @ \union {who}] ELSE run[q]
  BY <1>1 DEF Disturb
<1>3. CASE q # who /\ AtWork(q) /\ written \intersect Covered(run[q].plan) # {}
  BY <1>1, <1>2, <1>3 DEF Goes, Runs
<1>4. CASE ~(q # who /\ AtWork(q) /\ written \intersect Covered(run[q].plan) # {})
  BY <1>1, <1>2, <1>4 DEF Goes
<1>5. QED
  BY <1>3, <1>4

\* Runs go on when a container comes up.
LEMMA WakesGoes ==
    ASSUME NEW c, NEW rs \in [Repositories -> Runs], Wakes(c, rs), NEW q \in Repositories
    PROVE  Goes(rs[q], run'[q]) /\ run'[q].phase = rs[q].phase
<1>1. run'[q] = IF rs[q].phase \in {"stopping", "writing", "deleting"}
                THEN [rs[q] EXCEPT !.woken = @ \union {c}] ELSE rs[q]
  BY DEF Wakes
<1>2. QED
  BY <1>1 DEF Goes, Runs

\* When one run goes on, all do.
LEMMA OneOnward ==
    ASSUME run \in [Repositories -> Runs], NEW r \in Repositories, NEW x,
           run' = [run EXCEPT ![r] = x], Onward(run[r], x)
    PROVE  \A q \in Repositories : Onward(run[q], run'[q])
BY DEF Onward, Goes

\* To leave is to go on.
LEMMA LeavesOnward == ASSUME NEW x, NEW y, NEW outcome, y = Leaves(x, outcome) PROVE Onward(x, y)
BY DEF Leaves, NoRun, Onward, Asking

\* So is to be left behind.
LEMMA LeftOnward ==
    ASSUME NEW x, NEW z, z \in {NoRun, LeftBehind(x)}
    PROVE  z.outcome = "none" /\ z.phase \notin Asking
<1>1. NoRun.phase = "none" /\ NoRun.outcome = "none"
  BY DEF NoRun
<1>2. LeftBehind(x).phase = "left" /\ LeftBehind(x).outcome = "none"
  BY DEF LeftBehind, NoRun
<1>3. QED
  BY <1>1, <1>2 DEF Asking

\* Of the steps of a run only its planning and its writing are of another kind.
LEMMA RunStepOnward ==
    ASSUME IInv, NEW r \in Repositories, NEW q \in Repositories,
           \/ ListContainers(r) \/ NoteContainer(r) \/ StopContainer(r) \/ StartRestic(r)
           \/ ResticDeletes(r) \/ RunFails(r) \/ StartContainer(r) \/ AllStarted(r) \/ Finish(r)
    PROVE  Onward(run[q], run'[q])
<1>1. run \in [Repositories -> Runs] /\ run[r] \in Runs
  BY Typings
<1>2. CASE ListContainers(r)
  <2>1. PICK x : x = [run[r] EXCEPT !.phase = "stopping", !.halt = Using(run[r].target)]
    OBVIOUS
  <2>2. Onward(run[r], x)
    BY <1>1, <1>2, <2>1 DEF ListContainers, Onward, Goes, Runs
  <2>3. QED
    BY <1>1, <1>2, <2>1, <2>2, OneOnward DEF ListContainers, Set
<1>3. CASE NoteContainer(r)
  <2>1. PICK c, y :
          /\ c \in run[r].halt
          /\ y = [run[r] EXCEPT !.halt = @ \ {c}, !.halting = {c}, !.ours = @ \union {c}]
          /\ Set(r, Records(y, Noted(run[r], c))) \/ Set(r, Loses(y, Noted(run[r], c)))
    BY <1>3 DEF NoteContainer
  <2>2. PICK x : x \in {Records(y, Noted(run[r], c)), Loses(y, Noted(run[r], c))} /\ Set(r, x)
    BY <2>1
  <2>3. Onward(run[r], x)
    BY <1>1, <2>1, <2>2 DEF Onward, Goes, Runs, Records, Loses
  <2>4. QED
    BY <1>1, <2>2, <2>3, OneOnward DEF Set
<1>4. CASE StopContainer(r)
  <2>1. Set(r, [run[r] EXCEPT !.halting = {}]) \/ Set(r, Fails(run[r]))
    BY <1>4 DEF StopContainer
  <2>2. PICK x : x = [run[r] EXCEPT !.halting = {}]
    OBVIOUS
  <2>3. Onward(run[r], x)
    BY <1>1, <2>2 DEF Onward, Goes, Runs
  <2>4. PICK y : y = Fails(run[r])
    OBVIOUS
  <2>5. Onward(run[r], y)
    BY <2>4, LeavesOnward DEF Fails
  <2>6. QED
    BY <1>1, <2>1, <2>2, <2>3, <2>4, <2>5, OneOnward DEF Set
<1>5. CASE StartRestic(r)
  <2>1. PICK y : /\ y = [run[r] EXCEPT !.phase = "writing"]
                 /\ Set(r, Records(y, y.params)) \/ Set(r, y)
    BY <1>5 DEF StartRestic
  <2>2. PICK x : x \in {Records(y, y.params), y} /\ Set(r, x)
    BY <2>1
  <2>3. Onward(run[r], x)
    BY <1>1, <1>5, <2>1, <2>2 DEF StartRestic, Onward, Goes, Runs, Records
  <2>4. QED
    BY <1>1, <2>2, <2>3, OneOnward DEF Set
<1>6. CASE ResticDeletes(r)
  <2>1. PICK extra : run' = [Disturb(extra, r) EXCEPT ![r] = Leaves(@, "success")]
    BY <1>6 DEF ResticDeletes
  <2>2. PICK d : d = Disturb(extra, r)
    OBVIOUS
  <2>3. DOMAIN d = Repositories
    BY <2>2 DEF Disturb
  <2>4. CASE q = r
    <3>1. run'[q] = Leaves(d[r], "success")
      BY <2>1, <2>2, <2>3, <2>4
    <3>2. QED
      BY <3>1 DEF Leaves, NoRun, Onward, Asking
  <2>5. CASE q # r
    <3>1. run'[q] = d[q]
      BY <2>1, <2>2, <2>3, <2>5
    <3>2. Goes(run[q], d[q]) /\ d[q].phase = run[q].phase
      BY <2>2, DisturbGoes, Typings
    <3>3. QED
      BY <3>1, <3>2 DEF Onward
  <2>6. QED
    BY <2>4, <2>5
<1>7. CASE RunFails(r)
  <2>1. PICK y : y = Fails(run[r])
    OBVIOUS
  <2>2. Onward(run[r], y)
    BY <2>1, LeavesOnward DEF Fails
  <2>3. QED
    BY <1>1, <1>7, <2>1, <2>2, OneOnward DEF RunFails, Set
<1>8. CASE StartContainer(r)
  <2>1. PICK c \in run[r].ours :
          \/ Wakes(c, [run EXCEPT ![r].ours = @ \ {c}])
          \/ Set(r, [run[r] EXCEPT !.ours = @ \ {c}, !.failed = @ \union {c}])
    BY <1>8 DEF StartContainer
  <2>2. CASE Wakes(c, [run EXCEPT ![r].ours = @ \ {c}])
    <3>1. PICK x : x = [run[r] EXCEPT !.ours = @ \ {c}]
      OBVIOUS
    <3>2. x \in Runs /\ Goes(run[r], x) /\ x.phase = run[r].phase
      BY <1>1, <3>1 DEF Goes, Runs
    <3>3. PICK rs : rs = [run EXCEPT ![r] = x]
      OBVIOUS
    <3>4. rs \in [Repositories -> Runs] /\ Wakes(c, rs)
      BY <1>1, <2>2, <3>1, <3>2, <3>3
    <3>5. Goes(run[q], rs[q]) /\ rs[q].phase = run[q].phase
      BY <1>1, <3>2, <3>3 DEF Goes
    <3>6. Goes(rs[q], run'[q]) /\ run'[q].phase = rs[q].phase
      BY <3>4, WakesGoes
    <3>7. QED
      BY <3>5, <3>6 DEF Onward, Goes
  <2>3. CASE Set(r, [run[r] EXCEPT !.ours = @ \ {c}, !.failed = @ \union {c}])
    <3>1. PICK x : x = [run[r] EXCEPT !.ours = @ \ {c}, !.failed = @ \union {c}]
      OBVIOUS
    <3>2. Onward(run[r], x)
      BY <1>1, <3>1 DEF Onward, Goes, Runs
    <3>3. QED
      BY <1>1, <2>3, <3>1, <3>2, OneOnward DEF Set
  <2>4. QED
    BY <2>1, <2>2, <2>3
<1>9. CASE AllStarted(r)
  <2>1. PICK y : /\ y = [run[r] EXCEPT !.phase = "settling"]
                 /\ Set(r, Records(y, y.failed)) \/ Set(r, Loses(y, y.failed))
    BY <1>9 DEF AllStarted
  <2>2. PICK x : x \in {Records(y, y.failed), Loses(y, y.failed)} /\ Set(r, x)
    BY <2>1
  <2>3. Onward(run[r], x)
    BY <1>1, <2>1, <2>2 DEF Onward, Runs, Asking, Records, Loses
  <2>4. QED
    BY <1>1, <2>2, <2>3, OneOnward DEF Set
<1>10. CASE Finish(r)
  <2>1. PICK x : x \in {NoRun, LeftBehind(run[r])} /\ Set(r, x)
    BY <1>10 DEF Finish
  <2>2. Onward(run[r], x)
    BY <2>1, LeftOnward DEF Onward
  <2>3. QED
    BY <1>1, <2>1, <2>2, OneOnward DEF Set
<1>11. QED
  BY <1>2, <1>3, <1>4, <1>5, <1>6, <1>7, <1>8, <1>9, <1>10

\* So do all runs while something else happens.
LEMMA OtherOnward ==
    ASSUME IInv, NEW q \in Repositories,
           \/ OpenDialog \/ CloseDialog \/ ContainersKnown \/ UNCHANGED vars
           \/ Restart \/ BootStarts \/ ContainerWrites \/ OutsideActs
    PROVE  Onward(run[q], run'[q])
<1>1. run \in [Repositories -> Runs] /\ run[q] \in Runs
  BY Typings
<1>2. CASE UNCHANGED run
  BY <1>2 DEF Onward, Goes
<1>3. CASE \E c : Wakes(c, run)
  BY <1>1, <1>3, WakesGoes DEF Onward
<1>4. CASE Restart
  <2>1. run'[q] \in {NoRun, LeftBehind(run[q])}
    BY <1>4 DEF Restart
  <2>2. QED
    BY <2>1, LeftOnward DEF Onward
<1>5. CASE \E written, who : run' = Disturb(written, who)
  BY <1>1, <1>5, DisturbGoes DEF Onward
<1>6. QED
  BY <1>2, <1>3, <1>4, <1>5
     DEF OpenDialog, CloseDialog, ContainersKnown, vars, BootStarts, ContainerWrites, OutsideActs

-----------------------------------------------------------------------------
(* Restores work by their plans.                                            *)

\* A restore that starts is one that was asked for.
LEMMA SubmitIs ==
    ASSUME Submit
    PROVE  \E r, x : /\ r \in Repositories /\ x.phase = "planning" /\ Planned(x)
                     /\ run' = [run EXCEPT ![r] = x] /\ UNCHANGED disk
<1>1. PICK r \in Repositories, stopSite \in {FALSE, dialog.offered}, q \in SnapshotsPanel :
        run' = [run EXCEPT ![r] = [NoRun EXCEPT !.phase = "planning", !.no = started', !.snap = q.snap,
                                   !.target = q.target, !.include = q.include, !.stop = stopSite]]
  BY DEF Submit
<1>2. PICK x : x = [NoRun EXCEPT !.phase = "planning", !.no = started', !.snap = q.snap,
                                 !.target = q.target, !.include = q.include, !.stop = stopSite]
  OBVIOUS
<1>3. x.phase = "planning" /\ x.snap = q.snap /\ x.target = q.target /\ x.outcome = "none"
  BY <1>2 DEF NoRun
<1>4. Planned(x)
  BY <1>3, Asked DEF Planned, Asking
<1>5. run' = [run EXCEPT ![r] = x] /\ UNCHANGED disk
  BY <1>1, <1>2 DEF Submit
<1>6. QED
  BY <1>3, <1>4, <1>5

\* It has its plan still to make.
LEMMA SubmitPlanned == ASSUME IInv, AllPlanned, Submit PROVE AllPlanned'
<1>1. PICK r, x : r \in Repositories /\ Planned(x) /\ run' = [run EXCEPT ![r] = x]
  BY SubmitIs
<1>2. QED
  BY <1>1, Typings DEF AllPlanned, Planned, AsPlanned

\* The plan is of what was asked for, or is refused.
LEMMA PlanRestorePlanned ==
    ASSUME IInv, AllPlanned, NEW r \in Repositories, PlanRestore(r)
    PROVE  AllPlanned'
<1>1. /\ run[r] \in Runs /\ Planned(run[r]) /\ run[r].phase = "planning"
      /\ run \in [Repositories -> Runs]
  BY Typings DEF PlanRestore, AllPlanned
<1>2. CASE Set(r, Fails(run[r]))
  <2>1. PICK x : x = Fails(run[r])
    OBVIOUS
  <2>2. Planned(x)
    BY <1>1, <2>1, LeavesOnward, PlannedOnward DEF Fails
  <2>3. QED
    BY <1>1, <1>2, <2>1, <2>2 DEF Set, AllPlanned, Planned, AsPlanned
<1>3. PICK plan : plan = Plan(run[r].target, run[r].snap.paths, run[r].include)
  OBVIOUS
<1>4. ASSUME NEW phase \in {"listing", "writing"}, ~Refuses(run[r].target, run[r].snap, run[r].include),
             Set(r, [[run[r] EXCEPT !.plan = plan] EXCEPT !.phase = phase])
      PROVE  AllPlanned'
  <2>1. PICK x : x = [[run[r] EXCEPT !.plan = plan] EXCEPT !.phase = phase]
    OBVIOUS
  <2>2. /\ x.phase = phase /\ x.plan = plan /\ x.snap = run[r].snap /\ x.target = run[r].target
        /\ x.include = run[r].include /\ x.outcome = run[r].outcome
    BY <1>1, <2>1 DEF Runs
  <2>3. Planned(x)
    BY <1>1, <1>3, <1>4, <2>2 DEF Planned, AsPlanned, Asking
  <2>4. QED
    BY <1>1, <1>4, <2>1, <2>3 DEF Set, AllPlanned, Planned, AsPlanned
<1>5. CASE ~Refuses(run[r].target, run[r].snap, run[r].include)
  BY <1>3, <1>4, <1>5 DEF PlanRestore
<1>6. CASE Refuses(run[r].target, run[r].snap, run[r].include)
  BY <1>2, <1>6 DEF PlanRestore
<1>7. QED
  BY <1>5, <1>6

\* What restic writes, and whom it disturbs.
LEMMA ResticWritesIs ==
    ASSUME IInv, NEW r \in Repositories, ResticWrites(r), NEW q \in Repositories
    PROVE  /\ Goes(run[q], run'[q])
           /\ run'[q].phase = IF q = r THEN "deleting" ELSE run[q].phase
           /\ q # r /\ AtWork(q) /\ Wanted(run[r].snap, run[r].plan) \intersect Covered(run[q].plan) # {}
                => r \in run'[q].others
<1>1. PICK d : d = Disturb(Wanted(run[r].snap, run[r].plan), r)
  OBVIOUS
<1>2. run' = [d EXCEPT ![r].phase = "deleting"] /\ DOMAIN d = Repositories
  BY <1>1 DEF ResticWrites, Disturb
<1>3. CASE q = r
  <2>1. d[q] = run[q] /\ run[q] \in Runs
    BY <1>1, <1>3, DisturbGoes, Typings
  <2>2. run'[q] = [run[q] EXCEPT !.phase = "deleting"]
    BY <1>2, <1>3, <2>1
  <2>3. QED
    BY <1>3, <2>1, <2>2 DEF Goes, Runs
<1>4. CASE q # r
  <2>1. run'[q] = d[q]
    BY <1>2, <1>4
  <2>2. QED
    BY <1>1, <1>4, <2>1, DisturbGoes, Typings
<1>5. QED
  BY <1>3, <1>4

\* Restic writes by the plan.
LEMMA ResticWritesPlanned ==
    ASSUME IInv, AllPlanned, NEW r \in Repositories, ResticWrites(r)
    PROVE  AllPlanned'
<1>1. ASSUME NEW q \in Repositories PROVE Planned(run'[q])
  <2>1. Planned(run[q]) /\ Goes(run[q], run'[q])
    BY ResticWritesIs DEF AllPlanned
  <2>2. run'[q].phase = IF q = r THEN "deleting" ELSE run[q].phase
    BY ResticWritesIs
  <2>3. run[r].phase = "writing"
    BY DEF ResticWrites
  <2>4. QED
    BY <2>1, <2>2, <2>3 DEF Planned, AsPlanned, Goes, Asking
<1>2. QED
  BY <1>1 DEF AllPlanned, Planned, AsPlanned

\* When all go on, all keep to their plans.
LEMMA AllOnwardPlanned ==
    ASSUME AllPlanned, \A q \in Repositories : Onward(run[q], run'[q])
    PROVE  AllPlanned'
<1>1. \A q \in Repositories : Planned(run'[q])
  BY PlannedOnward DEF AllPlanned
<1>2. QED
  BY <1>1 DEF AllPlanned, Planned, AsPlanned

\* Every step does.
LEMMA NextPlanned == IInv /\ AllPlanned /\ [Next]_vars => AllPlanned'
<1> SUFFICES ASSUME IInv, AllPlanned, [Next]_vars PROVE AllPlanned'
  OBVIOUS
<1>1. CASE Submit
  BY <1>1, SubmitPlanned
<1>2. ASSUME NEW r \in Repositories, RunStep(r) PROVE AllPlanned'
  <2>1. CASE PlanRestore(r)
    BY <2>1, PlanRestorePlanned
  <2>2. CASE ResticWrites(r)
    BY <2>2, ResticWritesPlanned
  <2>3. CASE \/ ListContainers(r) \/ NoteContainer(r) \/ StopContainer(r) \/ StartRestic(r)
             \/ ResticDeletes(r) \/ RunFails(r) \/ StartContainer(r) \/ AllStarted(r) \/ Finish(r)
    BY <2>3, RunStepOnward, AllOnwardPlanned
  <2>4. QED
    BY <1>2, <2>1, <2>2, <2>3 DEF RunStep
<1>3. CASE \/ OpenDialog \/ CloseDialog \/ ContainersKnown \/ UNCHANGED vars
           \/ Restart \/ BootStarts \/ ContainerWrites \/ OutsideActs
  BY <1>3, OtherOnward, AllOnwardPlanned
<1>4. QED
  BY <1>1, <1>2, <1>3 DEF Next

-----------------------------------------------------------------------------
(* What restic has written stays, unless somebody else is known to write.   *)

\* What a restore at work covers, and the containers beside it.
LEMMA AtWorkIs ==
    ASSUME IInv, AllPlanned, NEW r \in Repositories, AtWork(r)
    PROVE  /\ AsPlanned(run[r]) /\ Wanted(run[r].snap, run[r].plan) \subseteq Covered(run[r].plan)
           /\ run[r].outcome = "none"
<1>1. AsPlanned(run[r]) /\ run[r].outcome = "none"
  BY DEF AllPlanned, Planned, AtWork, Asking
<1>2. QED
  BY <1>1, WantedCovered

\* A restore that goes on where nobody touched what it wrote.
LEMMA WrittenGoes ==
    ASSUME NEW x, NEW y, Written(x), Goes(x, y), x.phase = "deleting",
           Alone(y) => \A p \in Wanted(x.snap, x.plan) : disk'[p] = disk[p]
    PROVE  y.phase = "deleting" /\ Alone(y) => \A p \in Wanted(y.snap, y.plan) : disk'[p] = y.no
<1>1. y.snap = x.snap /\ y.plan = x.plan /\ y.no = x.no
  BY DEF Goes
<1>2. Alone(y) => Alone(x)
  BY DEF Alone, Goes
<1>3. QED
  BY <1>1, <1>2 DEF Written

\* The same said of the next state.
Kept(q) == LET y == run'[q]
           IN y.phase = "deleting" /\ Alone(y) => \A p \in Wanted(y.snap, y.plan) : disk'[p] = y.no

\* Run by run, what is written stays.
LEMMA AllKept == ASSUME \A q \in Repositories : Kept(q) PROVE AllWritten'
BY DEF Kept, AllWritten, Written, Alone, Wanted

\* A run that goes on keeps it where the disk stays the same.
LEMMA OnwardWritten ==
    ASSUME AllWritten, NEW q \in Repositories, Onward(run[q], run'[q]),
           run'[q].phase = "deleting" /\ Alone(run'[q])
               => \A p \in Wanted(run[q].snap, run[q].plan) : disk'[p] = disk[p]
    PROVE  Kept(q)
<1>1. CASE run'[q].phase # "deleting"
  BY <1>1 DEF Kept
<1>2. CASE run'[q].phase = "deleting"
  <2>1. Goes(run[q], run'[q]) /\ run[q].phase = "deleting" /\ Written(run[q])
    BY <1>2 DEF Onward, Asking, AllWritten
  <2>2. Alone(run'[q]) => \A p \in Wanted(run[q].snap, run[q].plan) : disk'[p] = disk[p]
    BY <1>2
  <2>3. PICK y : y = run'[q]
    OBVIOUS
  <2>4. y.phase = "deleting" /\ Alone(y) => \A p \in Wanted(y.snap, y.plan) : disk'[p] = y.no
    BY <2>1, <2>2, <2>3, WrittenGoes
  <2>5. QED
    BY <2>3, <2>4 DEF Kept
<1>3. QED
  BY <1>1, <1>2

\* Repositories are no containers: another restore is no neighbour to put up with.
LEMMA NoRestoreBeside ==
    ASSUME NEW y, NEW r \in Repositories, r \in y.others
    PROVE  ~Alone(y)
BY NamesDiffer DEF Alone

\* A restore beside writes: what it writes of this one makes it known.
LEMMA BesideWritten ==
    ASSUME IInv, AllPlanned, NEW q \in Repositories, run[q].phase = "deleting",
           NEW r \in Repositories, r # q, NEW written,
           written \intersect Covered(run[q].plan) # {} => r \in run'[q].others,
           \A p \in Paths : p \notin written => disk'[p] = disk[p]
    PROVE  Alone(run'[q]) => \A p \in Wanted(run[q].snap, run[q].plan) : disk'[p] = disk[p]
<1>1. Wanted(run[q].snap, run[q].plan) \subseteq Covered(run[q].plan)
  BY AtWorkIs DEF AtWork
<1>2. Covered(run[q].plan) \subseteq Paths
  BY DEF Covered
<1>3. CASE written \intersect Covered(run[q].plan) # {}
  BY <1>3, NoRestoreBeside
<1>4. CASE written \intersect Covered(run[q].plan) = {}
  BY <1>1, <1>2, <1>4
<1>5. QED
  BY <1>3, <1>4

\* What restic has just written is there; what it wrote over was another's, and
\* that one knows.
LEMMA ResticWritesWritten ==
    ASSUME IInv, AllPlanned, AllWritten, NEW r \in Repositories, ResticWrites(r)
    PROVE  AllWritten'
<1>1. PICK written : written = Wanted(run[r].snap, run[r].plan)
  OBVIOUS
<1>2. disk' = [p \in Paths |-> IF p \in written THEN run[r].no ELSE disk[p]] /\ AtWork(r)
  BY <1>1 DEF ResticWrites, AtWork
<1>3. written \subseteq Paths
  BY <1>1, <1>2, AtWorkIs DEF Covered
<1>4. ASSUME NEW q \in Repositories PROVE Kept(q)
  <2>1. Goes(run[q], run'[q]) /\ run'[q].phase = IF q = r THEN "deleting" ELSE run[q].phase
    BY ResticWritesIs
  <2>2. CASE q = r
    <3>1. PICK y : y = run'[q]
      OBVIOUS
    <3>2. Wanted(y.snap, y.plan) = written /\ y.no = run[r].no
      BY <1>1, <2>1, <2>2, <3>1 DEF Goes
    <3>3. QED
      BY <1>2, <1>3, <3>1, <3>2 DEF Kept
  <2>3. CASE q # r /\ run[q].phase = "deleting"
    <3>1. written \intersect Covered(run[q].plan) # {} => r \in run'[q].others
      BY <1>1, <2>3, ResticWritesIs DEF AtWork
    <3>2. Alone(run'[q]) => \A p \in Wanted(run[q].snap, run[q].plan) : disk'[p] = disk[p]
      BY <1>2, <2>3, <3>1, BesideWritten
    <3>3. QED
      BY <2>1, <2>3, <3>2, OnwardWritten DEF Onward
  <2>4. CASE q # r /\ run[q].phase # "deleting"
    BY <2>1, <2>4 DEF Kept
  <2>5. QED
    BY <2>2, <2>3, <2>4
<1>5. QED
  BY <1>4, AllKept

\* What restic deletes, and whom it disturbs.
LEMMA ResticDeletesIs ==
    ASSUME IInv, NEW r \in Repositories, ResticDeletes(r)
    PROVE  \E extra :
              /\ extra = {p \in Covered(run[r].plan) \ Wanted(run[r].snap, run[r].plan) : disk[p] # Nothing}
              /\ disk' = [p \in Paths |-> IF p \in extra THEN Nothing ELSE disk[p]]
              /\ run'[r].phase = "starting"
              /\ \A q \in Repositories : q # r /\ AtWork(q) /\ extra \intersect Covered(run[q].plan) # {}
                                           => r \in run'[q].others
<1>1. PICK extra :
        /\ extra = {p \in Covered(run[r].plan) \ Wanted(run[r].snap, run[r].plan) : disk[p] # Nothing}
        /\ disk' = [p \in Paths |-> IF p \in extra THEN Nothing ELSE disk[p]]
        /\ run' = [Disturb(extra, r) EXCEPT ![r] = Leaves(@, "success")]
  BY DEF ResticDeletes
<1>2. PICK d : d = Disturb(extra, r) /\ DOMAIN d = Repositories
  <2>1. DOMAIN Disturb(extra, r) = Repositories
    BY DEF Disturb
  <2>2. QED
    BY <2>1
<1>3. run'[r].phase = "starting"
  BY <1>1, <1>2 DEF Leaves, NoRun
<1>4. ASSUME NEW q \in Repositories, q # r, AtWork(q), extra \intersect Covered(run[q].plan) # {}
      PROVE  r \in run'[q].others
  <2>1. run'[q] = d[q]
    BY <1>1, <1>2, <1>4
  <2>2. QED
    BY <1>2, <1>4, <2>1, DisturbGoes, Typings
<1>5. \A q \in Repositories : q # r /\ AtWork(q) /\ extra \intersect Covered(run[q].plan) # {}
                                => r \in run'[q].others
  BY <1>4
<1>6. /\ extra = {p \in Covered(run[r].plan) \ Wanted(run[r].snap, run[r].plan) : disk[p] # Nothing}
      /\ disk' = [p \in Paths |-> IF p \in extra THEN Nothing ELSE disk[p]]
  BY <1>1
<1>7. QED
  BY <1>3, <1>5, <1>6, Zenon

\* What is deleted of another restore's files it knows.
LEMMA ResticDeletesWritten ==
    ASSUME IInv, AllPlanned, AllWritten, NEW r \in Repositories, ResticDeletes(r)
    PROVE  AllWritten'
<1>1. PICK extra :
        /\ disk' = [p \in Paths |-> IF p \in extra THEN Nothing ELSE disk[p]]
        /\ run'[r].phase = "starting"
        /\ \A q \in Repositories : q # r /\ AtWork(q) /\ extra \intersect Covered(run[q].plan) # {}
                                     => r \in run'[q].others
  BY ResticDeletesIs
<1>2. ASSUME NEW q \in Repositories PROVE Kept(q)
  <2>1. Onward(run[q], run'[q])
    BY RunStepOnward
  <2>2. CASE run'[q].phase # "deleting"
    BY <2>2 DEF Kept
  <2>3. CASE run'[q].phase = "deleting"
    <3>1. q # r /\ run[q].phase = "deleting"
      BY <1>1, <2>1, <2>3 DEF Onward, Asking
    <3>2. extra \intersect Covered(run[q].plan) # {} => r \in run'[q].others
      BY <1>1, <3>1 DEF AtWork
    <3>3. Alone(run'[q]) => \A p \in Wanted(run[q].snap, run[q].plan) : disk'[p] = disk[p]
      BY <1>1, <3>1, <3>2, BesideWritten
    <3>4. QED
      BY <2>1, <3>3, OnwardWritten
  <2>4. QED
    BY <2>2, <2>3
<1>3. QED
  BY <1>2, AllKept

\* A site that writes where its containers were to be stopped was started meanwhile.
LEMMA ContainerWritesWritten == ASSUME IInv, AllPlanned, AllWritten, ContainerWrites PROVE AllWritten'
<1>1. PICK c \in Containers, x \in Files :
        /\ state[c] = "up" /\ disk' = [disk EXCEPT ![Append(mount[c], x)] = Site]
        /\ run' = Disturb({Append(mount[c], x)}, c)
  BY DEF ContainerWrites
<1>2. PICK w : w = Append(mount[c], x)
  OBVIOUS
<1>3. mount[c] \in Roots
  BY DEF IInv, DockerOK
<1>4. ASSUME NEW q \in Repositories PROVE Kept(q)
  <2>1. Onward(run[q], run'[q])
    BY OtherOnward
  <2>2. CASE run'[q].phase # "deleting"
    BY <2>2 DEF Kept
  <2>3. CASE run'[q].phase = "deleting"
    <3>1. run[q].phase = "deleting" /\ Goes(run[q], run'[q]) /\ AtWork(q)
      BY <2>1, <2>3 DEF Onward, Asking, AtWork
    <3>2. Wanted(run[q].snap, run[q].plan) \subseteq Covered(run[q].plan) /\ AsPlanned(run[q])
      BY <3>1, AtWorkIs
    <3>3. CASE w \in Covered(run[q].plan)
      <4>1. c \in run'[q].others
        <5>1. q # c
          BY NamesDiffer
        <5>2. QED
          BY <1>1, <1>2, <3>1, <3>3, <5>1, DisturbGoes, Typings
      <4>2. within(mount[c], run[q].target)
        <5>1. within(w, run[q].target) /\ run[q].target \in Targets
          BY <3>2, <3>3, CoveredSaid DEF AsPlanned
        <5>2. QED
          BY <1>2, <1>3, <5>1, FileInFolder
      <4>3. run[q].stop => c \in run[q].woken
        BY <1>1, <3>1, <4>2, Typings DEF Quiet, Using
      <4>4. ~Alone(run'[q])
        BY <3>1, <4>1, <4>3 DEF Alone, Goes
      <4>5. QED
        BY <2>1, <4>4, OnwardWritten
    <3>4. CASE w \notin Covered(run[q].plan)
      <4>1. \A p \in Wanted(run[q].snap, run[q].plan) : disk'[p] = disk[p]
        <5>1. \A p \in Paths : p # w => disk'[p] = disk[p]
          BY <1>1, <1>2 DEF IInv, DiskOK
        <5>2. Covered(run[q].plan) \subseteq Paths
          BY DEF Covered
        <5>3. QED
          BY <3>2, <3>4, <5>1, <5>2
      <4>2. QED
        BY <2>1, <4>1, OnwardWritten
    <3>5. QED
      BY <3>3, <3>4
  <2>4. QED
    BY <2>2, <2>3
<1>5. QED
  BY <1>4, AllKept

\* When the disk is left alone, what is written stays.
LEMMA DiskLeftAlone ==
    ASSUME AllWritten, UNCHANGED disk, \A q \in Repositories : Onward(run[q], run'[q])
    PROVE  AllWritten'
<1>1. \A q \in Repositories : Kept(q)
  BY OnwardWritten
<1>2. QED
  BY <1>1, AllKept

\* So when a restore starts,
LEMMA SubmitWritten == ASSUME IInv, AllWritten, Submit PROVE AllWritten'
<1>1. PICK r, x : /\ r \in Repositories /\ x.phase = "planning"
                  /\ run' = [run EXCEPT ![r] = x] /\ UNCHANGED disk
  BY SubmitIs
<1>2. ASSUME NEW q \in Repositories PROVE Kept(q)
  <2>1. CASE q = r
    BY <1>1, <2>1, Typings DEF Kept
  <2>2. CASE q # r
    BY <1>1, <2>2, OnwardWritten, Typings DEF Onward, Goes
  <2>3. QED
    BY <2>1, <2>2
<1>3. QED
  BY <1>2, AllKept

\* and when it is planned.
LEMMA PlanRestoreWritten ==
    ASSUME IInv, AllWritten, NEW r \in Repositories, PlanRestore(r)
    PROVE  AllWritten'
<1>1. PICK x : run' = [run EXCEPT ![r] = x] /\ x.phase # "deleting"
  <2>1. PICK p : p = [run[r] EXCEPT !.plan = Plan(run[r].target, run[r].snap.paths, run[r].include)]
    OBVIOUS
  <2>2. \/ Set(r, Fails(run[r])) \/ Set(r, [p EXCEPT !.phase = "listing"])
        \/ Set(r, [p EXCEPT !.phase = "writing"])
    BY <2>1 DEF PlanRestore
  <2>3. Fails(run[r]).phase = "starting"
    BY DEF Fails, Leaves, NoRun
  <2>4. [p EXCEPT !.phase = "listing"].phase = "listing" /\ [p EXCEPT !.phase = "writing"].phase = "writing"
    BY <2>1, Typings DEF Runs
  <2>5. QED
    BY <2>2, <2>3, <2>4 DEF Set
<1>2. ASSUME NEW q \in Repositories PROVE Kept(q)
  <2>1. CASE q = r
    BY <1>1, <2>1, Typings DEF Kept
  <2>2. CASE q # r
    BY <1>1, <2>2, OnwardWritten, Typings DEF PlanRestore, Onward, Goes
  <2>3. QED
    BY <2>1, <2>2
<1>3. QED
  BY <1>2, AllKept

\* Every step keeps what is written.
LEMMA NextWritten == IInv /\ AllPlanned /\ AllWritten /\ [Next]_vars => AllWritten'
<1> SUFFICES ASSUME IInv, AllPlanned, AllWritten, [Next]_vars PROVE AllWritten'
  OBVIOUS
<1>1. CASE Submit
  BY <1>1, SubmitWritten
<1>2. ASSUME NEW r \in Repositories, RunStep(r) PROVE AllWritten'
  <2>1. CASE PlanRestore(r)
    BY <2>1, PlanRestoreWritten
  <2>2. CASE ResticWrites(r)
    BY <2>2, ResticWritesWritten
  <2>3. CASE ResticDeletes(r)
    BY <2>3, ResticDeletesWritten
  <2>4. CASE \/ ListContainers(r) \/ NoteContainer(r) \/ StopContainer(r) \/ StartRestic(r)
             \/ RunFails(r) \/ StartContainer(r) \/ AllStarted(r) \/ Finish(r)
    <3>1. UNCHANGED disk
      BY <2>4 DEF ListContainers, NoteContainer, StopContainer, StartRestic, RunFails, StartContainer,
                  AllStarted, Finish
    <3>2. QED
      BY <2>4, <3>1, RunStepOnward, DiskLeftAlone
  <2>5. QED
    BY <1>2, <2>1, <2>2, <2>3, <2>4 DEF RunStep
<1>3. CASE ContainerWrites
  BY <1>3, ContainerWritesWritten
<1>4. CASE \/ OpenDialog \/ CloseDialog \/ ContainersKnown \/ UNCHANGED vars
           \/ Restart \/ BootStarts \/ OutsideActs
  <2>1. UNCHANGED disk
    BY <1>4 DEF OpenDialog, CloseDialog, ContainersKnown, vars, Restart, BootStarts, OutsideActs
  <2>2. QED
    BY <1>4, <2>1, OtherOnward, DiskLeftAlone
<1>5. QED
  BY <1>1, <1>2, <1>3, <1>4 DEF Next

-----------------------------------------------------------------------------
(* What a restore touches, and what it leaves.                              *)

\* At first there is no restore.
LEMMA InitPlanned == Init => AllPlanned /\ AllWritten
BY DEF Init, NoRun, AllPlanned, AllWritten, Planned, Written, Asking

\* What the restores are at work on, in every state.
LEMMA WorkInvariant == Spec => [](IInv /\ AllPlanned /\ AllWritten)
<1>1. Init => IInv /\ AllPlanned /\ AllWritten
  BY InitInv, InitPlanned
<1>2. IInv /\ AllPlanned /\ AllWritten /\ [Next]_vars => (IInv /\ AllPlanned /\ AllWritten)'
  BY NextInv, NextPlanned, NextWritten
<1>3. QED
  BY <1>1, <1>2, PTL DEF Spec

\* Only restic, at its two steps, changes a file as a run enters its next phase.
LEMMA WhoTouches ==
    ASSUME IInv, [Next]_vars, NEW r \in Repositories, AtWork(r), run'[r].phase # run[r].phase,
           NEW p \in Paths, disk'[p] # disk[p]
    PROVE  ResticWrites(r) \/ ResticDeletes(r)
<1>1. PICK q \in Repositories : ResticWrites(q) \/ ResticDeletes(q)
  <2>1. CASE \E q \in Repositories : RunStep(q) /\ ~ResticWrites(q) /\ ~ResticDeletes(q)
    BY <2>1 DEF RunStep, PlanRestore, ListContainers, NoteContainer, StopContainer, StartRestic, RunFails,
                StartContainer, AllStarted, Finish
  <2>2. CASE ContainerWrites
    BY <2>2, DisturbGoes, Typings DEF ContainerWrites
  <2>3. CASE \/ OpenDialog \/ CloseDialog \/ ContainersKnown \/ Submit \/ UNCHANGED vars
             \/ Restart \/ BootStarts \/ OutsideActs
    BY <2>3 DEF OpenDialog, CloseDialog, ContainersKnown, Submit, vars, Restart, BootStarts, OutsideActs
  <2>4. QED
    BY <2>1, <2>2, <2>3 DEF Next
<1>2. CASE q # r /\ ResticWrites(q)
  BY <1>2, ResticWritesIs
<1>3. CASE q # r /\ ResticDeletes(q)
  <2>1. PICK extra : run' = [Disturb(extra, q) EXCEPT ![q] = Leaves(@, "success")]
    BY <1>3 DEF ResticDeletes
  <2>2. run'[r] = Disturb(extra, q)[r]
    BY <1>3, <2>1 DEF Disturb
  <2>3. QED
    BY <2>2, DisturbGoes, Typings
<1>4. QED
  BY <1>1, <1>2, <1>3

\* A restore changes what the dialog said it would and nothing else: the selected
\* paths when they go back where they were, and nothing outside the target it
\* names (planResticRestoreSelection; restic deletes what its filter covers).
THEOREM TouchesOnlyWhatIsSaid == Spec => TouchesOnlyWhatItSaid
<1>1. ASSUME IInv, AllPlanned, [Next]_vars, NEW r \in Repositories, NEW p \in Paths,
             run[r].phase \in {"writing", "deleting"}, run'[r].phase # run[r].phase, disk'[p] # disk[p]
      PROVE  Said(run[r], p)
  <2>1. /\ AsPlanned(run[r]) /\ Wanted(run[r].snap, run[r].plan) \subseteq Covered(run[r].plan)
        /\ AtWork(r)
    BY <1>1, AtWorkIs DEF AtWork
  <2>2. ResticWrites(r) \/ ResticDeletes(r)
    BY <1>1, <2>1, WhoTouches
  <2>3. p \in Covered(run[r].plan)
    <3>1. CASE ResticWrites(r)
      BY <1>1, <2>1, <3>1 DEF ResticWrites
    <3>2. CASE ResticDeletes(r)
      BY <1>1, <3>2 DEF ResticDeletes
    <3>3. QED
      BY <2>2, <3>1, <3>2
  <2>4. QED
    BY <2>1, <2>3, CoveredSaid
<1>2. IInv /\ AllPlanned /\ [Next]_vars
        => [\A r \in Repositories, p \in Paths :
              (run[r].phase \in {"writing", "deleting"} /\ run'[r].phase # run[r].phase /\ disk'[p] # disk[p])
                  => Said(run[r], p)]_vars
  BY <1>1
<1>3. QED
  BY <1>2, WorkInvariant, PTL DEF Spec, TouchesOnlyWhatItSaid

\* Only restic, having deleted, makes a restore a success.
LEMMA WhoSucceeds ==
    ASSUME IInv, AllPlanned, [Next]_vars, NEW r \in Repositories, AtWork(r), run'[r].outcome = "success"
    PROVE  ResticDeletes(r)
<1>1. run[r].outcome = "none" /\ run \in [Repositories -> Runs]
  BY AtWorkIs, Typings
<1>2. ASSUME Goes(run[r], run'[r]) PROVE FALSE
  BY <1>1, <1>2 DEF Goes
<1>3. CASE Submit
  <2>1. PICK q, x : /\ q \in Repositories /\ x.phase = "planning" /\ Planned(x)
                    /\ run' = [run EXCEPT ![q] = x]
    BY <1>3, SubmitIs
  <2>2. QED
    BY <1>1, <2>1 DEF Planned, Asking
<1>4. ASSUME NEW q \in Repositories, RunStep(q), ~ResticDeletes(q) PROVE FALSE
  <2>1. CASE ResticWrites(q)
    BY <1>2, <2>1, ResticWritesIs
  <2>2. CASE q = r
    <3>1. StartRestic(r) \/ RunFails(r) \/ ResticWrites(r) \/ ResticDeletes(r)
      BY <1>4, <2>2 DEF AtWork, RunStep, PlanRestore, ListContainers, NoteContainer, StopContainer,
                        StartContainer, AllStarted, Finish
    <3>2. ~StartRestic(r)
      BY DEF AtWork, StartRestic
    <3>3. CASE RunFails(r)
      BY <1>1, <3>3 DEF RunFails, Set, Fails, Leaves, NoRun
    <3>4. QED
      BY <1>4, <2>1, <2>2, <3>1, <3>2, <3>3
  <2>3. CASE q # r /\ StartContainer(q)
    <3>1. PICK c \in run[q].ours :
            \/ Wakes(c, [run EXCEPT ![q].ours = @ \ {c}])
            \/ Set(q, [run[q] EXCEPT !.ours = @ \ {c}, !.failed = @ \union {c}])
      BY <2>3 DEF StartContainer
    <3>2. CASE Wakes(c, [run EXCEPT ![q].ours = @ \ {c}])
      <4>1. PICK rs : rs = [run EXCEPT ![q].ours = @ \ {c}]
        OBVIOUS
      <4>2. rs \in [Repositories -> Runs] /\ rs[r] = run[r]
        BY <1>1, <2>3, <4>1 DEF Runs
      <4>3. QED
        BY <1>2, <3>2, <4>1, <4>2, WakesGoes
    <3>3. CASE Set(q, [run[q] EXCEPT !.ours = @ \ {c}, !.failed = @ \union {c}])
      BY <1>1, <2>3, <3>3 DEF Set
    <3>4. QED
      BY <3>1, <3>2, <3>3
  <2>4. CASE q # r /\ ~ResticWrites(q) /\ ~StartContainer(q)
    <3>1. run'[r] = run[r]
      BY <1>1, <1>4, <2>4 DEF RunStep, Set, PlanRestore, ListContainers, NoteContainer, StopContainer,
                              StartRestic, RunFails, AllStarted, Finish
    <3>2. QED
      BY <1>1, <3>1
  <2>5. QED
    BY <2>1, <2>2, <2>3, <2>4
<1>5. CASE \/ OpenDialog \/ CloseDialog \/ ContainersKnown \/ UNCHANGED vars
           \/ Restart \/ BootStarts \/ ContainerWrites \/ OutsideActs
  <2>1. CASE Restart
    <3>1. run'[r] \in {NoRun, LeftBehind(run[r])}
      BY <2>1 DEF Restart
    <3>2. QED
      BY <1>1, <3>1, LeftOnward
  <2>2. CASE UNCHANGED run
    BY <1>1, <2>2
  <2>3. CASE \E c : Wakes(c, run)
    BY <1>1, <1>2, <2>3, WakesGoes
  <2>4. CASE \E written, who : run' = Disturb(written, who)
    BY <1>1, <1>2, <2>4, DisturbGoes
  <2>5. QED
    BY <1>5, <2>1, <2>2, <2>3, <2>4
       DEF OpenDialog, CloseDialog, ContainersKnown, vars, BootStarts, ContainerWrites, OutsideActs
<1>6. ASSUME NEW q \in Repositories, q # r, ResticDeletes(q) PROVE FALSE
  <2>1. PICK extra : run' = [Disturb(extra, q) EXCEPT ![q] = Leaves(@, "success")]
    BY <1>6 DEF ResticDeletes
  <2>2. run'[r] = Disturb(extra, q)[r]
    BY <1>6, <2>1 DEF Disturb
  <2>3. QED
    BY <1>1, <1>2, <2>2, DisturbGoes
<1>7. QED
  BY <1>3, <1>4, <1>5, <1>6 DEF Next

\* A restore that succeeded beside nobody left what was to be replaced exactly as
\* the snapshot has it: every file of it in its place, and of a whole folder
\* nothing else (planResticRestore; restic restore --delete).
THEOREM RestoresAsTaken == Spec => RestoredAsTaken
<1>1. ASSUME IInv, AllPlanned, AllWritten, [Next]_vars, NEW r \in Repositories, AtWork(r),
             run'[r].outcome = "success", Alone(run[r])
      PROVE  Replaced(run[r])
  <2>1. ResticDeletes(r)
    BY <1>1, WhoSucceeds
  <2>2. PICK extra :
          /\ extra = {p \in Covered(run[r].plan) \ Wanted(run[r].snap, run[r].plan) : disk[p] # Nothing}
          /\ disk' = [p \in Paths |-> IF p \in extra THEN Nothing ELSE disk[p]]
    BY <1>1, <2>1, ResticDeletesIs
  <2>3. PICK x : x = run[r]
    OBVIOUS
  <2>4. AsPlanned(x) /\ Wanted(x.snap, x.plan) \subseteq Covered(x.plan) /\ Covered(x.plan) \subseteq Paths
    BY <1>1, <2>3, AtWorkIs DEF Covered
  <2>5. \A p \in Wanted(x.snap, x.plan) : disk'[p] = x.no
    <3>1. \A p \in Wanted(x.snap, x.plan) : disk[p] = x.no
      BY <1>1, <2>1, <2>3 DEF AllWritten, Written, ResticDeletes
    <3>2. QED
      BY <2>2, <2>3, <2>4, <3>1
  <2>6. ASSUME NEW p \in x.snap.files, Whole(x, p) \/ Chosen(x, p) PROVE disk'[Placed(x, p)] = x.no
    BY <2>4, <2>5, <2>6, PlacedWanted
  <2>7. ASSUME x.include = {}, x.target # <<>>, NEW p \in Paths, within(p, x.target)
        PROVE  disk'[p] \in {x.no, Nothing}
    <3>1. p \in Covered(x.plan)
      BY <2>4, <2>7, FolderCovered
    <3>2. QED
      BY <2>2, <2>3, <2>5, <3>1
  <2>8. QED
    BY <2>3, <2>6, <2>7 DEF Replaced
<1>2. IInv /\ AllPlanned /\ AllWritten /\ [Next]_vars
        => [\A r \in Repositories :
              (AtWork(r) /\ run'[r].outcome = "success" /\ Alone(run[r])) => Replaced(run[r])]_vars
  BY <1>1
<1>3. QED
  BY <1>2, WorkInvariant, PTL DEF Spec, RestoredAsTaken
=============================================================================
