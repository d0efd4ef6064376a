---------------------------- MODULE CatalogProofs ----------------------------
(***************************************************************************)
(* For any number of sources, repositories, jobs, dialogs and faults: the  *)
(* catalog stays well typed, jobs keep what they refer to, a job deleted   *)
(* with its snapshots leaves none behind where they were forgotten, and a  *)
(* one-step backup that is refused leaves no source behind.                *)
(***************************************************************************)
EXTENDS Catalog, TLAPS

\* A job that was ever stored.
Known(j) == j \in Jobs /\ jobs[j].state # "unused"
\* A source that was made exists or was deleted since.
Made(s) == s \in Sources /\ sources[s].state \in {"live", "deleted"}

\* A form whose job is resolved before a run of it starts.
Resolved(f) == f.kind = "run" \/ (f.kind = "remove job" /\ f.then)

\* What a form that is under way relies on.
FormOK(f) ==
    /\ f.kind = "save" => Known(f.on) /\ f.job.state = "live"
    /\ f.kind \in {"run", "remove job"} => Known(f.on)
    /\ Resolved(f) /\ f.phase = "checked" =>
          f.at \in Repositories /\ Owns(f.at, f.on)
    /\ f.kind = "quick" /\ f.phase = "ok" => Known(f.on)
    /\ f.kind = "repository" /\ f.phase = "checked" => f.read.password # Blank
    /\ f.kind = "quick" => f.phase # "checked"
    /\ f.kind = "quick" /\ f.phase \in {"open", "sent", "make"} => f.made = Nobody
    /\ f.made # Nobody => Made(f.made)
FormsOK == \A n \in Forms : FormOK(form[n])

\* The rows and the runs, without the forms.
StoreOK ==
    /\ sources \in [Sources -> SourceRows] /\ repos \in [Repositories -> RepoRows]
    /\ jobs \in [Jobs -> JobRows]
    /\ \A r \in Live(repos) : repos[r].password # Blank
    /\ \A j \in Jobs : Known(j) => jobs[j].repo \in Repositories
SlotOK ==
    /\ slot \in [Repositories -> [kind : {"none", "backup", "forget", "forgotten", "reset"},
                                  job : Jobs \union {Nobody}]]
    /\ \A r \in Repositories :
          /\ slot[r].job # Nobody => Known(slot[r].job) /\ Owns(r, slot[r].job)
          /\ slot[r].kind \in {"backup", "forget", "forgotten"} => slot[r].job # Nobody
BoundsOK == opened \in 0..MaxOpened /\ faults \in 0..MaxFaults
FormsTyped == form \in [Forms -> FormRows]

\* A repository holds snapshots of its own jobs only, and of those that were moved;
\* from the forget to the deletion of a job it holds none of that job; and of the
\* backups that work for a job that was deleted with its snapshots, only a late
\* one works where they were forgotten.
SnapsOK ==
    /\ snaps \subseteq Repositories \X Jobs /\ late \subseteq Jobs /\ moved \subseteq Jobs
    /\ \A r \in Repositories, j \in Jobs : <<r, j>> \in snaps => Known(j) /\ Owns(r, j)
    /\ \A r \in Repositories : slot[r].kind = "forgotten" => <<r, slot[r].job>> \notin snaps
ForgotOK ==
    /\ forgot \subseteq Repositories \X Jobs
    /\ \A x \in forgot : jobs[x[2]].state = "deleted"
    /\ \A r \in Repositories, x \in forgot :
          slot[r].kind = "backup" /\ slot[r].job = x[2] /\ x[2] \notin late
             => r # x[1] /\ x[2] \in moved

IInv == /\ StoreOK /\ SlotOK /\ BoundsOK /\ FormsTyped /\ FormsOK /\ SnapsOK /\ ForgotOK
        /\ References /\ ForgetTakesAll

-----------------------------------------------------------------------------
(* Records.                                                                 *)

\* Which ids the live rows of a table have, and which the unused ones.
LEMMA LiveRows ==
    ASSUME NEW S, NEW T, NEW rows \in [S -> T], NEW x
    PROVE  /\ x \in Live(rows) <=> x \in S /\ rows[x].state = "live"
           /\ x \in Unused(rows) <=> x \in S /\ rows[x].state = "unused"
BY DEF Live, Unused

\* The empty rows and the closed form are well typed.
LEMMA RowTypes ==
    /\ NoRow \in JobRows /\ NoRow.state = "unused"
    /\ NoRepo \in RepoRows
    /\ Closed \in FormRows
    /\ FormOK(Closed)
<1>1. NoRow \in JobRows /\ NoRow.state = "unused"
  BY DEF NoRow, JobRows, States, Setting
<1>2. NoRepo \in RepoRows
  BY DEF NoRepo, RepoRows, States, Setting
<1>3. Closed \in FormRows
  BY <1>1, <1>2 DEF Closed, FormRows, FormKinds, Phases, Targets, Setting
<1>4. FormOK(Closed)
  BY DEF Closed, FormOK, Resolved
<1>5. QED
  BY <1>1, <1>2, <1>3, <1>4

\* A closed form is well typed and has made no source.
LEMMA ClosedForm == Closed \in FormRows /\ Closed.made = Nobody
BY RowTypes DEF Closed

\* After a failure a form is typed, and asks for less than before.
LEMMA FailedForm ==
    ASSUME NEW f \in FormRows, FormOK(f)
    PROVE  Failed(f) \in FormRows /\ FormOK(Failed(f))
<1>1. Closed \in FormRows /\ FormOK(Closed) /\ NoRepo \in RepoRows
  BY RowTypes
<1>2. CASE f.kind \in {"remove source", "remove repository", "reset", "run"}
  BY <1>1, <1>2 DEF Failed
<1>3. CASE f.kind \notin {"remove source", "remove repository", "reset", "run"}
  <2> DEFINE on == IF f.kind \in {"job", "quick"} THEN Nobody ELSE f.on
             g  == [f EXCEPT !.phase = "open", !.read = NoRepo, !.made = Nobody,
                        !.at = Nobody, !.on = on]
  <2>0. on \in Targets
    BY DEF FormRows, Targets
  <2>1. g \in FormRows
    <3> HIDE DEF on
    <3> QED  BY <1>1, <2>0 DEF FormRows, Phases
  <2>2. g.kind = f.kind /\ g.phase = "open" /\ g.made = Nobody /\ g.job = f.job
    BY DEF FormRows
  <2>3. f.kind \notin {"job", "quick"} => g.on = f.on
    BY DEF FormRows
  <2>4. FormOK(g)
    BY <2>2, <2>3 DEF FormOK, Resolved
  <2>5. Failed(f) = g
    BY <1>3 DEF Failed
  <2> HIDE DEF g
  <2>6. QED
    BY <2>1, <2>4, <2>5
<1>4. QED
  BY <1>2, <1>3

-----------------------------------------------------------------------------
(* Frames: what a step must not do to leave the rest as it is.              *)

\* Jobs stay known, and what they had to do with; sources stay made.
JobsKept    == \A j : Known(j) => Known(j)' /\ \A r : Owns(r, j) => Owns(r, j)'
SourcesKept == \A s : Made(s) => Made(s)'

\* A table that does not change keeps the ids that forms refer to.
LEMMA KeptWhenUnchanged ==
    /\ UNCHANGED <<jobs, moved>> => JobsKept
    /\ UNCHANGED sources => SourcesKept
BY DEF JobsKept, SourcesKept, Known, Owns, Made

\* A form stays right when jobs and sources are kept.
LEMMA FormKept ==
    ASSUME JobsKept, SourcesKept, NEW f, FormOK(f)
    PROVE  FormOK(f)'
BY DEF JobsKept, SourcesKept, FormOK, Resolved

\* One form changes.
LEMMA OneForm ==
    ASSUME FormsTyped, FormsOK, JobsKept, SourcesKept,
           NEW n \in Forms, NEW g \in FormRows, FormOK(g)', form' = [form EXCEPT ![n] = g]
    PROVE  FormsTyped' /\ FormsOK'
<1>1. FormsTyped'
  BY DEF FormsTyped
<1>2. ASSUME NEW m \in Forms PROVE FormOK(form[m])'
  <2>1. CASE m = n
    <3>1. form'[m] = g
      BY <2>1 DEF FormsTyped
    <3>2. QED
      BY <3>1 DEF FormOK, Resolved, Known, Owns, Made
  <2>2. CASE m # n
    <3>1. form'[m] = form[m]
      BY <2>2 DEF FormsTyped
    <3>2. PICK f : f = form[m]
      OBVIOUS
    <3>3. FormOK(f)
      BY <3>2 DEF FormsOK
    <3>4. FormOK(f)'
      BY <3>3, FormKept
    <3>5. QED
      BY <3>1, <3>2, <3>4 DEF FormOK, Resolved, Known, Owns, Made
  <2>3. QED
    BY <2>1, <2>2
<1>3. QED
  BY <1>1, <1>2 DEF FormsOK

\* A form only passes to another phase: not a quick one to "ok", and none to
\* where something must have been read.
LEMMA PhaseForm ==
    ASSUME FormsTyped, FormsOK, JobsKept, SourcesKept, NEW n \in Forms,
           NEW p \in Phases, Phase(n, p),
           form[n].kind = "quick" => p \notin {"ok", "checked"},
           form[n].kind = "quick" /\ p \in {"open", "sent", "make"} => form[n].made = Nobody,
           form[n].kind = "repository" \/ Resolved(form[n]) => p # "checked"
    PROVE  FormsTyped' /\ FormsOK'
<1>1. form[n] \in FormRows /\ FormOK(form[n])
  BY DEF FormsTyped, FormsOK
<1>2. PICK g : g = [form[n] EXCEPT !.phase = p]
  OBVIOUS
<1>3. g \in FormRows
  BY <1>1, <1>2 DEF FormRows
<1>4. /\ g.kind = form[n].kind /\ g.on = form[n].on /\ g.job = form[n].job
      /\ g.read = form[n].read /\ g.made = form[n].made /\ g.phase = p
      /\ g.then = form[n].then
  BY <1>1, <1>2 DEF FormRows
<1>5. FormOK(g)
  BY <1>1, <1>4 DEF FormOK, Resolved
<1>6. form' = [form EXCEPT ![n] = g]
  BY <1>2 DEF Phase
<1>7. QED
  BY <1>3, <1>5, <1>6, FormKept, OneForm

\* A step that leaves rows and runs alone.
LEMMA StoreKept ==
    ASSUME IInv, UNCHANGED <<store, work>>
    PROVE  /\ StoreOK' /\ SlotOK' /\ SnapsOK' /\ ForgotOK' /\ References' /\ ForgetTakesAll'
           /\ JobsKept /\ SourcesKept
<1>1. JobsKept /\ SourcesKept
  BY KeptWhenUnchanged DEF store, work, past
<1>2. StoreOK' /\ SlotOK' /\ SnapsOK' /\ ForgotOK'
  BY DEF IInv, StoreOK, SlotOK, SnapsOK, ForgotOK, Known, Owns, Live, store, work, past
<1>3. References' /\ ForgetTakesAll'
  BY DEF IInv, References, ForgetTakesAll, RefsLive, Live, store, work, past
<1>4. QED
  BY <1>1, <1>2, <1>3

-----------------------------------------------------------------------------
(* Steps of a form alone.                                                   *)

\* What is live is in its table, and well typed.
LEMMA LiveIsKnown ==
    ASSUME StoreOK
    PROVE  /\ \A s \in Live(sources) : s \in Sources /\ Made(s)
           /\ \A r \in Live(repos) : r \in Repositories
           /\ \A j \in Live(jobs) : Known(j) /\ jobs[j] \in JobRows /\ jobs[j].state = "live"
BY DEF StoreOK, Live, Known, Made

\* A form that was just filled relies on nothing, but for those of a job.
LEMMA FilledForm ==
    ASSUME NEW f, f.phase = "open", f.made = Nobody,
           f.kind = "save" => Known(f.on) /\ f.job.state = "live",
           f.kind \in {"run", "remove job"} => Known(f.on)
    PROVE  FormOK(f)
BY DEF FormOK, Resolved

\* The forms of the folders page name a folder or database that exists, or none.
LEMMA FoldersForms ==
    ASSUME StoreOK, NEW f \in FoldersRoute
    PROVE  f \in FormRows /\ FormOK(f) /\ f.phase = "open"
<1>1. CASE f \in FolderDialog
  <2>1. PICK s \in Sources \union {Nobody}, p \in Places : f = [F("folder", s) EXCEPT !.place = p]
    BY <1>1, LiveIsKnown DEF FolderDialog, Places
  <2>2. F("folder", s) \in FormRows /\ F("folder", s).kind = "folder"
        /\ F("folder", s).phase = "open" /\ F("folder", s).made = Nobody
    BY ClosedForm DEF F, FormRows, FormKinds, Phases, Targets
  <2>3. f \in FormRows /\ f.kind = "folder" /\ f.phase = "open" /\ f.made = Nobody
    BY <2>1, <2>2 DEF FormRows
  <2>4. QED
    BY <2>3, FilledForm
<1>2. CASE f \notin FolderDialog
  <2>1. PICK s \in Sources : f = F("remove source", s)
    BY <1>2, LiveIsKnown DEF FoldersRoute, DatabaseSources
  <2>2. f \in FormRows /\ f.kind = "remove source" /\ f.phase = "open" /\ f.made = Nobody
    BY <2>1, ClosedForm DEF F, FormRows, FormKinds, Phases, Targets
  <2>3. QED
    BY <2>2, FilledForm
<1>3. QED
  BY <1>1, <1>2

\* RepositoryDialog, the two cards and the buttons of a repository.
RepositoryForms ==
    RepositoryDialog \union CheckScheduleCard \union SpeedLimitCard \union
    {F("remove repository", r) : r \in Live(repos)} \union {F("reset", r) : r \in Live(repos)}

\* The forms of the repository pages name a repository that exists, or none.
LEMMA RepositoryFormsOK ==
    ASSUME StoreOK, NEW f \in RepositoryForms
    PROVE  f \in FormRows /\ FormOK(f) /\ f.phase = "open"
<1>1. CASE f \in RepositoryDialog
  <2>1. PICK r \in Repositories \union {Nobody}, w \in Passwords \union {Blank} :
          f = [F("repository", r) EXCEPT !.password = w]
    BY <1>1, LiveIsKnown DEF RepositoryDialog
  <2>2. F("repository", r) \in FormRows /\ F("repository", r).kind = "repository"
        /\ F("repository", r).phase = "open" /\ F("repository", r).made = Nobody
    BY ClosedForm DEF F, FormRows, FormKinds, Phases, Targets
  <2>3. f \in FormRows /\ f.kind = "repository" /\ f.phase = "open" /\ f.made = Nobody
    BY <2>1, <2>2 DEF FormRows
  <2>4. QED
    BY <2>3, FilledForm
<1>2. CASE f \in CheckScheduleCard \union SpeedLimitCard
  <2>1. PICK kind \in {"check", "limit"}, r \in Repositories, v \in Settings :
          f = [F(kind, r) EXCEPT !.value = v]
    BY <1>2, LiveIsKnown DEF CheckScheduleCard, SpeedLimitCard
  <2>2. F(kind, r) \in FormRows /\ F(kind, r).kind = kind
        /\ F(kind, r).phase = "open" /\ F(kind, r).made = Nobody
    BY ClosedForm DEF F, FormRows, FormKinds, Phases, Targets
  <2>3. f \in FormRows /\ f.kind = kind /\ f.phase = "open" /\ f.made = Nobody
    BY <2>1, <2>2 DEF FormRows, Setting
  <2>4. QED
    BY <2>3, FilledForm
<1>3. ASSUME NEW r \in Live(repos), f \in {F("remove repository", r), F("reset", r)}
      PROVE  f \in FormRows /\ FormOK(f) /\ f.phase = "open"
  <2>1. r \in Targets
    BY LiveIsKnown DEF Targets
  <2>2. /\ f \in FormRows /\ f.kind \in {"remove repository", "reset"}
        /\ f.phase = "open" /\ f.made = Nobody
    BY <1>3, <2>1, ClosedForm DEF F, FormRows, FormKinds, Phases
  <2>3. QED
    BY <2>2, FilledForm
<1>4. QED
  BY <1>1, <1>2, <1>3 DEF RepositoryForms

\* A new job is filled in with a source and a repository that exist.
LEMMA NewJobForms ==
    ASSUME StoreOK, NEW f \in NewJobDialog
    PROVE  f \in FormRows /\ FormOK(f) /\ f.phase = "open"
<1> DEFINE Filled(s, r, v) == [F("job", Nobody) EXCEPT !.job = JobOf(s, r, v)]
<1>0. NewJobDialog = {Filled(s, r, v) : s \in Live(sources), r \in Live(repos), v \in Setting}
  BY DEF NewJobDialog
<1>1. PICK s \in Live(sources), r \in Live(repos), v \in Setting : f = Filled(s, r, v)
  <2> HIDE DEF Filled
  <2> QED  BY <1>0
<1>2. F("job", Nobody) \in FormRows /\ F("job", Nobody).kind = "job"
      /\ F("job", Nobody).phase = "open" /\ F("job", Nobody).made = Nobody
  BY ClosedForm DEF F, FormRows, FormKinds, Phases, Targets
<1>3. JobOf(s, r, v) \in JobRows
  BY LiveIsKnown, RowTypes DEF JobOf, JobRows
<1>4. f \in FormRows /\ f.kind = "job" /\ f.phase = "open" /\ f.made = Nobody
  BY <1>1, <1>2, <1>3 DEF FormRows
<1>5. QED
  BY <1>4, FilledForm

\* What saves a job sends all of it, with some change.
LEMMA EditorForms ==
    ASSUME StoreOK, NEW f \in ScheduleEditor \union RetentionEditor \union JobUpdate
    PROVE  f \in FormRows /\ FormOK(f) /\ f.phase = "open"
<1> DEFINE Sent(j, row) == [F("save", j) EXCEPT !.job = row]
<1>2. PICK j \in Live(jobs), row \in JobRows : f = Sent(j, row) /\ row.state = "live"
  <2>1. CASE f \in ScheduleEditor
    <3>1. PICK j \in Live(jobs), v \in Settings : f = Sent(j, [jobs[j] EXCEPT !.schedule = v])
      BY <2>1 DEF ScheduleEditor
    <3> HIDE DEF Sent
    <3>2. [jobs[j] EXCEPT !.schedule = v] \in JobRows /\ [jobs[j] EXCEPT !.schedule = v].state = "live"
      BY LiveIsKnown DEF JobRows, Setting
    <3>3. QED
      BY <3>1, <3>2
  <2>2. CASE f \in RetentionEditor
    <3>1. PICK j \in Live(jobs), v \in Settings : f = Sent(j, [jobs[j] EXCEPT !.retention = v])
      BY <2>2 DEF RetentionEditor
    <3> HIDE DEF Sent
    <3>2. [jobs[j] EXCEPT !.retention = v] \in JobRows /\ [jobs[j] EXCEPT !.retention = v].state = "live"
      BY LiveIsKnown DEF JobRows, Setting
    <3>3. QED
      BY <3>1, <3>2
  <2>3. CASE f \in JobUpdate
    <3>1. PICK j \in Live(jobs), q \in Live(sources), r \in Live(repos) : f = Sent(j, Given(j, q, r))
      BY <2>3 DEF JobUpdate
    <3> HIDE DEF Sent
    <3>2. Given(j, q, r) \in JobRows /\ Given(j, q, r).state = "live"
      BY LiveIsKnown DEF JobRows, Given
    <3>3. QED
      BY <3>1, <3>2
  <2>4. QED
    BY <2>1, <2>2, <2>3
<1>4. Known(j)
  BY LiveIsKnown
<1>5. /\ F("save", j) \in FormRows /\ F("save", j).kind = "save" /\ F("save", j).on = j
      /\ F("save", j).phase = "open" /\ F("save", j).made = Nobody
  BY <1>4, ClosedForm DEF F, FormRows, FormKinds, Phases, Targets, Known
<1>6. /\ f \in FormRows /\ f.kind = "save" /\ f.phase = "open" /\ f.made = Nobody
      /\ f.on = j /\ f.job = row
  BY <1>2, <1>5 DEF FormRows
<1>7. QED
  BY <1>2, <1>4, <1>6, FilledForm

\* The buttons of a job name a job that exists.
LEMMA JobButtons ==
    ASSUME StoreOK, NEW j \in Live(jobs), NEW b \in BOOLEAN,
           NEW f \in {F("run", j), [F("remove job", j) EXCEPT !.then = b]}
    PROVE  f \in FormRows /\ FormOK(f) /\ f.phase = "open"
<1>1. Known(j)
  BY LiveIsKnown
<1>2. ASSUME NEW kind \in {"run", "remove job"}
      PROVE  /\ F(kind, j) \in FormRows /\ F(kind, j).kind = kind /\ F(kind, j).on = j
             /\ F(kind, j).phase = "open" /\ F(kind, j).made = Nobody
  BY <1>1, ClosedForm DEF F, FormRows, FormKinds, Phases, Targets, Known
<1>3. /\ f \in FormRows /\ f.kind \in {"run", "remove job"} /\ f.on = j
      /\ f.phase = "open" /\ f.made = Nobody
  <2>1. CASE f = F("run", j)
    BY <1>2, <2>1
  <2>2. CASE f = [F("remove job", j) EXCEPT !.then = b]
    BY <1>2, <2>2 DEF FormRows
  <2>3. QED
    BY <2>1, <2>2
<1>4. QED
  BY <1>1, <1>3, FilledForm

\* A one-step backup is offered with a repository that exists, and has no source yet.
LEMMA QuickForms ==
    ASSUME StoreOK, NEW f \in CoolifyRoute
    PROVE  f \in FormRows /\ FormOK(f) /\ f.phase = "open"
<1>1. PICK p \in Places : f \in VolumeRow(p) \/ f \in DatabaseServerRow(p)
  <2>1. CASE f \in UNION {VolumeRow(p) : p \in Folders}
    <3>1. PICK p \in Folders : f \in VolumeRow(p)
      BY <2>1
    <3>2. QED
      BY <3>1 DEF Places
  <2>2. CASE f \in UNION {DatabaseServerRow(p) : p \in Databases}
    <3>1. PICK p \in Databases : f \in DatabaseServerRow(p)
      BY <2>2
    <3>2. QED
      BY <3>1 DEF Places
  <2>3. QED
    BY <2>1, <2>2 DEF CoolifyRoute
<1>2. f \in QuickBackupDialog(p)
  BY <1>1 DEF VolumeRow, DatabaseServerRow
<1> DEFINE Filled(b, r, v) ==
             [F("quick", Nobody) EXCEPT !.place = p, !.then = b, !.job = JobOf(Nobody, r, v)]
<1>0. QuickBackupDialog(p) = {Filled(b, r, v) : b \in BOOLEAN, r \in Live(repos), v \in Setting}
  BY DEF QuickBackupDialog
<1>3. PICK b \in BOOLEAN, r \in Live(repos), v \in Setting : f = Filled(b, r, v)
  <2> HIDE DEF Filled
  <2> QED  BY <1>0, <1>2
<1>4. F("quick", Nobody) \in FormRows /\ F("quick", Nobody).kind = "quick"
      /\ F("quick", Nobody).phase = "open" /\ F("quick", Nobody).made = Nobody
  BY ClosedForm DEF F, FormRows, FormKinds, Phases, Targets
<1>5. JobOf(Nobody, r, v) \in JobRows
  BY LiveIsKnown, RowTypes DEF JobOf, JobRows
<1>6. f \in FormRows /\ f.kind = "quick" /\ f.phase = "open" /\ f.made = Nobody
  BY <1>3, <1>4, <1>5 DEF FormRows
<1>7. QED
  BY <1>6, FilledForm

\* Whatever a page offers is typed and relies on what is there.
LEMMA PageForms ==
    ASSUME StoreOK, NEW f \in Pages
    PROVE  f \in FormRows /\ FormOK(f) /\ f.phase = "open"
<1>1. CASE f \in RepositoriesRoute
  <2>1. f \in RepositoryDialog \/ \E r \in Live(repos) : f = F("remove repository", r)
    BY <1>1, Zenon DEF RepositoriesRoute, RepositoryCard
  <2>2. f \in RepositoryForms
    BY <2>1, Zenon DEF RepositoryForms
  <2>3. QED
    BY <2>2, RepositoryFormsOK
<1>2. CASE f \in RepositoryDetail
  <2>1. f \in RepositoryForms
    BY <1>2, Zenon DEF RepositoryDetail, RepositoryForms
  <2>2. QED
    BY <2>1, RepositoryFormsOK
<1>3. CASE f \in NewJobDialog \union ScheduleEditor \union RetentionEditor \union JobUpdate
  BY <1>3, NewJobForms, EditorForms
<1>4. CASE f \in JobDeleteDialog
  <2> DEFINE Filled(j, b) == [F("remove job", j) EXCEPT !.then = b]
  <2>0. JobDeleteDialog = {Filled(j, b) : j \in Live(jobs), b \in BOOLEAN}
    BY DEF JobDeleteDialog
  <2>1. PICK j \in Live(jobs), b \in BOOLEAN : f = Filled(j, b)
    <3> HIDE DEF Filled
    <3> QED  BY <1>4, <2>0
  <2>2. QED
    BY <2>1, JobButtons
<1>0. CASE f \in {F("run", j) : j \in Live(jobs)}
  <2>1. PICK j \in Live(jobs) : f = F("run", j)
    BY <1>0
  <2>2. QED
    BY <2>1, JobButtons
<1>5. CASE f \in FoldersRoute \union CoolifyRoute
  BY <1>5, FoldersForms, QuickForms
<1>6. QED
  BY <1>0, <1>1, <1>2, <1>3, <1>4, <1>5, Zenon DEF Pages, JobsRoute, JobDetail

-----------------------------------------------------------------------------
(* Steps of a form alone.                                                   *)

\* A step that changes one form and nothing of the store.
LEMMA OnlyForm ==
    ASSUME IInv, UNCHANGED <<store, work>>, BoundsOK',
           NEW n \in Forms, NEW g \in FormRows, FormOK(g), form' = [form EXCEPT ![n] = g]
    PROVE  IInv'
<1>1. /\ StoreOK' /\ SlotOK' /\ SnapsOK' /\ ForgotOK' /\ References' /\ ForgetTakesAll'
      /\ JobsKept /\ SourcesKept
  BY StoreKept
<1>2. FormOK(g)'
  BY <1>1, FormKept
<1>3. FormsTyped' /\ FormsOK'
  BY <1>1, <1>2, OneForm DEF IInv
<1>4. QED
  BY <1>1, <1>3 DEF IInv

\* A step that only moves one form on keeps the invariant, when the new phase asks
\* nothing of the form that it does not have.
LEMMA OnlyPhase ==
    ASSUME IInv, UNCHANGED <<store, work, opened, faults>>,
           NEW n \in Forms, NEW p \in Phases, Phase(n, p),
           form[n].kind = "quick" => p \notin {"ok", "checked"},
           form[n].kind = "quick" /\ p \in {"open", "sent", "make"} => form[n].made = Nobody,
           form[n].kind = "repository" \/ Resolved(form[n]) => p # "checked"
    PROVE  IInv'
<1>1. /\ StoreOK' /\ SlotOK' /\ SnapsOK' /\ ForgotOK' /\ References' /\ ForgetTakesAll'
      /\ JobsKept /\ SourcesKept
  BY StoreKept
<1>2. FormsTyped' /\ FormsOK'
  BY <1>1, PhaseForm DEF IInv
<1>3. QED
  BY <1>1, <1>2 DEF IInv, BoundsOK

\* A form that is opened was filled from what exists.
LEMMA OpenInv ==
    ASSUME IInv, NEW n \in Forms, Open(n)
    PROVE  IInv'
<1>1. PICK f \in Pages : form' = [form EXCEPT ![n] = f]
  BY DEF Open
<1>2. f \in FormRows /\ FormOK(f)
  BY PageForms DEF IInv
<1>3. BoundsOK' /\ UNCHANGED <<store, work>>
  BY BoundsAreNat DEF Open, IInv, BoundsOK
<1>4. QED
  BY <1>1, <1>2, <1>3, OnlyForm

\* Giving a form up keeps the invariant.
LEMMA CancelInv ==
    ASSUME IInv, NEW n \in Forms, Cancel(n)
    PROVE  IInv'
<1>1. BoundsOK'
  BY DEF Cancel, IInv, BoundsOK
<1>2. QED
  BY <1>1, RowTypes, OnlyForm DEF Cancel

\* Sending a form keeps the invariant.
LEMMA SubmitInv ==
    ASSUME IInv, NEW n \in Forms, Submit(n)
    PROVE  IInv'
<1>1. form[n].kind = "quick" => form[n].made = Nobody
  BY DEF Submit, IInv, FormsOK, FormOK, Resolved
<1>2. QED
  BY <1>1, OnlyPhase DEF Submit, Phase, Phases

\* An answer closes its form, returns it to the user, or sends the first backup of
\* the job that was just made.
LEMMA AnsweredInv ==
    ASSUME IInv, NEW n \in Forms, Answered(n)
    PROVE  IInv'
<1>1. BoundsOK' /\ UNCHANGED <<store, work>>
  BY DEF Answered, IInv, BoundsOK
<1>2. form[n] \in FormRows /\ FormOK(form[n])
  BY DEF IInv, FormsTyped, FormsOK
<1>3. CASE form[n].phase = "refused"
  <2>1. form' = [form EXCEPT ![n] = Failed(form[n])]
    BY <1>3 DEF Answered
  <2>2. PICK g : g = Failed(form[n])
    OBVIOUS
  <2>3. g \in FormRows /\ FormOK(g)
    BY <1>2, <2>2, FailedForm
  <2>4. QED
    BY <1>1, <2>1, <2>2, <2>3, OnlyForm
<1>4. CASE form[n].phase = "ok" /\ ~(form[n].kind = "quick" /\ form[n].then)
  <2>1. form' = [form EXCEPT ![n] = Closed]
    BY <1>4 DEF Answered
  <2>2. QED
    BY <1>1, <2>1, RowTypes, OnlyForm
<1>5. CASE form[n].phase = "ok" /\ form[n].kind = "quick" /\ form[n].then
  <2>1. PICK g : g = [F("run", form[n].on) EXCEPT !.phase = "sent"]
    OBVIOUS
  <2>2. form' = [form EXCEPT ![n] = g]
    BY <1>5, <2>1 DEF Answered
  <2>3. Known(form[n].on) /\ form[n].on \in Targets
    BY <1>2, <1>5 DEF FormOK, Resolved, FormRows
  <2>4. /\ g \in FormRows /\ g.kind = "run" /\ g.on = form[n].on
        /\ g.phase = "sent" /\ g.made = Nobody
    BY <2>1, <2>3, ClosedForm DEF F, FormRows, FormKinds, Phases
  <2>5. FormOK(g)
    BY <2>3, <2>4 DEF FormOK, Resolved
  <2>6. QED
    BY <1>1, <2>2, <2>4, <2>5, OnlyForm
<1>6. QED
  BY <1>3, <1>4, <1>5 DEF Answered

\* A lost answer returns the form, without what the server had put into it.
LEMMA AnswerLostInv ==
    ASSUME IInv, NEW n \in Forms, AnswerLost(n)
    PROVE  IInv'
<1>1. BoundsOK' /\ UNCHANGED <<store, work>>
  BY BoundsAreNat DEF AnswerLost, IInv, BoundsOK
<1>2. form[n] \in FormRows /\ FormOK(form[n])
  BY DEF IInv, FormsTyped, FormsOK
<1>3. PICK g : g = Failed(form[n])
  OBVIOUS
<1>4. g \in FormRows /\ FormOK(g)
  BY <1>2, <1>3, FailedForm
<1>5. form' = [form EXCEPT ![n] = g]
  BY <1>3 DEF AnswerLost
<1>6. QED
  BY <1>1, <1>4, <1>5, OnlyForm

\* Handlers that only look, and pass on or refuse.
LEMMA LookingInv ==
    ASSUME IInv, NEW n \in Forms,
           Refused(n) \/ CheckUnused(n) \/ CheckRefs(n) \/ CheckIdle(n)
    PROVE  IInv'
<1>1. form[n].phase = "checked" => form[n].kind # "quick"
  BY DEF IInv, FormsOK, FormOK, Resolved
<1>2. CASE Refused(n)
  BY <1>2, OnlyPhase DEF Refused, Phases
<1>3. CASE CheckUnused(n) \/ CheckRefs(n) \/ CheckIdle(n)
  <2>1. form[n].kind \notin {"quick", "repository"} /\ ~Resolved(form[n]) /\ Phase(n, "checked")
        /\ UNCHANGED <<store, work, opened, faults>>
    BY <1>3 DEF CheckUnused, CheckRefs, CheckIdle, Handles, Resolved
  <2>2. QED
    BY <2>1, OnlyPhase DEF Phases
<1>4. QED
  BY <1>2, <1>3

\* The repository that a job is resolved with is its own.
LEMMA ResolveJobInv ==
    ASSUME IInv, NEW n \in Forms, ResolveJob(n)
    PROVE  IInv'
<1>1. /\ form[n] \in FormRows /\ FormOK(form[n]) /\ form[n].kind \in {"run", "remove job"}
      /\ form[n].on \in Live(jobs) /\ BoundsOK' /\ UNCHANGED <<store, work>>
  BY DEF IInv, FormsTyped, FormsOK, BoundsOK, ResolveJob, Handles
<1>2. PICK r \in Repositories : r = jobs[form[n].on].repo
  BY <1>1, LiveIsKnown DEF IInv, StoreOK, Known
<1>3. PICK g : g = [form[n] EXCEPT !.at = r, !.phase = "checked"]
  OBVIOUS
<1>4. form' = [form EXCEPT ![n] = g]
  BY <1>2, <1>3 DEF ResolveJob
<1>5. /\ g \in FormRows /\ g.kind = form[n].kind /\ g.on = form[n].on /\ g.made = form[n].made
      /\ g.at = r
  BY <1>1, <1>3 DEF FormRows, Phases
<1>6. FormOK(g)
  BY <1>1, <1>2, <1>5 DEF FormOK, Resolved, Owns
<1>7. QED
  BY <1>1, <1>4, <1>5, <1>6, OnlyForm

\* What an edit reads of a repository is what is stored.
LEMMA ReadStoredInv ==
    ASSUME IInv, NEW n \in Forms, ReadStored(n)
    PROVE  IInv'
<1>1. form[n] \in FormRows /\ FormOK(form[n]) /\ form[n].kind = "repository"
  BY DEF IInv, FormsTyped, FormsOK, ReadStored, Handles
<1>2. form[n].on \in Live(repos)
  BY DEF ReadStored
<1>3. repos[form[n].on] \in RepoRows /\ repos[form[n].on].password # Blank
  BY <1>2, LiveIsKnown DEF IInv, StoreOK
<1>4. PICK g : g = [form[n] EXCEPT !.read = repos[form[n].on], !.phase = "checked"]
  OBVIOUS
<1>5. form' = [form EXCEPT ![n] = g]
  BY <1>4 DEF ReadStored
<1>6. /\ g \in FormRows /\ g.kind = "repository" /\ g.made = form[n].made
      /\ g.read.password # Blank
  BY <1>1, <1>3, <1>4 DEF FormRows, Phases
<1>7. FormOK(g)
  BY <1>1, <1>6 DEF FormOK, Resolved
<1>8. BoundsOK' /\ UNCHANGED <<store, work>>
  BY DEF ReadStored, IInv, BoundsOK
<1>9. QED
  BY <1>5, <1>6, <1>7, <1>8, OnlyForm

\* A source that is found exists.
LEMMA FindSourceInv ==
    ASSUME IInv, NEW n \in Forms, FindSource(n)
    PROVE  IInv'
<1>1. form[n] \in FormRows /\ FormOK(form[n]) /\ form[n].kind = "quick" /\ form[n].made = Nobody
  BY DEF IInv, FormsTyped, FormsOK, FormOK, Resolved, FindSource, Handles
<1>2. UNCHANGED <<store, work, opened, faults>> /\ BoundsOK'
  BY DEF FindSource, IInv, BoundsOK
<1>3. CASE Phase(n, "refused") \/ Phase(n, "make")
  BY <1>1, <1>2, <1>3, OnlyPhase DEF Phases
<1>4. ASSUME NEW s \in Live(sources), form' = [form EXCEPT ![n].job.source = s, ![n].phase = "placed"]
      PROVE  IInv'
  <2>1. PICK row : row = [form[n].job EXCEPT !.source = s]
    OBVIOUS
  <2>2. row \in JobRows
    BY <1>1, <2>1, LiveIsKnown DEF IInv, FormRows, JobRows
  <2>3. PICK g : g = [form[n] EXCEPT !.job = row, !.phase = "placed"]
    OBVIOUS
  <2>4. form' = [form EXCEPT ![n] = g]
    BY <1>1, <1>4, <2>1, <2>3 DEF FormRows
  <2>5. g \in FormRows /\ g.kind = "quick" /\ g.phase = "placed" /\ g.made = Nobody
    BY <1>1, <2>2, <2>3 DEF FormRows, Phases
  <2>6. FormOK(g)
    BY <2>5 DEF FormOK, Resolved
  <2>7. QED
    BY <1>2, <2>4, <2>5, <2>6, OnlyForm
<1>5. QED
  BY <1>3, <1>4 DEF FindSource, SourceAt

-----------------------------------------------------------------------------
(* Steps on sources and repositories.                                       *)

\* Sources may change, if what was made stays so and no live job's is dropped.
LEMMA SourcesChange ==
    ASSUME IInv, UNCHANGED <<repos, jobs, work>>, sources' \in [Sources -> SourceRows],
           SourcesKept,
           \A s \in Live(sources) : SourceUsed(s) => s \in Live(sources')
    PROVE  StoreOK' /\ SlotOK' /\ SnapsOK' /\ ForgotOK' /\ References' /\ ForgetTakesAll' /\ JobsKept
<1>1. JobsKept
  BY KeptWhenUnchanged DEF work, past
<1>2. StoreOK' /\ SlotOK' /\ SnapsOK' /\ ForgotOK'
  BY DEF IInv, StoreOK, SlotOK, SnapsOK, ForgotOK, Known, Owns, Live, work, past
<1>3. References'
  BY DEF IInv, References, RefsLive, SourceUsed, Live
<1>4. ForgetTakesAll'
  BY DEF IInv, ForgetTakesAll, work, past
<1>5. QED
  BY <1>1, <1>2, <1>3, <1>4

\* A new source.
LEMMA SourceMade ==
    ASSUME IInv, NEW s \in Unused(sources), NEW p \in Places \union {Nobody},
           sources' = [sources EXCEPT ![s] = [state |-> "live", place |-> p]]
    PROVE  /\ sources' \in [Sources -> SourceRows]
           /\ SourcesKept /\ Made(s)'
           /\ \A x \in Live(sources) : x \in Live(sources')
<1>1. s \in Sources /\ sources[s].state = "unused" /\ sources \in [Sources -> SourceRows]
  BY DEF IInv, StoreOK, Unused
<1>2. [state |-> "live", place |-> p] \in SourceRows
  BY DEF SourceRows, States
<1>3. sources' \in [Sources -> SourceRows]
  BY <1>1, <1>2
<1>4. \A x \in Sources : sources'[x] = IF x = s THEN [state |-> "live", place |-> p] ELSE sources[x]
  BY <1>1
<1>5. QED
  BY <1>1, <1>3, <1>4 DEF IInv, StoreOK, SourcesKept, Made, Live

\* A source that no live job uses is deleted.
LEMMA SourceDropped ==
    ASSUME IInv, NEW s, MayDropSource(s), sources' = [sources EXCEPT ![s].state = "deleted"]
    PROVE  /\ sources' \in [Sources -> SourceRows]
           /\ SourcesKept
           /\ \A x \in Live(sources) : SourceUsed(x) => x \in Live(sources')
<1>1. s \in Sources /\ ~SourceUsed(s) /\ sources \in [Sources -> SourceRows]
  BY DEF IInv, StoreOK, MayDropSource, Live
<1>2. \A x \in Sources : sources'[x] = IF x = s THEN [sources[s] EXCEPT !.state = "deleted"] ELSE sources[x]
  BY <1>1
<1>3. [sources[s] EXCEPT !.state = "deleted"] \in SourceRows
      /\ [sources[s] EXCEPT !.state = "deleted"].state = "deleted"
  BY <1>1 DEF SourceRows, States
<1>4. sources' \in [Sources -> SourceRows]
  BY <1>1, <1>3
<1>5. QED
  BY <1>1, <1>2, <1>3, <1>4 DEF IInv, StoreOK, SourcesKept, Made, Live

\* A folder that is stored leaves every reference as it was.
LEMMA SaveFolderInv ==
    ASSUME IInv, NEW n \in Forms, SaveFolder(n)
    PROVE  IInv'
<1>1. form[n] \in FormRows /\ form[n].kind = "folder" /\ Phase(n, "ok")
      /\ UNCHANGED <<repos, jobs, work>> /\ BoundsOK'
  BY DEF IInv, FormsTyped, SaveFolder, Handles, BoundsOK
<1>2. /\ sources' \in [Sources -> SourceRows]
      /\ SourcesKept
      /\ \A x \in Live(sources) : SourceUsed(x) => x \in Live(sources')
  <2>1. CASE form[n].on = Nobody
    <3>1. PICK s \in Unused(sources) :
            sources' = [sources EXCEPT ![s] = [state |-> "live", place |-> form[n].place]]
      BY <2>1, IdsAreIds DEF SaveFolder, Live, IInv, StoreOK
    <3>2. form[n].place \in Places \union {Nobody}
      BY <1>1 DEF FormRows
    <3>3. QED
      BY <3>1, <3>2, SourceMade
  <2>2. CASE form[n].on \in Live(sources) /\ sources' = [sources EXCEPT ![form[n].on].place = form[n].place]
    <3>1. PICK s \in Sources : s = form[n].on
      BY <2>2 DEF Live, IInv, StoreOK
    <3>2. [sources[s] EXCEPT !.place = form[n].place] \in SourceRows
          /\ [sources[s] EXCEPT !.place = form[n].place].state = sources[s].state
      BY <1>1, <3>1 DEF IInv, StoreOK, FormRows, SourceRows
    <3>3. \A x \in Sources : sources'[x] = IF x = s THEN [sources[s] EXCEPT !.place = form[n].place] ELSE sources[x]
      BY <2>2, <3>1 DEF IInv, StoreOK
    <3>4. sources' \in [Sources -> SourceRows]
      BY <2>2, <3>1, <3>2 DEF IInv, StoreOK
    <3>5. QED
      BY <3>2, <3>3, <3>4 DEF IInv, StoreOK, SourcesKept, Made, Live
  <2>3. QED
    BY <2>1, <2>2 DEF SaveFolder
<1>3. StoreOK' /\ SlotOK' /\ SnapsOK' /\ ForgotOK' /\ References' /\ ForgetTakesAll' /\ JobsKept
  BY <1>1, <1>2, SourcesChange
<1>4. FormsTyped' /\ FormsOK'
  BY <1>1, <1>2, <1>3, PhaseForm DEF IInv, Phases
<1>5. QED
  BY <1>1, <1>3, <1>4 DEF IInv

\* A source is deleted only when no job uses it.
LEMMA RemoveSourceInv ==
    ASSUME IInv, NEW n \in Forms, RemoveSource(n)
    PROVE  IInv'
<1>1. form[n].kind = "remove source" /\ Phase(n, "ok") /\ UNCHANGED <<repos, jobs, work>> /\ BoundsOK'
  BY DEF IInv, RemoveSource, Handles, BoundsOK
<1>2. SourcesKept
  BY SourceDropped DEF RemoveSource
<1>3. StoreOK' /\ SlotOK' /\ SnapsOK' /\ ForgotOK' /\ References' /\ ForgetTakesAll' /\ JobsKept
  BY <1>1, SourceDropped, SourcesChange DEF RemoveSource
<1>4. FormsTyped' /\ FormsOK'
  BY <1>1, <1>2, <1>3, PhaseForm DEF IInv, Phases
<1>5. QED
  BY <1>1, <1>3, <1>4 DEF IInv

\* A source made for a one-step backup exists and is remembered by it.
LEMMA MakeSourceInv ==
    ASSUME IInv, NEW n \in Forms, MakeSource(n)
    PROVE  IInv'
<1>1. form[n] \in FormRows /\ FormOK(form[n]) /\ form[n].kind = "quick"
      /\ form[n].made = Nobody /\ UNCHANGED <<repos, jobs, work, opened>> /\ BoundsOK'
  <2>1. form[n] \in FormRows /\ FormOK(form[n]) /\ form[n].kind = "quick" /\ form[n].phase = "make"
    <3>1. form[n].kind = "quick" /\ form[n].phase = "make"
      BY DEF MakeSource, Handles
    <3>2. QED
      BY <3>1 DEF IInv, FormsTyped, FormsOK
  <2>2. UNCHANGED <<repos, jobs, work, opened>> /\ faults' \in 0..MaxFaults
    <3>1. /\ UNCHANGED <<repos, jobs, work, opened>>
          /\ UNCHANGED faults \/ (faults < MaxFaults /\ faults' = faults + 1)
      BY Zenon DEF MakeSource
    <3>2. faults \in 0..MaxFaults
      BY DEF IInv, BoundsOK
    <3>3. QED
      BY <3>1, <3>2, BoundsAreNat
  <2>3. QED
    BY <2>1, <2>2 DEF IInv, FormOK, BoundsOK
<1>2. CASE UNCHANGED <<sources, faults>> /\ Phase(n, "refused")
  BY <1>1, <1>2, OnlyPhase DEF Phases, Resolved, store
<1>3. ASSUME NEW s \in Unused(sources),
             sources' = [sources EXCEPT ![s] = [state |-> "live", place |-> form[n].place]],
             \/ form' = [form EXCEPT ![n].job.source = s, ![n].made = s, ![n].phase = "placed"]
             \/ Phase(n, "refused")
      PROVE  IInv'
  <2>1. s \in Sources
    BY DEF Unused, IInv, StoreOK
  <2>2. /\ sources' \in [Sources -> SourceRows]
        /\ SourcesKept /\ Made(s)'
        /\ \A x \in Live(sources) : SourceUsed(x) => x \in Live(sources')
    <3>1. form[n].place \in Places \union {Nobody}
      BY <1>1 DEF FormRows
    <3>2. QED
      BY <1>3, <3>1, SourceMade
  <2>3. StoreOK' /\ SlotOK' /\ SnapsOK' /\ ForgotOK' /\ References' /\ ForgetTakesAll' /\ JobsKept
    BY <1>1, <2>2, SourcesChange
  <2>4. CASE Phase(n, "refused")
    <3>1. FormsTyped' /\ FormsOK'
      BY <1>1, <2>2, <2>3, <2>4, PhaseForm DEF IInv, Phases, Resolved
    <3>2. QED
      BY <1>1, <2>3, <3>1 DEF IInv
  <2>5. CASE form' = [form EXCEPT ![n].job.source = s, ![n].made = s, ![n].phase = "placed"]
    <3>1. PICK row : row = [form[n].job EXCEPT !.source = s]
      OBVIOUS
    <3>2. row \in JobRows
      BY <1>1, <2>1, <3>1 DEF FormRows, JobRows
    <3>3. PICK g : g = [form[n] EXCEPT !.job = row, !.made = s, !.phase = "placed"]
      OBVIOUS
    <3>4. form' = [form EXCEPT ![n] = g]
      BY <1>1, <2>5, <3>1, <3>3 DEF FormRows
    <3>5. g \in FormRows /\ g.kind = "quick" /\ g.phase = "placed" /\ g.made = s
      BY <1>1, <2>1, <3>2, <3>3 DEF FormRows, Phases
    <3>6. FormOK(g)'
      BY <2>2, <3>5 DEF FormOK, Resolved
    <3>7. FormsTyped' /\ FormsOK'
      BY <2>2, <2>3, <3>4, <3>5, <3>6, OneForm DEF IInv
    <3>8. QED
      BY <1>1, <2>3, <3>7 DEF IInv
  <2>6. QED
    BY <1>3, <2>4, <2>5
<1>4. QED
  BY <1>2, <1>3 DEF MakeSource

\* The undo deletes what the form has made, unless a job uses it.
LEMMA UndoInv ==
    ASSUME IInv, NEW n \in Forms, Undo(n)
    PROVE  IInv'
<1>1. Phase(n, "refused") /\ UNCHANGED <<repos, jobs, work>> /\ BoundsOK'
  BY BoundsAreNat DEF IInv, Undo, BoundsOK
<1>2. CASE UNCHANGED sources
  <2>1. StoreOK' /\ SlotOK' /\ SnapsOK' /\ ForgotOK' /\ References' /\ ForgetTakesAll' /\ JobsKept /\ SourcesKept
    BY <1>1, <1>2, StoreKept DEF store
  <2>2. FormsTyped' /\ FormsOK'
    BY <1>1, <2>1, PhaseForm DEF IInv, Phases
  <2>3. QED
    BY <1>1, <2>1, <2>2 DEF IInv
<1>3. CASE MayDropSource(form[n].made) /\ sources' = [sources EXCEPT ![form[n].made].state = "deleted"]
  <2>1. SourcesKept
    BY <1>3, SourceDropped
  <2>2. StoreOK' /\ SlotOK' /\ SnapsOK' /\ ForgotOK' /\ References' /\ ForgetTakesAll' /\ JobsKept
    BY <1>1, <1>3, SourceDropped, SourcesChange
  <2>3. FormsTyped' /\ FormsOK'
    BY <1>1, <2>1, <2>2, PhaseForm DEF IInv, Phases
  <2>4. QED
    BY <1>1, <2>2, <2>3 DEF IInv
<1>4. QED
  BY <1>2, <1>3 DEF Undo

\* Repositories may change, if none loses its password and no live job's is dropped.
LEMMA ReposChange ==
    ASSUME IInv, UNCHANGED <<sources, jobs, work>>, repos' \in [Repositories -> RepoRows],
           \A r \in Live(repos') : repos'[r].password # Blank,
           \A r \in Live(repos) : RepoUsed(r) => r \in Live(repos')
    PROVE  /\ StoreOK' /\ SlotOK' /\ SnapsOK' /\ ForgotOK' /\ References' /\ ForgetTakesAll'
           /\ JobsKept /\ SourcesKept
<1>1. JobsKept /\ SourcesKept
  BY KeptWhenUnchanged DEF work, past
<1>2. StoreOK' /\ SlotOK' /\ SnapsOK' /\ ForgotOK'
  BY DEF IInv, StoreOK, SlotOK, SnapsOK, ForgotOK, Known, Owns, work, past
<1>3. References'
  BY DEF IInv, References, RefsLive, RepoUsed, Live
<1>4. ForgetTakesAll'
  BY DEF IInv, ForgetTakesAll, work, past
<1>5. QED
  BY <1>1, <1>2, <1>3, <1>4

\* One row changes and stays live, or is new.
LEMMA RepoWritten ==
    ASSUME IInv, NEW r \in Repositories, NEW row \in RepoRows, row.password # Blank,
           row.state = "live", repos' = [repos EXCEPT ![r] = row]
    PROVE  /\ repos' \in [Repositories -> RepoRows]
           /\ \A x \in Live(repos') : repos'[x].password # Blank
           /\ \A x \in Live(repos) : x \in Live(repos')
<1>1. \A x \in Repositories : repos'[x] = IF x = r THEN row ELSE repos[x]
  BY DEF IInv, StoreOK
<1>2. repos' \in [Repositories -> RepoRows]
  BY DEF IInv, StoreOK
<1>3. QED
  BY <1>1, <1>2 DEF IInv, StoreOK, Live

\* A handler that writes a repository and answers.
LEMMA RepoStep1 ==
    ASSUME IInv, NEW n \in Forms, NEW r \in Repositories, NEW row \in RepoRows,
           row.password # Blank, row.state = "live", repos' = [repos EXCEPT ![r] = row],
           Phase(n, "ok"), form[n].kind # "quick", UNCHANGED <<sources, jobs, work, opened, faults>>
    PROVE  IInv'
<1>1. /\ StoreOK' /\ SlotOK' /\ SnapsOK' /\ ForgotOK' /\ References' /\ ForgetTakesAll'
      /\ JobsKept /\ SourcesKept
  BY RepoWritten, ReposChange
<1>2. FormsTyped' /\ FormsOK'
  BY <1>1, PhaseForm DEF IInv, Phases
<1>3. QED
  BY <1>1, <1>2 DEF IInv, BoundsOK

\* A repository is stored with a password.
LEMMA CreateRepositoryInv ==
    ASSUME IInv, NEW n \in Forms, CreateRepository(n)
    PROVE  IInv'
<1>1. form[n] \in FormRows /\ form[n].kind = "repository" /\ form[n].password # Blank
  BY DEF IInv, FormsTyped, CreateRepository, Handles
<1>2. PICK r \in Repositories :
        repos' = [repos EXCEPT ![r] = [NoRepo EXCEPT !.state = "live", !.password = form[n].password]]
  BY DEF CreateRepository, Unused, IInv, StoreOK
<1>3. PICK row : row = [NoRepo EXCEPT !.state = "live", !.password = form[n].password]
  OBVIOUS
<1>4. row \in RepoRows /\ row.state = "live" /\ row.password # Blank
  BY <1>1, <1>3, RowTypes DEF RepoRows, States, FormRows
<1>5. QED
  BY <1>1, <1>2, <1>3, <1>4, RepoStep1 DEF CreateRepository

\* An edit leaves a repository with a password: the typed one or the stored one.
LEMMA EditRepositoryInv ==
    ASSUME IInv, NEW n \in Forms, EditRepository(n)
    PROVE  IInv'
<1>1. /\ form[n] \in FormRows /\ form[n].kind = "repository" /\ form[n].read.password # Blank
      /\ form[n].on \in Repositories /\ repos[form[n].on] \in RepoRows
      /\ repos[form[n].on].state = "live"
  BY DEF IInv, FormsTyped, FormsOK, FormOK, Resolved, StoreOK, EditRepository, Handles, Live
<1>2. PICK row : row = Edited(repos[form[n].on], form[n])
  OBVIOUS
<1>3. PICK w : w = IF form[n].password = Blank THEN form[n].read.password ELSE form[n].password
  OBVIOUS
<1>4. w \in Passwords \union {Blank} /\ w # Blank
  BY <1>1, <1>3 DEF FormRows, RepoRows
<1>5. row = [repos[form[n].on] EXCEPT !.password = w]
  BY <1>2, <1>3 DEF Edited
<1>6. row \in RepoRows /\ row.state = "live" /\ row.password # Blank
  BY <1>1, <1>4, <1>5 DEF RepoRows
<1>7. repos' = [repos EXCEPT ![form[n].on] = row]
  BY <1>2 DEF EditRepository
<1>8. QED
  BY <1>1, <1>6, <1>7, RepoStep1 DEF EditRepository

\* A setter leaves everything else of its repository as it was.
LEMMA SetSettingInv ==
    ASSUME IInv, NEW n \in Forms, SetSetting(n)
    PROVE  IInv'
<1>1. /\ form[n] \in FormRows /\ form[n].kind # "quick" /\ form[n].on \in Repositories
      /\ repos[form[n].on] \in RepoRows /\ repos[form[n].on].state = "live"
      /\ repos[form[n].on].password # Blank
  BY DEF IInv, FormsTyped, StoreOK, SetSetting, Handles, Live
<1>2. PICK row : /\ row \in {[repos[form[n].on] EXCEPT !.check = form[n].value],
                             [repos[form[n].on] EXCEPT !.limit = form[n].value]}
                 /\ repos' = [repos EXCEPT ![form[n].on] = row]
  BY DEF SetSetting
<1>3. row \in RepoRows /\ row.state = "live" /\ row.password # Blank
  BY <1>1, <1>2 DEF RepoRows, FormRows
<1>4. QED
  BY <1>1, <1>2, <1>3, RepoStep1 DEF SetSetting

\* A repository is deleted only when no job uses it.
LEMMA RemoveRepositoryInv ==
    ASSUME IInv, NEW n \in Forms, RemoveRepository(n)
    PROVE  IInv'
<1>1. /\ form[n].on \in Repositories /\ ~RepoUsed(form[n].on) /\ repos[form[n].on] \in RepoRows
      /\ form[n].kind # "quick" /\ Phase(n, "ok")
      /\ UNCHANGED <<sources, jobs, work, opened, faults>>
  BY DEF IInv, StoreOK, RemoveRepository, MayDropRepo, Handles, Live
<1>2. PICK row : row = [repos[form[n].on] EXCEPT !.state = "deleted"]
  OBVIOUS
<1>3. row \in RepoRows /\ row.state = "deleted"
  BY <1>1, <1>2 DEF RepoRows, States
<1>4. repos' = [repos EXCEPT ![form[n].on] = row]
  BY <1>2 DEF RemoveRepository
<1>5. \A x \in Repositories : repos'[x] = IF x = form[n].on THEN row ELSE repos[x]
  BY <1>1, <1>4 DEF IInv, StoreOK
<1>6. repos' \in [Repositories -> RepoRows]
  BY <1>1, <1>3, <1>4 DEF IInv, StoreOK
<1>7. /\ \A x \in Live(repos') : repos'[x].password # Blank
      /\ \A x \in Live(repos) : RepoUsed(x) => x \in Live(repos')
  BY <1>1, <1>3, <1>5, <1>6 DEF IInv, StoreOK, Live
<1>8. /\ StoreOK' /\ SlotOK' /\ SnapsOK' /\ ForgotOK' /\ References' /\ ForgetTakesAll'
      /\ JobsKept /\ SourcesKept
  BY <1>1, <1>6, <1>7, ReposChange
<1>9. FormsTyped' /\ FormsOK'
  BY <1>1, <1>8, PhaseForm DEF IInv, Phases
<1>10. QED
  BY <1>1, <1>8, <1>9 DEF IInv, BoundsOK

-----------------------------------------------------------------------------
(* Steps on jobs.                                                           *)

\* Jobs may change, if they stay known, those that were deleted stay as they are
\* and the live ones have what they refer to.
LEMMA JobsChange ==
    ASSUME IInv, UNCHANGED <<sources, repos, slot, snaps, late, forgot>>, JobsKept,
           moved \subseteq moved', moved' \subseteq Jobs, jobs' \in [Jobs -> JobRows],
           \A j \in Jobs : Known(j)' => jobs'[j].repo \in Repositories,
           \A j \in Jobs : jobs[j].state = "deleted" => jobs'[j].state = "deleted",
           \A j \in Live(jobs') : jobs'[j].source \in Live(sources) /\ jobs'[j].repo \in Live(repos)
    PROVE  StoreOK' /\ SlotOK' /\ SnapsOK' /\ ForgotOK' /\ References' /\ ForgetTakesAll' /\ SourcesKept
<1>1. SourcesKept
  BY KeptWhenUnchanged
<1>2. StoreOK'
  BY DEF IInv, StoreOK, Live
<1>3. SlotOK'
  BY DEF IInv, SlotOK, JobsKept
<1>4. SnapsOK'
  BY DEF IInv, SnapsOK, JobsKept
<1>5. ForgotOK'
  BY DEF IInv, ForgotOK
<1>6. References'
  BY DEF References, RefsLive, Live
<1>7. ForgetTakesAll'
  BY DEF IInv, ForgetTakesAll
<1>8. QED
  BY <1>1, <1>2, <1>3, <1>4, <1>5, <1>6, <1>7

\* A job that was unused becomes live.
LEMMA JobMade ==
    ASSUME IInv, NEW row \in JobRows, row.state = "live", NEW j \in Jobs, jobs[j].state = "unused",
           row.source \in Live(sources), row.repo \in Live(repos),
           jobs' = [jobs EXCEPT ![j] = row], UNCHANGED <<sources, repos, work>>
    PROVE  /\ StoreOK' /\ SlotOK' /\ SnapsOK' /\ ForgotOK' /\ References' /\ ForgetTakesAll'
           /\ JobsKept /\ SourcesKept /\ Known(j)'
<1>1. jobs' \in [Jobs -> JobRows] /\ \A x \in Jobs : jobs'[x] = IF x = j THEN row ELSE jobs[x]
  BY DEF IInv, StoreOK
<1>2. JobsKept /\ Known(j)'
  BY <1>1 DEF JobsKept, Known, Owns, work, past
<1>3. /\ \A x \in Jobs : Known(x)' => jobs'[x].repo \in Repositories
      /\ \A x \in Jobs : jobs[x].state = "deleted" => jobs'[x].state = "deleted"
  BY <1>1 DEF IInv, StoreOK, Known, Live
<1>4. \A x \in Live(jobs') : jobs'[x].source \in Live(sources) /\ jobs'[x].repo \in Live(repos)
  BY <1>1 DEF IInv, StoreOK, References, RefsLive, Live
<1>5. UNCHANGED <<slot, snaps, late, forgot, moved>> /\ moved \subseteq Jobs
  BY DEF work, past, IInv, SnapsOK
<1>6. QED
  BY <1>1, <1>2, <1>3, <1>4, <1>5, JobsChange

\* A job is stored, and its form gets its id.
LEMMA InsertJobInv ==
    ASSUME IInv, NEW n \in Forms, InsertJob(n), form[n].kind \in {"job", "quick"}
    PROVE  IInv'
<1>1. /\ form[n] \in FormRows /\ FormOK(form[n])
      /\ form[n].job.source \in Live(sources) /\ form[n].job.repo \in Live(repos)
      /\ UNCHANGED <<sources, repos, work, opened, faults>>
  BY DEF IInv, FormsTyped, FormsOK, InsertJob, RefsLive
<1>2. PICK j \in Jobs : /\ jobs[j].state = "unused"
                        /\ jobs' = [jobs EXCEPT ![j] = [form[n].job EXCEPT !.state = "live"]]
                        /\ form' = [form EXCEPT ![n].on = j, ![n].phase = "ok"]
  BY DEF InsertJob, Unused, IInv, StoreOK
<1>3. PICK row : row = [form[n].job EXCEPT !.state = "live"]
  OBVIOUS
<1>4. /\ row \in JobRows /\ row.state = "live"
      /\ row.source = form[n].job.source /\ row.repo = form[n].job.repo
  BY <1>1, <1>3 DEF FormRows, JobRows, States
<1>5. /\ StoreOK' /\ SlotOK' /\ SnapsOK' /\ ForgotOK' /\ References' /\ ForgetTakesAll'
      /\ JobsKept /\ SourcesKept /\ Known(j)'
  BY <1>1, <1>2, <1>3, <1>4, JobMade
<1>6. PICK g : g = [form[n] EXCEPT !.on = j, !.phase = "ok"]
  OBVIOUS
<1>7. form' = [form EXCEPT ![n] = g]
  BY <1>2, <1>6
<1>8. /\ g \in FormRows /\ g.kind = form[n].kind /\ g.on = j /\ g.phase = "ok"
      /\ g.made = form[n].made
  BY <1>1, <1>6 DEF FormRows, Phases, Targets
<1>9. FormOK(g)'
  <2>1. g.made # Nobody => Made(g.made)'
    BY <1>1, <1>5, <1>8 DEF FormOK, SourcesKept
  <2>2. QED
    BY <1>5, <1>8, <2>1 DEF FormOK, Resolved
<1>10. FormsTyped' /\ FormsOK'
  BY <1>5, <1>7, <1>8, <1>9, OneForm DEF IInv
<1>11. QED
  BY <1>1, <1>5, <1>10 DEF IInv, BoundsOK

\* A job is stored only with references that exist at that moment.
LEMMA SaveJobInv ==
    ASSUME IInv, NEW n \in Forms, SaveJob(n)
    PROVE  IInv'
<1>1. /\ form[n] \in FormRows /\ form[n].kind = "save" /\ form[n].on \in Live(jobs)
      /\ Known(form[n].on) /\ form[n].job.state = "live"
      /\ form[n].job.source \in Live(sources) /\ form[n].job.repo \in Live(repos)
      /\ jobs' = [jobs EXCEPT ![form[n].on] = form[n].job]
      /\ moved' = IF form[n].job.repo = jobs[form[n].on].repo THEN moved ELSE moved \union {form[n].on}
      /\ Phase(n, "ok") /\ UNCHANGED <<sources, repos, slot, snaps, late, forgot, opened, faults>>
  BY DEF IInv, FormsTyped, FormsOK, FormOK, Resolved, SaveJob, Handles, RefsLive
<1>2. PICK j \in Jobs : j = form[n].on
  BY <1>1 DEF Known
<1>3. form[n].job \in JobRows
  BY <1>1 DEF FormRows
<1>4. jobs' \in [Jobs -> JobRows] /\ \A x \in Jobs : jobs'[x] = IF x = j THEN form[n].job ELSE jobs[x]
  BY <1>1, <1>2, <1>3 DEF IInv, StoreOK
<1>5. JobsKept
  BY <1>1, <1>2, <1>4 DEF JobsKept, Known, Owns
<1>6. /\ \A x \in Jobs : Known(x)' => jobs'[x].repo \in Repositories
      /\ \A x \in Jobs : jobs[x].state = "deleted" => jobs'[x].state = "deleted"
  BY <1>1, <1>2, <1>4 DEF IInv, StoreOK, Known, Live
<1>7. \A x \in Live(jobs') : jobs'[x].source \in Live(sources) /\ jobs'[x].repo \in Live(repos)
  BY <1>1, <1>4 DEF IInv, StoreOK, References, RefsLive, Live
<1>11. moved \subseteq moved' /\ moved' \subseteq Jobs
  BY <1>1, <1>2 DEF IInv, SnapsOK
<1>8. StoreOK' /\ SlotOK' /\ SnapsOK' /\ ForgotOK' /\ References' /\ ForgetTakesAll' /\ SourcesKept
  BY <1>1, <1>4, <1>5, <1>6, <1>7, <1>11, JobsChange
<1>9. FormsTyped' /\ FormsOK'
  BY <1>1, <1>5, <1>8, PhaseForm DEF IInv, Phases
<1>10. QED
  BY <1>1, <1>8, <1>9 DEF IInv, BoundsOK

\* Deleting a job leaves no reference to it.
LEMMA RemoveJobInv ==
    ASSUME IInv, NEW n \in Forms, RemoveJob(n)
    PROVE  IInv'
<1>1. /\ form[n].on \in Live(jobs) /\ jobs' = [jobs EXCEPT ![form[n].on].state = "deleted"]
      /\ form[n].kind = "remove job" /\ Phase(n, "ok") /\ UNCHANGED <<sources, repos, work, opened, faults>>
  BY DEF RemoveJob, Handles
<1>2. PICK j \in Jobs : j = form[n].on /\ jobs[j].state = "live" /\ jobs[j] \in JobRows
  BY <1>1 DEF Live, IInv, StoreOK
<1>3. PICK row : row = [jobs[j] EXCEPT !.state = "deleted"]
  OBVIOUS
<1>4. row \in JobRows /\ row.state = "deleted" /\ row.repo = jobs[j].repo
  BY <1>2, <1>3 DEF JobRows, States
<1>5. jobs' \in [Jobs -> JobRows] /\ \A x \in Jobs : jobs'[x] = IF x = j THEN row ELSE jobs[x]
  BY <1>1, <1>2, <1>3, <1>4 DEF IInv, StoreOK
<1>6. JobsKept
  BY <1>1, <1>4, <1>5 DEF JobsKept, Known, Owns, work, past
<1>7. /\ \A x \in Jobs : Known(x)' => jobs'[x].repo \in Repositories
      /\ \A x \in Jobs : jobs[x].state = "deleted" => jobs'[x].state = "deleted"
  BY <1>2, <1>4, <1>5 DEF IInv, StoreOK, Known
<1>8. \A x \in Live(jobs') : jobs'[x].source \in Live(sources) /\ jobs'[x].repo \in Live(repos)
  BY <1>4, <1>5 DEF IInv, StoreOK, References, RefsLive, Live
<1>12. UNCHANGED <<slot, snaps, late, forgot, moved>> /\ moved \subseteq Jobs
  BY <1>1 DEF work, past, IInv, SnapsOK
<1>9. StoreOK' /\ SlotOK' /\ SnapsOK' /\ ForgotOK' /\ References' /\ ForgetTakesAll' /\ SourcesKept
  BY <1>1, <1>5, <1>6, <1>7, <1>8, <1>12, JobsChange
<1>10. FormsTyped' /\ FormsOK'
  BY <1>1, <1>6, <1>9, PhaseForm DEF IInv, Phases
<1>11. QED
  BY <1>1, <1>9, <1>10 DEF IInv, BoundsOK

\* A job that is stored though its statement failed leaves its form without it.
LEMMA InsertUnheardInv ==
    ASSUME IInv, NEW n \in Forms, InsertUnheard(n), Handles(n, "quick", "placed")
    PROVE  IInv'
<1>1. /\ form[n] \in FormRows /\ form[n].kind = "quick"
      /\ form[n].job.source \in Live(sources) /\ form[n].job.repo \in Live(repos)
      /\ UNCHANGED <<sources, repos, work>> /\ BoundsOK'
  BY BoundsAreNat DEF IInv, FormsTyped, BoundsOK, InsertUnheard, RefsLive, Handles
<1>2. PICK j \in Jobs : /\ jobs[j].state = "unused"
                        /\ jobs' = [jobs EXCEPT ![j] = [form[n].job EXCEPT !.state = "live"]]
  BY DEF InsertUnheard, Unused, IInv, StoreOK
<1>3. PICK row : row = [form[n].job EXCEPT !.state = "live"]
  OBVIOUS
<1>4. /\ row \in JobRows /\ row.state = "live"
      /\ row.source = form[n].job.source /\ row.repo = form[n].job.repo
  BY <1>1, <1>3 DEF FormRows, JobRows, States
<1>5. /\ StoreOK' /\ SlotOK' /\ SnapsOK' /\ ForgotOK' /\ References' /\ ForgetTakesAll'
      /\ JobsKept /\ SourcesKept
  BY <1>1, <1>2, <1>3, <1>4, JobMade
<1>6. PICK p \in {"refused", "undo"} : Phase(n, p)
  BY DEF InsertUnheard, AfterQuickRefused
<1>7. FormsTyped' /\ FormsOK'
  BY <1>1, <1>5, <1>6, PhaseForm DEF IInv, Phases, Resolved
<1>8. QED
  BY <1>1, <1>5, <1>7 DEF IInv

\* The job of a one-step backup is stored with the source that was placed, or refused.
LEMMA QuickJobInv ==
    ASSUME IInv, NEW n \in Forms, QuickJob(n)
    PROVE  IInv'
<1>1. CASE InsertJob(n)
  BY <1>1, InsertJobInv DEF QuickJob, Handles
<1>0. CASE InsertUnheard(n)
  BY <1>0, InsertUnheardInv DEF QuickJob
<1>2. CASE Phase(n, AfterQuickRefused(form[n])) /\ UNCHANGED <<store, work, opened, faults>>
  <2>1. PICK p \in {"refused", "undo"} : Phase(n, p)
    BY <1>2 DEF AfterQuickRefused
  <2>2. form[n].kind = "quick"
    BY DEF QuickJob, Handles
  <2>3. QED
    BY <1>2, <2>1, <2>2, OnlyPhase DEF Phases
<1>3. QED
  BY <1>0, <1>1, <1>2 DEF QuickJob

-----------------------------------------------------------------------------
(* Runs.                                                                    *)

\* A run takes the slot of its job's repository.
LEMMA BeginInv ==
    ASSUME IInv, NEW n \in Forms, NEW r \in Repositories,
           NEW kind \in {"backup", "forget", "reset"}, NEW j \in Jobs \union {Nobody},
           Begin(n, r, [kind |-> kind, job |-> j]), form[n].kind # "quick",
           kind # "reset" => j # Nobody,
           j # Nobody => Known(j) /\ Owns(r, j),
           late' \subseteq Jobs, late \subseteq late',
           kind = "backup" /\ jobs[j].state = "deleted" => j \in late'
    PROVE  IInv'
<1>1. UNCHANGED <<store, snaps, moved, forgot, opened, faults>> /\ Phase(n, "ok")
      /\ slot' = [slot EXCEPT ![r] = [kind |-> kind, job |-> j]]
  BY DEF Begin
<1>2. \A x \in Repositories : slot'[x] = IF x = r THEN [kind |-> kind, job |-> j] ELSE slot[x]
  BY <1>1 DEF IInv, SlotOK
<1>3. JobsKept /\ SourcesKept
  BY <1>1, KeptWhenUnchanged DEF store
<1>4. StoreOK' /\ References'
  BY <1>1 DEF IInv, StoreOK, References, RefsLive, Known, Live, store
<1>5. SlotOK'
  <2>1. slot' \in [Repositories -> [kind : {"none", "backup", "forget", "forgotten", "reset"},
                                    job : Jobs \union {Nobody}]]
    BY <1>1 DEF IInv, SlotOK
  <2>2. ASSUME NEW x \in Repositories
        PROVE  /\ slot'[x].job # Nobody => Known(slot'[x].job) /\ Owns(x, slot'[x].job)
               /\ slot'[x].kind \in {"backup", "forget", "forgotten"} => slot'[x].job # Nobody
    BY <1>2 DEF IInv, SlotOK
  <2>3. QED
    BY <1>1, <2>1, <2>2 DEF SlotOK, Known, Owns, store
<1>6. SnapsOK'
  BY <1>1, <1>2 DEF IInv, SnapsOK, Known, Owns, store
<1>10. ForgotOK'
  <2>1. ASSUME NEW x \in Repositories, NEW y \in forgot,
               slot'[x].kind = "backup", slot'[x].job = y[2], y[2] \notin late'
        PROVE  x # y[1] /\ y[2] \in moved
    BY <1>2, <2>1 DEF IInv, ForgotOK
  <2>2. QED
    BY <1>1, <2>1 DEF IInv, ForgotOK, store
<1>7. ForgetTakesAll'
  BY <1>1 DEF IInv, ForgetTakesAll, store
<1>8. FormsTyped' /\ FormsOK'
  BY <1>1, <1>3, PhaseForm DEF IInv, Phases
<1>9. QED
  BY <1>1, <1>4, <1>5, <1>6, <1>7, <1>8, <1>10 DEF IInv, BoundsOK

\* A backup takes its job's own repository; a late one is remembered as such.
LEMMA StartBackupInv ==
    ASSUME IInv, NEW n \in Forms, StartBackup(n)
    PROVE  IInv'
<1>1. /\ form[n].kind = "run" /\ Known(form[n].on)
      /\ form[n].at \in Repositories /\ Owns(form[n].at, form[n].on)
  BY DEF IInv, FormsOK, FormOK, Resolved, StartBackup, Handles
<1>2. form[n].on # Nobody /\ form[n].on \in Jobs
  BY <1>1, IdsAreIds DEF Known
<1>3. /\ late' \subseteq Jobs /\ late \subseteq late'
      /\ jobs[form[n].on].state = "deleted" => form[n].on \in late'
  BY <1>2 DEF IInv, SnapsOK, StartBackup, Live
<1>4. PICK j \in Jobs : j = form[n].on
  BY <1>2
<1>5. Begin(n, form[n].at, [kind |-> "backup", job |-> j])
  BY <1>4 DEF StartBackup
<1>6. QED
  BY <1>1, <1>2, <1>3, <1>4, <1>5, BeginInv

\* A forget run takes its job's own repository.
LEMMA StartForgetJobInv ==
    ASSUME IInv, NEW n \in Forms, StartForgetJob(n)
    PROVE  IInv'
<1>1. /\ form[n].kind = "remove job" /\ Known(form[n].on)
      /\ form[n].at \in Repositories /\ Owns(form[n].at, form[n].on)
  BY DEF IInv, FormsOK, FormOK, Resolved, StartForgetJob, Handles
<1>2. PICK j \in Jobs : j = form[n].on /\ j # Nobody
  BY <1>1, IdsAreIds DEF Known
<1>3. Begin(n, form[n].at, [kind |-> "forget", job |-> j]) /\ UNCHANGED late
  BY <1>2 DEF StartForgetJob
<1>4. late \subseteq Jobs
  BY DEF IInv, SnapsOK
<1>5. QED
  BY <1>1, <1>2, <1>3, <1>4, BeginInv

\* A reset takes its repository.
LEMMA StartResetRepoInv ==
    ASSUME IInv, NEW n \in Forms, StartResetRepo(n)
    PROVE  IInv'
<1>1. form[n].kind = "reset" /\ UNCHANGED late
  BY DEF StartResetRepo, Handles
<1>2. PICK r \in Repositories : r = form[n].on /\ Begin(n, r, [kind |-> "reset", job |-> Nobody])
  BY DEF StartResetRepo, Live, IInv, StoreOK
<1>3. late \subseteq Jobs
  BY DEF IInv, SnapsOK
<1>4. QED
  BY <1>1, <1>2, <1>3, BeginInv

\* A step of runs leaves the forms, and jobs but for one that is deleted.
LEMMA FormsKept ==
    ASSUME IInv, UNCHANGED form, JobsKept, SourcesKept
    PROVE  FormsTyped' /\ FormsOK'
<1>1. FormsTyped'
  BY DEF IInv, FormsTyped
<1>2. ASSUME NEW m \in Forms PROVE FormOK(form[m])'
  <2>1. PICK f : f = form[m] /\ FormOK(f)
    BY DEF IInv, FormsOK
  <2>2. FormOK(f)'
    BY <2>1, FormKept
  <2>3. QED
    BY <2>1, <2>2 DEF FormOK, Resolved, Known, Owns, Made
<1>3. QED
  BY <1>1, <1>2 DEF FormsOK

\* Snapshots of job j on r break no promise of a run that deleted the job.
Allowed(r, j) == \A x \in forgot : x[2] = j /\ j \notin late => r # x[1] /\ j \in moved

\* A run gives up its slot, or goes on to the deletion of its job.
LEMMA SlotChange ==
    ASSUME IInv, UNCHANGED <<store, past, form, opened, faults>>, NEW r \in Repositories,
           slot' \in {[slot EXCEPT ![r] = Idle], [slot EXCEPT ![r].kind = "forgotten"]},
           snaps' \subseteq snaps \union {<<r, j>> : j \in {i \in Jobs : Known(i) /\ Owns(r, i) /\ Allowed(r, i)}},
           slot'[r].kind = "forgotten" => slot[r].kind = "forget" /\ <<r, slot[r].job>> \notin snaps',
           slot'[r].kind = "forgotten" => snaps' \subseteq snaps
    PROVE  IInv'
<1>1. JobsKept /\ SourcesKept
  BY KeptWhenUnchanged DEF store, past
<1>2. StoreOK' /\ References'
  BY DEF IInv, StoreOK, References, RefsLive, Known, Live, store
<1>3. slot'[r] = Idle \/ slot'[r] = [slot[r] EXCEPT !.kind = "forgotten"]
  BY DEF IInv, SlotOK
<1>4. /\ slot'[r].kind \in {"none", "forgotten"}
      /\ slot'[r].job \in {slot[r].job, Nobody}
      /\ slot'[r].kind = "forgotten" => slot'[r].job = slot[r].job
      /\ slot'[r] \in [kind : {"none", "backup", "forget", "forgotten", "reset"}, job : Jobs \union {Nobody}]
  BY <1>3 DEF IInv, SlotOK, Idle
<1>5. \A x \in Repositories : x # r => slot'[x] = slot[x]
  BY DEF IInv, SlotOK
<1>6. slot' \in [Repositories -> [kind : {"none", "backup", "forget", "forgotten", "reset"},
                                  job : Jobs \union {Nobody}]]
  BY <1>4 DEF IInv, SlotOK, Idle
<1>7. SlotOK'
  <2>1. ASSUME NEW x \in Repositories
        PROVE  /\ slot'[x].job # Nobody => Known(slot'[x].job) /\ Owns(x, slot'[x].job)
               /\ slot'[x].kind \in {"backup", "forget", "forgotten"} => slot'[x].job # Nobody
    BY <1>4, <1>5 DEF IInv, SlotOK
  <2>2. QED
    BY <1>6, <2>1 DEF SlotOK, Known, Owns, store, past
<1>8. SnapsOK'
  <2>1. snaps' \subseteq Repositories \X Jobs /\ late' \subseteq Jobs /\ moved' \subseteq Jobs
    BY DEF IInv, SnapsOK, past
  <2>2. \A x \in Repositories, j \in Jobs : <<x, j>> \in snaps' => Known(j) /\ Owns(x, j)
    BY DEF IInv, SnapsOK
  <2>3. \A x \in Repositories : slot'[x].kind = "forgotten" => <<x, slot'[x].job>> \notin snaps'
    BY <1>4, <1>5 DEF IInv, SnapsOK
  <2>4. QED
    BY <2>1, <2>2, <2>3 DEF SnapsOK, Known, Owns, store, past
<1>12. ForgotOK'
  <2>1. ASSUME NEW x \in Repositories, slot'[x].kind = "backup"
        PROVE  slot[x].kind = "backup" /\ slot'[x].job = slot[x].job
    BY <1>4, <1>5, <2>1
  <2>2. QED
    BY <2>1 DEF IInv, ForgotOK, store, past
<1>9. ForgetTakesAll'
  <2>1. ASSUME NEW x \in forgot, x[2] \notin late
        PROVE  x \notin snaps' /\ (x[2] \notin moved => \A q \in Repositories : <<q, x[2]>> \notin snaps')
    <3>1. x = <<x[1], x[2]>> /\ x[1] \in Repositories /\ x[2] \in Jobs
      BY DEF IInv, ForgotOK
    <3>2. x \notin snaps /\ (x[2] \notin moved => \A q \in Repositories : <<q, x[2]>> \notin snaps)
      BY <2>1 DEF IInv, ForgetTakesAll
    <3>3. \A q \in Repositories : <<q, x[2]>> \in snaps' /\ <<q, x[2]>> \notin snaps
             => q # x[1] /\ x[2] \in moved
      BY <2>1 DEF Allowed
    <3>4. QED
      BY <3>1, <3>2, <3>3
  <2>2. QED
    BY <2>1 DEF ForgetTakesAll, past
<1>10. FormsTyped' /\ FormsOK'
  BY <1>1, FormsKept
<1>11. QED
  BY <1>2, <1>7, <1>8, <1>9, <1>10, <1>12 DEF IInv, BoundsOK

\* A backup stores for its own job; a forget run leaves none of its job's snapshots.
LEMMA ResticSucceedsInv ==
    ASSUME IInv, NEW r \in Repositories, ResticSucceeds(r)
    PROVE  IInv'
<1>1. UNCHANGED <<store, past, form, opened, faults>>
  BY DEF ResticSucceeds
<1>2. slot \in [Repositories -> [kind : {"none", "backup", "forget", "forgotten", "reset"},
                                 job : Jobs \union {Nobody}]]
  BY DEF IInv, SlotOK
<1>3. CASE slot[r].kind = "backup" /\ snaps' = snaps \union {<<r, slot[r].job>>} /\ slot' = [slot EXCEPT ![r] = Idle]
  <2>1. /\ Known(slot[r].job) /\ Owns(r, slot[r].job) /\ slot[r].job \in Jobs
        /\ Allowed(r, slot[r].job)
    BY <1>3 DEF IInv, SlotOK, ForgotOK, Allowed, Known
  <2>2. slot'[r].kind = "none"
    BY <1>2, <1>3 DEF Idle
  <2>3. QED
    BY <1>1, <1>3, <2>1, <2>2, SlotChange
<1>4. CASE snaps' \subseteq snaps /\ slot' = [slot EXCEPT ![r] = Idle]
  <2>1. slot'[r].kind = "none"
    BY <1>2, <1>4 DEF Idle
  <2>2. QED
    BY <1>1, <1>4, <2>1, SlotChange
<1>5. CASE /\ slot[r].kind = "forget" /\ snaps' = snaps \ {<<r, slot[r].job>>}
           /\ slot' = [slot EXCEPT ![r].kind = "forgotten"]
  BY <1>1, <1>5, SlotChange
<1>6. QED
  BY <1>3, <1>4, <1>5 DEF ResticSucceeds

\* A failed run changes nothing but its slot.
LEMMA RunFailsInv ==
    ASSUME IInv, NEW r \in Repositories, RunFails(r)
    PROVE  IInv'
<1>1. slot'[r].kind = "none"
  BY DEF RunFails, IInv, SlotOK, Idle
<1>2. QED
  BY <1>1, SlotChange DEF RunFails

\* The run that forgot a job's snapshots deletes the job: the repository holds
\* none of them, and nothing else works for the job there, since it would need
\* the slot that this run has. Elsewhere a run works for it only if it was moved.
LEMMA EraseJobInv ==
    ASSUME IInv, NEW r \in Repositories, EraseJob(r)
    PROVE  IInv'
<1>1. /\ slot[r].kind = "forgotten" /\ slot' = [slot EXCEPT ![r] = Idle]
      /\ UNCHANGED <<sources, repos, snaps, late, moved, form, opened, faults>>
  BY DEF EraseJob
<1>2. PICK j \in Jobs : j = slot[r].job /\ Known(j) /\ Owns(r, j) /\ <<r, j>> \notin snaps
  BY <1>1 DEF IInv, SlotOK, SnapsOK, Known
<1>3. /\ jobs' = IF j \in Live(jobs) THEN [jobs EXCEPT ![j].state = "deleted"] ELSE jobs
      /\ forgot' = IF j \in Live(jobs) THEN forgot \union {<<r, j>>} ELSE forgot
  BY <1>2 DEF EraseJob
<1>4. /\ jobs' \in [Jobs -> JobRows]
      /\ jobs'[j].state = "deleted" /\ jobs'[j].repo = jobs[j].repo
      /\ \A x \in Jobs : x # j => jobs'[x] = jobs[x]
  <2>0. jobs \in [Jobs -> JobRows] /\ jobs[j] \in JobRows
    BY DEF IInv, StoreOK
  <2>1. CASE j \in Live(jobs)
    <3>1. PICK row : row = [jobs[j] EXCEPT !.state = "deleted"]
      OBVIOUS
    <3>2. row \in JobRows /\ row.state = "deleted" /\ row.repo = jobs[j].repo
      BY <2>0, <3>1 DEF JobRows, States
    <3>3. jobs' = [jobs EXCEPT ![j] = row]
      BY <1>3, <2>1, <3>1
    <3>4. QED
      BY <1>2, <2>0, <3>2, <3>3
  <2>2. CASE j \notin Live(jobs)
    BY <1>2, <1>3, <2>0, <2>2 DEF Live, Known, JobRows, States
  <2>3. QED
    BY <2>1, <2>2
<1>5. JobsKept /\ SourcesKept
  BY <1>1, <1>2, <1>4, KeptWhenUnchanged DEF JobsKept, Known, Owns
<1>6. \A x \in Repositories : slot'[x] = IF x = r THEN Idle ELSE slot[x]
  BY <1>1 DEF IInv, SlotOK
<1>7. \A x \in Live(jobs') : x # j /\ x \in Live(jobs)
  BY <1>4 DEF Live, IInv, StoreOK
<1>8. StoreOK'
  BY <1>1, <1>2, <1>4 DEF IInv, StoreOK, Known, Live
<1>9. References'
  BY <1>1, <1>4, <1>7 DEF IInv, References, RefsLive, Live
<1>10. SlotOK'
  <2>1. slot' \in [Repositories -> [kind : {"none", "backup", "forget", "forgotten", "reset"},
                                    job : Jobs \union {Nobody}]]
    BY <1>1 DEF IInv, SlotOK, Idle
  <2>2. ASSUME NEW x \in Repositories
        PROVE  /\ slot'[x].job # Nobody => Known(slot'[x].job) /\ Owns(x, slot'[x].job)
               /\ slot'[x].kind \in {"backup", "forget", "forgotten"} => slot'[x].job # Nobody
    <3>1. CASE x = r
      BY <1>6, <3>1 DEF Idle
    <3>2. CASE x # r
      BY <1>6, <3>2 DEF IInv, SlotOK
    <3>3. QED
      BY <3>1, <3>2
  <2>3. ASSUME NEW x \in Repositories, slot'[x].job # Nobody
        PROVE  Known(slot[x].job)' /\ slot'[x] = slot[x] /\ Owns(x, slot[x].job)'
    <3>1. slot'[x] = slot[x]
      BY <1>6, <2>3 DEF Idle
    <3>2. PICK i : i = slot[x].job
      OBVIOUS
    <3>3. Known(i) /\ Owns(x, i)
      BY <2>2, <2>3, <3>1, <3>2
    <3>4. Known(i)' /\ Owns(x, i)'
      BY <1>5, <3>3 DEF JobsKept
    <3>5. slot'[x].job = i
      BY <3>1, <3>2
    <3>6. QED
      BY <3>1, <3>2, <3>4, <3>5 DEF Known, Owns
  <2>4. QED
    BY <2>1, <2>2, <2>3 DEF SlotOK, Known, Owns
<1>11. SnapsOK'
  <2>1. \A x \in Repositories, i \in Jobs : <<x, i>> \in snaps => Known(i)' /\ Owns(x, i)'
    BY <1>5 DEF IInv, SnapsOK, JobsKept
  <2>2. ASSUME NEW x \in Repositories, slot'[x].kind = "forgotten"
        PROVE  <<x, slot'[x].job>> \notin snaps
    <3>1. slot'[x] = slot[x]
      BY <1>6, <2>2 DEF Idle
    <3>2. QED
      BY <2>2, <3>1 DEF IInv, SnapsOK
  <2>3. QED
    BY <1>1, <2>1, <2>2 DEF IInv, SnapsOK
<1>12. ForgotOK'
  <2>1. forgot' \subseteq forgot \union {<<r, j>>} /\ forgot' \subseteq Repositories \X Jobs
    BY <1>3 DEF IInv, ForgotOK
  <2>2. \A x \in forgot' : jobs'[x[2]].state = "deleted"
    BY <1>4, <2>1 DEF IInv, ForgotOK
  <2>3. ASSUME NEW x \in Repositories, NEW y \in forgot',
               slot'[x].kind = "backup", slot'[x].job = y[2], y[2] \notin late
        PROVE  x # y[1] /\ y[2] \in moved
    <3>1. x # r /\ slot'[x] = slot[x]
      BY <1>6, <2>3 DEF Idle
    <3>2. CASE y \in forgot
      BY <2>3, <3>1, <3>2 DEF IInv, ForgotOK
    <3>3. CASE y = <<r, j>>
      <4>1. Owns(x, j)
        BY <1>2, <2>3, <3>1, <3>3, IdsAreIds DEF IInv, SlotOK
      <4>2. QED
        BY <1>2, <3>1, <3>3, <4>1 DEF Owns
    <3>4. QED
      BY <2>1, <3>2, <3>3
  <2>4. QED
    BY <1>1, <2>1, <2>2, <2>3 DEF ForgotOK
<1>15. ForgetTakesAll'
  <2>1. <<r, j>> \notin snaps
    BY <1>2
  <2>2. j \notin moved => \A x \in Repositories : <<x, j>> \notin snaps
    <3>1. \A x \in Repositories : <<x, j>> \in snaps => Owns(x, j)
      BY DEF IInv, SnapsOK
    <3>2. QED
      BY <1>2, <3>1 DEF Owns
  <2>3. ASSUME NEW x \in forgot', x[2] \notin late
        PROVE  x \notin snaps /\ (x[2] \notin moved => \A q \in Repositories : <<q, x[2]>> \notin snaps)
    <3>1. CASE x \in forgot
      BY <2>3, <3>1 DEF IInv, ForgetTakesAll
    <3>2. CASE x = <<r, j>>
      BY <2>1, <2>2, <3>2
    <3>3. QED
      BY <1>3, <3>1, <3>2
  <2>4. QED
    BY <1>1, <2>3 DEF ForgetTakesAll
<1>13. FormsTyped' /\ FormsOK'
  BY <1>1, <1>5, FormsKept
<1>14. QED
  BY <1>1, <1>8, <1>9, <1>10, <1>11, <1>12, <1>13, <1>15 DEF IInv, BoundsOK

\* The server goes down: runs are gone and requests under way have failed.
LEMMA CrashInv ==
    ASSUME IInv, Crash
    PROVE  IInv'
<1>1. /\ UNCHANGED <<store, snaps, past, opened>>
      /\ slot' = [r \in Repositories |-> Idle]
  BY DEF Crash
<1>2. BoundsOK'
  BY BoundsAreNat DEF Crash, IInv, BoundsOK
<1>3. JobsKept /\ SourcesKept
  BY <1>1, KeptWhenUnchanged DEF store, past
<1>4. StoreOK' /\ References' /\ ForgetTakesAll'
  BY <1>1 DEF IInv, StoreOK, References, ForgetTakesAll, RefsLive, Known, Live, store, past
<1>5. SlotOK' /\ SnapsOK' /\ ForgotOK'
  BY <1>1 DEF IInv, SlotOK, SnapsOK, ForgotOK, Idle, Known, Owns, store, past
<1>6. ASSUME NEW n \in Forms
      PROVE  \E g \in FormRows : g = form'[n] /\ FormOK(g)
  <2>1. form[n] \in FormRows /\ FormOK(form[n])
    BY DEF IInv, FormsTyped, FormsOK
  <2>2. form'[n] = form[n] \/ form'[n] = Failed(form[n])
    BY DEF Crash
  <2>3. QED
    BY <2>1, <2>2, FailedForm
<1>7. FormsTyped'
  <2>1. form' = [n \in Forms |-> form'[n]]
    BY DEF Crash
  <2>2. QED
    BY <1>6, <2>1 DEF FormsTyped
<1>8. FormsOK'
  <2>1. ASSUME NEW n \in Forms PROVE FormOK(form[n])'
    <3>1. PICK g \in FormRows : g = form'[n] /\ FormOK(g)
      BY <1>6
    <3>2. FormOK(g)'
      BY <1>3, <3>1, FormKept
    <3>3. QED
      BY <3>1, <3>2 DEF FormOK, Resolved, Known, Owns, Made
  <2>2. QED
    BY <2>1 DEF FormsOK
<1>9. QED
  BY <1>2, <1>4, <1>5, <1>7, <1>8 DEF IInv

-----------------------------------------------------------------------------
(* The invariant.                                                           *)

\* Whatever the catalog holds at first, the invariant holds.
LEMMA InitInv ==
    ASSUME Init
    PROVE  IInv
<1>1. StoreOK
  <2>1. sources \in [Sources -> SourceRows]
    BY DEF Init, SourceRows, States
  <2>2. ASSUME NEW row \in {NoRepo} \union
                  [state : {"live"}, password : Passwords, check : {Off}, limit : {Off}]
        PROVE  row \in RepoRows /\ (row.state = "live" => row.password # Blank)
    BY RowTypes, ValuesDiffer DEF RepoRows, NoRepo, States, Setting
  <2>3. repos \in [Repositories -> RepoRows] /\ \A r \in Live(repos) : repos[r].password # Blank
    BY <2>2 DEF Init, Live
  <2>4. ASSUME NEW row \in {NoRow} \union
                  [state : {"live"}, source : Sources, repo : Repositories,
                   schedule : {Off}, retention : {Off}]
        PROVE  row \in JobRows /\ (row.state # "unused" => row.state = "live" /\ row.repo \in Repositories)
    BY RowTypes DEF JobRows, NoRow, States, Setting
  <2>5. jobs \in [Jobs -> JobRows]
        /\ \A j \in Jobs : Known(j) => jobs[j].state = "live" /\ jobs[j].repo \in Repositories
    BY <2>4 DEF Init, Known
  <2>6. QED
    BY <2>1, <2>3, <2>5 DEF StoreOK
<1>2. SlotOK
  BY DEF Init, SlotOK, Idle
<1>3. BoundsOK
  BY BoundsAreNat DEF Init, BoundsOK
<1>4. FormsTyped /\ FormsOK
  BY RowTypes DEF Init, FormsTyped, FormsOK
<1>5. /\ snaps \subseteq Repositories \X Live(jobs) /\ forgot = {}
      /\ moved = {j \in Jobs : \E r \in Repositories : <<r, j>> \in snaps /\ r # jobs[j].repo}
  BY DEF Init
<1>6. \A j \in Live(jobs) : j \in Jobs /\ Known(j) /\ jobs[j].repo \in Repositories
                            /\ jobs[j].state = "live"
  BY <1>1 DEF StoreOK, Live, Known
<1>7. SnapsOK /\ ForgotOK
  <2>1. snaps \subseteq Repositories \X Jobs /\ moved \subseteq Jobs
    BY <1>5, <1>6
  <2>2. \A r \in Repositories, j \in Jobs : <<r, j>> \in snaps => Known(j) /\ Owns(r, j)
    BY <1>5, <1>6 DEF Owns
  <2>3. late = {} /\ slot = [r \in Repositories |-> Idle]
    BY DEF Init
  <2>4. QED
    BY <1>5, <2>1, <2>2, <2>3 DEF SnapsOK, ForgotOK, Idle
<1>8. References
  BY DEF Init, References
<1>9. ForgetTakesAll
  BY <1>5 DEF ForgetTakesAll
<1>10. QED
  BY <1>1, <1>2, <1>3, <1>4, <1>7, <1>8, <1>9 DEF IInv

\* Every step keeps the invariant.
LEMMA NextInv ==
    ASSUME IInv, [Next]_vars
    PROVE  IInv'
<1>1. CASE UNCHANGED vars
  BY <1>1 DEF vars, store, work, past, IInv, StoreOK, SlotOK, BoundsOK, FormsTyped, FormsOK, SnapsOK, ForgotOK,
              References, ForgetTakesAll, RefsLive, FormOK, Resolved, Known, Owns, Made, Live
<1>2. ASSUME NEW n \in Forms, FormStep(n) PROVE IInv'
  BY <1>2, OpenInv, CancelInv, SubmitInv, AnsweredInv, AnswerLostInv, LookingInv DEF FormStep
<1>3. ASSUME NEW n \in Forms, SourceStep(n) PROVE IInv'
  BY <1>3, SaveFolderInv, LookingInv, RemoveSourceInv DEF SourceStep
<1>4. ASSUME NEW n \in Forms, RepoStep(n) PROVE IInv'
  BY <1>4, CreateRepositoryInv, ReadStoredInv, EditRepositoryInv, SetSettingInv,
     RemoveRepositoryInv DEF RepoStep
<1>5. ASSUME NEW n \in Forms, JobStep(n) PROVE IInv'
  BY <1>5, LookingInv, InsertJobInv, SaveJobInv, RemoveJobInv DEF JobStep, CreateJob, Handles
<1>6. ASSUME NEW n \in Forms, StartStep(n) PROVE IInv'
  BY <1>6, ResolveJobInv, StartBackupInv, StartForgetJobInv, StartResetRepoInv DEF StartStep
<1>7. ASSUME NEW n \in Forms, QuickStep(n) PROVE IInv'
  BY <1>7, FindSourceInv, MakeSourceInv, QuickJobInv, UndoInv DEF QuickStep
<1>8. ASSUME NEW r \in Repositories, RunStep(r) PROVE IInv'
  BY <1>8, ResticSucceedsInv, EraseJobInv, RunFailsInv DEF RunStep
<1>9. CASE Crash
  BY <1>9, CrashInv
<1>10. QED
  BY <1>1, <1>2, <1>3, <1>4, <1>5, <1>6, <1>7, <1>8, <1>9 DEF Next

\* The invariant holds in every state.
LEMMA Invariant == Spec => []IInv
<1>1. Init => IInv
  BY InitInv
<1>2. IInv /\ [Next]_vars => IInv'
  BY NextInv
<1>3. QED
  BY <1>1, <1>2, PTL DEF Spec

\* The catalog stays well typed: a run of a job that was never given another
\* repository is in the slot of the job's own, and every repository has a
\* password (RepoStore.Update, StartBackup, StartForgetJob).
THEOREM TypeCorrect == Spec => []TypeOK
<1>1. IInv => TypeOK
  BY DEF IInv, StoreOK, SlotOK, BoundsOK, FormsTyped, SnapsOK, ForgotOK, TypeOK
<1>2. QED
  BY <1>1, Invariant, PTL

\* A job that exists has its source and its repository, however many forms
\* create, edit and delete the three at once (ValidateJobRefs and the foreign
\* keys of jobs).
THEOREM ReferencesHold == Spec => []References
<1>1. IInv => References
  BY DEF IInv
<1>2. QED
  BY <1>1, Invariant, PTL

\* A job deleted together with its snapshots leaves none of them in the repository
\* on which the run worked, and none in any other if it always had the same; but
\* for those of a backup that got its slot when the job was already gone
\* (StartForgetJob, JobStore.Update).
THEOREM ForgetIsComplete == Spec => []ForgetTakesAll
<1>1. IInv => ForgetTakesAll
  BY DEF IInv
<1>2. QED
  BY <1>1, Invariant, PTL

-----------------------------------------------------------------------------
(* Steps: which of them end a request, and what they then have changed.     *)

\* A form is changed by its own requests, and by a crash.
LEMMA OwnStep ==
    ASSUME IInv, Next, NEW n \in Forms, form'[n] # form[n]
    PROVE  \/ FormStep(n) \/ SourceStep(n) \/ RepoStep(n) \/ JobStep(n) \/ StartStep(n) \/ QuickStep(n)
           \/ Crash
<1>1. form \in [Forms -> FormRows]
  BY DEF IInv, FormsTyped
<1>2. ASSUME NEW m \in Forms, m # n, FormStep(m) PROVE FALSE
  BY <1>1, <1>2 DEF FormStep, Open, Cancel, Submit, Answered, AnswerLost, Refused, Phase
<1>3. ASSUME NEW m \in Forms, m # n, SourceStep(m) \/ RepoStep(m) PROVE FALSE
  BY <1>1, <1>3 DEF SourceStep, SaveFolder, CheckUnused, RemoveSource, RepoStep, CreateRepository,
                    ReadStored, EditRepository, SetSetting, RemoveRepository, Phase
<1>4. ASSUME NEW m \in Forms, m # n, JobStep(m) \/ StartStep(m) PROVE FALSE
  BY <1>1, <1>4 DEF JobStep, CheckRefs, CreateJob, InsertJob, SaveJob, CheckIdle, RemoveJob,
                    StartStep, ResolveJob, StartBackup, StartForgetJob, StartResetRepo, Begin, Phase
<1>5. ASSUME NEW m \in Forms, m # n, QuickStep(m) PROVE FALSE
  BY <1>1, <1>5 DEF QuickStep, FindSource, MakeSource, QuickJob, InsertJob, InsertUnheard, Undo, Phase
<1>6. ASSUME NEW r \in Repositories, RunStep(r) PROVE FALSE
  BY <1>6 DEF RunStep, ResticSucceeds, EraseJob, RunFails
<1>7. QED
  BY <1>2, <1>3, <1>4, <1>5, <1>6 DEF Next

\* After a failure a form is closed or open again.
LEMMA FailedPhase ==
    ASSUME NEW f \in FormRows
    PROVE  Failed(f).phase \in {"closed", "open"}
BY DEF Failed, Closed, FormRows

\* A form that is closed, opened or sent again has neither been refused nor
\* been carried out.
LEMMA FormStepPhase ==
    ASSUME IInv, NEW n \in Forms, FormStep(n), form'[n].phase = "ok" \/ form'[n].phase = "refused"
    PROVE  Refused(n)
<1>1. form \in [Forms -> FormRows] /\ form[n] \in FormRows
  BY DEF IInv, FormsTyped
<1>2. CASE Open(n)
  <2>1. PICK f \in Pages : form' = [form EXCEPT ![n] = f]
    BY <1>2 DEF Open
  <2>2. form'[n].phase = "open"
    <3>1. f \in FormRows /\ FormOK(f) /\ f.phase = "open"
      BY PageForms DEF IInv
    <3>2. QED
      BY <1>1, <2>1, <3>1
  <2>3. QED
    BY <2>2
<1>3. CASE Cancel(n) \/ Submit(n)
  BY <1>1, <1>3 DEF Cancel, Submit, Closed, FormRows
<1>4. CASE Answered(n) \/ AnswerLost(n)
  <2>1. CASE form' = [form EXCEPT ![n] = Failed(form[n])]
    BY <1>1, <2>1, FailedPhase
  <2>2. CASE form' = [form EXCEPT ![n] = Closed]
    BY <1>1, <2>2 DEF Closed
  <2>3. CASE form' = [form EXCEPT ![n] = [F("run", form[n].on) EXCEPT !.phase = "sent"]]
    BY <1>1, <2>3 DEF F, Closed
  <2>4. QED
    BY <1>4, <2>1, <2>2, <2>3 DEF Answered, AnswerLost
<1>5. QED
  BY <1>2, <1>3, <1>4 DEF FormStep

\* A crash returns the forms it cuts off; it refuses none.
LEMMA NoCrash ==
    ASSUME IInv, Crash, NEW n \in Forms, form'[n] # form[n]
    PROVE  form'[n].phase \in {"closed", "open"}
<1>1. form[n] \in FormRows /\ form'[n] = Failed(form[n])
  BY DEF IInv, FormsTyped, Crash
<1>2. QED
  BY <1>1, FailedPhase

\* A one-step backup that made a source is refused by its undo only.
LEMMA QuickRefused ==
    ASSUME IInv, Next, NEW n \in Forms, form[n].kind = "quick", form[n].made # Nobody,
           form[n].phase # "refused", form'[n].phase = "refused"
    PROVE  Undo(n)
<1>1. form[n] \in FormRows /\ FormOK(form[n]) /\ form'[n] # form[n]
  BY DEF IInv, FormsTyped, FormsOK
<1>2. CASE FormStep(n)
  <2>1. Refused(n)
    BY <1>2, FormStepPhase
  <2>2. QED
    BY <1>1, <2>1 DEF Refused, FormOK, Resolved
<1>3. CASE SourceStep(n) \/ RepoStep(n) \/ JobStep(n) \/ StartStep(n)
  BY <1>3 DEF SourceStep, SaveFolder, CheckUnused, RemoveSource, RepoStep, CreateRepository,
              ReadStored, EditRepository, SetSetting, RemoveRepository, JobStep, CheckRefs,
              CreateJob, SaveJob, CheckIdle, RemoveJob, StartStep, ResolveJob, StartBackup,
              StartForgetJob, StartResetRepo, Handles
<1>4. CASE FindSource(n) \/ MakeSource(n)
  BY <1>1, <1>4 DEF FindSource, MakeSource, Handles, FormOK, Resolved
<1>5. CASE QuickJob(n)
  <2>1. form'[n].phase \in {"ok", "undo"}
    BY <1>1, <1>5 DEF QuickJob, InsertJob, InsertUnheard, Phase, AfterQuickRefused, IInv, FormsTyped, FormRows
  <2>2. QED
    BY <2>1
<1>6. CASE Crash
  BY <1>1, <1>6, NoCrash
<1>7. QED
  BY <1>1, <1>2, <1>3, <1>4, <1>5, <1>6, OwnStep DEF QuickStep

\* An attempt to make a source and a job in one step leaves no source behind
\* when it is refused, unless the undo fails or the server goes down: the
\* source it made is deleted, or another job uses it (CreateQuickJob).
THEOREM QuickFailsCleanly == Spec => QuickLeavesNothing
<1>1. ASSUME IInv, [Next]_vars, NEW n \in Forms, form[n].kind = "quick", form[n].made # Nobody,
             form[n].phase # "refused", form'[n].phase = "refused", faults' = faults
      PROVE  \/ sources'[form[n].made].state = "deleted"
             \/ \E j \in Live(jobs) : jobs[j].source = form[n].made
  <2>1. Undo(n)
    BY <1>1, QuickRefused DEF vars
  <2>2. Made(form[n].made) /\ sources \in [Sources -> SourceRows] /\ faults \in Nat
    <3>1. Made(form[n].made)
      BY <1>1 DEF IInv, FormsOK, FormOK, Resolved
    <3>2. sources \in [Sources -> SourceRows]
      BY <1>1 DEF IInv, StoreOK
    <3>3. faults \in Nat
      BY <1>1, BoundsAreNat DEF IInv, BoundsOK
    <3>4. QED
      BY <3>1, <3>2, <3>3
  <2>3. CASE sources' = [sources EXCEPT ![form[n].made].state = "deleted"]
    BY <2>2, <2>3 DEF Made, SourceRows
  <2>4. CASE ~MayDropSource(form[n].made) /\ UNCHANGED sources
    BY <2>2, <2>4 DEF MayDropSource, SourceUsed, Made, Live
  <2>5. QED
    BY <1>1, <2>1, <2>2, <2>3, <2>4 DEF Undo
<1>2. IInv /\ [Next]_vars =>
        [\A n \in Forms :
            (/\ form[n].kind = "quick" /\ form[n].made # Nobody
             /\ form[n].phase # "refused" /\ form'[n].phase = "refused" /\ faults' = faults)
            => \/ sources'[form[n].made].state = "deleted"
               \/ \E j \in Live(jobs) : jobs[j].source = form[n].made]_vars
  BY <1>1
<1>3. QED
  BY <1>2, Invariant, PTL DEF Spec, QuickLeavesNothing

\* What saves a repository's password, its check schedule or its limits.
LEMMA SettersSave ==
    ASSUME IInv, Next, NEW n \in Forms, form[n].kind \in {"repository", "check", "limit"},
           form[n].on # Nobody, form[n].phase # "ok", form'[n].phase = "ok"
    PROVE  IF form[n].kind = "repository" THEN EditRepository(n) ELSE SetSetting(n)
<1>1. form[n] \in FormRows /\ form'[n] # form[n] /\ form \in [Forms -> FormRows]
  BY DEF IInv, FormsTyped
<1>2. CASE FormStep(n)
  <2>1. Refused(n)
    BY <1>2, FormStepPhase
  <2>2. QED
    BY <1>1, <2>1 DEF Refused, Phase, FormRows
<1>3. CASE SourceStep(n) \/ JobStep(n) \/ StartStep(n) \/ QuickStep(n)
  BY <1>3 DEF SourceStep, SaveFolder, CheckUnused, RemoveSource, JobStep, CheckRefs, CreateJob,
              SaveJob, CheckIdle, RemoveJob, StartStep, ResolveJob, StartBackup, StartForgetJob,
              StartResetRepo, QuickStep, FindSource, MakeSource, QuickJob, Undo, Handles
<1>4. CASE RepoStep(n)
  <2>1. ~ReadStored(n)
    BY <1>1 DEF ReadStored, FormRows
  <2>2. ~CreateRepository(n) /\ ~RemoveRepository(n)
    BY DEF CreateRepository, RemoveRepository, Handles
  <2>3. QED
    BY <1>4, <2>1, <2>2 DEF RepoStep, EditRepository, SetSetting, Handles
<1>5. CASE Crash
  BY <1>1, <1>5, NoCrash
<1>6. QED
  BY <1>1, <1>2, <1>3, <1>4, <1>5, OwnStep

\* The forms of a repository's password, check schedule and limits leave what
\* the others save, even when it is saved between the read and the write of an
\* edit (pgRepoStore.Update, SetCheckConfig, SetLimits).
THEOREM SettersDoNotUndo == Spec => SettersKeepApart
<1> DEFINE Kept(r, n) ==
      /\ Saves(n, "repository", r) => repos'[r] = [repos[r] EXCEPT !.password = repos'[r].password]
      /\ Saves(n, "check", r)      => repos'[r] = [repos[r] EXCEPT !.check = repos'[r].check]
      /\ Saves(n, "limit", r)      => repos'[r] = [repos[r] EXCEPT !.limit = repos'[r].limit]
<1>1. ASSUME IInv, [Next]_vars, NEW r \in Live(repos), NEW n \in Forms
      PROVE  Kept(r, n)
  <2>1. r \in Repositories /\ repos \in [Repositories -> RepoRows] /\ repos[r] \in RepoRows /\ r # Nobody
    BY <1>1, IdsAreIds DEF IInv, StoreOK, Live
  <2>2. ASSUME Saves(n, "repository", r)
        PROVE  repos'[r] = [repos[r] EXCEPT !.password = repos'[r].password]
    <3>1. EditRepository(n) /\ form[n].on = r
      BY <1>1, <2>1, <2>2, SettersSave DEF Saves, vars
    <3>2. QED
      BY <2>1, <3>1 DEF EditRepository, Edited, RepoRows
  <2>3. ASSUME NEW kind \in {"check", "limit"}, Saves(n, kind, r)
        PROVE  /\ kind = "check" => repos'[r] = [repos[r] EXCEPT !.check = repos'[r].check]
               /\ kind = "limit" => repos'[r] = [repos[r] EXCEPT !.limit = repos'[r].limit]
    <3>1. SetSetting(n) /\ form[n].on = r /\ form[n].kind = kind
      BY <1>1, <2>1, <2>3, SettersSave DEF Saves, vars
    <3>2. QED
      BY <2>1, <3>1 DEF SetSetting, Handles, RepoRows
  <2>4. QED
    BY <2>2, <2>3
<1>2. IInv /\ [Next]_vars => [\A r \in Live(repos), n \in Forms : Kept(r, n)]_vars
  <2> HIDE DEF Kept
  <2> QED  BY <1>1
<1>3. QED
  BY <1>2, Invariant, PTL DEF Spec, SettersKeepApart
=============================================================================
