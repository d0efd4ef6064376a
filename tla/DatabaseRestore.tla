--------------------------- MODULE DatabaseRestore ---------------------------
(***************************************************************************)
(* Restores of one database from its snapshots (coordinator_db.go), with   *)
(* the commands they run in the database's container (dbengine.go) and     *)
(* what is left of such a command when the run is stopped, the connection  *)
(* to it is lost or the program dies.                                      *)
(*                                                                         *)
(* The database is "live"; the temporary database of run r, on PostgreSQL, *)
(* is named r.  Its contents are one of                                    *)
(*   absent  no such database     old   as it was in the beginning         *)
(*   empty   created              dump  the whole of the snapshot          *)
(*   part    some of a dump                                                *)
(* A command is the sequence of statements its script sends, and a run     *)
(* stands at the command it waits for (pc), or at what it reported.        *)
(***************************************************************************)
EXTENDS Naturals, Sequences, FiniteSets

CONSTANTS
    Runs,         \* restores of this database, each in a repository of its own
    MaxFaults,    \* bound: commands, streams and row updates that fail
    MaxTogether,  \* bound: restores under way at once, when the busy check is raced
    MaxCrashes    \* bound: times the program dies

ASSUME RunsAssumption == "live" \notin Runs
ASSUME BoundsAssumption == {MaxFaults, MaxTogether, MaxCrashes} \subseteq Nat

VARIABLES
    \* the database server
    engine, db,
    closed,     \* live refuses connections (ALLOW_CONNECTIONS false)
    stray,      \* statements of r that nobody waits for any more
    \* the run
    pc, script, reply,
    stopped,    \* its context is canceled
    expired,    \* so is the context of the swap (five minutes)
    wants,      \* opts.SafetyBackup
    existed,    \* meta.Exists
    spool,      \* what the dump wrote; "cut" if its end is missing
    safety,     \* what the safety snapshot holds
    recorded,   \* params of the run's row
    \* the program
    up,
    \* history and bounds
    before, left,  \* contents of live when the run began and when it settled
    overlapped,    \* two restores worked on the server at the same time
    broken,        \* the connection to a command broke
    ignored,       \* steps of a recovery (check, reopen) that failed and were passed over
    faults, crashes

serverVars == <<engine, db, closed, stray>>
commandVars == <<pc, script, reply>>
planVars == <<wants, existed, spool, safety, recorded>>
historyVars == <<before, left, overlapped, broken, ignored>>
vars == <<serverVars, commandVars, stopped, expired, planVars, up, historyVars, faults, crashes>>

-----------------------------------------------------------------------------
(* The stages of a run.                                                    *)

Stoppable == {"meta", "dump", "store", "createTmp", "importTmp", "props", "drop", "create", "import"}
Recovery == {"check", "reopen", "dropTmp", "rename"}
Commands == Stoppable \cup Recovery \cup {"swap", "cleanup", "dropBack", "createBack", "importBack"}
Params == {"recordSafety", "recordTmp"}
Reports == {"success", "unchanged", "byHand", "incomplete", "failed", "putBack", "backFailed",
            "interrupted"}

Active(r) == pc[r] \in Commands \cup Params
Settled(r) == pc[r] \in Reports
HasSafety(r) == wants[r] /\ existed[r]

\* What the run's record says in the end (classifyRun).
Status(r) == IF pc[r] = "interrupted" THEN "interrupted"
             ELSE IF stopped[r] THEN "canceled"
             ELSE IF pc[r] = "success" THEN "success" ELSE "failed"

Init ==
    /\ engine \in {"postgres", "mysql"}
    /\ db \in {[n \in Runs \cup {"live"} |-> IF n = "live" THEN c ELSE "absent"] : c \in {"old", "absent"}}
    /\ closed = FALSE
    /\ stray = [r \in Runs |-> <<>>]
    /\ pc = [r \in Runs |-> "idle"]
    /\ script = [r \in Runs |-> <<>>] /\ reply = [r \in Runs |-> "none"]
    /\ stopped = [r \in Runs |-> FALSE] /\ expired = [r \in Runs |-> FALSE]
    /\ wants = [r \in Runs |-> FALSE] /\ existed = [r \in Runs |-> FALSE]
    /\ spool = [r \in Runs |-> "absent"] /\ safety = [r \in Runs |-> "absent"]
    /\ recorded = [r \in Runs |-> {}]
    /\ up = TRUE
    /\ before = [r \in Runs |-> "absent"] /\ left = [r \in Runs |-> "absent"]
    /\ overlapped = FALSE /\ broken = FALSE /\ ignored = [r \in Runs |-> {}]
    /\ faults = 0 /\ crashes = 0

Fault == faults < MaxFaults /\ faults' = faults + 1

-----------------------------------------------------------------------------
(* The commands (dbengine.go).                                             *)

Do(op, n) == [op |-> op, on |-> n, what |-> "absent"]
Load(n, c) == [op |-> "load", on |-> n, what |-> c]

\* psql imports in one transaction; the mysql client as it reads.
Script(r, stage) ==
    CASE stage \in {"meta", "check"}      -> <<Do("look", "live")>>
      [] stage \in {"dump", "store", "props"} -> <<Do(stage, "live")>>
      [] stage = "createTmp"              -> <<Do("create", r)>>
      [] stage = "importTmp"              -> <<Load(r, "dump")>>
      [] stage \in {"dropTmp", "cleanup"} -> <<Do("drop", r)>>
      [] stage = "swap"                   -> (IF existed[r] THEN <<Do("close", "live"), Do("drop", "live")>>
                                              ELSE <<>>) \o <<Do("rename", r)>>
      [] stage = "rename"                 -> <<Do("rename", r)>>
      [] stage = "reopen"                 -> <<Do("open", "live")>>
      [] stage \in {"drop", "dropBack"}   -> <<Do("drop", "live")>>
      [] stage \in {"create", "createBack"} -> <<Do("create", "live")>>
      [] stage = "import"                 -> <<Load("live", "part"), Load("live", "dump")>>
      [] stage = "importBack"             -> <<Load("live", "part"), Load("live", safety[r])>>
      [] OTHER                            -> <<>>

Possible(s) ==
    CASE s.op = "create" -> db[s.on] = "absent"
      [] s.op = "load"   -> db[s.on] # "absent"
      [] s.op = "rename" -> db[s.on] # "absent" /\ db["live"] = "absent"
      [] OTHER           -> TRUE

DbAfter(s) ==
    CASE s.op = "drop"   -> [db EXCEPT ![s.on] = "absent"]
      [] s.op = "create" -> [db EXCEPT ![s.on] = "empty"]
      [] s.op = "load"   -> [db EXCEPT ![s.on] = s.what]
      [] s.op = "rename" -> [db EXCEPT !["live"] = db[s.on], ![s.on] = "absent"]
      [] OTHER           -> db

ClosedAfter(s) ==
    CASE s.op = "close" -> db["live"] # "absent"
      [] s.op = "open"  -> FALSE
      [] s.op = "drop" /\ s.on = "live" -> FALSE
      [] OTHER -> closed

\* A drop ends the sessions in its database, and on MySQL it queues behind the
\* statements that hold its lock.
EndedBy(t, s) == s.op = "drop" /\ t.on = s.on /\ (t.op = "load" \/ engine = "mysql")
StrayAfter(s, q) ==
    [r \in Runs |-> IF q[r] # <<>> /\ EndedBy(Head(q[r]), s) THEN <<>> ELSE q[r]]

Effect(s, q) ==
    /\ db' = DbAfter(s) /\ closed' = ClosedAfter(s) /\ stray' = StrayAfter(s, q)
    /\ UNCHANGED engine

Answer(s) == IF s.op = "look" THEN (IF db["live"] = "absent" THEN "no" ELSE "yes") ELSE "ok"

\* What may still happen of a command that nobody waits for any more: an import
\* finds the end of its input, a look or a dump has no effect.
Changing == {"close", "open", "drop", "create", "load", "rename"}
Orphan(q) ==
    IF q = <<>> \/ Head(q).op \notin Changing THEN <<>>
    ELSE IF Head(q).op = "load" THEN <<Load(Head(q).on, "part")>> ELSE q

\* The processes of one that is given up are ended, but not the statement the
\* server is at.
Remnant(q) == IF Orphan(q) = <<>> THEN <<>> ELSE <<Head(Orphan(q))>>

Leave(r, q) == IF q = <<>> THEN stray[r] ELSE stray[r] \o q

-----------------------------------------------------------------------------
(* Starting (StartRestoreDatabase): whether the database is busy is asked  *)
(* before the record that makes it so is written.                          *)

OnRecord(r) == Active(r) \/ pc[r] = "dead"
Busy == \E r \in Runs : OnRecord(r)

\* A busy query that fails reads as no active run.
Check(r) ==
    /\ up /\ pc[r] = "idle"
    /\ \/ ~Busy /\ UNCHANGED faults
       \/ Busy /\ Fault
    /\ pc' = [pc EXCEPT ![r] = "checked"]
    /\ UNCHANGED <<serverVars, script, reply, stopped, expired, planVars, up, historyVars, crashes>>

\* The context the stage's command runs under is canceled.
CanceledIn(r, stage) == (stopped[r] /\ stage \in Stoppable) \/ (expired[r] /\ stage \in Recovery)
Canceled(r) == CanceledIn(r, pc[r])

\* Under a canceled context a command is not even started.
Enter(r, stage) ==
    /\ pc' = [pc EXCEPT ![r] = stage]
    /\ script' = [script EXCEPT ![r] = IF CanceledIn(r, stage) THEN <<>> ELSE Script(r, stage)]
    /\ reply' = [reply EXCEPT ![r] = "none"]

Begin(r) ==
    /\ up /\ pc[r] = "checked" /\ Cardinality({q \in Runs : OnRecord(q)}) < MaxTogether
    /\ Enter(r, "meta")
    /\ \E safetyBackup \in BOOLEAN : wants' = [wants EXCEPT ![r] = safetyBackup]
    /\ before' = [before EXCEPT ![r] = db["live"]]
    /\ overlapped' = (overlapped \/ \E q \in Runs : OnRecord(q) \/ stray[q] # <<>>)
    /\ UNCHANGED <<serverVars, stopped, expired, existed, spool, safety, recorded, up, left, broken,
                   ignored, faults, crashes>>

-----------------------------------------------------------------------------
(* A command under way (dbCommand, dockerClient.Exec, resticRunner.Dump).  *)

Waiting(r) == up /\ pc[r] \in Commands /\ reply[r] = "none"
AtWork(r) == Waiting(r) /\ ~Canceled(r) /\ script[r] # <<>>

Ends(r, answer) ==
    /\ script' = [script EXCEPT ![r] = <<>>]
    /\ reply' = [reply EXCEPT ![r] = answer]

StatementDone(r) ==
    /\ AtWork(r)
    /\ LET s == Head(script[r])
           rest == Tail(script[r])
       IN  /\ Possible(s) /\ Effect(s, stray)
           /\ script' = [script EXCEPT ![r] = rest]
           /\ reply' = [reply EXCEPT ![r] = IF rest = <<>> THEN Answer(s) ELSE "none"]
           /\ spool' = [spool EXCEPT ![r] = IF pc[r] = "dump" THEN db["live"] ELSE @]
           /\ safety' = [safety EXCEPT ![r] = IF pc[r] = "store" THEN spool[r] ELSE @]
    /\ UNCHANGED <<pc, stopped, expired, wants, existed, recorded, up, historyVars, faults, crashes>>

\* A non-zero exit: the server refuses the statement, the scripts stop there.
StatementRefused(r) ==
    /\ AtWork(r)
    /\ IF Possible(Head(script[r])) THEN Fault ELSE UNCHANGED faults
    /\ Ends(r, "exit")
    /\ UNCHANGED <<serverVars, pc, stopped, expired, planVars, up, historyVars, crashes>>

\* The dump tool exits 0 without having written all of it.
DumpCut(r) ==
    /\ AtWork(r) /\ pc[r] = "dump" /\ Fault
    /\ spool' = [spool EXCEPT ![r] = "cut"]
    /\ Ends(r, "ok")
    /\ UNCHANGED <<serverVars, pc, stopped, expired, wants, existed, safety, recorded, up,
                   historyVars, crashes>>

\* restic cuts the stream short and exits non-zero; the client accepts the rest.
ImportAnswerOfClient == "ok"
ImportAnswer == "exit"
ImportCut(r) ==
    /\ AtWork(r) /\ Head(script[r]).op = "load" /\ Possible(Head(script[r])) /\ Fault
    /\ Effect(Load(Head(script[r]).on, "part"), stray)
    /\ Ends(r, ImportAnswer)
    /\ UNCHANGED <<pc, stopped, expired, planVars, up, historyVars, crashes>>

\* The connection breaks, before or after the command's end; in the swap this
\* may be its timeout.
Lose(r) ==
    /\ up /\ pc[r] \in Commands \ {"store"} /\ reply[r] \notin {"exit", "lost"} /\ ~Canceled(r)
    /\ Fault
    /\ stray' = [stray EXCEPT ![r] = Leave(r, Remnant(script[r]))]
    /\ Ends(r, "lost") /\ broken' = TRUE
    /\ \/ UNCHANGED expired
       \/ pc[r] \in Recovery \cup {"swap"} /\ expired' = [expired EXCEPT ![r] = TRUE]
    /\ UNCHANGED <<engine, db, closed, pc, stopped, planVars, up, before, left, overlapped, ignored,
                   crashes>>

\* A canceled context gives the command up.
Abandon(r) ==
    /\ up /\ pc[r] \in Commands /\ Canceled(r) /\ reply[r] # "lost"
    /\ stray' = [stray EXCEPT ![r] = Leave(r, Remnant(script[r]))]
    /\ Ends(r, "lost")
    /\ UNCHANGED <<engine, db, closed, pc, stopped, expired, planVars, up, historyVars,
                   faults, crashes>>

\* What nobody waits for still happens, or does not.
StrayStatement(r) ==
    /\ stray[r] # <<>>
    /\ \/ LET s == Head(stray[r])
          IN  Possible(s) /\ Effect(s, [stray EXCEPT ![r] = Tail(@)])
       \/ stray' = [stray EXCEPT ![r] = <<>>] /\ UNCHANGED <<engine, db, closed>>
    /\ UNCHANGED <<commandVars, stopped, expired, planVars, up, historyVars, faults, crashes>>

-----------------------------------------------------------------------------
(* What the run does next.                                                 *)

\* postgres starts with the name of its temporary database, replace with a
\* look at its context.
FirstUnrecorded(r) == IF engine = "postgres" THEN "createTmp" ELSE IF stopped[r] THEN "unchanged" ELSE "drop"
First(r) == IF engine = "postgres" THEN "recordTmp" ELSE IF stopped[r] THEN "unchanged" ELSE "drop"

\* A dump without its closing marker is not saved.
AfterDumpUnchecked(r) == "store"
AfterDump(r) == IF spool[r] = "cut" THEN "unchanged" ELSE "store"

\* recoverSwap.
AfterCheckUnread(answer) == "reopen"
AfterCheck(answer) == IF answer = "yes" THEN "reopen" ELSE "rename"

OnSuccess(r) ==
    CASE pc[r] = "meta"       -> IF wants[r] /\ reply[r] = "yes" THEN "dump" ELSE First(r)
      [] pc[r] = "dump"       -> AfterDump(r)
      [] pc[r] = "store"      -> "recordSafety"
      [] pc[r] = "createTmp"  -> "importTmp"
      [] pc[r] = "importTmp"  -> IF existed[r] THEN "props" ELSE "swap"
      [] pc[r] = "props"      -> "swap"
      [] pc[r] = "check"      -> AfterCheck(reply[r])
      [] pc[r] = "reopen"     -> "dropTmp"
      [] pc[r] \in {"dropTmp", "cleanup"} -> "unchanged"
      [] pc[r] = "drop"       -> "create"
      [] pc[r] = "create"     -> "import"
      [] pc[r] = "dropBack"   -> "createBack"
      [] pc[r] = "createBack" -> "importBack"
      [] pc[r] = "importBack" -> "putBack"
      [] OTHER                -> "success"

\* replace reports that the database was changed.
AfterChange(r) == IF HasSafety(r) THEN "dropBack" ELSE IF existed[r] THEN "incomplete" ELSE "failed"

\* A DROP that ran and failed changed nothing; one that was given up may have.
AfterDropFailed(r) == IF reply[r] = "exit" THEN "unchanged" ELSE AfterChange(r)

OnFailure(r) ==
    CASE pc[r] \in {"meta", "dump", "store", "createTmp"} -> "unchanged"
      [] pc[r] \in {"importTmp", "props"} -> "cleanup"
      [] pc[r] \in {"cleanup", "dropTmp"} -> "unchanged"
      [] pc[r] = "swap"   -> "check"
      [] pc[r] = "check"  -> "rename"
      [] pc[r] = "reopen" -> "dropTmp"
      [] pc[r] = "rename" -> "byHand"
      [] pc[r] = "drop"   -> AfterDropFailed(r)
      [] pc[r] \in {"create", "import"} -> AfterChange(r)
      [] OTHER            -> "backFailed"

Settle(r, stage) == left' = IF stage \in Reports THEN [left EXCEPT ![r] = db["live"]] ELSE left

\* recoverSwap looks at no error of these two.
Overlooks(r) == pc[r] \in {"check", "reopen"} /\ reply[r] \in {"exit", "lost"}

Proceed(r) ==
    /\ up /\ pc[r] \in Commands /\ reply[r] # "none"
    /\ LET stage == IF reply[r] \in {"exit", "lost"} THEN OnFailure(r) ELSE OnSuccess(r)
       IN  Enter(r, stage) /\ Settle(r, stage)
    /\ ignored' = [ignored EXCEPT ![r] = IF Overlooks(r) THEN @ \cup {pc[r]} ELSE @]
    /\ existed' = [existed EXCEPT ![r] = IF pc[r] = "meta" THEN reply[r] = "yes" ELSE @]
    /\ UNCHANGED <<serverVars, stopped, expired, wants, spool, safety, recorded, up, before,
                   overlapped, broken, faults, crashes>>

\* The row names the safety snapshot and the temporary database before they
\* are needed; the error of a row update is dropped.
AfterParam(r) == IF pc[r] = "recordTmp" THEN "createTmp" ELSE First(r)

RecordParam(r) ==
    /\ up /\ pc[r] \in Params
    /\ \/ recorded' = [recorded EXCEPT ![r] = @ \cup {pc[r]}] /\ UNCHANGED faults
       \/ Fault /\ UNCHANGED recorded
    /\ Enter(r, AfterParam(r)) /\ Settle(r, AfterParam(r))
    /\ UNCHANGED <<serverVars, stopped, expired, wants, existed, spool, safety, up, before,
                   overlapped, broken, ignored, crashes>>

Stop(r) ==
    /\ up /\ Active(r) /\ ~stopped[r]
    /\ stopped' = [stopped EXCEPT ![r] = TRUE]
    /\ UNCHANGED <<serverVars, commandVars, expired, planVars, up, historyVars, faults, crashes>>

-----------------------------------------------------------------------------
(* The program dies and is started again.                                  *)

Crash ==
    /\ up /\ crashes < MaxCrashes
    /\ up' = FALSE /\ crashes' = crashes + 1
    /\ stray' = [r \in Runs |-> Leave(r, Orphan(script[r]))]
    /\ pc' = [r \in Runs |-> IF Active(r) THEN "dead"
                             ELSE IF pc[r] = "checked" THEN "idle" ELSE pc[r]]
    /\ script' = [r \in Runs |-> <<>>] /\ reply' = [r \in Runs |-> "none"]
    /\ UNCHANGED <<engine, db, closed, stopped, expired, planVars, historyVars, faults>>

Reconcile ==
    /\ ~up /\ up' = TRUE
    /\ pc' = [r \in Runs |-> IF pc[r] = "dead" THEN "interrupted" ELSE pc[r]]
    /\ left' = [r \in Runs |-> IF pc[r] = "dead" THEN db["live"] ELSE left[r]]
    /\ UNCHANGED <<serverVars, script, reply, stopped, expired, planVars, before, overlapped,
                   broken, ignored, faults, crashes>>

-----------------------------------------------------------------------------
Next ==
    \/ \E r \in Runs : Check(r) \/ Begin(r) \/ StatementDone(r) \/ StatementRefused(r)
                       \/ DumpCut(r) \/ ImportCut(r) \/ Lose(r) \/ Abandon(r)
                       \/ StrayStatement(r) \/ Proceed(r) \/ RecordParam(r) \/ Stop(r)
    \/ Crash \/ Reconcile

Spec == Init /\ [][Next]_vars

-----------------------------------------------------------------------------
(* Properties.                                                             *)

Contents == {"absent", "empty", "part", "old", "dump"}
Statements == [op : Changing \cup {"look", "dump", "store", "props"}, on : Runs \cup {"live"},
               what : Contents]

TypeOK ==
    /\ engine \in {"postgres", "mysql"} /\ db \in [Runs \cup {"live"} -> Contents]
    /\ closed \in BOOLEAN
    /\ stray \in [Runs -> Seq(Statements)] /\ script \in [Runs -> Seq(Statements)]
    /\ pc \in [Runs -> {"idle", "checked", "dead"} \cup Commands \cup Params \cup Reports]
    /\ reply \in [Runs -> {"none", "ok", "yes", "no", "exit", "lost"}]
    /\ stopped \in [Runs -> BOOLEAN] /\ expired \in [Runs -> BOOLEAN]
    /\ wants \in [Runs -> BOOLEAN] /\ existed \in [Runs -> BOOLEAN]
    /\ spool \in [Runs -> Contents \cup {"cut"}] /\ safety \in [Runs -> Contents \cup {"cut"}]
    /\ recorded \in [Runs -> SUBSET Params]
    /\ up \in BOOLEAN /\ overlapped \in BOOLEAN /\ broken \in BOOLEAN
    /\ before \in [Runs -> Contents] /\ left \in [Runs -> Contents]
    /\ ignored \in [Runs -> SUBSET {"check", "reopen"}]
    /\ faults \in 0 .. MaxFaults /\ crashes \in 0 .. MaxCrashes

\* Whatever is refused, lost, stopped or dies, and whenever: with a safety
\* backup, what the database held is still in it or in the safety snapshot
\* until the run is settled, so that putting it back is possible.
NothingLost ==
    ~overlapped => \A r \in Runs :
        HasSafety(r) /\ (Active(r) \/ pc[r] = "dead") =>
            db["live"] = before[r] \/ safety[r] = before[r]

\* PostgreSQL: while no connection breaks, a whole database is there at any
\* time, under its own name or the temporary one, safety backup or not.
WholeAt(r) == db["live"] \in {before[r], "dump"} \/ db[r] = "dump"
WholeCopy ==
    ~overlapped /\ ~broken /\ engine = "postgres" =>
        \A r \in Runs : existed[r] /\ ~Settled(r) => WholeAt(r)

\* The same whatever happens ("The swap is quick and must not be left half
\* done", coordinator_db.go).
NeverHalfDone ==
    ~overlapped /\ engine = "postgres" =>
        \A r \in Runs : existed[r] /\ ~Settled(r) => WholeAt(r)

\* What a run reports, while no connection breaks: the database that it calls
\* unchanged, put back or restored was left so; the snapshot it names when putting
\* back failed holds what there was; the restored copy that is to be renamed by
\* hand waits under the name given, and the live database was dropped, as the
\* message says. The last does not hold after a look at the database that failed
\* (recoverSwap takes the failure for "gone"); "may be incomplete" and a plain
\* failure promise nothing.
Reported(r) ==
    /\ pc[r] \in {"unchanged", "putBack"} => left[r] = before[r]
    /\ pc[r] = "success" => left[r] = "dump"
    /\ pc[r] = "backFailed" => safety[r] = before[r]
    /\ pc[r] = "byHand" => db[r] = "dump" /\ (left[r] = "absent" \/ "check" \in ignored[r])

\* And no run settles with connections to the live database refused, unless the
\* program died in it, or the look or the reopening failed, which no report tells.
MayBeClosed(r) ==
    pc[r] \in {"swap", "dead", "interrupted"} \cup Recovery \/ ignored[r] # {}

Truthful ==
    ~overlapped /\ ~broken => /\ \A r \in Runs : Reported(r)
                              /\ closed => \E r \in Runs : MayBeClosed(r)

\* The run's row already names the safety snapshot when the database changes,
\* and the temporary database when there is one: a program that dies now can
\* say how to put things right (interruptedMessage).
TrailOnRecord ==
    ~overlapped /\ faults = 0 => \A r \in Runs : Active(r) \/ pc[r] = "dead" =>
        /\ HasSafety(r) /\ db["live"] # before[r] => "recordSafety" \in recorded[r]
        /\ db[r] # "absent" => "recordTmp" \in recorded[r]
=============================================================================
