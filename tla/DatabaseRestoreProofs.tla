------------------------ MODULE DatabaseRestoreProofs ------------------------
(***************************************************************************)
(* What a database held is never lost by a restore that took a safety      *)
(* backup (NothingLost), and, stage by stage, what the database is while   *)
(* an engine replaces it: whole but for MySQL's import (WholeCopy), as the *)
(* run reports it (Truthful), and found again from the rows of the runs    *)
(* (TrailOnRecord); for any number of restores, failures and crashes.      *)
(***************************************************************************)
EXTENDS DatabaseRestore, SequenceTheorems, TLAPS

\* The stages before the database may change, and their statements.
Reading == {"meta", "dump", "store"}
Looks == {Do("look", "live"), Do("dump", "live"), Do("store", "live")}

Shape ==
    /\ DOMAIN pc = Runs /\ DOMAIN script = Runs /\ DOMAIN reply = Runs /\ DOMAIN stray = Runs
    /\ DOMAIN wants = Runs /\ DOMAIN existed = Runs /\ DOMAIN spool = Runs
    /\ DOMAIN safety = Runs /\ DOMAIN before = Runs

\* Only a run that waits for a command has one under way.
Quiet == \A r \in Runs : pc[r] \notin Commands => script[r] = <<>>

\* Without an overlap, a run on record has the server to itself: nothing that an
\* earlier run left can still happen.
Alone == ~overlapped => \A r, q \in Runs : OnRecord(r) /\ q # r => ~OnRecord(q) /\ stray[q] = <<>>

Untouched(r) == db["live"] = before[r] /\ stray[r] = <<>>
OnlyLooks(r) == script[r] = <<>> \/ \E s \in Looks : script[r] = <<s>>
Succeeded(r) == reply[r] \notin {"none", "exit", "lost"}

\* While the run reads, the database is as it was; from then on the safety
\* snapshot is what the database was.
Kept(r) ==
    /\ pc[r] \in Reading => Untouched(r) /\ OnlyLooks(r)
    /\ pc[r] = "dump" /\ Succeeded(r) => spool[r] \in {before[r], "cut"}
    /\ pc[r] = "store" => spool[r] = before[r]
    /\ pc[r] = "store" /\ Succeeded(r) => safety[r] = before[r]
    /\ pc[r] \notin Reading /\ HasSafety(r) => safety[r] = before[r] \/ (pc[r] = "dead" /\ Untouched(r))

KeptInv == ~overlapped => \A r \in Runs : OnRecord(r) => Kept(r)

IInv == Shape /\ Quiet /\ Alone /\ KeptInv

-----------------------------------------------------------------------------
(* What statements and remnants do.                                        *)

\* A statement that only reads changes no database and leaves nothing behind.
LEMMA LooksChangeNothing ==
    ASSUME NEW s \in Looks
    PROVE  /\ Head(<<s>>) = s /\ Tail(<<s>>) = <<>> /\ <<s>> # <<>>
           /\ s.op \notin Changing
           /\ DbAfter(s) = db
           /\ Orphan(<<s>>) = <<>> /\ Remnant(<<s>>) = <<>>
<1>1. Head(<<s>>) = s /\ Tail(<<s>>) = <<>> /\ <<s>> # <<>>
  OBVIOUS
<1>2. s.op \in {"look", "dump", "store"}
  BY DEF Looks, Do
<1>3. s.op \notin Changing
  BY <1>2 DEF Changing
<1>4. DbAfter(s) = db
  BY <1>2 DEF DbAfter
<1>5. Orphan(<<s>>) = <<>>
  BY <1>1, <1>3 DEF Orphan
<1>6. Remnant(<<s>>) = <<>>
  BY <1>5 DEF Remnant
<1>7. QED
  BY <1>1, <1>3, <1>4, <1>5, <1>6

\* Nothing is left of a command that is not under way.
LEMMA NothingLeft ==
    ASSUME NEW r \in Runs
    PROVE  Orphan(<<>>) = <<>> /\ Remnant(<<>>) = <<>> /\ Leave(r, <<>>) = stray[r]
BY DEF Orphan, Remnant, Leave

\* A statement adds nothing to what others left.
LEMMA StrayOnlyShrinks ==
    ASSUME NEW s, NEW q, NEW r \in Runs, q[r] = <<>>
    PROVE  StrayAfter(s, q)[r] = <<>>
BY DEF StrayAfter

\* The effect of a statement that only reads.
LEMMA LookEffect ==
    ASSUME NEW s \in Looks, NEW q, Effect(s, q), NEW r \in Runs
    PROVE  db' = db /\ (q[r] = <<>> => stray'[r] = <<>>)
BY LooksChangeNothing, StrayOnlyShrinks DEF Effect

\* A stage that reads is one statement that only looks.
LEMMA ReadingScript ==
    ASSUME NEW r, NEW stage \in Reading
    PROVE  \E s \in Looks : Script(r, stage) = <<s>>
<1>1. CASE stage = "meta"
  BY <1>1 DEF Script, Looks
<1>2. CASE stage = "dump"
  BY <1>2 DEF Script, Looks
<1>3. CASE stage = "store"
  BY <1>3 DEF Script, Looks
<1>4. QED
  BY <1>1, <1>2, <1>3 DEF Reading

\* Only a command has a script.
LEMMA NoScript ==
    ASSUME NEW r, NEW stage, stage \notin Commands
    PROVE  Script(r, stage) = <<>>
BY DEF Script, Commands, Stoppable, Recovery

\* A run that reads does not import.
LEMMA ReadingDoesNotLoad ==
    ASSUME NEW r, OnlyLooks(r), script[r] # <<>>
    PROVE  Head(script[r]) \in Looks /\ Head(script[r]).op # "load" /\ Tail(script[r]) = <<>>
BY LooksChangeNothing DEF OnlyLooks, Changing

\* A run on record is at a command, at its row, or dead.
LEMMA OnRecordStages ==
    ASSUME NEW r
    PROVE  /\ OnRecord(r) <=> pc[r] \in Commands \cup Params \cup {"dead"}
           /\ Reading \subseteq Commands /\ "dead" \notin Commands \cup Params
           /\ Params \cap Commands = {}
BY DEF OnRecord, Active, Reading, Commands, Stoppable, Recovery, Params

-----------------------------------------------------------------------------
(* The invariant holds initially and implies NothingLost.                  *)

\* At first nothing is under way and nothing has changed.
LEMMA InitInv == Init => IInv
<1> SUFFICES ASSUME Init PROVE IInv
  OBVIOUS
<1>1. Shape /\ Quiet
  BY DEF Init, Shape, Quiet
<1>2. \A r \in Runs : ~OnRecord(r)
  BY DEF Init, OnRecord, Active, Commands, Stoppable, Recovery, Params
<1>3. QED
  BY <1>1, <1>2 DEF IInv, Alone, KeptInv

\* What was read before the change is what is kept.
LEMMA InvImpliesNothingLost == IInv => NothingLost
<1> SUFFICES ASSUME IInv, ~overlapped, NEW r \in Runs, HasSafety(r), OnRecord(r)
             PROVE  db["live"] = before[r] \/ safety[r] = before[r]
  BY DEF NothingLost, OnRecord
<1>1. Kept(r)
  BY DEF IInv, KeptInv
<1>2. QED
  BY <1>1 DEF Kept, Untouched

-----------------------------------------------------------------------------
(* A command under way: its run stays where it is.                         *)

\* Without an overlap the others are quiet.
LEMMA OneOnRecord ==
    ASSUME IInv, ~overlapped, NEW r \in Runs, OnRecord(r)
    PROVE  \A q \in Runs : q # r => ~OnRecord(q) /\ stray[q] = <<>>
BY DEF IInv, Alone

\* A run that goes on with its command disturbs no other; what it does for itself
\* is left to show.
LEMMA CommandKeepsInv ==
    ASSUME IInv, NEW r \in Runs, pc[r] \in Commands,
           UNCHANGED <<pc, wants, existed, before, overlapped>>,
           Shape', \A q \in Runs \ {r} : script'[q] = script[q],
           \A q \in Runs : stray[q] = <<>> /\ q # r => stray'[q] = <<>>,
           ~overlapped /\ Kept(r) => Kept(r)'
    PROVE  IInv'
<1>1. OnRecord(r)
  BY OnRecordStages
<1>2. \A q \in Runs : OnRecord(q)' <=> OnRecord(q)
  BY DEF OnRecord, Active
<1>3. Quiet'
  BY DEF IInv, Quiet
<1>4. Alone'
  BY <1>1, <1>2, OneOnRecord DEF IInv, Alone
<1>5. KeptInv'
  BY <1>1, <1>2, OneOnRecord DEF IInv, KeptInv
<1>6. QED
  BY <1>3, <1>4, <1>5 DEF IInv

\* A statement is done: while reading, it only looks.
LEMMA StatementDoneInv ==
    ASSUME IInv, NEW r \in Runs, StatementDone(r)
    PROVE  IInv'
<1> DEFINE s == Head(script[r])
<1>1. /\ pc[r] \in Commands /\ script[r] # <<>> /\ Effect(s, stray)
      /\ UNCHANGED <<pc, wants, existed, before, overlapped>>
      /\ script' = [script EXCEPT ![r] = Tail(script[r])]
      /\ DOMAIN reply' = DOMAIN reply /\ DOMAIN spool' = DOMAIN spool
      /\ DOMAIN safety' = DOMAIN safety
      /\ spool'[r] = IF pc[r] = "dump" THEN db["live"] ELSE spool[r]
      /\ safety'[r] = IF pc[r] = "store" THEN spool[r] ELSE safety[r]
  BY DEF StatementDone, AtWork, Waiting, planVars, historyVars, IInv, Shape
<1>2. DOMAIN stray' = Runs /\ \A q \in Runs : stray[q] = <<>> => stray'[q] = <<>>
  BY <1>1, StrayOnlyShrinks DEF Effect, StrayAfter
<1>3. Shape'
  BY <1>1, <1>2 DEF IInv, Shape
<1>4. ASSUME ~overlapped, Kept(r) PROVE Kept(r)'
  <2>1. CASE pc[r] \in Reading
    <3>1. s \in Looks /\ Tail(script[r]) = <<>>
      BY <1>1, <1>4, <2>1, ReadingDoesNotLoad DEF Kept
    <3>2. db' = db /\ stray'[r] = <<>>
      BY <1>1, <1>4, <2>1, <3>1, LookEffect DEF Kept, Untouched
    <3>3. script'[r] = <<>>
      BY <1>1, <3>1 DEF IInv, Shape
    <3>4. QED
      BY <1>1, <1>4, <2>1, <3>2, <3>3 DEF Kept, Untouched, OnlyLooks
  <2>2. CASE pc[r] \notin Reading
    BY <1>1, <1>4, <2>2, OnRecordStages DEF Kept, HasSafety, Reading
  <2>3. QED
    BY <2>1, <2>2
<1>5. QED
  BY <1>1, <1>2, <1>3, <1>4, CommandKeepsInv DEF IInv, Shape

\* A command that ends early has done no more than it had, and has failed, or
\* is a dump that was cut.
LEMMA CommandEndsInv ==
    ASSUME IInv, NEW r \in Runs, NEW answer, pc[r] \in Commands, Ends(r, answer),
           UNCHANGED <<pc, wants, existed, before, safety, overlapped>>,
           DOMAIN stray' = Runs, DOMAIN spool' = Runs,
           \A q \in Runs : stray[q] = <<>> /\ q # r => stray'[q] = <<>>,
           pc[r] \in Reading /\ ~overlapped /\ Kept(r) => db' = db /\ stray'[r] = <<>>,
           \/ answer \in {"exit", "lost"} /\ UNCHANGED spool
           \/ pc[r] = "dump" /\ spool'[r] = "cut"
    PROVE  IInv'
<1>1. Shape' /\ script'[r] = <<>> /\ reply'[r] = answer
  BY DEF IInv, Shape, Ends
<1>2. \A q \in Runs \ {r} : script'[q] = script[q]
  BY DEF IInv, Shape, Ends
<1>3. ASSUME ~overlapped, Kept(r) PROVE Kept(r)'
  <2>1. CASE pc[r] \in Reading
    BY <1>1, <1>3, <2>1 DEF Kept, Untouched, OnlyLooks, Succeeded
  <2>2. CASE pc[r] \notin Reading
    BY <1>1, <1>3, <2>2, OnRecordStages DEF Kept, HasSafety, Reading
  <2>3. QED
    BY <2>1, <2>2
<1>4. QED
  BY <1>1, <1>2, <1>3, CommandKeepsInv

\* A refused statement changes nothing.
LEMMA StatementRefusedInv ==
    ASSUME IInv, NEW r \in Runs, StatementRefused(r)
    PROVE  IInv'
<1>1. /\ pc[r] \in Commands /\ Ends(r, "exit")
      /\ UNCHANGED <<db, stray, pc, wants, existed, before, spool, safety, overlapped>>
  BY DEF StatementRefused, AtWork, Waiting, planVars, historyVars, serverVars
<1>2. pc[r] \in Reading /\ Kept(r) => stray[r] = <<>>
  BY DEF Kept, Untouched
<1>3. QED
  BY <1>1, <1>2, CommandEndsInv DEF IInv, Shape

\* A dump that is cut is known to be cut.
LEMMA DumpCutInv ==
    ASSUME IInv, NEW r \in Runs, DumpCut(r)
    PROVE  IInv'
<1>1. /\ pc[r] \in Commands /\ pc[r] = "dump" /\ Ends(r, "ok")
      /\ spool' = [spool EXCEPT ![r] = "cut"]
      /\ UNCHANGED <<db, stray, pc, wants, existed, before, safety, overlapped>>
  BY DEF DumpCut, AtWork, Waiting, historyVars, serverVars
<1>2. Kept(r) => stray[r] = <<>>
  BY <1>1 DEF Kept, Untouched, Reading
<1>3. DOMAIN spool' = Runs /\ spool'[r] = "cut"
  BY <1>1 DEF IInv, Shape
<1>4. QED
  BY <1>1, <1>2, <1>3, CommandEndsInv DEF IInv, Shape

\* Only a stage past the reading imports.
LEMMA ImportCutInv ==
    ASSUME IInv, NEW r \in Runs, ImportCut(r)
    PROVE  IInv'
<1> DEFINE s == Load(Head(script[r]).on, "part")
<1>1. /\ pc[r] \in Commands /\ script[r] # <<>> /\ Head(script[r]).op = "load"
      /\ Effect(s, stray) /\ Ends(r, "exit")
      /\ UNCHANGED <<pc, wants, existed, before, spool, safety, overlapped>>
  BY DEF ImportCut, ImportAnswer, AtWork, Waiting, planVars, historyVars
<1>2. DOMAIN stray' = Runs /\ \A q \in Runs : stray[q] = <<>> => stray'[q] = <<>>
  BY <1>1, StrayOnlyShrinks DEF Effect, StrayAfter
<1>3. ~(pc[r] \in Reading /\ Kept(r))
  BY <1>1, ReadingDoesNotLoad DEF Kept
<1>4. QED
  BY <1>1, <1>2, <1>3, CommandEndsInv DEF IInv, Shape

\* Whoever gives a command up leaves a remnant, but none of a look.
LEMMA GivenUpInv ==
    ASSUME IInv, NEW r \in Runs, pc[r] \in Commands, Ends(r, "lost"),
           stray' = [stray EXCEPT ![r] = Leave(r, Remnant(script[r]))],
           UNCHANGED <<db, pc, wants, existed, before, spool, safety, overlapped>>
    PROVE  IInv'
<1>1. DOMAIN stray' = Runs /\ \A q \in Runs \ {r} : stray'[q] = stray[q]
  BY DEF IInv, Shape
<1>2. ASSUME OnlyLooks(r) PROVE stray'[r] = stray[r]
  <2>1. Remnant(script[r]) = <<>>
    BY <1>2, LooksChangeNothing, NothingLeft DEF OnlyLooks
  <2>2. QED
    BY <2>1, NothingLeft DEF IInv, Shape
<1>3. pc[r] \in Reading /\ Kept(r) => stray'[r] = <<>>
  BY <1>2 DEF Kept, Untouched
<1>4. QED
  BY <1>1, <1>3, CommandEndsInv DEF IInv, Shape

\* A lost connection leaves what the server still works off.
LEMMA LoseInv ==
    ASSUME IInv, NEW r \in Runs, Lose(r)
    PROVE  IInv'
BY GivenUpInv DEF Lose, planVars

\* So does a command that is stopped.
LEMMA AbandonInv ==
    ASSUME IInv, NEW r \in Runs, Abandon(r)
    PROVE  IInv'
BY GivenUpInv DEF Abandon, planVars, historyVars

-----------------------------------------------------------------------------
(* The steps that move a run on.                                           *)

\* Entering a stage keeps everything about the other runs; what it needs is
\* that the new stage is entitled to be there.
LEMMA EnterKeepsInv ==
    ASSUME IInv, NEW r \in Runs, NEW stage, OnRecord(r), Enter(r, stage), Shape',
           stage \in Commands \cup Params \cup Reports,
           UNCHANGED <<db, stray, wants, spool, safety, before, overlapped>>,
           \A q \in Runs \ {r} : existed'[q] = existed[q],
           ~overlapped /\ Kept(r) =>
               /\ stage \in Reading => Untouched(r)
               /\ stage = "store" => spool[r] = before[r]
               /\ stage \in (Commands \cup Params) \ Reading /\ wants[r] /\ existed'[r] =>
                      safety[r] = before[r]
    PROVE  IInv'
<1>1. /\ pc'[r] = stage /\ reply'[r] = "none"
      /\ script'[r] = <<>> \/ script'[r] = Script(r, stage)
      /\ \A q \in Runs \ {r} : pc'[q] = pc[q] /\ script'[q] = script[q] /\ reply'[q] = reply[q]
  BY DEF Enter, IInv, Shape
<1>2. Quiet'
  BY <1>1, NoScript DEF IInv, Quiet
<1>3. \A q \in Runs \ {r} : OnRecord(q)' <=> OnRecord(q)
  BY <1>1 DEF OnRecord, Active
<1>4. Alone'
  BY <1>3, OneOnRecord DEF IInv, Alone
<1>5. ASSUME ~overlapped, OnRecord(r)' PROVE Kept(r)'
  <2>1. Kept(r)
    BY <1>5 DEF IInv, KeptInv
  <2>2. stage \in Commands \cup Params
    BY <1>1, <1>5 DEF OnRecord, Active, Reports, Commands, Stoppable, Recovery, Params
  <2>3. stage \in Reading => OnlyLooks(r)'
    BY <1>1, ReadingScript DEF OnlyLooks
  <2>4. QED
    BY <1>1, <1>5, <2>1, <2>2, <2>3 DEF Kept, Untouched, Succeeded, HasSafety
<1>6. KeptInv'
  BY <1>3, <1>5, OneOnRecord DEF IInv, KeptInv
<1>7. QED
  BY <1>2, <1>4, <1>6 DEF IInv

\* Where a run goes from each stage.
LEMMA FirstStage ==
    ASSUME NEW r
    PROVE  First(r) \in (Commands \cup Params \cup Reports) \ Reading
BY DEF First, Commands, Stoppable, Recovery, Params, Reports, Reading

\* Where a stage that reads leads.
LEMMA AfterReading ==
    ASSUME NEW r
    PROVE  /\ pc[r] = "meta" => OnSuccess(r) = IF wants[r] /\ reply[r] = "yes" THEN "dump" ELSE First(r)
           /\ pc[r] = "dump" => OnSuccess(r) = IF spool[r] = "cut" THEN "unchanged" ELSE "store"
           /\ pc[r] = "store" => OnSuccess(r) = "recordSafety"
           /\ pc[r] \in Reading => OnFailure(r) = "unchanged"
BY DEF OnSuccess, OnFailure, AfterDump, Reading

\* From the stages that change the database no way leads back to the reading.
LEMMA AfterWork ==
    ASSUME NEW r, pc[r] \in Commands \ Reading
    PROVE  /\ OnSuccess(r) \in (Commands \cup Params \cup Reports) \ Reading
           /\ OnFailure(r) \in (Commands \cup Params \cup Reports) \ Reading
BY DEF OnSuccess, OnFailure, AfterCheck, AfterChange, AfterDropFailed, Commands, Stoppable,
       Recovery, Params, Reports, Reading

\* A run enters its next stage: with its safety snapshot, or without need of one.
LEMMA ProceedInv ==
    ASSUME IInv, NEW r \in Runs, Proceed(r)
    PROVE  IInv'
<1> DEFINE stage == IF reply[r] \in {"exit", "lost"} THEN OnFailure(r) ELSE OnSuccess(r)
<1>1. /\ pc[r] \in Commands /\ reply[r] # "none" /\ Enter(r, stage)
      /\ existed' = [existed EXCEPT ![r] = IF pc[r] = "meta" THEN reply[r] = "yes" ELSE existed[r]]
      /\ UNCHANGED <<db, stray, wants, spool, safety, before, overlapped>>
  BY DEF Proceed, serverVars
<1>2. Shape' /\ \A q \in Runs \ {r} : existed'[q] = existed[q]
  BY <1>1 DEF IInv, Shape, Enter
<1>3. existed'[r] = IF pc[r] = "meta" THEN reply[r] = "yes" ELSE existed[r]
  BY <1>1 DEF IInv, Shape
<1>4. stage \in Commands \cup Params \cup Reports
  <2>1. CASE pc[r] \in Reading
    BY <2>1, AfterReading, FirstStage DEF Commands, Stoppable, Params, Reports, Reading
  <2>2. CASE pc[r] \notin Reading
    BY <1>1, <2>2, AfterWork
  <2>3. QED
    BY <2>1, <2>2
<1>5. ASSUME ~overlapped, Kept(r)
      PROVE  /\ stage \in Reading => Untouched(r)
             /\ stage = "store" => spool[r] = before[r]
             /\ stage \in (Commands \cup Params) \ Reading /\ wants[r] /\ existed'[r] =>
                    safety[r] = before[r]
  <2>1. CASE reply[r] \in {"exit", "lost"} /\ pc[r] \in Reading
    BY <2>1, AfterReading DEF Commands, Stoppable, Recovery, Params, Reading
  <2>2. CASE Succeeded(r) /\ pc[r] = "meta"
    <3>1. stage = IF wants[r] /\ reply[r] = "yes" THEN "dump" ELSE First(r)
      BY <2>2, AfterReading DEF Succeeded
    <3>2. CASE wants[r] /\ reply[r] = "yes"
      BY <1>5, <2>2, <3>1, <3>2 DEF Kept, Reading
    <3>3. CASE ~(wants[r] /\ reply[r] = "yes")
      BY <1>3, <2>2, <3>1, <3>3, FirstStage DEF Reading
    <3>4. QED
      BY <3>2, <3>3
  <2>3. CASE Succeeded(r) /\ pc[r] = "dump"
    BY <1>5, <2>3, AfterReading DEF Succeeded, Kept, Reading, Commands, Stoppable, Recovery, Params
  <2>4. CASE Succeeded(r) /\ pc[r] = "store"
    BY <1>5, <2>4, AfterReading DEF Succeeded, Kept, Reading
  <2>5. CASE pc[r] \notin Reading
    <3>1. stage \notin Reading
      BY <1>1, <2>5, AfterWork
    <3>2. HasSafety(r) => safety[r] = before[r]
      BY <1>1, <1>5, <2>5, OnRecordStages DEF Kept
    <3>3. QED
      BY <1>3, <2>5, <3>1, <3>2 DEF HasSafety, Reading
  <2>6. QED
    BY <1>1, <2>1, <2>2, <2>3, <2>4, <2>5 DEF Succeeded, Reading
<1>6. QED
  BY <1>1, <1>2, <1>4, <1>5, EnterKeepsInv, OnRecordStages

\* A row that is written, or is not, changes no database.
LEMMA RecordParamInv ==
    ASSUME IInv, NEW r \in Runs, RecordParam(r)
    PROVE  IInv'
<1>1. /\ pc[r] \in Params /\ Enter(r, AfterParam(r))
      /\ UNCHANGED <<db, stray, wants, existed, spool, safety, before, overlapped>>
  BY DEF RecordParam, serverVars
<1>2. Shape'
  BY <1>1 DEF IInv, Shape, Enter
<1>3. AfterParam(r) \in (Commands \cup Params \cup Reports) \ Reading
  BY FirstStage DEF AfterParam, Commands, Stoppable, Reading
<1>4. Kept(r) => (wants[r] /\ existed[r] => safety[r] = before[r])
  BY <1>1, OnRecordStages DEF Kept, HasSafety
<1>5. AfterParam(r) # "store"
  BY <1>3 DEF Reading
<1>6. QED
  BY <1>1, <1>2, <1>3, <1>4, <1>5, EnterKeepsInv, OnRecordStages

-----------------------------------------------------------------------------
(* The steps around a run.                                                 *)

\* Whether the database exists is only asked.
LEMMA CheckInv ==
    ASSUME IInv, NEW r \in Runs, Check(r)
    PROVE  IInv'
<1>1. /\ pc[r] = "idle" /\ pc' = [pc EXCEPT ![r] = "checked"]
      /\ UNCHANGED <<db, stray, script, reply, wants, existed, spool, safety, before, overlapped>>
  BY DEF Check, serverVars, planVars, historyVars
<1>2. Shape' /\ Quiet'
  BY <1>1 DEF IInv, Shape, Quiet, Commands, Stoppable, Recovery
<1>3. \A q \in Runs : /\ OnRecord(q)' => OnRecord(q) /\ pc'[q] = pc[q]
  BY <1>1 DEF OnRecord, Active, Commands, Stoppable, Recovery, Params, IInv, Shape
<1>4. Alone'
  BY <1>1, <1>3 DEF IInv, Alone
<1>5. KeptInv'
  BY <1>1, <1>3 DEF IInv, KeptInv, Kept, Untouched, OnlyLooks, Succeeded, HasSafety
<1>6. QED
  BY <1>2, <1>4, <1>5 DEF IInv

\* A run that begins while another is on record, or while something of one may
\* still happen, is an overlap.
LEMMA BeginInv ==
    ASSUME IInv, NEW r \in Runs, Begin(r)
    PROVE  IInv'
<1>1. /\ pc[r] = "checked" /\ Enter(r, "meta") /\ \E b \in BOOLEAN : wants' = [wants EXCEPT ![r] = b]
      /\ before' = [before EXCEPT ![r] = db["live"]]
      /\ overlapped' = (overlapped \/ \E q \in Runs : OnRecord(q) \/ stray[q] # <<>>)
      /\ UNCHANGED <<db, stray, existed, spool, safety>>
  BY DEF Begin, serverVars
<1>2. Shape'
  BY <1>1 DEF IInv, Shape, Enter
<1>3. /\ pc'[r] = "meta" /\ before'[r] = db["live"]
      /\ script'[r] = <<>> \/ script'[r] = Script(r, "meta")
      /\ \A q \in Runs \ {r} : pc'[q] = pc[q] /\ script'[q] = script[q]
  BY <1>1 DEF Enter, IInv, Shape
<1>4. Quiet'
  BY <1>3 DEF IInv, Quiet, Commands, Stoppable
<1>5. ASSUME ~overlapped' PROVE \A q \in Runs : (q # r => ~OnRecord(q)') /\ stray'[q] = <<>>
  BY <1>1, <1>3, <1>5 DEF OnRecord, Active
<1>6. Alone'
  BY <1>5 DEF Alone
<1>7. ASSUME ~overlapped' PROVE Kept(r)'
  <2>1. OnlyLooks(r)'
    BY <1>3, ReadingScript DEF OnlyLooks, Reading
  <2>2. QED
    BY <1>1, <1>3, <1>5, <1>7, <2>1 DEF Kept, Untouched, Reading
<1>8. KeptInv'
  BY <1>5, <1>7 DEF KeptInv
<1>9. QED
  BY <1>2, <1>4, <1>6, <1>8 DEF IInv

\* What a run left may still happen, but not beside another run, nor to one that
\* has not changed anything yet.
LEMMA StrayStatementInv ==
    ASSUME IInv, NEW r \in Runs, StrayStatement(r)
    PROVE  IInv'
<1>1. /\ stray[r] # <<>>
      /\ UNCHANGED <<pc, script, reply, wants, existed, spool, safety, before, overlapped>>
  BY DEF StrayStatement, commandVars, planVars, historyVars
<1>2. DOMAIN stray' = Runs /\ \A q \in Runs : stray[q] = <<>> => stray'[q] = <<>>
  <2>1. CASE Effect(Head(stray[r]), [stray EXCEPT ![r] = Tail(@)])
    <3>1. \A q \in Runs : stray[q] = <<>> => [stray EXCEPT ![r] = Tail(@)][q] = <<>>
      BY <1>1 DEF IInv, Shape
    <3>2. QED
      BY <2>1, <3>1, StrayOnlyShrinks DEF Effect, StrayAfter
  <2>2. CASE stray' = [stray EXCEPT ![r] = <<>>]
    BY <2>2 DEF IInv, Shape
  <2>3. QED
    BY <2>1, <2>2 DEF StrayStatement
<1>3. Shape' /\ Quiet'
  BY <1>1, <1>2 DEF IInv, Shape, Quiet
<1>4. \A q \in Runs : OnRecord(q)' <=> OnRecord(q)
  BY <1>1 DEF OnRecord, Active
<1>5. Alone'
  BY <1>1, <1>2, <1>4 DEF IInv, Alone
<1>6. ASSUME ~overlapped, NEW q \in Runs, OnRecord(q) PROVE Kept(q)'
  <2>1. q = r
    BY <1>1, <1>6, OneOnRecord
  <2>2. Kept(r) /\ ~Untouched(r)
    BY <1>1, <1>6, <2>1 DEF IInv, KeptInv, Untouched
  <2>3. QED
    BY <1>1, <2>1, <2>2 DEF Kept, HasSafety, Reading
<1>7. KeptInv'
  BY <1>1, <1>4, <1>6 DEF KeptInv
<1>8. QED
  BY <1>3, <1>5, <1>7 DEF IInv

\* A stop is a request.
LEMMA StopInv ==
    ASSUME IInv, NEW r \in Runs, Stop(r)
    PROVE  IInv'
BY DEF Stop, serverVars, commandVars, planVars, historyVars, IInv, Shape, Quiet, Alone, KeptInv,
       OnRecord, Active, Kept, Untouched, OnlyLooks, Succeeded, HasSafety

\* A crash takes the runs on record from where they were to "dead".
LEMMA CrashInv ==
    ASSUME IInv, Crash
    PROVE  IInv'
<1>1. /\ stray' = [r \in Runs |-> Leave(r, Orphan(script[r]))]
      /\ pc' = [r \in Runs |-> IF Active(r) THEN "dead"
                               ELSE IF pc[r] = "checked" THEN "idle" ELSE pc[r]]
      /\ script' = [r \in Runs |-> <<>>] /\ reply' = [r \in Runs |-> "none"]
      /\ UNCHANGED <<db, wants, existed, spool, safety, before, overlapped>>
  BY DEF Crash, planVars, historyVars
<1>2. Shape' /\ Quiet'
  BY <1>1 DEF IInv, Shape, Quiet
<1>3. \A r \in Runs : OnRecord(r)' => OnRecord(r) /\ pc'[r] = "dead"
  BY <1>1 DEF OnRecord, Active, Commands, Stoppable, Recovery, Params
<1>4. \A r \in Runs : OnlyLooks(r) => stray'[r] = stray[r]
  <2> TAKE r \in Runs
  <2> HAVE OnlyLooks(r)
  <2>1. Orphan(script[r]) = <<>>
    BY LooksChangeNothing, NothingLeft DEF OnlyLooks
  <2>2. QED
    BY <1>1, <2>1, NothingLeft
<1>5. \A r \in Runs : pc[r] \notin Commands => OnlyLooks(r)
  BY DEF IInv, Quiet, OnlyLooks
<1>6. Alone'
  BY <1>1, <1>3, <1>4, <1>5, OneOnRecord, OnRecordStages DEF IInv, Alone
<1>7. ASSUME ~overlapped, NEW r \in Runs, OnRecord(r)' PROVE Kept(r)'
  <2>1. Kept(r) /\ OnRecord(r) /\ pc'[r] = "dead"
    BY <1>3, <1>7 DEF IInv, KeptInv
  <2>2. CASE pc[r] \in Reading
    <3>1. Untouched(r)'
      BY <1>1, <1>4, <2>1, <2>2 DEF Kept, Untouched
    <3>2. QED
      BY <2>1, <3>1 DEF Kept, Reading
  <2>3. CASE pc[r] = "dead"
    <3>1. Untouched(r) => Untouched(r)'
      BY <1>1, <1>4, <1>5, <2>3, OnRecordStages DEF Untouched
    <3>2. QED
      BY <1>1, <2>1, <2>3, <3>1 DEF Kept, Reading, HasSafety
  <2>4. CASE pc[r] \notin Reading \cup {"dead"}
    BY <1>1, <2>1, <2>4 DEF Kept, Reading, HasSafety
  <2>5. QED
    BY <2>2, <2>3, <2>4
<1>8. KeptInv'
  BY <1>1, <1>7 DEF KeptInv
<1>9. QED
  BY <1>2, <1>6, <1>8 DEF IInv

\* The boot settles the dead; what is no longer on record need not be kept.
LEMMA ReconcileInv ==
    ASSUME IInv, Reconcile
    PROVE  IInv'
<1>1. /\ pc' = [r \in Runs |-> IF pc[r] = "dead" THEN "interrupted" ELSE pc[r]]
      /\ UNCHANGED <<db, stray, script, reply, wants, existed, spool, safety, before, overlapped>>
  BY DEF Reconcile, serverVars, planVars
<1>2. Shape' /\ Quiet'
  BY <1>1, OnRecordStages DEF IInv, Shape, Quiet
<1>3. \A r \in Runs : OnRecord(r)' => OnRecord(r) /\ pc'[r] = pc[r]
  BY <1>1 DEF OnRecord, Active, Commands, Stoppable, Recovery, Params
<1>4. Alone'
  BY <1>1, <1>3 DEF IInv, Alone
<1>5. KeptInv'
  BY <1>1, <1>3 DEF IInv, KeptInv, Kept, Untouched, OnlyLooks, Succeeded, HasSafety
<1>6. QED
  BY <1>2, <1>4, <1>5 DEF IInv

-----------------------------------------------------------------------------
\* Every step keeps the invariant.
LEMMA NextInv == IInv /\ [Next]_vars => IInv'
<1> SUFFICES ASSUME IInv, [Next]_vars PROVE IInv'
  OBVIOUS
<1>1. CASE UNCHANGED vars
  BY <1>1 DEF vars, serverVars, commandVars, planVars, historyVars, IInv, Shape, Quiet, Alone,
              KeptInv, OnRecord, Active, Kept, Untouched, OnlyLooks, Succeeded, HasSafety
<1>2. ASSUME NEW r \in Runs,
             Check(r) \/ Begin(r) \/ StatementDone(r) \/ StatementRefused(r) \/ DumpCut(r)
      PROVE  IInv'
  BY <1>2, CheckInv, BeginInv, StatementDoneInv, StatementRefusedInv, DumpCutInv
<1>3. ASSUME NEW r \in Runs,
             ImportCut(r) \/ Lose(r) \/ Abandon(r) \/ StrayStatement(r)
      PROVE  IInv'
  BY <1>3, ImportCutInv, LoseInv, AbandonInv, StrayStatementInv
<1>4. ASSUME NEW r \in Runs, Proceed(r) \/ RecordParam(r) \/ Stop(r) PROVE IInv'
  BY <1>4, ProceedInv, RecordParamInv, StopInv
<1>5. CASE Crash \/ Reconcile
  BY <1>5, CrashInv, ReconcileInv
<1>6. QED
  BY <1>1, <1>2, <1>3, <1>4, <1>5 DEF Next

\* Whatever commands are refused, lost, cut short, stopped or outlive the
\* program, a restore with a safety backup that has the server to itself has
\* either not changed the database or holds all of it in the safety snapshot
\* (coordinator_db.go, the order of backupDatabase and what replaces).
THEOREM NothingIsLost == Spec => []NothingLost
<1>1. Init => IInv
  BY InitInv
<1>2. IInv /\ [Next]_vars => IInv'
  BY NextInv
<1>3. IInv => NothingLost
  BY InvImpliesNothingLost
<1>4. QED
  BY <1>1, <1>2, <1>3, PTL DEF Spec

-----------------------------------------------------------------------------
(* What the database is at each stage of a run that has the server to      *)
(* itself and whose connections hold.                                      *)

\* What run r and its remnants may send.
Own(r) == [op : Changing \cup {"look", "dump", "store", "props"}, on : {r, "live"}, what : Contents]

\* A cut dump is not saved, so that what a script imports is a content.
OwnInv ==
    \A r \in Runs :
        /\ script[r] \in Seq(Own(r)) /\ stray[r] \in Seq(Own(r))
        /\ safety[r] \in Contents
        /\ pc[r] = "store" => spool[r] # "cut"

Beside == {"createTmp", "importTmp", "props", "cleanup", "reopen", "dropTmp"}
Swapping == {"swap", "check", "rename"}
Replacing == {"drop", "create", "import"}
PuttingBack == {"dropBack", "createBack", "importBack"}

\* Each engine has stages of its own, the last ones with a safety snapshot; the
\* context of the swap ends only when a connection does.
EngineInv ==
    /\ ~broken => \A r \in Runs : ~expired[r]
    /\ \A r \in Runs :
        /\ pc[r] \in Beside \cup Swapping \cup {"recordTmp"} => engine = "postgres"
        /\ pc[r] \in Replacing \cup PuttingBack => engine = "mysql"
        /\ pc[r] \in PuttingBack => HasSafety(r)
        /\ pc[r] \in {"idle", "checked"} => ~existed[r]

\* Statements that leave the contents of live alone.
Aside(r) == {s \in Own(r) : (s.on = r /\ s.op # "rename") \/ s.op \notin {"drop", "create", "load", "rename"}}
OnLive(r) == {s \in Own(r) : s.on = "live"}

\* What is left of a swap.
SwapRest(r) == {<<>>, <<Do("rename", r)>>, <<Do("drop", "live"), Do("rename", r)>>,
                <<Do("close", "live"), Do("drop", "live"), Do("rename", r)>>}

Imports(c) == {<<>>, <<Load("live", c)>>, <<Load("live", "part"), Load("live", c)>>}

\* The import is whole and waits for its place.
Ready(r) == db[r] = "dump" /\ db["live"] \in {before[r], "absent"}
InPlace(r) == db["live"] = "dump" /\ script[r] = <<>> /\ stray[r] = <<>>

\* PostgreSQL: aside first, then swapped in.
PlaceBeside(r) ==
    /\ pc[r] \in Params => Untouched(r)
    /\ pc[r] \in Beside => db["live"] = before[r] /\ script[r] \in Seq(Aside(r)) /\ stray[r] \in Seq(Aside(r))
    /\ pc[r] \in {"createTmp", "importTmp", "props"} /\ reply[r] # "lost" => stray[r] = <<>>
    /\ pc[r] = "importTmp" => script[r] \in {<<>>, <<Load(r, "dump")>>}
    /\ pc[r] = "importTmp" /\ Succeeded(r) => db[r] = "dump"
    /\ pc[r] = "props" => db[r] = "dump" /\ stray[r] = <<>> /\ script[r] \in {<<>>, <<Do("props", "live")>>}

PlaceSwap(r) ==
    /\ pc[r] \in Swapping =>
        \/ Ready(r) /\ stray[r] = <<>> /\ reply[r] # "lost"
        \/ InPlace(r) /\ reply[r] = "ok"
    /\ pc[r] \in {"swap", "rename"} => script[r] \in SwapRest(r)
    /\ pc[r] \in {"swap", "rename"} /\ Succeeded(r) => InPlace(r)
    /\ pc[r] = "check" => Ready(r) /\ script[r] \in {<<>>, <<Do("look", "live")>>}
    /\ pc[r] = "check" /\ reply[r] = "yes" => db["live"] = before[r]
    /\ pc[r] = "dead" /\ engine = "postgres" =>
        \/ db["live"] = before[r] /\ stray[r] \in Seq(Aside(r))
        \/ Ready(r) /\ stray[r] \in SwapRest(r)
        \/ InPlace(r)

\* MySQL: dropped, created and imported, and the same again to put it back.
PlaceReplace(r) ==
    /\ pc[r] \in Replacing => /\ script[r] \in Seq(OnLive(r)) /\ stray[r] \in Seq(OnLive(r))
                              /\ reply[r] # "lost" => stray[r] = <<>>
    /\ pc[r] = "drop" => script[r] \in {<<>>, <<Do("drop", "live")>>}
    /\ pc[r] = "drop" /\ reply[r] \in {"none", "exit"} => db["live"] = before[r]
    /\ pc[r] = "import" => script[r] \in Imports("dump")
    /\ pc[r] = "import" /\ Succeeded(r) => db["live"] = "dump"
    /\ pc[r] = "dropBack" =>
        /\ stray[r] \in Seq(OnLive(r)) /\ script[r] \in {<<>>, <<Do("drop", "live")>>}
        /\ Succeeded(r) => stray[r] = <<>>
    /\ pc[r] \in {"createBack", "importBack"} => stray[r] = <<>>
    /\ pc[r] = "importBack" => script[r] \in Imports(safety[r])
    /\ pc[r] = "importBack" /\ Succeeded(r) => db["live"] = safety[r]

Place(r) == PlaceBeside(r) /\ PlaceSwap(r) /\ PlaceReplace(r)

PlaceInv == ~overlapped /\ ~broken => \A r \in Runs : OnRecord(r) => Place(r)

\* A run whose row does not name its temporary database has none, and nothing
\* that would make one.
NoTemporary(r) ==
    /\ db[r] = "absent" /\ pc[r] \notin Beside \cup Swapping
    /\ script[r] \in Seq(OnLive(r)) /\ stray[r] \in Seq(OnLive(r))

TrailInv ==
    faults = 0 => \A r \in Runs :
        /\ "recordTmp" \notin recorded[r] => NoTemporary(r)
        /\ ~overlapped /\ OnRecord(r) /\ HasSafety(r) /\ "recordSafety" \notin recorded[r] =>
               Untouched(r) /\ pc[r] \in Reading \cup {"recordSafety", "dead"}

TypeInv == TypeOK /\ OwnInv

-----------------------------------------------------------------------------
(* Types.                                                                  *)

\* What is a run's own is a statement.
LEMMA OwnTyped ==
    ASSUME NEW r \in Runs
    PROVE  Own(r) \subseteq Statements /\ \A q \in Seq(Own(r)) : q \in Seq(Statements)
<1>1. Own(r) \subseteq Statements
  <2> SUFFICES ASSUME NEW s \in Own(r) PROVE s \in Statements
    OBVIOUS
  <2> QED BY DEF Own, Statements
<1> HIDE DEF Own, Statements
<1> QED BY <1>1, SeqMonotonic

\* The statements of a sequence are its first and the rest.
LEMMA FirstAndRest ==
    ASSUME NEW S, NEW q \in Seq(S), q # <<>>
    PROVE  Head(q) \in S /\ Tail(q) \in Seq(S)
OBVIOUS

\* The statements of the scripts are the run's own.
LEMMA StatementTyped ==
    ASSUME NEW r \in Runs, NEW n \in {r, "live"}
    PROVE  /\ \A op \in Changing \cup {"look", "dump", "store", "props"} : Do(op, n) \in Own(r)
           /\ \A c \in Contents : Load(n, c) \in Own(r)
BY DEF Do, Load, Own, Changing, Contents

\* So is every script.
LEMMA ScriptTyped ==
    ASSUME NEW r \in Runs, NEW stage, safety[r] \in Contents
    PROVE  Script(r, stage) \in Seq(Own(r))
<1>1. /\ \A op \in Changing \cup {"look", "dump", "store", "props"}, n \in {r, "live"} : Do(op, n) \in Own(r)
      /\ \A c \in Contents, n \in {r, "live"} : Load(n, c) \in Own(r)
  BY StatementTyped
<1>2. /\ \A n \in {r, "live"} : /\ Do("look", n) \in Own(r) /\ Do("dump", n) \in Own(r)
                                /\ Do("store", n) \in Own(r) /\ Do("props", n) \in Own(r)
                                /\ Do("close", n) \in Own(r) /\ Do("open", n) \in Own(r)
                                /\ Do("drop", n) \in Own(r) /\ Do("create", n) \in Own(r)
                                /\ Do("rename", n) \in Own(r)
      /\ Load(r, "dump") \in Own(r) /\ Load("live", "dump") \in Own(r)
      /\ Load("live", "part") \in Own(r) /\ Load("live", safety[r]) \in Own(r)
  BY <1>1 DEF Changing, Contents
<1> HIDE DEF Own
<1>3. CASE stage = "swap"
  <2>1. <<Do("rename", r)>> \in Seq(Own(r))
    BY <1>2
  <2>2. <<Do("close", "live"), Do("drop", "live")>> \in Seq(Own(r))
    BY <1>2
  <2>3. (IF existed[r] THEN <<Do("close", "live"), Do("drop", "live")>> ELSE <<>>) \in Seq(Own(r))
    BY <2>2
  <2> QED BY <1>3, <2>1, <2>3 DEF Script
<1>4. CASE stage \in {"meta", "check", "dump", "store", "props"}
  BY <1>2, <1>4 DEF Script
<1>5. CASE stage \in {"createTmp", "importTmp", "dropTmp", "cleanup", "rename", "reopen"}
  BY <1>2, <1>5 DEF Script
<1>6. CASE stage \in {"drop", "dropBack", "create", "createBack", "import", "importBack"}
  BY <1>2, <1>6 DEF Script
<1>7. CASE stage \notin {"meta", "check", "dump", "store", "props", "createTmp", "importTmp", "dropTmp",
                         "cleanup", "rename", "reopen", "drop", "dropBack", "create", "createBack",
                         "import", "importBack", "swap"}
  BY <1>7 DEF Script
<1> QED BY <1>3, <1>4, <1>5, <1>6, <1>7

\* What is left of a command is of the same run.
LEMMA RemnantTyped ==
    ASSUME NEW r \in Runs, NEW q \in Seq(Own(r)), stray[r] \in Seq(Own(r))
    PROVE  /\ Orphan(q) \in Seq(Own(r)) /\ Remnant(q) \in Seq(Own(r))
           /\ Leave(r, Orphan(q)) \in Seq(Own(r)) /\ Leave(r, Remnant(q)) \in Seq(Own(r))
<1>1. Orphan(q) \in Seq(Own(r))
  <2>1. CASE q # <<>> /\ Head(q).op = "load"
    <3>1. Head(q) \in Own(r)
      BY <2>1, FirstAndRest
    <3>2. Head(q).on \in {r, "live"}
      BY <3>1 DEF Own
    <3>3. Load(Head(q).on, "part") \in Own(r)
      BY <3>2, StatementTyped DEF Contents
    <3> QED BY <2>1, <3>3 DEF Orphan
  <2>2. CASE ~(q # <<>> /\ Head(q).op = "load")
    BY <2>2 DEF Orphan
  <2> QED BY <2>1, <2>2
<1>2. Remnant(q) \in Seq(Own(r))
  BY <1>1, FirstAndRest DEF Remnant
<1>3. \A p \in Seq(Own(r)) : Leave(r, p) \in Seq(Own(r))
  BY DEF Leave
<1> QED BY <1>1, <1>2, <1>3

\* The effect of a statement keeps the server well typed.
LEMMA EffectTyped ==
    ASSUME TypeInv, NEW r \in Runs, NEW s \in Own(r), NEW q, DOMAIN q = Runs,
           \A o \in Runs : q[o] \in Seq(Own(o)), Effect(s, q)
    PROVE  /\ db' \in [Runs \cup {"live"} -> Contents] /\ closed' \in BOOLEAN /\ engine' = engine
           /\ stray' \in [Runs -> Seq(Statements)]
           /\ \A o \in Runs : stray'[o] \in Seq(Own(o))
           /\ \A n \in (Runs \cup {"live"}) \ {r, "live"} : db'[n] = db[n]
<1>1. /\ s.on \in {r, "live"} /\ s.what \in Contents /\ db \in [Runs \cup {"live"} -> Contents]
      /\ db[s.on] \in Contents /\ "absent" \in Contents /\ "empty" \in Contents
  BY DEF TypeInv, TypeOK, Own, Contents
<1>2. db' \in [Runs \cup {"live"} -> Contents]
  BY <1>1 DEF Effect, DbAfter
<1>3. closed' \in BOOLEAN /\ engine' = engine
  BY DEF Effect, ClosedAfter, TypeInv, TypeOK
<1>4. \A o \in Runs : stray'[o] \in Seq(Own(o))
  BY DEF Effect, StrayAfter
<1>5. stray' \in [Runs -> Seq(Statements)]
  BY <1>4, OwnTyped DEF Effect, StrayAfter
<1>6. \A n \in (Runs \cup {"live"}) \ {r, "live"} : db'[n] = db[n]
  BY <1>1 DEF Effect, DbAfter
<1> QED BY <1>2, <1>3, <1>4, <1>5, <1>6

\* What a run sends next is its own.
CommandsTyped ==
    /\ pc \in [Runs -> {"idle", "checked", "dead"} \cup Commands \cup Params \cup Reports]
    /\ script \in [Runs -> Seq(Statements)]
    /\ reply \in [Runs -> {"none", "ok", "yes", "no", "exit", "lost"}]
    /\ \A r \in Runs : script[r] \in Seq(Own(r))

\* A run that enters a stage is well typed.
LEMMA EnterTyped ==
    ASSUME TypeInv, NEW r \in Runs, NEW stage \in Commands \cup Params \cup Reports, Enter(r, stage)
    PROVE  CommandsTyped' /\ pc'[r] = stage /\ \A q \in Runs \ {r} : pc'[q] = pc[q]
<1>1. (IF CanceledIn(r, stage) THEN <<>> ELSE Script(r, stage)) \in Seq(Own(r))
  BY ScriptTyped DEF TypeInv, OwnInv
<1>2. \A q \in Runs : script'[q] \in Seq(Own(q))
  BY <1>1 DEF Enter, TypeInv, TypeOK, OwnInv
<1>3. script' \in [Runs -> Seq(Statements)]
  BY <1>1, OwnTyped DEF Enter, TypeInv, TypeOK
<1> QED BY <1>2, <1>3 DEF CommandsTyped, Enter, TypeInv, TypeOK

\* So is one whose command ends.
LEMMA EndsTyped ==
    ASSUME TypeInv, NEW r \in Runs, NEW answer \in {"ok", "exit", "lost"}, Ends(r, answer), UNCHANGED pc
    PROVE  CommandsTyped'
<1>1. \A q \in Runs : script'[q] \in Seq(Own(q))
  BY DEF Ends, TypeInv, TypeOK, OwnInv
<1>2. script' \in [Runs -> Seq(Statements)]
  BY DEF Ends, TypeInv, TypeOK
<1> QED BY <1>1, <1>2 DEF CommandsTyped, Ends, TypeInv, TypeOK

\* The rest of the state.
ServerTyped ==
    /\ db \in [Runs \cup {"live"} -> Contents] /\ closed \in BOOLEAN /\ engine \in {"postgres", "mysql"}
    /\ stray \in [Runs -> Seq(Statements)]
    /\ \A r \in Runs : stray[r] \in Seq(Own(r))

SavedTyped ==
    /\ spool \in [Runs -> Contents \cup {"cut"}]
    /\ safety \in [Runs -> Contents \cup {"cut"}]
    /\ \A r \in Runs : safety[r] \in Contents

RunTyped ==
    /\ stopped \in [Runs -> BOOLEAN] /\ expired \in [Runs -> BOOLEAN]
    /\ wants \in [Runs -> BOOLEAN] /\ existed \in [Runs -> BOOLEAN]
    /\ recorded \in [Runs -> SUBSET Params]
    /\ up \in BOOLEAN /\ overlapped \in BOOLEAN /\ broken \in BOOLEAN
    /\ before \in [Runs -> Contents] /\ left \in [Runs -> Contents]
    /\ ignored \in [Runs -> SUBSET {"check", "reopen"}]
    /\ faults \in 0 .. MaxFaults /\ crashes \in 0 .. MaxCrashes

StoreTyped == \A r \in Runs : pc[r] = "store" => spool[r] # "cut"

\* The types, part by part.
LEMMA TypeParts == TypeInv <=> CommandsTyped /\ ServerTyped /\ SavedTyped /\ RunTyped /\ StoreTyped
BY DEF TypeInv, TypeOK, OwnInv, CommandsTyped, ServerTyped, SavedTyped, RunTyped, StoreTyped

\* The same of the next state.
LEMMA TypePartsNext ==
    TypeInv' <=> CommandsTyped' /\ ServerTyped' /\ SavedTyped' /\ RunTyped' /\ StoreTyped'
BY DEF TypeInv, TypeOK, OwnInv, CommandsTyped, ServerTyped, SavedTyped, RunTyped, StoreTyped

\* Faults are counted up to their bound.
LEMMA FaultTyped ==
    ASSUME TypeInv, Fault \/ UNCHANGED faults
    PROVE  faults' \in 0 .. MaxFaults
BY BoundsAssumption DEF TypeInv, TypeOK, Fault

\* The types hold at first.
LEMMA InitTypes == Init => TypeInv
<1> SUFFICES ASSUME Init PROVE TypeInv
  OBVIOUS
<1>1. CommandsTyped /\ ServerTyped /\ StoreTyped
  <2>1. \A r \in Runs : script[r] = <<>> /\ stray[r] = <<>> /\ pc[r] = "idle"
    BY DEF Init
  <2>2. db \in [Runs \cup {"live"} -> Contents]
    BY DEF Init, Contents
  <2>3. \A r \in Runs : <<>> \in Seq(Own(r)) /\ <<>> \in Seq(Statements)
    OBVIOUS
  <2>4. script \in [Runs -> Seq(Statements)] /\ stray \in [Runs -> Seq(Statements)]
    <3>1. <<>> \in Seq(Statements)
      OBVIOUS
    <3> HIDE DEF Statements
    <3> QED BY <3>1 DEF Init
  <2>5. CommandsTyped
    BY <2>1, <2>3, <2>4 DEF Init, CommandsTyped
  <2>6. ServerTyped
    BY <2>1, <2>2, <2>3, <2>4 DEF Init, ServerTyped
  <2>7. StoreTyped
    BY <2>1 DEF StoreTyped
  <2> QED BY <2>5, <2>6, <2>7
<1>2. SavedTyped
  BY DEF Init, SavedTyped, Contents
<1>3. RunTyped
  <2>1. 0 \in 0 .. MaxFaults /\ 0 \in 0 .. MaxCrashes
    BY BoundsAssumption
  <2> QED BY <2>1 DEF Init, RunTyped, Contents
<1> QED BY <1>1, <1>2, <1>3, TypeParts

\* A statement does what is typed to what is typed.
LEMMA StatementDoneTypes == ASSUME TypeInv, NEW r \in Runs, StatementDone(r) PROVE TypeInv'
<1> DEFINE s == Head(script[r])
<1>1. /\ script[r] # <<>> /\ script[r] \in Seq(Own(r)) /\ s \in Own(r) /\ Effect(s, stray)
      /\ script' = [script EXCEPT ![r] = Tail(script[r])]
      /\ reply' = [reply EXCEPT ![r] = IF Tail(script[r]) = <<>> THEN Answer(s) ELSE "none"]
      /\ UNCHANGED <<pc, stopped, expired, wants, existed, recorded, up, before, left, overlapped,
                     broken, ignored, faults, crashes>>
  BY FirstAndRest DEF StatementDone, AtWork, TypeInv, OwnInv, historyVars
<1>2. CommandsTyped'
  <2>1. Tail(script[r]) \in Seq(Own(r)) /\ Tail(script[r]) \in Seq(Statements)
    BY <1>1, FirstAndRest, OwnTyped
  <2>2. \A q \in Runs : script'[q] \in Seq(Own(q))
    BY <1>1, <2>1 DEF TypeInv, TypeOK, OwnInv
  <2>3. reply' \in [Runs -> {"none", "ok", "yes", "no", "exit", "lost"}]
    BY <1>1 DEF TypeInv, TypeOK, Answer
  <2>4. script' \in [Runs -> Seq(Statements)]
    BY <1>1, <2>1 DEF TypeInv, TypeOK
  <2> QED BY <1>1, <2>2, <2>3, <2>4 DEF CommandsTyped, TypeInv, TypeOK
<1>3. ServerTyped'
  <2>1. DOMAIN stray = Runs /\ \A o \in Runs : stray[o] \in Seq(Own(o))
    BY DEF TypeInv, TypeOK, OwnInv
  <2> QED BY <1>1, <2>1, EffectTyped DEF ServerTyped, TypeInv, TypeOK
<1>4. db["live"] \in Contents
  BY DEF TypeInv, TypeOK
<1>5. SavedTyped'
  <2>1. spool' = [spool EXCEPT ![r] = IF pc[r] = "dump" THEN db["live"] ELSE spool[r]]
    BY DEF StatementDone
  <2>2. safety' = [safety EXCEPT ![r] = IF pc[r] = "store" THEN spool[r] ELSE safety[r]]
    BY DEF StatementDone
  <2>3. pc[r] = "store" => spool[r] \in Contents
    BY DEF TypeInv, TypeOK, OwnInv
  <2> QED BY <1>4, <2>1, <2>2, <2>3 DEF SavedTyped, TypeInv, TypeOK, OwnInv
<1>6. StoreTyped'
  <2>1. spool' = [spool EXCEPT ![r] = IF pc[r] = "dump" THEN db["live"] ELSE spool[r]]
    BY DEF StatementDone
  <2> QED BY <1>1, <2>1 DEF StoreTyped, TypeInv, TypeOK, OwnInv
<1>7. RunTyped'
  BY <1>1, TypeParts DEF RunTyped
<1> QED BY <1>2, <1>3, <1>5, <1>6, <1>7, TypePartsNext

\* The other commands that end.
LEMMA CommandEndTypes ==
    ASSUME TypeInv, NEW r \in Runs,
           StatementRefused(r) \/ DumpCut(r) \/ ImportCut(r) \/ Lose(r) \/ Abandon(r)
    PROVE  TypeInv'
<1>1. faults' \in 0 .. MaxFaults
  BY FaultTyped DEF StatementRefused, DumpCut, ImportCut, Lose, Abandon
<1>2. /\ \E answer \in {"ok", "exit", "lost"} : Ends(r, answer)
      /\ UNCHANGED <<pc, stopped, wants, existed, safety, recorded, up, before, left, overlapped,
                     ignored, crashes>>
  BY DEF StatementRefused, DumpCut, ImportCut, ImportAnswer, Lose, Abandon, planVars, historyVars
<1>3. CommandsTyped'
  BY <1>2, EndsTyped
<1>4. expired' \in [Runs -> BOOLEAN] /\ broken' \in BOOLEAN
  BY DEF StatementRefused, DumpCut, ImportCut, Lose, Abandon, planVars, historyVars, TypeInv, TypeOK
<1>5. RunTyped'
  BY <1>1, <1>2, <1>4, TypeParts DEF RunTyped
<1>6. spool' = spool \/ (pc[r] = "dump" /\ spool' = [spool EXCEPT ![r] = "cut"])
  BY DEF StatementRefused, DumpCut, ImportCut, Lose, Abandon, planVars, historyVars
<1>7. SavedTyped' /\ StoreTyped'
  BY <1>2, <1>6 DEF SavedTyped, StoreTyped, TypeInv, TypeOK, OwnInv
<1>8. ServerTyped'
  <2>1. CASE ImportCut(r)
    <3>1. script[r] \in Seq(Own(r)) /\ script[r] # <<>>
      BY <2>1 DEF ImportCut, AtWork, TypeInv, OwnInv
    <3>2. Head(script[r]) \in Own(r)
      BY <3>1, FirstAndRest
    <3>3. Head(script[r]).on \in {r, "live"}
      BY <3>2 DEF Own
    <3>4. Load(Head(script[r]).on, "part") \in Own(r)
      BY <3>3, StatementTyped DEF Contents
    <3>5. DOMAIN stray = Runs /\ \A o \in Runs : stray[o] \in Seq(Own(o))
      BY DEF TypeInv, TypeOK, OwnInv
    <3>6. Effect(Load(Head(script[r]).on, "part"), stray)
      BY <2>1 DEF ImportCut
    <3> QED BY <3>4, <3>5, <3>6, EffectTyped DEF ServerTyped, TypeInv, TypeOK
  <2>2. CASE Lose(r) \/ Abandon(r)
    <3>1. stray' = [stray EXCEPT ![r] = Leave(r, Remnant(script[r]))] /\ UNCHANGED <<engine, db, closed>>
      BY <2>2 DEF Lose, Abandon
    <3>2. Leave(r, Remnant(script[r])) \in Seq(Own(r)) /\ Leave(r, Remnant(script[r])) \in Seq(Statements)
      BY RemnantTyped, OwnTyped DEF TypeInv, OwnInv
    <3>3. stray' \in [Runs -> Seq(Statements)] /\ \A q \in Runs : stray'[q] \in Seq(Own(q))
      BY <3>1, <3>2 DEF TypeInv, TypeOK, OwnInv
    <3> QED BY <3>1, <3>3, TypeParts DEF ServerTyped
  <2>3. CASE StatementRefused(r) \/ DumpCut(r)
    BY <2>3, TypeParts DEF StatementRefused, DumpCut, serverVars, ServerTyped
  <2> QED BY <2>1, <2>2, <2>3
<1> QED BY <1>3, <1>5, <1>7, <1>8, TypePartsNext

\* So does one that the server still works off.
LEMMA StrayTypes == ASSUME TypeInv, NEW r \in Runs, StrayStatement(r) PROVE TypeInv'
<1>1. UNCHANGED <<commandVars, stopped, expired, planVars, up, historyVars, faults, crashes>>
  BY DEF StrayStatement
<1>2. ServerTyped'
  <2>1. stray[r] # <<>> /\ stray[r] \in Seq(Own(r)) /\ DOMAIN stray = Runs
    BY DEF StrayStatement, TypeInv, TypeOK, OwnInv
  <2>2. CASE Effect(Head(stray[r]), [stray EXCEPT ![r] = Tail(@)])
    <3>1. Head(stray[r]) \in Own(r) /\ Tail(stray[r]) \in Seq(Own(r))
      BY <2>1, FirstAndRest
    <3>2. /\ DOMAIN [stray EXCEPT ![r] = Tail(@)] = Runs
          /\ \A o \in Runs : [stray EXCEPT ![r] = Tail(@)][o] \in Seq(Own(o))
      BY <2>1, <3>1 DEF TypeInv, OwnInv
    <3> QED BY <2>2, <3>1, <3>2, EffectTyped DEF ServerTyped, TypeInv, TypeOK
  <2>3. CASE stray' = [stray EXCEPT ![r] = <<>>] /\ UNCHANGED <<engine, db, closed>>
    BY <2>3 DEF ServerTyped, TypeInv, TypeOK, OwnInv
  <2> QED BY <2>2, <2>3 DEF StrayStatement
<1>3. CommandsTyped' /\ SavedTyped' /\ RunTyped' /\ StoreTyped'
  BY <1>1, TypeParts DEF CommandsTyped, SavedTyped, RunTyped, StoreTyped, commandVars, planVars, historyVars
<1> QED BY <1>2, <1>3, TypePartsNext

-----------------------------------------------------------------------------
(* Types, when a run is moved on and around it.                            *)

\* What follows a stage is a stage; only a whole dump is stored.
LEMMA NextStage ==
    ASSUME NEW r, pc[r] \in Commands
    PROVE  LET stage == IF reply[r] \in {"exit", "lost"} THEN OnFailure(r) ELSE OnSuccess(r)
           IN  /\ stage \in Commands \cup Params \cup Reports
               /\ stage = "store" => spool[r] # "cut"
<1>1. CASE pc[r] \in Reading
  BY <1>1, AfterReading, FirstStage DEF Commands, Stoppable, Params, Reports, Reading
<1>2. CASE pc[r] \notin Reading
  BY <1>2, AfterWork DEF Reading
<1> QED BY <1>1, <1>2

\* A settled run says what it left.
LEMMA SettleTyped ==
    ASSUME TypeInv, NEW r \in Runs, NEW stage, Settle(r, stage)
    PROVE  left' \in [Runs -> Contents]
BY DEF Settle, TypeInv, TypeOK

\* Types, when a run enters its next stage,
LEMMA ProceedTypes == ASSUME TypeInv, NEW r \in Runs, Proceed(r) PROVE TypeInv'
<1> DEFINE stage == IF reply[r] \in {"exit", "lost"} THEN OnFailure(r) ELSE OnSuccess(r)
<1>1. /\ pc[r] \in Commands /\ Enter(r, stage) /\ Settle(r, stage)
      /\ existed' = [existed EXCEPT ![r] = IF pc[r] = "meta" THEN reply[r] = "yes" ELSE existed[r]]
      /\ UNCHANGED <<serverVars, stopped, expired, wants, spool, safety, recorded, up, before,
                     overlapped, broken, faults, crashes>>
  BY DEF Proceed
<1>2. stage \in Commands \cup Params \cup Reports /\ (stage = "store" => spool[r] # "cut")
  BY <1>1, NextStage
<1>3. CommandsTyped' /\ pc'[r] = stage /\ \A q \in Runs \ {r} : pc'[q] = pc[q]
  <2> HIDE DEF stage
  <2> QED BY <1>1, <1>2, EnterTyped
<1>4. left' \in [Runs -> Contents]
  BY <1>1, SettleTyped
<1>5. existed' \in [Runs -> BOOLEAN]
  BY <1>1 DEF TypeInv, TypeOK
<1>9. ignored' \in [Runs -> SUBSET {"check", "reopen"}]
  <2>1. ignored' = [ignored EXCEPT ![r] = IF Overlooks(r) THEN ignored[r] \cup {pc[r]} ELSE ignored[r]]
    BY DEF Proceed
  <2> QED BY <2>1 DEF TypeInv, TypeOK, Overlooks
<1>6. RunTyped'
  BY <1>1, <1>4, <1>5, <1>9, TypeParts DEF RunTyped
<1>7. ServerTyped' /\ SavedTyped'
  BY <1>1, TypeParts DEF ServerTyped, SavedTyped, serverVars
<1>8. StoreTyped'
  BY <1>1, <1>2, <1>3, TypeParts DEF StoreTyped
<1> QED BY <1>3, <1>6, <1>7, <1>8, TypePartsNext

\* when its row is written or is not,
LEMMA RecordParamTypes == ASSUME TypeInv, NEW r \in Runs, RecordParam(r) PROVE TypeInv'
<1>1. /\ pc[r] \in Params /\ Enter(r, AfterParam(r)) /\ Settle(r, AfterParam(r))
      /\ recorded' = [recorded EXCEPT ![r] = recorded[r] \cup {pc[r]}] \/ recorded' = recorded
      /\ Fault \/ UNCHANGED faults
      /\ UNCHANGED <<serverVars, stopped, expired, wants, existed, spool, safety, up, before,
                     overlapped, broken, ignored, crashes>>
  BY DEF RecordParam
<1>2. AfterParam(r) \in (Commands \cup Params \cup Reports) \ Reading
  BY FirstStage DEF AfterParam, Commands, Stoppable, Reading
<1>3. CommandsTyped' /\ pc'[r] = AfterParam(r) /\ \A q \in Runs \ {r} : pc'[q] = pc[q]
  BY <1>1, <1>2, EnterTyped
<1>4. left' \in [Runs -> Contents] /\ faults' \in 0 .. MaxFaults
  BY <1>1, SettleTyped, FaultTyped
<1>5. recorded' \in [Runs -> SUBSET Params]
  <2>1. recorded \in [Runs -> SUBSET Params]
    BY DEF TypeInv, TypeOK
  <2>2. recorded[r] \cup {pc[r]} \in SUBSET Params
    BY <1>1, <2>1
  <2> HIDE DEF Params
  <2> QED BY <1>1, <2>1, <2>2
<1>6. RunTyped'
  BY <1>1, <1>4, <1>5, TypeParts DEF RunTyped
<1>7. ServerTyped' /\ SavedTyped'
  BY <1>1, TypeParts DEF ServerTyped, SavedTyped, serverVars
<1>8. StoreTyped'
  BY <1>1, <1>2, <1>3, TypeParts DEF StoreTyped, Reading
<1> QED BY <1>3, <1>6, <1>7, <1>8, TypePartsNext

\* when the database is looked for or the run is stopped,
LEMMA CheckTypes == ASSUME TypeInv, NEW r \in Runs, Check(r) \/ Stop(r) PROVE TypeInv'
<1>1. /\ pc' = [pc EXCEPT ![r] = "checked"] \/ pc' = pc
      /\ stopped' = [stopped EXCEPT ![r] = TRUE] \/ stopped' = stopped
      /\ faults' \in 0 .. MaxFaults
      /\ UNCHANGED <<serverVars, script, reply, expired, planVars, up, historyVars, crashes>>
  BY FaultTyped DEF Check, Stop, commandVars
<1>2. CommandsTyped'
  BY <1>1, TypeParts DEF CommandsTyped
<1>3. StoreTyped'
  BY <1>1 DEF StoreTyped, TypeInv, TypeOK, OwnInv, planVars
<1>4. RunTyped'
  BY <1>1, TypeParts DEF RunTyped, planVars, historyVars
<1>5. ServerTyped' /\ SavedTyped'
  BY <1>1, TypeParts DEF ServerTyped, SavedTyped, serverVars, planVars
<1> QED BY <1>2, <1>3, <1>4, <1>5, TypePartsNext

\* when a run begins,
LEMMA BeginTypes == ASSUME TypeInv, NEW r \in Runs, Begin(r) PROVE TypeInv'
<1>1. /\ Enter(r, "meta") /\ \E b \in BOOLEAN : wants' = [wants EXCEPT ![r] = b]
      /\ before' = [before EXCEPT ![r] = db["live"]]
      /\ overlapped' \in BOOLEAN
      /\ UNCHANGED <<serverVars, stopped, expired, existed, spool, safety, recorded, up, left, broken,
                     ignored, faults, crashes>>
  BY DEF Begin, TypeInv, TypeOK
<1>2. CommandsTyped' /\ pc'[r] = "meta" /\ \A q \in Runs \ {r} : pc'[q] = pc[q]
  BY <1>1, EnterTyped DEF Commands, Stoppable
<1>3. before' \in [Runs -> Contents] /\ wants' \in [Runs -> BOOLEAN]
  BY <1>1 DEF TypeInv, TypeOK
<1>4. RunTyped'
  BY <1>1, <1>3, TypeParts DEF RunTyped
<1>5. ServerTyped' /\ SavedTyped' /\ StoreTyped'
  BY <1>1, <1>2, TypeParts DEF ServerTyped, SavedTyped, StoreTyped, serverVars
<1> QED BY <1>2, <1>4, <1>5, TypePartsNext

\* when the program dies, the server keeping what it was told,
LEMMA CrashTypes == ASSUME TypeInv, Crash PROVE TypeInv'
<1>1. /\ up' = FALSE /\ crashes < MaxCrashes /\ crashes' = crashes + 1
      /\ stray' = [r \in Runs |-> Leave(r, Orphan(script[r]))]
      /\ pc' = [r \in Runs |-> IF Active(r) THEN "dead"
                               ELSE IF pc[r] = "checked" THEN "idle" ELSE pc[r]]
      /\ script' = [r \in Runs |-> <<>>] /\ reply' = [r \in Runs |-> "none"]
      /\ UNCHANGED <<engine, db, closed, stopped, expired, wants, existed, spool, safety, recorded,
                     before, left, overlapped, broken, ignored, faults>>
  BY DEF Crash, planVars, historyVars
<1>2. \A r \in Runs : <<>> \in Seq(Own(r)) /\ <<>> \in Seq(Statements)
  OBVIOUS
<1>3. \A r \in Runs : Leave(r, Orphan(script[r])) \in Seq(Own(r)) /\ Leave(r, Orphan(script[r])) \in Seq(Statements)
  BY RemnantTyped, OwnTyped DEF TypeInv, OwnInv
<1>4. CommandsTyped'
  BY <1>1, <1>2 DEF CommandsTyped, TypeInv, TypeOK
<1>5. ServerTyped'
  BY <1>1, <1>3 DEF ServerTyped, TypeInv, TypeOK
<1>6. StoreTyped' /\ SavedTyped'
  BY <1>1, TypeParts DEF StoreTyped, SavedTyped
<1>7. crashes' \in 0 .. MaxCrashes
  BY <1>1, BoundsAssumption DEF TypeInv, TypeOK
<1>8. RunTyped'
  BY <1>1, <1>7, TypeParts DEF RunTyped
<1> QED BY <1>4, <1>5, <1>6, <1>8, TypePartsNext

\* and when it boots.
LEMMA ReconcileTypes == ASSUME TypeInv, Reconcile PROVE TypeInv'
<1>1. /\ up' = TRUE
      /\ pc' = [r \in Runs |-> IF pc[r] = "dead" THEN "interrupted" ELSE pc[r]]
      /\ left' = [r \in Runs |-> IF pc[r] = "dead" THEN db["live"] ELSE left[r]]
      /\ UNCHANGED <<serverVars, script, reply, stopped, expired, planVars, before, overlapped,
                     broken, ignored, faults, crashes>>
  BY DEF Reconcile
<1>2. CommandsTyped'
  BY <1>1 DEF CommandsTyped, TypeInv, TypeOK, OwnInv, Reports
<1>3. ServerTyped' /\ SavedTyped' /\ StoreTyped'
  BY <1>1, TypeParts DEF ServerTyped, SavedTyped, StoreTyped, serverVars, planVars
<1>4. left' \in [Runs -> Contents]
  BY <1>1 DEF TypeInv, TypeOK
<1>5. RunTyped'
  BY <1>1, <1>4, TypeParts DEF RunTyped, planVars
<1> QED BY <1>2, <1>3, <1>5, TypePartsNext

\* Every step keeps the types.
LEMMA NextTypes == TypeInv /\ [Next]_vars => TypeInv'
<1> SUFFICES ASSUME TypeInv, [Next]_vars PROVE TypeInv'
  OBVIOUS
<1>1. CASE UNCHANGED vars
  BY <1>1 DEF vars, serverVars, commandVars, planVars, historyVars, TypeInv, TypeOK, OwnInv
<1>2. ASSUME NEW r \in Runs,
             Check(r) \/ Stop(r) \/ Begin(r) \/ Proceed(r) \/ RecordParam(r) \/ StrayStatement(r)
      PROVE  TypeInv'
  BY <1>2, CheckTypes, BeginTypes, ProceedTypes, RecordParamTypes, StrayTypes
<1>3. ASSUME NEW r \in Runs,
             \/ StatementDone(r) \/ StatementRefused(r) \/ DumpCut(r) \/ ImportCut(r)
             \/ Lose(r) \/ Abandon(r)
      PROVE  TypeInv'
  BY <1>3, StatementDoneTypes, CommandEndTypes
<1>4. CASE Crash \/ Reconcile
  BY <1>4, CrashTypes, ReconcileTypes
<1> QED BY <1>1, <1>2, <1>3, <1>4 DEF Next

-----------------------------------------------------------------------------
(* Each engine stays in its stages.                                        *)

OfPostgres == Beside \cup Swapping \cup {"recordTmp"}
OfMySQL == Replacing \cup PuttingBack

\* The first stage is one of the engine's own.
LEMMA FirstEngine ==
    ASSUME NEW r
    PROVE  /\ First(r) \in OfPostgres => engine = "postgres"
           /\ First(r) \in OfMySQL => engine # "postgres"
           /\ First(r) \notin PuttingBack
BY DEF First, OfPostgres, OfMySQL, Beside, Swapping, Replacing, PuttingBack

\* So is every next one; MySQL puts back only what a safety snapshot holds.
LEMMA StageEngine ==
    ASSUME NEW r \in Runs, pc[r] \in Commands, EngineInv, engine \in {"postgres", "mysql"},
           NEW stage, stage = IF reply[r] \in {"exit", "lost"} THEN OnFailure(r) ELSE OnSuccess(r)
    PROVE  /\ stage \in OfPostgres => engine = "postgres"
           /\ stage \in OfMySQL => engine = "mysql"
           /\ stage \in PuttingBack => HasSafety(r) /\ pc[r] # "meta"
<1>1. CASE pc[r] \in Reading
  <2>1. stage \in {"dump", "store", "recordSafety", "unchanged", First(r)}
    BY <1>1, AfterReading DEF Reading
  <2> QED BY <2>1, FirstEngine DEF OfPostgres, OfMySQL, Beside, Swapping, Replacing, PuttingBack
<1>2. CASE pc[r] \in Beside
  <2>1. stage \in OfPostgres \cup Reports
    BY <1>2 DEF OnSuccess, OnFailure, OfPostgres, Beside, Swapping, Reports
  <2> QED BY <1>2, <2>1 DEF EngineInv, OfPostgres, OfMySQL, Beside, Swapping, Replacing, PuttingBack, Reports
<1>3. CASE pc[r] \in Swapping
  <2>1. stage \in OfPostgres \cup Reports
    BY <1>3 DEF OnSuccess, OnFailure, AfterCheck, OfPostgres, Beside, Swapping, Reports
  <2> QED BY <1>3, <2>1 DEF EngineInv, OfPostgres, OfMySQL, Beside, Swapping, Replacing, PuttingBack, Reports
<1>4. CASE pc[r] \in Replacing
  <2>1. stage \in {"create", "import"} \cup Reports \/ (stage = "dropBack" /\ HasSafety(r))
    BY <1>4 DEF OnSuccess, OnFailure, AfterChange, AfterDropFailed, Replacing, Reports
  <2> QED BY <1>4, <2>1 DEF EngineInv, OfPostgres, OfMySQL, Beside, Swapping, Replacing, PuttingBack, Reports
<1>5. CASE pc[r] \in PuttingBack
  <2>1. stage \in PuttingBack \cup Reports
    BY <1>5 DEF OnSuccess, OnFailure, PuttingBack, Reports
  <2> QED BY <1>5, <2>1 DEF EngineInv, OfPostgres, OfMySQL, Beside, Swapping, Replacing, PuttingBack, Reports
<1> QED BY <1>1, <1>2, <1>3, <1>4, <1>5 DEF Commands, Stoppable, Recovery, Reading, Beside, Swapping,
                                            Replacing, PuttingBack

\* A run that enters a stage it may be in.
LEMMA EnterEngine ==
    ASSUME TypeInv, EngineInv, NEW r \in Runs, NEW stage \in Commands \cup Params \cup Reports,
           Enter(r, stage), UNCHANGED <<engine, expired, broken>>,
           \A q \in Runs \ {r} : wants'[q] = wants[q] /\ existed'[q] = existed[q],
           stage \in OfPostgres => engine = "postgres",
           stage \in OfMySQL => engine = "mysql",
           stage \in PuttingBack => HasSafety(r)'
    PROVE  EngineInv'
<1>1. pc'[r] = stage /\ \A q \in Runs \ {r} : pc'[q] = pc[q]
  BY EnterTyped
<1>2. stage \notin {"idle", "checked"}
  BY DEF Commands, Stoppable, Recovery, Params, Reports
<1> QED BY <1>1, <1>2 DEF EngineInv, HasSafety, OfPostgres, OfMySQL

\* Every step keeps a run in the stages of its engine.
LEMMA NextEngine == TypeInv /\ EngineInv /\ [Next]_vars => EngineInv'
<1> SUFFICES ASSUME TypeInv, EngineInv, [Next]_vars PROVE EngineInv'
  OBVIOUS
<1>0. engine \in {"postgres", "mysql"} /\ expired \in [Runs -> BOOLEAN] /\ wants \in [Runs -> BOOLEAN]
      /\ existed \in [Runs -> BOOLEAN]
  BY DEF TypeInv, TypeOK
<1>1. CASE UNCHANGED vars
  BY <1>1 DEF vars, serverVars, commandVars, planVars, historyVars, EngineInv, HasSafety
<1>2. ASSUME NEW r \in Runs,
             \/ StatementDone(r) \/ StatementRefused(r) \/ DumpCut(r) \/ ImportCut(r)
             \/ Lose(r) \/ Abandon(r) \/ StrayStatement(r) \/ Stop(r)
      PROVE  EngineInv'
  <2>1. UNCHANGED <<engine, pc, wants, existed>> /\ (broken' \/ UNCHANGED <<expired, broken>>)
    BY <1>2 DEF StatementDone, StatementRefused, DumpCut, ImportCut, Lose, Abandon, StrayStatement, Stop,
                Effect, serverVars, commandVars, planVars, historyVars
  <2> QED BY <2>1 DEF EngineInv, HasSafety
<1>3. ASSUME NEW r \in Runs, Check(r) PROVE EngineInv'
  <2>1. /\ pc[r] = "idle" /\ pc' = [pc EXCEPT ![r] = "checked"]
        /\ UNCHANGED <<engine, expired, broken, wants, existed>>
    BY <1>3 DEF Check, serverVars, planVars, historyVars
  <2>2. pc'[r] = "checked" /\ \A q \in Runs \ {r} : pc'[q] = pc[q]
    BY <2>1 DEF TypeInv, TypeOK
  <2> QED BY <2>1, <2>2 DEF EngineInv, HasSafety, Beside, Swapping, Replacing, PuttingBack
<1>4. ASSUME NEW r \in Runs, Begin(r) PROVE EngineInv'
  <2>1. /\ Enter(r, "meta") /\ \E b \in BOOLEAN : wants' = [wants EXCEPT ![r] = b]
        /\ UNCHANGED <<engine, expired, broken, existed>>
    BY <1>4 DEF Begin, serverVars
  <2>2. "meta" \in Commands \cup Params \cup Reports /\ "meta" \notin OfPostgres \cup OfMySQL \cup PuttingBack
    BY DEF Commands, Stoppable, OfPostgres, OfMySQL, Beside, Swapping, Replacing, PuttingBack
  <2> QED BY <2>1, <2>2, EnterEngine
<1>5. ASSUME NEW r \in Runs, Proceed(r) PROVE EngineInv'
  <2> DEFINE stage == IF reply[r] \in {"exit", "lost"} THEN OnFailure(r) ELSE OnSuccess(r)
  <2>1. /\ pc[r] \in Commands /\ Enter(r, stage)
        /\ existed' = [existed EXCEPT ![r] = IF pc[r] = "meta" THEN reply[r] = "yes" ELSE existed[r]]
        /\ UNCHANGED <<engine, expired, broken, wants>>
    BY <1>5 DEF Proceed, serverVars
  <2>2. stage \in Commands \cup Params \cup Reports
    BY <2>1, NextStage
  <2>3. /\ stage \in OfPostgres => engine = "postgres"
        /\ stage \in OfMySQL => engine = "mysql"
        /\ stage \in PuttingBack => HasSafety(r) /\ pc[r] # "meta"
    BY <1>0, <2>1, StageEngine
  <2> HIDE DEF stage
  <2>4. stage \in PuttingBack => HasSafety(r)'
    BY <1>0, <2>1, <2>3 DEF HasSafety
  <2>5. \A q \in Runs \ {r} : wants'[q] = wants[q] /\ existed'[q] = existed[q]
    BY <2>1
  <2> QED BY <2>1, <2>2, <2>3, <2>4, <2>5, EnterEngine
<1>6. ASSUME NEW r \in Runs, RecordParam(r) PROVE EngineInv'
  <2>1. /\ pc[r] \in Params /\ Enter(r, AfterParam(r))
        /\ UNCHANGED <<engine, expired, broken, wants, existed>>
    BY <1>6 DEF RecordParam, serverVars
  <2>2. AfterParam(r) \in (Commands \cup Params \cup Reports) \ Reading
    BY FirstStage DEF AfterParam, Commands, Stoppable, Reading
  <2>3. /\ AfterParam(r) \in OfPostgres => engine = "postgres"
        /\ AfterParam(r) \in OfMySQL => engine = "mysql"
        /\ AfterParam(r) \notin PuttingBack
    BY <1>0, <2>1, FirstEngine DEF AfterParam, EngineInv, OfMySQL, Beside, Swapping, Replacing, PuttingBack
  <2> QED BY <2>1, <2>2, <2>3, EnterEngine
<1>7. CASE Crash \/ Reconcile
  <2>1. /\ \A r \in Runs : pc'[r] = pc[r] \/ pc'[r] \in {"dead", "interrupted"}
                           \/ (pc[r] = "checked" /\ pc'[r] = "idle")
        /\ UNCHANGED <<engine, expired, broken, wants, existed>>
    BY <1>7 DEF Crash, Reconcile, serverVars, planVars, historyVars
  <2> QED BY <2>1 DEF EngineInv, HasSafety, Beside, Swapping, Replacing, PuttingBack
<1> QED BY <1>1, <1>2, <1>3, <1>4, <1>5, <1>6, <1>7 DEF Next

\* It holds at first.
LEMMA InitEngine == Init => EngineInv
BY DEF Init, EngineInv, Beside, Swapping, Replacing, PuttingBack

-----------------------------------------------------------------------------
(* What the rows name.                                                     *)

\* A statement on live is the run's own, its half-done form too.
LEMMA OnLiveStatement ==
    ASSUME NEW r \in Runs, NEW s \in OnLive(r)
    PROVE  s \in Own(r) /\ s.on = "live" /\ Load("live", "part") \in OnLive(r)
<1>1. Load("live", "part") \in Own(r)
  BY StatementTyped DEF Contents
<1> QED BY <1>1 DEF OnLive, Load

\* So are several.
LEMMA OnLiveSeq == ASSUME NEW r \in Runs, NEW q \in Seq(OnLive(r)) PROVE q \in Seq(Own(r))
<1>1. OnLive(r) \subseteq Own(r)
  BY DEF OnLive
<1> HIDE DEF Own, OnLive
<1> QED BY <1>1, SeqMonotonic

\* It leaves the temporary databases alone.
LEMMA OnLiveEffect ==
    ASSUME TypeInv, NEW r \in Runs, NEW s \in OnLive(r), NEW q, Effect(s, q), NEW n \in Runs
    PROVE  db'[n] = db[n]
<1>1. s.on = "live" /\ n # "live" /\ db \in [Runs \cup {"live"} -> Contents]
  BY OnLiveStatement, RunsAssumption DEF TypeInv, TypeOK
<1> QED BY <1>1 DEF Effect, DbAfter

\* What is left of statements on live is on live.
LEMMA OnLiveRemnant ==
    ASSUME NEW r \in Runs, NEW q \in Seq(OnLive(r)), stray[r] \in Seq(OnLive(r))
    PROVE  /\ Leave(r, Orphan(q)) \in Seq(OnLive(r)) /\ Leave(r, Remnant(q)) \in Seq(OnLive(r))
<1>1. Orphan(q) \in Seq(OnLive(r))
  <2>1. CASE q # <<>> /\ Head(q).op = "load"
    <3>1. Head(q).on = "live" /\ Load("live", "part") \in OnLive(r)
      BY <2>1, FirstAndRest, OnLiveStatement
    <3> QED BY <2>1, <3>1 DEF Orphan
  <2>2. CASE ~(q # <<>> /\ Head(q).op = "load")
    BY <2>2 DEF Orphan
  <2> QED BY <2>1, <2>2
<1>2. Remnant(q) \in Seq(OnLive(r))
  BY <1>1, FirstAndRest DEF Remnant
<1>3. \A p \in Seq(OnLive(r)) : Leave(r, p) \in Seq(OnLive(r))
  BY DEF Leave
<1> QED BY <1>1, <1>2, <1>3

\* Outside PostgreSQL's own stages every script is on live.
LEMMA OnLiveScript ==
    ASSUME NEW r \in Runs, NEW stage, stage \notin Beside \cup Swapping, safety[r] \in Contents
    PROVE  Script(r, stage) \in Seq(OnLive(r))
<1>1. /\ \A op \in Changing \cup {"look", "dump", "store", "props"} : Do(op, "live") \in OnLive(r)
      /\ \A c \in Contents : Load("live", c) \in OnLive(r)
  BY StatementTyped DEF OnLive, Do, Load
<1>2. /\ Do("look", "live") \in OnLive(r) /\ Do("dump", "live") \in OnLive(r)
      /\ Do("store", "live") \in OnLive(r)
      /\ Do("drop", "live") \in OnLive(r) /\ Do("create", "live") \in OnLive(r)
      /\ Load("live", "dump") \in OnLive(r) /\ Load("live", "part") \in OnLive(r)
      /\ Load("live", safety[r]) \in OnLive(r)
  BY <1>1 DEF Changing, Contents
<1> HIDE DEF OnLive
<1>3. CASE stage \in {"meta", "dump", "store", "drop", "dropBack", "create", "createBack"}
  BY <1>2, <1>3 DEF Script
<1>4. CASE stage \in {"import", "importBack"}
  BY <1>2, <1>4 DEF Script
<1>5. CASE stage \notin {"meta", "dump", "store", "drop", "dropBack", "create", "createBack", "import", "importBack"}
  BY <1>5 DEF Script, Beside, Swapping
<1> QED BY <1>3, <1>4, <1>5

\* A temporary database is created by way of recordTmp only.
LEMMA StageBeside ==
    ASSUME NEW r, pc[r] \in Commands, pc[r] \notin Beside \cup Swapping
    PROVE  (IF reply[r] \in {"exit", "lost"} THEN OnFailure(r) ELSE OnSuccess(r)) \notin Beside \cup Swapping
<1>1. First(r) \notin Beside \cup Swapping
  BY DEF First, Beside, Swapping
<1>2. CASE pc[r] \in Reading
  BY <1>1, <1>2, AfterReading DEF Reading, Beside, Swapping
<1>3. CASE pc[r] \notin Reading
  <2>1. pc[r] \in Replacing \cup PuttingBack
    BY <1>3 DEF Commands, Stoppable, Recovery, Reading, Beside, Swapping, Replacing, PuttingBack
  <2> QED BY <2>1 DEF OnSuccess, OnFailure, AfterChange, AfterDropFailed, Replacing, PuttingBack,
                      Beside, Swapping
<1> QED BY <1>2, <1>3

\* The others are not disturbed; what is to show is about the run that acts.
Trailed(r) ==
    /\ "recordTmp" \notin recorded[r] => NoTemporary(r)
    /\ ~overlapped /\ OnRecord(r) /\ HasSafety(r) /\ "recordSafety" \notin recorded[r] =>
           Untouched(r) /\ pc[r] \in Reading \cup {"recordSafety", "dead"}

\* The rows, run by run.
LEMMA TrailIs == TrailInv <=> (faults = 0 => \A r \in Runs : Trailed(r))
BY DEF TrailInv, Trailed

\* The same of the next state.
LEMMA TrailIsNext == TrailInv' <=> (faults' = 0 => \A r \in Runs : Trailed(r)')
BY DEF TrailInv, Trailed

\* A step of one run leaves the trails of the others.
LEMMA TrailKept ==
    ASSUME TrailInv, NEW r \in Runs, faults' = 0 => faults = 0,
           \A q \in Runs \ {r} :
               /\ pc'[q] = pc[q] /\ script'[q] = script[q] /\ recorded'[q] = recorded[q]
               /\ wants'[q] = wants[q] /\ existed'[q] = existed[q] /\ before'[q] = before[q]
               /\ db'[q] = db[q] /\ (stray'[q] = stray[q] \/ stray'[q] = <<>>)
               /\ ~overlapped' /\ OnRecord(q) => ~overlapped /\ db'["live"] = db["live"],
           faults' = 0 => Trailed(r)'
    PROVE  TrailInv'
<1>1. ASSUME faults' = 0, NEW q \in Runs \ {r} PROVE Trailed(q)'
  <2>1. Trailed(q)
    BY <1>1, TrailIs
  <2>2. ASSUME NoTemporary(q) PROVE NoTemporary(q)'
    <3>1. script'[q] \in Seq(OnLive(q)) /\ stray'[q] \in Seq(OnLive(q))
      BY <2>2, EmptySeq DEF NoTemporary
    <3> QED BY <2>2, <3>1 DEF NoTemporary, OnLive, Own
  <2>3. OnRecord(q)' = OnRecord(q) /\ HasSafety(q)' = HasSafety(q)
    BY <1>1 DEF OnRecord, Active, HasSafety
  <2> QED BY <1>1, <2>1, <2>2, <2>3 DEF Trailed, Untouched
<1> QED BY <1>1, TrailIsNext

\* A command under way.
LEMMA CommandTrails ==
    ASSUME TypeInv, IInv, IInv', TrailInv, NEW r \in Runs, pc[r] \in Commands,
           faults' = 0 => faults = 0,
           UNCHANGED <<pc, recorded, wants, existed, before, overlapped>>,
           \A q \in Runs \ {r} :
               script'[q] = script[q] /\ db'[q] = db[q] /\ (stray'[q] = stray[q] \/ stray'[q] = <<>>),
           NoTemporary(r) => NoTemporary(r)'
    PROVE  TrailInv'
<1>1. OnRecord(r) /\ OnRecord(r)'
  BY OnRecordStages DEF OnRecord, Active
<1>2. \A q \in Runs \ {r} : ~overlapped /\ OnRecord(q) => FALSE
  BY <1>1, OneOnRecord
<1>3. ASSUME faults' = 0 PROVE Trailed(r)'
  <2>1. Trailed(r)
    BY <1>3, TrailIs
  <2>2. ASSUME ~overlapped', HasSafety(r)', "recordSafety" \notin recorded'[r]
        PROVE  Untouched(r)' /\ pc'[r] \in Reading
    <3>1. pc[r] \in Reading
      BY <1>1, <2>1, <2>2 DEF Trailed, HasSafety, Commands, Stoppable, Recovery
    <3>2. Kept(r)'
      BY <1>1, <2>2 DEF IInv, KeptInv
    <3> QED BY <3>1, <3>2 DEF Kept
  <2> QED BY <2>1, <2>2 DEF Trailed
<1> QED BY <1>2, <1>3, TrailKept

\* Trails, when a statement is done,
LEMMA StatementDoneTrails ==
    ASSUME TypeInv, IInv, IInv', TrailInv, NEW r \in Runs, StatementDone(r)
    PROVE  TrailInv'
<1> DEFINE s == Head(script[r])
<1>1. /\ pc[r] \in Commands /\ script[r] # <<>> /\ script[r] \in Seq(Own(r)) /\ Effect(s, stray)
      /\ script' = [script EXCEPT ![r] = Tail(script[r])]
      /\ UNCHANGED <<pc, recorded, wants, existed, before, overlapped, faults>>
  BY DEF StatementDone, AtWork, Waiting, historyVars, TypeInv, OwnInv
<1>2. s \in Own(r)
  BY <1>1, FirstAndRest
<1>3. \A q \in Runs : stray[q] \in Seq(Own(q))
  BY DEF TypeInv, OwnInv
<1>4. DOMAIN stray = Runs /\ DOMAIN script = Runs
  BY DEF IInv, Shape
<1>5. \A q \in Runs \ {r} : db'[q] = db[q]
  BY <1>1, <1>2, <1>3, <1>4, EffectTyped, RunsAssumption
<1>6. \A q \in Runs : stray'[q] = stray[q] \/ stray'[q] = <<>>
  BY <1>1 DEF Effect, StrayAfter
<1>7. \A q \in Runs \ {r} : script'[q] = script[q]
  BY <1>1, <1>4
<1>8. ASSUME NoTemporary(r) PROVE NoTemporary(r)'
  <2>1. s \in OnLive(r) /\ Tail(script[r]) \in Seq(OnLive(r))
    BY <1>1, <1>8, FirstAndRest DEF NoTemporary
  <2>2. db'[r] = db[r]
    BY <1>1, <2>1, OnLiveEffect
  <2>3. script'[r] \in Seq(OnLive(r)) /\ stray'[r] \in Seq(OnLive(r))
    BY <1>1, <1>4, <1>6, <1>8, <2>1, EmptySeq DEF NoTemporary
  <2> QED BY <1>1, <1>8, <2>2, <2>3 DEF NoTemporary, OnLive, Own
<1> QED BY <1>1, <1>5, <1>6, <1>7, <1>8, CommandTrails

\* when a command ends,
LEMMA EndTrails ==
    ASSUME TypeInv, IInv, IInv', TrailInv, NEW r \in Runs,
           StatementRefused(r) \/ DumpCut(r) \/ Abandon(r)
    PROVE  TrailInv'
<1>1. /\ pc[r] \in Commands /\ script' = [script EXCEPT ![r] = <<>>]
      /\ faults' = 0 => faults = 0
      /\ stray' = stray \/ stray' = [stray EXCEPT ![r] = Leave(r, Remnant(script[r]))]
      /\ UNCHANGED <<db, pc, recorded, wants, existed, before, overlapped>>
  BY DEF StatementRefused, DumpCut, Abandon, AtWork, Waiting, Ends, Fault, planVars, historyVars, serverVars,
         TypeInv, TypeOK
<1>2. DOMAIN stray = Runs /\ DOMAIN script = Runs
  BY DEF IInv, Shape
<1>3. ASSUME NoTemporary(r) PROVE NoTemporary(r)'
  <2>1. script'[r] \in Seq(OnLive(r)) /\ stray'[r] \in Seq(OnLive(r))
    BY <1>1, <1>2, <1>3, OnLiveRemnant DEF NoTemporary
  <2> QED BY <1>1, <1>3, <2>1 DEF NoTemporary, OnLive, Own
<1> QED BY <1>1, <1>2, <1>3, CommandTrails

\* The steps that count as a fault.
LEMMA FaultTrails ==
    ASSUME TypeInv, NEW r, ImportCut(r) \/ Lose(r)
    PROVE  TrailInv'
BY DEF ImportCut, Lose, Fault, TypeInv, TypeOK, TrailInv

\* and when the server works off what is left.
LEMMA StrayTrails ==
    ASSUME TypeInv, IInv, TrailInv, NEW r \in Runs, StrayStatement(r)
    PROVE  TrailInv'
<1>1. /\ stray[r] # <<>> /\ stray[r] \in Seq(Own(r))
      /\ UNCHANGED <<pc, script, recorded, wants, existed, before, overlapped, faults>>
  BY DEF StrayStatement, commandVars, planVars, historyVars, TypeInv, OwnInv
<1>2. DOMAIN stray = Runs
  BY DEF IInv, Shape
<1>3. ASSUME ~overlapped PROVE \A q \in Runs \ {r} : ~OnRecord(q)
  BY <1>1, <1>3 DEF IInv, Alone
<1>4. \/ stray'[r] = <<>> /\ db' = db /\ \A q \in Runs \ {r} : stray'[q] = stray[q]
      \/ Effect(Head(stray[r]), [stray EXCEPT ![r] = Tail(stray[r])])
  BY <1>2 DEF StrayStatement
<1>5. CASE stray'[r] = <<>> /\ db' = db /\ \A q \in Runs \ {r} : stray'[q] = stray[q]
  <2>1. ASSUME faults' = 0 PROVE Trailed(r)'
    <3>1. Trailed(r)
      BY <1>1, <2>1, TrailIs
    <3> QED BY <1>1, <1>5, <3>1 DEF Trailed, NoTemporary, OnLive, Own, OnRecord, Active, HasSafety, Untouched
  <2> QED BY <1>1, <1>3, <1>5, <2>1, TrailKept
<1>6. CASE Effect(Head(stray[r]), [stray EXCEPT ![r] = Tail(stray[r])])
  <2> DEFINE Q == [stray EXCEPT ![r] = Tail(stray[r])]
  <2>1. Head(stray[r]) \in Own(r) /\ Tail(stray[r]) \in Seq(Own(r))
    BY <1>1, FirstAndRest
  <2>2. DOMAIN Q = Runs /\ Q[r] = Tail(stray[r]) /\ \A q \in Runs \ {r} : Q[q] = stray[q]
    BY <1>2
  <2>3. \A q \in Runs : Q[q] \in Seq(Own(q))
    BY <2>1, <2>2 DEF TypeInv, OwnInv
  <2>4. Effect(Head(stray[r]), Q)
    BY <1>6
  <2> HIDE DEF Q
  <2>5. \A q \in Runs \ {r} : db'[q] = db[q]
    BY <2>1, <2>2, <2>3, <2>4, EffectTyped, RunsAssumption
  <2>6. \A q \in Runs : stray'[q] = Q[q] \/ stray'[q] = <<>>
    BY <2>4 DEF Effect, StrayAfter
  <2>7. ASSUME faults' = 0 PROVE Trailed(r)'
    <3>1. Trailed(r)
      BY <1>1, <2>7, TrailIs
    <3>2. ASSUME NoTemporary(r) PROVE NoTemporary(r)'
      <4>1. Head(stray[r]) \in OnLive(r) /\ Tail(stray[r]) \in Seq(OnLive(r))
        BY <1>1, <3>2, FirstAndRest DEF NoTemporary
      <4>2. db'[r] = db[r]
        BY <2>4, <4>1, OnLiveEffect
      <4>3. stray'[r] \in Seq(OnLive(r))
        BY <2>2, <2>6, <4>1, EmptySeq
      <4> QED BY <1>1, <3>2, <4>2, <4>3 DEF NoTemporary, OnLive, Own
    <3>3. ~Untouched(r)
      BY <1>1 DEF Untouched
    <3> QED BY <1>1, <3>1, <3>2, <3>3 DEF Trailed, OnRecord, Active, HasSafety
  <2> QED BY <1>1, <1>3, <2>2, <2>5, <2>6, <2>7, TrailKept
<1> QED BY <1>4, <1>5, <1>6

\* What a run enters is known: nothing under way, or the script of the stage.
LEMMA EnterIs ==
    ASSUME IInv, NEW r \in Runs, NEW stage, Enter(r, stage)
    PROVE  /\ pc'[r] = stage /\ reply'[r] = "none"
           /\ script'[r] = <<>> \/ script'[r] = Script(r, stage)
           /\ \A q \in Runs \ {r} : pc'[q] = pc[q] /\ script'[q] = script[q] /\ reply'[q] = reply[q]
BY DEF Enter, IInv, Shape

\* Entering a stage on live makes no temporary database.
LEMMA EnterNoTemporary ==
    ASSUME TypeInv, IInv, NEW r \in Runs, NEW stage, stage \notin Beside \cup Swapping,
           Enter(r, stage), UNCHANGED <<db, stray>>, NoTemporary(r)
    PROVE  NoTemporary(r)'
<1>1. script'[r] \in Seq(OnLive(r)) /\ stray'[r] \in Seq(OnLive(r))
  <2>1. Script(r, stage) \in Seq(OnLive(r))
    BY OnLiveScript DEF TypeInv, OwnInv
  <2> QED BY <2>1, EnterIs, EmptySeq DEF NoTemporary
<1> QED BY <1>1, EnterIs DEF NoTemporary, OnLive, Own

\* A run goes on to make its temporary database only with that name in its row.
LEMMA ProceedTrails ==
    ASSUME TypeInv, IInv, IInv', TrailInv, NEW r \in Runs, Proceed(r)
    PROVE  TrailInv'
<1> DEFINE stage == IF reply[r] \in {"exit", "lost"} THEN OnFailure(r) ELSE OnSuccess(r)
<1>1. /\ pc[r] \in Commands /\ Enter(r, stage)
      /\ existed' = [existed EXCEPT ![r] = IF pc[r] = "meta" THEN reply[r] = "yes" ELSE existed[r]]
      /\ UNCHANGED <<db, stray, wants, recorded, before, overlapped, faults>>
  BY DEF Proceed, serverVars
<1>2. /\ pc'[r] = stage
      /\ \A q \in Runs \ {r} : pc'[q] = pc[q] /\ script'[q] = script[q]
      /\ existed'[r] = IF pc[r] = "meta" THEN reply[r] = "yes" ELSE existed[r]
      /\ \A q \in Runs \ {r} : existed'[q] = existed[q]
  BY <1>1, EnterIs DEF IInv, Shape
<1>3. ASSUME faults' = 0 PROVE Trailed(r)'
  <2>1. Trailed(r)
    BY <1>1, <1>3, TrailIs
  <2>2. ASSUME NoTemporary(r) PROVE NoTemporary(r)'
    <3>1. stage \notin Beside \cup Swapping
      BY <1>1, <2>2, StageBeside DEF NoTemporary
    <3> HIDE DEF stage
    <3> QED BY <1>1, <2>2, <3>1, EnterNoTemporary
  <2>3. ASSUME ~overlapped, OnRecord(r)', HasSafety(r)', "recordSafety" \notin recorded[r]
        PROVE  Untouched(r)' /\ stage \in Reading \cup {"recordSafety"}
    <3>1. OnRecord(r) /\ Kept(r) /\ Kept(r)'
      BY <1>1, <2>3, OnRecordStages DEF IInv, KeptInv
    <3>2. pc[r] \in Reading
      <4>1. pc[r] \notin Reading => HasSafety(r)
        BY <1>1, <1>2, <2>3 DEF HasSafety, Reading
      <4> QED BY <1>1, <2>1, <2>3, <3>1, <4>1 DEF Trailed, Commands, Stoppable, Recovery
    <3>3. wants[r] /\ (pc[r] = "meta" => reply[r] = "yes")
      BY <1>1, <1>2, <2>3 DEF HasSafety
    <3>4. stage # "unchanged"
      BY <1>2, <2>3 DEF OnRecord, Active, Commands, Stoppable, Recovery, Params
    <3>5. stage \in {"dump", "store"} \/ (pc[r] = "store" /\ stage = "recordSafety")
      BY <3>2, <3>3, <3>4, AfterReading DEF Reading
    <3>6. CASE stage \in {"dump", "store"}
      <4> HIDE DEF stage
      <4> QED BY <1>2, <3>1, <3>6 DEF Kept, Reading
    <3>7. CASE pc[r] = "store" /\ stage = "recordSafety"
      BY <1>1, <3>1, <3>7 DEF Kept, Untouched, Reading
    <3> QED BY <3>5, <3>6, <3>7 DEF Reading
  <2> HIDE DEF stage
  <2> QED BY <1>1, <1>2, <2>1, <2>2, <2>3 DEF Trailed
<1> HIDE DEF stage
<1> QED BY <1>1, <1>2, <1>3, TrailKept

\* With no failing statement the row has what it was to have.
LEMMA RecordParamTrails ==
    ASSUME TypeInv, IInv, TrailInv, NEW r \in Runs, RecordParam(r)
    PROVE  TrailInv'
<1>1. /\ pc[r] \in Params /\ Enter(r, AfterParam(r))
      /\ \/ recorded' = [recorded EXCEPT ![r] = recorded[r] \cup {pc[r]}] /\ faults' = faults
         \/ Fault /\ recorded' = recorded
      /\ UNCHANGED <<db, stray, wants, existed, before, overlapped>>
  BY DEF RecordParam, serverVars
<1>2. faults \in Nat /\ recorded \in [Runs -> SUBSET Params]
  BY DEF TypeInv, TypeOK
<1>3. faults' = 0 => faults = 0 /\ recorded'[r] = recorded[r] \cup {pc[r]}
  BY <1>1, <1>2 DEF Fault
<1>4. \A q \in Runs \ {r} : recorded'[q] = recorded[q]
  BY <1>1, <1>2
<1>5. /\ pc'[r] = AfterParam(r)
      /\ \A q \in Runs \ {r} : pc'[q] = pc[q] /\ script'[q] = script[q]
  BY <1>1, EnterIs
<1>6. ASSUME faults' = 0 PROVE Trailed(r)'
  <2>1. Trailed(r)
    BY <1>3, <1>6, TrailIs
  <2>2. pc[r] \in {"recordTmp", "recordSafety"}
    BY <1>1 DEF Params
  <2>3. ASSUME "recordTmp" \notin recorded'[r] PROVE NoTemporary(r)'
    <3>1. pc[r] = "recordSafety" /\ NoTemporary(r)
      BY <1>3, <1>6, <2>1, <2>2, <2>3 DEF Trailed
    <3>2. AfterParam(r) \notin Beside \cup Swapping
      BY <3>1 DEF AfterParam, First, Beside, Swapping
    <3> QED BY <1>1, <3>1, <3>2, EnterNoTemporary
  <2>4. ~overlapped /\ HasSafety(r) => "recordSafety" \in recorded'[r]
    <3>1. OnRecord(r)
      BY <1>1 DEF OnRecord, Active
    <3>2. CASE pc[r] = "recordSafety"
      BY <1>3, <1>6, <3>2
    <3>3. CASE pc[r] = "recordTmp"
      BY <1>3, <1>6, <2>1, <3>1, <3>3 DEF Trailed, Reading
    <3> QED BY <2>2, <3>2, <3>3
  <2> QED BY <1>1, <2>3, <2>4 DEF Trailed, HasSafety
<1> QED BY <1>1, <1>3, <1>4, <1>5, <1>6, TrailKept

\* A run that begins has no trail to keep yet.
LEMMA AroundTrails ==
    ASSUME TypeInv, IInv, IInv', TrailInv, NEW r \in Runs, Check(r) \/ Begin(r) \/ Stop(r)
    PROVE  TrailInv'
<1>1. faults' = 0 => faults = 0
  BY DEF Check, Begin, Stop, Fault, TypeInv, TypeOK
<1>2. UNCHANGED <<db, stray, recorded, existed>>
  BY DEF Check, Begin, Stop, serverVars, planVars
<1>3. CASE Stop(r)
  BY <1>1, <1>2, <1>3, TrailIs, TrailIsNext DEF Stop, commandVars, planVars, historyVars, Trailed,
     NoTemporary, OnLive, Own, OnRecord, Active, HasSafety, Untouched
<1>4. CASE Check(r)
  <2>1. /\ pc' = [pc EXCEPT ![r] = "checked"] /\ UNCHANGED <<script, wants, before, overlapped>>
    BY <1>4 DEF Check, planVars, historyVars
  <2>2. pc'[r] = "checked" /\ \A q \in Runs \ {r} : pc'[q] = pc[q]
    BY <2>1 DEF IInv, Shape
  <2>3. ASSUME faults' = 0 PROVE Trailed(r)'
    <3>1. Trailed(r)
      BY <1>1, <2>3, TrailIs
    <3>2. ~OnRecord(r)'
      BY <2>2 DEF OnRecord, Active, Commands, Stoppable, Recovery, Params
    <3> QED BY <1>2, <2>1, <2>2, <3>1, <3>2 DEF Trailed, NoTemporary, OnLive, Own, Beside, Swapping
  <2> QED BY <1>1, <1>2, <2>1, <2>2, <2>3, TrailKept
<1>5. CASE Begin(r)
  <2>1. /\ Enter(r, "meta") /\ \E b \in BOOLEAN : wants' = [wants EXCEPT ![r] = b]
        /\ before' = [before EXCEPT ![r] = db["live"]]
        /\ overlapped' = (overlapped \/ \E q \in Runs : OnRecord(q) \/ stray[q] # <<>>)
    BY <1>5 DEF Begin
  <2>2. /\ pc'[r] = "meta"
        /\ \A q \in Runs \ {r} : /\ pc'[q] = pc[q] /\ script'[q] = script[q]
                                 /\ wants'[q] = wants[q] /\ before'[q] = before[q]
    BY <2>1, EnterIs DEF IInv, Shape
  <2>3. ASSUME faults' = 0 PROVE Trailed(r)'
    <3>1. Trailed(r)
      BY <1>1, <2>3, TrailIs
    <3>2. NoTemporary(r) => NoTemporary(r)'
      BY <1>2, <2>1, EnterNoTemporary DEF Beside, Swapping
    <3>3. ~overlapped' /\ OnRecord(r)' => Untouched(r)'
      BY <2>2 DEF IInv, KeptInv, Kept, Reading
    <3> QED BY <1>2, <2>2, <3>1, <3>2, <3>3 DEF Trailed, Reading
  <2> QED BY <1>1, <1>2, <2>1, <2>2, <2>3, TrailKept
<1> QED BY <1>3, <1>4, <1>5

\* Nothing is left of a look.
LEMMA LookLeavesNothing ==
    ASSUME NEW r \in Runs, OnlyLooks(r)
    PROVE  Leave(r, Orphan(script[r])) = stray[r]
<1>1. Orphan(script[r]) = <<>>
  BY LooksChangeNothing, NothingLeft DEF OnlyLooks
<1> QED BY <1>1, NothingLeft

\* A death leaves the rows.
LEMMA DeathTrails ==
    ASSUME TypeInv, IInv, TrailInv, Crash \/ Reconcile
    PROVE  TrailInv'
<1>1. UNCHANGED <<db, recorded, wants, existed, before, overlapped, faults>>
  BY DEF Crash, Reconcile, serverVars, planVars, historyVars
<1>2. CASE Reconcile
  <2>1. /\ \A r \in Runs : pc'[r] = IF pc[r] = "dead" THEN "interrupted" ELSE pc[r]
        /\ UNCHANGED <<script, stray>>
    BY <1>2 DEF Reconcile, serverVars
  <2>2. ASSUME NEW r \in Runs, Trailed(r) PROVE Trailed(r)'
    <3>1. OnRecord(r)' => OnRecord(r) /\ pc'[r] = pc[r]
      BY <2>1 DEF OnRecord, Active, Commands, Stoppable, Recovery, Params
    <3> QED BY <1>1, <2>1, <2>2, <3>1 DEF Trailed, NoTemporary, OnLive, Own, HasSafety, Untouched,
                                         Beside, Swapping
  <2> QED BY <1>1, <2>2, TrailIs, TrailIsNext
<1>3. CASE Crash
  <2>1. \A r \in Runs : /\ stray'[r] = Leave(r, Orphan(script[r])) /\ script'[r] = <<>>
                        /\ pc'[r] = IF Active(r) THEN "dead" ELSE IF pc[r] = "checked" THEN "idle" ELSE pc[r]
    BY <1>3 DEF Crash
  <2>2. ASSUME NEW r \in Runs, Trailed(r) PROVE Trailed(r)'
    <3>1. OnRecord(r)' => OnRecord(r) /\ pc'[r] = "dead"
      BY <2>1 DEF OnRecord, Active, Commands, Stoppable, Recovery, Params
    <3>2. ASSUME NoTemporary(r) PROVE NoTemporary(r)'
      <4>1. script'[r] \in Seq(OnLive(r)) /\ stray'[r] \in Seq(OnLive(r))
        BY <2>1, <3>2, OnLiveRemnant, EmptySeq DEF NoTemporary
      <4>2. pc'[r] \notin Beside \cup Swapping
        BY <2>1, <3>2 DEF NoTemporary, Beside, Swapping
      <4> QED BY <1>1, <3>2, <4>1, <4>2 DEF NoTemporary, OnLive, Own
    <3>3. ASSUME ~overlapped, OnRecord(r), Untouched(r), pc[r] \in Reading \cup {"recordSafety", "dead"}
          PROVE  Untouched(r)'
      <4>1. OnlyLooks(r)
        BY <3>3 DEF IInv, KeptInv, Kept, Quiet, OnlyLooks, Reading, Commands, Stoppable, Recovery
      <4> QED BY <1>1, <2>1, <3>3, <4>1, LookLeavesNothing DEF Untouched
    <3> QED BY <1>1, <2>2, <3>1, <3>2, <3>3 DEF Trailed, HasSafety
  <2> QED BY <1>1, <2>2, TrailIs, TrailIsNext
<1> QED BY <1>2, <1>3

\* Every step keeps the trails.
LEMMA NextTrail == TypeInv /\ IInv /\ IInv' /\ TrailInv /\ [Next]_vars => TrailInv'
<1> SUFFICES ASSUME TypeInv, IInv, IInv', TrailInv, [Next]_vars PROVE TrailInv'
  OBVIOUS
<1>1. CASE UNCHANGED vars
  BY <1>1 DEF vars, serverVars, commandVars, planVars, historyVars, TrailInv, NoTemporary, OnLive, Own,
              OnRecord, Active, HasSafety, Untouched
<1>2. ASSUME NEW r \in Runs, Check(r) \/ Begin(r) \/ Stop(r) \/ Proceed(r) \/ RecordParam(r)
      PROVE  TrailInv'
  BY <1>2, AroundTrails, ProceedTrails, RecordParamTrails
<1>3. ASSUME NEW r \in Runs,
             \/ StatementDone(r) \/ StatementRefused(r) \/ DumpCut(r) \/ ImportCut(r)
             \/ Lose(r) \/ Abandon(r) \/ StrayStatement(r)
      PROVE  TrailInv'
  BY <1>3, StatementDoneTrails, EndTrails, FaultTrails, StrayTrails
<1>4. CASE Crash \/ Reconcile
  BY <1>4, DeathTrails
<1> QED BY <1>1, <1>2, <1>3, <1>4 DEF Next

\* They hold at first.
LEMMA InitTrail == Init => TrailInv
<1> SUFFICES ASSUME Init, NEW r \in Runs PROVE NoTemporary(r) /\ ~OnRecord(r)
  BY DEF TrailInv
<1>1. pc[r] = "idle" /\ script[r] = <<>> /\ stray[r] = <<>> /\ db[r] = "absent"
  BY RunsAssumption DEF Init
<1> QED BY <1>1, EmptySeq DEF NoTemporary, OnRecord, Active, Commands, Stoppable, Recovery, Params,
                              Beside, Swapping

-----------------------------------------------------------------------------
(* What the database is, at each stage.                                    *)

\* Statements of a script, one after the other.
LEMMA Tuples ==
    ASSUME NEW a, NEW b, NEW c
    PROVE  /\ <<a>> # <<>> /\ <<a, b>> # <<>> /\ <<a, b, c>> # <<>>
           /\ Head(<<a>>) = a /\ Head(<<a, b>>) = a /\ Head(<<a, b, c>>) = a
           /\ Tail(<<a>>) = <<>> /\ Tail(<<a, b>>) = <<b>> /\ Tail(<<a, b, c>>) = <<b, c>>
           /\ <<>> \o <<a>> = <<a>> /\ <<a, b>> \o <<c>> = <<a, b, c>>
<1> DEFINE S == {a, b, c}
<1>1. /\ <<a>> # <<>> /\ <<a, b>> # <<>> /\ <<a, b, c>> # <<>>
      /\ Head(<<a>>) = a /\ Head(<<a, b>>) = a /\ Head(<<a, b, c>>) = a
  OBVIOUS
<1>2. /\ <<>> \in Seq(S) /\ <<a>> \in Seq(S) /\ <<b>> \in Seq(S) /\ <<c>> \in Seq(S)
      /\ <<a, b>> \in Seq(S) /\ <<b, c>> \in Seq(S) /\ <<a, b, c>> \in Seq(S)
  OBVIOUS
<1>3. /\ Len(<<>>) = 0 /\ Len(<<a>>) = 1 /\ Len(<<b>>) = 1 /\ Len(<<c>>) = 1
      /\ Len(<<a, b>>) = 2 /\ Len(<<b, c>>) = 2 /\ Len(<<a, b, c>>) = 3
  OBVIOUS
<1> HIDE DEF S
<1>4. Tail(<<a>>) = <<>>
  <2>1. Tail(<<a>>) \in Seq(S) /\ Len(Tail(<<a>>)) = 0
    BY <1>1, <1>2, <1>3, HeadTailProperties
  <2> QED BY <2>1, EmptySeq
<1>5. Tail(<<a, b>>) = <<b>>
  <2>1. /\ Tail(<<a, b>>) \in Seq(S) /\ Len(Tail(<<a, b>>)) = 1
        /\ \A i \in 1 .. 1 : Tail(<<a, b>>)[i] = <<a, b>>[i + 1]
    BY <1>1, <1>2, <1>3, HeadTailProperties
  <2>2. \A i \in 1 .. 1 : Tail(<<a, b>>)[i] = <<b>>[i]
    BY <2>1
  <2> QED BY <1>2, <1>3, <2>1, <2>2, SeqEqual
<1>6. Tail(<<a, b, c>>) = <<b, c>>
  <2>1. /\ Tail(<<a, b, c>>) \in Seq(S) /\ Len(Tail(<<a, b, c>>)) = 2
        /\ \A i \in 1 .. 2 : Tail(<<a, b, c>>)[i] = <<a, b, c>>[i + 1]
    BY <1>1, <1>2, <1>3, HeadTailProperties
  <2>2. \A i \in 1 .. 2 : Tail(<<a, b, c>>)[i] = <<b, c>>[i]
    BY <2>1
  <2> QED BY <1>2, <1>3, <2>1, <2>2, SeqEqual
<1>7. <<>> \o <<a>> = <<a>>
  BY <1>2, ConcatEmptySeq
<1>8. <<a, b>> \o <<c>> = <<a, b, c>>
  <2>1. /\ <<a, b>> \o <<c>> \in Seq(S) /\ Len(<<a, b>> \o <<c>>) = 3
        /\ \A i \in 1 .. 3 : (<<a, b>> \o <<c>>)[i] = IF i <= 2 THEN <<a, b>>[i] ELSE <<c>>[i - 2]
    BY <1>2, <1>3, ConcatProperties
  <2>2. \A i \in 1 .. 3 : (<<a, b>> \o <<c>>)[i] = <<a, b, c>>[i]
    BY <2>1
  <2> QED BY <1>2, <1>3, <2>1, <2>2, SeqEqual
<1> QED BY <1>1, <1>4, <1>5, <1>6, <1>7, <1>8

\* A statement aside is on the temporary database, or changes no content.
LEMMA AsideStatement ==
    ASSUME NEW r \in Runs, NEW s \in Aside(r)
    PROVE  /\ s \in Own(r)
           /\ s.on = r \/ s.op \notin {"drop", "create", "load"}
           /\ s.op # "rename"
BY DEF Aside

\* It leaves live alone.
LEMMA AsideEffect ==
    ASSUME TypeInv, NEW r \in Runs, NEW s \in Aside(r), NEW q, Effect(s, q)
    PROVE  db'["live"] = db["live"]
<1>1. r # "live" /\ db \in [Runs \cup {"live"} -> Contents]
  BY RunsAssumption DEF TypeInv, TypeOK
<1> QED BY <1>1, AsideStatement DEF Effect, DbAfter

\* What is left of statements aside is aside.
LEMMA AsideRemnant ==
    ASSUME NEW r \in Runs, NEW q \in Seq(Aside(r)), stray[r] \in Seq(Aside(r))
    PROVE  /\ Leave(r, Orphan(q)) \in Seq(Aside(r)) /\ Leave(r, Remnant(q)) \in Seq(Aside(r))
<1>1. Orphan(q) \in Seq(Aside(r))
  <2>1. CASE q # <<>> /\ Head(q).op = "load"
    <3>1. Head(q).on = r
      BY <2>1, FirstAndRest, AsideStatement
    <3>2. Load(r, "part") \in Own(r)
      BY StatementTyped DEF Contents
    <3>3. Load(r, "part") \in Aside(r)
      BY <3>2 DEF Aside, Load
    <3> QED BY <2>1, <3>1, <3>3 DEF Orphan
  <2>2. CASE ~(q # <<>> /\ Head(q).op = "load")
    BY <2>2 DEF Orphan
  <2> QED BY <2>1, <2>2
<1>2. Remnant(q) \in Seq(Aside(r))
  BY <1>1, FirstAndRest DEF Remnant
<1>3. \A p \in Seq(Aside(r)) : Leave(r, p) \in Seq(Aside(r))
  BY DEF Leave
<1> QED BY <1>1, <1>2, <1>3

\* PostgreSQL imports and prepares aside.
LEMMA AsideScript ==
    ASSUME NEW r \in Runs, NEW stage \in Beside
    PROVE  Script(r, stage) \in Seq(Aside(r))
<1>1. /\ \A op \in Changing \cup {"look", "dump", "store", "props"}, n \in {r, "live"} : Do(op, n) \in Own(r)
      /\ Load(r, "dump") \in Own(r)
  BY StatementTyped DEF Contents
<1>2. /\ Do("create", r) \in Aside(r) /\ Do("drop", r) \in Aside(r) /\ Load(r, "dump") \in Aside(r)
      /\ Do("props", "live") \in Aside(r) /\ Do("open", "live") \in Aside(r)
  <2> HIDE DEF Own
  <2> QED BY <1>1 DEF Aside, Do, Load, Changing
<1> HIDE DEF Aside
<1>3. CASE stage \in {"createTmp", "dropTmp", "cleanup"}
  BY <1>2, <1>3 DEF Script
<1>4. CASE stage \in {"importTmp", "props", "reopen"}
  BY <1>2, <1>4 DEF Script
<1> QED BY <1>3, <1>4 DEF Beside

\* The scripts of the stages that are told apart by what was sent.
LEMMA Scripts ==
    ASSUME NEW r \in Runs
    PROVE  /\ Script(r, "importTmp") = <<Load(r, "dump")>>
           /\ Script(r, "props") = <<Do("props", "live")>>
           /\ Script(r, "swap") \in SwapRest(r) /\ Script(r, "rename") \in SwapRest(r)
           /\ Script(r, "check") = <<Do("look", "live")>>
           /\ Script(r, "drop") = <<Do("drop", "live")>> /\ Script(r, "dropBack") = <<Do("drop", "live")>>
           /\ Script(r, "import") \in Imports("dump")
           /\ Script(r, "importBack") \in Imports(safety[r])
<1>1. Script(r, "swap") \in SwapRest(r)
  <2>1. Script(r, "swap") = (IF existed[r] THEN <<Do("close", "live"), Do("drop", "live")>> ELSE <<>>)
                            \o <<Do("rename", r)>>
    BY DEF Script
  <2>2. CASE existed[r]
    BY <2>1, <2>2, Tuples DEF SwapRest
  <2>3. CASE ~existed[r]
    BY <2>1, <2>3, Tuples DEF SwapRest
  <2> QED BY <2>2, <2>3
<1>2. Script(r, "rename") \in SwapRest(r)
  BY DEF Script, SwapRest
<1> QED BY <1>1, <1>2 DEF Script, Imports

\* When a run acts no other is on record, unless they overlapped.
LEMMA ActingPlace ==
    ASSUME IInv, PlaceInv, NEW r \in Runs, OnRecord(r),
           \A q \in Runs \ {r} : pc'[q] = pc[q],
           ~overlapped' => ~overlapped, ~broken' => ~broken,
           ~overlapped /\ ~broken /\ ~broken' /\ Place(r) /\ OnRecord(r)' => Place(r)'
    PROVE  PlaceInv'
<1>1. ASSUME ~overlapped, NEW q \in Runs \ {r} PROVE ~OnRecord(q)'
  BY <1>1, OneOnRecord DEF OnRecord, Active
<1> QED BY <1>1 DEF PlaceInv

\* No stage is of two kinds.
LEMMA StageSets ==
    /\ Reading \cap (Params \cup Beside \cup Swapping \cup Replacing \cup PuttingBack \cup {"dead"}) = {}
    /\ Params \cap (Beside \cup Swapping \cup Replacing \cup PuttingBack \cup {"dead"}) = {}
    /\ Beside \cap (Swapping \cup Replacing \cup PuttingBack \cup {"dead"}) = {}
    /\ Swapping \cap (Replacing \cup PuttingBack \cup {"dead"}) = {}
    /\ Replacing \cap (PuttingBack \cup {"dead"}) = {} /\ "dead" \notin PuttingBack
    /\ Commands = Reading \cup Beside \cup Swapping \cup Replacing \cup PuttingBack
BY DEF Reading, Params, Beside, Swapping, Replacing, PuttingBack, Commands, Stoppable, Recovery

\* Before the work begins nothing is asked of the database here.
LEMMA ReadingPlace == ASSUME NEW r, pc[r] \in Reading PROVE Place(r)
BY DEF Place, PlaceBeside, PlaceSwap, PlaceReplace, Reading, Params, Beside, Swapping, Replacing

\* The same of the next state.
LEMMA ReadingPlaceNext == ASSUME NEW r, pc'[r] \in Reading PROVE Place(r)'
BY DEF Place, PlaceBeside, PlaceSwap, PlaceReplace, Reading, Params, Beside, Swapping, Replacing

\* What is to show of a run at a stage of its kind.
LEMMA BesidePlace ==
    ASSUME NEW r, pc'[r] \in Beside, PlaceBeside(r)'
    PROVE  Place(r)'
BY DEF Place, PlaceSwap, PlaceReplace, Beside, Swapping, Replacing

\* While it swaps or is dead, the place is the swap's.
LEMMA SwapPlace ==
    ASSUME NEW r, pc'[r] \in Swapping \cup {"dead"}, PlaceSwap(r)'
    PROVE  Place(r)'
BY DEF Place, PlaceBeside, PlaceReplace, Params, Beside, Swapping, Replacing

\* While MySQL replaces, the place is the replacement's.
LEMMA ReplacePlace ==
    ASSUME NEW r, pc'[r] \in Replacing \cup PuttingBack, PlaceReplace(r)'
    PROVE  Place(r)'
BY DEF Place, PlaceBeside, PlaceSwap, Params, Beside, Swapping, Replacing, PuttingBack

\* The statement a command is at, and what it does.
StepOf(r, s) ==
    /\ pc[r] \in Commands /\ reply[r] = "none" /\ script[r] # <<>> /\ s = Head(script[r]) /\ Possible(s)
    /\ script'[r] = Tail(script[r])
    /\ reply'[r] = IF Tail(script[r]) = <<>> THEN Answer(s) ELSE "none"
    /\ Effect(s, stray) /\ db' = DbAfter(s)
    /\ stray'[r] = IF stray[r] # <<>> /\ EndedBy(Head(stray[r]), s) THEN <<>> ELSE stray[r]
    /\ safety'[r] = IF pc[r] = "store" THEN spool[r] ELSE safety[r]
    /\ UNCHANGED <<engine, pc, before, wants, existed, overlapped, broken>>

\* A statement that is done is the first of the script.
LEMMA StatementDoneIs ==
    ASSUME TypeInv, NEW r \in Runs, StatementDone(r)
    PROVE  /\ StepOf(r, Head(script[r])) /\ db \in [Runs \cup {"live"} -> Contents] /\ r # "live"
           /\ script[r] \in Seq(Own(r)) /\ stray[r] \in Seq(Own(r))
<1>1. /\ pc \in [Runs -> {"idle", "checked", "dead"} \cup Commands \cup Params \cup Reports]
      /\ DOMAIN stray = Runs /\ DOMAIN script = Runs /\ DOMAIN reply = Runs /\ DOMAIN safety = Runs
      /\ db \in [Runs \cup {"live"} -> Contents]
      /\ script[r] \in Seq(Own(r)) /\ stray[r] \in Seq(Own(r))
  BY DEF TypeInv, TypeOK, OwnInv
<1>2. /\ pc[r] \in Commands /\ reply[r] = "none" /\ script[r] # <<>> /\ Possible(Head(script[r]))
      /\ Effect(Head(script[r]), stray)
      /\ script' = [script EXCEPT ![r] = Tail(script[r])]
      /\ reply' = [reply EXCEPT ![r] = IF Tail(script[r]) = <<>> THEN Answer(Head(script[r])) ELSE "none"]
      /\ safety' = [safety EXCEPT ![r] = IF pc[r] = "store" THEN spool[r] ELSE safety[r]]
      /\ UNCHANGED <<pc, before, wants, existed, overlapped, broken>>
  BY DEF StatementDone, AtWork, Waiting, historyVars
<1>3. /\ db' = DbAfter(Head(script[r])) /\ engine' = engine
      /\ stray'[r] = IF stray[r] # <<>> /\ EndedBy(Head(stray[r]), Head(script[r])) THEN <<>> ELSE stray[r]
  BY <1>2 DEF Effect, StrayAfter
<1> QED BY <1>1, <1>2, <1>3, RunsAssumption DEF StepOf

\* Aside, live stays what it was.
LEMMA BesideStep ==
    ASSUME TypeInv, NEW r \in Runs, NEW s, StepOf(r, s), r # "live", pc[r] \in Beside, Place(r)
    PROVE  Place(r)'
<1>1. db["live"] = before[r] /\ script[r] \in Seq(Aside(r)) /\ stray[r] \in Seq(Aside(r))
  BY DEF Place, PlaceBeside
<1>2. s \in Aside(r) /\ Tail(script[r]) \in Seq(Aside(r))
  BY <1>1, FirstAndRest DEF StepOf
<1>3. db'["live"] = before'[r]
  BY <1>1, <1>2, AsideEffect DEF StepOf
<1>4. script'[r] \in Seq(Aside(r)) /\ stray'[r] \in Seq(Aside(r))
  BY <1>1, <1>2, EmptySeq DEF StepOf
<1>5. stray[r] = <<>> => stray'[r] = <<>>
  BY DEF StepOf
<1>6. Aside(r)' = Aside(r)
  BY DEF Aside, Own
<1>7. pc'[r] = pc[r] /\ pc[r] \notin Params
  BY StageSets DEF StepOf
<1>8. pc[r] = "importTmp" => db'[r] = "dump" /\ script'[r] = <<>>
  <2> SUFFICES ASSUME pc[r] = "importTmp" PROVE db'[r] = "dump" /\ script'[r] = <<>>
    OBVIOUS
  <2>1. script[r] = <<Load(r, "dump")>>
    BY DEF Place, PlaceBeside, StepOf
  <2>2. s = Load(r, "dump") /\ script'[r] = <<>>
    BY <2>1, Tuples DEF StepOf
  <2> QED BY <2>2 DEF StepOf, Load, DbAfter, TypeInv, TypeOK
<1>9. pc[r] = "props" => db'[r] = "dump" /\ script'[r] = <<>>
  <2> SUFFICES ASSUME pc[r] = "props" PROVE db'[r] = "dump" /\ script'[r] = <<>>
    OBVIOUS
  <2>1. script[r] = <<Do("props", "live")>> /\ db[r] = "dump"
    BY DEF Place, PlaceBeside, StepOf
  <2>2. s = Do("props", "live") /\ script'[r] = <<>>
    BY <2>1, Tuples DEF StepOf
  <2> QED BY <2>1, <2>2 DEF StepOf, Do, DbAfter
<1>10. pc[r] \in {"createTmp", "importTmp", "props"} => stray'[r] = <<>>
  BY <1>5 DEF Place, PlaceBeside, StepOf
<1>11. PlaceBeside(r)'
  BY <1>3, <1>4, <1>6, <1>7, <1>8, <1>9, <1>10 DEF PlaceBeside
<1> QED BY <1>7, <1>11, BesidePlace

\* Step by step, the swap drops live and renames what is ready to it.
LEMMA SwapStep ==
    ASSUME TypeInv, NEW r \in Runs, NEW s, StepOf(r, s), r # "live", pc[r] \in Swapping, Place(r)
    PROVE  Place(r)'
<1>1. Ready(r) /\ stray[r] = <<>> /\ stray'[r] = <<>>
  BY DEF Place, PlaceSwap, StepOf, InPlace
<1>2. pc'[r] = pc[r] /\ pc[r] \notin {"dead"} /\ before'[r] = before[r]
  BY StageSets DEF StepOf
<1>3. db \in [Runs \cup {"live"} -> Contents]
  BY DEF TypeInv, TypeOK
<1>4. CASE pc[r] = "check"
  <2>1. script[r] = <<Do("look", "live")>>
    BY <1>4 DEF Place, PlaceSwap, StepOf
  <2>2. s = Do("look", "live") /\ script'[r] = <<>> /\ reply'[r] = Answer(s)
    BY <2>1, Tuples DEF StepOf
  <2>3. db' = db /\ reply'[r] = IF db["live"] = "absent" THEN "no" ELSE "yes"
    BY <2>2 DEF StepOf, Do, DbAfter, Answer
  <2>4. PlaceSwap(r)'
    BY <1>1, <1>2, <1>4, <2>2, <2>3 DEF PlaceSwap, Ready, Swapping
  <2> QED BY <1>2, <2>4, SwapPlace
<1>5. CASE pc[r] # "check"
  <2>1. script[r] \in SwapRest(r) /\ script[r] # <<>>
    BY <1>5 DEF Place, PlaceSwap, StepOf, Swapping
  <2>2. CASE script[r] = <<Do("rename", r)>>
    <3>1. s = Do("rename", r) /\ script'[r] = <<>> /\ reply'[r] = Answer(s)
      BY <2>2, Tuples DEF StepOf
    <3>2. reply'[r] = "ok" /\ db'["live"] = "dump"
      BY <1>1, <1>3, <3>1 DEF StepOf, Do, DbAfter, Answer, Ready
    <3>3. InPlace(r)'
      BY <1>1, <3>1, <3>2 DEF InPlace
    <3>4. SwapRest(r)' = SwapRest(r)
      BY DEF SwapRest, Do
    <3>5. PlaceSwap(r)'
      BY <1>2, <1>5, <3>1, <3>2, <3>3, <3>4 DEF PlaceSwap, SwapRest
    <3> QED BY <1>2, <3>5, SwapPlace
  <2>3. CASE script[r] = <<Do("drop", "live"), Do("rename", r)>>
    <3>1. s = Do("drop", "live") /\ script'[r] = <<Do("rename", r)>> /\ reply'[r] = "none"
      BY <2>3, Tuples DEF StepOf
    <3>2. Ready(r)'
      BY <1>1, <1>2, <1>3, <3>1 DEF StepOf, Do, DbAfter, Ready
    <3>3. PlaceSwap(r)'
      BY <1>1, <1>2, <1>5, <3>1, <3>2 DEF PlaceSwap, SwapRest, Succeeded
    <3> QED BY <1>2, <3>3, SwapPlace
  <2>4. CASE script[r] = <<Do("close", "live"), Do("drop", "live"), Do("rename", r)>>
    <3>1. s = Do("close", "live") /\ script'[r] = <<Do("drop", "live"), Do("rename", r)>> /\ reply'[r] = "none"
      BY <2>4, Tuples DEF StepOf
    <3>2. Ready(r)'
      BY <1>1, <1>2, <3>1 DEF StepOf, Do, DbAfter, Ready
    <3>3. PlaceSwap(r)'
      BY <1>1, <1>2, <1>5, <3>1, <3>2 DEF PlaceSwap, SwapRest, Succeeded
    <3> QED BY <1>2, <3>3, SwapPlace
  <2> QED BY <2>1, <2>2, <2>3, <2>4 DEF SwapRest
<1> QED BY <1>4, <1>5

\* An import, statement by statement.
LEMMA ImportStep ==
    ASSUME TypeInv, NEW r \in Runs, NEW s, StepOf(r, s), NEW c, script[r] \in Imports(c)
    PROVE  /\ script'[r] \in Imports(c)
           /\ reply'[r] # "none" => db'["live"] = c
<1>1. db \in [Runs \cup {"live"} -> Contents]
  BY DEF TypeInv, TypeOK
<1>2. CASE script[r] = <<Load("live", c)>>
  <2>1. s = Load("live", c) /\ script'[r] = <<>>
    BY <1>2, Tuples DEF StepOf
  <2>2. db'["live"] = c
    BY <1>1, <2>1 DEF StepOf, Load, DbAfter
  <2> QED BY <2>1, <2>2 DEF Imports
<1>3. CASE script[r] = <<Load("live", "part"), Load("live", c)>>
  <2>1. script'[r] = <<Load("live", c)>> /\ reply'[r] = "none"
    BY <1>3, Tuples DEF StepOf
  <2> QED BY <2>1 DEF Imports
<1> QED BY <1>2, <1>3 DEF Imports, StepOf

\* MySQL drops, creates and imports, in this order.
LEMMA ReplaceStep ==
    ASSUME TypeInv, EngineInv, NEW r \in Runs, NEW s, StepOf(r, s), pc[r] \in Replacing \cup PuttingBack, Place(r)
    PROVE  Place(r)'
<1>1. pc'[r] = pc[r] /\ before'[r] = before[r]
  BY DEF StepOf
<1>2. safety'[r] = safety[r]
  BY DEF StepOf, Replacing, PuttingBack
<1>3. PlaceReplace(r)
  BY DEF Place
<1>4. stray[r] = <<>> => stray'[r] = <<>>
  BY DEF StepOf
<1>5. OnLive(r)' = OnLive(r) /\ Imports("dump")' = Imports("dump") /\ Imports(safety[r])' = Imports(safety[r])
  BY <1>2 DEF OnLive, Own, Imports, Load
<1>6. CASE pc[r] \in Replacing
  <2>1. script[r] \in Seq(OnLive(r)) /\ stray[r] = <<>>
    BY <1>3, <1>6 DEF PlaceReplace, StepOf
  <2>2. script'[r] \in Seq(OnLive(r)) /\ stray'[r] = <<>> /\ stray'[r] \in Seq(OnLive(r))
    BY <1>4, <2>1, FirstAndRest, EmptySeq DEF StepOf
  <2>3. ASSUME pc[r] = "drop" PROVE script'[r] = <<>> /\ reply'[r] \notin {"none", "exit"}
    <3>1. script[r] = <<Do("drop", "live")>>
      BY <1>3, <2>3 DEF PlaceReplace, StepOf
    <3> QED BY <3>1, Tuples DEF StepOf, Answer
  <2>4. ASSUME pc[r] = "import" PROVE script'[r] \in Imports("dump") /\ (Succeeded(r)' => db'["live"] = "dump")
    BY <1>3, <2>4, ImportStep DEF PlaceReplace, Succeeded
  <2>5. PlaceReplace(r)'
    BY <1>1, <1>5, <1>6, <2>2, <2>3, <2>4 DEF PlaceReplace, Replacing
  <2> QED BY <1>1, <2>5, ReplacePlace
<1>7. CASE pc[r] = "dropBack"
  <2>1. script[r] = <<Do("drop", "live")>> /\ stray[r] \in Seq(OnLive(r))
    BY <1>3, <1>7 DEF PlaceReplace, StepOf
  <2>2. s = Do("drop", "live") /\ script'[r] = <<>>
    BY <2>1, Tuples DEF StepOf
  <2>3. stray'[r] = <<>>
    <3>1. CASE stray[r] # <<>>
      <4>1. Head(stray[r]) \in OnLive(r)
        BY <2>1, <3>1, FirstAndRest
      <4>2. Head(stray[r]).on = "live" /\ engine = "mysql"
        BY <1>7, <4>1, OnLiveStatement DEF EngineInv, PuttingBack
      <4> QED BY <2>2, <3>1, <4>2 DEF StepOf, EndedBy, Do
    <3> QED BY <1>4, <3>1
  <2>4. PlaceReplace(r)'
    BY <1>1, <1>5, <1>7, <2>2, <2>3, EmptySeq DEF PlaceReplace, Replacing
  <2> QED BY <1>1, <2>4, ReplacePlace
<1>8. CASE pc[r] \in {"createBack", "importBack"}
  <2>1. stray'[r] = <<>>
    BY <1>3, <1>4, <1>8 DEF PlaceReplace
  <2>2. ASSUME pc[r] = "importBack"
        PROVE  script'[r] \in Imports(safety[r]) /\ (Succeeded(r)' => db'["live"] = safety[r])
    BY <1>3, <2>2, ImportStep DEF PlaceReplace, Succeeded
  <2>3. PlaceReplace(r)'
    BY <1>1, <1>2, <1>5, <1>8, <2>1, <2>2 DEF PlaceReplace, Replacing
  <2> QED BY <1>1, <2>3, ReplacePlace
<1> QED BY <1>6, <1>7, <1>8 DEF PuttingBack

\* Whatever stage it is, a statement keeps the place.
LEMMA StatementDonePlace ==
    ASSUME TypeInv, IInv, EngineInv, PlaceInv, NEW r \in Runs, StatementDone(r)
    PROVE  PlaceInv'
<1> DEFINE s == Head(script[r])
<1>1. StepOf(r, s) /\ r # "live"
  BY StatementDoneIs
<1> HIDE DEF s
<1>2. pc[r] \in Commands /\ UNCHANGED <<pc, overlapped, broken>>
  BY <1>1 DEF StepOf
<1>3. ASSUME Place(r) PROVE Place(r)'
  <2>1. CASE pc[r] \in Reading
    BY <1>2, <2>1, ReadingPlaceNext
  <2>2. CASE pc[r] \in Beside
    BY <1>1, <1>3, <2>2, BesideStep
  <2>3. CASE pc[r] \in Swapping
    BY <1>1, <1>3, <2>3, SwapStep
  <2>4. CASE pc[r] \in Replacing \cup PuttingBack
    BY <1>1, <1>3, <2>4, ReplaceStep
  <2> QED BY <1>2, <2>1, <2>2, <2>3, <2>4, StageSets
<1>4. OnRecord(r)
  BY <1>2, OnRecordStages
<1> QED BY <1>2, <1>3, <1>4, ActingPlace

-----------------------------------------------------------------------------
(* Commands that end, and what is left of them.                            *)

\* A command that fails where it is.
LEMMA RefusedPlace ==
    ASSUME TypeInv, IInv, PlaceInv, NEW r \in Runs, StatementRefused(r) \/ DumpCut(r)
    PROVE  PlaceInv'
<1>1. /\ pc[r] \in Commands /\ reply[r] = "none" /\ script[r] # <<>>
      /\ script' = [script EXCEPT ![r] = <<>>]
      /\ reply' = [reply EXCEPT ![r] = "exit"] \/ pc[r] = "dump"
      /\ UNCHANGED <<engine, db, stray, pc, before, safety, overlapped, broken>>
  BY DEF StatementRefused, DumpCut, AtWork, Waiting, Ends, planVars, historyVars, serverVars
<1>2. script'[r] = <<>> /\ (reply'[r] = "exit" \/ pc[r] = "dump")
  BY <1>1 DEF IInv, Shape
<1>3. ASSUME Place(r) PROVE Place(r)'
  <2>1. CASE pc[r] = "dump"
    BY <1>1, <2>1, ReadingPlaceNext DEF Reading
  <2>2. CASE pc[r] # "dump"
    <3>1. reply'[r] = "exit" /\ ~Succeeded(r)'
      BY <1>2, <2>2 DEF Succeeded
    <3>2. \A S : <<>> \in Seq(S)
      BY EmptySeq
    <3>3. PlaceBeside(r)'
      BY <1>1, <1>2, <1>3, <3>1, <3>2 DEF Place, PlaceBeside, Untouched, Aside, Own
    <3>4. PlaceSwap(r)'
      BY <1>1, <1>2, <1>3, <3>1 DEF Place, PlaceSwap, SwapRest, Ready, InPlace, Aside, Own, Do
    <3>5. PlaceReplace(r)'
      BY <1>1, <1>2, <1>3, <3>1, <3>2 DEF Place, PlaceReplace, Imports, OnLive, Own, Load
    <3> QED BY <3>3, <3>4, <3>5 DEF Place
  <2> QED BY <2>1, <2>2
<1>4. OnRecord(r)
  BY <1>1, OnRecordStages
<1> QED BY <1>1, <1>3, <1>4, ActingPlace

\* An import that is cut short.
LEMMA ImportCutPlace ==
    ASSUME TypeInv, IInv, PlaceInv, NEW r \in Runs, ImportCut(r)
    PROVE  PlaceInv'
<1> DEFINE s == Load(Head(script[r]).on, "part")
<1>1. /\ pc[r] \in Commands /\ reply[r] = "none" /\ script[r] # <<>> /\ Head(script[r]).op = "load"
      /\ script' = [script EXCEPT ![r] = <<>>] /\ reply' = [reply EXCEPT ![r] = "exit"]
      /\ Effect(s, stray)
      /\ UNCHANGED <<pc, before, safety, overlapped, broken>>
  BY DEF ImportCut, ImportAnswer, AtWork, Waiting, Ends, planVars, historyVars
<1>2. /\ script'[r] = <<>> /\ reply'[r] = "exit" /\ ~Succeeded(r)' /\ engine' = engine
      /\ stray[r] = <<>> => stray'[r] = <<>>
  BY <1>1 DEF IInv, Shape, Effect, StrayAfter, Succeeded
<1>3. \A S : <<>> \in Seq(S)
  BY EmptySeq
<1>4. ASSUME Place(r) PROVE Place(r)'
  <2>1. CASE pc[r] \in Reading
    BY <1>1, <2>1, ReadingPlaceNext
  <2>2. CASE pc[r] \in Beside
    <3>1. /\ db["live"] = before[r] /\ script[r] \in Seq(Aside(r)) /\ stray[r] \in Seq(Aside(r))
          /\ reply[r] # "lost" => (pc[r] \in {"createTmp", "importTmp", "props"} => stray[r] = <<>>)
      BY <1>4, <2>2 DEF Place, PlaceBeside
    <3>2. Head(script[r]) \in Aside(r)
      BY <1>1, <3>1, FirstAndRest
    <3>3. Head(script[r]).on = r
      BY <1>1, <3>2, AsideStatement
    <3>4. Load(r, "part") \in Aside(r)
      BY StatementTyped DEF Aside, Load, Contents
    <3>5. db'["live"] = before'[r]
      BY <1>1, <3>1, <3>3, <3>4, AsideEffect
    <3>6. stray'[r] \in Seq(Aside(r))
      BY <1>1, <1>3, <3>1 DEF Effect, StrayAfter
    <3>7. pc[r] # "props"
      <4>1. ASSUME pc[r] = "props" PROVE FALSE
        <5>1. script[r] = <<Do("props", "live")>>
          BY <1>1, <1>4, <4>1 DEF Place, PlaceBeside
        <5> QED BY <1>1, <5>1, Tuples DEF Do
      <4> QED BY <4>1
    <3>8. PlaceBeside(r)'
      BY <1>1, <1>2, <1>3, <2>2, <3>1, <3>5, <3>6, <3>7, StageSets DEF PlaceBeside, Aside, Own
    <3> QED BY <1>1, <2>2, <3>8, BesidePlace
  <2>3. CASE pc[r] \in Swapping
    <3>1. Head(script[r]) \in {Do("rename", r), Do("drop", "live"), Do("close", "live"), Do("look", "live")}
      BY <1>1, <1>4, <2>3, Tuples DEF Place, PlaceSwap, SwapRest, Swapping
    <3> QED BY <1>1, <3>1 DEF Do
  <2>4. CASE pc[r] \in Replacing
    <3>1. stray'[r] = <<>>
      BY <1>1, <1>2, <1>4, <2>4 DEF Place, PlaceReplace
    <3>2. pc[r] # "drop"
      <4>1. ASSUME pc[r] = "drop" PROVE FALSE
        <5>1. script[r] = <<Do("drop", "live")>>
          BY <1>1, <1>4, <4>1 DEF Place, PlaceReplace
        <5> QED BY <1>1, <5>1, Tuples DEF Do
      <4> QED BY <4>1
    <3>3. PlaceReplace(r)'
      BY <1>1, <1>2, <1>3, <2>4, <3>1, <3>2 DEF PlaceReplace, Replacing, Imports
    <3> QED BY <1>1, <2>4, <3>3, ReplacePlace
  <2>5. CASE pc[r] \in PuttingBack
    <3>1. pc[r] # "dropBack"
      <4>1. ASSUME pc[r] = "dropBack" PROVE FALSE
        <5>1. script[r] = <<Do("drop", "live")>>
          BY <1>1, <1>4, <4>1 DEF Place, PlaceReplace
        <5> QED BY <1>1, <5>1, Tuples DEF Do
      <4> QED BY <4>1
    <3>2. stray'[r] = <<>>
      BY <1>2, <1>4, <2>5, <3>1 DEF Place, PlaceReplace, PuttingBack
    <3>3. PlaceReplace(r)'
      BY <1>1, <1>2, <2>5, <3>1, <3>2 DEF PlaceReplace, Replacing, PuttingBack, Imports
    <3> QED BY <1>1, <2>5, <3>3, ReplacePlace
  <2> QED BY <1>1, <2>1, <2>2, <2>3, <2>4, <2>5, StageSets
<1>5. OnRecord(r)
  BY <1>1, OnRecordStages
<1> QED BY <1>1, <1>4, <1>5, ActingPlace

\* A lost connection is no longer spoken of.
LEMMA LosePlace == ASSUME NEW r, Lose(r) PROVE PlaceInv'
BY DEF Lose, PlaceInv

\* A run that is stopped leaves only what does no harm where it is.
LEMMA AbandonPlace ==
    ASSUME TypeInv, IInv, EngineInv, PlaceInv, NEW r \in Runs, Abandon(r)
    PROVE  PlaceInv'
<1>1. /\ pc[r] \in Commands /\ Canceled(r)
      /\ stray' = [stray EXCEPT ![r] = Leave(r, Remnant(script[r]))]
      /\ script' = [script EXCEPT ![r] = <<>>] /\ reply' = [reply EXCEPT ![r] = "lost"]
      /\ UNCHANGED <<engine, db, pc, before, safety, overlapped, broken>>
  BY DEF Abandon, Ends, planVars, historyVars
<1>2. /\ stray'[r] = Leave(r, Remnant(script[r])) /\ script'[r] = <<>> /\ reply'[r] = "lost"
      /\ ~Succeeded(r)'
  BY <1>1 DEF IInv, Shape, Succeeded
<1>3. \A S : <<>> \in Seq(S)
  BY EmptySeq
<1>4. ASSUME Place(r), ~broken PROVE Place(r)'
  <2>1. pc[r] \in Stoppable
    BY <1>1, <1>4 DEF Canceled, CanceledIn, EngineInv
  <2>2. CASE pc[r] \in Reading
    BY <1>1, <2>2, ReadingPlaceNext
  <2>3. CASE pc[r] \in Beside
    <3>1. /\ db["live"] = before[r] /\ script[r] \in Seq(Aside(r)) /\ stray[r] \in Seq(Aside(r))
      BY <1>4, <2>3 DEF Place, PlaceBeside
    <3>2. stray'[r] \in Seq(Aside(r))
      BY <1>2, <3>1, AsideRemnant
    <3>3. pc[r] = "props" => db[r] = "dump" /\ stray'[r] = <<>>
      <4> SUFFICES ASSUME pc[r] = "props" PROVE db[r] = "dump" /\ stray'[r] = <<>>
        OBVIOUS
      <4>1. db[r] = "dump" /\ stray[r] = <<>> /\ script[r] \in {<<>>, <<Do("props", "live")>>}
        BY <1>4 DEF Place, PlaceBeside
      <4>2. Remnant(script[r]) = <<>>
        BY <4>1, Tuples DEF Remnant, Orphan, Changing, Do
      <4> QED BY <1>2, <4>1, <4>2 DEF Leave
    <3>4. PlaceBeside(r)'
      BY <1>1, <1>2, <1>3, <2>3, <3>1, <3>2, <3>3, StageSets DEF PlaceBeside, Aside, Own
    <3> QED BY <1>1, <2>3, <3>4, BesidePlace
  <2>4. CASE pc[r] \in Replacing
    <3>1. script[r] \in Seq(OnLive(r)) /\ stray[r] \in Seq(OnLive(r))
      BY <1>4, <2>4 DEF Place, PlaceReplace
    <3>2. stray'[r] \in Seq(OnLive(r))
      BY <1>2, <3>1, OnLiveRemnant
    <3>3. PlaceReplace(r)'
      BY <1>1, <1>2, <1>3, <2>4, <3>2, StageSets DEF PlaceReplace, Replacing, PuttingBack, Imports, OnLive, Own
    <3> QED BY <1>1, <2>4, <3>3, ReplacePlace
  <2> QED BY <2>1, <2>2, <2>3, <2>4 DEF Stoppable, Reading, Beside, Replacing
<1>5. OnRecord(r)
  BY <1>1, OnRecordStages
<1> QED BY <1>1, <1>4, <1>5, ActingPlace

\* A statement that nobody waits for.
LEMMA StrayPlace ==
    ASSUME TypeInv, IInv, PlaceInv, NEW r \in Runs, StrayStatement(r)
    PROVE  PlaceInv'
<1>1. /\ stray[r] # <<>> /\ UNCHANGED <<engine, pc, script, reply, before, safety, overlapped, broken>>
  BY DEF StrayStatement, Effect, commandVars, planVars, historyVars
<1>2. db \in [Runs \cup {"live"} -> Contents] /\ r # "live" /\ DOMAIN stray = Runs
  BY RunsAssumption DEF TypeInv, TypeOK
<1>3. \/ stray'[r] = <<>> /\ db' = db
      \/ /\ Possible(Head(stray[r])) /\ db' = DbAfter(Head(stray[r]))
         /\ Effect(Head(stray[r]), [stray EXCEPT ![r] = Tail(stray[r])])
         /\ stray'[r] = Tail(stray[r]) \/ stray'[r] = <<>>
  BY <1>2 DEF StrayStatement, Effect, StrayAfter
<1>4. ASSUME ~overlapped PROVE \A q \in Runs \ {r} : ~OnRecord(q)
  BY <1>1, <1>4 DEF IInv, Alone
<1>5. \A S : <<>> \in Seq(S)
  BY EmptySeq
<1>6. ASSUME Place(r), Kept(r), OnRecord(r) PROVE Place(r)'
  <2>1. CASE pc[r] \in Reading
    BY <1>1, <2>1, ReadingPlaceNext
  <2>2. CASE pc[r] \in Params
    BY <1>1, <1>6, <2>2 DEF Place, PlaceBeside, Untouched
  <2>3. CASE pc[r] \in Beside
    <3>1. db["live"] = before[r] /\ script[r] \in Seq(Aside(r)) /\ stray[r] \in Seq(Aside(r))
      BY <1>6, <2>3 DEF Place, PlaceBeside
    <3>2. Head(stray[r]) \in Aside(r) /\ Tail(stray[r]) \in Seq(Aside(r))
      BY <1>1, <3>1, FirstAndRest
    <3>3. stray'[r] \in Seq(Aside(r)) /\ db'["live"] = db["live"]
      BY <1>3, <1>5, <3>2, AsideEffect
    <3>4. pc[r] \in {"createTmp", "importTmp", "props"} => reply[r] = "lost" /\ pc[r] # "props"
      BY <1>1, <1>6 DEF Place, PlaceBeside
    <3>5. PlaceBeside(r)'
      BY <1>1, <1>6, <2>3, <3>1, <3>3, <3>4, StageSets DEF Place, PlaceBeside, Aside, Own, Succeeded
    <3> QED BY <1>1, <2>3, <3>5, BesidePlace
  <2>4. CASE pc[r] \in Swapping
    BY <1>1, <1>6, <2>4 DEF Place, PlaceSwap, InPlace
  <2>5. CASE pc[r] = "dead"
    <3>1. CASE engine # "postgres"
      BY <1>1, <2>5, <3>1, StageSets, SwapPlace DEF PlaceSwap, Swapping
    <3>2. CASE engine = "postgres" /\ db["live"] = before[r] /\ stray[r] \in Seq(Aside(r))
      <4>1. Head(stray[r]) \in Aside(r) /\ Tail(stray[r]) \in Seq(Aside(r))
        BY <1>1, <3>2, FirstAndRest
      <4>2. stray'[r] \in Seq(Aside(r)) /\ db'["live"] = db["live"]
        BY <1>3, <1>5, <4>1, AsideEffect
      <4>3. PlaceSwap(r)'
        BY <1>1, <2>5, <3>2, <4>2 DEF PlaceSwap, Swapping, Aside, Own
      <4> QED BY <1>1, <2>5, <4>3, SwapPlace
    <3>3. CASE engine = "postgres" /\ Ready(r) /\ stray[r] \in SwapRest(r)
      <4>1. \/ Ready(r)' /\ stray'[r] \in SwapRest(r)
            \/ db'["live"] = "dump" /\ stray'[r] = <<>>
        <5>1. CASE stray'[r] = <<>> /\ db' = db
          BY <1>1, <3>3, <5>1 DEF Ready, SwapRest
        <5>2. CASE stray[r] = <<Do("rename", r)>> /\ db' = DbAfter(Head(stray[r])) /\ stray'[r] \in {Tail(stray[r]), <<>>}
          <6>1. Head(stray[r]) = Do("rename", r) /\ stray'[r] = <<>>
            BY <5>2, Tuples
          <6> QED BY <1>2, <3>3, <5>2, <6>1 DEF Do, DbAfter, Ready
        <5>3. CASE /\ stray[r] = <<Do("drop", "live"), Do("rename", r)>>
                   /\ db' = DbAfter(Head(stray[r])) /\ stray'[r] \in {Tail(stray[r]), <<>>}
          <6>1. Head(stray[r]) = Do("drop", "live") /\ Tail(stray[r]) = <<Do("rename", r)>>
            BY <5>3, Tuples
          <6>2. Ready(r)'
            BY <1>1, <1>2, <3>3, <5>3, <6>1 DEF Do, DbAfter, Ready
          <6> QED BY <5>3, <6>1, <6>2 DEF SwapRest
        <5>4. CASE /\ stray[r] = <<Do("close", "live"), Do("drop", "live"), Do("rename", r)>>
                   /\ db' = DbAfter(Head(stray[r])) /\ stray'[r] \in {Tail(stray[r]), <<>>}
          <6>1. Head(stray[r]) = Do("close", "live") /\ Tail(stray[r]) = <<Do("drop", "live"), Do("rename", r)>>
            BY <5>4, Tuples
          <6>2. Ready(r)'
            BY <1>1, <3>3, <5>4, <6>1 DEF Do, DbAfter, Ready
          <6> QED BY <5>4, <6>1, <6>2 DEF SwapRest
        <5> QED BY <1>1, <1>3, <3>3, <5>1, <5>2, <5>3, <5>4 DEF SwapRest
      <4>2. script'[r] = <<>>
        BY <1>1, <2>5, StageSets, OnRecordStages DEF IInv, Quiet
      <4>3. PlaceSwap(r)'
        BY <1>1, <2>5, <4>1, <4>2 DEF PlaceSwap, Swapping, SwapRest, Do, InPlace
      <4> QED BY <1>1, <2>5, <4>3, SwapPlace
    <3> QED BY <1>1, <1>6, <2>5, <3>1, <3>2, <3>3 DEF Place, PlaceSwap, InPlace
  <2>6. CASE pc[r] \in Replacing
    <3>1. script[r] \in Seq(OnLive(r)) /\ stray[r] \in Seq(OnLive(r)) /\ reply[r] = "lost"
      BY <1>1, <1>6, <2>6 DEF Place, PlaceReplace
    <3>2. Tail(stray[r]) \in Seq(OnLive(r))
      BY <1>1, <3>1, FirstAndRest
    <3>3. stray'[r] \in Seq(OnLive(r))
      BY <1>3, <1>5, <3>1, <3>2
    <3>4. PlaceReplace(r)'
      BY <1>1, <1>6, <2>6, <3>1, <3>3, StageSets DEF Place, PlaceReplace, Replacing, Succeeded, Imports, OnLive, Own, Load
    <3> QED BY <1>1, <2>6, <3>4, ReplacePlace
  <2>7. CASE pc[r] \in PuttingBack
    <3>1. pc[r] = "dropBack" /\ stray[r] \in Seq(OnLive(r)) /\ ~Succeeded(r)
      BY <1>1, <1>6, <2>7 DEF Place, PlaceReplace, PuttingBack
    <3>2. Tail(stray[r]) \in Seq(OnLive(r))
      BY <1>1, <3>1, FirstAndRest
    <3>3. stray'[r] \in Seq(OnLive(r))
      BY <1>3, <1>5, <3>1, <3>2
    <3>4. PlaceReplace(r)'
      BY <1>1, <1>6, <3>1, <3>3 DEF Place, PlaceReplace, Replacing, Succeeded, OnLive, Own
    <3> QED BY <1>1, <2>7, <3>4, ReplacePlace
  <2> QED BY <1>6, <2>1, <2>2, <2>3, <2>4, <2>5, <2>6, <2>7, OnRecordStages, StageSets
<1>7. ASSUME ~overlapped', ~broken', NEW q \in Runs, OnRecord(q)' PROVE Place(q)'
  <2>1. q = r /\ OnRecord(r)
    BY <1>1, <1>4, <1>7 DEF OnRecord, Active
  <2>2. Place(r) /\ Kept(r)
    BY <1>1, <1>7, <2>1 DEF PlaceInv, IInv, KeptInv
  <2> QED BY <1>6, <2>1, <2>2
<1> QED BY <1>7 DEF PlaceInv

-----------------------------------------------------------------------------
(* The steps that move a run on.                                           *)

\* A stage that is entered with nothing of its command done yet.
Entered(r, stage) ==
    /\ pc'[r] = stage /\ reply'[r] = "none"
    /\ script'[r] = <<>> \/ script'[r] = Script(r, stage)
    /\ UNCHANGED <<engine, db, stray, before, safety>>

\* The place of a stage that is entered: aside,
LEMMA EnterBeside ==
    ASSUME NEW r \in Runs, NEW stage \in Beside, Entered(r, stage),
           db["live"] = before[r], stray[r] \in Seq(Aside(r)),
           stage \in {"createTmp", "importTmp", "props"} => stray[r] = <<>>,
           stage = "props" => db[r] = "dump"
    PROVE  Place(r)'
<1>1. script'[r] \in Seq(Aside(r))
  BY AsideScript, EmptySeq DEF Entered
<1>2. stage \notin Params
  BY StageSets
<1>3. PlaceBeside(r)'
  BY <1>1, <1>2, Scripts DEF Entered, PlaceBeside, Aside, Own, Succeeded, Do, Load
<1> QED BY <1>3, BesidePlace DEF Entered

\* in the swap, once all is ready,
LEMMA EnterSwap ==
    ASSUME NEW r \in Runs, NEW stage \in Swapping, Entered(r, stage), Ready(r), stray[r] = <<>>
    PROVE  Place(r)'
<1>1. stage \in {"swap", "rename"} => script'[r] \in SwapRest(r)
  BY Scripts DEF Entered, SwapRest
<1>2. stage = "check" => script'[r] \in {<<>>, <<Do("look", "live")>>}
  BY Scripts DEF Entered
<1>3. Ready(r)' /\ stray'[r] = <<>> /\ SwapRest(r)' = SwapRest(r)
  BY DEF Entered, Ready, SwapRest, Do
<1>4. stage # "dead"
  BY StageSets
<1>5. PlaceSwap(r)'
  BY <1>1, <1>2, <1>3, <1>4 DEF Entered, PlaceSwap, Succeeded
<1> QED BY <1>5, SwapPlace DEF Entered

\* in MySQL's replacement,
LEMMA EnterReplace ==
    ASSUME TypeInv, NEW r \in Runs, NEW stage \in Replacing \cup PuttingBack, Entered(r, stage),
           stray[r] \in Seq(OnLive(r)), stage # "dropBack" => stray[r] = <<>>,
           stage = "drop" => db["live"] = before[r]
    PROVE  Place(r)'
<1>1. script'[r] \in Seq(OnLive(r))
  BY OnLiveScript, StageSets, EmptySeq DEF Entered, TypeInv, OwnInv
<1>2. /\ stage \in {"drop", "dropBack"} => script'[r] \in {<<>>, <<Do("drop", "live")>>}
      /\ stage = "import" => script'[r] \in Imports("dump")
      /\ stage = "importBack" => script'[r] \in Imports(safety[r])
  BY Scripts DEF Entered, Imports
<1>3. PlaceReplace(r)'
  BY <1>1, <1>2 DEF Entered, PlaceReplace, Succeeded, OnLive, Own, Imports, Load, Replacing, PuttingBack
<1> QED BY <1>3, ReplacePlace DEF Entered

\* at the row,
LEMMA EnterParams ==
    ASSUME NEW r \in Runs, NEW stage \in Params, Entered(r, stage), Untouched(r)
    PROVE  Place(r)'
BY DEF Entered, Untouched, Place, PlaceBeside, PlaceSwap, PlaceReplace, Params, Beside, Swapping, Replacing

\* and at the first stage after the reading.
LEMMA EnterFirst ==
    ASSUME TypeInv, NEW r \in Runs, NEW stage, stage = First(r), Entered(r, stage), Untouched(r)
    PROVE  stage = "unchanged" \/ Place(r)'
<1>1. CASE stage = "recordTmp"
  BY <1>1, EnterParams DEF Params
<1>2. CASE stage = "drop"
  BY <1>2, EnterReplace, EmptySeq DEF Untouched, Replacing
<1> QED BY <1>1, <1>2 DEF First

\* A run goes from place to place.
LEMMA ProceedPlace ==
    ASSUME TypeInv, IInv, PlaceInv, NEW r \in Runs, Proceed(r)
    PROVE  PlaceInv'
<1> DEFINE stage == IF reply[r] \in {"exit", "lost"} THEN OnFailure(r) ELSE OnSuccess(r)
<1>1. /\ pc[r] \in Commands /\ reply[r] # "none" /\ Enter(r, stage)
      /\ UNCHANGED <<engine, db, stray, before, safety, overlapped, broken>>
  BY DEF Proceed, serverVars
<1>2. Entered(r, stage) /\ \A q \in Runs \ {r} : pc'[q] = pc[q]
  <2> HIDE DEF stage
  <2> QED BY <1>1, EnterIs DEF Entered
<1>3. OnRecord(r)
  BY <1>1, OnRecordStages
<1>4. Succeeded(r) <=> reply[r] \notin {"exit", "lost"}
  BY <1>1 DEF Succeeded
<1>5. \A S : <<>> \in Seq(S)
  BY EmptySeq
<1>6. stage \in Reports => ~OnRecord(r)'
  <2> HIDE DEF stage
  <2> QED BY <1>2 DEF Entered, OnRecord, Active, Reports, Commands, Stoppable, Recovery, Params
<1>7. ASSUME Place(r), Kept(r), stage \notin Reports PROVE Place(r)'
  <2>1. CASE pc[r] \in Reading
    <3>1. Untouched(r)
      BY <1>7, <2>1 DEF Kept
    <3>2. stage \in {"dump", "store", "recordSafety", "unchanged", First(r)}
      BY <1>4, <2>1, AfterReading DEF Reading
    <3> HIDE DEF stage
    <3>3. CASE stage \in {"dump", "store"}
      BY <1>2, <3>3, ReadingPlaceNext DEF Entered, Reading
    <3>4. CASE stage = "recordSafety"
      BY <1>2, <3>1, <3>4, EnterParams DEF Params
    <3>5. CASE stage = First(r)
      BY <1>2, <1>7, <3>1, <3>5, EnterFirst DEF Reports
    <3> QED BY <1>7, <3>2, <3>3, <3>4, <3>5 DEF Reports
  <2>2. CASE pc[r] \in Beside
    <3>1. db["live"] = before[r] /\ stray[r] \in Seq(Aside(r))
      BY <1>7, <2>2 DEF Place, PlaceBeside
    <3>2. CASE pc[r] \in {"createTmp", "importTmp", "props"} /\ Succeeded(r)
      <4>1. stray[r] = <<>> /\ (pc[r] # "createTmp" => db[r] = "dump")
        BY <1>7, <2>2, <3>2 DEF Place, PlaceBeside, Succeeded
      <4>2. stage = IF pc[r] = "createTmp" THEN "importTmp"
                    ELSE IF pc[r] = "importTmp" /\ existed[r] THEN "props" ELSE "swap"
        BY <1>4, <3>2 DEF OnSuccess
      <4> HIDE DEF stage
      <4>3. CASE stage \in Beside
        BY <1>2, <1>5, <3>1, <3>2, <4>1, <4>2, <4>3, EnterBeside
      <4>4. CASE stage = "swap"
        BY <1>2, <3>1, <3>2, <4>1, <4>2, <4>4, EnterSwap DEF Swapping, Ready
      <4> QED BY <4>2, <4>3, <4>4 DEF Beside
    <3>3. CASE ~(pc[r] \in {"createTmp", "importTmp", "props"} /\ Succeeded(r))
      <4>1. stage \in {"cleanup", "dropTmp"} \cup Reports
        BY <1>4, <2>2, <3>3 DEF OnSuccess, OnFailure, Beside, Reports
      <4> HIDE DEF stage
      <4> QED BY <1>2, <1>7, <3>1, <4>1, EnterBeside DEF Beside
    <3> QED BY <3>2, <3>3
  <2>3. CASE pc[r] \in Swapping
    <3>1. CASE Succeeded(r) /\ pc[r] # "check"
      BY <1>4, <1>7, <2>3, <3>1 DEF OnSuccess, Swapping, Reports
    <3>2. CASE ~Succeeded(r) \/ pc[r] = "check"
      <4>1. Ready(r) /\ stray[r] = <<>>
        BY <1>1, <1>7, <2>3, <3>2 DEF Place, PlaceSwap, InPlace, Succeeded
      <4>2. \/ stage \in {"check", "rename"} \cup Reports
            \/ stage = "reopen" /\ db["live"] = before[r]
        BY <1>4, <1>7, <2>3, <3>2 DEF OnSuccess, OnFailure, AfterCheck, Swapping, Reports, Place, PlaceSwap
      <4> HIDE DEF stage
      <4>3. CASE stage \in {"check", "rename"}
        BY <1>2, <4>1, <4>3, EnterSwap DEF Swapping
      <4>4. CASE stage = "reopen" /\ db["live"] = before[r]
        BY <1>2, <1>5, <4>1, <4>4, EnterBeside DEF Beside
      <4> QED BY <1>7, <4>2, <4>3, <4>4
    <3> QED BY <3>1, <3>2
  <2>4. CASE pc[r] \in Replacing
    <3>1. stray[r] \in Seq(OnLive(r)) /\ (reply[r] # "lost" => stray[r] = <<>>)
      BY <1>7, <2>4 DEF Place, PlaceReplace
    <3>2. \/ stage \in {"create", "import"} /\ Succeeded(r)
          \/ stage \in {"dropBack"} \cup Reports
      BY <1>4, <2>4 DEF OnSuccess, OnFailure, AfterChange, AfterDropFailed, Replacing, Reports
    <3> HIDE DEF stage
    <3>3. CASE stage \in {"create", "import"} /\ Succeeded(r)
      BY <1>2, <3>1, <3>3, EnterReplace DEF Replacing, Succeeded
    <3>4. CASE stage = "dropBack"
      BY <1>2, <3>1, <3>4, EnterReplace DEF PuttingBack
    <3> QED BY <1>7, <3>2, <3>3, <3>4
  <2>5. CASE pc[r] \in PuttingBack
    <3>1. \/ stage \in {"createBack", "importBack"} /\ Succeeded(r)
          \/ stage \in Reports
      BY <1>4, <2>5 DEF OnSuccess, OnFailure, PuttingBack, Reports
    <3>2. Succeeded(r) => stray[r] = <<>>
      BY <1>7, <2>5 DEF Place, PlaceReplace, PuttingBack
    <3> HIDE DEF stage
    <3> QED BY <1>2, <1>5, <1>7, <3>1, <3>2, EnterReplace DEF PuttingBack
  <2> QED BY <1>1, <2>1, <2>2, <2>3, <2>4, <2>5, StageSets
<1>8. ~overlapped => Kept(r)
  BY <1>3 DEF IInv, KeptInv
<1> HIDE DEF stage
<1> QED BY <1>1, <1>2, <1>3, <1>6, <1>7, <1>8, ActingPlace

\* Writing the row moves it on untouched.
LEMMA RecordParamPlace ==
    ASSUME TypeInv, IInv, PlaceInv, NEW r \in Runs, RecordParam(r)
    PROVE  PlaceInv'
<1>1. /\ pc[r] \in Params /\ Enter(r, AfterParam(r))
      /\ UNCHANGED <<engine, db, stray, before, safety, overlapped, broken>>
  BY DEF RecordParam, serverVars
<1>2. Entered(r, AfterParam(r)) /\ \A q \in Runs \ {r} : pc'[q] = pc[q]
  BY <1>1, EnterIs DEF Entered
<1>3. OnRecord(r)
  BY <1>1, OnRecordStages
<1>4. ASSUME Place(r), OnRecord(r)' PROVE Place(r)'
  <2>1. Untouched(r)
    BY <1>1, <1>4 DEF Place, PlaceBeside
  <2>2. AfterParam(r) # "unchanged"
    BY <1>2, <1>4 DEF Entered, OnRecord, Active, Commands, Stoppable, Recovery, Params
  <2>3. CASE AfterParam(r) = "createTmp"
    BY <1>2, <2>1, <2>3, EnterBeside, EmptySeq DEF Beside, Untouched
  <2>4. CASE AfterParam(r) = First(r)
    BY <1>2, <2>1, <2>2, <2>4, EnterFirst
  <2> QED BY <2>3, <2>4 DEF AfterParam
<1> QED BY <1>1, <1>2, <1>3, <1>4, ActingPlace

-----------------------------------------------------------------------------
(* Death, and what does not touch the database.                            *)

\* What a swap leaves when the program dies in it is all of what it had to do.
LEMMA SwapOrphan ==
    ASSUME NEW r \in Runs, NEW q \in SwapRest(r), stray[r] = <<>>
    PROVE  Leave(r, Orphan(q)) = q
<1>1. <<Do("rename", r)>> \in Seq({Do("close", "live"), Do("drop", "live"), Do("rename", r)})
      /\ <<Do("drop", "live"), Do("rename", r)>> \in Seq({Do("close", "live"), Do("drop", "live"), Do("rename", r)})
      /\ <<Do("close", "live"), Do("drop", "live"), Do("rename", r)>>
            \in Seq({Do("close", "live"), Do("drop", "live"), Do("rename", r)})
  OBVIOUS
<1>2. q = <<>> \/ q \in Seq({Do("close", "live"), Do("drop", "live"), Do("rename", r)})
  BY <1>1 DEF SwapRest
<1>3. Orphan(q) = q
  <2>1. CASE q = <<>>
    BY <2>1 DEF Orphan
  <2>2. CASE q # <<>>
    <3>1. Head(q) \in {Do("close", "live"), Do("drop", "live"), Do("rename", r)}
      BY <2>2, Tuples DEF SwapRest
    <3> QED BY <2>2, <3>1 DEF Orphan, Do, Changing
  <2> QED BY <2>1, <2>2
<1>4. q # <<>> => <<>> \o q = q
  BY <1>2, ConcatEmptySeq
<1> QED BY <1>3, <1>4 DEF Leave

\* Who dies in a swap leaves the rest of it to the server.
LEMMA CrashPlace ==
    ASSUME TypeInv, IInv, EngineInv, PlaceInv, Crash
    PROVE  PlaceInv'
<1>1. /\ \A r \in Runs : /\ stray'[r] = Leave(r, Orphan(script[r])) /\ script'[r] = <<>>
                         /\ pc'[r] = IF Active(r) THEN "dead" ELSE IF pc[r] = "checked" THEN "idle" ELSE pc[r]
      /\ UNCHANGED <<engine, db, before, overlapped, broken>>
  BY DEF Crash, planVars, historyVars
<1>2. \A r \in Runs : OnRecord(r)' => OnRecord(r) /\ pc'[r] = "dead"
  BY <1>1 DEF OnRecord, Active, Commands, Stoppable, Recovery, Params
<1>3. \A S : <<>> \in Seq(S)
  BY EmptySeq
<1>4. ASSUME NEW r \in Runs, Place(r), Kept(r), OnRecord(r), pc'[r] = "dead" PROVE Place(r)'
  <2>1. SUFFICES ASSUME engine = "postgres"
                 PROVE  \/ db["live"] = before[r] /\ stray'[r] \in Seq(Aside(r))
                        \/ Ready(r) /\ stray'[r] \in SwapRest(r)
                        \/ db["live"] = "dump" /\ stray'[r] = <<>>
    <3>1. Ready(r)' = Ready(r) /\ Aside(r)' = Aside(r) /\ SwapRest(r)' = SwapRest(r)
      BY <1>1 DEF Ready, Aside, Own, SwapRest, Do
    <3>2. PlaceSwap(r)'
      BY <1>1, <1>4, <2>1, <3>1, StageSets DEF PlaceSwap, Swapping, InPlace
    <3> QED BY <1>4, <3>2, SwapPlace
  <2>2. CASE pc[r] \in Reading
    <3>1. stray'[r] = stray[r]
      BY <1>1, <1>4, <2>2, LookLeavesNothing DEF Kept
    <3> QED BY <1>3, <1>4, <2>2, <3>1 DEF Kept, Untouched
  <2>3. CASE pc[r] \in Params
    <3>1. script[r] = <<>>
      BY <2>3, StageSets, OnRecordStages DEF IInv, Quiet
    <3> QED BY <1>1, <1>3, <1>4, <2>3, <3>1, NothingLeft DEF Place, PlaceBeside, Untouched
  <2>4. CASE pc[r] \in Beside
    BY <1>1, <1>4, <2>4, AsideRemnant DEF Place, PlaceBeside
  <2>5. CASE pc[r] = "check"
    <3>1. Orphan(script[r]) = <<>> /\ stray[r] = <<>> /\ Ready(r)
      BY <1>4, <2>5, Tuples DEF Place, PlaceSwap, Swapping, Orphan, Changing, Do, InPlace
    <3> QED BY <1>1, <3>1 DEF Leave, SwapRest
  <2>6. CASE pc[r] \in {"swap", "rename"}
    <3>1. script[r] \in SwapRest(r) /\ stray[r] = <<>>
      BY <1>4, <2>6 DEF Place, PlaceSwap, Swapping, InPlace
    <3>2. stray'[r] = script[r]
      BY <1>1, <3>1, SwapOrphan
    <3> QED BY <1>4, <2>6, <3>1, <3>2 DEF Place, PlaceSwap, Swapping, InPlace
  <2>7. CASE pc[r] = "dead"
    <3>1. script[r] = <<>>
      BY <2>7, StageSets, OnRecordStages DEF IInv, Quiet
    <3>2. stray'[r] = stray[r]
      BY <1>1, <3>1, NothingLeft
    <3> QED BY <1>4, <2>1, <2>7, <3>2 DEF Place, PlaceSwap, InPlace
  <2>8. pc[r] \notin Replacing \cup PuttingBack
    BY <2>1 DEF EngineInv
  <2> QED BY <1>4, <2>2, <2>3, <2>4, <2>5, <2>6, <2>7, <2>8, OnRecordStages, StageSets DEF Swapping
<1> QED BY <1>1, <1>2, <1>4 DEF PlaceInv, IInv, KeptInv

\* A run that begins has the place of its reading.
LEMMA AroundPlace ==
    ASSUME TypeInv, IInv, PlaceInv, NEW r \in Runs, Check(r) \/ Begin(r)
    PROVE  PlaceInv'
<1>1. CASE Check(r)
  <2>1. /\ pc[r] = "idle" /\ pc' = [pc EXCEPT ![r] = "checked"]
        /\ UNCHANGED <<engine, db, stray, script, reply, before, safety, overlapped, broken>>
    BY <1>1 DEF Check, serverVars, planVars, historyVars
  <2>2. pc'[r] = "checked" /\ \A q \in Runs \ {r} : pc'[q] = pc[q]
    BY <2>1 DEF IInv, Shape
  <2>3. ~OnRecord(r)'
    BY <2>2 DEF OnRecord, Active, Commands, Stoppable, Recovery, Params
  <2>4. ASSUME NEW q \in Runs \ {r}, Place(q) PROVE Place(q)'
    BY <2>1, <2>2, <2>4 DEF Place, PlaceBeside, PlaceSwap, PlaceReplace, Untouched, Ready, InPlace, Succeeded,
       Aside, Own, OnLive, SwapRest, Imports, Do, Load
  <2> QED BY <2>1, <2>2, <2>3, <2>4 DEF PlaceInv, OnRecord, Active
<1>2. CASE Begin(r)
  <2>1. /\ Enter(r, "meta")
        /\ overlapped' = (overlapped \/ \E q \in Runs : OnRecord(q) \/ stray[q] # <<>>)
    BY <1>2 DEF Begin
  <2>2. pc'[r] = "meta" /\ \A q \in Runs \ {r} : pc'[q] = pc[q]
    BY <2>1, EnterIs
  <2>3. Place(r)'
    BY <2>2, ReadingPlaceNext DEF Reading
  <2> QED BY <2>1, <2>2, <2>3 DEF PlaceInv, OnRecord, Active
<1> QED BY <1>1, <1>2

\* A step that does not concern a run leaves its place.
LEMMA PlaceFrame ==
    ASSUME UNCHANGED <<engine, db, stray, script, reply, before, safety>>, NEW r, pc'[r] = pc[r], Place(r)
    PROVE  Place(r)'
BY DEF Place, PlaceBeside, PlaceSwap, PlaceReplace, Untouched, Ready, InPlace, Succeeded,
       Aside, Own, OnLive, SwapRest, Imports, Do, Load

\* Every step keeps the places.
LEMMA NextPlace == TypeInv /\ IInv /\ EngineInv /\ PlaceInv /\ [Next]_vars => PlaceInv'
<1> SUFFICES ASSUME TypeInv, IInv, EngineInv, PlaceInv, [Next]_vars PROVE PlaceInv'
  OBVIOUS
<1>1. CASE UNCHANGED vars
  BY <1>1, PlaceFrame DEF vars, serverVars, commandVars, planVars, historyVars, PlaceInv, OnRecord, Active
<1>2. ASSUME NEW r \in Runs, Check(r) \/ Begin(r) \/ Proceed(r) \/ RecordParam(r)
      PROVE  PlaceInv'
  BY <1>2, AroundPlace, ProceedPlace, RecordParamPlace
<1>3. ASSUME NEW r \in Runs,
             \/ StatementDone(r) \/ StatementRefused(r) \/ DumpCut(r) \/ ImportCut(r)
             \/ Lose(r) \/ Abandon(r) \/ StrayStatement(r)
      PROVE  PlaceInv'
  BY <1>3, StatementDonePlace, RefusedPlace, ImportCutPlace, LosePlace, AbandonPlace, StrayPlace
<1>4. ASSUME NEW r \in Runs, Stop(r) PROVE PlaceInv'
  BY <1>4, PlaceFrame DEF Stop, serverVars, commandVars, planVars, historyVars, PlaceInv, OnRecord, Active
<1>5. CASE Crash
  BY <1>5, CrashPlace
<1>6. CASE Reconcile
  <2>1. /\ \A r \in Runs : pc'[r] = IF pc[r] = "dead" THEN "interrupted" ELSE pc[r]
        /\ UNCHANGED <<engine, db, stray, script, reply, before, safety, overlapped, broken>>
    BY <1>6 DEF Reconcile, serverVars, planVars
  <2>2. \A r \in Runs : OnRecord(r)' => OnRecord(r) /\ pc'[r] = pc[r]
    BY <2>1 DEF OnRecord, Active, Commands, Stoppable, Recovery, Params
  <2> QED BY <2>1, <2>2, PlaceFrame DEF PlaceInv
<1> QED BY <1>1, <1>2, <1>3, <1>4, <1>5, <1>6 DEF Next

\* They hold at first.
LEMMA InitPlace == Init => PlaceInv
<1> SUFFICES ASSUME Init, NEW r \in Runs PROVE ~OnRecord(r)
  BY DEF PlaceInv
<1> QED BY DEF Init, OnRecord, Active, Commands, Stoppable, Recovery, Params

-----------------------------------------------------------------------------
(* Whether live accepts connections.                                       *)

\* Statements that do not close it, and those that load nothing into it.
NoClose(r) == {s \in Own(r) : s.op # "close"}
NoLoad(r) == {s \in Own(r) : ~(s.op = "load" /\ s.on = "live")}

\* PostgreSQL loads into live at no time; only a swap closes it, and what is left
\* of one that the program died in.
DoorOf(r) ==
    /\ engine = "postgres" => script[r] \in Seq(NoLoad(r)) /\ stray[r] \in Seq(NoLoad(r))
    /\ pc[r] # "swap" => script[r] \in Seq(NoClose(r))
    /\ stray[r] \in Seq(NoClose(r)) \/ (engine = "postgres" /\ pc[r] \in {"dead", "interrupted"})

Closable == closed => engine = "postgres" /\ db["live"] # "absent"

DoorInv == ~broken => Closable /\ \A r \in Runs : DoorOf(r)

\* What is left of statements is among them, if a load that is cut is.
LEMMA RemnantAmong ==
    ASSUME NEW r, NEW S, \A s \in S : s.op = "load" => Load(s.on, "part") \in S,
           NEW q \in Seq(S), stray[r] \in Seq(S)
    PROVE  Leave(r, Orphan(q)) \in Seq(S) /\ Leave(r, Remnant(q)) \in Seq(S)
<1>1. Orphan(q) \in Seq(S)
  <2>1. CASE q # <<>> /\ Head(q).op = "load"
    <3>1. Load(Head(q).on, "part") \in S
      BY <2>1, FirstAndRest
    <3> QED BY <2>1, <3>1 DEF Orphan
  <2>2. CASE ~(q # <<>> /\ Head(q).op = "load")
    BY <2>2 DEF Orphan
  <2> QED BY <2>1, <2>2
<1>2. Remnant(q) \in Seq(S)
  BY <1>1, FirstAndRest DEF Remnant
<1>3. \A p \in Seq(S) : Leave(r, p) \in Seq(S)
  BY DEF Leave
<1> QED BY <1>1, <1>2, <1>3

\* It is so of both kinds.
LEMMA CutLoads ==
    ASSUME NEW r \in Runs
    PROVE  /\ \A s \in NoClose(r) : s.op = "load" => Load(s.on, "part") \in NoClose(r)
           /\ \A s \in NoLoad(r) : s.op = "load" => Load(s.on, "part") \in NoLoad(r)
<1>1. \A s \in Own(r) : s.op = "load" => Load(s.on, "part") \in Own(r)
  <2> TAKE s \in Own(r)
  <2>1. s.on \in {r, "live"}
    BY DEF Own
  <2> QED BY <2>1, StatementTyped DEF Contents
<1> HIDE DEF Own
<1>2. \A n : Load(n, "part").op = "load" /\ Load(n, "part").on = n
  BY DEF Load
<1> QED BY <1>1, <1>2 DEF NoClose, NoLoad

\* A statement leaves live open, or closes one that is there.
LEMMA EffectDoor ==
    ASSUME TypeInv, Closable, NEW r \in Runs, NEW s \in Own(r), NEW q, Possible(s), Effect(s, q),
           engine = "postgres" => s \in NoLoad(r),
           s.op = "close" => engine = "postgres"
    PROVE  /\ Closable'
           /\ s.op # "close" /\ closed' => closed
           /\ s.op \in {"open", "rename"} => ~closed'
<1>1. /\ db \in [Runs \cup {"live"} -> Contents] /\ s.on \in {r, "live"} /\ r # "live"
      /\ engine' = engine /\ db' = DbAfter(s) /\ closed' = ClosedAfter(s)
  BY RunsAssumption DEF TypeInv, TypeOK, Own, Effect
<1>2. CASE s.op = "close"
  BY <1>1, <1>2 DEF DbAfter, ClosedAfter, Closable
<1>3. CASE s.op = "open"
  BY <1>1, <1>3 DEF DbAfter, ClosedAfter, Closable
<1>4. CASE s.op = "drop"
  BY <1>1, <1>4 DEF DbAfter, ClosedAfter, Closable
<1>5. CASE s.op = "create"
  BY <1>1, <1>5 DEF DbAfter, ClosedAfter, Closable
<1>6. CASE s.op = "load"
  BY <1>1, <1>6 DEF DbAfter, ClosedAfter, Closable, NoLoad
<1>7. CASE s.op = "rename"
  BY <1>1, <1>7 DEF DbAfter, ClosedAfter, Closable, Possible
<1>8. CASE s.op \notin {"close", "open", "drop", "create", "load", "rename"}
  BY <1>1, <1>8 DEF DbAfter, ClosedAfter, Closable
<1> QED BY <1>2, <1>3, <1>4, <1>5, <1>6, <1>7, <1>8

\* A script that is entered is of its kind.
LEMMA DoorScript ==
    ASSUME NEW r \in Runs, NEW stage, safety[r] \in Contents
    PROVE  /\ stage # "swap" => Script(r, stage) \in Seq(NoClose(r))
           /\ stage \notin Replacing \cup PuttingBack => Script(r, stage) \in Seq(NoLoad(r))
<1>1. /\ \A op \in (Changing \cup {"look", "dump", "store", "props"}) \ {"load"}, n \in {r, "live"} :
             Do(op, n) \in NoLoad(r) /\ (op # "close" => Do(op, n) \in NoClose(r))
      /\ \A c \in Contents, n \in {r, "live"} : Load(n, c) \in NoClose(r) /\ (n # "live" => Load(n, c) \in NoLoad(r))
  BY StatementTyped DEF NoClose, NoLoad, Do, Load
<1>2. /\ \A n \in {r, "live"} : /\ Do("look", n) \in NoClose(r) \cap NoLoad(r)
                                /\ Do("dump", n) \in NoClose(r) \cap NoLoad(r)
                                /\ Do("store", n) \in NoClose(r) \cap NoLoad(r)
                                /\ Do("props", n) \in NoClose(r) \cap NoLoad(r)
                                /\ Do("open", n) \in NoClose(r) \cap NoLoad(r)
                                /\ Do("drop", n) \in NoClose(r) \cap NoLoad(r)
                                /\ Do("create", n) \in NoClose(r) \cap NoLoad(r)
                                /\ Do("rename", n) \in NoClose(r) \cap NoLoad(r)
                                /\ Do("close", n) \in NoLoad(r)
      /\ Load(r, "dump") \in NoClose(r) \cap NoLoad(r)
      /\ Load("live", "dump") \in NoClose(r) /\ Load("live", "part") \in NoClose(r)
      /\ Load("live", safety[r]) \in NoClose(r)
  BY <1>1, RunsAssumption DEF Changing, Contents
<1> HIDE DEF NoClose, NoLoad
<1>3. CASE stage = "swap"
  <2>1. <<Do("rename", r)>> \in Seq(NoLoad(r)) /\ <<Do("close", "live"), Do("drop", "live")>> \in Seq(NoLoad(r))
    BY <1>2
  <2>2. (IF existed[r] THEN <<Do("close", "live"), Do("drop", "live")>> ELSE <<>>) \in Seq(NoLoad(r))
    BY <2>1
  <2> QED BY <1>3, <2>1, <2>2 DEF Script
<1>4. CASE stage \in {"meta", "check", "dump", "store", "props"}
  BY <1>2, <1>4 DEF Script
<1>5. CASE stage \in {"createTmp", "importTmp", "dropTmp", "cleanup", "rename", "reopen"}
  BY <1>2, <1>5 DEF Script
<1>6. CASE stage \in {"drop", "dropBack", "create", "createBack"}
  BY <1>2, <1>6 DEF Script
<1>7. CASE stage \in {"import", "importBack"}
  BY <1>2, <1>7 DEF Script, Replacing, PuttingBack
<1>8. CASE stage \notin {"meta", "check", "dump", "store", "props", "createTmp", "importTmp", "dropTmp",
                         "cleanup", "rename", "reopen", "drop", "dropBack", "create", "createBack",
                         "import", "importBack", "swap"}
  BY <1>8 DEF Script
<1> QED BY <1>3, <1>4, <1>5, <1>6, <1>7, <1>8

\* The sets do not change.
LEMMA DoorSets == \A r : NoClose(r)' = NoClose(r) /\ NoLoad(r)' = NoLoad(r)
BY DEF NoClose, NoLoad, Own

\* A run that is not concerned.
LEMMA DoorKept ==
    ASSUME NEW r \in Runs, DoorOf(r), engine' = engine, pc'[r] = pc[r], script'[r] = script[r],
           stray'[r] = stray[r] \/ stray'[r] = <<>>
    PROVE  DoorOf(r)'
<1>1. \A S : <<>> \in Seq(S)
  BY EmptySeq
<1> QED BY <1>1, DoorSets DEF DoorOf

\* A statement of a script.
LEMMA StatementDoneDoor ==
    ASSUME TypeInv, EngineInv, DoorInv, NEW r \in Runs, StatementDone(r)
    PROVE  DoorInv'
<1> DEFINE s == Head(script[r])
<1>1. /\ StepOf(r, s) /\ script[r] \in Seq(Own(r)) /\ r # "live"
      /\ \A q \in Runs \ {r} : script'[q] = script[q]
      /\ \A q \in Runs : stray'[q] = stray[q] \/ stray'[q] = <<>>
  BY StatementDoneIs DEF StatementDone, TypeInv, TypeOK, Effect, StrayAfter
<1>2. s \in Own(r) /\ Possible(s) /\ Effect(s, stray) /\ UNCHANGED <<engine, pc, broken>>
      /\ script'[r] = Tail(script[r]) /\ script[r] # <<>>
  BY <1>1, FirstAndRest DEF StepOf
<1>3. ASSUME ~broken PROVE Closable' /\ DoorOf(r)'
  <2>1. Closable /\ DoorOf(r)
    BY <1>3 DEF DoorInv
  <2>2. engine = "postgres" => s \in NoLoad(r) /\ script'[r] \in Seq(NoLoad(r))
    BY <1>2, <2>1, FirstAndRest DEF DoorOf
  <2>3. pc[r] # "swap" => s \in NoClose(r) /\ script'[r] \in Seq(NoClose(r))
    BY <1>2, <2>1, FirstAndRest DEF DoorOf
  <2>4. s.op = "close" => engine = "postgres"
    BY <2>3 DEF NoClose, EngineInv, Swapping
  <2>5. Closable'
    BY <1>2, <2>1, <2>2, <2>4, EffectDoor
  <2>6. stray'[r] = stray[r] \/ stray'[r] = <<>>
    BY <1>1
  <2>7. \A S : <<>> \in Seq(S)
    BY EmptySeq
  <2>8. DoorOf(r)'
    BY <1>2, <2>1, <2>2, <2>3, <2>6, <2>7, DoorSets DEF DoorOf
  <2> QED BY <2>5, <2>8
<1>4. ASSUME ~broken, NEW q \in Runs \ {r} PROVE DoorOf(q)'
  BY <1>1, <1>2, <1>4, DoorKept DEF DoorInv
<1> QED BY <1>2, <1>3, <1>4 DEF DoorInv

\* A command that ends early.
LEMMA CommandEndDoor ==
    ASSUME TypeInv, EngineInv, DoorInv, NEW r \in Runs,
           StatementRefused(r) \/ DumpCut(r) \/ ImportCut(r) \/ Abandon(r)
    PROVE  DoorInv'
<1>0. \A S : <<>> \in Seq(S)
  BY EmptySeq
<1>1. /\ pc[r] \in Commands /\ UNCHANGED <<pc, broken>> /\ engine' = engine
      /\ script'[r] = <<>> /\ \A q \in Runs \ {r} : script'[q] = script[q]
  BY DEF StatementRefused, DumpCut, ImportCut, Abandon, AtWork, Waiting, Ends, Effect, serverVars, historyVars,
         TypeInv, TypeOK
<1>2. CASE Abandon(r)
  <2>1. /\ UNCHANGED <<db, closed>> /\ Canceled(r)
        /\ stray'[r] = Leave(r, Remnant(script[r])) /\ \A q \in Runs \ {r} : stray'[q] = stray[q]
    BY <1>2 DEF Abandon, TypeInv, TypeOK
  <2>2. ASSUME ~broken PROVE DoorOf(r)'
    <3>1. pc[r] # "swap" /\ pc[r] \notin {"dead", "interrupted"} /\ DoorOf(r)
      BY <2>1, <2>2 DEF Canceled, CanceledIn, EngineInv, DoorInv, Stoppable, Recovery
    <3>2. script[r] \in Seq(NoClose(r)) /\ stray[r] \in Seq(NoClose(r))
      BY <3>1 DEF DoorOf
    <3>3. stray'[r] \in Seq(NoClose(r))
      BY <2>1, <3>2, CutLoads, RemnantAmong
    <3>4. engine = "postgres" => stray'[r] \in Seq(NoLoad(r))
      BY <2>1, <3>1, CutLoads, RemnantAmong DEF DoorOf
    <3> QED BY <1>0, <1>1, <3>3, <3>4, DoorSets DEF DoorOf
  <2>3. ASSUME ~broken, NEW q \in Runs \ {r} PROVE DoorOf(q)'
    BY <1>1, <2>1, <2>3, DoorKept DEF DoorInv
  <2> QED BY <1>1, <2>1, <2>2, <2>3 DEF DoorInv, Closable
<1>3. CASE StatementRefused(r) \/ DumpCut(r) \/ ImportCut(r)
  <2>1. \A q \in Runs : stray'[q] = stray[q] \/ stray'[q] = <<>>
    BY <1>3 DEF StatementRefused, DumpCut, ImportCut, Effect, StrayAfter, serverVars
  <2>2. ASSUME ~broken PROVE DoorOf(r)'
    BY <1>0, <1>1, <2>1, <2>2, DoorSets DEF DoorOf, DoorInv
  <2>3. ASSUME ~broken, NEW q \in Runs \ {r} PROVE DoorOf(q)'
    BY <1>1, <2>1, <2>3, DoorKept DEF DoorInv
  <2>4. ASSUME ~broken PROVE Closable'
    <3>1. CASE ImportCut(r)
      <4> DEFINE s == Load(Head(script[r]).on, "part")
      <4>1. /\ script[r] # <<>> /\ Head(script[r]).op = "load" /\ Possible(Head(script[r])) /\ Effect(s, stray)
        BY <3>1 DEF ImportCut, AtWork
      <4>2. Head(script[r]) \in Own(r) /\ DoorOf(r) /\ Closable
        BY <2>4, <4>1, FirstAndRest DEF TypeInv, OwnInv, DoorInv
      <4>3. engine = "postgres" => Head(script[r]) \in NoLoad(r)
        BY <4>1, <4>2, FirstAndRest DEF DoorOf
      <4>4. Head(script[r]).on \in {r, "live"}
        BY <4>2 DEF Own
      <4>5. s \in Own(r)
        BY <4>4, StatementTyped DEF Contents
      <4>6. engine = "postgres" => s \in NoLoad(r)
        BY <4>1, <4>3, CutLoads
      <4>7. Possible(s) /\ s.op # "close"
        BY <4>1 DEF Possible, Load
      <4> QED BY <4>1, <4>2, <4>5, <4>6, <4>7, EffectDoor
    <3>2. CASE ~ImportCut(r)
      <4>1. UNCHANGED <<engine, db, closed>>
        BY <1>3, <3>2 DEF StatementRefused, DumpCut, serverVars
      <4> QED BY <2>4, <4>1 DEF DoorInv, Closable
    <3> QED BY <3>1, <3>2
  <2> QED BY <1>1, <2>2, <2>3, <2>4 DEF DoorInv
<1> QED BY <1>2, <1>3

\* What is left of a command when it is given up or the program dies.
LEMMA DoorRemnant ==
    ASSUME NEW r \in Runs, DoorOf(r)
    PROVE  /\ engine = "postgres" => Leave(r, Orphan(script[r])) \in Seq(NoLoad(r))
           /\ pc[r] # "swap" /\ stray[r] \in Seq(NoClose(r)) => Leave(r, Orphan(script[r])) \in Seq(NoClose(r))
BY CutLoads, RemnantAmong DEF DoorOf

\* A run that enters a stage of its engine.
LEMMA EnterDoor ==
    ASSUME TypeInv, IInv, EngineInv', NEW r \in Runs, NEW stage, Enter(r, stage),
           pc[r] \notin {"dead", "interrupted"}, engine' = engine, stray' = stray, DoorOf(r)
    PROVE  DoorOf(r)' /\ \A q \in Runs \ {r} : DoorOf(q) => DoorOf(q)'
<1>1. /\ pc'[r] = stage /\ (script'[r] = <<>> \/ script'[r] = Script(r, stage))
      /\ \A q \in Runs \ {r} : pc'[q] = pc[q] /\ script'[q] = script[q]
  BY EnterIs
<1>2. \A S : <<>> \in Seq(S)
  BY EmptySeq
<1>3. engine = "postgres" => stage \notin Replacing \cup PuttingBack
  BY <1>1 DEF EngineInv
<1>4. safety[r] \in Contents
  BY DEF TypeInv, OwnInv
<1>5. /\ engine = "postgres" => script'[r] \in Seq(NoLoad(r))
      /\ stage # "swap" => script'[r] \in Seq(NoClose(r))
  BY <1>1, <1>2, <1>3, <1>4, DoorScript
<1>6. DoorOf(r)'
  BY <1>1, <1>5, DoorSets DEF DoorOf
<1> QED BY <1>1, <1>6, DoorKept

\* A run goes on.
LEMMA MoveDoor ==
    ASSUME TypeInv, IInv, EngineInv', DoorInv, NEW r \in Runs, Begin(r) \/ Proceed(r) \/ RecordParam(r)
    PROVE  DoorInv'
<1>1. /\ \E stage : Enter(r, stage)
      /\ UNCHANGED <<serverVars, broken>>
  BY DEF Begin, Proceed, RecordParam
<1>2. pc[r] \notin {"dead", "interrupted"}
  BY DEF Begin, Proceed, RecordParam, Commands, Stoppable, Recovery, Params
<1>3. PICK stage : Enter(r, stage)
  BY <1>1
<1>4. UNCHANGED <<engine, db, closed, stray, broken>>
  BY <1>1 DEF serverVars
<1>5. ~broken => \A q \in Runs : DoorOf(q)'
  BY <1>2, <1>3, <1>4, EnterDoor DEF DoorInv
<1> QED BY <1>4, <1>5 DEF DoorInv, Closable

\* A statement that nobody waits for.
LEMMA StrayDoor ==
    ASSUME TypeInv, DoorInv, NEW r \in Runs, StrayStatement(r)
    PROVE  DoorInv'
<1>1. /\ stray[r] # <<>> /\ UNCHANGED <<pc, script, broken>> /\ stray[r] \in Seq(Own(r)) /\ DOMAIN stray = Runs
      /\ engine' = engine
  BY DEF StrayStatement, Effect, commandVars, historyVars, TypeInv, TypeOK, OwnInv
<1>2. \/ stray' = [stray EXCEPT ![r] = <<>>] /\ UNCHANGED <<engine, db, closed>>
      \/ /\ Possible(Head(stray[r])) /\ Effect(Head(stray[r]), [stray EXCEPT ![r] = Tail(stray[r])])
         /\ stray'[r] \in {Tail(stray[r]), <<>>}
         /\ \A q \in Runs \ {r} : stray'[q] \in {stray[q], <<>>}
  BY <1>1 DEF StrayStatement, Effect, StrayAfter
<1>3. \A S : <<>> \in Seq(S)
  BY EmptySeq
<1>4. ASSUME ~broken PROVE DoorOf(r)'
  <2>1. DoorOf(r)
    BY <1>4 DEF DoorInv
  <2>2. stray'[r] \in {Tail(stray[r]), <<>>}
    BY <1>1, <1>2
  <2>3. \A S : stray[r] \in Seq(S) => stray'[r] \in Seq(S)
    BY <1>1, <1>3, <2>2, FirstAndRest
  <2> QED BY <1>1, <2>1, <2>3, DoorSets DEF DoorOf
<1>5. ASSUME ~broken, NEW q \in Runs \ {r} PROVE DoorOf(q)'
  <2>1. stray'[q] = stray[q] \/ stray'[q] = <<>>
    BY <1>1, <1>2
  <2> QED BY <1>1, <1>5, <2>1, DoorKept DEF DoorInv
<1>6. ASSUME ~broken PROVE Closable'
  <2>1. DoorOf(r) /\ Closable
    BY <1>6 DEF DoorInv
  <2>2. Head(stray[r]) \in Own(r)
    BY <1>1, FirstAndRest
  <2>3. engine = "postgres" => Head(stray[r]) \in NoLoad(r)
    BY <1>1, <2>1, FirstAndRest DEF DoorOf
  <2>4. Head(stray[r]).op = "close" => engine = "postgres"
    <3> SUFFICES ASSUME engine # "postgres" PROVE Head(stray[r]).op # "close"
      OBVIOUS
    <3>1. Head(stray[r]) \in NoClose(r)
      BY <1>1, <2>1, FirstAndRest DEF DoorOf
    <3> QED BY <3>1 DEF NoClose
  <2>5. CASE UNCHANGED <<engine, db, closed>>
    BY <2>1, <2>5 DEF Closable
  <2>6. CASE Possible(Head(stray[r])) /\ Effect(Head(stray[r]), [stray EXCEPT ![r] = Tail(stray[r])])
    BY <2>1, <2>2, <2>3, <2>4, <2>6, EffectDoor
  <2> QED BY <1>2, <2>5, <2>6
<1> QED BY <1>1, <1>4, <1>5, <1>6 DEF DoorInv

\* Death leaves the rest of a swap, and of nothing else a statement that closes.
LEMMA CrashDoor ==
    ASSUME TypeInv, IInv, EngineInv, DoorInv, Crash
    PROVE  DoorInv'
<1>1. /\ \A r \in Runs : /\ stray'[r] = Leave(r, Orphan(script[r])) /\ script'[r] = <<>>
                         /\ pc'[r] = IF Active(r) THEN "dead" ELSE IF pc[r] = "checked" THEN "idle" ELSE pc[r]
      /\ UNCHANGED <<engine, db, closed, broken>>
  BY DEF Crash, historyVars
<1>2. \A S : <<>> \in Seq(S)
  BY EmptySeq
<1>3. ASSUME ~broken, NEW r \in Runs PROVE DoorOf(r)'
  <2>1. DoorOf(r)
    BY <1>3 DEF DoorInv
  <2>2. engine = "postgres" => stray'[r] \in Seq(NoLoad(r))
    BY <1>1, <2>1, DoorRemnant
  <2>3. CASE pc[r] = "swap"
    <3>1. engine = "postgres" /\ pc'[r] = "dead"
      BY <1>1, <2>3 DEF EngineInv, Swapping, Active, Commands
    <3> QED BY <1>1, <1>2, <2>2, <3>1, DoorSets DEF DoorOf
  <2>4. CASE pc[r] \in {"dead", "interrupted"}
    <3>1. script[r] = <<>> /\ pc'[r] = pc[r]
      BY <1>1, <2>4 DEF IInv, Quiet, Active, Commands, Stoppable, Recovery, Params
    <3>2. stray'[r] = stray[r]
      BY <1>1, <3>1, NothingLeft
    <3> QED BY <1>1, <1>2, <2>1, <2>2, <3>1, <3>2, DoorSets DEF DoorOf
  <2>5. CASE pc[r] \notin {"swap", "dead", "interrupted"}
    <3>1. stray'[r] \in Seq(NoClose(r))
      BY <1>1, <2>1, <2>5, DoorRemnant DEF DoorOf
    <3> QED BY <1>1, <1>2, <2>2, <3>1, DoorSets DEF DoorOf
  <2> QED BY <2>3, <2>4, <2>5
<1> QED BY <1>1, <1>3 DEF DoorInv, Closable

\* Every step leaves live closed only where it may be.
LEMMA NextDoor == TypeInv /\ IInv /\ EngineInv /\ EngineInv' /\ DoorInv /\ [Next]_vars => DoorInv'
<1> SUFFICES ASSUME TypeInv, IInv, EngineInv, EngineInv', DoorInv, [Next]_vars PROVE DoorInv'
  OBVIOUS
<1>1. CASE UNCHANGED vars
  BY <1>1, DoorKept DEF vars, serverVars, commandVars, historyVars, DoorInv, Closable
<1>2. ASSUME NEW r \in Runs, StatementDone(r) PROVE DoorInv'
  BY <1>2, StatementDoneDoor
<1>3. ASSUME NEW r \in Runs, StatementRefused(r) \/ DumpCut(r) \/ ImportCut(r) \/ Abandon(r) PROVE DoorInv'
  BY <1>3, CommandEndDoor
<1>4. ASSUME NEW r \in Runs, Begin(r) \/ Proceed(r) \/ RecordParam(r) PROVE DoorInv'
  BY <1>4, MoveDoor
<1>5. ASSUME NEW r \in Runs, StrayStatement(r) PROVE DoorInv'
  BY <1>5, StrayDoor
<1>6. ASSUME NEW r \in Runs, Lose(r) PROVE DoorInv'
  BY <1>6 DEF Lose, DoorInv
<1>7. ASSUME NEW r \in Runs, Stop(r) PROVE DoorInv'
  BY <1>7, DoorKept DEF Stop, serverVars, commandVars, historyVars, DoorInv, Closable
<1>8. ASSUME NEW r \in Runs, Check(r) PROVE DoorInv'
  <2>1. /\ pc[r] = "idle" /\ pc' = [pc EXCEPT ![r] = "checked"]
        /\ UNCHANGED <<engine, db, closed, stray, script, broken>>
    BY <1>8 DEF Check, serverVars, historyVars
  <2>2. pc'[r] = "checked" /\ \A q \in Runs \ {r} : pc'[q] = pc[q]
    BY <2>1 DEF IInv, Shape
  <2>3. DoorOf(r) => DoorOf(r)'
    BY <2>1, <2>2, DoorSets DEF DoorOf
  <2> QED BY <2>1, <2>2, <2>3, DoorKept DEF DoorInv, Closable
<1>9. CASE Crash
  BY <1>9, CrashDoor
<1>10. CASE Reconcile
  <2>1. /\ \A r \in Runs : pc'[r] = IF pc[r] = "dead" THEN "interrupted" ELSE pc[r]
        /\ UNCHANGED <<engine, db, closed, stray, script, broken>>
    BY <1>10 DEF Reconcile, serverVars
  <2>2. \A r \in Runs : DoorOf(r) => DoorOf(r)'
    BY <2>1, DoorSets DEF DoorOf
  <2> QED BY <2>1, <2>2 DEF DoorInv, Closable
<1> QED BY <1>1, <1>2, <1>3, <1>4, <1>5, <1>6, <1>7, <1>8, <1>9, <1>10 DEF Next

\* At first it is open and nothing is sent.
LEMMA InitDoor == Init => DoorInv
<1> SUFFICES ASSUME Init PROVE DoorInv
  OBVIOUS
<1>1. \A S : <<>> \in Seq(S)
  BY EmptySeq
<1> QED BY <1>1 DEF Init, DoorInv, Closable, DoorOf

-----------------------------------------------------------------------------
(* Who may have left it closed, and whose copy waits for its name.         *)

\* What has closed live opens it again, or knows that it is gone.
ShutOf(r) ==
    /\ pc[r] \in {"swap", "rename"} /\ Succeeded(r) => ~closed
    /\ pc[r] = "check" => reply[r] # "ok" /\ (reply[r] = "no" => db["live"] = "absent")
    /\ pc[r] = "rename" /\ "check" \notin ignored[r] => db["live"] = "absent" \/ Succeeded(r)
    /\ pc[r] = "reopen" => script[r] \in {<<>>, <<Do("open", "live")>>}
    /\ pc[r] = "reopen" /\ Succeeded(r) => ~closed
    /\ pc[r] = "dropTmp" /\ "reopen" \notin ignored[r] => ~closed

\* The copy that is to be renamed by hand stays.
CopyKept(r) == pc[r] = "byHand" => db[r] = "dump" /\ stray[r] = <<>>

ShutInv ==
    ~overlapped /\ ~broken =>
        /\ \A r \in Runs : (OnRecord(r) => ShutOf(r)) /\ CopyKept(r)
        /\ closed => \E r \in Runs : MayBeClosed(r)

\* Nobody is concerned.
LEMMA ShutFrame ==
    ASSUME ShutInv, overlapped => overlapped', broken => broken', closed' = closed, db' = db,
           \A r \in Runs : \/ pc'[r] = pc[r] /\ reply'[r] = reply[r] /\ script'[r] = script[r] /\ ignored'[r] = ignored[r] /\ stray'[r] = stray[r]
                           \/ /\ OnRecord(r)' => ShutOf(r)'
                              /\ pc'[r] # "byHand" /\ (MayBeClosed(r) => MayBeClosed(r)')
    PROVE  ShutInv'
<1>1. \A r \in Runs : MayBeClosed(r) => MayBeClosed(r)'
  BY DEF MayBeClosed
<1>2. ASSUME ~overlapped', ~broken', NEW r \in Runs PROVE (OnRecord(r)' => ShutOf(r)') /\ CopyKept(r)'
  BY <1>2 DEF ShutInv, OnRecord, Active, ShutOf, Succeeded, CopyKept
<1> QED BY <1>1, <1>2 DEF ShutInv

\* A run that acts is alone: the copies of others stay.
LEMMA ActingShut ==
    ASSUME IInv, ShutInv, NEW r \in Runs, OnRecord(r),
           overlapped' = overlapped, broken => broken',
           \A q \in Runs \ {r} : pc'[q] = pc[q] /\ ignored'[q] = ignored[q] /\ db'[q] = db[q],
           \A q \in Runs \ {r} : stray[q] = <<>> => stray'[q] = <<>>,
           ~overlapped /\ ~broken /\ ~broken' /\ ShutOf(r) =>
               /\ (OnRecord(r)' => ShutOf(r)') /\ CopyKept(r)'
               /\ MayBeClosed(r) /\ closed' => MayBeClosed(r)'
               /\ closed' => closed \/ MayBeClosed(r)'
    PROVE  ShutInv'
<1> SUFFICES ASSUME ~overlapped', ~broken'
             PROVE  /\ \A q \in Runs : (OnRecord(q)' => ShutOf(q)') /\ CopyKept(q)'
                    /\ closed' => \E q \in Runs : MayBeClosed(q)'
  BY DEF ShutInv
<1>1. \A q \in Runs \ {r} : ~OnRecord(q)'
  BY OneOnRecord DEF OnRecord, Active
<1>2. \A q \in Runs \ {r} : CopyKept(q)'
  BY DEF ShutInv, CopyKept
<1>3. \A q \in Runs \ {r} : MayBeClosed(q) => MayBeClosed(q)'
  BY DEF MayBeClosed
<1> QED BY <1>1, <1>2, <1>3 DEF ShutInv

\* A statement of a script: only the swap closes, and the rename that ends it
\* takes the place of what was closed.
LEMMA StatementDoneShut ==
    ASSUME TypeInv, IInv, EngineInv, PlaceInv, DoorInv, ShutInv, NEW r \in Runs, StatementDone(r)
    PROVE  ShutInv'
<1> DEFINE s == Head(script[r])
<1>1. /\ StepOf(r, s) /\ db \in [Runs \cup {"live"} -> Contents] /\ r # "live"
      /\ script[r] \in Seq(Own(r)) /\ s \in Own(r) /\ UNCHANGED ignored
  BY StatementDoneIs, FirstAndRest DEF StatementDone, StepOf, historyVars
<1>2. OnRecord(r) /\ DOMAIN stray = Runs /\ \A q \in Runs : stray[q] \in Seq(Own(q))
  BY <1>1, OnRecordStages DEF StepOf, TypeInv, TypeOK, OwnInv
<1>3. \A q \in Runs \ {r} : db'[q] = db[q]
  BY <1>1, <1>2, EffectTyped, RunsAssumption DEF StepOf
<1>4. \A q \in Runs \ {r} : stray[q] = <<>> => stray'[q] = <<>>
  BY <1>1 DEF StepOf, Effect, StrayAfter
<1>5. ASSUME ~overlapped, ~broken, ShutOf(r)
      PROVE  /\ ShutOf(r)' /\ CopyKept(r)'
             /\ MayBeClosed(r) => MayBeClosed(r)'
             /\ closed' => closed \/ MayBeClosed(r)'
  <2>1. DoorOf(r) /\ Closable /\ Place(r)
    BY <1>2, <1>5 DEF DoorInv, PlaceInv
  <2>2. engine = "postgres" => s \in NoLoad(r)
    BY <1>1, <2>1, FirstAndRest DEF DoorOf, StepOf
  <2>3. pc[r] # "swap" => s.op # "close"
    <3> SUFFICES ASSUME pc[r] # "swap" PROVE s.op # "close"
      OBVIOUS
    <3>1. s \in NoClose(r)
      BY <1>1, <2>1, FirstAndRest DEF DoorOf, StepOf
    <3> QED BY <3>1 DEF NoClose
  <2>4. s.op = "close" => engine = "postgres"
    BY <2>3 DEF EngineInv, Swapping
  <2>5. /\ s.op # "close" /\ closed' => closed
        /\ s.op \in {"open", "rename"} => ~closed'
    BY <1>1, <2>1, <2>2, <2>4, EffectDoor DEF StepOf
  <2>6. pc'[r] = pc[r] /\ ignored'[r] = ignored[r] /\ pc[r] # "byHand"
    BY <1>1 DEF StepOf, Commands, Stoppable, Recovery
  <2>7. pc[r] \in {"swap", "rename"} => script[r] \in SwapRest(r) /\ script[r] # <<>>
    BY <1>1, <2>1 DEF Place, PlaceSwap, StepOf
  <2>8. pc[r] \in {"swap", "rename"} /\ Succeeded(r)' => ~closed'
    <3> SUFFICES ASSUME pc[r] \in {"swap", "rename"}, Succeeded(r)' PROVE ~closed'
      OBVIOUS
    <3>1. Tail(script[r]) = <<>>
      BY <1>1 DEF StepOf, Succeeded
    <3>2. /\ Tail(<<Do("drop", "live"), Do("rename", r)>>) # <<>>
          /\ Tail(<<Do("close", "live"), Do("drop", "live"), Do("rename", r)>>) # <<>>
      BY Tuples
    <3>3. script[r] = <<Do("rename", r)>>
      BY <2>7, <3>1, <3>2 DEF SwapRest
    <3>4. s.op = "rename"
      BY <3>3, Tuples DEF Do
    <3> QED BY <2>5, <3>4
  <2>9. pc[r] = "check" => db' = db /\ reply'[r] # "ok" /\ (reply'[r] = "no" => db["live"] = "absent")
    <3> SUFFICES ASSUME pc[r] = "check"
                 PROVE  db' = db /\ reply'[r] # "ok" /\ (reply'[r] = "no" => db["live"] = "absent")
      OBVIOUS
    <3>1. script[r] = <<Do("look", "live")>>
      BY <1>1, <2>1 DEF Place, PlaceSwap, StepOf
    <3>2. s = Do("look", "live") /\ Tail(script[r]) = <<>>
      BY <3>1, Tuples
    <3> QED BY <1>1, <3>2 DEF StepOf, Do, DbAfter, Answer
  <2>10. pc[r] = "rename" /\ "check" \notin ignored[r] => db'["live"] = "absent" \/ Succeeded(r)'
    <3> SUFFICES ASSUME pc[r] = "rename", "check" \notin ignored[r] PROVE db'["live"] = "absent" \/ Succeeded(r)'
      OBVIOUS
    <3>1. db["live"] = "absent"
      BY <1>1, <1>5 DEF ShutOf, StepOf, Succeeded
    <3>2. CASE script[r] = <<Do("rename", r)>>
      <4>1. s = Do("rename", r) /\ Tail(script[r]) = <<>>
        BY <3>2, Tuples
      <4> QED BY <1>1, <4>1 DEF StepOf, Do, Answer, Succeeded
    <3>3. CASE script[r] # <<Do("rename", r)>>
      <4>1. s \in {Do("drop", "live"), Do("close", "live")}
        BY <2>7, <3>3, Tuples DEF SwapRest
      <4> QED BY <1>1, <3>1, <4>1 DEF StepOf, Do, DbAfter
    <3> QED BY <3>2, <3>3
  <2>11. pc[r] = "reopen" /\ Succeeded(r)' => ~closed'
    <3> SUFFICES ASSUME pc[r] = "reopen", Succeeded(r)' PROVE ~closed'
      OBVIOUS
    <3>1. script[r] = <<Do("open", "live")>>
      BY <1>1, <1>5 DEF ShutOf, StepOf
    <3>2. s.op = "open"
      BY <3>1, Tuples DEF Do
    <3> QED BY <2>5, <3>2
  <2>12. pc[r] = "reopen" => script'[r] \in {<<>>, <<Do("open", "live")>>}
    BY <1>1, <1>5, Tuples DEF ShutOf, StepOf
  <2>13. ShutOf(r)'
    BY <1>5, <2>3, <2>5, <2>6, <2>8, <2>9, <2>10, <2>11, <2>12 DEF ShutOf
  <2> QED BY <2>3, <2>5, <2>6, <2>13 DEF CopyKept, MayBeClosed
<1> QED BY <1>1, <1>2, <1>3, <1>4, <1>5, ActingShut DEF StepOf

\* A command that ends early.
LEMMA CommandEndShut ==
    ASSUME TypeInv, IInv, EngineInv, PlaceInv, DoorInv, ShutInv, NEW r \in Runs,
           StatementRefused(r) \/ DumpCut(r) \/ ImportCut(r) \/ Abandon(r)
    PROVE  ShutInv'
<1>1. /\ pc[r] \in Commands /\ UNCHANGED <<pc, ignored, overlapped, broken>>
      /\ script'[r] = <<>> /\ reply'[r] \in {"exit", "lost", "ok"} /\ (reply'[r] = "ok" => pc[r] = "dump")
  BY DEF StatementRefused, DumpCut, ImportCut, ImportAnswer, Abandon, AtWork, Waiting, Ends, historyVars, TypeInv, TypeOK
<1>2. OnRecord(r) /\ pc[r] # "byHand"
  BY <1>1, OnRecordStages DEF Commands, Stoppable, Recovery
<1>3. CASE ImportCut(r)
  <2> DEFINE s == Load(Head(script[r]).on, "part")
  <2>1. /\ script[r] # <<>> /\ Head(script[r]).op = "load" /\ Effect(s, stray) /\ script[r] \in Seq(Own(r))
        /\ db \in [Runs \cup {"live"} -> Contents]
    BY <1>3 DEF ImportCut, AtWork, TypeInv, TypeOK, OwnInv
  <2>2. Head(script[r]) \in Own(r)
    BY <2>1, FirstAndRest
  <2>3. Head(script[r]).on \in {r, "live"}
    BY <2>2 DEF Own
  <2>4. /\ \A q \in Runs \ {r} : db'[q] = db[q]
        /\ closed' = closed /\ (s.on = r => db'["live"] = db["live"])
        /\ \A q \in Runs : stray[q] = <<>> => stray'[q] = <<>>
    BY <2>1, <2>3, RunsAssumption DEF Effect, DbAfter, ClosedAfter, StrayAfter, Load
  <2>5. ASSUME ~overlapped, ~broken, ShutOf(r) PROVE ShutOf(r)'
    <3>1. Place(r) /\ DoorOf(r)
      BY <1>2, <2>5 DEF PlaceInv, DoorInv
    <3>2. pc[r] # "rename"
      BY <2>1, <3>1, Tuples DEF Place, PlaceSwap, SwapRest, Do
    <3> QED BY <1>1, <2>4, <2>5, <3>2 DEF ShutOf, Succeeded
  <2> QED BY <1>1, <1>2, <2>4, <2>5, ActingShut DEF CopyKept, MayBeClosed
<1>4. CASE StatementRefused(r) \/ DumpCut(r) \/ Abandon(r)
  <2>1. /\ UNCHANGED <<db, closed>> /\ \A q \in Runs \ {r} : stray'[q] = stray[q]
    BY <1>4 DEF StatementRefused, DumpCut, Abandon, serverVars, TypeInv, TypeOK
  <2>2. ASSUME ~overlapped, ~broken, ShutOf(r) PROVE ShutOf(r)'
    <3>1. pc[r] = "rename" /\ Succeeded(r) => reply'[r] = "ok"
      <4> SUFFICES ASSUME pc[r] = "rename", Succeeded(r) PROVE FALSE
        OBVIOUS
      <4>1. Place(r)
        BY <1>2, <2>2 DEF PlaceInv
      <4>2. Abandon(r)
        BY <1>4 DEF StatementRefused, DumpCut, AtWork, Waiting, Succeeded
      <4> QED BY <2>2, <4>2 DEF Abandon, Canceled, CanceledIn, EngineInv, Stoppable
    <3> QED BY <1>1, <2>1, <2>2, <3>1 DEF ShutOf, Succeeded
  <2> QED BY <1>1, <1>2, <2>1, <2>2, ActingShut DEF CopyKept, MayBeClosed
<1> QED BY <1>3, <1>4

\* A statement that nobody waits for.
LEMMA StrayShut ==
    ASSUME TypeInv, IInv, EngineInv, PlaceInv, DoorInv, ShutInv, NEW r \in Runs, StrayStatement(r)
    PROVE  ShutInv'
<1>1. /\ stray[r] # <<>> /\ UNCHANGED <<pc, script, reply, ignored, overlapped, broken, before>>
      /\ \A q \in Runs : stray[q] \in Seq(Own(q))
      /\ DOMAIN stray = Runs /\ engine' = engine
  BY DEF StrayStatement, Effect, commandVars, historyVars, TypeInv, TypeOK, OwnInv
<1>2. \/ stray' = [stray EXCEPT ![r] = <<>>] /\ UNCHANGED <<db, closed>>
      \/ /\ Possible(Head(stray[r])) /\ Effect(Head(stray[r]), [stray EXCEPT ![r] = Tail(stray[r])])
  BY DEF StrayStatement
<1>3. Head(stray[r]) \in Own(r) /\ Tail(stray[r]) \in Seq(Own(r))
  BY <1>1, FirstAndRest
<1>4. /\ \A q \in Runs \ {r} : db'[q] = db[q] /\ (stray[q] = <<>> => stray'[q] = <<>>)
  <2>1. CASE UNCHANGED <<db, closed>> /\ stray' = [stray EXCEPT ![r] = <<>>]
    BY <2>1
  <2>2. CASE Effect(Head(stray[r]), [stray EXCEPT ![r] = Tail(stray[r])])
    <3> DEFINE p == [stray EXCEPT ![r] = Tail(stray[r])]
    <3>1. DOMAIN p = Runs /\ \A o \in Runs : p[o] \in Seq(Own(o))
      BY <1>1, <1>3
    <3>2. \A n \in (Runs \cup {"live"}) \ {r, "live"} : db'[n] = db[n]
      <4> HIDE DEF p
      <4> QED BY <1>3, <2>2, <3>1, EffectTyped DEF p
    <3>3. \A q \in Runs \ {r} : stray[q] = <<>> => stray'[q] = <<>>
      BY <1>1, <2>2 DEF Effect, StrayAfter
    <3> QED BY <3>2, <3>3, RunsAssumption
  <2> QED BY <1>2, <2>1, <2>2
<1> SUFFICES ASSUME ~overlapped, ~broken PROVE ShutInv'
  BY <1>1 DEF ShutInv
<1>5. DoorOf(r) /\ Closable
  BY DEF DoorInv
<1>6. \/ closed' => closed
      \/ pc[r] \in {"dead", "interrupted"}
  <2> SUFFICES ASSUME pc[r] \notin {"dead", "interrupted"},
                      Possible(Head(stray[r])), Effect(Head(stray[r]), [stray EXCEPT ![r] = Tail(stray[r])])
               PROVE  closed' => closed
    BY <1>2
  <2>1. Head(stray[r]) \in NoClose(r) /\ (engine = "postgres" => Head(stray[r]) \in NoLoad(r))
    BY <1>1, <1>5, FirstAndRest DEF DoorOf
  <2>2. Head(stray[r]).op # "close"
    BY <2>1 DEF NoClose
  <2> QED BY <1>3, <1>5, <2>1, <2>2, EffectDoor
<1>7. closed' => \E q \in Runs : MayBeClosed(q)'
  BY <1>1, <1>6 DEF ShutInv, MayBeClosed
<1>8. \A q \in Runs : CopyKept(q)'
  BY <1>1, <1>4 DEF ShutInv, CopyKept
<1>9. ASSUME NEW q \in Runs, OnRecord(q) PROVE ShutOf(q)'
  <2>1. q = r /\ ShutOf(r)
    BY <1>1, <1>9, OneOnRecord DEF ShutInv
  <2>2. Place(r)
    BY <1>9, <2>1 DEF PlaceInv
  <2>3. pc[r] \notin Swapping
    BY <1>1, <2>2 DEF Place, PlaceSwap, InPlace
  <2>4. ASSUME pc[r] \in {"reopen", "dropTmp"} PROVE closed' => closed
    BY <1>6, <2>4
  <2> QED BY <1>1, <2>1, <2>3, <2>4 DEF ShutOf, Swapping, Succeeded
<1>10. \A q \in Runs : OnRecord(q)' <=> OnRecord(q)
  BY <1>1 DEF OnRecord, Active
<1> QED BY <1>7, <1>8, <1>9, <1>10 DEF ShutInv

\* A run goes on with what the command showed.
LEMMA ProceedShut ==
    ASSUME TypeInv, IInv, EngineInv, PlaceInv, DoorInv, ShutInv, NEW r \in Runs, Proceed(r)
    PROVE  ShutInv'
<1> DEFINE stage == IF reply[r] \in {"exit", "lost"} THEN OnFailure(r) ELSE OnSuccess(r)
<1>1. /\ pc[r] \in Commands /\ reply[r] # "none" /\ Enter(r, stage)
      /\ ignored' = [ignored EXCEPT ![r] = IF Overlooks(r) THEN ignored[r] \cup {pc[r]} ELSE ignored[r]]
      /\ UNCHANGED <<db, closed, stray, overlapped, broken>>
      /\ ignored \in [Runs -> SUBSET {"check", "reopen"}]
      /\ reply[r] \in {"none", "ok", "yes", "no", "exit", "lost"}
  BY DEF Proceed, serverVars, TypeInv, TypeOK
<1>2. /\ pc'[r] = stage /\ reply'[r] = "none" /\ (script'[r] = <<>> \/ script'[r] = Script(r, stage))
      /\ \A q \in Runs \ {r} : pc'[q] = pc[q]
  <2> HIDE DEF stage
  <2> QED BY <1>1, EnterIs
<1>3. /\ ignored[r] \subseteq ignored'[r] /\ \A q \in Runs \ {r} : ignored'[q] = ignored[q]
      /\ pc[r] \in {"check", "reopen"} /\ reply[r] \in {"exit", "lost"} => pc[r] \in ignored'[r]
  BY <1>1 DEF Overlooks
<1>4. OnRecord(r)
  BY <1>1, OnRecordStages
<1>5. Succeeded(r) <=> reply[r] \notin {"exit", "lost"}
  BY <1>1 DEF Succeeded
<1>6. ASSUME ~overlapped, ~broken, ShutOf(r)
      PROVE  ShutOf(r)' /\ CopyKept(r)' /\ (MayBeClosed(r) /\ closed => MayBeClosed(r)')
  <2>1. Place(r) /\ Closable
    BY <1>4, <1>6 DEF PlaceInv, DoorInv
  <2>2. stage = "rename" => pc[r] = "check" /\ (reply[r] = "no" \/ "check" \in ignored'[r])
    <3>1. CASE pc[r] \in Reading
      BY <1>5, <3>1, AfterReading DEF First, Reading
    <3>2. CASE pc[r] \in Beside
      BY <1>5, <3>2 DEF OnSuccess, OnFailure, Beside
    <3>3. CASE pc[r] \in Swapping
      <4>1. stage = "rename" => pc[r] = "check" /\ (reply[r] \in {"exit", "lost"} \/ reply[r] # "yes")
        BY <1>5, <3>3 DEF OnSuccess, OnFailure, AfterCheck, Swapping
      <4>2. pc[r] = "check" => reply[r] # "ok"
        BY <1>6 DEF ShutOf
      <4> HIDE DEF stage
      <4> QED BY <1>1, <1>3, <4>1, <4>2
    <3>4. CASE pc[r] \in Replacing \cup PuttingBack
      BY <1>5, <3>4 DEF OnSuccess, OnFailure, AfterChange, AfterDropFailed, Replacing, PuttingBack
    <3> QED BY <1>1, <3>1, <3>2, <3>3, <3>4, StageSets
  <2>3. stage = "dropTmp" => pc[r] = "reopen" /\ (Succeeded(r) \/ "reopen" \in ignored'[r])
    <3>1. CASE pc[r] \in Reading
      BY <1>5, <3>1, AfterReading DEF First, Reading
    <3>2. CASE pc[r] \in Beside
      BY <1>3, <1>5, <3>2 DEF OnSuccess, OnFailure, Beside
    <3>3. CASE pc[r] \in Swapping
      BY <1>5, <3>3 DEF OnSuccess, OnFailure, AfterCheck, Swapping
    <3>4. CASE pc[r] \in Replacing \cup PuttingBack
      BY <1>5, <3>4 DEF OnSuccess, OnFailure, AfterChange, AfterDropFailed, Replacing, PuttingBack
    <3> QED BY <1>1, <3>1, <3>2, <3>3, <3>4, StageSets
  <2>4. stage = "byHand" => pc[r] = "rename" /\ ~Succeeded(r)
    <3>1. CASE pc[r] \in Reading
      BY <1>5, <3>1, AfterReading DEF First, Reading
    <3>2. CASE pc[r] \in Beside
      BY <1>5, <3>2 DEF OnSuccess, OnFailure, Beside
    <3>3. CASE pc[r] \in Swapping
      BY <1>5, <3>3 DEF OnSuccess, OnFailure, AfterCheck, Swapping
    <3>4. CASE pc[r] \in Replacing \cup PuttingBack
      BY <1>5, <3>4 DEF OnSuccess, OnFailure, AfterChange, AfterDropFailed, Replacing, PuttingBack
    <3> QED BY <1>1, <3>1, <3>2, <3>3, <3>4, StageSets
  <2>5. pc[r] \in {"swap"} \cup Recovery =>
            \/ stage \in {"swap"} \cup Recovery
            \/ pc[r] \in {"swap", "rename"} /\ Succeeded(r)
            \/ pc[r] = "rename" /\ stage = "byHand"
            \/ pc[r] = "dropTmp"
    BY <1>5 DEF OnSuccess, OnFailure, AfterCheck, Recovery
  <2> HIDE DEF stage
  <2>6. stage = "reopen" => script'[r] \in {<<>>, <<Do("open", "live")>>}
    BY <1>2 DEF Script
  <2>7. ShutOf(r)'
    BY <1>1, <1>2, <1>3, <1>6, <2>2, <2>3, <2>6 DEF ShutOf, Succeeded
  <2>8. CopyKept(r)'
    BY <1>1, <1>2, <2>1, <2>4 DEF CopyKept, Place, PlaceSwap, Swapping, Ready, InPlace, Succeeded
  <2>9. MayBeClosed(r) /\ closed => MayBeClosed(r)'
    <3> SUFFICES ASSUME closed, MayBeClosed(r), ignored[r] = {}, ignored'[r] = {} PROVE MayBeClosed(r)'
      BY <1>3 DEF MayBeClosed
    <3>1. pc[r] \in {"swap"} \cup Recovery
      BY <1>1 DEF MayBeClosed, Commands, Stoppable, Recovery
    <3>2. ~(pc[r] \in {"swap", "rename"} /\ Succeeded(r)) /\ pc[r] # "dropTmp"
      BY <1>6 DEF ShutOf
    <3>3. ~(pc[r] = "rename" /\ ~Succeeded(r))
      BY <1>6, <2>1 DEF ShutOf, Closable
    <3> QED BY <1>2, <2>4, <2>5, <3>1, <3>2, <3>3 DEF MayBeClosed
  <2> QED BY <2>7, <2>8, <2>9
<1> HIDE DEF stage
<1> QED BY <1>1, <1>2, <1>3, <1>4, <1>6, ActingShut DEF ShutInv

\* A run that begins, or writes its row.
LEMMA EntersShut ==
    ASSUME TypeInv, IInv, ShutInv, NEW r \in Runs, Begin(r) \/ RecordParam(r)
    PROVE  ShutInv'
<1>1. UNCHANGED <<db, closed, stray, broken, ignored>> /\ pc[r] \in Params \cup {"checked"}
  BY DEF Begin, RecordParam, serverVars
<1>0. overlapped => overlapped'
  BY DEF Begin, RecordParam
<1>2. PICK stage : Enter(r, stage) /\ stage \in {"meta", "createTmp", "recordTmp", "unchanged", "drop"}
  <2>1. First(r) \in {"recordTmp", "unchanged", "drop"}
    BY DEF First
  <2> QED BY <2>1 DEF Begin, RecordParam, AfterParam
<1>3. pc'[r] = stage /\ \A q \in Runs \ {r} : pc'[q] = pc[q] /\ reply'[q] = reply[q] /\ script'[q] = script[q]
  BY <1>2, EnterIs
<1>4. ShutOf(r)' /\ pc'[r] # "byHand"
  BY <1>2, <1>3 DEF ShutOf
<1>5. MayBeClosed(r) => MayBeClosed(r)'
  <2>1. pc[r] \notin {"swap", "dead", "interrupted"} \cup Recovery
    BY <1>1 DEF Params, Recovery
  <2> QED BY <1>1, <2>1 DEF MayBeClosed
<1>6. \A q \in Runs \ {r} :
          pc'[q] = pc[q] /\ reply'[q] = reply[q] /\ script'[q] = script[q] /\ ignored'[q] = ignored[q] /\ stray'[q] = stray[q]
  BY <1>1, <1>3
<1> QED BY <1>0, <1>1, <1>4, <1>5, <1>6, ShutFrame

\* Every step keeps it.
LEMMA NextShut ==
    TypeInv /\ IInv /\ EngineInv /\ PlaceInv /\ DoorInv /\ ShutInv /\ [Next]_vars => ShutInv'
<1> SUFFICES ASSUME TypeInv, IInv, EngineInv, PlaceInv, DoorInv, ShutInv, [Next]_vars PROVE ShutInv'
  OBVIOUS
<1>1. CASE UNCHANGED vars
  BY <1>1, ShutFrame DEF vars, serverVars, commandVars, historyVars
<1>2. ASSUME NEW r \in Runs, StatementDone(r) PROVE ShutInv'
  BY <1>2, StatementDoneShut
<1>3. ASSUME NEW r \in Runs, StatementRefused(r) \/ DumpCut(r) \/ ImportCut(r) \/ Abandon(r) PROVE ShutInv'
  BY <1>3, CommandEndShut
<1>4. ASSUME NEW r \in Runs, Begin(r) \/ RecordParam(r) PROVE ShutInv'
  BY <1>4, EntersShut
<1>5. ASSUME NEW r \in Runs, StrayStatement(r) PROVE ShutInv'
  BY <1>5, StrayShut
<1>6. ASSUME NEW r \in Runs, Lose(r) PROVE ShutInv'
  BY <1>6 DEF Lose, ShutInv
<1>7. ASSUME NEW r \in Runs, Stop(r) PROVE ShutInv'
  BY <1>7, ShutFrame DEF Stop, serverVars, commandVars, historyVars
<1>8. ASSUME NEW r \in Runs, Proceed(r) PROVE ShutInv'
  BY <1>8, ProceedShut
<1>9. ASSUME NEW r \in Runs, Check(r) PROVE ShutInv'
  <2>1. /\ pc[r] = "idle" /\ pc' = [pc EXCEPT ![r] = "checked"]
        /\ UNCHANGED <<db, closed, stray, script, reply, ignored, overlapped, broken>>
    BY <1>9 DEF Check, serverVars, historyVars
  <2>2. pc'[r] = "checked" /\ \A q \in Runs \ {r} : pc'[q] = pc[q]
    BY <2>1 DEF IInv, Shape
  <2>3. ShutOf(r)' /\ (MayBeClosed(r) => MayBeClosed(r)')
    BY <2>1, <2>2 DEF ShutOf, MayBeClosed, Recovery
  <2> QED BY <2>1, <2>2, <2>3, ShutFrame
<1>10. CASE Crash
  <2>1. /\ \A r \in Runs : /\ stray'[r] = Leave(r, Orphan(script[r]))
                           /\ pc'[r] = IF Active(r) THEN "dead" ELSE IF pc[r] = "checked" THEN "idle" ELSE pc[r]
        /\ UNCHANGED <<db, closed, ignored, overlapped, broken>>
    BY <1>10 DEF Crash, historyVars
  <2>2. \A r \in Runs : pc'[r] \notin Commands /\ (OnRecord(r)' => pc'[r] = "dead")
    BY <2>1 DEF OnRecord, Active, Params, Commands, Stoppable, Recovery
  <2>3. ASSUME NEW r \in Runs PROVE OnRecord(r)' => ShutOf(r)'
    BY <2>2 DEF ShutOf
  <2>4. ASSUME NEW r \in Runs, CopyKept(r) PROVE CopyKept(r)'
    <3> SUFFICES ASSUME pc'[r] = "byHand" PROVE db'[r] = "dump" /\ stray'[r] = <<>>
      BY DEF CopyKept
    <3>1. pc[r] = "byHand" /\ pc[r] \notin Commands
      BY <2>1 DEF Active, Commands, Stoppable, Recovery
    <3>2. script[r] = <<>>
      BY <3>1 DEF IInv, Quiet
    <3> QED BY <2>1, <2>4, <3>1, <3>2, NothingLeft DEF CopyKept
  <2>5. ASSUME NEW r \in Runs, MayBeClosed(r) PROVE MayBeClosed(r)'
    BY <2>1, <2>5 DEF MayBeClosed, Active, Commands, Recovery
  <2> QED BY <2>1, <2>3, <2>4, <2>5 DEF ShutInv
<1>11. CASE Reconcile
  <2>1. /\ \A r \in Runs : pc'[r] = IF pc[r] = "dead" THEN "interrupted" ELSE pc[r]
        /\ UNCHANGED <<db, closed, stray, script, reply, ignored, overlapped, broken>>
    BY <1>11 DEF Reconcile, serverVars
  <2>2. ASSUME NEW r \in Runs, pc[r] = "dead" PROVE ShutOf(r)' /\ pc'[r] # "byHand" /\ MayBeClosed(r)'
    BY <2>1, <2>2 DEF ShutOf, MayBeClosed
  <2> QED BY <2>1, <2>2, ShutFrame
<1> QED BY <1>1, <1>2, <1>3, <1>4, <1>5, <1>6, <1>7, <1>8, <1>9, <1>10, <1>11 DEF Next

\* At first nobody has anything to keep.
LEMMA InitShut == Init => ShutInv
BY DEF Init, ShutInv, OnRecord, Active, Commands, Stoppable, Recovery, Params, CopyKept

-----------------------------------------------------------------------------
(* What the runs report.                                                   *)

\* What a settled run has left.
Told(r) ==
    /\ pc[r] \in {"unchanged", "putBack"} => left[r] = before[r]
    /\ pc[r] = "success" => left[r] = "dump"
    /\ pc[r] = "backFailed" => safety[r] = before[r]
    /\ pc[r] = "byHand" => left[r] = "absent" \/ "check" \in ignored[r]

ToldInv == ~overlapped /\ ~broken => \A r \in Runs : Told(r)

\* With the copy that waits and the door, it is what is reported.
LEMMA ToldIs == ToldInv /\ ShutInv => Truthful
BY DEF Truthful, Reported, ToldInv, Told, ShutInv, CopyKept

\* What a run that settles has come to.
LEMMA SettlesTruly ==
    ASSUME NEW r \in Runs, NEW stage \in Reports, pc'[r] = stage, left'[r] = db["live"],
           before'[r] = before[r], safety'[r] = safety[r],
           stage \in {"unchanged", "putBack"} => db["live"] = before[r],
           stage = "success" => db["live"] = "dump",
           stage = "backFailed" => safety[r] = before[r],
           stage = "byHand" => db["live"] = "absent" \/ "check" \in ignored'[r]
    PROVE  Told(r)'
BY DEF Told

\* A run that ends reports what its place shows.
LEMMA ProceedTold ==
    ASSUME TypeInv, IInv, EngineInv, PlaceInv, ShutInv, ToldInv, NEW r \in Runs, Proceed(r)
    PROVE  ToldInv'
<1> DEFINE stage == IF reply[r] \in {"exit", "lost"} THEN OnFailure(r) ELSE OnSuccess(r)
<1>1. /\ pc[r] \in Commands /\ reply[r] # "none" /\ Enter(r, stage) /\ Settle(r, stage)
      /\ ignored' = [ignored EXCEPT ![r] = IF Overlooks(r) THEN ignored[r] \cup {pc[r]} ELSE ignored[r]]
      /\ UNCHANGED <<before, safety, overlapped, broken>>
  BY DEF Proceed
<1>2. /\ pc'[r] = stage /\ \A q \in Runs \ {r} : pc'[q] = pc[q] /\ left'[q] = left[q]
      /\ stage \in Reports => left'[r] = db["live"]
  <2>1. left \in [Runs -> Contents]
    BY DEF TypeInv, TypeOK
  <2> HIDE DEF stage
  <2> QED BY <1>1, <2>1, EnterIs DEF Settle
<1>5. ignored[r] \subseteq ignored'[r] /\ \A q \in Runs \ {r} : ignored'[q] = ignored[q]
  BY <1>1 DEF TypeInv, TypeOK
<1>3. ASSUME ~overlapped, ~broken PROVE Told(r)'
  <2>1. OnRecord(r) /\ Place(r) /\ Kept(r)
    BY <1>1, <1>3, OnRecordStages DEF PlaceInv, IInv, KeptInv
  <2>2. Succeeded(r) <=> reply[r] \notin {"exit", "lost"}
    BY <1>1 DEF Succeeded
  <2>3. stage = "unchanged" => db["live"] = before[r]
    <3> SUFFICES ASSUME stage = "unchanged" PROVE db["live"] = before[r]
      OBVIOUS
    <3>1. CASE pc[r] \in Reading
      BY <2>1, <3>1 DEF Kept, Untouched
    <3>2. CASE pc[r] \in Beside
      BY <2>1, <3>2 DEF Place, PlaceBeside
    <3>3. CASE pc[r] \in Swapping
      BY <2>2, <3>3 DEF OnSuccess, OnFailure, AfterCheck, Swapping
    <3>4. CASE pc[r] \in Replacing
      <4>1. pc[r] = "drop" /\ reply[r] = "exit"
        BY <2>2, <3>4 DEF OnSuccess, OnFailure, AfterDropFailed, AfterChange, Replacing
      <4> QED BY <2>1, <4>1 DEF Place, PlaceReplace
    <3>5. CASE pc[r] \in PuttingBack
      BY <2>2, <3>5 DEF OnSuccess, OnFailure, PuttingBack
    <3> QED BY <1>1, <3>1, <3>2, <3>3, <3>4, <3>5, StageSets
  <2>4. stage \in {"success", "putBack", "backFailed"} =>
            \/ pc[r] \in {"swap", "rename", "import"} /\ stage = "success" /\ Succeeded(r)
            \/ pc[r] \in PuttingBack
    <3>1. CASE pc[r] \in Reading
      BY <2>2, <3>1, AfterReading DEF First, Reading
    <3>2. CASE pc[r] \in Beside
      BY <2>2, <3>2 DEF OnSuccess, OnFailure, Beside
    <3>3. CASE pc[r] \in Swapping \cup Replacing
      BY <2>2, <3>3 DEF OnSuccess, OnFailure, AfterCheck, AfterChange, AfterDropFailed, Swapping, Replacing
    <3> QED BY <1>1, <3>1, <3>2, <3>3, StageSets
  <2>5. pc[r] \in PuttingBack =>
            /\ safety[r] = before[r] /\ stage # "success"
            /\ stage = "putBack" => db["live"] = before[r]
    <3> SUFFICES ASSUME pc[r] \in PuttingBack
                 PROVE  /\ safety[r] = before[r] /\ stage # "success"
                        /\ stage = "putBack" => db["live"] = before[r]
      OBVIOUS
    <3>1. HasSafety(r) /\ pc[r] \notin Reading \cup {"dead"}
      BY StageSets DEF EngineInv
    <3>2. safety[r] = before[r]
      BY <2>1, <3>1 DEF Kept
    <3>3. stage # "success" /\ (stage = "putBack" => pc[r] = "importBack" /\ Succeeded(r))
      BY <2>2 DEF OnSuccess, OnFailure, PuttingBack
    <3> QED BY <2>1, <3>2, <3>3 DEF Place, PlaceReplace
  <2>6. pc[r] \in {"swap", "rename", "import"} /\ Succeeded(r) => db["live"] = "dump"
    BY <2>1 DEF Place, PlaceSwap, PlaceReplace, InPlace
  <2>9. stage = "byHand" => db["live"] = "absent" \/ "check" \in ignored'[r]
    <3> SUFFICES ASSUME stage = "byHand" PROVE db["live"] = "absent" \/ "check" \in ignored'[r]
      OBVIOUS
    <3>1. pc[r] = "rename" /\ ~Succeeded(r)
      <4>1. CASE pc[r] \in Reading
        BY <2>2, <4>1, AfterReading DEF First, Reading
      <4>2. CASE pc[r] \in Beside
        BY <2>2, <4>2 DEF OnSuccess, OnFailure, Beside
      <4>3. CASE pc[r] \in Swapping
        BY <2>2, <4>3 DEF OnSuccess, OnFailure, AfterCheck, Swapping
      <4>4. CASE pc[r] \in Replacing \cup PuttingBack
        BY <2>2, <4>4 DEF OnSuccess, OnFailure, AfterChange, AfterDropFailed, Replacing, PuttingBack
      <4> QED BY <1>1, <4>1, <4>2, <4>3, <4>4, StageSets
    <3>2. ShutOf(r)
      BY <1>3, <2>1 DEF ShutInv
    <3> QED BY <1>5, <3>1, <3>2 DEF ShutOf
  <2> HIDE DEF stage
  <2>7. CASE stage \in Reports
    BY <1>1, <1>2, <2>3, <2>4, <2>5, <2>6, <2>7, <2>9, SettlesTruly
  <2>8. CASE stage \notin Reports
    BY <1>2, <2>8 DEF Told, Reports
  <2> QED BY <2>7, <2>8
<1>4. ASSUME NEW q \in Runs \ {r}, Told(q) PROVE Told(q)'
  BY <1>1, <1>2, <1>4, <1>5 DEF Told
<1> HIDE DEF stage
<1> QED BY <1>1, <1>3, <1>4 DEF ToldInv

\* A run whose row fails ends with the database as it was.
LEMMA RecordParamTold ==
    ASSUME TypeInv, IInv, PlaceInv, ShutInv, ToldInv, NEW r \in Runs, RecordParam(r)
    PROVE  ToldInv'
<1>1. /\ pc[r] \in Params /\ Enter(r, AfterParam(r)) /\ Settle(r, AfterParam(r))
      /\ UNCHANGED <<before, safety, overlapped, broken, ignored>>
  BY DEF RecordParam
<1>2. left \in [Runs -> Contents]
  BY DEF TypeInv, TypeOK
<1>3. /\ pc'[r] = AfterParam(r) /\ \A q \in Runs \ {r} : pc'[q] = pc[q] /\ left'[q] = left[q]
      /\ AfterParam(r) \in Reports => left'[r] = db["live"]
  BY <1>1, <1>2, EnterIs DEF Settle
<1>4. AfterParam(r) \in Reports => AfterParam(r) = "unchanged"
  BY DEF AfterParam, First, Reports
<1>5. ASSUME ~overlapped, ~broken PROVE Told(r)'
  <2>1. OnRecord(r) /\ Place(r)
    BY <1>1, <1>5, OnRecordStages DEF PlaceInv
  <2>2. db["live"] = before[r]
    BY <1>1, <2>1 DEF Place, PlaceBeside, Untouched
  <2>3. CASE AfterParam(r) \in Reports
    BY <1>1, <1>3, <1>4, <2>2, <2>3, SettlesTruly
  <2>4. CASE AfterParam(r) \notin Reports
    BY <1>3, <2>4 DEF Told, Reports
  <2> QED BY <2>3, <2>4
<1>6. ASSUME NEW q \in Runs \ {r}, Told(q) PROVE Told(q)'
  BY <1>1, <1>3, <1>6 DEF Told
<1> QED BY <1>1, <1>5, <1>6 DEF ToldInv

\* The other steps leave alone what a settled run has told.
LEMMA OthersTold ==
    ASSUME ToldInv, overlapped => overlapped', broken => broken',
           \A r \in Runs : pc'[r] \in {"unchanged", "putBack", "success", "backFailed", "byHand"} =>
               /\ pc'[r] = pc[r] /\ left'[r] = left[r] /\ before'[r] = before[r]
               /\ safety'[r] = safety[r] /\ ignored'[r] = ignored[r]
    PROVE  ToldInv'
<1>1. ASSUME NEW r \in Runs, Told(r) PROVE Told(r)'
  BY <1>1 DEF Told
<1> QED BY <1>1 DEF ToldInv

\* Every step keeps the reports true.
LEMMA NextTold ==
    TypeInv /\ IInv /\ EngineInv /\ PlaceInv /\ ShutInv /\ ToldInv /\ [Next]_vars => ToldInv'
<1> SUFFICES ASSUME TypeInv, IInv, EngineInv, PlaceInv, ShutInv, ToldInv, [Next]_vars PROVE ToldInv'
  OBVIOUS
<1>0. DOMAIN pc = Runs /\ DOMAIN safety = Runs /\ DOMAIN before = Runs /\ DOMAIN left = Runs
  BY DEF TypeInv, TypeOK
<1>1. CASE UNCHANGED vars
  BY <1>1, OthersTold DEF vars, planVars, historyVars, commandVars
<1>2. ASSUME NEW r \in Runs, Proceed(r) \/ RecordParam(r) PROVE ToldInv'
  BY <1>2, ProceedTold, RecordParamTold
<1>3. ASSUME NEW r \in Runs,
             \/ StatementRefused(r) \/ DumpCut(r) \/ ImportCut(r)
             \/ Lose(r) \/ Abandon(r) \/ StrayStatement(r) \/ Stop(r)
      PROVE  ToldInv'
  <2>1. UNCHANGED <<pc, left, before, safety, overlapped, ignored>> /\ (broken => broken')
    BY <1>3 DEF StatementRefused, DumpCut, ImportCut, Lose, Abandon, StrayStatement, Stop,
                planVars, historyVars, commandVars
  <2> QED BY <2>1, OthersTold
<1>4. ASSUME NEW r \in Runs, StatementDone(r) PROVE ToldInv'
  <2>1. /\ pc[r] \in Commands /\ safety' = [safety EXCEPT ![r] = IF pc[r] = "store" THEN spool[r] ELSE safety[r]]
        /\ UNCHANGED <<pc, left, before, overlapped, broken, ignored>>
    BY <1>4 DEF StatementDone, AtWork, Waiting, historyVars
  <2>2. {"unchanged", "putBack", "success", "backFailed", "byHand"} \cap Commands = {}
    BY DEF Commands, Stoppable, Recovery
  <2> QED BY <1>0, <2>1, <2>2, OthersTold
<1>5. ASSUME NEW r \in Runs, Check(r) \/ Begin(r) PROVE ToldInv'
  <2>1. /\ pc'[r] \in {"checked", "meta"} /\ \A q \in Runs \ {r} : pc'[q] = pc[q] /\ before'[q] = before[q]
        /\ UNCHANGED <<left, safety, broken, ignored>> /\ (overlapped => overlapped')
    <3>1. CASE Check(r)
      BY <1>0, <3>1 DEF Check, planVars, historyVars
    <3>2. CASE Begin(r)
      <4>1. Enter(r, "meta") /\ before' = [before EXCEPT ![r] = db["live"]]
        BY <3>2 DEF Begin
      <4>2. pc'[r] = "meta" /\ \A q \in Runs \ {r} : pc'[q] = pc[q] /\ before'[q] = before[q]
        BY <1>0, <4>1, EnterIs
      <4> QED BY <3>2, <4>2 DEF Begin
    <3> QED BY <1>5, <3>1, <3>2
  <2> QED BY <2>1, OthersTold
<1>6. CASE Crash \/ Reconcile
  <2>1. /\ \A r \in Runs : pc'[r] = pc[r] \/ pc'[r] \in {"dead", "idle", "interrupted"}
        /\ \A r \in Runs : left'[r] = left[r] \/ pc'[r] = "interrupted"
        /\ UNCHANGED <<before, safety, overlapped, broken, ignored>>
    BY <1>6 DEF Crash, Reconcile, planVars, historyVars
  <2> QED BY <2>1, OthersTold
<1> QED BY <1>1, <1>2, <1>3, <1>4, <1>5, <1>6 DEF Next

-----------------------------------------------------------------------------
(* The theorems.                                                           *)

\* All of it, in every state.
LEMMA Working ==
    Spec => [](IInv /\ TypeInv /\ EngineInv /\ PlaceInv /\ TrailInv /\ DoorInv /\ ShutInv /\ ToldInv)
<1>1. Init => IInv /\ TypeInv /\ EngineInv /\ PlaceInv /\ TrailInv /\ DoorInv /\ ShutInv /\ ToldInv
  <2>1. Init => ToldInv
    BY DEF Init, ToldInv, Told
  <2> QED BY <2>1, InitInv, InitTypes, InitEngine, InitPlace, InitTrail, InitDoor, InitShut
<1>2. IInv /\ TypeInv /\ EngineInv /\ PlaceInv /\ TrailInv /\ DoorInv /\ ShutInv /\ ToldInv /\ [Next]_vars
          => (IInv /\ TypeInv /\ EngineInv /\ PlaceInv /\ TrailInv /\ DoorInv /\ ShutInv /\ ToldInv)'
  BY NextInv, NextTypes, NextEngine, NextPlace, NextTrail, NextDoor, NextShut, NextTold
<1> QED BY <1>1, <1>2, PTL DEF Spec

\* The state of the runs and of the server stays well typed; a cut dump is never
\* what a script would import.
THEOREM TypeCorrect == Spec => []TypeOK
<1>1. TypeInv => TypeOK
  BY DEF TypeInv
<1> QED BY <1>1, Working, PTL

\* PostgreSQL, a server to itself and connections that hold: whatever is refused,
\* cut short, stopped or outlives the program, a whole database is there until
\* the run is settled (coordinator_db.go, import aside and swap).
THEOREM AlwaysAWholeCopy == Spec => []WholeCopy
<1>1. TypeInv /\ EngineInv /\ IInv /\ PlaceInv => WholeCopy
  <2> SUFFICES ASSUME TypeInv, EngineInv, IInv, PlaceInv, ~overlapped, ~broken, engine = "postgres",
                      NEW r \in Runs, existed[r], ~Settled(r)
               PROVE  WholeAt(r)
    BY DEF WholeCopy
  <2>1. OnRecord(r)
    BY DEF TypeInv, TypeOK, EngineInv, Settled, OnRecord, Active
  <2>2. Place(r) /\ Kept(r)
    BY <2>1 DEF PlaceInv, IInv, KeptInv
  <2>3. CASE pc[r] \in Reading \cup Params \cup Beside
    BY <2>2, <2>3 DEF Kept, Place, PlaceBeside, Untouched, WholeAt
  <2>4. CASE pc[r] \in Swapping \cup {"dead"}
    BY <2>2, <2>4 DEF Place, PlaceSwap, Ready, InPlace, WholeAt
  <2>5. pc[r] \notin Replacing \cup PuttingBack
    BY DEF EngineInv
  <2> QED BY <2>1, <2>3, <2>4, <2>5, OnRecordStages, StageSets
<1> QED BY <1>1, Working, PTL

\* On both engines, while no connection breaks: a run that says that the database
\* is unchanged, put back or restored has left it so; one that could not put it
\* back has what it held in the safety snapshot; one that asks for the copy to be
\* renamed by hand has it under that name, and live is dropped unless the look at
\* it failed; and connections to live stay refused only after a death in the swap,
\* or a look or a reopening that failed (the messages of coordinator_db.go).
THEOREM ReportsAreTrue == Spec => []Truthful
BY Working, ToldIs, PTL

\* Without faults the row of a run names its safety snapshot before the database
\* changes, and its temporary database as long as there is one (setParam before
\* createTmp and before replace).
THEOREM TrailIsOnRecord == Spec => []TrailOnRecord
<1>1. TypeInv /\ TrailInv => TrailOnRecord
  <2> SUFFICES ASSUME TrailInv, ~overlapped, faults = 0, NEW r \in Runs, OnRecord(r)
               PROVE  /\ HasSafety(r) /\ db["live"] # before[r] => "recordSafety" \in recorded[r]
                      /\ db[r] # "absent" => "recordTmp" \in recorded[r]
    BY DEF TrailOnRecord, OnRecord
  <2> QED BY DEF TrailInv, NoTemporary, Untouched
<1> QED BY <1>1, Working, PTL
=============================================================================
