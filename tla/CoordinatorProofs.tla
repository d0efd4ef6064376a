------------------------- MODULE CoordinatorProofs -------------------------
(***************************************************************************)
(* Proofs about Coordinator, for any number of processes, repositories,    *)
(* runs, restic children, database errors and crashes.                     *)
(***************************************************************************)
EXTENDS Coordinator, TLAPS

USE DEF procVars, serverVars, storeVars, identVars, driveVars, childVars

-----------------------------------------------------------------------------
(* Types.                                                                  *)

\* The empty record and every single-field change of a record are records.
LEMMA RecordEdits ==
  /\ NoRecord \in Record
  /\ \A x \in Record :
       /\ \A s \in ActiveStatus \cup TerminalStatus \cup {"none"} :
            [x EXCEPT !.status = s] \in Record
       /\ \A n \in 0 .. MaxSteps : [x EXCEPT !.pid = n] \in Record
       /\ \A f \in Runs \cup {NoRun} : [x EXCEPT !.followUp = f] \in Record
BY BoundsAssumption DEF NoRecord, Record

\* The initial state is well typed.
LEMMA InitType == Init => TypeOK
BY RecordEdits, ServerAssumption, BoundsAssumption
   DEF Init, TypeOK, PCs, TerminalStatus, NoStart

\* Every step of a coordinator leaves a well typed state.
LEMMA NextType == TypeOK /\ [Next]_vars => TypeOK'
<1> SUFFICES ASSUME TypeOK, [Next]_vars PROVE TypeOK'
  OBVIOUS
<1> USE DEF TypeOK
<1>0. DbFault \/ UNCHANGED dbFaults => dbFaults' \in Nat
  BY DEF DbFault
<1>write. ASSUME NEW r \in Runs, NEW rec \in Record, Persist(r, rec)
      PROVE row' \in [Runs -> Record] /\ live' \in [Runs -> Record] /\ dbFaults' \in Nat
  BY <1>write, <1>0 DEF Persist
<1>1. ASSUME NEW r \in Runs, SetRunning(r) PROVE TypeOK'
  <2>1. [live[r] EXCEPT !.status = "running"] \in Record
    BY RecordEdits DEF ActiveStatus
  <2>2. row' \in [Runs -> Record] /\ live' \in [Runs -> Record] /\ dbFaults' \in Nat
    BY <1>1, <1>write, <2>1 DEF SetRunning
  <2> QED
    BY <1>1, <2>2 DEF SetRunning, PCs
<1>2. ASSUME NEW r \in Runs, Spawn(r) PROVE TypeOK'
  BY <1>2, BoundsAssumption DEF Spawn
<1>3. ASSUME NEW r \in Runs, RecordPid(r) PROVE TypeOK'
  <2>1. [live[r] EXCEPT !.pid = spawned[r]] \in Record
    BY RecordEdits
  <2>2. row' \in [Runs -> Record] /\ live' \in [Runs -> Record] /\ dbFaults' \in Nat
    BY <1>3, <1>write, <2>1 DEF RecordPid
  <2> QED
    BY <1>3, <2>2 DEF RecordPid
<1>4. ASSUME NEW r \in Runs, StepDone(r) PROVE TypeOK'
  BY <1>4 DEF StepDone
<1>5. ASSUME NEW r \in Runs, ExecReturn(r) PROVE TypeOK'
  BY <1>5 DEF ExecReturn, Classify, Outcomes, TerminalStatus, PCs
<1>6. ASSUME NEW r \in Runs, NoFollowUp(r) PROVE TypeOK'
  BY <1>6 DEF NoFollowUp, PCs
<1>7. ASSUME NEW p \in Procs, NEW q \in Repos, NEW b \in Runs \cup {NoRun}, Reserve(p, q, b)
      PROVE TypeOK'
  BY <1>7, <1>0 DEF Reserve, DurablyFree, PendingStart
<1>8. ASSUME NEW r \in Runs, NameFollowUp(r) PROVE TypeOK'
  <2>1. [live[r] EXCEPT !.followUp = next[r]] \in Record
    BY RecordEdits
  <2>2. live' = [live EXCEPT ![r] = [live[r] EXCEPT !.followUp = next[r]]]
    BY <1>8 DEF NameFollowUp
  <2> QED
    BY <1>8, <2>1, <2>2 DEF NameFollowUp, PCs
<1>9. ASSUME NEW r \in Runs, Finalize(r) PROVE TypeOK'
  <2>1. FinalRecord(r) \in Record
    BY RecordEdits DEF FinalRecord
  <2>2. row' \in [Runs -> Record] /\ live' \in [Runs -> Record] /\ dbFaults' \in Nat
    BY <1>9, <1>write, <2>1 DEF Finalize
  <2> QED
    BY <1>9, <2>2 DEF Finalize, PCs
<1>9a. ASSUME NEW r \in Runs, DropLive(r) PROVE TypeOK'
  BY <1>9a, RecordEdits DEF DropLive, PCs
<1>10. ASSUME NEW r \in Runs, Finish(r) PROVE TypeOK'
  <2>1. active' \in [Procs -> [Repos -> Runs \cup {NoRun}]]
    <3> DEFINE slots == [active[owner[r]] EXCEPT ![repoOf[r]] = ReleaseSlot(owner[r], r)]
    <3>1. slots \in [Repos -> Runs \cup {NoRun}]
      <4>1. active[owner[r]] \in [Repos -> Runs \cup {NoRun}]
        OBVIOUS
      <4>2. repoOf[r] \in Repos => ReleaseSlot(owner[r], r) \in Runs \cup {NoRun}
        BY <4>1 DEF ReleaseSlot
      <4> QED
        BY <4>1, <4>2
    <3>2. active' = [active EXCEPT ![owner[r]] = slots]
      BY <1>10 DEF Finish
    <3> HIDE DEF slots
    <3> QED
      BY <3>1, <3>2
  <2> QED
    BY <1>10, <2>1 DEF Finish, PCs
<1>11. ASSUME NEW r \in Runs, OrphanExit(r) PROVE TypeOK'
  BY <1>11 DEF OrphanExit
<1>12. ASSUME NEW r \in Runs, ReconcileRun(r) PROVE TypeOK'
  <2>1. [row[r] EXCEPT !.status = "interrupted"] \in Record
    BY RecordEdits DEF TerminalStatus
  <2>2. row' \in [Runs -> Record] /\ dbFaults' \in Nat
    BY <1>12, <1>0, <2>1 DEF ReconcileRun
  <2>3. alive' \in [Runs -> BOOLEAN] /\ signalled' \in [Runs -> BOOLEAN]
    BY <1>12 DEF ReconcileRun, ReapChild
  <2> QED
    BY <1>12, <2>2, <2>3 DEF ReconcileRun
<1>13. ASSUME NEW r \in Runs, ShutdownStop(r) PROVE TypeOK'
  BY <1>13 DEF ShutdownStop, ShutdownStops, HoldsSlot
<1>14. ASSUME NEW p \in Procs, BeginRun(p) PROVE TypeOK'
  <2> DEFINE rec == [NoRecord EXCEPT !.status = "starting"]
  <2>1. rec \in Record
    BY RecordEdits DEF ActiveStatus
  <2>2. pending[p].repo \in Repos
    BY <1>14 DEF BeginRun, MutexFree, PendingStart
  <2>3. PICK r \in Runs :
          /\ row' = [row EXCEPT ![r] = rec]
          /\ live' = [live EXCEPT ![r] = rec]
          /\ owner' = [owner EXCEPT ![r] = p]
          /\ repoOf' = [repoOf EXCEPT ![r] = pending[p].repo]
          /\ active' = [active EXCEPT ![p][pending[p].repo] = r]
          /\ next' = [x \in Runs |-> IF x = pending[p].prev THEN r ELSE next[x]]
    BY <1>14 DEF BeginRun, Unused
  <2>4. pc' \in [Runs -> PCs]
    BY <1>14 DEF BeginRun, PCs
  <2> HIDE DEF rec
  <2>5. row' \in [Runs -> Record] /\ live' \in [Runs -> Record]
    BY <2>1, <2>3
  <2> QED
    BY <1>14, <2>2, <2>3, <2>4, <2>5 DEF BeginRun
<1>15. ASSUME NEW p \in Procs, BeginFails(p) PROVE TypeOK'
  <2>1. [NoRecord EXCEPT !.status = "starting"] \in Record
    BY RecordEdits DEF ActiveStatus
  <2>2. pending[p] \in PendingStart
    BY <1>15 DEF BeginFails, MutexFree
  <2>3. row' \in [Runs -> Record]
    BY <1>15, <2>1 DEF BeginFails
  <2>4. owner' \in [Runs -> Procs] /\ repoOf' \in [Runs -> Repos \cup {NoRepo}]
    BY <1>15, <2>2 DEF BeginFails, PendingStart
  <2>5. pc' \in [Runs -> PCs]
    BY <1>15 DEF BeginFails, PCs
  <2> QED
    BY <1>15, <1>0, <2>3, <2>4, <2>5 DEF BeginFails
<1>16. ASSUME NEW p \in Procs, Vanish(p), crashes' = crashes + 1 PROVE TypeOK'
  BY <1>16, RecordEdits DEF Vanish, PCs
<1>17. ASSUME NEW p \in Procs, CliLaunch(p) PROVE TypeOK'
  BY <1>17 DEF CliLaunch
<1>18. ASSUME NEW p \in Procs, NEW r \in Runs, StopRequest(p, r) PROVE TypeOK'
  BY <1>18 DEF StopRequest, StopOwn, SignalOther
<1>19. ASSUME ShutdownBegin PROVE TypeOK'
  BY <1>19 DEF ShutdownBegin
<1>20. ASSUME ShutdownReturn PROVE TypeOK'
  BY <1>20 DEF ShutdownReturn
<1>21. ASSUME ServerBoot PROVE TypeOK'
  <2>1. todo' \subseteq Runs /\ dbFaults' \in Nat
    BY <1>21, <1>0 DEF ServerBoot, LeftActive
  <2> QED
    BY <1>21, <2>1 DEF ServerBoot
<1>22. ASSUME ServerServe PROVE TypeOK'
  BY <1>22 DEF ServerServe
<1>23. ASSUME UNCHANGED vars PROVE TypeOK'
  BY <1>23 DEF vars
<1> QED
  BY <1>1, <1>2, <1>3, <1>4, <1>5, <1>6, <1>7, <1>8, <1>9, <1>9a, <1>10, <1>11, <1>12, <1>13,
     <1>14, <1>15, <1>16, <1>17, <1>18, <1>19, <1>20, <1>21, <1>22, <1>23, ServerAssumption
     DEF Next, StartRun, StartFollowUp, Crash, ServerExit

\* Type correctness of the coordinator.
THEOREM TypeCorrect == Spec => []TypeOK
BY InitType, NextType, PTL DEF Spec

-----------------------------------------------------------------------------
(* Who holds the slot.                                                     *)

\* A run with work ahead of it holds its slot; its live copy says it is active,
\* which is what keeps HolderYields from letting another run take that slot;
\* and a start between its checks and its insert is for a repository on which
\* no run of the same process has work ahead.
ClaimSafe(r) ==
    /\ repoOf[r] \in Repos
    /\ active[owner[r]][repoOf[r]] = r
    /\ live[r].status \in ActiveStatus
    /\ pending[owner[r]].repo # repoOf[r]

SlotInv == \A r \in Runs : Claims(r) => ClaimSafe(r)

\* No run has work ahead initially.
LEMMA InitSlot == Init => SlotInv
BY DEF Init, SlotInv, Claims

\* A step that leaves the slots, the live copies, the starts under way and the
\* identities alone, and gives no run work, keeps SlotInv.
LEMMA SlotFrame ==
  ASSUME SlotInv, UNCHANGED <<pending, active, live, owner, repoOf>>,
         \A r \in Runs : Claims(r)' => Claims(r)
  PROVE  SlotInv'
BY DEF SlotInv, ClaimSafe

\* Every step keeps the slots with the runs that have work ahead.
LEMMA NextSlot == TypeOK /\ SlotInv /\ [Next]_vars => SlotInv'
<1> SUFFICES ASSUME TypeOK, SlotInv, [Next]_vars PROVE SlotInv'
  OBVIOUS
<1>1. ASSUME NEW r \in Runs, SetRunning(r) PROVE SlotInv'
  BY <1>1 DEF SetRunning, Persist, SlotInv, ClaimSafe, Claims, TypeOK, Record, ActiveStatus
<1>2. ASSUME NEW r \in Runs, Spawn(r) PROVE SlotInv'
  BY <1>2, SlotFrame DEF Spawn, Claims
<1>3. ASSUME NEW r \in Runs, RecordPid(r) PROVE SlotInv'
  BY <1>3 DEF RecordPid, Persist, SlotInv, ClaimSafe, Claims, TypeOK, Record
<1>4. ASSUME NEW r \in Runs, StepDone(r) PROVE SlotInv'
  BY <1>4, SlotFrame DEF StepDone, Claims
<1>5. ASSUME NEW r \in Runs, ExecReturn(r) PROVE SlotInv'
  BY <1>5, SlotFrame DEF ExecReturn, Claims, TypeOK
<1>6. ASSUME NEW r \in Runs, NoFollowUp(r) PROVE SlotInv'
  BY <1>6, SlotFrame DEF NoFollowUp, Claims, TypeOK
<1>7. ASSUME NEW p \in Procs, NEW q \in Repos, NEW b \in Runs \cup {NoRun},
             b = NoRun \/ ~Claims(b), Reserve(p, q, b)
      PROVE SlotInv'
  \* Whoever holds q is no run with work ahead.
  <2>1. ASSUME NEW x \in Runs, Claims(x), owner[x] = p PROVE repoOf[x] # q
    <3> SUFFICES ASSUME repoOf[x] = q PROVE FALSE
      OBVIOUS
    <3>1. active[p][q] = x /\ live[x].status \in ActiveStatus
      BY <2>1 DEF SlotInv, ClaimSafe
    <3>2. x \notin {NoRun, b}
      BY <1>7, <2>1, NoneAssumption
    <3>3. Seen(p, x).status \in TerminalStatus
      BY <1>7, <3>1, <3>2 DEF Reserve, HolderYields
    <3>4. Seen(p, x) = live[x]
      BY <2>1, <3>1 DEF Seen, ActiveStatus
    <3> QED
      BY <3>1, <3>3, <3>4 DEF ActiveStatus, TerminalStatus
  <2>2. ASSUME NEW x \in Runs, Claims(x) PROVE pending'[owner[x]].repo # repoOf[x]
    BY <1>7, <2>1, <2>2 DEF Reserve, SlotInv, ClaimSafe, TypeOK
  <2> QED
    BY <1>7, <2>2 DEF Reserve, SlotInv, ClaimSafe, Claims
<1>8. ASSUME NEW r \in Runs, NameFollowUp(r) PROVE SlotInv'
  BY <1>8 DEF NameFollowUp, SlotInv, ClaimSafe, Claims, TypeOK
<1>9. ASSUME NEW r \in Runs, Finalize(r) PROVE SlotInv'
  BY <1>9 DEF Finalize, Persist, SlotInv, ClaimSafe, Claims, TypeOK
<1>9a. ASSUME NEW r \in Runs, DropLive(r) PROVE SlotInv'
  BY <1>9a DEF DropLive, SlotInv, ClaimSafe, Claims, TypeOK
<1>10. ASSUME NEW r \in Runs, Finish(r) PROVE SlotInv'
  <2> SUFFICES ASSUME NEW x \in Runs, Claims(x)' PROVE ClaimSafe(x)'
    BY DEF SlotInv
  <2>1. x # r /\ Claims(x)
    BY <1>10 DEF Finish, Claims, TypeOK
  <2>2. ClaimSafe(x)
    BY <2>1 DEF SlotInv
  <2>3. active'[owner[x]][repoOf[x]] = x
    BY <1>10, <2>1, <2>2 DEF Finish, ReleaseSlot, ClaimSafe, TypeOK
  <2> QED
    BY <1>10, <2>2, <2>3 DEF Finish, ClaimSafe
<1>11. ASSUME NEW r \in Runs, OrphanExit(r) PROVE SlotInv'
  BY <1>11, SlotFrame DEF OrphanExit, Claims
<1>12. ASSUME NEW r \in Runs, ReconcileRun(r) PROVE SlotInv'
  BY <1>12, SlotFrame DEF ReconcileRun, Claims
<1>13. ASSUME NEW r \in Runs, ShutdownStop(r) PROVE SlotInv'
  BY <1>13, SlotFrame DEF ShutdownStop, Claims
<1>14. ASSUME NEW p \in Procs, BeginRun(p) PROVE SlotInv'
  <2> DEFINE s == pending[p]
  <2>1. s \in PendingStart /\ NoStart.repo \notin Repos
    BY <1>14, NoneAssumption DEF BeginRun, MutexFree, TypeOK, NoStart
  <2>2. s.repo \in Repos
    BY <2>1 DEF PendingStart
  <2>3. PICK r \in Unused :
          /\ live' = [live EXCEPT ![r] = [NoRecord EXCEPT !.status = "starting"]]
          /\ owner' = [owner EXCEPT ![r] = p]
          /\ repoOf' = [repoOf EXCEPT ![r] = s.repo]
          /\ active' = [active EXCEPT ![p][s.repo] = r]
          /\ pc' = [x \in Runs |-> CASE x = r -> "begun"
                                     [] x = s.prev -> "handed"
                                     [] OTHER -> pc[x]]
    BY <1>14 DEF BeginRun
  <2>4. pending' = [pending EXCEPT ![p] = NoStart]
    BY <1>14 DEF BeginRun
  <2> HIDE DEF s
  <2> SUFFICES ASSUME NEW x \in Runs, Claims(x)' PROVE ClaimSafe(x)'
    BY DEF SlotInv
  <2>5. CASE x = r
    <3>1. live'[x].status = "starting"
      BY <2>3, <2>5 DEF TypeOK, NoRecord
    <3>2. owner'[x] = p /\ repoOf'[x] = s.repo /\ active'[p][s.repo] = x
      BY <2>2, <2>3, <2>5 DEF TypeOK
    <3>3. pending'[p].repo # s.repo
      BY <2>1, <2>2, <2>4 DEF TypeOK
    <3> QED
      BY <2>2, <3>1, <3>2, <3>3 DEF ClaimSafe, ActiveStatus
  <2>6. CASE x # r
    <3>1. Claims(x)
      BY <2>3, <2>6 DEF Claims
    <3>2. ClaimSafe(x)
      BY <3>1 DEF SlotInv
    <3>3. owner'[x] = owner[x] /\ repoOf'[x] = repoOf[x] /\ live'[x] = live[x]
      BY <2>3, <2>6 DEF TypeOK
    <3>4. owner[x] = p => repoOf[x] # s.repo
      BY <3>2 DEF ClaimSafe, s
    <3>5. active'[owner[x]][repoOf[x]] = x
      BY <2>2, <2>3, <3>2, <3>4 DEF ClaimSafe, TypeOK
    <3>6. pending'[owner[x]].repo # repoOf[x]
      BY <2>1, <2>4, <3>2 DEF ClaimSafe, TypeOK
    <3> QED
      BY <3>2, <3>3, <3>5, <3>6 DEF ClaimSafe
  <2> QED
    BY <2>5, <2>6
<1>15. ASSUME NEW p \in Procs, BeginFails(p) PROVE SlotInv'
  <2> SUFFICES ASSUME NEW x \in Runs, Claims(x)' PROVE ClaimSafe(x)'
    BY DEF SlotInv
  <2>1. Claims(x) /\ owner'[x] = owner[x] /\ repoOf'[x] = repoOf[x]
    BY <1>15 DEF BeginFails, Claims
  <2>2. ClaimSafe(x)
    BY <2>1 DEF SlotInv
  <2>3. pending'[owner[x]].repo # repoOf[x]
    BY <1>15, <2>2, NoneAssumption DEF BeginFails, ClaimSafe, NoStart, TypeOK
  <2> QED
    BY <1>15, <2>1, <2>2, <2>3 DEF BeginFails, ClaimSafe
<1>16. ASSUME NEW p \in Procs, Vanish(p) PROVE SlotInv'
  <2> SUFFICES ASSUME NEW x \in Runs, Claims(x)' PROVE ClaimSafe(x)'
    BY DEF SlotInv
  <2>1. Claims(x) /\ owner[x] # p /\ live'[x] = live[x]
    BY <1>16 DEF Vanish, Claims
  <2>2. ClaimSafe(x)
    BY <2>1 DEF SlotInv
  <2> QED
    BY <1>16, <2>1, <2>2 DEF Vanish, ClaimSafe, TypeOK
<1>17. ASSUME NEW p \in Procs, CliLaunch(p) PROVE SlotInv'
  BY <1>17, SlotFrame DEF CliLaunch, Claims
<1>18. ASSUME NEW p \in Procs, NEW r \in Runs, StopRequest(p, r) PROVE SlotInv'
  BY <1>18, SlotFrame DEF StopRequest, Claims
<1>19. ASSUME ShutdownBegin PROVE SlotInv'
  BY <1>19, SlotFrame DEF ShutdownBegin, Claims
<1>20. ASSUME ShutdownReturn PROVE SlotInv'
  BY <1>20, SlotFrame DEF ShutdownReturn, Claims
<1>21. ASSUME ServerBoot PROVE SlotInv'
  BY <1>21, SlotFrame DEF ServerBoot, Claims
<1>22. ASSUME ServerServe PROVE SlotInv'
  BY <1>22, SlotFrame DEF ServerServe, Claims
<1>23. ASSUME UNCHANGED vars PROVE SlotInv'
  BY <1>23, SlotFrame DEF vars, Claims
<1>24. ASSUME NEW r \in Runs, StartFollowUp(r) PROVE SlotInv'
  BY <1>24, <1>7 DEF StartFollowUp, Claims, TypeOK
<1> QED
  BY <1>1, <1>2, <1>3, <1>4, <1>5, <1>6, <1>7, <1>8, <1>9, <1>9a, <1>10, <1>11, <1>12, <1>13,
     <1>14, <1>15, <1>16, <1>17, <1>18, <1>19, <1>20, <1>21, <1>22, <1>23, <1>24,
     ServerAssumption
     DEF Next, StartRun, Crash, ServerExit

\* SlotInv is an invariant of the coordinator.
LEMMA SlotsKept == Spec => []SlotInv
BY InitType, NextType, InitSlot, NextSlot, PTL DEF Spec

\* A run with work ahead holds its slot.
THEOREM ClaimsHoldSlots == Spec => []ClaimHoldsSlot
<1>1. SlotInv => ClaimHoldsSlot
  BY DEF SlotInv, ClaimSafe, ClaimHoldsSlot
<1> QED
  BY <1>1, SlotsKept, PTL

\* One process never works on a repository for two runs at once.
THEOREM ClaimsAreExclusive == Spec => []ClaimsExclusive
<1>1. ClaimHoldsSlot => ClaimsExclusive
  BY DEF ClaimHoldsSlot, ClaimsExclusive
<1> QED
  BY <1>1, ClaimsHoldSlots, PTL

-----------------------------------------------------------------------------
(* Follow-up runs.                                                         *)

\* A start on behalf of a backup finds that backup waiting for it.
PrevWaits ==
    \A p \in Procs : pending[p].prev # NoRun =>
        pc[pending[p].prev] = "judged" /\ owner[pending[p].prev] = p

Handed == {"handed", "closing", "settled", "final", "done", "dead"}

\* How a run's successor, its live copy and its record agree, at every point of
\* its drive.
FollowSafe(b) ==
    /\ next[b] # NoRun => pc[b] \in Handed /\ row[next[b]].status # "none"
    /\ pc[b] \in {"begun", "exec", "judged"} => live[b].followUp = NoRun
    /\ pc[b] = "closing" => live[b].followUp = next[b]
    /\ pc[b] \in {"judged", "handed", "closing"} => verdict[b] \in TerminalStatus
    /\ row[b].followUp \in {NoRun, next[b]}
    /\ row[b].status = "success" =>
         row[b].followUp = next[b] /\ pc[b] \in {"settled", "final", "done", "dead"}

FollowInv == PrevWaits /\ \A b \in Runs : FollowSafe(b)

\* No run follows another initially.
LEMMA InitFollow == Init => FollowInv
BY NoneAssumption DEF Init, FollowInv, PrevWaits, FollowSafe, NoStart, NoRecord

\* A step that changes nothing FollowInv reads keeps it.
LEMMA FollowFrame ==
  ASSUME FollowInv, UNCHANGED <<pending, row, live, owner, pc, verdict, next>>
  PROVE  FollowInv'
BY DEF FollowInv, PrevWaits, FollowSafe

\* A step of a run that neither waits for its follow-up nor starts to, and that
\* keeps the names of the successors, keeps FollowInv when it does so for that
\* run and its record does not go back to "none".
LEMMA FollowLocal ==
  ASSUME TypeOK, FollowInv, NEW r \in Runs,
         pc[r] = "judged" => \A p \in Procs : pending[p].prev # r,
         UNCHANGED <<pending, owner, next>>,
         \A x \in Runs \ {r} : /\ row'[x] = row[x] /\ live'[x] = live[x]
                              /\ pc'[x] = pc[x] /\ verdict'[x] = verdict[x],
         row[r].status # "none" => row'[r].status # "none",
         FollowSafe(r) => FollowSafe(r)'
  PROVE  FollowInv'
<1>1. PrevWaits'
  <2> SUFFICES ASSUME NEW p \in Procs, pending[p].prev # NoRun
               PROVE  pc'[pending[p].prev] = "judged" /\ owner[pending[p].prev] = p
    BY DEF PrevWaits
  <2>1. pc[pending[p].prev] = "judged" /\ owner[pending[p].prev] = p
    BY DEF FollowInv, PrevWaits
  <2>2. pending[p].prev \in Runs \ {r}
    BY <2>1 DEF TypeOK, PendingStart, NoStart
  <2> QED
    BY <2>1, <2>2
<1>2. ASSUME NEW b \in Runs PROVE FollowSafe(b)'
  <2>1. FollowSafe(b)
    BY DEF FollowInv
  <2>2. next[b] # NoRun /\ row[next[b]].status # "none" => row'[next[b]].status # "none"
    BY DEF TypeOK
  <2>3. CASE b = r
    BY <2>1, <2>3
  <2>4. CASE b # r
    BY <2>1, <2>2, <2>4 DEF FollowSafe
  <2> QED
    BY <2>3, <2>4
<1> QED
  BY <1>1, <1>2 DEF FollowInv

\* What one Persist does to the record and the live copy of its run.
LEMMA PersistRun ==
  ASSUME TypeOK, NEW r \in Runs, NEW rec \in Record, Persist(r, rec)
  PROVE  /\ row'[r] \in {row[r], rec} /\ live'[r] = rec
         /\ \A x \in Runs \ {r} : row'[x] = row[x] /\ live'[x] = live[x]
BY DEF Persist, TypeOK

\* Every step keeps records, live copies and successors in agreement.
LEMMA NextFollow == TypeOK /\ SlotInv /\ FollowInv /\ [Next]_vars => FollowInv'
<1> SUFFICES ASSUME TypeOK, SlotInv, FollowInv, [Next]_vars PROVE FollowInv'
  OBVIOUS
<1>0. ASSUME NEW r \in Runs PROVE FollowSafe(r)
  BY DEF FollowInv
<1>waits. ASSUME NEW r \in Runs, pc[r] = "judged", pending[owner[r]].prev # r, NEW p \in Procs
      PROVE pending[p].prev # r
  BY <1>waits, NoneAssumption DEF FollowInv, PrevWaits
<1>1. ASSUME NEW r \in Runs, SetRunning(r) PROVE FollowInv'
  <2> DEFINE rec == [live[r] EXCEPT !.status = "running"]
  <2>rec. rec \in Record /\ rec.status = "running" /\ rec.followUp = live[r].followUp
    BY RecordEdits DEF TypeOK, Record, ActiveStatus
  <2>write. Persist(r, rec)
    BY <1>1 DEF SetRunning
  <2> HIDE DEF rec
  <2>1. /\ row'[r] \in {row[r], rec} /\ live'[r] = rec
        /\ \A x \in Runs \ {r} : row'[x] = row[x] /\ live'[x] = live[x]
    BY <2>rec, <2>write, PersistRun
  <2>2. row'[r] = row[r] \/ (row'[r].status = "running" /\ row'[r].followUp = NoRun)
    BY <1>1, <1>0, <2>rec, <2>1 DEF SetRunning, FollowSafe
  <2>3. live'[r].followUp = NoRun
    BY <1>1, <1>0, <2>rec, <2>1 DEF SetRunning, FollowSafe
  <2>4. pc[r] = "begun" /\ pc'[r] = "exec" /\ next' = next /\ next[r] = NoRun
    BY <1>1, <1>0 DEF SetRunning, FollowSafe, TypeOK, Handed
  <2>5. FollowSafe(r)'
    BY <1>0, <2>2, <2>3, <2>4 DEF FollowSafe
  <2> QED
    BY <1>1, <2>1, <2>2, <2>5, FollowLocal DEF SetRunning, TypeOK
<1>2. ASSUME NEW r \in Runs, Spawn(r) PROVE FollowInv'
  BY <1>2, FollowFrame DEF Spawn
<1>3. ASSUME NEW r \in Runs, RecordPid(r) PROVE FollowInv'
  <2>1. live[r].status \in ActiveStatus
    BY <1>3 DEF RecordPid, SlotInv, ClaimSafe, Claims
  <2> DEFINE rec == [live[r] EXCEPT !.pid = spawned[r]]
  <2>rec. rec \in Record /\ rec.status = live[r].status /\ rec.followUp = live[r].followUp
    BY RecordEdits DEF TypeOK, Record
  <2>write. Persist(r, rec)
    BY <1>3 DEF RecordPid
  <2> HIDE DEF rec
  <2>2. /\ row'[r] \in {row[r], rec} /\ live'[r] = rec
        /\ \A x \in Runs \ {r} : row'[x] = row[x] /\ live'[x] = live[x]
    BY <2>rec, <2>write, PersistRun
  <2>3. row'[r] = row[r] \/ (row'[r].status \in ActiveStatus /\ row'[r].followUp = NoRun)
    BY <1>3, <1>0, <2>rec, <2>1, <2>2 DEF RecordPid, FollowSafe
  <2>4. live'[r].followUp = NoRun
    BY <1>3, <1>0, <2>rec, <2>2 DEF RecordPid, FollowSafe
  <2>5. pc[r] = "exec" /\ pc' = pc /\ next' = next /\ next[r] = NoRun
    BY <1>3, <1>0 DEF RecordPid, FollowSafe, TypeOK, Handed
  <2>6. FollowSafe(r)'
    BY <1>0, <2>3, <2>4, <2>5 DEF FollowSafe, ActiveStatus
  <2> QED
    BY <1>3, <2>2, <2>3, <2>6, FollowLocal DEF RecordPid, TypeOK, ActiveStatus
<1>4. ASSUME NEW r \in Runs, StepDone(r) PROVE FollowInv'
  BY <1>4, FollowFrame DEF StepDone
<1>5. ASSUME NEW r \in Runs, ExecReturn(r) PROVE FollowInv'
  <2>1. verdict'[r] \in TerminalStatus
    BY <1>5 DEF ExecReturn, Classify, Outcomes, TerminalStatus, TypeOK
  <2>2. FollowSafe(r)'
    BY <1>5, <1>0, <2>1 DEF ExecReturn, FollowSafe, TypeOK, Handed
  <2> QED
    BY <1>5, <2>2, FollowLocal DEF ExecReturn, TypeOK
<1>6. ASSUME NEW r \in Runs, NoFollowUp(r) PROVE FollowInv'
  <2>1. FollowSafe(r)'
    BY <1>6, <1>0 DEF NoFollowUp, FollowSafe, TypeOK, Handed
  <2> QED
    BY <1>6, <1>waits, <2>1, FollowLocal DEF NoFollowUp, TypeOK
<1>7. ASSUME NEW p \in Procs, NEW q \in Repos, NEW b \in Runs \cup {NoRun},
             b # NoRun => pc[b] = "judged" /\ owner[b] = p, Reserve(p, q, b)
      PROVE FollowInv'
  <2>1. PrevWaits'
    BY <1>7 DEF Reserve, FollowInv, PrevWaits, TypeOK
  <2>2. ASSUME NEW x \in Runs PROVE FollowSafe(x)'
    BY <1>7, <1>0 DEF Reserve, FollowSafe
  <2> QED
    BY <2>1, <2>2 DEF FollowInv
<1>8. ASSUME NEW r \in Runs, NameFollowUp(r) PROVE FollowInv'
  <2>1. FollowSafe(r)'
    BY <1>8, <1>0 DEF NameFollowUp, FollowSafe, TypeOK, Record, Handed
  <2> QED
    BY <1>8, <2>1, FollowLocal DEF NameFollowUp, TypeOK
<1>9. ASSUME NEW r \in Runs, Finalize(r) PROVE FollowInv'
  <2> DEFINE rec == FinalRecord(r)
  <2>1. verdict[r] \in TerminalStatus /\ live[r].followUp = next[r]
    BY <1>9, <1>0 DEF Finalize, FollowSafe
  <2>2. rec \in Record /\ rec.status = verdict[r] /\ rec.followUp = next[r]
    <3>1. live[r] \in Record
      BY DEF TypeOK
    <3>2. rec \in Record
      BY <2>1, <3>1, RecordEdits DEF FinalRecord
    <3> QED
      BY <2>1, <3>1, <3>2 DEF FinalRecord, Record
  <2> HIDE DEF rec
  <2>3. /\ row'[r] \in {row[r], rec} /\ live'[r] = rec
        /\ \A x \in Runs \ {r} : row'[x] = row[x] /\ live'[x] = live[x]
    BY <1>9, <2>2, PersistRun DEF Finalize, rec
  <2>4. row[r].status # "none" => row'[r].status # "none"
    BY <2>1, <2>2, <2>3 DEF TerminalStatus
  <2>5. /\ next[r] # NoRun => row'[next[r]].status # "none"
        /\ pc'[r] = "settled" /\ next' = next
    BY <1>9, <1>0, <2>3, <2>4 DEF Finalize, FollowSafe, TypeOK
  <2>6. FollowSafe(r)'
    BY <1>0, <2>2, <2>3, <2>5 DEF FollowSafe, Handed
  <2> QED
    BY <1>9, <2>3, <2>4, <2>6, FollowLocal DEF Finalize, TypeOK
<1>9a. ASSUME NEW r \in Runs, DropLive(r) PROVE FollowInv'
  <2>1. FollowSafe(r)'
    BY <1>9a, <1>0 DEF DropLive, FollowSafe, TypeOK, Handed
  <2> QED
    BY <1>9a, <2>1, FollowLocal DEF DropLive, TypeOK
<1>10. ASSUME NEW r \in Runs, Finish(r) PROVE FollowInv'
  <2>1. FollowSafe(r)'
    BY <1>10, <1>0 DEF Finish, FollowSafe, TypeOK, Handed
  <2> QED
    BY <1>10, <2>1, FollowLocal DEF Finish, TypeOK
<1>11. ASSUME NEW r \in Runs, OrphanExit(r) PROVE FollowInv'
  BY <1>11, FollowFrame DEF OrphanExit
<1>12. ASSUME NEW r \in Runs, ReconcileRun(r) PROVE FollowInv'
  <2>1. row'[r] \in {row[r], [row[r] EXCEPT !.status = "interrupted"]}
    BY <1>12 DEF ReconcileRun, TypeOK
  <2>2. /\ row'[r].followUp = row[r].followUp
        /\ row'[r].status = row[r].status \/ row'[r].status = "interrupted"
    BY <2>1 DEF TypeOK, Record
  <2>3. next[r] # NoRun /\ row[next[r]].status # "none" => row'[next[r]].status # "none"
    BY <1>12, <2>2 DEF ReconcileRun, TypeOK
  <2>4. FollowSafe(r)'
    BY <1>12, <1>0, <2>2, <2>3 DEF ReconcileRun, FollowSafe
  <2>5. PrevWaits'
    BY <1>12 DEF ReconcileRun, FollowInv, PrevWaits
  <2>6. ASSUME NEW x \in Runs, x # r PROVE FollowSafe(x)'
    <3>1. next[x] # NoRun /\ row[next[x]].status # "none" => row'[next[x]].status # "none"
      BY <1>12, <2>2 DEF ReconcileRun, TypeOK
    <3> QED
      BY <1>12, <1>0, <2>6, <3>1 DEF ReconcileRun, FollowSafe, TypeOK
  <2> QED
    BY <2>4, <2>5, <2>6 DEF FollowInv
<1>13. ASSUME NEW r \in Runs, ShutdownStop(r) PROVE FollowInv'
  BY <1>13, FollowFrame DEF ShutdownStop
<1>14. ASSUME NEW p \in Procs, BeginRun(p) PROVE FollowInv'
  <2> DEFINE s == pending[p]
  <2> DEFINE rec == [NoRecord EXCEPT !.status = "starting"]
  <2>1. PICK r \in Unused :
          /\ row' = [row EXCEPT ![r] = rec]
          /\ live' = [live EXCEPT ![r] = rec]
          /\ owner' = [owner EXCEPT ![r] = p]
          /\ pc' = [x \in Runs |-> CASE x = r -> "begun"
                                     [] x = s.prev -> "handed"
                                     [] OTHER -> pc[x]]
          /\ next' = [x \in Runs |-> IF x = s.prev THEN r ELSE next[x]]
    BY <1>14 DEF BeginRun
  <2>2. pending' = [pending EXCEPT ![p] = NoStart] /\ verdict' = verdict
    BY <1>14 DEF BeginRun
  <2>3. s.prev # NoRun => s.prev \in Runs /\ pc[s.prev] = "judged" /\ s.prev # r
    BY <2>1 DEF FollowInv, PrevWaits, TypeOK, PendingStart, NoStart, Unused
  <2>4. rec.status = "starting" /\ rec.followUp = NoRun
    BY DEF NoRecord
  <2>5. \A x \in Runs : row[x].status # "none" => row'[x].status # "none"
    BY <2>1, <2>4 DEF TypeOK, Unused
  <2>6. row'[r].status = "starting"
    BY <2>1, <2>4 DEF TypeOK, Unused
  <2> HIDE DEF s, rec
  <2>7. PrevWaits'
    <3> SUFFICES ASSUME NEW o \in Procs, pending'[o].prev # NoRun
                 PROVE  pc'[pending'[o].prev] = "judged" /\ owner'[pending'[o].prev] = o
      BY DEF PrevWaits
    <3>1. o # p /\ pending'[o] = pending[o]
      BY <2>2 DEF TypeOK, NoStart
    <3> DEFINE b == pending[o].prev
    <3>2. pc[b] = "judged" /\ owner[b] = o /\ b \in Runs
      BY <3>1 DEF FollowInv, PrevWaits, TypeOK, PendingStart, NoStart
    <3>3. b # r
      BY <2>1, <3>2 DEF Unused
    <3>4. b # s.prev
      BY <3>1, <3>2 DEF FollowInv, PrevWaits, s
    <3> QED
      BY <2>1, <3>1, <3>2, <3>3, <3>4 DEF TypeOK
  <2>8. ASSUME NEW x \in Runs PROVE FollowSafe(x)'
    <3>1. FollowSafe(x)
      BY <1>0
    <3>2. CASE x = r
      <4>1. next'[x] = NoRun /\ pc'[x] = "begun"
        BY <2>1, <2>3, <3>1, <3>2, NoneAssumption DEF Unused, FollowSafe, Handed
      <4>2. row'[x].followUp = NoRun /\ live'[x].followUp = NoRun
        BY <2>1, <2>4, <3>2 DEF TypeOK
      <4> QED
        BY <2>6, <3>2, <4>1, <4>2 DEF FollowSafe
    <3>3. CASE x # r /\ x = s.prev
      <4>1. next'[x] = r /\ pc'[x] = "handed" /\ pc[x] = "judged"
        BY <2>1, <2>3, <3>3, NoneAssumption
      <4>2. row'[x] = row[x] /\ row[x].status # "success" /\ row[x].followUp = NoRun
        BY <2>1, <3>1, <3>3, <4>1 DEF FollowSafe, TypeOK, Handed
      <4> QED
        BY <2>2, <2>6, <3>1, <4>1, <4>2 DEF FollowSafe, Handed
    <3>4. CASE x # r /\ x # s.prev
      <4>1. /\ next'[x] = next[x] /\ pc'[x] = pc[x]
            /\ row'[x] = row[x] /\ live'[x] = live[x]
        BY <2>1, <3>4 DEF TypeOK
      <4>2. next[x] # NoRun => row'[next[x]].status # "none"
        BY <2>5, <3>1 DEF FollowSafe, TypeOK
      <4> QED
        BY <2>2, <3>1, <4>1, <4>2 DEF FollowSafe
    <3> QED
      BY <3>2, <3>3, <3>4
  <2> QED
    BY <2>7, <2>8 DEF FollowInv
<1>15. ASSUME NEW p \in Procs, BeginFails(p) PROVE FollowInv'
  <2> DEFINE s == pending[p]
  <2> DEFINE rec == [NoRecord EXCEPT !.status = "starting"]
  <2>1. PICK ghosts \in SUBSET Unused :
          /\ row' = [r \in Runs |-> IF r \in ghosts THEN rec ELSE row[r]]
          /\ owner' = [r \in Runs |-> IF r \in ghosts THEN p ELSE owner[r]]
          /\ pc' = [r \in Runs |-> CASE r \in ghosts -> "ghost"
                                     [] r = s.prev -> "closing"
                                     [] OTHER -> pc[r]]
    BY <1>15 DEF BeginFails
  <2>2. /\ pending' = [pending EXCEPT ![p] = NoStart]
        /\ UNCHANGED <<live, verdict, next>>
    BY <1>15 DEF BeginFails
  <2>3. s.prev # NoRun => s.prev \in Runs /\ pc[s.prev] = "judged" /\ s.prev \notin ghosts
    BY <2>1 DEF FollowInv, PrevWaits, TypeOK, PendingStart, NoStart, Unused
  <2>4. rec.status = "starting" /\ rec.followUp = NoRun
    BY DEF NoRecord
  <2>5. \A x \in Runs : row[x].status # "none" => row'[x].status # "none"
    BY <2>1, <2>4
  <2> HIDE DEF s, rec
  <2>6. PrevWaits'
    <3> SUFFICES ASSUME NEW o \in Procs, pending'[o].prev # NoRun
                 PROVE  pc'[pending'[o].prev] = "judged" /\ owner'[pending'[o].prev] = o
      BY DEF PrevWaits
    <3>1. o # p /\ pending'[o] = pending[o]
      BY <2>2 DEF TypeOK, NoStart
    <3> DEFINE b == pending[o].prev
    <3>2. pc[b] = "judged" /\ owner[b] = o /\ b \in Runs
      BY <3>1 DEF FollowInv, PrevWaits, TypeOK, PendingStart, NoStart
    <3>3. b \notin ghosts
      BY <2>1, <3>2 DEF Unused
    <3>4. b # s.prev
      BY <3>1, <3>2 DEF FollowInv, PrevWaits, s
    <3> QED
      BY <2>1, <3>1, <3>2, <3>3, <3>4
  <2>7. ASSUME NEW x \in Runs PROVE FollowSafe(x)'
    <3>1. FollowSafe(x)
      BY <1>0
    <3>2. next[x] # NoRun => row'[next[x]].status # "none"
      BY <2>5, <3>1 DEF FollowSafe, TypeOK
    <3>3. CASE x \in ghosts
      <4>1. next[x] = NoRun /\ pc'[x] = "ghost" /\ row'[x] = rec
        BY <2>1, <2>3, <3>1, <3>3, NoneAssumption DEF Unused, FollowSafe, Handed
      <4> QED
        BY <2>2, <2>4, <4>1 DEF FollowSafe
    <3>4. CASE x \notin ghosts /\ x = s.prev
      <4>1. pc'[x] = "closing" /\ pc[x] = "judged" /\ row'[x] = row[x]
        BY <2>1, <2>3, <3>4, NoneAssumption
      <4> QED
        BY <2>2, <3>1, <4>1 DEF FollowSafe, Handed
    <3>5. CASE x \notin ghosts /\ x # s.prev
      <4>1. pc'[x] = pc[x] /\ row'[x] = row[x]
        BY <2>1, <3>5
      <4> QED
        BY <2>2, <3>1, <3>2, <4>1 DEF FollowSafe
    <3> QED
      BY <3>3, <3>4, <3>5
  <2> QED
    BY <2>6, <2>7 DEF FollowInv
<1>16. ASSUME NEW p \in Procs, Vanish(p) PROVE FollowInv'
  <2>1. /\ pending' = [pending EXCEPT ![p] = NoStart]
        /\ UNCHANGED <<row, owner, next>>
    BY <1>16 DEF Vanish
  <2>2. ASSUME NEW x \in Runs
        PROVE  \/ pc'[x] = pc[x] /\ live'[x] = live[x] /\ verdict'[x] = verdict[x]
               \/ pc'[x] = "dead" /\ pc[x] # "unused" /\ owner[x] = p
    BY <1>16 DEF Vanish
  <2>3. PrevWaits'
    <3> SUFFICES ASSUME NEW o \in Procs, pending'[o].prev # NoRun
                 PROVE  pc'[pending'[o].prev] = "judged" /\ owner[pending'[o].prev] = o
      BY <2>1 DEF PrevWaits
    <3>1. o # p /\ pending'[o] = pending[o]
      BY <2>1 DEF TypeOK, NoStart
    <3>2. /\ pc[pending[o].prev] = "judged" /\ owner[pending[o].prev] = o
          /\ pending[o].prev \in Runs
      BY <3>1 DEF FollowInv, PrevWaits, TypeOK, PendingStart, NoStart
    <3> QED
      BY <2>2, <3>1, <3>2
  <2>4. ASSUME NEW x \in Runs PROVE FollowSafe(x)'
    <3>1. FollowSafe(x)
      BY <1>0
    <3>2. CASE pc'[x] = pc[x] /\ live'[x] = live[x] /\ verdict'[x] = verdict[x]
      BY <2>1, <3>1, <3>2 DEF FollowSafe
    <3>3. CASE pc'[x] = "dead"
      BY <2>1, <3>1, <3>3 DEF FollowSafe, Handed
    <3> QED
      BY <2>2, <3>2, <3>3
  <2> QED
    BY <2>3, <2>4 DEF FollowInv
<1>17. ASSUME NEW p \in Procs, CliLaunch(p) PROVE FollowInv'
  BY <1>17, FollowFrame DEF CliLaunch
<1>18. ASSUME NEW p \in Procs, NEW r \in Runs, StopRequest(p, r) PROVE FollowInv'
  BY <1>18, FollowFrame DEF StopRequest
<1>19. ASSUME ShutdownBegin PROVE FollowInv'
  BY <1>19, FollowFrame DEF ShutdownBegin
<1>20. ASSUME ShutdownReturn PROVE FollowInv'
  BY <1>20, FollowFrame DEF ShutdownReturn
<1>21. ASSUME ServerBoot PROVE FollowInv'
  BY <1>21, FollowFrame DEF ServerBoot
<1>22. ASSUME ServerServe PROVE FollowInv'
  BY <1>22, FollowFrame DEF ServerServe
<1>23. ASSUME UNCHANGED vars PROVE FollowInv'
  BY <1>23, FollowFrame DEF vars
<1>24. ASSUME NEW r \in Runs, StartFollowUp(r) PROVE FollowInv'
  BY <1>24, <1>7 DEF StartFollowUp, TypeOK
<1> QED
  BY <1>1, <1>2, <1>3, <1>4, <1>5, <1>6, <1>7, <1>8, <1>9, <1>9a, <1>10, <1>11, <1>12, <1>13,
     <1>14, <1>15, <1>16, <1>17, <1>18, <1>19, <1>20, <1>21, <1>22, <1>23, <1>24,
     ServerAssumption
     DEF Next, StartRun, Crash, ServerExit

\* Whoever sees a backup finished successfully sees which run follows it, and
\* finds that run recorded.
THEOREM FollowUpsVisible == Spec => []FollowUpVisible
<1>1. TypeOK /\ FollowInv => FollowUpVisible
  BY DEF TypeOK, FollowInv, FollowSafe, FollowUpVisible
<1> QED
  BY <1>1, InitType, NextType, InitSlot, NextSlot, InitFollow, NextFollow, PTL DEF Spec

-----------------------------------------------------------------------------
(* Shutdown.                                                               *)

\* No start is under way in the server once Shutdown closed the door.
ShutInv == shut # "no" => pending[Server] = NoStart

\* No start is under way initially.
LEMMA InitShut == Init => ShutInv
BY DEF Init, ShutInv

\* No step leaves a start under way behind a closed door.
LEMMA NextShut == TypeOK /\ ShutInv /\ [Next]_vars => ShutInv'
<1> SUFFICES ASSUME TypeOK, ShutInv, [Next]_vars PROVE ShutInv'
  OBVIOUS
<1> USE ServerAssumption DEF ShutInv
<1>1. ASSUME NEW r \in Runs,
             \/ SetRunning(r) \/ Spawn(r) \/ RecordPid(r) \/ StepDone(r) \/ ExecReturn(r)
             \/ NoFollowUp(r) \/ NameFollowUp(r) \/ Finalize(r) \/ DropLive(r) \/ Finish(r)
             \/ OrphanExit(r) \/ ReconcileRun(r)
      PROVE ShutInv'
  BY <1>1 DEF SetRunning, Spawn, RecordPid, StepDone, ExecReturn, NoFollowUp, NameFollowUp,
              Finalize, Persist, DropLive, Finish, OrphanExit, ReconcileRun
<1>2. ASSUME NEW p \in Procs, NEW q \in Repos, NEW b \in Runs \cup {NoRun}, Reserve(p, q, b)
      PROVE ShutInv'
  BY <1>2 DEF Reserve, DoorOpen, TypeOK
<1>3. ASSUME NEW p \in Procs, BeginRun(p) \/ BeginFails(p) PROVE ShutInv'
  BY <1>3 DEF BeginRun, BeginFails, TypeOK
<1>4. ASSUME NEW p \in Procs, Vanish(p) PROVE ShutInv'
  BY <1>4 DEF Vanish, TypeOK
<1>5. ASSUME NEW p \in Procs, CliLaunch(p) \/ \E r \in Runs : StopRequest(p, r)
      PROVE ShutInv'
  BY <1>5 DEF CliLaunch, StopRequest
<1>6. ASSUME \/ ShutdownBegin \/ ShutdownReturn \/ ServerBoot \/ ServerServe
             \/ \E r \in Runs : ShutdownStop(r)
      PROVE ShutInv'
  BY <1>6 DEF ShutdownBegin, ShutdownReturn, ServerBoot, ServerServe, ShutdownStop, MutexFree
<1>7. ASSUME UNCHANGED vars PROVE ShutInv'
  BY <1>7 DEF vars
<1> QED
  BY <1>1, <1>2, <1>3, <1>4, <1>5, <1>6, <1>7
     DEF Next, StartRun, StartFollowUp, Crash, ServerExit, TypeOK

\* One step of the server never starts a run behind a closed door.
LEMMA NoStartBehindDoor ==
  ASSUME TypeOK, FollowInv, ShutInv, [Next]_vars, shut # "no", shut' # "no",
         NEW r \in Runs, pc[r] = "unused", pc'[r] # "unused"
  PROVE  owner'[r] # Server
<1> USE ServerAssumption
<1>1. ASSUME NEW p \in Procs, pending[p].prev = r PROVE FALSE
  BY <1>1, NoneAssumption DEF FollowInv, PrevWaits
<1>2. ASSUME NEW p \in Procs, pending[p] # NoStart, owner'[r] = p PROVE owner'[r] # Server
  BY <1>2 DEF ShutInv
<1>3. ASSUME NEW p \in Procs, BeginRun(p) PROVE owner'[r] # Server
  <2>1. PICK x \in Unused :
          /\ owner' = [owner EXCEPT ![x] = p]
          /\ pc' = [y \in Runs |-> CASE y = x -> "begun"
                                     [] y = pending[p].prev -> "handed"
                                     [] OTHER -> pc[y]]
    BY <1>3 DEF BeginRun
  <2>2. x = r
    BY <1>1, <2>1
  <2> QED
    BY <1>2, <1>3, <2>1, <2>2 DEF BeginRun, MutexFree, TypeOK
<1>4. ASSUME NEW p \in Procs, BeginFails(p) PROVE owner'[r] # Server
  <2>1. PICK ghosts \in SUBSET Unused :
          /\ owner' = [y \in Runs |-> IF y \in ghosts THEN p ELSE owner[y]]
          /\ pc' = [y \in Runs |-> CASE y \in ghosts -> "ghost"
                                     [] y = pending[p].prev -> "closing"
                                     [] OTHER -> pc[y]]
    BY <1>4 DEF BeginFails
  <2>2. r \in ghosts
    BY <1>1, <2>1
  <2> QED
    BY <1>2, <1>4, <2>1, <2>2 DEF BeginFails, MutexFree
<1>5. ASSUME NEW p \in Procs, Vanish(p) PROVE FALSE
  BY <1>5 DEF Vanish
<1>6. ASSUME NEW x \in Runs,
             \/ SetRunning(x) \/ Spawn(x) \/ RecordPid(x) \/ StepDone(x) \/ ExecReturn(x)
             \/ NoFollowUp(x) \/ NameFollowUp(x) \/ Finalize(x) \/ DropLive(x) \/ Finish(x)
             \/ OrphanExit(x) \/ ReconcileRun(x) \/ ShutdownStop(x)
      PROVE FALSE
  BY <1>6 DEF SetRunning, Spawn, RecordPid, StepDone, ExecReturn, NoFollowUp, NameFollowUp,
              Finalize, Persist, DropLive, Finish, OrphanExit, ReconcileRun, ShutdownStop,
              TypeOK
<1>7. ASSUME NEW p \in Procs, NEW q \in Repos, NEW b \in Runs \cup {NoRun}, Reserve(p, q, b)
      PROVE FALSE
  BY <1>7 DEF Reserve
<1>8. ASSUME NEW p \in Procs, CliLaunch(p) \/ \E x \in Runs : StopRequest(p, x)
      PROVE FALSE
  BY <1>8 DEF CliLaunch, StopRequest
<1>9. ASSUME ShutdownBegin \/ ShutdownReturn \/ ServerBoot \/ ServerServe \/ UNCHANGED vars
      PROVE FALSE
  BY <1>9 DEF ShutdownBegin, ShutdownReturn, ServerBoot, ServerServe, vars
<1> QED
  BY <1>3, <1>4, <1>5, <1>6, <1>7, <1>8, <1>9
     DEF Next, StartRun, StartFollowUp, Crash, ServerExit, TypeOK

\* Once Shutdown began, no run of the server starts any more.
THEOREM DoorStaysClosed == Spec => NothingStartsAfterShutdown
<1>1. TypeOK /\ FollowInv /\ ShutInv /\ [Next]_vars =>
        [shut # "no" /\ shut' # "no" =>
           \A r \in Runs : pc[r] = "unused" /\ pc'[r] # "unused" => owner'[r] # Server]_vars
  BY NoStartBehindDoor
<1> QED
  BY <1>1, InitType, NextType, InitSlot, NextSlot, InitFollow, NextFollow, InitShut, NextShut,
     PTL DEF Spec, NothingStartsAfterShutdown

-----------------------------------------------------------------------------
(***************************************************************************)
(* What a coordinator promises that has the database to itself, as the web *)
(* server has while nobody uses restic-webctl: settled records stay        *)
(* settled, a restart cleans up, and - as long as no statement fails - it  *)
(* implements RepositorySerial.  Both conditions are needed: see the       *)
(* README for what a second process and a failed statement do.             *)
(***************************************************************************)


OneProcess == Procs = {Server}

\* A goroutine of a process that is up drives the run.
Driven == {"begun", "exec", "judged", "handed", "closing", "settled", "final"}
Working == {"exec", "judged", "handed", "closing"}

\* Whatever fails: a settled record belongs to a run that is over, only a run in
\* exec has a child, only a process that is up drives, and reconcile's list is of
\* active records.
RunOK(r) ==
    /\ pc[r] = "unused" => row[r].status = "none" /\ live[r].status = "none"
    /\ row[r].status \in TerminalStatus => pc[r] \in {"settled", "final", "done", "dead", "ghost"}
    /\ alive[r] => pc[r] \in {"exec", "dead"}
    /\ pc[r] \in Driven => mode[Server] = "up"
    /\ r \in todo => row[r].status \in ActiveStatus /\ mode[Server] = "boot"
    /\ next[r] # NoRun /\ pc[r] \in {"handed", "closing"} => verdict[r] = "success"

\* As long as no statement failed: record and live copy say where the drive
\* stands, and a dead run that still looks active is about to be reconciled.
CleanOK(r) ==
    /\ pc[r] # "ghost"
    /\ pc[r] = "begun" => row[r].status = "starting" /\ live[r].status = "starting"
    /\ pc[r] \in Working => row[r].status = "running" /\ live[r].status = "running"
    /\ pc[r] = "settled" => row[r].status \in TerminalStatus /\ live[r].status = row[r].status
    /\ pc[r] \in {"final", "done"} => row[r].status \in TerminalStatus
    /\ pc[r] \in {"final", "done", "dead"} => live[r].status = "none"
    /\ pc[r] = "dead" /\ row[r].status \in ActiveStatus =>
          mode[Server] = "down" \/ (mode[Server] = "boot" /\ r \in todo)
    /\ pc[r] = "dead" /\ alive[r] /\ row[r].pid = spawned[r] => row[r].status \in ActiveStatus

\* A slot is held by a run of that repository which is being driven.
SlotOK(q) ==
    active[Server][q] # NoRun =>
        pc[active[Server][q]] \in Driven /\ repoOf[active[Server][q]] = q

\* A start under way follows a successful backup or nobody; and once its checks
\* have passed, no record of the repository but that backup's is active.
StartOK ==
    pending[Server] # NoStart =>
        /\ pending[Server].prev # NoRun => verdict[pending[Server].prev] = "success"
        /\ dbFaults = 0 =>
              \A o \in Runs : repoOf[o] = pending[Server].repo /\ row[o].status \in ActiveStatus
                                => o = pending[Server].prev

SerialInv ==
    /\ \A r \in Runs : RunOK(r)
    /\ dbFaults = 0 => \A r \in Runs : CleanOK(r)
    /\ \A q \in Repos : SlotOK(q)
    /\ StartOK

-----------------------------------------------------------------------------
(* The invariant.                                                          *)

\* With one process every run is its own.
LEMMA AllOwned ==
  ASSUME TypeOK, OneProcess
  PROVE  \A r \in Runs : owner[r] = Server
BY DEF TypeOK, OneProcess

\* A failed statement counts; where none failed none has failed before.
LEMMA Faults ==
  ASSUME TypeOK, DbFault \/ UNCHANGED dbFaults, dbFaults' = 0
  PROVE  dbFaults = 0 /\ ~DbFault
BY DEF TypeOK, DbFault

\* What a statement that did not fail leaves in the record is the live copy.
LEMMA Written ==
  ASSUME TypeOK, NEW r \in Runs, NEW rec \in Record, Persist(r, rec)
  PROVE  /\ row'[r] \in {row[r], rec} /\ live'[r] = rec
         /\ \A x \in Runs \ {r} : row'[x] = row[x] /\ live'[x] = live[x]
         /\ DbFault \/ UNCHANGED dbFaults
         /\ dbFaults' = 0 => dbFaults = 0 /\ row'[r] = rec
BY DEF Persist, TypeOK, DbFault

\* A step of one run keeps the invariant if it does so for that run, leaves it
\* driven if it was, activates no record, and does not touch the verdict of a
\* backup for which a start is under way.
LEMMA LocalKeeps ==
  ASSUME TypeOK, SerialInv, NEW r \in Runs,
         UNCHANGED <<mode, pending, active, repoOf, next>>,
         todo' \subseteq todo, todo \ {r} \subseteq todo',
         DbFault \/ UNCHANGED dbFaults,
         \A x \in Runs \ {r} : /\ row'[x] = row[x] /\ live'[x] = live[x] /\ pc'[x] = pc[x]
                              /\ verdict'[x] = verdict[x] /\ alive'[x] = alive[x]
                              /\ spawned'[x] = spawned[x],
         RunOK(r)', dbFaults' = 0 => CleanOK(r)',
         pc[r] \in Driven => pc'[r] \in Driven,
         dbFaults' = 0 /\ row'[r].status \in ActiveStatus => row[r].status \in ActiveStatus,
         verdict'[r] = verdict[r] \/ pending[Server].prev # r
  PROVE  SerialInv'
<1>1. dbFaults' = 0 => dbFaults = 0
  BY Faults
<1>2. ASSUME NEW x \in Runs \ {r} PROVE RunOK(x)' /\ (dbFaults' = 0 => CleanOK(x)')
  BY <1>1, <1>2 DEF SerialInv, RunOK, CleanOK
<1>3. ASSUME NEW q \in Repos PROVE SlotOK(q)'
  <2>1. active[Server][q] \in Runs \cup {NoRun}
    BY ServerAssumption DEF TypeOK
  <2> QED
    BY <2>1 DEF SerialInv, SlotOK
<1>4. StartOK'
  <2> SUFFICES ASSUME pending[Server] # NoStart PROVE StartOK'
    BY DEF StartOK
  <2>1. pending[Server].prev \in Runs \cup {NoRun}
    BY ServerAssumption DEF TypeOK, PendingStart
  <2>2. pending[Server].prev # NoRun => verdict'[pending[Server].prev] = "success"
    BY <2>1 DEF SerialInv, StartOK
  <2>3. ASSUME dbFaults' = 0, NEW o \in Runs,
               repoOf[o] = pending[Server].repo, row'[o].status \in ActiveStatus
        PROVE  o = pending[Server].prev
    BY <1>1, <2>3 DEF SerialInv, StartOK
  <2> QED
    BY <2>2, <2>3 DEF StartOK
<1> QED
  BY <1>2, <1>3, <1>4 DEF SerialInv

-----------------------------------------------------------------------------
(* The steps of a run.                                                     *)

\* What the invariants say of one run.
LEMMA OfRun ==
  ASSUME TypeOK, SlotInv, FollowInv, SerialInv, OneProcess, NEW r \in Runs
  PROVE  /\ RunOK(r) /\ (dbFaults = 0 => CleanOK(r)) /\ owner[r] = Server
         /\ live[r] \in Record /\ row[r] \in Record
         /\ pending[Server].prev = r => pc[r] = "judged"
         /\ next[r] # NoRun => pc[r] \in Handed
         /\ pc[r] \in {"judged", "handed", "closing"} => verdict[r] \in TerminalStatus
         /\ Claims(r) => live[r].status \in ActiveStatus
BY AllOwned, NoneAssumption, ServerAssumption
   DEF SerialInv, SlotInv, ClaimSafe, TypeOK, FollowInv, PrevWaits, FollowSafe, PendingStart

\* drive writes "running" where "starting" stood.
LEMMA SetRunningKeeps ==
  ASSUME TypeOK, SlotInv, FollowInv, SerialInv, OneProcess, NEW r \in Runs, SetRunning(r)
  PROVE  SerialInv'
<1> DEFINE rec == [live[r] EXCEPT !.status = "running"]
<1>1. rec \in Record /\ rec.status = "running"
  BY RecordEdits, OfRun DEF Record, ActiveStatus
<1> HIDE DEF rec
<1>2. Persist(r, rec)
  BY DEF SetRunning, rec
<1>3. pc[r] = "begun" /\ pc'[r] = "exec"
  BY DEF SetRunning, TypeOK
<1>4. RunOK(r)'
  BY <1>1, <1>2, <1>3, Written, OfRun
     DEF SetRunning, RunOK, Driven, ActiveStatus, TerminalStatus
<1>5. dbFaults' = 0 => CleanOK(r)'
  BY <1>1, <1>2, <1>3, Written, OfRun DEF SetRunning, CleanOK, RunOK, Working
<1>6. dbFaults' = 0 => row[r].status \in ActiveStatus
  BY <1>1, <1>2, <1>3, Written, OfRun DEF CleanOK, ActiveStatus
<1> QED
  BY <1>1, <1>2, <1>3, <1>4, <1>5, <1>6, Written, OfRun, LocalKeeps
     DEF SetRunning, Driven, TypeOK

\* A child's start or end, and a step of several, change no record.
LEMMA ChildKeeps ==
  ASSUME TypeOK, SlotInv, FollowInv, SerialInv, OneProcess, NEW r \in Runs,
         Spawn(r) \/ StepDone(r) \/ OrphanExit(r)
  PROVE  SerialInv'
<1>1. UNCHANGED <<mode, pending, active, repoOf, next, todo, dbFaults, row, live, pc, verdict>>
  BY DEF Spawn, StepDone, OrphanExit
<1>2. /\ pc[r] \in {"exec", "dead"} /\ (pc[r] = "dead" => ~alive'[r])
      /\ \A x \in Runs \ {r} : alive'[x] = alive[x] /\ spawned'[x] = spawned[x]
  BY DEF Spawn, StepDone, OrphanExit, TypeOK
<1>3. RunOK(r)' /\ (dbFaults' = 0 => CleanOK(r)')
  BY <1>1, <1>2, OfRun DEF RunOK, CleanOK
<1> QED
  BY <1>1, <1>2, <1>3, LocalKeeps

\* A recorded pid leaves the status as it was.
LEMMA RecordPidKeeps ==
  ASSUME TypeOK, SlotInv, FollowInv, SerialInv, OneProcess, NEW r \in Runs, RecordPid(r)
  PROVE  SerialInv'
<1> DEFINE rec == [live[r] EXCEPT !.pid = spawned[r]]
<1>1. rec \in Record /\ rec.status = live[r].status
  BY RecordEdits, OfRun DEF Record, TypeOK
<1> HIDE DEF rec
<1>2. Persist(r, rec)
  BY DEF RecordPid, rec
<1>3. pc[r] = "exec" /\ pc' = pc /\ UNCHANGED <<procVars, serverVars, identVars, verdict, next, childVars>>
  BY DEF RecordPid
<1>4. live[r].status \in ActiveStatus
  BY <1>3, OfRun DEF Claims
<1>5. RunOK(r)'
  BY <1>1, <1>2, <1>3, <1>4, Written, OfRun DEF RunOK, ActiveStatus, TerminalStatus
<1>6. dbFaults' = 0 => CleanOK(r)'
  BY <1>1, <1>2, <1>3, Written, OfRun DEF CleanOK, RunOK, Working
<1>7. dbFaults' = 0 => row[r].status \in ActiveStatus
  BY <1>2, <1>3, <1>1, Written, OfRun DEF CleanOK, ActiveStatus, Working
<1> QED
  BY <1>1, <1>2, <1>3, <1>5, <1>6, <1>7, Written, LocalKeeps

\* A run that is judged keeps its record, and has a verdict.
LEMMA ExecReturnKeeps ==
  ASSUME TypeOK, SlotInv, FollowInv, SerialInv, OneProcess, NEW r \in Runs, ExecReturn(r)
  PROVE  SerialInv'
<1>1. /\ pc[r] = "exec" /\ pc' = [pc EXCEPT ![r] = "judged"]
      /\ alive' = [alive EXCEPT ![r] = FALSE]
      /\ UNCHANGED <<procVars, serverVars, storeVars, identVars, next, spawned>>
  BY DEF ExecReturn
<1>2. \A x \in Runs \ {r} : verdict'[x] = verdict[x]
  BY DEF ExecReturn, TypeOK
<1>3. RunOK(r)' /\ (dbFaults' = 0 => CleanOK(r)')
  BY <1>1, OfRun DEF TypeOK, RunOK, CleanOK, Working, Driven, TerminalStatus
<1> QED
  BY <1>1, <1>2, <1>3, OfRun, LocalKeeps DEF TypeOK, Driven

\* A run without a follow-up goes on to its end; a backup names its follow-up.
LEMMA ClosingKeeps ==
  ASSUME TypeOK, SlotInv, FollowInv, SerialInv, OneProcess, NEW r \in Runs,
         NoFollowUp(r) \/ NameFollowUp(r)
  PROVE  SerialInv'
<1>1. /\ pc[r] \in {"judged", "handed"} /\ pc' = [pc EXCEPT ![r] = "closing"]
      /\ UNCHANGED <<procVars, serverVars, row, dbFaults, identVars, verdict, next, childVars>>
  BY DEF NoFollowUp, NameFollowUp
<1>2. pc[r] = "judged" => next[r] = NoRun
  BY OfRun DEF Handed
<1>3. live'[r].status = live[r].status /\ \A x \in Runs \ {r} : live'[x] = live[x]
  BY OfRun DEF NoFollowUp, NameFollowUp, TypeOK, Record
<1>4. RunOK(r)' /\ (dbFaults' = 0 => CleanOK(r)')
  BY <1>1, <1>2, <1>3, OfRun DEF TypeOK, RunOK, CleanOK, Working, Driven, TerminalStatus
<1> QED
  BY <1>1, <1>3, <1>4, LocalKeeps DEF TypeOK, Driven

\* The final record is terminal.
LEMMA FinalizeKeeps ==
  ASSUME TypeOK, SlotInv, FollowInv, SerialInv, OneProcess, NEW r \in Runs, Finalize(r)
  PROVE  SerialInv'
<1> DEFINE rec == FinalRecord(r)
<1>1. /\ pc[r] = "closing" /\ pc' = [pc EXCEPT ![r] = "settled"] /\ Persist(r, rec)
      /\ verdict' = [verdict EXCEPT ![r] = "none"]
      /\ UNCHANGED <<procVars, serverVars, identVars, next, childVars>>
  BY DEF Finalize
<1>2. verdict[r] \in TerminalStatus
  BY <1>1, OfRun
<1>3. rec \in Record /\ rec.status = verdict[r]
  <2>1. live[r] \in Record
    BY OfRun
  <2>2. rec \in Record
    BY <1>2, <2>1, RecordEdits DEF FinalRecord
  <2> QED
    BY <1>2, <2>1, <2>2 DEF FinalRecord, Record
<1> HIDE DEF rec
<1>4. RunOK(r)'
  BY <1>1, <1>2, <1>3, Written, OfRun
     DEF RunOK, TypeOK, Driven, ActiveStatus, TerminalStatus
<1>5. dbFaults' = 0 => CleanOK(r)'
  BY <1>1, <1>2, <1>3, Written, OfRun DEF CleanOK, TypeOK, Working
<1>6. dbFaults' = 0 => row'[r].status \notin ActiveStatus
  BY <1>1, <1>2, <1>3, Written DEF ActiveStatus, TerminalStatus
<1> QED
  BY <1>1, <1>4, <1>5, <1>6, <1>3, Written, OfRun, LocalKeeps DEF TypeOK, Driven

\* The live copy goes once the record is final.
LEMMA DropLiveKeeps ==
  ASSUME TypeOK, SlotInv, FollowInv, SerialInv, OneProcess, NEW r \in Runs, DropLive(r)
  PROVE  SerialInv'
<1>1. /\ pc[r] = "settled" /\ pc' = [pc EXCEPT ![r] = "final"]
      /\ live' = [live EXCEPT ![r] = NoRecord]
      /\ UNCHANGED <<procVars, serverVars, row, dbFaults, identVars, verdict, next, childVars>>
  BY DEF DropLive
<1>2. RunOK(r)' /\ (dbFaults' = 0 => CleanOK(r)')
  BY <1>1, OfRun DEF TypeOK, RunOK, CleanOK, Working, Driven, TerminalStatus, NoRecord
<1> QED
  BY <1>1, <1>2, LocalKeeps DEF TypeOK, Driven

\* Reconcile settles what it found active.
LEMMA ReconcileKeeps ==
  ASSUME TypeOK, SlotInv, FollowInv, SerialInv, OneProcess, NEW r \in Runs, ReconcileRun(r)
  PROVE  SerialInv'
<1>1. /\ mode[Server] = "boot" /\ r \in todo /\ todo' = todo \ {r}
      /\ alive' = [alive EXCEPT ![r] = @ /\ ~ReapChild(r)]
      /\ UNCHANGED <<procVars, live, identVars, driveVars, spawned>>
  BY DEF ReconcileRun
<1>2. /\ row'[r] = row[r] \/ row'[r].status = "interrupted"
      /\ \A x \in Runs \ {r} : row'[x] = row[x]
      /\ DbFault \/ UNCHANGED dbFaults
      /\ dbFaults' = 0 => row'[r].status = "interrupted" /\ row'[r].pid = row[r].pid
  BY OfRun, Faults DEF ReconcileRun, TypeOK, Record
<1>3. row[r].status \in ActiveStatus /\ pc[r] \notin Driven \cup {"unused"}
  BY <1>1, OfRun DEF RunOK, ActiveStatus
<1>4. pc[r] \in {"done", "dead", "ghost"}
  BY <1>3 DEF TypeOK, PCs, Driven
<1>5. RunOK(r)'
  BY <1>1, <1>2, <1>3, <1>4, OfRun DEF RunOK, TypeOK, Driven, ActiveStatus, TerminalStatus
<1>6. dbFaults' = 0 => CleanOK(r)'
  <2> SUFFICES ASSUME dbFaults' = 0 PROVE CleanOK(r)'
    OBVIOUS
  <2>1. dbFaults = 0
    BY <1>2, Faults
  <2>2. CleanOK(r)
    BY <2>1, OfRun
  <2>3. pc[r] = "dead"
    BY <1>3, <1>4, <2>2 DEF CleanOK, ActiveStatus, TerminalStatus
  <2>4. row'[r].status = "interrupted" /\ row'[r].pid = row[r].pid
    BY <1>2
  <2>5. alive'[r] => row'[r].pid # spawned'[r]
    BY <1>1, <2>4 DEF ReapChild, TypeOK
  <2> QED
    BY <1>1, <2>2, <2>3, <2>4, <2>5 DEF CleanOK, Working, ActiveStatus, TerminalStatus
<1>7. row'[r].status \in ActiveStatus => row[r].status \in ActiveStatus
  BY <1>3
<1> QED
  BY <1>1, <1>2, <1>5, <1>6, <1>7, LocalKeeps DEF TypeOK

\* A step that changes nothing the invariant reads keeps it.
LEMMA SerialFrame ==
  ASSUME SerialInv,
         UNCHANGED <<mode, pending, active, todo, row, live, dbFaults, repoOf, pc, verdict,
                     next, spawned, alive>>
  PROVE  SerialInv'
BY DEF SerialInv, RunOK, CleanOK, SlotOK, StartOK

\* A run that is over gives up the slot it holds, and no other.
LEMMA FinishKeeps ==
  ASSUME TypeOK, SlotInv, FollowInv, SerialInv, OneProcess, NEW r \in Runs, Finish(r)
  PROVE  SerialInv'
<1>1. /\ pc[r] = "final" /\ pc' = [pc EXCEPT ![r] = "done"] /\ pending[Server] = NoStart
      /\ active' = [active EXCEPT ![Server][repoOf[r]] = ReleaseSlot(Server, r)]
      /\ UNCHANGED <<mode, pending, todo, storeVars, identVars, verdict, next, spawned, alive>>
  BY AllOwned DEF Finish, MutexFree
<1>2. ASSUME NEW x \in Runs PROVE RunOK(x)' /\ (dbFaults' = 0 => CleanOK(x)')
  BY <1>1, OfRun DEF RunOK, CleanOK, TypeOK, Driven, Working
<1>3. ASSUME NEW q \in Repos PROVE SlotOK(q)'
  <2>1. active[Server][q] \in Runs \cup {NoRun}
    BY ServerAssumption DEF TypeOK
  <2>2. active'[Server][q] = active[Server][q] \/ active'[Server][q] = NoRun
    BY <1>1, ServerAssumption DEF TypeOK, ReleaseSlot
  <2>3. active[Server][q] = r => active'[Server][q] = NoRun
    <3>1. active[Server][q] = r => repoOf[r] = q
      BY NoneAssumption DEF SerialInv, SlotOK
    <3> QED
      BY <1>1, <3>1, ServerAssumption DEF TypeOK, ReleaseSlot
  <2> QED
    BY <1>1, <2>1, <2>2, <2>3 DEF SerialInv, SlotOK, TypeOK
<1> QED
  BY <1>1, <1>2, <1>3 DEF SerialInv, StartOK

\* Once a start's checks have passed, only the backup it follows may be active.
LEMMA ReserveKeeps ==
  ASSUME TypeOK, SlotInv, FollowInv, SerialInv, OneProcess,
         NEW p \in Procs, NEW q \in Repos, NEW prev \in Runs \cup {NoRun},
         Reserve(p, q, prev), prev # NoRun => verdict[prev] = "success"
  PROVE  SerialInv'
<1>1. /\ p = Server /\ pending' = [pending EXCEPT ![Server] = [repo |-> q, prev |-> prev]]
      /\ HolderYields(Server, q, prev) /\ DurablyFree(Server, q)
      /\ UNCHANGED <<mode, active, serverVars, row, live, identVars, driveVars, childVars>>
  BY DEF Reserve, OneProcess
<1>2. DbFault \/ UNCHANGED dbFaults
  BY <1>1 DEF DurablyFree
<1>3. dbFaults' = 0 => dbFaults = 0 /\ ~DbFault
  BY <1>2, Faults
<1>4. pending'[Server] = [repo |-> q, prev |-> prev]
  BY <1>1, ServerAssumption DEF TypeOK
<1>5. ASSUME dbFaults' = 0, NEW o \in Runs, repoOf[o] = q, row[o].status \in ActiveStatus
      PROVE  o = prev
  <2>1. o = active[Server][q] /\ o # NoRun
    BY <1>1, <1>3, <1>5, NoneAssumption DEF DurablyFree
  <2>2. pc[o] \in Driven /\ CleanOK(o)
    BY <1>3, <1>5, <2>1 DEF SerialInv, SlotOK
  <2>3. live[o].status \in ActiveStatus
    BY <1>5, <2>2 DEF CleanOK, Driven, Working, ActiveStatus, TerminalStatus
  <2>4. Seen(Server, o).status \in ActiveStatus
    BY <1>5, <2>3 DEF Seen
  <2> QED
    BY <1>1, <2>1, <2>4 DEF HolderYields, ActiveStatus, TerminalStatus
<1>6. StartOK'
  BY <1>1, <1>4, <1>5 DEF StartOK
<1>7. ASSUME NEW x \in Runs PROVE RunOK(x)' /\ (dbFaults' = 0 => CleanOK(x)')
  BY <1>1, <1>3, OfRun DEF RunOK, CleanOK
<1>8. ASSUME NEW x \in Repos PROVE SlotOK(x)'
  BY <1>1 DEF SerialInv, SlotOK
<1> QED
  BY <1>6, <1>7, <1>8 DEF SerialInv

\* A run takes the slot of its repository, be it from the backup it follows.
LEMMA BeginRunKeeps ==
  ASSUME TypeOK, SlotInv, FollowInv, SerialInv, OneProcess, NEW p \in Procs, BeginRun(p)
  PROVE  SerialInv'
<1> DEFINE s == pending[Server]
<1>1. p = Server /\ s # NoStart /\ s \in PendingStart /\ mode[Server] = "up"
  BY ServerAssumption DEF BeginRun, MutexFree, OneProcess, TypeOK
<1>a. BeginRun(Server)
  BY <1>1
<1>2. PICK r \in Unused :
        /\ row' = [row EXCEPT ![r] = [NoRecord EXCEPT !.status = "starting"]]
        /\ live' = [live EXCEPT ![r] = [NoRecord EXCEPT !.status = "starting"]]
        /\ repoOf' = [repoOf EXCEPT ![r] = s.repo]
        /\ active' = [active EXCEPT ![Server][s.repo] = r]
        /\ pc' = [x \in Runs |-> CASE x = r -> "begun"
                                   [] x = s.prev -> "handed"
                                   [] OTHER -> pc[x]]
        /\ next' = [x \in Runs |-> IF x = s.prev THEN r ELSE next[x]]
  BY <1>a DEF BeginRun
<1>3. /\ pending' = [pending EXCEPT ![Server] = NoStart]
      /\ UNCHANGED <<mode, serverVars, dbFaults, verdict, childVars>>
  BY <1>1 DEF BeginRun
<1>4. /\ row'[r].status = "starting" /\ live'[r].status = "starting"
      /\ \A x \in Runs \ {r} : row'[x] = row[x] /\ live'[x] = live[x]
  BY <1>2, RecordEdits DEF TypeOK, Unused, NoRecord
<1>5. r \in Runs /\ pc[r] = "unused" /\ RunOK(r) /\ next[r] = NoRun
  BY <1>2, OfRun DEF Unused, Handed
<1>6. s.prev # NoRun => s.prev \in Runs /\ pc[s.prev] = "judged" /\ s.prev # r
                        /\ verdict[s.prev] = "success"
  BY <1>1, <1>5, OfRun DEF PendingStart, SerialInv, StartOK
<1>b. s.prev # r
  BY <1>5, <1>6, NoneAssumption
<1> HIDE DEF s
<1>7. RunOK(r)' /\ (dbFaults' = 0 => CleanOK(r)')
  <2>1. pc'[r] = "begun"
    BY <1>2, <1>5, <1>b
  <2> QED
    BY <1>1, <1>3, <1>4, <1>5, <2>1
       DEF RunOK, CleanOK, Driven, Working, ActiveStatus, TerminalStatus
<1>8. ASSUME NEW x \in Runs, x # r, x = s.prev PROVE RunOK(x)' /\ (dbFaults' = 0 => CleanOK(x)')
  <2>1. pc'[x] = "handed" /\ pc[x] = "judged" /\ verdict[x] = "success"
    BY <1>2, <1>6, <1>8, NoneAssumption
  <2> QED
    BY <1>1, <1>3, <1>4, <1>8, <2>1, OfRun DEF RunOK, CleanOK, Driven, Working
<1>9. ASSUME NEW x \in Runs, x # r, x # s.prev PROVE RunOK(x)' /\ (dbFaults' = 0 => CleanOK(x)')
  BY <1>2, <1>3, <1>4, <1>9, OfRun DEF RunOK, CleanOK
<1>10. ASSUME NEW q \in Repos PROVE SlotOK(q)'
  <2>1. CASE q = s.repo
    <3>1. active'[Server][q] = r
      BY <1>2, <2>1, ServerAssumption DEF TypeOK
    <3>2. pc'[r] = "begun" /\ repoOf'[r] = q
      BY <1>2, <1>5, <1>b, <2>1 DEF TypeOK
    <3> QED
      BY <3>1, <3>2 DEF SlotOK, Driven
  <2>2. CASE q # s.repo
    <3>1. active'[Server][q] = active[Server][q] /\ active[Server][q] \in Runs \cup {NoRun}
      BY <1>2, <2>2, ServerAssumption DEF TypeOK
    <3>2. SUFFICES ASSUME active[Server][q] # NoRun PROVE SlotOK(q)'
      BY <3>1 DEF SlotOK
    <3>3. pc[active[Server][q]] \in Driven /\ repoOf[active[Server][q]] = q
      BY <3>2 DEF SerialInv, SlotOK
    <3>4. active[Server][q] \in Runs \ {r}
      BY <1>5, <3>1, <3>2, <3>3 DEF Driven
    <3>5. pc'[active[Server][q]] \in Driven /\ repoOf'[active[Server][q]] = q
      BY <1>2, <1>6, <3>3, <3>4 DEF TypeOK, Driven
    <3> QED
      BY <3>1, <3>5 DEF SlotOK
  <2> QED
    BY <2>1, <2>2
<1>11. StartOK'
  BY <1>3, ServerAssumption DEF StartOK, TypeOK
<1> QED
  BY <1>7, <1>8, <1>9, <1>10, <1>11 DEF SerialInv

\* A refused start may leave a record behind, but only with a failed statement.
LEMMA BeginFailsKeeps ==
  ASSUME TypeOK, SlotInv, FollowInv, SerialInv, OneProcess, NEW p \in Procs, BeginFails(p)
  PROVE  SerialInv'
<1> DEFINE s == pending[Server]
<1>1. p = Server /\ s # NoStart /\ s \in PendingStart /\ mode[Server] = "up"
  BY ServerAssumption DEF BeginFails, MutexFree, OneProcess, TypeOK
<1>2. PICK ghosts \in SUBSET Unused :
        /\ row' = [r \in Runs |-> IF r \in ghosts
                     THEN [NoRecord EXCEPT !.status = "starting"] ELSE row[r]]
        /\ repoOf' = [r \in Runs |-> IF r \in ghosts THEN s.repo ELSE repoOf[r]]
        /\ pc' = [r \in Runs |-> CASE r \in ghosts -> "ghost"
                                   [] r = s.prev -> "closing"
                                   [] OTHER -> pc[r]]
  BY <1>1 DEF BeginFails
<1>3. /\ pending' = [pending EXCEPT ![Server] = NoStart] /\ DbFault
      /\ UNCHANGED <<mode, active, serverVars, live, verdict, next, childVars>>
  BY <1>1 DEF BeginFails
<1>4. dbFaults' # 0
  BY <1>3 DEF DbFault, TypeOK
<1>5. s.prev # NoRun => s.prev \in Runs /\ pc[s.prev] = "judged" /\ verdict[s.prev] = "success"
  BY <1>1, OfRun DEF PendingStart, SerialInv, StartOK
<1> HIDE DEF s
<1>6. ASSUME NEW x \in Runs, x \in ghosts PROVE RunOK(x)'
  <2>1. pc'[x] = "ghost" /\ row'[x].status = "starting" /\ pc[x] = "unused" /\ RunOK(x)
    BY <1>2, <1>5, <1>6, NoneAssumption, OfRun DEF NoRecord, Unused
  <2> QED
    BY <1>3, <2>1, OfRun DEF RunOK, Driven, ActiveStatus, TerminalStatus
<1>7. ASSUME NEW x \in Runs, x \notin ghosts PROVE RunOK(x)'
  <2>1. row'[x] = row[x] /\ RunOK(x)
    BY <1>2, <1>7, OfRun
  <2>2. CASE x = s.prev
    <3>1. pc'[x] = "closing" /\ pc[x] = "judged" /\ verdict[x] = "success"
      BY <1>2, <1>5, <1>7, <2>2, NoneAssumption
    <3> QED
      BY <1>1, <1>3, <2>1, <3>1 DEF RunOK, Driven
  <2>3. CASE x # s.prev
    <3>1. pc'[x] = pc[x]
      BY <1>2, <1>7, <2>3
    <3> QED
      BY <1>3, <2>1, <3>1 DEF RunOK
  <2> QED
    BY <2>2, <2>3
<1>8. ASSUME NEW q \in Repos PROVE SlotOK(q)'
  <2>1. active'[Server][q] = active[Server][q] /\ active[Server][q] \in Runs \cup {NoRun}
    BY <1>3, ServerAssumption DEF TypeOK
  <2>2. SUFFICES ASSUME active[Server][q] # NoRun PROVE SlotOK(q)'
    BY <2>1 DEF SlotOK
  <2>3. pc[active[Server][q]] \in Driven /\ repoOf[active[Server][q]] = q
    BY <2>2 DEF SerialInv, SlotOK
  <2>4. active[Server][q] \in Runs \ ghosts
    BY <1>2, <2>1, <2>2, <2>3 DEF Driven, Unused
  <2>5. pc'[active[Server][q]] \in Driven /\ repoOf'[active[Server][q]] = q
    BY <1>2, <2>3, <2>4 DEF Driven
  <2> QED
    BY <2>1, <2>5 DEF SlotOK
<1>9. StartOK'
  BY <1>3, ServerAssumption DEF StartOK, TypeOK
<1> QED
  BY <1>4, <1>6, <1>7, <1>8, <1>9 DEF SerialInv

\* With its process a run stops being driven; its record stays as it was.
LEMMA VanishKeeps ==
  ASSUME TypeOK, SlotInv, FollowInv, SerialInv, OneProcess, Vanish(Server)
  PROVE  SerialInv'
<1> DEFINE mine == {r \in Runs : owner[r] = Server /\ pc[r] \notin {"unused", "done", "ghost"}}
<1>1. /\ mode' = [mode EXCEPT ![Server] = "down"]
      /\ pending' = [pending EXCEPT ![Server] = NoStart]
      /\ active' = [active EXCEPT ![Server] = [q \in Repos |-> NoRun]]
      /\ live' = [r \in Runs |-> IF r \in mine THEN NoRecord ELSE live[r]]
      /\ pc' = [r \in Runs |-> IF r \in mine THEN "dead" ELSE pc[r]]
      /\ verdict' = [r \in Runs |-> IF r \in mine THEN "none" ELSE verdict[r]]
      /\ todo' = {}
      /\ UNCHANGED <<row, dbFaults, identVars, next, spawned, alive>>
  BY DEF Vanish
<1>2. mode'[Server] = "down"
  BY <1>1, ServerAssumption DEF TypeOK
<1>3. ASSUME NEW x \in Runs PROVE RunOK(x)' /\ (dbFaults' = 0 => CleanOK(x)')
  <2>1. /\ RunOK(x) /\ (dbFaults = 0 => CleanOK(x))
        /\ row'[x] = row[x] /\ spawned'[x] = spawned[x] /\ alive'[x] = alive[x]
    BY <1>1, OfRun
  <2>2. CASE pc[x] \in {"unused", "done", "ghost"}
    <3>1. pc'[x] = pc[x] /\ live'[x] = live[x]
      BY <1>1, <2>2
    <3> QED
      BY <1>1, <2>1, <2>2, <3>1 DEF RunOK, CleanOK, Driven, Working
  <2>3. CASE pc[x] \notin {"unused", "done", "ghost"}
    <3>1. pc'[x] = "dead" /\ live'[x].status = "none"
      BY <1>1, <2>3, AllOwned DEF NoRecord
    <3>2. RunOK(x)'
      BY <1>1, <2>1, <3>1 DEF RunOK, Driven
    <3>3. ASSUME dbFaults = 0, alive[x], row[x].pid = spawned[x]
          PROVE  row[x].status \in ActiveStatus
      BY <2>1, <2>3, <3>3 DEF RunOK, CleanOK, Working, ActiveStatus
    <3> QED
      BY <1>1, <1>2, <2>1, <3>1, <3>2, <3>3 DEF CleanOK, Working
  <2> QED
    BY <2>2, <2>3
<1>4. ASSUME NEW q \in Repos PROVE SlotOK(q)'
  BY <1>1, ServerAssumption DEF SlotOK, TypeOK
<1>5. StartOK'
  BY <1>1, ServerAssumption DEF StartOK, TypeOK
<1> QED
  BY <1>3, <1>4, <1>5 DEF SerialInv

\* A boot lists every record that still looks active, unless its query fails.
LEMMA BootKeeps ==
  ASSUME TypeOK, SlotInv, FollowInv, SerialInv, OneProcess, ServerBoot
  PROVE  SerialInv'
<1>1. /\ mode[Server] = "down" /\ mode'[Server] = "boot"
      /\ todo' = LeftActive \/ todo' = {}
      /\ dbFaults' = 0 => dbFaults = 0 /\ todo' = LeftActive
      /\ UNCHANGED <<pending, active, row, live, identVars, driveVars, childVars>>
  BY ServerAssumption, BoundsAssumption DEF ServerBoot, DbFault, TypeOK
<1>2. ASSUME NEW x \in Runs PROVE RunOK(x)' /\ (dbFaults' = 0 => CleanOK(x)')
  BY <1>1, OfRun DEF RunOK, CleanOK, LeftActive
<1>3. ASSUME NEW q \in Repos PROVE SlotOK(q)'
  BY <1>1 DEF SerialInv, SlotOK
<1>4. StartOK'
  BY <1>1 DEF SerialInv, StartOK
<1> QED
  BY <1>2, <1>3, <1>4 DEF SerialInv

\* The server serves once reconcile is through its list.
LEMMA ServeKeeps ==
  ASSUME TypeOK, SlotInv, FollowInv, SerialInv, OneProcess, ServerServe
  PROVE  SerialInv'
<1>1. /\ mode[Server] = "boot" /\ mode'[Server] = "up" /\ todo = {}
      /\ UNCHANGED <<pending, active, serverVars, storeVars, identVars, driveVars, childVars>>
  BY ServerAssumption DEF ServerServe, TypeOK
<1>2. ASSUME NEW x \in Runs PROVE RunOK(x)' /\ (dbFaults' = 0 => CleanOK(x)')
  BY <1>1, OfRun DEF RunOK, CleanOK
<1>3. ASSUME NEW q \in Repos PROVE SlotOK(q)'
  BY <1>1 DEF SerialInv, SlotOK
<1> QED
  BY <1>1, <1>2, <1>3 DEF SerialInv, StartOK

\* The invariant holds before anything started.
LEMMA InitSerial == OneProcess /\ Init => SerialInv
BY ServerAssumption, NoneAssumption
   DEF OneProcess, Init, SerialInv, RunOK, CleanOK, SlotOK, StartOK, NoStart, NoRecord,
       ActiveStatus, TerminalStatus, Driven, Working

\* Every step of a coordinator alone with its database keeps the invariant.
LEMMA NextSerial ==
  ASSUME OneProcess, TypeOK, SlotInv, FollowInv, SerialInv, [Next]_vars
  PROVE  SerialInv'
<1>1. ASSUME NEW r \in Runs, StartFollowUp(r) PROVE SerialInv'
  BY <1>1, AllOwned, ServerAssumption, ReserveKeeps DEF StartFollowUp
<1>2. ASSUME NEW p \in Procs, StartRun(p) PROVE SerialInv'
  BY <1>2, ReserveKeeps DEF StartRun
<1>3. ASSUME NEW r \in Runs, ShutdownStop(r) PROVE SerialInv'
  BY <1>3, SerialFrame DEF ShutdownStop
<1>4. ASSUME NEW p \in Procs, NEW r \in Runs, StopRequest(p, r) PROVE SerialInv'
  BY <1>4, SerialFrame DEF StopRequest
<1>5. CASE ShutdownBegin \/ ShutdownReturn \/ UNCHANGED vars
  BY <1>5, SerialFrame DEF ShutdownBegin, ShutdownReturn, vars
<1>6. ASSUME NEW p \in Procs, Crash(p) PROVE SerialInv'
  BY <1>6, VanishKeeps DEF Crash, OneProcess
<1>7. CASE ServerExit
  BY <1>7, VanishKeeps DEF ServerExit
<1>8. ASSUME NEW p \in Procs PROVE ~CliLaunch(p)
  BY DEF CliLaunch, OneProcess
<1>9. ASSUME NEW r \in Runs,
             \/ SetRunning(r) \/ Spawn(r) \/ RecordPid(r) \/ StepDone(r) \/ ExecReturn(r)
             \/ NoFollowUp(r) \/ NameFollowUp(r) \/ Finalize(r)
             \/ DropLive(r) \/ Finish(r) \/ OrphanExit(r) \/ ReconcileRun(r)
      PROVE SerialInv'
  BY <1>9, SetRunningKeeps, ChildKeeps, RecordPidKeeps, ExecReturnKeeps, ClosingKeeps,
     FinalizeKeeps, DropLiveKeeps, FinishKeeps, ReconcileKeeps
<1>10. ASSUME NEW p \in Procs, BeginRun(p) \/ BeginFails(p) PROVE SerialInv'
  BY <1>10, BeginRunKeeps, BeginFailsKeeps
<1> QED
  BY <1>1, <1>2, <1>3, <1>4, <1>5, <1>6, <1>7, <1>8, <1>9, <1>10, BootKeeps, ServeKeeps DEF Next

\* What a coordinator alone with its database always maintains.
LEMMA SerialKept == OneProcess => (Spec => [](TypeOK /\ SlotInv /\ FollowInv /\ SerialInv))
<1> SUFFICES ASSUME OneProcess PROVE Spec => [](TypeOK /\ SlotInv /\ FollowInv /\ SerialInv)
  OBVIOUS
<1> DEFINE I == TypeOK /\ SlotInv /\ FollowInv /\ SerialInv
<1>1. Init => I
  BY InitType, InitSlot, InitFollow, InitSerial
<1>2. I /\ [Next]_vars => I'
  BY NextType, NextSlot, NextFollow, NextSerial
<1> QED
  BY <1>1, <1>2, PTL DEF Spec

-----------------------------------------------------------------------------
(* What follows, whatever statements fail.                                 *)

\* A step that writes a run's record finds that record unsettled.
LEMMA SettledStays ==
  ASSUME OneProcess, TypeOK, SlotInv, FollowInv, SerialInv, [Next]_vars,
         NEW r \in Runs, row[r].status \in TerminalStatus
  PROVE  row'[r].status = row[r].status
<1>1. /\ pc[r] \notin {"unused", "begun", "exec", "closing"} /\ r \notin todo
  BY OfRun DEF RunOK, ActiveStatus, TerminalStatus
<1>2. ASSUME NEW x \in Runs, NEW rec \in Record, Persist(x, rec), x # r PROVE row'[r] = row[r]
  BY <1>2, Written
<1>3. ASSUME NEW x \in Runs, SetRunning(x) PROVE row'[r] = row[r]
  <2>1. x # r /\ [live[x] EXCEPT !.status = "running"] \in Record
    BY <1>1, <1>3, RecordEdits, OfRun DEF SetRunning, ActiveStatus
  <2> QED
    BY <1>2, <1>3, <2>1 DEF SetRunning
<1>4. ASSUME NEW x \in Runs, RecordPid(x) PROVE row'[r] = row[r]
  <2>1. x # r /\ [live[x] EXCEPT !.pid = spawned[x]] \in Record
    BY <1>1, <1>4, RecordEdits, OfRun DEF RecordPid, TypeOK
  <2> QED
    BY <1>2, <1>4, <2>1 DEF RecordPid
<1>5. ASSUME NEW x \in Runs, Finalize(x) PROVE row'[r] = row[r]
  <2>1. x # r /\ FinalRecord(x) \in Record
    BY <1>1, <1>5, RecordEdits, OfRun DEF Finalize, FinalRecord
  <2> QED
    BY <1>2, <1>5, <2>1 DEF Finalize
<1>6. ASSUME NEW x \in Runs, ReconcileRun(x) PROVE row'[r] = row[r]
  BY <1>1, <1>6 DEF ReconcileRun, TypeOK
<1>7. ASSUME NEW p \in Procs, BeginRun(p) PROVE row'[r] = row[r]
  BY <1>1, <1>7 DEF BeginRun, Unused, TypeOK
<1>8. ASSUME NEW p \in Procs, BeginFails(p) PROVE row'[r] = row[r]
  BY <1>1, <1>8 DEF BeginFails, Unused, TypeOK
<1>9. ASSUME NEW x \in Runs,
             \/ Spawn(x) \/ StepDone(x) \/ ExecReturn(x) \/ NoFollowUp(x) \/ StartFollowUp(x)
             \/ NameFollowUp(x) \/ DropLive(x) \/ Finish(x) \/ OrphanExit(x) \/ ShutdownStop(x)
      PROVE row'[r] = row[r]
  BY <1>9 DEF Spawn, StepDone, ExecReturn, NoFollowUp, StartFollowUp, Reserve, NameFollowUp,
              DropLive, Finish, OrphanExit, ShutdownStop
<1>10. ASSUME NEW p \in Procs,
              \/ StartRun(p) \/ Crash(p) \/ CliLaunch(p) \/ \E x \in Runs : StopRequest(p, x)
       PROVE row'[r] = row[r]
  BY <1>10 DEF StartRun, Reserve, Crash, Vanish, CliLaunch, StopRequest
<1>11. CASE \/ ShutdownBegin \/ ShutdownReturn \/ ServerExit \/ ServerBoot \/ ServerServe
            \/ UNCHANGED vars
  BY <1>11 DEF ShutdownBegin, ShutdownReturn, ServerExit, Vanish, ServerBoot, ServerServe, vars
<1> QED
  BY <1>3, <1>4, <1>5, <1>6, <1>7, <1>8, <1>9, <1>10, <1>11 DEF Next

\* A record that reached a final status keeps it, whatever crashes and whatever
\* statement fails (RunStatus.Terminal; reconcile.go only writes what it read as
\* active, and no run of its own process is driven while it does).
THEOREM RecordsStaySettled == OneProcess => (Spec => TerminalIsFinal)
<1> SUFFICES ASSUME OneProcess PROVE Spec => TerminalIsFinal
  OBVIOUS
<1> DEFINE Step == \A r \in Runs : row[r].status \in TerminalStatus
                                     => row'[r].status = row[r].status
<1>1. TypeOK /\ SlotInv /\ FollowInv /\ SerialInv /\ [Next]_vars => [Step]_vars
  BY SettledStays
<1> QED
  BY <1>1, SerialKept, PTL DEF Spec, TerminalIsFinal

\* When the server serves again after a crash, every restic child whose pid made
\* it to the record is gone (Reconcile before Serve in cmd/restic-web/main.go).
THEOREM BootReaps == OneProcess => (Spec => []ReapedBeforeServing)
<1> SUFFICES ASSUME OneProcess PROVE Spec => []ReapedBeforeServing
  OBVIOUS
<1>1. SerialInv => ReapedBeforeServing
  BY DEF SerialInv, CleanOK, ReapedBeforeServing
<1> QED
  BY <1>1, SerialKept, PTL

\* When no run is in flight every repository can take one: no slot is held and no
\* record says starting or running (finish, finalize, Reconcile).
THEOREM RestFrees == OneProcess => (Spec => []QuiescentMeansFree)
<1> SUFFICES ASSUME OneProcess PROVE Spec => []QuiescentMeansFree
  OBVIOUS
<1>1. TypeOK /\ SerialInv => QuiescentMeansFree
  <2> SUFFICES ASSUME TypeOK, SerialInv, mode[Server] = "up", dbFaults = 0,
                      \A r \in Runs : pc[r] \in {"unused", "done", "dead"}
               PROVE  /\ \A r \in Runs : row[r].status \notin ActiveStatus
                      /\ \A q \in Repos : active[Server][q] = NoRun
    BY DEF QuiescentMeansFree
  <2>1. ASSUME NEW r \in Runs PROVE row[r].status \notin ActiveStatus
    BY DEF SerialInv, RunOK, CleanOK, ActiveStatus, TerminalStatus
  <2>2. ASSUME NEW q \in Repos PROVE active[Server][q] = NoRun
    <3>1. active[Server][q] \in Runs \cup {NoRun}
      BY ServerAssumption DEF TypeOK
    <3> QED
      BY <3>1 DEF SerialInv, SlotOK, Driven
  <2> QED
    BY <2>1, <2>2
<1> QED
  BY <1>1, SerialKept, PTL

-----------------------------------------------------------------------------
(* What follows when no statement fails: serialization per repository.     *)

NoFaults == MaxDbFaults = 0

\* Where none may fail, none did.
LEMMA NextClean ==
  ASSUME NoFaults, OneProcess, TypeOK, dbFaults = 0, [Next]_vars
  PROVE  dbFaults' = 0
<1>1. ~DbFault
  BY DEF DbFault, NoFaults
<1>2. ASSUME NEW x \in Runs,
             \/ SetRunning(x) \/ RecordPid(x) \/ Finalize(x) \/ ReconcileRun(x) \/ StartFollowUp(x)
             \/ Spawn(x) \/ StepDone(x) \/ ExecReturn(x) \/ NoFollowUp(x)
             \/ NameFollowUp(x) \/ DropLive(x) \/ Finish(x) \/ OrphanExit(x) \/ ShutdownStop(x)
      PROVE UNCHANGED dbFaults
  BY <1>1, <1>2 DEF SetRunning, RecordPid, Finalize, Persist, ReconcileRun, StartFollowUp, Reserve,
       DurablyFree, Spawn, StepDone, ExecReturn, NoFollowUp, NameFollowUp, DropLive, Finish,
       OrphanExit, ShutdownStop
<1>3. ASSUME NEW p \in Procs,
             \/ BeginRun(p) \/ BeginFails(p) \/ StartRun(p) \/ Crash(p) \/ CliLaunch(p)
             \/ \E x \in Runs : StopRequest(p, x)
      PROVE UNCHANGED dbFaults
  BY <1>1, <1>3 DEF BeginRun, BeginFails, StartRun, Reserve, DurablyFree, Crash, Vanish,
       CliLaunch, StopRequest
<1>4. CASE \/ ShutdownBegin \/ ShutdownReturn \/ ServerExit \/ ServerBoot \/ ServerServe
           \/ UNCHANGED vars
  BY <1>1, <1>4 DEF ShutdownBegin, ShutdownReturn, ServerExit, Vanish, ServerBoot, ServerServe, vars
<1> QED
  BY <1>2, <1>3, <1>4 DEF Next

\* No record is left behind by a start that was refused.
NoGhost == \A r \in Runs : pc[r] # "ghost"

\* A step that keeps the statuses, the repositories and the successors stutters.
LEMMA SerialStutter ==
  ASSUME TypeOK, TypeOK', NoGhost, NoGhost', UNCHANGED <<repoOf, next>>,
         \A r \in Runs : row'[r].status = row[r].status
  PROVE  UNCHANGED Serial!vars
BY DEF Serial!vars, NoGhost

\* A step that changes the status of one active run, to "running" from "starting"
\* or to one it may end with, is a step of the specification.
LEMMA SerialMove ==
  ASSUME TypeOK, TypeOK', NoGhost, NoGhost', UNCHANGED <<repoOf, next>>, NEW r \in Runs,
         \A x \in Runs \ {r} : row'[x].status = row[x].status,
         \/ row[r].status = "starting" /\ row'[r].status = "running"
         \/ /\ row[r].status \in ActiveStatus /\ row'[r].status \in TerminalStatus
            /\ next[r] # NoRun => row'[r].status \in {"success", "interrupted"}
  PROVE  Serial!Next
<1> DEFINE st == [x \in Runs |-> IF pc[x] = "ghost" THEN "none" ELSE row[x].status]
           rp == [x \in Runs |-> IF pc[x] = "ghost" THEN NoRepo ELSE repoOf[x]]
           rel == {b \in Runs : next[b] # NoRun}
<1>1. st[r] = row[r].status /\ (r \in rel => next[r] # NoRun)
  BY DEF NoGhost
<1>2. st' = [st EXCEPT ![r] = row'[r].status]
  BY DEF NoGhost
<1>3. rp' = rp /\ rel' = rel
  BY DEF NoGhost
<1>4. CASE row[r].status = "starting" /\ row'[r].status = "running"
  <2>1. Serial!Start(r)
    BY <1>1, <1>2, <1>3, <1>4 DEF Serial!Start
  <2> QED
    BY <2>1 DEF Serial!Next
<1>5. CASE /\ row[r].status \in ActiveStatus /\ row'[r].status \in TerminalStatus
           /\ next[r] # NoRun => row'[r].status \in {"success", "interrupted"}
  <2>1. PICK s \in TerminalStatus : s = row'[r].status
    BY <1>5
  <2>2. Serial!Settle(r, s)
    BY <1>1, <1>2, <1>3, <1>5, <2>1 DEF Serial!Settle, Serial!ActiveStatus, ActiveStatus
  <2> QED
    BY <2>2 DEF Serial!Next, Serial!SettleRun, Serial!TerminalStatus, TerminalStatus
<1> QED
  BY <1>4, <1>5

\* A run that begins is accepted on a repository nothing owns, or takes it over
\* from the backup it follows.
LEMMA SerialBegin ==
  ASSUME OneProcess, TypeOK, TypeOK', NoGhost, NoGhost', SlotInv, FollowInv, SerialInv,
         dbFaults = 0, NEW p \in Procs, BeginRun(p)
  PROVE  Serial!Next
<1> DEFINE st == [x \in Runs |-> IF pc[x] = "ghost" THEN "none" ELSE row[x].status]
           rp == [x \in Runs |-> IF pc[x] = "ghost" THEN NoRepo ELSE repoOf[x]]
           rel == {x \in Runs : next[x] # NoRun}
<1>0. p = Server /\ pending[Server] # NoStart /\ pending[Server] \in PendingStart
  BY ServerAssumption DEF BeginRun, MutexFree, OneProcess, TypeOK
<1>1. PICK q \in Repos, b \in Runs \cup {NoRun} :
        q = pending[Server].repo /\ b = pending[Server].prev
  BY <1>0 DEF PendingStart
<1>2. BeginRun(Server)
  BY <1>0
<1>3. PICK r \in Unused :
        /\ row' = [row EXCEPT ![r] = [NoRecord EXCEPT !.status = "starting"]]
        /\ repoOf' = [repoOf EXCEPT ![r] = pending[Server].repo]
        /\ next' = [x \in Runs |-> IF x = pending[Server].prev THEN r ELSE next[x]]
  BY <1>2 DEF BeginRun
<1>4. r \in Runs /\ pc[r] = "unused" /\ row[r].status = "none" /\ r # NoRun
  BY <1>3, OfRun, NoneAssumption DEF Unused, RunOK
<1>5. ASSUME NEW o \in Runs, repoOf[o] = q, row[o].status \in ActiveStatus PROVE o = b
  BY <1>0, <1>1, <1>5 DEF SerialInv, StartOK
<1>6. b # NoRun => /\ row[b].status \in ActiveStatus /\ next[b] = NoRun
                   /\ b # r
  <2> SUFFICES ASSUME b # NoRun PROVE row[b].status \in ActiveStatus /\ next[b] = NoRun /\ b # r
    OBVIOUS
  <2>1. b \in Runs /\ pc[b] = "judged"
    BY <1>1, OfRun
  <2>2. CleanOK(b)
    BY <2>1, OfRun
  <2> QED
    BY <1>4, <2>1, <2>2, OfRun DEF CleanOK, Working, Handed, ActiveStatus
<1>7. \A x \in Runs : st[x] = row[x].status /\ rp[x] = repoOf[x]
  BY DEF NoGhost
<1>9. st' = [st EXCEPT ![r] = "starting"]
  <2>1. row'[r].status = "starting" /\ \A x \in Runs \ {r} : row'[x].status = row[x].status
    BY <1>3, <1>4 DEF TypeOK, NoRecord
  <2> QED
    BY <1>4, <2>1 DEF NoGhost
<1>10. rp' = [rp EXCEPT ![r] = q]
  <2>1. repoOf'[r] = q /\ \A x \in Runs \ {r} : repoOf'[x] = repoOf[x]
    BY <1>1, <1>3, <1>4 DEF TypeOK
  <2> QED
    BY <1>4, <2>1 DEF NoGhost
<1>11. ASSUME NEW x \in Runs, rp[x] = q, st[x] \in {"starting", "running"} PROVE x = b
  BY <1>5, <1>7, <1>11 DEF ActiveStatus
<1>12. CASE b = NoRun
  <2>1. rel' = rel
    BY <1>1, <1>3, <1>12, NoneAssumption
  <2>2. Serial!Owning(q) = {}
    BY <1>11, <1>12, NoneAssumption DEF Serial!Owning, Serial!ActiveStatus
  <2>3. Serial!Accept(r, q)
    BY <1>4, <1>7, <1>9, <1>10, <2>1, <2>2 DEF Serial!Accept
  <2> QED
    BY <1>1, <1>4, <2>3 DEF Serial!Next, Serial!AcceptRun
<1>13. CASE b # NoRun
  <2>1. b \in Runs /\ b \notin rel
    BY <1>1, <1>6, <1>13
  <2>2. rel' = rel \cup {b}
    BY <1>1, <1>3, <1>4, <2>1
  <2>3. Serial!Owning(q) \subseteq {b}
    BY <1>11 DEF Serial!Owning, Serial!ActiveStatus
  <2>4. Serial!Follow(b, r, q)
    BY <1>4, <1>6, <1>7, <1>9, <1>10, <1>13, <2>1, <2>2, <2>3
       DEF Serial!Follow, Serial!ActiveStatus, ActiveStatus
  <2> QED
    BY <1>1, <1>4, <2>1, <2>4 DEF Serial!Next, Serial!FollowRun
<1> QED
  BY <1>12, <1>13

\* Every step of the coordinator is a step of RepositorySerial or stutters.
LEMMA NextImplements ==
  ASSUME OneProcess, NoFaults, TypeOK, TypeOK', SlotInv, FollowInv, SerialInv, SerialInv',
         dbFaults = 0, dbFaults' = 0, [Next]_vars
  PROVE  [Serial!Next]_(Serial!vars)
<1>1. NoGhost /\ NoGhost' /\ ~DbFault
  BY DEF NoGhost, SerialInv, CleanOK, DbFault, NoFaults
<1>2. ASSUME NEW r \in Runs, SetRunning(r) PROVE Serial!Next
  <2>1. [live[r] EXCEPT !.status = "running"] \in Record
    BY RecordEdits, OfRun DEF ActiveStatus
  <2>2. row' = [row EXCEPT ![r] = [live[r] EXCEPT !.status = "running"]]
    BY <1>1, <1>2 DEF SetRunning, Persist
  <2>3. row'[r].status = "running" /\ \A x \in Runs \ {r} : row'[x] = row[x]
    BY <2>1, <2>2, OfRun DEF TypeOK, Record
  <2>4. row[r].status = "starting" /\ UNCHANGED <<repoOf, next>>
    BY <1>2, OfRun DEF SetRunning, CleanOK
  <2> QED
    BY <1>1, <2>3, <2>4, SerialMove
<1>3. ASSUME NEW r \in Runs, Finalize(r) PROVE Serial!Next
  <2>1. verdict[r] \in TerminalStatus /\ row[r].status \in ActiveStatus
        /\ (next[r] # NoRun => verdict[r] = "success")
    BY <1>3, OfRun DEF Finalize, RunOK, CleanOK, Working, ActiveStatus
  <2>2. row' = [row EXCEPT ![r] = FinalRecord(r)]
    BY <1>1, <1>3 DEF Finalize, Persist
  <2>3. row'[r].status = verdict[r] /\ \A x \in Runs \ {r} : row'[x] = row[x]
    BY <2>2, OfRun DEF TypeOK, Record, FinalRecord
  <2>4. UNCHANGED <<repoOf, next>>
    BY <1>3 DEF Finalize
  <2> QED
    BY <1>1, <2>1, <2>3, <2>4, SerialMove
<1>4. ASSUME NEW r \in Runs, ReconcileRun(r) PROVE Serial!Next
  <2>1. row[r].status \in ActiveStatus /\ UNCHANGED <<repoOf, next>>
    BY <1>4, OfRun DEF ReconcileRun, RunOK
  <2>2. row'[r].status = "interrupted" /\ \A x \in Runs \ {r} : row'[x] = row[x]
    BY <1>1, <1>4, OfRun DEF ReconcileRun, TypeOK, Record
  <2> QED
    BY <1>1, <2>1, <2>2, SerialMove DEF TerminalStatus
<1>5. ASSUME NEW r \in Runs, RecordPid(r) PROVE UNCHANGED Serial!vars
  <2>1. live[r].status = row[r].status /\ UNCHANGED <<repoOf, next>>
    BY <1>5, OfRun DEF RecordPid, CleanOK, Working
  <2>2. row' = [row EXCEPT ![r] = [live[r] EXCEPT !.pid = spawned[r]]]
    BY <1>1, <1>5 DEF RecordPid, Persist
  <2>3. \A x \in Runs : row'[x].status = row[x].status
    BY <2>1, <2>2, OfRun DEF TypeOK, Record
  <2> QED
    BY <1>1, <2>1, <2>3, SerialStutter
<1>6. ASSUME NEW r \in Runs,
             \/ Spawn(r) \/ StepDone(r) \/ ExecReturn(r) \/ NoFollowUp(r) \/ StartFollowUp(r)
             \/ NameFollowUp(r) \/ DropLive(r) \/ Finish(r) \/ OrphanExit(r) \/ ShutdownStop(r)
      PROVE UNCHANGED Serial!vars
  <2>1. UNCHANGED <<row, repoOf, next>>
    BY <1>6 DEF Spawn, StepDone, ExecReturn, NoFollowUp, StartFollowUp, Reserve, NameFollowUp,
                DropLive, Finish, OrphanExit, ShutdownStop
  <2> QED
    BY <1>1, <2>1, SerialStutter
<1>7. ASSUME NEW p \in Procs,
             \/ StartRun(p) \/ Crash(p) \/ CliLaunch(p) \/ \E x \in Runs : StopRequest(p, x)
      PROVE UNCHANGED Serial!vars
  <2>1. UNCHANGED <<row, repoOf, next>>
    BY <1>7 DEF StartRun, Reserve, Crash, Vanish, CliLaunch, StopRequest
  <2> QED
    BY <1>1, <2>1, SerialStutter
<1>8. CASE \/ ShutdownBegin \/ ShutdownReturn \/ ServerExit \/ ServerBoot \/ ServerServe
           \/ UNCHANGED vars
  <2>1. UNCHANGED <<row, repoOf, next>>
    BY <1>8 DEF ShutdownBegin, ShutdownReturn, ServerExit, Vanish, ServerBoot, ServerServe, vars
  <2> QED
    BY <1>1, <2>1, SerialStutter
<1>9. ASSUME NEW p \in Procs PROVE ~BeginFails(p)
  BY <1>1 DEF BeginFails
<1> QED
  BY <1>1, <1>2, <1>3, <1>4, <1>5, <1>6, <1>7, <1>8, <1>9, SerialBegin DEF Next

\* Nothing is accepted, owned or relieved initially.
LEMMA InitImplements == Init => Serial!Init
BY NoneAssumption DEF Init, Serial!Init, NoRecord

\* With one process, and as long as no statement fails, the coordinator implements
\* per-repository serialization (coordinator.go: "Coordinator serializes work per
\* repository"), hand-over to a follow-up run, crashes and restarts included.
THEOREM ImplementsSerialization == OneProcess /\ NoFaults => (Spec => ImplementsSerial)
<1> SUFFICES ASSUME OneProcess, NoFaults PROVE Spec => ImplementsSerial
  OBVIOUS
<1> DEFINE I == TypeOK /\ SlotInv /\ FollowInv /\ SerialInv /\ dbFaults = 0
<1>1. Init => I
  BY InitType, InitSlot, InitFollow, InitSerial DEF Init
<1>2. I /\ [Next]_vars => I'
  BY NextType, NextSlot, NextFollow, NextSerial, NextClean
<1>3. I /\ I' /\ [Next]_vars => [Serial!Next]_(Serial!vars)
  BY NextImplements
<1> QED
  BY <1>1, <1>2, <1>3, InitImplements, PTL DEF Spec, ImplementsSerial, Serial!Spec
=============================================================================
