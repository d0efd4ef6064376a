---------------------------- MODULE RunLogProofs ----------------------------
(***************************************************************************)
(* Proofs about RunLog, for any number of appenders, lines, subscribers'   *)
(* buffers and failing statements: the stored numbers have no holes, the   *)
(* lines lost to intruding appenders are fewer than the intruders, a       *)
(* stream loses nothing between its backlog and its tail, and --follow     *)
(* prints everything.                                                      *)
(***************************************************************************)
EXTENDS RunLog, FiniteSetTheorems, TLAPS

Inserting == {"insert", "catchup", "again"}

\* logMu: whoever is between StartLog and the end of the insertion holds it.
LockInv == \A w \in Writers : at[w] \in Inserting => logMu = w

\* A number read by AppendSystemLine is at most the next one, and only its
\* own calls stand at "append".
NumberInv ==
    /\ log = 1 .. Top /\ Top \in Nat
    /\ seq <= Top
    /\ \A a \in Appenders : at[a] = "append" => mine[a] \in 1 .. Top + 1
    /\ \A o \in Others : at[o] \notin Inserting

\* A handle that is behind the log got there by a foreign line not yet paid
\* for by a lost one.
LossInv ==
    faults = 0 =>
      /\ lost > 0 \/ seq < Top => lost + 1 <= foreign
      /\ \A w \in Writers :
           /\ at[w] = "catchup" => seq < Top
           /\ at[w] = "again" => lost + 1 <= foreign
           /\ at[w] = "again" /\ seq < Top => lost + 2 <= foreign

IInv == AppendTypeOK /\ LockInv /\ NumberInv /\ LossInv

\* The largest of the first k numbers is k.
LEMMA MaxOfPrefix == ASSUME NEW k \in Nat PROVE Max((1 .. k) \cup {0}) = k
<1>1. k \in (1 .. k) \cup {0} /\ \A m \in (1 .. k) \cup {0} : m <= k
  OBVIOUS
<1>2. \A x \in (1 .. k) \cup {0} :
        (\A m \in (1 .. k) \cup {0} : m <= x) => x = k
  OBVIOUS
<1> QED BY <1>1, <1>2 DEF Max

\* So the log without a hole ends with its length,
LEMMA TopOfPrefix == ASSUME NEW k \in Nat, log = 1 .. k PROVE Top = k
BY MaxOfPrefix DEF Top

\* now and in the next state.
LEMMA TopOfPrefixNext == ASSUME NEW k \in Nat, log' = 1 .. k PROVE Top' = k
BY MaxOfPrefix DEF Top

\* At first the log is empty.
LEMMA InitInv == Init => IInv
<1> SUFFICES ASSUME Init PROVE IInv OBVIOUS
<1>1. log = 1 .. 0 BY DEF Init
<1>2. Top = 0 BY <1>1, TopOfPrefix
<1> QED BY <1>1, <1>2 DEF Init, IInv, AppendTypeOK, LockInv, NumberInv, LossInv, Inserting, Appenders

-----------------------------------------------------------------------------
(* One step.                                                               *)

\* Readers, the stream and the end of the run leave the log's side alone.
LEMMA FrameInv ==
    ASSUME IInv, UNCHANGED <<log, logMu, seq, at, mine, lost, foreign>>,
           faults' = faults \/ faults' = faults + 1
    PROVE  IInv'
<1>1. Top' = Top BY DEF Top
<1>2. faults' \in Nat /\ (faults' = 0 => faults = 0) BY DEF IInv, AppendTypeOK
<1> QED BY <1>1, <1>2 DEF IInv, AppendTypeOK, LockInv, NumberInv, LossInv, Inserting

\* A call that ends without having stored anything, or is over.
LEMMA PublishInv == ASSUME IInv, NEW a \in Appenders, Publish(a) PROVE IInv'
<1>1. /\ at[a] = "publish" /\ at' = [at EXCEPT ![a] = "idle"]
      /\ mine' = [mine EXCEPT ![a] = 0]
      /\ UNCHANGED <<log, logMu, seq, lost, foreign, faults>>
  BY DEF Publish, handleVars
<1>2. Top' = Top BY <1>1 DEF Top
<1>3. at \in [Appenders -> {"idle", "insert", "catchup", "again", "append", "publish"}]
  BY DEF IInv, AppendTypeOK
<1> QED BY <1>1, <1>2, <1>3 DEF IInv, AppendTypeOK, LockInv, NumberInv, LossInv, Inserting, Appenders

\* A writer starts behind what is stored.
LEMMA StartLogInv == ASSUME IInv, NEW w \in Writers, StartLog(w) PROVE IInv'
<1>1. /\ logMu = Nobody /\ logMu' = w
      /\ at' = [at EXCEPT ![w] = "insert"]
      /\ UNCHANGED <<log, seq, mine, lost, foreign, faults>>
  BY DEF StartLog
<1>2. Top' = Top BY <1>1 DEF Top
<1>3. \A x \in Writers : at[x] \notin Inserting
  BY <1>1, ActorsAssumption DEF IInv, LockInv
<1>4. at \in [Appenders -> {"idle", "insert", "catchup", "again", "append", "publish"}]
  BY DEF IInv, AppendTypeOK
<1>5. w \notin Others BY ActorsAssumption
<1> QED BY <1>1, <1>2, <1>3, <1>4, <1>5
        DEF IInv, AppendTypeOK, LockInv, NumberInv, LossInv, Inserting, Appenders

\* The step of a writer inside Log, which nobody else can be in.
LEMMA OnlyInserter ==
    ASSUME IInv, NEW w \in Writers, at[w] \in Inserting
    PROVE  /\ logMu = w /\ w \notin Others
           /\ \A x \in Writers \ {w} : at[x] \notin Inserting
BY ActorsAssumption DEF IInv, LockInv

\* What is stored comes right behind the end of the log.
LEMMA InsertStoresInv == ASSUME IInv, NEW w \in Writers, InsertStores(w) PROVE IInv'
<1>1. /\ at[w] \in {"insert", "again"} /\ seq + 1 \notin log
      /\ log' = log \cup {seq + 1} /\ mine' = [mine EXCEPT ![w] = seq + 1]
      /\ seq' = seq + 1 /\ logMu' = Nobody /\ at' = [at EXCEPT ![w] = "publish"]
      /\ UNCHANGED <<lost, foreign, faults>>
  BY DEF InsertStores, SeqAfter, EndCall
<1>2. Top \in Nat /\ log = 1 .. Top /\ seq \in Nat /\ seq <= Top
  BY DEF IInv, AppendTypeOK, NumberInv
<1>3. seq = Top BY <1>1, <1>2
<1>4. log' = 1 .. (Top + 1) BY <1>1, <1>2, <1>3
<1>5. Top' = Top + 1 BY <1>2, <1>4, TopOfPrefixNext
<1>6. /\ w \notin Others /\ \A x \in Writers \ {w} : at[x] \notin Inserting
  BY <1>1, OnlyInserter DEF Inserting
<1>7. at \in [Appenders -> {"idle", "insert", "catchup", "again", "append", "publish"}]
  BY DEF IInv, AppendTypeOK
<1>8. AppendTypeOK' BY <1>1, <1>2, <1>7 DEF IInv, AppendTypeOK, Appenders
<1>9. LockInv' BY <1>1, <1>6, <1>7 DEF LockInv, Inserting, Appenders
<1>10. NumberInv'
  BY <1>1, <1>2, <1>3, <1>4, <1>5, <1>6, <1>7
     DEF IInv, AppendTypeOK, NumberInv, Inserting, Appenders
<1>11. LossInv'
  BY <1>1, <1>2, <1>3, <1>5, <1>6, <1>7 DEF IInv, LossInv, Inserting, Appenders
<1> QED BY <1>8, <1>9, <1>10, <1>11 DEF IInv

\* What is not stored is counted as lost.
LEMMA InsertFailsInv == ASSUME IInv, NEW w \in Writers, InsertFails(w) PROVE IInv'
<1>1. /\ at[w] \in {"insert", "again"}
      /\ log' = log \/ (seq + 1 \notin log /\ log' = log \cup {seq + 1})
      /\ seq' = seq /\ logMu' = Nobody /\ at' = [at EXCEPT ![w] = "idle"]
      /\ faults' = faults + 1
      /\ UNCHANGED <<mine, lost, foreign>>
  BY DEF InsertFails, SeqAfter, EndCall, Fault
<1>2. Top \in Nat /\ log = 1 .. Top /\ seq \in Nat /\ seq <= Top
  BY DEF IInv, AppendTypeOK, NumberInv
<1>3. log' = 1 .. Top \/ log' = 1 .. (Top + 1)
  <2>1. CASE log' = log BY <2>1, <1>2
  <2>2. CASE seq + 1 \notin log /\ log' = log \cup {seq + 1}
    <3>1. seq = Top BY <1>2, <2>2
    <3> QED BY <1>2, <2>2, <3>1
  <2> QED BY <1>1, <2>1, <2>2
<1>4. Top' \in {Top, Top + 1} /\ log' = 1 .. Top'
  BY <1>2, <1>3, TopOfPrefixNext
<1>5. /\ w \notin Others /\ \A x \in Writers \ {w} : at[x] \notin Inserting
  BY <1>1, OnlyInserter DEF Inserting
<1>6. at \in [Appenders -> {"idle", "insert", "catchup", "again", "append", "publish"}]
  BY DEF IInv, AppendTypeOK
<1>7. AppendTypeOK' BY <1>1, <1>2, <1>6 DEF IInv, AppendTypeOK, Appenders
<1>8. LockInv' BY <1>1, <1>5, <1>6 DEF LockInv, Inserting, Appenders
<1>9. NumberInv'
  BY <1>1, <1>2, <1>4, <1>5, <1>6 DEF IInv, AppendTypeOK, NumberInv, Inserting, Appenders
<1>10. faults' # 0 BY <1>1 DEF IInv, AppendTypeOK
<1> QED BY <1>7, <1>8, <1>9, <1>10 DEF IInv, LossInv

\* A number that is taken was taken by another process.
LEMMA InsertTakenInv == ASSUME IInv, NEW w \in Writers, InsertTaken(w) PROVE IInv'
<1>1. /\ at[w] \in {"insert", "again"} /\ seq + 1 \in log
      /\ UNCHANGED <<log, seq, mine, foreign, faults>>
  BY DEF InsertTaken
<1>2. \/ /\ at[w] = "insert" /\ at' = [at EXCEPT ![w] = "catchup"]
         /\ lost' = lost /\ logMu' = w
      \/ /\ at[w] = "again" /\ at' = [at EXCEPT ![w] = "idle"]
         /\ lost' = lost + 1 /\ logMu' = Nobody
  <2>1. lost + 0 = lost BY DEF IInv, AppendTypeOK
  <2>2. CASE at[w] = "insert"
    <3>1. AfterTaken(w).at = "catchup" /\ AfterTaken(w).lost = 0
      BY <2>2 DEF AfterTaken
    <3> QED BY <2>1, <2>2, <3>1 DEF InsertTaken
  <2>3. CASE at[w] = "again"
    <3>1. AfterTaken(w).at = "idle" /\ AfterTaken(w).lost = 1
      BY <2>3 DEF AfterTaken
    <3> QED BY <2>3, <3>1 DEF InsertTaken
  <2> QED BY <1>1, <2>2, <2>3
<1>3. Top \in Nat /\ log = 1 .. Top /\ seq \in Nat /\ seq <= Top
  BY DEF IInv, AppendTypeOK, NumberInv
<1>4. seq < Top BY <1>1, <1>3
<1>5. Top' = Top BY <1>1 DEF Top
<1>6. /\ w \notin Others /\ \A x \in Writers \ {w} : at[x] \notin Inserting
  BY <1>1, OnlyInserter DEF Inserting
<1>7. /\ at \in [Appenders -> {"idle", "insert", "catchup", "again", "append", "publish"}]
      /\ lost \in Nat /\ foreign \in Nat
  BY DEF IInv, AppendTypeOK
<1>8. AppendTypeOK' BY <1>1, <1>2, <1>7 DEF IInv, AppendTypeOK, Appenders
<1>9. LockInv' BY <1>1, <1>2, <1>6, <1>7 DEF LockInv, Inserting, Appenders
<1>10. NumberInv'
  BY <1>1, <1>2, <1>3, <1>5, <1>6, <1>7 DEF IInv, NumberInv, Inserting, Appenders
<1>11. LossInv'
  BY <1>1, <1>2, <1>3, <1>4, <1>5, <1>6, <1>7 DEF IInv, LossInv, Inserting, Appenders
<1> QED BY <1>8, <1>9, <1>10, <1>11 DEF IInv

\* Caught up, a writer is at the end of the log.
LEMMA CatchUpInv == ASSUME IInv, NEW w \in Writers, CatchUp(w) PROVE IInv'
<1>1. /\ at[w] = "catchup"
      /\ UNCHANGED <<log, mine, lost, foreign>>
  BY DEF CatchUp
<1>2. \/ /\ seq' = Top /\ at' = [at EXCEPT ![w] = "again"]
         /\ UNCHANGED <<logMu, faults>>
      \/ /\ faults' = faults + 1 /\ logMu' = Nobody /\ at' = [at EXCEPT ![w] = "idle"]
         /\ UNCHANGED seq
  BY DEF CatchUp, Fault, EndCall
<1>3. Top \in Nat /\ log = 1 .. Top /\ seq \in Nat /\ seq <= Top
  BY DEF IInv, AppendTypeOK, NumberInv
<1>4. Top' = Top BY <1>1 DEF Top
<1>5. /\ logMu = w /\ w \notin Others /\ \A x \in Writers \ {w} : at[x] \notin Inserting
  BY <1>1, OnlyInserter DEF Inserting
<1>6. /\ at \in [Appenders -> {"idle", "insert", "catchup", "again", "append", "publish"}]
      /\ lost \in Nat /\ foreign \in Nat /\ faults \in Nat
  BY DEF IInv, AppendTypeOK
<1>7. AppendTypeOK' BY <1>1, <1>2, <1>3, <1>6 DEF IInv, AppendTypeOK, Appenders
<1>8. LockInv' BY <1>1, <1>2, <1>5, <1>6 DEF LockInv, Inserting, Appenders
<1>9. NumberInv'
  BY <1>1, <1>2, <1>3, <1>4, <1>5, <1>6 DEF IInv, NumberInv, Inserting, Appenders
<1>10. LossInv'
  BY <1>1, <1>2, <1>3, <1>4, <1>5, <1>6 DEF IInv, LossInv, Inserting, Appenders
<1> QED BY <1>7, <1>8, <1>9, <1>10 DEF IInv

\* What another process read as the end was the end.
LEMMA AppendReadInv == ASSUME IInv, NEW o \in Others, AppendRead(o) PROVE IInv'
<1>1. /\ mine' = [mine EXCEPT ![o] = Top + 1] /\ at' = [at EXCEPT ![o] = "append"]
      /\ UNCHANGED <<log, logMu, seq, lost, foreign, faults>>
  BY DEF AppendRead, handleVars
<1>2. Top' = Top BY <1>1 DEF Top
<1>3. o \notin Writers BY ActorsAssumption
<1>4. Top \in Nat BY DEF IInv, NumberInv
<1> QED BY <1>1, <1>2, <1>3, <1>4
        DEF IInv, AppendTypeOK, LockInv, NumberInv, LossInv, Inserting, Appenders

\* It stores right behind the end, or not at all.
LEMMA AppendInsertInv == ASSUME IInv, NEW o \in Others, AppendInsert(o) PROVE IInv'
<1>1. /\ at[o] = "append" /\ UNCHANGED <<logMu, seq, mine, lost, faults>>
  BY DEF AppendInsert, handleVars
<1>2. o \notin Writers BY ActorsAssumption
<1>3. Top \in Nat /\ log = 1 .. Top /\ seq \in Nat /\ seq <= Top /\ mine[o] \in 1 .. Top + 1
  BY <1>1 DEF IInv, AppendTypeOK, NumberInv, Appenders
<1>4. /\ at \in [Appenders -> {"idle", "insert", "catchup", "again", "append", "publish"}]
      /\ lost \in Nat /\ foreign \in Nat
  BY DEF IInv, AppendTypeOK
<1>5. CASE mine[o] \in log
  <2>1. at' = [at EXCEPT ![o] = "idle"] /\ UNCHANGED <<log, foreign>>
    BY <1>5 DEF AppendInsert
  <2>2. Top' = Top BY <2>1 DEF Top
  <2> QED BY <1>1, <1>2, <2>1, <2>2
          DEF IInv, AppendTypeOK, LockInv, NumberInv, LossInv, Inserting, Appenders
<1>6. CASE mine[o] \notin log
  <2>1. /\ at' = [at EXCEPT ![o] = "publish"] /\ log' = log \cup {mine[o]}
        /\ foreign' = foreign + 1
    BY <1>6 DEF AppendInsert
  <2>2. mine[o] = Top + 1 BY <1>3, <1>6
  <2>3. log' = 1 .. (Top + 1) BY <1>3, <2>1, <2>2
  <2>4. Top' = Top + 1 BY <1>3, <2>3, TopOfPrefixNext
  <2>5. AppendTypeOK' BY <1>1, <1>3, <1>4, <2>1 DEF IInv, AppendTypeOK, Appenders
  <2>6. LockInv' BY <1>1, <1>2, <2>1 DEF IInv, AppendTypeOK, LockInv, Inserting, Appenders
  <2>7. NumberInv'
    BY <1>1, <1>3, <1>4, <2>1, <2>3, <2>4
       DEF IInv, AppendTypeOK, NumberInv, Inserting, Appenders
  <2>8. LossInv'
    BY <1>1, <1>2, <1>3, <1>4, <2>1, <2>4 DEF IInv, LossInv, Appenders
  <2> QED BY <2>5, <2>6, <2>7, <2>8 DEF IInv
<1> QED BY <1>5, <1>6

\* A failed append stores nothing.
LEMMA AppendFailsInv == ASSUME IInv, NEW o \in Others, AppendFails(o) PROVE IInv'
<1>1. /\ at[o] = "append" /\ at' = [at EXCEPT ![o] = "idle"]
      /\ log' = log \/ (mine[o] \notin log /\ log' = log \cup {mine[o]})
      /\ faults' = faults + 1
      /\ UNCHANGED <<logMu, seq, mine, lost, foreign>>
  BY DEF AppendFails, Fault, handleVars
<1>2. o \notin Writers BY ActorsAssumption
<1>3. Top \in Nat /\ log = 1 .. Top /\ seq \in Nat /\ seq <= Top /\ mine[o] \in 1 .. Top + 1
  BY <1>1 DEF IInv, AppendTypeOK, NumberInv, Appenders
<1>4. log' = 1 .. Top \/ log' = 1 .. (Top + 1)
  <2>1. CASE log' = log BY <2>1, <1>3
  <2>2. CASE mine[o] \notin log /\ log' = log \cup {mine[o]}
    <3>1. mine[o] = Top + 1 BY <1>3, <2>2
    <3> QED BY <1>3, <2>2, <3>1
  <2> QED BY <1>1, <2>1, <2>2
<1>5. Top' \in {Top, Top + 1} /\ log' = 1 .. Top'
  BY <1>3, <1>4, TopOfPrefixNext
<1>6. at \in [Appenders -> {"idle", "insert", "catchup", "again", "append", "publish"}]
  BY DEF IInv, AppendTypeOK
<1>7. AppendTypeOK' BY <1>1, <1>3, <1>6 DEF IInv, AppendTypeOK, Appenders
<1>8. LockInv' BY <1>1, <1>2, <1>6 DEF IInv, LockInv, Inserting, Appenders
<1>9. NumberInv'
  BY <1>1, <1>3, <1>5, <1>6 DEF IInv, AppendTypeOK, NumberInv, Inserting, Appenders
<1>10. faults' # 0 BY <1>1 DEF IInv, AppendTypeOK
<1> QED BY <1>7, <1>8, <1>9, <1>10 DEF IInv, LossInv

\* Every step keeps the invariant.
LEMMA NextInv == IInv /\ [Next]_vars => IInv'
<1> SUFFICES ASSUME IInv, [Next]_vars PROVE IInv' OBVIOUS
<1>1. CASE \E w \in Writers : StartLog(w) \/ InsertStores(w) \/ InsertFails(w)
                              \/ InsertTaken(w) \/ CatchUp(w)
  BY <1>1, StartLogInv, InsertStoresInv, InsertFailsInv, InsertTakenInv, CatchUpInv
<1>2. CASE \E o \in Others : AppendRead(o) \/ AppendInsert(o) \/ AppendFails(o)
  BY <1>2, AppendReadInv, AppendInsertInv, AppendFailsInv
<1>3. CASE \E a \in Appenders : Publish(a)
  BY <1>3, PublishInv
<1>4. CASE Finalize \/ SetDone \/ FollowStatus
  <2>1. UNCHANGED <<log, logMu, seq, at, mine, lost, foreign, faults>>
    BY <1>4 DEF Finalize, SetDone, FollowStatus, handleVars, callVars
  <2> QED BY <2>1, FrameInv
<1>5. CASE Connect \/ StartTail \/ Deliver \/ Receive \/ Disconnect
  <2>1. UNCHANGED <<log, logMu, seq, at, mine, lost, foreign, faults>>
    BY <1>5 DEF Connect, StartTail, Deliver, Receive, Disconnect, handleVars, callVars
  <2> QED BY <2>1, FrameInv
<1>6. CASE Replay \/ FollowPrint \/ FollowLast
  <2>1. UNCHANGED <<log, logMu, seq, at, mine, lost, foreign>>
    BY <1>6 DEF Replay, FollowPrint, FollowLast, handleVars, callVars
  <2>2. faults' = faults \/ faults' = faults + 1
    BY <1>6 DEF Replay, FollowPrint, FollowLast, PrintNew, Fault
  <2> QED BY <2>1, <2>2, FrameInv
<1>7. CASE UNCHANGED vars
  <2>1. UNCHANGED <<log, logMu, seq, at, mine, lost, foreign, faults>>
    BY <1>7 DEF vars, handleVars, callVars
  <2> QED BY <2>1, FrameInv
<1> QED BY <1>1, <1>2, <1>3, <1>4, <1>5, <1>6, <1>7 DEF Next

\* The log has no hole and the losses are accounted for, in every state (internal/logs).
THEOREM Invariant == Spec => []IInv
BY InitInv, NextInv, PTL DEF Spec

-----------------------------------------------------------------------------
\* The stored numbers are 1, 2, ... whoever appends and whatever fails
\* (insertLog, AppendSystemLine): resuming after the highest one read misses
\* no stored line.
THEOREM Contiguous == Spec => []LogContiguous
<1>1. IInv => LogContiguous
  BY DEF IInv, NumberInv, LogContiguous
<1> QED BY <1>1, Invariant, PTL

\* Without database errors fewer lines of the run are lost than foreign lines
\* were appended (the catch-up in runHandle.Log).
THEOREM LossIsBounded == Spec => []LossBounded
<1>1. IInv => LossBounded
  BY DEF IInv, AppendTypeOK, LossInv, LossBounded
<1> QED BY <1>1, Invariant, PTL

-----------------------------------------------------------------------------
(* Those who read: the stream, the browser, run log --follow.              *)

\* What --follow printed is a prefix of the log; once it saw the terminal status
\* that prefix is to cover the outcome.
FollowInv ==
    /\ final => outcome <= Top
    /\ ~final => outcome = 0
    /\ printed = 1 .. cur
    /\ follow \in {"last", "returned"} => final
    /\ follow = "returned" /\ faults = 0 => outcome <= cur

Stages == {"idle", "insert", "catchup", "again", "append", "publish"}
Publishing == {mine[a] : a \in {b \in Appenders : at[b] = "publish"}}

\* Only stored lines are shown, sent or queued, what is sent is in order, and
\* the stream has sent everything up to maxSeq that the browser has not seen.
StreamInv ==
    /\ Range(ch) \subseteq log /\ Range(wire) \subseteq log /\ Publishing \subseteq log
    /\ shown \subseteq log /\ seen \in {0} \cup shown
    /\ conn = "off" => ch = <<>> /\ wire = <<>>
    /\ conn = "joined" => maxSeq = seen /\ wire = <<>>
    /\ \A i, j \in DOMAIN wire : i < j => wire[i] < wire[j]
    /\ \A i \in DOMAIN wire : seen < wire[i]
    /\ conn # "off" => maxSeq = IF wire = <<>> THEN seen ELSE wire[Len(wire)]

\* A line the browser has gone past is on its screen, or will not come.
SeenInv == \A m \in log : m <= seen => m \in shown \cup unheard \cup Publishing

\* A queued line that Deliver will drop, for it is behind maxSeq or behind a
\* line queued before it, is not needed.
Dropped(i) == ch[i] <= maxSeq \/ (Past /\ \E j \in DOMAIN ch : j < i /\ ch[i] < ch[j])
QueueInv == \A i \in DOMAIN ch : Dropped(i) => ch[i] \in shown \cup Range(wire) \cup unheard

SeamInv == faults = 0 => SeenInv /\ QueueInv /\ SeamExact

ReadInv == ReadTypeOK /\ FollowInv /\ StreamInv /\ SeamInv

\* The greatest of a set of numbers.
LEMMA MaxIs ==
    ASSUME NEW S \in SUBSET Nat, NEW x \in S, \A y \in S : y <= x
    PROVE  Max(S) = x
<1>1. x \in S /\ \A y \in S : x >= y
  OBVIOUS
<1>2. \A z \in S : (\A y \in S : z >= y) => z = x
  OBVIOUS
<1> QED BY <1>1, <1>2 DEF Max

\* The bounds are numbers, one by one.
LEMMA BoundTypes ==
    /\ MaxLines \in Nat /\ Buffer \in Nat /\ MaxConnects \in Nat /\ MaxFaults \in Nat
    /\ Max({1, MaxLines}) \in Nat /\ 1 <= Max({1, MaxLines}) /\ MaxLines <= Max({1, MaxLines})
<1>1. MaxLines \in Nat /\ Buffer \in Nat /\ MaxConnects \in Nat /\ MaxFaults \in Nat
  BY BoundsAssumption
<1>2. CASE MaxLines <= 1
  <2>1. Max({1, MaxLines}) = 1
    BY <1>1, <1>2, MaxIs
  <2> QED BY <1>1, <1>2, <2>1
<1>3. CASE ~(MaxLines <= 1)
  <2>1. Max({1, MaxLines}) = MaxLines
    BY <1>1, <1>3, MaxIs
  <2> QED BY <1>1, <1>3, <2>1
<1> QED BY <1>1, <1>2, <1>3

\* A sequence that gets one more element, and one that loses its first.
LEMMA Appended ==
    ASSUME NEW S, NEW s \in Seq(S), NEW x \in S
    PROVE  /\ Append(s, x) \in Seq(S) /\ Len(Append(s, x)) = Len(s) + 1
           /\ DOMAIN Append(s, x) = 1 .. Len(s) + 1 /\ DOMAIN s = 1 .. Len(s)
           /\ \A i \in 1 .. Len(s) : Append(s, x)[i] = s[i]
           /\ Append(s, x)[Len(s) + 1] = x
           /\ Range(Append(s, x)) = Range(s) \cup {x}
<1>1. /\ Append(s, x) \in Seq(S) /\ Len(Append(s, x)) = Len(s) + 1
      /\ DOMAIN Append(s, x) = 1 .. Len(s) + 1 /\ DOMAIN s = 1 .. Len(s)
      /\ \A i \in 1 .. Len(s) : Append(s, x)[i] = s[i]
      /\ Append(s, x)[Len(s) + 1] = x
  OBVIOUS
<1>2. Range(Append(s, x)) = Range(s) \cup {x}
  <2>1. \A i \in 1 .. Len(s) : i \in 1 .. Len(s) + 1
    BY <1>1
  <2>2. Len(s) + 1 \in 1 .. Len(s) + 1
    BY <1>1
  <2>3. \A i \in 1 .. Len(s) + 1 : i \in 1 .. Len(s) \/ i = Len(s) + 1
    BY <1>1
  <2> QED BY <1>1, <2>1, <2>2, <2>3 DEF Range
<1> QED BY <1>1, <1>2

LEMMA Shortened ==
    ASSUME NEW S, NEW s \in Seq(S), s # <<>>
    PROVE  /\ Tail(s) \in Seq(S) /\ Len(Tail(s)) = Len(s) - 1 /\ Len(s) \in Nat \ {0}
           /\ DOMAIN Tail(s) = 1 .. Len(s) - 1 /\ DOMAIN s = 1 .. Len(s)
           /\ \A i \in 1 .. Len(s) - 1 : Tail(s)[i] = s[i + 1]
           /\ Head(s) = s[1] /\ Head(s) \in S
           /\ Range(s) = Range(Tail(s)) \cup {Head(s)}
<1>1. /\ Tail(s) \in Seq(S) /\ Len(Tail(s)) = Len(s) - 1 /\ Len(s) \in Nat \ {0}
      /\ DOMAIN Tail(s) = 1 .. Len(s) - 1 /\ DOMAIN s = 1 .. Len(s)
      /\ \A i \in 1 .. Len(s) - 1 : Tail(s)[i] = s[i + 1]
      /\ Head(s) = s[1] /\ Head(s) \in S
  OBVIOUS
<1>2. Range(s) = Range(Tail(s)) \cup {Head(s)}
  <2>1. \A i \in 1 .. Len(s) - 1 : i + 1 \in 1 .. Len(s)
    BY <1>1
  <2>2. \A i \in 1 .. Len(s) : i = 1 \/ (i - 1 \in 1 .. Len(s) - 1 /\ (i - 1) + 1 = i)
    BY <1>1
  <2>3. Range(s) \subseteq Range(Tail(s)) \cup {Head(s)}
    <3> SUFFICES ASSUME NEW i \in 1 .. Len(s) PROVE s[i] \in Range(Tail(s)) \cup {Head(s)}
      BY <1>1 DEF Range
    <3>1. CASE i = 1
      BY <1>1, <3>1
    <3>2. CASE i - 1 \in 1 .. Len(s) - 1 /\ (i - 1) + 1 = i
      <4>1. Tail(s)[i - 1] = s[i]
        BY <1>1, <3>2
      <4> QED BY <1>1, <3>2, <4>1 DEF Range
    <3> QED BY <2>2, <3>1, <3>2
  <2>4. Range(Tail(s)) \cup {Head(s)} \subseteq Range(s)
    BY <1>1, <2>1 DEF Range
  <2> QED BY <2>3, <2>4
<1> QED BY <1>1, <1>2

\* A part of the log in order: it has all of the part, each line once.
LEMMA AscendingPart ==
    ASSUME NEW lo \in Nat, NEW hi \in Nat
    PROVE  LET S == {m \in 1 .. hi : m > lo}
               s == Ascending(S)
           IN  /\ s \in Seq(Nat) /\ Range(s) = S
               /\ \A i, j \in DOMAIN s : i < j => s[i] < s[j]
               /\ S = {} => s = <<>>
               /\ S # {} => s # <<>> /\ s[Len(s)] = hi
<1> DEFINE S == {m \in 1 .. hi : m > lo}
           s == Ascending(S)
           k == IF lo < hi THEN hi - lo ELSE 0
<1>1. S = (lo + 1) .. hi
  OBVIOUS
<1>2. IsFiniteSet(S) /\ Cardinality(S) = k /\ k \in Nat
  <2>1. lo + 1 \in Int /\ hi \in Int
    OBVIOUS
  <2>2. IsFiniteSet((lo + 1) .. hi) /\ Cardinality((lo + 1) .. hi) = IF lo + 1 > hi THEN 0 ELSE hi - (lo + 1) + 1
    BY <2>1, FS_Interval
  <2> HIDE DEF S
  <2> QED BY <1>1, <2>2
<1>3. \E t \in [1 .. k -> S] : \A i, j \in DOMAIN t : i < j => t[i] < t[j]
  <2> DEFINE t == [i \in 1 .. k |-> lo + i]
  <2>1. t \in [1 .. k -> S]
    BY <1>1
  <2>2. \A i, j \in DOMAIN t : i < j => t[i] < t[j]
    BY <1>2
  <2> HIDE DEF t
  <2> QED BY <2>1, <2>2
<1>4. s \in [1 .. k -> S] /\ \A i, j \in DOMAIN s : i < j => s[i] < s[j]
  BY <1>2, <1>3 DEF Ascending
<1> HIDE DEF s
<1>5. s \in Seq(Nat) /\ s \in Seq(S) /\ Len(s) = k /\ DOMAIN s = 1 .. k
  BY <1>1, <1>2, <1>4
<1>6. Range(s) = S
  <2>1. s \in Injection(1 .. k, S)
    <3>1. \A i, j \in 1 .. k : s[i] \in Nat /\ s[j] \in Nat /\ (i = j \/ i < j \/ j < i)
      BY <1>2, <1>4
    <3> QED BY <1>4, <3>1 DEF Injection, IsInjective
  <2>2. IsFiniteSet(1 .. k) /\ Cardinality(1 .. k) = k
    BY <1>2, FS_Interval
  <2>3. s \in Surjection(1 .. k, S)
    BY <1>2, <2>1, <2>2, FS_Injection
  <2> QED BY <1>4, <2>3 DEF Surjection, Range
<1>7. S = {} => s = <<>>
  BY <1>1, <1>2, <1>5
<1>8. ASSUME S # {} PROVE s # <<>> /\ s[Len(s)] = hi
  <2>1. k \in Nat \ {0} /\ hi \in S
    BY <1>1, <1>2, <1>8
  <2>2. PICK i \in 1 .. k : s[i] = hi
    BY <1>5, <1>6, <2>1 DEF Range
  <2>3. s[k] <= hi
    BY <1>1, <1>4, <2>1
  <2>4. i = k
    BY <1>4, <2>1, <2>2, <2>3
  <2> QED BY <1>5, <2>1, <2>2, <2>4
<1> QED BY <1>4, <1>5, <1>6, <1>7, <1>8 DEF s
\* A log that grows does not get shorter.
LEMMA LogGrows == ASSUME IInv, IInv', log \subseteq log' PROVE Top <= Top' /\ Top \in Nat /\ Top' \in Nat
<1>1. log = 1 .. Top /\ log' = 1 .. Top' /\ Top \in Nat /\ Top' \in Nat
  BY DEF IInv, NumberInv
<1>2. CASE Top = 0
  BY <1>1, <1>2
<1>3. CASE Top # 0
  <2>1. Top \in log
    BY <1>1, <1>3
  <2> QED BY <1>1, <2>1
<1> QED BY <1>1, <1>2, <1>3

\* What the appenders do: a line that is stored waits to be published.
LEMMA LogStep ==
    ASSUME IInv, IInv', ReadInv,
           UNCHANGED <<final, outcome, streamVars, browserVars, followVars, unheard, connects>>,
           calls' \in [Appenders -> 0 .. Max({1, MaxLines})], done' \in BOOLEAN,
           log \subseteq log', Publishing \subseteq Publishing', Publishing' \subseteq log',
           faults' = 0 => faults = 0 /\ log' \subseteq log \cup Publishing'
    PROVE  ReadInv'
<1>1. UNCHANGED <<final, outcome, conn, ch, maxSeq, wire, seen, shown, follow, cur, printed, unheard,
                  connects>>
  BY DEF streamVars, browserVars, followVars
<1>2. Top <= Top' /\ Top \in Nat /\ Top' \in Nat
  BY LogGrows
<1>3. ReadTypeOK'
  BY <1>1 DEF ReadInv, ReadTypeOK
<1>4. FollowInv'
  BY <1>1, <1>2 DEF ReadInv, ReadTypeOK, FollowInv
<1>5. StreamInv'
  BY <1>1 DEF ReadInv, StreamInv
<1>6. SeamInv'
  <2> SUFFICES ASSUME faults' = 0 PROVE SeenInv' /\ QueueInv' /\ SeamExact'
    BY DEF SeamInv
  <2>1. SeenInv /\ QueueInv /\ SeamExact /\ faults = 0
    BY DEF ReadInv, SeamInv
  <2>2. SeenInv'
    BY <1>1, <2>1 DEF SeenInv
  <2>3. QueueInv'
    BY <1>1, <2>1 DEF QueueInv, Dropped, Past
  <2>4. SeamExact'
    BY <1>1, <2>1 DEF SeamExact, OnItsWay, Past, Publishing
  <2> QED BY <2>2, <2>3, <2>4
<1> QED BY <1>3, <1>4, <1>5, <1>6 DEF ReadInv

\* One appender's step: the others publish what they did.
LEMMA OthersPublish ==
    ASSUME NEW a \in Appenders, at[a] # "publish",
           at \in [Appenders -> Stages], mine \in [Appenders -> Nat],
           NEW where, NEW n, at' = [at EXCEPT ![a] = where],
           mine' = mine \/ mine' = [mine EXCEPT ![a] = n]
    PROVE  /\ Publishing \subseteq Publishing'
           /\ where # "publish" => Publishing' = Publishing
           /\ where = "publish" => Publishing' = Publishing \cup {mine'[a]}
<1>1. \A b \in Appenders : at'[b] = (IF b = a THEN where ELSE at[b])
  OBVIOUS
<1>2. \A b \in Appenders \ {a} : mine'[b] = mine[b]
  OBVIOUS
<1> QED BY <1>1, <1>2 DEF Publishing

\* What a step of one appender that keeps to these has to show of the log.
LEMMA AppenderStep ==
    ASSUME IInv, IInv', ReadInv, NEW a \in Appenders, at[a] # "publish",
           NEW where, at' = [at EXCEPT ![a] = where],
           \E n : mine' = mine \/ mine' = [mine EXCEPT ![a] = n],
           calls' = calls \/ \E n \in 0 .. Max({1, MaxLines}) : calls' = [calls EXCEPT ![a] = n],
           UNCHANGED <<final, outcome, done, streamVars, browserVars, followVars, unheard, connects>>,
           log \subseteq log', where = "publish" => mine'[a] \in log',
           \/ faults' = faults + 1
           \/ faults' = faults /\ log' \subseteq IF where = "publish" THEN log \cup {mine'[a]} ELSE log
    PROVE  ReadInv'
<1>1. at \in [Appenders -> Stages] /\ mine \in [Appenders -> Nat] /\ faults \in Nat
  BY DEF IInv, AppendTypeOK, Stages
<1>2. /\ Publishing \subseteq Publishing'
      /\ where # "publish" => Publishing' = Publishing
      /\ where = "publish" => Publishing' = Publishing \cup {mine'[a]}
  BY <1>1, OthersPublish
<1>3. Publishing \subseteq log
  BY DEF ReadInv, StreamInv
<1>4. calls' \in [Appenders -> 0 .. Max({1, MaxLines})] /\ done' \in BOOLEAN
  BY DEF ReadInv, ReadTypeOK
<1>5. Publishing' \subseteq log'
  BY <1>2, <1>3
<1>6. faults' = 0 => faults = 0 /\ log' \subseteq log \cup Publishing'
  BY <1>1, <1>2
<1> QED BY <1>2, <1>4, <1>5, <1>6, LogStep

\* What is delivered stays in order while the writers write,
LEMMA WriterReads ==
    ASSUME IInv, IInv', ReadInv, NEW w \in Writers,
           StartLog(w) \/ InsertStores(w) \/ InsertFails(w) \/ InsertTaken(w) \/ CatchUp(w)
    PROVE  ReadInv'
<1>1. w \in Appenders
  BY DEF Appenders
<1>2. CASE StartLog(w)
  <2>1. /\ at[w] = "idle" /\ at' = [at EXCEPT ![w] = "insert"]
        /\ calls[w] < Allowed(w) /\ calls' = [calls EXCEPT ![w] = calls[w] + 1]
        /\ UNCHANGED <<log, mine, final, outcome, done, streamVars, browserVars, followVars, unheard,
                       connects, faults>>
    BY <1>2 DEF StartLog
  <2>2. calls[w] + 1 \in 0 .. Max({1, MaxLines})
    BY <1>1, <2>1, BoundTypes DEF ReadInv, ReadTypeOK, Allowed
  <2>3. \E n \in 0 .. Max({1, MaxLines}) : calls' = [calls EXCEPT ![w] = n]
    BY <2>1, <2>2
  <2> QED BY <1>1, <2>1, <2>3, AppenderStep
<1>3. CASE InsertStores(w)
  <2>1. /\ at[w] \in {"insert", "again"} /\ at' = [at EXCEPT ![w] = "publish"]
        /\ log' = log \cup {seq + 1} /\ mine' = [mine EXCEPT ![w] = seq + 1]
        /\ UNCHANGED <<calls, final, outcome, done, streamVars, browserVars, followVars, unheard,
                       connects, faults>>
    BY <1>3 DEF InsertStores, EndCall
  <2>2. mine'[w] = seq + 1
    BY <1>1, <2>1 DEF IInv, AppendTypeOK
  <2>3. mine'[w] \in log' /\ log \subseteq log' /\ log' \subseteq log \cup {mine'[w]}
    BY <2>1, <2>2
  <2>4. (\E n : mine' = mine \/ mine' = [mine EXCEPT ![w] = n]) /\ at[w] # "publish"
    BY <2>1
  <2> QED BY <1>1, <2>1, <2>3, <2>4, AppenderStep
<1>4. CASE InsertFails(w)
  <2>1. /\ at[w] \in {"insert", "again"} /\ at' = [at EXCEPT ![w] = "idle"]
        /\ log \subseteq log' /\ faults' = faults + 1
        /\ UNCHANGED <<mine, calls, final, outcome, done, streamVars, browserVars, followVars, unheard,
                       connects>>
    BY <1>4 DEF InsertFails, EndCall, Fault
  <2> QED BY <1>1, <2>1, AppenderStep
<1>5. CASE InsertTaken(w)
  <2>1. /\ at[w] \in {"insert", "again"} /\ at' = [at EXCEPT ![w] = AfterTaken(w).at]
        /\ UNCHANGED <<log, mine, calls, final, outcome, done, streamVars, browserVars, followVars,
                       unheard, connects, faults>>
    BY <1>5 DEF InsertTaken
  <2>2. AfterTaken(w).at # "publish"
    BY DEF AfterTaken
  <2> QED BY <1>1, <2>1, <2>2, AppenderStep
<1>6. CASE CatchUp(w)
  <2>1. /\ at[w] = "catchup" /\ \E where \in {"again", "idle"} : at' = [at EXCEPT ![w] = where]
        /\ faults' = faults \/ faults' = faults + 1
        /\ UNCHANGED <<log, mine, calls, final, outcome, done, streamVars, browserVars, followVars,
                       unheard, connects>>
    BY <1>6 DEF CatchUp, EndCall, Fault
  <2> QED BY <1>1, <2>1, AppenderStep
<1> QED BY <1>2, <1>3, <1>4, <1>5, <1>6

\* while other processes append,
LEMMA OtherReads ==
    ASSUME IInv, IInv', ReadInv, NEW o \in Others,
           AppendRead(o) \/ AppendInsert(o) \/ AppendFails(o)
    PROVE  ReadInv'
<1>1. o \in Appenders
  BY DEF Appenders
<1>2. CASE AppendRead(o)
  <2>1. /\ at[o] = "idle" /\ at' = [at EXCEPT ![o] = "append"]
        /\ mine' = [mine EXCEPT ![o] = Top + 1] /\ calls' = [calls EXCEPT ![o] = 1]
        /\ UNCHANGED <<log, final, outcome, done, streamVars, browserVars, followVars, unheard,
                       connects, faults>>
    BY <1>2 DEF AppendRead, handleVars
  <2>2. 1 \in 0 .. Max({1, MaxLines})
    BY BoundTypes
  <2> QED BY <1>1, <2>1, <2>2, AppenderStep
<1>3. CASE AppendInsert(o)
  <2>1. /\ at[o] = "append"
        /\ \/ at' = [at EXCEPT ![o] = "idle"] /\ log' = log
           \/ at' = [at EXCEPT ![o] = "publish"] /\ log' = log \cup {mine[o]}
        /\ UNCHANGED <<mine, calls, final, outcome, done, streamVars, browserVars, followVars, unheard,
                       connects, faults>>
    BY <1>3 DEF AppendInsert, handleVars
  <2> QED BY <1>1, <2>1, AppenderStep
<1>4. CASE AppendFails(o)
  <2>1. /\ at[o] = "append" /\ at' = [at EXCEPT ![o] = "idle"]
        /\ log \subseteq log' /\ faults' = faults + 1
        /\ UNCHANGED <<mine, calls, final, outcome, done, streamVars, browserVars, followVars, unheard,
                       connects>>
    BY <1>4 DEF AppendFails, Fault, handleVars
  <2> QED BY <1>1, <2>1, AppenderStep
<1> QED BY <1>2, <1>3, <1>4

\* A published line is queued, or known not to come.
LEMMA PublishReads == ASSUME IInv, IInv', ReadInv, NEW a \in Appenders, Publish(a) PROVE ReadInv'
<1> DEFINE n == mine[a]
<1>1. /\ at[a] = "publish" /\ at' = [at EXCEPT ![a] = "idle"] /\ mine' = [mine EXCEPT ![a] = 0]
      /\ ch' = IF a \in InServer /\ Subscribed /\ Len(ch) < Buffer THEN Append(ch, n) ELSE ch
      /\ unheard' = IF Missed(a, n) THEN unheard \cup ({n} \ shown) ELSE unheard
      /\ UNCHANGED <<log, final, outcome, done, calls, conn, maxSeq, wire, seen, shown, follow, cur,
                     printed, connects, faults>>
  BY DEF Publish, Send, handleVars, browserVars, followVars
<1>2. /\ at \in [Appenders -> Stages] /\ mine \in [Appenders -> Nat] /\ n \in Nat
      /\ Top' = Top /\ log \subseteq Nat \ {0}
  BY <1>1 DEF IInv, AppendTypeOK, Top, Stages, Appenders
<1>3. n \in log /\ Publishing' \subseteq Publishing /\ Publishing \subseteq Publishing' \cup {n}
  <2>1. \A b \in Appenders \ {a} : at'[b] = at[b] /\ mine'[b] = mine[b]
    BY <1>1, <1>2
  <2>2. at'[a] # "publish"
    BY <1>1, <1>2
  <2> QED BY <1>1, <2>1, <2>2 DEF Publishing, ReadInv, StreamInv
<1>4. /\ ch \in Seq(Nat) /\ Len(ch) <= Buffer /\ Len(ch) \in Nat /\ Buffer \in Nat
      /\ DOMAIN ch = 1 .. Len(ch)
  <2>1. ch \in Seq(Nat) /\ Len(ch) <= Buffer /\ Buffer \in Nat
    BY BoundTypes DEF ReadInv, ReadTypeOK
  <2> QED BY <2>1
<1>5. \/ ch' = ch
      \/ /\ a \in InServer /\ conn # "off" /\ Len(ch) < Buffer /\ ch' = Append(ch, n)
         /\ ch' \in Seq(Nat) /\ Len(ch') = Len(ch) + 1 /\ DOMAIN ch' = 1 .. Len(ch) + 1
         /\ \A i \in 1 .. Len(ch) : ch'[i] = ch[i]
         /\ ch'[Len(ch) + 1] = n /\ Range(ch') = Range(ch) \cup {n}
  <2>1. CASE a \in InServer /\ conn # "off" /\ Len(ch) < Buffer
    <3>1. ch' = Append(ch, n)
      BY <1>1, <2>1 DEF Subscribed
    <3>2. ch \in Seq(Nat) /\ n \in Nat
      BY <1>2, <1>4
    <3> HIDE DEF n
    <3>3. /\ Append(ch, n) \in Seq(Nat) /\ Len(Append(ch, n)) = Len(ch) + 1
          /\ DOMAIN Append(ch, n) = 1 .. Len(ch) + 1
          /\ \A i \in 1 .. Len(ch) : Append(ch, n)[i] = ch[i]
          /\ Append(ch, n)[Len(ch) + 1] = n
          /\ Range(Append(ch, n)) = Range(ch) \cup {n}
      BY <3>2, Appended
    <3> QED BY <2>1, <3>1, <3>3
  <2>2. CASE ~(a \in InServer /\ conn # "off" /\ Len(ch) < Buffer)
    BY <1>1, <2>2 DEF Subscribed
  <2> QED BY <2>1, <2>2
<1>6. ReadTypeOK'
  <2>1. ch' \in Seq(Nat) /\ Len(ch') <= Buffer
    BY <1>4, <1>5
  <2>2. unheard' \subseteq Nat
    BY <1>1, <1>2 DEF ReadInv, ReadTypeOK
  <2> QED BY <1>1, <2>1, <2>2 DEF ReadInv, ReadTypeOK
<1>7. FollowInv'
  BY <1>1, <1>2 DEF ReadInv, FollowInv
<1>8. StreamInv'
  <2>1. Range(ch') \subseteq log'
    BY <1>1, <1>3, <1>5 DEF ReadInv, StreamInv
  <2>2. conn' = "off" => ch' = <<>>
    BY <1>1, <1>5 DEF ReadInv, StreamInv
  <2> QED BY <1>1, <1>3, <2>1, <2>2 DEF ReadInv, StreamInv
<1>9. SeamInv'
  <2> SUFFICES ASSUME faults' = 0 PROVE SeenInv' /\ QueueInv' /\ SeamExact'
    BY DEF SeamInv
  <2>1. SeenInv /\ QueueInv /\ SeamExact /\ faults = 0
    BY <1>1 DEF ReadInv, SeamInv
  <2>2. seen \in Nat /\ maxSeq \in Nat /\ seen \in {0} \cup shown /\ n # 0
    BY <1>2, <1>3 DEF ReadInv, ReadTypeOK, StreamInv
  <2>3. Missed(a, n) => n \in shown \cup unheard'
    BY <1>1
  <2>4. n <= seen => n \in shown \cup unheard'
    BY <1>2, <2>2, <2>3 DEF Missed
  <2>5. SeenInv'
    BY <1>1, <1>3, <2>1, <2>4 DEF SeenInv
  <2>6. Past => n \in shown \cup unheard' \cup Range(ch')
    <3>1. CASE ch' = ch
      <4>1. Past => Missed(a, n)
        <5>1. Past => Subscribed
          BY DEF Past, Subscribed
        <5>2. ASSUME a \in InServer, Subscribed, Len(ch) < Buffer PROVE FALSE
          <6>1. ch' = Append(ch, n)
            BY <1>1, <5>2
          <6>2. Len(ch') = Len(ch) + 1
            BY <1>2, <1>4, <6>1, Appended
          <6> QED BY <1>4, <3>1, <6>2
        <5> QED BY <1>4, <5>1, <5>2 DEF Missed
      <4> QED BY <2>3, <4>1
    <3>2. CASE ch' # ch
      BY <1>5, <3>2
    <3> QED BY <3>1, <3>2
  <2>7. SeamExact'
    BY <1>1, <1>3, <1>5, <2>1, <2>6 DEF SeamExact, OnItsWay, Past, Publishing
  <2>8. \A i \in DOMAIN ch : Dropped(i) => ch[i] \in shown \cup Range(wire) \cup unheard'
    BY <1>1, <2>1 DEF QueueInv
  <2>9. conn # "off" /\ n <= maxSeq => n \in shown \cup Range(wire) \cup unheard'
    <3>1. CASE conn = "joined"
      BY <2>4, <3>1 DEF ReadInv, StreamInv
    <3>2. CASE Past /\ n < maxSeq
      BY <2>3, <3>2 DEF Missed, Overtaken
    <3>3. CASE Past /\ n = maxSeq
      <4>1. wire = <<>> => n \in shown
        BY <2>2, <3>3 DEF ReadInv, StreamInv, Past
      <4>2. wire # <<>> => n \in Range(wire)
        <5>1. wire \in Seq(Nat)
          BY DEF ReadInv, ReadTypeOK
        <5>2. wire # <<>> => Len(wire) \in DOMAIN wire
          BY <5>1
        <5> QED BY <3>3, <5>2 DEF ReadInv, StreamInv, Past, Range
      <4> QED BY <4>1, <4>2
    <3> QED BY <1>2, <2>2, <3>1, <3>2, <3>3 DEF ReadInv, ReadTypeOK, Past
  <2>10. Past /\ (\E j \in DOMAIN ch : n < ch[j]) => n \in shown \cup unheard'
    BY <2>3 DEF Missed, Overtaken
  <2>11. QueueInv'
    <3> SUFFICES ASSUME NEW i \in DOMAIN ch', Dropped(i)'
                 PROVE  ch'[i] \in shown \cup Range(wire) \cup unheard'
      BY <1>1 DEF QueueInv
    <3>1. CASE ch' = ch
      BY <1>1, <2>8, <3>1 DEF Dropped, Past
    <3>2. CASE ch' # ch /\ i = Len(ch) + 1
      <4>1. ch'[i] = n /\ conn # "off"
        BY <1>5, <3>2
      <4>2. \A j \in DOMAIN ch' : j < i => j \in DOMAIN ch /\ ch'[j] = ch[j]
        BY <1>4, <1>5, <3>2
      <4>3. n <= maxSeq \/ (Past /\ \E j \in DOMAIN ch : n < ch[j])
        BY <1>1, <4>1, <4>2 DEF Dropped, Past
      <4> QED BY <2>9, <2>10, <4>1, <4>3
    <3>3. CASE ch' # ch /\ i # Len(ch) + 1
      <4>1. i \in DOMAIN ch /\ ch'[i] = ch[i]
        BY <1>4, <1>5, <3>3
      <4>2. \A j \in DOMAIN ch' : j < i => j \in DOMAIN ch /\ ch'[j] = ch[j]
        BY <1>4, <1>5, <3>3
      <4>3. Dropped(i)
        BY <1>1, <4>1, <4>2 DEF Dropped, Past
      <4> QED BY <2>8, <4>1, <4>3
    <3> QED BY <3>1, <3>2, <3>3
  <2> QED BY <2>5, <2>7, <2>11
<1> QED BY <1>6, <1>7, <1>8, <1>9 DEF ReadInv
\* The steps that leave the log alone, and the stream and its browser.
LEMMA StreamFrame ==
    ASSUME IInv, ReadInv, UNCHANGED <<log, at, mine, streamVars, browserVars, unheard>>,
           faults' = faults \/ faults' = faults + 1
    PROVE  StreamInv' /\ SeamInv'
<1>1. UNCHANGED <<conn, ch, maxSeq, wire, seen, shown>>
  BY DEF streamVars, browserVars
<1>2. Publishing' = Publishing
  BY DEF Publishing
<1>3. StreamInv'
  BY <1>1, <1>2 DEF ReadInv, StreamInv
<1>4. SeamInv'
  <2>1. faults' = 0 => faults = 0
    BY DEF IInv, AppendTypeOK
  <2>2. SeenInv => SeenInv'
    BY <1>1, <1>2 DEF SeenInv
  <2>3. QueueInv => QueueInv'
    BY <1>1 DEF QueueInv, Dropped, Past
  <2>4. faults = 0 /\ SeamExact => SeamExact'
    BY <1>1 DEF SeamExact, OnItsWay, Past
  <2> QED BY <2>1, <2>2, <2>3, <2>4 DEF ReadInv, SeamInv
<1> QED BY <1>3, <1>4

\* as the run ends,
LEMMA EndReads == ASSUME IInv, ReadInv, Finalize \/ SetDone PROVE ReadInv'
<1>1. /\ UNCHANGED <<log, at, mine, calls, streamVars, browserVars, follow, cur, printed, unheard, connects, faults>>
      /\ done' \in BOOLEAN
      /\ \/ final' = final /\ outcome' = outcome
         \/ ~final /\ final' = TRUE /\ outcome' = Top
  BY DEF Finalize, SetDone, callVars, followVars, handleVars, ReadInv, ReadTypeOK
<1>2. Top' = Top /\ Top \in Nat
  BY <1>1 DEF Top, IInv, NumberInv
<1>3. UNCHANGED <<conn, ch, maxSeq, wire, seen, shown>>
  BY <1>1 DEF streamVars, browserVars
<1>4. ReadTypeOK'
  BY <1>1, <1>2, <1>3 DEF ReadInv, ReadTypeOK
<1>5. FollowInv'
  BY <1>1, <1>2 DEF ReadInv, FollowInv
<1> QED BY <1>1, <1>4, <1>5, StreamFrame DEF ReadInv

\* One reading of the log by --follow: the lines up to n, which without a fault
\* are all of them.
LEMMA PrintsPrefix ==
    ASSUME IInv, ReadInv, PrintNew
    PROVE  /\ cur' \in Nat /\ cur <= cur' /\ printed' = 1 .. cur'
           /\ faults' = faults \/ faults' = faults + 1
           /\ faults' = faults => Top <= cur'
<1>1. PICK n \in 0 .. Top :
          /\ IF n = Top THEN UNCHANGED faults ELSE Fault
          /\ printed' = printed \cup {m \in UpTo(log, n) : m > cur}
          /\ cur' = Max({m \in UpTo(log, n) : m > cur} \cup {cur})
  BY DEF PrintNew
<1>2. /\ log = 1 .. Top /\ Top \in Nat /\ cur \in Nat /\ printed = 1 .. cur /\ n \in Nat
      /\ faults \in Nat
  BY DEF IInv, AppendTypeOK, NumberInv, ReadInv, ReadTypeOK, FollowInv
<1>3. {m \in UpTo(log, n) : m > cur} = {m \in 1 .. n : m > cur}
  BY <1>2 DEF UpTo
<1>4. cur' = IF n > cur THEN n ELSE cur
  <2> DEFINE S == {m \in 1 .. n : m > cur} \cup {cur}
  <2>1. cur' = Max(S)
    BY <1>1, <1>3
  <2>2. CASE n > cur
    <3>1. S \in SUBSET Nat /\ n \in S /\ \A y \in S : y <= n
      BY <1>2, <2>2
    <3> HIDE DEF S
    <3> QED BY <2>1, <2>2, <3>1, MaxIs
  <2>3. CASE ~(n > cur)
    <3>1. S \in SUBSET Nat /\ cur \in S /\ \A y \in S : y <= cur
      BY <1>2, <2>3
    <3> HIDE DEF S
    <3> QED BY <2>1, <2>3, <3>1, MaxIs
  <2> QED BY <2>2, <2>3
<1>5. printed' = 1 .. cur'
  <2>1. printed' = (1 .. cur) \cup {m \in 1 .. n : m > cur}
    BY <1>1, <1>2, <1>3
  <2> QED BY <1>2, <1>4, <2>1
<1>6. faults' = faults \/ faults' = faults + 1
  BY <1>1 DEF Fault
<1>7. faults' = faults => n = Top
  BY <1>1, <1>2 DEF Fault
<1> QED BY <1>2, <1>4, <1>5, <1>6, <1>7

\* as the follower prints what it reads,
LEMMA FollowReads == ASSUME IInv, ReadInv, FollowPrint \/ FollowStatus \/ FollowLast PROVE ReadInv'
<1>1. UNCHANGED <<log, final, outcome, at, mine, calls, done, streamVars, browserVars, unheard, connects>>
  BY DEF FollowPrint, FollowStatus, FollowLast, callVars, handleVars
<1>2. Top' = Top /\ Top \in Nat /\ faults \in Nat
  BY <1>1 DEF Top, IInv, NumberInv, AppendTypeOK
<1>3. /\ cur' \in Nat /\ printed' = 1 .. cur'
      /\ faults' = faults \/ faults' = faults + 1
      /\ follow' \in {"print", "status", "last", "returned", "failed"}
      /\ follow' = "last" => final
      /\ follow' = "returned" => follow = "last" /\ (faults' = faults => Top <= cur')
  <2>1. CASE FollowPrint
    BY <2>1, PrintsPrefix DEF FollowPrint, Fault, ReadInv, ReadTypeOK, FollowInv
  <2>2. CASE FollowStatus
    BY <2>2 DEF FollowStatus, AfterStatus, ReadInv, ReadTypeOK, FollowInv
  <2>3. CASE FollowLast
    BY <2>3, PrintsPrefix DEF FollowLast
  <2> QED BY <2>1, <2>2, <2>3
<1>4. UNCHANGED <<conn, ch, maxSeq, wire, seen, shown>>
  BY <1>1 DEF streamVars, browserVars
<1>5. ReadTypeOK'
  <2>1. printed' \subseteq Nat
    BY <1>3
  <2> QED BY <1>1, <1>3, <1>4, <2>1 DEF ReadInv, ReadTypeOK
<1>6. FollowInv'
  BY <1>1, <1>2, <1>3 DEF ReadInv, ReadTypeOK, FollowInv
<1> QED BY <1>1, <1>3, <1>5, <1>6, StreamFrame DEF ReadInv

-----------------------------------------------------------------------------
(* The steps of the stream and of its browser.                             *)

\* They do not disturb what the others rely on.
LEMMA FollowFrame ==
    ASSUME IInv, ReadInv, UNCHANGED <<log, final, outcome, followVars, at, mine, calls, done>>,
           faults' = faults \/ faults' = faults + 1
    PROVE  FollowInv' /\ Publishing' = Publishing
<1>1. Top' = Top
  BY DEF Top
<1> QED BY <1>1 DEF ReadInv, FollowInv, followVars, IInv, AppendTypeOK, Publishing

\* as a page connects,
LEMMA ConnectReads == ASSUME IInv, ReadInv, Connect PROVE ReadInv'
<1>1. /\ conn = "off" /\ conn' = "joined" /\ maxSeq' = seen' /\ connects' = connects + 1
      /\ \/ seen' = seen /\ shown' = shown
         \/ seen' = 0 /\ shown' = {}
      /\ UNCHANGED <<log, final, outcome, followVars, at, mine, calls, done, ch, wire, unheard, faults>>
  BY DEF Connect, handleVars, callVars, browserVars
<1>2. FollowInv' /\ Publishing' = Publishing
  BY <1>1, FollowFrame
<1>3. UNCHANGED <<follow, cur, printed>>
  BY <1>1 DEF followVars
<1>4. ReadTypeOK'
  <2>1. seen \in Nat /\ shown \subseteq Nat /\ connects \in Nat
    BY DEF ReadInv, ReadTypeOK
  <2>2. connects' \in Nat
    BY <1>1, <2>1
  <2>3. CASE seen' = seen /\ shown' = shown
    BY <1>1, <1>3, <2>1, <2>2, <2>3 DEF ReadInv, ReadTypeOK
  <2>4. CASE seen' = 0 /\ shown' = {}
    <3>1. seen' \in Nat /\ shown' \subseteq Nat
      BY <2>4
    <3> QED BY <1>1, <1>3, <2>2, <3>1 DEF ReadInv, ReadTypeOK
  <2> QED BY <1>1, <2>3, <2>4
<1>5. ch = <<>> /\ wire = <<>>
  BY <1>1 DEF ReadInv, StreamInv
<1>6. DOMAIN ch = {} /\ DOMAIN wire = {}
  BY <1>5
<1>7. StreamInv'
  BY <1>1, <1>2, <1>5, <1>6 DEF ReadInv, StreamInv
<1>8. SeamInv'
  <2> SUFFICES ASSUME faults' = 0 PROVE SeenInv' /\ QueueInv' /\ SeamExact'
    BY DEF SeamInv
  <2>1. SeenInv
    BY <1>1 DEF ReadInv, SeamInv
  <2>2. log \subseteq Nat \ {0}
    BY DEF IInv, AppendTypeOK
  <2>3. SeenInv'
    BY <1>1, <1>2, <2>1, <2>2 DEF SeenInv
  <2> QED BY <1>1, <1>6, <2>3 DEF QueueInv, SeamExact, Past
<1> QED BY <1>2, <1>4, <1>7, <1>8 DEF ReadInv

\* What is dropped with the connection the browser asks for again, but for what
\* it has gone past.
LEMMA DisconnectReads == ASSUME IInv, ReadInv, Disconnect PROVE ReadInv'
<1>1. /\ conn' = "off" /\ ch' = <<>> /\ wire' = <<>>
      /\ UNCHANGED <<log, final, outcome, followVars, at, mine, calls, done, maxSeq, seen, shown, unheard,
                     connects, faults>>
  BY DEF Disconnect, handleVars, callVars, browserVars
<1>2. FollowInv' /\ Publishing' = Publishing
  BY <1>1, FollowFrame
<1>3. UNCHANGED <<follow, cur, printed>>
  BY <1>1 DEF followVars
<1>4. DOMAIN ch' = {} /\ DOMAIN wire' = {} /\ ch' \in Seq(Nat) /\ wire' \in Seq(Nat)
      /\ Len(ch') <= Buffer
  <2>1. Buffer \in Nat
    BY BoundsAssumption
  <2> QED BY <1>1, <2>1
<1>5. ReadTypeOK'
  BY <1>1, <1>3, <1>4 DEF ReadInv, ReadTypeOK
<1>6. StreamInv'
  BY <1>1, <1>2, <1>4 DEF ReadInv, StreamInv, Range
<1>7. SeamInv'
  BY <1>1, <1>2, <1>4 DEF ReadInv, SeamInv, SeenInv, QueueInv, SeamExact, Past
<1> QED BY <1>2, <1>5, <1>6, <1>7 DEF ReadInv

\* and as it goes over to the live tail.
LEMMA StartTailReads == ASSUME IInv, ReadInv, StartTail PROVE ReadInv'
<1>1. /\ conn = "replayed" /\ conn' = "tail"
      /\ UNCHANGED <<log, final, outcome, followVars, at, mine, calls, done, ch, maxSeq, wire, seen, shown,
                     unheard, connects, faults>>
  BY DEF StartTail, handleVars, callVars, browserVars
<1>2. FollowInv' /\ Publishing' = Publishing
  BY <1>1, FollowFrame
<1>3. UNCHANGED <<follow, cur, printed>>
  BY <1>1 DEF followVars
<1>4. ReadTypeOK'
  BY <1>1, <1>3 DEF ReadInv, ReadTypeOK
<1>5. StreamInv'
  BY <1>1, <1>2 DEF ReadInv, StreamInv
<1>6. SeamInv'
  <2>1. Past /\ Past'
    BY <1>1 DEF Past
  <2>2. SeenInv => SeenInv'
    BY <1>1, <1>2 DEF SeenInv
  <2>3. QueueInv => QueueInv'
    BY <1>1, <2>1 DEF QueueInv, Dropped
  <2>4. SeamExact => SeamExact'
    BY <1>1, <2>1 DEF SeamExact, OnItsWay
  <2> QED BY <1>1, <2>2, <2>3, <2>4 DEF ReadInv, SeamInv
<1> QED BY <1>2, <1>4, <1>5, <1>6 DEF ReadInv

\* The backlog reaches to the end of the log: whatever the channel has collected
\* was in it.
LEMMA ReplayReads == ASSUME IInv, ReadInv, Replay PROVE ReadInv'
<1>1. PICK n \in 0 .. Top :
          /\ IF n = Top THEN UNCHANGED faults ELSE Fault
          /\ wire' = wire \o Ascending({m \in UpTo(log, n) : m > maxSeq})
          /\ maxSeq' = Max({m \in UpTo(log, n) : m > maxSeq} \cup {maxSeq})
          /\ unheard' = unheard \ {m \in UpTo(log, n) : m > maxSeq}
  BY DEF Replay
<1>2. /\ conn = "joined" /\ conn' = "replayed"
      /\ UNCHANGED <<log, final, outcome, followVars, at, mine, calls, done, ch, seen, shown, connects>>
      /\ faults' = faults \/ faults' = faults + 1
  BY <1>1 DEF Replay, handleVars, callVars, browserVars, Fault
<1>3. /\ log = 1 .. Top /\ Top \in Nat /\ faults \in Nat /\ maxSeq \in Nat /\ n \in Nat /\ seen \in Nat
      /\ maxSeq = seen /\ wire = <<>>
  BY <1>2 DEF IInv, AppendTypeOK, NumberInv, ReadInv, ReadTypeOK, StreamInv
<1> DEFINE B == {m \in 1 .. n : m > seen}
           s == Ascending(B)
<1>4. {m \in UpTo(log, n) : m > maxSeq} = B /\ B \subseteq log
  BY <1>3 DEF UpTo
<1>5. /\ s \in Seq(Nat) /\ Range(s) = B
      /\ \A i, j \in DOMAIN s : i < j => s[i] < s[j]
      /\ B = {} => s = <<>>
      /\ B # {} => s # <<>> /\ s[Len(s)] = n
  BY <1>3, AscendingPart
<1>6. maxSeq' = IF B = {} THEN seen ELSE n
  <2> DEFINE S == B \cup {seen}
  <2>1. maxSeq' = Max(S)
    BY <1>1, <1>3, <1>4
  <2>2. CASE B # {}
    <3>1. S \in SUBSET Nat /\ n \in S /\ \A y \in S : y <= n
      BY <1>3, <2>2
    <3> HIDE DEF S
    <3> QED BY <2>1, <2>2, <3>1, MaxIs
  <2>3. CASE B = {}
    <3>1. S = {seen}
      BY <2>3
    <3>2. {seen} \in SUBSET Nat /\ seen \in {seen} /\ \A y \in {seen} : y <= seen
      BY <1>3
    <3> HIDE DEF S
    <3>3. Max({seen}) = seen
      BY <3>2, MaxIs
    <3> QED BY <2>1, <2>3, <3>1, <3>3
  <2> QED BY <2>2, <2>3
<1>7. n > seen => n \in B
  BY <1>3
<1>8. \A m \in B : m > seen
  OBVIOUS
<1>9. \A m \in log : m <= n => m <= seen \/ m \in B
  BY <1>3
<1> HIDE DEF B, s
<1>10. wire' = s /\ unheard' = unheard \ B
  <2>1. wire' = <<>> \o s /\ unheard' = unheard \ B
    BY <1>1, <1>3, <1>4 DEF s
  <2> QED BY <1>5, <2>1
<1>11. faults' = faults => n = Top
  BY <1>1, <1>3 DEF Fault
<1>12. FollowInv' /\ Publishing' = Publishing
  BY <1>2, FollowFrame
<1>13. ReadTypeOK'
  BY <1>2, <1>3, <1>5, <1>6, <1>10 DEF ReadInv, ReadTypeOK, followVars
<1>14. StreamInv'
  <2>1. \A i \in DOMAIN s : seen < s[i]
    BY <1>5, <1>8 DEF Range
  <2>2. /\ wire' = s /\ conn' = "replayed"
        /\ UNCHANGED <<log, ch, seen, shown>>
    BY <1>2, <1>10
  <2>3. Range(s) \subseteq log
    BY <1>4, <1>5
  <2>4. maxSeq' = IF s = <<>> THEN seen ELSE s[Len(s)]
    BY <1>5, <1>6
  <2> QED BY <1>5, <1>12, <2>1, <2>2, <2>3, <2>4 DEF ReadInv, StreamInv
<1>15. SeamInv'
  <2> SUFFICES ASSUME faults' = 0 PROVE SeenInv' /\ QueueInv' /\ SeamExact'
    BY DEF SeamInv
  <2>1. SeenInv /\ QueueInv /\ n = Top
    BY <1>2, <1>3, <1>11 DEF ReadInv, SeamInv
  <2>2. SeenInv'
    BY <1>2, <1>8, <1>10, <1>12, <1>3, <2>1 DEF SeenInv
  <2>3. \A m \in log : m <= seen \/ m \in B
    BY <1>3, <1>9, <2>1
  <2>4. SeamExact'
    <3>1. \A m \in log : m \in shown \cup (unheard \ B) \cup Publishing \cup B
      BY <2>1, <2>3 DEF SeenInv
    <3> QED BY <1>2, <1>5, <1>10, <1>12, <3>1 DEF SeamExact, OnItsWay, Publishing
  <2>5. QueueInv'
    <3> SUFFICES ASSUME NEW i \in DOMAIN ch PROVE ch[i] \in shown \cup B \cup (unheard \ B)
      BY <1>2, <1>5, <1>10 DEF QueueInv
    <3>1. ch[i] \in log
      BY DEF ReadInv, StreamInv, Range
    <3>2. ch[i] <= seen => ch[i] \in shown \cup unheard
      <4>1. Range(wire) = {}
        BY <1>3 DEF Range
      <4> QED BY <1>3, <2>1, <4>1 DEF QueueInv, Dropped
    <3> QED BY <2>3, <3>1, <3>2
  <2> QED BY <2>2, <2>4, <2>5
<1> QED BY <1>12, <1>13, <1>14, <1>15 DEF ReadInv
\* A queued line goes out, or is dropped because it is not needed; what was queued
\* behind it and is less than it is not needed either.
LEMMA DeliverReads == ASSUME IInv, ReadInv, Deliver PROVE ReadInv'
<1> DEFINE n == Head(ch)
<1>1. /\ conn = "tail" /\ ch # <<>> /\ ch' = Tail(ch)
      /\ \/ n > maxSeq /\ maxSeq' = n /\ wire' = Append(wire, n)
         \/ ~(n > maxSeq) /\ maxSeq' = maxSeq /\ wire' = wire
      /\ UNCHANGED <<log, final, outcome, followVars, at, mine, calls, done, conn, seen, shown, unheard,
                     connects, faults>>
  BY DEF Deliver, Delivers, handleVars, callVars, browserVars
<1>2. FollowInv' /\ Publishing' = Publishing
  BY <1>1, FollowFrame
<1>3. UNCHANGED <<follow, cur, printed>> /\ Past /\ Past'
  BY <1>1 DEF followVars, Past
<1>4. ch \in Seq(Nat) /\ wire \in Seq(Nat) /\ maxSeq \in Nat /\ seen \in Nat
  BY DEF ReadInv, ReadTypeOK
<1>5. /\ Tail(ch) \in Seq(Nat) /\ Len(Tail(ch)) = Len(ch) - 1 /\ Len(ch) \in Nat \ {0}
      /\ DOMAIN Tail(ch) = 1 .. Len(ch) - 1 /\ DOMAIN ch = 1 .. Len(ch)
      /\ \A i \in 1 .. Len(ch) - 1 : Tail(ch)[i] = ch[i + 1]
      /\ n = ch[1] /\ n \in Nat /\ Range(ch) = Range(Tail(ch)) \cup {n}
  BY <1>1, <1>4, Shortened
<1> HIDE DEF n
<1>6. /\ Append(wire, n) \in Seq(Nat) /\ DOMAIN Append(wire, n) = 1 .. Len(wire) + 1
      /\ DOMAIN wire = 1 .. Len(wire) /\ Len(wire) \in Nat
      /\ Len(Append(wire, n)) = Len(wire) + 1
      /\ \A i \in 1 .. Len(wire) : Append(wire, n)[i] = wire[i]
      /\ Append(wire, n)[Len(wire) + 1] = n /\ Range(Append(wire, n)) = Range(wire) \cup {n}
  BY <1>4, <1>5, Appended
<1>7. ReadTypeOK'
  <2>1. ch' \in Seq(Nat) /\ Len(ch') <= Buffer /\ maxSeq' \in Nat /\ wire' \in Seq(Nat)
    <3>1. Buffer \in Nat /\ Len(ch) <= Buffer
      BY BoundsAssumption DEF ReadInv, ReadTypeOK
    <3>2. Len(ch) - 1 <= Buffer
      BY <1>5, <3>1
    <3>3. ch' \in Seq(Nat) /\ Len(ch') <= Buffer
      BY <1>1, <1>5, <3>2
    <3>4. maxSeq' \in Nat /\ wire' \in Seq(Nat)
      BY <1>1, <1>4, <1>5, <1>6
    <3> QED BY <3>3, <3>4
  <2> QED BY <1>1, <1>3, <2>1 DEF ReadInv, ReadTypeOK
<1>8. \A i \in DOMAIN wire : wire[i] <= maxSeq /\ wire[i] \in Nat
  <2> SUFFICES ASSUME NEW i \in DOMAIN wire PROVE wire[i] <= maxSeq /\ wire[i] \in Nat
    OBVIOUS
  <2>1. wire[i] \in Nat /\ i <= Len(wire) /\ wire # <<>> /\ i \in Nat /\ Len(wire) \in DOMAIN wire
    BY <1>4
  <2>2. maxSeq = wire[Len(wire)]
    BY <1>1, <2>1 DEF ReadInv, StreamInv
  <2>3. i = Len(wire) \/ i < Len(wire)
    BY <2>1, <1>6
  <2>4. i < Len(wire) => wire[i] < wire[Len(wire)]
    BY <2>1 DEF ReadInv, StreamInv
  <2> QED BY <1>4, <2>1, <2>2, <2>3, <2>4
<1>9. seen <= maxSeq
  <2>1. CASE wire = <<>>
    BY <1>1, <1>4, <2>1 DEF ReadInv, StreamInv
  <2>2. CASE wire # <<>>
    <3>1. Len(wire) \in DOMAIN wire
      BY <1>4, <2>2
    <3>2. maxSeq = wire[Len(wire)] /\ seen < wire[Len(wire)]
      BY <1>1, <2>2, <3>1 DEF ReadInv, StreamInv
    <3> QED BY <1>4, <3>2
  <2> QED BY <2>1, <2>2
<1>10. StreamInv'
  <2>1. Range(ch') \subseteq log /\ n \in log
    BY <1>1, <1>5 DEF ReadInv, StreamInv
  <2>2. CASE ~(n > maxSeq)
    BY <1>1, <1>2, <2>1, <2>2 DEF ReadInv, StreamInv
  <2>3. CASE n > maxSeq
    <3>1. wire' = Append(wire, n) /\ maxSeq' = n
      BY <1>1, <2>3
    <3>2. Range(wire') \subseteq log
      BY <1>6, <2>1, <3>1 DEF ReadInv, StreamInv
    <3>3. \A i, j \in DOMAIN wire' : i < j => wire'[i] < wire'[j]
      <4> SUFFICES ASSUME NEW i \in DOMAIN wire', NEW j \in DOMAIN wire', i < j
                   PROVE  wire'[i] < wire'[j]
        OBVIOUS
      <4>1. i \in DOMAIN wire /\ wire'[i] = wire[i]
        BY <1>6, <3>1
      <4>2. CASE j = Len(wire) + 1
        BY <1>4, <1>5, <1>6, <1>8, <2>3, <3>1, <4>1, <4>2
      <4>3. CASE j # Len(wire) + 1
        <5>1. j \in DOMAIN wire /\ wire'[j] = wire[j]
          BY <1>6, <3>1, <4>3
        <5> QED BY <4>1, <5>1 DEF ReadInv, StreamInv
      <4> QED BY <4>2, <4>3
    <3>4. \A i \in DOMAIN wire' : seen < wire'[i]
      <4> SUFFICES ASSUME NEW i \in DOMAIN wire' PROVE seen < wire'[i]
        OBVIOUS
      <4>1. CASE i = Len(wire) + 1
        BY <1>4, <1>5, <1>6, <1>9, <2>3, <3>1, <4>1
      <4>2. CASE i # Len(wire) + 1
        <5>1. i \in DOMAIN wire /\ wire'[i] = wire[i]
          BY <1>6, <3>1, <4>2
        <5> QED BY <5>1 DEF ReadInv, StreamInv
      <4> QED BY <4>1, <4>2
    <3>5. wire' # <<>> /\ maxSeq' = wire'[Len(wire')]
      BY <1>6, <3>1
    <3> QED BY <1>1, <1>2, <2>1, <3>2, <3>3, <3>4, <3>5 DEF ReadInv, StreamInv
  <2> QED BY <2>2, <2>3
<1>11. SeamInv'
  <2> SUFFICES ASSUME faults' = 0 PROVE SeenInv' /\ QueueInv' /\ SeamExact'
    BY DEF SeamInv
  <2>1. SeenInv /\ QueueInv /\ SeamExact /\ faults = 0
    BY <1>1 DEF ReadInv, SeamInv
  <2>2. SeenInv'
    BY <1>1, <1>2, <2>1 DEF SeenInv
  <2>3. Range(wire) \subseteq Range(wire') /\ (n > maxSeq => n \in Range(wire'))
    BY <1>1, <1>6
  <2>4. n \in shown \cup Range(wire') \cup unheard
    <3>1. CASE n > maxSeq
      BY <2>3, <3>1
    <3>2. CASE ~(n > maxSeq)
      <4>1. 1 \in DOMAIN ch /\ ch[1] = n /\ n <= maxSeq
        BY <1>4, <1>5, <3>2
      <4>2. Dropped(1)
        BY <4>1 DEF Dropped
      <4> QED BY <2>1, <2>3, <4>1, <4>2 DEF QueueInv
    <3> QED BY <3>1, <3>2
  <2>5. SeamExact'
    BY <1>1, <1>2, <1>3, <1>5, <2>1, <2>3, <2>4 DEF SeamExact, OnItsWay, Publishing
  <2>6. QueueInv'
    <3> SUFFICES ASSUME NEW i \in DOMAIN ch', Dropped(i)'
                 PROVE  ch'[i] \in shown \cup Range(wire') \cup unheard
      BY <1>1 DEF QueueInv
    <3>1. i \in Nat /\ i + 1 \in DOMAIN ch /\ ch'[i] = ch[i + 1] /\ ch'[i] \in Nat /\ 1 < i + 1 /\ 1 \in DOMAIN ch
      BY <1>1, <1>5
    <3>2. CASE Dropped(i + 1)
      BY <2>1, <2>3, <3>1, <3>2 DEF QueueInv
    <3>3. CASE ~Dropped(i + 1)
      <4>1. ~(ch'[i] <= maxSeq) /\ ~(ch'[i] < n)
        BY <1>3, <1>5, <3>1, <3>3 DEF Dropped
      <4>2. \A j \in DOMAIN ch' : j < i => ~(ch'[i] < ch'[j])
        <5> SUFFICES ASSUME NEW j \in DOMAIN ch', j < i PROVE ~(ch'[i] < ch'[j])
          OBVIOUS
        <5>1. j + 1 \in DOMAIN ch /\ j + 1 < i + 1 /\ ch'[j] = ch[j + 1]
          BY <1>1, <1>5, <3>1
        <5> QED BY <1>3, <3>1, <3>3, <5>1 DEF Dropped
      <4>3. ch'[i] <= maxSeq'
        BY <4>2 DEF Dropped
      <4>4. ch'[i] = n
        BY <1>1, <1>4, <1>5, <3>1, <4>1, <4>3
      <4> QED BY <2>4, <4>4
    <3> QED BY <3>2, <3>3
  <2> QED BY <2>2, <2>5, <2>6
<1> QED BY <1>2, <1>7, <1>10, <1>11 DEF ReadInv

\* The browser goes past the lines it does not get: none of them will come.
LEMMA ReceiveReads == ASSUME IInv, ReadInv, Receive PROVE ReadInv'
<1> DEFINE n == Head(wire)
<1>1. /\ wire # <<>> /\ wire' = Tail(wire)
      /\ IF n > seen THEN seen' = n /\ shown' = shown \cup {n} ELSE seen' = seen /\ shown' = shown
      /\ UNCHANGED <<log, final, outcome, followVars, at, mine, calls, done, conn, ch, maxSeq, unheard,
                     connects, faults>>
  BY DEF Receive, handleVars, callVars, browserVars
<1>2. FollowInv' /\ Publishing' = Publishing
  BY <1>1, FollowFrame
<1>3. UNCHANGED <<follow, cur, printed>>
  BY <1>1 DEF followVars
<1>4. wire \in Seq(Nat) /\ maxSeq \in Nat /\ seen \in Nat /\ log \subseteq Nat
  BY DEF ReadInv, ReadTypeOK, IInv, AppendTypeOK
<1>5. /\ Tail(wire) \in Seq(Nat) /\ Len(Tail(wire)) = Len(wire) - 1 /\ Len(wire) \in Nat \ {0}
      /\ DOMAIN Tail(wire) = 1 .. Len(wire) - 1 /\ DOMAIN wire = 1 .. Len(wire)
      /\ \A i \in 1 .. Len(wire) - 1 : Tail(wire)[i] = wire[i + 1]
      /\ n = wire[1] /\ n \in Nat /\ Range(wire) = Range(Tail(wire)) \cup {n}
  BY <1>1, <1>4, Shortened
<1> HIDE DEF n
<1>6. seen < n /\ seen' = n /\ shown' = shown \cup {n}
  <2>1. 1 \in DOMAIN wire
    BY <1>5
  <2>2. seen < n
    BY <1>5, <2>1 DEF ReadInv, StreamInv
  <2> QED BY <1>1, <1>4, <1>5, <2>2
<1>7. conn # "off" /\ conn # "joined" /\ Past /\ Past'
  BY <1>1 DEF ReadInv, StreamInv, ReadTypeOK, Past
<1>8. ReadTypeOK'
  BY <1>1, <1>3, <1>5, <1>6 DEF ReadInv, ReadTypeOK
<1>9. \A i \in DOMAIN wire : n <= wire[i]
  <2> SUFFICES ASSUME NEW i \in DOMAIN wire PROVE n <= wire[i]
    OBVIOUS
  <2>1. i = 1 \/ 1 < i
    BY <1>5
  <2>2. 1 \in DOMAIN wire
    BY <1>5
  <2>3. 1 < i => wire[1] < wire[i]
    BY <2>2 DEF ReadInv, StreamInv
  <2> QED BY <1>4, <1>5, <2>1, <2>3
<1>10. maxSeq = wire[Len(wire)] /\ n <= maxSeq
  <2>1. Len(wire) \in DOMAIN wire
    BY <1>5
  <2> QED BY <1>1, <1>7, <1>9, <2>1 DEF ReadInv, StreamInv
<1>11. StreamInv'
  <2>1. Range(wire') \subseteq log /\ n \in log
    BY <1>1, <1>5 DEF ReadInv, StreamInv
  <2>2. \A i \in DOMAIN wire' : i + 1 \in DOMAIN wire /\ wire'[i] = wire[i + 1] /\ 1 < i + 1 /\ i \in Nat
    BY <1>1, <1>5
  <2>3. \A i, j \in DOMAIN wire' : i < j => wire'[i] < wire'[j]
    <3> SUFFICES ASSUME NEW i \in DOMAIN wire', NEW j \in DOMAIN wire', i < j PROVE wire'[i] < wire'[j]
      OBVIOUS
    <3>1. i + 1 < j + 1
      BY <2>2
    <3> QED BY <2>2, <3>1 DEF ReadInv, StreamInv
  <2>4. \A i \in DOMAIN wire' : n < wire'[i]
    <3> SUFFICES ASSUME NEW i \in DOMAIN wire' PROVE n < wire'[i]
      OBVIOUS
    <3>1. 1 \in DOMAIN wire
      BY <1>5
    <3>2. wire[1] < wire[i + 1]
      BY <2>2, <3>1 DEF ReadInv, StreamInv
    <3> QED BY <1>5, <2>2, <3>2
  <2>5. maxSeq = IF wire' = <<>> THEN n ELSE wire'[Len(wire')]
    <3>1. CASE Len(wire) = 1
      BY <1>1, <1>5, <1>10, <3>1
    <3>2. CASE Len(wire) # 1
      <4>1. Len(wire) - 1 \in 1 .. Len(wire) - 1 /\ (Len(wire) - 1) + 1 = Len(wire)
        BY <1>5, <3>2
      <4>2. Tail(wire)[Len(wire) - 1] = wire[Len(wire)]
        BY <1>5, <4>1
      <4>3. Tail(wire) # <<>>
        <5>1. 1 \in DOMAIN Tail(wire)
          BY <1>5, <3>2
        <5>2. DOMAIN <<>> = {}
          OBVIOUS
        <5> QED BY <5>1, <5>2
      <4> QED BY <1>1, <1>5, <1>10, <4>2, <4>3
    <3> QED BY <3>1, <3>2
  <2> QED BY <1>1, <1>2, <1>6, <1>7, <2>1, <2>3, <2>4, <2>5 DEF ReadInv, StreamInv
<1>12. SeamInv'
  <2> SUFFICES ASSUME faults' = 0 PROVE SeenInv' /\ QueueInv' /\ SeamExact'
    BY DEF SeamInv
  <2>1. SeenInv /\ QueueInv /\ SeamExact /\ faults = 0
    BY <1>1 DEF ReadInv, SeamInv
  <2>2. shown' \cup Range(wire') = shown \cup Range(wire)
    BY <1>1, <1>5, <1>6
  <2>3. SeamExact'
    BY <1>1, <1>2, <1>7, <2>1, <2>2 DEF SeamExact, OnItsWay, Publishing
  <2>4. QueueInv'
    BY <1>1, <1>7, <2>1, <2>2 DEF QueueInv, Dropped
  <2>5. SeenInv'
    <3> SUFFICES ASSUME NEW m \in log, m <= n PROVE m \in shown' \cup unheard \cup Publishing
      BY <1>1, <1>2, <1>6 DEF SeenInv
    <3>1. CASE m <= seen
      BY <1>6, <2>1, <3>1 DEF SeenInv
    <3>2. CASE ~(m <= seen)
      <4>1. m \in shown \cup Range(wire) \cup Range(ch) \cup Publishing \cup unheard
        BY <1>7, <2>1 DEF SeamExact, OnItsWay, Publishing
      <4>2. m \in Range(ch) => m \in shown \cup Range(wire) \cup unheard
        <5> SUFFICES ASSUME NEW i \in DOMAIN ch, m = ch[i] PROVE m \in shown \cup Range(wire) \cup unheard
          BY DEF Range
        <5>1. ch[i] <= maxSeq
          BY <1>4, <1>5, <1>10
        <5> QED BY <2>1, <5>1 DEF QueueInv, Dropped
      <4>3. m \in Range(wire) => m = n
        <5> SUFFICES ASSUME NEW i \in DOMAIN wire, m = wire[i] PROVE m = n
          BY DEF Range
        <5>1. n <= m
          BY <1>9
        <5> QED BY <1>4, <1>5, <5>1
      <4> QED BY <1>6, <4>1, <4>2, <4>3
    <3> QED BY <3>1, <3>2
  <2> QED BY <2>3, <2>4, <2>5
<1> QED BY <1>2, <1>8, <1>11, <1>12 DEF ReadInv

-----------------------------------------------------------------------------
\* At first nothing is delivered.
LEMMA InitReads == Init => ReadInv
<1> SUFFICES ASSUME Init PROVE ReadInv OBVIOUS
<1>1. log = 1 .. 0 BY DEF Init
<1>2. Top = 0 BY <1>1, TopOfPrefix
<1>3. DOMAIN ch = {} /\ DOMAIN wire = {} /\ ch \in Seq(Nat) /\ wire \in Seq(Nat) /\ Len(ch) <= Buffer
  <2>1. ch = <<>> /\ wire = <<>> /\ Buffer \in Nat
    BY BoundsAssumption DEF Init
  <2> QED BY <2>1
<1>4. ReadTypeOK
  <2>1. 0 \in 0 .. Max({1, MaxLines})
    BY BoundTypes
  <2>2. calls \in [Appenders -> 0 .. Max({1, MaxLines})]
    BY <2>1 DEF Init
  <2> QED BY <1>3, <2>2 DEF Init, ReadTypeOK
<1>5. FollowInv
  BY <1>2 DEF Init, FollowInv
<1>6. Publishing = {}
  BY DEF Init, Publishing
<1>7. StreamInv
  BY <1>3, <1>6 DEF Init, StreamInv, Range
<1>8. SeamInv
  BY <1>3 DEF Init, SeamInv, SeenInv, QueueInv, SeamExact, Past
<1> QED BY <1>4, <1>5, <1>7, <1>8 DEF ReadInv

\* Every step keeps it.
LEMMA NextReads == IInv /\ IInv' /\ ReadInv /\ [Next]_vars => ReadInv'
<1> SUFFICES ASSUME IInv, IInv', ReadInv, [Next]_vars PROVE ReadInv' OBVIOUS
<1>1. CASE \E w \in Writers : StartLog(w) \/ InsertStores(w) \/ InsertFails(w)
                              \/ InsertTaken(w) \/ CatchUp(w)
  BY <1>1, WriterReads
<1>2. CASE \E o \in Others : AppendRead(o) \/ AppendInsert(o) \/ AppendFails(o)
  BY <1>2, OtherReads
<1>3. CASE \E a \in Appenders : Publish(a)
  BY <1>3, PublishReads
<1>4. CASE Finalize \/ SetDone
  BY <1>4, EndReads
<1>5. CASE Connect \/ Replay \/ StartTail \/ Deliver \/ Receive \/ Disconnect
  BY <1>5, ConnectReads, ReplayReads, StartTailReads, DeliverReads, ReceiveReads, DisconnectReads
<1>6. CASE FollowPrint \/ FollowStatus \/ FollowLast
  BY <1>6, FollowReads
<1>7. CASE UNCHANGED vars
  <2>1. UNCHANGED <<log, final, outcome, at, mine, calls, done, streamVars, browserVars, followVars,
                    unheard, connects, faults>>
    BY <1>7 DEF vars, handleVars, callVars
  <2>2. UNCHANGED <<conn, ch, maxSeq, wire, seen, shown, follow, cur, printed>>
    BY <2>1 DEF streamVars, browserVars, followVars
  <2>3. FollowInv' /\ StreamInv' /\ SeamInv'
    BY <2>1, FollowFrame, StreamFrame
  <2>4. ReadTypeOK'
    BY <2>1, <2>2 DEF ReadInv, ReadTypeOK
  <2> QED BY <2>3, <2>4 DEF ReadInv
<1> QED BY <1>1, <1>2, <1>3, <1>4, <1>5, <1>6, <1>7 DEF Next

\* What readers have is right, in every state.
LEMMA Reading == Spec => []ReadInv
<1>1. Init => ReadInv BY InitReads
<1>2. IInv /\ IInv' /\ ReadInv /\ [Next]_vars => ReadInv' BY NextReads
<1> QED BY <1>1, <1>2, Invariant, PTL DEF Spec

\* The log, its appenders and its readers stay well typed.
THEOREM TypeCorrect == Spec => []TypeOK
<1>1. IInv /\ ReadInv => TypeOK
  BY DEF IInv, ReadInv, TypeOK
<1> QED BY <1>1, Invariant, Reading, PTL

\* Without database errors nothing falls between the backlog and the tail of a
\* stream: a stored line is on the screen, sent, queued or about to be published,
\* or its channel could not carry it (handleRunEvents: subscribe, then replay,
\* then drop what was replayed).
THEOREM SeamIsExact == Spec => []SeamExact
<1>1. ReadInv => SeamExact
  BY DEF ReadInv, SeamInv, SeamExact
<1> QED BY <1>1, Reading, PTL

\* Without database errors run log --follow has printed all lines up to the
\* terminal status when it is done (run.go: look at the status, print once more).
THEOREM FollowIsComplete == Spec => []FollowPrintsAll
<1>1. ReadInv => FollowPrintsAll
  <2> SUFFICES ASSUME ReadInv, follow = "returned", faults = 0 PROVE 1 .. outcome \subseteq printed
    BY DEF FollowPrintsAll
  <2>1. printed = 1 .. cur /\ outcome <= cur /\ cur \in Nat /\ outcome \in Nat
    BY DEF ReadInv, ReadTypeOK, FollowInv
  <2> QED BY <2>1
<1> QED BY <1>1, Reading, PTL
=============================================================================
