------------------------------- MODULE RunLog -------------------------------
(***************************************************************************)
(* The log of one run: who appends to it (runHandle.Log and                *)
(* RunStore.AppendSystemLine, runstore.go), and who reads it back: a       *)
(* browser over the web server's event stream (broadcaster.go,             *)
(* handlers_sse.go, live.jsx) and restic-webctl run log --follow (run.go). *)
(* A line is its sequence number; what it says is left out.                *)
(*                                                                         *)
(* An appender's call stands at one of                                     *)
(*   idle      no call           insert   about to insert its line         *)
(*   catchup   number was taken  again    about to insert once more        *)
(*   append    has read the end of the log (AppendSystemLine)              *)
(*   publish   line stored, about to be sent to subscribers                *)
(***************************************************************************)
EXTENDS Naturals, Sequences, FiniteSets, FiniteSetsExt, SequencesExt, Functions

CONSTANTS
    Writers,      \* goroutines of the driving process that call runHandle.Log
    Driver,       \* the one that logs the outcome and finalizes the run
    Others,       \* calls of AppendSystemLine, in the web server or elsewhere
    InServer,     \* appenders that run inside the web server
    Nobody,
    MaxLines,     \* bound: lines the driver logs
    Buffer,       \* capacity of a subscriber's channel (sseBuffer)
    MaxConnects,  \* bound: streams the browser opens
    MaxFaults     \* bound: database statements that fail

ASSUME DriverAssumption == Driver \in Writers
ASSUME ActorsAssumption ==
    /\ Writers \cap Others = {}
    /\ Nobody \notin Writers
    /\ InServer \subseteq Writers \cup Others
ASSUME BoundsAssumption == {MaxLines, Buffer, MaxConnects, MaxFaults} \subseteq Nat

Appenders == Writers \cup Others

VARIABLES
    log,       \* numbers of the stored lines (run_log_lines of this run)
    final,     \* the run's record has its terminal status
    outcome,   \* the last line stored before that (history)
    \* runHandle
    logMu, seq, done,
    \* appenders
    at, mine, calls,
    lost,      \* lines of Log that found their number taken twice
    foreign,   \* lines of AppendSystemLine stored
    \* the web server's stream
    conn,      \* "off", "joined" (subscribed), "replayed" (backlog sent), "tail"
    ch,        \* the subscriber's channel
    maxSeq,    \* highest number this stream sent or resumes from
    wire,      \* sent, not yet received
    \* the browser
    seen,      \* seenSeq, which is also its Last-Event-ID
    shown,
    \* restic-webctl run log --follow
    follow, cur, printed,
    \* history and bounds
    unheard,   \* lines no channel will bring to this browser (history)
    connects, faults

handleVars == <<logMu, seq, done>>
callVars == <<at, mine, calls, lost, foreign>>
streamVars == <<conn, ch, maxSeq, wire>>
browserVars == <<seen, shown>>
followVars == <<follow, cur, printed>>
vars == <<log, final, outcome, handleVars, callVars, streamVars, browserVars, followVars,
          unheard, connects, faults>>

Init ==
    /\ log = {} /\ final = FALSE /\ outcome = 0
    /\ logMu = Nobody /\ seq = 0 /\ done = FALSE
    /\ at = [a \in Appenders |-> "idle"]
    /\ mine = [a \in Appenders |-> 0]
    /\ calls = [a \in Appenders |-> 0]
    /\ lost = 0 /\ foreign = 0
    /\ conn = "off" /\ ch = <<>> /\ maxSeq = 0 /\ wire = <<>>
    /\ seen = 0 /\ shown = {}
    /\ follow = "print" /\ cur = 0 /\ printed = {}
    /\ unheard = {} /\ connects = 0 /\ faults = 0

Fault == faults < MaxFaults /\ faults' = faults + 1

\* SELECT COALESCE(MAX(seq), 0)
Top == Max(log \cup {0})

-----------------------------------------------------------------------------
(* broadcaster.send: a subscriber with a full channel is skipped.          *)

SubscribedOnceTailing == conn = "tail"
Subscribed == conn # "off"

\* Once the stream has sent its backlog, a line reaches it through its channel
\* or not at all; and a browser that has a later line never asks for it again.
Past == conn \in {"replayed", "tail"}
Overtaken(n) == n < maxSeq \/ \E i \in DOMAIN ch : n < ch[i]

Missed(a, n) ==
    \/ n < seen
    \/ Past /\ \/ a \notin InServer
               \/ Subscribed /\ Len(ch) >= Buffer
               \/ Overtaken(n)

Send(a, n) ==
    /\ ch' = IF a \in InServer /\ Subscribed /\ Len(ch) < Buffer THEN Append(ch, n) ELSE ch
    /\ unheard' = IF Missed(a, n) THEN unheard \cup ({n} \ shown) ELSE unheard

\* publishLog, once the line is stored.
Publish(a) ==
    /\ at[a] = "publish"
    /\ at' = [at EXCEPT ![a] = "idle"]
    /\ mine' = [mine EXCEPT ![a] = 0]
    /\ Send(a, mine[a])
    /\ UNCHANGED <<log, final, outcome, handleVars, calls, lost, foreign, conn, maxSeq, wire,
                   browserVars, followVars, connects, faults>>

-----------------------------------------------------------------------------
(* runHandle.Log: one caller at a time holds logMu until its line is in.   *)

\* Stop logs once, however often it is asked.
Allowed(w) == IF w = Driver THEN MaxLines ELSE 1

StartLog(w) ==
    /\ at[w] = "idle" /\ calls[w] < Allowed(w)
    /\ logMu = Nobody /\ ~done
    /\ w = Driver => ~final
    /\ logMu' = w
    /\ at' = [at EXCEPT ![w] = "insert"]
    /\ calls' = [calls EXCEPT ![w] = @ + 1]
    /\ UNCHANGED <<log, final, outcome, seq, done, mine, lost, foreign, streamVars, browserVars,
                   followVars, unheard, connects, faults>>

EndCall(w, where) == logMu' = Nobody /\ at' = [at EXCEPT ![w] = where]

\* insertLog: the counter moves on only when the line is stored.
SeqAlways(stored) == seq + 1
SeqAfter(stored) == IF stored THEN seq + 1 ELSE seq

InsertStores(w) ==
    /\ at[w] \in {"insert", "again"} /\ seq + 1 \notin log
    /\ log' = log \cup {seq + 1}
    /\ mine' = [mine EXCEPT ![w] = seq + 1]
    /\ seq' = SeqAfter(TRUE)
    /\ EndCall(w, "publish")
    /\ UNCHANGED <<final, outcome, done, calls, lost, foreign, streamVars, browserVars, followVars,
                   unheard, connects, faults>>

\* The statement fails; its line may have reached the table all the same.
InsertFails(w) ==
    /\ at[w] \in {"insert", "again"} /\ Fault
    /\ \E stored \in SUBSET ({seq + 1} \ log) : log' = log \cup stored
    /\ seq' = SeqAfter(FALSE)
    /\ EndCall(w, "idle")
    /\ UNCHANGED <<final, outcome, done, mine, calls, lost, foreign, streamVars, browserVars,
                   followVars, unheard, connects>>

\* Somebody else's line has the number: catch up and retry, but only once.
AfterTakenGiveUp(w) == [at |-> "idle", lost |-> 1]
AfterTaken(w) == IF at[w] = "insert" THEN [at |-> "catchup", lost |-> 0]
                                     ELSE [at |-> "idle", lost |-> 1]

InsertTaken(w) ==
    /\ at[w] \in {"insert", "again"} /\ seq + 1 \in log
    /\ at' = [at EXCEPT ![w] = AfterTaken(w).at]
    /\ lost' = lost + AfterTaken(w).lost
    /\ logMu' = IF AfterTaken(w).at = "idle" THEN Nobody ELSE w
    /\ UNCHANGED <<log, final, outcome, seq, done, mine, calls, foreign, streamVars, browserVars,
                   followVars, unheard, connects, faults>>

CatchUp(w) ==
    /\ at[w] = "catchup"
    /\ \/ /\ seq' = Top
          /\ at' = [at EXCEPT ![w] = "again"]
          /\ UNCHANGED <<logMu, faults>>
       \/ Fault /\ EndCall(w, "idle") /\ UNCHANGED seq
    /\ UNCHANGED <<log, final, outcome, done, mine, calls, lost, foreign, streamVars, browserVars,
                   followVars, unheard, connects>>

-----------------------------------------------------------------------------
(* AppendSystemLine: one statement reads the end of the log and inserts.   *)

AppendRead(o) ==
    /\ at[o] = "idle" /\ calls[o] = 0
    /\ mine' = [mine EXCEPT ![o] = Top + 1]
    /\ at' = [at EXCEPT ![o] = "append"]
    /\ calls' = [calls EXCEPT ![o] = 1]
    /\ UNCHANGED <<log, final, outcome, handleVars, lost, foreign, streamVars, browserVars,
                   followVars, unheard, connects, faults>>

\* A number taken meanwhile fails the statement, and the line is dropped.
AppendInsert(o) ==
    /\ at[o] = "append"
    /\ IF mine[o] \in log
       THEN /\ at' = [at EXCEPT ![o] = "idle"]
            /\ UNCHANGED <<log, foreign>>
       ELSE /\ at' = [at EXCEPT ![o] = "publish"]
            /\ log' = log \cup {mine[o]}
            /\ foreign' = foreign + 1
    /\ UNCHANGED <<final, outcome, handleVars, mine, calls, lost, streamVars, browserVars,
                   followVars, unheard, connects, faults>>

\* Any other error drops it too, though it may have been stored.
AppendFails(o) ==
    /\ at[o] = "append" /\ Fault
    /\ \E stored \in SUBSET ({mine[o]} \ log) : log' = log \cup stored
    /\ at' = [at EXCEPT ![o] = "idle"]
    /\ UNCHANGED <<final, outcome, handleVars, mine, calls, lost, foreign, streamVars,
                   browserVars, followVars, unheard, connects>>

-----------------------------------------------------------------------------
(* drive and finalize: the outcome is logged, the terminal status written, *)
(* then the handle takes no more lines.                                    *)

OutcomeLogged == calls[Driver] > 0 /\ at[Driver] = "idle"

Finalize ==
    /\ ~final /\ OutcomeLogged
    /\ final' = TRUE /\ outcome' = Top
    /\ UNCHANGED <<log, handleVars, callVars, streamVars, browserVars, followVars,
                   unheard, connects, faults>>

SetDone ==
    /\ final /\ ~done /\ logMu = Nobody
    /\ done' = TRUE
    /\ UNCHANGED <<log, final, outcome, logMu, seq, callVars, streamVars, browserVars, followVars,
                   unheard, connects, faults>>

-----------------------------------------------------------------------------
(* handleRunEvents and the browser's EventSource.                          *)

\* sseResumeSeq: a reconnect resumes after the last number received; a page
\* load starts anew.
Connect ==
    /\ conn = "off" /\ connects < MaxConnects
    /\ conn' = "joined"
    /\ connects' = connects + 1
    /\ \/ UNCHANGED browserVars
       \/ seen' = 0 /\ shown' = {}
    /\ maxSeq' = seen'
    /\ UNCHANGED <<log, final, outcome, handleVars, callVars, ch, wire, followVars, unheard,
                   faults>>

\* The backlog: every line after the resume point, in order. A query that
\* fails half-way yields the lines read so far.
UpTo(S, n) == {m \in S : m <= n}
Ascending(S) ==
    CHOOSE s \in [1 .. Cardinality(S) -> S] : \A i, j \in DOMAIN s : i < j => s[i] < s[j]

Replay ==
    /\ conn = "joined"
    /\ conn' = "replayed"
    /\ \E n \in 0 .. Top :
         LET backlog == {m \in UpTo(log, n) : m > maxSeq}
         IN  /\ IF n = Top THEN UNCHANGED faults ELSE Fault
             /\ wire' = wire \o Ascending(backlog)
             /\ maxSeq' = Max(backlog \cup {maxSeq})
             /\ unheard' = unheard \ backlog
    /\ UNCHANGED <<log, final, outcome, handleVars, callVars, ch, browserVars, followVars,
                   connects>>

StartTail ==
    /\ conn = "replayed"
    /\ conn' = "tail"
    /\ UNCHANGED <<log, final, outcome, handleVars, callVars, ch, maxSeq, wire, browserVars,
                   followVars, unheard, connects, faults>>

\* A message at or below maxSeq was in the backlog, the code says.
Delivers(n) == n > maxSeq

Deliver ==
    /\ conn = "tail" /\ ch # <<>>
    /\ ch' = Tail(ch)
    /\ IF Delivers(Head(ch))
       THEN maxSeq' = Head(ch) /\ wire' = Append(wire, Head(ch))
       ELSE UNCHANGED <<maxSeq, wire>>
    /\ UNCHANGED <<log, final, outcome, handleVars, callVars, conn, browserVars, followVars,
                   unheard, connects, faults>>

\* useRunStream: numbers already seen are dropped.
Receive ==
    /\ wire # <<>>
    /\ wire' = Tail(wire)
    /\ IF Head(wire) > seen
       THEN seen' = Head(wire) /\ shown' = shown \cup {Head(wire)}
       ELSE UNCHANGED browserVars
    /\ UNCHANGED <<log, final, outcome, handleVars, callVars, conn, ch, maxSeq, followVars,
                   unheard, connects, faults>>

\* The connection breaks; what was under way is lost, and the handler
\* unsubscribes.
Disconnect ==
    /\ conn # "off"
    /\ conn' = "off" /\ ch' = <<>> /\ wire' = <<>>
    /\ UNCHANGED <<log, final, outcome, handleVars, callVars, maxSeq, browserVars, followVars,
                   unheard, connects, faults>>

-----------------------------------------------------------------------------
(* restic-webctl run log --follow: print what is new, look at the status,  *)
(* and print once more when it is terminal.                                *)

\* ReadLog may stop half-way without saying so.
PrintNew ==
    \E n \in 0 .. Top :
      /\ IF n = Top THEN UNCHANGED faults ELSE Fault
      /\ LET new == {m \in UpTo(log, n) : m > cur}
         IN  /\ printed' = printed \cup new
             /\ cur' = Max(new \cup {cur})

FollowPrint ==
    /\ follow = "print"
    /\ \/ follow' = "status" /\ PrintNew
       \/ follow' = "failed" /\ Fault /\ UNCHANGED <<cur, printed>>
    /\ UNCHANGED <<log, final, outcome, handleVars, callVars, streamVars, browserVars,
                   unheard, connects>>

AfterStatusNoLast == IF final THEN "returned" ELSE "print"
AfterStatus == IF final THEN "last" ELSE "print"

FollowStatus ==
    /\ follow = "status"
    /\ follow' = AfterStatus
    /\ UNCHANGED <<log, final, outcome, handleVars, callVars, streamVars, browserVars, cur, printed,
                   unheard, connects, faults>>

FollowLast ==
    /\ follow = "last"
    /\ follow' = "returned"
    /\ PrintNew
    /\ UNCHANGED <<log, final, outcome, handleVars, callVars, streamVars, browserVars,
                   unheard, connects>>

-----------------------------------------------------------------------------
Next ==
    \/ \E w \in Writers : StartLog(w) \/ InsertStores(w) \/ InsertFails(w)
                          \/ InsertTaken(w) \/ CatchUp(w)
    \/ \E o \in Others : AppendRead(o) \/ AppendInsert(o) \/ AppendFails(o)
    \/ \E a \in Appenders : Publish(a)
    \/ Finalize \/ SetDone
    \/ Connect \/ Replay \/ StartTail \/ Deliver \/ Receive \/ Disconnect
    \/ FollowPrint \/ FollowStatus \/ FollowLast

Spec == Init /\ [][Next]_vars

\* Goroutines run, and a connection that stays up carries what was sent.
Fairness ==
    /\ \A a \in Appenders : WF_vars(Publish(a))
    /\ WF_vars(Replay) /\ WF_vars(StartTail) /\ WF_vars(Deliver) /\ WF_vars(Receive)

FairSpec == Spec /\ Fairness

-----------------------------------------------------------------------------
(* Properties.                                                             *)

AppendTypeOK ==
    /\ log \subseteq Nat \ {0}
    /\ logMu \in Writers \cup {Nobody} /\ seq \in Nat
    /\ at \in [Appenders -> {"idle", "insert", "catchup", "again", "append", "publish"}]
    /\ mine \in [Appenders -> Nat]
    /\ lost \in Nat /\ foreign \in Nat /\ faults \in Nat

ReadTypeOK ==
    /\ final \in BOOLEAN /\ outcome \in Nat /\ done \in BOOLEAN
    /\ calls \in [Appenders -> 0 .. Max({1, MaxLines})]
    /\ conn \in {"off", "joined", "replayed", "tail"}
    /\ ch \in Seq(Nat) /\ Len(ch) <= Buffer /\ maxSeq \in Nat /\ wire \in Seq(Nat)
    /\ seen \in Nat /\ shown \subseteq Nat
    /\ follow \in {"print", "status", "last", "returned", "failed"}
    /\ cur \in Nat /\ printed \subseteq Nat /\ unheard \subseteq Nat
    /\ connects \in Nat

TypeOK == AppendTypeOK /\ ReadTypeOK

\* Whoever appends, and whatever statement fails, the stored numbers are
\* 1, 2, ... without a hole: a reader that resumes after the highest number it
\* has read misses nothing that is stored before it (runstore.go: the counter
\* "stays in 1:1 correspondence with durable lines").
LogContiguous == \A n \in log : 1 .. n \subseteq log

\* An intruding line costs the run at most the line it collides with, not
\* "this and every later line": without database errors, fewer of its lines
\* are lost than other processes appended (the catch-up in runHandle.Log).
LossBounded == faults = 0 => lost = 0 \/ lost < foreign

\* Nothing falls between backlog and tail: a stored line is shown, sent, queued
\* or about to be published, unless the channel could not carry it (full,
\* overtaken, or appended by another process).
OnItsWay ==
    shown \cup Range(wire) \cup Range(ch) \cup {mine[a] : a \in {b \in Appenders : at[b] = "publish"}}
SeamExact == faults = 0 /\ Past => log \subseteq OnItsWay \cup unheard

\* When run log --follow is done it has printed every line the run stored up to
\* its terminal status: the outcome included.
FollowPrintsAll == follow = "returned" /\ faults = 0 => 1 .. outcome \subseteq printed

\* A line the channel can carry gets onto the screen of a browser that stays
\* connected.
LineGetsThrough ==
    \A n \in 1 .. MaxLines :
        n \in log ~> n \in shown \cup unheard \/ conn = "off" \/ faults > 0
=============================================================================
