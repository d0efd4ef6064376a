------------------------------ MODULE LiveView ------------------------------
(***************************************************************************)
(* What one browser shows of the runs of a job while the server works on   *)
(* them.  The browser keeps two kinds of live state: one global event      *)
(* stream for the whole app (LiveProvider), from which come the running    *)
(* badge, the list of active runs and the signal to reload the lists, and  *)
(* one event stream per run on screen (useRunStream), held by the job's    *)
(* card on the Jobs screen or by the run's own screen.  The two streams    *)
(* are separate connections: nothing orders their messages, and each may   *)
(* break and come back on its own.  The Activity screen holds a list it    *)
(* loads again at every run event, as the dashboard and the Jobs screen do *)
(* their jobs; here the list is on Activity (or the dashboard, which is    *)
(* told apart only by what it shows) and the card on the Jobs screen.      *)
(*                                                                         *)
(* All runs belong to one job, hence to one repository, which the          *)
(* coordinator holds for one run at a time; a run's id sorts by the time   *)
(* it began, so the runs are 1, 2, ...                                     *)
(***************************************************************************)
EXTENDS Naturals, Sequences, FiniteSets

CONSTANTS MaxRun,       \* bound: runs that begin
          Buffer,       \* messages a subscriber's channel holds (sseBuffer)
          MaxBreaks,    \* bound: connections lost, failed loads, restarts
          MaxLoads,     \* bound: loads of a list in flight at once
          MaxVisits     \* bound: moves of the user between screens

ASSUME BoundsAreNat == /\ MaxRun \in Nat \ {0} /\ Buffer \in Nat \ {0}
                       /\ MaxBreaks \in Nat /\ MaxVisits \in Nat /\ MaxLoads \in Nat \ {0}

VARIABLES
    \* the server
    status,     \* status[r]: the stored status of run r, "none" before it begins
    unsent,     \* runs whose last change is stored and not yet published
    stopAsked,  \* active runs a stop was asked for
    \* the browser, whatever the screen
    global,     \* the global stream: [conn, q]
    active,     \* activeRuns: a sequence of [id, status]
    ask,        \* a "run backup" request is in flight (one at a time: a bound)
    \* the browser's screen
    route,      \* Jobs, Activity, or the screen of run r
    hook,       \* useRunStream of the card or of the run screen
    initial,    \* the run screen's first load
    list,       \* useFetch of the Activity screen
    starting,   \* the card's Run backup button was pressed
    \* history and bounds
    lost,       \* runs whose latest state will not reach the global stream
    breaks, visits

server   == <<status, unsent, stopAsked>>
live     == <<global, active, lost>>
screen   == <<route, hook, initial, list, starting>>
vars     == <<server, live, ask, screen, breaks, visits>>

Runs        == 1..MaxRun
Jobs        == 0
BadId       == MaxRun + 1                            \* an address of no run
Activity    == MaxRun + 2
Terminal    == {"success", "failed", "canceled", "interrupted"}
Statuses    == {"none", "running"} \union Terminal
isActive(s) == s = "running"      \* "starting" included: no screen treats it otherwise
Shown       == [id : Runs, status : Statuses]       \* a run as a message carries it
NoRun       == [id |-> 0, status |-> "none"]
Record(r)   == [id |-> r, status |-> status[r]]

Ongoing     == {r \in Runs : isActive(status[r])}
Begun       == {r \in Runs : status[r] # "none"}
Upcoming    == Cardinality(Begun) + 1                \* the id the next run gets

-----------------------------------------------------------------------------
(* Streams.  A subscriber's messages are one queue: what its handler wrote  *)
(* and what still waits in its channel.                                     *)

Closed     == [conn |-> "closed", q |-> <<>>]
Full(s)    == Len(s.q) >= Buffer

\* send: a full channel drops the message.
Send(s, m) == IF s.conn = "closed" \/ Full(s) THEN s ELSE [s EXCEPT !.q = Append(@, m)]

\* The handlers subscribe first; what they then write from the store goes out
\* before anything the channel has collected.
Subscribe(s)       == [s EXCEPT !.conn = "subscribed", !.q = <<>>]
\* Mutant: nothing is written from the store.
WriteFirstNothing(s, ms) == [s EXCEPT !.conn = "open"]

WriteFirst(s, ms) == [s EXCEPT !.conn = "open", !.q = ms \o @]

FreshHook(id) == [id |-> id, conn |-> "closed", q |-> <<>>, run |-> NoRun, behind |-> FALSE]

\* Mutant: the old EventSource is not closed.
RetargetUnclosed(h, id) == [h EXCEPT !.id = id, !.conn = "closed"]

\* The effect on [runId]: the old EventSource is closed and one for the new id
\* is opened. The run record of the hook is not reset.
Retarget(h, id) ==
    IF h.id = id THEN h ELSE [FreshHook(id) EXCEPT !.run = h.run]

-----------------------------------------------------------------------------
(* The list a screen loads (useFetch).  Each load takes a new generation, so *)
(* of the loads in flight one at most is of the newest; only that one may    *)
(* set data or error.                                                        *)

Fetching  == [newest |-> TRUE, answer |-> "unread"]
FreshList == [data |-> "nothing", error |-> FALSE, sent |-> {Fetching}, blind |-> FALSE]
NoList    == [data |-> "nothing", error |-> FALSE, sent |-> {}, blind |-> FALSE]

\* What was read of the runs is told apart only by whether it is still so: a
\* change of the store, which never returns to what it was, makes it stale.
Aged(x)     == IF x = "fresh" THEN "stale" ELSE x
Outdated(l) == [l EXCEPT !.data = Aged(@), !.sent = {[f EXCEPT !.answer = Aged(@)] : f \in @}]

\* History: an event was lost since the list was last told to reload.
Missed(l)  == [l EXCEPT !.blind = l # NoList]

loading(l) == \E f \in l.sent : f.newest
Reload(l)  == [l EXCEPT !.sent = {Fetching} \union {[f EXCEPT !.newest = FALSE] : f \in @},
                        !.blind = FALSE]

\* Mutant: no guard against a stale response.
SettleAny(l, f, ok) ==
    LET rest == [l EXCEPT !.sent = @ \ {f}]
    IN IF ok THEN [rest EXCEPT !.data = f.answer, !.error = FALSE] ELSE [rest EXCEPT !.error = TRUE]

\* A response or a failure arrives; one that was superseded changes nothing.
Settle(l, f, ok) ==
    LET rest == [l EXCEPT !.sent = @ \ {f}]
    IN CASE ~f.newest       -> rest
         [] f.newest /\ ok  -> [rest EXCEPT !.data = f.answer, !.error = FALSE]
         [] f.newest /\ ~ok -> [rest EXCEPT !.error = TRUE]

-----------------------------------------------------------------------------
(* What is on the screen.                                                   *)

First(runs) == IF runs = <<>> THEN NoRun ELSE runs[1]
activeRun   == First(active)                 \* the first run of the card's job

\* JobCard: live = liveRun || activeRun.
CardLive    == IF hook.run # NoRun THEN hook.run ELSE activeRun
CardRunning == isActive(CardLive.status)

CardView ==
    [badge  |-> IF CardRunning THEN CardLive.status ELSE "last run",
     button |-> IF CardRunning THEN "view progress"
                ELSE IF starting THEN "starting" ELSE "run backup"]

\* RunView: current = run || initial.run; a missing run shows not-found.
current == IF hook.run # NoRun THEN hook.run ELSE initial.run
RunScreen ==
    CASE initial.missing -> [page |-> "not found", stop |-> FALSE]
      [] ~initial.missing /\ current = NoRun -> [page |-> "skeleton", stop |-> FALSE]
      [] ~initial.missing /\ current # NoRun ->
            [page |-> current.status, stop |-> isActive(current.status)]

\* The sidebar's and the top bar's count, and the rows of ActiveRunsCard.
RunningCount == Len(active)
ActiveRows   == {active[i].id : i \in DOMAIN active}
Queued       == {global.q[i].id : i \in DOMAIN global.q}

\* ActivityRoute: what was loaded stays on screen while it is loaded again, and
\* also when that fails.
ActivityScreen ==
    CASE list.data # "nothing" -> list.data
      [] list.data = "nothing" /\ list.error  -> "could not load"
      [] list.data = "nothing" /\ ~list.error -> "skeleton"

\* Dashboard, whose jobs are loaded the same way: the error is shown above them.
DashboardScreen ==
    [problem |-> list.error,
     jobs    |-> IF list.data = "nothing" /\ loading(list) THEN "skeleton" ELSE list.data]

-----------------------------------------------------------------------------
(* Screens are mounted and unmounted by the router; live state stays.       *)

NoInitial == [loading |-> FALSE, run |-> NoRun, missing |-> FALSE]

\* A screen starts afresh; only from one run's screen to another's does the
\* component stay mounted, and with it the record its hook holds.
GoTo(r) ==
    /\ route' = r
    /\ starting' = (starting /\ route = r)
    /\ hook' = CASE route = r               -> hook
                 [] route # r /\ r = Jobs     -> FreshHook(activeRun.id)
                 [] route # r /\ r = Activity -> FreshHook(0)
                 [] route # r /\ r \in 1..BadId ->
                        IF route \in 1..BadId THEN Retarget(hook, r) ELSE FreshHook(r)
    /\ list' = IF r # Activity THEN NoList ELSE IF route = r THEN list ELSE FreshList
    /\ initial' = IF route = r THEN initial ELSE [NoInitial EXCEPT !.loading = r \in 1..BadId]

\* When activeRuns becomes runs, the card follows the first run of its job, and
\* the list reloads, for runsVersion went up.
ScreenFollows(runs) ==
    /\ hook' = IF route = Jobs THEN Retarget(hook, First(runs).id) ELSE hook
    /\ list' = IF route = Activity THEN Reload(list) ELSE list

-----------------------------------------------------------------------------
(* The server.                                                              *)

\* Begin inserts the run and publishes it; publishing is Publish below.
Begin ==
    /\ status' = [status EXCEPT ![Upcoming] = "running"]
    /\ unsent' = unsent \union {Upcoming}

CanBegin == Ongoing = {} /\ Upcoming \in Runs

ScheduledRun ==
    /\ CanBegin /\ Begin
    /\ list' = Outdated(list)
    /\ UNCHANGED <<stopAsked, live, ask, route, hook, initial, starting, breaks, visits>>

Finalize(r) ==
    /\ isActive(status[r]) /\ r \notin unsent
    /\ status' = [status EXCEPT ![r] = IF r \in stopAsked THEN "canceled" ELSE "success"]
    /\ stopAsked' = stopAsked \ {r}
    /\ unsent' = unsent \union {r}
    /\ list' = Outdated(list)
    /\ UNCHANGED <<live, ask, route, hook, initial, starting, breaks, visits>>

\* publishRun: the change goes to the run's subscribers and to the global ones.
Publish(r) ==
    /\ r \in unsent
    /\ unsent' = unsent \ {r}
    /\ global' = Send(global, Record(r))
    /\ hook' = IF hook.id # r THEN hook
               ELSE [Send(hook, Record(r)) EXCEPT !.behind = @ \/ (hook.conn # "closed" /\ Full(hook))]
    /\ LET dropped == global.conn = "closed" \/ Full(global)
       IN /\ lost'  = IF dropped THEN lost \union {r} ELSE lost \ {r}
          /\ list'  = IF dropped THEN Missed(list) ELSE list
    /\ UNCHANGED <<status, stopAsked, active, ask, route, initial, starting, breaks, visits>>

\* The server goes down and comes back: connections break, and the runs that
\* were active are marked interrupted before it serves again.
Restart ==
    /\ breaks < MaxBreaks /\ breaks' = breaks + 1
    /\ status' = [r \in Runs |-> IF r \in Ongoing THEN "interrupted" ELSE status[r]]
    /\ unsent' = {} /\ stopAsked' = {}
    /\ global' = Closed
    /\ hook' = [hook EXCEPT !.conn = IF @ = "refused" THEN @ ELSE "closed", !.q = <<>>]
    /\ LET gone == unsent \union Ongoing \union Queued
       IN /\ lost' = lost \union gone
          /\ list' = IF gone = {} THEN list
                     ELSE Missed(IF Ongoing = {} THEN list ELSE Outdated(list))
    /\ UNCHANGED <<active, ask, route, initial, starting, visits>>

-----------------------------------------------------------------------------
(* The global stream: /api/events.                                          *)

GlobalConnect ==
    /\ global.conn = "closed"
    /\ global' = Subscribe(global)
    /\ UNCHANGED <<server, active, lost, ask, screen, breaks, visits>>

\* ActiveRuns is written to a browser that has just connected.
GlobalSnapshot ==
    /\ global.conn = "subscribed"
    /\ LET runs == IF Ongoing = {} THEN <<>> ELSE <<Record(CHOOSE r \in Ongoing : TRUE)>>
       IN global' = WriteFirst(global, runs)
    /\ lost' = lost \ Ongoing
    /\ UNCHANGED <<server, active, ask, screen, breaks, visits>>

\* prev.filter: the runs but that one, in their order.
Without(runs, id) ==
    LET kept == {i \in DOMAIN runs : runs[i].id # id}
        at   == CHOOSE f \in [1..Cardinality(kept) -> kept] :
                    \A i, j \in DOMAIN f : i < j => f[i] < f[j]
    IN [i \in DOMAIN at |-> runs[at[i]]]

\* es.onmessage: replace the run if it is active, drop it if it is not.
Merge(runs, ev) ==
    LET rest == Without(runs, ev.id)
    IN IF isActive(ev.status) THEN Append(rest, ev) ELSE rest

GlobalDeliver ==
    /\ global.conn = "open" /\ global.q # <<>>
    /\ active' = Merge(active, Head(global.q))
    /\ global' = [global EXCEPT !.q = Tail(@)]
    /\ Cardinality(list.sent) < MaxLoads
    /\ ScreenFollows(active')
    /\ UNCHANGED <<server, lost, ask, route, initial, starting, breaks, visits>>

GlobalBreak ==
    /\ global.conn # "closed" /\ breaks < MaxBreaks
    /\ breaks' = breaks + 1
    /\ global' = Closed
    /\ lost' = lost \union Queued
    /\ list' = IF Queued = {} THEN list ELSE Missed(list)
    /\ UNCHANGED <<server, active, ask, route, hook, initial, starting, visits>>

-----------------------------------------------------------------------------
(* The stream of the run on screen: /api/runs/{id}/events.                  *)

\* Mutant: a reconnect does not send the record.
HookConnectSilent ==
    /\ hook.conn = "closed" /\ hook.id \in Begun
    /\ hook' = [hook EXCEPT !.conn = "open", !.q = <<>>, !.behind = FALSE]
    /\ UNCHANGED <<server, live, ask, route, initial, list, starting, breaks, visits>>

\* The handler subscribes and writes the current record first; RunLog has the
\* seam between the two in detail.
HookConnect ==
    /\ hook.conn = "closed" /\ hook.id \in Begun
    /\ hook' = [hook EXCEPT !.conn = "open", !.q = <<Record(hook.id)>>, !.behind = FALSE]
    /\ UNCHANGED <<server, live, ask, route, initial, list, starting, breaks, visits>>

\* The stream of a run that does not exist is refused, and not tried again.
HookRefused ==
    /\ hook.conn = "closed" /\ hook.id = BadId
    /\ hook' = [hook EXCEPT !.conn = "refused"]
    /\ UNCHANGED <<server, live, ask, route, initial, list, starting, breaks, visits>>

HookDeliver ==
    /\ hook.conn = "open" /\ hook.q # <<>>
    /\ hook' = [hook EXCEPT !.run = Head(hook.q), !.q = Tail(@)]
    /\ UNCHANGED <<server, live, ask, route, initial, list, starting, breaks, visits>>

HookBreak ==
    /\ hook.conn = "open" /\ breaks < MaxBreaks
    /\ breaks' = breaks + 1
    /\ hook' = [hook EXCEPT !.conn = "closed", !.q = <<>>]
    /\ UNCHANGED <<server, live, ask, route, initial, list, starting, visits>>

-----------------------------------------------------------------------------
(* Loads.                                                                   *)

\* The server reads the list of a request; the answer travels back.
ListRead(f) ==
    /\ f \in list.sent /\ f.answer = "unread"
    /\ list' = [list EXCEPT !.sent = (@ \ {f}) \union {[f EXCEPT !.answer = "fresh"]}]
    /\ UNCHANGED <<server, live, ask, route, hook, initial, starting, breaks, visits>>

ListArrives(f) ==
    /\ f \in list.sent /\ f.answer # "unread"
    /\ list' = Settle(list, f, TRUE)
    /\ UNCHANGED <<server, live, ask, route, hook, initial, starting, breaks, visits>>

ListFails(f) ==
    /\ f \in list.sent /\ breaks < MaxBreaks
    /\ breaks' = breaks + 1
    /\ list' = Settle(list, f, FALSE)
    /\ UNCHANGED <<server, live, ask, route, hook, initial, starting, visits>>

\* Runs.get(id) of the run screen; no other answer than 404 shows a problem.
InitialLoaded ==
    /\ initial.loading
    /\ initial' = [loading |-> FALSE,
                   run     |-> IF route \in Begun THEN Record(route) ELSE NoRun,
                   missing |-> route \notin Begun]
    /\ UNCHANGED <<server, live, ask, route, hook, list, starting, breaks, visits>>

InitialFails ==
    /\ initial.loading /\ breaks < MaxBreaks
    /\ breaks' = breaks + 1
    /\ initial' = NoInitial
    /\ UNCHANGED <<server, live, ask, route, hook, list, starting, visits>>

-----------------------------------------------------------------------------
(* The user.                                                                *)

Visit(r) ==
    /\ visits < MaxVisits /\ visits' = visits + 1
    /\ r # route /\ GoTo(r)
    /\ UNCHANGED <<server, live, ask, breaks>>

\* JobCard.runNow asks; the answer finds the user wherever they are by then.
RunNow ==
    /\ route = Jobs /\ CardView.button = "run backup" /\ ~ask
    /\ starting' = TRUE /\ ask' = TRUE
    /\ UNCHANGED <<server, live, route, hook, initial, list, breaks, visits>>

\* StartBackup answers 202 with the run, or 409 naming the one that holds the
\* repository; handleStartResponse goes to the new run, or only says it is busy.
RunAnswered ==
    /\ ask /\ ask' = FALSE
    /\ \/ CanBegin /\ Begin /\ GoTo(Upcoming)
       \/ /\ Ongoing # {}
          /\ starting' = FALSE
          /\ UNCHANGED <<status, unsent, route, hook, initial, list>>
    /\ UNCHANGED <<stopAsked, live, breaks, visits>>

\* RunView.stop, confirmed: it names the run of the address, not the one shown.
Stop ==
    /\ route \in Begun /\ RunScreen.stop
    /\ stopAsked' = IF route \in Ongoing THEN stopAsked \union {route} ELSE stopAsked
    /\ stopAsked' # stopAsked
    /\ UNCHANGED <<status, unsent, live, ask, screen, breaks, visits>>

-----------------------------------------------------------------------------
Init ==
    /\ status = [r \in Runs |-> "none"] /\ unsent = {} /\ stopAsked = {}
    /\ global = Closed /\ active = <<>> /\ lost = {}
    /\ ask = FALSE
    /\ route \in {Jobs, Activity} /\ hook = FreshHook(0) /\ initial = NoInitial
    /\ list = (IF route = Activity THEN FreshList ELSE NoList) /\ starting = FALSE
    /\ breaks = 0 /\ visits = 0

ServerStep == \/ ScheduledRun \/ Restart
              \/ \E r \in Runs : Finalize(r) \/ Publish(r)
StreamStep == \/ GlobalConnect \/ GlobalSnapshot \/ GlobalDeliver \/ GlobalBreak
              \/ HookConnect \/ HookRefused \/ HookDeliver \/ HookBreak
LoadStep   == \/ \E f \in list.sent : ListRead(f) \/ ListArrives(f) \/ ListFails(f)
              \/ InitialLoaded \/ InitialFails
UserStep   == RunNow \/ RunAnswered \/ Stop \/ \E r \in Begun \union {Jobs, Activity, BadId} : Visit(r)

Next == ServerStep \/ StreamStep \/ LoadStep \/ UserStep

\* The server publishes what it stored, EventSource reconnects and delivers,
\* and a request that was sent is answered. Runs need not end, nor users act.
Fairness ==
    /\ WF_vars(\E r \in Runs : Publish(r))
    /\ WF_vars(HookConnect) /\ WF_vars(HookDeliver)
    /\ WF_vars(GlobalConnect) /\ WF_vars(GlobalSnapshot) /\ WF_vars(GlobalDeliver)
    /\ WF_vars(\E f \in list.sent : ListRead(f)) /\ WF_vars(\E f \in list.sent : ListArrives(f))

Spec     == Init /\ [][Next]_vars
LiveSpec == Spec /\ Fairness

-----------------------------------------------------------------------------
(* Properties.                                                              *)

StreamOK(s) == /\ s.conn \in {"closed", "refused", "subscribed", "open"}
               /\ s.q \in Seq(Shown)
               /\ s.conn \in {"closed", "refused"} => s.q = <<>>

\* Type invariant. A stream that is not connected holds no message, and the
\* screens' state is that of the screen the user is on.
TypeOK ==
    /\ status \in [Runs -> Statuses] /\ unsent \subseteq Begun /\ stopAsked \subseteq Ongoing
    /\ StreamOK(global) /\ StreamOK(hook) /\ active \in Seq(Shown)
    /\ ask \in BOOLEAN /\ (starting => ask)
    /\ route \in 0..Activity /\ hook.id \in 0..BadId /\ hook.run \in Shown \union {NoRun}
    /\ route \in 1..BadId => hook.id = route
    /\ route \notin 1..BadId => initial = NoInitial
    /\ route # Activity => list = NoList
    /\ route # Jobs => ~starting
    /\ \A f, h \in list.sent : f.newest /\ h.newest => f = h
    /\ lost \subseteq Begun /\ breaks \in 0..MaxBreaks /\ visits \in 0..MaxVisits

\* A run the browser still lists as active although it is over is one whose end
\* is on its way, or was lost with a broken or overfull connection; and no run
\* is listed twice, so the badge counts runs (live.jsx, es.onmessage).
GhostsComeFromGaps ==
    /\ RunningCount = Cardinality(ActiveRows)
    /\ ActiveRows \ Ongoing \subseteq unsent \union Queued \union lost

\* A browser that is connected knows every active run, or the message is on its
\* way: the server subscribes it before it reads the active runs, so no run
\* falls between the two (handleEvents). Only an overfull channel loses one.
NoActiveRunHidden ==
    global.conn = "open" => Ongoing \ ActiveRows \subseteq unsent \union Queued \union lost

\* So the list of active runs, the badge and the cards are told of every run
\* that is active and of no other, but for what is on its way or was lost.
ActiveRunsTold == GhostsComeFromGaps /\ NoActiveRunHidden

\* When everything has arrived the screens show the runs as they are stored:
\* every change is published after it is stored, every event reloads the list,
\* and an older load cannot overwrite a newer one (useFetch). What is excused is
\* a load that failed and an event that was lost with none since.
ListCurrent ==
    (/\ route = Activity /\ ~loading(list) /\ ~list.error /\ ~list.blind
     /\ global.conn = "open" /\ global.q = <<>> /\ unsent = {})
    => ActivityScreen = "fresh" /\ DashboardScreen = [problem |-> FALSE, jobs |-> "fresh"]

\* What has a run's own stream: when everything of it has arrived, the run's page
\* shows it as it is stored and offers the stop while there is something to stop,
\* and the card of the job runs exactly while the run does. Every reconnect sends
\* the record first (handleRunEvents), so no gap is left but that of a full channel;
\* what the hook still held of another run gives way (useRunStream).
StreamedRunCurrent ==
    (hook.conn = "open" /\ hook.q = <<>> /\ ~hook.behind /\ hook.id \notin unsent)
    => /\ route \in Runs => RunScreen = [page |-> status[route], stop |-> isActive(status[route])]
       /\ route = Jobs   => CardRunning = isActive(status[activeRun.id])

\* Every screen that has heard everything shows what is so.
ScreensCurrent == ListCurrent /\ StreamedRunCurrent

\* The screen of a run that is over ends up showing how it ended and stays so,
\* whatever connection broke meanwhile, for every reconnect sends the record
\* first (handleRunEvents) - unless this browser fell behind a full channel.
RunPageSettles ==
    \A r \in Runs :
        <>[](route = r /\ status[r] \in Terminal)
            => <>[](hook.behind \/ RunScreen.page = status[r])

\* A card whose job has an active run at the head of activeRuns comes to show it
\* as running, unless the run ends, another takes its place or the user leaves
\* first: whatever the hook still held of an earlier run gives way to the new
\* run's stream (useRunStream).
CardCatchesUp ==
    \A r \in Runs :
        (route = Jobs /\ activeRun.id = r /\ r \in Ongoing)
            ~> (CardRunning \/ route # Jobs \/ activeRun.id # r \/ r \notin Ongoing)
=============================================================================
