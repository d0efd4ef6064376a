------------------------------ MODULE Session ------------------------------
(***************************************************************************)
(* The login of the web interface: one password, kept as a row of the      *)
(* database and as a copy in the server's memory; sessions, kept in the    *)
(* server's memory only; a cookie per browser; and in every tab what       *)
(* AuthProvider believes of all that.  A handler works in several steps,   *)
(* and between them other requests do; restic-webctl writes the row        *)
(* without the server.  All tabs count as one client of the login limiter. *)
(***************************************************************************)
EXTENDS Naturals, FiniteSets

CONSTANTS Browsers, Tabs,
          Words,        \* what a password may be, spaces around it aside; a shorter
                        \* one is refused before anything is looked at (validatePassword)
          MaxFailures,  \* wrong attempts that lock a client out (loginMaxFailures)
          MaxSessions,  \* bound: sessions that are begun
          MaxFaults,    \* bound: lost requests, restarts, runs of restic-webctl
          MaxPages      \* bound: page loads

ASSUME BoundsAreNat == /\ MaxFailures \in Nat \ {0} /\ MaxSessions \in Nat
                       /\ MaxFaults \in Nat /\ MaxPages \in Nat
ASSUME NoneIsNoWord == "none" \notin Words

VARIABLES
    row,        \* the password on record
    cached,     \* the server's copy (AuthStore)
    sessions,   \* tokens that are valid (SessionManager)
    begun,      \* how many tokens were handed out: they are 1, 2, ...
    fails, locked,  \* loginLimiter, of the one client
    cli,        \* restic-webctl has started and not written yet
    home,       \* home[t]: the browser of a tab
    cookie,     \* cookie[b]: the token a browser holds, 0 for none
    view,       \* view[t]: what AuthProvider holds
    req,        \* req[t]: the request of a tab
    proof,      \* history: the password that was last given for a token
    overtaken,  \* history: tokens whose proof was outdated when they were made or kept
    unread,     \* history: the row was written and the server's copy was not
    faults, pages

store == <<row, cached, unread>>
login == <<sessions, begun, proof, overtaken>>
guard == <<fails, locked>>
tab   == <<home, cookie, view>>
vars  == <<store, login, guard, cli, tab, req, faults, pages>>

Typed   == [word : Words, padded : BOOLEAN]      \* as it was typed
NoPassword == [word |-> "none", padded |-> FALSE]
Trim(p) == [p EXCEPT !.padded = FALSE]
Tokens  == 1..MaxSessions
Configured == cached # NoPassword

NoView  == [loading |-> TRUE, setupRequired |-> FALSE, authenticated |-> FALSE]
NoReq   == [kind |-> "none", phase |-> "none", typed |-> NoPassword, next |-> NoPassword,
            token |-> 0, ok |-> FALSE, body |-> NoView]
Handles(t, kind, phase) == req[t].kind = kind /\ req[t].phase = phase

-----------------------------------------------------------------------------
(* The tab.                                                                 *)

\* Setup, Login and RequireAuth: which screen a tab is on.
Screen(v) == CASE v.loading -> "blank"
               [] ~v.loading /\ v.setupRequired -> "setup"
               [] ~v.loading /\ ~v.setupRequired /\ v.authenticated  -> "app"
               [] ~v.loading /\ ~v.setupRequired /\ ~v.authenticated -> "login"

\* A request takes along the cookie its browser holds.
Ask(t, r) ==
    /\ req[t] = NoReq
    /\ req' = [req EXCEPT ![t] = [r EXCEPT !.phase = "sent", !.token = cookie[home[t]]]]
    /\ UNCHANGED <<store, login, guard, cli, tab, faults, pages>>

\* AuthProvider is mounted and loads the status, once.
LoadPage(t) ==
    /\ pages < MaxPages /\ pages' = pages + 1
    /\ req[t] = NoReq
    /\ req' = [req EXCEPT ![t] = [NoReq EXCEPT !.kind = "status", !.phase = "sent", !.token = cookie[home[t]]]]
    /\ view' = [view EXCEPT ![t] = NoView]
    /\ UNCHANGED <<store, login, guard, cli, home, cookie, faults>>

SubmitSetup(t) ==
    /\ Screen(view[t]) = "setup"
    /\ \E p \in Typed : Ask(t, [NoReq EXCEPT !.kind = "setup", !.typed = p])
SubmitLogin(t) ==
    /\ Screen(view[t]) = "login"
    /\ \E p \in Typed : Ask(t, [NoReq EXCEPT !.kind = "login", !.typed = p])
SubmitChange(t) ==
    /\ Screen(view[t]) = "app"
    /\ \E p, q \in Typed : Ask(t, [NoReq EXCEPT !.kind = "change", !.typed = p, !.next = q])
Logout(t) ==
    /\ Screen(view[t]) = "app"
    /\ Ask(t, [NoReq EXCEPT !.kind = "logout"])

\* What the answer does: status and the forms look at it, logout does not.
Believes(v, r) ==
    CASE r.kind = "status" -> [r.body EXCEPT !.loading = FALSE]
      [] r.kind \in {"setup", "login"} ->
            IF r.ok THEN [v EXCEPT !.setupRequired = FALSE, !.authenticated = TRUE] ELSE v
      [] r.kind = "logout" -> [v EXCEPT !.authenticated = FALSE]
      [] r.kind = "change" -> v

Receives(t, r) ==
    /\ view' = [view EXCEPT ![t] = Believes(@, r)]
    /\ req' = [req EXCEPT ![t] = NoReq]

\* Set-Cookie comes with the answer: a session's token, or none after a logout.
Answered(t) ==
    /\ req[t].phase = "answered"
    /\ Receives(t, req[t])
    /\ cookie' = IF req[t].ok /\ req[t].kind \in {"setup", "login", "logout"}
                 THEN [cookie EXCEPT ![home[t]] = req[t].token] ELSE cookie
    /\ UNCHANGED <<store, login, guard, cli, home, faults, pages>>

Lost(r) == [r EXCEPT !.ok = FALSE, !.body = NoView]

\* The request, or its answer, is lost; a failed status call leads to the login.
RequestLost(t) ==
    /\ req[t].phase \in {"sent", "answered"} /\ faults < MaxFaults
    /\ faults' = faults + 1
    /\ Receives(t, Lost(req[t]))
    /\ UNCHANGED <<store, login, guard, cli, home, cookie, pages>>

-----------------------------------------------------------------------------
(* The server's handlers.                                                   *)

\* What was typed is of no use any more.
Answer(r, ok) == [NoReq EXCEPT !.kind = r.kind, !.phase = "answered", !.token = r.token, !.ok = ok]
Answers(t, ok) == req' = [req EXCEPT ![t] = Answer(@, ok)]
Goes(t, phase) == req' = [req EXCEPT ![t].phase = phase]

Status(t) ==
    /\ Handles(t, "status", "sent")
    /\ req' = [req EXCEPT ![t].phase = "answered", ![t].ok = TRUE,
               ![t].body = [NoView EXCEPT !.loading = FALSE, !.setupRequired = ~Configured,
                            !.authenticated = Configured /\ req[t].token \in sessions]]
    /\ UNCHANGED <<store, login, guard, cli, tab, faults, pages>>

\* Mutant: one wrong attempt too many.
FailLate == IF fails + 1 > MaxFailures THEN fails' = 0 /\ locked' = TRUE
            ELSE fails' = fails + 1 /\ UNCHANGED locked

\* loginLimiter.fail: at the last wrong attempt the client is locked out.
Fail == IF fails + 1 >= MaxFailures THEN fails' = 0 /\ locked' = TRUE
        ELSE fails' = fails + 1 /\ UNCHANGED locked
Succeed == fails' = 0 /\ locked' = FALSE

\* The window or the lockout is over.
TimePasses ==
    /\ fails # 0 \/ locked
    /\ Succeed
    /\ UNCHANGED <<store, login, cli, tab, req, faults, pages>>

\* refuseLockedOut: whether the client may try is asked on its own, and answered
\* before anything is compared; attempts that overlap may all be let in.
RefuseLockedOut(t) ==
    /\ Handles(t, "login", "sent") \/ Handles(t, "setup", "sent")
    /\ IF locked \/ (req[t].kind = "login" /\ ~Configured) THEN Answers(t, FALSE) ELSE Goes(t, "admitted")
    /\ UNCHANGED <<store, login, guard, cli, tab, faults, pages>>

\* handleAuthLogin.
CheckLogin(t) ==
    /\ Handles(t, "login", "admitted")
    /\ IF Configured /\ req[t].typed = cached THEN Goes(t, "verified") /\ Succeed
       ELSE Answers(t, FALSE) /\ Fail
    /\ UNCHANGED <<store, login, cli, tab, faults, pages>>

\* The password is set, in the row and in memory.
Stores(p) == row' = p /\ cached' = p /\ UNCHANGED unread

\* Mutant: no refusal once a password is set.
MaySetUpAnyTime == TRUE
\* SetupPassword looks at the server's copy, under its lock.
MaySetUp == ~Configured

\* handleAuthSetup, with a wrong setup token or the right one. It is refused when
\* a password is set, and when the new one, without the spaces around it, is too
\* short or too long; a word stands for one of any length.
CheckSetup(t) ==
    /\ Handles(t, "setup", "admitted")
    /\ \/ ~Configured /\ Answers(t, FALSE) /\ Fail /\ UNCHANGED store
       \/ Answers(t, FALSE) /\ UNCHANGED <<store, guard>>
       \/ /\ MaySetUp
          /\ Stores(Trim(req[t].typed)) /\ Succeed
          /\ req' = [req EXCEPT ![t].phase = "verified", ![t].typed = Trim(@)]
    /\ UNCHANGED <<login, cli, tab, faults, pages>>

\* startSession, after a login or a setup.
StartSession(t) ==
    /\ Handles(t, "login", "verified") \/ Handles(t, "setup", "verified")
    /\ begun < MaxSessions /\ begun' = begun + 1
    /\ sessions' = sessions \union {begun'}
    /\ proof' = [proof EXCEPT ![begun'] = req[t].typed]
    /\ overtaken' = IF req[t].typed = cached THEN overtaken ELSE overtaken \union {begun'}
    /\ req' = [req EXCEPT ![t] = [Answer(@, TRUE) EXCEPT !.token = begun']]
    /\ UNCHANGED <<store, guard, cli, tab, faults, pages>>

HandleLogout(t) ==
    /\ Handles(t, "logout", "sent")
    /\ sessions' = sessions \ {req[t].token}
    /\ req' = [req EXCEPT ![t] = [Answer(@, TRUE) EXCEPT !.token = 0]]
    /\ UNCHANGED <<store, begun, proof, overtaken, guard, cli, tab, faults, pages>>

\* requireAuth; a tab that shows the app may hold no session any more.
Admit(t) ==
    /\ Handles(t, "change", "sent")
    /\ IF req[t].token \in sessions THEN Goes(t, "admitted") ELSE Answers(t, FALSE)
    /\ UNCHANGED <<store, login, guard, cli, tab, faults, pages>>

\* ChangePassword: the current password as typed, the new one without spaces;
\* that one may be too short.
ChangePassword(t) ==
    /\ Handles(t, "change", "admitted")
    /\ \/ /\ Configured /\ req[t].typed = cached
          /\ Stores(Trim(req[t].next))
          /\ req' = [req EXCEPT ![t].phase = "changed", ![t].typed = NoPassword, ![t].next = Trim(@)]
       \/ Answers(t, FALSE) /\ UNCHANGED store
    /\ UNCHANGED <<login, guard, cli, tab, faults, pages>>

\* The database refuses, or writes and its answer is lost: the copy stays as it was.
StoreFails(t) ==
    /\ faults < MaxFaults /\ faults' = faults + 1
    /\ \/ /\ Handles(t, "setup", "admitted") /\ MaySetUp
          /\ row' \in {row, Trim(req[t].typed)}
       \/ /\ Handles(t, "change", "admitted") /\ Configured /\ req[t].typed = cached
          /\ row' \in {row, Trim(req[t].next)}
    /\ unread' = (unread \/ row' # row)
    /\ Answers(t, FALSE)
    /\ UNCHANGED <<cached, login, guard, cli, tab, pages>>

\* Mutant: the other sessions stay.
KeptAll(k) == sessions \union {k}
\* KeepOnly keeps the caller's token, whether or not it is still valid.
Kept(k) == {k}

KeepOnly(t) ==
    /\ Handles(t, "change", "changed")
    /\ LET k == req[t].token
           p == req[t].next
       IN /\ sessions' = Kept(k)
          /\ proof' = [proof EXCEPT ![k] = p]
          /\ overtaken' = IF p = cached THEN overtaken \ {k} ELSE overtaken \union {k}
    /\ Answers(t, TRUE)
    /\ UNCHANGED <<store, begun, guard, cli, tab, faults, pages>>

Expire(k) ==
    /\ k \in sessions /\ sessions' = sessions \ {k}
    /\ UNCHANGED <<store, begun, proof, overtaken, guard, cli, tab, req, faults, pages>>

\* Sessions, failures and requests are lost, the password is read again.
Restart ==
    /\ faults < MaxFaults /\ faults' = faults + 1
    /\ cached' = row /\ unread' = FALSE
    /\ sessions' = {} /\ fails' = 0 /\ locked' = FALSE
    /\ LET dropped == {t \in Tabs : req[t].phase \notin {"none", "answered"}}
       IN /\ req' = [t \in Tabs |-> IF t \in dropped THEN NoReq ELSE req[t]]
          /\ view' = [t \in Tabs |-> IF t \in dropped THEN Believes(view[t], Lost(req[t])) ELSE view[t]]
    /\ UNCHANGED <<row, begun, proof, overtaken, cli, home, cookie, pages>>

-----------------------------------------------------------------------------
(* restic-webctl auth setup and passwd: a process that reads the row when   *)
(* it starts and writes it when it has the passwords, spaces and all.       *)

CliStart ==
    /\ faults < MaxFaults /\ faults' = faults + 1
    /\ ~cli /\ cli' = TRUE
    /\ UNCHANGED <<store, login, guard, tab, req, pages>>

CliWrite ==
    /\ cli /\ cli' = FALSE
    /\ \E p \in Typed : row' = p
    /\ unread' = TRUE
    /\ UNCHANGED <<cached, login, guard, tab, req, faults, pages>>

-----------------------------------------------------------------------------
Init ==
    /\ row \in {NoPassword} \union [word : Words, padded : {FALSE}] /\ cached = row /\ unread = FALSE
    /\ sessions = {} /\ begun = 0 /\ fails = 0 /\ locked = FALSE /\ cli = FALSE
    /\ home \in [Tabs -> Browsers] /\ cookie = [b \in Browsers |-> 0]
    /\ view = [t \in Tabs |-> NoView]
    /\ req = [t \in Tabs |-> [NoReq EXCEPT !.kind = "status", !.phase = "sent"]]
    /\ proof = [k \in Tokens |-> NoPassword] /\ overtaken = {}
    /\ faults = 0 /\ pages = 0

UserStep(t)   == LoadPage(t) \/ SubmitSetup(t) \/ SubmitLogin(t) \/ SubmitChange(t) \/ Logout(t)
ServerStep(t) == \/ Status(t) \/ RefuseLockedOut(t) \/ CheckLogin(t) \/ CheckSetup(t)
                 \/ StartSession(t) \/ HandleLogout(t) \/ Admit(t) \/ ChangePassword(t) \/ StoreFails(t) \/ KeepOnly(t)

Next == \/ \E t \in Tabs : UserStep(t) \/ ServerStep(t) \/ Answered(t) \/ RequestLost(t)
        \/ \E k \in sessions : Expire(k)
        \/ TimePasses \/ Restart \/ CliStart \/ CliWrite

Spec == Init /\ [][Next]_vars

-----------------------------------------------------------------------------
(* Properties.                                                              *)

Passwords == Typed \union {NoPassword}
Kinds     == {"none", "status", "setup", "login", "logout", "change"}
ReqPhases == {"none", "sent", "admitted", "verified", "changed", "answered"}
Views     == [loading : BOOLEAN, setupRequired : BOOLEAN, authenticated : BOOLEAN]
Requests  == [kind : Kinds, phase : ReqPhases, typed : Passwords, next : Passwords,
              token : 0..begun, ok : BOOLEAN, body : Views]

\* Type invariant. Only a token that was handed out is held or valid, and a
\* server without a password lets nobody in.
TypeOK ==
    /\ row \in Passwords /\ cached \in Passwords /\ unread \in BOOLEAN
    /\ begun \in 0..MaxSessions /\ sessions \subseteq 1..begun /\ overtaken \subseteq 1..begun
    /\ fails \in 0..(MaxFailures - 1) /\ locked \in BOOLEAN
    /\ cli \in BOOLEAN
    /\ home \in [Tabs -> Browsers] /\ cookie \in [Browsers -> 0..begun]
    /\ view \in [Tabs -> Views] /\ req \in [Tabs -> Requests]
    /\ proof \in [Tokens -> Passwords]
    /\ ~Configured => sessions = {}
    /\ faults \in 0..MaxFaults /\ pages \in 0..MaxPages

\* Whoever is logged in gave the password that is in force, whatever logins and
\* changes overlapped: a change signs the other sessions out once it is done
\* (KeepOnly). What is excused is a login or a change that was verified before
\* another change and finished after it.
SessionsFollowPassword ==
    \A k \in sessions : \/ proof[k] = cached
                        \/ k \in overtaken
                        \/ \E t \in Tabs : Handles(t, "change", "changed")

\* A first-run setup never replaces a password: of two that overlap one is
\* refused (SetupPassword). Only a password the server's copy does not have is
\* not seen: restic-webctl wrote it beside the running server, or it was written
\* and the database's answer was lost (saveLocked).
SetupOnlyFirst ==
    [][\A t \in Tabs : (Handles(t, "setup", "admitted") /\ req'[t].phase = "verified")
                        => row = NoPassword \/ unread]_vars
=============================================================================
