---------------------------- MODULE SessionProofs ----------------------------
(***************************************************************************)
(* For any number of tabs, browsers, passwords, restarts and runs of       *)
(* restic-webctl: only handed out tokens are valid, whoever is logged in   *)
(* gave the password that is in force, and a first-run setup never         *)
(* replaces a password that the server knows of.                           *)
(***************************************************************************)
EXTENDS Session, TLAPS

\* What a request that is under way relies on: it is of some kind, what it is
\* to store is a password, what was verified was verified against one, and who
\* changes the password showed a token.
ReqOK(r) ==
    /\ r.phase # "none" => r.kind # "none"
    /\ r.kind = "setup" /\ r.phase \in {"sent", "admitted"} => r.typed \in Typed
    /\ r.kind = "change" /\ r.phase \in {"sent", "admitted"} => r.next \in Typed
    /\ r.phase \in {"verified", "changed"} => Configured
    /\ r.kind = "change" /\ r.phase \in {"admitted", "changed"} => r.token # 0

\* The server's copy of the password is the row, unless that was not read.
StoreOK ==
    /\ row \in Passwords /\ cached \in Passwords /\ unread \in BOOLEAN
    /\ ~unread => cached = row
LoginOK ==
    /\ begun \in 0..MaxSessions /\ sessions \subseteq 1..begun /\ overtaken \subseteq 1..begun
    /\ proof \in [Tokens -> Passwords]
    /\ ~Configured => sessions = {}
GuardOK == fails \in 0..(MaxFailures - 1) /\ locked \in BOOLEAN
BoundsOK == cli \in BOOLEAN /\ faults \in 0..MaxFaults /\ pages \in 0..MaxPages
TabsOK == home \in [Tabs -> Browsers] /\ cookie \in [Browsers -> 0..begun] /\ view \in [Tabs -> Views]
ReqsOK == req \in [Tabs -> Requests] /\ \A t \in Tabs : ReqOK(req[t])

IInv == StoreOK /\ LoginOK /\ GuardOK /\ BoundsOK /\ TabsOK /\ ReqsOK /\ SessionsFollowPassword

-----------------------------------------------------------------------------
(* Records.                                                                 *)

\* What is typed is a password, with and without its spaces, and never no password.
LEMMA WordTypes ==
    /\ NoPassword \in Passwords /\ NoPassword \notin Typed
    /\ Typed \subseteq Passwords
    /\ \A p \in Typed : Trim(p) \in Typed /\ Trim(p) # NoPassword
BY NoneIsNoWord DEF NoPassword, Passwords, Typed, Trim

\* The empty view and the empty request are well typed.
LEMMA NothingAsked ==
    ASSUME begun \in Nat
    PROVE  NoView \in Views /\ NoReq \in Requests /\ ReqOK(NoReq)
<1>1. NoView \in Views
  BY DEF NoView, Views
<1>2. NoReq \in Requests
  BY <1>1, WordTypes DEF NoReq, Requests, Kinds, ReqPhases
<1>3. ReqOK(NoReq)
  BY DEF NoReq, ReqOK
<1>4. QED
  BY <1>1, <1>2, <1>3

\* The answer to a request asks for nothing more.
LEMMA AnswerTyped ==
    ASSUME begun \in Nat, NEW r \in Requests, r.kind # "none", NEW ok \in BOOLEAN, NEW k \in 0..begun
    PROVE  /\ Answer(r, ok) \in Requests /\ ReqOK(Answer(r, ok))
           /\ [Answer(r, ok) EXCEPT !.token = k] \in Requests
           /\ ReqOK([Answer(r, ok) EXCEPT !.token = k])
<1>1. NoReq \in Requests /\ NoReq.phase = "none"
  BY NothingAsked DEF NoReq
<1>2. PICK a : a = Answer(r, ok)
  OBVIOUS
<1>3. a \in Requests /\ a.kind = r.kind /\ a.phase = "answered"
  BY <1>1, <1>2 DEF Answer, Requests, ReqPhases
<1>4. PICK b : b = [a EXCEPT !.token = k]
  OBVIOUS
<1>5. b \in Requests /\ b.kind = r.kind /\ b.phase = "answered"
  BY <1>3, <1>4 DEF Requests
<1>6. ReqOK(a) /\ ReqOK(b)
  BY <1>3, <1>5 DEF ReqOK
<1>7. QED
  BY <1>2, <1>3, <1>4, <1>5, <1>6

\* What a tab believes after an answer, or after a lost one, is well typed.
LEMMA BelievesTyped ==
    ASSUME NEW v \in Views, NEW r \in Requests, r.kind # "none"
    PROVE  Believes(v, r) \in Views /\ Believes(v, Lost(r)) \in Views
<1>1. ASSUME NEW q, q.kind = r.kind, q.body \in Views
      PROVE  Believes(v, q) \in Views
  <2>1. q.kind \in {"status", "setup", "login", "logout", "change"}
    BY <1>1 DEF Requests, Kinds
  <2>2. CASE q.kind = "status"
    BY <1>1, <2>2 DEF Believes, Views
  <2>3. CASE q.kind # "status"
    BY <2>1, <2>3 DEF Believes, Views
  <2>4. QED
    BY <2>2, <2>3
<1>2. Lost(r).kind = r.kind /\ Lost(r).body \in Views
  BY DEF Lost, Requests, NoView, Views
<1>3. QED
  BY <1>1, <1>2 DEF Requests

-----------------------------------------------------------------------------
(* Frames.                                                                  *)

\* More tokens are handed out and a password may be set: what was right of a
\* request stays so.
LEMMA RequestKept ==
    ASSUME begun \in Nat, begun' \in Nat, begun <= begun', Configured => Configured',
           NEW r \in Requests, ReqOK(r)
    PROVE  r \in Requests' /\ ReqOK(r)'
<1>1. 0..begun \subseteq 0..begun'
  OBVIOUS
<1>2. r \in Requests'
  BY <1>1 DEF Requests
<1>3. ReqOK(r)'
  BY DEF ReqOK
<1>4. QED
  BY <1>2, <1>3

\* One request changes.
LEMMA OneRequest ==
    ASSUME ReqsOK, begun \in Nat, begun' \in Nat, begun <= begun', Configured => Configured',
           NEW t \in Tabs, NEW g, g \in Requests', ReqOK(g)', req' = [req EXCEPT ![t] = g]
    PROVE  ReqsOK'
<1>1. ASSUME NEW u \in Tabs
      PROVE  req'[u] \in Requests' /\ ReqOK(req[u])'
  <2>1. PICK q : q = req'[u]
    OBVIOUS
  <2>2. q \in Requests' /\ ReqOK(q)'
    <3>1. CASE u = t
      BY <2>1, <3>1 DEF ReqsOK
    <3>2. CASE u # t
      <4>1. q \in Requests /\ ReqOK(q)
        BY <2>1, <3>2 DEF ReqsOK
      <4>2. QED
        BY <4>1, RequestKept
    <3>3. QED
      BY <3>1, <3>2
  <2>3. QED
    BY <2>1, <2>2 DEF ReqOK, Configured
<1>2. req' = [u \in Tabs |-> req'[u]]
  BY DEF ReqsOK
<1>3. QED
  BY <1>1, <1>2 DEF ReqsOK

\* Nobody's password changes, and no change of one is finished.
LEMMA SessionsKept ==
    ASSUME SessionsFollowPassword, UNCHANGED <<cached, proof, overtaken>>, sessions' \subseteq sessions,
           req \in [Tabs -> Requests], NEW t \in Tabs, NEW g, req' = [req EXCEPT ![t] = g],
           req[t].phase # "changed"
    PROVE  SessionsFollowPassword'
<1>1. ASSUME NEW u \in Tabs, Handles(u, "change", "changed") PROVE Handles(u, "change", "changed")'
  BY <1>1 DEF Handles
<1>2. ASSUME NEW k \in sessions'
      PROVE  \/ proof'[k] = cached'
             \/ k \in overtaken'
             \/ \E u \in Tabs : Handles(u, "change", "changed")'
  BY <1>1 DEF SessionsFollowPassword
<1>3. QED
  BY <1>2 DEF SessionsFollowPassword

\* One request goes on and nothing else of the server changes.
LEMMA Goes1 ==
    ASSUME IInv, UNCHANGED <<store, login>>, GuardOK', BoundsOK', TabsOK',
           NEW t \in Tabs, NEW g \in Requests, ReqOK(g), req' = [req EXCEPT ![t] = g],
           req[t].phase # "changed"
    PROVE  IInv'
<1>1. begun \in Nat
  BY BoundsAreNat DEF IInv, LoginOK
<1>2. g \in Requests' /\ ReqOK(g)'
  BY <1>1, RequestKept DEF store, login, Configured
<1>0. begun' = begun /\ begun <= begun' /\ (Configured => Configured')
  BY <1>1 DEF store, login, Configured
<1>3. ReqsOK'
  BY <1>0, <1>1, <1>2, OneRequest DEF IInv
<1>4. StoreOK' /\ LoginOK'
  BY DEF IInv, StoreOK, LoginOK, store, login, Configured
<1>5. SessionsFollowPassword'
  BY SessionsKept DEF IInv, ReqsOK, store, login
<1>6. QED
  BY <1>3, <1>4, <1>5 DEF IInv

-----------------------------------------------------------------------------
(* Steps of a tab.                                                          *)

\* What the invariant says of the types of one tab and its browser.
LEMMA Typings ==
    ASSUME IInv
    PROVE  /\ begun \in Nat /\ req \in [Tabs -> Requests] /\ NoReq \in Requests
           /\ \A t \in Tabs : req[t] \in Requests /\ ReqOK(req[t]) /\ home[t] \in Browsers
           /\ \A b \in Browsers : cookie[b] \in 0..begun
<1>1. begun \in Nat
  BY BoundsAreNat DEF IInv, LoginOK
<1>2. QED
  BY <1>1, NothingAsked DEF IInv, ReqsOK, TabsOK

\* What a form sends: a request of its kind, with what was typed.
LEMMA AskInv ==
    ASSUME IInv, NEW t \in Tabs, NEW r \in Requests, r.kind # "none",
           r.kind = "setup" => r.typed \in Typed, r.kind = "change" => r.next \in Typed,
           Ask(t, r)
    PROVE  IInv'
<1>1. PICK g : g = [r EXCEPT !.phase = "sent", !.token = cookie[home[t]]]
  OBVIOUS
<1>2. g \in Requests /\ g.kind = r.kind /\ g.phase = "sent" /\ g.typed = r.typed /\ g.next = r.next
  BY <1>1, Typings DEF Requests, ReqPhases
<1>3. ReqOK(g)
  BY <1>2 DEF ReqOK
<1>4. req' = [req EXCEPT ![t] = g] /\ req[t].phase # "changed"
  BY <1>1 DEF Ask, NoReq
<1>5. UNCHANGED <<store, login, guard, cli, tab, faults, pages>>
  BY DEF Ask
<1>6. GuardOK' /\ BoundsOK' /\ TabsOK'
  BY <1>5 DEF IInv, GuardOK, BoundsOK, TabsOK, guard, tab, login
<1>7. QED
  BY <1>2, <1>3, <1>4, <1>5, <1>6, Goes1

\* Sending a form takes along the cookie and nothing else.
LEMMA SubmitInv ==
    ASSUME IInv, NEW t \in Tabs,
           SubmitSetup(t) \/ SubmitLogin(t) \/ SubmitChange(t) \/ Logout(t)
    PROVE  IInv'
<1>1. NoReq \in Requests /\ Typed \subseteq Passwords
  BY Typings, WordTypes
<1>2. ASSUME NEW kind \in {"setup", "login"}, NEW p \in Typed,
             Ask(t, [NoReq EXCEPT !.kind = kind, !.typed = p])
      PROVE  IInv'
  <2>1. PICK r : r = [NoReq EXCEPT !.kind = kind, !.typed = p]
    OBVIOUS
  <2>2. r \in Requests /\ r.kind = kind /\ r.typed = p
    BY <1>1, <2>1 DEF Requests, Kinds
  <2>3. QED
    BY <1>2, <2>1, <2>2, AskInv
<1>3. ASSUME NEW p \in Typed, NEW q \in Typed,
             Ask(t, [NoReq EXCEPT !.kind = "change", !.typed = p, !.next = q])
      PROVE  IInv'
  <2>1. PICK r : r = [NoReq EXCEPT !.kind = "change", !.typed = p, !.next = q]
    OBVIOUS
  <2>2. r \in Requests /\ r.kind = "change" /\ r.next = q
    BY <1>1, <2>1 DEF Requests, Kinds
  <2>3. QED
    BY <1>3, <2>1, <2>2, AskInv
<1>4. ASSUME Ask(t, [NoReq EXCEPT !.kind = "logout"])
      PROVE  IInv'
  <2>1. PICK r : r = [NoReq EXCEPT !.kind = "logout"]
    OBVIOUS
  <2>2. r \in Requests /\ r.kind = "logout"
    BY <1>1, <2>1 DEF Requests, Kinds
  <2>3. QED
    BY <1>4, <2>1, <2>2, AskInv
<1>5. QED
  BY <1>2, <1>3, <1>4 DEF SubmitSetup, SubmitLogin, SubmitChange, Logout

\* Loading a page forgets what the tab believed.
LEMMA LoadPageInv ==
    ASSUME IInv, NEW t \in Tabs, LoadPage(t)
    PROVE  IInv'
<1>1. PICK g : g = [NoReq EXCEPT !.kind = "status", !.phase = "sent", !.token = cookie[home[t]]]
  OBVIOUS
<1>2. g \in Requests /\ g.kind = "status" /\ g.phase = "sent"
  BY <1>1, Typings DEF Requests, ReqPhases, Kinds
<1>3. ReqOK(g)
  BY <1>2 DEF ReqOK
<1>4. req' = [req EXCEPT ![t] = g] /\ req[t].phase # "changed"
  BY <1>1 DEF LoadPage, NoReq
<1>5. /\ UNCHANGED <<store, login, guard, cli, home, cookie, faults>> /\ pages' = pages + 1
      /\ pages < MaxPages /\ view' = [view EXCEPT ![t] = NoView]
  BY DEF LoadPage
<1>6. GuardOK' /\ BoundsOK' /\ TabsOK'
  <2>1. NoView \in Views
    BY DEF NoView, Views
  <2>2. TabsOK'
    BY <1>5, <2>1 DEF IInv, TabsOK, login
  <2>3. GuardOK' /\ BoundsOK'
    BY <1>5, BoundsAreNat DEF IInv, GuardOK, BoundsOK, guard
  <2>4. QED
    BY <2>2, <2>3
<1>7. QED
  BY <1>2, <1>3, <1>4, <1>5, <1>6, Goes1

\* A tab hears of its request, or hears that it failed.
LEMMA HeardInv ==
    ASSUME IInv, NEW t \in Tabs, Answered(t) \/ RequestLost(t)
    PROVE  IInv'
<1>1. /\ req[t] \in Requests /\ req[t].kind # "none" /\ req[t].phase # "changed"
      /\ view[t] \in Views /\ home[t] \in Browsers
  BY Typings DEF Answered, RequestLost, ReqOK, IInv, TabsOK
<1>2. UNCHANGED <<store, login, guard, cli, home, pages>>
  BY DEF Answered, RequestLost
<1>3. view' = [view EXCEPT ![t] = Believes(view[t], req[t])]
      \/ view' = [view EXCEPT ![t] = Believes(view[t], Lost(req[t]))]
  BY DEF Answered, RequestLost, Receives
<1>4. view' \in [Tabs -> Views]
  BY <1>1, <1>3, BelievesTyped DEF IInv, TabsOK
<1>5. cookie' \in [Browsers -> 0..begun]
  BY <1>1 DEF Answered, RequestLost, IInv, TabsOK, Requests
<1>6. GuardOK' /\ BoundsOK' /\ TabsOK'
  BY <1>2, <1>4, <1>5, BoundsAreNat DEF IInv, GuardOK, BoundsOK, TabsOK, guard, login, Answered, RequestLost
<1>7. req' = [req EXCEPT ![t] = NoReq]
  BY DEF Answered, RequestLost, Receives
<1>8. QED
  BY <1>1, <1>2, <1>6, <1>7, Typings, NothingAsked, Goes1

-----------------------------------------------------------------------------
(* Steps of the server on one request.                                      *)

\* A request passes to another phase, or is answered; the limiter may count.
LEMMA Handled ==
    ASSUME IInv, UNCHANGED <<store, login, cli, tab, faults, pages>>, GuardOK', NEW t \in Tabs,
           req[t].kind # "none", req[t].phase # "changed",
           \/ \E ok \in BOOLEAN : Answers(t, ok)
           \/ \E p \in {"admitted", "verified"} :
                 /\ Goes(t, p)
                 /\ p = "verified" => Configured
                 /\ req[t].kind = "setup" => p = "admitted" /\ req[t].phase = "sent"
                 /\ req[t].kind = "change" => p = "admitted" /\ req[t].phase = "sent" /\ req[t].token # 0
    PROVE  IInv'
<1>1. BoundsOK' /\ TabsOK'
  BY DEF IInv, BoundsOK, TabsOK, tab, login
<1>2. req[t] \in Requests /\ ReqOK(req[t]) /\ begun \in Nat /\ req[t].token \in 0..begun
  BY Typings DEF Requests
<1>3. ASSUME NEW ok \in BOOLEAN, Answers(t, ok)
      PROVE  IInv'
  <2>1. Answer(req[t], ok) \in Requests /\ ReqOK(Answer(req[t], ok))
    BY <1>2, AnswerTyped
  <2>2. PICK g : g = Answer(req[t], ok)
    OBVIOUS
  <2>3. req' = [req EXCEPT ![t] = g]
    BY <1>3, <2>2 DEF Answers
  <2>4. QED
    BY <1>1, <2>1, <2>2, <2>3, Goes1
<1>4. ASSUME NEW p \in {"admitted", "verified"}, Goes(t, p), p = "verified" => Configured,
             req[t].kind = "setup" => p = "admitted" /\ req[t].phase = "sent",
             req[t].kind = "change" => p = "admitted" /\ req[t].phase = "sent" /\ req[t].token # 0
      PROVE  IInv'
  <2>1. PICK g : g = [req[t] EXCEPT !.phase = p]
    OBVIOUS
  <2>2. /\ g \in Requests /\ g.phase = p /\ g.kind = req[t].kind /\ g.typed = req[t].typed
        /\ g.next = req[t].next /\ g.token = req[t].token
    BY <1>2, <2>1 DEF Requests, ReqPhases
  <2>3. ReqOK(g)
    BY <1>2, <1>4, <2>2 DEF ReqOK
  <2>4. req' = [req EXCEPT ![t] = g]
    BY <1>4, <2>1 DEF Goes
  <2>5. QED
    BY <1>1, <2>2, <2>3, <2>4, Goes1
<1>5. QED
  BY <1>3, <1>4

\* The status answers what the server holds at that moment.
LEMMA StatusInv ==
    ASSUME IInv, NEW t \in Tabs, Status(t)
    PROVE  IInv'
<1>1. PICK body \in Views :
        req' = [req EXCEPT ![t].phase = "answered", ![t].ok = TRUE, ![t].body = body]
  <2>1. [NoView EXCEPT !.loading = FALSE, !.setupRequired = ~Configured,
                       !.authenticated = Configured /\ req[t].token \in sessions] \in Views
    BY DEF NoView, Views
  <2>2. QED
    BY <2>1 DEF Status
<1>2. PICK g : g = [req[t] EXCEPT !.phase = "answered", !.ok = TRUE, !.body = body]
  OBVIOUS
<1>3. g \in Requests /\ g.phase = "answered" /\ g.kind = "status"
  BY <1>2, Typings DEF Requests, ReqPhases, Status, Handles
<1>4. ReqOK(g)
  BY <1>3 DEF ReqOK
<1>5. req' = [req EXCEPT ![t] = g] /\ req[t].phase # "changed"
  BY <1>1, <1>2, Typings DEF Status, Handles
<1>6. GuardOK' /\ BoundsOK' /\ TabsOK' /\ UNCHANGED <<store, login>>
  BY DEF Status, IInv, GuardOK, BoundsOK, TabsOK, guard, tab, login
<1>7. QED
  BY <1>3, <1>4, <1>5, <1>6, Goes1

\* The limiter's count stays below the number that locks a client out.
LEMMA LimiterOK ==
    ASSUME GuardOK
    PROVE  /\ Fail => GuardOK'
           /\ Succeed => GuardOK'
           /\ UNCHANGED guard => GuardOK'
<1>1. (Fail \/ Succeed) => fails' \in 0..(MaxFailures - 1)
  BY BoundsAreNat DEF GuardOK, Fail, Succeed
<1>2. (Fail \/ Succeed) => locked' \in BOOLEAN
  BY DEF GuardOK, Fail, Succeed
<1>3. QED
  BY <1>1, <1>2 DEF GuardOK, guard

\* refuseLockedOut, handleAuthLogin, requireAuth.
LEMMA AdmitInv ==
    ASSUME IInv, NEW t \in Tabs, RefuseLockedOut(t) \/ CheckLogin(t) \/ Admit(t)
    PROVE  IInv'
<1>1. UNCHANGED <<store, login, cli, tab, faults, pages>> /\ GuardOK'
  BY LimiterOK DEF IInv, RefuseLockedOut, CheckLogin, Admit
<1>2. CASE RefuseLockedOut(t)
  BY <1>1, <1>2, Handled DEF RefuseLockedOut, Handles
<1>3. CASE CheckLogin(t)
  BY <1>1, <1>3, Handled DEF CheckLogin, Handles
<1>4. CASE Admit(t)
  <2>1. req[t].token \in sessions => req[t].token # 0
    BY Typings DEF IInv, LoginOK
  <2>2. QED
    BY <1>1, <1>4, <2>1, Handled DEF Admit, Handles
<1>5. QED
  BY <1>2, <1>3, <1>4

-----------------------------------------------------------------------------
(* Steps of the server that change passwords and sessions.                  *)

\* A password is set where there was none: nobody is logged in by then.
LEMMA CheckSetupInv ==
    ASSUME IInv, NEW t \in Tabs, CheckSetup(t)
    PROVE  IInv'
<1>1. /\ req[t] \in Requests /\ ReqOK(req[t]) /\ begun \in Nat
      /\ req[t].kind = "setup" /\ req[t].phase = "admitted"
      /\ UNCHANGED <<login, cli, tab, faults, pages>>
  BY Typings DEF CheckSetup, Handles
<1>2. CASE Answers(t, FALSE) /\ UNCHANGED store
  <2>1. GuardOK'
    BY <1>1, <1>2, LimiterOK DEF IInv, CheckSetup, Goes, MaySetUp, ReqOK, StoreOK, Stores, store
  <2>2. QED
    BY <1>1, <1>2, <2>1, Handled
<1>3. CASE /\ MaySetUp /\ Stores(Trim(req[t].typed)) /\ Succeed
           /\ req' = [req EXCEPT ![t].phase = "verified", ![t].typed = Trim(@)]
  <2>1. PICK p \in Typed : p = Trim(req[t].typed) /\ p # NoPassword /\ p \in Passwords
    BY <1>1, WordTypes DEF ReqOK
  <2>2. row' = p /\ cached' = p /\ unread' = unread /\ Configured' /\ ~Configured
    BY <1>3, <2>1 DEF Stores, MaySetUp, Configured
  <2>3. PICK g : g = [req[t] EXCEPT !.phase = "verified", !.typed = p]
    OBVIOUS
  <2>4. g \in Requests /\ g.kind = "setup" /\ g.phase = "verified"
    BY <1>1, <2>1, <2>3 DEF Requests, ReqPhases
  <2>5. req' = [req EXCEPT ![t] = g]
    BY <1>1, <1>3, <2>1, <2>3, Typings
  <2>6. g \in Requests' /\ ReqOK(g)'
    BY <1>1, <2>2, <2>4 DEF Requests, ReqOK, login
  <2>7. begun' = begun /\ begun <= begun' /\ (Configured => Configured')
    BY <1>1, <2>2 DEF login
  <2>8. ReqsOK'
    BY <1>1, <2>5, <2>6, <2>7, OneRequest DEF IInv
  <2>9. StoreOK' /\ LoginOK'
    BY <1>1, <2>1, <2>2 DEF IInv, StoreOK, LoginOK, login
  <2>10. BoundsOK' /\ TabsOK' /\ GuardOK'
    BY <1>1, <1>3, LimiterOK DEF IInv, BoundsOK, TabsOK, tab, login
  <2>11. SessionsFollowPassword'
    BY <1>1, <2>2 DEF IInv, LoginOK, SessionsFollowPassword, login
  <2>12. QED
    BY <2>8, <2>9, <2>10, <2>11 DEF IInv
<1>4. QED
  BY <1>2, <1>3 DEF CheckSetup

\* A session is begun with the password that was verified.
LEMMA StartSessionInv ==
    ASSUME IInv, NEW t \in Tabs, StartSession(t)
    PROVE  IInv'
<1>1. /\ req[t] \in Requests /\ ReqOK(req[t]) /\ begun \in Nat /\ begun' = begun + 1
      /\ begun < MaxSessions /\ req[t].phase = "verified" /\ req[t].kind # "none"
      /\ Configured /\ req[t].typed \in Passwords
      /\ UNCHANGED <<store, guard, cli, tab, faults, pages>>
  BY Typings DEF StartSession, Handles, ReqOK, Requests
<1>2. begun' \in Tokens /\ begun' \notin sessions /\ begun' \notin overtaken
  BY <1>1, BoundsAreNat DEF IInv, LoginOK, Tokens
<1>3. /\ sessions' = sessions \union {begun'}
      /\ proof' = [proof EXCEPT ![begun'] = req[t].typed]
      /\ overtaken' = IF req[t].typed = cached THEN overtaken ELSE overtaken \union {begun'}
  BY DEF StartSession
<1>4. LoginOK'
  <2>1. begun' \in 0..MaxSessions /\ sessions' \subseteq 1..begun' /\ overtaken' \subseteq 1..begun'
    BY <1>1, <1>3, BoundsAreNat DEF IInv, LoginOK
  <2>2. proof' \in [Tokens -> Passwords]
    BY <1>1, <1>3 DEF IInv, LoginOK
  <2>3. Configured'
    BY <1>1 DEF store, Configured
  <2>4. QED
    BY <2>1, <2>2, <2>3 DEF LoginOK
<1>5. StoreOK' /\ GuardOK' /\ BoundsOK'
  BY <1>1 DEF IInv, StoreOK, GuardOK, BoundsOK, store, guard
<1>6. TabsOK'
  <2>1. 0..begun \subseteq 0..begun'
    BY <1>1
  <2>2. QED
    BY <1>1, <2>1 DEF IInv, TabsOK, tab
<1>7. ReqsOK'
  <2>1. PICK a : a = Answer(req[t], TRUE)
    OBVIOUS
  <2>2. a \in Requests /\ a.kind = req[t].kind /\ a.phase = "answered"
    <3>1. a \in Requests
      BY <1>1, <2>1, AnswerTyped DEF Requests
    <3>2. QED
      BY <2>1, <3>1 DEF Answer, NoReq
  <2>3. PICK g : g = [a EXCEPT !.token = begun']
    OBVIOUS
  <2>4. g \in Requests' /\ g.kind = req[t].kind /\ g.phase = "answered"
    BY <1>1, <2>2, <2>3 DEF Requests
  <2>5. ReqOK(g)'
    BY <1>1, <2>4 DEF ReqOK
  <2>6. req' = [req EXCEPT ![t] = g]
    BY <2>1, <2>3 DEF StartSession
  <2>7. begun' \in Nat /\ begun <= begun' /\ (Configured => Configured')
    BY <1>1 DEF store, Configured
  <2>8. QED
    BY <1>1, <2>4, <2>5, <2>6, <2>7, OneRequest DEF IInv
<1>8. SessionsFollowPassword'
  <2>1. ASSUME NEW u \in Tabs, Handles(u, "change", "changed") PROVE Handles(u, "change", "changed")'
    BY <1>1, <2>1, Typings DEF Handles, StartSession
  <2>2. ASSUME NEW k \in sessions'
        PROVE  \/ proof'[k] = cached'
               \/ k \in overtaken'
               \/ \E u \in Tabs : Handles(u, "change", "changed")'
    <3>1. cached' = cached /\ proof \in [Tokens -> Passwords] /\ overtaken \subseteq overtaken'
      BY <1>1, <1>3 DEF store, IInv, LoginOK
    <3>2. CASE k = begun'
      BY <1>2, <1>3, <3>1, <3>2
    <3>3. CASE k # begun'
      <4>1. k \in sessions /\ proof'[k] = proof[k]
        BY <1>3, <3>1, <3>3
      <4>2. QED
        BY <2>1, <3>1, <4>1 DEF IInv, SessionsFollowPassword
    <3>4. QED
      BY <3>2, <3>3
  <2>3. QED
    BY <2>2 DEF SessionsFollowPassword
<1>9. QED
  BY <1>4, <1>5, <1>6, <1>7, <1>8 DEF IInv

\* A logout ends one session and leaves the others as they were.
LEMMA LogoutInv ==
    ASSUME IInv, NEW t \in Tabs, HandleLogout(t)
    PROVE  IInv'
<1>1. /\ req[t] \in Requests /\ begun \in Nat /\ 0 \in 0..begun
      /\ req[t].kind = "logout" /\ req[t].phase = "sent"
      /\ UNCHANGED <<store, begun, proof, overtaken, guard, cli, tab, faults, pages>>
      /\ sessions' \subseteq sessions
  BY Typings DEF HandleLogout, Handles
<1>2. PICK g : g = [Answer(req[t], TRUE) EXCEPT !.token = 0]
  OBVIOUS
<1>3. g \in Requests /\ ReqOK(g)
  BY <1>1, <1>2, AnswerTyped
<1>4. req' = [req EXCEPT ![t] = g]
  BY <1>2 DEF HandleLogout
<1>5. begun <= begun' /\ begun' = begun /\ (Configured => Configured')
  BY <1>1 DEF store, Configured
<1>6. g \in Requests' /\ ReqOK(g)'
  BY <1>1, <1>3, <1>5, RequestKept
<1>7. ReqsOK'
  BY <1>1, <1>4, <1>5, <1>6, OneRequest DEF IInv
<1>8. SessionsFollowPassword'
  BY <1>1, <1>4, SessionsKept, Typings DEF IInv, store
<1>9. StoreOK' /\ LoginOK' /\ GuardOK' /\ BoundsOK' /\ TabsOK'
  BY <1>1 DEF IInv, StoreOK, LoginOK, GuardOK, BoundsOK, TabsOK, store, guard, tab, Configured
<1>10. QED
  BY <1>7, <1>8, <1>9 DEF IInv

\* The password is changed: until the other sessions are ended, whoever is
\* logged in is excused.
LEMMA ChangePasswordInv ==
    ASSUME IInv, NEW t \in Tabs, ChangePassword(t)
    PROVE  IInv'
<1>1. /\ req[t] \in Requests /\ ReqOK(req[t]) /\ begun \in Nat
      /\ req[t].kind = "change" /\ req[t].phase = "admitted"
      /\ UNCHANGED <<login, guard, cli, tab, faults, pages>>
  BY Typings DEF ChangePassword, Handles
<1>2. CASE Answers(t, FALSE) /\ UNCHANGED store
  <2>1. GuardOK'
    BY <1>1, LimiterOK DEF IInv
  <2>2. QED
    BY <1>1, <1>2, <2>1, Handled
<1>3. CASE /\ Configured /\ Stores(Trim(req[t].next))
           /\ req' = [req EXCEPT ![t].phase = "changed", ![t].typed = NoPassword, ![t].next = Trim(@)]
  <2>1. PICK p \in Typed : p = Trim(req[t].next) /\ p # NoPassword /\ p \in Passwords
    BY <1>1, WordTypes DEF ReqOK
  <2>2. row' = p /\ cached' = p /\ unread' = unread /\ Configured'
    BY <1>3, <2>1 DEF Stores, Configured
  <2>3. PICK g : g = [req[t] EXCEPT !.phase = "changed", !.typed = NoPassword, !.next = p]
    OBVIOUS
  <2>4. /\ g \in Requests /\ g.kind = "change" /\ g.phase = "changed" /\ g.token = req[t].token
    BY <1>1, <2>1, <2>3, WordTypes DEF Requests, ReqPhases
  <2>5. req' = [req EXCEPT ![t] = g]
    BY <1>1, <1>3, <2>1, <2>3, Typings
  <2>6. g \in Requests' /\ ReqOK(g)'
    BY <1>1, <2>2, <2>4 DEF Requests, ReqOK, login
  <2>7. begun' = begun /\ begun <= begun' /\ (Configured => Configured')
    BY <1>1, <2>2 DEF login
  <2>8. ReqsOK'
    BY <1>1, <2>5, <2>6, <2>7, OneRequest DEF IInv
  <2>9. StoreOK' /\ LoginOK'
    BY <1>1, <2>1, <2>2 DEF IInv, StoreOK, LoginOK, login
  <2>10. BoundsOK' /\ TabsOK' /\ GuardOK'
    BY <1>1, LimiterOK DEF IInv, BoundsOK, TabsOK, tab, login
  <2>11. SessionsFollowPassword'
    <3>1. Handles(t, "change", "changed")'
      BY <2>4, <2>5, Typings DEF Handles
    <3>2. QED
      BY <3>1 DEF SessionsFollowPassword
  <2>12. QED
    BY <2>8, <2>9, <2>10, <2>11 DEF IInv
<1>4. QED
  BY <1>2, <1>3 DEF ChangePassword

\* The other sessions are ended: the one that is left is that of the tab that
\* gave the new password.
LEMMA KeepOnlyInv ==
    ASSUME IInv, NEW t \in Tabs, KeepOnly(t)
    PROVE  IInv'
<1>1. /\ req[t] \in Requests /\ ReqOK(req[t]) /\ begun \in Nat
      /\ req[t].kind = "change" /\ req[t].phase = "changed" /\ Configured
      /\ UNCHANGED <<store, begun, guard, cli, tab, faults, pages>>
  BY Typings DEF KeepOnly, Handles, ReqOK
<1>2. PICK k \in 1..begun, p \in Passwords : k = req[t].token /\ p = req[t].next
  BY <1>1 DEF ReqOK, Requests
<1>3. /\ sessions' = {k} /\ proof' = [proof EXCEPT ![k] = p]
      /\ overtaken' = IF p = cached THEN overtaken \ {k} ELSE overtaken \union {k}
  BY <1>2 DEF KeepOnly, Kept
<1>4. k \in Tokens
  BY <1>2, BoundsAreNat DEF IInv, LoginOK, Tokens
<1>5. LoginOK'
  BY <1>1, <1>2, <1>3 DEF IInv, LoginOK, store, Configured
<1>6. SessionsFollowPassword'
  BY <1>1, <1>3, <1>4 DEF IInv, LoginOK, SessionsFollowPassword, store
<1>7. Answer(req[t], TRUE) \in Requests /\ ReqOK(Answer(req[t], TRUE))
  BY <1>1, AnswerTyped DEF Requests
<1>8. PICK g : g = Answer(req[t], TRUE)
  OBVIOUS
<1>9. begun' = begun /\ begun <= begun' /\ (Configured => Configured')
  BY <1>1 DEF store, Configured
<1>10. g \in Requests' /\ ReqOK(g)' /\ req' = [req EXCEPT ![t] = g]
  BY <1>1, <1>7, <1>8, <1>9, RequestKept DEF KeepOnly, Answers
<1>11. ReqsOK'
  BY <1>1, <1>9, <1>10, OneRequest DEF IInv
<1>12. StoreOK' /\ GuardOK' /\ BoundsOK' /\ TabsOK'
  BY <1>1 DEF IInv, StoreOK, GuardOK, BoundsOK, TabsOK, store, guard, tab
<1>13. QED
  BY <1>5, <1>6, <1>11, <1>12 DEF IInv

\* A statement fails: the row may have been written, and that is on record.
LEMMA StoreFailsInv ==
    ASSUME IInv, NEW t \in Tabs, StoreFails(t)
    PROVE  IInv'
<1>1. /\ req[t] \in Requests /\ ReqOK(req[t]) /\ begun \in Nat
      /\ req[t].kind \in {"setup", "change"} /\ req[t].phase = "admitted"
      /\ faults < MaxFaults /\ faults' = faults + 1
      /\ UNCHANGED <<cached, login, guard, cli, tab, pages>> /\ Answers(t, FALSE)
      /\ unread' = (unread \/ row' # row)
  BY Typings DEF StoreFails, Handles
<1>2. row' \in Passwords
  <2>1. CASE req[t].kind = "setup"
    BY <1>1, <2>1, WordTypes DEF StoreFails, Handles, ReqOK, IInv, StoreOK
  <2>2. CASE req[t].kind = "change"
    BY <1>1, <2>2, WordTypes DEF StoreFails, Handles, ReqOK, IInv, StoreOK
  <2>3. QED
    BY <1>1, <2>1, <2>2
<1>3. StoreOK'
  BY <1>1, <1>2, Zenon DEF IInv, StoreOK
<1>4. Answer(req[t], FALSE) \in Requests /\ ReqOK(Answer(req[t], FALSE))
  BY <1>1, AnswerTyped DEF Requests
<1>5. PICK g : g = Answer(req[t], FALSE)
  OBVIOUS
<1>6. begun' = begun /\ begun <= begun' /\ (Configured => Configured')
  BY <1>1 DEF login, Configured
<1>7. g \in Requests' /\ ReqOK(g)' /\ req' = [req EXCEPT ![t] = g]
  BY <1>1, <1>4, <1>5, <1>6, RequestKept DEF Answers
<1>8. ReqsOK'
  BY <1>1, <1>6, <1>7, OneRequest DEF IInv
<1>9. SessionsFollowPassword'
  BY <1>1, <1>7, SessionsKept, Typings DEF IInv, login
<1>10. LoginOK' /\ GuardOK' /\ TabsOK'
  BY <1>1 DEF IInv, LoginOK, GuardOK, TabsOK, login, guard, tab, Configured
<1>11. BoundsOK'
  BY <1>1, BoundsAreNat DEF IInv, BoundsOK
<1>12. QED
  BY <1>3, <1>8, <1>9, <1>10, <1>11 DEF IInv

-----------------------------------------------------------------------------
(* Steps that no request takes.                                             *)

\* Sessions expire, the limiter forgets, restic-webctl runs.
LEMMA AsideInv ==
    ASSUME IInv,
           (\E k \in sessions : Expire(k)) \/ TimePasses \/ CliStart \/ CliWrite
    PROVE  IInv'
<1>1. UNCHANGED <<cached, begun, proof, overtaken, tab, req, pages>> /\ sessions' \subseteq sessions
  BY DEF Expire, TimePasses, CliStart, CliWrite, store, login
<1>2. GuardOK'
  BY LimiterOK DEF IInv, Expire, TimePasses, CliStart, CliWrite
<1>3. BoundsOK'
  <2>1. faults' \in 0..MaxFaults /\ pages' \in 0..MaxPages
    BY BoundsAreNat DEF IInv, BoundsOK, Expire, TimePasses, CliStart, CliWrite
  <2>2. cli' \in BOOLEAN
    BY DEF IInv, BoundsOK, Expire, TimePasses, CliStart, CliWrite
  <2>3. QED
    BY <2>1, <2>2 DEF BoundsOK
<1>4. StoreOK'
  BY WordTypes DEF IInv, StoreOK, Expire, TimePasses, CliStart, CliWrite, store
<1>5. LoginOK' /\ TabsOK' /\ ReqsOK' /\ SessionsFollowPassword'
  BY <1>1 DEF IInv, LoginOK, TabsOK, ReqsOK, ReqOK, Requests, SessionsFollowPassword, Handles,
              Configured, tab
<1>6. QED
  BY <1>2, <1>3, <1>4, <1>5 DEF IInv

\* The server starts anew: nobody is logged in and nothing is under way.
LEMMA RestartInv ==
    ASSUME IInv, Restart
    PROVE  IInv'
<1> DEFINE dropped == {t \in Tabs : req[t].phase \notin {"none", "answered"}}
<1>1. /\ cached' = row /\ unread' = FALSE /\ sessions' = {} /\ fails' = 0 /\ locked' = FALSE
      /\ UNCHANGED <<row, begun, proof, overtaken, cli, home, cookie, pages>>
      /\ faults < MaxFaults /\ faults' = faults + 1
      /\ req' = [t \in Tabs |-> IF t \in dropped THEN NoReq ELSE req[t]]
      /\ view' = [t \in Tabs |-> IF t \in dropped THEN Believes(view[t], Lost(req[t])) ELSE view[t]]
  BY DEF Restart
<1>2. StoreOK' /\ LoginOK' /\ SessionsFollowPassword'
  BY <1>1 DEF IInv, StoreOK, LoginOK, SessionsFollowPassword
<1>3. GuardOK' /\ BoundsOK'
  <2>1. /\ fails' \in 0..(MaxFailures - 1)
        /\ faults' \in 0..MaxFaults /\ pages' \in 0..MaxPages
    BY <1>1, BoundsAreNat DEF IInv, BoundsOK
  <2>2. locked' \in BOOLEAN /\ cli' \in BOOLEAN
    BY <1>1 DEF IInv, BoundsOK
  <2>3. QED
    BY <2>1, <2>2 DEF GuardOK, BoundsOK
<1>4. TabsOK'
  <2>1. ASSUME NEW t \in Tabs PROVE view'[t] \in Views
    <3>1. req[t] \in Requests /\ view[t] \in Views /\ (t \in dropped => req[t].kind # "none")
      BY Typings DEF ReqOK, IInv, TabsOK
    <3>2. QED
      BY <1>1, <3>1, BelievesTyped
  <2>2. QED
    BY <1>1, <2>1 DEF IInv, TabsOK
<1>5. ReqsOK'
  <2>1. ASSUME NEW t \in Tabs PROVE req'[t] \in Requests' /\ ReqOK(req[t])'
    <3>1. /\ req'[t] \in Requests /\ req'[t].phase \in {"none", "answered"}
          /\ req'[t].phase # "none" => req'[t].kind # "none"
      BY <1>1, Typings DEF ReqOK, NoReq
    <3>2. QED
      BY <1>1, <3>1 DEF ReqOK, Requests
  <2>2. QED
    BY <1>1, <2>1 DEF ReqsOK
<1>6. QED
  BY <1>2, <1>3, <1>4, <1>5 DEF IInv

-----------------------------------------------------------------------------
(* The invariant.                                                           *)

\* Before anything is sent nobody is logged in.
LEMMA InitInv ==
    ASSUME Init
    PROVE  IInv
<1>1. begun = 0 /\ begun \in Nat /\ NoReq \in Requests /\ NoView \in Views
  BY NothingAsked DEF Init
<1>2. StoreOK
  BY WordTypes DEF Init, StoreOK, Passwords, Typed
<1>3. LoginOK /\ SessionsFollowPassword
  BY WordTypes, BoundsAreNat DEF Init, LoginOK, SessionsFollowPassword
<1>4. GuardOK /\ BoundsOK
  <2>1. fails \in 0..(MaxFailures - 1) /\ faults \in 0..MaxFaults /\ pages \in 0..MaxPages
    BY BoundsAreNat DEF Init
  <2>2. locked \in BOOLEAN /\ cli \in BOOLEAN
    BY DEF Init
  <2>3. QED
    BY <2>1, <2>2 DEF GuardOK, BoundsOK
<1>5. TabsOK
  BY <1>1 DEF Init, TabsOK
<1>6. ReqsOK
  <2>1. PICK g : g = [NoReq EXCEPT !.kind = "status", !.phase = "sent"]
    OBVIOUS
  <2>2. g \in Requests /\ g.kind = "status" /\ g.phase = "sent"
    BY <1>1, <2>1 DEF Requests, Kinds, ReqPhases
  <2>3. ReqOK(g)
    BY <2>2 DEF ReqOK
  <2>4. QED
    BY <2>1, <2>2, <2>3 DEF Init, ReqsOK
<1>7. QED
  BY <1>2, <1>3, <1>4, <1>5, <1>6 DEF IInv

\* Every step keeps the invariant.
LEMMA NextInv ==
    ASSUME IInv, [Next]_vars
    PROVE  IInv'
<1>1. CASE UNCHANGED vars
  BY <1>1 DEF vars, store, login, guard, tab, IInv, StoreOK, LoginOK, GuardOK, BoundsOK, TabsOK,
              ReqsOK, ReqOK, Requests, SessionsFollowPassword, Handles, Configured
<1>2. ASSUME NEW t \in Tabs, UserStep(t) \/ Answered(t) \/ RequestLost(t) PROVE IInv'
  BY <1>2, LoadPageInv, SubmitInv, HeardInv DEF UserStep
<1>3. ASSUME NEW t \in Tabs, ServerStep(t) PROVE IInv'
  BY <1>3, StatusInv, AdmitInv, CheckSetupInv, StartSessionInv, LogoutInv, ChangePasswordInv,
     StoreFailsInv, KeepOnlyInv DEF ServerStep
<1>4. CASE (\E k \in sessions : Expire(k)) \/ TimePasses \/ CliStart \/ CliWrite
  BY <1>4, AsideInv
<1>5. CASE Restart
  BY <1>5, RestartInv
<1>6. QED
  BY <1>1, <1>2, <1>3, <1>4, <1>5 DEF Next

\* The invariant holds in every state.
LEMMA Invariant == Spec => []IInv
<1>1. Init => IInv
  BY InitInv
<1>2. IInv /\ [Next]_vars => IInv'
  BY NextInv
<1>3. QED
  BY <1>1, <1>2, PTL DEF Spec

\* Only tokens that were handed out are valid or held, and a server without a
\* password lets nobody in (SessionManager, AuthStore).
THEOREM TypeCorrect == Spec => []TypeOK
<1>1. IInv => TypeOK
  BY DEF IInv, StoreOK, LoginOK, GuardOK, BoundsOK, TabsOK, ReqsOK, TypeOK
<1>2. QED
  BY <1>1, Invariant, PTL

\* Whoever is logged in gave the password in force: for any number of logins,
\* changes and restarts that overlap (handleAuthPassword, KeepOnly).
THEOREM LoginsFollowPassword == Spec => []SessionsFollowPassword
<1>1. IInv => SessionsFollowPassword
  BY DEF IInv
<1>2. QED
  BY <1>1, Invariant, PTL

\* A first-run setup never replaces a password that the server's copy has: of any
\* number that overlap, all but one are refused (SetupPassword). It says nothing
\* of one that is still unread: restic-webctl wrote it beside the server, or
\* saveLocked wrote it and the database's answer was lost; that one is replaced.
THEOREM SetupComesFirst == Spec => SetupOnlyFirst
<1>1. ASSUME IInv, [Next]_vars, NEW t \in Tabs,
             Handles(t, "setup", "admitted"), req'[t].phase = "verified"
      PROVE  row = NoPassword \/ unread
  <2>1. req \in [Tabs -> Requests] /\ req[t].kind = "setup" /\ req[t].phase = "admitted"
        /\ req'[t] # req[t]
    BY <1>1, Typings DEF Handles
  <2>2. CASE CheckSetup(t)
    <3>1. ~Configured
      BY <2>1, <2>2, <1>1 DEF CheckSetup, Answers, Answer, MaySetUp, NoReq
    <3>2. QED
      BY <1>1, <3>1 DEF IInv, StoreOK, Configured
  <2>3. ASSUME NEW u \in Tabs, u # t, UserStep(u) \/ ServerStep(u) \/ Answered(u) \/ RequestLost(u)
        PROVE  FALSE
    BY <2>1, <2>3 DEF UserStep, LoadPage, SubmitSetup, SubmitLogin, SubmitChange, Logout, Ask,
       ServerStep, Status, RefuseLockedOut, CheckLogin, CheckSetup, StartSession, HandleLogout, Admit,
       ChangePassword, StoreFails, KeepOnly, Answered, RequestLost, Receives, Answers, Goes
  <2>4. CASE UserStep(t) \/ Answered(t) \/ RequestLost(t)
    <3>1. UserStep(t) => req[t] = NoReq
      BY DEF UserStep, LoadPage, SubmitSetup, SubmitLogin, SubmitChange, Logout, Ask
    <3>2. NoReq.kind # "setup"
      BY DEF NoReq
    <3>3. QED
      BY <2>1, <2>4, <3>1, <3>2 DEF Answered, RequestLost
  <2>5. CASE ServerStep(t) /\ ~CheckSetup(t)
    <3>1. StoreFails(t)
      BY <2>1, <2>5 DEF ServerStep, Status, RefuseLockedOut, CheckLogin, StartSession, HandleLogout,
         Admit, ChangePassword, KeepOnly, Handles
    <3>2. req'[t].phase = "answered"
      BY <2>1, <3>1 DEF StoreFails, Answers, Answer, NoReq
    <3>3. QED
      BY <1>1, <3>2
  <2>6. CASE (\E k \in sessions : Expire(k)) \/ TimePasses \/ CliStart \/ CliWrite \/ UNCHANGED vars
    BY <2>1, <2>6 DEF Expire, TimePasses, CliStart, CliWrite, vars
  <2>7. CASE Restart
    BY <1>1, <2>1, <2>7 DEF Restart, NoReq
  <2>8. QED
    BY <1>1, <2>2, <2>3, <2>4, <2>5, <2>6, <2>7 DEF Next
<1>2. IInv /\ [Next]_vars =>
        [\A t \in Tabs : (Handles(t, "setup", "admitted") /\ req'[t].phase = "verified")
                          => row = NoPassword \/ unread]_vars
  BY <1>1
<1>3. QED
  BY <1>2, Invariant, PTL DEF Spec, SetupOnlyFirst
=============================================================================
