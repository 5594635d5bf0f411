---------------------------- MODULE LoginFlowProofs ----------------------------
(***************************************************************************)
(* Proofs about module LoginFlow, for any number of tabs, users and paths  *)
(* and any lifetimes of the cookies.                                       *)
(*                                                                         *)
(* The server keeps nothing of a sign-in, so the invariant relates what    *)
(* the browser carries: the login cookie is of one attempt, a tab is of    *)
(* one attempt, and where the two are of the same attempt they agree on    *)
(* what it asked for, when it began and at which process.                  *)
(***************************************************************************)
EXTENDS LoginFlow, TLAPS

\* The cookie of a login: made by one attempt, state and nonce together.
CookieOfAnAttempt ==
    jar.login # None => /\ jar.login.state \in 1..attempts
                        /\ jar.login.nonce = jar.login.state

\* A code is some user's.
CodeOfAUser(code) == code # None => code.user \in User

\* A tab in an attempt: its code, if it has one, was given out in that attempt; one
\* that is exchanging it sent a login cookie of that attempt, which has its return_to.
TabOfAnAttempt(tab) ==
    /\ tab.at \in {"page", "failed"} \cup InAttempt
    /\ tab.at \in InAttempt => tab.state \in 1..attempts
    /\ tab.at = "entra" => tab.nonce = tab.state
    /\ tab.at \in {"back", "exchanging"} =>
          (tab.code # None => tab.code.nonce = tab.state /\ tab.code.user \in User)
    /\ tab.at = "exchanging" =>
          /\ tab.code # None
          /\ tab.login.nonce = tab.state
          /\ tab.login.returnTo = Sanitized(tab.asked)

\* The cookie and a tab of the same attempt agree on where and when it ends.
CookieMeetsTab(login, tab) ==
    login # None /\ tab.at \in InAttempt /\ login.state = tab.state =>
        /\ login.returnTo = Sanitized(tab.asked)
        /\ login.exp = tab.began + LoginMaxAge
        /\ login.key = tab.key

\* The session cookie is of a user of the tenant.
SessionOfTheTenant ==
    jar.session # None => jar.session.user \in User /\ jar.session.user.tid = tenant

IInv ==
    /\ attempts \in Nat
    /\ jar = [login |-> jar.login, session |-> jar.session]
    /\ DOMAIN tabs = Tab
    /\ CookieOfAnAttempt
    /\ \A t \in Tab : TabOfAnAttempt(tabs[t])
    /\ \A t \in Tab : CookieMeetsTab(jar.login, tabs[t])
    /\ SessionOfTheTenant

-------------------------------------------------------------------------------
(* Every step keeps the invariant. *)

\* At the start there is no cookie and no attempt.
LEMMA InitInv == Init => IInv
BY DEF Init, IInv, CookieOfAnAttempt, TabOfAnAttempt, CookieMeetsTab,
       SessionOfTheTenant, Page, InAttempt

\* A step of one tab, within the attempts there have been, that leaves the login cookie
\* or clears it, has to watch that tab and the session.
LEMMA TabStep ==
    ASSUME IInv, NEW t \in Tab, NEW tab, NEW session,
           Goes(t, tab), attempts' = attempts,
           jar' = [jar EXCEPT !.session = session]
             \/ jar' = [login |-> None, session |-> session],
           TabOfAnAttempt(tab), CookieMeetsTab(jar.login, tab),
           SessionOfTheTenant'
    PROVE  IInv'
<1>1. DOMAIN tabs' = Tab /\ \A s \in Tab : tabs'[s] = IF s = t THEN tab ELSE tabs[s]
  BY DEF IInv, Goes
<1>2. jar' = [login |-> jar'.login, session |-> jar'.session]
      /\ (jar'.login = jar.login \/ jar'.login = None)
  BY DEF IInv
<1>3. (\A s \in Tab : TabOfAnAttempt(tabs[s]))'
  BY <1>1 DEF IInv, TabOfAnAttempt, Sanitized
<1>4. (\A s \in Tab : CookieMeetsTab(jar.login, tabs[s]))'
  BY <1>1, <1>2 DEF IInv, CookieMeetsTab, Sanitized
<1>5. CookieOfAnAttempt'
  BY <1>2 DEF IInv, CookieOfAnAttempt
<1>6. QED
  BY <1>1, <1>2, <1>3, <1>4, <1>5 DEF IInv

\* Bind keeps a binding.
LEMMA BindKeeps ==
    ASSUME NEW user, tenant # NoTenant
    PROVE  Bind(user) = tenant
BY DEF Bind

\* Where there is a session, the tenant is bound.
LEMMA SessionBinds == IInv /\ jar.session # None => tenant # NoTenant
BY LoginAssumption DEF IInv, SessionOfTheTenant

\* A login: its number is new, so no other tab has a state the new cookie could match.
LEMMA LoginStep ==
    ASSUME IInv, NEW t \in Tab, NEW path, Login(t, path)
    PROVE  IInv'
<1> DEFINE tab == [at |-> "entra", state |-> attempts', nonce |-> attempts',
                   asked |-> path, began |-> now, key |-> key]
           login == [key |-> key, state |-> attempts', nonce |-> attempts',
                     returnTo |-> Sanitized(path), exp |-> now + LoginMaxAge]
<1>1. DOMAIN tabs' = Tab /\ \A s \in Tab : tabs'[s] = IF s = t THEN tab ELSE tabs[s]
  BY DEF IInv, Goes, Login
<1>2. attempts \in Nat /\ attempts' = attempts + 1
  BY DEF IInv, Login
<1>3. jar' = [login |-> login, session |-> jar.session]
  BY DEF IInv, Login
<1>4. (\A s \in Tab : TabOfAnAttempt(tabs[s]))'
  BY <1>1, <1>2 DEF IInv, TabOfAnAttempt, Sanitized, InAttempt
<1>5. (\A s \in Tab : CookieMeetsTab(jar.login, tabs[s]))'
  BY <1>1, <1>2, <1>3 DEF IInv, CookieMeetsTab, TabOfAnAttempt, Sanitized
<1>6. CookieOfAnAttempt'
  BY <1>2, <1>3 DEF CookieOfAnAttempt
<1>7. SessionOfTheTenant'
  BY <1>3 DEF IInv, SessionOfTheTenant, Login
<1>8. QED
  BY <1>1, <1>2, <1>3, <1>4, <1>5, <1>6, <1>7 DEF IInv

\* The steps that change no session, beyond what TabStep says.
LEMMA RefuseStep ==
    ASSUME IInv, NEW t \in Tab, Refuse(t)
    PROVE  IInv'
<1>1. jar' = [jar EXCEPT !.session = jar.session] \/ jar' = [login |-> None, session |-> jar.session]
  BY DEF Refuse, IInv
<1>2. SessionOfTheTenant'
  BY <1>1 DEF IInv, SessionOfTheTenant, Refuse
<1>3. TabOfAnAttempt(Failed) /\ CookieMeetsTab(jar.login, Failed)
  BY DEF TabOfAnAttempt, CookieMeetsTab, Failed, InAttempt
<1>4. Goes(t, Failed) /\ attempts' = attempts
  BY DEF Refuse, Fails
<1>5. QED
  BY <1>1, <1>2, <1>3, <1>4, TabStep

\* The exchange: the state of the query is that of the cookie, so both are of the
\* attempt in which the code was given out.
LEMMA ExchangeStep ==
    ASSUME IInv, NEW t \in Tab, Exchange(t)
    PROVE  IInv'
<1> DEFINE tab == [at |-> "exchanging", state |-> tabs[t].state, code |-> tabs[t].code,
                   asked |-> tabs[t].asked, began |-> tabs[t].began, key |-> key,
                   login |-> jar.login]
<1>1. jar' = [jar EXCEPT !.session = jar.session] \/ jar' = [login |-> None, session |-> jar.session]
  BY DEF Exchange, IInv
<1>2. SessionOfTheTenant'
  BY <1>1 DEF IInv, SessionOfTheTenant, Exchange
<1>3. CASE Goes(t, tab)
  <2>1. /\ tabs[t].at = "back" /\ TabOfAnAttempt(tabs[t]) /\ CookieMeetsTab(jar.login, tabs[t])
        /\ jar.login # None /\ jar.login.state = tabs[t].state /\ tabs[t].code # None
        /\ jar.login.nonce = jar.login.state /\ jar.login.key = key
    BY DEF Exchange, IInv, Valid, StateMatches, CookieOfAnAttempt
  <2>2. TabOfAnAttempt(tab)
    BY <2>1 DEF TabOfAnAttempt, CookieMeetsTab, InAttempt
  <2>3. CookieMeetsTab(jar.login, tab)
    BY <2>1 DEF CookieMeetsTab, InAttempt
  <2>4. QED
    BY <1>1, <1>2, <1>3, <2>2, <2>3, TabStep DEF Exchange
<1>4. CASE Fails(t)
  <2>1. TabOfAnAttempt(Failed) /\ CookieMeetsTab(jar.login, Failed)
    BY DEF TabOfAnAttempt, CookieMeetsTab, Failed, InAttempt
  <2>2. QED
    BY <1>1, <1>2, <1>4, <2>1, TabStep DEF Exchange, Fails
<1>5. QED
  BY <1>3, <1>4 DEF Exchange

\* Where a failing sign-in may have bound the tenant, a session is still one of it.
LEMMA MayBindKeeps ==
    ASSUME IInv, NEW t \in Tab, tenant' \in MayBind(t),
           jar'.session = jar.session
    PROVE  SessionOfTheTenant'
<1>1. tenant' = tenant \/ tenant' = Bind(tabs[t].code.user)
  BY DEF MayBind
<1>2. jar.session # None => tenant' = tenant
  BY <1>1, BindKeeps, SessionBinds
<1>3. QED
  BY <1>2 DEF IInv, SessionOfTheTenant

\* A sign-in that fails for no fault of the user.
LEMMA FaultStep ==
    ASSUME IInv, NEW t \in Tab, Fault(t)
    PROVE  IInv'
<1>1. jar' = [login |-> None, session |-> jar.session] /\ attempts' = attempts
  BY DEF Fault, IInv
<1>2. SessionOfTheTenant'
  BY <1>1, MayBindKeeps DEF Fault
<1>3. TabOfAnAttempt(Failed) /\ CookieMeetsTab(jar.login, Failed)
  BY DEF TabOfAnAttempt, CookieMeetsTab, Failed, InAttempt
<1>4. Goes(t, Failed)
  BY DEF Fault, Fails
<1>5. QED
  BY <1>1, <1>2, <1>3, <1>4, TabStep

\* The end of a sign-in: the session written is of a user whose tenant is bound by then.
LEMMA CompleteStep ==
    ASSUME IInv, NEW t \in Tab, CompleteSignIn(t)
    PROVE  IInv'
<1> DEFINE code == tabs[t].code
<1>1. tabs[t].at = "exchanging" /\ code # None /\ code.user \in User /\ attempts' = attempts
  BY DEF CompleteSignIn, IInv, TabOfAnAttempt
<1>2. CASE IsRefused(t)
  <2>1. jar' = [login |-> None, session |-> jar.session]
    BY <1>2 DEF CompleteSignIn, IInv
  <2>2. tenant' = Bind(code.user) \/ tenant' = tenant
    BY <1>2 DEF CompleteSignIn
  <2>3. SessionOfTheTenant'
    <3>1. jar.session # None => tenant' = tenant
      BY <2>2, BindKeeps, SessionBinds
    <3>2. QED
      BY <2>1, <3>1 DEF IInv, SessionOfTheTenant
  <2>4. TabOfAnAttempt(Failed) /\ CookieMeetsTab(jar.login, Failed)
    BY DEF TabOfAnAttempt, CookieMeetsTab, Failed, InAttempt
  <2>5. Goes(t, Failed)
    BY <1>2 DEF CompleteSignIn, Fails
  <2>6. QED
    BY <1>1, <2>1, <2>3, <2>4, <2>5, TabStep
<1>3. CASE ~IsRefused(t)
  <2> DEFINE session == [key |-> key, user |-> code.user, exp |-> now + SessionMaxAge]
             tab == Page(tabs[t].login.returnTo, code.user)
  <2>1. /\ jar' = [login |-> None, session |-> session]
        /\ Goes(t, tab) /\ tenant' = Bind(code.user)
    BY <1>3 DEF CompleteSignIn, SignsIn
  <2>2. code.user.tid = tenant'
    BY <1>3, <2>1 DEF IsRefused
  <2>3. SessionOfTheTenant'
    BY <1>1, <2>1, <2>2 DEF SessionOfTheTenant
  <2>4. TabOfAnAttempt(tab) /\ CookieMeetsTab(jar.login, tab)
    BY DEF TabOfAnAttempt, CookieMeetsTab, Page, InAttempt
  <2>5. QED
    BY <1>1, <2>1, <2>3, <2>4, TabStep
<1>4. QED
  BY <1>2, <1>3

\* Signing out leaves no session; visiting a page changes no cookie.
LEMMA LogoutStep ==
    ASSUME IInv, NEW t \in Tab, Logout(t)
    PROVE  IInv'
<1>1. jar' = [jar EXCEPT !.session = None] /\ Goes(t, Page(Home, None)) /\ attempts' = attempts
  BY DEF Logout
<1>2. SessionOfTheTenant'
  BY <1>1 DEF IInv, SessionOfTheTenant
<1>3. TabOfAnAttempt(Page(Home, None)) /\ CookieMeetsTab(jar.login, Page(Home, None))
  BY DEF TabOfAnAttempt, CookieMeetsTab, Page, InAttempt
<1>4. QED
  BY <1>1, <1>2, <1>3, TabStep

LEMMA VisitStep ==
    ASSUME IInv, NEW t \in Tab, NEW path, Visit(t, path)
    PROVE  IInv'
<1> DEFINE tab == Page(path, Authenticated)
<1>1. jar' = [jar EXCEPT !.session = jar.session] /\ Goes(t, tab) /\ attempts' = attempts
  BY DEF Visit, IInv
<1>2. SessionOfTheTenant'
  BY DEF IInv, SessionOfTheTenant, Visit
<1>3. TabOfAnAttempt(tab) /\ CookieMeetsTab(jar.login, tab)
  BY DEF TabOfAnAttempt, CookieMeetsTab, Page, InAttempt
<1>4. QED
  BY <1>1, <1>2, <1>3, TabStep

\* Microsoft's page gives out a code in the attempt of the tab.
LEMMA AuthorizeStep ==
    ASSUME IInv, NEW t \in Tab, NEW user \in User \cup {None}, Authorize(t, user)
    PROVE  IInv'
<1> DEFINE code == IF user = None THEN None ELSE [nonce |-> tabs[t].nonce, user |-> user]
           tab == [at |-> "back", state |-> tabs[t].state, code |-> code,
                   asked |-> tabs[t].asked, began |-> tabs[t].began, key |-> tabs[t].key]
<1>1. jar' = [jar EXCEPT !.session = jar.session] /\ Goes(t, tab) /\ attempts' = attempts
  BY DEF Authorize, IInv
<1>2. SessionOfTheTenant'
  BY DEF IInv, SessionOfTheTenant, Authorize
<1>3. tabs[t].at = "entra" /\ TabOfAnAttempt(tabs[t]) /\ CookieMeetsTab(jar.login, tabs[t])
  BY DEF Authorize, IInv
<1>4. code # None => code.nonce = tabs[t].state /\ code.user \in User
  BY <1>3 DEF TabOfAnAttempt
<1>5. TabOfAnAttempt(tab) /\ CookieMeetsTab(jar.login, tab)
  BY <1>3, <1>4 DEF TabOfAnAttempt, CookieMeetsTab, InAttempt
<1>6. QED
  BY <1>1, <1>2, <1>5, TabStep

\* The callback requested again, of which the server may have done its part, or none.
LEMMA ReloadStep ==
    ASSUME IInv, NEW t \in Tab, Reload(t)
    PROVE  IInv'
<1> DEFINE tab == [at |-> "back", state |-> tabs[t].state, code |-> tabs[t].code,
                   asked |-> tabs[t].asked, began |-> tabs[t].began, key |-> tabs[t].key]
<1>1. jar' = [jar EXCEPT !.session = jar.session] /\ Goes(t, tab) /\ attempts' = attempts
  BY DEF Reload, IInv
<1>2. SessionOfTheTenant'
  <2>1. jar' = jar /\ tenant' \in MayBind(t)
    BY DEF Reload, MayBind
  <2>2. QED
    BY <2>1, MayBindKeeps
<1>3. tabs[t].at = "exchanging" /\ TabOfAnAttempt(tabs[t]) /\ CookieMeetsTab(jar.login, tabs[t])
  BY DEF Reload, IInv
<1>4. TabOfAnAttempt(tab) /\ CookieMeetsTab(jar.login, tab)
  BY <1>3 DEF TabOfAnAttempt, CookieMeetsTab, InAttempt
<1>5. QED
  BY <1>1, <1>2, <1>4, TabStep

\* A restart loses the handlers, not what the browser carries.
LEMMA RestartStep == IInv /\ Restart => IInv'
<1> SUFFICES ASSUME IInv, Restart PROVE IInv'
  OBVIOUS
<1>1. jar' = jar /\ attempts' = attempts /\ tenant' = tenant
  BY DEF Restart
<1>2. DOMAIN tabs' = Tab /\ \A t \in Tab : tabs'[t] = tabs[t] \/ tabs'[t] = Failed
  BY DEF IInv, Restart
<1>3. \A t \in Tab : TabOfAnAttempt(tabs[t]) /\ CookieMeetsTab(jar.login, tabs[t])
  BY DEF IInv
<1>4. TabOfAnAttempt(Failed) /\ CookieMeetsTab(jar.login, Failed)
  BY DEF TabOfAnAttempt, CookieMeetsTab, Failed, InAttempt
<1>5. \A t \in Tab : TabOfAnAttempt(tabs'[t]) /\ CookieMeetsTab(jar.login, tabs'[t])
  BY <1>2, <1>3, <1>4
<1>6. (\A t \in Tab : TabOfAnAttempt(tabs[t]))'
  BY <1>1, <1>5 DEF TabOfAnAttempt, Sanitized
<1>7. (\A t \in Tab : CookieMeetsTab(jar.login, tabs[t]))'
  BY <1>1, <1>5 DEF CookieMeetsTab, Sanitized
<1>8. CookieOfAnAttempt' /\ SessionOfTheTenant'
  BY <1>1 DEF IInv, CookieOfAnAttempt, SessionOfTheTenant
<1>9. QED
  BY <1>1, <1>2, <1>6, <1>7, <1>8 DEF IInv

\* Cookies that are dropped agree with everything.
LEMMA ForgetStep == IInv /\ Forget => IInv'
<1> SUFFICES ASSUME IInv, Forget PROVE IInv'
  OBVIOUS
<1>1. /\ jar' = [login |-> jar'.login, session |-> jar'.session]
      /\ jar'.login = jar.login \/ jar'.login = None
      /\ jar'.session = jar.session \/ jar'.session = None
      /\ attempts' = attempts /\ tenant' = tenant /\ tabs' = tabs
  BY DEF Forget, IInv
<1>2. QED
  BY <1>1 DEF IInv, CookieOfAnAttempt, TabOfAnAttempt, CookieMeetsTab, SessionOfTheTenant, Sanitized

LEMMA NextInv == IInv /\ [Next]_vars => IInv'
<1> SUFFICES ASSUME IInv, [Next]_vars PROVE IInv'
  OBVIOUS
<1>1. ASSUME NEW t \in Tab, Click(t) PROVE IInv'
  BY <1>1, LoginStep, VisitStep, LogoutStep DEF Click
<1>2. ASSUME NEW t \in Tab, Serve(t) PROVE IInv'
  BY <1>2, RefuseStep, ExchangeStep, CompleteStep DEF Serve
<1>3. ASSUME NEW t \in Tab, Fault(t) \/ Reload(t) PROVE IInv'
  BY <1>3, FaultStep, ReloadStep
<1>4. ASSUME NEW t \in Tab, NEW user \in User \cup {None}, Authorize(t, user) PROVE IInv'
  BY <1>4, AuthorizeStep
<1>5. CASE Restart \/ Forget
  BY <1>5, RestartStep, ForgetStep
<1>6. CASE Tick \/ UNCHANGED vars
  BY <1>6 DEF Tick, vars, IInv, CookieOfAnAttempt, TabOfAnAttempt, CookieMeetsTab,
              SessionOfTheTenant, Sanitized
<1>7. QED
  BY <1>1, <1>2, <1>3, <1>4, <1>5, <1>6 DEF Next

-------------------------------------------------------------------------------
(* Theorems. *)

\* What the browser carries fits together in every reachable state.
THEOREM Invariant == Spec => []IInv
<1>1. QED
  BY InitInv, NextInv, PTL DEF Spec

\* Every session cookie there is, is of a user of the tenant that is bound.
THEOREM NoForeignSession == Spec => []SessionsAreOfTheTenant
<1>1. IInv => SessionsAreOfTheTenant
  BY DEF IInv, SessionOfTheTenant, SessionsAreOfTheTenant
<1>2. QED
  BY <1>1, Invariant, PTL

\* The nonce always matches when the state did: a code is exchanged in its own attempt.
THEOREM CodeMeetsAttempt == Spec => []CodesMeetTheirAttempt
<1>1. IInv => CodesMeetTheirAttempt
  BY DEF IInv, TabOfAnAttempt, CodesMeetTheirAttempt, InAttempt
<1>2. QED
  BY <1>1, Invariant, PTL

\* The page a sign-in ends on is the one its own tab asked for.
LEMMA LandsStep ==
    ASSUME IInv, [Next]_vars, NEW t \in Tab,
           tabs[t].at = "exchanging", tabs'[t].at = "page"
    PROVE  tabs'[t].path = Sanitized(tabs[t].asked)
<1>1. TabOfAnAttempt(tabs[t]) /\ DOMAIN tabs = Tab
  BY DEF IInv
<1>2. ASSUME NEW s \in Tab, s # t, NEW place, Goes(s, place) PROVE FALSE
  BY <1>1, <1>2 DEF Goes
<1>3. ASSUME Goes(t, Failed) PROVE FALSE
  BY <1>1, <1>3 DEF Goes, Failed
<1>4. CASE CompleteSignIn(t)
  <2>1. Goes(t, Page(tabs[t].login.returnTo, tabs[t].code.user))
    BY <1>3, <1>4 DEF CompleteSignIn, Fails, SignsIn
  <2>2. tabs'[t].path = tabs[t].login.returnTo
    BY <1>1, <2>1 DEF Goes, Page
  <2>3. QED
    BY <1>1, <2>2 DEF TabOfAnAttempt
<1>5. ASSUME NEW s \in Tab, Click(s) \/ Refuse(s) \/ Exchange(s) PROVE FALSE
  <2>1. tabs[s].at # "exchanging"
    BY <1>5 DEF Click, Refuse, Exchange
  <2>2. \E place : Goes(s, place)
    BY <1>5 DEF Click, Refuse, Exchange, Fails, Login, Visit, Logout
  <2>3. QED
    BY <2>1, <2>2, <1>2
<1>6. ASSUME NEW s \in Tab, s # t, CompleteSignIn(s) \/ Fault(s) \/ Reload(s) PROVE FALSE
  <2>1. \E place : Goes(s, place)
    BY <1>6 DEF CompleteSignIn, Fault, Reload, Fails, SignsIn
  <2>2. QED
    BY <2>1, <1>2, <1>6
<1>7. ASSUME Fault(t) \/ Reload(t) PROVE FALSE
  BY <1>1, <1>3, <1>7 DEF Fault, Fails, Reload, Goes
<1>8. ASSUME NEW s \in Tab, NEW user \in User \cup {None}, Authorize(s, user) PROVE FALSE
  <2>1. tabs[s].at # "exchanging" /\ \E place : Goes(s, place)
    BY <1>8 DEF Authorize
  <2>2. QED
    BY <2>1, <1>2
<1>9. CASE Restart \/ Forget \/ Tick \/ UNCHANGED vars
  BY <1>9 DEF Restart, Forget, Tick, vars, Failed
<1>10. QED
  BY <1>4, <1>5, <1>6, <1>7, <1>8, <1>9 DEF Next, Serve

\* A tab that signs in ends where that tab was asked to go.
THEOREM LandsWhereItAsked == Spec => LandsWhereAsked
<1>1. IInv /\ [Next]_vars =>
         [ \A t \in Tab : tabs[t].at = "exchanging" /\ tabs'[t].at = "page" =>
              tabs'[t].path = Sanitized(tabs[t].asked) ]_vars
  BY LandsStep
<1>2. QED
  BY <1>1, Invariant, PTL DEF Spec, LandsWhereAsked

\* Only Exchange takes a tab from the callback to the exchange.
LEMMA OnlyExchangeExchanges ==
    ASSUME IInv, [Next]_vars, NEW t \in Tab,
           tabs[t].at = "back", tabs'[t].at = "exchanging"
    PROVE  Exchange(t)
<1> SUFFICES ASSUME ~Exchange(t) PROVE FALSE
  OBVIOUS
<1>1. DOMAIN tabs = Tab
  BY DEF IInv
<1>2. ASSUME NEW s \in Tab, NEW place, Goes(s, place), s # t \/ place.at # "exchanging"
      PROVE  FALSE
  BY <1>1, <1>2 DEF Goes
<1>3. ASSUME NEW s \in Tab, Click(s) PROVE FALSE
  <2>1. ASSUME NEW path, Login(s, path) PROVE FALSE
    BY <2>1, <1>2 DEF Login
  <2>2. ASSUME NEW path, Visit(s, path) PROVE FALSE
    BY <2>2, <1>2 DEF Visit, Page
  <2>3. CASE Logout(s)
    BY <2>3, <1>2 DEF Logout, Page
  <2>4. QED
    BY <1>3, <2>1, <2>2, <2>3 DEF Click
<1>4. ASSUME NEW s \in Tab, Serve(s) PROVE FALSE
  <2>1. CASE Exchange(s)
    <3>1. s # t /\ \E place : Goes(s, place)
      BY <2>1 DEF Exchange, Fails
    <3>2. QED
      BY <3>1, <1>2
  <2>2. CASE Refuse(s) \/ CompleteSignIn(s)
    <3>1. \E place : Goes(s, place) /\ place.at # "exchanging"
      BY <2>2 DEF Refuse, CompleteSignIn, SignsIn, Fails, Failed, Page
    <3>2. QED
      BY <3>1, <1>2
  <2>3. QED
    BY <1>4, <2>1, <2>2 DEF Serve
<1>5. ASSUME NEW s \in Tab, Fault(s) \/ Reload(s) PROVE FALSE
  <2>1. \E place : Goes(s, place) /\ place.at # "exchanging"
    BY <1>5 DEF Fault, Fails, Failed, Reload
  <2>2. QED
    BY <2>1, <1>2
<1>6. ASSUME NEW s \in Tab, NEW user \in User \cup {None}, Authorize(s, user) PROVE FALSE
  <2>1. \E place : Goes(s, place) /\ place.at # "exchanging"
    BY <1>6 DEF Authorize
  <2>2. QED
    BY <2>1, <1>2
<1>7. CASE Restart \/ Forget \/ Tick \/ UNCHANGED vars
  BY <1>7 DEF Restart, Forget, Tick, vars, Failed
<1>8. QED
  BY <1>3, <1>4, <1>5, <1>6, <1>7 DEF Next

\* An exchange is of a callback that came at most LoginMaxAge after its own tab began, to
\* the process it began at: the cookie that lets it through is the one of that attempt.
THEOREM ExchangedInTime == Spec => ExchangesAreInTime
<1>1. IInv /\ [Next]_vars =>
         [ \A t \in Tab :
              tabs[t].at = "back" /\ tabs'[t].at = "exchanging" =>
                 /\ now <= tabs[t].began + LoginMaxAge
                 /\ tabs[t].key = key ]_vars
  <2> SUFFICES ASSUME IInv, [Next]_vars, NEW t \in Tab,
                      tabs[t].at = "back", tabs'[t].at = "exchanging"
               PROVE  now <= tabs[t].began + LoginMaxAge /\ tabs[t].key = key
    OBVIOUS
  <2>1. Valid(jar.login) /\ jar.login.state = tabs[t].state
    BY OnlyExchangeExchanges DEF Exchange, StateMatches
  <2>2. CookieMeetsTab(jar.login, tabs[t])
    BY DEF IInv
  <2>3. QED
    BY <2>1, <2>2 DEF Valid, CookieMeetsTab, InAttempt
<1>2. QED
  BY <1>1, Invariant, PTL DEF Spec, ExchangesAreInTime

================================================================================
