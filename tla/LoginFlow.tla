------------------------------- MODULE LoginFlow ------------------------------
(***************************************************************************)
(* Signing in from one browser with several tabs: GET /auth/login, the     *)
(* page of Microsoft, GET /auth/callback, and the two cookies that carry   *)
(* the state of it, since the server keeps none.                           *)
(*                                                                         *)
(* The tabs share the cookies; a request carries those of the moment it is *)
(* sent, and what a response sets or clears takes effect when it arrives.  *)
(* Callback waits for Microsoft in the middle (the exchange of the code),  *)
(* so it is two steps.  A cookie is sealed with the server's key, which is *)
(* a new one on every start unless it is configured.                       *)
(*                                                                         *)
(* State and nonce are random and made together: both are the number of    *)
(* the attempt here.  What sign-in does in the database (Bootstrap, claim  *)
(* of an invitation) is in module Server; here it binds the tenant.        *)
(***************************************************************************)
EXTENDS Naturals

CONSTANTS
    Tab,            \* the tabs of the browser
    User,           \* the accounts its user has: [oid, tid]
    ReturnTo,       \* what ?return_to= may say
    Local,          \* those of them that begin with one slash
    Home,           \* the path "/"
    NoTenant,
    None,           \* no such cookie; nobody
    LoginMaxAge,    \* 5 minutes, in ticks of the clock
    SessionMaxAge   \* 8 hours

\* Every account has a tenant: a token without a tid is refused (auth/verifier.go:56).
ASSUME LoginAssumption ==
    /\ Local \subseteq ReturnTo /\ Home \in Local
    /\ LoginMaxAge \in Nat /\ SessionMaxAge \in Nat
    /\ None \notin User /\ \A u \in User : u.tid # NoTenant

VARIABLES
    now,        \* time.Now
    key,        \* which key the process has
    tenant,     \* the tenant bound
    jar,        \* the browser's cookies: [login, session]
    tabs,       \* where each tab is
    codes,      \* the authorization codes Microsoft has given out and not redeemed
    attempts    \* logins so far

vars == <<now, key, tenant, jar, tabs, codes, attempts>>

\* A tab is on a "page" (which one, and served to whom, or None), at "entra" with
\* the state and nonce of an attempt, "back" from there with the callback's query,
\* waiting while the server is "exchanging" the code, or "failed".  It remembers
\* what its last attempt asked for.
Page(path, user) == [at |-> "page", path |-> path, user |-> user]
Failed == [at |-> "failed"]
InAttempt == {"entra", "back", "exchanging"}

Init == /\ now = 0 /\ key = 0 /\ attempts = 0
        /\ tenant = NoTenant
        /\ jar = [login |-> None, session |-> None]
        /\ tabs = [t \in Tab |-> Page(Home, None)]
        /\ codes = {}

Goes(t, place) == tabs' = [tabs EXCEPT ![t] = place]

Fails(t) == Goes(t, Failed)

-------------------------------------------------------------------------------
(* The server. *)

\* Mutant: whatever can be decrypted counts.
Valid_Forever(cookie) == cookie # None /\ cookie.key = key

\* ReadSession, ReadLoginState: there is a cookie, it opens, it has not expired.
Valid(cookie) == cookie # None /\ cookie.key = key /\ now <= cookie.exp

\* Login's check of return_to.
Sanitized(path) == IF path \in Local THEN path ELSE Home

\* Mutant: a login already under way is continued, with what it asked for.
Login_Resumes(t, path) ==
    /\ attempts' = attempts + 1
    /\ LET returnTo == IF Valid(jar.login) THEN jar.login.returnTo ELSE Sanitized(path)
       IN jar' = [jar EXCEPT !.login = [key |-> key, state |-> attempts', nonce |-> attempts',
                                        returnTo |-> returnTo, exp |-> now + LoginMaxAge]]
    /\ Goes(t, [at |-> "entra", state |-> attempts', nonce |-> attempts',
                asked |-> path, began |-> now, key |-> key])
    /\ UNCHANGED <<now, key, tenant, codes>>

\* Login: a new attempt, in a cookie that replaces that of any other.
Login(t, path) ==
    /\ attempts' = attempts + 1
    /\ jar' = [jar EXCEPT !.login = [key |-> key, state |-> attempts', nonce |-> attempts',
                                     returnTo |-> Sanitized(path), exp |-> now + LoginMaxAge]]
    /\ Goes(t, [at |-> "entra", state |-> attempts', nonce |-> attempts',
                asked |-> path, began |-> now, key |-> key])
    /\ UNCHANGED <<now, key, tenant, codes>>

\* Mutant: the state parameter is not compared.
StateMatches_Any(query, login) == TRUE

StateMatches(query, login) == query.state = login.state

\* Callback, when it does not get to the exchange.
Refuse(t) ==
    /\ tabs[t].at = "back"
    /\ \/ ~Valid(jar.login) /\ UNCHANGED jar
       \/ /\ Valid(jar.login)
          /\ ~StateMatches(tabs[t], jar.login) \/ tabs[t].code = None
          /\ jar' = [jar EXCEPT !.login = None]
    /\ Fails(t)
    /\ UNCHANGED <<now, key, tenant, codes, attempts>>

\* Callback up to the exchange, which Microsoft refuses for a code it has redeemed.
Exchange(t) ==
    /\ tabs[t].at = "back"
    /\ Valid(jar.login) /\ StateMatches(tabs[t], jar.login) /\ tabs[t].code # None
    /\ IF tabs[t].code \in codes
       THEN /\ codes' = codes \ {tabs[t].code}
            /\ Goes(t, [at |-> "exchanging", state |-> tabs[t].state, code |-> tabs[t].code,
                        asked |-> tabs[t].asked, began |-> tabs[t].began, key |-> key,
                        login |-> jar.login])
            /\ jar' = jar
       ELSE /\ codes' = codes
            /\ Fails(t)
            /\ jar' = [jar EXCEPT !.login = None]
    /\ UNCHANGED <<now, key, tenant, attempts>>

\* The tenant after a sign-in of user, if it is the first.
Bind(user) == IF tenant = NoTenant THEN user.tid ELSE tenant

\* What completeSignIn may have bound by the time it fails: with the right nonce only.
MayBind(t) ==
    {tenant} \cup {Bind(tabs[t].code.user) : n \in {tabs[t].code.nonce} \cap {tabs[t].login.nonce}}

SignsIn(t, user) ==
    /\ jar' = [login |-> None,
               session |-> [key |-> key, user |-> user, exp |-> now + SessionMaxAge]]
    /\ Goes(t, Page(tabs[t].login.returnTo, user))

IsRefused(t) ==
    \/ tabs[t].code.nonce # tabs[t].login.nonce
    \/ tabs[t].code.user.tid # Bind(tabs[t].code.user)

\* Mutant: the session is written and then the tenant is compared.
CompleteSignIn_SessionFirst(t) ==
    /\ tabs[t].at = "exchanging"
    /\ tenant' = Bind(tabs[t].code.user)
    /\ SignsIn(t, tabs[t].code.user)
    /\ UNCHANGED <<now, key, codes, attempts>>

\* completeSignIn, and the answer: whatever comes of it, the login cookie is cleared,
\* which by now may be that of another tab.
CompleteSignIn(t) ==
    /\ tabs[t].at = "exchanging"
    /\ LET code == tabs[t].code IN
       IF IsRefused(t)
       THEN /\ Fails(t)
            /\ jar' = [jar EXCEPT !.login = None]
            /\ tenant' = IF code.nonce = tabs[t].login.nonce THEN Bind(code.user) ELSE tenant
       ELSE tenant' = Bind(code.user) /\ SignsIn(t, code.user)
    /\ UNCHANGED <<now, key, codes, attempts>>

\* The exchange, the verification of the token, a query or the sealing of the session
\* fails, for no fault of the user.
Fault(t) ==
    /\ tabs[t].at = "exchanging"
    /\ Fails(t)
    /\ jar' = [jar EXCEPT !.login = None]
    /\ tenant' \in MayBind(t)
    /\ UNCHANGED <<now, key, codes, attempts>>

Logout(t) ==
    /\ Goes(t, Page(Home, None))
    /\ jar' = [jar EXCEPT !.session = None]
    /\ UNCHANGED <<now, key, tenant, codes, attempts>>

\* Authenticate, with a session: whom a request is served to.
Authenticated ==
    IF tenant # NoTenant /\ Valid(jar.session) /\ jar.session.user.tid = tenant
    THEN jar.session.user ELSE None

\* A page; requireUser sends whoever is not signed in to Login, see Login.
Visit(t, path) ==
    /\ Authenticated # None
    /\ Goes(t, Page(path, Authenticated))
    /\ UNCHANGED <<now, key, tenant, jar, codes, attempts>>

\* The process ends and is started again, with the key that is configured or with a
\* fresh one: handlers die with it.
Restart ==
    /\ key' \in {key, key + 1}
    /\ tabs' = [t \in Tab |-> IF tabs[t].at = "exchanging" THEN Failed ELSE tabs[t]]
    /\ UNCHANGED <<now, tenant, jar, codes, attempts>>

-------------------------------------------------------------------------------
(* The world around it. *)

\* At Microsoft's page the user picks an account, or gives up.
Authorize(t, user) ==
    /\ tabs[t].at = "entra"
    /\ LET code == IF user = None THEN None
                   ELSE [nonce |-> tabs[t].nonce, user |-> user]
       IN /\ codes' = codes \cup ({code} \ {None})
          /\ Goes(t, [at |-> "back", state |-> tabs[t].state, code |-> code,
                      asked |-> tabs[t].asked, began |-> tabs[t].began, key |-> tabs[t].key])
    /\ UNCHANGED <<now, key, tenant, jar, attempts>>

\* The user reloads while the answer is awaited, and the same callback is requested
\* again.  The answer is lost, of which the server may have done its part; or the request
\* was cancelled before Microsoft saw the code.
Reload(t) ==
    /\ tabs[t].at = "exchanging"
    /\ Goes(t, [at |-> "back", state |-> tabs[t].state, code |-> tabs[t].code,
                asked |-> tabs[t].asked, began |-> tabs[t].began, key |-> tabs[t].key])
    /\ \/ tenant' \in MayBind(t) /\ codes' = codes
       \/ tenant' = tenant /\ codes' = codes \cup {tabs[t].code}
    /\ UNCHANGED <<now, key, jar, attempts>>

\* The browser drops cookies by their age, or when its user clears them.
Forget ==
    /\ jar' \in {[jar EXCEPT !.login = None], [jar EXCEPT !.session = None]}
    /\ UNCHANGED <<now, key, tenant, tabs, codes, attempts>>

Tick == now' = now + 1 /\ UNCHANGED <<key, tenant, jar, tabs, codes, attempts>>

\* What the user does next in a tab that is not waiting for the server.
Click(t) ==
    /\ tabs[t].at # "exchanging"
    /\ \/ \E path \in ReturnTo : Login(t, path)
       \/ \E path \in Local : Visit(t, path)
       \/ Logout(t)

Serve(t) == Refuse(t) \/ Exchange(t) \/ CompleteSignIn(t)

Next ==
    \/ \E t \in Tab : Click(t) \/ Serve(t) \/ Fault(t) \/ Reload(t)
    \/ \E t \in Tab, user \in User \cup {None} : Authorize(t, user)
    \/ Restart \/ Forget \/ Tick

Spec == Init /\ [][Next]_vars

-------------------------------------------------------------------------------
(* Properties. *)

\* A callback is answered with an exchange only if it comes in time: at most LoginMaxAge
\* after its own tab began, and to the process it began at, however often the cookie of
\* its login was replaced or cleared for another tab, the callback reloaded and the
\* process restarted in between ("the short-lived login-state cookie", auth/handlers.go).
ExchangesAreInTime ==
    [][ \A t \in Tab :
           tabs[t].at = "back" /\ tabs'[t].at = "exchanging" =>
              /\ now <= tabs[t].began + LoginMaxAge
              /\ tabs[t].key = key ]_vars

\* "Tokens from any other tenant are rejected before any session or context state is
\* created" (SECURITY.md): every session there is, is one of the tenant.
SessionsAreOfTheTenant == jar.session # None => jar.session.user.tid = tenant

\* A code is exchanged for the very attempt it was given out in: the check of the
\* state makes that of the nonce, which comes after the exchange, one that never fails
\* a user of the browser.
CodesMeetTheirAttempt ==
    \A t \in Tab : tabs[t].at = "exchanging" => tabs[t].code.nonce = tabs[t].login.nonce

\* A tab that signs in ends where that tab was asked to go, whatever other tabs asked.
LandsWhereAsked ==
    [][ \A t \in Tab :
           tabs[t].at = "exchanging" /\ tabs'[t].at = "page" =>
              tabs'[t].path = Sanitized(tabs[t].asked) ]_vars

\* auth/handlers.go: return_to "is preserved through the round-trip so the user lands
\* where they tried to go".  Does not hold with two tabs: the second login replaces the
\* cookie of the first, whose callback then fails and clears the cookie of the second.
\* (Users of the tenant who come back in time to the process they left.)
PromptLoginsLand ==
    [][ \A t \in Tab :
           /\ tabs[t].at = "back"
           /\ tabs[t].code \in codes /\ tabs[t].code.user.tid = Bind(tabs[t].code.user)
           /\ now <= tabs[t].began + LoginMaxAge /\ tabs[t].key = key
           => tabs'[t].at # "failed" ]_vars

===============================================================================
