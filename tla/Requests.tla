------------------------------- MODULE Requests -------------------------------
(***************************************************************************)
(* Packages api and web around core: the routes and their gates, what the  *)
(* handlers make of a request before they call core, and of what core      *)
(* returned after.  A request is one step here: Server has what happens    *)
(* inside one, Pages the reads that take several queries.                  *)
(*                                                                         *)
(* Left out: the text of pages and error messages, the search box, and     *)
(* failures of the database, which are a 500 everywhere.                   *)
(***************************************************************************)
EXTENDS Registry, Operations, PersonId

CONSTANTS
    IdText,     \* ids as clients write them, existing ones or not
    Field,      \* the fields of XENSUS_STEWARD_ONLY, as they are written
    FieldName,  \* ToLower(TrimSpace(field)), as a function on Field
    Setting     \* values of XENSUS_STEWARD_ONLY, as sequences of fields

\* RowId is the ids that requests have, however they write them.
ASSUME RequestsAssumption ==
    /\ Setting \subseteq Seq(Field)
    /\ IdText \subseteq Seq(STRING)
    /\ \A t \in IdText : Parse(t) \in RowId \cup {NoId} /\ ParseNumber(t) \in RowId \cup {NoId}

VARIABLES
    access,     \* the read policy the process was started with
    reply       \* the last answer

requestVars == <<db, access, reply>>

-------------------------------------------------------------------------------
(* config.parseAccess. *)

Surface == {"persons", "systems", "stewards", "audit"}

\* An unknown surface is an error, and the process does not start.
AccessIsValid(raw) == \A i \in DOMAIN raw : FieldName[raw[i]] \in Surface \cup {Blank}

ParseAccess(raw) == {FieldName[raw[i]] : i \in DOMAIN raw} \ {Blank}

-------------------------------------------------------------------------------
(* Routes, {id} and {aid} of the mux written <id> and <aid>.  The gate of a  *)
(* read is its surface: user, or steward if locked.                         *)

Route(method, path, gate, handler) ==
    [method |-> method, path |-> path, gate |-> gate, handler |-> handler]

ApiWrites ==
    { Route("POST", "/persons", "steward", "CreatePerson"),
      Route("PATCH", "/persons/<id>", "steward", "RenamePerson"),
      Route("POST", "/persons/<id>/associations", "steward", "CreateAssociation"),
      Route("DELETE", "/persons/<id>/associations/<aid>", "steward", "RemoveAssociation"),
      Route("POST", "/systems", "steward", "CreateSystem"),
      Route("PATCH", "/systems/<id>", "steward", "RenameSystem"),
      Route("POST", "/systems/<id>/disable", "steward", "DisableSystem"),
      Route("POST", "/systems/<id>/enable", "steward", "EnableSystem"),
      Route("POST", "/stewards", "steward", "PromoteSteward"),
      Route("DELETE", "/stewards/<id>", "steward", "DemoteSteward"),
      Route("DELETE", "/stewards/pending/<id>", "steward", "CancelStewardInvite") }

\* Mutant: the CSV of the audit log is left open.
ApiReads_OpenCSV ==
    { Route("GET", "/persons", "persons", "List"), Route("GET", "/systems", "systems", "List"),
      Route("GET", "/stewards", "stewards", "List"), Route("GET", "/audit", "audit", "List"),
      Route("GET", "/audit.csv", "user", "List") }

\* Under /api/v1.  "List" stands for a read that needs no id.
ApiReads ==
    { Route("GET", "/persons", "persons", "List"),
      Route("GET", "/persons.csv", "persons", "List"),
      Route("GET", "/persons/<id>", "persons", "PersonDetail"),
      Route("GET", "/persons/<id>/associations", "persons", "PersonDetail"),
      Route("GET", "/systems", "systems", "List"),
      Route("GET", "/systems.csv", "systems", "List"),
      Route("GET", "/systems/disabled", "systems", "List"),
      Route("GET", "/systems/<id>", "systems", "SystemDetail"),
      Route("GET", "/audit", "audit", "List"),
      Route("GET", "/audit.csv", "audit", "List"),
      Route("GET", "/stewards", "stewards", "List"),
      Route("GET", "/me", "user", "List"),
      Route("GET", "/export", "steward", "List") }

WebReads ==
    { Route("GET", "/", "none", "Landing"),
      Route("GET", "/persons", "persons", "List"),
      Route("GET", "/persons/<id>", "persons", "PersonDetail"),
      Route("GET", "/systems", "systems", "List"),
      Route("GET", "/systems/disabled", "systems", "List"),
      Route("GET", "/systems/<id>", "systems", "SystemDetail"),
      Route("GET", "/stewards", "stewards", "List"),
      Route("GET", "/audit", "audit", "List") }

WebWrites ==
    { Route("POST", "/persons", "steward", "CreatePerson"),
      Route("POST", "/persons/<id>", "steward", "RenamePerson"),
      Route("POST", "/persons/<id>/associations", "steward", "CreateAssociation"),
      Route("POST", "/persons/<id>/associations/<aid>/remove", "steward", "RemoveAssociation"),
      Route("POST", "/systems", "steward", "CreateSystem"),
      Route("POST", "/systems/<id>", "steward", "RenameSystem"),
      Route("POST", "/systems/<id>/disable", "steward", "DisableSystem"),
      Route("POST", "/systems/<id>/enable", "steward", "EnableSystem"),
      Route("POST", "/stewards", "steward", "PromoteSteward"),
      Route("POST", "/stewards/<id>/remove", "steward", "DemoteSteward"),
      Route("POST", "/stewards/pending/<id>/cancel", "steward", "CancelStewardInvite") }

-------------------------------------------------------------------------------
(* Who asks, and whether the gate lets them. *)

Anonymous == [oid |-> Null, upn |-> Null]
User == Actor \cup {Anonymous}

\* Nobody is signed in to a deployment without a tenant.
Authenticate(d, u) == IF d.tenant = NoTenant THEN Anonymous ELSE u

IsSteward(d, u) == u # Anonymous /\ IsActiveSteward(d, u.oid)

\* read(surface) of both routers.
Gate(policy, gate) ==
    IF gate \notin Surface THEN gate ELSE IF gate \in policy THEN "steward" ELSE "user"

Admitted == 0

\* auth.RequireUser and RequireSteward.
ApiGate(d, policy, u, gate) ==
    CASE Gate(policy, gate) = "none" -> Admitted
      [] u = Anonymous -> 401
      [] Gate(policy, gate) = "steward" /\ ~IsSteward(d, u) -> 403
      [] OTHER -> Admitted

\* The web's own: whoever is anonymous is sent to sign in.
WebGate(d, policy, u, gate) ==
    CASE Gate(policy, gate) = "none" -> Admitted
      [] u = Anonymous -> 302
      [] Gate(policy, gate) = "steward" /\ ~IsSteward(d, u) -> 403
      [] OTHER -> Admitted

\* view.go canRead: the links in the navigation.
CanRead(d, policy, u, surface) == IsSteward(d, u) \/ surface \notin policy

Order == <<"persons", "systems", "stewards", "audit">>
PathOf == [persons |-> "/persons", systems |-> "/systems",
           stewards |-> "/stewards", audit |-> "/audit"]

\* Mutant: always the list of persons.
LandingPath_Persons(d, policy, u) == PathOf["persons"]

LandingPath(d, policy, u) ==
    LET open == {i \in DOMAIN Order : CanRead(d, policy, u, Order[i])}
    IN PathOf[Order[IF open = {} THEN 1 ELSE Min(open)]]

-------------------------------------------------------------------------------
(* The write handlers: from the request to the call of core.  A request    *)
(* has the ids of its path and its body, in JSON or as a form; a field it   *)
(* leaves out is empty, and so is every field of an empty body.            *)

NoText == << >>
Malformed == [malformed |-> TRUE]

PersonPath == {"RenamePerson", "CreateAssociation", "RemoveAssociation"}
HasName == {"CreatePerson", "CreateSystem"} \cup NamedOp
HasBody == HasName \cup {"CreateAssociation", "PromoteSteward"}

\* The id of a system is the text of a form field on one side and a JSON number on the
\* other: it is written as both can have it, or so that either side refuses it.
SystemText == {t \in IdText : ParseNumber(t) # NoId => t = DigitsOf[ParseNumber(t)]} \cup {NoText}

Body(h) ==
    [name : IF h \in HasName THEN Name ELSE {Blank},
     upn : IF h = "PromoteSteward" THEN UPN ELSE {Blank},
     system : IF h = "CreateAssociation" THEN SystemText ELSE {NoText},
     foreign : IF h = "CreateAssociation" THEN ForeignId ELSE {Blank}]

\* What clients may send to a handler, by the parts it reads.
RequestTo(h) ==
    [id : IF h \in PersonPath \cup NamedOp \cup EntityOp THEN IdText ELSE {NoText},
     aid : IF h = "RemoveAssociation" THEN IdText ELSE {NoText},
     body : IF h \in HasBody THEN Body(h) \cup {Malformed} ELSE {Malformed}]

\* The key in the path: of a person in either form, of all else as a bare number.
PathId(h, r) == IF h \in PersonPath THEN Parse(r.id) ELSE ParseNumber(r.id)

BadPath(h, r) ==
    \/ h \in PersonPath \cup NamedOp \cup EntityOp /\ PathId(h, r) = NoId
    \/ h = "RemoveAssociation" /\ ParseNumber(r.aid) = NoId

BadBody(h, r) == h \in HasBody /\ r.body = Malformed

NoSystem(h, r) == h = "CreateAssociation" /\ ParseNumber(r.body.system) = NoId

\* Mutant: the handler for disabling calls core.EnableSystem.
Call_Toggled(h, r) ==
    CASE h \in {"CreatePerson", "CreateSystem"} -> [f |-> h, name |-> r.body.name]
      [] h \in NamedOp -> [f |-> h, id |-> PathId(h, r), name |-> r.body.name]
      [] h = "DisableSystem" -> [f |-> "EnableSystem", id |-> PathId(h, r)]
      [] h \in EntityOp \ {"DisableSystem"} -> [f |-> h, id |-> PathId(h, r)]
      [] h = "CreateAssociation" -> [f |-> h, person |-> PathId(h, r),
                                     system |-> ParseNumber(r.body.system),
                                     foreign |-> r.body.foreign]
      [] h = "RemoveAssociation" -> [f |-> h, person |-> PathId(h, r), id |-> ParseNumber(r.aid)]
      [] h = "PromoteSteward" -> [f |-> h, upn |-> r.body.upn]

Call(h, r) ==
    CASE h \in {"CreatePerson", "CreateSystem"} -> [f |-> h, name |-> r.body.name]
      [] h \in NamedOp -> [f |-> h, id |-> PathId(h, r), name |-> r.body.name]
      [] h \in EntityOp -> [f |-> h, id |-> PathId(h, r)]
      [] h = "CreateAssociation" -> [f |-> h, person |-> PathId(h, r),
                                     system |-> ParseNumber(r.body.system),
                                     foreign |-> r.body.foreign]
      [] h = "RemoveAssociation" -> [f |-> h, person |-> PathId(h, r), id |-> ParseNumber(r.aid)]
      [] h = "PromoteSteward" -> [f |-> h, upn |-> r.body.upn]

After(d, u, op) == IF Outcome(d, u, op) = Written THEN Tx(d, u, op) ELSE d

-------------------------------------------------------------------------------
(* The answers. *)

\* api.httpError.
HttpError(outcome) ==
    CASE outcome = "ErrNotFound" -> 404
      [] outcome \in {"ErrNameRequired", "ErrUPNRequired"} -> 400
      [] outcome \in {"ErrAlreadySteward", "ErrAlreadyInvited", "ErrSelfRemoval",
                      "ErrAlreadyBound"} -> 409
      [] OTHER -> 500

ApiDone(h) ==
    CASE h \in {"CreatePerson", "CreateSystem", "CreateAssociation", "PromoteSteward"} -> 201
      [] h \in {"RenamePerson", "RenameSystem", "DisableSystem", "EnableSystem"} -> 200
      [] h \in {"RemoveAssociation", "DemoteSteward", "CancelStewardInvite"} -> 204

\* Mutant: AddSteward does not look for ErrAlreadyInvited.
WebError_Invited(h, outcome) ==
    CASE outcome = "ErrNotFound" /\ h \in PersonPath \cup NamedOp \cup EntityOp -> 404
      [] outcome = "ErrNameRequired" /\ h \in {"CreateSystem", "RenameSystem"} -> 400
      [] outcome = "ErrUPNRequired" /\ h = "PromoteSteward" -> 400
      [] outcome = "ErrAlreadySteward" /\ h = "PromoteSteward" -> 409
      [] outcome = "ErrSelfRemoval" /\ h = "DemoteSteward" -> 409
      [] OTHER -> 500

\* Each web handler looks for the errors it expects.
WebError(h, outcome) ==
    CASE outcome = "ErrNotFound" /\ h \in PersonPath \cup NamedOp \cup EntityOp -> 404
      [] outcome = "ErrNameRequired" /\ h \in {"CreateSystem", "RenameSystem"} -> 400
      [] outcome = "ErrUPNRequired" /\ h = "PromoteSteward" -> 400
      [] outcome \in {"ErrAlreadySteward", "ErrAlreadyInvited"} /\ h = "PromoteSteward" -> 409
      [] outcome = "ErrSelfRemoval" /\ h = "DemoteSteward" -> 409
      [] OTHER -> 500

\* Mutant: back to the path of the request, ids as the client wrote them.
Location_OfRequest(d, h, r) ==
    CASE h \in PersonPath \cup {"CreatePerson"} -> [path |-> "/persons/<id>", id |-> r.id]
      [] h \in {"CreateSystem", "RenameSystem", "DisableSystem", "EnableSystem"} ->
            [path |-> "/systems/<id>", id |-> r.id]
      [] OTHER -> [path |-> "/stewards", id |-> NoText]

\* Where a web handler redirects to; d is the database after the call.
Location(d, h, r) ==
    CASE h = "CreatePerson" -> [path |-> "/persons/<id>", id |-> Format(d.seq.persons)]
      [] h \in PersonPath -> [path |-> "/persons/<id>", id |-> Format(PathId(h, r))]
      [] h = "CreateSystem" -> [path |-> "/systems/<id>", id |-> DigitsOf[d.seq.systems]]
      [] h \in {"RenameSystem", "DisableSystem", "EnableSystem"} ->
            [path |-> "/systems/<id>", id |-> DigitsOf[PathId(h, r)]]
      [] OTHER -> [path |-> "/stewards", id |-> NoText]

Nowhere == [path |-> "", id |-> NoText]

Answer(status, location) == [status |-> status, location |-> location]

\* The answer of each side to a write request that its gate has admitted.
ApiWrite(d, u, h, r) ==
    IF BadPath(h, r) \/ BadBody(h, r) THEN Answer(400, Nowhere)
    ELSE IF NoSystem(h, r) THEN Answer(400, Nowhere)
    ELSE LET outcome == Outcome(d, u, Call(h, r))
         IN Answer(IF outcome \in {Written, Unchanged} THEN ApiDone(h) ELSE HttpError(outcome),
                   Nowhere)

WebWrite(d, u, h, r) ==
    IF BadPath(h, r) THEN Answer(404, Nowhere)
    ELSE IF BadBody(h, r) \/ NoSystem(h, r) THEN Answer(400, Nowhere)
    ELSE LET outcome == Outcome(d, u, Call(h, r))
         IN IF outcome \in {Written, Unchanged}
            THEN Answer(303, Location(After(d, u, Call(h, r)), h, r))
            ELSE Answer(WebError(h, outcome), Nowhere)

\* A read, once admitted.  A bad id is a 400 of the API, a 404 of the web.
ReadStatus(d, h, id, bad) ==
    CASE h = "List" -> 200
      [] h = "PersonDetail" -> IF Parse(id) = NoId THEN bad
                               ELSE IF Parse(id) \in DOMAIN d.persons THEN 200 ELSE 404
      [] h = "SystemDetail" -> IF ParseNumber(id) = NoId THEN bad
                               ELSE IF ParseNumber(id) \in DOMAIN d.systems THEN 200 ELSE 404

ApiRead(d, policy, u, route, id) ==
    LET gate == ApiGate(d, policy, u, route.gate)
    IN IF gate # Admitted THEN Answer(gate, Nowhere)
       ELSE Answer(ReadStatus(d, route.handler, id, 400), Nowhere)

LoginThen(location) == [path |-> "/auth/login", id |-> NoText, return_to |-> location]

WebRead(d, policy, u, route, id) ==
    LET gate == WebGate(d, policy, u, route.gate)
    IN CASE gate = 302 -> Answer(302, LoginThen([path |-> route.path, id |-> id]))
         [] gate = 403 -> Answer(403, Nowhere)
         [] route.handler = "Landing" ->
               Answer(302, [path |-> LandingPath(d, policy, u), id |-> NoText])
         [] OTHER -> Answer(ReadStatus(d, route.handler, id, 404), Nowhere)

\* What a browser gets when it follows a redirect: the mux has no page for a path
\* that only takes POST.
Follow(d, policy, u, location) ==
    IF \E route \in WebReads : route.path = location.path
    THEN WebRead(d, policy, u, CHOOSE route \in WebReads : route.path = location.path,
                 location.id)
    ELSE Answer(405, Nowhere)

-------------------------------------------------------------------------------

NothingAsked == [f |-> "none"]

NoReply == [user |-> Anonymous, asked |-> NothingAsked, answer |-> Answer(0, Nowhere)]

RequestsInit ==
    /\ Init
    /\ access \in {ParseAccess(raw) : raw \in {s \in Setting : AccessIsValid(s)}}
    /\ reply = NoReply

Reply(u, asked, answer) == reply' = [user |-> u, asked |-> asked, answer |-> answer]

GetApi(u, route, id) ==
    /\ Reply(u, NothingAsked, ApiRead(db, access, u, route, id))
    /\ UNCHANGED <<db, access>>

GetPage(u, route, id) ==
    /\ Reply(u, NothingAsked, WebRead(db, access, u, route, id))
    /\ UNCHANGED <<db, access>>

\* A write request the gate refuses, and one it lets through to its handler.
Refuse(u, answer) == Reply(u, NothingAsked, answer) /\ db' = db

Handle(u, h, r, answer) ==
    /\ Reply(u, [f |-> h, r |-> r], answer)
    /\ db' = IF BadPath(h, r) \/ BadBody(h, r) \/ NoSystem(h, r) THEN db
             ELSE After(db, u, Call(h, r))

PostApi(u, route, r) ==
    LET gate == ApiGate(db, access, u, route.gate)
    IN /\ IF gate # Admitted
          THEN Refuse(u, Answer(gate, Nowhere))
          ELSE Handle(u, route.handler, r, ApiWrite(db, u, route.handler, r))
       /\ access' = access

PostForm(u, route, r) ==
    LET gate == WebGate(db, access, u, route.gate)
    IN /\ CASE gate = 302 -> Refuse(u, Answer(302, LoginThen([path |-> route.path,
                                                             id |-> r.id])))
            [] gate = 403 -> Refuse(u, Answer(403, Nowhere))
            [] OTHER -> Handle(u, route.handler, r, WebWrite(db, u, route.handler, r))
       /\ access' = access

\* The sign-in the last answer asked for, and back: auth.Login and Callback.
SignInAndReturn(a) ==
    /\ "return_to" \in DOMAIN reply.answer.location
    /\ SignIn(a) \/ (Bound /\ ClaimPendingStewardOutcome(db, a) # Written /\ db' = db)
    /\ Reply(a, [f |-> "sign-in"], Answer(302, reply.answer.location.return_to))
    /\ access' = access

ReadAs(u) ==
    \/ \E route \in ApiReads, id \in IdText : GetApi(u, route, id)
    \/ \E route \in WebReads, id \in IdText : GetPage(u, route, id)

WriteAs(u) ==
    \/ \E route \in ApiWrites : \E r \in RequestTo(route.handler) : PostApi(u, route, r)
    \/ \E route \in WebWrites : \E r \in RequestTo(route.handler) : PostForm(u, route, r)

RequestsNext ==
    \/ \E u \in User : ReadAs(Authenticate(db, u)) \/ WriteAs(Authenticate(db, u))
    \/ \E a \in Actor : SignInAndReturn(a)

RequestsSpec == RequestsInit /\ [][RequestsNext]_requestVars

-------------------------------------------------------------------------------
(* Properties. *)

\* "Web and API stay behaviorally identical" (web/handlers.go): what one side lets a
\* user do the other does, and they refuse alike, but for an id that is none, which
\* the API calls a bad request and the web a page that does not exist.
TwinsAgree ==
    \A u \in User, p \in ApiWrites, w \in WebWrites :
       LET me == Authenticate(db, u)
           h == p.handler
       IN h = w.handler =>
          /\ ApiGate(db, access, me, p.gate) = Admitted <=>
                WebGate(db, access, me, w.gate) = Admitted
          /\ ApiGate(db, access, me, p.gate) = Admitted =>
                \A r \in RequestTo(h) :
                   LET api == ApiWrite(db, me, h, r).status
                       web == WebWrite(db, me, h, r).status
                   IN IF BadPath(h, r) THEN api = 400 /\ web = 404
                      ELSE IF web = 303 THEN api < 300 ELSE api = web

\* The routes of a surface.
PathsOf ==
    [persons |-> {"/persons", "/persons.csv", "/persons/<id>", "/persons/<id>/associations"},
     systems |-> {"/systems", "/systems.csv", "/systems/disabled", "/systems/<id>"},
     stewards |-> {"/stewards"}, audit |-> {"/audit", "/audit.csv"}]

\* "The same policy gates both the web pages and the corresponding API routes, and the
\* navigation hides links a given user cannot follow" (README.md): for each surface,
\* the link is shown if and only if its pages and its API routes are open.
OnePolicy ==
    \A a \in Actor, s \in Surface :
       LET me == Authenticate(db, a)
       IN me # Anonymous =>
          /\ \A route \in ApiReads : route.path \in PathsOf[s] =>
                (ApiGate(db, access, me, route.gate) = Admitted <=> CanRead(db, access, me, s))
          /\ \A route \in WebReads : route.path \in PathsOf[s] =>
                (WebGate(db, access, me, route.gate) = Admitted <=> CanRead(db, access, me, s))

\* The landing page is one the user may read, if there is any: a non-steward "is routed
\* past a locked surface rather than bounced into a 403" (web/router.go).
LandingIsReadable ==
    Bound => \A a \in Actor :
       (\E s \in Surface : CanRead(db, access, a, s)) =>
          Follow(db, access, a, [path |-> LandingPath(db, access, a), id |-> NoText]).status = 200

\* Every redirect after a write leads its user to a page that is there and open to them.
RedirectsLand ==
    reply.answer.status = 303 =>
       Follow(db, access, reply.user, reply.answer.location).status = 200

\* The row that a handler was asked for is there, with the content asked for.
Row(t, id, P(_)) == id \in DOMAIN t /\ P(t[id])

\* What the handlers promise of the database, however the id was written.
Accomplished(d, h, r) ==
    LET Renamed(row) == row.name = Trim[r.body.name]
        Linked(link) == /\ link.person_id = Parse(r.id)
                        /\ link.system_id = ParseNumber(r.body.system)
                        /\ link.foreign_id = Trim[r.body.foreign]
        Enabled(row) == ~Disabled(row)
    IN CASE h = "CreatePerson" -> Row(d.persons, d.seq.persons, Renamed)
         [] h = "RenamePerson" -> Row(d.persons, Parse(r.id), Renamed)
         [] h = "CreateSystem" -> Row(d.systems, d.seq.systems, Renamed)
         [] h = "RenameSystem" -> Row(d.systems, ParseNumber(r.id), Renamed)
         [] h = "DisableSystem" -> Row(d.systems, ParseNumber(r.id), Disabled)
         [] h = "EnableSystem" -> Row(d.systems, ParseNumber(r.id), Enabled)
         [] h = "CreateAssociation" -> Row(d.associations, d.seq.associations, Linked)
         [] h = "RemoveAssociation" -> ParseNumber(r.aid) \notin DOMAIN d.associations
         [] h = "PromoteSteward" -> PendingByUPN(d, Trim[r.body.upn]) # {}
         [] h = "DemoteSteward" -> ParseNumber(r.id) \notin ActiveStewards(d)
         [] h = "CancelStewardInvite" -> ParseNumber(r.id) \notin DOMAIN d.pending

\* A client can believe the status: after a refusal nothing has changed, after a
\* success what was asked for holds, and if that took a change, the change is one
\* row of the log, in the name of the client.
AnswerIsTrue ==
    [][ /\ reply'.answer.status \in {0} \cup 400..599 => db' = db
        /\ reply'.answer.status \in {200, 201, 204, 303} /\ "r" \in DOMAIN reply'.asked =>
              /\ Accomplished(db', reply'.asked.f, reply'.asked.r)
              /\ db' # db => /\ Len(db'.audit) = Len(db.audit) + 1
                             /\ db'.audit[Len(db'.audit)].actor = reply'.user ]_requestVars

\* auth/handlers.go: return_to "is preserved through the round-trip so the user lands
\* where they tried to go".  Does not hold for whoever was signed out when they sent a
\* form: most paths that take a POST have no page, and the sign-in ends on a 405.
SignInLandsOnAPage ==
    reply.asked.f = "sign-in" =>
       Follow(db, access, reply.user, reply.answer.location).status # 405

===============================================================================
