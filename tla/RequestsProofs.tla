----------------------------- MODULE RequestsProofs -----------------------------
(***************************************************************************)
(* Proofs about module Requests, for every value of its constants: one     *)
(* policy decides on links, pages and API alike; the two sides answer a    *)
(* write alike; what a request does to the database is a step of the       *)
(* registry with its steward check; an answer says what was done; a text   *)
(* that is documented as an id is read as that id; and a redirect leads to *)
(* a page that is there.                                                   *)
(***************************************************************************)
EXTENDS Requests, Texts, RegistryProofs

-------------------------------------------------------------------------------
(* Routes and gates. *)

WriteHandlers ==
    {"CreatePerson", "RenamePerson", "CreateAssociation", "RemoveAssociation",
     "CreateSystem", "RenameSystem", "DisableSystem", "EnableSystem",
     "PromoteSteward", "DemoteSteward", "CancelStewardInvite"}

\* Only stewards write, on either side.
LEMMA WriteRoutes ==
    \A route \in ApiWrites \cup WebWrites :
       route.gate = "steward" /\ route.handler \in WriteHandlers
BY DEF ApiWrites, WebWrites, Route, WriteHandlers

\* The gate of a surface's routes is the surface.
LEMMA SurfaceRoutes ==
    ASSUME NEW s \in Surface
    PROVE  /\ \A route \in ApiReads : route.path \in PathsOf[s] => route.gate = s
           /\ \A route \in WebReads : route.path \in PathsOf[s] => route.gate = s
<1>1. \A route \in ApiReads : route.path \in PathsOf[s] => route.gate = s
  BY DEF ApiReads, Route, PathsOf, Surface
<1>2. \A route \in WebReads : route.path \in PathsOf[s] => route.gate = s
  BY DEF WebReads, Route, PathsOf, Surface
<1>3. QED
  BY <1>1, <1>2

\* Such a gate lets in the signed-in users to whom the link is shown.
LEMMA SurfaceGate ==
    ASSUME NEW d, NEW policy, NEW u, u # Anonymous, NEW s \in Surface
    PROVE  /\ ApiGate(d, policy, u, s) = Admitted <=> CanRead(d, policy, u, s)
           /\ WebGate(d, policy, u, s) = Admitted <=> CanRead(d, policy, u, s)
<1>1. Gate(policy, s) = IF s \in policy THEN "steward" ELSE "user"
  BY DEF Gate
<1>2. QED
  BY <1>1 DEF ApiGate, WebGate, CanRead, Admitted

\* "The same policy gates both the web pages and the corresponding API routes, and the
\* navigation hides links a given user cannot follow" (README.md).
THEOREM PolicyIsOne == RequestsSpec => []OnePolicy
<1>1. OnePolicy
  BY SurfaceRoutes, SurfaceGate DEF OnePolicy
<1>2. QED
  BY <1>1, PTL

-------------------------------------------------------------------------------
(* The landing page. *)

\* Each surface has one page of its own.
LEMMA SurfacePage ==
    ASSUME NEW s \in Surface
    PROVE  /\ Route("GET", PathOf[s], s, "List") \in WebReads
           /\ \A route \in WebReads :
                 route.path = PathOf[s] => route = Route("GET", PathOf[s], s, "List")
BY DEF WebReads, Route, PathOf, Surface

\* Whoever may read a surface gets its page.
LEMMA FollowToSurface ==
    ASSUME NEW d, NEW policy, NEW a, a # Anonymous, NEW s \in Surface, CanRead(d, policy, a, s)
    PROVE  Follow(d, policy, a, [path |-> PathOf[s], id |-> NoText]).status = 200
<1> DEFINE page == Route("GET", PathOf[s], s, "List")
           location == [path |-> PathOf[s], id |-> NoText]
<1>1. page \in WebReads /\ \A route \in WebReads : route.path = PathOf[s] => route = page
  BY SurfacePage
<1>2. page.path = PathOf[s] /\ page.gate = s /\ page.handler = "List"
  BY DEF Route
<1>3. location.path = PathOf[s] /\ location.id = NoText
  OBVIOUS
<1> HIDE DEF page, location
<1>4. (CHOOSE route \in WebReads : route.path = location.path) = page
  BY <1>1, <1>2, <1>3
<1>5. Follow(d, policy, a, location) = WebRead(d, policy, a, page, NoText)
  BY <1>1, <1>2, <1>3, <1>4 DEF Follow
<1>6. WebGate(d, policy, a, s) = 0
  BY SurfaceGate DEF Admitted
<1>7. WebRead(d, policy, a, page, NoText) = Answer(200, Nowhere)
  BY <1>2, <1>6 DEF WebRead, ReadStatus
<1>8. QED
  BY <1>5, <1>7 DEF Answer, location

\* A non-steward "is routed past a locked surface rather than bounced into a 403"
\* (web/router.go): the landing page is one the user may read, if there is any.
THEOREM Landing == RequestsSpec => []LandingIsReadable
<1>1. LandingIsReadable
  <2> SUFFICES ASSUME NEW a \in Actor, NEW s \in Surface, CanRead(db, access, a, s)
               PROVE  Follow(db, access, a,
                             [path |-> LandingPath(db, access, a), id |-> NoText]).status = 200
    BY DEF LandingIsReadable
  <2> DEFINE open == {i \in DOMAIN Order : CanRead(db, access, a, Order[i])}
  <2>1. /\ DOMAIN Order = 1..4
        /\ Order[1] = "persons" /\ Order[2] = "systems" /\ Order[3] = "stewards" /\ Order[4] = "audit"
    BY DEF Order
  <2>2. open \subseteq 1..4 /\ open # {}
    <3>1. s = Order[1] \/ s = Order[2] \/ s = Order[3] \/ s = Order[4]
      BY <2>1 DEF Surface
    <3>2. QED
      BY <2>1, <3>1
  <2>3. Min(open) \in open
    <3> HIDE DEF open
    <3>1. \E x \in open : \A y \in open : x <= y
      <4>1. \A x \in open : x \in Nat
        BY <2>2
      <4>2. CASE 1 \in open
        <5>1. \A y \in open : 1 <= y
          BY <2>2
        <5>2. QED
          BY <4>2, <5>1
      <4>3. CASE 1 \notin open /\ 2 \in open
        <5>1. \A y \in open : 2 <= y
          BY <2>2, <4>3
        <5>2. QED
          BY <4>3, <5>1
      <4>4. CASE 1 \notin open /\ 2 \notin open /\ 3 \in open
        <5>1. \A y \in open : 3 <= y
          BY <2>2, <4>4
        <5>2. QED
          BY <4>4, <5>1
      <4>5. CASE 1 \notin open /\ 2 \notin open /\ 3 \notin open
        <5>1. \A y \in open : y = 4
          BY <2>2, <4>5
        <5>2. 4 \in open
          BY <2>2, <5>1
        <5>3. \A y \in open : 4 <= y
          BY <5>1
        <5>4. QED
          BY <5>2, <5>3
      <4>6. QED
        BY <4>2, <4>3, <4>4, <4>5
    <3>2. QED
      BY <3>1 DEF Min
  <2> DEFINE t == Order[Min(open)]
  <2>4. t \in Surface /\ CanRead(db, access, a, t)
    <3>1. \A i \in open : Order[i] \in Surface /\ CanRead(db, access, a, Order[i])
      BY <2>1 DEF Surface
    <3>2. QED
      BY <2>3, <3>1
  <2>5. LandingPath(db, access, a) = PathOf[t]
    BY <2>2 DEF LandingPath
  <2>6. a # Anonymous
    BY ActorAssumption, TextAssumption DEF Anonymous
  <2> HIDE DEF t
  <2>7. QED
    BY <2>4, <2>5, <2>6, FollowToSurface
<1>2. QED
  BY <1>1, PTL

-------------------------------------------------------------------------------
(* What a handler's call of core comes to. *)

\* The calls, handler by handler.
LEMMA Calls ==
    ASSUME NEW r
    PROVE  /\ /\ Call("CreatePerson", r).f = "CreatePerson"
              /\ Call("CreatePerson", r).name = r.body.name
           /\ /\ Call("RenamePerson", r).f = "RenamePerson"
              /\ Call("RenamePerson", r).id = Parse(r.id)
              /\ Call("RenamePerson", r).name = r.body.name
           /\ /\ Call("CreateAssociation", r).f = "CreateAssociation"
              /\ Call("CreateAssociation", r).person = Parse(r.id)
              /\ Call("CreateAssociation", r).system = ParseNumber(r.body.system)
              /\ Call("CreateAssociation", r).foreign = r.body.foreign
           /\ /\ Call("RemoveAssociation", r).f = "RemoveAssociation"
              /\ Call("RemoveAssociation", r).person = Parse(r.id)
              /\ Call("RemoveAssociation", r).id = ParseNumber(r.aid)
           /\ /\ Call("CreateSystem", r).f = "CreateSystem"
              /\ Call("CreateSystem", r).name = r.body.name
           /\ /\ Call("RenameSystem", r).f = "RenameSystem"
              /\ Call("RenameSystem", r).id = ParseNumber(r.id)
              /\ Call("RenameSystem", r).name = r.body.name
           /\ /\ Call("DisableSystem", r).f = "DisableSystem"
              /\ Call("DisableSystem", r).id = ParseNumber(r.id)
           /\ /\ Call("EnableSystem", r).f = "EnableSystem"
              /\ Call("EnableSystem", r).id = ParseNumber(r.id)
           /\ /\ Call("PromoteSteward", r).f = "PromoteSteward"
              /\ Call("PromoteSteward", r).upn = r.body.upn
           /\ /\ Call("DemoteSteward", r).f = "DemoteSteward"
              /\ Call("DemoteSteward", r).id = ParseNumber(r.id)
           /\ /\ Call("CancelStewardInvite", r).f = "CancelStewardInvite"
              /\ Call("CancelStewardInvite", r).id = ParseNumber(r.id)
<1>1. /\ Call("CreatePerson", r).f = "CreatePerson"
      /\ Call("CreatePerson", r).name = r.body.name
  <2>1. Call("CreatePerson", r) = [f |-> "CreatePerson", name |-> r.body.name]
    BY SMTT(30) DEF Call, PathId, PersonPath, NamedOp, EntityOp
  <2>2. QED
    BY <2>1
<1>2. /\ Call("RenamePerson", r).f = "RenamePerson"
      /\ Call("RenamePerson", r).id = Parse(r.id)
      /\ Call("RenamePerson", r).name = r.body.name
  <2>1. Call("RenamePerson", r) = [f |-> "RenamePerson", id |-> Parse(r.id), name |-> r.body.name]
    BY SMTT(30) DEF Call, PathId, PersonPath, NamedOp, EntityOp
  <2>2. QED
    BY <2>1
<1>3. /\ Call("CreateAssociation", r).f = "CreateAssociation"
      /\ Call("CreateAssociation", r).person = Parse(r.id)
      /\ Call("CreateAssociation", r).system = ParseNumber(r.body.system)
      /\ Call("CreateAssociation", r).foreign = r.body.foreign
  <2>1. Call("CreateAssociation", r) = [f |-> "CreateAssociation", person |-> Parse(r.id), system |-> ParseNumber(r.body.system), foreign |-> r.body.foreign]
    BY SMTT(30) DEF Call, PathId, PersonPath, NamedOp, EntityOp
  <2>2. QED
    BY <2>1
<1>4. /\ Call("RemoveAssociation", r).f = "RemoveAssociation"
      /\ Call("RemoveAssociation", r).person = Parse(r.id)
      /\ Call("RemoveAssociation", r).id = ParseNumber(r.aid)
  <2>1. Call("RemoveAssociation", r) = [f |-> "RemoveAssociation", person |-> Parse(r.id), id |-> ParseNumber(r.aid)]
    BY SMTT(30) DEF Call, PathId, PersonPath, NamedOp, EntityOp
  <2>2. QED
    BY <2>1
<1>5. /\ Call("CreateSystem", r).f = "CreateSystem"
      /\ Call("CreateSystem", r).name = r.body.name
  <2>1. Call("CreateSystem", r) = [f |-> "CreateSystem", name |-> r.body.name]
    BY SMTT(30) DEF Call, PathId, PersonPath, NamedOp, EntityOp
  <2>2. QED
    BY <2>1
<1>6. /\ Call("RenameSystem", r).f = "RenameSystem"
      /\ Call("RenameSystem", r).id = ParseNumber(r.id)
      /\ Call("RenameSystem", r).name = r.body.name
  <2>1. Call("RenameSystem", r) = [f |-> "RenameSystem", id |-> ParseNumber(r.id), name |-> r.body.name]
    BY SMTT(30) DEF Call, PathId, PersonPath, NamedOp, EntityOp
  <2>2. QED
    BY <2>1
<1>7. /\ Call("DisableSystem", r).f = "DisableSystem"
      /\ Call("DisableSystem", r).id = ParseNumber(r.id)
  <2>1. Call("DisableSystem", r) = [f |-> "DisableSystem", id |-> ParseNumber(r.id)]
    BY SMTT(30) DEF Call, PathId, PersonPath, NamedOp, EntityOp
  <2>2. QED
    BY <2>1
<1>8. /\ Call("EnableSystem", r).f = "EnableSystem"
      /\ Call("EnableSystem", r).id = ParseNumber(r.id)
  <2>1. Call("EnableSystem", r) = [f |-> "EnableSystem", id |-> ParseNumber(r.id)]
    BY SMTT(30) DEF Call, PathId, PersonPath, NamedOp, EntityOp
  <2>2. QED
    BY <2>1
<1>9. /\ Call("PromoteSteward", r).f = "PromoteSteward"
      /\ Call("PromoteSteward", r).upn = r.body.upn
  <2>1. Call("PromoteSteward", r) = [f |-> "PromoteSteward", upn |-> r.body.upn]
    BY SMTT(30) DEF Call, PathId, PersonPath, NamedOp, EntityOp
  <2>2. QED
    BY <2>1
<1>10. /\ Call("DemoteSteward", r).f = "DemoteSteward"
      /\ Call("DemoteSteward", r).id = ParseNumber(r.id)
  <2>1. Call("DemoteSteward", r) = [f |-> "DemoteSteward", id |-> ParseNumber(r.id)]
    BY SMTT(30) DEF Call, PathId, PersonPath, NamedOp, EntityOp
  <2>2. QED
    BY <2>1
<1>11. /\ Call("CancelStewardInvite", r).f = "CancelStewardInvite"
      /\ Call("CancelStewardInvite", r).id = ParseNumber(r.id)
  <2>1. Call("CancelStewardInvite", r) = [f |-> "CancelStewardInvite", id |-> ParseNumber(r.id)]
    BY SMTT(30) DEF Call, PathId, PersonPath, NamedOp, EntityOp
  <2>2. QED
    BY <2>1
<1>12. QED
  BY <1>1, <1>2, <1>3, <1>4, <1>5, <1>6, <1>7, <1>8, <1>9, <1>10, <1>11

\* Each operation is decided by its function of core, and commits its transaction.
LEMMA Dispatch ==
    ASSUME NEW d, NEW u, NEW op
    PROVE  /\ op.f = "CreatePerson" =>
              /\ Outcome(d, u, op) = Written
              /\ Tx(d, u, op) = CreatePersonTx(d, u, op.name)
           /\ op.f = "RenamePerson" =>
              /\ Outcome(d, u, op) = RenamePersonOutcome(d, op.id, op.name)
              /\ Tx(d, u, op) = RenamePersonTx(d, u, op.id, op.name)
           /\ op.f = "CreateAssociation" =>
              /\ Outcome(d, u, op) = CreateAssociationOutcome(d, op.person, op.system)
              /\ Tx(d, u, op) = CreateAssociationTx(d, u, op.person, op.system, op.foreign)
           /\ op.f = "RemoveAssociation" =>
              /\ Outcome(d, u, op) = RemoveAssociationOutcome(d, op.person, op.id)
              /\ Tx(d, u, op) = RemoveAssociationTx(d, u, op.person, op.id)
           /\ op.f = "CreateSystem" =>
              /\ Outcome(d, u, op) = CreateSystemOutcome(op.name)
              /\ Tx(d, u, op) = CreateSystemTx(d, u, op.name)
           /\ op.f = "RenameSystem" =>
              /\ Outcome(d, u, op) = RenameSystemOutcome(d, op.id, op.name)
              /\ Tx(d, u, op) = RenameSystemTx(d, u, op.id, op.name)
           /\ op.f = "DisableSystem" =>
              /\ Outcome(d, u, op) = DisableSystemOutcome(d, op.id)
              /\ Tx(d, u, op) = DisableSystemTx(d, u, op.id)
           /\ op.f = "EnableSystem" =>
              /\ Outcome(d, u, op) = EnableSystemOutcome(d, op.id)
              /\ Tx(d, u, op) = EnableSystemTx(d, u, op.id)
           /\ op.f = "PromoteSteward" =>
              /\ Outcome(d, u, op) = PromoteStewardOutcome(d, op.upn)
              /\ Tx(d, u, op) = PromoteStewardTx(d, u, op.upn)
           /\ op.f = "DemoteSteward" =>
              /\ Outcome(d, u, op) = DemoteStewardOutcome(d, u, op.id)
              /\ Tx(d, u, op) = DemoteStewardTx(d, u, op.id)
           /\ op.f = "CancelStewardInvite" =>
              /\ Outcome(d, u, op) = CancelStewardInviteOutcome(d, op.id)
              /\ Tx(d, u, op) = CancelStewardInviteTx(d, u, op.id)
<1>1. CASE op.f = "CreatePerson"
  BY <1>1 DEF Outcome, Tx
<1>2. CASE op.f = "RenamePerson"
  BY <1>2 DEF Outcome, Tx
<1>3. CASE op.f = "CreateAssociation"
  BY <1>3 DEF Outcome, Tx
<1>4. CASE op.f = "RemoveAssociation"
  BY <1>4 DEF Outcome, Tx
<1>5. CASE op.f = "CreateSystem"
  BY <1>5 DEF Outcome, Tx
<1>6. CASE op.f = "RenameSystem"
  BY <1>6 DEF Outcome, Tx
<1>7. CASE op.f = "DisableSystem"
  BY <1>7 DEF Outcome, Tx
<1>8. CASE op.f = "EnableSystem"
  BY <1>8 DEF Outcome, Tx
<1>9. CASE op.f = "PromoteSteward"
  BY <1>9 DEF Outcome, Tx
<1>10. CASE op.f = "DemoteSteward"
  BY <1>10 DEF Outcome, Tx
<1>11. CASE op.f = "CancelStewardInvite"
  BY <1>11 DEF Outcome, Tx
<1>12. QED
  BY <1>1, <1>2, <1>3, <1>4, <1>5, <1>6, <1>7, <1>8, <1>9, <1>10, <1>11

\* So, handler by handler, the outcome and the database after it.
LEMMA Outcomes ==
    ASSUME NEW d, NEW u, NEW r
    PROVE  /\ /\ Outcome(d, u, Call("CreatePerson", r)) =
                 Written
              /\ Tx(d, u, Call("CreatePerson", r)) =
                 CreatePersonTx(d, u, r.body.name)
           /\ /\ Outcome(d, u, Call("RenamePerson", r)) =
                 RenamePersonOutcome(d, Parse(r.id), r.body.name)
              /\ Tx(d, u, Call("RenamePerson", r)) =
                 RenamePersonTx(d, u, Parse(r.id), r.body.name)
           /\ /\ Outcome(d, u, Call("CreateAssociation", r)) =
                 CreateAssociationOutcome(d, Parse(r.id), ParseNumber(r.body.system))
              /\ Tx(d, u, Call("CreateAssociation", r)) =
                 CreateAssociationTx(d, u, Parse(r.id), ParseNumber(r.body.system), r.body.foreign)
           /\ /\ Outcome(d, u, Call("RemoveAssociation", r)) =
                 RemoveAssociationOutcome(d, Parse(r.id), ParseNumber(r.aid))
              /\ Tx(d, u, Call("RemoveAssociation", r)) =
                 RemoveAssociationTx(d, u, Parse(r.id), ParseNumber(r.aid))
           /\ /\ Outcome(d, u, Call("CreateSystem", r)) =
                 CreateSystemOutcome(r.body.name)
              /\ Tx(d, u, Call("CreateSystem", r)) =
                 CreateSystemTx(d, u, r.body.name)
           /\ /\ Outcome(d, u, Call("RenameSystem", r)) =
                 RenameSystemOutcome(d, ParseNumber(r.id), r.body.name)
              /\ Tx(d, u, Call("RenameSystem", r)) =
                 RenameSystemTx(d, u, ParseNumber(r.id), r.body.name)
           /\ /\ Outcome(d, u, Call("DisableSystem", r)) =
                 DisableSystemOutcome(d, ParseNumber(r.id))
              /\ Tx(d, u, Call("DisableSystem", r)) =
                 DisableSystemTx(d, u, ParseNumber(r.id))
           /\ /\ Outcome(d, u, Call("EnableSystem", r)) =
                 EnableSystemOutcome(d, ParseNumber(r.id))
              /\ Tx(d, u, Call("EnableSystem", r)) =
                 EnableSystemTx(d, u, ParseNumber(r.id))
           /\ /\ Outcome(d, u, Call("PromoteSteward", r)) =
                 PromoteStewardOutcome(d, r.body.upn)
              /\ Tx(d, u, Call("PromoteSteward", r)) =
                 PromoteStewardTx(d, u, r.body.upn)
           /\ /\ Outcome(d, u, Call("DemoteSteward", r)) =
                 DemoteStewardOutcome(d, u, ParseNumber(r.id))
              /\ Tx(d, u, Call("DemoteSteward", r)) =
                 DemoteStewardTx(d, u, ParseNumber(r.id))
           /\ /\ Outcome(d, u, Call("CancelStewardInvite", r)) =
                 CancelStewardInviteOutcome(d, ParseNumber(r.id))
              /\ Tx(d, u, Call("CancelStewardInvite", r)) =
                 CancelStewardInviteTx(d, u, ParseNumber(r.id))
<1>1. /\ Outcome(d, u, Call("CreatePerson", r)) = Written
      /\ Tx(d, u, Call("CreatePerson", r)) =
            CreatePersonTx(d, u, r.body.name)
  <2> DEFINE op == Call("CreatePerson", r)
  <2>1. op.f = "CreatePerson" /\ op.name = r.body.name
    BY Calls
  <2> HIDE DEF op
  <2>2. QED
    BY <2>1, Dispatch DEF op
<1>2. /\ Outcome(d, u, Call("RenamePerson", r)) = RenamePersonOutcome(d, Parse(r.id), r.body.name)
      /\ Tx(d, u, Call("RenamePerson", r)) =
            RenamePersonTx(d, u, Parse(r.id), r.body.name)
  <2> DEFINE op == Call("RenamePerson", r)
  <2>1. op.f = "RenamePerson" /\ op.id = Parse(r.id) /\ op.name = r.body.name
    BY Calls
  <2> HIDE DEF op
  <2>2. QED
    BY <2>1, Dispatch DEF op
<1>3. /\ Outcome(d, u, Call("CreateAssociation", r)) = CreateAssociationOutcome(d, Parse(r.id), ParseNumber(r.body.system))
      /\ Tx(d, u, Call("CreateAssociation", r)) =
            CreateAssociationTx(d, u, Parse(r.id), ParseNumber(r.body.system), r.body.foreign)
  <2> DEFINE op == Call("CreateAssociation", r)
  <2>1. op.f = "CreateAssociation" /\ op.person = Parse(r.id) /\ op.system = ParseNumber(r.body.system) /\ op.foreign = r.body.foreign
    BY Calls
  <2> HIDE DEF op
  <2>2. QED
    BY <2>1, Dispatch DEF op
<1>4. /\ Outcome(d, u, Call("RemoveAssociation", r)) = RemoveAssociationOutcome(d, Parse(r.id), ParseNumber(r.aid))
      /\ Tx(d, u, Call("RemoveAssociation", r)) =
            RemoveAssociationTx(d, u, Parse(r.id), ParseNumber(r.aid))
  <2> DEFINE op == Call("RemoveAssociation", r)
  <2>1. op.f = "RemoveAssociation" /\ op.person = Parse(r.id) /\ op.id = ParseNumber(r.aid)
    BY Calls
  <2> HIDE DEF op
  <2>2. QED
    BY <2>1, Dispatch DEF op
<1>5. /\ Outcome(d, u, Call("CreateSystem", r)) = CreateSystemOutcome(r.body.name)
      /\ Tx(d, u, Call("CreateSystem", r)) =
            CreateSystemTx(d, u, r.body.name)
  <2> DEFINE op == Call("CreateSystem", r)
  <2>1. op.f = "CreateSystem" /\ op.name = r.body.name
    BY Calls
  <2> HIDE DEF op
  <2>2. QED
    BY <2>1, Dispatch DEF op
<1>6. /\ Outcome(d, u, Call("RenameSystem", r)) = RenameSystemOutcome(d, ParseNumber(r.id), r.body.name)
      /\ Tx(d, u, Call("RenameSystem", r)) =
            RenameSystemTx(d, u, ParseNumber(r.id), r.body.name)
  <2> DEFINE op == Call("RenameSystem", r)
  <2>1. op.f = "RenameSystem" /\ op.id = ParseNumber(r.id) /\ op.name = r.body.name
    BY Calls
  <2> HIDE DEF op
  <2>2. QED
    BY <2>1, Dispatch DEF op
<1>7. /\ Outcome(d, u, Call("DisableSystem", r)) = DisableSystemOutcome(d, ParseNumber(r.id))
      /\ Tx(d, u, Call("DisableSystem", r)) =
            DisableSystemTx(d, u, ParseNumber(r.id))
  <2> DEFINE op == Call("DisableSystem", r)
  <2>1. op.f = "DisableSystem" /\ op.id = ParseNumber(r.id)
    BY Calls
  <2> HIDE DEF op
  <2>2. QED
    BY <2>1, Dispatch DEF op
<1>8. /\ Outcome(d, u, Call("EnableSystem", r)) = EnableSystemOutcome(d, ParseNumber(r.id))
      /\ Tx(d, u, Call("EnableSystem", r)) =
            EnableSystemTx(d, u, ParseNumber(r.id))
  <2> DEFINE op == Call("EnableSystem", r)
  <2>1. op.f = "EnableSystem" /\ op.id = ParseNumber(r.id)
    BY Calls
  <2> HIDE DEF op
  <2>2. QED
    BY <2>1, Dispatch DEF op
<1>9. /\ Outcome(d, u, Call("PromoteSteward", r)) = PromoteStewardOutcome(d, r.body.upn)
      /\ Tx(d, u, Call("PromoteSteward", r)) =
            PromoteStewardTx(d, u, r.body.upn)
  <2> DEFINE op == Call("PromoteSteward", r)
  <2>1. op.f = "PromoteSteward" /\ op.upn = r.body.upn
    BY Calls
  <2> HIDE DEF op
  <2>2. QED
    BY <2>1, Dispatch DEF op
<1>10. /\ Outcome(d, u, Call("DemoteSteward", r)) = DemoteStewardOutcome(d, u, ParseNumber(r.id))
      /\ Tx(d, u, Call("DemoteSteward", r)) =
            DemoteStewardTx(d, u, ParseNumber(r.id))
  <2> DEFINE op == Call("DemoteSteward", r)
  <2>1. op.f = "DemoteSteward" /\ op.id = ParseNumber(r.id)
    BY Calls
  <2> HIDE DEF op
  <2>2. QED
    BY <2>1, Dispatch DEF op
<1>11. /\ Outcome(d, u, Call("CancelStewardInvite", r)) = CancelStewardInviteOutcome(d, ParseNumber(r.id))
      /\ Tx(d, u, Call("CancelStewardInvite", r)) =
            CancelStewardInviteTx(d, u, ParseNumber(r.id))
  <2> DEFINE op == Call("CancelStewardInvite", r)
  <2>1. op.f = "CancelStewardInvite" /\ op.id = ParseNumber(r.id)
    BY Calls
  <2> HIDE DEF op
  <2>2. QED
    BY <2>1, Dispatch DEF op
<1>12. QED
  BY <1>1, <1>2, <1>3, <1>4, <1>5, <1>6, <1>7, <1>8, <1>9, <1>10, <1>11

-------------------------------------------------------------------------------
(* The two sides. *)

\* Each web handler looks for all the errors that its call of core can return, and
\* answers them as the API does.
LEMMA ErrorsAgree ==
    ASSUME NEW d, NEW u, NEW h \in WriteHandlers, NEW r,
           NEW outcome, outcome = Outcome(d, u, Call(h, r))
    PROVE  \/ outcome \in {Written, Unchanged}
           \/ /\ HttpError(outcome) = WebError(h, outcome)
              /\ HttpError(outcome) \in 400..599
<1> USE DEF Written, Unchanged, HttpError, WebError, NamedOp, EntityOp, PersonPath
<1>1. CASE h = "CreatePerson"
  BY <1>1, Outcomes
<1>2. CASE h = "RenamePerson"
  BY <1>2, Outcomes DEF RenamePersonOutcome
<1>3. CASE h = "CreateAssociation"
  BY <1>3, Outcomes DEF CreateAssociationOutcome
<1>4. CASE h = "RemoveAssociation"
  BY <1>4, Outcomes DEF RemoveAssociationOutcome
<1>5. CASE h = "CreateSystem"
  BY <1>5, Outcomes DEF CreateSystemOutcome
<1>6. CASE h = "RenameSystem"
  BY <1>6, Outcomes DEF RenameSystemOutcome
<1>7. CASE h = "DisableSystem"
  BY <1>7, Outcomes DEF DisableSystemOutcome
<1>8. CASE h = "EnableSystem"
  BY <1>8, Outcomes DEF EnableSystemOutcome
<1>9. CASE h = "PromoteSteward"
  BY <1>9, Outcomes DEF PromoteStewardOutcome
<1>10. CASE h = "DemoteSteward"
  BY <1>10, Outcomes DEF DemoteStewardOutcome
<1>11. CASE h = "CancelStewardInvite"
  BY <1>11, Outcomes DEF CancelStewardInviteOutcome
<1>12. QED
  BY <1>1, <1>2, <1>3, <1>4, <1>5, <1>6, <1>7, <1>8, <1>9, <1>10, <1>11 DEF WriteHandlers

\* "Web and API stay behaviorally identical" (web/handlers.go).
THEOREM TwinsAnswerAlike == RequestsSpec => []TwinsAgree
<1>1. TwinsAgree
  <2> SUFFICES ASSUME NEW u \in User, NEW p \in ApiWrites, NEW w \in WebWrites,
                      p.handler = w.handler,
                      NEW me, me = Authenticate(db, u)
               PROVE  /\ ApiGate(db, access, me, p.gate) = Admitted <=>
                            WebGate(db, access, me, w.gate) = Admitted
                      /\ \A r \in RequestTo(p.handler) :
                            LET api == ApiWrite(db, me, p.handler, r).status
                                web == WebWrite(db, me, p.handler, r).status
                            IN IF BadPath(p.handler, r) THEN api = 400 /\ web = 404
                               ELSE IF web = 303 THEN api < 300 ELSE api = web
    BY DEF TwinsAgree
  <2>1. ApiGate(db, access, me, p.gate) = Admitted <=> WebGate(db, access, me, w.gate) = Admitted
    BY WriteRoutes DEF ApiGate, WebGate, Admitted
  <2>2. ASSUME NEW r \in RequestTo(p.handler)
        PROVE  LET api == ApiWrite(db, me, p.handler, r).status
                   web == WebWrite(db, me, p.handler, r).status
               IN IF BadPath(p.handler, r) THEN api = 400 /\ web = 404
                  ELSE IF web = 303 THEN api < 300 ELSE api = web
    <3> DEFINE h == p.handler
               outcome == Outcome(db, me, Call(h, r))
               api == ApiWrite(db, me, h, r).status
               web == WebWrite(db, me, h, r).status
    <3>1. h \in WriteHandlers
      BY WriteRoutes
    <3>2. \A s, l : Answer(s, l).status = s
      BY DEF Answer
    <3>3. CASE BadPath(h, r)
      BY <3>2, <3>3 DEF ApiWrite, WebWrite
    <3>4. CASE ~BadPath(h, r) /\ (BadBody(h, r) \/ NoSystem(h, r))
      BY <3>2, <3>4 DEF ApiWrite, WebWrite
    <3>5. CASE ~BadPath(h, r) /\ ~BadBody(h, r) /\ ~NoSystem(h, r)
      <4>1. api = IF outcome \in {Written, Unchanged} THEN ApiDone(h) ELSE HttpError(outcome)
        BY <3>2, <3>5 DEF ApiWrite
      <4>2. web = IF outcome \in {Written, Unchanged} THEN 303 ELSE WebError(h, outcome)
        BY <3>2, <3>5 DEF WebWrite
      <4>3. CASE outcome \in {Written, Unchanged}
        <5>1. ApiDone(h) < 300
          BY <3>1 DEF WriteHandlers, ApiDone
        <5>2. QED
          BY <3>5, <4>1, <4>2, <4>3, <5>1
      <4>4. CASE outcome \notin {Written, Unchanged}
        <5>1. HttpError(outcome) = WebError(h, outcome) /\ HttpError(outcome) \in 400..599
          BY <3>1, <4>4, ErrorsAgree
        <5>2. QED
          BY <3>5, <4>1, <4>2, <4>4, <5>1
      <4>5. QED
        BY <4>3, <4>4
    <3>6. QED
      BY <3>3, <3>4, <3>5
  <2>3. QED
    BY <2>1, <2>2
<1>2. QED
  BY <1>1, PTL

-------------------------------------------------------------------------------
(* A request's step of the registry. *)

\* A text that is not there is no id.
LEMMA NoTextIsNoId == ParseNumber(NoText) = NoId
<1>1. TrimSpace(NoText) = << >>
  BY DEF TrimSpace, NoText
<1>2. Unsigned(<< >>) = << >>
  BY DEF Unsigned, Signed
<1>3. ParseInt(<< >>) = NoId
  BY <1>2 DEF ParseInt, IsNumber
<1>4. QED
  BY <1>1, <1>3 DEF ParseNumber, Positive, NoId

\* What a handler has in hand when it calls core.
InHand(h, r) ==
    /\ h \in PersonPath => Parse(r.id) \in RowId
    /\ h \in (NamedOp \cup EntityOp) \ PersonPath => ParseNumber(r.id) \in RowId
    /\ h = "RemoveAssociation" => ParseNumber(r.aid) \in RowId
    /\ h = "CreateAssociation" => ParseNumber(r.body.system) \in RowId /\ r.body.foreign \in ForeignId
    /\ h \in HasName => r.body.name \in Name
    /\ h = "PromoteSteward" => r.body.upn \in UPN

\* The checks that a handler makes first leave it with ids and texts.
LEMMA RequestTypes ==
    ASSUME NEW h \in WriteHandlers, NEW r \in RequestTo(h),
           ~BadPath(h, r), ~BadBody(h, r), ~NoSystem(h, r)
    PROVE  InHand(h, r)
<1>1. h \in PersonPath \cup NamedOp \cup EntityOp => PathId(h, r) # NoId /\ r.id \in IdText
  BY DEF BadPath, RequestTo
<1>2. h \in PersonPath => Parse(r.id) \in RowId
  BY <1>1, RequestsAssumption DEF PathId
<1>3. h \in (NamedOp \cup EntityOp) \ PersonPath => ParseNumber(r.id) \in RowId
  BY <1>1, RequestsAssumption DEF PathId
<1>4. h = "RemoveAssociation" => ParseNumber(r.aid) \in RowId
  BY RequestsAssumption DEF BadPath, RequestTo
<1>5. h \in HasBody => r.body \in Body(h)
  BY DEF BadBody, RequestTo
<1>6. h = "CreateAssociation" => ParseNumber(r.body.system) \in RowId /\ r.body.foreign \in ForeignId
  <2> SUFFICES ASSUME h = "CreateAssociation"
               PROVE  ParseNumber(r.body.system) \in RowId /\ r.body.foreign \in ForeignId
    OBVIOUS
  <2>1. r.body.system \in IdText \cup {NoText} /\ r.body.foreign \in ForeignId
    BY <1>5 DEF Body, SystemText, HasBody
  <2>2. r.body.system # NoText
    BY NoTextIsNoId DEF NoSystem
  <2>3. ParseNumber(r.body.system) \in RowId
    BY <2>1, <2>2, RequestsAssumption DEF NoSystem
  <2>4. QED
    BY <2>1, <2>3
<1>7. h \in HasName => r.body.name \in Name
  BY <1>5 DEF Body, HasBody
<1>8. h = "PromoteSteward" => r.body.upn \in UPN
  BY <1>5 DEF Body, HasBody
<1>9. QED
  BY <1>2, <1>3, <1>4, <1>6, <1>7, <1>8 DEF InHand

\* The action of the registry that handler h takes for request r.
Performs(a, h, r) ==
    LET person == Parse(r.id)
        id == ParseNumber(r.id)
    IN \/ h = "CreatePerson" /\ CreatePerson(a, r.body.name)
       \/ h = "RenamePerson" /\ person \in DOMAIN db.persons /\ RenamePerson(a, person, r.body.name)
       \/ /\ h = "CreateAssociation"
          /\ person \in DOMAIN db.persons /\ ParseNumber(r.body.system) \in DOMAIN db.systems
          /\ CreateAssociation(a, person, ParseNumber(r.body.system), r.body.foreign)
       \/ /\ h = "RemoveAssociation" /\ ParseNumber(r.aid) \in DOMAIN db.associations
          /\ person \in {db.associations[ParseNumber(r.aid)].person_id}
          /\ RemoveAssociation(a, person, ParseNumber(r.aid))
       \/ h = "CreateSystem" /\ CreateSystem(a, r.body.name)
       \/ h = "RenameSystem" /\ id \in DOMAIN db.systems /\ RenameSystem(a, id, r.body.name)
       \/ h = "DisableSystem" /\ id \in DOMAIN db.systems /\ DisableSystem(a, id)
       \/ h = "EnableSystem" /\ id \in DOMAIN db.systems /\ EnableSystem(a, id)
       \/ h = "PromoteSteward" /\ PromoteSteward(a, r.body.upn)
       \/ h = "DemoteSteward" /\ id \in DOMAIN db.stewards /\ DemoteSteward(a, id)
       \/ h = "CancelStewardInvite" /\ id \in DOMAIN db.pending /\ CancelStewardInvite(a, id)

\* It takes it when core writes.
LEMMA WrittenPerforms ==
    ASSUME NEW a, NEW h \in WriteHandlers, NEW r,
           Outcome(db, a, Call(h, r)) = Written, db' = Tx(db, a, Call(h, r))
    PROVE  Performs(a, h, r)
<1>1. CASE h = "CreatePerson"
  BY <1>1, Outcomes DEF Performs, Written, CreatePerson
<1>2. CASE h = "RenamePerson"
  BY <1>2, Outcomes DEF Performs, Written, RenamePerson, RenamePersonOutcome
<1>3. CASE h = "CreateAssociation"
  BY <1>3, Outcomes DEF Performs, Written, CreateAssociation, CreateAssociationOutcome
<1>4. CASE h = "RemoveAssociation"
  BY <1>4, Outcomes DEF Performs, Written, RemoveAssociation, RemoveAssociationOutcome
<1>5. CASE h = "CreateSystem"
  BY <1>5, Outcomes DEF Performs, Written, CreateSystem, CreateSystemOutcome
<1>6. CASE h = "RenameSystem"
  BY <1>6, Outcomes DEF Performs, Written, RenameSystem, RenameSystemOutcome
<1>7. CASE h = "DisableSystem"
  BY <1>7, Outcomes DEF Performs, Written, DisableSystem, DisableSystemOutcome
<1>8. CASE h = "EnableSystem"
  BY <1>8, Outcomes DEF Performs, Written, EnableSystem, EnableSystemOutcome
<1>9. CASE h = "PromoteSteward"
  BY <1>9, Outcomes DEF Performs, Written, PromoteSteward, PromoteStewardOutcome
<1>10. CASE h = "DemoteSteward"
  BY <1>10, Outcomes DEF Performs, Written, DemoteSteward, DemoteStewardOutcome
<1>11. CASE h = "CancelStewardInvite"
  BY <1>11, Outcomes DEF Performs, Written, CancelStewardInvite, CancelStewardInviteOutcome
<1>12. QED
  BY <1>1, <1>2, <1>3, <1>4, <1>5, <1>6, <1>7, <1>8, <1>9, <1>10, <1>11 DEF WriteHandlers

\* And that is a write of the registry.
LEMMA PerformsWrites ==
    ASSUME NEW a, Bound, NEW h, NEW r, InHand(h, r), Performs(a, h, r)
    PROVE  Write(a)
<1> USE DEF InHand, PersonPath, NamedOp, EntityOp, HasName
<1>1. CASE h = "CreatePerson"
  BY <1>1 DEF Performs, Write, WriteEntity
<1>2. CASE h = "RenamePerson"
  BY <1>2 DEF Performs, Write, WriteEntity
<1>3. CASE h = "CreateAssociation"
  BY <1>3 DEF Performs, Write, WriteEntity
<1>4. CASE h = "RemoveAssociation"
  BY <1>4 DEF Performs, Write, WriteEntity
<1>5. CASE h = "CreateSystem"
  BY <1>5 DEF Performs, Write, WriteEntity
<1>6. CASE h = "RenameSystem"
  BY <1>6 DEF Performs, Write, WriteEntity
<1>7. CASE h = "DisableSystem"
  BY <1>7 DEF Performs, Write, WriteEntity
<1>8. CASE h = "EnableSystem"
  BY <1>8 DEF Performs, Write, WriteEntity
<1>9. CASE h = "PromoteSteward"
  BY <1>9 DEF Performs, Write, WriteSteward
<1>10. CASE h = "DemoteSteward"
  BY <1>10 DEF Performs, Write, WriteSteward
<1>11. CASE h = "CancelStewardInvite"
  BY <1>11 DEF Performs, Write, WriteSteward
<1>12. QED
  BY <1>1, <1>2, <1>3, <1>4, <1>5, <1>6, <1>7, <1>8, <1>9, <1>10, <1>11 DEF Performs

\* Past the gate there is a steward of the bound tenant.
LEMMA PastTheGate ==
    ASSUME NEW u \in User, NEW me, me = Authenticate(db, u), NEW policy,
           \/ ApiGate(db, policy, me, "steward") = Admitted
           \/ WebGate(db, policy, me, "steward") \notin {302, 403}
    PROVE  Bound /\ me \in Actor /\ IsActiveSteward(db, me.oid)
<1>1. Gate(policy, "steward") = "steward"
  BY DEF Gate, Surface
<1>2. IsSteward(db, me)
  BY <1>1 DEF ApiGate, WebGate, Admitted
<1>3. QED
  BY <1>2 DEF IsSteward, Authenticate, User, Bound

\* A handler behind the gate writes as the registry does, or leaves it as it is.
LEMMA HandleStep ==
    ASSUME NEW a \in Actor, Bound, IsActiveSteward(db, a.oid),
           NEW h \in WriteHandlers, NEW r \in RequestTo(h), NEW answer, Handle(a, h, r, answer)
    PROVE  GatedNext \/ db' = db
<1>1. CASE BadPath(h, r) \/ BadBody(h, r) \/ NoSystem(h, r)
  BY <1>1 DEF Handle
<1>2. CASE ~BadPath(h, r) /\ ~BadBody(h, r) /\ ~NoSystem(h, r) /\ Outcome(db, a, Call(h, r)) = Written
  <2>1. Performs(a, h, r)
    BY <1>2, WrittenPerforms DEF Handle, After
  <2>2. Write(a)
    BY <1>2, <2>1, RequestTypes, PerformsWrites
  <2>3. QED
    BY <2>2 DEF GatedNext
<1>3. CASE ~BadPath(h, r) /\ ~BadBody(h, r) /\ ~NoSystem(h, r) /\ Outcome(db, a, Call(h, r)) # Written
  BY <1>3 DEF Handle, After
<1>4. QED
  BY <1>1, <1>2, <1>3

\* So does every request.
LEMMA RequestStep == RequestsNext => GatedNext \/ db' = db
<1> SUFFICES ASSUME RequestsNext
             PROVE  GatedNext \/ db' = db
  OBVIOUS
<1>1. ASSUME NEW u \in User, NEW me, me = Authenticate(db, u), ReadAs(me)
      PROVE  db' = db
  BY <1>1 DEF ReadAs, GetApi, GetPage
<1>2. ASSUME NEW u \in User, NEW me, me = Authenticate(db, u),
             NEW route \in ApiWrites, NEW r \in RequestTo(route.handler), PostApi(me, route, r)
      PROVE  GatedNext \/ db' = db
  <2>1. route.gate = "steward" /\ route.handler \in WriteHandlers
    BY WriteRoutes
  <2>2. CASE ApiGate(db, access, me, "steward") # Admitted
    BY <1>2, <2>1, <2>2 DEF PostApi, Refuse
  <2>3. CASE ApiGate(db, access, me, "steward") = Admitted
    <3>1. Bound /\ me \in Actor /\ IsActiveSteward(db, me.oid)
      BY <1>2, <2>3, PastTheGate
    <3>2. Handle(me, route.handler, r, ApiWrite(db, me, route.handler, r))
      BY <1>2, <2>1, <2>3 DEF PostApi
    <3>3. QED
      BY <2>1, <3>1, <3>2, HandleStep
  <2>4. QED
    BY <2>2, <2>3
<1>3. ASSUME NEW u \in User, NEW me, me = Authenticate(db, u),
             NEW route \in WebWrites, NEW r \in RequestTo(route.handler), PostForm(me, route, r)
      PROVE  GatedNext \/ db' = db
  <2>1. route.gate = "steward" /\ route.handler \in WriteHandlers
    BY WriteRoutes
  <2>2. CASE WebGate(db, access, me, "steward") \in {302, 403}
    BY <1>3, <2>1, <2>2 DEF PostForm, Refuse
  <2>3. CASE WebGate(db, access, me, "steward") \notin {302, 403}
    <3>1. Bound /\ me \in Actor /\ IsActiveSteward(db, me.oid)
      BY <1>3, <2>3, PastTheGate
    <3>2. Handle(me, route.handler, r, WebWrite(db, me, route.handler, r))
      BY <1>3, <2>1, <2>3 DEF PostForm
    <3>3. QED
      BY <2>1, <3>1, <3>2, HandleStep
  <2>4. QED
    BY <2>2, <2>3
<1>4. ASSUME NEW a \in Actor, SignInAndReturn(a)
      PROVE  GatedNext \/ db' = db
  BY <1>4 DEF SignInAndReturn, GatedNext
<1>5. QED
  BY <1>1, <1>2, <1>3, <1>4 DEF RequestsNext, WriteAs

\* The requests of both sides, gates and handlers and all, implement the registry with
\* its steward check: whatever they are, and in whatever order, the database is only ever
\* written by a steward through core.
THEOREM RequestsImplementGated == RequestsSpec => GatedSpec
<1>1. RequestsInit => Init
  BY DEF RequestsInit
<1>2. [RequestsNext]_requestVars => [GatedNext]_db
  BY RequestStep DEF requestVars
<1>3. QED
  BY <1>1, <1>2, PTL DEF RequestsSpec, GatedSpec

\* So the inductive invariant of the registry holds whatever is asked of it.
THEOREM RequestsInvariant == RequestsSpec => []IInv
<1>1. RequestsInit => IInv
  BY InitInv DEF RequestsInit
<1>2. IInv /\ [RequestsNext]_requestVars => IInv'
  <2>1. IInv /\ GatedNext => IInv'
    BY NextInv DEF GatedNext, Next
  <2>2. IInv /\ db' = db => IInv'
    BY NextInv
  <2>3. QED
    BY <2>1, <2>2, RequestStep DEF requestVars
<1>3. QED
  BY <1>1, <1>2, PTL DEF RequestsSpec

\* And "a deployment can never be left with no one able to maintain it" (README.md), by any
\* sequence of requests and sign-ins.
THEOREM RequestsLeaveASteward == RequestsSpec => []SomeStewardRemains
BY RequestsImplementGated, StewardRemains, PTL

-------------------------------------------------------------------------------
(* What an answer says. *)

\* What core is asked for is there once it has written, and so is one row of the log.
LEMMA PerformedHolds ==
    ASSUME TypeOK, ForeignKeysHold(db), NEW a \in Actor, NEW h, NEW r, InHand(h, r), Performs(a, h, r)
    PROVE  /\ Accomplished(db', h, r)
           /\ \E row : Logs(row) /\ row.actor = a
<1> USE DEF InHand, PersonPath, NamedOp, EntityOp, HasName, Performs
<1>0. \A action, type, id, details :
         Logs(AuditEntry(a, action, type, id, details)) => \E row : Logs(row) /\ row.actor = a
  <2>1. \A action, type, id, details : AuditEntry(a, action, type, id, details).actor = a
    BY DEF AuditEntry
  <2>2. QED
    BY <2>1
<1>1. CASE h = "CreatePerson"
  <2>1. CreatePerson(a, r.body.name)
    BY <1>1
  <2>2. /\ db'.persons = Put(db.persons, NewId(db, "persons"),
                           [name |-> Trim[r.body.name], created_by |-> a.upn, updated_by |-> a.upn])
        /\ db'.seq.persons = NewId(db, "persons")
    BY <1>1, <2>1, CreatePersonEffect, NextPersonId
  <2>3. \E row : Logs(row) /\ row.actor = a
    BY <1>0, <1>1, <2>1, CreatePersonEffect
  <2>4. Accomplished(db', h, r)
    BY <1>1, <2>2, TextTypes, TextAssumption DEF Accomplished, Row, Put
  <2>5. QED
    BY <2>3, <2>4
<1>2. CASE h = "RenamePerson"
  <2>1. RenamePerson(a, Parse(r.id), r.body.name)
    BY <1>2
  <2>2. /\ db'.persons = Renamed(db.persons, Parse(r.id), Trim[r.body.name], a.upn)
        /\ Parse(r.id) \in DOMAIN db.persons /\ db.persons[Parse(r.id)] \in Person
    BY <1>2, <2>1, RenamePersonEffect DEF TypeOK, IsDatabase, IsTable
  <2>3. \E row : Logs(row) /\ row.actor = a
    BY <1>0, <1>2, <2>1, RenamePersonEffect
  <2>4. Accomplished(db', h, r)
    <3>1. Parse(r.id) \in DOMAIN db'.persons /\ db'.persons[Parse(r.id)].name = Trim[r.body.name]
      BY <2>2, RenamedRow
    <3>2. QED
      BY <1>2, <3>1 DEF Accomplished, Row
  <2>5. QED
    BY <2>3, <2>4
<1>3. CASE h = "CreateAssociation"
  <2>1. CreateAssociation(a, Parse(r.id), ParseNumber(r.body.system), r.body.foreign)
    BY <1>3
  <2>2. /\ db'.associations = Put(db.associations, NewId(db, "associations"),
                                [person_id |-> Parse(r.id), system_id |-> ParseNumber(r.body.system),
                                 foreign_id |-> Trim[r.body.foreign], created_by |-> a.upn])
        /\ db'.seq.associations = NewId(db, "associations")
    BY <1>3, <2>1, CreateAssociationEffect, NextAssociationId
  <2>3. \E row : Logs(row) /\ row.actor = a
    BY <1>0, <1>3, <2>1, CreateAssociationEffect
  <2>4. Accomplished(db', h, r)
    BY <1>3, <2>2, TextTypes, TextAssumption DEF Accomplished, Row, Put
  <2>5. QED
    BY <2>3, <2>4
<1>4. CASE h = "RemoveAssociation"
  <2>1. RemoveAssociation(a, Parse(r.id), ParseNumber(r.aid)) /\ Parse(r.id) \in DOMAIN db.persons
    BY <1>4 DEF ForeignKeysHold
  <2>2. db'.associations = Without(db.associations, ParseNumber(r.aid))
    BY <1>4, <2>1, RemoveAssociationEffect
  <2>3. \E row : Logs(row) /\ row.actor = a
    BY <1>0, <1>4, <2>1, RemoveAssociationEffect
  <2>4. Accomplished(db', h, r)
    BY <1>4, <2>2, TextTypes, TextAssumption DEF Accomplished, Without
  <2>5. QED
    BY <2>3, <2>4
<1>5. CASE h = "CreateSystem"
  <2>1. CreateSystem(a, r.body.name)
    BY <1>5
  <2>2. /\ db'.systems = Put(db.systems, NewId(db, "systems"),
                           [name |-> Trim[r.body.name], created_by |-> a.upn, updated_by |-> a.upn,
                            disabled_by |-> Null])
        /\ db'.seq.systems = NewId(db, "systems")
    BY <1>5, <2>1, CreateSystemEffect, NextSystemId
  <2>3. \E row : Logs(row) /\ row.actor = a
    BY <1>0, <1>5, <2>1, CreateSystemEffect
  <2>4. Accomplished(db', h, r)
    BY <1>5, <2>2, TextTypes, TextAssumption DEF Accomplished, Row, Put
  <2>5. QED
    BY <2>3, <2>4
<1>6. CASE h = "RenameSystem"
  <2>1. RenameSystem(a, ParseNumber(r.id), r.body.name)
    BY <1>6
  <2>2. /\ db'.systems = Renamed(db.systems, ParseNumber(r.id), Trim[r.body.name], a.upn)
        /\ ParseNumber(r.id) \in DOMAIN db.systems /\ db.systems[ParseNumber(r.id)] \in System
    BY <1>6, <2>1, RenameSystemEffect DEF TypeOK, IsDatabase, IsTable
  <2>3. \E row : Logs(row) /\ row.actor = a
    BY <1>0, <1>6, <2>1, RenameSystemEffect
  <2>4. Accomplished(db', h, r)
    <3>1. /\ ParseNumber(r.id) \in DOMAIN db'.systems
          /\ db'.systems[ParseNumber(r.id)].name = Trim[r.body.name]
      BY <2>2, RenamedRow
    <3>2. QED
      BY <1>6, <3>1 DEF Accomplished, Row
  <2>5. QED
    BY <2>3, <2>4
<1>7. CASE h = "DisableSystem"
  <2>1. DisableSystem(a, ParseNumber(r.id))
    BY <1>7
  <2>2. /\ db'.systems = [db.systems EXCEPT ![ParseNumber(r.id)].disabled_by = a.upn]
        /\ ParseNumber(r.id) \in DOMAIN db.systems /\ db.systems[ParseNumber(r.id)] \in System
    BY <1>7, <2>1, DisableSystemEffect DEF TypeOK, IsDatabase, IsTable
  <2>3. \E row : Logs(row) /\ row.actor = a
    BY <1>0, <1>7, <2>1, DisableSystemEffect
  <2>4. Accomplished(db', h, r)
    BY <1>7, <2>2, TextTypes, TextAssumption DEF Accomplished, Row, Disabled, System
  <2>5. QED
    BY <2>3, <2>4
<1>8. CASE h = "EnableSystem"
  <2>1. EnableSystem(a, ParseNumber(r.id))
    BY <1>8
  <2>2. /\ db'.systems = [db.systems EXCEPT ![ParseNumber(r.id)].disabled_by = Null]
        /\ ParseNumber(r.id) \in DOMAIN db.systems /\ db.systems[ParseNumber(r.id)] \in System
    BY <1>8, <2>1, EnableSystemEffect DEF TypeOK, IsDatabase, IsTable
  <2>3. \E row : Logs(row) /\ row.actor = a
    BY <1>0, <1>8, <2>1, EnableSystemEffect
  <2>4. Accomplished(db', h, r)
    BY <1>8, <2>2, TextTypes, TextAssumption DEF Accomplished, Row, Disabled, System
  <2>5. QED
    BY <2>3, <2>4
<1>9. CASE h = "PromoteSteward"
  <2>1. PromoteSteward(a, r.body.upn)
    BY <1>9
  <2>2. db'.pending = Put(db.pending, NewId(db, "pending"),
                           [user_upn |-> Trim[r.body.upn], invited_by |-> a.upn])
    BY <1>9, <2>1, PromoteStewardEffect
  <2>3. \E row : Logs(row) /\ row.actor = a
    BY <1>0, <1>9, <2>1, PromoteStewardEffect
  <2>4. Accomplished(db', h, r)
    BY <1>9, <2>2, TextTypes, TextAssumption DEF Accomplished, PendingByUPN, SameUPN, Put
  <2>5. QED
    BY <2>3, <2>4
<1>10. CASE h = "DemoteSteward"
  <2>1. DemoteSteward(a, ParseNumber(r.id))
    BY <1>10
  <2>2. /\ db'.stewards = [db.stewards EXCEPT ![ParseNumber(r.id)].removed_by = a.upn]
        /\ ParseNumber(r.id) \in DOMAIN db.stewards /\ db.stewards[ParseNumber(r.id)] \in Steward
    BY <1>10, <2>1, DemoteStewardEffect DEF TypeOK, IsDatabase, IsTable
  <2>3. \E row : Logs(row) /\ row.actor = a
    BY <1>0, <1>10, <2>1, DemoteStewardEffect
  <2>4. Accomplished(db', h, r)
    BY <1>10, <2>2, TextTypes, TextAssumption DEF Accomplished, ActiveStewards, Removed, Steward
  <2>5. QED
    BY <2>3, <2>4
<1>11. CASE h = "CancelStewardInvite"
  <2>1. CancelStewardInvite(a, ParseNumber(r.id))
    BY <1>11
  <2>2. db'.pending = Without(db.pending, ParseNumber(r.id))
    BY <1>11, <2>1, CancelStewardInviteEffect
  <2>3. \E row : Logs(row) /\ row.actor = a
    BY <1>0, <1>11, <2>1, CancelStewardInviteEffect
  <2>4. Accomplished(db', h, r)
    BY <1>11, <2>2, TextTypes, TextAssumption DEF Accomplished, Without
  <2>5. QED
    BY <2>3, <2>4
<1>12. QED
  BY <1>1, <1>2, <1>3, <1>4, <1>5, <1>6, <1>7, <1>8, <1>9, <1>10, <1>11

\* What core finds as asked is as asked.
LEMMA UnchangedHolds ==
    ASSUME NEW a, NEW h \in WriteHandlers, NEW r, Outcome(db, a, Call(h, r)) = Unchanged
    PROVE  Accomplished(db, h, r)
<1> USE DEF Unchanged, Written
<1>1. CASE h = "CreatePerson"
  BY <1>1, Outcomes
<1>2. CASE h = "RenamePerson"
  BY <1>2, Outcomes DEF RenamePersonOutcome, Accomplished, Row, Disabled
<1>3. CASE h = "CreateAssociation"
  BY <1>3, Outcomes DEF CreateAssociationOutcome
<1>4. CASE h = "RemoveAssociation"
  BY <1>4, Outcomes DEF RemoveAssociationOutcome
<1>5. CASE h = "CreateSystem"
  BY <1>5, Outcomes DEF CreateSystemOutcome
<1>6. CASE h = "RenameSystem"
  BY <1>6, Outcomes DEF RenameSystemOutcome, Accomplished, Row, Disabled
<1>7. CASE h = "DisableSystem"
  BY <1>7, Outcomes DEF DisableSystemOutcome, Accomplished, Row, Disabled
<1>8. CASE h = "EnableSystem"
  BY <1>8, Outcomes DEF EnableSystemOutcome, Accomplished, Row, Disabled
<1>9. CASE h = "PromoteSteward"
  BY <1>9, Outcomes DEF PromoteStewardOutcome
<1>10. CASE h = "DemoteSteward"
  BY <1>10, Outcomes DEF DemoteStewardOutcome
<1>11. CASE h = "CancelStewardInvite"
  BY <1>11, Outcomes DEF CancelStewardInviteOutcome
<1>12. QED
  BY <1>1, <1>2, <1>3, <1>4, <1>5, <1>6, <1>7, <1>8, <1>9, <1>10, <1>11 DEF WriteHandlers

\* The step that an answer speaks of.
Told(status, asked, u) ==
    /\ status \in {0} \cup 400..599 => db' = db
    /\ status \in {200, 201, 204, 303} /\ "r" \in DOMAIN asked =>
          /\ Accomplished(db', asked.f, asked.r)
          /\ db' # db => /\ Len(db'.audit) = Len(db.audit) + 1
                         /\ db'.audit[Len(db'.audit)].actor = u

\* A refusal asks nothing of core.
LEMMA NothingTold ==
    ASSUME NEW status, NEW u, db' = db
    PROVE  Told(status, NothingAsked, u)
BY DEF Told, NothingAsked

\* The status of a request that a handler sees: of a refusal it is an error, and only of
\* what core did or found done a success.
LEMMA HandledTruly ==
    ASSUME TypeOK, ForeignKeysHold(db), NEW a \in Actor,
           NEW h \in WriteHandlers, NEW r \in RequestTo(h),
           NEW answer, answer \in {ApiWrite(db, a, h, r), WebWrite(db, a, h, r)},
           Handle(a, h, r, answer)
    PROVE  Told(answer.status, [f |-> h, r |-> r], a)
<1> DEFINE outcome == Outcome(db, a, Call(h, r))
<1>1. \A s, l : Answer(s, l).status = s
  BY DEF Answer
<1>2. [f |-> h, r |-> r].f = h /\ [f |-> h, r |-> r].r = r
  OBVIOUS
<1>3. CASE BadPath(h, r) \/ BadBody(h, r) \/ NoSystem(h, r)
  <2>1. answer.status \in {400, 404} /\ db' = db
    BY <1>1, <1>3 DEF ApiWrite, WebWrite, Handle
  <2>2. QED
    BY <2>1 DEF Told
<1>4. CASE /\ ~BadPath(h, r) /\ ~BadBody(h, r) /\ ~NoSystem(h, r)
           /\ outcome \in {Written, Unchanged}
  <2>1. answer.status \in {ApiDone(h), 303}
    BY <1>1, <1>4 DEF ApiWrite, WebWrite
  <2>2. ApiDone(h) \in {200, 201, 204}
    BY DEF WriteHandlers, ApiDone
  <2>3. answer.status \notin {0} \cup 400..599
    BY <2>1, <2>2
  <2>4. CASE outcome = Written
    <3>1. db' = Tx(db, a, Call(h, r))
      BY <1>4, <2>4 DEF Handle, After
    <3>2. InHand(h, r) /\ Performs(a, h, r)
      BY <1>4, <2>4, <3>1, RequestTypes, WrittenPerforms
    <3>3. Accomplished(db', h, r) /\ \E row : Logs(row) /\ row.actor = a
      BY <3>2, PerformedHolds
    <3>4. Len(db'.audit) = Len(db.audit) + 1 /\ db'.audit[Len(db'.audit)].actor = a
      BY <3>3 DEF TypeOK, IsDatabase, Logs
    <3>5. QED
      BY <1>2, <2>3, <3>3, <3>4 DEF Told
  <2>5. CASE outcome = Unchanged
    <3>1. db' = db
      BY <1>4, <2>5 DEF Handle, After, Written, Unchanged
    <3>2. Accomplished(db, h, r)
      BY <2>5, UnchangedHolds
    <3>3. Accomplished(db', h, r)
      BY <3>1, <3>2
    <3>4. QED
      BY <1>2, <2>3, <3>1, <3>3 DEF Told
  <2>6. QED
    BY <1>4, <2>4, <2>5
<1>5. CASE /\ ~BadPath(h, r) /\ ~BadBody(h, r) /\ ~NoSystem(h, r)
           /\ outcome \notin {Written, Unchanged}
  <2>1. answer.status \in {HttpError(outcome), WebError(h, outcome)} /\ db' = db
    BY <1>1, <1>5 DEF ApiWrite, WebWrite, Handle, After
  <2>2. answer.status \in 400..599
    BY <1>5, <2>1, ErrorsAgree
  <2>3. answer.status \notin {200, 201, 204, 303}
    BY <2>2
  <2>4. QED
    BY <2>1, <2>3 DEF Told
<1>6. QED
  BY <1>3, <1>4, <1>5

\* A write request is answered truly, whether it passes its gate or not.
LEMMA WriteToldTruly ==
    ASSUME TypeOK, ForeignKeysHold(db), NEW u \in User, NEW me, me = Authenticate(db, u),
           NEW route \in ApiWrites \cup WebWrites, NEW r \in RequestTo(route.handler),
           PostApi(me, route, r) \/ PostForm(me, route, r)
    PROVE  Told(reply'.answer.status, reply'.asked, reply'.user)
<1>1. route.gate = "steward" /\ route.handler \in WriteHandlers
  BY WriteRoutes
<1>2. ASSUME NEW asked, NEW answer, Reply(me, asked, answer)
      PROVE  reply'.answer = answer /\ reply'.asked = asked /\ reply'.user = me
  BY <1>2 DEF Reply
<1>3. ASSUME NEW answer, Refuse(me, answer)
      PROVE  Told(reply'.answer.status, reply'.asked, reply'.user)
  <2>1. reply'.asked = NothingAsked /\ db' = db
    BY <1>2, <1>3 DEF Refuse
  <2>2. QED
    BY <2>1, NothingTold
<1>4. ASSUME Bound, me \in Actor, NEW answer, Handle(me, route.handler, r, answer),
             answer \in {ApiWrite(db, me, route.handler, r), WebWrite(db, me, route.handler, r)}
      PROVE  Told(reply'.answer.status, reply'.asked, reply'.user)
  <2>1. Reply(me, [f |-> route.handler, r |-> r], answer)
    BY <1>4 DEF Handle
  <2>2. reply'.answer = answer /\ reply'.asked = [f |-> route.handler, r |-> r] /\ reply'.user = me
    BY <1>2, <2>1
  <2>3. QED
    BY <1>1, <1>4, <2>2, HandledTruly
<1>5. CASE PostApi(me, route, r)
  <2>1. CASE ApiGate(db, access, me, "steward") # Admitted
    BY <1>1, <1>3, <1>5, <2>1 DEF PostApi
  <2>2. CASE ApiGate(db, access, me, "steward") = Admitted
    <3>1. Bound /\ me \in Actor
      BY <2>2, PastTheGate
    <3>2. Handle(me, route.handler, r, ApiWrite(db, me, route.handler, r))
      BY <1>1, <1>5, <2>2 DEF PostApi
    <3>3. QED
      BY <1>4, <3>1, <3>2
  <2>3. QED
    BY <2>1, <2>2
<1>6. CASE PostForm(me, route, r)
  <2>1. CASE WebGate(db, access, me, "steward") \in {302, 403}
    BY <1>1, <1>3, <1>6, <2>1 DEF PostForm
  <2>2. CASE WebGate(db, access, me, "steward") \notin {302, 403}
    <3>1. Bound /\ me \in Actor
      BY <2>2, PastTheGate
    <3>2. Handle(me, route.handler, r, WebWrite(db, me, route.handler, r))
      BY <1>1, <1>6, <2>2 DEF PostForm
    <3>3. QED
      BY <1>4, <3>1, <3>2
  <2>3. QED
    BY <2>1, <2>2
<1>7. QED
  BY <1>5, <1>6

\* A client can believe the status: after a refusal nothing has changed, after a success
\* what was asked for holds, and a change it took is one row of the log in the client's
\* name (api/errors.go, the handlers of api and web).
THEOREM AnswersAreTrue == RequestsSpec => AnswerIsTrue
<1>1. IInv /\ [RequestsNext]_requestVars =>
         [Told(reply'.answer.status, reply'.asked, reply'.user)]_requestVars
  <2> SUFFICES ASSUME IInv, RequestsNext
               PROVE  Told(reply'.answer.status, reply'.asked, reply'.user)
    OBVIOUS
  <2>1. TypeOK /\ ForeignKeysHold(db)
    BY DEF IInv
  <2>3. ASSUME NEW u, ReadAs(u)
        PROVE  Told(reply'.answer.status, reply'.asked, reply'.user)
    <3>1. reply'.asked = NothingAsked /\ db' = db
      BY <2>3 DEF ReadAs, GetApi, GetPage, Reply
    <3>2. QED
      BY <3>1, NothingTold
  <2>4. ASSUME NEW u \in User, WriteAs(Authenticate(db, u))
        PROVE  Told(reply'.answer.status, reply'.asked, reply'.user)
    BY <2>1, <2>4, WriteToldTruly DEF WriteAs
  <2>5. ASSUME NEW a \in Actor, SignInAndReturn(a)
        PROVE  Told(reply'.answer.status, reply'.asked, reply'.user)
    <3>1. /\ reply'.asked = [f |-> "sign-in"]
          /\ reply'.answer.status = 302
      BY <2>5 DEF SignInAndReturn, Reply, Answer
    <3>2. QED
      BY <3>1 DEF Told
  <2>6. QED
    BY <2>3, <2>4, <2>5 DEF RequestsNext
<1>2. RequestsSpec => [][Told(reply'.answer.status, reply'.asked, reply'.user)]_requestVars
  BY <1>1, RequestsInvariant, PTL DEF RequestsSpec
<1>3. QED
  BY <1>2 DEF AnswerIsTrue, Told

-------------------------------------------------------------------------------
(* Digits. *)

Digit == DOMAIN DigitValue

\* The ten digits and what they stand for.
LEMMA Digits ==
    /\ \A k \in 0..9 : DigitChar[k + 1] \in Digit /\ DigitValue[DigitChar[k + 1]] = k
    /\ \A c \in Digit : DigitValue[c] \in 0..9 /\ c = DigitChar[DigitValue[c] + 1]
    /\ "0" \in Digit /\ DigitValue["0"] = 0
    /\ \A c \in Digit : c # "0" => DigitValue[c] \in 1..9
<1>1. /\ DigitChar[1] = "0" /\ DigitChar[2] = "1" /\ DigitChar[3] = "2" /\ DigitChar[4] = "3"
      /\ DigitChar[5] = "4" /\ DigitChar[6] = "5" /\ DigitChar[7] = "6" /\ DigitChar[8] = "7"
      /\ DigitChar[9] = "8" /\ DigitChar[10] = "9"
  BY DEF DigitChar
<1>2. \A i, j \in 1..10 : DigitChar[i] = DigitChar[j] => i = j
  BY <1>1
<1>3. Digit = {DigitChar[i] : i \in 1..10}
  BY DEF Digit, DigitValue
<1>4. \A i \in 1..10 : DigitValue[DigitChar[i]] = i - 1
  <2>1. ASSUME NEW i \in 1..10 PROVE DigitValue[DigitChar[i]] = i - 1
    <3>1. (CHOOSE j \in 1..10 : DigitChar[j] = DigitChar[i]) = i
      BY <1>2
    <3>2. QED
      BY <3>1 DEF DigitValue
  <2>2. QED
    BY <2>1
<1>5. \A k \in 0..9 : DigitChar[k + 1] \in Digit /\ DigitValue[DigitChar[k + 1]] = k
  BY <1>3, <1>4
<1>6. \A c \in Digit : DigitValue[c] \in 0..9 /\ c = DigitChar[DigitValue[c] + 1]
  BY <1>3, <1>4
<1>7. QED
  BY <1>1, <1>4, <1>5, <1>6

\* None of them is any of the other characters that count.
LEMMA DigitIsNoMark ==
    ASSUME NEW c \in Digit
    PROVE  c # Space /\ c # "X" /\ c # "x" /\ c # "+" /\ c # "-"
<1>1. c \in {"0", "1", "2", "3", "4", "5", "6", "7", "8", "9"}
  BY DEF Digit, DigitValue, DigitChar
<1>2. c # "X" /\ c # "x" /\ c # "+" /\ c # "-"
  BY <1>1
<1>3. c # Space
  BY <1>1, Zenon DEF Space
<1>4. QED
  BY <1>2, <1>3

-------------------------------------------------------------------------------
(* What digits come to. *)

\* The recursion has a solution for all digits there are.
LEMMA ValuesExist ==
    ASSUME NEW s
    PROVE  \A k \in Nat : \E v : v = [j \in 0..k |-> IF j = 0 THEN 0
                                                    ELSE 10 * v[j - 1] + DigitValue[s[j]]]
<1> DEFINE Solves(v, k) == v = [j \in 0..k |-> IF j = 0 THEN 0
                                              ELSE 10 * v[j - 1] + DigitValue[s[j]]]
           T == {k \in Nat : \E v : Solves(v, k)}
<1>1. 0 \in T
  <2>1. Solves([j \in 0..0 |-> 0], 0)
    OBVIOUS
  <2>2. QED
    BY <2>1
<1>2. ASSUME NEW k \in Nat, k \in T PROVE k + 1 \in T
  <2>1. PICK v : Solves(v, k)
    BY <1>2
  <2> DEFINE w == [j \in 0..(k + 1) |-> IF j <= k THEN v[j]
                                       ELSE 10 * v[k] + DigitValue[s[k + 1]]]
  <2>2. \A j \in 0..k : w[j] = v[j]
    OBVIOUS
  <2>3. \A j \in 0..k : w[j] = IF j = 0 THEN 0 ELSE 10 * w[j - 1] + DigitValue[s[j]]
    BY <2>1, <2>2
  <2>4. w[k + 1] = 10 * w[k] + DigitValue[s[k + 1]]
    BY <2>2
  <2>5. w = [j \in 0..(k + 1) |-> w[j]]
    OBVIOUS
  <2> HIDE DEF w
  <2>6. \A j \in 0..(k + 1) : w[j] = IF j = 0 THEN 0 ELSE 10 * w[j - 1] + DigitValue[s[j]]
    <3>1. ASSUME NEW j \in 0..(k + 1), j # k + 1 PROVE j \in 0..k
      BY <3>1
    <3>2. k + 1 # 0 /\ k + 1 - 1 = k
      OBVIOUS
    <3>3. QED
      BY <2>3, <2>4, <3>1, <3>2
  <2>7. Solves(w, k + 1)
    BY <2>5, <2>6
  <2> HIDE DEF Solves
  <2>8. QED
    BY <2>7
<1> HIDE DEF T
<1>3. \A k \in Nat : k \in T
  BY <1>1, <1>2, Induction
<1>4. QED
  BY <1>3 DEF T

\* So Values is that solution.
LEMMA ValuesStep ==
    ASSUME NEW C, NEW s \in Seq(C)
    PROVE  /\ DOMAIN Values(s) = 0..Len(s)
           /\ Values(s)[0] = 0
           /\ \A k \in 1..Len(s) : Values(s)[k] = 10 * Values(s)[k - 1] + DigitValue[s[k]]
<1>1. Len(s) \in Nat
  OBVIOUS
<1>2. Values(s) = CHOOSE v : v = [k \in 0..Len(s) |-> IF k = 0 THEN 0
                                                    ELSE 10 * v[k - 1] + DigitValue[s[k]]]
  BY DEF Values
<1>3. Values(s) = [k \in 0..Len(s) |-> IF k = 0 THEN 0
                                      ELSE 10 * Values(s)[k - 1] + DigitValue[s[k]]]
  BY <1>1, <1>2, ValuesExist
<1>4. QED
  BY <1>1, <1>3

\* What digits come to is a number.
LEMMA ValuesAreNumbers ==
    ASSUME NEW s \in Seq(Digit)
    PROVE  \A k \in 0..Len(s) : Values(s)[k] \in Nat
<1> DEFINE v == Values(s)
           T == {k \in Nat : k <= Len(s) => v[k] \in Nat}
<1>1. v[0] = 0 /\ \A k \in 1..Len(s) : v[k] = 10 * v[k - 1] + DigitValue[s[k]]
  BY ValuesStep
<1> HIDE DEF v
<1>2. 0 \in T
  BY <1>1
<1>3. ASSUME NEW k \in Nat, k \in T PROVE k + 1 \in T
  <2> SUFFICES ASSUME k + 1 <= Len(s)
               PROVE  v[k + 1] \in Nat
    OBVIOUS
  <2>1. v[k] \in Nat
    BY <1>3
  <2>2. s[k + 1] \in Digit
    OBVIOUS
  <2>3. DigitValue[s[k + 1]] \in Nat
    BY <2>2, Digits
  <2>4. v[k + 1] = 10 * v[k] + DigitValue[s[k + 1]]
    <3>1. k + 1 \in 1..Len(s) /\ k + 1 - 1 = k
      OBVIOUS
    <3>2. QED
      BY <1>1, <3>1
  <2>5. QED
    BY <2>1, <2>3, <2>4
<1> HIDE DEF T
<1>4. \A k \in Nat : k \in T
  BY <1>2, <1>3, Induction
<1>5. QED
  BY <1>4 DEF T, v

\* Digits that come to nothing do not count for what follows them.
LEMMA ValuesShift ==
    ASSUME NEW s \in Seq(Digit), NEW t \in Seq(Digit), NEW z \in Nat, NEW n \in Nat,
           z + n <= Len(t), n <= Len(s), Values(t)[z] = 0, \A i \in 1..n : t[z + i] = s[i]
    PROVE  \A k \in 0..n : Values(t)[z + k] = Values(s)[k]
<1> DEFINE v == Values(s)
           w == Values(t)
           T == {k \in Nat : k <= n => w[z + k] = v[k]}
<1>1. v[0] = 0 /\ \A k \in 1..Len(s) : v[k] = 10 * v[k - 1] + DigitValue[s[k]]
  BY ValuesStep
<1>2. w[z] = 0 /\ \A k \in 1..Len(t) : w[k] = 10 * w[k - 1] + DigitValue[t[k]]
  BY ValuesStep
<1> HIDE DEF v, w
<1>3. 0 \in T
  BY <1>1, <1>2
<1>4. ASSUME NEW k \in Nat, k \in T PROVE k + 1 \in T
  <2> SUFFICES ASSUME k + 1 <= n
               PROVE  w[z + (k + 1)] = v[k + 1]
    OBVIOUS
  <2>1. w[z + k] = v[k] /\ t[z + (k + 1)] = s[k + 1]
    BY <1>4
  <2>2. v[k + 1] = 10 * v[k] + DigitValue[s[k + 1]]
    <3>1. k + 1 \in 1..Len(s) /\ k + 1 - 1 = k
      OBVIOUS
    <3>2. QED
      BY <1>1, <3>1
  <2>3. w[z + (k + 1)] = 10 * w[z + k] + DigitValue[t[z + (k + 1)]]
    <3>1. z + (k + 1) \in 1..Len(t) /\ z + (k + 1) - 1 = z + k
      OBVIOUS
    <3>2. QED
      BY <1>2, <3>1
  <2>4. QED
    BY <2>1, <2>2, <2>3
<1> HIDE DEF T
<1>5. \A k \in Nat : k \in T
  BY <1>3, <1>4, Induction
<1>6. QED
  BY <1>5 DEF T, v, w

\* Zeros come to nothing.
LEMMA ValuesOfZeros ==
    ASSUME NEW t \in Seq(Digit), NEW z \in 0..Len(t), \A i \in 1..z : t[i] = "0"
    PROVE  Values(t)[z] = 0
<1> DEFINE w == Values(t)
           T == {k \in Nat : k <= z => w[k] = 0}
<1>1. w[0] = 0 /\ \A k \in 1..Len(t) : w[k] = 10 * w[k - 1] + DigitValue[t[k]]
  BY ValuesStep
<1> HIDE DEF w
<1>2. 0 \in T
  BY <1>1
<1>3. ASSUME NEW k \in Nat, k \in T PROVE k + 1 \in T
  <2> SUFFICES ASSUME k + 1 <= z
               PROVE  w[k + 1] = 0
    OBVIOUS
  <2>1. w[k] = 0 /\ t[k + 1] = "0"
    BY <1>3
  <2>2. w[k + 1] = 10 * w[k] + DigitValue[t[k + 1]]
    <3>1. k + 1 \in 1..Len(t) /\ k + 1 - 1 = k
      OBVIOUS
    <3>2. QED
      BY <1>1, <3>1
  <2>3. QED
    BY <2>1, <2>2, Digits
<1> HIDE DEF T
<1>4. \A k \in Nat : k \in T
  BY <1>2, <1>3, Induction
<1>5. QED
  BY <1>4 DEF T, w

\* What all digits of a text come to.
ValueOf(s) == Values(s)[Len(s)]

\* One more digit.
LEMMA ValueOfAppend ==
    ASSUME NEW s \in Seq(Digit), NEW c \in Digit
    PROVE  ValueOf(Append(s, c)) = 10 * ValueOf(s) + DigitValue[c]
<1> DEFINE t == Append(s, c)
           n == Len(s)
<1>1. t \in Seq(Digit) /\ Len(t) = n + 1 /\ t[n + 1] = c /\ \A i \in 1..n : t[i] = s[i]
  OBVIOUS
<1> HIDE DEF t
<1>2. Values(t)[0] = 0
  BY <1>1, ValuesStep
<1>3. \A k \in 0..n : Values(t)[k] = Values(s)[k]
  <2> DEFINE z == 0
  <2>1. /\ z \in Nat /\ n \in Nat /\ z + n <= Len(t) /\ n <= Len(s) /\ Values(t)[z] = 0
        /\ \A i \in 1..n : t[z + i] = s[i]
    BY <1>1, <1>2
  <2>2. \A k \in 0..n : z + k = k
    OBVIOUS
  <2> HIDE DEF z, n
  <2>3. \A k \in 0..n : Values(t)[z + k] = Values(s)[k]
    BY <1>1, <2>1, ValuesShift, ZenonT(30)
  <2>4. QED
    BY <2>2, <2>3
<1>4. Values(t)[n + 1] = 10 * Values(t)[n] + DigitValue[c]
  <2>1. n + 1 \in 1..Len(t) /\ n + 1 - 1 = n
    BY <1>1
  <2>2. QED
    BY <1>1, <2>1, ValuesStep
<1>5. QED
  BY <1>1, <1>3, <1>4 DEF ValueOf, t

\* Leading zeros do not count.
LEMMA ValueOfPadded ==
    ASSUME NEW s \in Seq(Digit), NEW t \in Seq(Digit), NEW z \in Nat, Len(t) = z + Len(s),
           \A i \in 1..z : t[i] = "0", \A i \in 1..Len(s) : t[z + i] = s[i]
    PROVE  ValueOf(t) = ValueOf(s)
<1> DEFINE n == Len(s)
<1>1. n \in Nat /\ z \in 0..Len(t) /\ z + n <= Len(t)
  OBVIOUS
<1>2. Values(t)[z] = 0
  BY <1>1, ValuesOfZeros
<1>3. Values(t)[z + n] = Values(s)[n]
  <2>1. n <= Len(s) /\ n \in 0..n /\ \A i \in 1..n : t[z + i] = s[i]
    OBVIOUS
  <2> HIDE DEF n
  <2>2. \A k \in 0..n : Values(t)[z + k] = Values(s)[k]
    BY <1>1, <1>2, <2>1, ValuesShift, ZenonT(30)
  <2>3. QED
    BY <2>1, <2>2
<1>4. QED
  BY <1>3 DEF ValueOf

-------------------------------------------------------------------------------
(* Decimal notation. *)

\* The recursion has a solution up to every number.
LEMMA DigitsExist ==
    \A b \in Nat : \E g : g = [n \in 0..b |-> IF n < 10 THEN <<DigitChar[n + 1]>>
                                              ELSE Append(g[n \div 10], DigitChar[(n % 10) + 1])]
<1> DEFINE Next1(g, n) == IF n < 10 THEN <<DigitChar[n + 1]>>
                          ELSE Append(g[n \div 10], DigitChar[(n % 10) + 1])
           Solves(g, b) == g = [n \in 0..b |-> Next1(g, n)]
           T == {b \in Nat : \E g : Solves(g, b)}
<1>0. \A n \in Nat : n >= 10 => n \div 10 \in 0..(n - 1)
  OBVIOUS
<1>1. 0 \in T
  <2> DEFINE g == [n \in 0..0 |-> <<DigitChar[n + 1]>>]
  <2>1. \A n \in 0..0 : g[n] = Next1(g, n)
    OBVIOUS
  <2>2. Solves(g, 0)
    BY <2>1
  <2>3. QED
    BY <2>2
<1>2. ASSUME NEW b \in Nat, b \in T PROVE b + 1 \in T
  <2>1. PICK g : Solves(g, b)
    BY <1>2
  <2> DEFINE h == [n \in 0..(b + 1) |-> IF n <= b THEN g[n] ELSE Next1(g, b + 1)]
  <2>2. \A n \in 0..b : h[n] = g[n]
    OBVIOUS
  <2>3. h[b + 1] = Next1(g, b + 1)
    OBVIOUS
  <2>4. h = [n \in 0..(b + 1) |-> h[n]]
    OBVIOUS
  <2> HIDE DEF h
  <2>5. \A n \in 0..(b + 1) : Next1(h, n) = Next1(g, n)
    <3>1. ASSUME NEW n \in 0..(b + 1), n >= 10 PROVE n \div 10 \in 0..b
      BY <1>0, <3>1
    <3>2. \A n \in 0..(b + 1) : n >= 10 => h[n \div 10] = g[n \div 10]
      BY <2>2, <3>1
    <3>3. QED
      BY <3>2
  <2>6. \A n \in 0..b : g[n] = Next1(g, n)
    BY <2>1
  <2> HIDE DEF Next1
  <2>7. \A n \in 0..(b + 1) : h[n] = Next1(h, n)
    <3>1. ASSUME NEW n \in 0..(b + 1), n # b + 1 PROVE n \in 0..b
      BY <3>1
    <3>2. QED
      BY <2>2, <2>3, <2>5, <2>6, <3>1
  <2>8. Solves(h, b + 1)
    BY <2>4, <2>7
  <2> HIDE DEF Solves
  <2>9. QED
    BY <2>8
<1> HIDE DEF T
<1>3. \A b \in Nat : b \in T
  BY <1>1, <1>2, Induction
<1>4. QED
  BY <1>3 DEF T

\* So DigitsOf is that solution, up to the largest int64.
LEMMA DigitsOfStep ==
    ASSUME NEW n \in 0..MaxId
    PROVE  DigitsOf[n] = IF n < 10 THEN <<DigitChar[n + 1]>>
                         ELSE Append(DigitsOf[n \div 10], DigitChar[(n % 10) + 1])
<1>1. MaxId \in Nat
  BY PersonIdAssumption
<1>2. DigitsOf = CHOOSE g : g = [k \in 0..MaxId |->
                     IF k < 10 THEN <<DigitChar[k + 1]>>
                     ELSE Append(g[k \div 10], DigitChar[(k % 10) + 1])]
  BY DEF DigitsOf
<1>3. DigitsOf = [k \in 0..MaxId |->
                     IF k < 10 THEN <<DigitChar[k + 1]>>
                     ELSE Append(DigitsOf[k \div 10], DigitChar[(k % 10) + 1])]
  BY <1>1, <1>2, DigitsExist
<1>4. QED
  BY <1>3

\* The notation of a number: digits that come to it.
LEMMA DigitsOfNumber ==
    ASSUME NEW n \in 0..MaxId
    PROVE  DigitsOf[n] \in Seq(Digit) /\ DigitsOf[n] # << >> /\ ValueOf(DigitsOf[n]) = n
<1> DEFINE Fits(k) == DigitsOf[k] \in Seq(Digit) /\ DigitsOf[k] # << >> /\ ValueOf(DigitsOf[k]) = k
           T == {k \in Nat : k <= MaxId => Fits(k)}
<1>1. ASSUME NEW k \in Nat, \A m \in 0..(k - 1) : m \in T PROVE k \in T
  <2> SUFFICES ASSUME k <= MaxId
               PROVE  Fits(k)
    OBVIOUS
  <2>0. k \in 0..MaxId
    BY PersonIdAssumption
  <2>1. CASE k < 10
    <3> DEFINE c == DigitChar[k + 1]
    <3>1. k \in 0..9
      BY <2>1
    <3>2. c \in Digit /\ DigitValue[c] = k
      BY <3>1, Digits
    <3>3. DigitsOf[k] = <<c>>
      BY <2>0, <2>1, DigitsOfStep
    <3> HIDE DEF c
    <3>4. <<c>> = Append(<< >>, c) /\ << >> \in Seq(Digit)
      OBVIOUS
    <3>5. ValueOf(<< >>) = 0
      BY <3>4, ValuesStep DEF ValueOf
    <3>6. ValueOf(<<c>>) = 10 * 0 + k
      BY <3>2, <3>4, <3>5, ValueOfAppend
    <3>7. <<c>> \in Seq(Digit) /\ <<c>> # << >>
      BY <3>2
    <3>8. QED
      BY <3>3, <3>6, <3>7
  <2>2. CASE k >= 10
    <3> DEFINE q == k \div 10
               c == DigitChar[(k % 10) + 1]
               s == DigitsOf[q]
    <3>1. q \in 0..(k - 1) /\ k % 10 \in 0..9 /\ k = 10 * q + (k % 10)
      BY <2>2
    <3>2. c \in Digit /\ DigitValue[c] = k % 10
      BY <3>1, Digits
    <3>3. Fits(q)
      <4>1. q \in T
        BY <1>1, <3>1
      <4>2. q <= MaxId
        BY <2>0, <3>1, PersonIdAssumption
      <4>3. QED
        BY <4>1, <4>2
    <3>4. DigitsOf[k] = Append(s, c)
      <4>1. ~(k < 10)
        BY <2>2
      <4>2. QED
        BY <2>0, <4>1, DigitsOfStep
    <3> HIDE DEF q, c
    <3>5. s \in Seq(Digit) /\ ValueOf(s) = q
      BY <3>3
    <3> HIDE DEF s
    <3>6. ValueOf(Append(s, c)) = k
      BY <3>1, <3>2, <3>5, ValueOfAppend
    <3>7. Append(s, c) \in Seq(Digit) /\ Append(s, c) # << >>
      BY <3>2, <3>5
    <3>8. QED
      BY <3>4, <3>6, <3>7
  <2>3. QED
    BY <2>1, <2>2
<1> HIDE DEF T
<1>2. \A k \in Nat : k \in T
  BY <1>1, CompleteInduction
<1>3. n \in Nat /\ n <= MaxId
  BY PersonIdAssumption
<1>4. QED
  BY <1>2, <1>3 DEF T

-------------------------------------------------------------------------------
(* Reading a number. *)

\* Trimming leaves a part of the text.
LEMMA TrimmedText ==
    ASSUME NEW C, NEW s \in Seq(C)
    PROVE  TrimSpace(s) \in Seq(C)
<1> DEFINE ink == {i \in DOMAIN s : s[i] # Space}
<1>1. CASE ink = {}
  BY <1>1 DEF TrimSpace
<1>2. CASE ink # {}
  <2>1. ink \in SUBSET (1..Len(s)) /\ ink \in SUBSET (0..Len(s)) /\ ink \in SUBSET Nat /\ Len(s) \in Nat
    OBVIOUS
  <2> DEFINE first == Min(ink)
             last == Max(ink)
  <2>2. TrimSpace(s) = SubSeq(s, first, last)
    BY <1>2 DEF TrimSpace
  <2> HIDE DEF ink
  <2>3. first \in ink
    BY <1>2, <2>1, LeastNat DEF Min
  <2>4. last \in ink
    <3>1. \E m \in ink : \A y \in ink : y <= m
      BY <1>2, <2>1, GreatestNat
    <3>2. QED
      BY <3>1 DEF Max
  <2>5. first \in 1..Len(s) /\ last \in 1..Len(s)
    BY <2>1, <2>3, <2>4
  <2> HIDE DEF first, last
  <2>6. QED
    BY <2>2, <2>5
<1>3. QED
  BY <1>1, <1>2

\* A text that begins and ends in ink stays as it is.
LEMMA NothingToTrim ==
    ASSUME NEW C, NEW s \in Seq(C), s # << >>, s[1] # Space, s[Len(s)] # Space
    PROVE  TrimSpace(s) = s
<1> DEFINE ink == {i \in DOMAIN s : s[i] # Space}
<1>1. ink \subseteq 1..Len(s) /\ 1 \in ink /\ Len(s) \in ink
  OBVIOUS
<1>2. TrimSpace(s) = SubSeq(s, Min(ink), Max(ink))
  BY <1>1 DEF TrimSpace
<1> HIDE DEF ink
<1>3. Min(ink) = 1
  <2>1. \A x \in ink : (\A y \in ink : x <= y) <=> x = 1
    BY <1>1
  <2>2. QED
    BY <1>1, <2>1 DEF Min
<1>4. Max(ink) = Len(s)
  <2>1. \A x \in ink : (\A y \in ink : x >= y) <=> x = Len(s)
    BY <1>1
  <2>2. QED
    BY <1>1, <2>1 DEF Max
<1>5. SubSeq(s, 1, Len(s)) = s
  OBVIOUS
<1>6. QED
  BY <1>2, <1>3, <1>4, <1>5

\* What is left of a text from a position on.
From(s, k) == SubSeq(s, k, Len(s))

\* Its parts.
LEMMA FromParts ==
    ASSUME NEW C, NEW s \in Seq(C), NEW k \in 1..(Len(s) + 1)
    PROVE  /\ From(s, k) \in Seq(C)
           /\ Len(From(s, k)) = Len(s) - k + 1
           /\ \A i \in 1..Len(From(s, k)) : From(s, k)[i] = s[k + i - 1]
           /\ From(s, 1) = s
           /\ k <= Len(s) => From(s, k) # << >> /\ Tail(From(s, k)) = From(s, k + 1)
<1>1. Len(s) \in Nat
  OBVIOUS
<1>2. From(s, k) \in Seq(C) /\ Len(From(s, k)) = Len(s) - k + 1
  BY <1>1 DEF From
<1>3. \A i \in 1..Len(From(s, k)) : From(s, k)[i] = s[k + i - 1]
  BY <1>1 DEF From
<1>4. From(s, 1) = s
  BY DEF From
<1>5. ASSUME k <= Len(s) PROVE From(s, k) # << >> /\ Tail(From(s, k)) = From(s, k + 1)
  <2>1. Len(From(s, k)) # 0
    BY <1>1, <1>2, <1>5
  <2>2. Tail(From(s, k)) = From(s, k + 1)
    BY <1>1, <1>5 DEF From
  <2>3. QED
    BY <2>1, <2>2
<1>6. QED
  BY <1>2, <1>3, <1>4, <1>5

Negative(s) == Signed(s) /\ s[1] = "-"

\* A text is read as the number its digits come to, if there is one and it is an id.
LEMMA ReadNumber ==
    ASSUME NEW C, NEW s \in Seq(C)
    PROVE  Positive(ParseInt(s)) =
              IF /\ Unsigned(s) \in Seq(Digit) /\ Unsigned(s) # << >>
                 /\ ~Negative(s) /\ ValueOf(Unsigned(s)) \in 1..MaxId
              THEN ValueOf(Unsigned(s)) ELSE NoId
<1> DEFINE u == Unsigned(s)
<1>1. u \in Seq(C)
  BY DEF Unsigned, Signed
<1>2. Magnitude(s) = ValueOf(u)
  BY DEF Magnitude, ValueOf
<1> HIDE DEF u
<1>3. IsNumber(s) <=> u \in Seq(Digit) /\ u # << >>
  <2>1. IsNumber(s) <=> u # << >> /\ \A i \in DOMAIN u : u[i] \in Digit
    BY DEF IsNumber, u, Digit
  <2>2. (\A i \in DOMAIN u : u[i] \in Digit) <=> u \in Seq(Digit)
    BY <1>1
  <2>3. QED
    BY <2>1, <2>2
<1>4. u \in Seq(Digit) => ValueOf(u) \in Nat
  <2>1. u \in Seq(Digit) => Len(u) \in 0..Len(u)
    OBVIOUS
  <2>2. QED
    BY <2>1, ValuesAreNumbers DEF ValueOf
<1>5. MaxId \in Nat
  BY PersonIdAssumption
<1>6. ParseInt(s) = IF ~IsNumber(s) \/ ValueOf(u) > MaxId THEN 0
                    ELSE IF Negative(s) THEN -ValueOf(u) ELSE ValueOf(u)
  BY <1>2 DEF ParseInt, Negative, NoId
<1>7. CASE IsNumber(s) /\ ~(ValueOf(u) > MaxId)
  <2>1. ValueOf(u) \in Nat
    BY <1>3, <1>4, <1>7
  <2>2. CASE Negative(s)
    <3>1. ParseInt(s) = -ValueOf(u)
      BY <1>6, <1>7, <2>2
    <3>2. QED
      BY <2>1, <2>2, <3>1 DEF Positive, NoId, u
  <2>3. CASE ~Negative(s)
    <3>1. ParseInt(s) = ValueOf(u)
      BY <1>6, <1>7, <2>3
    <3>2. ValueOf(u) > 0 <=> ValueOf(u) \in 1..MaxId
      BY <1>5, <1>7, <2>1
    <3>3. QED
      BY <1>3, <1>7, <2>3, <3>1, <3>2 DEF Positive, NoId, u
  <2>4. QED
    BY <2>2, <2>3
<1>8. CASE ~(IsNumber(s) /\ ~(ValueOf(u) > MaxId))
  <2>1. ParseInt(s) = 0
    BY <1>6, <1>8
  <2>2. Positive(0) = NoId
    BY DEF Positive, NoId
  <2>3. ~(u \in Seq(Digit) /\ u # << >> /\ ValueOf(u) \in 1..MaxId)
    BY <1>3, <1>4, <1>5, <1>8
  <2>4. QED
    BY <2>1, <2>2, <2>3 DEF u
<1>9. QED
  BY <1>7, <1>8

\* Digits are read as they are.
LEMMA ReadDigits ==
    ASSUME NEW s \in Seq(Digit), s # << >>, ValueOf(s) \in 1..MaxId
    PROVE  /\ Unsigned(s) = s /\ TrimSpace(s) = s /\ Positive(ParseInt(s)) = ValueOf(s)
           /\ ~Signed(s)
<1>1. s[1] \in Digit /\ s[Len(s)] \in Digit
  OBVIOUS
<1>2. ~Signed(s)
  BY <1>1, DigitIsNoMark DEF Signed
<1>3. Unsigned(s) = s /\ ~Negative(s)
  BY <1>2 DEF Unsigned, Negative
<1>4. TrimSpace(s) = s
  BY <1>1, DigitIsNoMark, NothingToTrim
<1>5. Positive(ParseInt(s)) = ValueOf(s)
  BY <1>3, ReadNumber
<1>6. QED
  BY <1>2, <1>3, <1>4, <1>5

-------------------------------------------------------------------------------
(* Ids and their handles. *)

\* Where the number of a person's id begins, behind an X and a dash, and where its
\* digits do, behind a sign.
NumberAt(b) ==
    IF b # << >> /\ b[1] \in {"X", "x"}
    THEN IF Len(b) >= 2 /\ b[2] = "-" THEN 3 ELSE 2
    ELSE 1

DigitsAt(b) ==
    IF NumberAt(b) <= Len(b) /\ b[NumberAt(b)] \in {"+", "-"} THEN NumberAt(b) + 1 ELSE NumberAt(b)

MinusAt(b) == NumberAt(b) <= Len(b) /\ b[NumberAt(b)] = "-"

LEMMA Positions ==
    ASSUME NEW C, NEW b \in Seq(C)
    PROVE  /\ NumberAt(b) \in 1..(Len(b) + 1) /\ DigitsAt(b) \in 1..(Len(b) + 1)
           /\ Unsigned(From(b, NumberAt(b))) = From(b, DigitsAt(b))
           /\ Negative(From(b, NumberAt(b))) <=> MinusAt(b)
<1> DEFINE m == NumberAt(b)
           t == From(b, m)
<1>1. Len(b) \in Nat /\ (b # << >> => Len(b) >= 1)
  OBVIOUS
<1>2. m \in 1..(Len(b) + 1)
  BY <1>1 DEF NumberAt
<1>3. DigitsAt(b) = IF m <= Len(b) /\ b[m] \in {"+", "-"} THEN m + 1 ELSE m
  BY DEF DigitsAt
<1>4. MinusAt(b) <=> m <= Len(b) /\ b[m] = "-"
  BY DEF MinusAt
<1> HIDE DEF m
<1>5. /\ t \in Seq(C) /\ Len(t) = Len(b) - m + 1 /\ \A i \in 1..Len(t) : t[i] = b[m + i - 1]
      /\ m <= Len(b) => t # << >> /\ Tail(t) = From(b, m + 1)
  BY <1>2, FromParts
<1> HIDE DEF t
<1>6. t # << >> <=> m <= Len(b)
  BY <1>1, <1>2, <1>5
<1>7. m <= Len(b) => t[1] = b[m]
  <2>1. m <= Len(b) => 1 \in 1..Len(t) /\ m + 1 - 1 = m
    BY <1>1, <1>2, <1>5
  <2>2. QED
    BY <1>5, <2>1
<1>8. Signed(t) <=> m <= Len(b) /\ b[m] \in {"+", "-"}
  BY <1>6, <1>7 DEF Signed
<1>9. Unsigned(t) = From(b, DigitsAt(b))
  BY <1>3, <1>5, <1>8 DEF Unsigned, t
<1>10. Negative(t) <=> MinusAt(b)
  BY <1>4, <1>7, <1>8 DEF Negative
<1>11. DigitsAt(b) \in 1..(Len(b) + 1)
  BY <1>1, <1>2, <1>3
<1>12. QED
  BY <1>2, <1>9, <1>10, <1>11 DEF m, t

\* What Parse makes of a text.
LEMMA ParseReads ==
    ASSUME NEW C, NEW s \in Seq(C), NEW b, b = TrimSpace(s), NEW u, u = From(b, DigitsAt(b))
    PROVE  /\ b \in Seq(C)
           /\ Parse(s) = IF u \in Seq(Digit) /\ u # << >> /\ ~MinusAt(b) /\ ValueOf(u) \in 1..MaxId
                         THEN ValueOf(u) ELSE NoId
<1>1. b \in Seq(C)
  BY TrimmedText
<1>2. 1 \in 1..(Len(b) + 1) /\ (b # << >> => 1 <= Len(b) /\ 1 + 1 \in 1..(Len(b) + 1))
  BY <1>1
<1>3. From(b, 1) = b /\ (b # << >> => Tail(b) = From(b, 2))
  BY <1>1, <1>2, FromParts
<1>4. ASSUME b # << >>
      PROVE  TrimPrefix(From(b, 2), "-") = From(b, IF Len(b) >= 2 /\ b[2] = "-" THEN 3 ELSE 2)
  <2> DEFINE t == From(b, 2)
  <2>1. /\ Len(t) = Len(b) - 2 + 1 /\ t \in Seq(C) /\ \A i \in 1..Len(t) : t[i] = b[2 + i - 1]
        /\ 2 <= Len(b) => t # << >> /\ Tail(t) = From(b, 2 + 1)
    BY <1>1, <1>2, <1>4, FromParts
  <2> HIDE DEF t
  <2>2. t # << >> <=> 2 <= Len(b)
    BY <1>1, <1>2, <1>4, <2>1
  <2>3. 2 <= Len(b) => t[1] = b[2]
    <3>1. 2 <= Len(b) => 1 \in 1..Len(t) /\ 2 + 1 - 1 = 2
      BY <1>1, <2>1
    <3>2. QED
      BY <2>1, <3>1
  <2>4. TrimPrefix(t, "-") = IF 2 <= Len(b) /\ b[2] = "-" THEN From(b, 3) ELSE t
    <3>1. 2 <= Len(b) => t # << >> /\ Tail(t) = From(b, 3)
      <4>1. 2 + 1 = 3
        OBVIOUS
      <4>2. QED
        BY <2>1, <4>1
    <3>2. QED
      BY <2>2, <2>3, <3>1 DEF TrimPrefix
  <2>5. QED
    BY <1>1, <2>4 DEF t
<1>5. Parse(s) = Positive(ParseInt(From(b, NumberAt(b))))
  <2>1. CASE b # << >> /\ b[1] \in {"X", "x"}
    <3>1. Parse(s) = Positive(ParseInt(TrimPrefix(Tail(b), "-")))
      BY <2>1 DEF Parse
    <3>2. TrimPrefix(Tail(b), "-") = From(b, NumberAt(b))
      BY <1>3, <1>4, <2>1 DEF NumberAt
    <3>3. QED
      BY <3>1, <3>2
  <2>2. CASE ~(b # << >> /\ b[1] \in {"X", "x"})
    <3>1. Parse(s) = Positive(ParseInt(b))
      BY <2>2 DEF Parse
    <3>2. QED
      BY <1>3, <2>2, <3>1 DEF NumberAt
  <2>3. QED
    BY <2>1, <2>2
<1> DEFINE t == From(b, NumberAt(b))
<1>6. t \in Seq(C) /\ Unsigned(t) = u /\ (Negative(t) <=> MinusAt(b))
  BY <1>1, Positions, FromParts
<1>7. Parse(s) = Positive(ParseInt(t))
  BY <1>5
<1> HIDE DEF t
<1>8. QED
  BY <1>1, <1>6, <1>7, ReadNumber

\* An id is a positive int64.
LEMMA IdsAreNumbers ==
    ASSUME NEW C, NEW s \in Seq(C)
    PROVE  Parse(s) \in {NoId} \cup 1..MaxId /\ ParseNumber(s) \in {NoId} \cup 1..MaxId
<1>1. Parse(s) \in {NoId} \cup 1..MaxId
  BY ParseReads
<1>2. TrimSpace(s) \in Seq(C)
  BY TrimmedText
<1>3. Positive(ParseInt(TrimSpace(s))) \in {NoId} \cup 1..MaxId
  BY <1>2, ReadNumber
<1>4. QED
  BY <1>1, <1>3 DEF ParseNumber

\* A number is read from its own notation.
LEMMA NumberReadBack ==
    ASSUME NEW n \in 1..MaxId
    PROVE  ParseNumber(DigitsOf[n]) = n
<1>1. n \in 0..MaxId
  BY PersonIdAssumption
<1>2. DigitsOf[n] \in Seq(Digit) /\ DigitsOf[n] # << >> /\ ValueOf(DigitsOf[n]) = n
  BY <1>1, DigitsOfNumber
<1>3. QED
  BY <1>2, ReadDigits DEF ParseNumber

\* A person's id is read from the person's handle.
LEMMA HandleReadBack ==
    ASSUME NEW n \in 1..MaxId
    PROVE  Parse(Format(n)) = n
<1> DEFINE d == DigitsOf[n]
           k == Width - Len(d)
           p == Zeros(k) \o d
           z == IF k > 0 THEN k ELSE 0
           C == Digit \cup {"X", "-"}
           b == Format(n)
<1>1. n \in 0..MaxId
  BY PersonIdAssumption
<1>2. d \in Seq(Digit) /\ d # << >> /\ ValueOf(d) = n
  BY <1>1, DigitsOfNumber
<1> HIDE DEF d
<1>3. z \in Nat /\ Zeros(k) \in Seq(Digit) /\ Len(Zeros(k)) = z /\ \A i \in 1..z : Zeros(k)[i] = "0"
  <2>1. Len(d) \in Nat /\ k \in Int
    BY <1>2, PersonIdAssumption
  <2> HIDE DEF k
  <2>2. z \in Nat /\ 1..k = 1..z
    BY <2>1
  <2>3. Zeros(k) = [i \in 1..z |-> "0"]
    BY <2>2 DEF Zeros
  <2> HIDE DEF z
  <2>4. QED
    BY <2>2, <2>3, Digits
<1> HIDE DEF k, z
<1>4. b = <<"X", "-">> \o Zeros(k) \o d
  BY DEF Format, d, k
<1> HIDE DEF b
<1>5. /\ p \in Seq(Digit) /\ Len(p) = z + Len(d) /\ \A i \in 1..z : p[i] = "0"
      /\ \A i \in 1..Len(d) : p[z + i] = d[i]
  BY <1>2, <1>3
<1>6. p # << >>
  BY <1>2, <1>3, <1>5
<1>7. ValueOf(p) = n
  BY <1>2, <1>3, <1>5, ValueOfPadded
<1>8. /\ b \in Seq(C) /\ Len(b) = 2 + Len(p) /\ b[1] = "X" /\ b[2] = "-"
      /\ \A i \in 1..Len(p) : b[2 + i] = p[i]
  <2> DEFINE q == Zeros(k)
  <2>1. q \in Seq(Digit) /\ d \in Seq(Digit)
    BY <1>2, <1>3
  <2>2. b = <<"X", "-">> \o q \o d /\ p = q \o d
    BY <1>4
  <2> HIDE DEF q, p
  <2>3. b = <<"X", "-">> \o p
    BY <2>1, <2>2
  <2>4. p \in Seq(C)
    BY <1>5
  <2> HIDE DEF C
  <2>5. <<"X", "-">> \in Seq(C)
    BY DEF C
  <2>6. QED
    BY <2>3, <2>4, <2>5
<1> HIDE DEF p, C
<1>9. TrimSpace(b) = b
  <2>1. Len(p) >= 1 /\ p[Len(p)] \in Digit
    BY <1>5, <1>6
  <2>2. b[Len(b)] \in Digit /\ b # << >>
    BY <1>5, <1>8, <2>1
  <2>3. "X" # Space
    BY Zenon DEF Space
  <2>4. b[Len(b)] # Space
    BY <2>2, DigitIsNoMark
  <2>5. QED
    BY <1>8, <2>2, <2>3, <2>4, NothingToTrim
<1>10. NumberAt(b) = 3 /\ DigitsAt(b) = 3 /\ ~MinusAt(b)
  <2>1. Len(p) >= 1 /\ p[1] \in Digit
    BY <1>5, <1>6
  <2>2. b[3] \in Digit /\ Len(b) >= 3 /\ b # << >>
    BY <1>5, <1>8, <2>1
  <2>3. NumberAt(b) = 3
    BY <1>8, <2>2 DEF NumberAt
  <2>4. b[3] # "+" /\ b[3] # "-"
    BY <2>2, DigitIsNoMark
  <2>5. QED
    BY <2>3, <2>4 DEF DigitsAt, MinusAt
<1>11. From(b, 3) = p
  <2>1. /\ From(b, 3) \in Seq(C) /\ Len(From(b, 3)) = Len(p)
        /\ \A i \in 1..Len(p) : From(b, 3)[i] = p[i]
    BY <1>5, <1>8 DEF From
  <2>2. QED
    BY <1>5, <2>1
<1>12. QED
  BY <1>5, <1>6, <1>7, <1>8, <1>9, <1>10, <1>11, ParseReads DEF b

-------------------------------------------------------------------------------
(* The texts that are documented are the ids. *)

\* The beginnings, one by one.
LEMMA Beginnings ==
    ASSUME NEW C, NEW b \in Seq(C), NEW i \in 0..Len(b)
    PROVE  SubSeq(b, 1, i) \in Beginning <=>
              \/ i = 0
              \/ i = 1 /\ b[1] \in {"X", "x"}
              \/ i = 2 /\ b[1] \in {"X", "x"} /\ b[2] = "-"
<1> DEFINE t == SubSeq(b, 1, i)
<1>1. t \in Seq(C) /\ Len(t) = i /\ \A k \in 1..i : t[k] = b[k]
  OBVIOUS
<1>2. t \in Beginning <=> t \in {<< >>, <<"X">>, <<"x">>, <<"X", "-">>, <<"x", "-">>}
  BY DEF Beginning
<1> HIDE DEF t
<1>3. /\ t = << >> => i = 0
      /\ \A x : t = <<x>> => i = 1
      /\ \A x, y : t = <<x, y>> => i = 2
  <2>1. \A x, y : Len(<< >>) = 0 /\ Len(<<x>>) = 1 /\ Len(<<x, y>>) = 2
    OBVIOUS
  <2>2. Len(t) = i
    BY <1>1
  <2>3. QED
    BY <2>1, <2>2, Zenon
<1>4. i = 0 => t = << >>
  BY <1>1
<1>5. i = 1 => \A x : t = <<x>> <=> b[1] = x
  BY <1>1
<1>6. i = 2 => \A x, y : t = <<x, y>> <=> b[1] = x /\ b[2] = y
  BY <1>1
<1>7. /\ i = 0 => i # 1 /\ i # 2
      /\ i = 1 => i # 0 /\ i # 2
      /\ i = 2 => i # 0 /\ i # 1
  OBVIOUS
<1>8. SubSeq(b, 1, i) = t
  BY DEF t
<1>9. CASE i = 0
  BY <1>2, <1>4, <1>8, <1>9, Zenon
<1>10. CASE i = 1
  BY <1>2, <1>3, <1>5, <1>7, <1>8, <1>10, Zenon
<1>11. CASE i = 2
  BY <1>2, <1>3, <1>6, <1>7, <1>8, <1>11, Zenon
<1>12. CASE i # 0 /\ i # 1 /\ i # 2
  BY <1>2, <1>3, <1>8, <1>12, Zenon
<1>13. QED
  BY <1>9, <1>10, <1>11, <1>12

\* What comes before the digits is a beginning unless there is a sign in it.
LEMMA BeforeTheDigits ==
    ASSUME NEW C, NEW b \in Seq(C), NEW i \in 0..(Len(b) - 1), b[i + 1] \in Digit
    PROVE  /\ SubSeq(b, 1, i) \in Beginning => DigitsAt(b) = i + 1 /\ ~MinusAt(b)
           /\ "+" \notin C /\ DigitsAt(b) = i + 1 /\ ~MinusAt(b) =>
                 SubSeq(b, 1, i) \in Beginning
<1>1. /\ i \in 0..Len(b) /\ Len(b) \in Nat /\ b # << >> /\ i < Len(b)
      /\ \A k \in 1..Len(b) : b[k] \in C
  OBVIOUS
<1>2. b[i + 1] # "X" /\ b[i + 1] # "x" /\ b[i + 1] # "+" /\ b[i + 1] # "-"
  BY DigitIsNoMark
<1>3. SubSeq(b, 1, i) \in Beginning <=>
              \/ i = 0
              \/ i = 1 /\ b[1] \in {"X", "x"}
              \/ i = 2 /\ b[1] \in {"X", "x"} /\ b[2] = "-"
  BY <1>1, Beginnings
<1>4. CASE b[1] \in {"X", "x"} /\ Len(b) >= 2 /\ b[2] = "-"
  <2>1. NumberAt(b) = 3
    BY <1>1, <1>4 DEF NumberAt
  <2>2. QED
    BY <1>1, <1>2, <1>3, <1>4, <2>1 DEF DigitsAt, MinusAt
<1>5. CASE b[1] \in {"X", "x"} /\ ~(Len(b) >= 2 /\ b[2] = "-")
  <2>1. NumberAt(b) = 2
    BY <1>1, <1>5 DEF NumberAt
  <2>2. QED
    BY <1>1, <1>2, <1>3, <1>5, <2>1 DEF DigitsAt, MinusAt
<1>6. CASE b[1] \notin {"X", "x"}
  <2>1. NumberAt(b) = 1
    BY <1>1, <1>6 DEF NumberAt
  <2>2. QED
    BY <1>1, <1>2, <1>3, <1>6, <2>1 DEF DigitsAt, MinusAt
<1>7. QED
  BY <1>4, <1>5, <1>6

\* Digits without leading zeros are the notation of what they come to.
LEMMA NotationIsUnique ==
    ASSUME NEW s \in Seq(Digit), s # << >>, s[1] # "0", ValueOf(s) <= MaxId
    PROVE  ValueOf(s) >= 1 /\ s = DigitsOf[ValueOf(s)]
<1> DEFINE Unique(t) == ValueOf(t) >= 1 /\ t = DigitsOf[ValueOf(t)]
           T == {n \in Nat : \A t \in Seq(Digit) :
                    Len(t) = n /\ t # << >> /\ t[1] # "0" /\ ValueOf(t) <= MaxId => Unique(t)}
<1>1. 0 \in T
  OBVIOUS
<1>2. ASSUME NEW n \in Nat, n \in T PROVE n + 1 \in T
  <2> SUFFICES ASSUME NEW t \in Seq(Digit), Len(t) = n + 1, t[1] # "0", ValueOf(t) <= MaxId
               PROVE  Unique(t)
    OBVIOUS
  <2> DEFINE f == SubSeq(t, 1, n)
             c == t[n + 1]
             v == ValueOf(t)
  <2>1. f \in Seq(Digit) /\ Len(f) = n /\ c \in Digit /\ t = Append(f, c) /\ \A i \in 1..n : f[i] = t[i]
    OBVIOUS
  <2>2. DigitValue[c] \in 0..9 /\ c = DigitChar[DigitValue[c] + 1]
    BY <2>1, Digits
  <2> HIDE DEF f, c
  <2>3. v = 10 * ValueOf(f) + DigitValue[c]
    BY <2>1, ValueOfAppend
  <2>4. ValueOf(f) \in Nat
    <3>1. Len(f) \in 0..Len(f)
      BY <2>1
    <3>2. QED
      BY <2>1, <3>1, ValuesAreNumbers DEF ValueOf
  <2> HIDE DEF v
  <2>5. v \in Nat /\ v <= MaxId /\ v \in 0..MaxId /\ ValueOf(f) <= v
    <3> DEFINE q == ValueOf(f)
               d == DigitValue[c]
    <3>1. q \in Nat /\ d \in 0..9 /\ v = 10 * q + d
      BY <2>2, <2>3, <2>4
    <3>2. v <= MaxId
      BY DEF v
    <3> HIDE DEF q, d
    <3>3. v \in Nat /\ v <= MaxId /\ v \in 0..MaxId /\ q <= v
      BY <3>1, <3>2, PersonIdAssumption
    <3>4. QED
      BY <3>3 DEF q
  <2>6. CASE n = 0
    <3>1. f = << >> /\ t[1] = c /\ t = <<c>>
      BY <2>1, <2>6 DEF c
    <3>2. ValueOf(f) = 0
      BY <2>1, <3>1, ValuesStep DEF ValueOf
    <3>3. DigitValue[c] \in 1..9
      BY <2>1, <3>1, Digits
    <3>4. v = DigitValue[c] /\ v < 10
      BY <2>3, <3>2, <3>3
    <3>5. DigitsOf[v] = <<c>>
      BY <2>2, <2>5, <3>4, DigitsOfStep
    <3>6. QED
      BY <3>1, <3>3, <3>4, <3>5 DEF v
  <2>7. CASE n # 0
    <3>1. f # << >> /\ f[1] # "0" /\ ValueOf(f) <= MaxId
      BY <2>1, <2>4, <2>5, <2>7, PersonIdAssumption
    <3>2. Unique(f)
      BY <1>2, <2>1, <3>1
    <3>3. ~(v < 10) /\ v >= 1 /\ v \div 10 = ValueOf(f) /\ v % 10 = DigitValue[c]
      <4> DEFINE q == ValueOf(f)
                 d == DigitValue[c]
      <4>1. q >= 1 /\ q \in Nat /\ d \in 0..9 /\ v = 10 * q + d
        BY <2>2, <2>3, <2>4, <3>2
      <4> HIDE DEF q, d
      <4>2. ~(v < 10) /\ v >= 1 /\ v \div 10 = q /\ v % 10 = d
        BY <4>1
      <4>3. QED
        BY <4>2 DEF q, d
    <3>4. DigitsOf[v] = Append(DigitsOf[v \div 10], DigitChar[(v % 10) + 1])
      BY <2>5, <3>3, DigitsOfStep
    <3>5. DigitsOf[v] = Append(f, c)
      BY <2>2, <3>2, <3>3, <3>4
    <3>6. QED
      BY <2>1, <3>3, <3>5 DEF v
  <2>8. QED
    BY <2>6, <2>7
<1> HIDE DEF T
<1>3. \A n \in Nat : n \in T
  BY <1>1, <1>2, Induction
<1>4. Len(s) \in T
  BY <1>3
<1>5. QED
  BY <1>4 DEF T

\* A text that can be read is read that way.
LEMMA ReadingIsParsed ==
    ASSUME NEW C, NEW s \in Seq(C), NEW b, b = TrimSpace(s),
           NEW i \in 0..Len(b), NEW j \in 0..Len(b), IsReading(b, <<i, j>>)
    PROVE  Parse(s) # NoId /\ Magnitude(From(b, j + 1)) = Parse(s)
<1> DEFINE t == From(b, j + 1)
           u == From(b, i + 1)
<1>1. b \in Seq(C) /\ Len(b) \in Nat
  BY TrimmedText
<1>2. /\ i <= j /\ SubSeq(b, 1, i) \in Beginning /\ \A k \in (i + 1)..j : b[k] = "0"
      /\ t \in Numeral
  BY DEF IsReading, From
<1>3. t = From(b, j + 1) /\ u = From(b, i + 1)
  OBVIOUS
<1> HIDE DEF t, u
<1>4. t \in Seq(C) /\ Len(t) = Len(b) - j /\ \A k \in 1..Len(t) : t[k] = b[j + k]
  BY <1>1, <1>3 DEF From
<1>5. u \in Seq(C) /\ Len(u) = Len(b) - i /\ \A k \in 1..Len(u) : u[k] = b[i + k]
  BY <1>1, <1>3 DEF From
<1>6. PICK n \in 1..MaxId : t = DigitsOf[n]
  BY <1>2 DEF Numeral
<1>7. t \in Seq(Digit) /\ t # << >> /\ ValueOf(t) = n
  <2>1. n \in 0..MaxId
    BY PersonIdAssumption
  <2>2. QED
    BY <1>6, <2>1, DigitsOfNumber
<1>8. Magnitude(t) = n
  <2>1. Unsigned(t) = t
    BY <1>7, ReadDigits
  <2>2. QED
    BY <1>7, <2>1 DEF Magnitude, ValueOf
<1>9. Len(t) >= 1 /\ t[1] \in Digit /\ \A k \in 1..Len(t) : t[k] \in Digit
  BY <1>7
<1>10. \A k \in 1..Len(u) : u[k] = IF k <= j - i THEN "0" ELSE t[k - (j - i)]
  <2>1. ASSUME NEW k \in 1..Len(u), k <= j - i PROVE u[k] = "0"
    <3>1. i + k \in (i + 1)..j
      BY <1>1, <1>5, <2>1
    <3>2. QED
      BY <1>2, <1>5, <3>1
  <2>2. ASSUME NEW k \in 1..Len(u), ~(k <= j - i) PROVE u[k] = t[k - (j - i)]
    <3>1. k - (j - i) \in 1..Len(t) /\ j + (k - (j - i)) = i + k
      BY <1>1, <1>2, <1>4, <1>5, <2>2
    <3>2. QED
      BY <1>4, <1>5, <3>1
  <2>3. QED
    BY <2>1, <2>2
<1>11. u \in Seq(Digit) /\ Len(u) >= 1
  <2>1. Len(u) = (j - i) + Len(t) /\ Len(u) \in Nat /\ Len(t) \in Nat
    BY <1>1, <1>4, <1>5
  <2>2. ASSUME NEW k \in 1..Len(u) PROVE u[k] \in Digit
    <3>1. CASE k <= j - i
      BY <1>10, <3>1, Digits
    <3>2. CASE ~(k <= j - i)
      <4>1. k - (j - i) \in 1..Len(t)
        BY <2>1, <3>2
      <4>2. QED
        BY <1>9, <1>10, <3>2, <4>1
    <3>3. QED
      BY <3>1, <3>2
  <2>3. Len(u) >= 1
    BY <1>1, <1>2, <1>9, <2>1
  <2>4. QED
    BY <1>5, <2>2, <2>3, SMTT(30)
<1>12. ValueOf(u) = n
  <2> DEFINE z == j - i
  <2>1. z \in Nat /\ Len(u) = z + Len(t)
    BY <1>1, <1>2, <1>4, <1>5
  <2> HIDE DEF z
  <2>2. \A k \in 1..z : k \in 1..Len(u) /\ u[k] = "0"
    BY <1>10, <2>1 DEF z
  <2>3. \A k \in 1..Len(t) : u[z + k] = t[k]
    <3>1. ASSUME NEW k \in 1..Len(t) PROVE z + k \in 1..Len(u) /\ ~(z + k <= z) /\ z + k - z = k
      BY <1>9, <2>1
    <3>2. QED
      BY <1>10, <3>1 DEF z
  <2>4. QED
    BY <1>7, <1>11, <2>1, <2>2, <2>3, ValueOfPadded
<1>13. DigitsAt(b) = i + 1 /\ ~MinusAt(b)
  <2>1. i \in 0..(Len(b) - 1) /\ b[i + 1] \in Digit
    BY <1>1, <1>5, <1>11
  <2>2. QED
    BY <1>1, <1>2, <2>1, BeforeTheDigits
<1>14. Parse(s) = n
  <2>1. u # << >> /\ u = From(b, DigitsAt(b))
    BY <1>11, <1>13 DEF u
  <2>2. QED
    BY <1>11, <1>12, <1>13, <2>1, ParseReads
<1>15. QED
  BY <1>8, <1>14 DEF t, NoId

\* A text without a plus that is parsed can be read.
LEMMA ParsedIsReading ==
    ASSUME NEW C, "+" \notin C, NEW s \in Seq(C), NEW b, b = TrimSpace(s), Parse(s) # NoId
    PROVE  \E i, j \in 0..Len(b) : IsReading(b, <<i, j>>)
<1> DEFINE i == DigitsAt(b) - 1
           u == From(b, DigitsAt(b))
           v == ValueOf(u)
<1>1. b \in Seq(C) /\ Len(b) \in Nat
  BY TrimmedText
<1>2. u \in Seq(Digit) /\ u # << >> /\ ~MinusAt(b) /\ v \in 1..MaxId
  BY ParseReads
<1>3. DigitsAt(b) \in 1..(Len(b) + 1)
  BY <1>1, Positions
<1>4. Len(u) = Len(b) - i /\ (\A k \in 1..Len(u) : u[k] = b[i + k]) /\ i \in 0..Len(b)
  <2>1. /\ Len(u) = Len(b) - DigitsAt(b) + 1
        /\ \A k \in 1..Len(u) : u[k] = b[DigitsAt(b) + k - 1]
    BY <1>1, <1>3, FromParts
  <2> HIDE DEF u
  <2>2. QED
    BY <1>1, <1>3, <2>1
<1>5. DigitsAt(b) = i + 1
  BY <1>3
<1> HIDE DEF i, u, v
<1>6. Len(u) >= 1 /\ Len(u) \in Nat /\ \A k \in 1..Len(u) : u[k] \in Digit
  BY <1>2
<1>7. SubSeq(b, 1, i) \in Beginning
  <2>1. i \in 0..(Len(b) - 1) /\ b[i + 1] \in Digit
    BY <1>1, <1>4, <1>6
  <2>2. QED
    BY <1>1, <1>2, <1>5, <2>1, BeforeTheDigits
<1> DEFINE K == {k \in 1..Len(u) : u[k] # "0"}
<1>8. K # {}
  <2> SUFFICES ASSUME \A k \in 1..Len(u) : u[k] = "0"
               PROVE  FALSE
    OBVIOUS
  <2>1. Len(u) \in 0..Len(u)
    BY <1>6
  <2>2. Values(u)[Len(u)] = 0
    BY <1>2, <2>1, ValuesOfZeros
  <2>3. QED
    BY <1>2, <2>2 DEF v, ValueOf
<1>9. PICK k \in K : \A m \in K : k <= m
  <2>1. K \in SUBSET Nat
    OBVIOUS
  <2> HIDE DEF K
  <2>2. QED
    BY <1>8, <2>1, LeastNat
<1> DEFINE z == k - 1
           j == i + z
           t == SubSeq(b, j + 1, Len(b))
<1>10. z \in Nat /\ z < Len(u) /\ j \in 0..(Len(b) - 1) /\ i <= j
  BY <1>1, <1>4, <1>6
<1>11. \A m \in 1..z : m \in 1..Len(u) /\ u[m] = "0"
  BY <1>6, <1>9
<1>12. t \in Seq(C) /\ Len(t) = Len(u) - z /\ \A m \in 1..Len(t) : t[m] = b[j + m]
  BY <1>1, <1>4, <1>10
<1>13. u[z + 1] # "0"
  BY <1>6, <1>9
<1> HIDE DEF K, z, t, j
<1>14. \A m \in 1..Len(t) : z + m \in 1..Len(u) /\ u[z + m] = t[m]
  <2>1. ASSUME NEW m \in 1..Len(t) PROVE z + m \in 1..Len(u) /\ i + (z + m) = j + m
    BY <1>4, <1>6, <1>10, <1>12 DEF j
  <2>2. QED
    BY <1>4, <1>12, <2>1
<1>15. t \in Seq(Digit) /\ Len(t) >= 1 /\ t # << >> /\ t[1] # "0"
  <2>1. \A m \in 1..Len(t) : t[m] \in Digit
    BY <1>6, <1>14
  <2>2. Len(t) >= 1 /\ 1 \in 1..Len(t)
    BY <1>6, <1>10, <1>12
  <2>3. QED
    BY <1>12, <1>13, <1>14, <2>1, <2>2
<1>16. ValueOf(t) = v
  <2>1. Len(u) = z + Len(t)
    BY <1>6, <1>10, <1>12
  <2>2. ValueOf(u) = ValueOf(t)
    BY <1>2, <1>10, <1>11, <1>14, <1>15, <2>1, ValueOfPadded
  <2>3. QED
    BY <2>2 DEF v
<1>17. t \in Numeral
  <2>1. v <= MaxId
    BY <1>2, PersonIdAssumption
  <2>2. t = DigitsOf[v]
    BY <1>15, <1>16, <2>1, NotationIsUnique
  <2>3. QED
    BY <1>2, <2>2 DEF Numeral
<1>18. \A m \in (i + 1)..j : b[m] = "0"
  <2>1. ASSUME NEW m \in (i + 1)..j PROVE m - i \in 1..z /\ i + (m - i) = m
    BY <1>4, <1>10 DEF j
  <2>2. QED
    BY <1>4, <1>11, <2>1
<1>19. IsReading(b, <<i, j>>)
  BY <1>7, <1>10, <1>17, <1>18 DEF IsReading, t
<1>20. i \in 0..Len(b) /\ j \in 0..Len(b)
  BY <1>1, <1>4, <1>10
<1>21. QED
  BY <1>19, <1>20

\* Both together, and the handle of what was read: for every text.
LEMMA TextReadAsDocumented ==
    ASSUME NEW C, NEW s \in Seq(C)
    PROVE  ReadsAsDocumented(s)
<1> DEFINE b == TrimSpace(s)
           D == {d \in (0..Len(b)) \X (0..Len(b)) : IsReading(b, d)}
<1>1. Meanings(s) = {Magnitude(From(b, d[2] + 1)) : d \in D}
  BY DEF Meanings, From
<1>2. ASSUME NEW d \in D PROVE Parse(s) # NoId /\ Magnitude(From(b, d[2] + 1)) = Parse(s)
  <2>1. PICK i, j \in 0..Len(b) : d = <<i, j>>
    OBVIOUS
  <2>2. IsReading(b, <<i, j>>) /\ d[2] = j
    BY <2>1
  <2> HIDE DEF b
  <2>3. b = TrimSpace(s)
    BY DEF b
  <2>4. QED
    BY <2>2, <2>3, ReadingIsParsed
<1>3. (\A i \in DOMAIN s : s[i] # "+") /\ Parse(s) # NoId => D # {}
  <2> SUFFICES ASSUME \A i \in DOMAIN s : s[i] # "+", Parse(s) # NoId
               PROVE  \E i, j \in 0..Len(b) : IsReading(b, <<i, j>>)
    OBVIOUS
  <2>1. s \in Seq(C \ {"+"}) /\ "+" \notin C \ {"+"}
    OBVIOUS
  <2>2. QED
    BY <2>1, ParsedIsReading
<1> HIDE DEF D
<1>4. Meanings(s) \subseteq {Parse(s)} \ {NoId}
  BY <1>1, <1>2
<1>5. (\A i \in DOMAIN s : s[i] # "+") => Meanings(s) = {Parse(s)} \ {NoId}
  BY <1>1, <1>2, <1>3
<1>6. Parse(s) # NoId => Parse(s) \in 1..MaxId
  BY IdsAreNumbers
<1>7. \A n \in 1..MaxId : Parse(Format(n)) = n
  BY HandleReadBack
<1>8. QED
  BY <1>4, <1>5, <1>6, <1>7 DEF ReadsAsDocumented

\* Of all texts, whatever the characters and the length, id.Parse reads those its comment
\* speaks of as the number they say; where there is no plus it accepts no other; and the
\* handle of an id leads back to it.
THEOREM ParseAsDocumented == TextsSpec => []DocumentedTextsAreRead
<1>1. TextsInit => text \in Seq(Alphabet)
  BY DEF TextsInit
<1>2. text \in Seq(Alphabet) /\ [TextsNext]_text => (text \in Seq(Alphabet))'
  BY DEF TextsNext, Type
<1>3. text \in Seq(Alphabet) => DocumentedTextsAreRead
  BY TextReadAsDocumented DEF DocumentedTextsAreRead
<1>4. QED
  BY <1>1, <1>2, <1>3, PTL DEF TextsSpec

-------------------------------------------------------------------------------
(* Where a redirect leads. *)

\* The ids issued so far are int64, like those SQLite issues: it refuses to insert a row
\* after the largest.
IdsInRange == db.seq.persons <= MaxId /\ db.seq.systems <= MaxId

\* A write leaves its steward one: nobody takes the role from themselves.
LEMMA WriterRemains ==
    ASSUME TypeOK, ForeignKeysHold(db), NEW a \in Actor, IsActiveSteward(db, a.oid), Write(a)
    PROVE  IsActiveSteward(db', a.oid)
<1>1. ASSUME NEW id \in DOMAIN db.stewards, DemoteSteward(a, id)
      PROVE  IsActiveSteward(db', a.oid)
  <2>1. PICK i \in ActiveStewards(db) : db.stewards[i].user_oid = a.oid
    BY DEF IsActiveSteward
  <2>2. i # id
    BY <1>1, <2>1, DemoteStewardEffect
  <2>3. i \in ActiveStewards(db)' /\ db'.stewards[i].user_oid = a.oid
    BY <1>1, <2>1, <2>2, DemotionActive DEF ActiveStewards
  <2>4. QED
    BY <2>3 DEF IsActiveSteward, ActiveStewards
<1>2. db'.stewards = db.stewards => IsActiveSteward(db', a.oid)
  BY DEF IsActiveSteward, ActiveStewards
<1>3. (\E tables : KeepsTables(tables) /\ "stewards" \in tables) => db'.stewards = db.stewards
  BY DEF KeepsTables
<1>4. ASSUME \/ \E name \in Name : CreatePerson(a, name)
             \/ \E id \in DOMAIN db.persons, name \in Name : RenamePerson(a, id, name)
             \/ \E name \in Name : CreateSystem(a, name)
             \/ \E id \in DOMAIN db.systems, name \in Name : RenameSystem(a, id, name)
             \/ \E id \in DOMAIN db.systems : DisableSystem(a, id)
             \/ \E id \in DOMAIN db.systems : EnableSystem(a, id)
             \/ \E person \in DOMAIN db.persons, system \in DOMAIN db.systems,
                  foreign \in ForeignId : CreateAssociation(a, person, system, foreign)
             \/ \E person \in DOMAIN db.persons, id \in DOMAIN db.associations :
                  RemoveAssociation(a, person, id)
             \/ \E upn \in UPN : PromoteSteward(a, upn)
             \/ \E id \in DOMAIN db.pending : CancelStewardInvite(a, id)
      PROVE  \E tables : KeepsTables(tables) /\ "stewards" \in tables
  <2> DEFINE Kept == \E tables : KeepsTables(tables) /\ "stewards" \in tables
  <2>0. ASSUME NEW x, NEW y, NEW z, NEW w, KeepsTables({x, y, z, w, "stewards"})
        PROVE  Kept
    BY <2>0
  <2>00. ASSUME NEW x, NEW y, NEW z, NEW w, KeepsTables({x, y, z, "stewards", w})
         PROVE  Kept
    BY <2>00
  <2> HIDE DEF Kept
  <2>1. ASSUME NEW name \in Name, CreatePerson(a, name) PROVE Kept
    BY <2>1, <2>00, CreatePersonEffect
  <2>2. ASSUME NEW id \in DOMAIN db.persons, NEW name \in Name, RenamePerson(a, id, name) PROVE Kept
    BY <2>2, <2>00, RenamePersonEffect
  <2>3. ASSUME NEW name \in Name, CreateSystem(a, name) PROVE Kept
    BY <2>3, <2>00, CreateSystemEffect
  <2>4. ASSUME NEW id \in DOMAIN db.systems, NEW name \in Name, RenameSystem(a, id, name) PROVE Kept
    BY <2>4, <2>00, RenameSystemEffect
  <2>5. ASSUME NEW id \in DOMAIN db.systems, DisableSystem(a, id) PROVE Kept
    BY <2>5, <2>00, DisableSystemEffect
  <2>6. ASSUME NEW id \in DOMAIN db.systems, EnableSystem(a, id) PROVE Kept
    BY <2>6, <2>00, EnableSystemEffect
  <2>7. ASSUME NEW person \in DOMAIN db.persons, NEW system \in DOMAIN db.systems,
               NEW foreign \in ForeignId, CreateAssociation(a, person, system, foreign)
        PROVE  Kept
    BY <2>7, <2>00, CreateAssociationEffect
  <2>8. ASSUME NEW person \in DOMAIN db.persons, NEW id \in DOMAIN db.associations,
               RemoveAssociation(a, person, id)
        PROVE  Kept
    BY <2>8, <2>00, RemoveAssociationEffect
  <2>9. ASSUME NEW upn \in UPN, PromoteSteward(a, upn) PROVE Kept
    BY <2>9, <2>0, PromoteStewardEffect
  <2>10. ASSUME NEW id \in DOMAIN db.pending, CancelStewardInvite(a, id) PROVE Kept
    BY <2>10, <2>0, CancelStewardInviteEffect
  <2>11. QED
    BY <1>4, <2>1, <2>2, <2>3, <2>4, <2>5, <2>6, <2>7, <2>8, <2>9, <2>10 DEF Kept
<1>5. QED
  BY <1>1, <1>2, <1>3, <1>4, WriteCases

\* A steward who asks for a person by the handle gets the page.
LEMMA FollowToPerson ==
    ASSUME NEW d, NEW policy, NEW a, IsSteward(d, a), NEW n \in 1..MaxId, n \in DOMAIN d.persons
    PROVE  Follow(d, policy, a, [path |-> "/persons/<id>", id |-> Format(n)]).status = 200
<1> DEFINE page == Route("GET", "/persons/<id>", "persons", "PersonDetail")
           location == [path |-> "/persons/<id>", id |-> Format(n)]
<1>1. page \in WebReads /\ \A route \in WebReads : route.path = "/persons/<id>" => route = page
  BY DEF WebReads, Route
<1>2. page.path = "/persons/<id>" /\ page.gate = "persons" /\ page.handler = "PersonDetail"
  BY DEF Route
<1>3. location.path = "/persons/<id>" /\ location.id = Format(n)
  OBVIOUS
<1> HIDE DEF page, location
<1>4. (CHOOSE route \in WebReads : route.path = location.path) = page
  BY <1>1, <1>2, <1>3
<1>5. Follow(d, policy, a, location) = WebRead(d, policy, a, page, Format(n))
  BY <1>1, <1>2, <1>3, <1>4 DEF Follow
<1>6. WebGate(d, policy, a, "persons") = 0
  BY DEF WebGate, IsSteward, Admitted
<1>7. ReadStatus(d, "PersonDetail", Format(n), 404) = 200
  <2>1. Parse(Format(n)) = n /\ n # NoId
    BY HandleReadBack DEF NoId
  <2>2. QED
    BY <2>1 DEF ReadStatus
<1>8. WebRead(d, policy, a, page, Format(n)) = Answer(200, Nowhere)
  BY <1>2, <1>6, <1>7 DEF WebRead
<1>9. QED
  BY <1>5, <1>8 DEF Answer, location

\* So does who asks for a system by its number,
LEMMA FollowToSystem ==
    ASSUME NEW d, NEW policy, NEW a, IsSteward(d, a), NEW n \in 1..MaxId, n \in DOMAIN d.systems
    PROVE  Follow(d, policy, a, [path |-> "/systems/<id>", id |-> DigitsOf[n]]).status = 200
<1> DEFINE page == Route("GET", "/systems/<id>", "systems", "SystemDetail")
           location == [path |-> "/systems/<id>", id |-> DigitsOf[n]]
<1>1. page \in WebReads /\ \A route \in WebReads : route.path = "/systems/<id>" => route = page
  BY DEF WebReads, Route
<1>2. page.path = "/systems/<id>" /\ page.gate = "systems" /\ page.handler = "SystemDetail"
  BY DEF Route
<1>3. location.path = "/systems/<id>" /\ location.id = DigitsOf[n]
  OBVIOUS
<1> HIDE DEF page, location
<1>4. (CHOOSE route \in WebReads : route.path = location.path) = page
  BY <1>1, <1>2, <1>3
<1>5. Follow(d, policy, a, location) = WebRead(d, policy, a, page, DigitsOf[n])
  BY <1>1, <1>2, <1>3, <1>4 DEF Follow
<1>6. WebGate(d, policy, a, "systems") = 0
  BY DEF WebGate, IsSteward, Admitted
<1>7. ReadStatus(d, "SystemDetail", DigitsOf[n], 404) = 200
  <2>1. ParseNumber(DigitsOf[n]) = n /\ n # NoId
    BY NumberReadBack DEF NoId
  <2>2. QED
    BY <2>1 DEF ReadStatus
<1>8. WebRead(d, policy, a, page, DigitsOf[n]) = Answer(200, Nowhere)
  BY <1>2, <1>6, <1>7 DEF WebRead
<1>9. QED
  BY <1>5, <1>8 DEF Answer, location

\* and for the list of stewards.
LEMMA FollowToStewards ==
    ASSUME NEW d, NEW policy, NEW a, IsSteward(d, a)
    PROVE  Follow(d, policy, a, [path |-> "/stewards", id |-> NoText]).status = 200
<1>1. "stewards" \in Surface /\ PathOf["stewards"] = "/stewards"
  BY DEF Surface, PathOf
<1>2. a # Anonymous /\ CanRead(d, policy, a, "stewards")
  BY DEF CanRead, IsSteward
<1>3. QED
  BY <1>1, <1>2, FollowToSurface

\* After a form was accepted, the page it sends its steward to is there.
LEMMA RedirectIsThere ==
    ASSUME TypeOK, ForeignKeysHold(db), (TypeOK /\ ForeignKeysHold(db) /\ IdsInRange)',
           NEW policy, NEW a \in Actor, Bound, IsActiveSteward(db, a.oid),
           NEW h \in WriteHandlers, NEW r \in RequestTo(h),
           Handle(a, h, r, WebWrite(db, a, h, r)), WebWrite(db, a, h, r).status = 303
    PROVE  Follow(db', policy, a, WebWrite(db, a, h, r).location).status = 200
<1> DEFINE outcome == Outcome(db, a, Call(h, r))
           answer == WebWrite(db, a, h, r)
<1>1. \A s, l : Answer(s, l).status = s /\ Answer(s, l).location = l
  BY DEF Answer
<1>2. /\ ~BadPath(h, r) /\ ~BadBody(h, r) /\ ~NoSystem(h, r) /\ outcome \in {Written, Unchanged}
      /\ db' = After(db, a, Call(h, r)) /\ answer.location = Location(db', h, r)
  <2>1. WebError(h, outcome) # 303
    BY DEF WebError
  <2>2. ~BadPath(h, r) /\ ~BadBody(h, r) /\ ~NoSystem(h, r)
    BY <1>1 DEF WebWrite
  <2>3. outcome \in {Written, Unchanged}
    BY <1>1, <2>1, <2>2 DEF WebWrite
  <2>4. db' = After(db, a, Call(h, r))
    BY <2>2 DEF Handle
  <2>5. answer = Answer(303, Location(After(db, a, Call(h, r)), h, r))
    BY <2>2, <2>3 DEF WebWrite
  <2>6. QED
    BY <1>1, <2>2, <2>3, <2>4, <2>5
<1>3. InHand(h, r)
  BY <1>2, RequestTypes
<1>4. outcome = Written => Performs(a, h, r)
  BY <1>2, WrittenPerforms DEF After
<1>5. outcome = Unchanged => db' = db
  BY <1>2 DEF After, Written, Unchanged
<1>6. IsSteward(db', a)
  <2>1. a # Anonymous
    BY ActorAssumption, TextAssumption DEF Anonymous
  <2>2. CASE outcome = Written
    <3>1. Write(a)
      BY <1>3, <1>4, <2>2, PerformsWrites
    <3>2. QED
      BY <2>1, <3>1, WriterRemains DEF IsSteward
  <2>3. CASE outcome = Unchanged
    BY <1>5, <2>1, <2>3 DEF IsSteward
  <2>4. QED
    BY <1>2, <2>2, <2>3
<1>7. Accomplished(db', h, r)
  <2>1. Told(answer.status, [f |-> h, r |-> r], a)
    BY HandledTruly
  <2>2. [f |-> h, r |-> r].f = h /\ [f |-> h, r |-> r].r = r /\ "r" \in DOMAIN [f |-> h, r |-> r]
    OBVIOUS
  <2>3. QED
    BY <2>1, <2>2 DEF Told
<1>8. h \in PersonPath \cup NamedOp \cup EntityOp => PathId(h, r) \in 1..MaxId
  <2> SUFFICES ASSUME h \in PersonPath \cup NamedOp \cup EntityOp
               PROVE  PathId(h, r) \in 1..MaxId
    OBVIOUS
  <2>1. r.id \in Seq(STRING)
    BY RequestsAssumption DEF RequestTo
  <2>2. PathId(h, r) # NoId
    BY <1>2 DEF BadPath
  <2>3. PathId(h, r) \in {NoId} \cup 1..MaxId
    BY <2>1, IdsAreNumbers DEF PathId
  <2>4. QED
    BY <2>2, <2>3
<1>9. ASSUME NEW n \in 1..MaxId, n \in DOMAIN db'.persons,
             Location(db', h, r) = [path |-> "/persons/<id>", id |-> Format(n)]
      PROVE  Follow(db', policy, a, answer.location).status = 200
  BY <1>2, <1>6, <1>9, FollowToPerson
<1>10. ASSUME NEW n \in 1..MaxId, n \in DOMAIN db'.systems,
              Location(db', h, r) = [path |-> "/systems/<id>", id |-> DigitsOf[n]]
       PROVE  Follow(db', policy, a, answer.location).status = 200
  BY <1>2, <1>6, <1>10, FollowToSystem
<1>11. CASE h = "CreatePerson"
  <2> DEFINE n == db'.seq.persons
  <2>1. n \in DOMAIN db'.persons
    BY <1>7, <1>11 DEF Accomplished, Row
  <2>2. n \in 1..MaxId
    BY <2>1, PersonIdAssumption DEF TypeOK, IsDatabase, IsTable, IdsInRange
  <2>3. Location(db', h, r) = [path |-> "/persons/<id>", id |-> Format(n)]
    BY <1>11 DEF Location, PersonPath
  <2>4. QED
    BY <1>9, <2>1, <2>2, <2>3
<1>12. CASE h \in PersonPath
  <2> DEFINE n == PathId(h, r)
  <2>1. n \in 1..MaxId /\ n = Parse(r.id)
    BY <1>8, <1>12 DEF PathId
  <2>2. n \in DOMAIN db'.persons
    <3>1. CASE h = "RenamePerson"
      BY <1>7, <2>1, <3>1 DEF Accomplished, Row
    <3>2. CASE h = "CreateAssociation"
      <4>1. /\ db'.seq.associations \in DOMAIN db'.associations
            /\ db'.associations[db'.seq.associations].person_id = Parse(r.id)
        BY <1>7, <3>2 DEF Accomplished, Row
      <4>2. QED
        BY <2>1, <4>1 DEF ForeignKeysHold
    <3>3. CASE h = "RemoveAssociation"
      <4>1. outcome = Written
        <5>1. outcome # Unchanged
          BY <3>3, Outcomes DEF RemoveAssociationOutcome, Written, Unchanged
        <5>2. QED
          BY <1>2, <5>1
      <4>2. /\ ParseNumber(r.aid) \in DOMAIN db.associations
            /\ RemoveAssociation(a, n, ParseNumber(r.aid))
            /\ db.associations[ParseNumber(r.aid)].person_id = n
        BY <1>4, <2>1, <3>3, <4>1 DEF Performs
      <4>3. n \in DOMAIN db.persons
        BY <4>2 DEF ForeignKeysHold
      <4>4. db'.persons = db.persons
        BY <4>2, <4>3, RemoveAssociationEffect DEF KeepsTables
      <4>5. QED
        BY <4>3, <4>4
    <3>4. QED
      BY <1>12, <3>1, <3>2, <3>3 DEF PersonPath
  <2>3. Location(db', h, r) = [path |-> "/persons/<id>", id |-> Format(n)]
    BY <1>12 DEF Location, PersonPath
  <2>4. QED
    BY <1>9, <2>1, <2>2, <2>3
<1>13. CASE h = "CreateSystem"
  <2> DEFINE n == db'.seq.systems
  <2>1. n \in DOMAIN db'.systems
    BY <1>7, <1>13 DEF Accomplished, Row
  <2>2. n \in 1..MaxId
    BY <2>1, PersonIdAssumption DEF TypeOK, IsDatabase, IsTable, IdsInRange
  <2>3. Location(db', h, r) = [path |-> "/systems/<id>", id |-> DigitsOf[n]]
    BY <1>13 DEF Location, PersonPath
  <2>4. QED
    BY <1>10, <2>1, <2>2, <2>3
<1>14. CASE h \in {"RenameSystem", "DisableSystem", "EnableSystem"}
  <2> DEFINE n == PathId(h, r)
  <2>1. n \in 1..MaxId /\ n = ParseNumber(r.id)
    BY <1>8, <1>14 DEF PathId, PersonPath, NamedOp, EntityOp
  <2>2. n \in DOMAIN db'.systems
    BY <1>7, <1>14, <2>1 DEF Accomplished, Row
  <2>3. Location(db', h, r) = [path |-> "/systems/<id>", id |-> DigitsOf[n]]
    BY <1>14 DEF Location, PersonPath
  <2>4. QED
    BY <1>10, <2>1, <2>2, <2>3
<1>15. CASE h \in {"PromoteSteward", "DemoteSteward", "CancelStewardInvite"}
  <2>1. Location(db', h, r) = [path |-> "/stewards", id |-> NoText]
    BY <1>15 DEF Location, PersonPath
  <2>2. QED
    BY <1>2, <1>6, <2>1, FollowToStewards
<1>16. QED
  BY <1>11, <1>12, <1>13, <1>14, <1>15 DEF WriteHandlers, PersonPath

\* No other request is answered with such a redirect.
LEMMA OnlyFormsRedirect ==
    ASSUME NEW u \in User, NEW me, me = Authenticate(db, u)
    PROVE  /\ ReadAs(me) => reply'.answer.status # 303
           /\ \A route \in ApiWrites : \A r \in RequestTo(route.handler) :
                 PostApi(me, route, r) => reply'.answer.status # 303
<1>1. \A s, l : Answer(s, l).status = s
  BY DEF Answer
<1>2. ASSUME NEW v, NEW asked, NEW answer, Reply(v, asked, answer)
      PROVE  reply'.answer = answer
  BY <1>2 DEF Reply
<1>3. ASSUME NEW route \in ApiReads \cup WebReads, NEW id, NEW bad \in {400, 404}
      PROVE  route.handler # "Landing" => ReadStatus(db, route.handler, id, bad) # 303
  <2>1. route.handler \in {"List", "PersonDetail", "SystemDetail", "Landing"}
    BY DEF ApiReads, WebReads, Route
  <2>2. QED
    BY <2>1 DEF ReadStatus
<1>4. \A policy, gate : ApiGate(db, policy, me, gate) \in {0, 401, 403}
  BY DEF ApiGate, Admitted
<1>5. ASSUME NEW route \in ApiReads, NEW id, GetApi(me, route, id)
      PROVE  reply'.answer.status # 303
  <2>1. reply'.answer = ApiRead(db, access, me, route, id)
    BY <1>2, <1>5 DEF GetApi
  <2>2. route.handler # "Landing"
    BY DEF ApiReads, Route
  <2>3. QED
    BY <1>1, <1>3, <1>4, <2>1, <2>2 DEF ApiRead
<1>6. ASSUME NEW route \in WebReads, NEW id, GetPage(me, route, id)
      PROVE  reply'.answer.status # 303
  <2>1. reply'.answer = WebRead(db, access, me, route, id)
    BY <1>2, <1>6 DEF GetPage
  <2>2. QED
    BY <1>1, <1>3, <2>1 DEF WebRead
<1>7. ASSUME NEW route \in ApiWrites, NEW r \in RequestTo(route.handler), PostApi(me, route, r)
      PROVE  reply'.answer.status # 303
  <2> DEFINE h == route.handler
             gate == ApiGate(db, access, me, route.gate)
  <2>1. h \in WriteHandlers
    BY WriteRoutes
  <2>2. ApiDone(h) # 303 /\ \A outcome : HttpError(outcome) # 303
    BY <2>1 DEF ApiDone, HttpError, WriteHandlers
  <2>3. ApiWrite(db, me, h, r).status # 303
    <3> HIDE DEF h
    <3>1. QED
      BY <1>1, <2>2 DEF ApiWrite
  <2>4. CASE gate # Admitted
    <3>1. reply'.answer = Answer(gate, Nowhere)
      BY <1>2, <1>7, <2>4 DEF PostApi, Refuse
    <3>2. QED
      BY <1>1, <1>4, <3>1
  <2>5. CASE gate = Admitted
    <3>1. reply'.answer = ApiWrite(db, me, h, r)
      BY <1>2, <1>7, <2>5 DEF PostApi, Handle
    <3>2. QED
      BY <2>3, <3>1
  <2>6. QED
    BY <2>4, <2>5
<1>8. QED
  BY <1>5, <1>6, <1>7 DEF ReadAs

\* So every redirect after a write leads its steward to a page that is there and open to
\* them (the handlers of package web), as long as the ids issued are int64.
THEOREM EveryRedirectLands == RequestsSpec => [](IdsInRange => RedirectsLand)
<1>1. RequestsInit => RedirectsLand
  BY DEF RequestsInit, RedirectsLand, NoReply, Answer
<1>2. ASSUME IInv, IInv', RequestsNext, IdsInRange', reply'.answer.status = 303
      PROVE  Follow(db', access', reply'.user, reply'.answer.location).status = 200
  <2>1. TypeOK /\ ForeignKeysHold(db) /\ (TypeOK /\ ForeignKeysHold(db) /\ IdsInRange)'
    BY <1>2 DEF IInv
  <2>2. PICK u \in User, route \in WebWrites : \E r \in RequestTo(route.handler) :
           PostForm(Authenticate(db, u), route, r)
    <3>1. ASSUME NEW a \in Actor, SignInAndReturn(a) PROVE FALSE
      BY <1>2, <3>1 DEF SignInAndReturn, Reply, Answer
    <3>2. QED
      BY <1>2, <3>1, OnlyFormsRedirect DEF RequestsNext, WriteAs
  <2> DEFINE me == Authenticate(db, u)
             h == route.handler
  <2>3. PICK r \in RequestTo(h) : PostForm(me, route, r)
    BY <2>2
  <2>4. route.gate = "steward" /\ h \in WriteHandlers
    BY WriteRoutes
  <2>5. WebGate(db, access, me, "steward") \notin {302, 403}
    <3>1. ASSUME NEW answer, Refuse(me, answer), answer.status \in {302, 403} PROVE FALSE
      BY <1>2, <3>1 DEF Refuse, Reply
    <3>2. \A s, l : Answer(s, l).status = s
      BY DEF Answer
    <3>3. QED
      BY <2>3, <2>4, <3>1, <3>2 DEF PostForm
  <2>6. Bound /\ me \in Actor /\ IsActiveSteward(db, me.oid)
    BY <2>5, PastTheGate
  <2> DEFINE answer == WebWrite(db, me, h, r)
  <2>7. Handle(me, h, r, answer) /\ access' = access
    BY <2>3, <2>4, <2>5 DEF PostForm
  <2>8. reply'.answer = answer /\ reply'.user = me
    BY <2>7 DEF Handle, Reply
  <2>9. answer.status = 303
    BY <1>2, <2>8
  <2> HIDE DEF me, h
  <2>10. Follow(db', access', me, answer.location).status = 200
    BY <2>1, <2>3, <2>4, <2>6, <2>7, <2>9, RedirectIsThere, SMTT(30)
  <2>11. QED
    BY <2>8, <2>10
<1>3. IInv /\ IInv' /\ (IdsInRange => RedirectsLand) /\ [RequestsNext]_requestVars
         => (IdsInRange => RedirectsLand)'
  <2>1. IInv /\ IInv' /\ RequestsNext => (IdsInRange => RedirectsLand)'
    BY <1>2 DEF RedirectsLand
  <2>2. (IdsInRange => RedirectsLand) /\ UNCHANGED requestVars => (IdsInRange => RedirectsLand)'
    BY DEF requestVars, IdsInRange, RedirectsLand
  <2>3. QED
    BY <2>1, <2>2
<1>4. QED
  BY <1>1, <1>3, RequestsInvariant, PTL DEF RequestsSpec

===============================================================================
