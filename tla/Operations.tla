------------------------------ MODULE Operations ------------------------------
(***************************************************************************)
(* The calls of core as data: what a request asks core to do, and, by the  *)
(* operation, the outcome and the transaction of module Core.              *)
(***************************************************************************)
EXTENDS Core

\* What a handler passes to core.
NamedOp == {"RenamePerson", "RenameSystem"}
EntityOp == {"DisableSystem", "EnableSystem", "DemoteSteward", "CancelStewardInvite"}

Operation ==
         [f : {"CreatePerson", "CreateSystem"}, name : Name]
    \cup [f : NamedOp, id : RowId, name : Name]
    \cup [f : EntityOp, id : RowId]
    \cup [f : {"CreateAssociation"}, person : RowId, system : RowId, foreign : ForeignId]
    \cup [f : {"RemoveAssociation"}, person : RowId, id : RowId]
    \cup [f : {"PromoteSteward"}, upn : UPN]

SignInOp ==
    [f : {"Bootstrap"}, tid : TID] \cup [f : {"ClaimPendingSteward"}]

\* The two functions whose first statement is an INSERT.
InsertsFirst(op) == op.f \in {"CreatePerson", "CreateSystem"}

Outcome(d, a, op) ==
    CASE op.f = "CreatePerson" -> Written
      [] op.f = "RenamePerson" -> RenamePersonOutcome(d, op.id, op.name)
      [] op.f = "CreateSystem" -> CreateSystemOutcome(op.name)
      [] op.f = "RenameSystem" -> RenameSystemOutcome(d, op.id, op.name)
      [] op.f = "DisableSystem" -> DisableSystemOutcome(d, op.id)
      [] op.f = "EnableSystem" -> EnableSystemOutcome(d, op.id)
      [] op.f = "CreateAssociation" -> CreateAssociationOutcome(d, op.person, op.system)
      [] op.f = "RemoveAssociation" -> RemoveAssociationOutcome(d, op.person, op.id)
      [] op.f = "PromoteSteward" -> PromoteStewardOutcome(d, op.upn)
      [] op.f = "DemoteSteward" -> DemoteStewardOutcome(d, a, op.id)
      [] op.f = "CancelStewardInvite" -> CancelStewardInviteOutcome(d, op.id)
      [] op.f = "Bootstrap" -> BootstrapOutcome(d, a, op.tid)
      [] op.f = "ClaimPendingSteward" -> ClaimPendingStewardOutcome(d, a)

Tx(d, a, op) ==
    CASE op.f = "CreatePerson" -> CreatePersonTx(d, a, op.name)
      [] op.f = "RenamePerson" -> RenamePersonTx(d, a, op.id, op.name)
      [] op.f = "CreateSystem" -> CreateSystemTx(d, a, op.name)
      [] op.f = "RenameSystem" -> RenameSystemTx(d, a, op.id, op.name)
      [] op.f = "DisableSystem" -> DisableSystemTx(d, a, op.id)
      [] op.f = "EnableSystem" -> EnableSystemTx(d, a, op.id)
      [] op.f = "CreateAssociation" -> CreateAssociationTx(d, a, op.person, op.system, op.foreign)
      [] op.f = "RemoveAssociation" -> RemoveAssociationTx(d, a, op.person, op.id)
      [] op.f = "PromoteSteward" -> PromoteStewardTx(d, a, op.upn)
      [] op.f = "DemoteSteward" -> DemoteStewardTx(d, a, op.id)
      [] op.f = "CancelStewardInvite" -> CancelStewardInviteTx(d, a, op.id)
      [] op.f = "Bootstrap" -> BootstrapTx(d, a, op.tid)
      [] op.f = "ClaimPendingSteward" -> ClaimPendingStewardTx(d, a)

===============================================================================
