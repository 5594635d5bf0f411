----------------------------- MODULE ServerProofs -----------------------------
(***************************************************************************)
(* Proofs about module Server, for every value of its constants and any    *)
(* number of requests: the lock discipline, the agreement on the tenant,   *)
(* that concurrent requests are serialized (Spec => Reg!Spec), and what    *)
(* follows from that: the server's database keeps the invariant of         *)
(* RegistryProofs and the promises of AuditTrailProofs, and every row of   *)
(* its log has a steward behind it.                                        *)
(***************************************************************************)
EXTENDS Server, TLAPS

-------------------------------------------------------------------------------
(* What Registry calls the operations is what Server calls them: Reg is an  *)
(* instance with the same constants, whose operators are equal to Core's.   *)

\* The tables' helpers agree.
LEMMA HelpersAgree ==
    /\ \A d, table : Reg!NewId(d, table) = NewId(d, table)
    /\ \A t, id, row : Reg!Put(t, id, row) = Put(t, id, row)
    /\ \A t, id : Reg!Without(t, id) = Without(t, id)
    /\ \A d, a, action, type, id, details :
          Reg!WriteAudit(d, a, action, type, id, details) = WriteAudit(d, a, action, type, id, details)
<1>1. \A d, table : Reg!NewId(d, table) = NewId(d, table)
  BY DEF Reg!NewId, NewId
<1>2. \A t, id, row : Reg!Put(t, id, row) = Put(t, id, row)
  BY DEF Reg!Put, Put
<1>3. \A t, id : Reg!Without(t, id) = Without(t, id)
  BY DEF Reg!Without, Without
<1>4. \A d, a, action, type, id, details :
         Reg!WriteAudit(d, a, action, type, id, details) = WriteAudit(d, a, action, type, id, details)
  BY DEF Reg!WriteAudit, WriteAudit, Reg!InsertAudit, InsertAudit, Reg!AuditEntry, AuditEntry
<1>5. QED
  BY <1>1, <1>2, <1>3, <1>4

\* The queries agree.
LEMMA QueriesAgree ==
    /\ \A s : Reg!Disabled(s) <=> Disabled(s)
    /\ \A s : Reg!Removed(s) <=> Removed(s)
    /\ \A d, oid : Reg!IsActiveSteward(d, oid) <=> IsActiveSteward(d, oid)
    /\ \A d, upn : Reg!IsActiveStewardByUPN(d, upn) <=> IsActiveStewardByUPN(d, upn)
    /\ \A d, upn : Reg!PendingByUPN(d, upn) = PendingByUPN(d, upn)
    /\ \A d, upn : Reg!GetPendingStewardByUPN(d, upn) = GetPendingStewardByUPN(d, upn)
<1>1. \A s : Reg!Disabled(s) <=> Disabled(s)
  BY DEF Reg!Disabled, Disabled
<1>2. \A s : Reg!Removed(s) <=> Removed(s)
  BY DEF Reg!Removed, Removed
<1>3. \A d, oid : Reg!IsActiveSteward(d, oid) <=> IsActiveSteward(d, oid)
  BY DEF Reg!IsActiveSteward, IsActiveSteward, Reg!ActiveStewards, ActiveStewards, Reg!Removed, Removed
<1>4. \A d, upn : Reg!IsActiveStewardByUPN(d, upn) <=> IsActiveStewardByUPN(d, upn)
  BY DEF Reg!IsActiveStewardByUPN, IsActiveStewardByUPN, Reg!ActiveStewards, ActiveStewards,
         Reg!Removed, Removed, Reg!SameUPN, SameUPN
<1>5. \A d, upn : Reg!PendingByUPN(d, upn) = PendingByUPN(d, upn)
  BY DEF Reg!PendingByUPN, PendingByUPN, Reg!SameUPN, SameUPN
<1>6. \A d, upn : Reg!GetPendingStewardByUPN(d, upn) = GetPendingStewardByUPN(d, upn)
  BY DEF Reg!GetPendingStewardByUPN, GetPendingStewardByUPN, Reg!PendingByUPN, PendingByUPN,
         Reg!SameUPN, SameUPN
<1>7. QED
  BY <1>1, <1>2, <1>3, <1>4, <1>5, <1>6

\* The statements agree.
LEMMA EntityStatementsAgree ==
    /\ \A d, name, by : Reg!InsertPerson(d, name, by) = InsertPerson(d, name, by)
    /\ \A d, id, name, by : Reg!UpdatePersonName(d, id, name, by) = UpdatePersonName(d, id, name, by)
    /\ \A d, name, by : Reg!InsertSystem(d, name, by) = InsertSystem(d, name, by)
    /\ \A d, id, name, by : Reg!UpdateSystemName(d, id, name, by) = UpdateSystemName(d, id, name, by)
    /\ \A d, id, by : Reg!SetDisabledBy(d, id, by) = SetDisabledBy(d, id, by)
    /\ \A d, person, system, foreign, by :
          Reg!InsertAssociation(d, person, system, foreign, by) = InsertAssociation(d, person, system, foreign, by)
    /\ \A d, id : Reg!DeleteAssociation(d, id) = DeleteAssociation(d, id)
<1>1. \A d, name, by : Reg!InsertPerson(d, name, by) = InsertPerson(d, name, by)
  BY DEF Reg!InsertPerson, InsertPerson, Reg!NewId, NewId, Reg!Put, Put
<1>2. \A d, id, name, by : Reg!UpdatePersonName(d, id, name, by) = UpdatePersonName(d, id, name, by)
  BY DEF Reg!UpdatePersonName, UpdatePersonName
<1>3. \A d, name, by : Reg!InsertSystem(d, name, by) = InsertSystem(d, name, by)
  BY DEF Reg!InsertSystem, InsertSystem, Reg!NewId, NewId, Reg!Put, Put
<1>4. \A d, id, name, by : Reg!UpdateSystemName(d, id, name, by) = UpdateSystemName(d, id, name, by)
  BY DEF Reg!UpdateSystemName, UpdateSystemName
<1>5. \A d, id, by : Reg!SetDisabledBy(d, id, by) = SetDisabledBy(d, id, by)
  BY DEF Reg!SetDisabledBy, SetDisabledBy
<1>6. \A d, person, system, foreign, by :
         Reg!InsertAssociation(d, person, system, foreign, by) = InsertAssociation(d, person, system, foreign, by)
  BY DEF Reg!InsertAssociation, InsertAssociation, Reg!NewId, NewId, Reg!Put, Put
<1>7. \A d, id : Reg!DeleteAssociation(d, id) = DeleteAssociation(d, id)
  BY DEF Reg!DeleteAssociation, DeleteAssociation, Reg!Without, Without
<1>8. QED
  BY <1>1, <1>2, <1>3, <1>4, <1>5, <1>6, <1>7

\* So do those on the tenant, stewards and invitations.
LEMMA StewardStatementsAgree ==
    /\ \A d, oid, upn, by : Reg!InsertSteward(d, oid, upn, by) = InsertSteward(d, oid, upn, by)
    /\ \A d, id, by : Reg!SetRemovedBy(d, id, by) = SetRemovedBy(d, id, by)
    /\ \A d, upn, by : Reg!InsertPendingSteward(d, upn, by) = InsertPendingSteward(d, upn, by)
    /\ \A d, id : Reg!DeletePendingSteward(d, id) = DeletePendingSteward(d, id)
    /\ \A d, tid : Reg!BindTenant(d, tid) = BindTenant(d, tid)
<1>1. \A d, oid, upn, by : Reg!InsertSteward(d, oid, upn, by) = InsertSteward(d, oid, upn, by)
  BY DEF Reg!InsertSteward, InsertSteward, Reg!NewId, NewId, Reg!Put, Put
<1>2. \A d, id, by : Reg!SetRemovedBy(d, id, by) = SetRemovedBy(d, id, by)
  BY DEF Reg!SetRemovedBy, SetRemovedBy
<1>3. \A d, upn, by : Reg!InsertPendingSteward(d, upn, by) = InsertPendingSteward(d, upn, by)
  BY DEF Reg!InsertPendingSteward, InsertPendingSteward, Reg!NewId, NewId, Reg!Put, Put
<1>4. \A d, id : Reg!DeletePendingSteward(d, id) = DeletePendingSteward(d, id)
  BY DEF Reg!DeletePendingSteward, DeletePendingSteward, Reg!Without, Without
<1>5. \A d, tid : Reg!BindTenant(d, tid) = BindTenant(d, tid)
  BY DEF Reg!BindTenant, BindTenant
<1>6. QED
  BY <1>1, <1>2, <1>3, <1>4, <1>5

\* So do the outcomes and the transactions of core.
LEMMA OutcomesAgree ==
    /\ \A d, id, name : Reg!RenamePersonOutcome(d, id, name) = RenamePersonOutcome(d, id, name)
    /\ \A name : Reg!CreateSystemOutcome(name) = CreateSystemOutcome(name)
    /\ \A d, id, name : Reg!RenameSystemOutcome(d, id, name) = RenameSystemOutcome(d, id, name)
    /\ \A d, id : Reg!DisableSystemOutcome(d, id) = DisableSystemOutcome(d, id)
    /\ \A d, id : Reg!EnableSystemOutcome(d, id) = EnableSystemOutcome(d, id)
    /\ \A d, person, system :
          Reg!CreateAssociationOutcome(d, person, system) = CreateAssociationOutcome(d, person, system)
    /\ \A d, person, id :
          Reg!RemoveAssociationOutcome(d, person, id) = RemoveAssociationOutcome(d, person, id)
    /\ \A d, a, tid : Reg!BootstrapOutcome(d, a, tid) = BootstrapOutcome(d, a, tid)
    /\ \A d, upn : Reg!PromoteStewardOutcome(d, upn) = PromoteStewardOutcome(d, upn)
    /\ \A d, a, id : Reg!DemoteStewardOutcome(d, a, id) = DemoteStewardOutcome(d, a, id)
    /\ \A d, id : Reg!CancelStewardInviteOutcome(d, id) = CancelStewardInviteOutcome(d, id)
    /\ \A d, a : Reg!ClaimPendingStewardOutcome(d, a) = ClaimPendingStewardOutcome(d, a)
<1>1. \A d, id, name : Reg!RenamePersonOutcome(d, id, name) = RenamePersonOutcome(d, id, name)
  BY QueriesAgree DEF Reg!RenamePersonOutcome, RenamePersonOutcome, Reg!Written, Written, Reg!Unchanged, Unchanged
<1>2. \A name : Reg!CreateSystemOutcome(name) = CreateSystemOutcome(name)
  BY QueriesAgree DEF Reg!CreateSystemOutcome, CreateSystemOutcome, Reg!Written, Written, Reg!Unchanged, Unchanged
<1>3. \A d, id, name : Reg!RenameSystemOutcome(d, id, name) = RenameSystemOutcome(d, id, name)
  BY QueriesAgree DEF Reg!RenameSystemOutcome, RenameSystemOutcome, Reg!Written, Written, Reg!Unchanged, Unchanged
<1>4. \A d, id : Reg!DisableSystemOutcome(d, id) = DisableSystemOutcome(d, id)
  BY QueriesAgree DEF Reg!DisableSystemOutcome, DisableSystemOutcome, Reg!Written, Written, Reg!Unchanged, Unchanged
<1>5. \A d, id : Reg!EnableSystemOutcome(d, id) = EnableSystemOutcome(d, id)
  BY QueriesAgree DEF Reg!EnableSystemOutcome, EnableSystemOutcome, Reg!Written, Written, Reg!Unchanged, Unchanged
<1>6. \A d, person, system : Reg!CreateAssociationOutcome(d, person, system) = CreateAssociationOutcome(d, person, system)
  BY QueriesAgree DEF Reg!CreateAssociationOutcome, CreateAssociationOutcome, Reg!Written, Written, Reg!Unchanged, Unchanged
<1>7. \A d, person, id : Reg!RemoveAssociationOutcome(d, person, id) = RemoveAssociationOutcome(d, person, id)
  BY QueriesAgree DEF Reg!RemoveAssociationOutcome, RemoveAssociationOutcome, Reg!Written, Written, Reg!Unchanged, Unchanged
<1>8. \A d, a, tid : Reg!BootstrapOutcome(d, a, tid) = BootstrapOutcome(d, a, tid)
  BY QueriesAgree DEF Reg!BootstrapOutcome, BootstrapOutcome, Reg!Written, Written, Reg!Unchanged, Unchanged
<1>9. \A d, upn : Reg!PromoteStewardOutcome(d, upn) = PromoteStewardOutcome(d, upn)
  BY QueriesAgree DEF Reg!PromoteStewardOutcome, PromoteStewardOutcome, Reg!Written, Written, Reg!Unchanged, Unchanged
<1>10. \A d, a, id : Reg!DemoteStewardOutcome(d, a, id) = DemoteStewardOutcome(d, a, id)
  BY QueriesAgree DEF Reg!DemoteStewardOutcome, DemoteStewardOutcome, Reg!Written, Written, Reg!Unchanged, Unchanged
<1>11. \A d, id : Reg!CancelStewardInviteOutcome(d, id) = CancelStewardInviteOutcome(d, id)
  BY QueriesAgree DEF Reg!CancelStewardInviteOutcome, CancelStewardInviteOutcome, Reg!Written, Written, Reg!Unchanged, Unchanged
<1>12. \A d, a : Reg!ClaimPendingStewardOutcome(d, a) = ClaimPendingStewardOutcome(d, a)
  BY QueriesAgree DEF Reg!ClaimPendingStewardOutcome, ClaimPendingStewardOutcome, Reg!Written, Written, Reg!Unchanged, Unchanged
<1>13. QED
  BY <1>1, <1>2, <1>3, <1>4, <1>5, <1>6, <1>7, <1>8, <1>9, <1>10, <1>11, <1>12

\* Likewise for what a commit leaves.
LEMMA TransactionsAgree ==
    /\ \A d, a, name : Reg!CreatePersonTx(d, a, name) = CreatePersonTx(d, a, name)
    /\ \A d, a, id, name : Reg!RenamePersonTx(d, a, id, name) = RenamePersonTx(d, a, id, name)
    /\ \A d, a, name : Reg!CreateSystemTx(d, a, name) = CreateSystemTx(d, a, name)
    /\ \A d, a, id, name : Reg!RenameSystemTx(d, a, id, name) = RenameSystemTx(d, a, id, name)
    /\ \A d, a, id : Reg!DisableSystemTx(d, a, id) = DisableSystemTx(d, a, id)
    /\ \A d, a, id : Reg!EnableSystemTx(d, a, id) = EnableSystemTx(d, a, id)
    /\ \A d, a, person, system, foreign :
          Reg!CreateAssociationTx(d, a, person, system, foreign) = CreateAssociationTx(d, a, person, system, foreign)
    /\ \A d, a, person, id :
          Reg!RemoveAssociationTx(d, a, person, id) = RemoveAssociationTx(d, a, person, id)
    /\ \A d, a, tid : Reg!BootstrapTx(d, a, tid) = BootstrapTx(d, a, tid)
    /\ \A d, a, upn : Reg!PromoteStewardTx(d, a, upn) = PromoteStewardTx(d, a, upn)
    /\ \A d, a, id : Reg!DemoteStewardTx(d, a, id) = DemoteStewardTx(d, a, id)
    /\ \A d, a, id : Reg!CancelStewardInviteTx(d, a, id) = CancelStewardInviteTx(d, a, id)
    /\ \A d, a : Reg!ClaimPendingStewardTx(d, a) = ClaimPendingStewardTx(d, a)
<1>1. \A d, a, name : Reg!CreatePersonTx(d, a, name) = CreatePersonTx(d, a, name)
  BY HelpersAgree, EntityStatementsAgree
  DEF Reg!CreatePersonTx, CreatePersonTx
<1>2. \A d, a, id, name : Reg!RenamePersonTx(d, a, id, name) = RenamePersonTx(d, a, id, name)
  BY HelpersAgree, EntityStatementsAgree
  DEF Reg!RenamePersonTx, RenamePersonTx
<1>3. \A d, a, name : Reg!CreateSystemTx(d, a, name) = CreateSystemTx(d, a, name)
  BY HelpersAgree, EntityStatementsAgree
  DEF Reg!CreateSystemTx, CreateSystemTx
<1>4. \A d, a, id, name : Reg!RenameSystemTx(d, a, id, name) = RenameSystemTx(d, a, id, name)
  BY HelpersAgree, EntityStatementsAgree
  DEF Reg!RenameSystemTx, RenameSystemTx
<1>5. \A d, a, id : Reg!DisableSystemTx(d, a, id) = DisableSystemTx(d, a, id)
  BY HelpersAgree, EntityStatementsAgree
  DEF Reg!DisableSystemTx, DisableSystemTx
<1>6. \A d, a, id : Reg!EnableSystemTx(d, a, id) = EnableSystemTx(d, a, id)
  BY HelpersAgree, EntityStatementsAgree
  DEF Reg!EnableSystemTx, EnableSystemTx
<1>7. \A d, a, person, system, foreign : Reg!CreateAssociationTx(d, a, person, system, foreign) = CreateAssociationTx(d, a, person, system, foreign)
  BY HelpersAgree, EntityStatementsAgree
  DEF Reg!CreateAssociationTx, CreateAssociationTx, Reg!LinkDetails, LinkDetails
<1>8. \A d, a, person, id : Reg!RemoveAssociationTx(d, a, person, id) = RemoveAssociationTx(d, a, person, id)
  BY HelpersAgree, EntityStatementsAgree
  DEF Reg!RemoveAssociationTx, RemoveAssociationTx, Reg!LinkDetails, LinkDetails
<1>9. \A d, a, tid : Reg!BootstrapTx(d, a, tid) = BootstrapTx(d, a, tid)
  BY HelpersAgree, StewardStatementsAgree
  DEF Reg!BootstrapTx, BootstrapTx
<1>10. \A d, a, upn : Reg!PromoteStewardTx(d, a, upn) = PromoteStewardTx(d, a, upn)
  BY HelpersAgree, StewardStatementsAgree
  DEF Reg!PromoteStewardTx, PromoteStewardTx
<1>11. \A d, a, id : Reg!DemoteStewardTx(d, a, id) = DemoteStewardTx(d, a, id)
  BY HelpersAgree, StewardStatementsAgree
  DEF Reg!DemoteStewardTx, DemoteStewardTx
<1>12. \A d, a, id : Reg!CancelStewardInviteTx(d, a, id) = CancelStewardInviteTx(d, a, id)
  BY HelpersAgree, StewardStatementsAgree
  DEF Reg!CancelStewardInviteTx, CancelStewardInviteTx
<1>13. \A d, a : Reg!ClaimPendingStewardTx(d, a) = ClaimPendingStewardTx(d, a)
  BY HelpersAgree, StewardStatementsAgree, QueriesAgree
  DEF Reg!ClaimPendingStewardTx, ClaimPendingStewardTx
<1>14. QED
  BY <1>1, <1>2, <1>3, <1>4, <1>5, <1>6, <1>7, <1>8, <1>9, <1>10, <1>11, <1>12, <1>13

-------------------------------------------------------------------------------
(* What a commit does to the binding, and that it is a step of Registry. *)

\* The operations, by name.
LEMMA OperationCases ==
    ASSUME NEW op \in Operation \cup SignInOp
    PROVE  op.f \in {"CreatePerson", "RenamePerson", "CreateSystem", "RenameSystem",
                     "DisableSystem", "EnableSystem", "CreateAssociation",
                     "RemoveAssociation", "PromoteSteward", "DemoteSteward",
                     "CancelStewardInvite", "ClaimPendingSteward", "Bootstrap"}
BY DEF Operation, SignInOp, NamedOp, EntityOp

\* Nothing but Bootstrap touches the binding, and Bootstrap binds its argument.
LEMMA CommitTenant ==
    ASSUME NEW d, "tenant" \in DOMAIN d, NEW a, NEW op \in Operation \cup SignInOp
    PROVE  /\ "tenant" \in DOMAIN Tx(d, a, op)
           /\ op.f # "Bootstrap" => Tx(d, a, op).tenant = d.tenant
           /\ op.f = "Bootstrap" => Tx(d, a, op).tenant = op.tid
<1>1. CASE op.f = "CreatePerson"
  <2>1. Tx(d, a, op) = CreatePersonTx(d, a, op.name)
    BY <1>1 DEF Tx
  <2>2. QED
    BY <1>1, <2>1 DEF CreatePersonTx, WriteAudit, InsertAudit, InsertPerson
<1>2. CASE op.f = "RenamePerson"
  <2>1. Tx(d, a, op) = RenamePersonTx(d, a, op.id, op.name)
    BY <1>2 DEF Tx
  <2>2. QED
    BY <1>2, <2>1 DEF RenamePersonTx, WriteAudit, InsertAudit, UpdatePersonName
<1>3. CASE op.f = "CreateSystem"
  <2>1. Tx(d, a, op) = CreateSystemTx(d, a, op.name)
    BY <1>3 DEF Tx
  <2>2. QED
    BY <1>3, <2>1 DEF CreateSystemTx, WriteAudit, InsertAudit, InsertSystem
<1>4. CASE op.f = "RenameSystem"
  <2>1. Tx(d, a, op) = RenameSystemTx(d, a, op.id, op.name)
    BY <1>4 DEF Tx
  <2>2. QED
    BY <1>4, <2>1 DEF RenameSystemTx, WriteAudit, InsertAudit, UpdateSystemName
<1>5. CASE op.f = "DisableSystem"
  <2>1. Tx(d, a, op) = DisableSystemTx(d, a, op.id)
    BY <1>5 DEF Tx
  <2>2. QED
    BY <1>5, <2>1 DEF DisableSystemTx, WriteAudit, InsertAudit, SetDisabledBy
<1>6. CASE op.f = "EnableSystem"
  <2>1. Tx(d, a, op) = EnableSystemTx(d, a, op.id)
    BY <1>6 DEF Tx
  <2>2. QED
    BY <1>6, <2>1 DEF EnableSystemTx, WriteAudit, InsertAudit, SetDisabledBy
<1>7. CASE op.f = "CreateAssociation"
  <2>1. Tx(d, a, op) = CreateAssociationTx(d, a, op.person, op.system, op.foreign)
    BY <1>7 DEF Tx
  <2>2. QED
    BY <1>7, <2>1 DEF CreateAssociationTx, WriteAudit, InsertAudit, InsertAssociation
<1>8. CASE op.f = "RemoveAssociation"
  <2>1. Tx(d, a, op) = RemoveAssociationTx(d, a, op.person, op.id)
    BY <1>8 DEF Tx
  <2>2. QED
    BY <1>8, <2>1 DEF RemoveAssociationTx, WriteAudit, InsertAudit, DeleteAssociation
<1>9. CASE op.f = "PromoteSteward"
  <2>1. Tx(d, a, op) = PromoteStewardTx(d, a, op.upn)
    BY <1>9 DEF Tx
  <2>2. QED
    BY <1>9, <2>1 DEF PromoteStewardTx, WriteAudit, InsertAudit, InsertPendingSteward
<1>10. CASE op.f = "DemoteSteward"
  <2>1. Tx(d, a, op) = DemoteStewardTx(d, a, op.id)
    BY <1>10 DEF Tx
  <2>2. QED
    BY <1>10, <2>1 DEF DemoteStewardTx, WriteAudit, InsertAudit, SetRemovedBy
<1>11. CASE op.f = "CancelStewardInvite"
  <2>1. Tx(d, a, op) = CancelStewardInviteTx(d, a, op.id)
    BY <1>11 DEF Tx
  <2>2. QED
    BY <1>11, <2>1 DEF CancelStewardInviteTx, WriteAudit, InsertAudit, DeletePendingSteward
<1>12. CASE op.f = "ClaimPendingSteward"
  <2>1. Tx(d, a, op) = ClaimPendingStewardTx(d, a)
    BY <1>12 DEF Tx
  <2>2. QED
    BY <1>12, <2>1 DEF ClaimPendingStewardTx, WriteAudit, InsertAudit, InsertSteward, DeletePendingSteward
<1>13. CASE op.f = "Bootstrap"
  <2>1. Tx(d, a, op) = BootstrapTx(d, a, op.tid)
    BY <1>13 DEF Tx
  <2>2. QED
    BY <1>13, <2>1 DEF BootstrapTx, WriteAudit, InsertAudit, InsertSteward, BindTenant
<1>14. QED
  BY OperationCases, <1>1, <1>2, <1>3, <1>4, <1>5, <1>6, <1>7, <1>8, <1>9, <1>10, <1>11, <1>12, <1>13

\* A transaction accepted on the committed database is a step of the registry.
LEMMA CommitIsRegistryStep ==
    ASSUME NEW a \in Actor, NEW op \in Operation \cup SignInOp,
           Outcome(db, a, op) = Written,
           db' = Tx(db, a, op),
           op.f # "Bootstrap" => db.tenant # NoTenant
    PROVE  Reg!Next
<1>1. CASE op.f = "CreatePerson"
  <2>1. op.name \in Name
    BY <1>1 DEF Operation, SignInOp, NamedOp, EntityOp
  <2>2. db' = CreatePersonTx(db, a, op.name)
    BY <1>1 DEF Tx
  <2>3. Reg!CreatePerson(a, op.name)
    BY <2>2, TransactionsAgree DEF Reg!CreatePerson
  <2>4. Reg!WriteEntity(a)
    BY <2>1, <2>3 DEF Reg!WriteEntity
  <2>5. QED
    BY <1>1, <2>4 DEF Reg!Next, Reg!Write, Reg!Bound
<1>2. CASE op.f = "RenamePerson"
  <2>1. op.id \in RowId /\ op.name \in Name
    BY <1>2 DEF Operation, SignInOp, NamedOp, EntityOp
  <2>2. db' = RenamePersonTx(db, a, op.id, op.name)
    BY <1>2 DEF Tx
  <2>3. RenamePersonOutcome(db, op.id, op.name) = Written
    BY <1>2 DEF Outcome
  <2>4. Reg!RenamePerson(a, op.id, op.name)
    BY <1>2, <2>2, <2>3, OutcomesAgree, TransactionsAgree
    DEF Reg!RenamePerson, Reg!Written, Written
  <2>5. Reg!WriteEntity(a)
    BY <2>1, <2>4 DEF Reg!WriteEntity
  <2>6. QED
    BY <1>2, <2>5 DEF Reg!Next, Reg!Write, Reg!Bound
<1>3. CASE op.f = "CreateSystem"
  <2>1. op.name \in Name
    BY <1>3 DEF Operation, SignInOp, NamedOp, EntityOp
  <2>2. db' = CreateSystemTx(db, a, op.name)
    BY <1>3 DEF Tx
  <2>3. CreateSystemOutcome(op.name) = Written
    BY <1>3 DEF Outcome
  <2>4. Reg!CreateSystem(a, op.name)
    BY <1>3, <2>2, <2>3, OutcomesAgree, TransactionsAgree
    DEF Reg!CreateSystem, Reg!Written, Written
  <2>5. Reg!WriteEntity(a)
    BY <2>1, <2>4 DEF Reg!WriteEntity
  <2>6. QED
    BY <1>3, <2>5 DEF Reg!Next, Reg!Write, Reg!Bound
<1>4. CASE op.f = "RenameSystem"
  <2>1. op.id \in RowId /\ op.name \in Name
    BY <1>4 DEF Operation, SignInOp, NamedOp, EntityOp
  <2>2. db' = RenameSystemTx(db, a, op.id, op.name)
    BY <1>4 DEF Tx
  <2>3. RenameSystemOutcome(db, op.id, op.name) = Written
    BY <1>4 DEF Outcome
  <2>4. Reg!RenameSystem(a, op.id, op.name)
    BY <1>4, <2>2, <2>3, OutcomesAgree, TransactionsAgree
    DEF Reg!RenameSystem, Reg!Written, Written
  <2>5. Reg!WriteEntity(a)
    BY <2>1, <2>4 DEF Reg!WriteEntity
  <2>6. QED
    BY <1>4, <2>5 DEF Reg!Next, Reg!Write, Reg!Bound
<1>5. CASE op.f = "DisableSystem"
  <2>1. op.id \in RowId
    BY <1>5 DEF Operation, SignInOp, NamedOp, EntityOp
  <2>2. db' = DisableSystemTx(db, a, op.id)
    BY <1>5 DEF Tx
  <2>3. DisableSystemOutcome(db, op.id) = Written
    BY <1>5 DEF Outcome
  <2>4. Reg!DisableSystem(a, op.id)
    BY <1>5, <2>2, <2>3, OutcomesAgree, TransactionsAgree
    DEF Reg!DisableSystem, Reg!Written, Written
  <2>5. Reg!WriteEntity(a)
    BY <2>1, <2>4 DEF Reg!WriteEntity
  <2>6. QED
    BY <1>5, <2>5 DEF Reg!Next, Reg!Write, Reg!Bound
<1>6. CASE op.f = "EnableSystem"
  <2>1. op.id \in RowId
    BY <1>6 DEF Operation, SignInOp, NamedOp, EntityOp
  <2>2. db' = EnableSystemTx(db, a, op.id)
    BY <1>6 DEF Tx
  <2>3. EnableSystemOutcome(db, op.id) = Written
    BY <1>6 DEF Outcome
  <2>4. Reg!EnableSystem(a, op.id)
    BY <1>6, <2>2, <2>3, OutcomesAgree, TransactionsAgree
    DEF Reg!EnableSystem, Reg!Written, Written
  <2>5. Reg!WriteEntity(a)
    BY <2>1, <2>4 DEF Reg!WriteEntity
  <2>6. QED
    BY <1>6, <2>5 DEF Reg!Next, Reg!Write, Reg!Bound
<1>7. CASE op.f = "CreateAssociation"
  <2>1. op.person \in RowId /\ op.system \in RowId /\ op.foreign \in ForeignId
    BY <1>7 DEF Operation, SignInOp, NamedOp, EntityOp
  <2>2. db' = CreateAssociationTx(db, a, op.person, op.system, op.foreign)
    BY <1>7 DEF Tx
  <2>3. CreateAssociationOutcome(db, op.person, op.system) = Written
    BY <1>7 DEF Outcome
  <2>4. Reg!CreateAssociation(a, op.person, op.system, op.foreign)
    BY <1>7, <2>2, <2>3, OutcomesAgree, TransactionsAgree
    DEF Reg!CreateAssociation, Reg!Written, Written
  <2>5. Reg!WriteEntity(a)
    BY <2>1, <2>4 DEF Reg!WriteEntity
  <2>6. QED
    BY <1>7, <2>5 DEF Reg!Next, Reg!Write, Reg!Bound
<1>8. CASE op.f = "RemoveAssociation"
  <2>1. op.person \in RowId /\ op.id \in RowId
    BY <1>8 DEF Operation, SignInOp, NamedOp, EntityOp
  <2>2. db' = RemoveAssociationTx(db, a, op.person, op.id)
    BY <1>8 DEF Tx
  <2>3. RemoveAssociationOutcome(db, op.person, op.id) = Written
    BY <1>8 DEF Outcome
  <2>4. Reg!RemoveAssociation(a, op.person, op.id)
    BY <1>8, <2>2, <2>3, OutcomesAgree, TransactionsAgree
    DEF Reg!RemoveAssociation, Reg!Written, Written
  <2>5. Reg!WriteEntity(a)
    BY <2>1, <2>4 DEF Reg!WriteEntity
  <2>6. QED
    BY <1>8, <2>5 DEF Reg!Next, Reg!Write, Reg!Bound
<1>9. CASE op.f = "PromoteSteward"
  <2>1. op.upn \in UPN
    BY <1>9 DEF Operation, SignInOp, NamedOp, EntityOp
  <2>2. db' = PromoteStewardTx(db, a, op.upn)
    BY <1>9 DEF Tx
  <2>3. PromoteStewardOutcome(db, op.upn) = Written
    BY <1>9 DEF Outcome
  <2>4. Reg!PromoteSteward(a, op.upn)
    BY <1>9, <2>2, <2>3, OutcomesAgree, TransactionsAgree
    DEF Reg!PromoteSteward, Reg!Written, Written
  <2>5. Reg!WriteSteward(a)
    BY <2>1, <2>4 DEF Reg!WriteSteward
  <2>6. QED
    BY <1>9, <2>5 DEF Reg!Next, Reg!Write, Reg!Bound
<1>10. CASE op.f = "DemoteSteward"
  <2>1. op.id \in RowId
    BY <1>10 DEF Operation, SignInOp, NamedOp, EntityOp
  <2>2. db' = DemoteStewardTx(db, a, op.id)
    BY <1>10 DEF Tx
  <2>3. DemoteStewardOutcome(db, a, op.id) = Written
    BY <1>10 DEF Outcome
  <2>4. Reg!DemoteSteward(a, op.id)
    BY <1>10, <2>2, <2>3, OutcomesAgree, TransactionsAgree
    DEF Reg!DemoteSteward, Reg!Written, Written
  <2>5. Reg!WriteSteward(a)
    BY <2>1, <2>4 DEF Reg!WriteSteward
  <2>6. QED
    BY <1>10, <2>5 DEF Reg!Next, Reg!Write, Reg!Bound
<1>11. CASE op.f = "CancelStewardInvite"
  <2>1. op.id \in RowId
    BY <1>11 DEF Operation, SignInOp, NamedOp, EntityOp
  <2>2. db' = CancelStewardInviteTx(db, a, op.id)
    BY <1>11 DEF Tx
  <2>3. CancelStewardInviteOutcome(db, op.id) = Written
    BY <1>11 DEF Outcome
  <2>4. Reg!CancelStewardInvite(a, op.id)
    BY <1>11, <2>2, <2>3, OutcomesAgree, TransactionsAgree
    DEF Reg!CancelStewardInvite, Reg!Written, Written
  <2>5. Reg!WriteSteward(a)
    BY <2>1, <2>4 DEF Reg!WriteSteward
  <2>6. QED
    BY <1>11, <2>5 DEF Reg!Next, Reg!Write, Reg!Bound
<1>12. CASE op.f = "ClaimPendingSteward"
  <2>1. db' = ClaimPendingStewardTx(db, a)
    BY <1>12 DEF Tx
  <2>2. ClaimPendingStewardOutcome(db, a) = Written
    BY <1>12 DEF Outcome
  <2>3. Reg!ClaimPendingSteward(a)
    BY <1>12, <2>1, <2>2, OutcomesAgree, TransactionsAgree
    DEF Reg!ClaimPendingSteward, Reg!Written, Written, Reg!Bound
  <2>4. QED
    BY <2>3 DEF Reg!Next, Reg!SignIn
<1>13. CASE op.f = "Bootstrap"
  <2>1. op.tid \in TID
    BY <1>13 DEF Operation, SignInOp, NamedOp, EntityOp
  <2>2. db' = BootstrapTx(db, a, op.tid)
    BY <1>13 DEF Tx
  <2>3. BootstrapOutcome(db, a, op.tid) = Written
    BY <1>13 DEF Outcome
  <2>4. Reg!Bootstrap(a, op.tid)
    BY <1>13, <2>2, <2>3, OutcomesAgree, TransactionsAgree
    DEF Reg!Bootstrap, Reg!Written, Written
  <2>5. QED
    BY <2>1, <2>4 DEF Reg!Next, Reg!SignIn
<1>14. QED
  BY OperationCases, <1>1, <1>2, <1>3, <1>4, <1>5, <1>6, <1>7, <1>8, <1>9, <1>10, <1>11, <1>12, <1>13

-------------------------------------------------------------------------------
(* The inductive invariant. *)

\* A request between calls carries the claims and the operation it arrived with;
\* one whose transaction has decided to write was right to on its snapshot.
WellFormed(q) ==
    /\ q.at \in {"idle", "begin", "read", "writing", "returned"}
    /\ q.at # "idle" => /\ q.claims \in Claims
                        /\ q.op \in Operation \cup SignInOp
                        /\ q.op.f = "Bootstrap" => q.op.tid = q.claims.tid
    /\ q.at \in {"read", "writing"} => Outcome(q.snap, ActorOf(q.claims), q.op) = Written

\* The claims of a request are of tenant t if they have been compared with it.
Agrees(q, t) ==
    /\ q.at # "idle"
    /\ q.op.f # "Bootstrap" \/ (q.at = "returned" /\ q.result = Written)
    => q.claims.tid = t

\* WriterIsCurrent and TenantAgrees are inductive together with what a request is
\* made of: that Bootstrap binds the tenant of the claims, and that the decision
\* to write was made on the snapshot that is about to be committed.
SInv ==
    /\ mem \in TID \cup {NoTenant}
    /\ sessions \subseteq Claims
    /\ "tenant" \in DOMAIN db /\ db.tenant \in TID \cup {NoTenant}
    /\ DOMAIN req = Request
    /\ \A r \in Request : WellFormed(req[r])
    /\ WriterIsCurrent
    /\ TenantAgrees

\* The initial database is unbound and nobody is asking for anything.
LEMMA InitSInv == Init => SInv
BY DEF Init, SInv, EmptyDatabase, Idle, WellFormed, WriterIsCurrent, TenantAgrees

\* A step that answers or advances one request, and leaves the database alone,
\* has to watch that slot, the cached tenant and the sessions only.
LEMMA SlotStep ==
    ASSUME SInv, NEW r \in Request, NEW q,
           req' = [req EXCEPT ![r] = q], WellFormed(q), Agrees(q, db.tenant),
           q.at = "writing" => q.snap = db /\ NobodyWrites,
           db' = db,
           mem' = mem \/ mem' = db.tenant,
           sessions' = sessions
             \/ \E c \in Claims : sessions' = sessions \cup {c} /\ c.tid = db.tenant
    PROVE  SInv'
<1>1. DOMAIN req' = Request /\ \A s \in Request : req'[s] = IF s = r THEN q ELSE req[s]
  BY DEF SInv
<1>2. (\A s \in Request : WellFormed(req[s]))'
  BY <1>1 DEF SInv
<1>3. WriterIsCurrent'
  BY <1>1 DEF SInv, WriterIsCurrent, NobodyWrites
<1>4. TenantAgrees'
  <2>1. mem' # NoTenant => mem' = db'.tenant
    BY DEF SInv, TenantAgrees
  <2>2. \A c \in sessions' : c.tid = db'.tenant
    BY DEF SInv, TenantAgrees
  <2>3. \A s \in Request : Agrees(req[s], db.tenant)
    BY DEF SInv, TenantAgrees, Agrees
  <2>4. \A s \in Request : Agrees(req'[s], db'.tenant)
    BY <1>1, <2>3
  <2>5. QED
    BY <2>1, <2>2, <2>4 DEF TenantAgrees, Agrees
<1>5. mem' \in TID \cup {NoTenant} /\ sessions' \subseteq Claims
  BY DEF SInv
<1>6. ("tenant" \in DOMAIN db /\ db.tenant \in TID \cup {NoTenant})'
  BY DEF SInv
<1>7. QED
  BY <1>1, <1>2, <1>3, <1>4, <1>5, <1>6 DEF SInv

\* What Commit finds: an accepted transaction on the database as it is, of a user
\* whose tenant is the one bound, unless it is the one that binds it.
LEMMA CommitFacts ==
    ASSUME SInv, NEW r \in Request, req[r].at = "writing"
    PROVE  /\ req[r].snap = db
           /\ ActorOf(req[r].claims) \in Actor
           /\ req[r].op \in Operation \cup SignInOp
           /\ Outcome(db, ActorOf(req[r].claims), req[r].op) = Written
           /\ req[r].claims.tid \in TID
           /\ req[r].op.f = "Bootstrap" => db.tenant = NoTenant
                                           /\ req[r].op.tid = req[r].claims.tid
           /\ req[r].op.f # "Bootstrap" => db.tenant = req[r].claims.tid /\ db.tenant # NoTenant
<1>1. /\ WellFormed(req[r]) /\ req[r].snap = db
  BY DEF SInv, WriterIsCurrent
<1>2. req[r].claims \in Claims /\ req[r].op \in Operation \cup SignInOp
  BY <1>1 DEF WellFormed
<1>3. ActorOf(req[r].claims) \in Actor /\ req[r].claims.tid \in TID
  <2>1. PICK a \in Actor, tid \in TID : req[r].claims = [oid |-> a.oid, upn |-> a.upn, tid |-> tid]
    BY <1>2 DEF Claims
  <2>2. ActorOf(req[r].claims) = a
    BY <2>1, ActorAssumption DEF ActorOf
  <2>3. QED
    BY <2>1, <2>2
<1>4. Outcome(db, ActorOf(req[r].claims), req[r].op) = Written
  BY <1>1 DEF WellFormed
<1>5. req[r].op.f = "Bootstrap" => db.tenant = NoTenant /\ req[r].op.tid = req[r].claims.tid
  BY <1>1, <1>4 DEF WellFormed, Outcome, BootstrapOutcome, Written
<1>6. req[r].op.f # "Bootstrap" => db.tenant = req[r].claims.tid /\ db.tenant # NoTenant
  BY <1>3, TextAssumption DEF SInv, TenantAgrees
<1>7. QED
  BY <1>1, <1>2, <1>3, <1>4, <1>5, <1>6

\* The one step that changes the database keeps the invariant: the writer was the
\* only one, and the binding changes only when nobody can have relied on it.
LEMMA CommitStep ==
    ASSUME SInv, NEW r \in Request, Commit(r)
    PROVE  SInv'
<1> DEFINE c == req[r].claims
           op == req[r].op
           q == [at |-> "returned", claims |-> c, op |-> op, result |-> Written]
<1>1. /\ req[r].at = "writing" /\ req[r].snap = db
      /\ c \in Claims /\ c.tid \in TID /\ op \in Operation \cup SignInOp
      /\ op.f = "Bootstrap" => db.tenant = NoTenant /\ op.tid = c.tid
      /\ op.f # "Bootstrap" => db.tenant = c.tid /\ db.tenant # NoTenant
  BY CommitFacts DEF Commit, SInv, WellFormed
<1>2. DOMAIN req' = Request /\ \A s \in Request : req'[s] = IF s = r THEN q ELSE req[s]
  BY DEF Commit, Return, SInv
<1>3. mem' = mem /\ sessions' = sessions
  BY DEF Commit
<1>4. /\ "tenant" \in DOMAIN db'
      /\ db'.tenant = c.tid
      /\ db.tenant = NoTenant \/ db'.tenant = db.tenant
  <2>1. db' = Tx(db, ActorOf(c), op)
    BY <1>1 DEF Commit
  <2>2. "tenant" \in DOMAIN db
    BY DEF SInv
  <2>3. QED
    BY <1>1, <2>1, <2>2, CommitTenant
<1>5. \A s \in Request : WellFormed(req'[s])
  BY <1>1, <1>2 DEF SInv, WellFormed
<1>6. \A s \in Request : req'[s].at # "writing"
  BY <1>1, <1>2 DEF SInv, WriterIsCurrent
<1>7. TenantAgrees'
  <2>1. mem' # NoTenant => mem' = db'.tenant
    BY <1>3, <1>4 DEF SInv, TenantAgrees
  <2>2. \A k \in sessions' : k.tid = db'.tenant
    <3>1. \A k \in sessions : k.tid \in TID /\ k.tid = db.tenant
      BY DEF SInv, TenantAgrees, Claims
    <3>2. QED
      BY <1>3, <1>4, <3>1, TextAssumption
  <2>3. \A s \in Request : Agrees(req'[s], db'.tenant)
    <3>1. \A s \in Request : Agrees(req[s], db.tenant)
      BY DEF SInv, TenantAgrees, Agrees
    <3>2. \A s \in Request : req[s].at # "idle" => req[s].claims.tid \in TID
      BY DEF SInv, WellFormed, Claims
    <3>3. QED
      BY <1>2, <1>4, <3>1, <3>2, TextAssumption DEF Agrees
  <2>4. QED
    BY <2>1, <2>2, <2>3 DEF TenantAgrees, Agrees
<1>8. QED
  BY <1>1, <1>2, <1>3, <1>4, <1>5, <1>6, <1>7 DEF SInv, WriterIsCurrent

\* Every step keeps the invariant: one case per action.
LEMMA NextSInv == SInv /\ [Next]_vars => SInv'
<1> SUFFICES ASSUME SInv, [Next]_vars PROVE SInv'
  OBVIOUS
<1>a. \A r \in Request : WellFormed(req[r]) /\ Agrees(req[r], db.tenant)
  BY DEF SInv, TenantAgrees, Agrees
<1>b. sessions \subseteq Claims /\ (mem # NoTenant => mem = db.tenant)
      /\ \A c \in sessions : c.tid = db.tenant
  BY DEF SInv, TenantAgrees
<1>1. ASSUME NEW r \in Request, NEW c \in sessions \cup Bearer, NEW op \in Operation, Admit(r, c, op)
      PROVE  SInv'
  <2>1. c \in Claims /\ c.tid = db.tenant
    BY <1>1, <1>b, ServerAssumption DEF Admit, Authenticated
  <2>2. op.f # "Bootstrap"
    BY <1>1 DEF Operation, NamedOp, EntityOp
  <2>3. WellFormed(Calling(c, op)) /\ Agrees(Calling(c, op), db.tenant)
    BY <1>1, <2>1, <2>2 DEF WellFormed, Agrees, Calling
  <2>4. QED
    BY <1>1, <2>3, SlotStep DEF Admit, Call, Calling
<1>2. ASSUME NEW r \in Request, NEW c \in Claims, SignIn(r, c)
      PROVE  SInv'
  <2>1. PICK op \in SignInOp : /\ req' = [req EXCEPT ![r] = Calling(c, op)]
                               /\ op.f = "Bootstrap" => op.tid = c.tid
                               /\ op.f # "Bootstrap" => c.tid = db.tenant
    <3>1. c.tid \in TID
      BY <1>2 DEF Claims
    <3>2. CASE mem = NoTenant
      <4>1. [f |-> "Bootstrap", tid |-> c.tid] \in SignInOp
        BY <3>1 DEF SignInOp
      <4>2. QED
        BY <1>2, <3>2, <4>1 DEF SignIn, Call
    <3>3. CASE mem # NoTenant
      <4>1. [f |-> "ClaimPendingSteward"] \in SignInOp
        BY DEF SignInOp
      <4>2. QED
        BY <1>2, <1>b, <3>3, <4>1 DEF SignIn, Call
    <3>4. QED
      BY <3>2, <3>3
  <2>2. WellFormed(Calling(c, op)) /\ Agrees(Calling(c, op), db.tenant)
    BY <2>1 DEF WellFormed, Agrees, Calling
  <2>3. QED
    BY <1>2, <2>1, <2>2, SlotStep DEF SignIn, Calling
<1>3. ASSUME NEW r \in Request, req[r].at # "idle", NEW result, Return(r, result),
             result = Written => req[r].op.f # "Bootstrap",
             UNCHANGED <<db, mem, sessions>>
      PROVE  SInv'
  <2> DEFINE q == [at |-> "returned", claims |-> req[r].claims, op |-> req[r].op,
                   result |-> result]
  <2>1. req' = [req EXCEPT ![r] = q]
    BY <1>3 DEF Return
  <2>2. WellFormed(q) /\ Agrees(q, db.tenant)
    BY <1>3, <1>a DEF WellFormed, Agrees
  <2>3. QED
    BY <1>3, <2>1, <2>2, SlotStep
<1>4. ASSUME NEW r \in Request, Answer(r), UNCHANGED <<db, mem, sessions>>
      PROVE  SInv'
  <2>1. WellFormed(Idle) /\ Agrees(Idle, db.tenant)
    BY DEF WellFormed, Agrees, Idle
  <2>2. QED
    BY <1>4, <2>1, SlotStep DEF Answer, Idle
<1>5. ASSUME NEW r \in Request, Read(r)
      PROVE  SInv'
  <2> DEFINE outcome == Outcome(db, ActorOf(req[r].claims), req[r].op)
             q == [at |-> "read", claims |-> req[r].claims, op |-> req[r].op, snap |-> db]
  <2>1. CASE outcome = Written
    <3>1. req' = [req EXCEPT ![r] = q]
      BY <1>5, <2>1 DEF Read
    <3>2. WellFormed(q) /\ Agrees(q, db.tenant)
      BY <1>5, <1>a, <2>1 DEF WellFormed, Agrees, Read
    <3>3. QED
      BY <1>5, <3>1, <3>2, SlotStep DEF Read
  <2>2. CASE outcome # Written
    BY <1>3, <1>5, <2>2 DEF Read
  <2>3. QED
    BY <2>1, <2>2
<1>6. ASSUME NEW r \in Request, Upgrade(r)
      PROVE  SInv'
  <2> DEFINE q == [req[r] EXCEPT !.at = "writing"]
  <2>1. CASE NobodyWrites /\ req[r].snap = db
    <3>1. req' = [req EXCEPT ![r] = q]
      BY <1>6, <2>1 DEF Upgrade
    <3>2. q.snap = db /\ WellFormed(q) /\ Agrees(q, db.tenant)
      BY <1>6, <1>a, <2>1 DEF WellFormed, Agrees, Upgrade
    <3>3. QED
      BY <1>6, <2>1, <3>1, <3>2, SlotStep DEF Upgrade
  <2>2. CASE ~(NobodyWrites /\ req[r].snap = db)
    BY <1>3, <1>6, <2>2 DEF Upgrade, Written
  <2>3. QED
    BY <2>1, <2>2
<1>7. ASSUME NEW r \in Request, Insert(r)
      PROVE  SInv'
  <2> DEFINE q == [at |-> "writing", claims |-> req[r].claims, op |-> req[r].op, snap |-> db]
  <2>1. CASE Outcome(db, ActorOf(req[r].claims), req[r].op) = Written
    <3>1. NobodyWrites /\ req' = [req EXCEPT ![r] = q]
      BY <1>7, <2>1 DEF Insert
    <3>2. WellFormed(q) /\ Agrees(q, db.tenant)
      BY <1>7, <1>a, <2>1 DEF WellFormed, Agrees, Insert
    <3>3. QED
      BY <1>7, <3>1, <3>2, SlotStep DEF Insert
  <2>2. CASE Outcome(db, ActorOf(req[r].claims), req[r].op) # Written
    BY <1>3, <1>7, <2>2 DEF Insert
  <2>3. QED
    BY <2>1, <2>2
<1>8. ASSUME NEW r \in Request, BusyTimeout(r)
      PROVE  SInv'
  BY <1>3, <1>8 DEF BusyTimeout, Written
<1>9. ASSUME NEW r \in Request, Commit(r)
      PROVE  SInv'
  BY <1>9, CommitStep
<1>10. ASSUME NEW r \in Request, Respond(r)
       PROVE  SInv'
  BY <1>4, <1>10 DEF Respond
<1>11. ASSUME NEW r \in Request, BootstrapReturned(r)
       PROVE  SInv'
  <2> DEFINE c == req[r].claims
             op == [f |-> "ClaimPendingSteward"]
  <2>1. c \in Claims /\ op \in SignInOp
    BY <1>11, <1>a DEF BootstrapReturned, WellFormed, SignInOp
  <2>2. WellFormed(Idle) /\ Agrees(Idle, db.tenant)
    BY DEF WellFormed, Agrees, Idle
  <2>3. c.tid = db.tenant => WellFormed(Calling(c, op)) /\ Agrees(Calling(c, op), db.tenant)
    BY <2>1 DEF WellFormed, Agrees, Calling
  <2>4. req[r].result = Written => c.tid = db.tenant
    BY <1>11, <1>a DEF BootstrapReturned, Agrees
  <2>5. mem' = mem \/ mem' = db.tenant
    BY <1>11, <2>4 DEF BootstrapReturned
  <2>6. \/ req' = [req EXCEPT ![r] = Idle]
        \/ c.tid = db.tenant /\ req' = [req EXCEPT ![r] = Calling(c, op)]
    BY <1>11, <2>4 DEF BootstrapReturned, Call, Answer
  <2>7. CASE req' = [req EXCEPT ![r] = Idle]
    BY <1>11, <2>2, <2>5, <2>7, SlotStep DEF BootstrapReturned, Idle
  <2>8. CASE c.tid = db.tenant /\ req' = [req EXCEPT ![r] = Calling(c, op)]
    BY <1>11, <2>3, <2>5, <2>8, SlotStep DEF BootstrapReturned, Calling
  <2>9. QED
    BY <2>6, <2>7, <2>8
<1>12. ASSUME NEW r \in Request, ClaimReturned(r)
       PROVE  SInv'
  <2>1. req[r].claims \in Claims /\ req[r].claims.tid = db.tenant
    BY <1>12, <1>a DEF ClaimReturned, WellFormed, Agrees
  <2>2. WellFormed(Idle) /\ Agrees(Idle, db.tenant)
    BY DEF WellFormed, Agrees, Idle
  <2>3. QED
    BY <1>12, <2>1, <2>2, SlotStep DEF ClaimReturned, Answer, Idle
<1>13. ASSUME NEW r \in Request, Cancel(r)
       PROVE  SInv'
  BY <1>3, <1>13 DEF Cancel, Written
<1>14. CASE Restart
  <2>1. \A r \in Request : req'[r] = Idle
    BY <1>14 DEF Restart
  <2>2. \A r \in Request : WellFormed(req'[r])
    BY <2>1 DEF WellFormed, Idle
  <2>3. WriterIsCurrent'
    BY <2>1 DEF WriterIsCurrent, Idle
  <2>4. TenantAgrees'
    BY <1>14, <1>b, <2>1 DEF TenantAgrees, Restart, Idle
  <2>5. QED
    BY <1>14, <2>2, <2>3, <2>4 DEF SInv, Restart
<1>15. CASE UNCHANGED vars
  BY <1>15 DEF vars, SInv, WriterIsCurrent, TenantAgrees
<1>16. QED
  BY <1>1, <1>2, <1>5, <1>6, <1>7, <1>8, <1>9, <1>10, <1>11, <1>12, <1>13, <1>14, <1>15
  DEF Next, Arrive, Work

-------------------------------------------------------------------------------
(* Theorems. *)

\* The inductive invariant holds of the process in every reachable state, for any
\* number of requests, users, tenants and rows.
THEOREM Invariant == Spec => []SInv
<1>1. QED
  BY InitSInv, NextSInv, PTL DEF Spec

\* No lost update: whoever holds the write lock holds it alone and decided on the
\* database it is about to replace.
THEOREM NoLostUpdate == Spec => []WriterIsCurrent
<1>1. SInv => WriterIsCurrent
  BY DEF SInv
<1>2. QED
  BY <1>1, Invariant, PTL

\* The tenant a process believes in, hands cookies out for, or lets write is the
\* one its database is bound to, through restarts and racing first sign-ins.
THEOREM OneTenant == Spec => []TenantAgrees
<1>1. SInv => TenantAgrees
  BY DEF SInv
<1>2. QED
  BY <1>1, Invariant, PTL

\* Requests that overlap are serialized: every step of the process is one call of
\* core on the committed database, or leaves it alone.
LEMMA StepSimulation == SInv /\ [Next]_vars => [Reg!Next]_db
<1> SUFFICES ASSUME SInv, [Next]_vars PROVE [Reg!Next]_db
  OBVIOUS
<1>1. ASSUME NEW r \in Request, Commit(r) PROVE Reg!Next
  <2>1. /\ ActorOf(req[r].claims) \in Actor
        /\ req[r].op \in Operation \cup SignInOp
        /\ Outcome(db, ActorOf(req[r].claims), req[r].op) = Written
        /\ req[r].snap = db
        /\ req[r].op.f # "Bootstrap" => db.tenant # NoTenant
    BY <1>1, CommitFacts DEF Commit
  <2>2. db' = Tx(db, ActorOf(req[r].claims), req[r].op)
    BY <1>1, <2>1 DEF Commit
  <2>3. QED
    BY <2>1, <2>2, CommitIsRegistryStep
<1>2. ASSUME NEW r \in Request, Arrive(r) \/ Cancel(r) PROVE db' = db
  BY <1>2 DEF Arrive, Admit, SignIn, Cancel
<1>3. ASSUME NEW r \in Request, Work(r), ~Commit(r) PROVE db' = db
  BY <1>3 DEF Work, Read, Upgrade, Insert, BusyTimeout, Respond, BootstrapReturned, ClaimReturned
<1>4. CASE Restart
  BY <1>4 DEF Restart
<1>5. CASE UNCHANGED vars
  BY <1>5 DEF vars
<1>6. QED
  BY <1>1, <1>2, <1>3, <1>4, <1>5 DEF Next

\* The process implements the registry: everything that holds of Registry!Spec, in
\* which a write is one step, holds of concurrent requests.
THEOREM Serializable == Spec => RegistrySpec
<1>1. Init => Reg!Init
  BY DEF Init, Reg!Init, EmptyDatabase, Reg!EmptyDatabase, NoRows, Reg!NoRows
<1>2. SInv /\ [Next]_vars => [Reg!Next]_db
  BY StepSimulation
<1>3. QED
  BY <1>1, <1>2, Invariant, PTL DEF Spec, RegistrySpec, Reg!Spec

-------------------------------------------------------------------------------
(* What Registry promises holds of the process: RegProofs is the theorems of *)
(* RegistryProofs and AuditTrailProofs about this database, and Spec         *)
(* implements their Spec.                                                    *)

RegProofs == INSTANCE AuditTrailProofs

\* A step of Reg is a step of the registry that RegistryProofs is about: the two
\* instances have the same constants and the same variable.
LEMMA SameRegistry == Reg!Next <=> RegProofs!Next
BY DEF
    Reg!Disabled, RegProofs!Disabled, Reg!Removed, RegProofs!Removed, Reg!SameUPN,
    RegProofs!SameUPN, Reg!ActiveStewards, RegProofs!ActiveStewards,
    Reg!IsActiveSteward, RegProofs!IsActiveSteward, Reg!IsActiveStewardByUPN,
    RegProofs!IsActiveStewardByUPN, Reg!PendingByUPN, RegProofs!PendingByUPN,
    Reg!GetPendingStewardByUPN, RegProofs!GetPendingStewardByUPN, Reg!NewId,
    RegProofs!NewId, Reg!Put, RegProofs!Put, Reg!Without, RegProofs!Without,
    Reg!InsertPerson, RegProofs!InsertPerson, Reg!UpdatePersonName,
    RegProofs!UpdatePersonName, Reg!InsertSystem, RegProofs!InsertSystem,
    Reg!UpdateSystemName, RegProofs!UpdateSystemName, Reg!SetDisabledBy,
    RegProofs!SetDisabledBy, Reg!InsertAssociation, RegProofs!InsertAssociation,
    Reg!DeleteAssociation, RegProofs!DeleteAssociation, Reg!InsertSteward,
    RegProofs!InsertSteward, Reg!SetRemovedBy, RegProofs!SetRemovedBy,
    Reg!InsertPendingSteward, RegProofs!InsertPendingSteward,
    Reg!DeletePendingSteward, RegProofs!DeletePendingSteward, Reg!BindTenant,
    RegProofs!BindTenant, Reg!InsertAudit, RegProofs!InsertAudit, Reg!Written,
    RegProofs!Written, Reg!Unchanged, RegProofs!Unchanged, Reg!AuditEntry,
    RegProofs!AuditEntry, Reg!WriteAudit, RegProofs!WriteAudit, Reg!CreatePersonTx,
    RegProofs!CreatePersonTx, Reg!RenamePersonOutcome, RegProofs!RenamePersonOutcome,
    Reg!RenamePersonTx, RegProofs!RenamePersonTx, Reg!CreateSystemOutcome,
    RegProofs!CreateSystemOutcome, Reg!CreateSystemTx, RegProofs!CreateSystemTx,
    Reg!RenameSystemOutcome, RegProofs!RenameSystemOutcome, Reg!RenameSystemTx,
    RegProofs!RenameSystemTx, Reg!DisableSystemOutcome,
    RegProofs!DisableSystemOutcome, Reg!DisableSystemTx, RegProofs!DisableSystemTx,
    Reg!EnableSystemOutcome, RegProofs!EnableSystemOutcome, Reg!EnableSystemTx,
    RegProofs!EnableSystemTx, Reg!LinkDetails, RegProofs!LinkDetails,
    Reg!CreateAssociationOutcome, RegProofs!CreateAssociationOutcome,
    Reg!CreateAssociationTx, RegProofs!CreateAssociationTx,
    Reg!RemoveAssociationOutcome, RegProofs!RemoveAssociationOutcome,
    Reg!RemoveAssociationTx, RegProofs!RemoveAssociationTx, Reg!BootstrapOutcome,
    RegProofs!BootstrapOutcome, Reg!BootstrapTx, RegProofs!BootstrapTx,
    Reg!PromoteStewardOutcome, RegProofs!PromoteStewardOutcome, Reg!PromoteStewardTx,
    RegProofs!PromoteStewardTx, Reg!DemoteStewardOutcome,
    RegProofs!DemoteStewardOutcome, Reg!DemoteStewardTx, RegProofs!DemoteStewardTx,
    Reg!CancelStewardInviteOutcome, RegProofs!CancelStewardInviteOutcome,
    Reg!CancelStewardInviteTx, RegProofs!CancelStewardInviteTx,
    Reg!ClaimPendingStewardOutcome, RegProofs!ClaimPendingStewardOutcome,
    Reg!ClaimPendingStewardTx, RegProofs!ClaimPendingStewardTx, Reg!Bound,
    RegProofs!Bound, Reg!Bootstrap, RegProofs!Bootstrap, Reg!ClaimPendingSteward,
    RegProofs!ClaimPendingSteward, Reg!CreatePerson, RegProofs!CreatePerson,
    Reg!RenamePerson, RegProofs!RenamePerson, Reg!CreateSystem,
    RegProofs!CreateSystem, Reg!RenameSystem, RegProofs!RenameSystem,
    Reg!DisableSystem, RegProofs!DisableSystem, Reg!EnableSystem,
    RegProofs!EnableSystem, Reg!CreateAssociation, RegProofs!CreateAssociation,
    Reg!RemoveAssociation, RegProofs!RemoveAssociation, Reg!PromoteSteward,
    RegProofs!PromoteSteward, Reg!DemoteSteward, RegProofs!DemoteSteward,
    Reg!CancelStewardInvite, RegProofs!CancelStewardInvite, Reg!SignIn,
    RegProofs!SignIn, Reg!WriteEntity, RegProofs!WriteEntity, Reg!WriteSteward,
    RegProofs!WriteSteward, Reg!Write, RegProofs!Write, Reg!Next, RegProofs!Next

\* Everything RegistryProofs shows of the registry's reachable states is true of the
\* database of a process that serves any number of requests at a time.
THEOREM RegistryInvariant == Spec => []RegProofs!IInv
<1>1. Init => RegProofs!Init
  BY DEF Init, RegProofs!Init, EmptyDatabase, RegProofs!EmptyDatabase, NoRows, RegProofs!NoRows
<1>2. Init => RegProofs!IInv
  BY <1>1, RegProofs!InitInv, ActorAssumption, TextAssumption
<1>3. SInv /\ RegProofs!IInv /\ [Next]_vars => RegProofs!IInv'
  <2>1. SInv /\ [Next]_vars => [RegProofs!Next]_db
    BY StepSimulation, SameRegistry
  <2>2. RegProofs!IInv /\ [RegProofs!Next]_db => RegProofs!IInv'
    BY RegProofs!NextInv, ActorAssumption, TextAssumption
  <2>3. QED
    BY <2>1, <2>2
<1>4. QED
  BY <1>2, <1>3, Invariant, PTL DEF Spec

\* What clients see of the database at any moment is consistent: ids in order, no
\* constraint broken, one standing per UPN, the tenant bound once, the log exact.
THEOREM ConsistentWhileServing ==
    Spec => [](/\ RegProofs!IdsIssuedInOrder
               /\ RegProofs!ConstraintsNeverFire
               /\ RegProofs!OneStandingPerUPN
               /\ RegProofs!BindingIsFirst
               /\ RegProofs!LogIsConsistent
               /\ RegProofs!LinksFollowLog)
<1>1. RegProofs!IInv => /\ RegProofs!IdsIssuedInOrder
                        /\ RegProofs!ConstraintsNeverFire
                        /\ RegProofs!OneStandingPerUPN
                        /\ RegProofs!BindingIsFirst
                        /\ RegProofs!LogIsConsistent
                        /\ RegProofs!LinksFollowLog
  BY DEF RegProofs!IInv, RegProofs!ConstraintsNeverFire, RegProofs!PendingUpnIsUnique,
         RegProofs!OneStandingPerUPN, RegProofs!SameUPN
<1>2. QED
  BY <1>1, RegistryInvariant, PTL

\* What AuditTrailProofs shows of the registry's steps is true of the process as well.
LEMMA ImplementsRegistry == Spec => RegProofs!Spec
<1>1. Init => RegProofs!Init
  BY DEF Init, RegProofs!Init, EmptyDatabase, RegProofs!EmptyDatabase, NoRows, RegProofs!NoRows
<1>2. SInv /\ [Next]_vars => [RegProofs!Next]_db
  BY StepSimulation, SameRegistry
<1>3. QED
  BY <1>1, <1>2, Invariant, PTL DEF Spec, RegProofs!Spec

\* The registry can be rebuilt from the log of a process that serves: requests that
\* overlap never change a table without the row that says so.
THEOREM LogRebuildsWhileServing == Spec => RegProofs!TrailSpec
<1>1. RegProofs!Spec => RegProofs!TrailSpec
  BY RegProofs!LogRebuildsRegistry, ActorAssumption, TextAssumption
<1>2. QED
  BY <1>1, ImplementsRegistry

\* Nothing a request does rewrites the record, and no invitation gets lost between
\* requests that overlap.
THEOREM RecordKeptWhileServing ==
    Spec => RegProofs!PermanentRecord /\ RegProofs!InvitesAreHonoured
<1>1. RegProofs!Spec => RegProofs!PermanentRecord
  BY RegProofs!RecordIsPermanent, ActorAssumption, TextAssumption
<1>2. RegProofs!Spec => RegProofs!InvitesAreHonoured
  BY RegProofs!InvitationsHonoured, ActorAssumption, TextAssumption
<1>3. QED
  BY <1>1, <1>2, ImplementsRegistry

\* What Registry calls a database is one.
LEMMA DatabaseTyped == RegProofs!IInv => IsDatabase(db)
BY DEF RegProofs!IInv, RegProofs!TypeOK, IsDatabase, RegProofs!IsDatabase,
       IsTable, RegProofs!IsTable, Person, RegProofs!Person, System, RegProofs!System,
       Association, RegProofs!Association, Steward, RegProofs!Steward,
       PendingSteward, RegProofs!PendingSteward, Sequence, RegProofs!Sequence,
       AuditRow, RegProofs!AuditRow, Details, RegProofs!Details, Action, RegProofs!Action

-------------------------------------------------------------------------------
(* Types of the requests in progress. *)

SlotTyped(q) ==
    /\ q.at \in {"read", "writing"} => IsDatabase(q.snap)
    /\ q.at = "returned" => q.result \in Results

\* Core returns nothing else.
LEMMA OutcomeTyped ==
    ASSUME NEW d, NEW a, NEW op \in Operation \cup SignInOp
    PROVE  Outcome(d, a, op) \in Results
BY OperationCases
DEF Outcome, Results, Written, Unchanged, RenamePersonOutcome, CreateSystemOutcome,
    RenameSystemOutcome, DisableSystemOutcome, EnableSystemOutcome,
    CreateAssociationOutcome, RemoveAssociationOutcome, PromoteStewardOutcome,
    DemoteStewardOutcome, CancelStewardInviteOutcome, BootstrapOutcome,
    ClaimPendingStewardOutcome

\* A snapshot is a committed database, and a result one that core or SQLite gives.
LEMMA SlotsTypedStep ==
    ASSUME SInv, IsDatabase(db), \A r \in Request : SlotTyped(req[r]), [Next]_vars
    PROVE  \A r \in Request : SlotTyped(req'[r])
<1> DEFINE Step(q) == \E r \in Request : req' = [req EXCEPT ![r] = q] /\ SlotTyped(q)
<1>1. ASSUME NEW q, Step(q) PROVE \A r \in Request : SlotTyped(req'[r])
  BY <1>1 DEF SInv
<1>2. ASSUME NEW r \in Request, NEW result \in Results, Return(r, result)
      PROVE  \E q : Step(q)
  <2> DEFINE q == [at |-> "returned", claims |-> req[r].claims, op |-> req[r].op,
                   result |-> result]
  <2>1. req' = [req EXCEPT ![r] = q] /\ SlotTyped(q)
    BY <1>2 DEF Return, SlotTyped
  <2>2. QED
    BY <2>1
<1>3. ASSUME NEW r \in Request, NEW c, NEW op, Call(r, c, op)
      PROVE  \E q : Step(q)
  <2>1. req' = [req EXCEPT ![r] = Calling(c, op)] /\ SlotTyped(Calling(c, op))
    BY <1>3 DEF Call, Calling, SlotTyped
  <2>2. QED
    BY <2>1
<1>4. ASSUME NEW r \in Request, Answer(r)
      PROVE  \E q : Step(q)
  <2>1. req' = [req EXCEPT ![r] = Idle] /\ SlotTyped(Idle)
    BY <1>4 DEF Answer, Idle, SlotTyped
  <2>2. QED
    BY <2>1
<1>5. ASSUME NEW r \in Request, req[r].at # "idle"
      PROVE  Outcome(db, ActorOf(req[r].claims), req[r].op) \in Results
  <2>1. req[r].op \in Operation \cup SignInOp
    BY <1>5 DEF SInv, WellFormed
  <2>2. QED
    BY <2>1, OutcomeTyped
<1>6. ASSUME NEW r \in Request, Arrive(r) PROVE \E q : Step(q)
  BY <1>3, <1>6 DEF Arrive, Admit, SignIn
<1>7. ASSUME NEW r \in Request, Read(r) PROVE \E q : Step(q)
  <2> DEFINE q == [at |-> "read", claims |-> req[r].claims, op |-> req[r].op, snap |-> db]
  <2>1. CASE Return(r, Outcome(db, ActorOf(req[r].claims), req[r].op))
    BY <1>2, <1>5, <1>7, <2>1 DEF Read
  <2>2. CASE req' = [req EXCEPT ![r] = q]
    <3>1. SlotTyped(q)
      BY DEF SlotTyped
    <3>2. QED
      BY <2>2, <3>1
  <2>3. QED
    BY <1>7, <2>1, <2>2 DEF Read
<1>8. ASSUME NEW r \in Request, Upgrade(r) PROVE \E q : Step(q)
  <2> DEFINE q == [req[r] EXCEPT !.at = "writing"]
  <2>1. CASE Return(r, "busy")
    BY <1>2, <2>1 DEF Results
  <2>2. CASE NobodyWrites /\ req[r].snap = db
    <3>1. req' = [req EXCEPT ![r] = q] /\ q.snap = db /\ q.at = "writing"
      BY <1>8, <2>2 DEF Upgrade, SInv, WellFormed
    <3>2. SlotTyped(q)
      BY <3>1 DEF SlotTyped
    <3>3. QED
      BY <3>1, <3>2
  <2>3. QED
    BY <1>8, <2>1, <2>2 DEF Upgrade
<1>9. ASSUME NEW r \in Request, Insert(r) PROVE \E q : Step(q)
  <2> DEFINE q == [at |-> "writing", claims |-> req[r].claims, op |-> req[r].op, snap |-> db]
  <2>1. CASE Return(r, Outcome(db, ActorOf(req[r].claims), req[r].op))
    BY <1>2, <1>5, <1>9, <2>1 DEF Insert
  <2>2. CASE req' = [req EXCEPT ![r] = q]
    <3>1. SlotTyped(q)
      BY DEF SlotTyped
    <3>2. QED
      BY <2>2, <3>1
  <2>3. QED
    BY <1>9, <2>1, <2>2 DEF Insert
<1>10. ASSUME NEW r \in Request, BusyTimeout(r) \/ Commit(r) \/ Cancel(r) PROVE \E q : Step(q)
  BY <1>2, <1>10 DEF BusyTimeout, Commit, Cancel, Results, Written
<1>11. ASSUME NEW r \in Request, Respond(r) \/ BootstrapReturned(r) \/ ClaimReturned(r)
       PROVE  \E q : Step(q)
  BY <1>3, <1>4, <1>11 DEF Respond, BootstrapReturned, ClaimReturned
<1>12. CASE Restart
  BY <1>12 DEF Restart, Idle, SlotTyped
<1>13. CASE UNCHANGED vars
  BY <1>13 DEF vars
<1>14. QED
  BY <1>1, <1>6, <1>7, <1>8, <1>9, <1>10, <1>11, <1>12, <1>13 DEF Next, Work

\* The database stays a database, and a request is always in one of its states.
THEOREM TypeCorrect == Spec => []TypeOK
<1> DEFINE Slots == \A r \in Request : SlotTyped(req[r])
<1>1. Init => Slots
  BY DEF Init, Idle, SlotTyped
<1>2. SInv /\ RegProofs!IInv /\ Slots /\ [Next]_vars => Slots'
  <2> SUFFICES ASSUME SInv, RegProofs!IInv, Slots, [Next]_vars PROVE Slots'
    OBVIOUS
  <2>1. \A r \in Request : SlotTyped(req'[r])
    BY SlotsTypedStep, DatabaseTyped
  <2>2. QED
    BY <2>1 DEF SlotTyped
<1>3. SInv /\ RegProofs!IInv /\ Slots => TypeOK
  BY DatabaseTyped DEF SInv, WellFormed, SlotTyped, TypeOK
<1>4. QED
  BY <1>1, <1>2, <1>3, Invariant, RegistryInvariant, PTL DEF Spec

-------------------------------------------------------------------------------
(* Who wrote the log: every writer was made a steward on record before. *)

\* The log of d has a row that made oid a steward.
WasMade(d, oid) ==
    \E m \in DOMAIN d.audit : MakesSteward(d.audit[m]) /\ d.audit[m].details.oid = oid

\* From d to e one row was logged, by a unless it makes a steward, and whoever is a
\* new steward of e was made one by it.
Records(d, e, a, row) ==
    /\ e.audit = Append(d.audit, row)
    /\ MakesSteward(row) \/ row.actor = a
    /\ \A i \in ActiveStewards(e) :
          \/ i \in ActiveStewards(d) /\ e.stewards[i].user_oid = d.stewards[i].user_oid
          \/ MakesSteward(row) /\ row.details.oid = e.stewards[i].user_oid

\* A transaction of a write request records what it did, by its actor.
LEMMA WriteRecords ==
    ASSUME NEW d, IsDatabase(d), NEW a \in Actor, NEW op \in Operation
    PROVE  \E row : Records(d, Tx(d, a, op), a, row)
<1>0. /\ {"persons", "systems", "associations", "stewards", "pending", "seq", "audit"} \subseteq DOMAIN d
      /\ d.stewards = [i \in DOMAIN d.stewards |-> d.stewards[i]]
      /\ \A i \in DOMAIN d.stewards : d.stewards[i] \in Steward
  BY DEF IsDatabase, IsTable
<1>1. CASE op.f = "CreatePerson"
  <2> DEFINE row == AuditEntry(a, "person.create", "person", NewId(d, "persons"), [name |-> Trim[op.name]])
             e == CreatePersonTx(d, a, op.name)
  <2>1. Tx(d, a, op) = e
    BY <1>1 DEF Tx
  <2>2. e.audit = Append(d.audit, row) /\ e.stewards = d.stewards
    BY <1>0 DEF CreatePersonTx, WriteAudit, InsertAudit, InsertPerson
  <2>3. row.actor = a
    BY DEF AuditEntry
  <2>4. QED
    BY <2>1, <2>2, <2>3 DEF Records, ActiveStewards
<1>2. CASE op.f = "RenamePerson"
  <2> DEFINE row == AuditEntry(a, "person.rename", "person", op.id,
                               [from |-> d.persons[op.id].name, to |-> Trim[op.name]])
             e == RenamePersonTx(d, a, op.id, op.name)
  <2>1. Tx(d, a, op) = e
    BY <1>2 DEF Tx
  <2>2. e.audit = Append(d.audit, row) /\ e.stewards = d.stewards
    BY <1>0 DEF RenamePersonTx, WriteAudit, InsertAudit, UpdatePersonName
  <2>3. row.actor = a
    BY DEF AuditEntry
  <2>4. QED
    BY <2>1, <2>2, <2>3 DEF Records, ActiveStewards
<1>3. CASE op.f = "CreateSystem"
  <2> DEFINE row == AuditEntry(a, "system.create", "system", NewId(d, "systems"), [name |-> Trim[op.name]])
             e == CreateSystemTx(d, a, op.name)
  <2>1. Tx(d, a, op) = e
    BY <1>3 DEF Tx
  <2>2. e.audit = Append(d.audit, row) /\ e.stewards = d.stewards
    BY <1>0 DEF CreateSystemTx, WriteAudit, InsertAudit, InsertSystem
  <2>3. row.actor = a
    BY DEF AuditEntry
  <2>4. QED
    BY <2>1, <2>2, <2>3 DEF Records, ActiveStewards
<1>4. CASE op.f = "RenameSystem"
  <2> DEFINE row == AuditEntry(a, "system.rename", "system", op.id,
                               [from |-> d.systems[op.id].name, to |-> Trim[op.name]])
             e == RenameSystemTx(d, a, op.id, op.name)
  <2>1. Tx(d, a, op) = e
    BY <1>4 DEF Tx
  <2>2. e.audit = Append(d.audit, row) /\ e.stewards = d.stewards
    BY <1>0 DEF RenameSystemTx, WriteAudit, InsertAudit, UpdateSystemName
  <2>3. row.actor = a
    BY DEF AuditEntry
  <2>4. QED
    BY <2>1, <2>2, <2>3 DEF Records, ActiveStewards
<1>5. CASE op.f = "DisableSystem"
  <2> DEFINE row == AuditEntry(a, "system.disable", "system", op.id, [name |-> d.systems[op.id].name])
             e == DisableSystemTx(d, a, op.id)
  <2>1. Tx(d, a, op) = e
    BY <1>5 DEF Tx
  <2>2. e.audit = Append(d.audit, row) /\ e.stewards = d.stewards
    BY <1>0 DEF DisableSystemTx, WriteAudit, InsertAudit, SetDisabledBy
  <2>3. row.actor = a
    BY DEF AuditEntry
  <2>4. QED
    BY <2>1, <2>2, <2>3 DEF Records, ActiveStewards
<1>6. CASE op.f = "EnableSystem"
  <2> DEFINE row == AuditEntry(a, "system.enable", "system", op.id, [name |-> d.systems[op.id].name])
             e == EnableSystemTx(d, a, op.id)
  <2>1. Tx(d, a, op) = e
    BY <1>6 DEF Tx
  <2>2. e.audit = Append(d.audit, row) /\ e.stewards = d.stewards
    BY <1>0 DEF EnableSystemTx, WriteAudit, InsertAudit, SetDisabledBy
  <2>3. row.actor = a
    BY DEF AuditEntry
  <2>4. QED
    BY <2>1, <2>2, <2>3 DEF Records, ActiveStewards
<1>7. CASE op.f = "CreateAssociation"
  <2> DEFINE row == AuditEntry(a, "association.create", "person", op.person,
                               LinkDetails(d, NewId(d, "associations"), op.system, Trim[op.foreign]))
             e == CreateAssociationTx(d, a, op.person, op.system, op.foreign)
  <2>1. Tx(d, a, op) = e
    BY <1>7 DEF Tx
  <2>2. e.audit = Append(d.audit, row) /\ e.stewards = d.stewards
    BY <1>0 DEF CreateAssociationTx, WriteAudit, InsertAudit, InsertAssociation
  <2>3. row.actor = a
    BY DEF AuditEntry
  <2>4. QED
    BY <2>1, <2>2, <2>3 DEF Records, ActiveStewards
<1>8. CASE op.f = "RemoveAssociation"
  <2> DEFINE row == AuditEntry(a, "association.remove", "person", op.person,
                               LinkDetails(d, op.id, d.associations[op.id].system_id,
                                           d.associations[op.id].foreign_id))
             e == RemoveAssociationTx(d, a, op.person, op.id)
  <2>1. Tx(d, a, op) = e
    BY <1>8 DEF Tx
  <2>2. e.audit = Append(d.audit, row) /\ e.stewards = d.stewards
    BY <1>0 DEF RemoveAssociationTx, WriteAudit, InsertAudit, DeleteAssociation
  <2>3. row.actor = a
    BY DEF AuditEntry
  <2>4. QED
    BY <2>1, <2>2, <2>3 DEF Records, ActiveStewards
<1>9. CASE op.f = "PromoteSteward"
  <2> DEFINE row == AuditEntry(a, "steward.invite", "steward", 0, [upn |-> Trim[op.upn]])
             e == PromoteStewardTx(d, a, op.upn)
  <2>1. Tx(d, a, op) = e
    BY <1>9 DEF Tx
  <2>2. e.audit = Append(d.audit, row) /\ e.stewards = d.stewards
    BY <1>0 DEF PromoteStewardTx, WriteAudit, InsertAudit, InsertPendingSteward
  <2>3. row.actor = a
    BY DEF AuditEntry
  <2>4. QED
    BY <2>1, <2>2, <2>3 DEF Records, ActiveStewards
<1>10. CASE op.f = "CancelStewardInvite"
  <2> DEFINE row == AuditEntry(a, "steward.uninvite", "steward", 0, [upn |-> d.pending[op.id].user_upn])
             e == CancelStewardInviteTx(d, a, op.id)
  <2>1. Tx(d, a, op) = e
    BY <1>10 DEF Tx
  <2>2. e.audit = Append(d.audit, row) /\ e.stewards = d.stewards
    BY <1>0 DEF CancelStewardInviteTx, WriteAudit, InsertAudit, DeletePendingSteward
  <2>3. row.actor = a
    BY DEF AuditEntry
  <2>4. QED
    BY <2>1, <2>2, <2>3 DEF Records, ActiveStewards
<1>11. CASE op.f = "DemoteSteward"
  <2> DEFINE row == AuditEntry(a, "steward.demote", "steward", op.id,
                               [oid |-> d.stewards[op.id].user_oid,
                                upn |-> d.stewards[op.id].user_upn])
             e == DemoteStewardTx(d, a, op.id)
  <2>1. Tx(d, a, op) = e
    BY <1>11 DEF Tx
  <2>2. /\ e.audit = Append(d.audit, row)
        /\ e.stewards = [d.stewards EXCEPT ![op.id].removed_by = a.upn]
    BY <1>0 DEF DemoteStewardTx, WriteAudit, InsertAudit, SetRemovedBy
  <2>3. row.actor = a
    BY DEF AuditEntry
  <2>4. a.upn # Null
    BY ActorAssumption, TextAssumption
  <2>5. ASSUME NEW i \in ActiveStewards(e)
        PROVE  i \in ActiveStewards(d) /\ e.stewards[i].user_oid = d.stewards[i].user_oid
    BY <1>0, <2>2, <2>4, <2>5 DEF ActiveStewards, Removed, Steward
  <2> HIDE DEF row, e
  <2>6. QED
    BY <2>1, <2>2, <2>3, <2>5 DEF Records
<1>12. op.f \in {"CreatePerson", "RenamePerson", "CreateSystem", "RenameSystem",
                 "DisableSystem", "EnableSystem", "CreateAssociation",
                 "RemoveAssociation", "PromoteSteward", "DemoteSteward",
                 "CancelStewardInvite"}
  BY DEF Operation, NamedOp, EntityOp
<1>13. QED
  BY <1>1, <1>2, <1>3, <1>4, <1>5, <1>6, <1>7, <1>8, <1>9, <1>10, <1>11, <1>12

\* A transaction of a sign-in records the steward it makes, or consumes an invitation
\* and leaves the log and the stewards as they are.
LEMMA SignInRecords ==
    ASSUME NEW d, IsDatabase(d), NEW a \in Actor, NEW op \in SignInOp
    PROVE  \/ \E row : Records(d, Tx(d, a, op), a, row) /\ MakesSteward(row)
           \/ Tx(d, a, op).audit = d.audit /\ Tx(d, a, op).stewards = d.stewards
<1>0. /\ {"tenant", "stewards", "pending", "seq", "audit"} \subseteq DOMAIN d
      /\ d.stewards = [i \in DOMAIN d.stewards |-> d.stewards[i]]
  BY DEF IsDatabase, IsTable
<1> DEFINE id == NewId(d, "stewards")
           With(by) == Put(d.stewards, id, [user_oid |-> a.oid, user_upn |-> a.upn,
                                            promoted_by |-> by, removed_by |-> Null])
<1>1. ASSUME NEW e, NEW by, NEW row, e.audit = Append(d.audit, row), e.stewards = With(by),
             MakesSteward(row), row.details.oid = a.oid
      PROVE  Records(d, e, a, row)
  <2>1. ASSUME NEW i \in ActiveStewards(e)
        PROVE  \/ i \in ActiveStewards(d) /\ e.stewards[i].user_oid = d.stewards[i].user_oid
               \/ e.stewards[i].user_oid = a.oid
    BY <1>1, <2>1 DEF ActiveStewards, Put, Removed
  <2>2. QED
    BY <1>1, <2>1 DEF Records
<1>2. CASE op.f = "Bootstrap"
  <2> DEFINE row == AuditEntry(a, "tenant.bootstrap", "tenant", 0,
                               [tenant_id |-> op.tid, first_steward_id |-> id,
                                oid |-> a.oid, upn |-> a.upn])
             e == BootstrapTx(d, a, op.tid)
  <2>1. Tx(d, a, op) = e
    BY <1>2 DEF Tx
  <2>2. e.audit = Append(d.audit, row) /\ e.stewards = With("bootstrap")
    BY <1>0 DEF BootstrapTx, WriteAudit, InsertAudit, InsertSteward, BindTenant, NewId
  <2>3. MakesSteward(row) /\ row.details.oid = a.oid
    BY DEF AuditEntry, MakesSteward
  <2> HIDE DEF row, e, With
  <2>4. QED
    BY <1>1, <2>1, <2>2, <2>3
<1>3. CASE op.f = "ClaimPendingSteward"
  <2> DEFINE invitation == GetPendingStewardByUPN(d, a.upn)
             inviter == d.pending[invitation].invited_by
             row == AuditEntry(a, "steward.promote", "steward", id,
                               [oid |-> a.oid, upn |-> a.upn, invited_by |-> inviter])
             e == ClaimPendingStewardTx(d, a)
  <2>1. Tx(d, a, op) = e
    BY <1>3 DEF Tx
  <2>2. CASE IsActiveSteward(d, a.oid)
    BY <1>0, <2>1, <2>2 DEF ClaimPendingStewardTx, DeletePendingSteward
  <2>3. CASE ~IsActiveSteward(d, a.oid)
    <3>1. e.audit = Append(d.audit, row) /\ e.stewards = With(inviter)
      BY <1>0, <2>3
      DEF ClaimPendingStewardTx, WriteAudit, InsertAudit, InsertSteward, DeletePendingSteward
    <3>2. MakesSteward(row) /\ row.details.oid = a.oid
      BY DEF AuditEntry, MakesSteward
    <3> HIDE DEF row, e, With, inviter
    <3>3. QED
      BY <1>1, <2>1, <3>1, <3>2
  <2>4. QED
    BY <2>2, <2>3
<1>4. QED
  BY <1>2, <1>3 DEF SignInOp

\* On record: every writer of the log, every active steward, and everybody whom a
\* write request was admitted for.
Warranted ==
    /\ EveryWriterWasSteward
    /\ \A i \in ActiveStewards(db) : WasMade(db, db.stewards[i].user_oid)
    /\ \A r \in Request : req[r].at # "idle" /\ req[r].op \in Operation =>
          WasMade(db, req[r].claims.oid)

\* A row more takes nobody off the record.
LEMMA WasMadeStays ==
    ASSUME NEW d, IsDatabase(d), NEW e, NEW row, e.audit = Append(d.audit, row), NEW oid
    PROVE  /\ WasMade(d, oid) => WasMade(e, oid)
           /\ MakesSteward(row) /\ row.details.oid = oid => WasMade(e, oid)
<1>1. /\ DOMAIN e.audit = 1..(Len(d.audit) + 1) /\ DOMAIN d.audit = 1..Len(d.audit)
      /\ Len(d.audit) \in Nat
      /\ e.audit[Len(d.audit) + 1] = row
      /\ \A m \in DOMAIN d.audit : e.audit[m] = d.audit[m]
  BY DEF IsDatabase
<1>2. QED
  BY <1>1 DEF WasMade

\* What a commit adds to the log is warranted by what the log already says.
LEMMA CommitWarranted ==
    ASSUME SInv, IsDatabase(db), Warranted, NEW r \in Request, Commit(r)
    PROVE  Warranted'
<1> DEFINE c == req[r].claims
           op == req[r].op
           a == ActorOf(c)
<1>1. /\ req[r].at = "writing" /\ a \in Actor /\ op \in Operation \cup SignInOp
      /\ db' = Tx(db, a, op)
  BY CommitFacts DEF Commit
<1>2. /\ DOMAIN req' = Request
      /\ \A s \in Request : s # r => req'[s] = req[s]
      /\ req'[r].claims = c /\ req'[r].op = op
  BY DEF Commit, Return, SInv
<1>3. CASE db'.audit = db.audit /\ db'.stewards = db.stewards
  <2>1. \A oid : WasMade(db, oid) => WasMade(db', oid)
    BY <1>3 DEF WasMade
  <2>2. EveryWriterWasSteward'
    BY <1>3 DEF Warranted, EveryWriterWasSteward
  <2>3. \A i \in ActiveStewards(db') : WasMade(db', db'.stewards[i].user_oid)
    BY <1>3, <2>1 DEF Warranted, ActiveStewards
  <2>4. \A s \in Request : req'[s].at # "idle" /\ req'[s].op \in Operation =>
           WasMade(db', req'[s].claims.oid)
    BY <1>1, <1>2, <2>1 DEF Warranted
  <2>5. QED
    BY <2>2, <2>3, <2>4 DEF Warranted, ActiveStewards, WasMade
<1>4. ASSUME NEW row, Records(db, db', a, row), op \in SignInOp => MakesSteward(row)
      PROVE  Warranted'
  <2>1. db'.audit = Append(db.audit, row)
    BY <1>4 DEF Records
  <2>2. \A oid : /\ WasMade(db, oid) => WasMade(db', oid)
                 /\ MakesSteward(row) /\ row.details.oid = oid => WasMade(db', oid)
    BY <2>1, WasMadeStays
  <2>3. EveryWriterWasSteward'
    <3>1. /\ DOMAIN db'.audit = 1..(Len(db.audit) + 1) /\ DOMAIN db.audit = 1..Len(db.audit)
          /\ Len(db.audit) \in Nat
          /\ db'.audit[Len(db.audit) + 1] = row
          /\ \A m \in DOMAIN db.audit : db'.audit[m] = db.audit[m]
      BY <2>1 DEF IsDatabase
    <3>2. ~MakesSteward(row) => WasMade(db, row.actor.oid)
      <4>1. ~MakesSteward(row) => op \in Operation /\ row.actor = a /\ a.oid = c.oid
        BY <1>1, <1>4 DEF Records, ActorOf
      <4>2. op \in Operation => WasMade(db, c.oid)
        BY <1>1 DEF Warranted
      <4>3. QED
        BY <4>1, <4>2
    <3>3. ASSUME NEW n \in DOMAIN db'.audit, ~MakesSteward(db'.audit[n])
          PROVE  \E m \in 1..(n - 1) : /\ MakesSteward(db'.audit[m])
                                       /\ db'.audit[m].details.oid = db'.audit[n].actor.oid
      <4>1. CASE n \in DOMAIN db.audit
        <5>1. PICK m \in 1..(n - 1) : /\ MakesSteward(db.audit[m])
                                      /\ db.audit[m].details.oid = db.audit[n].actor.oid
          BY <3>1, <3>3, <4>1 DEF Warranted, EveryWriterWasSteward
        <5>2. m \in DOMAIN db.audit
          BY <3>1, <4>1
        <5>3. QED
          BY <3>1, <4>1, <5>1, <5>2
      <4>2. CASE n = Len(db.audit) + 1
        <5>1. PICK m \in DOMAIN db.audit : /\ MakesSteward(db.audit[m])
                                           /\ db.audit[m].details.oid = row.actor.oid
          BY <3>1, <3>2, <3>3, <4>2 DEF WasMade
        <5>2. QED
          BY <3>1, <4>2, <5>1
      <4>3. QED
        BY <3>1, <3>3, <4>1, <4>2
    <3>4. QED
      BY <3>3 DEF EveryWriterWasSteward, MakesSteward
  <2>4. \A i \in ActiveStewards(db') : WasMade(db', db'.stewards[i].user_oid)
    BY <1>4, <2>2 DEF Warranted, Records
  <2>5. \A s \in Request : req'[s].at # "idle" /\ req'[s].op \in Operation =>
           WasMade(db', req'[s].claims.oid)
    BY <1>1, <1>2, <2>2 DEF Warranted
  <2>6. QED
    BY <2>3, <2>4, <2>5 DEF Warranted, ActiveStewards, WasMade
<1>5. CASE op \in Operation
  <2>1. op \notin SignInOp
    BY <1>5 DEF Operation, SignInOp, NamedOp, EntityOp
  <2>2. QED
    BY <1>1, <1>4, <1>5, <2>1, WriteRecords
<1>6. CASE op \in SignInOp
  BY <1>1, <1>3, <1>4, <1>6, SignInRecords
<1>7. QED
  BY <1>1, <1>5, <1>6

\* While the database stays, a request that goes on is the one that was admitted, and
\* one that is admitted is an active steward's.
LEMMA SlotWarranted ==
    ASSUME SInv, Warranted, db' = db, NEW r \in Request, NEW q,
           req' = [req EXCEPT ![r] = q],
           q.at # "idle" /\ q.op \in Operation => WasMade(db, q.claims.oid)
    PROVE  Warranted'
<1>1. \A s \in Request : req'[s] = IF s = r THEN q ELSE req[s]
  BY DEF SInv
<1>2. \A s \in Request : req'[s].at # "idle" /\ req'[s].op \in Operation =>
         WasMade(db, req'[s].claims.oid)
  BY <1>1 DEF Warranted
<1>3. QED
  BY <1>2 DEF Warranted, EveryWriterWasSteward, ActiveStewards, WasMade

LEMMA WarrantedStep == SInv /\ IsDatabase(db) /\ Warranted /\ [Next]_vars => Warranted'
<1> SUFFICES ASSUME SInv, IsDatabase(db), Warranted, [Next]_vars PROVE Warranted'
  OBVIOUS
<1>1. ASSUME NEW r \in Request, NEW q, db' = db, req' = [req EXCEPT ![r] = q],
             q.at # "idle" => req[r].at # "idle" /\ q.claims = req[r].claims /\ q.op = req[r].op
      PROVE  Warranted'
  <2>1. q.at # "idle" /\ q.op \in Operation => WasMade(db, q.claims.oid)
    BY <1>1 DEF Warranted
  <2>2. QED
    BY <1>1, <2>1, SlotWarranted
<1>2. ASSUME NEW r \in Request, NEW c, NEW op \in Operation, Admit(r, c, op) PROVE Warranted'
  <2>1. WasMade(db, c.oid)
    BY <1>2 DEF Admit, IsActiveSteward, Warranted
  <2>2. QED
    BY <1>2, <2>1, SlotWarranted DEF Admit, Call, Calling
<1>3. ASSUME NEW r \in Request, NEW c, NEW op \in SignInOp, Call(r, c, op), db' = db
      PROVE  Warranted'
  <2>1. op \notin Operation
    BY DEF Operation, SignInOp, NamedOp, EntityOp
  <2>2. QED
    BY <1>3, <2>1, SlotWarranted DEF Call, Calling
<1>4. [f |-> "ClaimPendingSteward"] \in SignInOp
  BY DEF SignInOp
<1>5. ASSUME NEW r \in Request, NEW c \in Claims, SignIn(r, c) PROVE Warranted'
  <2>1. [f |-> "Bootstrap", tid |-> c.tid] \in SignInOp
    BY DEF SignInOp, Claims
  <2>2. QED
    BY <1>3, <1>4, <1>5, <2>1 DEF SignIn
<1>6. ASSUME NEW r \in Request, NEW result, req[r].at # "idle", Return(r, result), db' = db
      PROVE  Warranted'
  BY <1>1, <1>6 DEF Return
<1>7. ASSUME NEW r \in Request, Answer(r), db' = db PROVE Warranted'
  BY <1>1, <1>7 DEF Answer, Idle
<1>8. ASSUME NEW r \in Request, Read(r) PROVE Warranted'
  <2> DEFINE q == [at |-> "read", claims |-> req[r].claims, op |-> req[r].op, snap |-> db]
  <2>1. CASE req' = [req EXCEPT ![r] = q]
    BY <1>1, <1>8, <2>1 DEF Read
  <2>2. CASE Return(r, Outcome(db, ActorOf(req[r].claims), req[r].op))
    BY <1>6, <1>8, <2>2 DEF Read
  <2>3. QED
    BY <1>8, <2>1, <2>2 DEF Read
<1>9. ASSUME NEW r \in Request, Upgrade(r) PROVE Warranted'
  <2> DEFINE q == [req[r] EXCEPT !.at = "writing"]
  <2>1. CASE req' = [req EXCEPT ![r] = q]
    <3>1. q.claims = req[r].claims /\ q.op = req[r].op
      OBVIOUS
    <3>2. QED
      BY <1>1, <1>9, <2>1, <3>1 DEF Upgrade
  <2>2. CASE Return(r, "busy")
    BY <1>6, <1>9, <2>2 DEF Upgrade
  <2>3. QED
    BY <1>9, <2>1, <2>2 DEF Upgrade
<1>10. ASSUME NEW r \in Request, Insert(r) PROVE Warranted'
  <2> DEFINE q == [at |-> "writing", claims |-> req[r].claims, op |-> req[r].op, snap |-> db]
  <2>1. CASE req' = [req EXCEPT ![r] = q]
    BY <1>1, <1>10, <2>1 DEF Insert
  <2>2. CASE Return(r, Outcome(db, ActorOf(req[r].claims), req[r].op))
    BY <1>6, <1>10, <2>2 DEF Insert
  <2>3. QED
    BY <1>10, <2>1, <2>2 DEF Insert
<1>11. ASSUME NEW r \in Request, BusyTimeout(r) \/ Cancel(r) PROVE Warranted'
  BY <1>6, <1>11 DEF BusyTimeout, Cancel
<1>12. ASSUME NEW r \in Request, Commit(r) PROVE Warranted'
  BY <1>12, CommitWarranted
<1>13. ASSUME NEW r \in Request, Respond(r) \/ ClaimReturned(r) PROVE Warranted'
  BY <1>7, <1>13 DEF Respond, ClaimReturned
<1>14. ASSUME NEW r \in Request, BootstrapReturned(r) PROVE Warranted'
  BY <1>3, <1>4, <1>7, <1>14 DEF BootstrapReturned
<1>15. CASE Restart
  <2>1. \A r \in Request : req'[r].at = "idle"
    BY <1>15 DEF Restart, Idle
  <2>2. db' = db
    BY <1>15 DEF Restart
  <2>3. QED
    BY <2>1, <2>2 DEF Warranted, EveryWriterWasSteward, ActiveStewards, WasMade
<1>16. CASE UNCHANGED vars
  BY <1>16 DEF vars, Warranted, EveryWriterWasSteward, ActiveStewards, WasMade
<1>17. QED
  BY <1>2, <1>5, <1>8, <1>9, <1>10, <1>11, <1>12, <1>13, <1>14, <1>15, <1>16
  DEF Next, Arrive, Work

\* Only somebody whom an earlier row of the log made a steward has written a row of the
\* log, although the check of the steward and the write are not one step.
THEOREM WritersWereStewards == Spec => []EveryWriterWasSteward
<1>1. Init => Warranted
  BY DEF Init, EmptyDatabase, NoRows, Idle, Warranted, EveryWriterWasSteward, ActiveStewards
<1>2. SInv /\ RegProofs!IInv /\ Warranted /\ [Next]_vars => Warranted'
  BY WarrantedStep, DatabaseTyped
<1>3. Warranted => EveryWriterWasSteward
  BY DEF Warranted
<1>4. QED
  BY <1>1, <1>2, <1>3, Invariant, RegistryInvariant, PTL DEF Spec

================================================================================
