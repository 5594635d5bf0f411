-------------------------------- MODULE Pages ---------------------------------
(***************************************************************************)
(* The read requests that take more than one query: the pages of package   *)
(* web, the API's list of stewards, and the export.  Each query runs by    *)
(* itself on the pool, so each sees the database of its own moment, and    *)
(* the registry moves on in between.                                       *)
(*                                                                         *)
(* A request is the sequence of its queries.  Left out: the search box,    *)
(* the order of the rows, and how they are printed.  Reads of a single     *)
(* query see one database and need no model.  The audit page is module     *)
(* AuditViewer, which also has the query of the log that an export makes.  *)
(***************************************************************************)
EXTENDS AuditViewer

CONSTANT Opened     \* the pages that clients open, with their entity

VARIABLES page,     \* the page being assembled or last assembled
          standing  \* the UPNs on the stewards page's books ever since it was opened

pageVars == <<viewerVars, page, standing>>

-------------------------------------------------------------------------------
(* store: the queries.  Rows are returned as a table, keyed by their ids. *)

Rows(t, ids) == [i \in ids |-> t[i]]

ListPersons(d) == d.persons
ListSystems(d) == Rows(d.systems, {i \in DOMAIN d.systems : ~Disabled(d.systems[i])})
ListDisabledSystems(d) == Rows(d.systems, {i \in DOMAIN d.systems : Disabled(d.systems[i])})
CountDisabledSystems(d) == Cardinality({i \in DOMAIN d.systems : Disabled(d.systems[i])})
ListAllAssociations(d) == d.associations
ListActiveStewards(d) == Rows(d.stewards, ActiveStewards(d))
ListPendingStewards(d) == d.pending

ListAssociationsForPerson(d, id) ==
    Rows(d.associations, {i \in DOMAIN d.associations : d.associations[i].person_id = id})

ListAuditForEntity(d, type, id) ==
    Rows(d.audit, {n \in DOMAIN d.audit : d.audit[n].entity_type = type
                                          /\ d.audit[n].entity_id = id})

\* ListAudit without a filter, and as many rows as it gives.
ListAuditNewest(d) ==
    Rows(d.audit, ToSet(ListAudit([Between(NoDay, NoDay) EXCEPT !.limit = MaxAuditLimit])))

IsRegistryEmpty(d) == DOMAIN d.persons = {} /\ DOMAIN d.systems = {}

\* One entity: a table of one row, or of none (404).
GetPerson(d, id) == Rows(d.persons, DOMAIN d.persons \cap {id})
GetSystem(d, id) == Rows(d.systems, DOMAIN d.systems \cap {id})

Result(d, q, id) ==
    CASE q = "persons" -> ListPersons(d)
      [] q = "empty" -> IsRegistryEmpty(d)
      [] q = "person" -> GetPerson(d, id)
      [] q = "links" -> ListAssociationsForPerson(d, id)
      [] q = "person_history" -> ListAuditForEntity(d, "person", id)
      [] q = "system" -> GetSystem(d, id)
      [] q = "system_history" -> ListAuditForEntity(d, "system", id)
      [] q = "active" -> ListSystems(d)
      [] q = "disabled" -> ListDisabledSystems(d)
      [] q = "disabled_count" -> CountDisabledSystems(d)
      [] q = "associations" -> ListAllAssociations(d)
      [] q = "stewards" -> ListActiveStewards(d)
      [] q = "pending" -> ListPendingStewards(d)
      [] q = "audit" -> ListAuditNewest(d)

-------------------------------------------------------------------------------
(* The handlers, as the queries they make, in their order. *)

\* Mutant: the welcome panel is decided on before the list is read.
PersonsPage_EmptyFirst == <<"empty", "persons">>

\* GET /persons as a steward sees it.
PersonsPage == <<"persons", "empty">>

\* Mutant: the history is read as soon as the person is known to exist.
PersonDetail_HistoryFirst == <<"person", "person_history", "links", "active">>

PersonDetail == <<"person", "links", "active", "person_history">>

SystemsPage == <<"active", "disabled_count">>

SystemDetail == <<"system", "system_history">>

StewardsPage == <<"stewards", "pending">>

\* Mutant: the log is read first.
ExportRegistry_LogFirst ==
    <<"audit", "persons", "active", "disabled", "associations", "stewards">>

ExportRegistry ==
    <<"persons", "active", "disabled", "associations", "stewards", "audit">>

Handler ==
    [PersonsPage |-> PersonsPage, PersonDetail |-> PersonDetail,
     SystemsPage |-> SystemsPage, SystemDetail |-> SystemDetail,
     StewardsPage |-> StewardsPage, ExportRegistry |-> ExportRegistry]

\* Other paths have no handler of several queries.
ASSUME OpenedAssumption == \A p \in Opened : p[1] \in DOMAIN Handler

-------------------------------------------------------------------------------

NoPage == [name |-> "none"]

PagesInit == ViewerInit /\ page = NoPage /\ standing = {}

\* A UPN that is a steward's or has an invitation.
OnBooks(d) == {d.stewards[i].user_upn : i \in ActiveStewards(d)}
              \cup {d.pending[i].user_upn : i \in DOMAIN d.pending}

Finished == page.name # "none" /\ DOMAIN page.got = {Handler[page.name][n] : n \in DOMAIN Handler[page.name]}

NotFound == page.name # "none" /\ \E q \in DOMAIN page.got \cap {"person", "system"} : DOMAIN page.got[q] = {}

Open(name, id) ==
    /\ page.name = "none" \/ Finished \/ NotFound
    /\ page' = [name |-> name, id |-> id, got |-> [q \in {} |-> {}]]
    /\ standing' = IF name = "StewardsPage" THEN OnBooks(db) ELSE {}
    /\ UNCHANGED viewerVars

Query ==
    /\ page.name # "none" /\ ~Finished /\ ~NotFound
    /\ LET q == Handler[page.name][Cardinality(DOMAIN page.got) + 1]
       IN page' = [page EXCEPT !.got = [x \in DOMAIN @ \cup {q} |->
                                            IF x = q THEN Result(db, q, page.id) ELSE @[x]]]
    /\ UNCHANGED <<viewerVars, standing>>

\* The registry moves on.
Elsewhere ==
    /\ \E t \in Times : WriteStamped(t)
    /\ page' = page
    /\ standing' = IF Finished THEN standing ELSE standing \cap OnBooks(db')

PagesNext == (\E p \in Opened : Open(p[1], p[2])) \/ Query \/ Elsewhere

PagesSpec == PagesInit /\ [][PagesNext]_pageVars

-------------------------------------------------------------------------------
(* Properties. *)

Done(name) == page.name = name /\ Finished

\* A row of the log that gives an entity this name.
Names(e, name) ==
    \/ e.action \in {"person.create", "system.create"} /\ e.details.name = name
    \/ e.action \in {"person.rename", "system.rename"} /\ e.details.to = name

Explained(history, row) == \E n \in DOMAIN history : Names(history[n], row.name)

\* A detail page never shows a state its own history does not account for: the name
\* comes from a row of it, every link was created in it, and a disabled system was
\* disabled in it, whatever was written while the page was assembled.
HistoryExplainsPage ==
    /\ Done("PersonDetail") =>
          /\ \A i \in DOMAIN page.got["person"] :
                Explained(page.got["person_history"], page.got["person"][i])
          /\ \A i \in DOMAIN page.got["links"] :
                \E n \in DOMAIN page.got["person_history"] :
                    CreatesLink(page.got["person_history"][n], i)
    /\ Done("SystemDetail") =>
          \A i \in DOMAIN page.got["system"] :
             LET s == page.got["system"][i]
                 history == page.got["system_history"]
             IN /\ Explained(history, s)
                /\ Disabled(s) => \E n \in DOMAIN history :
                                     /\ history[n].action = "system.disable"
                                     /\ history[n].actor.upn = s.disabled_by

\* The log in an export, unless it is cut off, accounts for every row in its other
\* files: the files disagree only in that the log may know more.
ExportIsAudited ==
    Done("ExportRegistry") /\ Cardinality(DOMAIN page.got["audit"]) < MaxAuditLimit =>
        LET log == page.got["audit"]
            Created(action, id) == \E n \in DOMAIN log :
                                      log[n].action = action /\ CreatedId(log[n]) = id
            systems == page.got["active"]
        IN /\ \A i \in DOMAIN page.got["persons"] :
                 Created("person.create", i) /\ Explained(log, page.got["persons"][i])
           /\ \A i \in DOMAIN systems : Created("system.create", i) /\ Explained(log, systems[i])
           /\ \A i \in DOMAIN page.got["disabled"] :
                 \E n \in DOMAIN log : log[n].action = "system.disable" /\ log[n].entity_id = i
           /\ \A i \in DOMAIN page.got["associations"] : Created("association.create", i)
           /\ \A i \in DOMAIN page.got["stewards"] :
                 \E n \in DOMAIN log : /\ log[n].action \in {"tenant.bootstrap", "steward.promote"}
                                       /\ log[n].details.oid = page.got["stewards"][i].user_oid

\* "The first-run welcome, which shows only until the first data lands" (store.go): it
\* is never shown above a list that has rows.
WelcomeMeansEmpty ==
    Done("PersonsPage") /\ page.got["empty"] => DOMAIN page.got["persons"] = {}

\* api/export.go: systems.csv is "active systems followed by disabled ones [...] the
\* complete-snapshot shape".  Does not hold: systems are never deleted, but one that
\* is enabled between the two queries is in neither answer, one disabled is in both.
SystemsExportedOnce ==
    Done("ExportRegistry") =>
        LET active == DOMAIN page.got["active"]
            disabled == DOMAIN page.got["disabled"]
        IN /\ active \cap disabled = {}
           /\ active \cup disabled = 1..Cardinality(active \cup disabled)

\* api/stewards.go: the list has "both the current active stewards and the outstanding
\* invitations".  Does not hold: who claims an invitation between the two queries is
\* in neither, though on the books at every moment.
NobodyIsMissing ==
    Done("StewardsPage") =>
        \A u \in standing :
            \/ \E i \in DOMAIN page.got["stewards"] : SameUPN(page.got["stewards"][i].user_upn, u)
            \/ \E i \in DOMAIN page.got["pending"] : SameUPN(page.got["pending"][i].user_upn, u)

===============================================================================
