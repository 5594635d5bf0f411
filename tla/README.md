# Xensus in TLA+

Xensus (Go, one process, one SQLite file) is a registry of the people of an
Entra tenant and of the systems they appear in. Any signed-in user of the tenant
may read it, *stewards* may write it, and an audit log is to be the permanent
record of everything that happened. This directory holds TLA+ modules of the
program, the TLC configurations that check them on small instances, and proofs
that TLAPS checks for all instances. Paths such as `core/stewards.go` are
relative to the repository's root.

## 1. Inventory

| Component | State it keeps | Operations | Interacts with | Module |
|---|---|---|---|---|
| Schema and statements (`migrations/`, `store/`) | tables `config`, `persons`, `systems`, `associations`, `stewards`, `pending_stewards`, `audit_log`; one AUTOINCREMENT sequence per table | one INSERT, UPDATE or DELETE per function | called by `core` inside a transaction, by the gates outside of one | Schema |
| Business rules (`core/`) | none | 11 write functions, `Bootstrap`, `ClaimPendingSteward` | each opens one transaction, reads, decides, writes its row and an audit row | Core, Registry |
| Audit trail (`core/audit.go`) | `audit_log` | `WriteAudit` | last write of nearly every transaction | AuditTrail |
| Sign-in (`auth/handlers.go`) | the bound tenant, cached in `Authenticator.tenantID` | `completeSignIn`: bind or check the tenant, claim an invitation, write a cookie | `core.Bootstrap`, `core.ClaimPendingSteward`, session store | Server |
| Gates (`auth/middleware.go`) | none (the steward bit is read afresh per request) | `Authenticate`, `RequireUser`, `RequireSteward` | cached tenant, `stewards` table | Server, Requests |
| Login flow and cookies (`auth/handlers.go`, `auth/session.go`) | two sealed cookies in the browser; the AES key in the process | `Login`, `Callback`, `Logout`; seal, open, expire, clear | Microsoft's pages, sign-in, gates | LoginFlow |
| SQLite and requests (`store/store.go`) | the database file, WAL, write lock | begin, read, upgrade, commit, roll back, checkpoint, recovery | everything | Server, PowerLoss |
| Handlers (`api/`, `web/`, `router.go`) | none | one route each; parse, call `core`, answer | gates in front, `core` behind | Requests |
| Read access policy (`config/`, `web/router.go`) | `XENSUS_STEWARD_ONLY` | which gate a read route gets; links; landing page | gates | Requests |
| Person ids (`id/`) | none | `Format`, `Parse` | every boundary | PersonId |
| Audit viewer (`store/audit.go`, `web/audit.go`, `api/audit.go`) | none | filters, caps, newest first by timestamp text; page, list, CSV | `audit_log` | AuditViewer |
| Pages and export (`web/`, `api/export.go`) | none | several queries each, on the pool | all tables | Pages |
| Migrations (`store/store.go`, `migrations/`) | `config.schema_version` and the schema | read the version, execute, record | process start | Migrations |
| Process (`main.go`, `server.go`) | where the start or the drain is; is there sign-in | start, listen, drain, exit | systemd, migrations | Process, Service |

What is hard, and what correctness means:

* **Concurrency.** A goroutine per request, a pool of connections, deferred
  transactions: nothing in the Go code orders two requests. Correct means that
  they are *serializable*: every commit is what one operation of `core` does to
  the current database.
* **Check and use apart.** The steward bit is read before the transaction of the
  write it admits. Correct would be that the deployment keeps a steward; it does
  not (finding 1).
* **A race on the first sign-in**, and a cache of its outcome in memory. Correct
  means that cache, cookies and database never disagree, and that whoever loses
  the race is treated as if they had come later (finding 2).
* **Identity.** Stewards are object ids, invitations are UPNs compared without
  case, and users get renamed. Correct means one standing per UPN and one active
  row per user, so that no constraint of the schema ever fires.
* **The log as the only record.** Associations are hard-deleted. Correct means
  that the tables can be rebuilt from the log, and no id means two things.
* **Reads of several queries.** No page and no export reads in a transaction.
  Correct means that what one answer shows could not be called wrong by the same
  answer: a state its own history explains, an export its own log accounts for.
* **Time as text.** Log rows are ordered and bounded by strings of different
  lengths. Correct means what the comparison of instants would select.
* **State in the browser.** The server keeps no session: order, age and origin of
  two cookies shared by all tabs decide who is signed in and where a sign-in ends.
* **Two front ends, four places for one policy.** Correct means that the API and
  the pages agree about each request, and gates, links and landing page about each
  surface.
* **Failure.** Lock time-outs, cancelled requests, process death between any two
  steps, loss of power, a start that dies in a migration. Correct means both rows
  or neither, an invitation that survives a failed claim, no request that hangs,
  and a service that only serves a database it can serve.

The hazards, line by line, are in `PROJECT.json`.

## 2. Modules

```
Schema ------- the database as a value; the store package's statements as operators
 |   \
 |    AuditTrail ------ what the audit log promises (abstract)
 |         ^
Core       | implements: Registry!TrailSpec
 |  \      |
 |   Registry --------- core's functions as atomic steps
 |    |  |  |  ^
 |    |  |  |  | implements: Server!RegistrySpec
 |    |  |  |  Server (with Operations): concurrent requests, locks, sign-in, restarts
 |    |  |  PowerLoss: what a loss of power does to the registry
 |    |  AuditViewer -- Pages: answers made of several queries while the registry moves
 |    Requests (with Operations, PersonId): routes, gates, policy, answers
Operations --- core's calls as data

Process ---------- a service whose database opens in one step (abstract)
   ^
   | implements: Service!ImplementsProcess
Service ---------- Process composed with Migrations
Migrations ------- the migration runner, statement by statement

Texts ------------ what PersonId makes of every text

LoginFlow -------- browser tabs, cookies, Microsoft's page, the callback

MCRegistry, MCServer, MCPowerLoss, MCReads, MCRequests, MCService, MCLoginFlow
                   small instances for TLC
RegistryProofs, AuditTrailProofs, ServerProofs, PowerLossProofs, ReadsProofs (of
AuditViewer and Pages), RequestsProofs, ServiceProofs (and of Migrations), LoginFlowProofs
                   theorems (section 5)
```

Operators named `F_Something`, each introduced as a mutant, are plausible bugs: no
specification uses them; they are put in the place of `F` to see that a property
notices.

**Schema.** A database is a record whose fields are tables (functions from ids to
rows), `seq` (the AUTOINCREMENT counters) and `audit` (a sequence, in the order
of insertion). `InsertPerson`, `UpdatePersonName`, ... are the statements, named
as in `store/`. The constraints the schema declares are the predicates
`ForeignKeysHold`, `ActiveOidIsUnique` and `PendingUpnIsUnique`; the statements do
not enforce them, so that "core never runs into a constraint error" is something
to check and not something assumed. Text is abstract: `Trim` and `Lower` are
functions given as constants, so blank, padded and case-colliding names exist in
the instances, and `removed_at`/`disabled_at` are represented by the `_by` column
next to them. Timestamps are left out here; AuditViewer adds those of the log.

**Core.** For each function `F` of `core/`, `FOutcome` is what its reads decide
(`Written`, the error, or `Unchanged` for the documented no-ops) and `FTx` the
database its commit leaves, audit row included. Both are used by Registry (in one
step), by Server (in several) and by Requests (with the answer). The checks for an
empty actor OID are left out: the verifier refuses tokens without an oid.
**Operations** has the calls as records, for the modules in which clients choose them.

**Registry.** One variable, `db`, and one action per function. `Spec` allows any
signed-in user to be the actor, which is all `core` itself checks. `GatedSpec`
adds the steward check in the same step. Refused and no-op calls are stuttering.

**AuditTrail.** State: the tables and the log. The only action appends a row and
applies it. `Apply` knows nothing of counters, lookups or checks, so implementing
this module means that the tables (ids, `created_by`, `disabled_by`,
`removed_by` included) are recoverable from the log. Invitations are left out
of `tables`: the row of an invitation does not carry its id, and one path of the
code consumes one without any row (finding 3).

**Server.** `mem` is `Authenticator.tenantID`; `sessions` the claims of the cookies
the running process can decrypt; `req[r]` a request in progress:

| `at` | Meaning | Leaves by |
|---|---|---|
| `idle` | no request | `Admit` (gates passed), `SignIn` (Entra vouched for the claims) |
| `begin` | `core` has been called | `Read`; `Insert` or `BusyTimeout` when the first statement is an INSERT; `Cancel` |
| `read` | snapshot taken, decided to write | `Upgrade`; `Cancel` |
| `writing` | holds the write lock | `Commit`; `Cancel` |
| `returned` | `core` has returned `result` | `Respond`, `BootstrapReturned`, `ClaimReturned` |

SQLite is modelled from how the program opens it (`store/store.go:40-44`: WAL,
`busy_timeout(5000)`) and uses it (`BeginTx(ctx, nil)`, a deferred transaction):
a transaction sees the snapshot of its first statement; the first write after a
read succeeds only if nobody writes and nobody has committed since, and otherwise
fails *at once*, because a busy handler cannot make a stale snapshot newer; a
transaction that begins with a write (`CreatePerson`, `CreateSystem`) waits for
the lock at most `busy_timeout`. "Nobody has committed since" is written
`req[r].snap = db`: every commit adds an audit row or consumes an invitation
whose id is never issued again, so a database never returns to an earlier value.
Any error rolls back and becomes a 500; no handler retries. `Cancel` is the
client's context, which fails the next statement or the COMMIT. `Restart` is the
process dying at any moment and starting again: `auth.New` reads the tenant from
the database, and the cookies survive if and only if `XENSUS_SESSION_KEY` is set
(`KeyConfigured`).

Sign-in: `SignIn` is the branch on `getTenant`; `BootstrapReturned` is the
`switch` after `core.Bootstrap`, with `setTenant`; `ClaimReturned` writes the
cookie whether or not the claim succeeded, as the code does. Refusals before `core`
is called change nothing and are not steps here; Requests has them. Cookie expiry
and logout are covered as a cookie that nobody sends again; LoginFlow has them.

**PowerLoss.** `kept` is the checkpointed database followed by one for every commit
since: what a loss of power may leave with `synchronous=NORMAL` (`store/store.go:43`).
`Commit` wraps a step of Registry; `Checkpoint` and `PowerLoss` are SQLite's. `told`
remembers the ids that were handed out.

**AuditViewer.** Adds to Registry `stamps`, the time of each log row, and `view`, the
page or answer being made. A timestamp is formatted as the sequence of its parts with trailing zeros
dropped, as RFC3339Nano does, and compared part by part as SQLite compares TEXT; bounds,
order, cap, dropdown and links are those of `store.ListAudit`, `dayLowerBound`,
`dayUpperBound` and the two handlers. `Text` tabulates the text of each instant, and
`Sorted` puts the rows selected in order by counting, for each, the rows before it. The
page is two steps, `Audit` and `AuditQueries`, one for each of its queries; the API's list
and the CSV are one (`Ask`).

**Pages.** A request is the sequence of its queries (`PersonDetail`, `SystemDetail`,
`StewardsPage`, `ExportRegistry`, ...), each answered from the database of its own
moment; `Open`, `Query` and `NotFound` make progress on one page while `Elsewhere` is
a write. Reads of one query see one database and need no steps. `Opened` limits the pages
an instance opens to some of those there are (`OpenedAssumption`).

**PersonId.** `id.Parse`, `id.Format` and `strconv.ParseInt` on sequences of
characters, with the bound of the integers (`MaxId`) and the padding as constants. What
digits come to (`Values`) and the digits of a number (`DigitsOf`) are recursive functions.

**Texts.** All texts over an alphabet, typed one character at a time, and what the doc
comment of `id.Parse` says of them: which ones it accepts, and as what number (`Meanings`
defines that without parsing, from the beginnings the comment lists, zeros as its tests
have them, and the digits of a number).

**Requests.** The table of routes (`ApiReads`, `ApiWrites`, `WebReads`, `WebWrites`), the
gate of each under the policy `access`, the parsing of path and body, the call of
Core, and the status or redirect that each outcome gets in each front end. A request
is one step, whose `reply` records what was asked, by whom, and the answer. The mux's
`{id}` is written `<id>`, and `RowId` is what the ids that clients write stand for
(`RequestsAssumption`, which also says that an id in a request is a sequence of
characters). The id of a system in a body is a JSON number in the API and a text in a form;
`SystemText` has the notations that both can have or both refuse, so a form's "+1" or "01",
which no JSON body can say, is not among them.

**LoginFlow.** Tabs of one browser with a shared `jar`. A tab is on a page, at
Microsoft's, back with the callback's query, or waiting for the exchange; `Login`,
`Refuse`, `Exchange`, `CompleteSignIn`, `Logout` and `Visit` are the handlers; `Fault` is a
failure of the exchange, of the token's verification, of a query or of the session's
sealing, after which the tenant may or may not have been bound. A cookie
carries the key that sealed it and its expiry. `Exchange` and `CompleteSignIn` are
apart because the server waits for Microsoft between them; what a response does to
the cookies happens when it arrives: a callback on its way when the user signs out in
another tab signs them in again, and nothing in the repository says otherwise. The
comment at `auth/handlers.go:58-59` has the nonce verified before the exchange; it can
only be after it, since the ID token is what the exchange returns, and that is what the
code and the model do.

**Migrations.** `schema` is the set of statements in effect, `version` the recorded
one, `known` the migrations of the installed binary, `proc` the runner: `ReadVersion`,
`Execute` (one statement: the file is executed in one `Exec` but not in a
transaction), `Record`. `Install` puts another binary in place, older or newer.

**Process.** From `main` through `Run` to the exit: `FromEnv`, `OpenStore`,
`NewAuthenticator`, `Listen`, requests, `Signal`, `Shutdown` with its deadline, and
systemd's restarts after a failure. The unit the README sets up has `Restart=on-failure`
and leaves systemd's start limit as it is, so `Restart` happens at most `Burst` times in an
interval (`starts` counts them, `IntervalEnds` forgets them); after that the unit stays
failed (`GaveUp`) until somebody starts it (`StartAgain`, which may find the count at zero).
`env` is what a start depends on and may change.

**Service.** Process and Migrations side by side: the step `OpenStore` is replaced by
the runner's steps (`Open`, `Migrate`, `OpenFails`), kills and signals may come between
any two of them, and `Replace` installs another binary between two runs. `Seen` is the
refinement mapping: to an observer a failed migration is a database that does not open.

## 3. Runs

A run answers one question, some of them over several *scenarios*: an extra variable
picks in the initial state which clients there are and which bounds apply, so that one
run explores each at the depth it needs.

| Run | Question | Scenarios and bounds | Distinct states |
|---|---|---|---|
| `Registry` | Do the rules of core keep ids, constraints, standing, log and tables right, in every order of calls, and does the log rebuild the tables? | *stewards*: sign-ins, invitations, demotions of three users under five identities; *entities*: one user, who is renamed on the way, writes persons, systems, links; 6 log rows each | 2.5 million |
| `Registry_unrecorded` | Is every change recorded? | stewards | violation (finding 3) |
| `PowerLoss` | Does a steward remain if check and write are one step, and is what a loss of power leaves consistent? | *gate*: 8 log rows, no loss; *loss*: 6 rows, up to 3 commits at stake | 984 000 |
| `Server_signin` | Concurrent sign-ins of two tenants with steward operations, cancellations, restarts: admitted writers, answers, the learned tenant | two requests, 6 rows | 71 000 |
| `Server_mixed` | All kinds of writes at a time, with API tokens of a foreign tenant and an ephemeral key: no stale write, cache and database agree, the database follows Registry | two requests, 4 rows | 515 000 |
| `Server_lockout` | Can concurrent requests leave no steward? | two stewards | violation (finding 1) |
| `Server_lostrace` | Does the loser of the first sign-in always learn of the binding? | | violation (finding 2) |
| `Reads` | Do pages, exports and the audit log's filters tell a consistent story while others write? | *order*: rows at any of six instants, a clock that may be set back; *audit*: the audit page; *details*, *export*, *stewards*, *lists*: pages; 3 to 5 rows | 248 000 |
| `Reads_newest` | Is the log listed newest first? | order | violation (finding 4) |
| `Requests` | Do both front ends agree, with the policy, with each other and with the database, and are documented ids read as such? | *access*: every setting, route, reader; *entities*, *stewards*: writes; *texts*: every text of up to 5 of 8 characters | 57 000 |
| `Service` | Through kills, signals, failing disks, upgrades and downgrades: what is served, what stops, what recovers? | three migrations of 3, 1 and 2 statements, two requests, a start limit of 2 | 315 000 |
| `LoginFlow` | With one cookie for all tabs: is an exchange in time and of its own attempt, is every session of the tenant, and do sign-ins end where their tab asked? | two tabs, three users of two tenants, 3 logins, 2 ticks, one fresh key | 3.7 million |

The properties:

* `ConstraintsNeverFire`, `OneStandingPerUPN`: the lookups of `core` subsume the
  schema's constraints and the one rule the schema does not state.
* `BindingIsFirst`, `IdsIssuedInOrder`, `LogIsConsistent`, `LinksFollowLog`: the
  log taken by itself, and against the tables and the sequences.
* `PermanentRecord`, `InvitesAreHonoured`: what a step may never do.
* `TrailSpec`, `RegistrySpec`, `ImplementsProcess`: the three refinements. The second is
  the serializability of the server: each of its commits is one step of Registry.
* `SomeStewardRemains` (with the check in the same step) and `EveryRecoveryIsConsistent`.
* `WriterIsCurrent`, `TenantAgrees`, `EveryWriterWasSteward`: concurrency, cache
  and gate. The last says of each row of the log that its actor had *become* a
  steward earlier in the log. That the actor *still* is one when the write commits
  is false for the reason of finding 1, and is not claimed.
* `HistoryExplainsPage`, `ExportIsAudited`, `WelcomeMeansEmpty`, `EveryShownRowIsFindable`:
  one answer of several snapshots does not contradict itself. They hold because of the
  *order* of the queries (the history last, the log last, emptiness last), which is what
  their mutants swap.
* `DayFiltersAreExact`, `WindowIsNewest`: what text comparison selects is what
  comparing instants would, up to the ties of finding 4.
* `OnePolicy`, `LandingIsReadable`, `RedirectsLand`, `TwinsAgree`, `AnswerIsTrue`,
  `DocumentedTextsAreRead`: the policy in its four places, redirects that lead to a page,
  the two front ends against each other and against what happened, ids against their
  documented grammar (but for a plus sign, see section 4).
* `ServesMigrated`, `FailsOnlyOnRuins`: what a process may serve, and why a start may fail.
* `SessionsAreOfTheTenant`, `CodesMeetTheirAttempt`, `LandsWhereAsked`,
  `ExchangesAreInTime`: the cookies. The last relates the cookie that all tabs share to the
  tab an exchange is for: what bounds its age is the cookie of its own attempt.
* `EveryRequestAnswered`, `TenantIsLearned`, `StopEnds`, `ServesOrIsGivenUp`: liveness.
  `ServesOrIsGivenUp` has four outcomes, two of which are not what one would wish for:
  systemd gives the unit up, and starts that fail for ever on a migration that an earlier
  one left half done. No fifth one, such as a process that failed and is not started, is
  possible.

### Bounds

* The length of the log (`MaxAudit`) limits the number of effective operations: 6 for
  the registry (bind, invite, claim, demote, invite again, claim again; or two entities,
  a link, its removal, a new link), 8 where a last steward has to get lost, 4 to 6 for
  the server. In the server no request *arrives* beyond it; those in progress finish.
* Users: up to three object ids with UPNs that differ by case, by padding, are blank,
  are taken over by another user or change for the same user (`MCRegistry!MCActor`).
  Every rule about standing relates at most two users; the third can hold the place of
  an uninvolved steward. Tenants are only compared, hence `TenantSymmetry`.
* Requests: two at a time, which suffices for every race in the code: each
  conflict is between one reader-then-writer and one other committer. The slots
  are interchangeable, hence the symmetry set (not used for liveness).
* `RowId`, the ids in request paths, reaches past the rows that exist, so that
  requests for missing rows occur.
* Pages: one page at a time; readers do not disturb one another. A page has at most six
  queries, and 3 to 5 rows of log put a write between any two of them.
* Time in AuditViewer: two digits of base 2, two seconds a day, three days. That is
  enough for a fraction of each length, none included, for neighbours across a second
  and a day, and for the calendar's last day.
* Texts of five characters reach past the limit of the integers (`MaxId` is 120), and
  past the padding (`Width` is 2).
* LoginFlow: a second tab is all that a first one can be disturbed by; both ages are one
  tick of two, so cookies expire; three attempts let one be replaced twice.
* Service: a first migration with a statement after CREATE and INSERT, one of a single
  statement and one of two; `Drain` of one tick; `Burst` of two, so that there is
  one restart before systemd gives up and a count to be reset.

`CHECK_DEADLOCK FALSE` is set where the bound on the log stops the instance (Registry,
PowerLoss, Reads, Requests). Server, Service and LoginFlow are checked for deadlock.

### Fairness

`Server`: `FairSpec` assumes weak fairness of `Work(r)`, the next step the process makes
for a request that has arrived. Goroutines are scheduled fairly, no handler has
an unbounded wait, and the single wait for a lock ends by `busy_timeout`. Nothing
is assumed of clients, cancellations, restarts, or who gets the lock. Queues
are not needed for `EveryRequestAnswered` precisely because a loser is refused
and nobody retries; `Respond_Retries`, a handler that does, breaks the property.
`TenantIsLearned` holds because the process that binds the tenant stores it
before it answers, and one that dies in between reads it when it starts.

`Service`: weak fairness of `RunOn` (the program runs on), of the clock of the drain,
and of systemd's restart of a failed service that was not told to stop, which its start
limit guards (`Restart`): a failure that recurs within milliseconds is final after `Burst`
starts, five by default. No request need ever be answered, and no fairness is assumed of
operators, signals, repairs or the end of an interval; what `ServesOrIsGivenUp` needs of
the environment is in its premise `Undisturbed`: config, disk and port are all right from
some moment on, and nothing kills the process. `StopEnds` needs the clock of the drain and
nothing of the clients.

## 4. Findings

1. **Lock-out by mutual removal** (`auth/middleware.go:68`, `core/stewards.go:104`;
   run `Server_lockout`). README: "a deployment can never be left with no one able
   to maintain it". Ann and Bob, the only stewards, remove each other. Both
   requests pass `RequireSteward`; Ann's transaction commits; Bob's begins after
   that, sees Ann's row active and not his own, and commits too. Inside the
   transaction nothing asks whether the actor is still a steward or whether a
   steward would remain. Afterwards no write is admitted, and `Bootstrap` refuses a
   bound deployment. The scenario *gate* of run `PowerLoss`, and the theorem
   `StewardRemains`, show that reading the steward bit in the same transaction would
   be enough.
2. **Lost first sign-in** (`auth/handlers.go:149`; run `Server_lostrace`). The
   comments say that the loser of the race is told `ErrAlreadyBound` and falls
   through. That is so if the loser reads after the winner's commit. If it read
   before, its UPDATE fails with `SQLITE_BUSY`, and the sign-in ends in a 500. No
   data is harmed, and a second attempt works.
3. **An unrecorded change** (`core/stewards.go:216-226`; run `Registry_unrecorded`).
   README: "Nothing mutates the registry without leaving a record of who did it and
   when". A steward who is renamed, invited under the new UPN and signs in consumes
   the invitation without an audit row.
4. **Newest is not always first** (`store/audit.go:125`; run `Reads_newest`).
   `store/audit.go:189`: "Stored timestamps are RFC3339 UTC, which sort lexically". The
   format drops trailing zeros, so of two rows of one second the older may have the text
   that sorts last ("...:05Z" after "...:05.1Z"), on the page, in the API, in the CSV.

The following disagreements between the program and what it says of itself have a
configuration of their own too, in which TLC finds the behaviour.

| Configuration | Property | Source | What happens |
|---|---|---|---|
| `Reads_lastday` | `ToDayIsInclusive` | `store/audit.go:208` | "From/To are inclusive [...] calendar days" (line 82). The day after 9999-12-31 is formatted "10000-01-01", which sorts before every timestamp: a To of that day selects nothing. |
| `Reads_association` | `AssociationsAreFiledAsOffered` | `web/audit.go:17` | "They mirror the entity_type values core writes" (line 14). The filter offers "association"; core files associations under their person, so it lists nothing. |
| `Reads_csv` | `CsvIsTheFullSet` | `api/audit.go:67` | "download the CSV for the full set" (`web/templates/audit.html:55`). The CSV has at most `MaxAuditLimit` rows and does not say when it was cut. |
| `Reads_systems` | `SystemsExportedOnce` | `api/export.go:26` | "the complete-snapshot shape" (line 98). Active and disabled systems are two snapshots: a system enabled in between is in neither list, one disabled is in both. |
| `Reads_stewards` | `NobodyIsMissing` | `api/stewards.go:53` | "both the current active stewards and the outstanding invitations" (line 49). Whoever claims an invitation between the two queries is in neither list. |
| `Requests_signin` | `SignInLandsOnAPage` | `web/router.go:109` | "the user lands where they tried to go" (`auth/handlers.go:22`). Sent to sign in from a POST, the browser comes back with a GET of a path that mostly has no page (405). |
| `Requests_sign` | `OnlyDocumentedIsAccepted` | `id/id.go:32` | "accepts either the canonical form ("X-000123", case-insensitive, dash optional) or a bare integer string ("123")" (lines 20-21). strconv.ParseInt takes a sign: "+5", "X+5" and "X-+5" are accepted as 5. |
| `Service_version` | `VersionIsReadable` | `store/store.go:145` | "returns 0 before the very first migration has run [...] and the persisted schema_version value afterwards" (line 131). A crash between CREATE TABLE config and the INSERT of its row leaves a table without a row, and every later start fails with "no rows in result set". |
| `Service_noauth` | `AuthIsOffOnlyByChoice` | `server.go:38` | "because the deployment isn't bound yet or OIDC env vars are unset" (`router.go:18`). Any error of `auth.New`, a discovery document that cannot be fetched at that moment or a malformed key, leaves a service that answers nothing but `/health` until it is restarted. |
| `PowerLoss_reused` | `IdsAreNeverReused` | `store/store.go:43` | "IDs are never reused" (`README.md:28`). A loss of power may take the last commits with the sequence; the next person gets an id that was already handed out. |
| `LoginFlow_tabs` | `PromptLoginsLand` | `auth/handlers.go:70` | "preserved through the round-trip so the user lands where they tried to go" (line 22). The login cookie is shared: a second login replaces it, the first callback fails with "state mismatch" and clears it, and the second fails as well. |

## 5. Proofs

`RegistryProofs` proves, of `Registry!Spec` and for every set of users, tenants,
names, ids and every `Trim` and `Lower` that satisfy the assumptions
`ActorAssumption` and `TextAssumption` of Schema (an actor is an object id with a
UPN; trimming and lower-casing map texts to texts; NULL, the empty string and
"no tenant" are not confused with values):

| Theorem | Establishes |
|---|---|
| `TypeCorrect` | `[]TypeOK` |
| `IdsNeverReused` | `[]IdsIssuedInOrder` |
| `NoConstraintError` | `[]ConstraintsNeverFire` |
| `OneStanding` | `[]OneStandingPerUPN` |
| `BoundOnce` | `[]BindingIsFirst` |
| `LogConsistent` | `[]LogIsConsistent` |
| `LinksMatchLog` | `[]LinksFollowLog` |
| `StewardRemains` | `GatedSpec => []SomeStewardRemains` |

The argument. All follow from one inductive invariant `IInv`, the conjunction of
these properties (theorem `Invariant`). The conjuncts need one another:

* a new row is new because the ids of a table stay within its sequence
  (`IdsIssuedInOrder`), and a new *log* row names a new id because the log does so
  too (`LogFollowsSequence`);
* `Bootstrap` inserts an active steward without looking for one; that is harmless
  because before it there are no stewards and no invitations (`BindingIsFirst`);
* `ClaimPendingSteward` inserts a steward under a UPN it has not looked up among
  the stewards; that is harmless because an outstanding invitation already excludes
  an active steward of that UPN (`OneStandingPerUPN`), and deleting the invitation
  leaves no second one for the same reason;
* foreign keys survive because persons and systems are never deleted
  (`TablesFollowSequence`);
* `PendingUpnIsUnique` follows from `OneStandingPerUPN`: UPNs that are equal are
  equal ignoring case.

The file has four layers: what each statement leaves is a database (`...Type`);
what each operation changes and leaves alone (`...Effect`, on which everything
after it rests); one lemma per conjunct with one step per action (`...Step`); and
the theorems. The conjuncts about the log go through `AppendsStep`: a step either
consumes a stale invitation or appends exactly one row with stated effects, after
which the operations need not be told apart any more.

`StewardRemains` adds one fact to `IInv`: a demotion removes a row whose oid is not
the actor's, while the actor, by the gate, has an active row.

`AuditTrailProofs` adds, from the same invariant and the same `...Effect` lemmas:

| Theorem | Establishes |
|---|---|
| `LogRebuildsRegistry` | `Spec => TrailSpec`: Registry implements AuditTrail |
| `RecordIsPermanent` | `PermanentRecord` (an action property) |
| `InvitationsHonoured` | `InvitesAreHonoured` (an action property) |

For the refinement there is one lemma per operation (`...Recorded`): it logs one
row, and applying that row to the tables gives the tables the operation leaves.
The one operation that may change something without a row, a claim by somebody who
already is a steward, changes nothing AuditTrail can see and maps to a stutter.

`ServerProofs` proves, of `Server!Spec`, for any number of requests and with
`ServerAssumption` in addition (API tokens carry claims Entra can issue):

| Theorem | Establishes |
|---|---|
| `NoLostUpdate` | `[]WriterIsCurrent` |
| `OneTenant` | `[]TenantAgrees` |
| `Serializable` | `Spec => RegistrySpec`: concurrent requests are serialized |
| `RegistryInvariant` | `[]IInv`, the invariant of RegistryProofs, of the server's database |
| `ConsistentWhileServing` | ids, constraints, standing, binding, log and links of that database |
| `TypeCorrect` | `[]TypeOK` |
| `WritersWereStewards` | `[]EveryWriterWasSteward` |
| `LogRebuildsWhileServing` | `TrailSpec` of the server's database: AuditTrail is implemented |
| `RecordKeptWhileServing` | `PermanentRecord` and `InvitesAreHonoured` of that database |

The invariant `SInv` adds to the first two properties what a request is made of: that
`Bootstrap` is called with the tenant of the claims, and that a transaction which
is past its reads was right, on its snapshot, to write. With `WriterIsCurrent` the
snapshot of the writer is the database, so the decision still holds when it
commits (`CommitFacts`) and the commit is one step of Registry
(`CommitIsRegistryStep`). With `TenantAgrees` a request for anything but
`Bootstrap` knows that the deployment is bound; and a `Bootstrap` that has decided
to write has seen it unbound, when nobody can hold claims that were compared with
a binding. `SlotStep` is the frame argument for the steps that touch one request.

What is proved of the registry is then carried over and not proved again:
`RegProofs` is an instance of AuditTrailProofs, which extends RegistryProofs, on the
server's database, and `SameRegistry` shows that a step of `Reg` is one of `RegProofs`, so
that `Spec` implements the specification those theorems are about (`ImplementsRegistry`).
(`Reg` and `RegProofs` are instances, so their operators are shown equal to those of Core,
in the `...Agree` lemmas and there.)

`EveryWriterWasSteward` does not follow from who is a steward when a write commits: that
may have changed since the request passed the gate (finding 1). The invariant
`Warranted` therefore speaks of the record and not of the present: whoever is an active
steward, and whoever has a write request in progress, was made a steward in the log, and
the log never loses a row (`WasMadeStays`).

`PowerLossProofs` proves, of `PowerLoss!PowerSpec`, for any number of commits that may
be lost:

| Theorem | Establishes |
|---|---|
| `RecoveryIsConsistent` | `[]EveryRecoveryIsConsistent` |
| `InvariantThroughLosses` | `[]IInv` of RegistryProofs |
| `StewardRemainsThroughLosses` | `GatedPowerSpec => []SomeStewardRemains` |

`Whole(d)` is `IInv` said of any database `d`, not only of `db`. The invariant is that
`db` and every member of `kept` are whole (`PInv`), and, with the gate, have a steward
(`GInv`): a commit adds the database that RegistryProofs shows whole, a checkpoint and a
loss of power choose one of those there are. The log does not only grow here, which is
why the registry's *step* lemmas are used and not its action properties.

`ReadsProofs` proves, of `AuditViewer!ViewerSpec`:

| Theorem | Establishes |
|---|---|
| `DayFilters` | `[]DayFiltersAreExact` |
| `NewestWindow` | `[]WindowIsNewest` |
| `ShownIsFindable` | `[]EveryShownRowIsFindable` |

and of `Pages!PagesSpec`:

| Theorem | Establishes |
|---|---|
| `PagesInvariant` | `[]PInv`, the invariant of the pages |
| `WelcomeIsForTheEmpty` | `[]WelcomeMeansEmpty` |
| `HistoryExplains` | `[]HistoryExplainsPage` |
| `ExportAudited` | `[]ExportIsAudited` |

for any clock, base and width of the fraction, length of a day, limits and set of pages.
`ViewerAssumption` says of them that a text has digits, that the powers of the base are
positive (`^` is not known to the provers), that the UPNs in tokens have no blanks around
them, and that the default limit is not over the largest.

*Texts.* Comparing texts is the dictionary order: of two different ones, one is less, at
the first place where they differ (`TextTotal`; that there is a first one is `LeastNat`,
from the well-foundedness of set inclusion, since induction on numbers is stated with an
operator as parameter). A text begins with its day and second (`TextBegins`, `Calendar`),
so the order of texts agrees with the clock from one second to the next
(`RowOrderBySecond`) and a bare day compares with a text as with its day
(`DayComparison`). Within a second it need not: that is finding 4, and it is why
`WindowIsNewest` claims no more.

*Order and limit.* `Sorted` counts, so that each row of a finite set has a place of its
own, and every place a row, is counting too: the number of rows before one is strictly
monotonic, and an injection of a finite set into one of its size is onto
(`SortedList`). What a limit cuts off sorts after all it keeps (`WindowOfNewest`).

*Two queries of an audit page.* The invariant `VInv` adds that every log row has a stamp
(`Stamped`) and that a page which has its rows will find their actors and types among
those of any later log (`ShownAreOffered`), because no row is lost (`LogMoves`).

*Pages of several queries.* `PInv` has three parts. `Told`: the log tells of every row of
the tables, the person's last name, the link's creation, the disabling. It is kept because
each step of Registry is one of AuditTrail, whose `Apply` changes the table as the row
that is logged says (`ApplyTables`, `...ToldStep`), so that no operation of core has to be
looked at again. `AnswersJustified`: what a query answered is accounted for by the log
*now*, although the tables have moved on; it was by `Told` when it answered, and a log that
grows still does (`JustifiedStays`). `PageForm`: a page has the answers of its handler's
first queries and of no other, so the last query to answer is the history or the log
(`LastQuery`), which comes after all it has to account for.

`RequestsProofs` proves, of `Requests!RequestsSpec`:

| Theorem | Establishes |
|---|---|
| `PolicyIsOne` | `[]OnePolicy` |
| `Landing` | `[]LandingIsReadable` |
| `TwinsAnswerAlike` | `[]TwinsAgree` |
| `RequestsImplementGated` | `RequestsSpec => GatedSpec`: the registry with its steward check |
| `RequestsInvariant` | `[]IInv` of RegistryProofs |
| `RequestsLeaveASteward` | `[]SomeStewardRemains` |
| `AnswersAreTrue` | `AnswerIsTrue` (an action property) |
| `ParseAsDocumented` | `TextsSpec => []DocumentedTextsAreRead`, for texts of any length over any alphabet |
| `EveryRedirectLands` | `[](IdsInRange => RedirectsLand)` |

The first two need no invariant: they hold for every database, policy and user, by the
tables of routes (`SurfaceRoutes`, `SurfacePage`) and the two gates (`SurfaceGate`).
`TwinsAgree` rests on `ErrorsAgree`: a web handler looks for each error that its function
of core can return. The next four go through `Calls` and `Outcomes`, what a handler
passes to core, and `RequestTypes`, that after its checks it has ids and texts in hand and
not what the client wrote. `WrittenPerforms` then makes of an accepted request an action of
Registry by a steward of the bound tenant (`PastTheGate`), which is the refinement; and
`PerformedHolds` reads from the `...Effect` lemmas of RegistryProofs that the action has
done what was asked, in one row of the log. Here a request is one step, so the
refinement is of `GatedSpec`; Server splits it and only implements `Spec`.

*Ids and texts.* That a text is read as it is meant is a matter of its length, so the
argument is by induction on it. The library's induction theorems take a predicate as
parameter, which the provers cannot instantiate; `Induction` and `CompleteInduction` of
RegistryProofs speak of a *set* of numbers instead, and a set of texts' lengths is one they
can be given. They rest on every set of naturals having a least element (`LeastNat`). The
same induction shows that the recursive functions exist and obey their equations
(`ValuesExist`, `DigitsExist`). From these: zeros in front do not count
(`ValueOfPadded`), the digits of a number come to that number (`DigitsOfNumber`), and
digits that do not begin with a zero are those of what they come to
(`NotationIsUnique`). So `ParseNumber` and `Parse` read back what strconv and `Format`
write (`NumberReadBack`, `HandleReadBack`), whatever `Parse` accepts without a plus in it
is a reading in the sense of `Meanings` (`ParsedIsReading`), and every reading is accepted
(`ReadingIsParsed`). With a plus it need not be one: that is the disagreement of
`Requests_sign`.

*Redirects.* `Location` writes an id that `Follow` has to read back, and to find.
`RedirectIsThere` goes by the form: the row the redirect is about is in the
table, since what was asked for holds (the lemmas of `AnswersAreTrue`) or, where a link
is meant, since foreign keys hold; its id is read back; and whoever wrote is still a
steward (`WriterRemains`), whom every gate lets pass. `OnlyFormsRedirect` shows that
nothing but an accepted form gets such an answer. The hypothesis `IdsInRange`, that no id
issued is over `MaxId`, is what SQLite guarantees: MaxId is the largest int64, and an
AUTOINCREMENT table that has issued it refuses the next insertion. The model's sequences
are unbounded, so the theorem has to say it.

`ServiceProofs` proves, of `Migrations!Spec`, for any number of migrations of any
number of statements (`MigrationsAssumption`: at least one migration, none empty, and
the first has the two statements that make `config`):

| Theorem | Establishes |
|---|---|
| `MigrationsTypeCorrect` | `[]TypeOK` |
| `MigrationsPrefix` | `[]SchemaIsAPrefix`: the recorded migrations, whole, and a beginning of the next |
| `MigrationsReady` | `[]ReadyMeansMigrated` |
| `MigrationsFailure` | `[]FailsOnlyOnRuins` |
| `MigrationsMonotonic` | `VersionOnlyGrows` (an action property) |

That the schema is a prefix does not suffice by itself for `FailsOnlyOnRuins`: the
invariant adds `Progress`, that a runner past the first statement of a migration began
on a whole schema and has applied exactly what precedes its statement. Whether a failing
statement is there because of an earlier start then follows from where the runner is
(`ExecuteKeeps`), and the missing row of `config` likewise (`ReadVersionKeeps`).

and of `Service!ServiceSpec`:

| Theorem | Establishes |
|---|---|
| `ServiceMigrates` | `ServiceSpec => Spec` of Migrations |
| `ServiceServesMigrated` | `[]ServesMigrated` |
| `ServiceFailure` | `[]FailsOnlyOnRuins` |
| `ServiceIsAProcess` | `ImplementsProcess`: the refinement of Process |

Every step of the service is a step of the runner or leaves it alone
(`StepOfMigrations`), so the invariant of Migrations is one of Service; to it
`RunnerFollows` adds which states of the process go with which of the runner, and
`AtNoStatement` that a runner outside of a migration has no statement, which makes an
end that finds nothing to end a stutter. For the refinement, each step of the process is
the same step of `Seen` (`...Seen`), the step from the last migration to sign-in is
`OpenStore`, and a migration that fails is a change of the environment.

`LoginFlowProofs` proves, of `LoginFlow!Spec`, for any number of tabs, users, attempts,
paths and any lifetimes of the cookies (`LoginAssumption`: the home page is a local path,
and users have a tenant):

| Theorem | Establishes |
|---|---|
| `NoForeignSession` | `[]SessionsAreOfTheTenant` |
| `CodeMeetsAttempt` | `[]CodesMeetTheirAttempt` |
| `LandsWhereItAsked` | `LandsWhereAsked` (an action property) |
| `ExchangedInTime` | `ExchangesAreInTime` (an action property) |

The server keeps nothing, so the invariant `IInv` is about what the browser carries: the
login cookie was made by one attempt (`CookieOfAnAttempt`); a tab's code was given out in
the tab's attempt, and a tab that exchanges one was sent with a cookie of that attempt
(`TabOfAnAttempt`); if the shared cookie and a tab are of the same attempt, they agree on
where it ends, when and with which key (`CookieMeetsTab`), and otherwise the comparison of
states in the callback refuses; and the session cookie is of a user of the tenant
(`SessionOfTheTenant`). That the cookie a callback is let through by has not expired then
says something of the tab (`ExchangedInTime`), and only an exchange takes a tab from the
one to the other (`OnlyExchangeExchanges`).

Only model-checked: liveness (`EveryRequestAnswered`, `TenantIsLearned`, `StopEnds`,
`ServesOrIsGivenUp`), which the proof system does not reach. Every safety invariant and
every action property of the passing runs is proved.

## 6. Not modelled, and what is left to prove

Not modelled, because it keeps no state or only formats output: templates, JSON and CSV
encoding, the search boxes, logging and request ids, the version command, the
installation scripts. Verification of ID and bearer tokens is the OIDC library's, and
Microsoft's page is a choice of account. Random states and nonces are numbers that
never repeat; a random source that fails is left out. A body over the limit is
a malformed one, and a request whose header takes too long never becomes one. Every function
of core defers the rollback of its transaction, so a request of Server always ends its
own (`Return`): that a rollback is not forgotten is read off the code and not checked.

Left to prove: the properties of AuditViewer and Pages for pages served among overlapping
writes. `Serializable` says as much of the database, but no module composes them with
Server.
