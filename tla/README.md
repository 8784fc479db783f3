# CoreOps Platform: a verification project

TLA+ models of the parts of the Flexity / CoreOps backend whose correctness
depends on the order in which several actors act, the TLC runs that check
them on small instances, and TLAPS proofs of the invariants that matter most
for every instance. Paths below are relative to `src/backend/app/` unless they
start with `docs/`, `scripts/` or `.github/`.

## 1. The system

The backend is a multi-tenant FastAPI application on PostgreSQL. A request
opens one SQLAlchemy session (`autocommit=False`, `autoflush=False`); services
read, decide, write and flush; the route (or the service's own unit of work)
commits at the end. PostgreSQL runs at READ COMMITTED. So unless code asks for
a lock (`with_for_update`), or a unique index or foreign key intervenes, two
requests interleave freely between the reads of one and the commit of the
other. All the models rest on this.

| Component | State | Operations | Hard behaviour |
|---|---|---|---|
| Publishing secret lifecycle (`modules/marketing/service/publishing_secret_lifecycle.py`) | connection row: reference, version, recovery code, token status | bind, rotate, disconnect, two recoveries | vault and database are separate stores; steps after the commit run without the row lock |
| Secret vault (`core/secrets/adapters/envelope_pg.py`) | versions of a secret: pending, active, deactivated | store, activate, deactivate, delete, TTL sweep | each call is a transaction of its own |
| Publishing connections (`.../publishing_connections.py`) | the same row | create, update, set token status | unlocked writes to the row the lifecycle locks |
| Booking (`modules/booking`) | orders with items, hold expiry | hold, sweep, submit, pay, confirm, cancel | no double booking under concurrent carts and running clocks |
| CRM work items (`modules/workflows`) | item: stage, status, fields | create, update, move, close, reopen, delete | four writers of one stage |
| Process overlay (`modules/process_overlay`) | configurations, published versions, runs | publish, activate, start, complete, cancel, guard | guard evaluated before a write that happens later |
| Lead automation (`modules/process_overlay/ops/lead_automation_activation.py`, `modules/workflows/service/lead_automation.py`) | settings document, backup directories, first-contact tasks | dry run, apply, rollback; a task per lead | files and a database without a common transaction, kills, lost commit answers, a second writer of the settings |
| Public leads (`modules/public_leads`) | sliding windows per client, leads | submit lead | several windows per request; settings that change meanwhile |
| Industry templates (`modules/industry_templates`) | the same settings document | apply to tenant | replaces what lead automation wrote |
| Publication packs (`modules/marketing/service/{approval,packs,texts,media}.py`) | pack status, preflight and approval, texts, media | edit, preflight, approve, reject, patch | approval against concurrent edits, nothing locked |
| Content plans and topics (`modules/marketing/service/{content_plans,content_plan_import,topics}.py`) | plans with lines, topics, packs | draft, import, approve, archive, create topic, take topic | checks of a plan against lines that change meanwhile |
| Social publishing (`scripts/content/publish_*.py`, `.github/workflows/`) | files on the main branch, checkouts, platforms | dry run, scan, post, push | platform, checkout and branch without a transaction; kills, refused posts, rejected pushes |
| Imports (`modules/imports_dry_run`) | imported rows, source references, dry-run reports | dry run, execute, roll back a batch | long transactions that overlap, re-runs, kills half way |
| Publish destinations (`.../publish_destinations.py`) | destinations under the connections | create, update, enable, disable, validate, archive | identities checked on unlocked reads |
| Content guides and rubrics (`.../guides.py`, `.../rubrics.py`) | guide versions, a directory of rubrics | draft, edit, activate, seed | one active guide, kept apart by an index only |
| Managed media (`.../managed_media_lifecycle.py`, `.../storage_profiles.py`, `core/object_storage`) | objects in a store, rows and profiles in the database | upload, register an address, choose the default profile | put before commit, compensation, crash |
| Documents (`modules/documents`) | documents, signature requests, files on the disk | generate, import, patch, send, upload signed | file and rows without a common transaction, file names that clients choose |
| AI agents (`modules/ai`) | tasks, proposals, approvals | propose, approve, reject, execute, expire | two people decide at once while the agent is reconfigured |
| Parties (`modules/parties`) | parties with contacts and custom fields | create, patch, delete, search | definitions that arrive meanwhile, partial patches |
| Module registry, plans, integrations (`modules/{module_registry,subscriptions,integrations}`) | a row per module, the plan, connections to providers | enable, disable, change mode, assign a plan, test, synchronise | dependencies between rows that are changed one by one |
| Finance (`modules/finance/service.py`) | invoices, payments, allocations | create, issue, cancel, allocate | sums read and written without a lock |
| Entitlements (`core/entitlements.py`) | usage events | check, record | checks precede the use they guard |
| Tenants, accounts, templates (`modules/{tenants,auth,branches,industry_templates}`) | tenants, accounts, memberships, template rows | register, provision, apply a template, add members | conflicts half way, commits that depend on the audit middleware |
| Catalogue, accounting, console, landing | records | single-row writes | none of protocol kind |

How they interact: booking, packs and work items check module and feature
entitlements first and write an audit record inside their own transaction; a
public lead becomes a party and a work item; creating a work item starts a
process run through the overlay; moving an item asks the overlay's guard;
publish destinations refer to connections, and connections to secrets.

What makes each component correct:

* **Secrets**: a bound reference always leads to the very secret it was bound
  to; versions are never reused while occupied; at rest exactly the bound
  version is live or the row says what recovery it needs; requests end.
* **Booking**: no two orders that occupy the calendar overlap on one object;
  only overdue holds expire; statuses follow `ALLOWED_TRANSITIONS`; crossing
  carts do not deadlock.
* **Overlay**: at most one active run per item; each stage change follows the
  policy pinned by the run; the run shows the stage of its item; ended runs
  stay ended.
* **Packs**: what is ready or approved passed the preflight with the content
  it has.
* **Plans**: an approved plan has lines and all of them are approved; a line
  becomes one topic, and a topic a second live pack only behind the back of whoever
  made it.
* **Finance**: payments and invoices are never over-allocated; sums agree with
  the allocations; the usage limit holds up to the requests under way.
* **Lead automation**: an apply that succeeded can be undone; nobody else's
  settings are lost; leads are limited as the rules say, and leads of one contact
  make two parties only if they overlap.
* **Social publishing**: no post without a record unless a fault or a rejected push
  took it; a push takes nothing back; what stays approved is published in the end.
* **Imports**: a copy of the legacy data is imported whole or not at all; a re-run
  copies nothing again; the registry of source references says the truth.
* **Media**: no row without object, no object without owner but the ones a known
  failure leaves; a tenant with a default profile keeps one.
* **Destinations**: what was validated or published to keeps its identity, what
  was archived stays so; an active connection names its account.
* **Guides**: one guide is active, the replaced ones stay as they were.
* **Documents**: what is signed has its signed file on the disk and no open request.
* **AI**: nothing critical runs that nobody approved; one decision per proposal.
* **Parties**: the search has a party among its exact matches for its present
  contacts and Telegram id; required fields are there.
* **Modules**: active modules have what they require; an external mode starts
  over a tested connection.
* **Tenants**: no tenant or account half made; a membership that was confirmed
  is there.

The full list of components, with the ones that are not modelled and why, and
the list of hazards at their lines are in `PROJECT.json`.

## 2. Modules

| Module | What it is |
|---|---|
| `SecretLifecycle` | connection row, vault and workers of one connection |
| `SecretCustody` | abstract specification: which stored secret a connection holds |
| `SecretLifecycleProofs` | theorems about `SecretLifecycle` |
| `BookingHold` | holds, the sweep and order transitions of one territory |
| `WorkItemProcess` | one work item with the overlay of its pipeline (composes CRM and overlay) |
| `BookingHoldProofs` | theorems about `BookingHold` |
| `PackApproval` | the approval gate of a publication pack |
| `FinanceLedger`, `FinanceLedgerProofs` | invoices, payments, allocations and the usage limit (composes finance and entitlements) |
| `EditorialPlan`, `EditorialPlanProofs` | from a content plan through topics to packs |
| `LeadAutomation` | the operations tool, templates and public leads on one settings document (composes the three) |
| `SocialPublish`, `SocialPublishProofs` | runs of the publishing workflows of all channels on one branch |
| `StagingImport` | executions of the staging import with their gate, registry and rollback |
| `OperatorToolsProofs` | theorems about `LeadAutomation` and `StagingImport` |
| `TenantModules` | modules, plan and connections of one tenant (composes registry, subscriptions and integrations) |
| `DocumentSigning` | documents with their signature requests and files |
| `AiProposals` | proposals of an agent and the decisions about them |
| `PartyDirectory` | parties, contacts, custom fields and the search |
| `TenantSetup` | registration, provisioning, templates, accounts and memberships (composes tenants, auth, branches, templates and the audit middleware) |
| `ManagedMedia` | storage profiles, stored objects and the rows that name them |
| `PublishDestinations` | publishing connections and the destinations under them |
| `EditorialGuides` | versions of the marketing guide, and rubrics |
| `OfficeServices`, `OfficeServicesProofs` | work items, modules, documents, proposals, parties and tenants side by side, and theorems about each |
| `MarketingServices`, `MarketingServicesProofs` | packs, media, destinations, guides and the secret of one administrator side by side, and theorems about all but the last |
| `MC*` | instances for TLC |

In all of them one action is one database transaction, or one read that a later
write depends on; a worker's local variables are its `req` (or `client`)
record, whose `pc` names the place in the code. Names of actions follow the
methods; `map` in `PROJECT.json` gives the lines. A definition whose name is
that of another with a suffix after an underscore (`LockNext_FirstOnly`) is a
variant that a plausible bug would produce; no specification uses it.

The modules of requests without locks (`PackApproval`, `FinanceLedger`,
`EditorialPlan`, the lead requests of `LeadAutomation`, and the eight service
modules from `TenantModules` on) share one scheme: a
request reads and decides in one action, other requests commit, and its commit
writes the columns its session sees as changed since they were loaded. A commit
marks the requests that have read what it changes, and a marked request marks
what it writes (`disturbed`, `unseen`, `overtaken`, `fresh`, `raced`). These marks are history variables: no
guard reads them. They let a property say what holds for rows that no overlap
has touched, and the overlaps themselves are in every state graph.

### 2.1 SecretLifecycle

`row` is the connection (`secret_ref` as a version number, `error_code`,
`token_status`), `vstate`/`vid` the vault, `lock` the `FOR UPDATE` lock on the
row. `vid` is the primary key of the vault row that has a version number:
numbers are reused after a compensation, keys are not, and the ORM updates by
key. `bound` is a history variable: the key that the last committed binding
stored.

A bind or rotate goes `Begin*` (lock and guard), `CheckOrphan`/`DropOrphan`,
`Store`, `Healthy`/`Unhealthy`, `Commit`; then, without the lock, `Activate`,
`ActivateUpdate`, `View`, `Retire`, `RetireWrite`. The failures of the code are
actions: `CommitFails` (rolled back, then `Compensate`), `CommitUnacknowledged`
(committed, but the worker believes it failed), `VaultFails`, `RecordFails`,
`ClearFails`, `Crash`, `ActivateStale` and `RecoverStale` (the selected vault
row is gone when it is updated). `Faults` and `Ops` choose what an instance
offers. Secret bytes, encryption and messages are left out.

`SecretCustody` is what an observer may rely on who only sees which stored
secret a connection holds. `SecretLifecycle` implements it under the mapping in
`Custody`: what is held is the vault key the reference leads to. The property
is `CustodyKept`.

### 2.2 BookingHold

`orders` are committed orders, `owner` the row locks of bookable objects,
`client` the requests, `now` the clock in minutes. A request for a hold takes
its instant first (`RequestHold`), sweeps (`FindStale`, `ExpireStale`, a
transaction of its own), locks the objects in id order (`LockNext`), checks
(`Available`/`Conflict`) against what is committed at that time but with the
instant it took at the start, and inserts (`Persist`). `ReadOrder` and
`WriteOrder` are the transitions of `BookingOrderService`: an unlocked read
with validation, then the write of what `_apply_transition` and
`submit_for_payment` change. `Solo` bounds the transitions: an order is asked to
take one of those statuses only while no other request is under way and, if
it is a hold, before it runs out. Dates are nights, prices and order numbers are
left out.

### 2.3 WorkItemProcess

`item`, `runs`, `config`, `versions` are rows; `holder` is the lock on the
item, `LockedRuns` the locks on runs. `Move` is the common head of
`move_stage`, `update_work_item`, `close_work_item` and `reopen_work_item`
(they differ in the target and in one precondition); `GuardAllows` and
`GuardDenies` are `assert_transition_allowed`; `ApplyStage` is the write of the
stage, `record_applied_transition` and the commit. `InsertRun` waits for the
lock on the item: the insert's foreign key takes a key-share lock, which
conflicts with `FOR UPDATE`. Publishing reads the highest number and inserts
the next one; the unique key refuses a number that was taken. Activities,
tasks, dispositions and statuses are left out: nothing modelled reads them.

### 2.4 PackApproval

`packs` are committed rows with their texts, `topic` the topic they may be
linked to, `packCall` the requests. `UpsertText` and `ChangeMedia` end in
`reset_pack_after_content_change`; `RunPreflight` computes the findings that
are errors; `ApprovePack`, `RejectPack` and `UpdatePack` read their guards from
the row. `CommitPack` merges the changed columns. `examined` is a history variable:
the last preflight passed on the present content.

### 2.5 FinanceLedger

`invoices`, `payments`, `alloc`, `usage` are tables. `CheckLimit`, `TakeNumber`
and `CreateInvoice` are the three separate reads and the insert of
`create_invoice`; `ReadUpdate`/`UpdateInvoice` the status changes;
`ReadPayment`, `ReadInvoice` (one turn of the loop each) and `AllocatePayment`
the allocation. A PATCH without a status (`NoStatus`) can still make an invoice
overdue. The two unique constraints are guards of the commits. A due date is the
choice `late`; lines, taxes and currencies are totals.

### 2.6 EditorialPlan

`plans` hold each plan with its lines, because the requests on a line read and
check both. `Decide` is the read part of every request on a plan, `CommitPlan`
the write; `TakeTopic` looks for live packs of a topic and `CommitTake` inserts one
without looking again, so two takes that overlap leave two packs. Packs can also be
linked by hand, and archived. `unseen` of a pack is a history variable: the packs of
its topic that were there when it came and that whoever made it had not looked for,
or had looked for too early (`Overlooking`).

### 2.7 LeadAutomation

`config` is the settings document (its automation block, and the rest as one
value), `backups` the files of each directory, `op` the commands of the
operators. `DryRun` notes the hash; `CheckAssignee`, `BeginApply` (row lock,
hash, backup), `Finalize` (manifest) and `CommitApply` are `run_apply`;
`LoadBackup` and `RunRollback` the rollback. Failures: `FailApply` (an
exception, which removes the backup), `Crash` (files stay, a manifest may be
torn), the second disjunct of `CommitApply` (the answer to the commit is lost)
and of `BeginApply` (killed while the files are written). `ReadTemplate` and
`WriteTemplate` are the other writer. A lead goes `Arrive` (the request reads the
clock), `Count` (the rate limiter under its lock, which may come after others that
read the clock later), `Match`, `StartRun`, `FinishLead` (party, work item, task,
one commit). All leads are of one client and give one contact that can be compared;
`parties` are the leads that have created a party of it. `accepted` and `unseen` are
history variables: the hits of the requests let through, and the parties committed
since a lead looked for one.

### 2.8 SocialPublish

`main` is the branch, `queue` the job of each channel that waits for its turn, `run`
the workflow run of each channel with its checkout, `posts` what the platforms show.
`Trigger` puts a job with the present commit of main into the queue, in the place of
one that waits there (the concurrency group keeps one). `Checkout` starts the waiting
job with the commit it was triggered with, however far main has advanced since,
because `telegram-publish.yml` checks out without a `ref`; only a gated workflow asks
for main itself. `RunAgain` starts a job and leaves it to be run once more from the
same commit. Then `DryRun`, `CheckHead` (gated channels), `BeginScan`, `PostPart`,
`Push`; faults are `PostRefused`, `AnswerLost`, `Kill`. `behind` of a job says that
main has advanced since its commit; `Push` succeeds only when it has not. `Parts` is
the number of posts of one pack (a thread is a root and replies). Ungated workflows
look for changes with `git diff`, which does not see a new file, so a log that a
refused post begins makes no commit (`GiveUp`). `made` of a run is what it has
posted; `lost` is a history variable: posts whose record a fault or a rejected push
has taken.

### 2.9 StagingImport

`reports` are the backups with a dry-run report, `rows` and `refs` the committed
imported rows and source references, `exec` the execution of each operator
(`stage` is the index of the table, `left` the source rows still to come),
`history` the executions begun. `GateOpen` is `parse_masked_dry_run_report`,
`BeginExecution` the start of `run`; each row goes `LookUp` (no reference) and
`InsertRow`, or `SkipExisting`, or the execution ends in `Blocked`,
`InsertRefused` or `Die`; `NextTable` and `Commit` follow
`_execute_import_order` and the end of the transaction. PostgreSQL is part of
the model: an insert of a sku that another transaction has inserted waits, one
that is committed is refused (`uq_catalog_item_tenant_sku`); one source id stands
for one sku. Every order is refused, because `_import_orders` writes the id of a
branch into `pipeline_id`, a foreign key to pipelines, and every payment, because
`PRODUCTION_SELECT_SQL` does not read the `payment_date` that must not be null.
Contacts, invoice shells, amounts, review flags and the masking of reports are
left out. `after` in `history` is a history variable. Its next-state relation and
its variables have names of their own (`ImportNext`, `importVars`) because it is
extended together with `LeadAutomation`.

### 2.10 TenantModules

`mods` are the rows of `tenant_modules` (status, mode, provider), `conns` the
integration connections, `sub` the subscription. `EnableModule`, `DisableModule`
and `SetModuleMode` check as the service does, `UpdateTenantModule` is the PATCH
that checks nothing, `ApplyPlanModules` walks through the modules of a plan in
the order of `Sorted`. `guarded` and `fresh` of a request say whether it checked
anything and whether another commit has changed what it decided on; no guard
reads them. Writes are the changed columns of the rows the session holds.

### 2.11 DocumentSigning

`docs` hold a document with its files and open signature requests, `disk` the
files in its directory. An operation decides, writes at most one file
(`WriteFile`) and commits; `Rollback` leaves the file. The name of the generated
file is among the names a client may upload under. `clean` are documents that
only guarded requests, one after the other, have written.

### 2.12 AiProposals

`CreateTask` runs the mock task, which may end in a proposal with an expiry;
`ApproveProposal` and `RejectProposal` insert a decision and write the status;
`ExecuteProposal` reads the agent as it is then. `PassDeadline` lets the proposals
that can expire do so. `strict` on a proposal is the history of what the agent
asked for when it was executed.

### 2.13 PartyDirectory

A party with what is read of its metadata (the role and the id of a Telegram user)
and its contact methods, each with the request that inserted it, because the ORM
deletes the rows it has read and inserts new ones. A PATCH of the metadata replaces
them but keeps the role (`MetadataAfter`), and is no write at all when nothing differs
(`MetadataWritten`). `DefineFields` is a template that adds required definitions.
`MatchParties` are the answers the search may give for several contacts: its exact
matches by contact method (`Reaches`, with the normalisation) or by the Telegram id in
the metadata (`IsTelegramId`, numbers only), cut off at `MatchLimit`
(`EXACT_MATCH_LIMIT`, 20 in the code). `given` and `vetted` are history variables: the
contacts and the Telegram id, and the required fields, of the last requests that had
some.

### 2.14 TenantSetup

Accounts, tenants with branch, module rows and template entries, memberships.
`AddMembership`, `FlushMembership` and then either `AuditMutation` or
`AuditTooLate` are the one route that leaves its commit to the audit middleware.
`told` is what a client was answered.

### 2.15 ManagedMedia

`profiles`, `assets` are rows, `objects` the store. `StoreManagedMedia`,
`PutObject`, `CommitAsset` and, on an exception, `Raise` and `DeleteObject` are the
lifecycle; `LoseAcknowledgement` and `Abandon` are the failures it cannot repair
(`unheard`, `abandoned`). `CreateProfile` to `SetDefaultProfile` with `ReadDefault`
are the profiles; `Admitted` holds the indexes and the check constraint.

### 2.16 PublishDestinations

`connections` and `destinations` are rows; a request keeps the row it read and the
columns it changes, and `Merged` writes those. Whether an external identifier may
change is decided on the row read.

### 2.17 EditorialGuides

`guides` are the versions with status and a stamp for the text,
`rubrics` the status of each code. `ActivateGuide` reads the guide,
`ListActiveGuides` the active ones (the lock its name promises is not taken),
`CommitGuide` writes both under the partial unique index `Admitted`.

## 3. Runs

| Run | Question | Bounds |
|---|---|---|
| `secret_concurrent` | Is the bound secret kept, and the abstract custody implemented, when every operation of two workers interleaves with crashes, vault failures and failed recovery records? | 2 workers, versions to 3, 4 stores |
| `secret_faults` | Free slots and liveness with failed and unacknowledged commits, vault failures and the sweep | 2 workers, versions to 2, 3 stores, fair |
| `secret_compensation` | *violation*, see Findings | 2 workers |
| `booking_hold_race` | No double booking and no deadlock of crossing carts while time passes and orders are cancelled, submitted, paid and confirmed | 2 clients, 2 objects, 2 orders, 4 carts, times 0 to 2, hold 1; submitted, paid and confirmed alone and in time; fair |
| `office_services` | Work items: one active run, policy honoured, run in step. Modules: dependencies closed, external modes backed. Documents: signed means signed. AI: decisions honoured. Parties: found by what they were given last. Tenants: nothing half made | 2 callers; work items: 3 stages, 2 policies, 2 runs, 1 way to end them, 2 versions; 2 modules, 2 plans, 1 provider, 4 calls; 1 document, 2 uploads, 5 calls; 2 proposals, 4 calls; 2 parties, 2 roles, 1 field, 1 contact, 1 Telegram id, an answer of 1, 3 calls; 1 tenant, 2 companies, 2 accounts, 1 template, 5 calls |
| `marketing_services` | Packs: does an approved pack have the content that was examined? Media: do store and table agree, does the default stay? Destinations: do identities stay? Guides: one active, history kept? Secrets: is every state at rest explained as long as requests come one at a time? | 2 editors; 1 pack, 2 channels, 2 edits; 2 profiles, 2 assets, 7 calls; 1 connection, 2 destinations, 2 identifiers, 8 calls; 3 guides, 2 rubrics, 5 calls; 1 worker, versions to 4, 6 stores, failing commits |
| `finance_ledger` | Do the books balance, and by how much is the limit passed? | 2 workers, 2 payments, 2 billed invoices of 3, limit 1 |
| `editorial_plan` | Is a plan coherent, and does a line get a second live pack only from somebody who overlooked the first? | 2 editors, 1 plan, 2 lines, 2 topics, 2 packs, 2 days |
| `operator_tools` | Lead automation: can an apply be undone, is nobody's change lost, are leads limited as they should be, do only leads that overlap make a contact two parties? Imports: is a copy imported whole, is the registry true, does a re-run copy nothing again, can executions deadlock? | 2 operators; 1 directory, 1 user, 1 template, 2 leads, 2 rules, 3 commands; with the leads in focus 1 command and times 0 to 2; 2 batches, 3 copies, 3 executions |
| `social_publish` | Is every post accounted for, does only a run from a stale commit post a published pack again, does a push take nothing away, is every approved pack published? | 2 packs, 3 channels of which 2 run, 1 edit or job run again, 1 fault, times 0 to 1, fair |
| `membership_lost` | *violation*, see Findings | 2 clients, 1 tenant, 2 accounts, 4 calls |
| `active_account` | *violation*, see Findings | 2 administrators, 1 connection, 1 account, 3 calls |

Three runs hold several components: `office_services`, `marketing_services` and
`operator_tools` choose at the start the one a behaviour exercises (`focus`).
They share callers and no row, lock or constraint, so every interleaving of two
of them is, seen from either, one of its own behaviours with stutters in
between; the invariants and the action properties each speak of one component,
and hold of the interleaving when they hold of the parts. Where components do
share rows the composition is inside a module (`WorkItemProcess`, `LeadAutomation`,
`FinanceLedger`, `TenantModules`, `TenantSetup`).

Why the bounds are enough for what they are meant to show. *Secrets*: three
versions give a current, a previous and a staged version; four stores add one
reuse of a number after a deletion, which is where keys and numbers come apart;
the interesting conflicts are pairwise, so two workers. What holds at
rest only when requests do not overlap (`NoUntrackedActive`, `NoDualActive`,
`InactiveIsReported`) is checked with one worker in `marketing_services`, with two
versions more. *Booking*: an expiry
needs an instant before, at and after the end of a hold (hold 1, times to 2);
deadlock needs two objects and two clients; the carts are crossed and one of
them overlaps only partly; a fourth has two stays on one object. *Work items*: two versions, so that the pinned and
the current policy can differ, and two runs, so that one can end and another
start during a writer's guard; three stages, so that each policy forbids
something the other allows; completing and cancelling a run differ only in a value
that nothing reads, so runs are completed. *Packs, ledger, plans*: an overlap needs one
request that reads and one that commits in between, so two actors; two
payments and two invoices let an allocation cross another on either side; a
third invoice lets the limit of one be passed by two requests at once; two lines
let a line be added or cancelled while the other keeps the plan approvable.
*Lead automation*: one directory and three commands give an apply, a second
apply that names the same directory, and a rollback, with a template in between
(a second directory adds nothing but commands that do not meet; the theorems
hold for any set of them); two rules
with different windows and two leads let the second rule refuse what the first
has counted, and with times to 2 a lead that was refused comes after both windows;
while the leads are in focus the tool changes the settings once, which is when a lead
can find them changed under it. *Social publishing*: two channels at a time are what it takes for
one push to overtake the other; which two of the three is chosen at the start,
so that the scheduled, the gated and the two-part channel meet pairwise; one
pack is due later than the other; a job that waits while another run pushes, or that is
run again, is a stale checkout without any fault. *Parties*: two of them and a limit
of one fill an answer. *Imports*: two executions overlap and a third
meets what they left; the three copies are one with two services (crossed
waiting needs two), one with a client and a contract, and one with error rows
and an order that PostgreSQL refuses; two batches tell skipping from blocking. *Services*: two callers, because each
property is broken by a pair (a check and a commit in between). Calls suffice for
one request to overtake another after the row has got where it matters: a
document is generated, sent, reviewed, sent again and signed in five, a destination
is created under a connection, enabled, validated and changed in eight, two
profiles are made, activated and exchanged as the default in seven, a third guide
replaces the second in five. Worker symmetry is used only in runs without
liveness properties.

Deadlock is checked in `secret_*`, `booking_hold_race`, `finance_ledger`,
`editorial_plan` and `social_publish`. In the others a behaviour really stops: the
calls are used up, all leads are answered, the clock and the commands have run
out.

### Fairness

`FairSpec` asks strong fairness of each worker's `Step`: a request that is
running goes on, and a row lock that becomes free again and again is granted in
the end. PostgreSQL queues waiters for a row lock in order, so no waiter is
overtaken for ever, and workers are threads that the operating system
schedules. `Spec` of `SocialPublish` asks weak fairness of the clock, and of the triggers and the
runs of scheduled channels: the cron of `telegram-publish.yml` asks for runs for
ever, a job that waits gets its turn, and a started job goes on. Channels started by hand get none. Arrivals of requests, failures, the sweep, the clock and aborted
requests are never required to happen.

### Findings

**Compensation outside the lock** (`secret_compensation`). A bind whose commit
fails rolls back, which drops the row lock, and then deletes the pending version
under its number. Another request can have stored and bound that number in
between. The module promises that post-commit failures never delete a bound
version; here a pre-commit failure of one request deletes the bound version of
another.

**An active connection without an account** (`active_account`).
`set_connection_status` refuses to activate a connection without an account
identifier, as `docs/ai/plans/2026-07-16-m8-b-connected-accounts-implementation-plan.md:180`
has it (“`status=active` requires `account_identifier` non-null.”).
`update_metadata` strips the identifier of a PATCH, turns an empty one into NULL
and writes it whatever the status.

**A membership that was confirmed and is lost** (`membership_lost`).
`add_tenant_membership` (`modules/tenants/routes.py:81-95`) flushes the row and
returns; unlike the routes beside it, it never commits. What commits is the audit
middleware, with its own row, after the answer exists: if that fails the failure
is swallowed with a rollback and the client has its 201. In FastAPI releases that
close dependencies before the response goes out (`pyproject.toml` asks for 0.115
or later) the session is closed before. The test
`test_add_tenant_membership_duplicate_returns_409` expects the second request to
find the membership.

### Known gaps

What the passing runs deliberately exclude, so that nobody reads more into
them than they show. Each one is a counterexample TLC produces when the
configuration is widened as stated.

* `BoundSecretKept` with the sweep (`"ttl"` in `Faults`): a version whose
  activation failed is pending and bound, and the sweep deletes it by age,
  although the plan says "pending older than TTL without bind". Nothing calls
  the sweep outside tests today.
* `BoundSecretKept` with a lost acknowledgement (`"ack"`): the compensation
  deletes what was in fact bound.
* `NoUntrackedActive` and `NoDualActive` with two workers: a late activation
  survives a disconnect, and two rotations that overlap leave two active
  versions and no recovery code.
* Transitions validate an unlocked read (`order.py:55`), so of two that overlap
  one overwrites the other: an order can be CANCELLED and then PENDING_PAYMENT, or
  be expired by the sweep just after it was submitted. `NoDoubleBooking` is
  violated with `Solo = {}`.
* A cart with two stays on one object is stored with the dates of the second
  one twice. The model does the same, and the calendar stays free of overlaps.
* `start_run` stores a stage it read before its insert; such a run is out of
  step until its next enforced transition. `StageSyncKept` is about runs that
  are in step.
* *Secrets.* Rotation recovery accepts a current version that is deactivated
  (`publishing_secret_lifecycle.py:448`, against the docstring at line 425): the
  test for a missing state stands inside the branch that excludes it.
* *Booking.* `submit_for_payment` (`order.py:63`) does not look at the expiry: a
  hold that has stopped blocking can be submitted after another client has been
  promised the same night (against `docs/booking/DATA_MODEL.md:226`). The
  run submits in time (`InTime`); without that `NoDoubleBooking` is violated, even
  by a submission made while nobody else asks for anything, because an insert
  that took long commits a hold that has run out.
  An order that is cancelled between the sweep's read and its write ends
  EXPIRED; `ExpiresOnlyOverdue` is about holds.
* *Overlay.* `complete_run` and `cancel_run` (`runs.py:215`) read without a lock
  and write by key: the second of two concurrent calls overwrites the terminal
  state of the first.
* *Packs.* `docs/ai/reports/2026-07-10-marketing-cabinet-m6-be5-preflight-approval-report.md:158`
  has "any content change invalidates approval". An approval whose request
  overlaps an edit outlives it; `GatePassed` excuses such a pack until the next
  content change.
* *Plans.* `_assert_take_allowed` (`topics.py:204`) and the insert of the pack are not
  one step: two editors who take a topic that is not reusable at the same time get
  two live packs, against the message of the check ("active pack(s) exist for this
  topic"). `SecondPackOverlooked` names exactly these takes, and links by hand, as the
  ones a second pack comes from. The check of slug and date
  (`find_pack_for_topic_date`) is an unlocked read as well and is left out, as are
  topics that are reusable.
* *Finance.* Overlapping allocations can overspend a payment, overpay an invoice
  or leave a cancelled invoice with payments; `LedgerBalanced` excuses the rows
  they wrote. Outgoing payments can be allocated to invoices as well; the model
  does not tell directions apart.
* *Lead automation.* If the answer to its commit is lost, `run_apply` deletes the
  backup of a change that was made (such an apply is not in `applied`, since it
  reported failure). The rollback of a second apply deactivates the overlay
  although the block it restores is enabled. Applying an industry template drops
  the automation block silently. Once the assignee is deactivated every lead
  fails. A request refused by a later rule has been counted by the earlier ones,
  although the comment at `rate_limit.py:51` speaks of accepted hits. Leads of
  one contact that overlap do create it twice as a party (`public_leads/service.py:92`):
  `DuplicatesOverlap` says that nothing else does. The model has no staff who delete or
  rename the party between search and use, so the fallback of an exact match that is
  missing (line 228) is left out; a phone with fewer than ten digits is never compared,
  and such leads make a party each. A lead is refused in the model only for an assignee
  who is gone; the other settings on which `load_lead_automation_config` refuses
  (`lead_automation.py:85-120`: a bad deadline, template code or missing assignee)
  cannot be written by the modelled tool and are left out. `_remove_backup_tree`
  (`lead_automation_activation.py:266`) removes the directory with whatever is in it, so
  an apply that fails in the parent directory of another one's backup takes that backup
  along; in the model no directory lies in another, and `AppliedHasBackup` is about such. `WindowsRespected` is
  about the windows that end now: because a request may be counted after others that
  read the clock later, a window that lies in the past may come to hold more. The
  limiter is per process and lost on a restart; one process without restarts is
  modelled.
* *Social publishing.* A post whose answer, record or push is lost is posted again
  by the next run; a reply that is refused makes the whole thread be posted again.
  The Telegram workflow checks out the commit of its trigger
  (`telegram-publish.yml:20`, no `ref`), so a run that waited for another one, or is
  run again, posts what main has as published already, without any fault, and its push
  is rejected. `PostsAccounted` says that only such a run does so and counts its posts
  as lost. A pack that becomes due between the dry run and the live run of Instagram is
  posted beyond the count the person confirmed. A scan takes one instant for all its
  packs; the Telegram script takes the time for each (`publish_telegram.py:180`), so a
  pack that becomes due during a scan is posted by it, in the model by the next one.
  Packs without a text for their channel or with a `publish_at` that cannot be read
  are skipped with an error for ever; the model has only packs that can be posted.
  Threads and TikTok have no workflow and no concurrency group: a person runs the
  script in a clone. The model gives such a run the commit it was begun with, lets one
  at a time run per channel, and has it end with the same push; two clones at once
  would post a pack twice.

* *Modules.* The PATCH of a module row checks nothing, and of two requests that
  overtake each other one may enable what the other takes the ground from;
  `DependenciesClosed` and `ExternalBacked` are about the other steps.
* *Documents.* A PATCH or an import can declare a document signed without a file.
  Requests that overlap on one document are excused.
* *AI.* Two people who decide at once leave two decisions and the status of the
  later; what is excused is only the single decision, not the approval of what is
  critical.
* *Parties.* The answer of a search that has more exact matches than its limit leaves
  some out, which ones is the order in which rows are read. Which kinds matched, the
  scores and the weak hits by name behind the exact ones are left out, and a search
  reads in one instant. Roles come from `party_role`; one written as a key of the
  metadata, and names of Telegram users that look like ids, are not modelled.
  Overlapping patches keep the contacts of both. A patch of the role
  without fields is not held to the fields the new role requires, fields that
  become required later are missing on old parties, and custom values stay after
  their party is deleted.
* *Tenants.* Two first registrations that overlap both pass `users.count() > 0`
  (`auth/service.py:42`) and make two provider companies, although
  `docs/ai/research/2026-06-09-flexity-platform-console-research-brief.md:94` says
  it can be done once. An owner given by an unknown email is ignored.
  Catalogue items of a template without a sku are added again each time it is applied
  (`industry_templates/service.py:233`); entries in the model have one.
* *Media.* Two requests that choose a default and overtake each other may leave
  none. A crash or a failed delete leaves an object without a row; if the answer to
  the commit is lost, the compensation deletes the object of a committed row.
  `register_public_url` only flushes, and nothing calls it outside the tests; the model
  has a caller that commits.
* *Destinations.* An archival that overlaps an enabling is undone; a validation
  that overlaps a change of the identifier validates another one.
* *Guides.* A request that read a guide before it was superseded may activate or
  edit it afterwards. A topic may be given a rubric that is archived meanwhile.

* *Imports.* Contracts and payments are not registered, so a re-run copies
  contracts again, against
  `docs/ai/plans/2026-07-09-consulting-to-core-staging-write-import-plan.md:156`
  ("Rerun behavior must prevent duplicate creation for: parties, orders/work items,
  payments, documents/contracts"); `RerunNeverDuplicates` is about registered
  tables. Two executions that overlap copy a client twice, since no constraint
  stands behind the look-up, and with two references every later execution with
  that client is blocked. `rollback_batch` deletes the references and no rows,
  although the plan (line 287) has "no orphan imported rows remain"; afterwards
  a copy with a service is refused for ever by the unique sku, and clients are
  copied again. The sku is the code of the source row or, without one, its id
  (`staging_write_import_runner.py:299`): the model has one id for one sku, so two
  services of a copy that share a code, which PostgreSQL refuses, are not in it. It has no caller. A batch id can be used again. The report that
  opens the gate need not be one of the backup that is imported. Orders and
  payments cannot be imported into PostgreSQL at all (section 2.9); the tests of
  the adapter put a fake in the place of `_execute_import_order`.

## 4. Proofs

Every safety property that a run checks is also a theorem, for any set of actors and
any values of the bounds, from the named assumptions of the modules: a sentinel is
not an actor or an account (`ProcsAssumption`, `NoneAssumption`, ...), a key left out
is not a value (`UnsetAssumption`), bounds are natural numbers (`CallsAssumption`,
`BoundsAssumption`), sets that are counted are finite, amounts and totals are positive
(`LedgerAssumption`), a period ends after it begins (`EditorialAssumption`), and for work items that the two
stages the code names exist and policies are sets of pairs of stages. A theorem that
needs more than that says so in its `ASSUME`; those are listed below. Most of
the inductive invariants were checked by TLC on the instance of a run before they
were proved.

**SecretLifecycleProofs.** Lemmas (`VaultMoves`, `RowMoves` and those
on requests) say once what an action may do to the
vault, to the row and to the request of its worker; every invariant follows
from those.

* `TypeInvariant`, `LockInvariant`: for every operation and fault. `TypeOK` is
  needed for the lock because `req` must be a function before an update of it
  says anything.
* `StoreAlwaysFree`: the strengthening is lock discipline. Only the holder of
  the row lock stores, so between the orphan check and the store nobody else
  can occupy the number.
* `BoundSecretIsKept`: assumes `NoLateDeletion` (no failed or unacknowledged
  commits, no sweep). This is the real boundary of the property: with any of
  those, vault rows are deleted by somebody who does not hold the lock, and
  `secret_compensation` shows the consequence. The inductive invariant
  (`KeptInv`) adds that a version being staged is not the bound one and that a
  stored version is still present, with the key that was issued for it, when the
  commit comes.
* `CustodyIsImplemented`: the refinement of `SecretCustody`, under the same
  assumption. `CustodyInv` adds to `KeptInv` that issued keys are unique and that
  the key of a staged version is the last one issued (`NumberingInv`); with it
  every action is a step of the abstract specification or a stutter.
* `HealthyTokensHaveSecrets`: for all faults; the health of a token is only
  written by a request that holds the lock and has found a secret.
* `NothingLiveUntracked`, `NothingDualActive`: assume `OneAtATime` and
  `OnlyCommitsFail`, the setting of the run as well. `SoloInv` says for each
  point of the only request which versions may be live: from the commit of a
  rotation to its retirement the old one besides the new one, otherwise the bound
  one. `InactiveAlwaysReported` also assumes `CodesStay`: the recovery of a
  rotation and the validation of a token clear codes for reasons of their own.
  Overlapping requests and crashes are beyond these three, and beyond the code.

**OfficeServicesProofs.** Each service has an inductive invariant of its own; the
steps of the other services leave its variables alone, which is one lemma each.

* *Work items.* The invariants of the component are not inductive: `OneActiveRun`
  says nothing about a request that is about to insert, and the action properties
  speak of a guard evaluated several steps earlier. `IInv` adds `Unborn` and
  `Creating` (nothing refers to an item before it is committed), `Holding` (the
  item's lock is held exactly between guard and write), `Carrying` (requests carry
  numbers of rows that exist) and `Applying`: what the guard concluded (same stage,
  no active run, or an active run whose pinned policy has the edge) is still true
  before the write. `Applying` is the point: it is preserved because inserts of runs
  wait for the item's lock, ends of runs wait for the run's lock, published versions
  never change, and nobody else writes the stage. `TypeInvariant`,
  `OneActiveRunAlways`, `PolicyIsHonoured` and `StageSyncIsKept` follow.
* *Modules.* `ModulesInv`: what the guard allowed was allowed on the rows it read
  (`Guarded`), and a request that nobody overtook has read what is there now.
  `DependenciesStayClosed` and `ExternalModulesAreBacked` are about the writes of
  such requests. For the first, whoever enables a module has read every module it
  requires, and whoever disables one every module that requires it, so an edge between
  two modules is never written by two requests that both are fresh.
* *Documents.* `SigningInv`: a fresh request has seen the present document, the file
  it is about to record is on the disk with its content, and one that signs has a
  signed file and closes all signature requests that were open when it read.
  `SignedDocumentsAreBacked` follows.
* *AI.* `AgentsInv`: a row that is approved, or executed although critical, has the
  decision behind it; unless requests overlapped there is at most one decision, and
  the status shows it. `DecisionsAreHonoured` follows.
* *Parties.* `DirectoryInv`: the contact rows and the Telegram id of a party that no
  overlapping requests have written are those given last, an update of such a party has
  read them, and the fields checked against a role still have values. The exact matches
  of a search are then the parties given what it asks for, for every set of queries and
  any limit. `DirectoryIsConsistent` follows.
* *Tenants.* `SetupInv`: a tenant has all its modules, what was applied to it is among
  its entries and nobody is a member of one that does not exist; a request that applies
  a template has seen no entry that is not there; and every account owns a company or
  is a member. `TenantsAreWhole` follows.

**MarketingServicesProofs.** The same scheme.

* *Packs.* A request that nobody overtook has `seen` equal to the present row
  (`Deciding`), so merging gives exactly the row it decided on, and the gate can be
  checked where the request decides. `TypeInvariant` and `GateAlwaysPassed` follow;
  the latter is stated for the composition (`PacksAlone`: whatever else happens is no
  step or a stutter of `PackApproval`).
* *Guides.* `GuidesInv`: at most one version is active, and unless a version was overtaken, no request that edits or activates it
  finds it superseded. `GuideHistoryIsKept` follows: the unique index (`Admitted`)
  gives the one active version, the requests that the others are left alone.
* *Destinations.* `DestinationsInv`: a fresh request has read the present row, and
  what it would write leaves an archived row archived and a validated identifier as it
  was. `IdentitiesAreSettled` follows.
* *Media.* `StorageInv`: two requests work on different assets, a row that promises
  a managed object has it, and an object without a row is in the hands of a request
  or was abandoned. `ObjectsAreAccounted` follows, for every failure of the storage
  and every lost answer. `ProfilesInv`: at most one default, which is active; of two
  requests that create a profile each has its own; and a request that runs alone takes
  the default away only by giving it to another. `DefaultIsKept` follows.

**BookingHoldProofs.** `HoldsNeverOverlap` assumes that nobody submits an order
for payment, the boundary named under Known gaps. `NoDoubleBooking` alone is not
inductive: between the check of a cart and the insert anything could come.
`IInv` adds that a request owns every object of its cart it does not wait for
(`Owns`), that what blocks a checked cart now did so when it was checked
(`Clear`: expiries only thin out the calendar, and `t` lies in the past), and
that an order being written moves to a status other than HELD. Two requests in
`persist` own their objects, so their carts are disjoint. `LastStay` shows that
the intervals stored are those of stays of the cart. `SweepTakesOverdue` follows
from `Overdue`: a selected order that is still HELD was over at `t`. The proof
holds for any number of clients; it is what showed that an order may have left
HELD before the sweep writes it, which takes three clients.

**FinanceLedgerProofs.**

* `LimitOverrun`: every invoice has its usage event (`Metered`), and events plus
  requests let through but not committed stay below the limit plus the number of
  workers (`Room`), because a request is let through only while the events alone
  are below the limit.
* `TypeInvariant`, `BooksAreBalanced`: `BooksInv` says of each request that what it
  has read of a row is what is there, as long as no other has committed on that row
  since, that what it allocates fits into the payment it read, and that nothing is
  allocated from or to a row that does not exist (`Unallocated`). The commit of an
  allocation then adds the same amount to the row and to the sum of its allocations,
  on the rows it is not behind on; rows it is behind on are marked. The sums are folds over
  finite sets; what is needed of them (they exist and are unique, a new member adds
  its amount, members of no amount add nothing) is proved from the definition
  by well-founded induction on subsets, without induction theorems that take an
  operator.

**EditorialPlanProofs.** `PlanInv` says that what a request writes follows from
what it read (`Follows`: sound if that was sound, and a topic only for a line
without one), that a fresh request has read what is there, and that a plan no
overlapping requests have written is sound (`Coherent`): open lines in the period,
no drafts once approved, a topic exactly on the lines that say so, and the topics
that name a line are the one it names. `TypeInvariant`, `PlansStayCoherent`
follow. `SecondPacksAreOverlooked` adds `Taken`: whoever is about to take a topic has
overlooked every live pack it has, and of two live packs of a topic the maker of one had
overlooked the other.

**OperatorToolsProofs**, lead automation. `Locking`: an operator holds the settings
row from its backup to its commit, so the settings it replaces are the ones it has
backed up, and the directory it writes is its own. `Filed`: a final manifest names
settings that differ from the backup in the automation block only, which is why a
rollback brings back what it found. `BackupsSurvive` and `ForeignChangesKept` follow.
`OnlyOverlapsDuplicate` has an invariant of its own, `MatchInv`: a lead that is being
handled and found no party has missed every party there is. `WindowsAreRespected` has an invariant of its own,
`LimiterInv`: every hit let through that the window of a rule still holds is in the
bucket of that rule. A bucket drops what is older than the window seen from the
stamp of a request, and a stamp is never later than the clock.

**OperatorToolsProofs**, imports. `StepKinds` and the shape lemmas say once what each
kind of step does. `ImportInv` adds `Running` (an uncommitted execution has one
operator, and what it found committed stays so), `Pending` (a transaction holds its own
rows with their references), `Imported` (the tables behind the present one are
complete), `UniqueServices`, `Ascending` (what was inserted has smaller ids than what
is left) and `LookedUp`: what an execution could see of a row it is about to insert, or
has inserted, has no reference. The last is what the registry is for, and is preserved
because references only come from commits of executions that had not been
committed when this one began. `TypeInvariant` and the three properties of the imports follow.

**SocialPublishProofs.** The argument is about one run at a time. As long as the
branch has not advanced since its commit, its checkout is the branch with the run's
own records added; once it has, nothing of the checkout reaches the branch. So it does
not matter how old the commit of a job is: what it posts again is lost, and what it
writes it has checked out. `Scans`: what the scan has still to post is unrecorded in
its checkout, and what it records it logs. `TypeInvariant`, `PostsAreAccounted` and `PushesKeepOthers` follow.

**Only model-checked**: liveness under fairness (`EveryRequestEnds`,
`PendingSettles`, `HoldsAnswered`, `EventuallyRecorded`), which needs ENABLED, and
the three runs that show a violation. Type invariants are theorems for
`SecretLifecycle`, `WorkItemProcess`, `PackApproval`, `FinanceLedger`,
`EditorialPlan`, `SocialPublish` and `StagingImport`; the proofs of the other parts
carry the part of the type they need in their inductive invariant. They are not
among the properties of the runs, where a wrong type would show as an error of
evaluation or as the violation of a deeper property.

## 5. Not modelled

Formatting, messages, rows of the audit log and metrics; encryption; entitlement and
module checks at the head of operations (they refuse an operation before it
does anything; the usage limit of invoices is modelled); prices and time zones;
several connections, territories, pipelines or tenants at once (rows of
different ones share no lock and no constraint that the modelled operations
use); the user interface and deployment. Plan mode, masking and synthetic fixtures
of the imports write nothing. The import of historical publications and regulatory
notes write rows no modelled decision reads; so do login, tokens and updates of a
tenant. Catalogue and accounting are single-row writes. Webhooks are only logged.
The wording and the layout of posts, and what the publish logs say. The components
listed as `not_modelled` in `PROJECT.json` give their reason.

## 6. What could follow

In the order of what it would add: booking of several territories with prices, and
`HoldsNeverOverlap` with orders submitted for payment once the code excludes the
race under Known gaps; the secrets at rest with crashes, once a recovery looks for
orphans; the import of historical publications beside that of the office; the
components listed as `not_modelled` that come to keep state.
