# Vulna: a verification of its protocols

Vulna is a distributed vulnerability-management platform. A FastAPI backend
(VulnaDash) keeps its state in PostgreSQL, runs background work in separate
worker and scheduler processes, and hands *signed scan jobs* to VulnaScout
agents (Go) that poll it over mutually authenticated HTTP. This directory holds
TLA+ models of the parts where several processes meet on the same rows or where
a sequence of steps may be cut short, TLC configurations that check them on
small instances, and TLAPS proofs of the most important invariants for every
size.

Paths are relative to the repository; `app/` is `dash/backend/app/`.

## 1. Inventory

| Component | State | Operations | Meets | Module |
|---|---|---|---|---|
| **Scan-job delivery**: `api/v1/probes.py`, `api/v1/jobs.py`, `services/reaper.py` | `scan_jobs`, `scan_job_attempts` with fencing token and lease | poll and reclaim, renew, report, cancel, reap | Scout; workflow and pentests when a job ends | `ScanJobLease` |
| **Scout run loop**: `scout/internal/cli`, `agent`, `api` | the attached job, its attempt, the report to deliver | poll, accept, run, renew, finalize, restart | probe endpoints; result queue | `ScanJobLease` |
| **Durable task queue**: `services/background_tasks.py`, `tasks/runner.py`, `api/v1/tasks.py` | `background_tasks` | enqueue, claim, heartbeat, complete, fail, cancel, retry | scheduler, workers, administrators | `BackgroundTasks` |
| Task handlers: `tasks/handlers.py` | – | one service call each | queue | `Ticketing`, `Notifications`, `ReportStore`, `Connectors` |
| **Workflows**: `services/workflow.py`, `workflow_dispatch.py`, `api/v1/workflows.py` | eleven stages in one JSON column, status, current job, approval | create, advance, decide, dispatch, follow a scan | scan jobs, approvers | `Workflow` |
| **Results**: `scout/internal/queue`, `scanners.go`, `upload_job_results` | spool with a cap; `probe_result_uploads` | enqueue, drain, upload, deduplicate, process | run loop; ingestion | `ResultQueue` |
| **Job creation, networks, schedules**: `services/jobs.py`, `networks.py`, `scheduler.py` | networks, bindings, schedules | create, fire a slot, edit | one test of a network at a time | `ScanDispatch` |
| **Signed policy and scopes**: `services/policy.py`, Scout `policy` | ranges and their versions, the Scout's copy | build, compare, synchronise, verify a job | every job, on both sides | `ScanDispatch` |
| **Pentest sessions**: `services/pentest*.py`, Scout `metasploit` | sessions, approvals, evidence | request, decide, dispatch, clean up, sweep | scan jobs, results, legal holds | `PentestSession` |
| **Findings and remediation**: `services/findings.py`, `remediation.py`, `risk.py`, `sla.py` | findings, verifications, decisions, acceptances, deadlines | ingest, verify, resolve, dismiss, accept | results, completion markers | `FindingLifecycle` |
| Risk: `services/risk.py`, `intelligence.py` | scores, profiles, units | score, group, suggest, review | findings, feeds, context | `RiskScoring`, `RemediationUnits` |
| Ticketing: `services/ticketing.py`, `ticket_adapters` | connector, tickets | test, enable, sync | queue, external system | `Ticketing` |
| Notifications: `services/notify.py`, `notifications.py` | channels, policies, deliveries | emit, deduplicate, dispatch, digest | queue, external system | `Notifications` |
| Reports and retention: `services/reports`, `report_builder.py`, `retention.py` | report rows and files, holds | render, plan, delete | queue, disk | `ReportStore` |
| Export: `services/export.py`, `api/v1/portability.py` | – (a bundle of 57 sections) | export, validate | everybody who writes the rows it reads | `DataExport` |
| **Sessions and MFA**: `services/sessions.py`, `api/v1/auth.py`, `mfa.py` | sessions, refresh tokens, auth_version | log in, rotate, enrol, revoke | accounts | `UserSessions` |
| Users and grants: `api/v1/users.py`, `authorization.py`, `services/user_lifecycle.py` | accounts, roles, break-glass | invite, activate, demote, deactivate | sessions, SSO, SCIM | `Accounts` |
| Single sign-on: `services/sso.py`, `api/v1/sso.py` | provider, states, provisioned access | configure, validate, enable, enforce, log in | identity provider | `SingleSignOn` |
| SCIM: `services/scim.py`, `api/scim.py`, `api/v1/scim.py` | groups, members, mappings, access | provision, patch, map | accounts | `ScimProvisioning` |
| API tokens: `api/v1/authorization.py`, `services/authorization.py` | principals, tokens, a role's grants | create, rotate, revoke, change authority | every endpoint | `ApiTokens` |
| Enrollment: `api/v1/probes.py`, `services/bootstrap.py`, Scout `enrollment`, `storage` | tokens, probes, the files of a host | mint, exchange, approve, revoke, reset | Scout | `Enrollment` |
| Relay: `services/relay.py`, `api/v1/relays.py`, `relay_auth.py`, Scout `relayagent` | relay rows, ranges, certificates | register, approve, scope, kill, renew, revoke | egress | `RelayRows` |
| Inventory connectors: `services/passive_inventory.py`, `api/v1/passive_inventory.py` | configuration, test, runs | configure, test, enqueue, collect | queue, source | `Connectors` |
| Source adapters: `services/inventory_*.py` | pages, sessions at the source | read, store, fail | source | `InventoryReading` |
| Reconciliation: `services/reconciliation.py`, `ingest.py` | assets, identifiers, candidates | observe, merge, review, split | connectors, scans | `Reconciliation` |
| Asset context: `services/asset_context.py` | tags, groups, owners, history | tag, group, derive, resolve | ingestion, reconciliation | `AssetContext` |
| Credentials: `services/credentials.py`, `api/v1/credentials.py` | vault, assignments, envelopes | create, rotate, resolve, test, deactivate | jobs | `CredentialDelivery` |
| Installer CLI: `cli/cmd/vulna`, `cli/internal` | `.env`, containers, schema, archives | update, roll back, back up, restore | host | `HostUpdate` |
| Audit chain: `services/audit.py` | hash-linked rows | append, seal, verify | every handler | – |
| Onboarding, presets, capabilities, experience | catalogues, flags | list, set | – | – |
| Scout scanners, sandbox, updater; dashboard frontend | processes; pages | run, render | – | – |

`PROJECT.json` lists the components with their files, their status and, for what
is left out, the reason.

### What is hard here

* **Handlers do not lock what they decide on.** Each request is one READ
  COMMITTED transaction over a session with `autoflush=False` and
  `expire_on_commit=False` (`app/db/session.py:104-113`). `session.get` reads a
  row, the handler decides on that object and the UPDATE comes at commit. Polls,
  claims, completions, result uploads, the exchange of an enrollment token, the
  refresh of a session and the approval of a pentest lock (`FOR UPDATE`);
  almost nothing else does. The races between the two kinds are what the models
  are about. The ORM writes only the columns that differ from what the session
  read; JSON columns are written whole.
* **No autoflush:** a query in the same transaction does not see what the
  handler has just assigned.
* **Unreliable delivery.** A request of a Scout may be lost, be served after the
  Scout gave it up, or be overtaken; the answer may be lost when the change is
  committed. The same holds between a worker and a ticket system, a mail server
  or an inventory source.
* **Crashes.** A Scout that restarts forgets its job but not its spool; a worker
  may die anywhere; an enrollment or an update of the host may stop between any
  two of its steps.
* **Derived rows.** Scores, group memberships, access, deadlines and owners are
  computed from other rows, and each writer of those has to remember them.
* **Limits.** Attempts are bounded, queues have a cap, sources are read in
  pages, tests of a network and pentests are counted.
* **Progress.** Every job, task and run must end and every Scout must become
  free again, though each of them waits for somebody else.

What each must guarantee: *delivery* – one current execution of a job, nothing
executed that the server does not know of, what is over stays over, every job
ends; *tasks* – handler writes are committed by the owner of the lease only, no
task is lost; *workflow* – nothing intrusive without an approval, cleanup and
reporting always run; *results* – everything accepted is processed once, before
the marker that resolves what was not seen; *export* – what a bundle refers to
is in the bundle, but for what changed while it was taken; *dispatch* – one test of a network,
Scouts come to hold the policy; *pentests* – the limit is kept, "cleaned" is
true, evidence obeys the policy; *findings* – a resolved weakness was absent, a
dismissed one was decided, one that stays resurfaces; *identity* – what ends
authority ends the sessions and tokens it gave; *inventory* – collected only as
tested, derived rows follow, merges are reversible; *host* – what a command
reports is so.

## 2. Modules

Definitions keep the names of the functions they translate. An operation that
reads without a lock and writes later is two actions, `x_read` and `x_write` or
a request and a commit; an operation under a row lock is one. Operators whose
name carries a suffix (`advance_NoTail`, `Process_Again`) are deliberately wrong
variants, each with a comment, that the properties are tested against; no action
uses them. The comment at the head of each module says what it leaves out.

| Module | Models | Run | Theorems in |
|---|---|---|---|
| `ScanJobLease` | delivery, operator, reaper, Scout loop, unreliable network | `lease` | `ScanJobLeaseProofs` |
| `AttemptLog` | abstract: a log of attempts, each executed at most once | `lease` | `ScanJobLeaseProofs` |
| `BackgroundTasks` | queue, worker with its heartbeat, scheduler, administrators | `tasks` | `BackgroundTasksProofs` |
| `Notifications`, `ReportStore` | two handlers of the queue | `tasks` | `BackgroundTasksProofs` |
| `DataExport` | the export of an organisation, with the foreign keys between its sections | `tasks` | `BackgroundTasksProofs` |
| `Workflow` | stage engine, dispatch, endpoints, end of scan jobs | `workflow`, `control` | `ControlProofs` |
| `ResultQueue` | streaming worker, spool, drain, upload endpoint | `workflow` | `ControlProofs` |
| `ScanDispatch` | networks, policy, creation and verification of jobs | `dispatch` | `ScanDispatchProofs` |
| `PentestSession` | sessions from decision to evidence | `pentest` | `PentestSessionProofs` |
| `FindingLifecycle` | one finding | `findings` | `FindingLifecycleProofs` |
| `RiskScoring`, `RemediationUnits`, `Ticketing` | its score, its units, its ticket | `findings` | `FindingLifecycleProofs` |
| `UserSessions` | the sessions of a user | `identity` | `IdentityProofs` |
| `Enrollment` | tokens, identities and the files of a host | `identity` | `IdentityProofs` |
| `SingleSignOn`, `ScimProvisioning`, `ApiTokens` | other ways to authority | `identity` | `IdentityProofs` |
| `Connectors` | one connector | `inventory` | `ConnectorsProofs` |
| `InventoryReading`, `Reconciliation`, `AssetContext` | what it reads, what becomes of it | `inventory`, `first_page_only`, `assets_tied` | `ConnectorsProofs` |
| `CredentialDelivery`, `Accounts`, `RelayRows` | what administrators control | `control` | `ControlProofs` |
| `HostUpdate` | update, rollback, backup and restore of the host | `control`, `restored_over` | `ControlProofs` |

`MCBackgroundTasks`, `MCWorkflow`, `MCFollowUp`, `MCIdentity`, `MCInventory` and
`MCControl` put components that TLC checks with one configuration next to one another.
Those components share no state in the code that the models keep, so a behaviour
follows one of them, chosen in the initial state by the variable `follows` (`traced` in `MCWorkflow`), and
the others stay where they start: the run explores the sum of their state
spaces, and a property of a component speaks of the behaviours that follow it.
This saves nothing of the single components. It is not a composition, and no
property relates two of them.

### ScanJobLease and AttemptLog

*State.* The job's columns are `status`, `cancelReq`, `started`, and three facts
about time that the code compares with `now`: `early` (not_before), `expired`
(expires_at) and `limit` (the execution limit with the reaper's grace). `fence`
is the newest fencing token, `att` the status of every attempt and `live` whether
the newest lease is in the future. `cancelling`, `reaping` and `reapFence` hold
what `cancel_job` and `reap_stale_jobs` have read. `polling` and `reports` are
the requests in flight; a report carries the status that `session.get` saw
(`seen`). `sc`, `held`, `token`, `stop` and `result` are the Scout's loop.

*Actions.* `ServerPoll` is `poll_next_job` with `_reclaim_expired_attempts`;
`ServerReport` the unlocked read of a report and the three ways
`report_job_status` ends; `cancel_job_read/_write`; the reaper's read and
writes, `Reap`. On the Scout: poll, reject, accept, progress, the end of the
worker, `Finalize`, timeouts and crashes. Requests and answers may be lost, and
leases expire, jobs become due and limits pass at any moment.

*Refinement.* `AttemptLog` keeps a sequence of attempts per job, open or closed,
and what the executor began. The mapping takes the attempts up to `fence` and
the Scout's executions; `ImplementsAttemptLog` is checked by TLC and proved.

*Abstractions.* Deadlines are not timed, so a lease may run out at any moment
and renewals, which only move the expiry of a live lease, change nothing; a
refused renewal stops the worker. The priority order of a poll is left out: any
job that may be offered may be the one offered. Progress figures, failure logs
and credential-use rows are not represented.

### BackgroundTasks, Notifications, ReportStore, DataExport

A row per idempotency key (`status`, `attempts`, `maxAtt`, `owner`, `lease`,
`due`, `cancel`); per worker the place in `run_worker_once` (`pc`), the claimed
task, what its last unlocked read saw (`snap`) and the heartbeat coroutine
(`beat`); `commits` is history. `Produce` is the scheduler's enqueue under
back-pressure; `Claim` takes a due row or one whose lease has expired
(`SKIP LOCKED` may pass over any, so any eligible row); `Heartbeat` is
`renew_lease` in its read and write; `Finish` covers completion, the cancelled
end and the failures; `Administer` is cancel and retry. What a handler writes is
one commit.

`Notifications` is a channel with one policy: events become deliveries or are
deduplicated, wait for quiet hours or a digest, and are sent by dispatchers that
read, send without a lock and commit at the end. `ReportStore` is a run of a
template: the task renders one report per type, its file is written at once and
its row with the task; the cleanup reads its plan, unlinks files and commits.

`DataExport` names each section of `build_export` with its reference columns and
the section each leads to, and gives the rule of each foreign key by the model that
declares it. A behaviour follows one of the 107 columns: `stored` has the rows of
its two sections, which requests insert, change and delete (`delete_site` takes a
row with all that cascades from it) while the export reads one section after the
other into `bundle`. Two of them have no foreign key and are
checked by a request before it writes them, in two steps: the site of a grant and
the asset groups of a SCIM mapping (a JSON column, which `delete_group` reads and
writes back, in two steps too). The current score and deadline of a finding have
none either, but are inserted with their finding's reference and go with it. `born` and `gone` are what came and went since the export began,
`stray` the references whose row was gone. Left out: references that name their
table in another column or stand inside other JSON values, NOT NULL, and the
values, the checksum and the version of a bundle.

### Workflow

`run` is the row: the eleven stages of `STAGE_ORDER` by their number, the
status, the approval, the current job and the detail of the last failed scanning
stage. `opts` is chosen in the initial state: with web scan, with intrusive
validation, on a network, and whether some notification channel subscribes to
finished scans. `jobs` are the run's scan jobs, `other` another job on the
network, `sess` the handlers in progress with the row they read; `decisions` and
`validated` are history. The engine (`_applicable`, `_current`,
`_activate_next`, `advance`, `fail_scanning`, `decide_intrusive`) is a set of
operators on a run, the loop of `_activate_next` stated as which stage it
reaches. `Commit` says what the UPDATE writes: stages whole, other columns only
if changed. A job may end silently, without `on_scan_job_terminal`, or after
its run has moved on.

### ResultQueue

`disk` is the spool in insertion order; `worker`, `next`, `outputs` (what the
Result carries because the queue was full) and `outcome` are the worker; `drain`
and `answer` the drain, which holds the queue's mutex over its uploads; `late`
the uploads given up that may still be served; `attempt` the server's view;
`ingested` how often each item was processed; `invalid` the batches the server
cannot parse, chosen in the initial state. `durable` and `refused` are history.
One scanner stage of one attempt is followed; batches have one size and the
marker none; the deduplication key (job, attempt, stage, content) is the
identity of the item.

### ScanDispatch

`scope`, `network`, `bound`, `primary`, `enrolled` and `schedule` are the rows,
`held` the Scout's copy of its policy with its version, `tx` the job creations
that have read and not yet inserted, `job` the active jobs. The administrator's
endpoints edit; `sweep_write` and `run_due_schedules_read` are the schedule
sweep, with missed slots collapsed; requests read the network, its binding and
its ranges and insert later, where the partial unique index
`uq_scan_jobs_active_network` refuses a second one; the Scout compares versions,
fetches and verifies a job against its copy (`VerifyJob`).

### PentestSession

`ps` are the session rows with their evidence, `job` the job of each and its
attempts, `exec` what a Scout runs, `open` the attempts with a live session on
the target, `queue` the results on their way, `reading` and `sweep` what
decisions and the sweep have read, `held` legal holds. Approval locks the Rules
of Engagement, counts and creates the job; rejection does not lock. Reports,
results, timeouts, cleanup by operators, retention and holds follow in any order.

### FindingLifecycle and what follows a finding

`row` is the finding (status, link to an acceptance, previous status), `sla` its
deadline with source and pause, `decision` what an active decision remembers,
`acceptance` the acceptances, `tx` an ingestion and `verifier` a verification
that have read. Ingestion reopens, a verification resolves what it did not see,
operators move, dismiss, revoke, accept; `sweep_sla_status` and the expiry of an
acceptance end pauses.

`RiskScoring` keeps the default profile, factors and score of findings with
transactions that read and write them. `RemediationUnits` keeps members of units
with the basis of each. `Ticketing` keeps the connector, the tasks, the ticket
and the mark by which an adapter looks for it. Known limits of the code appear in
`raced`, `contested`, `parted`.

### UserSessions and other ways to authority

`user` is the account (version, second factor, status), `sess` the sessions with
the version their login read, their refresh tokens and the sessions a login is
about to evict; `change` and `refresh` what handlers have read. `SingleSignOn`
is one provider with callbacks that wait for it; `ScimProvisioning` groups,
mappings and the access derived from them; `ApiTokens` principals, tokens and
the versions that end them; `Enrollment` tokens, identities and the files of a
host that are written and removed one by one.

### Connectors and inventory

`Connectors` numbers the configurations of one connector: a test, an upload, a
change and a run each read the row, wait and write what they changed.
`InventoryReading` reads a source that changes between requests, by pages, by
offset, by continuation token or in one answer as each adapter does.
`Reconciliation` merges, waits or creates, and splits from a snapshot.
`AssetContext` derives memberships and ownership history.

### What administrators control

`CredentialDelivery` follows two versions of a secret into the envelope of a
job. `Accounts` is about the last administrator and break-glass account.
`RelayRows` is about ranges and certificates of relays. `HostUpdate` has the
commands of the CLI as sequences of steps each of which may fail or be the last.

## 3. Runs

| Run | Instance | What it shows |
|---|---|---|
| `lease` | 1 job, 2 offers, 1 report in flight, fair | only the newest attempt is active (`OneActiveAttempt`), rows and Scout implement the log of attempts (`ImplementsAttemptLog`), what is over is undone only by a write that rests on an older read (`UndoneOnlyByStaleReads`), every job ends for good (`AllJobsSettle`) |
| `tasks` | 1 task, 2 workers, 3 claims, fair; 1 event, 2 dispatchers, 2 deliveries, 2 sends; 2 report types, 2 executions; any of 107 columns, 2 rows | handler writes are fenced (`CommitsAreFenced`), every task settles (`TaskSettles`); no event is lost (`NewsIsQueued`); a report is the file its row names and retention spares what is needed (`ReportsAreKept`); an exported reference leads to an exported row, but for what changed between the SELECTs or was gone before (`ExportIsClosed`) |
| `workflow` | 1 handler at a time, 3 jobs; 3 batches, cap 2, 1 restart; fair | verification, reporting and cleanup are carried out (`TailTraversed`), nothing behind the gate starts unapproved (`IntrusiveOnlyIfApproved`), a run ends unless a scan job ended silently (`RunEnds`); results are processed once, none forgotten, none overtaken by the marker (`EvidenceArrives`), and the queue drains unless an unparsable batch is at its head (`DrainsUnlessBlocked`) |
| `dispatch` | 1 network, 2 ranges, 1 Scout, 2 jobs, 1 change, fair | one test of a network (`OneActivePerNetwork`), Scouts come to hold the policy (`PolicyConverges`), schedules fire (`ScheduleKeepsFiring`) |
| `findings` | 2 acceptances; 2 scored findings; 2 findings and keys; 2 tasks of a ticket; fair | `DismissedIsDecided`, `ResolvedWasAbsent`, `StillPresentResurfaces`; `ScoreIsCurrent`; `RejectedStaysOut`; `OneTicket` |
| `pentest` | 2 sessions, one followed through 2 attempts, limit 1, 2 decisions, 2 events | `JobsWithinLimit`, `CleanedIsTornDown`, `EvidenceByRule` |
| `identity` | 3 sessions, 1 change, 2 refreshes; 1 provider, 2 callbacks, 2 configurations; 1 account, 2 groups, 2 clients; 1 service, 2 tokens, 2 handlers; 2 hosts, 2 tokens, 2 identities, 2 events | `ReplacedCredentialsEnd`; `SignOnIsCurrent`; `AccessFollowsGroups`; `TokensFollowAuthority`; `OneIdentity` |
| `inventory` | 2 requests, 2 runs, 1 change; 3 assets, 2 observations of 2 sources, 2 MACs; 1 asset, 2 groups, 2 sites; 4 records behind 5 adapters | `CollectedIsTested`; `SplitRestores`; `DerivedRowsFollow`; `SuccessIsComplete` |
| `control` | 2 credentials, 1 job; 4 accounts, 5 requests; 2 relays, 1 range; 3 releases, 1 write, 3 archives; 2 handlers, 2 jobs of a run | `DeactivatedIsNotOffered`; `AdministratorStays`; `RangesDisjoint`; `OutcomeIsTrue`; `ReportedBeforeOver` |
| `assets_tied` | 1 asset, 2 groups, 2 sites | violated: finding 1 |
| `first_page_only` | 3 pages of one source, fair | violated: finding 2 |
| `restored_over` | 3 releases, 3 archives | violated: finding 3 |

The runs reach from some thousands to 3.4 million states (`pentest`; `control`
1.7 million) and take from seconds to under five minutes.

*Why the bounds are enough.* The hazards need two actors and a stale read, or
one actor and a cut between two steps; each instance has two of whoever may
overlap and one thing they meet on, and enough repetition for the second actor
to finish before the first writes. One job offered twice has a reclaim, a fenced
report, a late acknowledgement and a second execution; two workers on one task
claimed three times are a stale reader and its successor, twice over. A run has
three scanning stages and so three jobs; two handlers and two jobs (`control`)
give a stale writer and a fresh one over every stage. Three batches over a cap
of two make the queue full, then empty, with a marker behind. Two sessions
exceed a limit of one, and a second attempt exists for results of the first to
arrive late. Three sessions exceed a limit of one twice. Three releases have an
update with a migration, one without and a release to go back to; three archives
let a backup of the last release be restored over the update to the second. In
`control` a host is followed until a command goes astray or has restored another
backup, after which the property says of it only that "unchanged" is so; with two
archives and no such limit the property holds too. Two rows of an
export are a reference and what it leads to; with three, which let a mapping get a
group back that has gone, its property holds too. Where a
theorem is listed in section 5 the bounds do not matter for the property.

*Symmetry* is used for the handlers of a run in `control`, for the deciders in
`pentest` and for the sessions, changes and refreshes in `identity`: these runs
have no liveness property, and no constant tells those values apart. It is used
nowhere else.

*Deadlock* is checked in `dispatch`, where a schedule never ends. Elsewhere a
job, a task, a run, a queue or the events of the instance come to an end and
nothing is left to do.

*Fairness.* `lease`: the server handles what reaches it, the sweep runs every
minute (`reaper_loop`), time passes, the worker ends (its deadline is signed) and
the loop goes on – weak fairness; of an endless series of terminal reports one
arrives and one is answered – strong, for a link that is not dead for good.
`tasks`: worker loops poll forever, handlers end, heartbeats and time go on.
`workflow`: operators and approvers act on a run that waits for them and a scan
job ends, if only because the reaper expires it; of the results, the worker goes on,
the run loop drains after every successful heartbeat however often the worker
takes the mutex in between, and the link does not lose every answer – strong.
`dispatch`: time, Scouts and jobs go on; the sweep and the synchronisation of
the policy, which others may disable again and again, are repeated for ever –
strong. `findings`: scans of the network come back (strong: their transaction
may find another at work), their writes, a revocation that is due and the SLA
sweep happen. `first_page_only`: runs are enqueued and collected. Nothing obliges
an operator to cancel, decide or change anything, nor a Scout to crash.

## 4. Findings and limits of the code

Three runs are violated; the sentences they contradict are quoted in
`PROJECT.json`.

1. **A tie that configuration accepts** (`assets_tied`). A static group keeps its
   members when it moves to another site; an owning group of the same priority is
   then accepted at the old site, and every ingestion of a member fails.
2. **Only the first page of leases** (`first_page_only`). The cursor is stored in
   the run that has finished; a new run starts with the empty one.
3. **A restore leaves the rollback point** (`restored_over`). `vulna backup restore`
   brings in the data of the archive and leaves `.vulna-update.json` as it was. After
   an update without a migration and the restore of a backup of a later release, a
   rollback starts the release before on a schema that it does not know.

Passing properties have their exceptions in them, and each is a behaviour the
code really has; dropping it makes TLC find the behaviour.

* `UndoneOnlyByStaleReads` – a report that read the job before it was cancelled
  takes it back to accepted or running, and a `cancel_job` that saw QUEUED
  cancels what a poll has delivered meanwhile (`jobs.py:391`).
* `RunEnds` – a run is stranded when its scan job is cancelled while
  queued or expired by a poll: nobody tells the workflow. With two handlers an
  approval and a denial that overlap may skip the cleanup of a validation that
  has started, which is why `TailTraversed` is stated for one handler and
  `ReportedBeforeOver` for any number.
* `EvidenceArrives` – a 409 that the Scout takes as final is answered while a
  lease has merely lapsed, and uploads are accepted again once the attempt is
  expired; `DrainsUnlessBlocked` – a batch answered 422 holds back all later ones.
* `JobsWithinLimit` – sessions an operator closed while the exploit ran, and those
  decided twice at a time (a rejection takes no lock), are not counted.
  `CleanedIsTornDown` – `cleanup_verified` of a first attempt stays for a second.
* `ReplacedCredentialsEnd` – two changes that overlap write the same version.
  `AccessFollowsGroups`, `TokensFollowAuthority`, `SignOnIsCurrent`,
  `AdministratorStays`, `RangesDisjoint`, `ScoreIsCurrent`, `RejectedStaysOut` –
  requests that overlap undo or miss each other; the last break-glass
  administrator's grant can be deleted; a killed and resumed relay that was
  revoked comes back.
* `OneIdentity` – a reset that was cut short leaves remains; the next enrollment,
  if it crashes, may leave a Scout that says it is enrolled and has a new key with
  an old certificate.
* `SuccessIsComplete` – a list read by offsets loses a record when one is removed
  between pages; Kea and the generic adapter read one page.
* `DerivedRowsFollow` – software inventory and the creation of assets by
  reconciliation refresh no dynamic group. `SplitRestores` – a split restores
  what was there only if nothing touched the asset since.
* `OneTicket` – the mark is that of a task, so a second task after a lost
  execution makes a second ticket. `NewsIsQueued` – an event deduplicated against
  a delivery that is sent and not yet recorded so is lost.
* `ReportsAreKept` – two workers at one task may leave the file of one and the row
  of the other; `OutcomeIsTrue` – what it says of
  rollback points and restored data is not said once a command was killed half way or
  could not recover, nor after a `backup restore` (finding 3).
* `ExportIsClosed` – the deletion of a site leaves its grants, and its asset groups
  in SCIM mappings; a grant or a mapping may be written for a site or group that was
  deleted after the check, and two groups deleted at once may leave one in a mapping.
  `validate_import` then warns of the system's own export.
* `CollectedIsTested` – a change that overlaps a test may pass for tested.

Met while modelling and left out of the properties: a Scout that completed a job
cancelled under it is answered 409 for ever; a lease that expires is reclaimed
without regard to `max_attempts`; nothing sweeps expired acceptances; recovery
codes and TOTP time codes are consumed without a lock;
`organization.settings_json` is replaced as a whole by writers that do not know
of each other; a test of a credential whose job ends unreported stays "pending".

## 5. Proofs

Every theorem holds for every value of the constants, under the assumptions named
in the modules (`LeaseConstants`, `TaskConstants`, `WorkflowConstants`,
`ScanDispatchConstants`, `SessionsConstants`, `PentestConstants`,
`FindingLifecycleConstants`, `ConnectorsConstants`, `RecordConstants`,
`ReadingConstants`, `SpoolConstants`): bounds are natural numbers (positive where the code
has a positive default), "none" is none of the elements it stands next to, and
the sessions under one Rules of Engagement are finitely many. TLC evaluates the
assumptions in the runs. The sets of jobs, tasks, workers, handlers, sessions,
networks, Scouts and ranges are arbitrary.

Each module proves that an inductive invariant `IInv` holds initially and is kept
by every action, one step per action, and derives its theorems from it.

* `ScanJobLeaseProofs` – `OneActiveAttempt` alone is not inductive: an offer makes
  attempt `fence + 1` active, so one must know that tokens above `fence` have
  never been used (`Unissued`); a report and the Scout's slot may only name issued
  tokens (`TokenIssued`); and what the reaper has selected was issued
  (`ReapIssued`). That jobs are undone only by stale reads is shown action by
  action: a poll touches only active or queued jobs and expires what it reclaims,
  a report cancels a job together with its newest attempt.
  The same module proves the refinement: every step of the lease is a step of
  `AttemptLog` or a stutter. That an attempt is executed once needs more than
  `IInv`: an acceptance is in flight at most once (`AcceptOnce`), never for a token
  not issued (`ReportsIssued`), and not when the attempt has been accepted already
  (`Fresh`).
* `BackgroundTasksProofs` – the type invariant says what a worker in each place of
  `run_worker_once` holds; with it each property needs one step for each action.
  *Notifications:* an event that is news and was not missed has a row that is not sent
  and that no dispatcher is about to record as sent (`Told`): whoever has sent a row
  has told its event, because a dispatcher's copy is of the same event and ids are
  not used twice (`Numbered`). *Reports:* an execution that has written a file found
  no completed row of that report, and while executions do not overlap the file is
  its own until it commits (`Writing`); what a cleanup is about to remove was free
  when it made its plan, and what has come up since is remembered (`Planned`). The
  theorem assumes that "none" is no row and that no report type is called "scan_job".
  *The export:* a reference leads to a row that is there, or has gone astray and leads
  to an id that is not used again (`LeadsTo`), and what a request has checked or read
  before it writes names ids that were rows of the right section (`AskedLead`); the
  rows of a section that was read are in the bundle or were born since
  (`ReadIsBundled`). So a reference of the bundle that is not known yet is to a
  section still to be read, which has the row or has lost it (`Awaited`), and the
  order of the sections (`PlaceIsOne`, `ReadInOrder`) says what that makes of it. The
  theorem assumes that NULL is no row.
* `ControlProofs` – *the run:* a handler may write back an old copy, so the invariants speak
  of the row *and of every handler's snapshot*. As long as nobody has approved they
  are `Clean`: not approved, the stages behind the gate pending or skipped. And
  each has a `Shape`: at most one stage is active, the tail behind it is untouched,
  and verification and reporting were carried out once they are passed. Lemmas show
  of each function of the engine that it keeps both (`AdvanceShape`, `DecideShape`,
  …), the loop of `_activate_next` through what it reaches (`ActivateTail`). That
  cleanup is not passed over, and that a run has ended when its status says so,
  holds of handlers that take turns (`WorkflowTailTraversed` assumes that there is
  one): then the snapshot is the row (`Alone`), and a run once validated keeps
  validation applicable because the gate is behind it (`Sound`). With two handlers
  it is false, as section 4 says.
  *Relays:* a change is judged on the scopes of the others and written later, so what
  is under way must have seen every live relay (`ScopeHasSeen`), which only scope
  changes can spoil (`ScopesOnly`); killed and deactivated relays count as live, since
  they come back (`LiveDisjoint`).
  *Credentials:* a deactivation cancels the jobs that it has read. Those are all that
  carry the credential and were not being created meanwhile (`ReadAll`), so a job that
  nobody has stopped, and a creation that nobody has overtaken, carries an active one
  (`StoppedOrActive`).
  *Accounts:* what a handler writes is judged by what it has read; while nobody else
  commits that is what is there, so what waits for its commit leaves an administrator,
  and a break-glass account where sign-on is enforced (`Keeps`). The theorem assumes
  that no account is both local and provisioned, as the `authentication_source` of a user has it.
  *The host:* what is pinned, what runs and what the database has seen go together in
  a way that depends on the step (`HostSound`, by the parts of the protocol:
  `Backing`, `Trying`, `Recovering`, `Rolling`). While a release is tried the schema
  is one that the release before can use, unless the manifest announced a migration,
  and then there is an archive of the release before or the command goes astray
  (`RecoverStep`). What is recorded to roll back to rests on that: without a
  migration both releases have the schema of the CLI's own, with one the archive is of the
  prior release (`Point`). The theorem assumes that releases are numbers with a least one,
  that migrations belong to releases and that "none" is not a release.
  *The queue of results:* the Scout forgets an item only when the server has answered
  for it, so whatever the queue has taken and the server has neither processed nor
  refused is still on disk
  (`Unforgotten`; what a drain has still to upload is what is on disk, because the
  worker cannot write while it runs, `Draining`). The marker is put there last, so
  when it comes to be uploaded every batch is accounted for, and stays so however
  late that upload is served (`MarkerBehind`, `Delivered`). An upload may be
  served long after it was given up; that it is not processed twice is the
  deduplication of the server.
* `FindingLifecycleProofs` – a finding and its deadline appear in one transaction
  (`RowsTogether`); the status a decision remembers is not itself a dismissal
  (`Dismissal`); a linked acceptance is active and only a linked one pauses
  (`LinkIsActive`, `PauseIsLinked`); until somebody has seen the weakness, a
  verification that has looked has met its absence (`Verification`).
  *The score:* a transaction computes rows from those it has read and merges them into
  what is there by then; each row it is to write is the one it read, with the profile
  and the exposure left alone, or has the score of its own factors under the profile
  that the transaction leaves (`Scores`). *The units:* what a request is
  to write is one step in the life of a suggestion (`Orderly`). *The ticket:* as
  long as executions did not overlap there is one of them (`OneWorker`), and a ticket
  that is recorded nowhere carries the mark of the task that is at work or was lost
  (`Findable`). The theorem assumes that "none" is not the number of a ticket.
* `ScanDispatchProofs` – creators decide on what they read and insert later, so
  nothing a transaction carries says that its network is free: what keeps tests
  apart is the index. `OneEach` states it of pairs of jobs, which is inductive;
  `VersionsFollowEdits` is what the versions of the policy rest on, with a lemma
  that a set of numbers up to a bound has a largest one.
* `IdentityProofs` – *sessions:* what ends a session after a change is not that the change
  revokes it, since a login under way is not seen, but that the version counts the
  changes (`VersionsCount`). A session has one usable token because a refresh holds
  the row of the token it replaces and nobody revokes a session whose token is held
  (`TokensLocked`), which together are `ReplacedCredentialsEnd`; what handlers have read stays typed (`WritersTyped`) and no
  session evicts itself (`NotItself`).
  *Enrollment:* an identity spends its token, and whoever holds the row of a token
  finds it unspent (`Spent`); a host writes and removes its files in an order in which
  a later one never stays without the earlier ones (`FilesInOrder`).
  *Sign-on:* the numbers of configuration and mappings only grow, so who read the
  present ones read the present provider (`ReadBefore`); a recorded test is of them,
  and what is enabled was found tested (`TestedIsProved`, `StillTested`).
  *Provisioning:* what a request is to commit is right while nobody has committed
  since it derived it (`Derives`). *Tokens:* while nobody else commits, what a
  handler has read is what is there (`ReadsStand`); a version is used under one
  authority (`VersionOfAuthority`), and tokens rotated from one another form a family
  of one owner with one that works (`Families`, `OneOfFamily`). The theorem assumes
  that "none" is no principal and no token.
* `PentestSessionProofs` – the gate counts approved sessions, the limit is about
  jobs: they meet because a session with a live job and time left is approved
  (`Approved`), which needs that a decision under way is about a pending session
  that no sweep and no other decision has read (`DecidedOnce`, `SweepReads`). That
  a session is cleaned when its target is follows the attempt: from the moment
  something says that it was torn down no Scout may open it again (`Torn`, with
  `Ordered` and `Fresh` about the numbers of attempts).

* `ConnectorsProofs` – requests write what they computed from an earlier read. The
  column that says "tested" and the configuration stay together because a change
  and a test that overlap know of each other (`Met`): a test that ends is of the
  present configuration or of one whose change it has met (`TestRead`), and a change
  that leaves "untested" alone is right about it or has met a test (`ReadUntested`).
  *Groups and owners:* whoever commits derives the rows of an asset from what is
  committed then, so the memberships agree with the rules except at an asset that
  a commit without a refresh has touched (`MembersMatch`), and the open row of the
  ownership history is that of the present owner (`OwnerRecorded`).
  *Records:* what a split will write back is held in the snapshot of the merge. As
  long as nothing has touched asset and record since, taking the merge back from
  what is there leads to what was there before (`Restorable`).
  *Reading:* a record that was there all the time is among those read or still
  ahead of the place at which the next request starts (`Kept`), unless one before
  it was removed from a list read by offsets, or the adapter reads one page
  (`Passed`).

| Theorem | States |
|---|---|
| `LeaseTypeCorrect` | For any jobs, offers and reports in flight the rows stay well formed and a Scout past its poll has an attempt. |
| `LeaseOneActiveAttempt` (`OneActiveAttempt`) | At most the newest attempt of a job is active, and none while the job is queued. |
| `LeaseAcceptanceRecorded` | The Scout never runs an attempt whose acceptance the server has not recorded. |
| `LeaseAttemptsNeverRevive` | No step makes a finished attempt active again. |
| `LeaseUndoneOnlyByStaleReads` (`UndoneOnlyByStaleReads`) | Only a write that rests on an older unlocked read takes an ended job back or cancels a delivered one as undelivered. |
| `LeaseImplementsAttemptLog` (`ImplementsAttemptLog`) | Rows and Scout implement the log of attempts: every attempt is begun at most once, in the step that records its acceptance, and all earlier attempts are closed before the next is made. |
| `TasksTypeCorrect` | Rows and workers stay well formed for any tasks, workers and limits. |
| `TasksRecoverable` | Every running row names an owner and carries a lease expiry, so that it can be reclaimed. |
| `TasksCancellationWins` | No completed task carries a cancellation request. |
| `TasksCommitsAreFenced` (`CommitsAreFenced`) | Handler writes are committed only by the current lease owner. |
| `TasksReopenedOnlyByStaleWrite` | Only a write after an unlocked read can reopen a completed task. |
| `TasksNewsIsQueued` (`NewsIsQueued`) | What has happened and was not told has a delivery that is not sent, for any number of events, dispatchers and sends, but for the event that met a delivery sent and not recorded. |
| `TasksReportsAreKept` (`ReportsAreKept`) | While executions do not overlap a completed report is the file its row names, and retention removes nothing that is held, open or referred to, for any number of report types and executions. |
| `TasksExportIsClosed` (`ExportIsClosed`) | Whichever of its references is followed and however many rows come, change and go between the SELECTs of an export, a reference of the bundle is to a row of the bundle, unless that row was deleted after the reference was read, inserted after its section was, or gone before; an organisation that nothing happened to validates without a warning. |
| `WorkflowTypeCorrect` | The run, its jobs and every handler's snapshot stay well formed for any number of handlers and jobs. |
| `WorkflowIntrusiveOnlyIfApproved` (`IntrusiveOnlyIfApproved`) | For any number of overlapping handlers no stage behind the approval gate starts before an approval was accepted. |
| `WorkflowTailTraversed` (`TailTraversed`) | For handlers that take turns, a run ends only after verification and reporting were carried out, and cleanup if validation was ever started. |
| `WorkflowReportedBeforeOver` (`ReportedBeforeOver`) | However many handlers overlap and whatever stale stages they write back, no run is left without an active stage before verification and reporting were carried out. |
| `ControlRangesDisjoint` (`RangesDisjoint`) | For any number of relays, ranges and requests under way, enrolled relays have no range in common, unless two scope changes overlapped or a revoked relay came back. |
| `ControlDeactivatedIsNotOffered` (`DeactivatedIsNotOffered`) | A queued job is offered only with a credential that is active, unless it was being created while the vault changed, for any number of credentials, jobs and deactivations. |
| `ControlAdministratorStays` (`AdministratorStays`) | The last active administrator, and with single sign-on enforced the last break-glass account, goes only by a commit judged on stale reads or by the deletion of its grant, for any number of accounts. |
| `ControlOutcomeIsTrue` (`OutcomeIsTrue`) | What update, rollback, backup and restore report is so, and a rollback that is offered is usable, for any releases and migrations, unless a command went astray or another backup was restored before. |
| `WorkflowEvidenceArrives` (`EvidenceArrives`) | For any number of batches, any cap and any number of restarts, lost answers and late uploads, what the queue has taken is processed once or still on its way unless it was refused, and the completion marker overtakes none of it. |
| `DispatchTypeCorrect` | Every variable of the dispatch model stays in its type. |
| `DispatchOneActivePerNetwork` (`OneActivePerNetwork`) | However schedules, operators and workflows overlap, a network has at most one active scan job. |
| `DispatchScopeChangeWins` | A Scout whose policy is current starts no job that reaches outside its scopes, even one signed before a range was removed. |
| `FindingTypeCorrect` | Every variable of the finding's model stays in its type. |
| `FindingDismissedIsDecided` (`DismissedIsDecided`) | A finding is shown as dismissed only while a decision is active, under every order of scans, verifications, edits and acceptances. |
| `FindingPausedIsAccepted` | A deadline is paused only under an active acceptance of the finding. |
| `FindingResolvedWasAbsent` (`ResolvedWasAbsent`) | A verification resolves nothing that was there all the time it ran, also when another scan is ingested meanwhile. |
| `FindingDeadlineByRule` | Once calculated, a deadline changes only through an approved exception or the end of a pause. |
| `FindingsRejectedStaysOut` (`RejectedStaysOut`) | For any number of units, findings and requests under way, a finding is in a unit by a review only while its acceptance stands, unless two reviews of it overlapped. |
| `FindingsOneTicket` (`OneTicket`) | For any number of tasks, attempts and lost answers a finding has one ticket in a system, unless executions overlapped or a task began after another was lost. |
| `FindingsScoreIsCurrent` (`ScoreIsCurrent`) | For any number of profiles, feeds and requests under way, a score is that of the present factors under the default profile, unless what wrote it rested on a stale read. |
| `SessionsTypeCorrect` | Every variable of the session model stays in its type. |
| `SessionsChangeEnds` | No session authenticates whose login read the account before the last change of its credentials, unless two changes overlapped. |
| `SessionsOneLiveToken` | A session has one refresh token that is good, however often a refresh is tried or its answer lost. |
| `SessionsFactorCovers` | With a second factor enrolled a session is pending or has verified it, unless its login overlapped the enrolment. |
| `IdentityOneIdentity` (`OneIdentity`) | However many hosts present a token it makes one identity, and a host that says it is enrolled holds the files of one identity, unless a reset was cut short. |
| `IdentitySignOnIsCurrent` (`SignOnIsCurrent`) | However requests, logins and callbacks interleave, an enabled provider has passed a test of its present configuration and mappings and a provisioned access comes from the present mappings, unless what wrote them had read what has changed since. |
| `IdentityAccessFollowsGroups` (`AccessFollowsGroups`) | For any number of groups, members and requests, a member has the access that the mapped groups give, unless the last request that concerned it had derived it before another one committed. |
| `IdentityTokensFollowAuthority` (`TokensFollowAuthority`) | For any number of principals, tokens and requests under way, a token that works was issued under the authority its owner has now, and of those that were rotated from the same token only one works, unless two requests about the owner overlapped. |
| `SessionsReplacedEnd` (`ReplacedCredentialsEnd`) | For any number of sessions, logins, changes and refreshes, what a change of the credentials or the rotation of a token replaces is of no use afterwards, unless two changes overlapped. |
| `PentestTypeCorrect` | Every variable of the pentest model stays in its type. |
| `PentestJobsWithinLimit` (`JobsWithinLimit`) | However approvals overlap, the live jobs of a Rules of Engagement stay within its limit, sessions closed by hand, decided twice or past their time aside. |
| `PentestCleanedIsTornDown` (`CleanedIsTornDown`) | A session whose only attempt was never closed by an operator is cleaned only when nothing it opened is left. |
| `PentestEvidenceByRule` (`EvidenceByRule`) | Evidence stays only where the policy retains it or a hold once covered it, and held evidence goes only in a purge that had read the holds before. |
| `ConnectorsTypeCorrect` | Every variable of the connector model stays in its type. |
| `ConnectorsCollectedIsTested` (`CollectedIsTested`) | A run collects only with a configuration that a test which succeeded has used, unless a change overlapped that test, for any number of requests, runs and configurations. |
| `ConnectorsDerivedRowsFollow` (`DerivedRowsFollow`) | For any number of assets, groups, sites, addresses and commits, memberships agree with the rules of the dynamic groups and the open row of the ownership history is that of the owner, but for assets that a commit without a refresh has touched. |
| `ConnectorsSplitRestores` (`SplitRestores`) | For any number of assets, records and sources, a split leaves the asset and the link of its record as they were before the merge when nothing has touched them since. |
| `ConnectorsSuccessIsComplete` (`SuccessIsComplete`) | For each of the twelve adapters, any source that changes between requests and any page size, a run that succeeds has observed every record that was there all along, but for a list read by offsets that lost one and an adapter that reads one page, and leaves no session open. |

Only model-checked, and why:

* all liveness (`AllJobsSettle`, `TaskSettles`, `RunEnds`,
  `DrainsUnlessBlocked`, `PolicyConverges`, `ScheduleKeepsFiring`,
  `StillPresentResurfaces`): fairness and ENABLED are out of the prover's reach;
* the three runs of section 4, which are violations;
* `TailTraversed` for more than one handler, where it is false.

Stated by theorems and not by a run: that every running task can be reclaimed
(`TasksRecoverable`) and no completed one carries a cancellation
(`TasksCancellationWins`), that an attempt runs only when its acceptance is
recorded and none revives, that deadlines are paused and set by rule, that a
change of scopes wins over a signed job, and that a second factor covers the
sessions of its user.

## 6. Not modelled

Cryptography (signatures, certificates, envelope encryption, hashes) is assumed
to work. Parsers, formulas, report layout, feeds, the permission catalogue, the
frontend and the execution of scanners are data conversion, I/O or tables without
a protocol of their own. The audit chain is a lock and a sequence. Times are
facts ("expired", "due") that may change at any moment: the margin between the
server's lease of 180 s and the Scout's 150 s is not modelled, so the overlap of
two executions in real time is not excluded by these models; that the second is
fenced is. Several organisations and sites are independent copies of one, except
where a module names sites.

## 7. Plan

The plan of the project was: the core (`BackgroundTasks`, `ScanJobLease`,
`Workflow`, `ResultQueue`), then dispatch, findings, pentests, identity,
inventory and what administrators control, then their proofs. Left:

* a composition of `ScanJobLease` and `Workflow`, in which the job that ends
  silently is the one that a poll expires;
* the margin between lease and execution limit, with a clock.

## 8. Running

`tlc -config X.cfg M` for the pairs in `PROJECT.json`; `tlapm M.tla` for the
modules named `*Proofs`.
