# VulnSuite: verification project

TLA+ models of VulnSuite, the configurations that check them with TLC, and
theorems about them checked by TLAPS.  File and line references are to the
repository; `protection/` stands for `src/vulnsuite/protection/`.

## 1. The system and its parts

VulnSuite is two programs that share a package.

**Protection** (`src/vulnsuite/protection/`): agents on hosts collect security
events and carry out approved containment; a control plane (FastAPI over one
SQLite file in WAL mode) detects, keeps incidents and reviews responses; a
response worker talks to third parties.

| part | state it keeps | operations | interacts by |
|---|---|---|---|
| control plane store (`store.py`, `operations_store.py`) | events, alerts, commands, response_jobs, deliveries, incidents, enrolled_hosts, enrollment_tokens | `ingest`, `record_operational_alert`, `queue_notifications` | one `BEGIN IMMEDIATE` transaction per operation, some reads outside it |
| control plane API (`service.py`, `operations_api.py`) | cached `host_addresses` | enrol, revoke, rotate, policy, incidents, blocks, playbooks and their receipts | HTTP, from operators and from agents |
| response worker (`response_worker.py`, `integrations.py`) | leases in response_jobs and deliveries | claim, apply or roll back, record; deliver | HTTPS calls to Cloudflare and webhooks that may time out |
| agent (`agent.py`, `sensors.py`, `windows_agent.py`) | one state file: offsets, baselines, outbox, receipts | collect, deliver, respond | HTTP to the control plane; `save_state` is its only durable step |
| local playbooks (`response_agent.py`, `playbooks.py`, `windows_*.py`) | quarantine vault and manifests, firewall tables, playbook receipts | quarantine, restore, isolate, release, expire | called by the agent; native calls between which the process may die |
| maintenance (`maintenance.py`) | snapshots, maintenance state | backup, restore, prune, health | shares the database with the control plane |

**Assessment** (`src/vulnsuite/{core,workers,api,collectors,ai,...}`):
scheduled scans of assets whose findings are normalised, deduplicated, scored
and reconciled with the findings already stored.

| part | state it keeps | operations |
|---|---|---|
| orchestrator (`core/orchestrator.py`) | none | runs collectors in parallel, drops the failed ones, merges, scores, hands over |
| finding store (`core/db.py`) | assets, findings | `reconcile_findings`: open, touch, fix, reopen |
| pure logic (`core/dedup.py`, `risk_engine.py`, `fingerprint.py`) | none | merge, score, identify |
| threat feeds (`core/epss_provider.py`, `kev_provider.py`) | cache | fetch with fall-back |
| tasks (`workers/tasks.py`) | Celery jobs | scan, persist, AI enrichment |
| API and auth (`api/`) | cached key set | JWT verification, endpoints |
| collectors, AI, reporting, dashboards | none of their own | calls to external tools |

What is hard in it: several workers over one database; calls whose outcome is
unknown; processes that die between a native mutation and its record; HTTP
retries; revocations that race requests; leases, deadlines and clock readings;
scans whose partial results decide which findings are fixed.

## 2. The plan

In order; the first modules carry the behaviour with the most actors and the
most irreversible effects.

| module | component | abstract promise | proved |
|---|---|---|---|
| `CloudResponse` (done) | reviewed cloud block, leased worker, provider | `ReviewedAction` | type, inductive invariant, all safety, refinement |
| `AgentDelivery` (done) | agent outbox to events table | `EvidenceChannel` | type, inductive invariant, safety, refinement |
| `LocalPlaybook` (done) | reviewed local actions, poll, receipts | `ReportedCommand` | type, inductive invariant, safety, refinement |
| `Quarantine` (done) | vault, manifests, native moves | the properties themselves | type, inductive invariant, safety |
| `FindingLifecycle` (done) | overlapping scans, reconciliation, enrichment | the properties themselves | type, inductive invariant, safety |
| `BlockCommand` (done) | address blocks, their listing, execution and receipts | the properties themselves | type, inductive invariant, safety |
| `Collectors` (done) | every collector of a scan: tool, exit code, time-outs, slots, errors | the properties themselves | type, inductive invariant, safety |
| `Corroboration` (done) | findings of each tool, keys, merges, scores, suppression | `Fingerprint` of every contributor | merging keeps identities and identifiers, for any findings |
| `ScanRun` (done) | `Collectors` composed with `Corroboration`: one run of the orchestrator | every record is reported or its collector is an error | type, inductive invariant, safety; it is a run of `Collectors` |
| `Outbox` (done) | webhook deliveries and their workers | the lease holder is believed | type, inductive invariant, safety |
| `AlertDesk` (done) | alerts, reviews, incident, health monitor, pruning | retained evidence | type, inductive invariant, safety |
| `HostAccess` (done) | tokens, enrolment, policies, cached addresses, lateral movement | the map is the policies | type, inductive invariant, safety |
| `Isolation` (open) | firewall tables, rollback timers, release, on Linux and Windows | a host is never isolated past its deadline | type, safety |
| `Windows` (open) | quarantine by native handles, a variant of `Quarantine` | the properties of `Quarantine` | type, safety |
| `KeySets` (open) | the cached key set of the JWT verifier, EPSS and KEV files | no answer older than its bound | type, safety |

## 3. The modules

### CloudResponse, ReviewedAction

`CloudResponse` models the response_jobs rows with action `cloud_waf_block`:
the request (`request_playbook`, its check and its INSERT are two steps because
the SELECTs run outside a transaction and `host_policies` opens a connection of
its own), the approval, the revocation, the expiry sweep and the claim of
`_claim_response` (one transaction each), and every provider call of
`CloudflareWAFConnector.apply` and `rollback` as one step of a worker (`Prepare`,
`Find`, `Post`, `Confirm`, `Delete`), then the fenced UPDATE (`Record`).  A call
may fail retryably or not; a POST that timed out may have been executed, not, or
be executed later (`LatePost`).  A worker may crash or stall at any step.

Times are ticks left.  `lease_until` is a deadline and, since no two claims
write the same value, a fencing token: `lease` and `owner`.  Whether Cloudflare
accepts two rules with one `ref` is not in the repository: with `DuplicateRefs`
it may accept or refuse the second, without it refuses.  The proofs hold for both
values, and the runs take the worse one, TRUE; `AttemptedIsSettled` excepts a job
with two rules, which `_find` answers with `duplicate_reference` for ever.

`ReviewedAction` is the promise: open, authorised, attempted, settled or
withdrawn; the provider is touched only for attempted jobs, and withdrawn and
settled are final.  `ImplementsReview` is the refinement.

| run | question | bounds |
|---|---|---|
| cloud_settles | does the row agree with the provider when workers stall past their lease, crash and lose answers, does the worker implement `ReviewedAction`, and is every attempted job settled? | 1 job, 2 workers, 3 ticks to expiry, leases of 2, 2 faults |

Jobs share nothing but the order in which a worker claims them, which
`CloudReview.cfg` has with two; two workers are for a reclaim; two faults for a stall that
outlives its lease and a failed or late call of the worker that reclaimed.  `MaxFaults` counts
crashes, stalls and failed calls: it makes failures finite, which is the
fairness assumption of `AttemptedIsSettled` (a provider that refuses for ever
leaves the job in `rollback_failed` for ever).  Fairness is weak fairness of
each worker's loop (`main --watch`), of time, and of late POSTs.

Proofs (`CloudResponse_proofs`): `IInv` is the type invariant with `RowInv`
(status against attempts and review), `WorkerInv` (a worker's step against its
row), `EdgeInv` (row against provider) and `StrayInv` (what a rolled back job
may leave).  The clause that carries the argument is in `WorkerInv`: while a
worker holds a rollback the row is being undone, whoever claimed it since, so a
fenced outcome `applied` is never written over it.  The proof follows the
actions; steps of workers that move no row share one lemma (`MoveFacts`).  The
refinement follows from `RowMoves`, the moves a single row can make.

### AgentDelivery, EvidenceChannel

`AgentDelivery` follows log lines from a file to the events table.  Its actions
are the steps of `cycle` in their order: `Look`-type steps read complete lines
into memory, `Save...` steps are the calls of `save_state` (the agent's only
durable step, so `mem` and `disk` are two variables and a crash keeps `disk`),
`Batch` and `Send` are one request of the outbox each, `SendRecovered` is the
health report of a blocked queue.  `ingest` is one transaction.  A request may
be lost before or after it was carried out, or be carried out late (`late`).
`horizon` stands for the clock: events up to it are older than the archive
window and are refused.

`EvidenceChannel` is the promise: a line is taken once and recorded once.

| run | question | bounds |
|---|---|---|
| agent_evidence | is anything lost, doubled or reordered between the log and the events table, does what can arrive arrive, and is a blocked agent still heard of? | 3 lines, an outbox that pauses at 2 and holds 4, batches of 2, 1 rotation or truncation, 1 event that goes stale, 2 crashes or lost requests |

Three lines overfill an outbox that pauses at two, one of them unread in a file
that is rotated; two faults are a lost answer followed by a crash before the
retry.  Fairness is weak fairness of the agent's next step: `main` runs `cycle`
in a loop and a service manager restarts it.  `OffsetsMeanCollected` and
`EvidenceArrives` exclude truncation in place: see section 5.

Proofs (`AgentDelivery_proofs`): `IInv` says the same of the state file and of memory,
`StateInv`, because a crash puts one in the place of the other: its outbox has events
in the order of their numbers and one for each line (`OutboxInv`), its offset passes
no line over (`OffsetInv`), and whatever is stored, or under way in a request that may
still be carried out, was preceded by all older evidence of its outbox (`OrderInv`).
`AgentInv` ties the two together: memory holds on to all that is on disk and not yet
stored.  The clause about requests under way carries the argument: the retry of a
batch and the batch itself may both arrive, in either order.  `Evidence`, which drops
heartbeats from an outbox, is a recursive function; what it keeps is proved in
`EvidenceOf` by induction over a set of numbers (`UpTo`).

### LocalPlaybook, ReportedCommand

`LocalPlaybook` models the response_jobs rows of local actions and the agent
that carries them out.  The request's check and INSERT are two steps
(`RequestCheck`, `RequestInsert`), approval, revocation, enrolment and receipt
are one transaction each; `poll_playbooks` is followed call by call: post the
unacknowledged receipts (`Flush`), list (`List`), write the pessimistic receipt
`execution_uncertain` to the state file (`Take`, `CommitMark`), check it
(`Dispatch`) and carry it out (`Execute`), save the result, post it, save the
acknowledgement, prune (`Done`).  The deadline is checked at the dispatch only; the
native action may come at any later moment.  Before the poll `cycle` delivers the
outbox (`SendEvents`) and polls the blocks (`BlockCommands`); either ends the cycle
when it fails.  `refused` says that the outbox begins with a batch that is refused for
good (`Outdate`), which `AgentDelivery` has in detail.
State file and memory are separate and the agent may die at every step, also
inside the native action, which then may have happened, or not.

`ReportedCommand` is the promise: an authorised command is performed at most
once and what is reported of it is true and final.

| run | question | bounds |
|---|---|---|
| playbook_receipts | is an action performed at most once, never once it was withdrawn, reported truly and answered in the end? | an action and the one that undoes it, 2 operators, receipts pruned at once, 1 revocation, 2 crashes or lost requests |

`MaxReceipts = 0` prunes at the first opportunity, which is the worst case of
the 2000 the code keeps.  Fairness is weak fairness of the agent's next step: `main`
runs `cycle` for ever.  It does not mean that a cycle gets to the poll: a batch
refused for good ends each one before that (`agent.py:293`), and receipts are then
not posted and commands not listed.  `ApprovedIsAnswered` excludes that state by
name, as it does a revocation.

Proofs (`LocalPlaybook_proofs`): `IInv` is the type invariant with `RowInv`
(status, approval and result), `AgentInv` (memory against state file),
`JobInv` (what the running step knows) and `TruthInv` (effects against receipts,
saved, recorded and under way).  The clause that carries the argument is in
`JobInv`: between the pessimistic receipt and the saved result nothing was ever
reported of the job, so the only report a crash leaves is the pessimistic one.
`WithdrawnStaysOut` follows from what a step may do with the jobs in hand
(`HandsMove`): only `Dispatch` brings a job to its native action, and only one in time
that the listing had.

### Quarantine

`Quarantine` is one file, its vault record and the executor, one system call a
step, with other programs that write to the file (also through a descriptor they
hold open while it is in the vault), replace it or remove it.  A file is an
inode; its content is the approved evidence or not.  An `OSError` ends a call
where it stands, as a crash does.

| run | question | bounds |
|---|---|---|
| quarantine_moves | is a file ever lost, overwritten, misreported, or left in a vault no restore can empty? | 3 inodes, 3 changes by other programs, 2 crashes |

Three inodes are the approved file, its substitute and what appears at the path
while the substitute is in the vault; two crashes interrupt a quarantine and
the restore after it.

Proofs (`Hosts_proofs`): the invariant relates manifest, vault, path and
the step of the running call.  Its main clause is that a file in the vault has a
manifest that names its inode and its mode, written before the move.

### FindingLifecycle

`FindingLifecycle` is one asset: the vulnerabilities it has (`present`), the
findings table (`rows`), the scan tasks at the workers (`job`) and the queued
enrichment tasks.  A task is accepted (`Request`), starts (`Start`), hears of
each collector or gives it up (`Look`, `Miss`), loads the asset's rows (`Read`)
and commits its plan (`Commit`) or fails to (`Commit` with a conflict on
`uq_findings_tenant_fingerprint`, `Rollback`); `Finish` queues the enrichment;
`Abort` is a Celery retry and `Lose` a worker that dies before the task is
acknowledged.  The plan is `reconcile_plan` (`Insert`, `Update`, `Reopen`,
`Close`).  What a commit writes is `Flush`: SQLAlchemy updates the columns that
differ from what was loaded, so a row that others wrote in between is mixed.

| run | question | bounds |
|---|---|---|
| finding_scans | can overlapping scans, an analyst and enrichment close what is there or undo a decision? | 3 scans, 2 at a time, 2 findings, 2 collectors, 1 failure, 1 change of the asset, 1 decision |
| finding_converges | do the rows agree with the asset in the end? | 1 finding, 1 collector, scans for ever, 2 at a time, 2 changes, 1 failure, 1 decision |
| finding_escalation | does an escalation survive the next scan? (no) | 2 scans, 1 finding, no failure |

Two tasks at a time are enough for every stale read; three scans let one of them
commit between the read and the commit of another and a third see the result;
the second collector sees only one finding, so a failed collector leaves a
partial scan.  Fairness: Celery gives a queued task to a worker, a collector
answers or is stopped by `per_collector_timeout`, an enrichment runs; that scans
are requested for ever (`Endless`) is an assumption about the environment, the
users of the API, as `celery_app.py:42` schedules only a discovery.  Failures are
finite, as a collector that fails for ever hides its findings for ever.

Proofs (`FindingLifecycle_proofs`): `IInv` is the type invariant with `Stamped`
(status and `fixed_at` of the rows) and `ScanInv`: the collectors that answered
have found everything that was present throughout the scan, the rows a scan
loaded still exist, and the loaded copy is itself consistent.  It is needed
because a commit mixes columns of three rows (loaded, wanted, stored);
`ReconciledOK` is that case analysis.  Steps of a scan that do not touch the
table share `OneScanSteps`, steps that only touch the table `TableSteps`.

### BlockCommand

`BlockCommand` is the older, simpler response: one address, blocked for a time
by an element of an nftables set.  The control plane's commands table is a
sequence whose positions are the ids; `QueueBlock`, `Expire` (the end of every
`ingest`), `Revoke`, `List` and `Receive` are one transaction each.  The agent
follows `cycle` command by command: mark the attempt as failed in memory
(`Take`) and on disk (`SaveMark`), check it (`Dispatch`), insert (`Execute`, at any
moment after that), save (`SaveResult`), answer (`Post`), prune (`Done`).  Before that
a cycle delivers the outbox (`SendEvents`), which fails for good when a batch at its
head does (`refused`, `Outdate`).  `aged` holds the requests older than the five
minutes after which neither side acts on them.  `Backup` and `Restore` put the
table and the credential back; what the agent and the host's firewall hold does
not go back with them.

| run | question | bounds |
|---|---|---|
| block_commands | is an address blocked at most once per request, not for an old or revoked one, truly reported, and every command answered? | 2 requests of which 1 is fresh at a time, listings of 1, 1 retained receipt, 1 revocation, 1 restored backup, 1 crash or lost request |

Two requests are a first command that is pending, answered or lost and a second
one behind it or, after a restore, under its id.  Only receipts of commands
older than five minutes are pruned (`FewAreFresh`): the code keeps 1000 and
relies on the same.  Requests grow old in the order in which they were made.
Fairness is weak fairness of the agent's next step; `CommandIsAnswered` excludes, as
`ApprovedIsAnswered` does, an outbox that is refused for good.

Proofs (`BlockCommand_proofs`): for any numbers of alerts, requests, receipts,
revocations, restored backups and faults.  `AtMostOnce` alone says nothing of the
receipts that enforce it; `IInv` adds where they are.  `SpentInv` is the core: a
request that was carried out and could still be listed has a receipt on disk under
the id it would be listed with.  A pass could prune that receipt in two ways.  If
the row is older than the backup, its id is its request (`BackupInv`), at most
`MaxReceipts` - 1 later requests are fresh (`AgeInv`), so the receipt is kept
(`FreshAreKept`).  If it is newer, an id given out again may be far below the ids of
earlier receipts; but then it is the first row to be listed and stays in the
agent's hands (`LineInv`) until it is answered, so that no pass ends before that.
`EntryInv` says that what is in the agent's hands has one row at most, and keeps
its id in the backup.  `TruthInv` holds before a restore, when ids are requests.
`NoStaleBlock` needs of it that the command in hand is of this enrolment, and that only
`Dispatch` brings one to its block (`OnlyDispatches`).
Steps that only close rows share `TableStep`, steps within a pass `PassStep`.
`ClosedIsFinal` needs `PendingInv` beside it, that pending rows are of the present
enrolment.

### Collectors, Corroboration, ScanRun

`ScanRun` is `Orchestrator.run` from the request to the findings it hands to
`reconcile_findings`; it composes the two others and ends where
`FindingLifecycle` goes on.

`Collectors` follows each collector that `scan_asset` configures for a kind of
target.  A call takes a slot of the semaphore (`Enter`), starts its tool
(`Begin`), the tool writes records and exits with some code (`Exit`) or is killed
at the collector's own limit (`TimeOut`), the collector reads what there is
(`Read`) and goes on to its next path or answers (`Answer`); the orchestrator gives
it up at the ceiling (`Cancel`), which cancels the coroutine and not the tool.
`Gather` waits for all of them.  The collectors differ in a record each
(`Trivy` ... `Cosign`): the exit codes that are no error, their limit, whether one
failed path spares the others, and what they do with output that is unreadable or
of another shape.  A record is good, unreadable or invalid.  `Prepare` and `Fail`
are what `scan_asset` does before the orchestrator, and its Celery retry.

`Corroboration` has no state.  An issue is what there is to be seen; each
collector's `_normalize` is the operator that makes its finding of an issue
(`TrivyFinding` ...), with the fields that identify or score it.  `Key`,
`MergePair` and `Dedup` are `dedup.py`, `Fingerprint` is `fingerprint.py`, `Score`,
`Bucket` and `Enrich` are `risk_engine.py`, `Vex` and `Statuses` `vex.py`.

| run | question | bounds |
|---|---|---|
| scan_run | is what a tool wrote in the report under its own identity, or its collector among the errors? do tools stay within the slots and do runs end? is what is known to be exploited P0, whoever reported it? | every kind of request, 2 of its collectors, 2 paths, 2 issues, 1 slot, 4 exit codes, 3 sets of VEX statements |

Two collectors are enough for every pair of tools that may merge, for one that
fails beside one that does not, and for a call that waits for a slot; two issues
at neighbouring places of one file and package share some keys and differ in
others.  Fairness is weak fairness of a call's next step, of the limits and of
`Gather`; one thing before the orchestrator waits without a limit
(`kubectl get`), which Celery's soft limit ends (`SoftLimit`).

`NothingIsDroppedSilently` excludes the collectors in `Lenient`, which log what they
cannot parse and go on; section 5 lists them.

Proofs (`ScanRun_proofs`): every step of a scan is one of `Collectors` (`ScanIsARun`), so
the invariant is of those: `KeptInv` (a call of a collector that is not lenient has
failed or found all its tools wrote, at every moment and not only in the report),
`ProcInv` (a process is the last one of a call that waits for it or was cancelled),
`SlotInv`, and `ReportInv` (the report is of calls that have ended, so nothing can be
added to them).  The processes are counted by the calls they belong to
(`ProcessesAreFew`).  All steps of a call go through one lemma, `MoveKeeps`.

What becomes of the data is proved too.  `RowsInv` says what the rows are: those of
the findings of the run, by the catalogue and statements it drew; and `IInv` that the
places among the findings hold what their collector found, so that a call which only
says why it was skipped found nothing.  `EveryRecordIsReported` then is a statement about
`Corroboration`, for any findings.  `UnionOf` says that `Union` keeps the values of
both sequences, `MergedKey` and `MergedCovers` that a merge of two findings of one key
has that key and the identifiers and contributors of both; `SortedOf`, `MergeOf` and
`DedupOf` carry this from two findings to a group and from groups to all of them;
`EnrichedIs` and `VexedIs` that scoring and suppression change no identity; `RowsOf`
puts them together.  `PlacesAre` and `RawOf` give every record of every call its
place among the raw findings, by `FlattenOf`.  `ExploitedIsUrgent` follows from `EnrichedIs`
and the arithmetic of `Score` (`ScoreIsNumber`).  Recursive functions are reasoned about by
`UpTo` and `Recursion`; `Word` stands for a set of strings which holds the weakness
that a collector writes itself, as the provers do not know a literal to be in
STRING.

### Outbox

`Outbox` is the deliveries table and the workers of `response_worker.py`.  A claim
is one transaction (`Claim`), then the webhook is called (`Call`), then the answer
is recorded if the row still has the worker's lease (`RecordAnswer`).  A lease is
the number of its claim.  A worker may die at any step (`Die`), with the webhook
called or not; a lease may end after that (`Lapse`) or under a worker that is slow
(`Overrun`).

| run | question | bounds |
|---|---|---|
| outbox | is the worker whose lease runs believed, whoever claimed the row before, and is every notification settled? | 2 workers, 3 notifications, 2 crashes, overrun leases or failed calls |

Two workers are enough for a row claimed twice; three notifications for one that
waits for a retry behind and before others; two faults for a lease that is overrun
and a holder that dies or fails.  Fairness is weak fairness of each worker's steps,
of `Lapse`, and of a claim of each row.  `MaxFaults` makes failures finite: a webhook
that is never reached is retried for ever.  A webhook may be called twice for one
notification; the code promises at least once.

Proofs (`Operations_proofs`): `OutboxIInv` is the type invariant with `ClaimInv`: no claim
of a worker is newer than its row's, two workers never hold one claim, and a row
whose last claim is at work is being sent.  The last clause carries the argument:
without it a holder could be disbelieved because of what another worker recorded.

### AlertDesk

`AlertDesk` has alerts by the id of their row, and beside it the number that an
alert was made with, which no table has: SQLite gives out the largest id plus one,
so an id may be that of an alert that was pruned.  `Detect` is the alert of an
`ingest`, `MonitorHealth` one pass of the monitor, `Prune` one of `prune`: each is
one transaction and one action with everything it protects, deletes and announces.
Analysts review (`CheckReview` outside of the transaction, `WriteReview`) and change
the incident (`Load`, `UpdateIncident`).  The host is heard or silent, enrolled,
young or revoked; `owed` are notifications that are not delivered, whose workers
`Outbox` has.

| run | question | bounds |
|---|---|---|
| alert_desk | does what refers to an alert keep it, and that one? do verdicts stay on their alerts? is a change of the incident ever made on an older version? is an outage reported once? | 2 alerts, 2 analysts, 1 incident with 2 versions loaded, 1 review, an agent and a sensor |

Two alerts are one that is pruned and one that gets its id; an agent and a sensor
are what may be down together or one alone.  The run has any number of outages,
enrolments, revocations and passes of monitor and prune.  Nothing is said of
liveness: nothing has to happen.

Proofs (`Operations_proofs`): `IInv` is the type invariant and `EvidenceIsKept`, which
is inductive as it stands because ids are given out above all that are in use, with
three strengthened parts: `VerdictInv` (a review in hand was checked on the alert
that has the id now, unless a prune came between, and ids without an alert have no
verdict), `EditInv` (nothing is loaded before there is an incident) and `OutageInv`
(an outage that was reported is active until it is heard).

### HostAccess

`HostAccess` has the enrolled hosts with the addresses of their policies, the tokens
in the order of their issue, and `store.host_addresses`, the map in memory.
Handlers commit (`Enroll`, `Revoke`, `UpdatePolicy`), then read the policies again
(`ReadPolicies`), then assign the map (`AssignMap`).  Coroutines do that on the event
loop without an await; `revoke` is a plain function, which FastAPI runs on a
thread, so it may do so between any two steps of the others.  `Restart` seeds hosts
from a configuration.  `Ingest` is an event that `lateral_rules` correlates, by the
map, with events of either order.

| run | question | bounds |
|---|---|---|
| host_access | has an address one owner? is the map that of the policies when nobody is at it? does only the last token enrol? is a movement seen whichever event comes last? | 2 hosts, 1 address, 1 thread, 2 tokens, 2 policy updates or restarts, 2 configurations, 4 events |

Two hosts and one address are what a conflict needs; the two configurations import a
host with an address that the other may have; the events are a signal and a login
on either host, one login before its signal.

Two exceptions are in the properties, since the code has them: hosts imported by a
configuration (`imported`), and a map that a thread assigned after another handler's
transaction (`overtaken`); see section 5.

Proofs (`Hosts_proofs`): `AccessIInv` is the type invariant and `AddressHasOneOwner` with
`OldTokensAreUsed` (of the tokens of a host only the last may be unused, which an
issue, a revocation and a redemption each keep) and `MapInv` (with no handler at it
a map that was not overtaken is that of the policies: every transaction leaves a
handler that is going to replace the map).

## 4. What is proved and what is only checked

Proved for every value of the constants that satisfies the named assumption of
the module (`CloudAssumption` and the like: sets of jobs and hosts, bounds that
are natural numbers): the theorems listed in PROJECT.json, in the modules
`CloudResponse_proofs`, `LocalPlaybook_proofs`, `AgentDelivery_proofs`,
`FindingLifecycle_proofs`, `BlockCommand_proofs`, `ScanRun_proofs`, `Hosts_proofs`
(`HostAccess` and `Quarantine`) and `Operations_proofs` (`AlertDesk` and `Outbox`).
Each has the same shape: an inductive invariant `IInv`, which
contains the type invariant; one lemma for every action that it preserves `IInv`;
`Spec => []IInv`; then the safety properties, the action properties and the
refinement as consequences.  Where such a property is not in a run, section 5.1
has a configuration that checks it.

Only model-checked: liveness (`AttemptedIsSettled`, `ApprovedIsAnswered`,
`EvidenceArrives`, `HealthIsHeard`, `CommandIsAnswered`, `Converges`, `RunEnds`,
`NoticeIsSettled`), because the prover has no support for fairness; and the
runs that show a disagreement.  Every safety invariant of the runs is stated by a
theorem.  No module uses a RECURSIVE operator.  The library's theorems of induction take an operator,
which the provers cannot instantiate; where a proof needs induction over the numbers
it is a lemma about a set that holds 0 and every successor (`UpTo`), from the
well-foundedness of `<`, and what a recursive function computes is proved from its
equation at every argument, which `Recursion` gives.

Every property of a run has a mutant in PROJECT.json: a definition changed the way
a plausible bug would, under which TLC finds the property violated.  The mutated
form stands before the definition it replaces and is used nowhere else.

## 5. Disagreements between the code and its documents

* The second scan of a finding that threat intelligence escalated writes the
  formula score back, and its own enrichment addresses the `finding_id` of the
  new scan, which no row has, so the escalation is lost, against
  `workers/tasks.py:413` (run `finding_escalation`).

Observed with the same models; the first three and the EPSS have a configuration
of their own (section 5.1):

* an apply whose POST succeeded and whose confirmation is refused non-retryably is
  `failed`; no later pass looks at the job and its rule stays (`CloudOrphan.cfg`).
  The rule's expression stops matching at its expiry, so what stays is a dead
  rule, against `OPERATIONS.md:188`;
* a request that passed its enrolment check before a revocation inserts its job
  after it, and the job can be approved and attempted (`CloudRevoke.cfg`), against
  `OPERATIONS.md:82`;
* a receipt for a job that a revocation cancelled while the agent executed it is
  refused with 409 for ever, and receipts are posted before commands are listed, so
  after a new enrolment the agent is never served again (`PlaybookRevoke.cfg`);
* no scan loads the EPSS cache that the risk engine asks, which answers from its
  process only inside the event loop (`core/epss_provider.py:207`): every score has
  the floor of 5 % and no finding without a KEV entry is above P3 (`ScanEpss.cfg`),
  against `FEATURES.md:162`.

Observed in the source while modelling, responses and agents:

* agents keep receipts by command id alone, and ids are given out again after
  the control plane moves to a restored backup: the agent answers for a new
  block with the receipt of an old one and inserts nothing (`ReceiptIsTrue`
  excludes a restore, as `protection/README.md:117` does not);
* a log truncated in place is recognised only by a size below the offset; one
  that has grown past it is read from the middle, which
  `protection/README.md:250` does not say (`OffsetsMeanCollected` and
  `EvidenceArrives` exclude exactly that);
* a batch of evidence that is refused for good, as one that has left the archive window
  is (`store.py:79`), ends every cycle before receipts are posted and commands listed
  (`agent.py:293`): the host stays visible but answers no response any more
  (`ApprovedIsAnswered` and `CommandIsAnswered` exclude exactly that);
* the deadline of a playbook, and the age of a block, is checked before the native
  action only (`response_agent.py:41`, `agent.py:247`): hashing, moving or a slow `nft`
  can change the host after it, so `WithdrawnStaysOut` and `NoStaleBlock` speak of what
  was late before its dispatch;
* a quarantined file that changes between the move and the second hash is
  reported as `policy_denied`, although it is in the vault;
* a file that replaced the approved one and was moved into the vault before the
  executor died stays there: neither call accepts its inode or hash afterwards.

Alerts and hosts:

* `review` checks the alert outside the transaction that writes; a prune in between
  leaves a review without an alert, and the next alert gets its id, since
  `alerts.id` is no AUTOINCREMENT, and with it the verdict
  (`operations_api.py:183`; `VerdictIsOnThisAlert` excludes exactly that).  A
  playbook requested on an old alert can lose its alert the same way;
* `seed_hosts` does not check the addresses of a configuration against those of
  hosts enrolled over the API, so an address can have two owners
  (`OPERATIONS.md:91`; `AddressHasOneOwner` excludes such hosts);
* the thread of a revocation can assign the map of addresses it read before another
  handler's transaction; the map stays stale until the next refresh
  (`operations_api.py:20`; `MapIsCurrent` excludes exactly that);
* `agent_policy` raises KeyError for a host that is revoked between authentication
  and its read (`operations_api.py:131`), and requests that were authenticated before
  a revocation are still carried out.

Scans:

* a collector that exceeds its timeout leaves no entry in the report's errors;
  its findings are closed as fixed, as are those of collectors a later request
  does not configure;
* a collector that is cancelled leaves its tool running, and reports of gitleaks,
  testssl, kubescape and prowler stay in the temporary directory;
* kubectl, subfinder or syft that is not installed aborts the whole scan, and the
  listing of the images of a cluster has no time limit of its own;
* nmap and prowler have limits of 3600 seconds under a ceiling of 1800;
* a list of reports, which checkov writes for several frameworks, counts as none;
  trufflehog and prowler for Azure log output they cannot read and go on; nmap,
  testssl and prowler take output of another shape for an empty result;
* findings that `FEATURES.md` says are merged are not: CVEs of an SBOM never have
  the key of the SCA tools (`FEATURES.md:125`), and AVD and CKV rules are never
  equal (`FEATURES.md:91`);
* findings that differ are merged: advisories without CVE of one package from
  trivy, CVEs of one image in several workloads, missing signature and missing
  attestation of cosign, prowler checks in several accounts or regions;
* a merge can lower the severity (`FEATURES.md:42`), and a VEX statement about one
  CVE suppresses a merged finding of several;
* an analyst's decision made between the SELECT and the commit of a scan can be
  overwritten (`DecisionIsKept` states exactly this exception);
* enrichment raises findings to the escalation floor after VEX suppressed them,
  although `vex.py` calls VEX the last word.

### 5.1 Configurations beside the runs

They are not among the runs of PROJECT.json; `tlc -config X.cfg M` runs them.

| configuration | module | checks | outcome |
|---|---|---|---|
| `CloudReview` | `MCCloudResponse` | `IInv`, `TwoPersonRule`, `WithdrawnHasNoEffect`, `ImplementsReview` with two jobs | hold |
| `CloudOrphan` | `MCCloudResponse` | `ExpiredRuleIsRemoved` | violated |
| `CloudRevoke` | `MCCloudResponse` | `RevokedIsNeverAttempted` | violated |
| `PlaybookRevoke` | `MCLocalPlaybook` | `ActiveHostIsServed` | violated |
| `ScanEpss` | `MCScanRun` | `EpssIsUsed` | violated |
| `AgentDeliveryInv` | `MCAgentDelivery` | `IInv`, `UnacknowledgedIsRetained` | hold |
| `LocalPlaybookInv` | `MCLocalPlaybook` | `IInv`, `AcknowledgedIsRecorded` | hold |
| `QuarantineInv` | `MCQuarantine` | `IInv`, `PathKeepsMode`, `QuarantinedIsEvidence` | hold |
| `FindingLifecycleInv` | `MCFindingLifecycle` | `IInv`, `FixedIsStamped`, `ReportedIsRecorded` | hold |
| `BlockCommandInv` | `BlockCommand_proofs` | `IInv`, `PendingInv`, `ClosedStaysClosed` | hold |
| `ScanRunInv` | `MCScanRun` | `ScanInv` | holds |

## 6. Not modelled

* Host isolation and the Windows quarantine: what they do is calls of nftables, of
  the Windows firewall and kernel and of a PowerShell helper; `LocalPlaybook` has
  them as actions that happen, do not happen or happen in part.  The removal of
  expired isolations at the start of a cycle (`cleanup_playbooks`) is left out; it
  raises nothing into the cycle.
* The counting rules of detection (brute force, spray, fan-out), whose windows are
  SQL over stored events, and the parsing of log lines.
* Downloads and expiry of the EPSS and KEV files and of the key set of the JWT
  verifier; inventories of cloud accounts, zones and clusters.
* Copying and verifying a snapshot of the database; `BlockCommand` has the effect of
  a restored one.
* The rotation of a credential, which changes nothing else, and the contents of
  incidents and messages.
* Formats, cryptography and TLS, prompts and answers of the language model, the text
  of reports, slides, dashboards, exports and consoles: they keep no state that
  another part depends on.

Each part is listed in PROJECT.json with its reason.
