# API2Agent: a TLA+ verification development

API2Agent turns API descriptions into *capabilities* that agents call, routes
each call to a provider, and keeps the record of what happened. The repository
holds two Go services, a control plane that owns the *registry* (providers,
capabilities, mappings, policies) and a data plane that executes calls from
immutable snapshots of it, and the Python package they grew out of (import,
diagnostics, generation, a local control plane and an SDK).

This directory models the parts of that code that are hard to test: what
concurrent transactions, crashes, lost answers, reloads in the middle of a
request and long sequences of legal calls may do. Paths below are relative to
`src/`; `CP` is `services/control-plane/internal`, `DP` is
`services/data-plane/internal`.

## 1. Inventory

### 1.1 Control plane (Go)

| component | code | state | operations |
|---|---|---|---|
| Registry mutation | `CP/registry/postgres_import_replace.go` | seven mutable tables, `registry_revisions`, `admin_audit_events`, `admin_mutation_idempotency_records`, an advisory lock | `ReplacePersistentRegistry`, `ReplaceProjectPartitionRegistry` |
| Tenant partition | `CP/registry/tenant_partition.go` | none (pure) | `ValidateProjectPartitionMutation` |
| Hosted policy, durable | `CP/registry/postgres_hosted_permission_policy_mutation.go`, `hosted_permission_store.go` | drafts, policy versions, promotions, rollbacks, audit, idempotency rows; row locks and unique indexes | `BeginDraft`, `ApplyChange`, `RequestReview`, `PromoteDraft`, `RollbackVersion`, `Resolve` |
| Hosted policy, harness | `CP/registry/hosted_permission_policy_mutation.go` | the same, in memory, for tests and dogfooding (no concurrency control) | the same operations |
| Seed and store | `CP/registry/postgres_seed.go`, `postgres_store.go` | the same tables | `Seed` (no lock), `Load`, `LoadPersistentRows` |
| Exporter and distribution | `CP/registry/exporter.go`, `distribution.go` | artifact directories and one `current.json` pointer on a file system | `Export`, `WriteArtifactDir`, `PublishArtifactDir`, `WriteDistributionPointerAtomic` |
| HTTP API | `CP/httpapi/service.go` | none of its own | one handler per operation above; maps errors to statuses and a `retryable` flag |
| Permission model | `CP/registry/hosted_permissions.go` | none (pure) | allow/deny of an actor's action |

### 1.2 Data plane (Go)

| component | code | state | operations |
|---|---|---|---|
| Snapshot loader | `DP/snapshots/snapshot.go` | none; reads pointer, manifest, artifact | `LoadFile`, distribution resolution, expiry |
| Snapshot store and reload | `DP/httpapi/execute.go` | the current snapshot, behind a lock | `Current`, `LoadCandidate`, `Swap`, `ReloadSnapshot` |
| Execution | `DP/httpapi/execute.go`, `DP/routing/engine.go` | per-request: attempt chain, time budget | `Execute`: policy, freshness, quota, attempts, failover |
| Quota gate | `DP/httpapi/execute.go` | requests used per project and actor | `Allow` |
| Events | `DP/events/writer.go` | an append-only JSONL log and a sequence number | `NewJSONLWriter`, `Write` |
| Credentials | `DP/credentials/resolver.go` | environment and configuration | `Resolve` |

### 1.3 Python package

| component | code | state | operations |
|---|---|---|---|
| Local control plane | `api2agent/control/storage.py`, `proxy.py` | a JSONL or SQLite store of decisions and usage, a proxy in front of tools | append, read back, proxy, policy decision |
| Capabilities | `api2agent/capabilities/*` | a registry of providers, local routing and failover | register, route, execute, fail over |
| Credentials | `api2agent/credentials/*` | environment and configuration | resolve |
| SDK | `api2agent/sdk.py` | client configuration | call, retry |
| Parsers | `api2agent/parsers/*`, `ir`, `filters.py` | none (pure) | ten formats to one tool model |
| Diagnostics, shaping, generators | `api2agent/diagnostics.py`, `schema_shaping.py`, `response_docs.py`, `generators/*` | the files of a package directory | report, shape, `generate_package` |
| Replay, benchmark, CLI | `api2agent/replay.py`, `benchmark.py`, `cli.py` | files, the usage store | generate, test, diagnose, call, replay, golden marks |
| Gateway contract harness | `scripts/go_control_plane_hosted_admin_gateway_contract_dogfood.py` | a table of permission decisions, switches and counters, in a threading HTTP server | decide, store the decision, forward; the contract's requests |
| Other scripts | `scripts/*` | none of their own | dogfood, audit and calibration runs |

### 1.4 How they interact

An administrator replaces the registry (all of it, or one project's partition)
through the control plane; the registry is exported into an immutable artifact,
published into a distribution directory, and a pointer is moved to it. The data
plane resolves the pointer when it starts and when it is told to reload, checks
the artifact against its manifest, and swaps it in. Requests that already run
keep the snapshot they started with. Each request consumes quota, walks the
providers that the routing decision ranks, and leaves usage events and one
decision in the log. The hosted policy lives beside the registry in the same
database, under row locks of its own, and refers to the registry's projects by
deferred foreign keys.

### 1.5 What is hard

* *Registry mutation*: SERIALIZABLE snapshots taken before the lock, two
  operations that take lock and key in opposite orders, ambiguous commits,
  concurrent duplicates. Correct means: no lost update, one effect per key,
  answers that stay true, tenants kept apart.
* *Hosted policy*: a long lifecycle (draft, review, promotion, rollback) with
  unique indexes that a legal sequence of calls can run into. Correct means:
  exactly one active version, versions immutable, what was reviewed is what
  becomes active.
* *Distribution*: several file system steps, each of which may be the last
  before a crash, read by a loader at any moment. Correct means: a reader sees
  a complete artifact or an error, and what a version's directory holds never changes.
* *Execution*: a reload between two reads of the current snapshot, a quota that
  is consumed before it is known whether the request can run, a time budget
  shared by the attempts, an event log whose failure turns a provider's
  success into an error.
* *Local execution*: callers, proxy threads and an operator share one SQLite
  file and no lock; a caller may fail over from a request the proxy is still
  forwarding. Correct means: failover keeps to its policy, every effect has its
  row, the quota's overrun is bounded, credentials arrive by every way.
* *Gateway harness*: threads look for a decision before they insert it, retry,
  time out, and forward. Correct means: what was forwarded is on record as
  allowed, and the contract holds.
* *Toolchain*: package files are written in place one by one and read by tests
  and agents; the parsers, samples, tool schemas and diagnostics must agree with each other.
  Correct means: a package that was finished holds together, and a test of it
  does not write without consent.

The precise hazards, with their lines, are listed in `PROJECT.json`.
## 2. Plan

In the order of importance. Every detailed module has the same shape:
CONSTANTS with named assumptions, one action per step of a handler, properties,
then the inductive invariant where there are proofs; a module `MC...` gives the
constants their values for TLC; `..._proofs` holds the TLAPS proofs. No module
that is proved about uses a RECURSIVE operator.
Liveness under fairness, ENABLED and what a recursive definition computes for every input are out of
the prover's reach here and stay with TLC.

| | modules | abstract specification | composes | state |
|---|---|---|---|---|
| A | `RegistryMutation`, `RegistryLedger` | the ledger: atomic replacements, one outcome per key | the two registry operations, exports, the database, callers | checked and proved (section 3) |
| B | `HostedPolicy`, `PolicyHistory` | one active policy per source, a history without forks | draft, review, promotion, rollback, the database, callers | checked and proved (section 4) |
| C | `ProjectPartition` | "only the project's slice differs", which A assumes | pure; the per-table validators against the slice definition | planned |
| D | `SnapshotDistribution`, `SnapshotRegister` | a register, read twice by each load | exporters, publishers, file system, data planes | checked and proved (section 9) |
| E | `DataPlane`, `ExecutionGraph` | one chain of events per request, answers that agree with it | execution, quota, reload, event log, restarts | checked and proved (section 5) |
| F | `EventLog`, `Credentials` | what was acknowledged can be read back; the credential that wins | the writer byte by byte, its restarts | planned |
| G | `LocalExecution` with `Routing`, `CredentialResolution`, `Runner`, `UsageStore` | none: properties relate contacts to rows | callers, proxy threads, the store, replay | checked and proved (section 6) |
| H | `GatewayContract`, `GatewayHarness`, `GatewayPermissions` | the contract's assertions | gateway threads, decision table, control plane | checked, the record of effects proved (section 7) |
| I | `PackageCommands`; `Toolchain` with `OpenApi`, `Captures`, `SchemaShaping`, `Samples`, `Diagnostics` | none: assumptions relate the pure modules | generations, tests, agents over one directory | checked, the protocol proved (section 8) |

A, B, D, E, G, H and I are modelled, checked and proved, of I the protocol over the files, with what
the parsers and generators make of a source as a constant. C and
F are left: C discharges what A takes for granted, F refines the log of E.
Bounds there will be as small as here: two projects and one table for C; two writers and lines of two
pieces for F.

Every safety property that a passing run checks is a theorem, but for the
contract's script (`ContractHolds`), which is about one fixed sequence of calls. The inductive
invariants (`IInv`) were checked with TLC on the instances of the runs before they were proved.
Theorems worth proving next: for C that
the validator accepts exactly the changes the mutation model calls "in the partition"; for F that an acknowledged event is read back as
long as no write was cut off.
## 3. Registry mutation: `RegistryMutation`, `RegistryLedger`

### 3.1 Correspondence

| model | code |
|---|---|
| `registry` (`rows`, `version`) | the seven tables `replaceMutableRegistryRows` rewrites; `version`, the id of the revision they were written with, stands for the row versions PostgreSQL compares |
| `revisions`, `audits`, `idem` | `registry_revisions`, the success rows of the two operations in `admin_audit_events`, `admin_mutation_idempotency_records` |
| `export` | a request to `ExportArtifact`: the registry it loaded, and whether it has recorded it |
| `lock` | `pg_try_advisory_xact_lock(22021, 1)` |
| `holder[k]` | the transaction with an uncommitted write to the row of scoped key `k` |
| `seen`, `row` | what the transaction's snapshot shows of the tables and of its key's row |
| `pc`, `answer`, `failureAudit` | the handler's position, what the caller was told, the failure event of the attempt |
| `committed` | a history variable: this attempt's transaction took effect |

A scoped key is project, actor, operation and key hash together, so requests that share one
share project and operation (`RequestAssumption`). A document is a function from
owners (projects, and the platform for rows no project owns) to slices; it stands
for its canonical form and so for its fingerprint. `Begin` fixes the snapshot, since
the first statement of a SERIALIZABLE transaction does: for a keyed import that is
the insertion of the idempotency row, otherwise the lock query. `Reserve`,
`ReserveStale`, `ReserveRejected` and `ReserveReplay` are the outcomes of that
insertion; `AcquireLock` and `LockUnavailable` those of the lock query; `Validate`
and `ValidateRejects` belong to the partition operation; `Execute` and
`ExecuteConflict` stand for the rewrite of the tables (or its omission, for a
no-op); `Commit`, `CommitRejected` (a deferred foreign key of the policy tables)
and `CommitReplay` end the transaction. `DatabaseFailure`, `AmbiguousCommit`
(COMMIT took effect, the service saw an error), `Crash` and `LoseAnswer` are the
faults, `Retry` is the caller acting on `retryable` or on silence.

Replacements are not the only writers of `registry_revisions`. `ExportArtifact` loads
the registry in a read-only transaction of its own (`ExportLoad`), writes the artifact and
then inserts a revision with an empty `created_by` (`ExportRecord`), in no transaction
with the load and under no lock; anything may commit in between, and it may fail or die
before (`ExportFails`). So the newest revision need not be what the tables hold.
What holds, and what `RegistryMatchesEvidence` says, is that the newest revision that names an actor
is, and that an export's revision names a document that was current once.

`RegistryLedger` is the promise: a document that is current, a record of documents and one
outcome per key, changed only by `Replace`, `Noop` and an export's `Record`. `ImplementsLedger`
is the refinement, with the record mapped to the initial document followed by the documents of `revisions`.

### 3.2 Runs

| run | question | result |
|---|---|---|
| `registry_imports` | five import requests (a duplicate, a key reused for another document, a second key, the key-less command line with a document that violates a foreign key), from empty tables, one fault anywhere | a key has one effect; answers and rejections are true; outcomes are final |
| `registry_partitions` | two projects replace their slices from one starting point, one document reaches into the other's slice, an import changes the platform's, an export runs beside them; fair handlers, callers that retry | no lost update although validation reads a snapshot older than the lock; isolation at commit; refinement of the ledger; every caller ends with a final answer |
| `registry_partition_retry` | finding | a retry of a committed replacement is answered with a violation |

Bounds: two projects and the platform, two contents per slice (a slice differs
or it does not), three to five requests (a duplicate, a competitor under the
same key and one under another are all the relations two requests can have, and
a third can commit between a snapshot and a lock), `MaxFaults = 1` (each of the
faults alone; a second fault meets a state some first fault can also reach,
since a failed transaction leaves nothing but, at most, its effect).

Fairness: weak fairness of every handler (each statement of a request returns)
and of every caller's retry. No fairness is assumed of faults. The caller who
would drop a project the policy tables need is left out of `RetriesSettle`: he is told to
retry, and fails each time; that is the behaviour of the code, listed as a hazard that no
property covers. No fairness is assumed of exports either.

### 3.3 Proofs

`RegistryMutation_proofs` proves, for all requests, documents, keys and numbers of
faults, that `IInv` is an inductive invariant (`Invariant`), and from it each safety property
the runs check: `TypeCorrect`, `RegistryAlwaysMatchesEvidence`, `NeverLosesUpdate`,
`KeysHaveOneEffect`, `EffectsAreUnique` (`AtMostOnce`), `AnswersAreTrue`
(`AcksAreDurable`), `RejectionsChangeNothing`, the action properties `OutcomesNeverChange` and
`PartitionsAreIsolated`, and `Refinement`: every step is a step of the ledger or a stutter. The
assumptions are the two named ones of the module.

The properties alone are not inductive: nothing in them says why the snapshot
validated before a commit is still current. `IInv` adds who holds the lock
(`LockIsHeld`) and the keys (`KeyIsHeld`), that a held key's row is what the
holder's snapshot shows (`ReservationIsCurrent`), that a snapshot is the document
of the revision its version names (`SnapshotIsPast`), that the tables were written with the
newest revision of a replacement (`VersionIsRevision`) and an export's load with some
earlier or equal one (`LoadIsPast`), that a request at `commit`
rewrites the current version (`RewriteIsCurrent`) after a valid validation
(`PartitionIsValid`), and that audit rows and key rows point at each other
(`EvidenceIsLinked`). The proof sorts the steps of `Next` into classes by what they
change (a handler moves on; a transaction ends without effect; a mutation or a
replay is installed; an answer is lost or forgotten; an export moves on) and shows for each class
that the conjuncts it can disturb are kept.

Only model-checked: `RetriesSettle`, which is a liveness property.

### 3.4 Findings

* The partition endpoint's design promises that the same key and request return
  the stored response. The code validates the partition before it looks at the
  key, so the retry of a committed replacement is rejected as a violation, and
  not as retryable, once another slice has changed.

Besides, the transaction design's table of errors
(`docs/en-US/GO_CONTROL_PLANE_PERSISTENT_REGISTRY_IMPORT_REPLACE_TRANSACTION_DESIGN.md:322`)
maps a serialization conflict to `REGISTRY_MUTATION_CONFLICT`, while the code answers
every error of the rewrite with `PERSISTENT_STORE_WRITE_FAILED`; both are
retryable, so nothing that is checked depends on it.

### 3.5 Not modelled

The decoding and authentication of requests in `service.go`; the preparation of
documents (canonical JSON, validation), whose failures come before any
transaction; the wording of errors and the SQL of single rows; the success audit events
of exports and publications, which lie between those of the two operations. `SeedPostgresRegistry`
(the command `seed-postgres`) is left out: it upserts the same tables and inserts a revision
without the lock, deletes nothing and names no actor. The properties are about a database
that is seeded, if at all, before the service runs: `InitialRows` may be what it left. Run on a
registry in use it would leave a merge of two documents that no revision names.

## 4. Durable hosted policy: `HostedPolicy`, `PolicyHistory`

### 4.1 Correspondence

| model | code |
|---|---|
| `versions` | `hosted_policy_versions` of one source, by id; `previous` is the metadata `previous_policy_version`; `graph` is a history variable, the graph the version was activated with |
| `drafts` | `hosted_policy_mutation_drafts` with their `hosted_policy_mutation_draft_changes` |
| `graph` | the status of each object in `hosted_subjects`, `..._memberships`, `..._roles`, `..._bindings`, `..._grants` |
| `audits`, `idem` | `admin_audit_events`, `admin_mutation_idempotency_records` |
| `draftLock`, `activeLock`, `keyLock` | `SELECT ... FOR UPDATE` of the draft and of the active version, and the uncommitted row of a scoped key |
| `snap` | what the transaction's SERIALIZABLE snapshot shows of versions, drafts and keys |
| `pc`, `answer` | the position in the handler, what the caller was told |
| `effects` | a history variable: how often the request took effect |

`Begin` is `beginHostedPermissionPolicyMutationTx` with the first statement.
`LoadDraft`/`DraftUnavailable`, `Reserve...`, and
`LoadActive`/`ActiveUnavailable`/`NotPromotable` are the outcomes of the three
reads that lock, in the order each operation makes them: begin_draft reads the
active version; apply_change and request_review the draft; promote the draft,
the key, the active version; rollback the key, the active version. A row that was
changed since the snapshot cannot be locked: the statement fails, and the code
answers as it answers any failure of that statement (`POLICY_STATE_CONFLICT`
for a draft, `POLICY_VERSION_CONFLICT` for the active version). The writes become
visible at `Commit`, so `BeginDraft`, `ApplyChange`, `RequestReview`, `PromoteDraft`
and `RollbackVersion` are each one step, guarded by the checks the code makes and by
what the unique indexes, foreign keys and CHECKs of the schema demand;
`NotWritable`, `StaleVersion` and `WriteRejected` are their refusals.
`InstallReplay` is the cached response. The faults are those of section 3.

A fingerprint is what was hashed into it: the seed and one link per change with
the draft, base, version, sequence number and change, which is what
`hashCanonicalJSON` is given. Two fingerprints are equal exactly if the hashed
contents are, i.e. hashes are taken as free of collisions.

`PolicyHistory` is what readers are promised: a history of versions that only
grows and a graph that is always the one the newest version was activated with.

### 4.2 Runs

| run | question | result |
|---|---|---|
| `policy_lifecycle` | six requests from an empty table of drafts: two openings by one actor, two changes (one with a sequence number of its own), a review, a promotion; one fault | nothing shows before the promotion; a reviewed draft is frozen |
| `policy_races` | two promotions of reviewed drafts and two rollbacks under one key, one of them under the name of a draft; fair handlers, one fault | one version in force; no fork; one effect per key; true answers; refinement of `PolicyHistory`; nobody waits for ever |
| `policy_stale_base`, `policy_duplicate` | findings | see 4.4 |

Bounds: a role and a grant that refers to it are all the relations objects
have here (an object and one whose row it needs); two or three changes per
draft (a change after another, and one that comes before it by its number); two
drafts, which is a race; version names are sequences of words, since the code makes new
names by appending `-draft` and `-rollback` to old ones. A change under a number above
`MaxChanges` is not taken.

Fairness: strong fairness of each handler, because a handler waits for rows that
others take and give back; PostgreSQL queues the transactions that wait for a row.

### 4.3 Proofs

`HostedPolicy_proofs` proves for all requests, drafts, versions, graphs and numbers of
faults that `IInv` is inductive (`Invariant`), and from it each safety property the passing runs
check: `TypeCorrect`, `OneVersionInForce` (`NewestIsActive`), `LineageNeverForks`
(`LineageIsUnbroken`), `LookupsReadTheActiveGraph` (`GraphIsActivated`), `EffectsAreUnique`
(`OneEffectPerKey`), `DraftsArePromotedOnce` (`PromotionsAreRecorded`), `CallersAreToldTheTruth`
(`AnswersAreTrue`), the action properties `ReviewsFreeze` and `HistoryIsFinal`
(`VersionsAreFinal`), and `Refinement` (`ImplementsHistory`).

The code takes no lock around its operations, so the argument is about rows:
`DraftIsHeld` says that the draft a request has locked is still what its
snapshot shows, `KeyIsHeld` the same of the key, and that both are held to the
end; a version is installed only by a request that finds the active version of
its snapshot current, and the unique indexes see to names. `KeysAreSpent` ties keys to audit rows
and versions in both directions. `VersionsExist` and `StepIsOwn` say that there is
always a version and that a request is only at steps of its own operation. The
steps are sorted into classes: the handler moves, the transaction ends without
effect, one installs a draft row, one installs a version, a replay, an answer.

Only model-checked: `RequestsAreAnswered`.

### 4.4 Findings

* A stale draft is promoted if the caller names the active version as the base:
  the caller's value goes before the draft's, and only the result is compared.
* A duplicate promotion that waited for its twin is told, as final, that the draft
  is in conflict; the stored response is for those who come later.

### 4.5 What the model says besides

Two answers are `retryable` although the same request can never succeed: a row
that a unique index refuses (`WriteRejected`), and a promotion with an empty
fingerprint. An actor whose open draft has become stale cannot open another:
`one_open_actor` covers drafts and reviews, and no operation abandons one.

Changes carry no idempotency key, although
`docs/en-US/GO_CONTROL_PLANE_HOSTED_PERMISSION_POLICY_MUTATION_DURABLE_PRIVATE_IMPLEMENTATION_DESIGN.md:226`
lists `policy_mutation.apply_patch` among the operations that have one: a retry after
a lost answer is a second change. A rollback leaves the graph as it is, while line
206 of the same design has it match the target version;
`docs/HOSTED_CONTROL_PLANE_PHASE_LOG.md:304` records that as a decision for v0.

### 4.6 Not modelled

Scope (project, organization, source) checks and the validation of fields, which
precede the transaction; more than one policy source, whose rows never meet; the unique indexes of
active bindings and grants (another reason for `WriteRejected`, with the same
effect); deferred foreign keys, which can only fail at COMMIT and leave nothing.

## 5. Data plane: `DataPlane`, `ExecutionGraph`

### 5.1 Correspondence

| model | code |
|---|---|
| `up`, `lives`, `startup` | the process, how often `main` has run, the snapshot it loaded (`Handler.Snapshot`) |
| `log`, `torn`, `nextSeq` | the readable lines of `events.jsonl`, whether its last line is cut off, `JSONLWriter.nextSeq` |
| `counts` | `QuotaGate.counts` |
| `serving` | `SnapshotStore.snapshot` |
| `pc`, `snap`, `tries`, `last` | the position in `Execute` or `ReloadSnapshot` and its locals: `snapshot`, `len(usageIDs)`, `finalError` or the reason for a refusal |
| `answer` | what was written to the `ResponseWriter` |
| `born` | a history variable, the life of the process the call arrived in |

`Receive` is `Execute` up to its first event; `Expired`, `OverQuota`, `Allow` and
`NoProvider` are the checks in the code's order, the first two and the last of which end in
`writeFailedDecision`; `Route` is `routing.Decide` with its event; one round of
the loop is `OutOfTime`, or `Attempt` and `WriteUsage`. `LoadCandidate`,
`WriteReload` (or `WriteReloadFailure`) and `Swap` are `ReloadSnapshot`. `Write` is
`writeEvent` with `JSONLWriter.Write`: the mutex makes it one step, the number is
used up first, and then the line is written, or not (the caller has gone, the file
cannot be opened), or written but not acknowledged (`Sync` fails). A failed write
ends the handler with `EVENT_WRITE_FAILED`.

An event is its number, its call, its kind, the snapshot it names, an attempt and a
result. The clock is not modelled: an expired snapshot and a passed deadline are
choices the model may make wherever the code looks at the time, except that an attempt that timed out has
used up the whole budget (the adapter's context ends at the request's deadline),
so that it is never retried even if the policy lists `TIMEOUT`.

`ExecutionGraph` is the promise: the log only grows, each request has one chain
request_context, routing_decision, usage_event*, decision_log in which every
event fits the one before it in snapshot and attempt, and a caller is told
success or failure only if the chain says so. The snapshot that a refused request's
decision names is left open, because `writeFailedDecision` names the one that
serves by then.

### 5.2 Runs

| run | question | result |
|---|---|---|
| `dataplane_requests` | two calls out of two requests and two reloads, over two lives of the process, with two failed writes; fair handlers | numbers in order; quota; audited swaps; refinement of `ExecutionGraph`; every request is answered or lost with the process |

Bounds: one snapshot has two providers and a policy that asks for three attempts
(so the number of providers limits them), the other has none. `MaxCalls` is 2: every property relates
one request with one other call (a second request of the project, a reload) or one
reload with another, and each such pair meets in every order. A quota of
1 makes the second request of a project the one too many. `MaxLives` 2 is one restart, and
`MaxFaults` 2 lets a write fail in each life or two in one.

Fairness: weak fairness of each request's handler once it has begun. Goroutines
are scheduled, the mutex is held only over file operations, and a provider's call ends
with the deadline. Callers, reloads and restarts are not fair.

### 5.3 Proofs

`DataPlane_proofs` proves for all sets of calls and snapshots, all policies and quotas, and any number
of restarts and failed writes:

* `TypeCorrect` and `NumbersIncrease`: `TypeOK` and `SequenceNumbersIncrease` are inductive
  together (`Numbered`): what `nextSequence` returns is above every number in the log.
* `ServedSnapshotIsAudited`: needs that a call in flight belongs to the life of
  the process that runs (`CallsInv`), that a reload that is about to swap has its event in
  the log (`ReloadInv`), and that what is served was loaded (`ProcessInv`).
* `QuotaIsKept`: the requests of this life that are between the gate and the
  routing decision, or past it, are at most as many as were counted (`GateInv`);
  only `Allow` adds to them. The requests are assumed to be finitely many.
* `Invariant`: the whole `IInv`; `RequestInv` adds that the latest event of a request is
  the one its position calls for, with its snapshot, attempt and result.
* `Refinement`: every step appends one event that follows from the chain, tells
  one caller, or stutters. `OneCall` and `Grows` confine a step to its own call,
  so that each action is looked at for its own request only.

Only model-checked: `RequestsAreAnswered`.

### 5.4 What the model says besides

* A caller that disconnects during the provider's call, or any failed write, ends the
  request after the provider was called and before the usage event is there, because `Write` looks
  at the request's context before it writes. `docs/en-US/IMPLEMENTATION_PLAN.md:366` says
  that each attempt writes one.
* A log with a torn last line keeps the data plane from starting
  (`nextSequence` returns the error): `Start` is disabled for ever in that state,
  until someone mends the file.
* The quota is a quota per life of the process. A request that was counted and
  then finds no provider, or fails, has used it.
* Two reloads may swap in the other order than their events (no lock spans
  both), so the last reload event need not name the snapshot that serves.
* A reload that ends in `EVENT_WRITE_FAILED` may have left its success event in the log without
  the swap, when only the sync failed.

### 5.5 Not modelled

`/healthz`, bearer keys and malformed requests (they change nothing); regions,
costs, latencies and metadata of events; which error a credential or an adapter
yields (any failure may occur at any attempt); half-written lines that the next event
joins, lines too long for the scanner; loss of synced data at a power failure;
several data planes on one log, which nothing in the code supports.
## 6. Local execution: `LocalExecution` with `Routing`, `CredentialResolution`, `Runner`, `UsageStore`

### 6.1 Correspondence

Four modules without variables are the functions of the Python plane, each an operator
of the function's arguments:

| module | code |
|---|---|
| `Routing` | `capabilities/routing.py`, `policies.py`, `failover.py`, `errors.py`: ranking by metrics (exact ratios for floats), when to go on to the next provider |
| `CredentialResolution` | `credentials/resolver.py`: which credential is tried, what is wrong with it, where it is put |
| `Runner` | the `runner.py` of a package up to its request: own credentials, injected ones, intents for the proxy |
| `UsageStore` | `control/storage.py`: one transaction or query per operator, over a sequence of rows |

`LocalExecution` composes them:

| model | code |
|---|---|
| `events`, `decisions` | the tables `usage_events` and `routing_decisions` |
| `call` | for each caller the locals of `execute_capability` or `sdk.call`: the ranking, the failover policy, the attempt, the shadows that are left, the result so far |
| `handlers` | the proxy's threads (`ThreadingHTTPServer`), in the order of the requests |
| `contacts`, `cause`, `peak` | history: every request that reached a provider, which of them a row accounts for, the most threads that were past the quota at once |
| `faults`, `commands` | the bounds' counters |

A step is what happens between two points where another process or thread can come
in. `Start` reads the metrics and ranks; `RecordDecision` writes the decision;
`AttemptHere` is a request by the runner in this process, `AttemptByProxy` hands it to
a thread of the proxy and waits, `AttemptByAdapter` is the SDK's; `TakeAnswer` or
`GiveUp` (25 seconds, or a closed connection) ends the wait; `Settle` and
`SettleByAdapter` write the row and decide what is next, failover and shadows included.
A proxy thread is `HandlerReject`, `HandlerAdmit` (quota and credential),
`HandlerForward`, `HandlerRecord`. `Abort` and `HandlerFails` are a death or a failed write
at any of these points. `Replay` and `Mark` are the operator's commands. `replay.py` sets only the
three credential variables, so the package's runner reads `API2AGENT_PROXY_URL` as it does in a
call: `OperatorEnviron` holds the environments a replay is run in, and where there is a proxy, the replay
of a direct call is a thread more (`caller` is `Operator`), which counts against the quota and leaves a
row of mode `proxy`, under the names of the package (`OwnNames`) and no decision. `FinishReplay` is
the end of the wait, with the thread's answer or without, and the replay's own row.

### 6.2 Run

`local_execution` asks whether failover, shadows, quota, ledger and
replay keep their promises when two callers, the proxy's threads and an operator interleave:

* `FailoverKeepsItsWord`: the ranked providers in their order, no more than the policy
  allows, only after errors it lets go on from, and none contacted twice for one
  decision, also when a thread of the proxy runs on after its caller gave up.
* `EffectsAreAccounted`: between contacts and rows; at most one row for a contact, or two
  when the environment sent a direct call or a replay through the proxy, of its provider, decision and outcome
  (the proxy's row by the names the proxy was told), none for a success that did not happen, and one
  for each that a call that ended knows of.
* `OverrunIsBounded`: the quota is overrun by no more than were past it together. It
  is not a hard limit, and the code does not make it one.
* `HeaderAuthIsCarried`: the plain kind of credential reaches the provider
  by each way there is, and nothing else does.
* `HistoryStands`: no step rewrites what a row says, and what routing is ranked by moves
  only with a call or a thread of the proxy: neither a mark nor a replay's own row moves it. The row
  of the thread that a replay took does (6.3).
* `CallsEnd` (liveness).

Bounds: two callers; providers A (a bearer token for its package), B (a token of its tool,
with an output mapping) and C (a package without runner), so that each way an attempt can fail
is there; six pairs of calls (failover through the proxy beside a call without parameters; two that
compete for the quota, one of them through the proxy only by its environment; an SDK call
with a shadow it has no adapter for beside one with shadows; failover by status code beside an SDK call; a
command that refuses C beside a caller without a key; an SDK call for a provider without adapter
beside one for B); one fault anywhere; one replay or mark, started while no call is under
way (`MaxBusy` 0), a replay in an environment without proxy, with one, or with one and a base URL that
is none; A's package is named like its provider, B's otherwise, so that a replay's proxied row is one the
metrics count and one they do not. A quota of 2 lets a second thread run past it: threads that are past it
together and one row are enough; a property about a contact relates one call, or one replay, with
one thread of the proxy.

Fairness: a process that computes goes on (weak fairness of its steps, written out because
`CallStep` is enabled as long as it computes), and a wait for the proxy ends, because httpx has a
timeout. The proxy, the providers, the operator and the start of a call are not fair.
Deadlock is not checked: calls end.

### 6.3 What the model says besides

* A "direct" call takes `API2AGENT_PROXY_URL` from its environment: the runner goes through
  the proxy and both record the request (`twice` in `contacts`, the exception in
  `EffectsAreAccounted`). It then counts twice in the metrics.
* `execute_capability` always sets the injection variables, so the runner leaves out
  its own credentials: a tool's own auth, a second credential that is needed too, and
  the places query and cookie get lost (`HeaderAuthIsCarried` is about the rest). The proxy
  is sent only the first credential of a tool; one in a cookie is answered with 401.
* An answer that does not normalize has a row that says success, and is failed over from.
* Refused and failed requests count in the quota and in the metrics; a direct call
  that never left the process is charged its estimated cost.
* With failover the SDK takes all planned attempts for tried, so that shadows of them
  never run, and it raises at a shadow provider without adapter after everything was recorded.
* No writer records the client's region, so metrics by region are always empty.
* A replay of a proxied call is sent without credential, and raises when no answer comes.
* A replay of a direct call goes through the proxy of the environment, and the proxy's row of it is a call's
  to `metrics_for_capability` and to the quota, recorded or not. The design says otherwise: "`replay` records
  debug executions in the ledger without affecting default routing metrics"
  (`docs/en-US/TECHNICAL_DESIGN.md:429`); of the replay's own row that holds.

### 6.4 Proofs

Every safety property of the run is proved, for every set of callers and providers, every registry,
workload, policy, quota, outcome and number of faults, from the three named assumptions:
`ShapeAssumption` (packages, calls and bounds are what they are called), `RegistryAssumption` (a
provider is in the registry once, and the SDK's adapters are the keys of a dict) and `AuthAssumption`
(what `_select_auth` of the parsers makes of an auth). `CallsEnd` is liveness and stays with TLC.

**The quota** (`LocalExecution_proofs`, `QuotaOverrun`). `OverrunIsBounded` is not inductive: that a
row takes the place of a thread needs to know which threads are past the quota, and that what was
refused was never sent. `IInv` adds `RowsInv` (the tables are sequences of one length, and a proxied
row names the proxy's project, so that the quota's count has every forwarded row in it), `HandlersInv`
(a thread that was refused has no contact) and `QuotaInv` (as many threads as are past the quota
now are in `peak`). A thread is let in when `Count < Quota`; from there on it adds one forwarded row
at most, and stops being counted in the same step.

**The ledger** (`LocalExecution_proofs`, `EffectsAccounted` and `HistoryIsKept`). `ShapeInv` says what
tables, calls and threads are made of. `EffectsInv` says at each moment who accounts for a contact:

* `RowsAgree`, `RowsApart`: rows and contacts agree, and two rows of one contact are the
  proxy's and that of a caller or a replay that went through the proxy unawares;
* `ThreadsAccount`: a thread's contact has no row while the thread is at `forwarded`, has one once it
  has answered, and is no other thread's;
* `CallsAccount`: what a caller is told of and has not recorded has at most the proxy's row; the
  thread it waits for serves nobody else; and what it is done with has a row.

The counts of `EffectsAreAccounted` follow by an injection of rows into contacts (`FewRows`,
`FewSuccesses`). `HistoryStands` needs that a replay's own row is in a mode the metrics leave out
(`SameMetrics`), and that every other row comes with a step of its caller or its thread
(`WritersMove`).

**Failover** (`LocalFailover_proofs`, `FailoverIsKept`), with three invariants beside `ShapeInv`:

* `PlacesInv`: a call in an attempt is at a place of its ranking that the policy allows, after as many
  tries, all failed and to be gone on from; or at a shadow that may be run. Its tries are in the order of
  the ranking. The ranking itself has nobody twice: `SortReorders` shows by a least counterexample that
  the insertion sort permutes, `ShuffleReorders` and `RankReorders` the rest.
* `DecisionsInv`: a decision is one call's, and what is sent names a decision that was recorded.
* `SentInv`: for a call's decision nobody was sent to twice, a thread that may still forward has
  nobody's contact, and a call that goes on has asked for everyone something was sent to. So the
  thread of a call that was given up cannot meet a later attempt: whom that goes to has not been
  asked (`TriedNow`, `AsksAnew`).

**Headers** (`LocalFailover_proofs`, `HeadersAreCarried`). `DirectCarries` and `ProxyCarries` follow the
one credential of a package through `CredentialDefinitionOf` or `ProxyCredential`, `Resolve`, `Judge`
and the injection, to the same slot; `HeadersInv` carries that over the proxy's thread, whose
credential is fixed when it is received and whose slots are fixed when it is admitted.

### 6.5 Not modelled

Reading registry and credential files; the proxy's listener and malformed requests; the
export and the layout of reports; the `route` command, which leaves a decision and no call;
calls of one caller one after the other; the benchmark.
## 7. Gateway contract harness: `GatewayPermissions`, `GatewayHarness`, `GatewayContract`

`scripts/go_control_plane_hosted_admin_gateway_contract_dogfood.py` is the largest Python
program of the repository: a gateway in front of the control plane with two sources of
permissions and a table of decisions, and a contract of requests that it must answer as
asserted.

### 7.1 Correspondence

| model | code |
|---|---|
| `GatewayPermissions` | the fixture, the read model's lookups, the normalisation of decisions and their constraints, and the headers that are forwarded; no variables |
| `server` | the attributes of `GatewayHarnessServer` and the switches of its persistence |
| `policy` | the hosted permission tables, as the seed and the script's SQL leave them |
| `rows`, `stats`, `failures`, `forwarded` | `hosted_permission_decisions` and what the persistence and the server count |
| `thread` | one thread of the server per client: where it is, and its decision |
| `inflight`, `audits`, `keys`, `calls` | requests on their way to the control plane, its audit and idempotency rows, and (history) what it was sent |
| `script`, `log` | what a client does and what it learnt |

A thread is `Route`, `Resolve`, `Persist` (the look at the id), `Insert` (each turn of the
retry loop is a step), `Decide`, and the forwarding, which ends by `Serve` or by
`ForwardFails`; a request whose gateway gave up may still be served. The time of a
decision is a clock that two threads may read in one microsecond. The control plane is as much
of it as its answers show (`Served`, external); its own transactions are section 3.
`GatewayContract` is `main`: each request with the switches and SQL before it, and what
is asserted after it.

### 7.2 Run

`gateway_contract` has four scenarios: the contract alone, from its first to its last step; two
clients who import and repeat their imports; a grant that comes and goes between requests of
one name; and the fixture, with a policy version no table knows, a stale policy and an
insert that never succeeds. In the last three one more thing may fail: a query,
an insert (before or after its commit), a deadline, a connection.

* `ContractHolds`: every answer, the number of rows after each request, and the final tables are
  what the script asserts.
* `EffectsAreOnRecord`: whatever reached the control plane is a row that says allowed, for that
  request, permission and principal.

`ContractHelpersAssumption` evaluates what the script asserts of the functions alone.
Bounds: two clients with two requests each, because a decision id can be shared by two; two
retries (`MaxTransientRetries`) as in the code; a retention of 30 ticks. Deadlock is not checked: scripts end.

### 7.3 What the model says besides

* Two requests of one principal in one microsecond have one decision id, which leaves out the
  request's id and token. The second is then a conflict, or its insert fails; its answer is 503,
  once with a conflict and once with "unavailable", for the same thing.
* A row may be committed although psql fails: the answer is 503, with an allowed row and
  nothing forwarded. `EffectsAreOnRecord` has only the other direction.
* A 502 is called retryable although the control plane may apply the request later; only
  an idempotency key makes that harmless.
* The fixture's version without a permission is not in `hosted_policy_versions`: its decisions
  cannot be stored, so that the allowed ones are refused.

### 7.4 Proofs

`GatewayHarness_proofs` proves for all clients, scripts, policies, switches and faults
`SentIsOnRecord` (`EffectsAreOnRecord`), `IdsAreUnique` and `RecordsAreFinal`, from
`ScriptsAssumption`: scripts are sequences, and switch the persistence on with the first
request, as the contract does at line 2000 of the script; without persistence nothing is stored and nothing of
this holds.

The property is not inductive, because a request is on its way for some time after its thread decided. `IInv`
adds that rows have their columns and ids of their own (`RowsInv`); that a thread works on the step
its client's script is at (`ScriptsInv`); that persistence stays on from the first request
(`ServerInv`); that an allowed decision names the caller and the permission of its route from the moment
it is made, and is on record when the thread goes on without a failure (`DecisionsInv`); and that what is on its way is
on record before it arrives (`InflightInv`). The rest is that rows are only appended, with an id that
none of them has, and changed in their hold alone (`RecordsAreFinal`), whichever thread compares
and inserts in between.

`ContractHolds` stays with TLC: it is what one fixed script comes to from its first to its last
step, and no constant is left in it to prove it for.

### 7.5 Not modelled

Containers, processes and the report; the assembly of each row's identifiers from their
hashes; the client's own timeout; a crash of the harness; increments of the counters that
Python may interleave.
## 8. Toolchain: `PackageCommands`, `Toolchain` and the modules of the parsers and generators

### 8.1 Correspondence

| module | code |
|---|---|
| `SchemaShaping` | `schema_shaping.py`: what is kept of a request or response schema, and the hints |
| `Samples` | `generators/examples.py`, `tools.py`: the inputs offered to an agent and the sample inputs of the generated tests |
| `OpenApi` | `parsers/openapi.py`, `utils/naming.py`, `safety/classifier.py`, `filters.py`, `ir/models.py` |
| `Captures` | the other nine parsers: cURL, HAR, Postman, Insomnia, Bruno, workflow, GraphQL, AsyncAPI, protobuf |
| `Diagnostics` | `diagnostics.py`: findings, score, status |
| `Toolchain` | `generate_package` and `generate`: what a source with its options becomes |
| `PackageCommands` | the commands over a package directory: `cli.py`, the generated tests and agents |

All but the last have no variables. A document or an export is a record, with names as sequences of words, and
paths as sequences of segments; a schema is a function from its keywords.
Text is left out where nothing depends on it. `PackageCommands` is the part that moves. It
takes for each build (a source with its options) the finished package as a constant, `Built`, and as another,
`Fitting`, which scripts fit which tools: both come from definitions that recurse over schemas
(`Packages`, `FittingBuilds` of `Toolchain`), which a module with proofs must not reach. `BuildsAssumption`
ties the constants of the run to those definitions.

| model | code |
|---|---|
| `disk` | the files of one package directory, in `generate_package`'s order; each is the build that wrote it, absent, or cut short (README.md and claude_desktop_config.json, which no command reads back, are left out) |
| `made`, `settled` | the directory is not empty; the last generation ended and was alone (history) |
| `shells` | what each shell runs |
| `sent`, `unmet` | history: requests to the provider; calls of agents that the runner could not make |
| `spent` | the bounds' counters |

`Generate` parses, filters, and stops where the code does (no tool left, a directory
with content and no `--force`); `WriteFile` writes one file; `Interrupt` is a kill or a full disk.
`TestTool` and `TestScript` decide from the files there are, and `RunTest` is the process
that then imports `runner.py`, with or without a proxy to leave the auth to. The MCP server and the example agent start in the order of their
files: `StartAgent`, `ImportRunner`, for the example agent `LoadTools`, and then `AgentCall`; a
generation may come in between.

### 8.2 Run

`toolchain`: two shells that nothing tells apart (symmetry), two generations, one test
or agent, one interrupt; six builds: a document with reads, writes and a delete; one
whose tool names collide; a recorded HAR file cut to two tools; one whose filter leaves nothing; and two in
which one name means a read and a write. Two
generations are needed for a mixture of files, and one test beside them sees every mixture. The
thresholds of large things are 2, so that both sides of each are met.

* `WritesAreConsented`: without `--allow-write` a test writes to the provider in two cases only: the file
  that decided (capability.json or the smoke test) and runner.py are of different builds, or two tools of
  the runner's build share a name. The first is excluded on a package whose last generation ended with
  no other beside it, unless another began during the test; in the second, diagnose warns on such a package.
  What is left open is every mixture of two builds, also one that nobody is at work on any more (8.4).
* `PackageHoldsTogether`: after a generation that was alone, whatever interrupted
  ones left before it, all files are of one build, the scripts call tools that are there with inputs the offered schemas admit,
  every secret is named, and an agent is never told that a tool it was offered is unknown.

TLC evaluates what the pure modules promise each other as assumptions, over every document and eleven
exports of all nine kinds: `FilterAssumption` (filtering while parsing is filtering afterwards,
and the count of operations), `SampleAssumption` (recordings have distinct tool names; then samples
fit), `ShapingAssumption` (hint counts against the set of paths, shaping is idempotent),
`ReportAssumption` (score, status and blocking findings agree).

### 8.3 Proofs

Both properties are proved in `PackageCommands_proofs`, for every number of shells, generations, tests
and interrupts and every set of builds. They rest on two assumptions. `FilesAssumption`: an absent and a damaged
file are not builds. `PackagesAssumption`: a package's report warns of the names that two of its tools
share, tools.json requires whatever the runner requires, and a package's own scripts fit its own
tools. TLC evaluates it for the run's packages, which `Toolchain` computes from the parsers; in
the code the first is `diagnose_capability`, the second that `tools.py` and `runner.py` take the
required inputs from the same capability.json, the third what `SampleAssumption` checks source by source.

The properties are about the past (what was sent, what an agent lacked) and about finished
generations; neither says what a command under way has read. `IInv` does:

* `SettledInv`: when the last generation ended alone, all files are of one build.
* `GenerateInv`: a generation that is alone is the only one, and has written every file before its next; so
  the last write settles the directory, whatever was there before.
* `TestInv`: a test without consent was let begin by a build in which the name it was given means a tool that reads, or
  the report warns; one that was not disturbed finds the directory settled, and of that build. What the CLI read (the first tool of the name
  in capability.json), what the smoke test was written for and what the runner executes are the same tool
  then (`FirstIsOne`, `OwnNameIsFirst`, `SmokeTestReads`).
* `StartInv`, `AgentInv`: an agent that starts undisturbed has read files of one build. Once started it needs
  them no more, which is why a later generation cannot harm it.

A generation that begins disturbs whoever still has something to read (`Disturbed`), and so
makes those premises false before it touches a file.

### 8.4 What the model says besides

* A mixture writes without consent. A `generate --force` that is killed after capability.json
  (package.py:25) and before runner.py (package.py:30) leaves the new description beside the old runner.
  `test --tool X`, with nobody else running, finds X in it as a read (cli.py:347-354), and the runner's X may be a
  POST; the same holds of an old smoke test beside a new runner, and of two generations that overlapped. TLC reaches it
  in the run above (the two builds in which one name means a read and a write), with no generation under way and
  no warning. `docs/en-US/API2AGENT_MANUAL_WRITE_TEST_PATH_REPORT.md:11` says without exception that "POST, PUT, PATCH,
  and DELETE tools are not executed unless the developer deliberately opts in through the CLI or environment guard".
  Nothing in a package says which build a file is of, so neither the CLI nor diagnose can notice.
* The OpenAPI parser, GraphQL and protobuf do not make tool names distinct. The CLI, the smoke test
  and the runner each take the first tool of a name: if that one writes, the read-only
  smoke test writes. diagnose reports `duplicate_tool_names`, hence the exception in both
  properties.
* The MCP server and the example agent have no guard for tools that write.
* Samples do not fit every schema (`Fillable` leaves out: exclusive bounds with nothing
  between, objects without type, oneOf or anyOf without discriminator, minItems over 3, minLength over
  64, and parameters that share a name or are called "body").
* Findings of severity info cost 4 points each without limit, so a report may pass with score 0.
* HAR, Insomnia and Bruno give a request that was recorded without credentials the first auth of
  the collection, Postman keeps an explicit "noauth"; Insomnia and Bruno may take that auth from a request
  that is skipped; an empty Insomnia body becomes a required body without schema; cURL keeps
  an API key header both as auth and as a parameter; a default server does not make an AsyncAPI channel callable.

### 8.5 Not modelled

Reading YAML, JSON and proto text; regular expressions on raw text; prose, README and messages; the calibration,
audit and minimum dogfood scripts. What the parsers, the shaping and the diagnostics compute is
recursive over schemas, and induction over data is out of the prover's reach: the promises of the pure modules stay with TLC.

## 9. Snapshot distribution: `SnapshotDistribution`, `SnapshotRegister`

### 9.1 Correspondence

| model | code |
|---|---|
| `source`, `export` | the directories `export` writes to, and where `WriteArtifactDir` stands |
| `artifact` | `artifacts/<version>/`, with both its files |
| `pointer` | `current.json` |
| `publication` | a call of `PublishArtifactDir` with the handler around it: its locals, its temporary directory, the answer |
| `load` | `LoadCandidate`, or `main` with `NewSnapshotStore`: where it stands, the pointer it follows, the snapshot it has |
| `serving`, `resolved` | `SnapshotStore.snapshot` and `resolvedTo` |
| `disturbed` | history: the source was rewritten between the first and the last time the publisher read it |

A snapshot is a value that stands for its bytes and so for its digest; a manifest and a
pointer carry version, fingerprint and digest of one snapshot and stand as that
snapshot. The version is a constant function of the snapshot and need not be injective,
since the policy is `explicit`: an operator may give two snapshots one version.

There is one action per file system call whose effect or result others can change.
`os.WriteFile` is two of them: it empties the file, which is then `Torn`, and fills it; an exporter
that dies in between leaves it so. A publisher reads the source five times (`Publish`, `ReadArtifact`,
`CheckDigest`, `CopySnapshot`, `CopyManifest`) and looks at the target twice (`StatTarget`,
`CommitArtifact`: the rename fails if the directory is there). `MovePointer` is the
rename of the finished temporary pointer; `RemovePointer` is the fallback of
`replaceFile`. After any of them the call may fail (`PublishFails`, with the
deferred removal of the temporary directory) or the process die. `Record` covers the two rows that
the handler writes after publication: if it cannot, the caller gets a retryable `AUDIT_WRITE_FAILED` for
what was published.

A load goes `ReadPointer`, `ValidateManifest`, `ValidateDigest`, `ReadSnapshot`, and then through the
first three once more, for the path that the store keeps. At a start the second
resolution may fail (`StartUnresolved`), at a reload that fails the load.

`SnapshotRegister` is the promise: one register that is set and looked at. A load
looks twice, serves what it saw first, and says that it serves what it saw second.

### 9.2 Run

| run | question | result |
|---|---|---|
| `snapshot_distribution` | two exports into one directory, three publications by two publishers, a data plane that starts, reloads and stops; everyone may fail or die anywhere | the pointer, the answers and what is served hold (`DistributionHolds`); a load is two looks at one register (`ImplementsRegister`) |

Bounds: three snapshots, two of which share a version. `MaxExports` 2 rewrites the one source under a
publication (or replaces it between two); `MaxPublications` 3 lets two publishers compete for a version
while the pointer still moves, or one of them retry. Failures and deaths are not
bounded. Publishers, and the two snapshots of one version, are interchangeable, which both
properties respect: neither names one of them. When the bounds are used up the
run may stop.

### 9.3 Proofs

`SnapshotDistribution_proofs` proves `DistributionAlwaysHolds` and `Refinement` for any number of
snapshots, versions, directories, exporters, publishers and data planes, without the
bounds; the one assumption is that `None` and `Torn` are no snapshots. Neither property is
inductive. `IInv` says of a publisher in `PublicationInv` what it may rely on: as long as it is undisturbed, the
source is still what was validated, and so is the copy; once committed, the directory is `Kept`. It
says of a load in `LoadInv` that what was validated is still so. The first rests on `disturbed`, the
second on `Final`: a directory that is there is never written again, because nothing but the rename in
`CommitArtifact` makes one (`FinalKeeps`). `ReadSnapshot` reads the file without
checking it, and returns what the pointer named only because of that; it is the
step on which the refinement depends.

### 9.4 What the model says besides

* A publication that fails, or dies, after the rename leaves the version committed without a pointer
  to it. Every retry is answered `DISTRIBUTION_ARTIFACT_EXISTS`, not retryable, and
  nothing but a new version or an operator moves the pointer there.
  `docs/en-US/GO_CONTROL_PLANE_SNAPSHOT_ATOMIC_PUBLISH_DOGFOOD_REPORT.md:7` names as the goal to
  avoid "half-published distribution state when publishing a snapshot artifact fails"; the artifact is never
  half there, the publication may be. The same answer meets the caller who retries
  `AUDIT_WRITE_FAILED`, which says that it is retryable.
* The copy is not validated: where an export rewrites the source during a publication (`disturbed`), the
  directory may hold a pair of files that fit neither each other nor the pointer. Loads
  of it fail until another version is published; what was served stays.
* Publications are not ordered: the one that commits last need not be the one that moves the pointer last.
* A failed fallback in `replaceFile` leaves no pointer: reloads fail, and a data
  plane that stops cannot start.
* After a reload the store may name the path of a later snapshot than the one it serves, if the pointer
  moved between the two resolutions; `/healthz` and the reload event then show both.

### 9.5 Not modelled

What a snapshot contains and the registry's validation before the export; paths that leave a
directory, or versions that are no file name (they are refused before anything is
written); a snapshot path that names a file and no distribution; temporary directories a
dead publisher leaves, which no one reads; loss of renamed files at a power failure.
