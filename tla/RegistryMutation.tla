-------------------------- MODULE RegistryMutation --------------------------
(***************************************************************************)
(* The two operations that replace the persistent registry, as they run    *)
(* concurrently against one PostgreSQL database:                           *)
(*                                                                         *)
(*   ReplacePersistentRegistry       (admin import/replace, and the CLI)   *)
(*   ReplaceProjectPartitionRegistry (one project's partition)             *)
(*                                                                         *)
(* Each request is one SERIALIZABLE transaction. It sees the database as   *)
(* of its first statement, tries a registry-wide advisory lock, reserves   *)
(* its idempotency key, and commits the registry rows, the revision row,   *)
(* the success audit row and the idempotency record together. The two      *)
(* operations take these steps in different orders: import/replace         *)
(* reserves the key before it asks for the lock, the partition operation   *)
(* after it holds the lock and after it has validated the change.          *)
(*                                                                         *)
(* Beside them ExportArtifact reads the registry and later inserts a       *)
(* revision of its own, under no lock and in no transaction with the read. *)
(*                                                                         *)
(* A registry document stands for its canonical form and so for its        *)
(* fingerprint. The documents requests carry passed prepareImportReplace-  *)
(* Rows; the others are answered before any transaction begins.            *)
(***************************************************************************)
EXTENDS Integers, Sequences

CONSTANTS
  Projects, Platform, Contents, Empty, InitialRows, Keys, NoKey,
  Requests, Operation, IdempotencyKey, Project, Incoming,
  Dangling,       \* requests that drop a project other tables still refer to
  Exports,        \* the requests that export the registry as an artifact
  None,           \* no holder of a lock
  MaxFaults       \* bound: database failures, crashes and lost answers

VARIABLES
  \* Committed database state
  registry,     \* the seven mutable tables; the revision they were written with
  revisions,    \* registry_revisions: the fingerprints and created_by, by id
  audits,       \* the success events of the two operations, by id
  idem,         \* scoped key -> admin_mutation_idempotency_records row
  \* Locks that live as long as a transaction
  lock,         \* pg_try_advisory_xact_lock(22021, 1)
  holder,       \* scoped key -> transaction with an uncommitted write to its row
  \* Requests in the service
  pc,           \* the next step of the request's handler
  seen,         \* the registry tables in the transaction's snapshot
  row,          \* its key's idempotency row in the transaction's snapshot
  committed,    \* whether this attempt's transaction took effect
  answer,       \* what the caller was told
  failureAudit, \* the failure audit event of this attempt, if any
  export,       \* what an export has read, and how far it is
  faults        \* faults that happened so far

db     == <<registry, revisions, audits, idem>>
locks  == <<lock, holder>>
client == <<committed, answer, failureAudit>>
vars   == <<db, locks, pc, seen, row, client, export, faults>>

Owners == Projects \cup {Platform}

Registries == [Owners -> Contents]

Operations == {"import_replace", "project_partition_replace"}

(***************************************************************************)
(* A scoped key is project_id, actor_id, operation and key hash together,  *)
(* so two requests that share it share the project and the operation.      *)
(***************************************************************************)
ASSUME RegistryAssumption ==
  /\ Empty \notin Registries
  /\ InitialRows \in Registries \cup {Empty}
  /\ Incoming \in [Requests -> Registries]

ASSUME RequestAssumption ==
  /\ Operation \in [Requests -> Operations]
  /\ Project \in [Requests -> Projects]
  /\ NoKey \notin Keys
  /\ IdempotencyKey \in [Requests -> Keys \cup {NoKey}]
  /\ \A r, s \in Requests :
       IdempotencyKey[r] = IdempotencyKey[s] /\ IdempotencyKey[r] # NoKey
         => Operation[r] = Operation[s] /\ Project[r] = Project[s]
  /\ Dangling \subseteq Requests
  /\ None \notin Requests
  /\ MaxFaults \in Nat

Keyed(r) == IdempotencyKey[r] # NoKey

Partition(r) == Operation[r] = "project_partition_replace"

-----------------------------------------------------------------------------
(* Answers and rows *)

ErrorTypes == {"none", "REGISTRY_MUTATION_INVALID", "REGISTRY_MUTATION_CONFLICT",
  "REGISTRY_PARTITION_VIOLATION", "PERSISTENT_STORE_READ_FAILED",
  "PERSISTENT_STORE_WRITE_FAILED", "AUDIT_WRITE_FAILED",
  "IDEMPOTENCY_KEY_CONFLICT", "IDEMPOTENCY_REQUEST_IN_PROGRESS",
  "IDEMPOTENCY_STORE_READ_FAILED", "IDEMPOTENCY_STORE_WRITE_FAILED",
  "IDEMPOTENCY_RESPONSE_REPLAY_FAILED"}

Retryable(error) == error \notin {"REGISTRY_MUTATION_INVALID",
  "REGISTRY_PARTITION_VIOLATION", "IDEMPOTENCY_KEY_CONFLICT"}

Documents == Registries \cup {Empty}

Answers == [kind : {"none", "ok", "replayed", "error", "lost"}, error : ErrorTypes,
            document : Documents, previous : Documents, noop : BOOLEAN]

Answer(kind, error, document, previous, noop) ==
  [kind |-> kind, error |-> error, document |-> document,
   previous |-> previous, noop |-> noop]

NoAnswer == Answer("none", "none", Empty, Empty, FALSE)
Lost     == Answer("lost", "none", Empty, Empty, FALSE)

IdemRows == [status : {"absent", "processing", "succeeded"}, document : Documents,
             previous : Documents, noop : BOOLEAN, revision : Nat, audit : Nat,
             replays : Nat]

Absent == [status |-> "absent", document |-> Empty, previous |-> Empty,
           noop |-> FALSE, revision |-> 0, audit |-> 0, replays |-> 0]

\* The id of the revision a rewrite inserts stands for the row versions that
\* PostgreSQL compares: every rewrite has its own.
Tables == [rows : Documents, version : Nat]

\* A replacement names its actor in created_by; an export leaves it empty.
RevisionRows == [document : Registries, by : {"replacement", "export"}]

NoSnapshot == [rows |-> Empty, version |-> 0]

AuditRows == [request : Requests, document : Documents, previous : Documents,
              noop : BOOLEAN]

Steps == {"idle", "reserve", "lock", "validate", "execute", "commit", "replay", "done"}

InFlight(r) == pc[r] \notin {"idle", "done"}

ExportStates == [step : {"idle", "loaded", "done"}, document : Documents]

-----------------------------------------------------------------------------
Init ==
  /\ registry = [rows |-> InitialRows, version |-> 0]
  /\ revisions = <<>>
  /\ audits = <<>>
  /\ idem = [k \in Keys |-> Absent]
  /\ lock = None
  /\ holder = [k \in Keys |-> None]
  /\ pc = [r \in Requests |-> "idle"]
  /\ seen = [r \in Requests |-> NoSnapshot]
  /\ row = [r \in Requests |-> Absent]
  /\ committed = [r \in Requests |-> FALSE]
  /\ answer = [r \in Requests |-> NoAnswer]
  /\ failureAudit = [r \in Requests |-> "none"]
  /\ export = [e \in Exports |-> [step |-> "idle", document |-> Empty]]
  /\ faults = 0

GoTo(r, step) == pc' = [pc EXCEPT ![r] = step]

\* Bug: a session-level advisory lock, which the end of a transaction leaves held.
Bug_SessionLock(r) ==
  /\ lock' = lock
  /\ holder' = [k \in Keys |-> IF holder[k] = r THEN None ELSE holder[k]]
  /\ seen' = [seen EXCEPT ![r] = NoSnapshot]
  /\ row' = [row EXCEPT ![r] = Absent]
  /\ GoTo(r, "done")

\* The transaction is over, by COMMIT or ROLLBACK: PostgreSQL drops its locks.
EndTransaction(r) ==
  /\ lock' = IF lock = r THEN None ELSE lock
  /\ holder' = [k \in Keys |-> IF holder[k] = r THEN None ELSE holder[k]]
  /\ seen' = [seen EXCEPT ![r] = NoSnapshot]
  /\ row' = [row EXCEPT ![r] = Absent]
  /\ GoTo(r, "done")

\* A return with an error: the deferred Rollback, and before it, on most
\* paths, a failure audit event on a connection of its own.
Fail(r, error, audited) ==
  /\ EndTransaction(r)
  /\ answer' = [answer EXCEPT ![r] = Answer("error", error, Empty, Empty, FALSE)]
  /\ failureAudit' = [failureAudit EXCEPT ![r] = IF audited THEN error ELSE "none"]
  /\ UNCHANGED <<db, committed, faults>>

\* The first statement of the transaction fixes its snapshot: the INSERT of
\* the idempotency row for import/replace, the lock query for the others.
Begin(r) ==
  /\ pc[r] = "idle"
  /\ seen' = [seen EXCEPT ![r] = registry]
  /\ row' = [row EXCEPT ![r] = IF Keyed(r) THEN idem[IdempotencyKey[r]] ELSE Absent]
  /\ GoTo(r, IF Keyed(r) /\ ~Partition(r) THEN "reserve" ELSE "lock")
  /\ UNCHANGED <<db, locks, client, faults>>

(***************************************************************************)
(* INSERT ... ON CONFLICT DO NOTHING into the idempotency table. It waits  *)
(* while another transaction has an uncommitted write to the key's row.    *)
(* A row that was committed or updated since the snapshot was taken is a   *)
(* serialization failure; a row in the snapshot is loaded and compared.    *)
(***************************************************************************)
Reserving(r) ==
  /\ pc[r] = "reserve"
  /\ holder[IdempotencyKey[r]] = None

RowInSnapshot(r) == idem[IdempotencyKey[r]] = row[r]

\* Bug: ON CONFLICT DO UPDATE takes over a finished row.
Bug_TakeOver(r) == row[r].status = "processing"

KeyInUse(r) == row[r].status # "absent"

Reserve(r) ==
  /\ Reserving(r)
  /\ RowInSnapshot(r)
  /\ ~KeyInUse(r)
  /\ holder' = [holder EXCEPT ![IdempotencyKey[r]] = r]
  /\ GoTo(r, IF Partition(r) THEN "execute" ELSE "lock")
  /\ UNCHANGED <<db, lock, seen, row, client, faults>>

ReserveStale(r) ==
  /\ Reserving(r)
  /\ ~RowInSnapshot(r)
  /\ Fail(r, "IDEMPOTENCY_STORE_WRITE_FAILED", FALSE)

\* Bug: any finished row under the key is replayed.
Bug_ReplayAny(r) == row[r].status = "succeeded"

\* The key was used for another request, or its outcome is not known yet.
CanReplay(r) == row[r].document = Incoming[r] /\ row[r].status = "succeeded"

ReserveRejected(r) ==
  /\ Reserving(r)
  /\ RowInSnapshot(r)
  /\ KeyInUse(r)
  /\ ~CanReplay(r)
  /\ Fail(r, IF row[r].document # Incoming[r] THEN "IDEMPOTENCY_KEY_CONFLICT"
             ELSE "IDEMPOTENCY_REQUEST_IN_PROGRESS", FALSE)

\* The replay counters of the row are updated; the caller gets the cached
\* response once that update is committed.
ReserveReplay(r) ==
  /\ Reserving(r)
  /\ RowInSnapshot(r)
  /\ KeyInUse(r)
  /\ CanReplay(r)
  /\ holder' = [holder EXCEPT ![IdempotencyKey[r]] = r]
  /\ GoTo(r, "replay")
  /\ UNCHANGED <<db, lock, seen, row, client, faults>>

\* Bug: a shared advisory lock.
Bug_SharedLock(r) ==
  /\ pc[r] = "lock"
  /\ lock' = r
  /\ GoTo(r, IF Partition(r) THEN "validate" ELSE "execute")
  /\ UNCHANGED <<db, holder, seen, row, client, faults>>

AcquireLock(r) ==
  /\ pc[r] = "lock"
  /\ lock = None
  /\ lock' = r
  /\ GoTo(r, IF Partition(r) THEN "validate" ELSE "execute")
  /\ UNCHANGED <<db, holder, seen, row, client, faults>>

LockUnavailable(r) ==
  /\ pc[r] = "lock"
  /\ lock # None
  /\ Fail(r, "REGISTRY_MUTATION_CONFLICT", TRUE)

(***************************************************************************)
(* ValidateProjectPartitionMutation against the snapshot: only the slice   *)
(* of the principal's project may differ. Empty tables cannot be rebuilt   *)
(* into a registry at all.                                                 *)
(***************************************************************************)
InPartition(current, proposed, project) ==
  \A o \in Owners \ {project} : current[o] = proposed[o]

PartitionAllowed(r) == InPartition(seen[r].rows, Incoming[r], Project[r])

Validate(r) ==
  /\ pc[r] = "validate"
  /\ seen[r].rows # Empty
  /\ PartitionAllowed(r)
  /\ GoTo(r, IF Keyed(r) THEN "reserve" ELSE "execute")
  /\ UNCHANGED <<db, locks, seen, row, client, faults>>

ValidateRejects(r) ==
  /\ pc[r] = "validate"
  /\ seen[r].rows = Empty \/ ~PartitionAllowed(r)
  /\ Fail(r, IF seen[r].rows = Empty THEN "PERSISTENT_STORE_READ_FAILED"
             ELSE "REGISTRY_PARTITION_VIOLATION", TRUE)

\* The tables already hold the incoming document, as far as the snapshot shows.
IsNoop(r) == seen[r].rows = Incoming[r]

\* Bug: READ COMMITTED isolation, or TRUNCATE instead of DELETE.
Bug_NoConflict(r) == FALSE

\* DELETE and INSERT of all mutable rows: PostgreSQL refuses when a row of
\* the snapshot was replaced by a transaction that committed since.
RewriteConflict(r) == seen[r].version # registry.version

Execute(r) ==
  /\ pc[r] = "execute"
  /\ IsNoop(r) \/ ~RewriteConflict(r)
  /\ GoTo(r, "commit")
  /\ UNCHANGED <<db, locks, seen, row, client, faults>>

ExecuteConflict(r) ==
  /\ pc[r] = "execute"
  /\ ~IsNoop(r) /\ RewriteConflict(r)
  /\ Fail(r, "PERSISTENT_STORE_WRITE_FAILED", TRUE)

-----------------------------------------------------------------------------
(* COMMIT *)

\* Bug: the row links the audit event before its own.
Bug_PreviousAudit(r) ==
  [status |-> "succeeded", document |-> Incoming[r], previous |-> seen[r].rows,
   noop |-> IsNoop(r), revision |-> IF IsNoop(r) THEN 0 ELSE Len(revisions) + 1,
   audit |-> Len(audits), replays |-> 0]

\* completeImportReplaceIdempotency: the row that becomes visible.
Completed(r) ==
  [status |-> "succeeded", document |-> Incoming[r], previous |-> seen[r].rows,
   noop |-> IsNoop(r), revision |-> IF IsNoop(r) THEN 0 ELSE Len(revisions) + 1,
   audit |-> Len(audits) + 1, replays |-> 0]

Revision(document, by) == [document |-> document, by |-> by]

\* Bug: the partition operation writes no revision.
Bug_NoRevision(r) ==
  /\ registry' = IF IsNoop(r) THEN registry
                 ELSE [rows |-> Incoming[r], version |-> Len(revisions) + 1]
  /\ revisions' = IF IsNoop(r) \/ Partition(r) THEN revisions
                  ELSE Append(revisions, Revision(Incoming[r], "replacement"))
  /\ audits' = Append(audits, [request |-> r, document |-> Incoming[r],
                               previous |-> seen[r].rows, noop |-> IsNoop(r)])
  /\ idem' = IF Keyed(r) THEN [idem EXCEPT ![IdempotencyKey[r]] = Completed(r)]
             ELSE idem
  /\ committed' = [committed EXCEPT ![r] = TRUE]

\* Registry rows, revision, success audit and idempotency record at once.
InstallMutation(r) ==
  /\ registry' = IF IsNoop(r) THEN registry
                 ELSE [rows |-> Incoming[r], version |-> Len(revisions) + 1]
  /\ revisions' = IF IsNoop(r) THEN revisions
                  ELSE Append(revisions, Revision(Incoming[r], "replacement"))
  /\ audits' = Append(audits, [request |-> r, document |-> Incoming[r],
                               previous |-> seen[r].rows, noop |-> IsNoop(r)])
  /\ idem' = IF Keyed(r) THEN [idem EXCEPT ![IdempotencyKey[r]] = Completed(r)]
             ELSE idem
  /\ committed' = [committed EXCEPT ![r] = TRUE]

\* Bug: a replay stores what it sees now as the previous document.
Bug_ReplayRewrites(r) ==
  [status |-> row[r].status, document |-> row[r].document, previous |-> seen[r].rows,
   noop |-> row[r].noop, revision |-> row[r].revision, audit |-> row[r].audit,
   replays |-> row[r].replays + 1]

\* Bug: the counter is decremented.
Bug_CountDown(r) ==
  [status |-> row[r].status, document |-> row[r].document, previous |-> row[r].previous,
   noop |-> row[r].noop, revision |-> row[r].revision, audit |-> row[r].audit,
   replays |-> row[r].replays - 1]

\* recordImportReplaceReplay: the same row, its replay counter one higher.
Replayed(r) ==
  [status |-> row[r].status, document |-> row[r].document, previous |-> row[r].previous,
   noop |-> row[r].noop, revision |-> row[r].revision, audit |-> row[r].audit,
   replays |-> row[r].replays + 1]

InstallReplay(r) ==
  /\ idem' = [idem EXCEPT ![IdempotencyKey[r]] = Replayed(r)]
  /\ UNCHANGED <<registry, revisions, audits, committed>>

\* The hosted policy tables refer to projects by DEFERRED foreign keys, which
\* are checked when the rewritten projects are committed.
References(r) == IsNoop(r) \/ r \notin Dangling

Commit(r) ==
  /\ pc[r] = "commit"
  /\ References(r)
  /\ InstallMutation(r)
  /\ EndTransaction(r)
  /\ answer' = [answer EXCEPT ![r] =
       Answer("ok", "none", Incoming[r], seen[r].rows, IsNoop(r))]
  /\ UNCHANGED <<failureAudit, faults>>

CommitRejected(r) ==
  /\ pc[r] = "commit"
  /\ ~References(r)
  /\ Fail(r, "PERSISTENT_STORE_WRITE_FAILED", TRUE)

CommitReplay(r) ==
  /\ pc[r] = "replay"
  /\ InstallReplay(r)
  /\ EndTransaction(r)
  /\ answer' = [answer EXCEPT ![r] =
       Answer("replayed", "none", row[r].document, row[r].previous, row[r].noop)]
  /\ UNCHANGED <<failureAudit, faults>>

-----------------------------------------------------------------------------
(* Faults, at most MaxFaults of them *)

Fault == faults < MaxFaults /\ faults' = faults + 1

\* What a failed statement is reported as, by the step it happens in;
\* REGISTRY_MUTATION_INVALID is a re-read of the written tables that does not
\* have the incoming fingerprint.
FailureErrors(step) ==
  {error \in ErrorTypes :
     \/ /\ step \in {"idle", "lock", "commit", "replay"}
        /\ error = "PERSISTENT_STORE_WRITE_FAILED"
     \/ /\ step = "validate"
        /\ error = "PERSISTENT_STORE_READ_FAILED"
     \/ /\ step = "reserve"
        /\ error \in {"IDEMPOTENCY_STORE_READ_FAILED", "IDEMPOTENCY_STORE_WRITE_FAILED",
                     "IDEMPOTENCY_RESPONSE_REPLAY_FAILED"}
     \/ /\ step = "execute"
        /\ error \in {"PERSISTENT_STORE_READ_FAILED", "PERSISTENT_STORE_WRITE_FAILED",
                     "AUDIT_WRITE_FAILED", "IDEMPOTENCY_STORE_WRITE_FAILED",
                     "REGISTRY_MUTATION_INVALID"}}

Audited(step) == step \notin {"reserve", "replay"}

\* A statement or the COMMIT fails and nothing of the transaction survives.
DatabaseFailure(r) ==
  /\ Fault
  /\ \E error \in FailureErrors(pc[r]) :
       /\ EndTransaction(r)
       /\ answer' = [answer EXCEPT ![r] = Answer("error", error, Empty, Empty, FALSE)]
       /\ failureAudit' = [failureAudit EXCEPT ![r] =
            IF Audited(pc[r]) THEN error ELSE "none"]
  /\ UNCHANGED <<db, committed>>

\* Bug: every failed COMMIT is reported as a serialization conflict.
Bug_CommitConflict(r) ==
  /\ Fault
  /\ pc[r] = "replay" \/ (pc[r] = "commit" /\ References(r))
  /\ IF pc[r] = "commit" THEN InstallMutation(r) ELSE InstallReplay(r)
  /\ EndTransaction(r)
  /\ answer' = [answer EXCEPT ![r] =
       Answer("error", "REGISTRY_MUTATION_CONFLICT", Empty, Empty, FALSE)]
  /\ UNCHANGED failureAudit

\* COMMIT took effect but its acknowledgement did not reach the service.
AmbiguousCommit(r) ==
  /\ Fault
  /\ pc[r] = "replay" \/ (pc[r] = "commit" /\ References(r))
  /\ IF pc[r] = "commit" THEN InstallMutation(r) ELSE InstallReplay(r)
  /\ EndTransaction(r)
  /\ answer' = [answer EXCEPT ![r] =
       Answer("error", "PERSISTENT_STORE_WRITE_FAILED", Empty, Empty, FALSE)]
  /\ failureAudit' = [failureAudit EXCEPT ![r] =
       IF Audited(pc[r]) THEN "PERSISTENT_STORE_WRITE_FAILED" ELSE "none"]

\* The service dies, or the caller goes away, in the middle of the handler.
Crash(r) ==
  /\ Fault
  /\ InFlight(r)
  /\ EndTransaction(r)
  /\ answer' = [answer EXCEPT ![r] = Lost]
  /\ UNCHANGED <<db, committed, failureAudit>>

\* The handler is done but the response never arrives.
LoseAnswer(r) ==
  /\ Fault
  /\ pc[r] = "done" /\ answer[r].kind \in {"ok", "replayed"}
  /\ answer' = [answer EXCEPT ![r] = Lost]
  /\ UNCHANGED <<db, locks, pc, seen, row, committed, failureAudit>>

-----------------------------------------------------------------------------
\* The caller sends the same request again, under the same key.
WantsRetry(r) ==
  \/ answer[r].kind = "lost"
  \/ answer[r].kind = "error" /\ Retryable(answer[r].error)

Retry(r) ==
  /\ pc[r] = "done" /\ WantsRetry(r)
  /\ GoTo(r, "idle")
  /\ answer' = [answer EXCEPT ![r] = NoAnswer]
  /\ failureAudit' = [failureAudit EXCEPT ![r] = "none"]
  /\ committed' = [committed EXCEPT ![r] = FALSE]
  /\ UNCHANGED <<db, locks, seen, row, export, faults>>

\* One step of the request's handler.
Handle(r) ==
  /\ \/ Begin(r)
     \/ Reserve(r)         \/ ReserveStale(r)    \/ ReserveRejected(r) \/ ReserveReplay(r)
     \/ AcquireLock(r)     \/ LockUnavailable(r)
     \/ Validate(r)        \/ ValidateRejects(r)
     \/ Execute(r)         \/ ExecuteConflict(r)
     \/ Commit(r)          \/ CommitRejected(r)  \/ CommitReplay(r)
  /\ UNCHANGED export

Fails(r) ==
  /\ DatabaseFailure(r) \/ AmbiguousCommit(r) \/ Crash(r) \/ LoseAnswer(r)
  /\ UNCHANGED export

-----------------------------------------------------------------------------
(* The export of an artifact *)

ExportFrame == UNCHANGED <<registry, audits, idem, locks, pc, seen, row, client, faults>>

Exporting(e, step, document) ==
  export' = [export EXCEPT ![e] = [step |-> step, document |-> document]]

\* loadRegistry: one read-only transaction, so one consistent registry; empty
\* tables do not make one.
ExportLoad(e) ==
  /\ export[e].step = "idle" /\ registry.rows # Empty
  /\ Exporting(e, "loaded", registry.rows)
  /\ ExportFrame /\ UNCHANGED revisions

\* The artifact is written, and then a revision names the registry it is of:
\* one statement, whatever was committed since the load.
ExportRecord(e) ==
  /\ export[e].step = "loaded"
  /\ revisions' = Append(revisions, Revision(export[e].document, "export"))
  /\ Exporting(e, "done", export[e].document)
  /\ ExportFrame

\* The load, the artifact or the INSERT fails, or the service dies.
ExportFails(e) ==
  /\ export[e].step # "done"
  /\ Exporting(e, "done", export[e].document)
  /\ ExportFrame /\ UNCHANGED revisions

ExportStep(e) == ExportLoad(e) \/ ExportRecord(e) \/ ExportFails(e)

-----------------------------------------------------------------------------

\* Every caller has an answer it will not act on: the system may rest.
Rest ==
  /\ \A r \in Requests : pc[r] = "done" /\ ~WantsRetry(r)
  /\ UNCHANGED vars

Next ==
  \/ \E r \in Requests : Handle(r) \/ Fails(r) \/ Retry(r)
  \/ \E e \in Exports : ExportStep(e)
  \/ Rest

Spec == Init /\ [][Next]_vars

(***************************************************************************)
(* The service schedules every handler, and callers act on a retryable     *)
(* error or a lost answer by sending the request again.                    *)
(***************************************************************************)
Fairness == \A r \in Requests : WF_vars(Handle(r)) /\ WF_vars(Retry(r))

FairSpec == Spec /\ Fairness

-----------------------------------------------------------------------------
(* Properties *)

TypeOK ==
  /\ registry \in Tables
  /\ revisions \in Seq(RevisionRows)
  /\ audits \in Seq(AuditRows)
  /\ idem \in [Keys -> IdemRows]
  /\ lock \in Requests \cup {None}
  /\ holder \in [Keys -> Requests \cup {None}]
  /\ pc \in [Requests -> Steps]
  /\ seen \in [Requests -> Tables]
  /\ row \in [Requests -> IdemRows]
  /\ committed \in [Requests -> BOOLEAN]
  /\ answer \in [Requests -> Answers]
  /\ failureAudit \in [Requests -> ErrorTypes]
  /\ export \in [Exports -> ExportStates]
  /\ faults \in 0..MaxFaults

\* The registry document that revision i names; revision 0 is the registry
\* before the first mutation.
RevisionDocument(i) == IF i = 0 THEN InitialRows ELSE revisions[i].document

\* Revision i was inserted by the transaction that made its document current.
Replaced(i) == i = 0 \/ revisions[i].by = "replacement"

\* Revision i is the newest a replacement inserted, of those before revision n.
LastReplaced(i, n) == Replaced(i) /\ \A j \in i + 1 .. n - 1 : ~Replaced(j)

\* The mutable tables hold exactly the document of the newest revision that a
\* replacement inserted: no replacement commits without its evidence, no
\* evidence without its rows. Exports insert revisions, too, after it and
\* between them, of a registry that may be long replaced; such a revision
\* names a document that had been current before it, and no other.
RegistryMatchesEvidence ==
  /\ \E i \in 0..Len(revisions) :
       LastReplaced(i, Len(revisions) + 1) /\ RevisionDocument(i) = registry.rows
  /\ \A j \in 1..Len(revisions) : ~Replaced(j) =>
       \E i \in 0 .. j - 1 : Replaced(i) /\ RevisionDocument(i) = RevisionDocument(j)

\* No lost update: a replacement that reports "previous_registry_fingerprint"
\* P and links revision i really replaced P, which the newest replacement
\* before it had made current, however stale the snapshot its transaction
\* started from and whatever exports have inserted in between.
NoLostUpdate ==
  \A k \in Keys : idem[k].revision # 0 =>
    /\ idem[k].revision \in 1..Len(revisions)
    /\ revisions[idem[k].revision] = Revision(idem[k].document, "replacement")
    /\ \E i \in 0 .. idem[k].revision - 1 :
         LastReplaced(i, idem[k].revision) /\ RevisionDocument(i) = idem[k].previous

\* Exactly-once effect: two idempotency records never share a revision or a
\* success audit event, a changed record has a revision and a no-op has none.
OneEffectPerKey ==
  /\ \A k \in Keys : idem[k].status = "succeeded" =>
       /\ idem[k].noop <=> idem[k].revision = 0
       /\ idem[k].audit \in 1..Len(audits)
       /\ audits[idem[k].audit].document = idem[k].document
       /\ audits[idem[k].audit].noop = idem[k].noop
       /\ IdempotencyKey[audits[idem[k].audit].request] = k
  /\ \A j, k \in Keys : j # k /\ idem[j].status = "succeeded" /\ idem[k].status = "succeeded" =>
       /\ idem[j].audit # idem[k].audit
       /\ idem[j].revision = idem[k].revision => idem[j].noop /\ idem[k].noop

\* A keyed request takes effect at most once, however often and however
\* concurrently it is sent: all success audit events of a key are one event.
AtMostOnce ==
  \A i, j \in 1..Len(audits) :
    /\ Keyed(audits[i].request)
    /\ IdempotencyKey[audits[i].request] = IdempotencyKey[audits[j].request]
    => i = j

\* A success is never lost or altered: the first answer and every replay
\* tell the outcome recorded under the key, and it is the caller's request.
AcksAreDurable ==
  \A r \in Requests : answer[r].kind \in {"ok", "replayed"} =>
    /\ answer[r].document = Incoming[r]
    /\ Keyed(r) =>
         LET record == idem[IdempotencyKey[r]]
         IN /\ record.status = "succeeded"
            /\ record.document = answer[r].document
            /\ record.previous = answer[r].previous
            /\ record.noop = answer[r].noop

\* An error other than a failed write means the attempt changed nothing: only
\* PERSISTENT_STORE_WRITE_FAILED can hide a commit, and it invites a retry.
RejectionHasNoEffect ==
  \A r \in Requests :
    answer[r].kind = "error" /\ answer[r].error # "PERSISTENT_STORE_WRITE_FAILED"
      => ~committed[r]

\* Tenant isolation: a project-scoped replacement differs from the registry
\* that was current WHEN IT COMMITTED in no slice but the project's own.
PartitionIsolation ==
  [][\A r \in Requests :
       (Partition(r) /\ committed[r] # committed'[r] /\ committed'[r])
         => \/ registry' = registry
            \/ InPartition(registry.rows, registry'.rows, Project[r])]_vars

\* An outcome, once recorded, is what every later replay will be told.
OutcomesAreFinal ==
  [][\A k \in Keys : idem[k].status = "succeeded" =>
       /\ idem'[k].status = "succeeded"
       /\ idem'[k].document = idem[k].document
       /\ idem'[k].previous = idem[k].previous
       /\ idem'[k].revision = idem[k].revision
       /\ idem'[k].replays >= idem[k].replays]_idem

\* Callers that retry what they may retry all end with a final answer: lock
\* conflicts, serialization failures and waits on a key do not go on forever.
\* (A dangling request is told to retry, too, and never succeeds.)
RetriesSettle ==
  \A r \in Requests \ Dangling : <>[](pc[r] = "done" /\ ~WantsRetry(r))

-----------------------------------------------------------------------------
(* What the documents say and the code does not do *)

\* The partition endpoint's design: "same scope, same key, same request returns
\* the stored committed response with replayed=true". The code validates the
\* partition before it looks at the key.
CommittedPartitionRetryIsReplayed ==
  [][\A r \in Requests :
       (pc[r] = "validate" /\ answer'[r].error = "REGISTRY_PARTITION_VIOLATION" /\ Keyed(r))
         => ~ /\ row[r].status = "succeeded"
              /\ row[r].document = Incoming[r]]_vars

-----------------------------------------------------------------------------
(* The inductive invariant: why the properties above hold *)

\* The steps of a handler that run with the registry lock held.
LockedSteps(r) ==
  IF Partition(r) THEN {"validate", "reserve", "execute", "commit", "replay"}
                  ELSE {"execute", "commit"}

\* The steps of a keyed handler that run with its key's row written.
ReservedSteps(r) ==
  {"execute", "commit", "replay"} \cup (IF Partition(r) THEN {} ELSE {"lock"})

\* Only partition handlers validate and only keyed ones touch a key.
StepIsOwn ==
  \A r \in Requests :
    /\ pc[r] = "validate" => Partition(r)
    /\ pc[r] \in {"reserve", "replay"} => Keyed(r)

LockIsHeld == \A r \in Requests : lock = r <=> pc[r] \in LockedSteps(r)

KeyIsHeld ==
  \A r \in Requests, k \in Keys :
    holder[k] = r <=> IdempotencyKey[r] = k /\ pc[r] \in ReservedSteps(r)

\* A held key's row is what the holder's snapshot says it is: free when the
\* handler goes on to the mutation, finished when it replays.
ReservationIsCurrent ==
  \A r \in Requests :
    /\ Keyed(r) /\ pc[r] \in ReservedSteps(r) => idem[IdempotencyKey[r]] = row[r]
    /\ Keyed(r) /\ pc[r] \in ReservedSteps(r) \ {"replay"} => ~KeyInUse(r)
    /\ pc[r] = "replay" => KeyInUse(r) /\ CanReplay(r)

\* The tables were written with the newest revision of a replacement.
VersionIsRevision ==
  /\ registry.version \in 0..Len(revisions)
  /\ LastReplaced(registry.version, Len(revisions) + 1)
  /\ RevisionDocument(registry.version) = registry.rows

\* A snapshot is the document of some revision, the one its version names.
SnapshotIsPast ==
  \A r \in Requests : InFlight(r) =>
    /\ seen[r].version \in 0..Len(revisions)
    /\ seen[r].rows = RevisionDocument(seen[r].version)

\* What an export has loaded was made current by some replacement.
LoadIsPast ==
  \A e \in Exports : export[e].step = "loaded" =>
    /\ export[e].document \in Registries
    /\ \E i \in 0..Len(revisions) : Replaced(i) /\ RevisionDocument(i) = export[e].document

\* What is about to be committed replaces the current registry.
RewriteIsCurrent ==
  \A r \in Requests : pc[r] = "commit" /\ ~IsNoop(r) => ~RewriteConflict(r)

\* A partition handler past its validation has validated.
PartitionIsValid ==
  \A r \in Requests :
    Partition(r) /\ pc[r] \in LockedSteps(r) \ {"validate"}
      => seen[r].rows # Empty /\ PartitionAllowed(r)

\* The audit event of a keyed request and its key's row point at each other.
EvidenceIsLinked ==
  /\ \A k \in Keys : idem[k].status \in {"absent", "succeeded"}
  /\ \A k \in Keys : idem[k].status = "absent" => idem[k].revision = 0
  /\ \A i \in 1..Len(audits) : Keyed(audits[i].request) =>
       /\ idem[IdempotencyKey[audits[i].request]].status = "succeeded"
       /\ idem[IdempotencyKey[audits[i].request]].audit = i

\* An attempt takes effect only by its last step.
EffectIsLast == \A r \in Requests : committed[r] => pc[r] = "done"

IInv ==
  /\ TypeOK
  /\ StepIsOwn
  /\ LockIsHeld
  /\ KeyIsHeld
  /\ ReservationIsCurrent
  /\ VersionIsRevision
  /\ SnapshotIsPast
  /\ LoadIsPast
  /\ RewriteIsCurrent
  /\ PartitionIsValid
  /\ EvidenceIsLinked
  /\ RegistryMatchesEvidence
  /\ NoLostUpdate
  /\ OneEffectPerKey
  /\ AcksAreDurable
  /\ RejectionHasNoEffect
  /\ EffectIsLast

-----------------------------------------------------------------------------
(* The promise this module keeps *)

Ledger == INSTANCE RegistryLedger WITH
  registry <- registry.rows,
  history <- [i \in 1 .. Len(revisions) + 1 |-> RevisionDocument(i - 1)],
  outcome <- [k \in Keys |->
    [settled |-> idem[k].status # "absent",
     fingerprint |-> idem[k].document, noop |-> idem[k].noop]]

\* Every committed transaction and every revision of an export is one step of
\* the ledger, all else is silent.
ImplementsLedger == Ledger!LedgerSpec

=============================================================================
