----------------------------- MODULE HostedPolicy -----------------------------
(***************************************************************************)
(* The durable hosted permission policy of one policy source and project:  *)
(* drafts are opened, changed, reviewed and promoted, versions are rolled  *)
(* back, by requests that run concurrently against one database.           *)
(*                                                                         *)
(* Each request is one SERIALIZABLE transaction, without the advisory lock *)
(* of the registry: it relies on SELECT ... FOR UPDATE of its draft and of *)
(* the active version, and on unique indexes. A row that was changed since *)
(* the transaction's snapshot cannot be locked: PostgreSQL reports a       *)
(* serialization failure, which the code answers as whatever the statement *)
(* was for. PromoteDraft takes its locks in the order draft, key, active   *)
(* version; RollbackVersion in the order key, active version.              *)
(*                                                                         *)
(* The permission graph is a status for each of its objects. Requests      *)
(* carry values that passed the checks made before a transaction begins.   *)
(***************************************************************************)
EXTENDS Integers, Sequences

CONSTANTS
  Requests,       \* requests; a retry is the same request again
  Ask,            \* what each of them asks for
  Drafts, Actors, Keys,
  Words,          \* what version names are made of
  Objects,        \* objects of the permission graph
  Needs,          \* object -> objects whose rows must exist when its own is inserted
  UpdateOnly,     \* bindings and grants: revoking an absent one inserts nothing
  InitialVersions, InitialDrafts,
  None,           \* no value
  MaxChanges,     \* bound: the change sequence numbers of a draft
  MaxFaults       \* bound: database failures, crashes and lost answers

VARIABLES
  \* Committed database state
  versions,   \* hosted_policy_versions, by id
  drafts,     \* hosted_policy_mutation_drafts and their changes
  graph,      \* the status of each object in the hosted_* tables
  audits,     \* admin_audit_events, by id
  idem,       \* scoped key -> admin_mutation_idempotency_records row
  \* Row locks, held to the end of a transaction
  draftLock, activeLock, keyLock,
  \* Requests in the service
  pc,         \* the next step of the request's handler
  snap,       \* the rows in the transaction's snapshot
  answer,     \* what the caller was told
  effects,    \* how often the request took effect, over all its attempts
  faults      \* faults that happened so far

db    == <<versions, drafts, graph, audits, idem>>
locks == <<draftLock, activeLock, keyLock>>
vars  == <<db, locks, pc, snap, answer, effects, faults>>

-----------------------------------------------------------------------------
(* Data *)

VersionNames == Seq(Words)

Changes == [object : Objects, operation : {"upsert", "revoke"}]

\* A fingerprint is what was hashed into it: what it was seeded with, and a
\* link for every change. The empty one is ''.
Links == [draft : Drafts, base : VersionNames, version : VersionNames,
          seq : 1..MaxChanges, change : Changes]
Fingerprints == [seed : VersionNames, links : Seq(Links)]
NoFingerprint == [seed |-> <<>>, links |-> <<>>]

Operations == {"begin_draft", "apply_change", "request_review", "promote", "rollback"}

\* What a request carries: None, or 0 for seq, is a field left out. A draft id
\* left out is the one the code derives from the draft's version.
Asks == [op : Operations, actor : Actors, key : Keys \cup {None}, draft : Drafts,
         base : VersionNames \cup {None}, version : VersionNames \cup {None},
         target : VersionNames, fingerprint : Fingerprints \cup {None},
         change : Changes, seq : 0..MaxChanges]

Statuses == {"absent", "active", "inactive"}

Graphs == [Objects -> Statuses]

\* The graph of a version row is the one it was activated with; the code keeps
\* no copy of it.
VersionRows == [version : VersionNames, fingerprint : Fingerprints,
                status : {"active", "superseded"}, previous : VersionNames \cup {None},
                graph : Graphs]

DraftRows == [status : {"absent", "draft", "review_requested", "promoted"},
              actor : Actors \cup {None}, base : VersionNames, version : VersionNames,
              fingerprint : Fingerprints, promoted : VersionNames,
              changes : [1..MaxChanges -> Changes \cup {None}]]

NoDraft == [status |-> "absent", actor |-> None, base |-> <<>>, version |-> <<>>,
            fingerprint |-> NoFingerprint, promoted |-> <<>>,
            changes |-> [i \in 1..MaxChanges |-> None]]

\* The canonical mutation intent behind a request fingerprint.
Intents == [draft : Drafts \cup {None}, base : VersionNames \cup {None},
            version : VersionNames \cup {None}, target : VersionNames \cup {None},
            fingerprint : Fingerprints \cup {None}]

NoIntent == [draft |-> None, base |-> None, version |-> None, target |-> None,
             fingerprint |-> None]

KeyRows == [status : {"absent", "succeeded"}, intent : Intents,
            version : VersionNames, audit : Nat, replays : Nat]

FreeKey == [status |-> "absent", intent |-> NoIntent, version |-> <<>>,
            audit |-> 0, replays |-> 0]

AuditRows == [request : Requests, op : Operations, version : VersionNames]

Errors == {"none", "POLICY_STATE_CONFLICT", "POLICY_VERSION_CONFLICT",
  "IDEMPOTENCY_KEY_CONFLICT", "IDEMPOTENCY_STORE_READ_FAILED",
  "IDEMPOTENCY_STORE_WRITE_FAILED", "IDEMPOTENCY_RESPONSE_REPLAY_FAILED",
  "PERSISTENT_STORE_READ_FAILED", "PERSISTENT_STORE_WRITE_FAILED", "AUDIT_WRITE_FAILED"}

Retryable(error) == error \notin {"none", "POLICY_STATE_CONFLICT",
  "POLICY_VERSION_CONFLICT", "IDEMPOTENCY_KEY_CONFLICT"}

Answers == [kind : {"none", "ok", "replayed", "error", "lost"}, error : Errors,
            version : VersionNames]

Answer(kind, error, version) == [kind |-> kind, error |-> error, version |-> version]

NoAnswer == Answer("none", "none", <<>>)

Snapshots == [versions : Seq(VersionRows), drafts : [Drafts -> DraftRows],
              idem : [Keys -> KeyRows]]

NoSnapshot == [versions |-> <<>>, drafts |-> [d \in Drafts |-> NoDraft],
               idem |-> [k \in Keys |-> FreeKey]]

Steps == {"idle", "draft", "reserve", "active", "write", "replay", "done"}

Keyed(r) == Ask[r].op \in {"promote", "rollback"}

InFlight(r) == pc[r] \notin {"idle", "done"}

\* Promotions and rollbacks carry a key, whose scope includes the actor and
\* the operation. The source starts with an active version.
ASSUME PolicyAssumption ==
  /\ {"draft", "rollback"} \subseteq Words
  /\ Ask \in [Requests -> Asks]
  /\ None \notin Requests \cup Drafts \cup Actors \cup Keys \cup Changes
                  \cup VersionNames \cup Fingerprints
  /\ \A r \in Requests : Keyed(r) <=> Ask[r].key # None
  /\ \A r, s \in Requests : Keyed(r) /\ Ask[r].key = Ask[s].key
       => Ask[r].op = Ask[s].op /\ Ask[r].actor = Ask[s].actor
  /\ InitialVersions \in Seq(VersionRows) /\ InitialVersions # <<>>
  /\ \A i \in 1..Len(InitialVersions) :
       InitialVersions[i].status = "active" <=> i = Len(InitialVersions)
  /\ \A i, j \in 1..Len(InitialVersions) :
       InitialVersions[i].version = InitialVersions[j].version => i = j
  /\ InitialDrafts \in [Drafts -> DraftRows]
  /\ \A d \in Drafts : InitialDrafts[d].status \in {"absent", "draft", "review_requested"}
  /\ Needs \in [Objects -> SUBSET Objects]
  /\ UpdateOnly \subseteq Objects
  /\ MaxChanges \in Nat /\ MaxFaults \in Nat

-----------------------------------------------------------------------------
Init ==
  /\ versions = InitialVersions
  /\ drafts = InitialDrafts
  /\ graph = InitialVersions[Len(InitialVersions)].graph
  /\ audits = <<>>
  /\ idem = [k \in Keys |-> FreeKey]
  /\ draftLock = [d \in Drafts |-> None]
  /\ activeLock = None
  /\ keyLock = [k \in Keys |-> None]
  /\ pc = [r \in Requests |-> "idle"]
  /\ snap = [r \in Requests |-> NoSnapshot]
  /\ answer = [r \in Requests |-> NoAnswer]
  /\ effects = [r \in Requests |-> 0]
  /\ faults = 0

GoTo(r, step) == pc' = [pc EXCEPT ![r] = step]

\* COMMIT or ROLLBACK: PostgreSQL releases the row locks.
EndTransaction(r) ==
  /\ draftLock' = [d \in Drafts |-> IF draftLock[d] = r THEN None ELSE draftLock[d]]
  /\ activeLock' = IF activeLock = r THEN None ELSE activeLock
  /\ keyLock' = [k \in Keys |-> IF keyLock[k] = r THEN None ELSE keyLock[k]]
  /\ snap' = [snap EXCEPT ![r] = NoSnapshot]
  /\ GoTo(r, "done")

Fail(r, error) ==
  /\ EndTransaction(r)
  /\ answer' = [answer EXCEPT ![r] = Answer("error", error, <<>>)]
  /\ UNCHANGED <<db, effects, faults>>

\* The first statement of the transaction fixes its snapshot.
Begin(r) ==
  /\ pc[r] = "idle"
  /\ snap' = [snap EXCEPT ![r] = [versions |-> versions, drafts |-> drafts, idem |-> idem]]
  /\ GoTo(r, CASE Ask[r].op = "begin_draft" -> "active"
               [] Ask[r].op = "rollback"    -> "reserve"
               [] OTHER                     -> "draft")
  /\ UNCHANGED <<db, locks, answer, effects, faults>>

-----------------------------------------------------------------------------
(* loadHostedPolicyMutationDraft: SELECT ... FOR UPDATE by id *)

\* Bug: the draft is read without FOR UPDATE, as it was in the snapshot.
Bug_ReadDraft(r) == snap[r].drafts[Ask[r].draft].status # "absent"

DraftIsCurrent(r) ==
  /\ snap[r].drafts[Ask[r].draft].status # "absent"
  /\ snap[r].drafts[Ask[r].draft] = drafts[Ask[r].draft]

LoadDraft(r) ==
  /\ pc[r] = "draft"
  /\ DraftIsCurrent(r)
  /\ draftLock[Ask[r].draft] = None
  /\ draftLock' = [draftLock EXCEPT ![Ask[r].draft] = r]
  /\ GoTo(r, IF Ask[r].op = "promote" THEN "reserve" ELSE "write")
  /\ UNCHANGED <<db, activeLock, keyLock, snap, answer, effects, faults>>

\* No such row, or a serialization failure: both are answered as a conflict.
DraftUnavailable(r) ==
  /\ pc[r] = "draft"
  /\ ~DraftIsCurrent(r)
  /\ Fail(r, "POLICY_STATE_CONFLICT")

\* mergeHostedPolicyDraftOptions: the caller's values go before the draft's.
Draft(r) == snap[r].drafts[Ask[r].draft]

Or(value, default) == IF value = None THEN default ELSE value

\* Bug: the draft's base is not merged in.
Bug_GivenBase(r) == Ask[r].base

Base(r)        == Or(Ask[r].base, Draft(r).base)
Version(r)     == Or(Ask[r].version, Draft(r).version)
Fingerprint(r) == Or(Ask[r].fingerprint, Draft(r).fingerprint)

-----------------------------------------------------------------------------
(* reserveHostedPolicyMutationIdempotency: INSERT ... ON CONFLICT DO NOTHING *)

Intent(r) ==
  IF Ask[r].op = "promote"
  THEN [draft |-> Ask[r].draft, base |-> Base(r), version |-> Version(r),
        target |-> None, fingerprint |-> Fingerprint(r)]
  ELSE [draft |-> None, base |-> Ask[r].base, version |-> Ask[r].version,
        target |-> Ask[r].target, fingerprint |-> Ask[r].fingerprint]

KeyRow(r) == snap[r].idem[Ask[r].key]

Reserving(r) == pc[r] = "reserve" /\ keyLock[Ask[r].key] = None

RowInSnapshot(r) == idem[Ask[r].key] = KeyRow(r)

\* Bug: the reservation ignores the rows of finished requests.
Bug_TakeOver(r) == FALSE

KeyInUse(r) == KeyRow(r).status = "succeeded"

Reserve(r) ==
  /\ Reserving(r)
  /\ RowInSnapshot(r)
  /\ ~KeyInUse(r)
  /\ keyLock' = [keyLock EXCEPT ![Ask[r].key] = r]
  /\ GoTo(r, "active")
  /\ UNCHANGED <<db, draftLock, activeLock, snap, answer, effects, faults>>

\* Bug: tried again within the transaction, whose snapshot stays as it is.
Bug_TryAgain(r) == Reserving(r) /\ ~RowInSnapshot(r) /\ UNCHANGED vars

ReserveStale(r) ==
  /\ Reserving(r)
  /\ ~RowInSnapshot(r)
  /\ Fail(r, "IDEMPOTENCY_STORE_WRITE_FAILED")

ReserveRejected(r) ==
  /\ Reserving(r)
  /\ RowInSnapshot(r)
  /\ KeyInUse(r) /\ KeyRow(r).intent # Intent(r)
  /\ Fail(r, "IDEMPOTENCY_KEY_CONFLICT")

ReserveReplay(r) ==
  /\ Reserving(r)
  /\ RowInSnapshot(r)
  /\ KeyInUse(r) /\ KeyRow(r).intent = Intent(r)
  /\ keyLock' = [keyLock EXCEPT ![Ask[r].key] = r]
  /\ GoTo(r, "replay")
  /\ UNCHANGED <<db, draftLock, activeLock, snap, answer, effects, faults>>

-----------------------------------------------------------------------------
(* loadActiveHostedPolicyVersion: SELECT ... WHERE status = 'active' FOR UPDATE *)

\* The version that was read: the active one of the snapshot.
ActiveVersion(r) == snap[r].versions[Len(snap[r].versions)].version

\* The version that is active in the snapshot has not been superseded since.
ActiveIsCurrent(r) == snap[r].versions = versions

\* The test a promotion makes before it asks for the active version.
Promotable(r) == Ask[r].op = "promote" => Draft(r).status = "review_requested"

NotPromotable(r) ==
  /\ pc[r] = "active"
  /\ ~Promotable(r)
  /\ Fail(r, "POLICY_STATE_CONFLICT")

LoadActive(r) ==
  /\ pc[r] = "active"
  /\ Promotable(r)
  /\ ActiveIsCurrent(r)
  /\ activeLock = None
  /\ activeLock' = r
  /\ GoTo(r, "write")
  /\ UNCHANGED <<db, draftLock, keyLock, snap, answer, effects, faults>>

ActiveUnavailable(r) ==
  /\ pc[r] = "active"
  /\ Promotable(r)
  /\ ~ActiveIsCurrent(r)
  /\ Fail(r, "POLICY_VERSION_CONFLICT")

-----------------------------------------------------------------------------
(* The writes, which become visible together at COMMIT *)

OpenDraft(d) == drafts[d].status \in {"draft", "review_requested"}

\* begin_draft and promote start from the active version.
BaseIsActive(r) ==
  CASE Ask[r].op = "begin_draft" -> Ask[r].base \in {None, ActiveVersion(r)}
    [] Ask[r].op = "promote"     -> Base(r) = ActiveVersion(r)
    [] OTHER                     -> TRUE

\* Changes and reviews need a draft nobody has sent to review.
Writable(r) == Ask[r].op \in {"apply_change", "request_review"} => Draft(r).status = "draft"

\* loadHostedPolicyVersion: the version a rollback restores.
TargetKnown(r) ==
  Ask[r].op = "rollback" => \E i \in 1..Len(versions) : versions[i].version = Ask[r].target

\* INSERT of a draft: its primary key, its version, one open draft per actor.
NewDraft(r) == [NoDraft EXCEPT
  !.status = "draft", !.actor = Ask[r].actor, !.base = ActiveVersion(r),
  !.version = Or(Ask[r].version, Append(ActiveVersion(r), "draft")),
  !.fingerprint = Or(Ask[r].fingerprint, NoFingerprint)]

DraftFits(r) ==
  /\ drafts[Ask[r].draft].status = "absent"
  /\ \A d \in Drafts : drafts[d].status # "absent" => drafts[d].version # NewDraft(r).version
  /\ \A d \in Drafts : OpenDraft(d) => drafts[d].actor # Ask[r].actor

\* INSERT of a change, under the sequence number given or the next one.
Used(d) == {i \in 1..MaxChanges : drafts[d].changes[i] # None}

ChangeSeq(r) ==
  IF Ask[r].seq # 0 THEN Ask[r].seq
  ELSE CHOOSE i \in 1..(MaxChanges + 1) :
         /\ \A j \in Used(Ask[r].draft) : j < i
         /\ i = 1 \/ i - 1 \in Used(Ask[r].draft)

ChangeFits(r) == ChangeSeq(r) \notin Used(Ask[r].draft)

\* INSERT of the new active version: its name is new, its fingerprint a hash,
\* and no other version of the source is active.
NewVersion(r) ==
  IF Ask[r].op = "promote" THEN Version(r)
                           ELSE Or(Ask[r].version, Append(Ask[r].target, "rollback"))

NewFingerprint(r) ==
  IF Ask[r].op = "promote" THEN Fingerprint(r)
  ELSE Or(Ask[r].fingerprint,
          versions[CHOOSE i \in 1..Len(versions) : versions[i].version = Ask[r].target].fingerprint)

Superseded(row) == [row EXCEPT !.status = "superseded"]

\* supersedeHostedPolicyVersion
Supersede(r) == [i \in 1..Len(versions) |->
  IF versions[i].version = ActiveVersion(r) THEN Superseded(versions[i]) ELSE versions[i]]

OneActive(r) == \A i \in 1..Len(versions) : Supersede(r)[i].status # "active"

\* Bug: no unique index on source and version.
Bug_AnyVersion(r) == NewFingerprint(r) # NoFingerprint /\ OneActive(r)

VersionFits(r) ==
  /\ \A i \in 1..Len(versions) : versions[i].version # NewVersion(r)
  /\ NewFingerprint(r) # NoFingerprint
  /\ OneActive(r)

(***************************************************************************)
(* applyHostedPolicyMutationDraftChanges: the changes in the order of their*)
(* sequence numbers. An upsert, and a revocation of anything but a binding *)
(* or a grant, is an INSERT ... ON CONFLICT DO UPDATE and needs the rows it*)
(* refers to.                                                              *)
(***************************************************************************)
Touches(d, o) == {i \in Used(d) : drafts[d].changes[i].object = o}
Upserts(d, o) == {i \in Touches(d, o) : drafts[d].changes[i].operation = "upsert"}
Inserts(d, o) == IF o \in UpdateOnly THEN Upserts(d, o) ELSE Touches(d, o)

StatusAfter(d, o) ==
  CASE Touches(d, o) = {} -> graph[o]
    [] \E i \in Upserts(d, o) : \A j \in Touches(d, o) : j <= i -> "active"
    [] graph[o] = "absent" /\ Inserts(d, o) = {} -> "absent"
    [] OTHER -> "inactive"

GraphAfter(d) == [o \in Objects |-> StatusAfter(d, o)]

ReferencesHold(d) ==
  \A o \in Objects : \A i \in Inserts(d, o) : \A n \in Needs[o] :
    graph[n] # "absent" \/ \E j \in Inserts(d, n) : j < i

\* Bug: a rollback activates the row of its target instead of a new one.
Bug_Reactivate(r) ==
  versions' = IF Ask[r].op = "rollback"
    THEN [i \in 1..Len(versions) |->
           IF versions[i].version = Ask[r].target THEN [versions[i] EXCEPT !.status = "active"]
                                                  ELSE Supersede(r)[i]]
    ELSE Append(Supersede(r),
           [version |-> NewVersion(r), fingerprint |-> NewFingerprint(r), status |-> "active",
            previous |-> ActiveVersion(r), graph |-> graph'])

\* supersedeHostedPolicyVersion and insertActiveHostedPolicyVersion.
Activate(r) ==
  versions' = Append(Supersede(r),
    [version |-> NewVersion(r), fingerprint |-> NewFingerprint(r), status |-> "active",
     previous |-> ActiveVersion(r), graph |-> graph'])
\* insertHostedPolicyMutationAudit, and completeHostedPolicyMutationIdempotency.
Record(r, version) ==
  /\ audits' = Append(audits, [request |-> r, op |-> Ask[r].op, version |-> version])
  /\ idem' = IF ~Keyed(r) THEN idem
             ELSE [idem EXCEPT ![Ask[r].key] =
                    [status |-> "succeeded", intent |-> Intent(r), version |-> version,
                     audit |-> Len(audits) + 1, replays |-> 0]]
  /\ effects' = [effects EXCEPT ![r] = effects[r] + 1]

\* BeginHostedPermissionPolicyDraft
BeginDraft(r) ==
  /\ Ask[r].op = "begin_draft"
  /\ BaseIsActive(r) /\ DraftFits(r)
  /\ drafts' = [drafts EXCEPT ![Ask[r].draft] = NewDraft(r)]
  /\ Record(r, NewDraft(r).version)
  /\ UNCHANGED <<versions, graph>>

\* insertHostedPolicyMutationDraftChange, and the fingerprint of the draft.
AddChange(r) ==
  /\ Writable(r) /\ ChangeFits(r)
  /\ ChangeSeq(r) \in 1..MaxChanges
  /\ drafts' = [drafts EXCEPT
       ![Ask[r].draft].changes[ChangeSeq(r)] = Ask[r].change,
       ![Ask[r].draft].fingerprint = [seed |-> Fingerprint(r).seed,
         links |-> Append(Fingerprint(r).links,
           [draft |-> Ask[r].draft, base |-> Base(r), version |-> Version(r),
            seq |-> ChangeSeq(r), change |-> Ask[r].change])]]

\* Bug: a change of a draft is applied at once.
Bug_LiveChange(r) ==
  /\ Ask[r].op = "apply_change"
  /\ AddChange(r)
  /\ Record(r, Version(r))
  /\ graph' = [graph EXCEPT ![Ask[r].change.object] = "active"]
  /\ UNCHANGED versions

\* ApplyHostedPermissionPolicyDraftChange
ApplyChange(r) ==
  /\ Ask[r].op = "apply_change"
  /\ AddChange(r)
  /\ Record(r, Version(r))
  /\ UNCHANGED <<versions, graph>>

\* RequestHostedPermissionPolicyReview
RequestReview(r) ==
  /\ Ask[r].op = "request_review"
  /\ Writable(r)
  /\ drafts' = [drafts EXCEPT ![Ask[r].draft].status = "review_requested",
                              ![Ask[r].draft].fingerprint = Fingerprint(r)]
  /\ Record(r, Version(r))
  /\ UNCHANGED <<versions, graph>>

\* Bug: the draft stays open, as in the store of the tests.
Bug_LeaveOpen(r) == UNCHANGED drafts

\* markHostedPolicyMutationDraftPromoted
MarkPromoted(r) ==
  drafts' = [drafts EXCEPT ![Ask[r].draft].status = "promoted",
                           ![Ask[r].draft].promoted = Version(r)]

\* PromoteHostedPermissionPolicyDraft
PromoteDraft(r) ==
  /\ Ask[r].op = "promote"
  /\ BaseIsActive(r) /\ VersionFits(r) /\ ReferencesHold(Ask[r].draft)
  /\ graph' = GraphAfter(Ask[r].draft)
  /\ Activate(r)
  /\ MarkPromoted(r)
  /\ Record(r, Version(r))

\* RollbackHostedPermissionPolicy: a version of its own, the graph as it is.
RollbackVersion(r) ==
  /\ Ask[r].op = "rollback"
  /\ TargetKnown(r) /\ VersionFits(r)
  /\ UNCHANGED <<graph, drafts>>
  /\ Activate(r)
  /\ Record(r, NewVersion(r))

Mutate(r) ==
  /\ pc[r] = "write"
  /\ \/ BeginDraft(r) \/ ApplyChange(r) \/ RequestReview(r)
     \/ PromoteDraft(r) \/ RollbackVersion(r)

Commit(r) ==
  /\ Mutate(r)
  /\ EndTransaction(r)
  /\ answer' = [answer EXCEPT ![r] = Answer("ok", "none",
       IF Keyed(r) THEN NewVersion(r) ELSE <<>>)]
  /\ UNCHANGED faults

NotWritable(r) ==
  /\ pc[r] = "write" /\ ~Writable(r)
  /\ Fail(r, "POLICY_STATE_CONFLICT")

StaleVersion(r) ==
  /\ pc[r] = "write" /\ ~(BaseIsActive(r) /\ TargetKnown(r))
  /\ Fail(r, "POLICY_VERSION_CONFLICT")

\* A unique index, a foreign key or a check refuses a row.
WriteRejected(r) ==
  /\ pc[r] = "write"
  /\ BaseIsActive(r) /\ TargetKnown(r) /\ Writable(r)
  /\ \/ Ask[r].op = "begin_draft" /\ ~DraftFits(r)
     \/ Ask[r].op = "apply_change" /\ ~ChangeFits(r)
     \/ Ask[r].op = "promote" /\ ~(VersionFits(r) /\ ReferencesHold(Ask[r].draft))
     \/ Ask[r].op = "rollback" /\ ~VersionFits(r)
  /\ Fail(r, "PERSISTENT_STORE_WRITE_FAILED")

InstallReplay(r) ==
  /\ pc[r] = "replay"
  /\ idem' = [idem EXCEPT ![Ask[r].key].replays = idem[Ask[r].key].replays + 1]
  /\ UNCHANGED <<versions, drafts, graph, audits, effects>>

\* The cached response, once the replay counter is committed.
Replay(r) ==
  /\ InstallReplay(r)
  /\ EndTransaction(r)
  /\ answer' = [answer EXCEPT ![r] = Answer("replayed", "none", KeyRow(r).version)]
  /\ UNCHANGED faults

-----------------------------------------------------------------------------
(* Faults, at most MaxFaults of them, and retries *)

Fault == faults < MaxFaults /\ faults' = faults + 1

\* What a failed statement is answered as, by the step it happens in.
FailureErrors(step) ==
  CASE step = "draft"   -> {"POLICY_STATE_CONFLICT"}
    [] step = "active"  -> {"POLICY_VERSION_CONFLICT"}
    [] step = "reserve" -> {"IDEMPOTENCY_STORE_READ_FAILED", "IDEMPOTENCY_STORE_WRITE_FAILED",
                            "IDEMPOTENCY_RESPONSE_REPLAY_FAILED"}
    [] step = "write"   -> {"PERSISTENT_STORE_READ_FAILED", "PERSISTENT_STORE_WRITE_FAILED",
                            "AUDIT_WRITE_FAILED", "IDEMPOTENCY_STORE_WRITE_FAILED",
                            "POLICY_VERSION_CONFLICT"}
    [] OTHER            -> {"PERSISTENT_STORE_WRITE_FAILED"}

DatabaseFailure(r) ==
  /\ Fault
  /\ pc[r] # "done"
  /\ \E error \in FailureErrors(pc[r]) :
       answer' = [answer EXCEPT ![r] = Answer("error", error, <<>>)]
  /\ EndTransaction(r)
  /\ UNCHANGED <<db, effects>>

\* COMMIT took effect but its acknowledgement did not reach the service.
AmbiguousCommit(r) ==
  /\ Fault
  /\ Mutate(r) \/ InstallReplay(r)
  /\ EndTransaction(r)
  /\ answer' = [answer EXCEPT ![r] = Answer("error", "PERSISTENT_STORE_WRITE_FAILED", <<>>)]

\* The service dies, or the caller goes away, in the middle of the handler.
Crash(r) ==
  /\ Fault
  /\ InFlight(r)
  /\ EndTransaction(r)
  /\ answer' = [answer EXCEPT ![r] = Answer("lost", "none", <<>>)]
  /\ UNCHANGED <<db, effects>>

LoseAnswer(r) ==
  /\ Fault
  /\ pc[r] = "done" /\ answer[r].kind \in {"ok", "replayed"}
  /\ answer' = [answer EXCEPT ![r] = Answer("lost", "none", <<>>)]
  /\ UNCHANGED <<db, locks, pc, snap, effects>>

WantsRetry(r) == answer[r].kind = "lost" \/ Retryable(answer[r].error)

Retry(r) ==
  /\ pc[r] = "done" /\ WantsRetry(r)
  /\ GoTo(r, "idle")
  /\ answer' = [answer EXCEPT ![r] = NoAnswer]
  /\ UNCHANGED <<db, locks, snap, effects, faults>>

Handle(r) ==
  \/ Begin(r)
  \/ LoadDraft(r)  \/ DraftUnavailable(r)
  \/ Reserve(r)    \/ ReserveStale(r)      \/ ReserveRejected(r) \/ ReserveReplay(r)
  \/ LoadActive(r) \/ ActiveUnavailable(r) \/ NotPromotable(r)
  \/ Commit(r)     \/ NotWritable(r)       \/ StaleVersion(r)    \/ WriteRejected(r)
  \/ Replay(r)

Fails(r) == DatabaseFailure(r) \/ AmbiguousCommit(r) \/ Crash(r) \/ LoseAnswer(r)

\* Every caller has an answer it will not act on: the system may rest.
Rest ==
  /\ \A r \in Requests : pc[r] = "done" /\ ~WantsRetry(r)
  /\ UNCHANGED vars

Next == (\E r \in Requests : Handle(r) \/ Fails(r) \/ Retry(r)) \/ Rest

Spec == Init /\ [][Next]_vars

\* Strong fairness of each handler: PostgreSQL queues the transactions that
\* wait for a row, so none is passed over for ever.
FairSpec == Spec /\ \A r \in Requests : SF_vars(Handle(r))

-----------------------------------------------------------------------------
(* Properties *)

TypeOK ==
  /\ versions \in Seq(VersionRows)
  /\ drafts \in [Drafts -> DraftRows]
  /\ graph \in Graphs
  /\ audits \in Seq(AuditRows)
  /\ idem \in [Keys -> KeyRows]
  /\ draftLock \in [Drafts -> Requests \cup {None}]
  /\ activeLock \in Requests \cup {None}
  /\ keyLock \in [Keys -> Requests \cup {None}]
  /\ pc \in [Requests -> Steps]
  /\ snap \in [Requests -> Snapshots]
  /\ answer \in [Requests -> Answers]
  /\ effects \in [Requests -> Nat]
  /\ faults \in 0..MaxFaults

\* The gateway resolves permissions only if exactly one version is active: at
\* every moment that is so, and it is the newest one, however promotions and
\* rollbacks race.
NewestIsActive ==
  /\ versions # <<>>
  /\ \A i \in 1..Len(versions) : versions[i].status = "active" <=> i = Len(versions)

\* No fork: each version names as its previous version the one that was active
\* until it came, so no two of them replaced the same one.
LineageIsUnbroken ==
  /\ \A i \in (Len(InitialVersions) + 1)..Len(versions) :
       versions[i].previous = versions[i - 1].version
  /\ \A i, j \in 1..Len(versions) : versions[i].version = versions[j].version => i = j

\* What the gateway decides by is what the active version was activated with:
\* drafts, changes, reviews and failed promotions never show.
GraphIsActivated == graph = versions[Len(versions)].graph

\* A draft is promoted at most once, by whatever keys, and is marked with the
\* version it became exactly if it was.
Promotions(d) == {i \in 1..Len(audits) :
  audits[i].op = "promote" /\ Ask[audits[i].request].draft = d}

PromotionsAreRecorded ==
  \A d \in Drafts :
    /\ drafts[d].status = "promoted" => Promotions(d) # {}
    /\ \A i, j \in Promotions(d) : i = j
    /\ \A i \in Promotions(d) :
         drafts[d].status = "promoted" /\ drafts[d].promoted = audits[i].version

\* A key has one effect, however often and concurrently its request is sent,
\* and its record points at it.
OneEffectPerKey ==
  \A k \in Keys :
    /\ \A i, j \in 1..Len(audits) :
         Ask[audits[i].request].key = k /\ Ask[audits[j].request].key = k => i = j
    /\ idem[k].status = "succeeded" =>
         /\ idem[k].audit \in 1..Len(audits)
         /\ Ask[audits[idem[k].audit].request].key = k
         /\ audits[idem[k].audit].version = idem[k].version

\* The version a promotion or a rollback was told of, at once or by a replay,
\* is there.
AnswersAreTrue ==
  \A r \in Requests : Keyed(r) /\ answer[r].kind \in {"ok", "replayed"} =>
    /\ idem[Ask[r].key].status = "succeeded"
    /\ idem[Ask[r].key].version = answer[r].version
    /\ \E i \in 1..Len(versions) : versions[i].version = answer[r].version

\* A review freezes the draft: what is promoted is what was reviewed.
ReviewFreezes ==
  [][\A d \in Drafts : drafts[d].status \in {"review_requested", "promoted"} =>
       /\ drafts'[d].changes = drafts[d].changes
       /\ drafts'[d].fingerprint = drafts[d].fingerprint
       /\ drafts'[d].status \in {drafts[d].status, "promoted"}]_drafts

\* Decisions refer to versions for ever: a version keeps its fingerprint and
\* its place, and never becomes active again.
VersionsAreFinal ==
  [][/\ Len(versions') >= Len(versions)
     /\ \A i \in 1..Len(versions) :
          versions'[i] \in {versions[i], Superseded(versions[i])}]_versions

\* Locks are taken in one order: no request waits for ever.
RequestsAreAnswered == \A r \in Requests : InFlight(r) ~> ~InFlight(r)

-----------------------------------------------------------------------------
(* What the documents say and the code does not do *)

\* The boundary design: the service "must reject promotion from a stale base
\* policy version". The caller's base goes before the draft's own.
StaleDraftIsRejected ==
  \A d \in Drafts : drafts[d].status = "promoted" =>
    \E i \in 1..Len(versions) :
      versions[i].version = drafts[d].promoted /\ versions[i].previous = drafts[d].base

\* The durable design: "same key and same fingerprint returns cached response".
\* A duplicate that waited for its twin is told that the draft is in conflict.
DuplicatePromotionIsReplayed ==
  [][\A r \in Requests :
       (pc[r] = "draft" /\ Keyed(r) /\ faults' = faults
          /\ answer'[r].error = "POLICY_STATE_CONFLICT")
         => ~(idem[Ask[r].key].status = "succeeded" /\ idem[Ask[r].key].intent = Intent(r))]_vars

-----------------------------------------------------------------------------
(* The promise this module keeps *)

History == INSTANCE PolicyHistory WITH
  history <- [i \in 1..Len(versions) |->
    [version |-> versions[i].version, fingerprint |-> versions[i].fingerprint,
     graph |-> versions[i].graph]],
  current <- graph,
  Start <- [i \in 1..Len(InitialVersions) |->
    [version |-> InitialVersions[i].version, fingerprint |-> InitialVersions[i].fingerprint,
     graph |-> InitialVersions[i].graph]]

\* Every committed promotion and rollback is one step of the history.
ImplementsHistory == History!HistorySpec

=============================================================================
