----------------------- MODULE RegistryMutation_proofs -----------------------
(***************************************************************************)
(* Proofs about RegistryMutation: its safety properties hold for every set *)
(* of projects, requests, keys and documents, and for every number of      *)
(* faults.                                                                 *)
(***************************************************************************)
EXTENDS RegistryMutation, SequenceTheorems, TLAPS

-----------------------------------------------------------------------------
(* Every step belongs to one of a few classes. *)

\* The transaction is given up: only the caller's answer is left of it.
Aborts(r) ==
  /\ pc[r] # "done"
  /\ EndTransaction(r)
  /\ \E a \in Answers :
       /\ a.kind \in {"error", "lost"}
       /\ answer' = [answer EXCEPT ![r] = a]
  /\ UNCHANGED <<db, committed>>

\* A mutation becomes visible, whatever the caller is told of it.
Installs(r) ==
  /\ pc[r] = "commit"
  /\ InstallMutation(r)
  /\ EndTransaction(r)
  /\ \E a \in Answers :
       /\ a.kind \in {"ok", "replayed"} =>
            a = Answer("ok", "none", Incoming[r], seen[r].rows, IsNoop(r))
       /\ a.kind = "error" => a.error = "PERSISTENT_STORE_WRITE_FAILED"
       /\ answer' = [answer EXCEPT ![r] = a]

\* The replay counter becomes visible, whatever the caller is told.
Replays(r) ==
  /\ pc[r] = "replay"
  /\ InstallReplay(r)
  /\ EndTransaction(r)
  /\ \E a \in Answers :
       /\ a.kind \in {"ok", "replayed"} =>
            a = Answer("replayed", "none", row[r].document, row[r].previous, row[r].noop)
       /\ answer' = [answer EXCEPT ![r] = a]

\* A handler moves on within its transaction.
Advances(r) ==
  Reserve(r) \/ ReserveReplay(r) \/ AcquireLock(r) \/ Validate(r) \/ Execute(r)

Class(r) ==
  \/ Begin(r)
  \/ Advances(r)
  \/ Aborts(r)
  \/ Installs(r)
  \/ Replays(r)
  \/ LoseAnswer(r)
  \/ Retry(r)

\* A failed handler's answer is an answer.
LEMMA AnswerTypes ==
  /\ NoAnswer \in Answers /\ NoAnswer.kind = "none"
  /\ Lost \in Answers /\ Lost.kind = "lost"
  /\ \A e \in ErrorTypes :
       /\ Answer("error", e, Empty, Empty, FALSE) \in Answers
       /\ Answer("error", e, Empty, Empty, FALSE).kind = "error"
       /\ Answer("error", e, Empty, Empty, FALSE).error = e
  /\ \A kind \in {"ok", "replayed"}, d, p \in Documents, n \in BOOLEAN :
       Answer(kind, "none", d, p, n) \in Answers
BY DEF NoAnswer, Lost, Answer, Answers, ErrorTypes, Documents

\* The helpers that only look at the snapshot are Booleans and documents.
LEMMA CompletedType ==
  ASSUME TypeOK, RegistryAssumption, NEW r \in Requests
  PROVE  /\ Incoming[r] \in Registries
         /\ IsNoop(r) \in BOOLEAN
         /\ seen[r].rows \in Documents
         /\ Len(revisions) \in Nat /\ Len(audits) \in Nat
         /\ Completed(r) \in IdemRows
<1>1. /\ Incoming[r] \in Registries
      /\ IsNoop(r) \in BOOLEAN
      /\ seen[r].rows \in Documents
  BY DEF TypeOK, RegistryAssumption, IsNoop, Tables
<1>2. Len(revisions) \in Nat /\ Len(audits) \in Nat
  BY DEF TypeOK
<1>3. Completed(r) \in IdemRows
  BY <1>1, <1>2 DEF Completed, IdemRows, Documents
<1> QED
  BY <1>1, <1>2, <1>3

\* Next is the classes above, and Rest.
LEMMA StepClasses ==
  ASSUME TypeOK, RegistryAssumption, NEW r \in Requests, Handle(r) \/ Fails(r) \/ Retry(r)
  PROVE  Class(r) /\ export' = export
<1> USE DEF Class
<1>0. export' = export
  BY DEF Handle, Fails, Retry
<1> SUFFICES Class(r)
  BY <1>0
<1>1. ASSUME NEW e \in ErrorTypes, NEW audited \in BOOLEAN, Fail(r, e, audited), pc[r] # "done"
      PROVE  Aborts(r)
  BY <1>1, AnswerTypes DEF Fail, Aborts
<1>2. CASE Begin(r) \/ Reserve(r) \/ ReserveReplay(r) \/ AcquireLock(r) \/ Validate(r)
             \/ Execute(r) \/ LoseAnswer(r) \/ Retry(r)
  BY <1>2 DEF Advances
<1>3. CASE ReserveStale(r) \/ ReserveRejected(r) \/ LockUnavailable(r) \/ ValidateRejects(r)
             \/ ExecuteConflict(r) \/ CommitRejected(r)
  BY <1>1, <1>3 DEF ReserveStale, ReserveRejected, LockUnavailable, ValidateRejects,
     ExecuteConflict, CommitRejected, Reserving, ErrorTypes
<1>4. CASE Commit(r)
  <2>1. Answer("ok", "none", Incoming[r], seen[r].rows, IsNoop(r)) \in Answers
    BY AnswerTypes, CompletedType DEF Documents
  <2>2. Answer("ok", "none", Incoming[r], seen[r].rows, IsNoop(r)).kind = "ok"
    BY DEF Answer
  <2> QED
    BY <1>4, <2>1, <2>2 DEF Commit, Installs
<1>5. CASE CommitReplay(r)
  <2>1. row[r] \in IdemRows
    BY DEF TypeOK
  <2>2. Answer("replayed", "none", row[r].document, row[r].previous, row[r].noop) \in Answers
    BY <2>1, AnswerTypes DEF IdemRows
  <2> QED
    BY <1>5, <2>2 DEF CommitReplay, Replays
<1>6. CASE DatabaseFailure(r)
  <2>1. PICK e \in FailureErrors(pc[r]) :
          /\ EndTransaction(r)
          /\ answer' = [answer EXCEPT ![r] = Answer("error", e, Empty, Empty, FALSE)]
    BY <1>6 DEF DatabaseFailure
  <2>2. e \in ErrorTypes /\ pc[r] # "done"
    BY <2>1 DEF FailureErrors
  <2> QED
    BY <1>6, <2>1, <2>2, AnswerTypes DEF DatabaseFailure, Aborts
<1>7. CASE AmbiguousCommit(r)
  <2> DEFINE a == Answer("error", "PERSISTENT_STORE_WRITE_FAILED", Empty, Empty, FALSE)
  <2>1. a \in Answers /\ a.kind = "error" /\ a.error = "PERSISTENT_STORE_WRITE_FAILED"
    BY AnswerTypes DEF ErrorTypes
  <2>2. /\ EndTransaction(r)
        /\ answer' = [answer EXCEPT ![r] = a]
        /\ \/ pc[r] = "commit" /\ InstallMutation(r)
           \/ pc[r] = "replay" /\ InstallReplay(r)
    BY <1>7 DEF AmbiguousCommit
  <2> HIDE DEF a
  <2> QED
    BY <2>1, <2>2 DEF Installs, Replays
<1>8. CASE Crash(r)
  BY <1>8, AnswerTypes DEF Crash, InFlight, Aborts
<1> QED
  BY <1>2, <1>3, <1>4, <1>5, <1>6, <1>7, <1>8 DEF Handle, Fails

-----------------------------------------------------------------------------
(* Type correctness *)

\* An EXCEPT at one request or key keeps the function's type.
LEMMA TypePreserved ==
  ASSUME TypeOK, RegistryAssumption, RequestAssumption, NEW r \in Requests, Class(r), faults' \in 0..MaxFaults,
         failureAudit' \in [Requests -> ErrorTypes], export' \in [Exports -> ExportStates]
  PROVE  TypeOK'
<1> USE DEF vars, db, locks, client
<1>1. ASSUME EndTransaction(r)
      PROVE  /\ lock' \in Requests \cup {None}
             /\ holder' \in [Keys -> Requests \cup {None}]
             /\ pc' \in [Requests -> Steps]
             /\ seen' \in [Requests -> Tables]
             /\ row' \in [Requests -> IdemRows]
  <2>1. NoSnapshot \in Tables /\ Absent \in IdemRows /\ "done" \in Steps
    BY DEF NoSnapshot, Tables, Absent, IdemRows, Documents, Steps
  <2> QED
    BY <1>1, <2>1 DEF EndTransaction, GoTo, TypeOK
<1>2. ASSUME \E a \in Answers : answer' = [answer EXCEPT ![r] = a]
      PROVE  answer' \in [Requests -> Answers]
  BY <1>2 DEF TypeOK
<1>3. CASE Begin(r)
  <2>1. row' \in [Requests -> IdemRows]
    <3>1. Absent \in IdemRows
      BY DEF Absent, IdemRows, Documents
    <3>2. Keyed(r) => IdempotencyKey[r] \in Keys
      BY DEF Keyed, RequestAssumption
    <3> QED
      BY <1>3, <3>1, <3>2 DEF Begin, TypeOK
  <2>2. pc' \in [Requests -> Steps]
    BY <1>3 DEF Begin, GoTo, TypeOK, Steps
  <2>3. seen' \in [Requests -> Tables]
    BY <1>3 DEF Begin, TypeOK
  <2> QED
    BY <1>3, <2>1, <2>2, <2>3 DEF Begin, TypeOK
<1>4. CASE Advances(r)
  <2>1. pc' \in [Requests -> Steps]
    <3>1. \E step \in Steps : pc' = [pc EXCEPT ![r] = step]
      BY <1>4 DEF Advances, Reserve, ReserveReplay, AcquireLock, Validate, Execute, GoTo, Steps
    <3> QED
      BY <3>1 DEF TypeOK
  <2>2. holder' \in [Keys -> Requests \cup {None}] /\ lock' \in Requests \cup {None}
    BY <1>4 DEF Advances, Reserve, ReserveReplay, AcquireLock, Validate, Execute, TypeOK
  <2>3. UNCHANGED <<db, seen, row, client, faults>>
    BY <1>4 DEF Advances, Reserve, ReserveReplay, AcquireLock, Validate, Execute
  <2> QED
    BY <2>1, <2>2, <2>3 DEF TypeOK
<1>5. CASE Aborts(r)
  BY <1>1, <1>2, <1>5 DEF Aborts, TypeOK
<1>6. CASE Installs(r)
  <2>1. /\ answer' \in [Requests -> Answers]
        /\ committed' \in [Requests -> BOOLEAN]
    BY <1>2, <1>6 DEF Installs, InstallMutation, TypeOK
  <2>2. idem' \in [Keys -> IdemRows]
    BY <1>6, CompletedType DEF Installs, InstallMutation, TypeOK
  <2>3. registry' \in Tables /\ revisions' \in Seq(RevisionRows)
    <3>1. Revision(Incoming[r], "replacement") \in RevisionRows
      BY CompletedType DEF Revision, RevisionRows
    <3>2. Len(revisions) + 1 \in Nat /\ Incoming[r] \in Documents
      BY CompletedType DEF Documents
    <3> QED
      BY <1>6, <3>1, <3>2 DEF Installs, InstallMutation, TypeOK, Tables
  <2>4. audits' \in Seq(AuditRows)
    <3>1. [request |-> r, document |-> Incoming[r], previous |-> seen[r].rows,
           noop |-> IsNoop(r)] \in AuditRows
      BY CompletedType DEF AuditRows, Documents
    <3> QED
      BY <1>6, <3>1 DEF Installs, InstallMutation, TypeOK
  <2> QED
    BY <1>1, <1>6, <2>1, <2>2, <2>3, <2>4 DEF Installs, TypeOK
<1>7. CASE Replays(r)
  <2>1. idem' \in [Keys -> IdemRows]
    <3>1. Replayed(r) \in IdemRows
      BY DEF TypeOK, IdemRows, Replayed
    <3> QED
      BY <1>7, <3>1 DEF Replays, InstallReplay, TypeOK
  <2> QED
    BY <1>1, <1>2, <1>7, <2>1 DEF Replays, InstallReplay, TypeOK
<1>8. CASE LoseAnswer(r)
  BY <1>8, AnswerTypes DEF LoseAnswer, TypeOK
<1>9. CASE Retry(r)
  <2>1. NoAnswer \in Answers /\ "idle" \in Steps /\ FALSE \in BOOLEAN
    BY AnswerTypes DEF Steps
  <2> QED
    BY <1>9, <2>1 DEF Retry, GoTo, TypeOK
<1> QED
  BY <1>3, <1>4, <1>5, <1>6, <1>7, <1>8, <1>9 DEF Class

LEMMA FrameTypes ==
  ASSUME TypeOK, RegistryAssumption, RequestAssumption,
         NEW r \in Requests, Handle(r) \/ Fails(r) \/ Retry(r)
  PROVE  faults' \in 0..MaxFaults /\ failureAudit' \in [Requests -> ErrorTypes]
<1> USE DEF client
<1>1. faults' = faults \/ (faults < MaxFaults /\ faults' = faults + 1)
  BY DEF Handle, Fails, Retry, Begin, Reserve, ReserveStale, ReserveRejected, ReserveReplay,
     AcquireLock, LockUnavailable, Validate, ValidateRejects, Execute, ExecuteConflict, Fail,
     Commit, CommitRejected, CommitReplay, DatabaseFailure, AmbiguousCommit, Crash, LoseAnswer, Fault
<1>2. failureAudit' = failureAudit \/ \E e \in ErrorTypes : failureAudit' = [failureAudit EXCEPT ![r] = e]
  BY DEF Handle, Fails, Retry, Begin, Reserve, ReserveStale, ReserveRejected, ReserveReplay,
     AcquireLock, LockUnavailable, Validate, ValidateRejects, Execute, ExecuteConflict, Fail,
     Commit, CommitRejected, CommitReplay, DatabaseFailure, AmbiguousCommit, Crash, LoseAnswer, 
     FailureErrors, ErrorTypes
<1> QED
  BY <1>1, <1>2 DEF TypeOK, RequestAssumption

-----------------------------------------------------------------------------
(* Locks and snapshots *)

LEMMA StepIsOwnPreserved ==
  ASSUME TypeOK, StepIsOwn, NEW r \in Requests, Class(r)
  PROVE  StepIsOwn'
<1> USE DEF StepIsOwn, Partition, Keyed, TypeOK, GoTo
<1>1. CASE Begin(r)
  BY <1>1 DEF Begin
<1>2. CASE Advances(r)
  BY <1>2 DEF Advances, Reserve, ReserveReplay, AcquireLock, Validate, Execute, Reserving
<1>3. CASE EndTransaction(r)
  BY <1>3 DEF EndTransaction
<1>4. CASE LoseAnswer(r)
  BY <1>4 DEF LoseAnswer
<1>5. CASE Retry(r)
  BY <1>5 DEF Retry
<1> QED
  BY <1>1, <1>2, <1>3, <1>4, <1>5 DEF Class, Aborts, Installs, Replays

LEMMA LockIsHeldPreserved ==
  ASSUME TypeOK, RequestAssumption, StepIsOwn, LockIsHeld, NEW r \in Requests, Class(r)
  PROVE  LockIsHeld'
<1>0. None \notin Requests
  BY DEF RequestAssumption
<1> USE <1>0 DEF LockIsHeld, LockedSteps, Partition, TypeOK, GoTo, locks
<1>1. CASE Begin(r)
  BY <1>1 DEF Begin
<1>2. CASE Advances(r)
  <2>1. CASE Reserve(r) \/ ReserveReplay(r)
    <3>1. lock' = lock /\ \A s \in Requests : s # r => pc'[s] = pc[s]
      BY <2>1 DEF Reserve, ReserveReplay
    <3>2. /\ pc[r] = "reserve"
          /\ IF Partition(r) THEN pc'[r] \in {"execute", "replay"} ELSE pc'[r] \in {"lock", "replay"}
      BY <2>1 DEF Reserve, ReserveReplay, Reserving
    <3>3. pc'[r] \in LockedSteps(r) <=> pc[r] \in LockedSteps(r)
      BY <3>2
    <3> QED
      BY <3>1, <3>3
  <2>2. CASE AcquireLock(r)
    BY <2>2 DEF AcquireLock
  <2>3. CASE Validate(r) \/ Execute(r)
    BY <2>3 DEF Validate, Execute, StepIsOwn
  <2> QED
    BY <1>2, <2>1, <2>2, <2>3 DEF Advances
<1>3. CASE EndTransaction(r)
  <2>1. pc'[r] = "done" /\ lock' # r
    BY <1>3 DEF EndTransaction
  <2>2. \A s \in Requests : s # r => pc'[s] = pc[s] /\ (lock' = s <=> lock = s)
    BY <1>3 DEF EndTransaction
  <2>3. \A s \in Requests : s # r => (lock' = s <=> pc'[s] \in LockedSteps(s))
    BY <2>2
  <2> QED
    BY <2>1, <2>3
<1>4. CASE LoseAnswer(r)
  BY <1>4 DEF LoseAnswer
<1>5. CASE Retry(r)
  BY <1>5 DEF Retry
<1> QED
  BY <1>1, <1>2, <1>3, <1>4, <1>5 DEF Class, Aborts, Installs, Replays

LEMMA KeyIsHeldPreserved ==
  ASSUME TypeOK, RequestAssumption, StepIsOwn, KeyIsHeld, NEW r \in Requests, Class(r)
  PROVE  KeyIsHeld'
<1> USE DEF KeyIsHeld, ReservedSteps, Partition, TypeOK, GoTo, RequestAssumption, locks
<1>1. CASE Begin(r)
  BY <1>1 DEF Begin, Keyed
<1>2. CASE Advances(r)
  <2>1. CASE Reserve(r) \/ ReserveReplay(r)
    BY <2>1 DEF Reserve, ReserveReplay, Reserving, Keyed, StepIsOwn
  <2>2. CASE AcquireLock(r)
    BY <2>2 DEF AcquireLock
  <2>3. CASE Validate(r) \/ Execute(r)
    BY <2>3 DEF Validate, Execute, Keyed
  <2> QED
    BY <1>2, <2>1, <2>2, <2>3 DEF Advances
<1>3. CASE EndTransaction(r)
  BY <1>3 DEF EndTransaction
<1>4. CASE LoseAnswer(r)
  BY <1>4 DEF LoseAnswer
<1>5. CASE Retry(r)
  BY <1>5 DEF Retry
<1> QED
  BY <1>1, <1>2, <1>3, <1>4, <1>5 DEF Class, Aborts, Installs, Replays

\* Only the holder of the lock commits a mutation, and only the holder of a
\* key writes its row.
LEMMA CommitsExclude ==
  ASSUME RequestAssumption, TypeOK, LockIsHeld, KeyIsHeld, NEW r \in Requests, NEW s \in Requests
  PROVE  /\ pc[r] = "commit" /\ pc[s] = "commit" => r = s
         /\ Keyed(r) /\ IdempotencyKey[r] = IdempotencyKey[s]
              /\ pc[r] \in ReservedSteps(r) /\ pc[s] \in ReservedSteps(s) => r = s
<1>1. pc[r] = "commit" => lock = r
  BY DEF LockIsHeld, LockedSteps
<1>2. pc[s] = "commit" => lock = s
  BY DEF LockIsHeld, LockedSteps
<1>3. Keyed(r) => IdempotencyKey[r] \in Keys
  BY DEF Keyed, RequestAssumption
<1> QED
  BY <1>1, <1>2, <1>3 DEF KeyIsHeld

\* What committing changes in the database, key by key.
LEMMA InstallsEffect ==
  ASSUME TypeOK, RequestAssumption, NEW r \in Requests, Installs(r) \/ Replays(r), NEW k \in Keys
  PROVE  /\ IdempotencyKey[r] # k => idem'[k] = idem[k]
         /\ Installs(r) /\ IdempotencyKey[r] = k => idem'[k] = Completed(r)
         /\ Replays(r) /\ IdempotencyKey[r] = k => idem'[k] = Replayed(r)
BY DEF Installs, Replays, InstallMutation, InstallReplay, TypeOK, RequestAssumption, Keyed

LEMMA ReservationIsCurrentPreserved ==
  ASSUME TypeOK, RequestAssumption, StepIsOwn, LockIsHeld, KeyIsHeld, ReservationIsCurrent,
         NEW r \in Requests, Class(r)
  PROVE  ReservationIsCurrent'
<1> USE DEF ReservationIsCurrent, KeyInUse, CanReplay, GoTo, db, locks
<1>1. CASE Begin(r)
  BY <1>1 DEF Begin, ReservedSteps, TypeOK, Keyed, Partition
<1>2. CASE Advances(r)
  <2>1. CASE Reserve(r) \/ ReserveReplay(r)
    BY <2>1 DEF Reserve, ReserveReplay, Reserving, RowInSnapshot, ReservedSteps, TypeOK, Keyed, Partition
  <2>2. CASE AcquireLock(r)
    BY <2>2 DEF AcquireLock, ReservedSteps, TypeOK, Keyed, Partition
  <2>3. CASE Validate(r) \/ Execute(r)
    BY <2>3 DEF Validate, Execute, StepIsOwn, ReservedSteps, TypeOK, Keyed, Partition
  <2> QED
    BY <1>2, <2>1, <2>2, <2>3 DEF Advances
<1>3. CASE Aborts(r)
  BY <1>3 DEF Aborts, EndTransaction, ReservedSteps, TypeOK, Keyed, Partition
<1>4. CASE Installs(r) \/ Replays(r)
  <2> SUFFICES ASSUME NEW s \in Requests
               PROVE  /\ Keyed(s) /\ pc'[s] \in ReservedSteps(s) => idem'[IdempotencyKey[s]] = row'[s]
                      /\ Keyed(s) /\ pc'[s] \in ReservedSteps(s) \ {"replay"} => ~KeyInUse(s)'
                      /\ pc'[s] = "replay" => KeyInUse(s)' /\ CanReplay(s)'
    BY DEF ReservedSteps, Keyed, Partition
  <2>1. /\ pc'[r] = "done"
        /\ s # r => pc'[s] = pc[s] /\ row'[s] = row[s]
    BY <1>4 DEF Installs, Replays, EndTransaction, TypeOK
  <2>2. pc[r] \in ReservedSteps(r)
    BY <1>4 DEF Installs, Replays, ReservedSteps
  <2>3. Keyed(s) /\ s # r /\ pc[s] \in ReservedSteps(s) => IdempotencyKey[r] # IdempotencyKey[s]
    BY <2>2, CommitsExclude DEF Keyed
  <2>4. Keyed(s) => IdempotencyKey[s] \in Keys
    BY DEF Keyed, RequestAssumption
  <2>5. Keyed(s) /\ s # r /\ pc[s] \in ReservedSteps(s) => idem'[IdempotencyKey[s]] = idem[IdempotencyKey[s]]
    BY <1>4, <2>3, <2>4, InstallsEffect
  <2>6. "done" \notin ReservedSteps(r)
    BY DEF ReservedSteps
  <2> QED
    BY <2>1, <2>5, <2>6
<1>5. CASE LoseAnswer(r)
  BY <1>5 DEF LoseAnswer, ReservedSteps, TypeOK, Keyed, Partition
<1>6. CASE Retry(r)
  BY <1>6 DEF Retry, ReservedSteps, TypeOK, Keyed, Partition
<1> QED
  BY <1>1, <1>2, <1>3, <1>4, <1>5, <1>6 DEF Class

LEMMA RewriteIsCurrentPreserved ==
  ASSUME TypeOK, RequestAssumption, LockIsHeld, KeyIsHeld, RewriteIsCurrent, NEW r \in Requests, Class(r)
  PROVE  RewriteIsCurrent'
<1> USE DEF RewriteIsCurrent, IsNoop, RewriteConflict, GoTo, db, locks
<1>1. CASE Begin(r)
  BY <1>1 DEF Begin, TypeOK
<1>2. CASE Advances(r)
  <2>1. CASE Execute(r)
    <3>1. ~IsNoop(r) => ~RewriteConflict(r)
      BY <2>1 DEF Execute
    <3>2. \A s \in Requests : s # r => pc'[s] = pc[s]
      BY <2>1 DEF Execute, TypeOK
    <3> QED
      BY <2>1, <3>1, <3>2 DEF Execute
  <2>2. CASE Reserve(r) \/ ReserveReplay(r) \/ AcquireLock(r) \/ Validate(r)
    BY <2>2 DEF Reserve, ReserveReplay, AcquireLock, Validate, TypeOK
  <2> QED
    BY <1>2, <2>1, <2>2 DEF Advances
<1>3. CASE Aborts(r) \/ Replays(r)
  <2>1. \A s \in Requests : pc'[s] = "commit" => pc[s] = "commit" /\ seen'[s] = seen[s]
    BY <1>3 DEF Aborts, Replays, EndTransaction, TypeOK
  <2>2. registry' = registry
    BY <1>3 DEF Aborts, Replays, InstallReplay
  <2> QED
    BY <2>1, <2>2
<1>4. CASE Installs(r)
  <2>1. \A s \in Requests : pc'[s] # "commit"
    <3> SUFFICES ASSUME NEW s \in Requests, pc'[s] = "commit"
                 PROVE  FALSE
      OBVIOUS
    <3>1. s # r /\ pc[s] = "commit" /\ pc[r] = "commit"
      BY <1>4 DEF Installs, EndTransaction, TypeOK
    <3> QED
      BY <3>1, CommitsExclude
  <2> QED
    BY <2>1
<1>5. CASE LoseAnswer(r) \/ Retry(r)
  BY <1>5 DEF LoseAnswer, Retry, TypeOK
<1> QED
  BY <1>1, <1>2, <1>3, <1>4, <1>5 DEF Class

LEMMA PartitionIsValidPreserved ==
  ASSUME TypeOK, StepIsOwn, PartitionIsValid, NEW r \in Requests, Class(r)
  PROVE  PartitionIsValid'
<1> USE DEF PartitionIsValid, PartitionAllowed, LockedSteps, Partition, GoTo, db, locks
<1>1. CASE Begin(r)
  BY <1>1 DEF Begin, TypeOK
<1>2. CASE Advances(r)
  BY <1>2 DEF Advances, Reserve, ReserveReplay, Reserving, AcquireLock, Validate, Execute, TypeOK
<1>3. CASE EndTransaction(r)
  BY <1>3 DEF EndTransaction, TypeOK
<1>4. CASE LoseAnswer(r) \/ Retry(r)
  BY <1>4 DEF LoseAnswer, Retry, TypeOK
<1> QED
  BY <1>1, <1>2, <1>3, <1>4 DEF Class, Aborts, Installs, Replays

-----------------------------------------------------------------------------
(* Evidence: revisions, audit events and idempotency rows *)

LEMMA DatabaseSteps ==
  ASSUME NEW r \in Requests, Class(r)
  PROVE  UNCHANGED db \/ Installs(r) \/ Replays(r)
BY DEF Class, Begin, Advances, Reserve, ReserveReplay, AcquireLock, Validate, Execute,
   Aborts, LoseAnswer, Retry, db

\* A replay leaves every key's outcome alone.
LEMMA ReplayKeepsOutcomes ==
  ASSUME TypeOK, RequestAssumption, StepIsOwn, ReservationIsCurrent,
         NEW r \in Requests, Replays(r), NEW k \in Keys
  PROVE  /\ idem'[k].status = idem[k].status
         /\ idem'[k].document = idem[k].document
         /\ idem'[k].previous = idem[k].previous
         /\ idem'[k].noop = idem[k].noop
         /\ idem'[k].revision = idem[k].revision
         /\ idem'[k].audit = idem[k].audit
         /\ idem'[k].replays >= idem[k].replays
<1>1. Keyed(r) /\ idem[IdempotencyKey[r]] = row[r]
  BY DEF Replays, StepIsOwn, ReservationIsCurrent, ReservedSteps
<1>2. CASE IdempotencyKey[r] = k
  <2>1. idem'[k] = Replayed(r) /\ idem[k] = row[r]
    BY <1>1, <1>2, InstallsEffect
  <2>2. row[r].replays \in Nat
    BY DEF TypeOK, IdemRows
  <2> QED
    BY <2>1, <2>2 DEF Replayed
<1>3. CASE IdempotencyKey[r] # k
  <2>1. idem'[k] = idem[k]
    BY <1>3, InstallsEffect
  <2>2. idem[k].replays \in Nat
    BY DEF TypeOK, IdemRows
  <2> QED
    BY <2>1, <2>2
<1> QED
  BY <1>2, <1>3

\* A commit finds its key free, and replaces the current registry.
LEMMA InstallsIsFirst ==
  ASSUME TypeOK, ReservationIsCurrent, RewriteIsCurrent, SnapshotIsPast, VersionIsRevision,
         NEW r \in Requests, Installs(r)
  PROVE  /\ Keyed(r) => idem[IdempotencyKey[r]].status = "absent"
         /\ ~IsNoop(r) => seen[r].rows = registry.rows
<1>1. pc[r] = "commit" /\ "commit" \in ReservedSteps(r) \ {"replay"}
  BY DEF Installs, ReservedSteps
<1>2. Keyed(r) => idem[IdempotencyKey[r]].status = "absent"
  BY <1>1 DEF ReservationIsCurrent, KeyInUse
<1>3. ~IsNoop(r) => seen[r].rows = registry.rows
  BY <1>1 DEF RewriteIsCurrent, RewriteConflict, SnapshotIsPast, InFlight, VersionIsRevision
<1> QED
  BY <1>2, <1>3

\* The sequences of evidence only grow, by one at a time.
LEMMA InstallsAppends ==
  ASSUME TypeOK, RegistryAssumption, NEW r \in Requests, Installs(r)
  PROVE  /\ Len(audits) \in Nat /\ Len(audits') = Len(audits) + 1
         /\ \A i \in 1..Len(audits) : audits'[i] = audits[i]
         /\ audits'[Len(audits) + 1].request = r
         /\ audits'[Len(audits) + 1].document = Incoming[r]
         /\ audits'[Len(audits) + 1].noop = IsNoop(r)
         /\ Len(revisions) \in Nat
         /\ IsNoop(r) => revisions' = revisions /\ registry' = registry
         /\ ~IsNoop(r) => /\ Len(revisions') = Len(revisions) + 1
                          /\ \A i \in 1..Len(revisions) : revisions'[i] = revisions[i]
                          /\ revisions'[Len(revisions) + 1] = Revision(Incoming[r], "replacement")
                          /\ registry'.rows = Incoming[r]
                          /\ registry'.version = Len(revisions) + 1
<1> DEFINE event == [request |-> r, document |-> Incoming[r],
                     previous |-> seen[r].rows, noop |-> IsNoop(r)]
<1>1. event \in AuditRows /\ Revision(Incoming[r], "replacement") \in RevisionRows
  BY CompletedType DEF AuditRows, Documents, Revision, RevisionRows
<1>2. audits \in Seq(AuditRows) /\ revisions \in Seq(RevisionRows)
  BY DEF TypeOK
<1>3. audits' = Append(audits, event)
  BY DEF Installs, InstallMutation
<1>4. event.request = r /\ event.document = Incoming[r] /\ event.noop = IsNoop(r)
  OBVIOUS
<1> HIDE DEF event
<1>5. /\ Len(audits) \in Nat /\ Len(audits') = Len(audits) + 1
      /\ \A i \in 1..Len(audits) : audits'[i] = audits[i]
      /\ audits'[Len(audits) + 1] = event
  BY <1>1, <1>2, <1>3
<1>6. /\ Len(revisions) \in Nat
      /\ IsNoop(r) => revisions' = revisions /\ registry' = registry
      /\ ~IsNoop(r) => /\ revisions' = Append(revisions, Revision(Incoming[r], "replacement"))
                       /\ registry'.rows = Incoming[r]
                       /\ registry'.version = Len(revisions) + 1
  BY <1>2 DEF Installs, InstallMutation
<1>7. ~IsNoop(r) => /\ Len(revisions') = Len(revisions) + 1
                    /\ \A i \in 1..Len(revisions) : revisions'[i] = revisions[i]
                    /\ revisions'[Len(revisions) + 1] = Revision(Incoming[r], "replacement")
  BY <1>1, <1>2, <1>6
<1> QED
  BY <1>4, <1>5, <1>6, <1>7

\* The key of an audited request is a key.
LEMMA AuditedKey ==
  ASSUME TypeOK, RequestAssumption, NEW i \in 1..Len(audits), Keyed(audits[i].request)
  PROVE  IdempotencyKey[audits[i].request] \in Keys
<1>1. audits[i] \in AuditRows
  BY DEF TypeOK
<1>2. audits[i].request \in Requests
  BY <1>1 DEF AuditRows
<1> QED
  BY <1>2 DEF RequestAssumption, Keyed

LEMMA EvidenceIsLinkedPreserved ==
  ASSUME TypeOK, RegistryAssumption, RequestAssumption, StepIsOwn, ReservationIsCurrent,
         RewriteIsCurrent, SnapshotIsPast, EvidenceIsLinked, VersionIsRevision,
         NEW r \in Requests, Class(r)
  PROVE  EvidenceIsLinked'
<1> USE DEF EvidenceIsLinked, Keyed
<1>1. CASE UNCHANGED db
  BY <1>1 DEF db
<1>2. CASE Replays(r)
  <2>1. UNCHANGED <<registry, revisions, audits>>
    BY <1>2 DEF Replays, InstallReplay
  <2>2. \A i \in 1..Len(audits) : Keyed(audits[i].request) => IdempotencyKey[audits[i].request] \in Keys
    BY AuditedKey
  <2> QED
    BY <1>2, <2>1, <2>2, ReplayKeepsOutcomes
<1>3. CASE Installs(r)
  <2>2. \A k \in Keys : /\ idem'[k].status \in {"absent", "succeeded"}
                        /\ idem'[k].status = "absent" => idem'[k].revision = 0
    <3> TAKE k \in Keys
    <3>1. CASE IdempotencyKey[r] = k
      <4>1. idem'[k] = Completed(r)
        BY <1>3, <3>1, InstallsEffect
      <4>2. Completed(r).status = "succeeded"
        BY DEF Completed
      <4> QED
        BY <4>1, <4>2
    <3>2. CASE IdempotencyKey[r] # k
      BY <1>3, <3>2, InstallsEffect
    <3> QED
      BY <3>1, <3>2
  <2>3. ASSUME NEW i \in 1..Len(audits'), Keyed(audits'[i].request)
        PROVE  /\ idem'[IdempotencyKey[audits'[i].request]].status = "succeeded"
               /\ idem'[IdempotencyKey[audits'[i].request]].audit = i
    <3>1. CASE i = Len(audits) + 1
      <4>1. audits'[i].request = r
        BY <1>3, <3>1, InstallsAppends
      <4>2. IdempotencyKey[r] \in Keys
        BY <2>3, <4>1 DEF RequestAssumption
      <4>3. idem'[IdempotencyKey[r]] = Completed(r)
        BY <1>3, <4>2, InstallsEffect
      <4> QED
        BY <3>1, <4>1, <4>3 DEF Completed
    <3>2. CASE i # Len(audits) + 1
      <4>1. i \in 1..Len(audits) /\ audits'[i] = audits[i]
        BY <1>3, <3>2, InstallsAppends
      <4>2. /\ idem[IdempotencyKey[audits[i].request]].status = "succeeded"
            /\ idem[IdempotencyKey[audits[i].request]].audit = i
        BY <2>3, <4>1
      <4>3. IdempotencyKey[audits[i].request] \in Keys
        BY <2>3, <4>1, AuditedKey
      <4>4. IdempotencyKey[audits[i].request] # IdempotencyKey[r]
        BY <1>3, <4>2, <4>3, InstallsIsFirst DEF RequestAssumption
      <4>5. idem'[IdempotencyKey[audits[i].request]] = idem[IdempotencyKey[audits[i].request]]
        BY <1>3, <4>3, <4>4, InstallsEffect
      <4> QED
        BY <4>1, <4>2, <4>5
    <3> QED
      BY <3>1, <3>2
  <2> QED
    BY <2>2, <2>3
<1> QED
  BY <1>1, <1>2, <1>3, DatabaseSteps

\* Revisions, once written, stay as they are.
LEMMA RevisionsStay ==
  ASSUME revisions \in Seq(RevisionRows),
         \/ revisions' = revisions
         \/ \E d \in RevisionRows : revisions' = Append(revisions, d)
  PROVE  /\ Len(revisions) \in Nat /\ Len(revisions') \in Nat
         /\ Len(revisions) <= Len(revisions') /\ Len(revisions') <= Len(revisions) + 1
         /\ \A i \in 1..Len(revisions) : revisions'[i] = revisions[i]
         /\ \A i \in 0..Len(revisions) : RevisionDocument(i)' = RevisionDocument(i)
         /\ \A i \in 0..Len(revisions) : Replaced(i)' <=> Replaced(i)
<1>1. /\ Len(revisions) \in Nat /\ Len(revisions') \in Nat
      /\ Len(revisions) <= Len(revisions') /\ Len(revisions') <= Len(revisions) + 1
      /\ \A i \in 1..Len(revisions) : revisions'[i] = revisions[i]
  OBVIOUS
<1>2. \A i \in 0..Len(revisions) : i = 0 \/ i \in 1..Len(revisions)
  BY <1>1
<1>3. \A i \in 0..Len(revisions) : RevisionDocument(i)' = RevisionDocument(i)
  BY <1>1, <1>2 DEF RevisionDocument
<1>4. \A i \in 0..Len(revisions) : Replaced(i)' <=> Replaced(i)
  BY <1>1, <1>2 DEF Replaced
<1> QED
  BY <1>1, <1>3, <1>4

\* A request appends at most one revision, its own.
LEMMA RevisionsGrow ==
  ASSUME TypeOK, RegistryAssumption, NEW r \in Requests, Class(r)
  PROVE  /\ Len(revisions) \in Nat /\ Len(revisions') \in Nat
         /\ Len(revisions) <= Len(revisions') /\ Len(revisions') <= Len(revisions) + 1
         /\ \A i \in 1..Len(revisions) : revisions'[i] = revisions[i]
         /\ \A i \in 0..Len(revisions) : RevisionDocument(i)' = RevisionDocument(i)
         /\ \A i \in 0..Len(revisions) : Replaced(i)' <=> Replaced(i)
         /\ revisions' = revisions \/ revisions'[Len(revisions) + 1].by = "replacement"
<1>1. \/ revisions' = revisions
      \/ revisions' = Append(revisions, Revision(Incoming[r], "replacement"))
  BY DatabaseSteps DEF db, Replays, InstallReplay, Installs, InstallMutation
<1>2. revisions \in Seq(RevisionRows) /\ Revision(Incoming[r], "replacement") \in RevisionRows
  BY CompletedType DEF TypeOK, Revision, RevisionRows
<1>3. revisions' = revisions \/ revisions'[Len(revisions) + 1] = Revision(Incoming[r], "replacement")
  BY <1>1, <1>2
<1>4. revisions' = revisions \/ revisions'[Len(revisions) + 1].by = "replacement"
  BY <1>3 DEF Revision
<1> QED
  BY <1>1, <1>2, <1>4, RevisionsStay

\* The newest replacement before revision n stays it, whatever is appended.
LEMMA LastReplacedStays ==
  ASSUME Len(revisions) \in Nat, NEW n \in 1..Len(revisions) + 1, NEW i \in 0 .. n - 1,
         \A j \in 0..Len(revisions) : Replaced(j)' <=> Replaced(j)
  PROVE  LastReplaced(i, n)' <=> LastReplaced(i, n)
<1>1. /\ i \in 0..Len(revisions)
      /\ \A j \in i + 1 .. n - 1 : j \in 0..Len(revisions)
  OBVIOUS
<1> QED
  BY <1>1 DEF LastReplaced

\* The document of a revision stays the document of that revision.
LEMMA PastStays ==
  ASSUME Len(revisions) \in Nat, Len(revisions') \in Nat, Len(revisions) <= Len(revisions'),
         \A i \in 0..Len(revisions) : RevisionDocument(i)' = RevisionDocument(i),
         NEW n, n \in 0..Len(revisions)
  PROVE  n \in 0..Len(revisions') /\ RevisionDocument(n)' = RevisionDocument(n)
OBVIOUS

LEMMA VersionIsRevisionPreserved ==
  ASSUME TypeOK, RegistryAssumption, VersionIsRevision, NEW r \in Requests, Class(r)
  PROVE  VersionIsRevision'
<1>1. CASE registry' = registry /\ revisions' = revisions
  BY <1>1 DEF VersionIsRevision, LastReplaced, Replaced, RevisionDocument
<1>2. CASE Installs(r) /\ ~IsNoop(r)
  <2>1. /\ Len(revisions) \in Nat /\ Len(revisions') = Len(revisions) + 1
        /\ revisions'[Len(revisions) + 1] = Revision(Incoming[r], "replacement")
        /\ registry'.rows = Incoming[r]
        /\ registry'.version = Len(revisions) + 1
    BY <1>2, InstallsAppends
  <2>2. registry'.version \in 0..Len(revisions')
    BY <2>1
  <2>3. LastReplaced(registry.version, Len(revisions) + 1)'
    <3>1. Replaced(registry.version)'
      BY <2>1 DEF Replaced, Revision
    <3>2. registry'.version + 1 .. (Len(revisions') + 1) - 1 = {}
      BY <2>1
    <3> QED
      BY <3>1, <3>2 DEF LastReplaced
  <2>4. RevisionDocument(registry.version)' = registry'.rows
    BY <2>1 DEF RevisionDocument, Revision
  <2> QED
    BY <2>2, <2>3, <2>4 DEF VersionIsRevision
<1>3. CASE Installs(r) /\ IsNoop(r)
  BY <1>1, <1>3, InstallsAppends
<1>4. CASE UNCHANGED db \/ Replays(r)
  BY <1>1, <1>4 DEF db, Replays, InstallReplay
<1> QED
  BY <1>2, <1>3, <1>4, DatabaseSteps

\* What the tables hold is the document of the newest replacement.
LEMMA VersionIsEvidence ==
  ASSUME VersionIsRevision
  PROVE  \E i \in 0..Len(revisions) :
           LastReplaced(i, Len(revisions) + 1) /\ RevisionDocument(i) = registry.rows
BY DEF VersionIsRevision

LEMMA RegistryMatchesEvidencePreserved ==
  ASSUME TypeOK, RegistryAssumption, VersionIsRevision, RegistryMatchesEvidence,
         NEW r \in Requests, Class(r)
  PROVE  RegistryMatchesEvidence'
<1>1. VersionIsRevision'
  BY VersionIsRevisionPreserved
<1>2. (\E i \in 0..Len(revisions) :
         LastReplaced(i, Len(revisions) + 1) /\ RevisionDocument(i) = registry.rows)'
  BY <1>1 DEF VersionIsRevision
<1>3. ASSUME NEW j \in 1..Len(revisions'), ~Replaced(j)'
      PROVE  \E i \in 0 .. j - 1 : Replaced(i)' /\ RevisionDocument(i)' = RevisionDocument(j)'
  <2>1. j \in 1..Len(revisions)
    <3>1. j \in 1..Len(revisions) \/ (j = Len(revisions) + 1 /\ revisions' # revisions)
      BY RevisionsGrow
    <3>2. revisions'[j].by # "replacement"
      BY <1>3 DEF Replaced
    <3> QED
      BY <3>1, <3>2, RevisionsGrow
  <2>2. ~Replaced(j) /\ RevisionDocument(j)' = RevisionDocument(j)
    BY <1>3, <2>1, RevisionsGrow
  <2>3. PICK i \in 0 .. j - 1 : Replaced(i) /\ RevisionDocument(i) = RevisionDocument(j)
    BY <2>1, <2>2 DEF RegistryMatchesEvidence
  <2>4. i \in 0..Len(revisions)
    BY <2>1, RevisionsGrow
  <2>5. Replaced(i)' /\ RevisionDocument(i)' = RevisionDocument(i)
    BY <2>3, <2>4, RevisionsGrow
  <2> QED
    BY <2>2, <2>3, <2>5
<1> QED
  BY <1>2, <1>3 DEF RegistryMatchesEvidence

\* What an export has loaded stays the document of a replacement.
LEMMA LoadIsPastPreserved ==
  ASSUME TypeOK, RegistryAssumption, LoadIsPast, NEW r \in Requests, Class(r), export' = export
  PROVE  LoadIsPast'
<1> SUFFICES ASSUME NEW e \in Exports, export[e].step = "loaded"
             PROVE  /\ export[e].document \in Registries
                    /\ \E i \in 0..Len(revisions') :
                         Replaced(i)' /\ RevisionDocument(i)' = export[e].document
  BY DEF LoadIsPast
<1>1. /\ export[e].document \in Registries
      /\ \E i \in 0..Len(revisions) : Replaced(i) /\ RevisionDocument(i) = export[e].document
  BY DEF LoadIsPast
<1> QED
  BY <1>1, RevisionsGrow

LEMMA SnapshotIsPastPreserved ==
  ASSUME RegistryAssumption, TypeOK, VersionIsRevision, SnapshotIsPast,
         NEW r \in Requests, Class(r)
  PROVE  SnapshotIsPast'
<1> SUFFICES ASSUME NEW s \in Requests, InFlight(s)'
             PROVE  /\ seen'[s].version \in 0..Len(revisions')
                    /\ seen'[s].rows = RevisionDocument(seen[s].version)'
  BY DEF SnapshotIsPast, InFlight
<1>1. CASE InFlight(s) /\ seen'[s] = seen[s]
  <2>1. seen[s].version \in 0..Len(revisions) /\ seen[s].rows = RevisionDocument(seen[s].version)
    BY <1>1 DEF SnapshotIsPast
  <2>2. PICK n \in 0..Len(revisions) : n = seen[s].version
    BY <2>1
  <2>3. RevisionDocument(n)' = RevisionDocument(n)
    BY RevisionsGrow
  <2>4. RevisionDocument(seen[s].version)' = RevisionDocument(n)'
    BY <1>1, <2>2 DEF RevisionDocument
  <2> QED
    BY <1>1, <2>1, <2>2, <2>3, <2>4, RevisionsGrow
<1>2. CASE s = r /\ Begin(r)
  <2>1. seen'[r] = registry /\ revisions' = revisions
    BY <1>2 DEF Begin, TypeOK, db
  <2>2. registry.version \in 0..Len(revisions) /\ RevisionDocument(registry.version) = registry.rows
    BY DEF VersionIsRevision
  <2>3. RevisionDocument(seen[r].version)' = RevisionDocument(registry.version)
    BY <2>1 DEF RevisionDocument
  <2> QED
    BY <1>2, <2>1, <2>2, <2>3
<1>3. CASE s # r \/ Advances(r)
  <2>1. pc'[s] # "idle" /\ pc'[s] # "done"
    BY DEF InFlight
  <2>2. CASE Advances(r)
    BY <1>1, <2>1, <2>2 DEF Advances, Reserve, ReserveReplay, Reserving, AcquireLock, Validate, Execute,
       InFlight, GoTo, TypeOK
  <2>3. CASE s # r /\ EndTransaction(r)
    BY <1>1, <2>1, <2>3 DEF EndTransaction, InFlight, GoTo, TypeOK
  <2>4. CASE s # r /\ (Begin(r) \/ LoseAnswer(r) \/ Retry(r))
    BY <1>1, <2>1, <2>4 DEF Begin, LoseAnswer, Retry, InFlight, GoTo, TypeOK
  <2> QED
    BY <1>3, <2>2, <2>3, <2>4 DEF Class, Aborts, Installs, Replays
<1>4. CASE s = r /\ (EndTransaction(r) \/ LoseAnswer(r) \/ Retry(r))
  <2>1. pc'[r] \in {"done", "idle"}
    BY <1>4 DEF EndTransaction, LoseAnswer, Retry, GoTo, TypeOK
  <2> QED
    BY <1>4, <2>1 DEF InFlight
<1> QED
  BY <1>2, <1>3, <1>4 DEF Class, Aborts, Installs, Replays

LEMMA NoLostUpdatePreserved ==
  ASSUME TypeOK, RegistryAssumption, RequestAssumption, StepIsOwn, ReservationIsCurrent,
         RewriteIsCurrent, SnapshotIsPast, VersionIsRevision, NoLostUpdate,
         NEW r \in Requests, Class(r)
  PROVE  NoLostUpdate'
<1> SUFFICES ASSUME NEW k \in Keys, idem'[k].revision # 0
             PROVE  /\ idem'[k].revision \in 1..Len(revisions')
                    /\ revisions'[idem'[k].revision] = Revision(idem'[k].document, "replacement")
                    /\ \E i \in 0 .. idem'[k].revision - 1 :
                         LastReplaced(i, idem[k].revision)' /\ RevisionDocument(i)' = idem'[k].previous
  BY DEF NoLostUpdate, Revision
<1>1. CASE /\ idem'[k].revision = idem[k].revision
           /\ idem'[k].document = idem[k].document
           /\ idem'[k].previous = idem[k].previous
  <2>1. PICK n \in 1..Len(revisions) : n = idem[k].revision
    BY <1>1 DEF NoLostUpdate
  <2>2. /\ revisions[n] = Revision(idem[k].document, "replacement")
        /\ \E i \in 0 .. n - 1 : LastReplaced(i, n) /\ RevisionDocument(i) = idem[k].previous
    BY <1>1, <2>1 DEF NoLostUpdate
  <2>3. PICK i \in 0 .. n - 1 : LastReplaced(i, n) /\ RevisionDocument(i) = idem[k].previous
    BY <2>2
  <2>4. /\ i \in 0..Len(revisions) /\ n \in 1..Len(revisions) + 1
        /\ n \in 1..Len(revisions')
    BY <2>1, RevisionsGrow
  <2>5. LastReplaced(i, n)' /\ RevisionDocument(i)' = RevisionDocument(i)
    BY <2>3, <2>4, RevisionsGrow, LastReplacedStays
  <2>6. LastReplaced(i, idem[k].revision)'
    BY <1>1, <2>1, <2>5 DEF LastReplaced
  <2>7. revisions'[n] = revisions[n]
    BY <2>1, RevisionsGrow
  <2> QED
    BY <1>1, <2>1, <2>2, <2>3, <2>4, <2>5, <2>6, <2>7
<1>2. CASE Installs(r) /\ IdempotencyKey[r] = k
  <2>1. idem'[k] = Completed(r)
    BY <1>2, InstallsEffect
  <2>2. ~IsNoop(r)
    BY <2>1 DEF Completed
  <2>3. /\ Completed(r).revision = Len(revisions) + 1
        /\ Completed(r).document = Incoming[r]
        /\ Completed(r).previous = seen[r].rows
    BY <2>2 DEF Completed
  <2>4. PICK n \in 0..Len(revisions) :
          LastReplaced(n, Len(revisions) + 1) /\ RevisionDocument(n) = seen[r].rows
    BY <1>2, <2>2, InstallsIsFirst DEF VersionIsRevision
  <2>5. /\ Len(revisions') = Len(revisions) + 1 /\ Len(revisions) \in Nat
        /\ revisions'[Len(revisions) + 1] = Revision(Incoming[r], "replacement")
    BY <1>2, <2>2, InstallsAppends
  <2>7. LastReplaced(n, idem[k].revision)' /\ RevisionDocument(n)' = RevisionDocument(n)
    <3>1. PICK m \in 1..Len(revisions) + 1 : m = Len(revisions) + 1
      BY <2>5
    <3>2. n \in 0 .. m - 1 /\ LastReplaced(n, m)
      BY <2>4, <2>5, <3>1
    <3>3. LastReplaced(n, m)' /\ RevisionDocument(n)' = RevisionDocument(n)
      BY <3>2, RevisionsGrow, LastReplacedStays
    <3>4. idem'[k].revision = m
      BY <2>1, <2>3, <3>1
    <3> QED
      BY <3>3, <3>4 DEF LastReplaced
  <2> QED
    BY <2>1, <2>3, <2>4, <2>5, <2>7
<1> QED
  <2>1. CASE UNCHANGED db
    BY <1>1, <2>1 DEF db
  <2>2. CASE Replays(r)
    BY <1>1, <2>2, ReplayKeepsOutcomes
  <2>3. CASE Installs(r) /\ IdempotencyKey[r] # k
    BY <1>1, <2>3, InstallsEffect
  <2> QED
    BY <1>2, <2>1, <2>2, <2>3, DatabaseSteps

\* A step keeps a key's outcome, or is the one commit that settles it.
LEMMA KeptOrInstalled ==
  ASSUME TypeOK, RequestAssumption, StepIsOwn, ReservationIsCurrent,
         NEW r \in Requests, Class(r), NEW k \in Keys
  PROVE  \/ /\ idem'[k].status = idem[k].status
            /\ idem'[k].document = idem[k].document
            /\ idem'[k].previous = idem[k].previous
            /\ idem'[k].noop = idem[k].noop
            /\ idem'[k].revision = idem[k].revision
            /\ idem'[k].audit = idem[k].audit
            /\ idem'[k].replays >= idem[k].replays
         \/ /\ Installs(r) /\ IdempotencyKey[r] = k
            /\ idem'[k] = Completed(r)
<1>1. idem[k].replays \in Nat
  BY DEF TypeOK, IdemRows
<1>2. CASE UNCHANGED db
  BY <1>1, <1>2 DEF db
<1>3. CASE Replays(r)
  BY <1>3, ReplayKeepsOutcomes
<1>4. CASE Installs(r)
  BY <1>1, <1>4, InstallsEffect
<1> QED
  BY <1>2, <1>3, <1>4, DatabaseSteps

\* Audit events, once written, stay.
LEMMA AuditsGrow ==
  ASSUME TypeOK, RegistryAssumption, NEW r \in Requests, Class(r)
  PROVE  /\ Len(audits) \in Nat /\ Len(audits') \in Nat
         /\ Len(audits) <= Len(audits')
         /\ \A i \in 1..Len(audits) : audits'[i] = audits[i]
<1>1. Len(audits) \in Nat
  BY DEF TypeOK
<1>2. CASE UNCHANGED db \/ Replays(r)
  BY <1>1, <1>2 DEF db, Replays, InstallReplay
<1>3. CASE Installs(r)
  BY <1>3, InstallsAppends
<1> QED
  BY <1>2, <1>3, DatabaseSteps

LEMMA OneEffectPerKeyPreserved ==
  ASSUME TypeOK, RegistryAssumption, RequestAssumption, StepIsOwn, ReservationIsCurrent,
         NoLostUpdate, OneEffectPerKey, NEW r \in Requests, Class(r)
  PROVE  OneEffectPerKey'
<1> DEFINE Kept(k) == /\ idem'[k].status = idem[k].status
                      /\ idem'[k].document = idem[k].document
                      /\ idem'[k].noop = idem[k].noop
                      /\ idem'[k].revision = idem[k].revision
                      /\ idem'[k].audit = idem[k].audit
           Mine(k) == /\ Installs(r) /\ IdempotencyKey[r] = k
                      /\ idem'[k] = Completed(r)
<1>1. \A k \in Keys : Kept(k) \/ Mine(k)
  BY KeptOrInstalled
<1>2. ASSUME NEW k \in Keys, Mine(k)
      PROVE  /\ idem'[k].document = Incoming[r]
             /\ idem'[k].noop = IsNoop(r)
             /\ idem'[k].revision = IF IsNoop(r) THEN 0 ELSE Len(revisions) + 1
             /\ idem'[k].audit = Len(audits) + 1
  BY <1>2 DEF Completed
<1>3. ASSUME NEW k \in Keys, idem'[k].status = "succeeded"
      PROVE  /\ idem'[k].noop <=> idem'[k].revision = 0
             /\ idem'[k].audit \in 1..Len(audits')
             /\ audits'[idem'[k].audit].document = idem'[k].document
             /\ audits'[idem'[k].audit].noop = idem'[k].noop
             /\ IdempotencyKey[audits'[idem'[k].audit].request] = k
  <2>1. CASE Kept(k)
    <3>1. /\ idem[k].noop <=> idem[k].revision = 0
          /\ idem[k].audit \in 1..Len(audits)
          /\ audits[idem[k].audit].document = idem[k].document
          /\ audits[idem[k].audit].noop = idem[k].noop
          /\ IdempotencyKey[audits[idem[k].audit].request] = k
      BY <1>3, <2>1 DEF OneEffectPerKey
    <3> QED
      BY <2>1, <3>1, AuditsGrow
  <2>2. CASE Mine(k)
    <3>1. IsNoop(r) \in BOOLEAN
      BY CompletedType
    <3> QED
      BY <1>2, <2>2, <3>1, InstallsAppends
  <2> QED
    BY <1>1, <2>1, <2>2
<1>4. ASSUME NEW j \in Keys, NEW k \in Keys, j # k, Kept(j), Kept(k),
             idem'[j].status = "succeeded", idem'[k].status = "succeeded"
      PROVE  /\ idem'[j].audit # idem'[k].audit
             /\ idem'[j].revision = idem'[k].revision => idem'[j].noop /\ idem'[k].noop
  <2>1. idem[j].status = "succeeded" /\ idem[k].status = "succeeded"
    BY <1>4
  <2>2. /\ idem[j].audit # idem[k].audit
        /\ idem[j].revision = idem[k].revision => idem[j].noop /\ idem[k].noop
    BY <1>4, <2>1 DEF OneEffectPerKey
  <2> QED
    BY <1>4, <2>2
<1>5. ASSUME NEW j \in Keys, NEW k \in Keys, j # k, Mine(j), Kept(k),
             idem'[j].status = "succeeded", idem'[k].status = "succeeded"
      PROVE  /\ idem'[j].audit # idem'[k].audit
             /\ idem'[j].revision = idem'[k].revision => idem'[j].noop /\ idem'[k].noop
  <2>1. idem'[k].audit <= Len(audits) /\ Len(audits) \in Nat
    <3>1. idem[k].audit \in 1..Len(audits)
      BY <1>5 DEF OneEffectPerKey
    <3> QED
      BY <1>5, <3>1, AuditsGrow
  <2>2. idem'[k].revision <= Len(revisions) /\ Len(revisions) \in Nat
    BY <1>5, RevisionsGrow DEF NoLostUpdate
  <2>3. idem'[j].audit # idem'[k].audit
    BY <1>2, <1>5, <2>1
  <2>4. idem'[j].revision = idem'[k].revision => idem'[j].revision = 0
    BY <1>2, <1>5, <2>2
  <2> QED
    BY <1>3, <1>5, <2>3, <2>4
<1>6. ASSUME NEW j \in Keys, NEW k \in Keys, j # k,
             idem'[j].status = "succeeded", idem'[k].status = "succeeded"
      PROVE  /\ idem'[j].audit # idem'[k].audit
             /\ idem'[j].revision = idem'[k].revision => idem'[j].noop /\ idem'[k].noop
  <2>1. ~(Mine(j) /\ Mine(k))
    BY <1>6
  <2>2. CASE Mine(j) /\ Kept(k)
    BY <1>5, <1>6, <2>2
  <2>3. CASE Mine(k) /\ Kept(j)
    BY <1>5, <1>6, <2>3
  <2>4. CASE Kept(j) /\ Kept(k)
    BY <1>4, <1>6, <2>4
  <2> QED
    BY <1>1, <2>1, <2>2, <2>3, <2>4
<1> QED
  BY <1>3, <1>6 DEF OneEffectPerKey

LEMMA AcksAreDurablePreserved ==
  ASSUME TypeOK, RegistryAssumption, RequestAssumption, StepIsOwn, ReservationIsCurrent,
         RewriteIsCurrent, SnapshotIsPast, VersionIsRevision, AcksAreDurable,
         NEW r \in Requests, Class(r)
  PROVE  AcksAreDurable'
<1> SUFFICES ASSUME NEW s \in Requests, answer'[s].kind \in {"ok", "replayed"}
             PROVE  /\ answer'[s].document = Incoming[s]
                    /\ Keyed(s) => /\ idem'[IdempotencyKey[s]].status = "succeeded"
                                   /\ idem'[IdempotencyKey[s]].document = answer'[s].document
                                   /\ idem'[IdempotencyKey[s]].previous = answer'[s].previous
                                   /\ idem'[IdempotencyKey[s]].noop = answer'[s].noop
  BY DEF AcksAreDurable, Keyed
<1>1. Keyed(s) => IdempotencyKey[s] \in Keys
  BY DEF Keyed, RequestAssumption
<1>2. CASE answer'[s] = answer[s]
  <2>1. /\ answer[s].document = Incoming[s]
        /\ Keyed(s) => /\ idem[IdempotencyKey[s]].status = "succeeded"
                       /\ idem[IdempotencyKey[s]].document = answer[s].document
                       /\ idem[IdempotencyKey[s]].previous = answer[s].previous
                       /\ idem[IdempotencyKey[s]].noop = answer[s].noop
    BY <1>2 DEF AcksAreDurable
  <2>2. Keyed(s) /\ Keyed(r) /\ Installs(r) => IdempotencyKey[r] # IdempotencyKey[s]
    BY <2>1, InstallsIsFirst
  <2>3. Keyed(s) /\ Installs(r) => IdempotencyKey[r] # IdempotencyKey[s]
    BY <2>2 DEF Keyed
  <2>4. Keyed(s) => /\ idem'[IdempotencyKey[s]].status = idem[IdempotencyKey[s]].status
                    /\ idem'[IdempotencyKey[s]].document = idem[IdempotencyKey[s]].document
                    /\ idem'[IdempotencyKey[s]].previous = idem[IdempotencyKey[s]].previous
                    /\ idem'[IdempotencyKey[s]].noop = idem[IdempotencyKey[s]].noop
    BY <1>1, <2>3, KeptOrInstalled
  <2> QED
    BY <1>2, <2>1, <2>4
<1>3. CASE s = r /\ Installs(r)
  <2>1. answer'[r] = Answer("ok", "none", Incoming[r], seen[r].rows, IsNoop(r))
    BY <1>3 DEF Installs, TypeOK
  <2>2. Keyed(r) => idem'[IdempotencyKey[r]] = Completed(r)
    BY <1>1, <1>3, InstallsEffect
  <2> QED
    BY <1>3, <2>1, <2>2 DEF Answer, Completed
<1>4. CASE s = r /\ Replays(r)
  <2>1. answer'[r] = Answer("replayed", "none", row[r].document, row[r].previous, row[r].noop)
    BY <1>4 DEF Replays, TypeOK
  <2>2. Keyed(r) => idem'[IdempotencyKey[r]] = Replayed(r)
    BY <1>1, <1>4, InstallsEffect
  <2>3. CanReplay(r)
    BY <1>4 DEF Replays, ReservationIsCurrent
  <2> QED
    BY <1>4, <2>1, <2>2, <2>3 DEF Answer, Replayed, CanReplay
<1>5. CASE Begin(r) \/ Advances(r)
  BY <1>2, <1>5 DEF Begin, Advances, Reserve, ReserveReplay, AcquireLock, Validate, Execute, client
<1>6. CASE Aborts(r) \/ LoseAnswer(r) \/ Retry(r)
  <2>1. PICK a \in Answers : a.kind \in {"error", "lost", "none"} /\ answer' = [answer EXCEPT ![r] = a]
    BY <1>6, AnswerTypes DEF Aborts, LoseAnswer, Retry
  <2>2. s # r
    BY <2>1 DEF TypeOK
  <2> QED
    BY <1>2, <2>1, <2>2 DEF TypeOK
<1>7. CASE s # r /\ (Installs(r) \/ Replays(r))
  BY <1>2, <1>7 DEF Installs, Replays, TypeOK
<1> QED
  BY <1>3, <1>4, <1>5, <1>6, <1>7 DEF Class

LEMMA EffectPreserved ==
  ASSUME TypeOK, RejectionHasNoEffect, EffectIsLast, NEW r \in Requests, Class(r)
  PROVE  RejectionHasNoEffect' /\ EffectIsLast'
<1> USE DEF RejectionHasNoEffect, EffectIsLast, TypeOK, GoTo
<1>1. CASE Begin(r) \/ Advances(r)
  <2>1. pc[r] # "done" /\ UNCHANGED <<committed, answer>>
    BY <1>1 DEF Begin, Advances, Reserve, ReserveReplay, Reserving, AcquireLock, Validate, Execute, client
  <2>2. \A s \in Requests : s # r => pc'[s] = pc[s]
    BY <1>1 DEF Begin, Advances, Reserve, ReserveReplay, AcquireLock, Validate, Execute
  <2> QED
    BY <2>1, <2>2
<1>2. CASE Aborts(r) \/ Replays(r)
  <2>1. pc[r] # "done" /\ committed' = committed /\ pc'[r] = "done"
    BY <1>2 DEF Aborts, Replays, InstallReplay, EndTransaction
  <2>2. \A s \in Requests : s # r => pc'[s] = pc[s] /\ answer'[s] = answer[s]
    BY <1>2 DEF Aborts, Replays, EndTransaction
  <2> QED
    BY <2>1, <2>2
<1>3. CASE Installs(r)
  <2>1. pc'[r] = "done" /\ (answer'[r].kind = "error" => answer'[r].error = "PERSISTENT_STORE_WRITE_FAILED")
    BY <1>3 DEF Installs, EndTransaction
  <2>2. \A s \in Requests : s # r => pc'[s] = pc[s] /\ answer'[s] = answer[s] /\ committed'[s] = committed[s]
    BY <1>3 DEF Installs, InstallMutation, EndTransaction
  <2> QED
    BY <2>1, <2>2
<1>4. CASE LoseAnswer(r)
  BY <1>4, AnswerTypes DEF LoseAnswer
<1>5. CASE Retry(r)
  BY <1>5, AnswerTypes DEF Retry
<1> QED
  BY <1>1, <1>2, <1>3, <1>4, <1>5 DEF Class

-----------------------------------------------------------------------------
(* The invariant *)

LEMMA InitInvariant ==
  ASSUME RegistryAssumption, RequestAssumption, Init
  PROVE  IInv
<1> USE DEF Init, Absent, NoSnapshot
<1>1. TypeOK
  <2>1. Absent \in IdemRows /\ NoSnapshot \in Tables /\ registry \in Tables
    BY DEF IdemRows, Tables, Documents, RegistryAssumption
  <2>2. /\ revisions \in Seq(RevisionRows) /\ audits \in Seq(AuditRows)
        /\ export \in [Exports -> ExportStates]
    BY DEF ExportStates, Documents
  <2>3. "idle" \in Steps /\ "none" \in ErrorTypes /\ 0 \in 0..MaxFaults
    BY DEF Steps, ErrorTypes, RequestAssumption
  <2> HIDE DEF Absent, NoSnapshot
  <2> QED
    BY <2>1, <2>2, <2>3, AnswerTypes DEF TypeOK
<1>2. StepIsOwn /\ LockIsHeld /\ KeyIsHeld /\ ReservationIsCurrent
  BY DEF StepIsOwn, LockIsHeld, LockedSteps, KeyIsHeld, ReservedSteps, ReservationIsCurrent,
     RequestAssumption
<1>3. SnapshotIsPast /\ RewriteIsCurrent /\ PartitionIsValid /\ LoadIsPast
  BY DEF SnapshotIsPast, InFlight, RewriteIsCurrent, PartitionIsValid, LockedSteps, LoadIsPast
<1>4. EvidenceIsLinked /\ NoLostUpdate /\ OneEffectPerKey
  BY DEF EvidenceIsLinked, NoLostUpdate, OneEffectPerKey
<1>6. VersionIsRevision
  BY DEF VersionIsRevision, LastReplaced, Replaced, RevisionDocument
<1>7. RegistryMatchesEvidence
  BY <1>6, VersionIsEvidence DEF RegistryMatchesEvidence
<1>5. AcksAreDurable /\ RejectionHasNoEffect /\ EffectIsLast
  BY AnswerTypes DEF AcksAreDurable, RejectionHasNoEffect, EffectIsLast
<1> QED
  BY <1>1, <1>2, <1>3, <1>4, <1>5, <1>6, <1>7 DEF IInv

\* An export adds a revision, of a document that was current, and nothing else.
LEMMA ExportAppends ==
  ASSUME TypeOK, LoadIsPast, NEW e \in Exports, ExportStep(e)
  PROVE  /\ UNCHANGED <<registry, audits, idem, locks, pc, seen, row, client, faults>>
         /\ \/ revisions' = revisions
            \/ /\ export[e].step = "loaded"
               /\ Revision(export[e].document, "export") \in RevisionRows
               /\ revisions' = Append(revisions, Revision(export[e].document, "export"))
<1>1. UNCHANGED <<registry, audits, idem, locks, pc, seen, row, client, faults>>
  BY DEF ExportStep, ExportLoad, ExportRecord, ExportFails, ExportFrame
<1>2. CASE ExportRecord(e)
  <2>1. export[e].step = "loaded" /\ export[e].document \in Registries
    BY <1>2 DEF ExportRecord, LoadIsPast
  <2>2. Revision(export[e].document, "export") \in RevisionRows
    BY <2>1 DEF Revision, RevisionRows
  <2> QED
    BY <1>1, <1>2, <2>1, <2>2 DEF ExportRecord
<1>3. CASE ExportLoad(e) \/ ExportFails(e)
  BY <1>1, <1>3 DEF ExportLoad, ExportFails
<1> QED
  BY <1>2, <1>3 DEF ExportStep

LEMMA ExportKeepsRevisions ==
  ASSUME TypeOK, LoadIsPast, NEW e \in Exports, ExportStep(e)
  PROVE  /\ Len(revisions) \in Nat /\ Len(revisions') \in Nat
         /\ Len(revisions) <= Len(revisions') /\ Len(revisions') <= Len(revisions) + 1
         /\ \A i \in 1..Len(revisions) : revisions'[i] = revisions[i]
         /\ \A i \in 0..Len(revisions) : RevisionDocument(i)' = RevisionDocument(i)
         /\ \A i \in 0..Len(revisions) : Replaced(i)' <=> Replaced(i)
BY ExportAppends, RevisionsStay DEF TypeOK

\* The evidence of replacements stays what it is, whatever exports insert.
LEMMA ExportKeepsEvidence ==
  ASSUME TypeOK, VersionIsRevision, SnapshotIsPast, LoadIsPast, RegistryMatchesEvidence,
         NoLostUpdate, NEW e \in Exports, ExportStep(e)
  PROVE  VersionIsRevision' /\ SnapshotIsPast' /\ RegistryMatchesEvidence' /\ NoLostUpdate'
<1>1. UNCHANGED <<registry, idem, pc, seen>>
  BY ExportAppends
<1>2. VersionIsRevision'
  <2>1. PICK n \in 0..Len(revisions) : n = registry.version
    BY DEF VersionIsRevision
  <2>2. LastReplaced(n, Len(revisions) + 1) /\ RevisionDocument(n) = registry.rows
    BY <2>1 DEF VersionIsRevision
  <2>3. /\ n \in 0..Len(revisions')
        /\ Replaced(n)' /\ RevisionDocument(n)' = registry.rows
    BY <2>2, ExportKeepsRevisions DEF LastReplaced
  <2>4. ASSUME NEW j \in n + 1 .. (Len(revisions') + 1) - 1
        PROVE  ~Replaced(j)'
    <3>1. CASE j \in 0..Len(revisions)
      <4>1. j \in n + 1 .. (Len(revisions) + 1) - 1
        BY <3>1, ExportKeepsRevisions
      <4>2. ~Replaced(j)
        BY <2>2, <4>1 DEF LastReplaced
      <4> QED
        BY <3>1, <4>2, ExportKeepsRevisions
    <3>2. CASE j \notin 0..Len(revisions)
      <4>1. j = Len(revisions) + 1 /\ Len(revisions') = Len(revisions) + 1
        BY <3>2, ExportKeepsRevisions
      <4>2. /\ Revision(export[e].document, "export") \in RevisionRows
            /\ revisions' = Append(revisions, Revision(export[e].document, "export"))
        BY <4>1, ExportAppends, ExportKeepsRevisions
      <4>3. revisions'[j] = Revision(export[e].document, "export")
        BY <4>1, <4>2 DEF TypeOK
      <4> QED
        BY <4>1, <4>3, ExportKeepsRevisions DEF Replaced, Revision
    <3> QED
      BY <3>1, <3>2
  <2>5. LastReplaced(n, Len(revisions) + 1)'
    BY <2>3, <2>4 DEF LastReplaced
  <2>6. LastReplaced(registry.version, Len(revisions) + 1)' /\ RevisionDocument(registry.version)' = registry.rows
    BY <1>1, <2>1, <2>3, <2>5 DEF LastReplaced, Replaced, RevisionDocument
  <2> QED
    BY <1>1, <2>1, <2>3, <2>6 DEF VersionIsRevision
<1>3. SnapshotIsPast'
  <2> SUFFICES ASSUME NEW r \in Requests, InFlight(r)
               PROVE  /\ seen[r].version \in 0..Len(revisions')
                      /\ RevisionDocument(seen[r].version)' = seen[r].rows
    BY <1>1 DEF SnapshotIsPast, InFlight
  <2>1. PICK n \in 0..Len(revisions) : n = seen[r].version /\ RevisionDocument(n) = seen[r].rows
    BY DEF SnapshotIsPast
  <2>2. n \in 0..Len(revisions') /\ RevisionDocument(n)' = seen[r].rows
    BY <2>1, ExportKeepsRevisions
  <2> QED
    BY <1>1, <2>1, <2>2 DEF RevisionDocument
<1>4. RegistryMatchesEvidence'
  <2>1. (\E i \in 0..Len(revisions) :
           LastReplaced(i, Len(revisions) + 1) /\ RevisionDocument(i) = registry.rows)'
    BY <1>2 DEF VersionIsRevision
  <2>2. ASSUME NEW j \in 1..Len(revisions'), ~Replaced(j)'
        PROVE  \E i \in 0 .. j - 1 : Replaced(i)' /\ RevisionDocument(i)' = RevisionDocument(j)'
    <3>1. CASE j \in 1..Len(revisions)
      <4>1. ~Replaced(j) /\ RevisionDocument(j)' = RevisionDocument(j)
        BY <2>2, <3>1, ExportKeepsRevisions
      <4>2. PICK i \in 0 .. j - 1 : Replaced(i) /\ RevisionDocument(i) = RevisionDocument(j)
        BY <3>1, <4>1 DEF RegistryMatchesEvidence
      <4>3. i \in 0..Len(revisions)
        BY <3>1, ExportKeepsRevisions
      <4> QED
        BY <4>1, <4>2, <4>3, ExportKeepsRevisions
    <3>2. CASE j \notin 1..Len(revisions)
      <4>1. j = Len(revisions) + 1 /\ Len(revisions') = Len(revisions) + 1
        BY <3>2, ExportKeepsRevisions
      <4>2. /\ export[e].step = "loaded"
            /\ Revision(export[e].document, "export") \in RevisionRows
            /\ revisions' = Append(revisions, Revision(export[e].document, "export"))
        BY <4>1, ExportAppends, ExportKeepsRevisions
      <4>3. revisions'[j] = Revision(export[e].document, "export")
        BY <4>1, <4>2 DEF TypeOK
      <4>4. RevisionDocument(j)' = export[e].document
        BY <4>1, <4>3, ExportKeepsRevisions DEF RevisionDocument, Revision
      <4>5. PICK i \in 0..Len(revisions) : Replaced(i) /\ RevisionDocument(i) = export[e].document
        BY <4>2 DEF LoadIsPast
      <4>6. i \in 0 .. j - 1 /\ Replaced(i)' /\ RevisionDocument(i)' = export[e].document
        BY <4>1, <4>5, ExportKeepsRevisions
      <4> QED
        BY <4>4, <4>6
    <3> QED
      BY <3>1, <3>2
  <2> QED
    BY <2>1, <2>2 DEF RegistryMatchesEvidence
<1>5. NoLostUpdate'
  <2> SUFFICES ASSUME NEW k \in Keys, idem[k].revision # 0
               PROVE  /\ idem[k].revision \in 1..Len(revisions')
                      /\ revisions'[idem[k].revision] = Revision(idem[k].document, "replacement")
                      /\ \E i \in 0 .. idem[k].revision - 1 :
                           LastReplaced(i, idem[k].revision)' /\ RevisionDocument(i)' = idem[k].previous
    BY <1>1 DEF NoLostUpdate, Revision
  <2>1. PICK n \in 1..Len(revisions) : n = idem[k].revision
    BY DEF NoLostUpdate
  <2>2. PICK i \in 0 .. n - 1 : LastReplaced(i, n) /\ RevisionDocument(i) = idem[k].previous
    BY <2>1 DEF NoLostUpdate
  <2>3. /\ i \in 0..Len(revisions) /\ n \in 1..Len(revisions) + 1
        /\ n \in 1..Len(revisions') /\ revisions'[n] = revisions[n]
    BY <2>1, ExportKeepsRevisions
  <2>4. LastReplaced(i, n)' /\ RevisionDocument(i)' = idem[k].previous
    BY <2>2, <2>3, ExportKeepsRevisions, LastReplacedStays
  <2>5. LastReplaced(i, idem[k].revision)'
    BY <1>1, <2>1, <2>4 DEF LastReplaced
  <2>6. revisions[n] = Revision(idem[k].document, "replacement")
    BY <2>1 DEF NoLostUpdate
  <2> QED
    BY <2>1, <2>2, <2>3, <2>4, <2>5, <2>6
<1> QED
  BY <1>2, <1>3, <1>4, <1>5

\* An export loads what is current, the document of the newest replacement.
LEMMA ExportKeepsLoads ==
  ASSUME RegistryAssumption, TypeOK, VersionIsRevision, LoadIsPast, NEW e \in Exports, ExportStep(e)
  PROVE  LoadIsPast' /\ export' \in [Exports -> ExportStates]
<1>1. CASE ExportLoad(e)
  <2>1. /\ registry.rows \in Registries
        /\ \E i \in 0..Len(revisions) : Replaced(i) /\ RevisionDocument(i) = registry.rows
    BY <1>1 DEF ExportLoad, TypeOK, Tables, Documents, VersionIsRevision, LastReplaced
  <2>2. export' = [export EXCEPT ![e] = [step |-> "loaded", document |-> registry.rows]] /\ revisions' = revisions
    BY <1>1 DEF ExportLoad, Exporting
  <2>3. export' \in [Exports -> ExportStates]
    BY <2>1, <2>2 DEF TypeOK, ExportStates, Documents
  <2>4. \A f \in Exports : f # e => export'[f] = export[f]
    BY <2>2 DEF TypeOK
  <2>5. export'[e].document = registry.rows
    BY <2>2 DEF TypeOK
  <2> QED
    BY <2>1, <2>2, <2>3, <2>4, <2>5 DEF LoadIsPast, Replaced, RevisionDocument
<1>2. CASE ExportRecord(e) \/ ExportFails(e)
  <2>1. export' = [export EXCEPT ![e] = [step |-> "done", document |-> export[e].document]]
    BY <1>2 DEF ExportRecord, ExportFails, Exporting
  <2>2. export[e] \in ExportStates
    BY DEF TypeOK
  <2>3. export' \in [Exports -> ExportStates]
    BY <2>1, <2>2 DEF TypeOK, ExportStates
  <2>4. \A f \in Exports : export'[f].step = "loaded" => export'[f] = export[f]
    BY <2>1 DEF TypeOK
  <2>5. ASSUME NEW f \in Exports, export'[f].step = "loaded"
        PROVE  /\ export'[f].document \in Registries
               /\ \E i \in 0..Len(revisions') :
                    Replaced(i)' /\ RevisionDocument(i)' = export'[f].document
    <3>1. /\ export'[f] = export[f] /\ export[f].document \in Registries
          /\ \E i \in 0..Len(revisions) : Replaced(i) /\ RevisionDocument(i) = export[f].document
      BY <2>4, <2>5 DEF LoadIsPast
    <3> QED
      BY <3>1, ExportKeepsRevisions
  <2> QED
    BY <2>3, <2>5 DEF LoadIsPast
<1> QED
  BY <1>1, <1>2 DEF ExportStep

LEMMA ExportPreserves ==
  ASSUME RegistryAssumption, IInv, NEW e \in Exports, ExportStep(e)
  PROVE  IInv'
<1> USE DEF IInv
<1>1. /\ UNCHANGED <<registry, audits, idem, lock, holder, pc, seen, row>>
      /\ UNCHANGED <<committed, answer, failureAudit, faults>>
  BY ExportAppends DEF locks, client
<1>2. TypeOK'
  <2>1. revisions' \in Seq(RevisionRows)
    <3>1. revisions \in Seq(RevisionRows)
      BY DEF TypeOK
    <3>2. \/ revisions' = revisions
          \/ \E d \in RevisionRows : revisions' = Append(revisions, d)
      BY ExportAppends
    <3> QED
      BY <3>1, <3>2
  <2>2. export' \in [Exports -> ExportStates]
    BY ExportKeepsLoads
  <2> QED
    BY <1>1, <2>1, <2>2 DEF TypeOK
<1>3. StepIsOwn' /\ LockIsHeld' /\ KeyIsHeld'
  BY <1>1 DEF StepIsOwn, LockIsHeld, KeyIsHeld
<1>4. ReservationIsCurrent' /\ RewriteIsCurrent' /\ PartitionIsValid'
  BY <1>1 DEF ReservationIsCurrent, KeyInUse, CanReplay, RewriteIsCurrent, IsNoop, RewriteConflict,
     PartitionIsValid, PartitionAllowed
<1>5. EvidenceIsLinked' /\ OneEffectPerKey'
  BY <1>1 DEF EvidenceIsLinked, OneEffectPerKey
<1>6. AcksAreDurable' /\ RejectionHasNoEffect' /\ EffectIsLast'
  BY <1>1 DEF AcksAreDurable, RejectionHasNoEffect, EffectIsLast
<1>7. VersionIsRevision' /\ SnapshotIsPast' /\ LoadIsPast' /\ RegistryMatchesEvidence' /\ NoLostUpdate'
  BY ExportKeepsEvidence, ExportKeepsLoads
<1> QED
  BY <1>2, <1>3, <1>4, <1>5, <1>6, <1>7

LEMMA StepInvariant ==
  ASSUME RegistryAssumption, RequestAssumption, IInv, [Next]_vars
  PROVE  IInv'
<1>1. CASE UNCHANGED vars
  <2>1. /\ UNCHANGED <<registry, revisions, audits, idem, lock, holder, pc, seen, row>>
        /\ UNCHANGED <<committed, answer, failureAudit, export, faults>>
    BY <1>1 DEF vars, db, locks, client
  <2> USE <2>1 DEF IInv
  <2>2. TypeOK' /\ StepIsOwn' /\ LockIsHeld' /\ KeyIsHeld'
    BY DEF TypeOK, StepIsOwn, LockIsHeld, KeyIsHeld
  <2>3. ReservationIsCurrent' /\ SnapshotIsPast' /\ VersionIsRevision' /\ LoadIsPast'
    BY DEF ReservationIsCurrent, KeyInUse, CanReplay, SnapshotIsPast, InFlight, VersionIsRevision,
       LoadIsPast, LastReplaced, Replaced, RevisionDocument
  <2>4. RewriteIsCurrent' /\ PartitionIsValid'
    BY DEF RewriteIsCurrent, IsNoop, RewriteConflict, PartitionIsValid, PartitionAllowed
  <2>5. EvidenceIsLinked' /\ RegistryMatchesEvidence' /\ NoLostUpdate' /\ OneEffectPerKey'
    BY DEF EvidenceIsLinked, RegistryMatchesEvidence, LastReplaced, Replaced, RevisionDocument,
       NoLostUpdate, OneEffectPerKey
  <2>6. AcksAreDurable' /\ RejectionHasNoEffect' /\ EffectIsLast'
    BY DEF AcksAreDurable, RejectionHasNoEffect, EffectIsLast
  <2> QED
    BY <2>2, <2>3, <2>4, <2>5, <2>6
<1>2. ASSUME NEW r \in Requests, Handle(r) \/ Fails(r) \/ Retry(r)
      PROVE  IInv'
  <2> USE DEF IInv
  <2>1. Class(r) /\ export' = export
    BY <1>2, StepClasses
  <2>2. TypeOK'
    <3>1. export' \in [Exports -> ExportStates]
      BY <2>1 DEF TypeOK
    <3> QED
      BY <1>2, <2>1, <3>1, FrameTypes, TypePreserved
  <2>3. StepIsOwn' /\ LockIsHeld' /\ KeyIsHeld' /\ ReservationIsCurrent'
    BY <2>1, StepIsOwnPreserved, LockIsHeldPreserved, KeyIsHeldPreserved, ReservationIsCurrentPreserved
  <2>4. SnapshotIsPast' /\ RewriteIsCurrent' /\ PartitionIsValid'
    BY <2>1, SnapshotIsPastPreserved, RewriteIsCurrentPreserved, PartitionIsValidPreserved
  <2>7. VersionIsRevision' /\ LoadIsPast'
    BY <2>1, VersionIsRevisionPreserved, LoadIsPastPreserved
  <2>5. EvidenceIsLinked' /\ RegistryMatchesEvidence' /\ NoLostUpdate'
    BY <2>1, EvidenceIsLinkedPreserved, RegistryMatchesEvidencePreserved, NoLostUpdatePreserved
  <2>6. OneEffectPerKey' /\ AcksAreDurable' /\ RejectionHasNoEffect' /\ EffectIsLast'
    BY <2>1, OneEffectPerKeyPreserved, AcksAreDurablePreserved, EffectPreserved
  <2> QED
    BY <2>2, <2>3, <2>4, <2>5, <2>6, <2>7
<1>3. CASE Rest
  BY <1>1, <1>3 DEF Rest
<1>4. ASSUME NEW e \in Exports, ExportStep(e)
      PROVE  IInv'
  BY <1>4, ExportPreserves
<1> QED
  BY <1>1, <1>2, <1>3, <1>4 DEF Next

\* The inductive invariant holds in every reachable state, for all constants
\* that satisfy the assumptions.
THEOREM Invariant == Spec => []IInv
<1>1. Init => IInv
  BY InitInvariant, RegistryAssumption, RequestAssumption
<1>2. IInv /\ [Next]_vars => IInv'
  BY StepInvariant, RegistryAssumption, RequestAssumption
<1> QED
  BY <1>1, <1>2, PTL DEF Spec

\* Every variable keeps its type: postgres_import_replace.go never builds a
\* row, an answer or a reservation outside the sets the model declares.
THEOREM TypeCorrect == Spec => []TypeOK
<1>1. IInv => TypeOK
  BY DEF IInv
<1> QED
  BY <1>1, Invariant, PTL

\* The mutable tables always hold the document of the newest revision that a
\* replacement inserted, and a revision that an export inserted names a
\* document that had been current, whatever transactions and exports
\* interleave and fail.
THEOREM RegistryAlwaysMatchesEvidence == Spec => []RegistryMatchesEvidence
<1>1. IInv => RegistryMatchesEvidence
  BY DEF IInv
<1> QED
  BY <1>1, Invariant, PTL

\* No replacement overwrites a registry it did not report as the previous one.
THEOREM NeverLosesUpdate == Spec => []NoLostUpdate
<1>1. IInv => NoLostUpdate
  BY DEF IInv
<1> QED
  BY <1>1, Invariant, PTL

\* An idempotency key has at most one effect, however many duplicates of a
\* request run, fail, and are retried.
THEOREM KeysHaveOneEffect == Spec => []OneEffectPerKey
<1>1. IInv => OneEffectPerKey
  BY DEF IInv
<1> QED
  BY <1>1, Invariant, PTL

\* All the success audit events of one key are one.
THEOREM EffectsAreUnique == Spec => []AtMostOnce
<1>1. IInv => AtMostOnce
  BY DEF IInv, EvidenceIsLinked, AtMostOnce, Keyed
<1> QED
  BY <1>1, Invariant, PTL

\* A caller that was told of a success can rely on it.
THEOREM AnswersAreTrue == Spec => []AcksAreDurable
<1>1. IInv => AcksAreDurable
  BY DEF IInv
<1> QED
  BY <1>1, Invariant, PTL

\* A caller that was told of a definite failure changed nothing.
THEOREM RejectionsChangeNothing == Spec => []RejectionHasNoEffect
<1>1. IInv => RejectionHasNoEffect
  BY DEF IInv
<1> QED
  BY <1>1, Invariant, PTL

\* A recorded outcome is never rewritten: replays only count themselves.
THEOREM OutcomesNeverChange == Spec => OutcomesAreFinal
<1> DEFINE Final == \A k \in Keys : idem[k].status = "succeeded" =>
              /\ idem'[k].status = "succeeded"
              /\ idem'[k].document = idem[k].document
              /\ idem'[k].previous = idem[k].previous
              /\ idem'[k].revision = idem[k].revision
              /\ idem'[k].replays >= idem[k].replays
<1>1. IInv /\ [Next]_vars => [Final]_idem
  <2> SUFFICES ASSUME IInv, [Next]_vars PROVE Final \/ UNCHANGED idem
    OBVIOUS
  <2>1. CASE UNCHANGED vars \/ Rest
    BY <2>1 DEF vars, db, Rest
  <2>3. ASSUME NEW e \in Exports, ExportStep(e)
        PROVE  UNCHANGED idem
    BY <2>3, ExportAppends DEF IInv
  <2>2. ASSUME NEW r \in Requests, Handle(r) \/ Fails(r) \/ Retry(r)
        PROVE  Final
    <3>1. Class(r)
      BY <2>2, StepClasses, RegistryAssumption DEF IInv
    <3>2. \A k \in Keys : idem[k].status = "succeeded" /\ Installs(r) => IdempotencyKey[r] # k
      <4>1. Installs(r) /\ Keyed(r) => idem[IdempotencyKey[r]].status = "absent"
        BY InstallsIsFirst DEF IInv
      <4> QED
        BY <4>1, RequestAssumption DEF Keyed
    <3> QED
      BY <3>1, <3>2, KeptOrInstalled, RequestAssumption DEF IInv
  <2> QED
    BY <2>1, <2>2, <2>3 DEF Next
<1> QED
  BY <1>1, Invariant, PTL DEF Spec, OutcomesAreFinal

\* Tenant isolation holds against the registry current at commit, although the
\* partition is validated against a snapshot taken before the lock was held.
THEOREM PartitionsAreIsolated == Spec => PartitionIsolation
<1> DEFINE Isolated == \A r \in Requests :
              (Partition(r) /\ committed[r] # committed'[r] /\ committed'[r])
                => \/ registry' = registry
                   \/ InPartition(registry.rows, registry'.rows, Project[r])
<1>1. IInv /\ [Next]_vars => [Isolated]_vars
  <2> SUFFICES ASSUME IInv, Next PROVE Isolated
    OBVIOUS
  <2>1. CASE Rest
    BY <2>1 DEF Rest, vars, db
  <2>3. ASSUME NEW e \in Exports, ExportStep(e)
        PROVE  registry' = registry
    BY <2>3, ExportAppends DEF IInv
  <2>2. ASSUME NEW s \in Requests, Handle(s) \/ Fails(s) \/ Retry(s),
               NEW r \in Requests, Partition(r), committed[r] # committed'[r], committed'[r]
        PROVE  registry' = registry \/ InPartition(registry.rows, registry'.rows, Project[r])
    <3>1. Class(s)
      BY <2>2, StepClasses, RegistryAssumption DEF IInv
    <3>2. CASE ~Installs(s)
      BY <3>1, <3>2, DatabaseSteps DEF db, Replays, InstallReplay
    <3>3. CASE Installs(s) /\ s = r
      <4>1. pc[r] = "commit"
        BY <3>3 DEF Installs
      <4>2. PartitionAllowed(r)
        BY <2>2, <4>1 DEF IInv, PartitionIsValid, LockedSteps
      <4>3. CASE IsNoop(r)
        BY <3>3, <4>3 DEF Installs, InstallMutation
      <4>4. CASE ~IsNoop(r)
        <5>1. seen[r].rows = registry.rows /\ registry'.rows = Incoming[r]
          BY <3>3, <4>4, InstallsIsFirst DEF IInv, Installs, InstallMutation
        <5> QED
          BY <4>2, <5>1 DEF PartitionAllowed
      <4> QED
        BY <4>3, <4>4
    <3>4. CASE Installs(s) /\ s # r
      BY <2>2, <3>4 DEF Installs, InstallMutation, IInv, TypeOK
    <3> QED
      BY <3>2, <3>3, <3>4
  <2> QED
    BY <2>1, <2>2, <2>3 DEF Next
<1> QED
  BY <1>1, Invariant, PTL DEF Spec, PartitionIsolation

-----------------------------------------------------------------------------
(* RegistryMutation implements RegistryLedger *)

\* The ledger's history, as this module sees it.
History == [i \in 1 .. Len(revisions) + 1 |-> RevisionDocument(i - 1)]

LEMMA HistoryFacts ==
  ASSUME RegistryAssumption, revisions \in Seq(RevisionRows)
  PROVE  /\ History \in Seq(Documents)
         /\ Len(revisions) \in Nat
         /\ Len(History) = Len(revisions) + 1
         /\ \A i \in 0..Len(revisions) :
              i + 1 \in 1..Len(History) /\ History[i + 1] = RevisionDocument(i)
<1>1. Len(revisions) \in Nat
  OBVIOUS
<1>2. \A i \in 0..Len(revisions) : RevisionDocument(i) \in Documents
  <2> SUFFICES ASSUME NEW i \in 0..Len(revisions)
               PROVE  RevisionDocument(i) \in Documents
    OBVIOUS
  <2>1. CASE i = 0
    BY <2>1 DEF RevisionDocument, RegistryAssumption, Documents
  <2>2. CASE i # 0
    <3>1. revisions[i] \in RevisionRows
      BY <2>2
    <3> QED
      BY <2>2, <3>1 DEF RevisionDocument, RevisionRows, Documents
  <2> QED
    BY <2>1, <2>2
<1>3. \A i \in 1 .. Len(revisions) + 1 : i - 1 \in 0..Len(revisions)
  BY <1>1
<1>4. History \in Seq(Documents) /\ Len(History) = Len(revisions) + 1
  BY <1>1, <1>2, <1>3, IsASeq, LenProperties DEF History
<1>5. \A i \in 0..Len(revisions) :
        i + 1 \in 1..Len(History) /\ History[i + 1] = RevisionDocument(i)
  BY <1>1, <1>4 DEF History
<1> QED
  BY <1>1, <1>4, <1>5

\* Appending a revision appends to the history.
LEMMA HistoryGrows ==
  ASSUME RegistryAssumption, revisions \in Seq(RevisionRows), NEW d \in RevisionRows,
         revisions' = Append(revisions, d)
  PROVE  History' = Append(History, d.document)
<1>1. /\ Len(revisions) \in Nat /\ Len(revisions') = Len(revisions) + 1
      /\ revisions'[Len(revisions) + 1] = d /\ revisions' \in Seq(RevisionRows)
  OBVIOUS
<1>2. History \in Seq(Documents) /\ d.document \in Documents /\ Len(History) = Len(revisions) + 1
  BY HistoryFacts DEF RevisionRows, Documents
<1>3. ASSUME NEW i \in 1 .. Len(revisions) + 2
      PROVE  RevisionDocument(i - 1)' = Append(History, d.document)[i]
  <2>1. CASE i = Len(revisions) + 2
    <3>1. RevisionDocument(i - 1)' = d.document
      BY <1>1, <2>1 DEF RevisionDocument
    <3> QED
      BY <1>1, <1>2, <2>1, <3>1
  <2>2. CASE i # Len(revisions) + 2
    <3>1. PICK n \in 0..Len(revisions) : n = i - 1
      BY <1>1, <2>2
    <3>2. RevisionDocument(n)' = RevisionDocument(n) /\ History[n + 1] = RevisionDocument(n)
      BY HistoryFacts, RevisionsStay
    <3>3. RevisionDocument(i - 1)' = RevisionDocument(n)' /\ n + 1 = i
      BY <3>1 DEF RevisionDocument
    <3>4. Append(History, d.document)[i] = History[i]
      BY <1>1, <1>2, <2>2
    <3> QED
      BY <3>2, <3>3, <3>4
  <2> QED
    BY <2>1, <2>2
<1>4. History' = [i \in 1 .. Len(revisions) + 2 |-> RevisionDocument(i - 1)']
  BY <1>1 DEF History
<1>5. Append(History, d.document) = [i \in 1 .. Len(revisions) + 2 |-> Append(History, d.document)[i]]
  BY <1>1, <1>2
<1> QED
  BY <1>3, <1>4, <1>5

\* The ledger's settled outcomes, as this module sees them.
Outcome == [k \in Keys |->
  [settled |-> idem[k].status # "absent",
   fingerprint |-> idem[k].document, noop |-> idem[k].noop]]

LEMMA LedgerInitially ==
  ASSUME RegistryAssumption, Init
  PROVE  Ledger!LedgerInit
<1>1. History = <<InitialRows>> /\ registry.rows = InitialRows
  BY DEF Init, History, RevisionDocument
<1>2. Outcome = [k \in Keys |-> Ledger!Unsettled]
  BY DEF Outcome, Ledger!Unsettled, Init, Absent
<1> QED
  BY <1>1, <1>2 DEF Ledger!LedgerInit, Outcome, History

\* A commit settles its key, if it has one.
LEMMA LedgerSettles ==
  ASSUME RegistryAssumption, RequestAssumption, IInv, NEW r \in Requests, Installs(r),
         NEW noop \in BOOLEAN, noop = IsNoop(r)
  PROVE  Ledger!Settle(r, noop)
<1>1. CASE Keyed(r)
  <2> DEFINE key == IdempotencyKey[r]
             settled == [settled |-> TRUE, fingerprint |-> Incoming[r], noop |-> noop]
  <2>1. key \in Keys /\ idem[key].status = "absent"
    BY <1>1, InstallsIsFirst DEF IInv, Keyed, RequestAssumption
  <2>2. ~Outcome[key].settled
    BY <2>1 DEF Outcome
  <2>3. [settled |-> idem'[key].status # "absent", fingerprint |-> idem'[key].document,
         noop |-> idem'[key].noop] = settled
    <3>1. idem'[key] = Completed(r)
      BY <2>1, InstallsEffect DEF IInv
    <3>2. /\ Completed(r).status = "succeeded"
          /\ Completed(r).document = Incoming[r]
          /\ Completed(r).noop = noop
      BY DEF Completed
    <3> QED
      BY <3>1, <3>2
  <2>4. \A k \in Keys : k # key => idem'[k] = idem[k]
    BY InstallsEffect DEF IInv
  <2>5. Outcome' = [Outcome EXCEPT ![key] = settled]
    <3> HIDE DEF settled
    <3> QED
      BY <2>1, <2>3, <2>4 DEF Outcome
  <2> QED
    BY <1>1, <2>2, <2>5 DEF Ledger!Settle, Outcome, Keyed
<1>2. CASE ~Keyed(r)
  <2>1. idem' = idem
    BY <1>2 DEF Installs, InstallMutation
  <2> QED
    BY <1>2, <2>1 DEF Ledger!Settle, Keyed
<1> QED
  BY <1>1, <1>2

\* A commit that rewrites the tables is a replacement in the ledger.
LEMMA LedgerReplaces ==
  ASSUME RegistryAssumption, RequestAssumption, IInv, NEW r \in Requests, Installs(r), ~IsNoop(r)
  PROVE  Ledger!Replace(r)
<1>1. seen[r].rows = registry.rows
  BY InstallsIsFirst DEF IInv
<1>3. registry.rows # Incoming[r]
  BY <1>1 DEF IsNoop
<1>4. Partition(r) => registry.rows # Empty /\ Ledger!InPartition(registry.rows, Incoming[r], Project[r])
  <2>1. pc[r] = "commit"
    BY DEF Installs
  <2>2. Partition(r) => seen[r].rows # Empty /\ PartitionAllowed(r)
    BY <2>1 DEF IInv, PartitionIsValid, LockedSteps
  <2> QED
    BY <1>1, <2>2 DEF PartitionAllowed, InPartition, Ledger!InPartition, Ledger!Owners, Owners
<1>5. History' = Append(History, Incoming[r]) /\ registry'.rows = Incoming[r]
  <2>1. revisions' = Append(revisions, Revision(Incoming[r], "replacement")) /\ registry'.rows = Incoming[r]
    BY DEF Installs, InstallMutation
  <2>2. /\ Revision(Incoming[r], "replacement") \in RevisionRows
        /\ Revision(Incoming[r], "replacement").document = Incoming[r]
    BY DEF RegistryAssumption, Revision, RevisionRows
  <2>3. revisions \in Seq(RevisionRows)
    BY DEF IInv, TypeOK
  <2> QED
    BY <2>1, <2>2, <2>3, HistoryGrows
<1>6. Ledger!Settle(r, FALSE)
  <2>1. IsNoop(r) = FALSE
    BY CompletedType DEF IInv
  <2> QED
    BY <2>1, LedgerSettles
<1> QED
  BY <1>3, <1>4, <1>5, <1>6 DEF Ledger!Replace, Partition, History

\* A commit that found its document current is a no-op in the ledger: the
\* document was current when its snapshot was taken.
LEMMA LedgerNoops ==
  ASSUME RegistryAssumption, RequestAssumption, IInv, NEW r \in Requests, Installs(r), IsNoop(r)
  PROVE  Ledger!Noop(r)
<1>1. /\ seen[r].version \in 0..Len(revisions)
      /\ seen[r].rows = RevisionDocument(seen[r].version)
      /\ seen[r].rows = Incoming[r]
  BY DEF IInv, SnapshotIsPast, InFlight, Installs, IsNoop
<1>2. PICK n \in 0..Len(revisions) : n = seen[r].version
  BY <1>1
<1>3. n + 1 \in 1..Len(History) /\ History[n + 1] = Incoming[r]
  BY <1>1, <1>2, HistoryFacts DEF IInv, TypeOK
<1>4. \E i \in 1..Len(History) : History[i] = Incoming[r]
  BY <1>3
<1>5. revisions' = revisions /\ registry' = registry
  BY DEF Installs, InstallMutation
<1>7. History' = History
  BY <1>5 DEF History, RevisionDocument
<1>6. Ledger!Settle(r, TRUE)
  <2>1. IsNoop(r) = TRUE
    BY CompletedType DEF IInv
  <2> QED
    BY <2>1, LedgerSettles
<1> QED
  BY <1>4, <1>5, <1>6, <1>7 DEF Ledger!Noop, History

\* A revision of an export is a document put on record once more.
LEMMA LedgerRecords ==
  ASSUME RegistryAssumption, IInv, NEW e \in Exports, ExportStep(e)
  PROVE  Ledger!Record \/ UNCHANGED Ledger!ledgerVars
<1>1. registry' = registry /\ Outcome' = Outcome
  BY ExportAppends DEF IInv, Outcome
<1>2. CASE revisions' = revisions
  <2>1. History' = History
    BY <1>2 DEF History, RevisionDocument
  <2> QED
    BY <1>1, <2>1 DEF Ledger!ledgerVars, History, Outcome
<1>3. CASE revisions' # revisions
  <2> DEFINE d == Revision(export[e].document, "export")
  <2>1. /\ export[e].step = "loaded" /\ d \in RevisionRows
        /\ revisions' = Append(revisions, d)
    BY <1>3, ExportAppends DEF IInv
  <2>2. d.document = export[e].document
    BY DEF Revision
  <2>3. PICK n \in 0..Len(revisions) : RevisionDocument(n) = export[e].document
    BY <2>1 DEF IInv, LoadIsPast
  <2>4. export[e].document # Empty
    BY <2>1 DEF IInv, LoadIsPast, RegistryAssumption
  <2>5. revisions \in Seq(RevisionRows)
    BY DEF IInv, TypeOK
  <2>6. n + 1 \in 1..Len(History) /\ History[n + 1] = export[e].document
    BY <2>3, <2>5, HistoryFacts
  <2> HIDE DEF d
  <2>7. History' = Append(History, export[e].document)
    BY <2>1, <2>2, <2>5, HistoryGrows
  <2>8. \E i \in 1..Len(History) : History[i] # Empty /\ History' = Append(History, History[i])
    BY <2>4, <2>6, <2>7
  <2> QED
    BY <1>1, <2>8 DEF Ledger!Record, History, Outcome
<1> QED
  BY <1>2, <1>3

\* The control plane's transactions implement the ledger: every commit is one
\* replacement or one no-op of it, every revision of an export puts a document
\* on its record again, and every other step is invisible.
THEOREM Refinement == Spec => ImplementsLedger
<1>1. Init => Ledger!LedgerInit
  BY LedgerInitially, RegistryAssumption
<1>2. IInv /\ [Next]_vars => [Ledger!LedgerNext]_Ledger!ledgerVars
  <2> SUFFICES ASSUME IInv, [Next]_vars
               PROVE  Ledger!LedgerNext \/ UNCHANGED Ledger!ledgerVars
    OBVIOUS
  <2>1. CASE UNCHANGED vars \/ Rest
    <3>1. UNCHANGED <<registry, revisions, idem>>
      BY <2>1 DEF Rest, vars, db
    <3>2. History' = History /\ Outcome' = Outcome
      BY <3>1 DEF History, RevisionDocument, Outcome
    <3> QED
      BY <3>1, <3>2 DEF Ledger!ledgerVars, History, Outcome
  <2>2. ASSUME NEW r \in Requests, Handle(r) \/ Fails(r) \/ Retry(r)
        PROVE  Ledger!LedgerNext \/ UNCHANGED Ledger!ledgerVars
    <3>1. Class(r)
      BY <2>2, StepClasses, RegistryAssumption DEF IInv
    <3>2. CASE UNCHANGED db
      <4>1. UNCHANGED <<registry, revisions, idem>>
        BY <3>2 DEF db
      <4>2. History' = History /\ Outcome' = Outcome
        BY <4>1 DEF History, RevisionDocument, Outcome
      <4> QED
        BY <4>1, <4>2 DEF Ledger!ledgerVars, History, Outcome
    <3>3. CASE Replays(r)
      <4>1. revisions' = revisions /\ registry' = registry
        BY <3>3 DEF Replays, InstallReplay
      <4>4. History' = History
        BY <4>1 DEF History, RevisionDocument
      <4>2. \A k \in Keys : /\ idem'[k].status = idem[k].status
                            /\ idem'[k].document = idem[k].document
                            /\ idem'[k].noop = idem[k].noop
        BY <3>3, ReplayKeepsOutcomes, RequestAssumption DEF IInv
      <4>3. Outcome' = Outcome
        BY <4>2 DEF Outcome
      <4> QED
        BY <4>1, <4>3, <4>4 DEF Ledger!ledgerVars, Outcome, History
    <3>4. CASE Installs(r)
      BY <3>4, LedgerReplaces, LedgerNoops, RegistryAssumption, RequestAssumption DEF Ledger!LedgerNext
    <3> QED
      BY <3>1, <3>2, <3>3, <3>4, DatabaseSteps
  <2>3. ASSUME NEW e \in Exports, ExportStep(e)
        PROVE  Ledger!LedgerNext \/ UNCHANGED Ledger!ledgerVars
    BY <2>3, LedgerRecords, RegistryAssumption DEF Ledger!LedgerNext
  <2> QED
    BY <2>1, <2>2, <2>3 DEF Next
<1> QED
  BY <1>1, <1>2, Invariant, PTL DEF Spec, ImplementsLedger, Ledger!LedgerSpec

=============================================================================
