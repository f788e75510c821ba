------------------------- MODULE HostedPolicy_proofs -------------------------
(***************************************************************************)
(* Proofs about HostedPolicy: its safety properties hold for every set of  *)
(* requests, drafts, keys and graph objects, and any number of faults.     *)
(***************************************************************************)
EXTENDS HostedPolicy, SequenceTheorems, TLAPS

-----------------------------------------------------------------------------
(* Every step belongs to one of a few classes. *)

\* The transaction is given up: only the caller's answer is left of it.
Aborts(r) ==
  /\ pc[r] # "done"
  /\ EndTransaction(r)
  /\ \E a \in Answers :
       /\ a.kind \in {"error", "lost"}
       /\ answer' = [answer EXCEPT ![r] = a]
  /\ UNCHANGED <<db, effects>>

\* A mutation becomes visible, whatever the caller is told of it.
Installs(r) ==
  /\ Mutate(r)
  /\ EndTransaction(r)
  /\ \E a \in Answers :
       /\ a.kind \in {"ok", "replayed"} =>
            a = Answer("ok", "none", IF Keyed(r) THEN NewVersion(r) ELSE <<>>)
       /\ answer' = [answer EXCEPT ![r] = a]

\* The replay counter becomes visible, whatever the caller is told.
Replays(r) ==
  /\ InstallReplay(r)
  /\ EndTransaction(r)
  /\ \E a \in Answers :
       /\ a.kind \in {"ok", "replayed"} => a = Answer("replayed", "none", KeyRow(r).version)
       /\ answer' = [answer EXCEPT ![r] = a]

\* A handler moves on within its transaction.
Advances(r) == LoadDraft(r) \/ Reserve(r) \/ ReserveReplay(r) \/ LoadActive(r)

Class(r) ==
  \/ Begin(r)
  \/ Advances(r)
  \/ Aborts(r)
  \/ Installs(r)
  \/ Replays(r)
  \/ LoseAnswer(r)
  \/ Retry(r)

\* There is a version to be active, and a transaction in flight has seen it.
VersionsExist ==
  /\ versions # <<>>
  /\ \A r \in Requests : InFlight(r) => snap[r].versions # <<>>

\* Each kind of request goes through the steps of its own handler.
StepIsOwn ==
  \A r \in Requests :
    /\ pc[r] = "draft" => Ask[r].op \in {"apply_change", "request_review", "promote"}
    /\ pc[r] \in {"reserve", "replay"} => Keyed(r)
    /\ pc[r] = "active" => Ask[r].op \in {"begin_draft", "promote", "rollback"}

\* The answers the handlers give are answers.
LEMMA AnswerTypes ==
  /\ NoAnswer \in Answers /\ NoAnswer.kind = "none"
  /\ \A e \in Errors : /\ Answer("error", e, <<>>) \in Answers
                       /\ Answer("error", e, <<>>).kind = "error"
  /\ Answer("lost", "none", <<>>) \in Answers
  /\ Answer("lost", "none", <<>>).kind = "lost"
  /\ \A kind \in {"ok", "replayed"}, v \in VersionNames :
       Answer(kind, "none", v) \in Answers
<1>1. <<>> \in VersionNames
  BY DEF VersionNames
<1> HIDE DEF VersionNames
<1> QED
  BY <1>1 DEF NoAnswer, Answer, Answers, Errors

\* A value that was left out has its default's type.
LEMMA OrType ==
  ASSUME NEW S, NEW value \in S \cup {None}, NEW default \in S
  PROVE  Or(value, default) \in S
BY DEF Or

\* What a request carries, and what its transaction has read.
LEMMA RequestTypes ==
  ASSUME TypeOK, PolicyAssumption, NEW r \in Requests
  PROVE  /\ Ask[r] \in Asks
         /\ Draft(r) \in DraftRows
         /\ Base(r) \in VersionNames /\ Version(r) \in VersionNames
         /\ Fingerprint(r) \in Fingerprints
         /\ Intent(r) \in Intents
         /\ Keyed(r) => Ask[r].key \in Keys
<1>1. Ask[r] \in Asks /\ (Keyed(r) <=> Ask[r].key # None)
  BY DEF PolicyAssumption
<1>2. snap[r] \in Snapshots
  BY DEF TypeOK
<1>3. Ask[r].draft \in Drafts
  BY <1>1 DEF Asks
<1>4. Draft(r) \in DraftRows
  BY <1>2, <1>3 DEF Draft, Snapshots
<1>5. /\ Ask[r].base \in VersionNames \cup {None}
      /\ Ask[r].version \in VersionNames \cup {None}
      /\ Ask[r].fingerprint \in Fingerprints \cup {None}
      /\ Ask[r].target \in VersionNames
      /\ Ask[r].key \in Keys \cup {None}
  BY <1>1 DEF Asks
<1>6. /\ Draft(r).base \in VersionNames
      /\ Draft(r).version \in VersionNames
      /\ Draft(r).fingerprint \in Fingerprints
  BY <1>4 DEF DraftRows
<1>7. Base(r) \in VersionNames /\ Version(r) \in VersionNames
      /\ Fingerprint(r) \in Fingerprints
  BY <1>5, <1>6, OrType DEF Base, Version, Fingerprint
<1>8. Intent(r) \in Intents
  BY <1>3, <1>5, <1>7 DEF Intent, Intents
<1> QED
  BY <1>1, <1>4, <1>5, <1>7, <1>8

\* The version that was read, and the one that is written.
LEMMA VersionTypes ==
  ASSUME TypeOK, VersionsExist, PolicyAssumption, NEW r \in Requests, InFlight(r)
  PROVE  /\ Len(snap[r].versions) \in 1..Len(snap[r].versions)
         /\ ActiveVersion(r) \in VersionNames
         /\ NewVersion(r) \in VersionNames
         /\ NewDraft(r) \in DraftRows
<1>1. snap[r].versions \in Seq(VersionRows) /\ snap[r].versions # <<>>
  BY DEF TypeOK, Snapshots, VersionsExist
<1>2. Len(snap[r].versions) \in 1..Len(snap[r].versions)
  BY <1>1
<1>3. snap[r].versions[Len(snap[r].versions)] \in VersionRows
  BY <1>1, <1>2
<1>4. ActiveVersion(r) \in VersionNames
  BY <1>3 DEF ActiveVersion, VersionRows
<1>5. Ask[r] \in Asks /\ Ask[r].version \in VersionNames \cup {None}
      /\ Ask[r].fingerprint \in Fingerprints \cup {None}
      /\ Ask[r].target \in VersionNames /\ Ask[r].actor \in Actors
  BY RequestTypes DEF Asks
<1>6. \A v \in VersionNames : Append(v, "draft") \in VersionNames
                              /\ Append(v, "rollback") \in VersionNames
  BY DEF VersionNames, PolicyAssumption
<1>7. Or(Ask[r].version, Append(ActiveVersion(r), "draft")) \in VersionNames
      /\ Or(Ask[r].version, Append(Ask[r].target, "rollback")) \in VersionNames
  BY <1>4, <1>5, <1>6, OrType
<1>8. NewVersion(r) \in VersionNames
  BY <1>7, RequestTypes DEF NewVersion
<1>9. NoFingerprint \in Fingerprints /\ <<>> \in VersionNames
  BY DEF NoFingerprint, Fingerprints, VersionNames
<1>10. Or(Ask[r].fingerprint, NoFingerprint) \in Fingerprints
  BY <1>5, <1>9, OrType
<1>11. NewDraft(r) \in DraftRows
  BY <1>4, <1>5, <1>7, <1>9, <1>10 DEF NewDraft, NoDraft, DraftRows
<1> QED
  BY <1>2, <1>4, <1>8, <1>11

\* Every action but Rest is in one of the classes.
LEMMA StepClasses ==
  ASSUME TypeOK, VersionsExist, StepIsOwn, PolicyAssumption, NEW r \in Requests,
         Handle(r) \/ Fails(r) \/ Retry(r)
  PROVE  Class(r)
<1> USE DEF Class
<1>1. ASSUME NEW e \in Errors, Fail(r, e), pc[r] # "done"
      PROVE  Aborts(r)
  BY <1>1, AnswerTypes DEF Fail, Aborts
<1>2. CASE Begin(r) \/ LoadDraft(r) \/ Reserve(r) \/ ReserveReplay(r) \/ LoadActive(r)
             \/ LoseAnswer(r) \/ Retry(r)
  BY <1>2 DEF Advances
<1>3. CASE DraftUnavailable(r) \/ ReserveStale(r) \/ ReserveRejected(r) \/ NotPromotable(r)
             \/ ActiveUnavailable(r) \/ NotWritable(r) \/ StaleVersion(r) \/ WriteRejected(r)
  BY <1>1, <1>3 DEF DraftUnavailable, ReserveStale, ReserveRejected, NotPromotable,
     ActiveUnavailable, NotWritable, StaleVersion, WriteRejected, Reserving, Errors
<1>4. CASE Commit(r)
  <2> DEFINE v == IF Keyed(r) THEN NewVersion(r) ELSE <<>>
  <2>1. InFlight(r)
    BY <1>4 DEF Commit, Mutate, InFlight
  <2>2. v \in VersionNames
    BY <2>1, VersionTypes DEF VersionNames
  <2>3. Answer("ok", "none", v) \in Answers
    BY <2>2, AnswerTypes
  <2>4. /\ Mutate(r) /\ EndTransaction(r)
        /\ answer' = [answer EXCEPT ![r] = Answer("ok", "none", v)]
    BY <1>4 DEF Commit
  <2>5. Installs(r)
    BY <2>3, <2>4 DEF Installs
  <2> QED
    BY <2>5
<1>5. CASE Replay(r)
  <2>1. Keyed(r)
    BY <1>5 DEF Replay, InstallReplay, StepIsOwn
  <2>2. KeyRow(r).version \in VersionNames
    BY <2>1, RequestTypes DEF TypeOK, Snapshots, KeyRow, KeyRows
  <2>3. Answer("replayed", "none", KeyRow(r).version) \in Answers
    BY <2>2, AnswerTypes
  <2> QED
    BY <1>5, <2>3 DEF Replay, Replays
<1>6. CASE DatabaseFailure(r)
  <2>1. PICK e \in FailureErrors(pc[r]) :
          answer' = [answer EXCEPT ![r] = Answer("error", e, <<>>)]
    BY <1>6 DEF DatabaseFailure
  <2>2. e \in Errors /\ pc[r] # "done"
    BY <1>6, <2>1 DEF FailureErrors, Errors, DatabaseFailure
  <2> QED
    BY <1>6, <2>1, <2>2, AnswerTypes DEF DatabaseFailure, Aborts
<1>7. CASE AmbiguousCommit(r)
  <2> DEFINE a == Answer("error", "PERSISTENT_STORE_WRITE_FAILED", <<>>)
  <2>1. a \in Answers /\ a.kind = "error"
    BY AnswerTypes DEF Errors
  <2>2. /\ EndTransaction(r)
        /\ answer' = [answer EXCEPT ![r] = a]
        /\ Mutate(r) \/ InstallReplay(r)
    BY <1>7 DEF AmbiguousCommit
  <2> HIDE DEF a
  <2> QED
    BY <2>1, <2>2 DEF Installs, Replays
<1>8. CASE Crash(r)
  BY <1>8, AnswerTypes DEF Crash, InFlight, Aborts
<1> QED
  BY <1>2, <1>3, <1>4, <1>5, <1>6, <1>7, <1>8 DEF Handle, Fails

-----------------------------------------------------------------------------
(* Type correctness *)

\* The new version, and the versions it supersedes.
LEMMA ActivateTypes ==
  ASSUME TypeOK, VersionsExist, PolicyAssumption, NEW r \in Requests, InFlight(r),
         TargetKnown(r), Ask[r].op \in {"promote", "rollback"},
         Activate(r), graph' \in Graphs
  PROVE  /\ Supersede(r) \in Seq(VersionRows)
         /\ Len(Supersede(r)) = Len(versions)
         /\ versions' \in Seq(VersionRows)
         /\ Len(versions') = Len(versions) + 1
         /\ \A i \in 1..Len(versions) : versions'[i] = Supersede(r)[i]
         /\ versions'[Len(versions) + 1] =
              [version |-> NewVersion(r), fingerprint |-> NewFingerprint(r), status |-> "active",
               previous |-> ActiveVersion(r), graph |-> graph']
<1> DEFINE new == [version |-> NewVersion(r), fingerprint |-> NewFingerprint(r),
                   status |-> "active", previous |-> ActiveVersion(r), graph |-> graph']
<1>1. versions \in Seq(VersionRows) /\ Len(versions) \in Nat
  BY DEF TypeOK
<1>2. NewFingerprint(r) \in Fingerprints
  <2>1. Ask[r].fingerprint \in Fingerprints \cup {None}
    BY RequestTypes DEF Asks
  <2>2. CASE Ask[r].op = "promote"
    BY <2>2, RequestTypes DEF NewFingerprint
  <2>3. CASE Ask[r].op = "rollback"
    <3> DEFINE i == CHOOSE i \in 1..Len(versions) : versions[i].version = Ask[r].target
    <3>1. i \in 1..Len(versions)
      BY <2>3 DEF TargetKnown
    <3>2. versions[i] \in VersionRows
      BY <1>1, <3>1
    <3>3. versions[i].fingerprint \in Fingerprints
      BY <3>2 DEF VersionRows
    <3>4. NewFingerprint(r) = Or(Ask[r].fingerprint, versions[i].fingerprint)
      BY <2>3 DEF NewFingerprint
    <3> HIDE DEF i
    <3> QED
      BY <2>1, <3>3, <3>4, OrType
  <2> QED
    BY <2>2, <2>3
<1>3. new \in VersionRows
  BY <1>2, VersionTypes DEF VersionRows
<1>4. \A i \in 1..Len(versions) : Supersede(r)[i] \in VersionRows
  <2> TAKE i \in 1..Len(versions)
  <2>1. versions[i] \in VersionRows
    BY <1>1
  <2>2. Superseded(versions[i]) \in VersionRows
    BY <2>1 DEF Superseded, VersionRows
  <2> QED
    BY <2>1, <2>2 DEF Supersede
<1>5. Supersede(r) \in Seq(VersionRows) /\ Len(Supersede(r)) = Len(versions)
  <2>1. Supersede(r) = [i \in 1..Len(versions) |-> Supersede(r)[i]]
    BY DEF Supersede
  <2>2. Supersede(r) \in [1..Len(versions) -> VersionRows]
    BY <1>4, <2>1
  <2> QED
    BY <1>1, <2>2, SeqDef, LenProperties
<1>6. versions' = Append(Supersede(r), new)
  BY DEF Activate
<1> HIDE DEF new
<1>7. QED
  <2>1. /\ versions' \in Seq(VersionRows)
        /\ Len(versions') = Len(versions) + 1
        /\ \A i \in 1..Len(versions) : versions'[i] = Supersede(r)[i]
        /\ versions'[Len(versions) + 1] = new
    BY <1>1, <1>3, <1>5, <1>6, AppendProperties
  <2> QED
    BY <1>5, <2>1 DEF new

\* An audit, and the row of a key.
LEMMA RecordTypes ==
  ASSUME TypeOK, PolicyAssumption, NEW r \in Requests, NEW v \in VersionNames, Record(r, v)
  PROVE  /\ audits' \in Seq(AuditRows)
         /\ Len(audits) \in Nat
         /\ Len(audits') = Len(audits) + 1
         /\ \A i \in 1..Len(audits) : audits'[i] = audits[i]
         /\ audits'[Len(audits) + 1] = [request |-> r, op |-> Ask[r].op, version |-> v]
         /\ idem' \in [Keys -> KeyRows]
         /\ effects' \in [Requests -> Nat]
<1>1. audits \in Seq(AuditRows) /\ Len(audits) \in Nat
  BY DEF TypeOK
<1> DEFINE audit == [request |-> r, op |-> Ask[r].op, version |-> v]
<1>2. audit \in AuditRows
  BY RequestTypes DEF AuditRows, Asks
<1>3. audits' = Append(audits, audit)
  BY DEF Record
<1>4. idem' \in [Keys -> KeyRows]
  <2>1. [status |-> "succeeded", intent |-> Intent(r), version |-> v,
         audit |-> Len(audits) + 1, replays |-> 0] \in KeyRows
    BY <1>1, RequestTypes DEF KeyRows
  <2> QED
    BY <2>1 DEF Record, TypeOK
<1>5. effects' \in [Requests -> Nat]
  BY DEF Record, TypeOK
<1> HIDE DEF audit
<1>6. QED
  <2>1. /\ audits' \in Seq(AuditRows)
        /\ Len(audits') = Len(audits) + 1
        /\ \A i \in 1..Len(audits) : audits'[i] = audits[i]
        /\ audits'[Len(audits) + 1] = audit
    BY <1>1, <1>2, <1>3, AppendProperties
  <2> QED
    BY <1>1, <1>4, <1>5, <2>1 DEF audit

\* The writes of a mutation.
LEMMA MutateTypes ==
  ASSUME TypeOK, VersionsExist, PolicyAssumption, NEW r \in Requests, Mutate(r)
  PROVE  /\ versions' \in Seq(VersionRows) /\ versions' # <<>>
         /\ drafts' \in [Drafts -> DraftRows]
         /\ graph' \in Graphs
         /\ audits' \in Seq(AuditRows)
         /\ idem' \in [Keys -> KeyRows]
         /\ effects' \in [Requests -> Nat]
<1>1. InFlight(r) /\ versions \in Seq(VersionRows) /\ versions # <<>> /\ graph \in Graphs
      /\ drafts \in [Drafts -> DraftRows]
  BY DEF Mutate, InFlight, TypeOK, VersionsExist
<1>2. Ask[r] \in Asks /\ Ask[r].draft \in Drafts /\ Ask[r].change \in Changes
  BY RequestTypes DEF Asks
<1>3. drafts[Ask[r].draft] \in DraftRows
  BY <1>1, <1>2
<1>4. NewDraft(r).version \in VersionNames /\ NewVersion(r) \in VersionNames
  BY <1>1, VersionTypes DEF DraftRows
<1>5. CASE BeginDraft(r)
  BY <1>1, <1>2, <1>4, <1>5, VersionTypes, RecordTypes DEF BeginDraft
<1>6. CASE ApplyChange(r)
  <2> DEFINE seq == ChangeSeq(r)
             fingerprint == [seed |-> Fingerprint(r).seed,
               links |-> Append(Fingerprint(r).links,
                 [draft |-> Ask[r].draft, base |-> Base(r), version |-> Version(r),
                  seq |-> seq, change |-> Ask[r].change])]
             row == drafts[Ask[r].draft]
             changed == [[row EXCEPT !.changes[seq] = Ask[r].change]
                           EXCEPT !.fingerprint = fingerprint]
  <2>1. seq \in 1..MaxChanges
    BY <1>6 DEF ApplyChange, AddChange
  <2>2. [draft |-> Ask[r].draft, base |-> Base(r), version |-> Version(r),
         seq |-> seq, change |-> Ask[r].change] \in Links
    BY <1>2, <2>1, RequestTypes DEF Links
  <2>3. Fingerprint(r) \in Fingerprints
    BY RequestTypes
  <2>4. Append(Fingerprint(r).links,
          [draft |-> Ask[r].draft, base |-> Base(r), version |-> Version(r),
           seq |-> seq, change |-> Ask[r].change]) \in Seq(Links)
    BY <2>2, <2>3 DEF Fingerprints
  <2>5. fingerprint \in Fingerprints
    BY <2>3, <2>4 DEF Fingerprints
  <2>6. row.changes \in [1..MaxChanges -> Changes \cup {None}]
    BY <1>3 DEF DraftRows
  <2>7. [row.changes EXCEPT ![seq] = Ask[r].change] \in [1..MaxChanges -> Changes \cup {None}]
    BY <1>2, <2>1, <2>6
  <2>8. drafts' = [drafts EXCEPT ![Ask[r].draft] = changed]
    BY <1>1, <1>2, <1>6 DEF ApplyChange, AddChange
  <2>9. changed \in DraftRows
    <3> HIDE DEF seq, fingerprint
    <3> QED
      BY <1>3, <2>5, <2>7 DEF DraftRows
  <2> HIDE DEF changed
  <2>10. drafts' \in [Drafts -> DraftRows]
    BY <1>1, <1>2, <2>8, <2>9
  <2> QED
    BY <1>1, <1>6, <2>10, RequestTypes, RecordTypes DEF ApplyChange
<1>7. CASE RequestReview(r)
  <2> DEFINE row == drafts[Ask[r].draft]
             reviewed == [[row EXCEPT !.status = "review_requested"]
                            EXCEPT !.fingerprint = Fingerprint(r)]
  <2>1. drafts' = [drafts EXCEPT ![Ask[r].draft] = reviewed]
    BY <1>1, <1>2, <1>7 DEF RequestReview
  <2>2. reviewed \in DraftRows
    BY <1>3, RequestTypes DEF DraftRows
  <2> HIDE DEF reviewed
  <2>3. drafts' \in [Drafts -> DraftRows]
    BY <1>1, <1>2, <2>1, <2>2
  <2> QED
    BY <1>1, <1>7, <2>3, RequestTypes, RecordTypes DEF RequestReview
<1>8. CASE PromoteDraft(r)
  <2> DEFINE row == drafts[Ask[r].draft]
             promoted == [[row EXCEPT !.status = "promoted"] EXCEPT !.promoted = Version(r)]
  <2>1. drafts' = [drafts EXCEPT ![Ask[r].draft] = promoted]
    BY <1>1, <1>2, <1>8 DEF PromoteDraft, MarkPromoted
  <2>2. promoted \in DraftRows
    BY <1>3, RequestTypes DEF DraftRows
  <2> HIDE DEF promoted
  <2>3. drafts' \in [Drafts -> DraftRows]
    BY <1>1, <1>2, <2>1, <2>2
  <2>4. graph' \in Graphs
    BY <1>1, <1>8 DEF PromoteDraft, GraphAfter, StatusAfter, Graphs, Statuses
  <2>5. versions' \in Seq(VersionRows) /\ Len(versions') = Len(versions) + 1
    BY <1>1, <1>8, <2>4, ActivateTypes DEF PromoteDraft, TargetKnown
  <2>6. versions' # <<>>
    BY <1>1, <2>5
  <2> QED
    BY <1>8, <2>3, <2>4, <2>5, <2>6, RequestTypes, RecordTypes DEF PromoteDraft
<1>9. CASE RollbackVersion(r)
  <2>1. graph' \in Graphs
    BY <1>1, <1>9 DEF RollbackVersion
  <2>2. versions' \in Seq(VersionRows) /\ Len(versions') = Len(versions) + 1
    BY <1>1, <1>9, <2>1, ActivateTypes DEF RollbackVersion
  <2>3. versions' # <<>>
    BY <1>1, <2>2
  <2> QED
    BY <1>1, <1>4, <1>9, <2>1, <2>2, <2>3, RecordTypes DEF RollbackVersion
<1> QED
  BY <1>5, <1>6, <1>7, <1>8, <1>9 DEF Mutate

\* No step disturbs the types.
LEMMA TypePreserved ==
  ASSUME TypeOK, VersionsExist, StepIsOwn, PolicyAssumption, NEW r \in Requests,
         Class(r), faults' \in 0..MaxFaults
  PROVE  TypeOK' /\ VersionsExist' /\ StepIsOwn'
<1> USE DEF db, locks
<1>1. NoSnapshot \in Snapshots
  <2>1. FreeKey \in KeyRows
    BY DEF FreeKey, NoIntent, KeyRows, Intents, VersionNames
  <2>2. NoDraft \in DraftRows
    BY DEF NoDraft, NoFingerprint, DraftRows, Fingerprints, VersionNames
  <2> QED
    BY <2>1, <2>2 DEF NoSnapshot, Snapshots
<1>2. ASSUME EndTransaction(r)
      PROVE  /\ draftLock' \in [Drafts -> Requests \cup {None}]
             /\ activeLock' \in Requests \cup {None}
             /\ keyLock' \in [Keys -> Requests \cup {None}]
             /\ pc' \in [Requests -> Steps]
             /\ snap' \in [Requests -> Snapshots]
             /\ \A s \in Requests : s # r => pc'[s] = pc[s] /\ snap'[s] = snap[s]
             /\ pc'[r] = "done"
  BY <1>1, <1>2 DEF EndTransaction, GoTo, TypeOK, Steps
<1>3. CASE Begin(r)
  <2> DEFINE seen == [versions |-> versions, drafts |-> drafts, idem |-> idem]
             step == CASE Ask[r].op = "begin_draft" -> "active"
                       [] Ask[r].op = "rollback"    -> "reserve"
                       [] OTHER                     -> "draft"
  <2>1. seen \in Snapshots /\ seen.versions # <<>>
    BY DEF Snapshots, TypeOK, VersionsExist
  <2>2. step \in Steps
    BY DEF Steps
  <2>3. snap' = [snap EXCEPT ![r] = seen] /\ pc' = [pc EXCEPT ![r] = step]
        /\ UNCHANGED <<db, locks, answer, effects>>
    BY <1>3 DEF Begin, GoTo
  <2>4. TypeOK'
    <3> HIDE DEF seen, step
    <3> QED
      BY <2>1, <2>2, <2>3 DEF TypeOK
  <2>5. VersionsExist'
    <3> HIDE DEF seen, step
    <3> QED
      BY <2>1, <2>3 DEF TypeOK, VersionsExist, InFlight
  <2>6. StepIsOwn'
    <3>1. /\ step = "draft" => Ask[r].op \in {"apply_change", "request_review", "promote"}
          /\ step = "reserve" => Keyed(r)
          /\ step = "active" => Ask[r].op \in {"begin_draft", "promote", "rollback"}
          /\ step # "replay"
      BY RequestTypes DEF Asks, Operations, Keyed
    <3> HIDE DEF step
    <3> QED
      BY <2>3, <3>1 DEF TypeOK, StepIsOwn, Keyed
  <2> QED
    BY <2>4, <2>5, <2>6
<1>4. CASE Advances(r)
  <2>1. /\ draftLock' \in [Drafts -> Requests \cup {None}]
        /\ activeLock' \in Requests \cup {None}
        /\ keyLock' \in [Keys -> Requests \cup {None}]
    <3>1. CASE LoadDraft(r)
      <4>1. draftLock' = [draftLock EXCEPT ![Ask[r].draft] = r]
            /\ UNCHANGED <<activeLock, keyLock>>
        BY <3>1 DEF LoadDraft
      <4> QED
        BY <4>1 DEF TypeOK
    <3>2. CASE Reserve(r) \/ ReserveReplay(r)
      <4>1. keyLock' = [keyLock EXCEPT ![Ask[r].key] = r]
            /\ UNCHANGED <<activeLock, draftLock>>
        BY <3>2 DEF Reserve, ReserveReplay
      <4> QED
        BY <4>1 DEF TypeOK
    <3>3. CASE LoadActive(r)
      BY <3>3 DEF LoadActive, TypeOK
    <3> QED
      BY <1>4, <3>1, <3>2, <3>3 DEF Advances
  <2>2. PICK step \in Steps : pc' = [pc EXCEPT ![r] = step]
                              /\ (step \in {"reserve", "replay"} => Keyed(r))
                              /\ (step = "active" => Keyed(r))
                              /\ step \notin {"idle", "draft"}
    BY <1>4 DEF Advances, LoadDraft, Reserve, ReserveReplay, Reserving, LoadActive, GoTo,
       Steps, Keyed, StepIsOwn
  <2>3. UNCHANGED <<db, snap, answer, effects>> /\ InFlight(r)
    BY <1>4 DEF Advances, LoadDraft, Reserve, ReserveReplay, Reserving, LoadActive, InFlight
  <2>4. TypeOK'
    BY <2>1, <2>2, <2>3 DEF TypeOK
  <2>5. VersionsExist'
    BY <2>2, <2>3 DEF TypeOK, VersionsExist, InFlight
  <2>6. StepIsOwn'
    BY <2>2 DEF TypeOK, StepIsOwn, Keyed
  <2> QED
    BY <2>4, <2>5, <2>6
<1>5. CASE Aborts(r) \/ Installs(r) \/ Replays(r)
  <2>1. EndTransaction(r) /\ answer' \in [Requests -> Answers]
    <3>1. EndTransaction(r)
      BY <1>5 DEF Aborts, Installs, Replays
    <3>2. PICK a \in Answers : answer' = [answer EXCEPT ![r] = a]
      BY <1>5 DEF Aborts, Installs, Replays
    <3> QED
      BY <3>1, <3>2 DEF TypeOK
  <2>2. /\ versions' \in Seq(VersionRows) /\ versions' # <<>>
        /\ drafts' \in [Drafts -> DraftRows]
        /\ graph' \in Graphs
        /\ audits' \in Seq(AuditRows)
        /\ idem' \in [Keys -> KeyRows]
        /\ effects' \in [Requests -> Nat]
    <3>1. CASE Aborts(r)
      BY <3>1 DEF Aborts, TypeOK, VersionsExist
    <3>2. CASE Installs(r)
      BY <3>2, MutateTypes DEF Installs
    <3>3. CASE Replays(r)
      <4>1. Keyed(r) /\ Ask[r].key \in Keys
        BY <3>3, RequestTypes DEF Replays, InstallReplay, StepIsOwn
      <4>2. [idem[Ask[r].key] EXCEPT !.replays = idem[Ask[r].key].replays + 1] \in KeyRows
        <5>1. idem[Ask[r].key] \in KeyRows
          BY <4>1 DEF TypeOK
        <5>2. ASSUME NEW row \in KeyRows
              PROVE  [row EXCEPT !.replays = row.replays + 1] \in KeyRows
          BY DEF KeyRows
        <5> QED
          BY <5>1, <5>2
      <4>3. idem' = [idem EXCEPT ![Ask[r].key] =
                       [idem[Ask[r].key] EXCEPT !.replays = idem[Ask[r].key].replays + 1]]
        BY <3>3 DEF Replays, InstallReplay
      <4>4. idem' \in [Keys -> KeyRows]
        BY <4>1, <4>2, <4>3 DEF TypeOK
      <4> QED
        BY <3>3, <4>4 DEF Replays, InstallReplay, TypeOK, VersionsExist
    <3> QED
      BY <1>5, <3>1, <3>2, <3>3
  <2>3. TypeOK'
    BY <1>2, <2>1, <2>2 DEF TypeOK
  <2>4. VersionsExist'
    BY <1>2, <2>1, <2>2 DEF VersionsExist, InFlight
  <2>5. StepIsOwn'
    BY <1>2, <2>1 DEF StepIsOwn, Keyed
  <2> QED
    BY <2>3, <2>4, <2>5
<1>6. CASE LoseAnswer(r)
  BY <1>6, AnswerTypes DEF LoseAnswer, TypeOK, VersionsExist, StepIsOwn, InFlight, Keyed
<1>7. CASE Retry(r)
  <2>1. pc' = [pc EXCEPT ![r] = "idle"] /\ answer' \in [Requests -> Answers]
        /\ UNCHANGED <<db, locks, snap, effects>>
    BY <1>7, AnswerTypes DEF Retry, GoTo, TypeOK
  <2> QED
    BY <2>1 DEF TypeOK, VersionsExist, StepIsOwn, InFlight, Keyed, Steps
<1> QED
  BY <1>3, <1>4, <1>5, <1>6, <1>7 DEF Class

LEMMA TypeInit ==
  ASSUME PolicyAssumption, Init
  PROVE  TypeOK /\ VersionsExist /\ StepIsOwn
<1>1. NoSnapshot \in Snapshots /\ FreeKey \in KeyRows /\ NoAnswer \in Answers
  <2>1. FreeKey \in KeyRows
    BY DEF FreeKey, NoIntent, KeyRows, Intents, VersionNames
  <2>2. NoDraft \in DraftRows
    BY DEF NoDraft, NoFingerprint, DraftRows, Fingerprints, VersionNames
  <2> QED
    BY <2>1, <2>2, AnswerTypes DEF NoSnapshot, Snapshots
<1>2. InitialVersions \in Seq(VersionRows) /\ InitialVersions # <<>>
      /\ InitialDrafts \in [Drafts -> DraftRows] /\ MaxFaults \in Nat
  BY DEF PolicyAssumption
<1>3. InitialVersions[Len(InitialVersions)] \in VersionRows
  BY <1>2
<1>4. InitialVersions[Len(InitialVersions)].graph \in Graphs
  BY <1>3 DEF VersionRows
<1>5. TypeOK
  BY <1>1, <1>2, <1>4 DEF Init, TypeOK, Steps
<1> QED
  BY <1>2, <1>5 DEF Init, VersionsExist, StepIsOwn, InFlight

LEMMA TypeStep ==
  ASSUME PolicyAssumption, TypeOK, VersionsExist, StepIsOwn, [Next]_vars
  PROVE  /\ TypeOK' /\ VersionsExist' /\ StepIsOwn'
         /\ UNCHANGED vars \/ \E r \in Requests : Class(r)
<1>1. CASE UNCHANGED vars
  BY <1>1 DEF vars, db, locks, TypeOK, VersionsExist, StepIsOwn, InFlight, Keyed
<1>2. CASE \E r \in Requests : Handle(r) \/ Fails(r) \/ Retry(r)
  <2>1. PICK r \in Requests : Handle(r) \/ Fails(r) \/ Retry(r)
    BY <1>2
  <2>2. Class(r)
    BY <2>1, StepClasses
  <2>3. faults' \in 0..MaxFaults
    <3>1. faults \in 0..MaxFaults /\ MaxFaults \in Nat
      BY DEF TypeOK, PolicyAssumption
    <3>2. CASE Fails(r)
      BY <3>1, <3>2 DEF Fails, DatabaseFailure, AmbiguousCommit, Crash, LoseAnswer, Fault
    <3>3. CASE Handle(r) \/ Retry(r)
      <4>1. faults' = faults
        BY <3>3 DEF Handle, Begin, LoadDraft, DraftUnavailable, Reserve, ReserveStale,
           ReserveRejected, ReserveReplay, LoadActive, ActiveUnavailable, NotPromotable,
           Commit, NotWritable, StaleVersion, WriteRejected, Replay, Retry, Fail
      <4> QED
        BY <3>1, <4>1
    <3> QED
      BY <2>1, <3>2, <3>3
  <2> QED
    BY <2>2, <2>3, TypePreserved
<1> QED
  BY <1>1, <1>2 DEF Next, Rest

-----------------------------------------------------------------------------
(* The versions *)

\* One step of the published history.
Publishes(r) ==
  /\ pc[r] = "write"
  /\ Ask[r].op \in {"promote", "rollback"}
  /\ TargetKnown(r)
  /\ VersionFits(r)
  /\ Activate(r)

LEMMA PublishOrKeep ==
  ASSUME NEW r \in Requests, Class(r)
  PROVE  UNCHANGED <<versions, graph>> \/ Publishes(r)
BY DEF Class, Begin, Advances, LoadDraft, Reserve, ReserveReplay, LoadActive, Aborts, Installs,
   Mutate, BeginDraft, ApplyChange, RequestReview, PromoteDraft, RollbackVersion, Replays,
   InstallReplay, LoseAnswer, Retry, db, Publishes, TargetKnown

\* The version in force is the newest, and the graph is the one it came with.
VersionsInv == NewestIsActive /\ LineageIsUnbroken /\ GraphIsActivated

\* What a new version finds: the version it was told of is the newest, and the
\* unique index lets only the new one be active.
LEMMA PublishEffect ==
  ASSUME PolicyAssumption, TypeOK, VersionsExist, VersionsInv, TypeOK',
         NEW r \in Requests, Publishes(r)
  PROVE  /\ Len(versions) \in Nat \ {0}
         /\ versions' \in Seq(VersionRows)
         /\ Len(versions') = Len(versions) + 1
         /\ versions[Len(versions)].version = ActiveVersion(r)
         /\ \A i \in 1..Len(versions) :
              /\ versions'[i] \in {versions[i], Superseded(versions[i])}
              /\ versions'[i].status # "active"
         /\ versions'[Len(versions) + 1] =
              [version |-> NewVersion(r), fingerprint |-> NewFingerprint(r), status |-> "active",
               previous |-> ActiveVersion(r), graph |-> graph']
         /\ \A i \in 1..Len(versions) : versions[i].version # NewVersion(r)
<1>1. versions \in Seq(VersionRows) /\ versions # <<>>
  BY DEF TypeOK, VersionsExist
<1>2. Len(versions) \in Nat \ {0} /\ Len(versions) \in 1..Len(versions)
  BY <1>1
<1>3. InFlight(r) /\ graph' \in Graphs
  BY DEF Publishes, InFlight, TypeOK
<1>4. /\ versions' \in Seq(VersionRows)
      /\ Len(versions') = Len(versions) + 1
      /\ \A i \in 1..Len(versions) : versions'[i] = Supersede(r)[i]
      /\ versions'[Len(versions) + 1] =
           [version |-> NewVersion(r), fingerprint |-> NewFingerprint(r), status |-> "active",
            previous |-> ActiveVersion(r), graph |-> graph']
  BY <1>3, ActivateTypes DEF Publishes
<1>5. \A i \in 1..Len(versions) : Supersede(r)[i] \in {versions[i], Superseded(versions[i])}
  BY DEF Supersede
<1>6. \A i \in 1..Len(versions) : Supersede(r)[i].status # "active"
  BY DEF Publishes, VersionFits, OneActive
<1>7. versions[Len(versions)].version = ActiveVersion(r)
  <2>1. versions[Len(versions)].status = "active"
    BY <1>2 DEF VersionsInv, NewestIsActive
  <2> QED
    BY <1>2, <1>6, <2>1 DEF Supersede
<1>8. \A i \in 1..Len(versions) : versions[i].version # NewVersion(r)
  BY DEF Publishes, VersionFits
<1> QED
  BY <1>2, <1>4, <1>5, <1>6, <1>7, <1>8

\* Superseding keeps everything of a version but its status.
LEMMA SupersededRow ==
  ASSUME NEW row \in VersionRows
  PROVE  /\ Superseded(row).version = row.version
         /\ Superseded(row).previous = row.previous
         /\ Superseded(row).fingerprint = row.fingerprint
         /\ Superseded(row).graph = row.graph
BY DEF Superseded, VersionRows

LEMMA VersionsStep ==
  ASSUME PolicyAssumption, TypeOK, VersionsExist, VersionsInv, TypeOK',
         NEW r \in Requests, Class(r)
  PROVE  VersionsInv'
<1>1. CASE UNCHANGED <<versions, graph>>
  BY <1>1 DEF VersionsInv, NewestIsActive, LineageIsUnbroken, GraphIsActivated
<1>2. CASE Publishes(r)
  <2> DEFINE n == Len(versions)
  <2>1. /\ n \in Nat \ {0}
        /\ versions \in Seq(VersionRows)
        /\ Len(versions') = n + 1
        /\ versions[n].version = ActiveVersion(r)
        /\ \A i \in 1..n : /\ versions'[i] \in {versions[i], Superseded(versions[i])}
                           /\ versions'[i].status # "active"
        /\ \A i \in 1..n : versions[i].version # NewVersion(r)
    BY <1>2, PublishEffect DEF TypeOK
  <2>2. /\ versions'[n + 1].status = "active"
        /\ versions'[n + 1].version = NewVersion(r)
        /\ versions'[n + 1].previous = ActiveVersion(r)
        /\ versions'[n + 1].graph = graph'
    <3>1. versions'[n + 1] =
            [version |-> NewVersion(r), fingerprint |-> NewFingerprint(r), status |-> "active",
             previous |-> ActiveVersion(r), graph |-> graph']
      BY <1>2, PublishEffect
    <3> QED
      BY <3>1
  <2>3. \A i \in 1..n : /\ versions'[i].version = versions[i].version
                        /\ versions'[i].previous = versions[i].previous
    <3> TAKE i \in 1..n
    <3>1. versions[i] \in VersionRows
      BY <2>1
    <3> QED
      BY <2>1, <3>1, SupersededRow
  <2>4. versions' # <<>>
    BY <1>2, <2>1, PublishEffect
  <2> HIDE DEF n
  <2>5. NewestIsActive'
    <3>1. \A i \in 1..(n + 1) : i \in 1..n \/ i = n + 1
      BY <2>1
    <3> QED
      BY <2>1, <2>2, <2>4, <3>1 DEF NewestIsActive
  <2>6. LineageIsUnbroken'
    <3> USE DEF LineageIsUnbroken, VersionsInv
    <3>1. Len(InitialVersions) \in Nat /\ \A i \in 1..(n + 1) : i \in 1..n \/ i = n + 1
      BY <2>1 DEF PolicyAssumption
    <3>2. ASSUME NEW i \in (Len(InitialVersions) + 1)..(n + 1)
          PROVE  versions'[i].previous = versions'[i - 1].version
      <4>1. CASE i = 1
        <5>1. InitialVersions \in Seq(VersionRows) /\ InitialVersions # <<>>
          BY DEF PolicyAssumption
        <5> QED
          BY <4>1, <5>1
      <4>2. CASE i \in 2..n
        BY <2>1, <2>3, <3>1, <4>2 DEF n
      <4>3. CASE i = n + 1
        BY <2>1, <2>2, <2>3, <4>3
      <4> QED
        BY <2>1, <3>1, <4>1, <4>2, <4>3
    <3>3. ASSUME NEW i \in 1..(n + 1), NEW j \in 1..(n + 1),
                 versions'[i].version = versions'[j].version
          PROVE  i = j
      BY <2>1, <2>2, <2>3, <3>1, <3>3 DEF n
    <3> QED
      BY <2>1, <3>2, <3>3
  <2>7. GraphIsActivated'
    BY <2>1, <2>2 DEF GraphIsActivated
  <2> QED
    BY <2>5, <2>6, <2>7 DEF VersionsInv
<1> QED
  BY <1>1, <1>2, PublishOrKeep

\* A version is superseded at most: nothing else of the history changes.
LEMMA VersionsAreFinalStep ==
  ASSUME PolicyAssumption, TypeOK, VersionsExist, VersionsInv, TypeOK',
         NEW r \in Requests, Class(r), versions' # versions
  PROVE  /\ Len(versions') >= Len(versions)
         /\ \A i \in 1..Len(versions) : versions'[i] \in {versions[i], Superseded(versions[i])}
<1>1. Publishes(r)
  BY PublishOrKeep
<1>2. /\ Len(versions) \in Nat /\ Len(versions') = Len(versions) + 1
      /\ \A i \in 1..Len(versions) : versions'[i] \in {versions[i], Superseded(versions[i])}
  BY <1>1, PublishEffect
<1> QED
  BY <1>2

-----------------------------------------------------------------------------
(* The history that is promised *)

Entries(rows) == [i \in 1..Len(rows) |->
  [version |-> rows[i].version, fingerprint |-> rows[i].fingerprint, graph |-> rows[i].graph]]

EntryRows == [version : VersionNames, fingerprint : Fingerprints, graph : Graphs]

LEMMA EntryTypes ==
  ASSUME NEW rows \in Seq(VersionRows)
  PROVE  /\ Entries(rows) \in Seq(EntryRows)
         /\ Len(Entries(rows)) = Len(rows)
         /\ \A i \in 1..Len(rows) : Entries(rows)[i] =
              [version |-> rows[i].version, fingerprint |-> rows[i].fingerprint,
               graph |-> rows[i].graph]
<1>1. Len(rows) \in Nat /\ \A i \in 1..Len(rows) : rows[i] \in VersionRows
  OBVIOUS
<1>2. \A i \in 1..Len(rows) : Entries(rows)[i] \in EntryRows
  BY <1>1 DEF Entries, EntryRows, VersionRows
<1>3. Entries(rows) = [i \in 1..Len(rows) |-> Entries(rows)[i]]
  BY DEF Entries
<1>4. Entries(rows) \in [1..Len(rows) -> EntryRows]
  BY <1>2, <1>3
<1> QED
  BY <1>1, <1>4, SeqDef, LenProperties DEF Entries

LEMMA HistoryInitially ==
  ASSUME PolicyAssumption, Init
  PROVE  History!HistoryInit
<1>1. versions = InitialVersions /\ InitialVersions \in Seq(VersionRows)
      /\ InitialVersions # <<>> /\ graph = versions[Len(versions)].graph
  BY DEF Init, PolicyAssumption
<1>2. Len(versions) \in 1..Len(versions)
  BY <1>1
<1>3. /\ Len(Entries(versions)) = Len(versions)
      /\ Entries(versions)[Len(versions)] =
           [version |-> versions[Len(versions)].version,
            fingerprint |-> versions[Len(versions)].fingerprint,
            graph |-> versions[Len(versions)].graph]
  BY <1>1, <1>2, EntryTypes
<1>4. Entries(versions)[Len(Entries(versions))].graph = graph
  BY <1>1, <1>3
<1>5. Entries(versions) = Entries(InitialVersions)
  BY <1>1
<1> QED
  BY <1>4, <1>5 DEF History!HistoryInit, History!Last, Entries

LEMMA HistoryStep ==
  ASSUME PolicyAssumption, TypeOK, VersionsExist, VersionsInv, TypeOK',
         NEW r \in Requests, Class(r)
  PROVE  [History!Activate]_<<Entries(versions), graph>>
<1>1. CASE UNCHANGED <<versions, graph>>
  BY <1>1 DEF Entries
<1>2. CASE Publishes(r)
  <2> DEFINE n == Len(versions)
             old == Entries(versions)
             new == Entries(versions)'
  <2>1. /\ n \in Nat \ {0}
        /\ versions \in Seq(VersionRows) /\ versions' \in Seq(VersionRows)
        /\ Len(versions') = n + 1
        /\ \A i \in 1..n : versions'[i] \in {versions[i], Superseded(versions[i])}
        /\ \A i \in 1..n : versions[i].version # NewVersion(r)
    BY <1>2, PublishEffect DEF TypeOK
  <2>2. versions'[n + 1].version = NewVersion(r) /\ versions'[n + 1].graph = graph'
    <3>1. versions'[n + 1] =
            [version |-> NewVersion(r), fingerprint |-> NewFingerprint(r), status |-> "active",
             previous |-> ActiveVersion(r), graph |-> graph']
      BY <1>2, PublishEffect
    <3> QED
      BY <3>1
  <2>3. /\ old \in Seq(EntryRows) /\ Len(old) = n
        /\ \A i \in 1..n : old[i] =
             [version |-> versions[i].version, fingerprint |-> versions[i].fingerprint,
              graph |-> versions[i].graph]
    BY <2>1, EntryTypes
  <2>4. /\ new = Entries(versions')
        /\ new \in Seq(EntryRows) /\ Len(new) = n + 1
        /\ \A i \in 1..(n + 1) : new[i] =
             [version |-> versions'[i].version, fingerprint |-> versions'[i].fingerprint,
              graph |-> versions'[i].graph]
    <3>1. new = Entries(versions')
      BY DEF Entries
    <3> QED
      BY <2>1, <3>1, EntryTypes
  <2>5. \A i \in 1..n : new[i] = old[i]
    <3> TAKE i \in 1..n
    <3>1. versions[i] \in VersionRows
      BY <2>1
    <3>2. versions'[i].version = versions[i].version
          /\ versions'[i].fingerprint = versions[i].fingerprint
          /\ versions'[i].graph = versions[i].graph
      BY <2>1, <3>1, SupersededRow
    <3> QED
      BY <2>1, <2>3, <2>4, <3>2
  <2>6. new[n + 1].version = NewVersion(r) /\ new[n + 1].graph = graph'
    BY <2>1, <2>2, <2>4
  <2>7. \A i \in 1..n : old[i].version # NewVersion(r)
    <3> TAKE i \in 1..n
    <3>1. old[i] = [version |-> versions[i].version, fingerprint |-> versions[i].fingerprint,
                    graph |-> versions[i].graph]
      BY <2>3
    <3>2. old[i].version = versions[i].version
      BY <3>1
    <3> QED
      BY <2>1, <3>2
  <2> HIDE DEF n
  <2>8. SubSeq(new, 1, Len(old)) = old
    <3>1. SubSeq(new, 1, n) \in Seq(EntryRows) /\ Len(SubSeq(new, 1, n)) = n
          /\ \A i \in 1..n : SubSeq(new, 1, n)[i] = new[i]
      BY <2>1, <2>4, SubSeqProperties
    <3> QED
      BY <2>1, <2>3, <2>5, <3>1, SeqEqual
  <2>9. /\ Len(new) = Len(old) + 1
        /\ SubSeq(new, 1, Len(old)) = old
        /\ ~\E i \in 1..Len(old) : old[i].version = new[Len(new)].version
        /\ graph' = new[Len(new)].graph
    <3> HIDE DEF old, new
    <3> QED
      BY <2>1, <2>3, <2>4, <2>6, <2>7, <2>8
  <2> QED
    BY <2>9, Zenon DEF History!Activate, History!Known, Entries
<1> QED
  BY <1>1, <1>2, PublishOrKeep

-----------------------------------------------------------------------------
(* Keys *)

\* A key is locked from its reservation to the end of the transaction, and what
\* the transaction knows of its row stays true.
KeyIsHeld ==
  \A r \in Requests : Keyed(r) /\ pc[r] \in {"active", "write", "replay"} =>
    /\ keyLock[Ask[r].key] = r
    /\ pc[r] # "replay" => idem[Ask[r].key].status = "absent"
    /\ pc[r] = "replay" => /\ idem[Ask[r].key].status = "succeeded"
                           /\ idem[Ask[r].key].version = KeyRow(r).version

\* What a mutation records.
LEMMA InstallsRecords ==
  ASSUME PolicyAssumption, TypeOK, VersionsExist, NEW r \in Requests, Mutate(r)
  PROVE  \E v \in VersionNames :
           Record(r, v) /\ (Keyed(r) => v = NewVersion(r) /\ Publishes(r))
<1>1. InFlight(r) /\ NewDraft(r).version \in VersionNames /\ NewVersion(r) \in VersionNames
      /\ Version(r) \in VersionNames
  BY VersionTypes, RequestTypes DEF Mutate, InFlight, DraftRows
<1>2. CASE BeginDraft(r)
  BY <1>1, <1>2 DEF BeginDraft, Keyed
<1>3. CASE ApplyChange(r) \/ RequestReview(r)
  BY <1>1, <1>3 DEF ApplyChange, RequestReview, Keyed
<1>4. CASE PromoteDraft(r)
  <2>1. Record(r, Version(r)) /\ Version(r) = NewVersion(r)
    BY <1>4 DEF PromoteDraft, NewVersion
  <2>2. Publishes(r)
    BY <1>4 DEF PromoteDraft, Publishes, Mutate, TargetKnown
  <2> QED
    BY <1>1, <2>1, <2>2
<1>5. CASE RollbackVersion(r)
  <2>1. Publishes(r)
    BY <1>5 DEF RollbackVersion, Publishes, Mutate
  <2> QED
    BY <1>1, <1>5, <2>1 DEF RollbackVersion
<1> QED
  BY <1>2, <1>3, <1>4, <1>5 DEF Mutate

\* How a step changes the rows of keys.
LEMMA KeyRowSteps ==
  ASSUME PolicyAssumption, TypeOK, VersionsExist, StepIsOwn, KeyIsHeld,
         NEW r \in Requests, Class(r)
  PROVE  /\ \A k \in Keys : idem'[k] # idem[k] => Keyed(r) /\ Ask[r].key = k
                                                  /\ keyLock[k] = r
         /\ Replays(r) => \A k \in Keys :
              /\ idem'[k].status = idem[k].status /\ idem'[k].version = idem[k].version
              /\ idem'[k].audit = idem[k].audit
         /\ Installs(r) => \A k \in Keys : Keyed(r) /\ Ask[r].key = k =>
              /\ idem[k].status = "absent"
              /\ idem'[k].status = "succeeded" /\ idem'[k].version = NewVersion(r)
              /\ idem'[k].audit = Len(audits) + 1
         /\ ~Installs(r) => UNCHANGED audits
         /\ ~Installs(r) /\ ~Replays(r) => UNCHANGED idem
<1>1. CASE Installs(r)
  <2>1. PICK v \in VersionNames : Record(r, v) /\ (Keyed(r) => v = NewVersion(r) /\ Publishes(r))
    BY <1>1, InstallsRecords DEF Installs
  <2>2. pc[r] = "write"
    BY <1>1 DEF Installs, Mutate
  <2>3. CASE Keyed(r)
    <3>1. Ask[r].key \in Keys /\ keyLock[Ask[r].key] = r /\ idem[Ask[r].key].status = "absent"
      BY <2>2, <2>3, RequestTypes DEF KeyIsHeld
    <3>2. idem' = [idem EXCEPT ![Ask[r].key] =
                    [status |-> "succeeded", intent |-> Intent(r), version |-> NewVersion(r),
                     audit |-> Len(audits) + 1, replays |-> 0]]
      BY <2>1, <2>3 DEF Record
    <3>3. ~Replays(r)
      BY <2>2 DEF Replays, InstallReplay
    <3> QED
      BY <1>1, <2>3, <3>1, <3>2, <3>3 DEF TypeOK
  <2>4. CASE ~Keyed(r)
    BY <1>1, <2>1, <2>2, <2>4 DEF Record, Replays, InstallReplay
  <2> QED
    BY <2>3, <2>4
<1>2. CASE Replays(r)
  <2>1. pc[r] = "replay" /\ Keyed(r) /\ Ask[r].key \in Keys /\ keyLock[Ask[r].key] = r
    BY <1>2, RequestTypes DEF Replays, InstallReplay, StepIsOwn, KeyIsHeld
  <2>2. idem' = [idem EXCEPT ![Ask[r].key] =
                  [idem[Ask[r].key] EXCEPT !.replays = idem[Ask[r].key].replays + 1]]
        /\ UNCHANGED audits
    BY <1>2 DEF Replays, InstallReplay
  <2>3. idem[Ask[r].key] \in KeyRows
    BY <2>1 DEF TypeOK
  <2>4. ASSUME NEW row \in KeyRows
        PROVE  LET new == [row EXCEPT !.replays = row.replays + 1]
               IN  new.status = row.status /\ new.version = row.version /\ new.audit = row.audit
    BY DEF KeyRows
  <2>5. /\ idem'[Ask[r].key].status = idem[Ask[r].key].status
        /\ idem'[Ask[r].key].version = idem[Ask[r].key].version
        /\ idem'[Ask[r].key].audit = idem[Ask[r].key].audit
    BY <2>1, <2>2, <2>3, <2>4 DEF TypeOK
  <2>6. \A k \in Keys : k # Ask[r].key => idem'[k] = idem[k]
    BY <2>1, <2>2 DEF TypeOK
  <2>7. ~Installs(r)
    BY <2>1 DEF Installs, Mutate
  <2> QED
    BY <1>2, <2>1, <2>2, <2>5, <2>6, <2>7
<1>3. CASE ~Installs(r) /\ ~Replays(r)
  <2>1. UNCHANGED <<idem, audits>>
    BY <1>3 DEF Class, Begin, Advances, LoadDraft, Reserve, ReserveReplay, LoadActive, Aborts,
       LoseAnswer, Retry, db
  <2> QED
    BY <1>3, <2>1
<1> QED
  BY <1>1, <1>2, <1>3

LEMMA KeyIsHeldStep ==
  ASSUME PolicyAssumption, TypeOK, VersionsExist, StepIsOwn, KeyIsHeld, StepIsOwn', TypeOK',
         NEW r \in Requests, Class(r)
  PROVE  KeyIsHeld'
<1> SUFFICES ASSUME NEW s \in Requests, Keyed(s), pc'[s] \in {"active", "write", "replay"}
             PROVE  /\ keyLock'[Ask[s].key] = s
                    /\ pc'[s] # "replay" => idem'[Ask[s].key].status = "absent"
                    /\ pc'[s] = "replay" => /\ idem'[Ask[s].key].status = "succeeded"
                                            /\ idem'[Ask[s].key].version = KeyRow(s)'.version
  BY DEF KeyIsHeld, Keyed
<1> DEFINE k == Ask[s].key
<1>1. k \in Keys /\ idem[k] \in KeyRows /\ None \notin Requests
  BY RequestTypes DEF TypeOK, PolicyAssumption
<1>2. CASE s # r
  <2>1. pc'[s] = pc[s] /\ snap'[s] = snap[s]
    <3>1. CASE Begin(r)
      BY <1>2, <3>1 DEF Begin, GoTo, TypeOK
    <3>2. CASE Advances(r)
      BY <1>2, <3>2 DEF Advances, LoadDraft, Reserve, ReserveReplay, LoadActive, GoTo, TypeOK
    <3>3. CASE Aborts(r) \/ Installs(r) \/ Replays(r)
      BY <1>2, <3>3 DEF Aborts, Installs, Replays, EndTransaction, GoTo, TypeOK
    <3>4. CASE LoseAnswer(r) \/ Retry(r)
      BY <1>2, <3>4 DEF LoseAnswer, Retry, GoTo, TypeOK
    <3> QED
      BY <3>1, <3>2, <3>3, <3>4 DEF Class
  <2>2. /\ keyLock[k] = s
        /\ pc[s] # "replay" => idem[k].status = "absent"
        /\ pc[s] = "replay" => idem[k].status = "succeeded" /\ idem[k].version = KeyRow(s).version
    BY <2>1 DEF KeyIsHeld
  <2>3. idem'[k] = idem[k]
    BY <1>1, <1>2, <2>2, KeyRowSteps
  <2>4. keyLock'[k] = s
    <3>1. CASE Begin(r)
      BY <2>2, <3>1 DEF Begin, locks
    <3>2. CASE Advances(r)
      BY <1>1, <2>2, <3>2 DEF Advances, LoadDraft, Reserve, ReserveReplay, Reserving, LoadActive, TypeOK
    <3>3. CASE Aborts(r) \/ Installs(r) \/ Replays(r)
      BY <1>1, <1>2, <2>2, <3>3 DEF Aborts, Installs, Replays, EndTransaction
    <3>4. CASE LoseAnswer(r) \/ Retry(r)
      BY <2>2, <3>4 DEF LoseAnswer, Retry, locks
    <3> QED
      BY <3>1, <3>2, <3>3, <3>4 DEF Class
  <2> QED
    BY <2>1, <2>2, <2>3, <2>4 DEF KeyRow
<1>3. CASE s = r
  <2>1. CASE Begin(r)
    BY <1>3, <2>1 DEF Begin, GoTo, TypeOK, Keyed
  <2>2. CASE LoadDraft(r)
    BY <1>3, <2>2 DEF LoadDraft, GoTo, TypeOK, Keyed, StepIsOwn
  <2>3. CASE Reserve(r)
    <3>1. keyLock' = [keyLock EXCEPT ![k] = r] /\ pc' = [pc EXCEPT ![r] = "active"]
          /\ idem' = idem /\ idem[k] = KeyRow(r) /\ KeyRow(r).status # "succeeded"
      BY <1>3, <2>3 DEF Reserve, RowInSnapshot, KeyInUse, GoTo, db
    <3>2. idem[k].status = "absent"
      BY <1>1, <3>1 DEF KeyRows
    <3> QED
      BY <1>1, <1>3, <3>1, <3>2 DEF TypeOK
  <2>4. CASE ReserveReplay(r)
    <3>1. keyLock' = [keyLock EXCEPT ![k] = r] /\ pc' = [pc EXCEPT ![r] = "replay"]
          /\ idem' = idem /\ snap' = snap /\ idem[k] = KeyRow(r)
          /\ KeyRow(r).status = "succeeded"
      BY <1>3, <2>4 DEF ReserveReplay, RowInSnapshot, KeyInUse, GoTo, db
    <3> QED
      BY <1>1, <1>3, <3>1 DEF TypeOK, KeyRow
  <2>5. CASE LoadActive(r)
    <3>1. pc[r] = "active" /\ pc' = [pc EXCEPT ![r] = "write"] /\ UNCHANGED <<db, keyLock>>
      BY <2>5 DEF LoadActive, GoTo
    <3> QED
      BY <1>3, <3>1 DEF TypeOK, KeyIsHeld, db
  <2>6. CASE Aborts(r) \/ Installs(r) \/ Replays(r)
    BY <1>3, <2>6 DEF Aborts, Installs, Replays, EndTransaction, GoTo, TypeOK
  <2>7. CASE LoseAnswer(r) \/ Retry(r)
    BY <1>3, <2>7 DEF LoseAnswer, Retry, GoTo, TypeOK
  <2> QED
    BY <2>1, <2>2, <2>3, <2>4, <2>5, <2>6, <2>7 DEF Class, Advances
<1> QED
  BY <1>2, <1>3

\* A key that has not succeeded has no effect, and one that has points at a
\* version that exists.
KeysAreSpent ==
  \A k \in Keys :
    /\ idem[k].status # "succeeded" =>
         \A i \in 1..Len(audits) : Ask[audits[i].request].key # k
    /\ idem[k].status = "succeeded" =>
         \E i \in 1..Len(versions) : versions[i].version = idem[k].version

\* Published versions are known for ever.
LEMMA KnownForEver ==
  ASSUME PolicyAssumption, TypeOK, VersionsExist, VersionsInv, TypeOK',
         NEW r \in Requests, Class(r)
  PROVE  /\ \A v : (\E i \in 1..Len(versions) : versions[i].version = v)
                     => \E i \in 1..Len(versions') : versions'[i].version = v
         /\ Publishes(r) => \E i \in 1..Len(versions') : versions'[i].version = NewVersion(r)
<1>1. CASE Publishes(r)
  <2>1. /\ Len(versions) \in Nat /\ versions \in Seq(VersionRows)
        /\ Len(versions') = Len(versions) + 1
        /\ \A i \in 1..Len(versions) : versions'[i] \in {versions[i], Superseded(versions[i])}
    BY <1>1, PublishEffect DEF TypeOK
  <2>2. \A i \in 1..Len(versions) : versions'[i].version = versions[i].version
    <3> TAKE i \in 1..Len(versions)
    <3>1. versions[i] \in VersionRows
      BY <2>1
    <3> QED
      BY <2>1, <3>1, SupersededRow
  <2>3. versions'[Len(versions) + 1].version = NewVersion(r)
    <3>1. versions'[Len(versions) + 1] =
            [version |-> NewVersion(r), fingerprint |-> NewFingerprint(r), status |-> "active",
             previous |-> ActiveVersion(r), graph |-> graph']
      BY <1>1, PublishEffect
    <3> QED
      BY <3>1
  <2>4. ASSUME NEW v, NEW i \in 1..Len(versions), versions[i].version = v
        PROVE  \E j \in 1..Len(versions') : versions'[j].version = v
    <3>1. i \in 1..Len(versions') /\ versions'[i].version = v
      BY <2>1, <2>2, <2>4
    <3> QED
      BY <3>1
  <2>5. Len(versions) + 1 \in 1..Len(versions')
    BY <2>1
  <2> QED
    BY <2>3, <2>4, <2>5
<1>2. CASE ~Publishes(r)
  BY <1>2, PublishOrKeep
<1> QED
  BY <1>1, <1>2

LEMMA OneEffectStep ==
  ASSUME PolicyAssumption, TypeOK, VersionsExist, StepIsOwn, VersionsInv, KeyIsHeld,
         KeysAreSpent, OneEffectPerKey, TypeOK', NEW r \in Requests, Class(r)
  PROVE  KeysAreSpent' /\ OneEffectPerKey'
<1>1. CASE Installs(r)
  <2>1. PICK v \in VersionNames : Record(r, v) /\ (Keyed(r) => v = NewVersion(r) /\ Publishes(r))
    BY <1>1, InstallsRecords DEF Installs
  <2> DEFINE n == Len(audits)
  <2>2. /\ n \in Nat /\ Len(audits') = n + 1
        /\ \A i \in 1..n : audits'[i] = audits[i]
        /\ audits'[n + 1] = [request |-> r, op |-> Ask[r].op, version |-> v]
    BY <2>1, RecordTypes
  <2>3. audits'[n + 1].request = r /\ audits'[n + 1].version = v
    BY <2>2
  <2>4. \A i \in 1..(n + 1) : i \in 1..n \/ i = n + 1
    BY <2>2
  <2> HIDE DEF n
  <2>5. SUFFICES ASSUME NEW k \in Keys
        PROVE  /\ idem'[k].status # "succeeded" =>
                    \A i \in 1..(n + 1) : Ask[audits'[i].request].key # k
               /\ idem'[k].status = "succeeded" =>
                    \E i \in 1..Len(versions') : versions'[i].version = idem'[k].version
               /\ \A i, j \in 1..(n + 1) :
                    Ask[audits'[i].request].key = k /\ Ask[audits'[j].request].key = k => i = j
               /\ idem'[k].status = "succeeded" =>
                    /\ idem'[k].audit \in 1..(n + 1)
                    /\ Ask[audits'[idem'[k].audit].request].key = k
                    /\ audits'[idem'[k].audit].version = idem'[k].version
    BY <2>2, <2>5 DEF KeysAreSpent, OneEffectPerKey
  <2>6. CASE Ask[r].key = k
    <3>1. Keyed(r)
      BY <2>6 DEF PolicyAssumption
    <3>2. /\ idem[k].status = "absent"
          /\ idem'[k].status = "succeeded" /\ idem'[k].version = NewVersion(r)
          /\ idem'[k].audit = n + 1
      BY <1>1, <2>6, <3>1, KeyRowSteps DEF n
    <3>3. \A i \in 1..n : Ask[audits[i].request].key # k
      BY <3>2 DEF KeysAreSpent, n
    <3>4. v = NewVersion(r) /\ \E i \in 1..Len(versions') : versions'[i].version = NewVersion(r)
      BY <2>1, <3>1, KnownForEver
    <3>5. \A i \in 1..(n + 1) : Ask[audits'[i].request].key = k => i = n + 1
      BY <2>2, <2>4, <3>3
    <3>6. n + 1 \in 1..(n + 1)
      BY <2>2
    <3> QED
      BY <2>3, <2>6, <3>2, <3>4, <3>5, <3>6
  <2>7. CASE Ask[r].key # k
    <3>1. idem'[k] = idem[k]
      BY <2>7, KeyRowSteps
    <3>2. idem[k].status = "succeeded" =>
            \E i \in 1..Len(versions') : versions'[i].version = idem[k].version
      BY KnownForEver DEF KeysAreSpent
    <3>3. /\ idem[k].status # "succeeded" => \A i \in 1..n : Ask[audits[i].request].key # k
          /\ \A i, j \in 1..n :
               Ask[audits[i].request].key = k /\ Ask[audits[j].request].key = k => i = j
          /\ idem[k].status = "succeeded" =>
               /\ idem[k].audit \in 1..n
               /\ Ask[audits[idem[k].audit].request].key = k
               /\ audits[idem[k].audit].version = idem[k].version
      BY DEF KeysAreSpent, OneEffectPerKey, n
    <3>4. \A i \in 1..(n + 1) : Ask[audits'[i].request].key = k
                                 => i \in 1..n /\ audits'[i] = audits[i]
      BY <2>2, <2>3, <2>4, <2>7
    <3>5. idem[k].status # "succeeded" =>
            \A i \in 1..(n + 1) : Ask[audits'[i].request].key # k
      BY <3>3, <3>4
    <3>6. \A i, j \in 1..(n + 1) :
            Ask[audits'[i].request].key = k /\ Ask[audits'[j].request].key = k => i = j
      BY <3>3, <3>4
    <3>7. idem[k].status = "succeeded" =>
            /\ idem[k].audit \in 1..(n + 1)
            /\ Ask[audits'[idem[k].audit].request].key = k
            /\ audits'[idem[k].audit].version = idem[k].version
      BY <2>2, <3>3
    <3> QED
      BY <3>1, <3>2, <3>5, <3>6, <3>7
  <2> QED
    BY <2>6, <2>7
<1>2. CASE ~Installs(r)
  <2>1. /\ audits' = audits
        /\ \A k \in Keys : /\ idem'[k].status = idem[k].status
                           /\ idem'[k].version = idem[k].version
                           /\ idem'[k].audit = idem[k].audit
    BY <1>2, KeyRowSteps
  <2>2. ASSUME NEW k \in Keys, idem[k].status = "succeeded"
        PROVE  \E i \in 1..Len(versions') : versions'[i].version = idem[k].version
    BY <2>2, KnownForEver DEF KeysAreSpent
  <2>3. KeysAreSpent'
    BY <2>1, <2>2 DEF KeysAreSpent
  <2>4. OneEffectPerKey'
    BY <2>1 DEF OneEffectPerKey
  <2> QED
    BY <2>3, <2>4
<1> QED
  BY <1>1, <1>2

LEMMA AnswersStep ==
  ASSUME PolicyAssumption, TypeOK, VersionsExist, StepIsOwn, VersionsInv, KeyIsHeld,
         KeysAreSpent, AnswersAreTrue, TypeOK', KeysAreSpent', NEW r \in Requests, Class(r)
  PROVE  AnswersAreTrue'
<1> SUFFICES ASSUME NEW s \in Requests, Keyed(s), answer'[s].kind \in {"ok", "replayed"}
             PROVE  /\ idem'[Ask[s].key].status = "succeeded"
                    /\ idem'[Ask[s].key].version = answer'[s].version
  BY RequestTypes DEF AnswersAreTrue, KeysAreSpent, Keyed
<1> DEFINE k == Ask[s].key
<1>1. k \in Keys
  BY RequestTypes
<1>2. ASSUME answer'[s] = answer[s]
      PROVE  idem'[k].status = "succeeded" /\ idem'[k].version = answer'[s].version
  <2>1. idem[k].status = "succeeded" /\ idem[k].version = answer[s].version
    BY <1>2 DEF AnswersAreTrue
  <2>2. idem'[k].status = idem[k].status /\ idem'[k].version = idem[k].version
    <3>1. CASE Installs(r)
      <4>1. ~(Keyed(r) /\ Ask[r].key = k)
        BY <1>1, <2>1, <3>1, KeyRowSteps
      <4> QED
        BY <1>1, <4>1, KeyRowSteps
    <3>2. CASE ~Installs(r)
      BY <1>1, <3>2, KeyRowSteps
    <3> QED
      BY <3>1, <3>2
  <2> QED
    BY <1>2, <2>1, <2>2
<1>3. CASE Begin(r) \/ Advances(r)
  BY <1>2, <1>3 DEF Begin, Advances, LoadDraft, Reserve, ReserveReplay, LoadActive
<1>4. CASE Aborts(r)
  <2>1. s # r
    BY <1>4 DEF Aborts, TypeOK
  <2> QED
    BY <1>2, <1>4, <2>1 DEF Aborts, TypeOK
<1>5. CASE Installs(r)
  <2>1. CASE s # r
    BY <1>2, <1>5, <2>1 DEF Installs, TypeOK
  <2>2. CASE s = r
    <3>1. answer'[s] = Answer("ok", "none", NewVersion(r))
      BY <1>5, <2>2 DEF Installs, TypeOK
    <3>2. answer'[s].version = NewVersion(r)
      BY <3>1 DEF Answer
    <3> QED
      BY <1>1, <1>5, <2>2, <3>2, KeyRowSteps
  <2> QED
    BY <2>1, <2>2
<1>6. CASE Replays(r)
  <2>1. CASE s # r
    BY <1>2, <1>6, <2>1 DEF Replays, TypeOK
  <2>2. CASE s = r
    <3>1. answer'[s] = Answer("replayed", "none", KeyRow(r).version)
      BY <1>6, <2>2 DEF Replays, TypeOK
    <3>2. answer'[s].version = KeyRow(r).version
      BY <3>1 DEF Answer
    <3>3. idem[k].status = "succeeded" /\ idem[k].version = KeyRow(r).version
      BY <1>6, <2>2 DEF Replays, InstallReplay, KeyIsHeld
    <3> QED
      BY <1>1, <1>6, <2>2, <3>2, <3>3, KeyRowSteps
  <2> QED
    BY <2>1, <2>2
<1>7. CASE LoseAnswer(r) \/ Retry(r)
  <2>1. s # r
    BY <1>7, AnswerTypes DEF LoseAnswer, Retry, TypeOK
  <2> QED
    BY <1>2, <1>7, <2>1 DEF LoseAnswer, Retry, TypeOK
<1> QED
  BY <1>3, <1>4, <1>5, <1>6, <1>7 DEF Class

-----------------------------------------------------------------------------
(* Drafts *)

UsesDraft(r) == Ask[r].op \in {"apply_change", "request_review", "promote"}

\* A draft is locked from when it is read to the end of the transaction, and
\* stays as it was read.
DraftIsHeld ==
  \A r \in Requests : UsesDraft(r) /\ pc[r] \in {"reserve", "active", "write", "replay"} =>
    /\ draftLock[Ask[r].draft] = r
    /\ drafts[Ask[r].draft] = Draft(r)
    /\ Draft(r).status # "absent"
    /\ Ask[r].op = "promote" /\ pc[r] = "write" => Draft(r).status = "review_requested"

\* How a step changes a draft.
LEMMA DraftSteps ==
  ASSUME PolicyAssumption, TypeOK, VersionsExist, StepIsOwn, DraftIsHeld,
         NEW r \in Requests, Class(r), NEW d \in Drafts, drafts'[d] # drafts[d]
  PROVE  /\ Installs(r) /\ Ask[r].draft = d
         /\ \/ drafts[d].status = "absent" /\ drafts'[d].status = "draft"
               /\ Ask[r].op = "begin_draft"
            \/ draftLock[d] = r /\ drafts[d].status = "draft"
               /\ drafts'[d].status \in {"draft", "review_requested"}
               /\ Ask[r].op \in {"apply_change", "request_review"}
            \/ draftLock[d] = r /\ drafts[d].status = "review_requested"
               /\ drafts'[d].status = "promoted" /\ drafts'[d].promoted = Version(r)
               /\ drafts'[d].changes = drafts[d].changes
               /\ drafts'[d].fingerprint = drafts[d].fingerprint
               /\ Ask[r].op = "promote"
<1>1. Installs(r)
  BY DEF Class, Begin, Advances, LoadDraft, Reserve, ReserveReplay, LoadActive, Aborts,
     Replays, InstallReplay, LoseAnswer, Retry, db
<1>2. pc[r] = "write" /\ Ask[r].draft \in Drafts /\ drafts \in [Drafts -> DraftRows]
  BY <1>1, RequestTypes DEF Installs, Mutate, TypeOK, Asks
<1>3. drafts[d] \in DraftRows
  BY <1>2
<1>4. UsesDraft(r) => /\ draftLock[Ask[r].draft] = r
                      /\ drafts[Ask[r].draft] = Draft(r)
                      /\ Ask[r].op = "promote" => Draft(r).status = "review_requested"
  BY <1>2 DEF DraftIsHeld
<1>5. CASE BeginDraft(r)
  <2>1. drafts' = [drafts EXCEPT ![Ask[r].draft] = NewDraft(r)]
    BY <1>5 DEF BeginDraft
  <2>2. NewDraft(r).status = "draft"
    BY DEF NewDraft, NoDraft
  <2>3. d = Ask[r].draft /\ drafts'[d] = NewDraft(r)
    BY <1>2, <2>1
  <2>4. drafts[d].status = "absent"
    BY <1>5, <2>3 DEF BeginDraft, DraftFits
  <2> QED
    BY <1>1, <1>5, <2>2, <2>3, <2>4 DEF BeginDraft
<1>6. CASE ApplyChange(r)
  <2> DEFINE fingerprint == [seed |-> Fingerprint(r).seed,
               links |-> Append(Fingerprint(r).links,
                 [draft |-> Ask[r].draft, base |-> Base(r), version |-> Version(r),
                  seq |-> ChangeSeq(r), change |-> Ask[r].change])]
             row == drafts[Ask[r].draft]
             changed == [[row EXCEPT !.changes[ChangeSeq(r)] = Ask[r].change]
                           EXCEPT !.fingerprint = fingerprint]
  <2>1. drafts' = [drafts EXCEPT ![Ask[r].draft] = changed]
    BY <1>2, <1>6 DEF ApplyChange, AddChange
  <2>2. row \in DraftRows
    BY <1>2
  <2>3. changed.status = row.status
    <3> HIDE DEF fingerprint
    <3> QED
      BY <2>2 DEF DraftRows
  <2> HIDE DEF changed
  <2>4. d = Ask[r].draft /\ drafts'[d] = changed
    BY <1>2, <2>1
  <2>5. drafts[d].status = "draft"
    BY <1>4, <1>6, <2>4 DEF ApplyChange, AddChange, Writable, UsesDraft
  <2> QED
    BY <1>1, <1>4, <1>6, <2>3, <2>4, <2>5 DEF ApplyChange, UsesDraft
<1>7. CASE RequestReview(r)
  <2> DEFINE row == drafts[Ask[r].draft]
             reviewed == [[row EXCEPT !.status = "review_requested"]
                            EXCEPT !.fingerprint = Fingerprint(r)]
  <2>1. drafts' = [drafts EXCEPT ![Ask[r].draft] = reviewed]
    BY <1>2, <1>7 DEF RequestReview
  <2>2. row \in DraftRows
    BY <1>2
  <2>3. reviewed.status = "review_requested"
    BY <2>2 DEF DraftRows
  <2> HIDE DEF reviewed
  <2>4. d = Ask[r].draft /\ drafts'[d] = reviewed
    BY <1>2, <2>1
  <2>5. drafts[d].status = "draft"
    BY <1>4, <1>7, <2>4 DEF RequestReview, Writable, UsesDraft
  <2> QED
    BY <1>1, <1>4, <1>7, <2>3, <2>4, <2>5 DEF RequestReview, UsesDraft
<1>8. CASE PromoteDraft(r)
  <2> DEFINE row == drafts[Ask[r].draft]
             promoted == [[row EXCEPT !.status = "promoted"] EXCEPT !.promoted = Version(r)]
  <2>1. drafts' = [drafts EXCEPT ![Ask[r].draft] = promoted]
    BY <1>2, <1>8 DEF PromoteDraft, MarkPromoted
  <2>2. row \in DraftRows
    BY <1>2
  <2>3. /\ promoted.status = "promoted" /\ promoted.promoted = Version(r)
        /\ promoted.changes = row.changes /\ promoted.fingerprint = row.fingerprint
    BY <2>2 DEF DraftRows
  <2> HIDE DEF promoted
  <2>4. d = Ask[r].draft /\ drafts'[d] = promoted
    BY <1>2, <2>1
  <2>5. drafts[d].status = "review_requested"
    BY <1>4, <1>8, <2>4 DEF PromoteDraft, UsesDraft
  <2> QED
    BY <1>1, <1>4, <1>8, <2>3, <2>4, <2>5 DEF PromoteDraft, UsesDraft
<1>9. CASE RollbackVersion(r)
  BY <1>9 DEF RollbackVersion
<1> QED
  BY <1>1, <1>5, <1>6, <1>7, <1>8, <1>9 DEF Installs, Mutate

LEMMA DraftIsHeldStep ==
  ASSUME PolicyAssumption, TypeOK, VersionsExist, StepIsOwn, DraftIsHeld, TypeOK',
         NEW r \in Requests, Class(r)
  PROVE  DraftIsHeld'
<1> SUFFICES ASSUME NEW s \in Requests, UsesDraft(s),
                    pc'[s] \in {"reserve", "active", "write", "replay"}
             PROVE  /\ draftLock'[Ask[s].draft] = s
                    /\ drafts'[Ask[s].draft] = Draft(s)'
                    /\ Draft(s)'.status # "absent"
                    /\ Ask[s].op = "promote" /\ pc'[s] = "write"
                         => Draft(s)'.status = "review_requested"
  BY DEF DraftIsHeld, UsesDraft
<1> DEFINE d == Ask[s].draft
<1>1. d \in Drafts /\ None \notin Requests
  BY RequestTypes DEF PolicyAssumption, Asks
<1>2. CASE s # r
  <2>1. pc'[s] = pc[s] /\ snap'[s] = snap[s]
    <3>1. CASE Begin(r)
      BY <1>2, <3>1 DEF Begin, GoTo, TypeOK
    <3>2. CASE Advances(r)
      BY <1>2, <3>2 DEF Advances, LoadDraft, Reserve, ReserveReplay, LoadActive, GoTo, TypeOK
    <3>3. CASE Aborts(r) \/ Installs(r) \/ Replays(r)
      BY <1>2, <3>3 DEF Aborts, Installs, Replays, EndTransaction, GoTo, TypeOK
    <3>4. CASE LoseAnswer(r) \/ Retry(r)
      BY <1>2, <3>4 DEF LoseAnswer, Retry, GoTo, TypeOK
    <3> QED
      BY <3>1, <3>2, <3>3, <3>4 DEF Class
  <2>2. /\ draftLock[d] = s /\ drafts[d] = Draft(s) /\ Draft(s).status # "absent"
        /\ Ask[s].op = "promote" /\ pc[s] = "write" => Draft(s).status = "review_requested"
    BY <2>1 DEF DraftIsHeld
  <2>3. drafts'[d] = drafts[d]
    BY <1>1, <1>2, <2>2, DraftSteps
  <2>4. draftLock'[d] = s
    <3>1. CASE Begin(r) \/ LoseAnswer(r) \/ Retry(r)
      BY <2>2, <3>1 DEF Begin, LoseAnswer, Retry, locks
    <3>2. CASE LoadDraft(r)
      <4>1. draftLock' = [draftLock EXCEPT ![Ask[r].draft] = r] /\ draftLock[Ask[r].draft] = None
        BY <3>2 DEF LoadDraft
      <4> QED
        BY <1>1, <2>2, <4>1 DEF TypeOK
    <3>3. CASE Reserve(r) \/ ReserveReplay(r) \/ LoadActive(r)
      BY <2>2, <3>3 DEF Reserve, ReserveReplay, LoadActive
    <3>4. CASE Aborts(r) \/ Installs(r) \/ Replays(r)
      BY <1>1, <1>2, <2>2, <3>4 DEF Aborts, Installs, Replays, EndTransaction
    <3> QED
      BY <3>1, <3>2, <3>3, <3>4 DEF Class, Advances
  <2> QED
    BY <2>1, <2>2, <2>3, <2>4 DEF Draft
<1>3. CASE s = r
  <2>1. CASE Begin(r)
    BY <1>3, <2>1, RequestTypes DEF Begin, GoTo, TypeOK, UsesDraft
  <2>2. CASE LoadDraft(r)
    <3>1. /\ draftLock' = [draftLock EXCEPT ![d] = r] /\ UNCHANGED <<drafts, snap>>
          /\ pc'[s] \in {"reserve", "write"}
          /\ Ask[s].op = "promote" => pc'[s] = "reserve"
          /\ drafts[d] = Draft(s) /\ Draft(s).status # "absent"
      BY <1>3, <2>2 DEF LoadDraft, GoTo, TypeOK, DraftIsCurrent, Draft, db
    <3> QED
      BY <1>1, <1>3, <3>1 DEF TypeOK, Draft
  <2>3. CASE Reserve(r) \/ ReserveReplay(r)
    <3>1. pc[r] = "reserve" /\ UNCHANGED <<draftLock, drafts, snap>> /\ pc'[r] # "write"
      BY <2>3 DEF Reserve, ReserveReplay, Reserving, GoTo, TypeOK, db
    <3> QED
      BY <1>3, <3>1 DEF DraftIsHeld, Draft
  <2>4. CASE LoadActive(r)
    <3>1. pc[r] = "active" /\ UNCHANGED <<draftLock, drafts, snap>>
          /\ (Ask[r].op = "promote" => Draft(r).status = "review_requested")
      BY <2>4 DEF LoadActive, Promotable, db
    <3> QED
      BY <1>3, <3>1 DEF DraftIsHeld, Draft
  <2>5. CASE Aborts(r) \/ Installs(r) \/ Replays(r)
    BY <1>3, <2>5 DEF Aborts, Installs, Replays, EndTransaction, GoTo, TypeOK
  <2>6. CASE LoseAnswer(r) \/ Retry(r)
    BY <1>3, <2>6 DEF LoseAnswer, Retry, GoTo, TypeOK
  <2> QED
    BY <2>1, <2>2, <2>3, <2>4, <2>5, <2>6 DEF Class, Advances
<1> QED
  BY <1>2, <1>3

\* A draft that was sent to review only ever becomes promoted.
LEMMA ReviewFreezesStep ==
  ASSUME PolicyAssumption, TypeOK, VersionsExist, StepIsOwn, DraftIsHeld,
         NEW r \in Requests, Class(r), NEW d \in Drafts,
         drafts[d].status \in {"review_requested", "promoted"}
  PROVE  /\ drafts'[d].changes = drafts[d].changes
         /\ drafts'[d].fingerprint = drafts[d].fingerprint
         /\ drafts'[d].status \in {drafts[d].status, "promoted"}
<1>1. CASE drafts'[d] = drafts[d]
  BY <1>1
<1>2. CASE drafts'[d] # drafts[d]
  BY <1>2, DraftSteps
<1> QED
  BY <1>1, <1>2

LEMMA PromotionsStep ==
  ASSUME PolicyAssumption, TypeOK, VersionsExist, StepIsOwn, KeyIsHeld, DraftIsHeld,
         PromotionsAreRecorded, TypeOK', NEW r \in Requests, Class(r)
  PROVE  PromotionsAreRecorded'
<1> SUFFICES ASSUME NEW d \in Drafts
             PROVE  /\ drafts'[d].status = "promoted" => Promotions(d)' # {}
                    /\ \A i, j \in Promotions(d)' : i = j
                    /\ \A i \in Promotions(d)' :
                         drafts'[d].status = "promoted" /\ drafts'[d].promoted = audits'[i].version
  BY DEF PromotionsAreRecorded
<1>1. /\ drafts[d].status = "promoted" => Promotions(d) # {}
      /\ \A i, j \in Promotions(d) : i = j
      /\ \A i \in Promotions(d) :
           drafts[d].status = "promoted" /\ drafts[d].promoted = audits[i].version
  BY DEF PromotionsAreRecorded
<1>2. CASE ~Installs(r)
  <2>1. drafts'[d] = drafts[d]
    BY <1>2, DraftSteps
  <2>2. audits' = audits
    BY <1>2, KeyRowSteps
  <2>3. Promotions(d)' = Promotions(d)
    BY <2>2 DEF Promotions
  <2> QED
    BY <1>1, <2>1, <2>2, <2>3
<1>3. CASE Installs(r)
  <2> DEFINE n == Len(audits)
  <2>1. PICK v \in VersionNames : Record(r, v) /\ (Keyed(r) => v = NewVersion(r) /\ Publishes(r))
    BY <1>3, InstallsRecords DEF Installs
  <2>2. /\ n \in Nat /\ Len(audits') = n + 1
        /\ \A i \in 1..n : audits'[i] = audits[i]
        /\ audits'[n + 1] = [request |-> r, op |-> Ask[r].op, version |-> v]
    BY <2>1, RecordTypes
  <2>3. /\ audits'[n + 1].request = r /\ audits'[n + 1].op = Ask[r].op
        /\ audits'[n + 1].version = v
    BY <2>2
  <2>4. \A i \in 1..(n + 1) : i \in 1..n \/ i = n + 1
    BY <2>2
  <2>5. \A i \in 1..n : audits'[i] = audits[i] /\ i \in 1..(n + 1)
    BY <2>2
  <2>6. Promotions(d) \subseteq 1..n /\ n + 1 \in 1..(n + 1) /\ n + 1 \notin 1..n
    BY <2>2 DEF Promotions
  <2>7. CASE Ask[r].op = "promote" /\ Ask[r].draft = d
    <3>1. pc[r] = "write" /\ PromoteDraft(r)
      BY <1>3, <2>7 DEF Installs, Mutate, BeginDraft, ApplyChange, RequestReview, RollbackVersion
    <3>2. drafts[d].status = "review_requested"
      BY <2>7, <3>1 DEF DraftIsHeld, UsesDraft
    <3>3. drafts \in [Drafts -> DraftRows] /\ drafts[d] \in DraftRows
      BY DEF TypeOK
    <3>4. drafts'[d].status = "promoted" /\ drafts'[d].promoted = Version(r)
      <4>1. ASSUME NEW row \in DraftRows
            PROVE  LET promoted == [[row EXCEPT !.status = "promoted"] EXCEPT !.promoted = Version(r)]
                   IN  promoted.status = "promoted" /\ promoted.promoted = Version(r)
        BY DEF DraftRows
      <4>2. drafts'[d] = [[drafts[d] EXCEPT !.status = "promoted"] EXCEPT !.promoted = Version(r)]
        BY <2>7, <3>1, <3>3 DEF PromoteDraft, MarkPromoted
      <4> QED
        BY <3>3, <4>1, <4>2
    <3>5. v = Version(r)
      BY <2>1, <2>7 DEF Keyed, NewVersion
    <3>6. Promotions(d) = {}
      BY <1>1, <3>2
    <3>7. Promotions(d)' = {n + 1}
      BY <2>2, <2>3, <2>4, <2>5, <2>6, <2>7, <3>6 DEF Promotions
    <3> QED
      BY <2>3, <3>4, <3>5, <3>7
  <2>8. CASE ~(Ask[r].op = "promote" /\ Ask[r].draft = d)
    <3>1. Promotions(d)' = Promotions(d)
      BY <2>2, <2>3, <2>4, <2>5, <2>6, <2>8 DEF Promotions
    <3>2. \A i \in Promotions(d) : audits'[i] = audits[i]
      BY <2>5, <2>6
    <3>3. CASE drafts'[d] = drafts[d]
      BY <1>1, <3>1, <3>2, <3>3
    <3>4. CASE drafts'[d] # drafts[d]
      <4>1. drafts[d].status # "promoted" /\ drafts'[d].status # "promoted"
        BY <2>8, <3>4, DraftSteps
      <4> QED
        BY <1>1, <3>1, <4>1
    <3> QED
      BY <3>3, <3>4
  <2> QED
    BY <2>7, <2>8
<1> QED
  BY <1>2, <1>3

-----------------------------------------------------------------------------
(* The inductive invariant, and what follows from it *)

IInv ==
  /\ TypeOK /\ VersionsExist /\ StepIsOwn
  /\ VersionsInv
  /\ KeyIsHeld /\ KeysAreSpent /\ OneEffectPerKey /\ AnswersAreTrue
  /\ DraftIsHeld /\ PromotionsAreRecorded

LEMMA InitInvariant ==
  ASSUME PolicyAssumption, Init
  PROVE  IInv
<1>1. TypeOK /\ VersionsExist /\ StepIsOwn
  BY TypeInit
<1>2. /\ versions = InitialVersions /\ Len(versions) \in Nat /\ versions # <<>>
      /\ audits = <<>> /\ drafts = InitialDrafts
      /\ \A r \in Requests : pc[r] = "idle" /\ answer[r] = NoAnswer
      /\ \A k \in Keys : idem[k].status = "absent"
  BY DEF Init, FreeKey, PolicyAssumption
<1>3. VersionsInv
  BY <1>2 DEF Init, PolicyAssumption, VersionsInv, NewestIsActive, LineageIsUnbroken,
     GraphIsActivated
<1>4. KeyIsHeld /\ DraftIsHeld
  BY <1>2 DEF KeyIsHeld, DraftIsHeld
<1>5. Len(audits) = 0 /\ 1..0 = {}
  BY <1>2
<1>6. KeysAreSpent /\ OneEffectPerKey
  BY <1>2, <1>5 DEF KeysAreSpent, OneEffectPerKey
<1>7. AnswersAreTrue
  BY <1>2, AnswerTypes DEF AnswersAreTrue
<1>8. PromotionsAreRecorded
  BY <1>2, <1>5 DEF PromotionsAreRecorded, Promotions, PolicyAssumption
<1> QED
  BY <1>1, <1>3, <1>4, <1>6, <1>7, <1>8 DEF IInv

LEMMA StepInvariant ==
  ASSUME PolicyAssumption, IInv, [Next]_vars
  PROVE  IInv'
<1>1. TypeOK' /\ VersionsExist' /\ StepIsOwn'
      /\ (UNCHANGED vars \/ \E r \in Requests : Class(r))
  BY TypeStep DEF IInv
<1>2. CASE UNCHANGED vars
  BY <1>2 DEF vars, db, locks, IInv, TypeOK, VersionsExist, InFlight, StepIsOwn, Keyed, VersionsInv,
     NewestIsActive, LineageIsUnbroken, GraphIsActivated, KeyIsHeld, KeyRow, KeysAreSpent,
     OneEffectPerKey, AnswersAreTrue, DraftIsHeld, UsesDraft, Draft, PromotionsAreRecorded, Promotions
<1>3. CASE \E r \in Requests : Class(r)
  <2>1. PICK r \in Requests : Class(r)
    BY <1>3
  <2>2. VersionsInv'
    BY <1>1, <2>1, VersionsStep DEF IInv
  <2>3. KeyIsHeld'
    BY <1>1, <2>1, KeyIsHeldStep DEF IInv
  <2>4. KeysAreSpent' /\ OneEffectPerKey'
    BY <1>1, <2>1, OneEffectStep DEF IInv
  <2>5. AnswersAreTrue'
    BY <1>1, <2>1, <2>4, AnswersStep DEF IInv
  <2>6. DraftIsHeld' /\ PromotionsAreRecorded'
    BY <1>1, <2>1, DraftIsHeldStep, PromotionsStep DEF IInv
  <2> QED
    BY <1>1, <2>2, <2>3, <2>4, <2>5, <2>6 DEF IInv
<1> QED
  BY <1>1, <1>2, <1>3

\* The conjunction of every part, and of what the locks guarantee, is inductive.
THEOREM Invariant == Spec => []IInv
<1>1. Init => IInv
  BY InitInvariant, PolicyAssumption
<1>2. IInv /\ [Next]_vars => IInv'
  BY StepInvariant, PolicyAssumption
<1> QED
  BY <1>1, <1>2, PTL DEF Spec

\* Every variable keeps its type.
THEOREM TypeCorrect == Spec => []TypeOK
<1>1. IInv => TypeOK
  BY DEF IInv
<1> QED
  BY <1>1, Invariant, PTL

\* However promotions and rollbacks race, one version is in force, the newest.
THEOREM OneVersionInForce == Spec => []NewestIsActive
<1>1. IInv => NewestIsActive
  BY DEF IInv, VersionsInv
<1> QED
  BY <1>1, Invariant, PTL

\* Every version names the one before it as its previous one: none was skipped,
\* and no two replaced the same one.
THEOREM LineageNeverForks == Spec => []LineageIsUnbroken
<1>1. IInv => LineageIsUnbroken
  BY DEF IInv, VersionsInv
<1> QED
  BY <1>1, Invariant, PTL

\* The graph that the lookups read is the one the newest version was activated
\* with.
THEOREM LookupsReadTheActiveGraph == Spec => []GraphIsActivated
<1>1. IInv => GraphIsActivated
  BY DEF IInv, VersionsInv
<1> QED
  BY <1>1, Invariant, PTL

\* However often a promotion or a rollback is sent, its key has one effect.
THEOREM EffectsAreUnique == Spec => []OneEffectPerKey
<1>1. IInv => OneEffectPerKey
  BY DEF IInv
<1> QED
  BY <1>1, Invariant, PTL

\* A draft is promoted once, and marked promoted in the transaction that does.
THEOREM DraftsArePromotedOnce == Spec => []PromotionsAreRecorded
<1>1. IInv => PromotionsAreRecorded
  BY DEF IInv
<1> QED
  BY <1>1, Invariant, PTL

\* The version a promotion or a rollback was told of, at once or by a replay,
\* is there.
THEOREM CallersAreToldTheTruth == Spec => []AnswersAreTrue
<1>1. IInv => AnswersAreTrue
  BY DEF IInv
<1> QED
  BY <1>1, Invariant, PTL

\* A draft that was sent to review keeps its changes.
THEOREM ReviewsFreeze == Spec => ReviewFreezes
<1>1. IInv /\ [Next]_vars =>
        [\A d \in Drafts : drafts[d].status \in {"review_requested", "promoted"} =>
           /\ drafts'[d].changes = drafts[d].changes
           /\ drafts'[d].fingerprint = drafts[d].fingerprint
           /\ drafts'[d].status \in {drafts[d].status, "promoted"}]_drafts
  <2> SUFFICES ASSUME IInv, [Next]_vars, drafts' # drafts,
                      NEW d \in Drafts, drafts[d].status \in {"review_requested", "promoted"}
               PROVE  /\ drafts'[d].changes = drafts[d].changes
                      /\ drafts'[d].fingerprint = drafts[d].fingerprint
                      /\ drafts'[d].status \in {drafts[d].status, "promoted"}
    OBVIOUS
  <2>1. PICK r \in Requests : Class(r)
    BY TypeStep, PolicyAssumption DEF IInv, vars, db
  <2> QED
    BY <2>1, ReviewFreezesStep, PolicyAssumption DEF IInv
<1> QED
  BY <1>1, Invariant, PTL DEF Spec, ReviewFreezes

\* The published history is never rewritten.
THEOREM HistoryIsFinal == Spec => VersionsAreFinal
<1>1. IInv /\ IInv' /\ [Next]_vars =>
        [/\ Len(versions') >= Len(versions)
         /\ \A i \in 1..Len(versions) :
              versions'[i] \in {versions[i], Superseded(versions[i])}]_versions
  <2> SUFFICES ASSUME IInv, IInv', [Next]_vars, versions' # versions
               PROVE  /\ Len(versions') >= Len(versions)
                      /\ \A i \in 1..Len(versions) :
                           versions'[i] \in {versions[i], Superseded(versions[i])}
    OBVIOUS
  <2>1. PICK r \in Requests : Class(r)
    BY TypeStep, PolicyAssumption DEF IInv, vars, db
  <2> QED
    BY <2>1, VersionsAreFinalStep, PolicyAssumption DEF IInv
<1> QED
  BY <1>1, Invariant, PTL DEF Spec, VersionsAreFinal

\* HostedPolicy implements PolicyHistory: initial states map to initial states,
\* and every step to the activation of a new version or to a stutter.
THEOREM Refinement == Spec => ImplementsHistory
<1>1. Init => History!HistoryInit
  BY HistoryInitially, PolicyAssumption
<1>2. IInv /\ IInv' /\ [Next]_vars => [History!Activate]_<<Entries(versions), graph>>
  <2> SUFFICES ASSUME IInv, IInv', [Next]_vars
               PROVE  [History!Activate]_<<Entries(versions), graph>>
    OBVIOUS
  <2>1. CASE UNCHANGED vars
    BY <2>1 DEF vars, db, Entries
  <2>2. CASE \E r \in Requests : Class(r)
    BY <2>2, HistoryStep, PolicyAssumption DEF IInv
  <2> QED
    BY <2>1, <2>2, TypeStep, PolicyAssumption DEF IInv
<1> QED
  BY <1>1, <1>2, Invariant, PTL DEF Spec, ImplementsHistory, History!HistorySpec, Entries

=============================================================================
