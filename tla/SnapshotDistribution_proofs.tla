--------------------- MODULE SnapshotDistribution_proofs ---------------------
(***************************************************************************)
(* What is published stays, and what is loaded was published: for every    *)
(* number of exporters, publishers, data planes and source directories.    *)
(***************************************************************************)
EXTENDS SnapshotDistribution, TLAPS

-----------------------------------------------------------------------------
(* The directories of the versions only come into being *)

Final == \A v \in Versions : Exists(v) => artifact'[v] = artifact[v]

\* A directory that is there stays as it is, so whatever was said of it stays true.
LEMMA FinalKeeps ==
  ASSUME Final, \A v \in Versions : ArtifactInv(v), NEW s \in Snapshots
  PROVE  /\ Whole(s) => Whole(s)'
         /\ Kept(s) => Kept(s)'
         /\ \A f \in Snapshots :
              /\ artifact[Version[s]].manifest = f => artifact'[Version[s]].manifest = f
              /\ artifact[Version[s]].snapshot = f => artifact'[Version[s]].snapshot = f
<1>1. Version[s] \in Versions
  BY DEF Versions
<1>2. CASE Exists(Version[s])
  <2>1. artifact'[Version[s]] = artifact[Version[s]]
    BY <1>1, <1>2 DEF Final
  <2> QED
    BY <2>1 DEF Whole, Kept, Exists
<1>3. CASE ~Exists(Version[s])
  <2>1. artifact[Version[s]].snapshot = None /\ artifact[Version[s]].manifest = None
    BY <1>1, <1>3 DEF ArtifactInv, Exists
  <2>2. \A f \in Snapshots : f # None
    BY DistributionAssumption
  <2> QED
    BY <1>3, <2>1, <2>2 DEF Whole, Kept
<1> QED
  BY <1>2, <1>3

\* What the publication of p needs of the directories is kept.
Steady(p) == publication'[p] = publication[p]

LEMMA PublicationKeeps ==
  ASSUME Final, \A v \in Versions : ArtifactInv(v),
         NEW p \in Publishers, PublicationInv(p), Steady(p), UNCHANGED source
  PROVE  PublicationInv(p)'
<1>1. \A s \in Snapshots : Kept(s) => Kept(s)'
  BY FinalKeeps
<1> QED
  BY <1>1 DEF PublicationInv, Steady

LEMMA LoadKeeps ==
  ASSUME Final, \A v \in Versions : ArtifactInv(v), TypeOK,
         NEW d \in DataPlanes, LoadInv(d), load'[d] = load[d]
  PROVE  LoadInv(d)'
<1>1. /\ load[d].pointer \in Snapshots \cup {None} /\ load[d].snapshot \in Snapshots \cup {None}
  BY DEF TypeOK, Loads
<1>2. \A s \in Snapshots :
        /\ Whole(s) => Whole(s)'
        /\ artifact[Version[s]].manifest = s => artifact'[Version[s]].manifest = s
        /\ artifact[Version[s]].snapshot = s => artifact'[Version[s]].snapshot = s
  BY FinalKeeps
<1> QED
  BY <1>1, <1>2 DEF LoadInv

LEMMA StoresKeep ==
  ASSUME Final, \A v \in Versions : ArtifactInv(v), TypeOK, VersionsHold, UNCHANGED <<serving, resolved>>
  PROVE  VersionsHold'
<1>1. \A d \in DataPlanes : serving[d] \in Snapshots \cup {None} /\ resolved[d] \in Snapshots \cup {None}
  BY DEF TypeOK
<1>2. \A s \in Snapshots : Whole(s) => Whole(s)'
  BY FinalKeeps
<1> QED
  BY <1>1, <1>2 DEF VersionsHold

-----------------------------------------------------------------------------
(* The steps of an exporter *)

LEMMA WriteKeeps ==
  ASSUME IInv, NEW dir \in Sources, NEW file \in {"snapshot", "manifest"}, NEW content \in Files,
         Write(dir, file, content)
  PROVE  /\ source' \in [Sources -> Folder]
         /\ publication' \in [Publishers -> Publications]
         /\ \A p \in Publishers : PublicationInv(p)'
<1>1. source' \in [Sources -> Folder]
  BY DEF IInv, TypeOK, Write, Folder
<1>2. ASSUME NEW p \in Publishers
      PROVE  /\ publication'[p] \in Publications
             /\ PublicationInv(p)'
  <2> DEFINE w == publication[p]
             wn == publication'[p]
  <2>1. /\ w \in Publications
        /\ wn = [w EXCEPT !.disturbed = @ \/ (w.pc \in Copying /\ w.dir = dir)]
        /\ PublicationInv(p)
    BY DEF IInv, TypeOK, Write
  <2>2. /\ wn.pc = w.pc /\ wn.dir = w.dir /\ wn.manifest = w.manifest /\ wn.temp = w.temp
        /\ wn.answer = w.answer /\ wn.disturbed \in BOOLEAN
        /\ w.disturbed => wn.disturbed
        /\ w.pc \in Copying /\ w.dir = dir => wn.disturbed
    BY <2>1 DEF Publications
  <2>3. w.dir \in Sources /\ w.dir # dir => source'[w.dir] = source[w.dir]
    BY DEF IInv, TypeOK, Write
  <2>4. w.pc # "idle" <=> w.pc \in Copying \cup {"commit", "pointer", "replace", "record"}
    BY <2>1 DEF Publications, Copying
  <2>5. \A s : Kept(s)' <=> Kept(s)
    BY DEF Write, Kept, Whole, Exists
  <2>6. wn \in Publications
    BY <2>1, <2>2 DEF Publications
  <2>7. PublicationInv(p)'
    BY <2>1, <2>2, <2>3, <2>4, <2>5 DEF PublicationInv
  <2> QED
    BY <2>6, <2>7
<1>3. publication' \in [Publishers -> Publications]
  BY <1>2 DEF Write
<1> QED
  BY <1>1, <1>2, <1>3

LEMMA ExportStep ==
  ASSUME IInv, NEW e \in Exporters, Exporting(e)
  PROVE  IInv'
<1>1. /\ TypeOK /\ ExportInv(e)
      /\ export[e] \in Exports
  BY DEF IInv, TypeOK
<1>2. ASSUME NEW dir \in Sources, NEW s \in Snapshots, NEW pc \in {"idle", "snapshot", "open", "manifest"},
             NEW file \in {"snapshot", "manifest"}, NEW content \in Files,
             Write(dir, file, content),
             export' = [export EXCEPT ![e] = IF pc = "idle" THEN NoExport
                                             ELSE [pc |-> pc, dir |-> dir, snapshot |-> s]],
             begun' \in [exports : Nat, publications : Nat]
      PROVE  IInv'
  <2>1. /\ source' \in [Sources -> Folder]
        /\ publication' \in [Publishers -> Publications]
        /\ \A p \in Publishers : PublicationInv(p)'
    BY <1>2, WriteKeeps
  <2>2. UNCHANGED <<artifact, pointer, load, serving, resolved>>
    BY <1>2 DEF Write, planes
  <2>3. TypeOK'
    BY <1>1, <1>2, <2>1, <2>2 DEF TypeOK, Exports, NoExport
  <2>4. \A f \in Exporters : ExportInv(f)'
    BY <1>1, <1>2 DEF IInv, TypeOK, ExportInv, NoExport
  <2>5. /\ \A v \in Versions : ArtifactInv(v)'
        /\ \A d \in DataPlanes : LoadInv(d)'
        /\ PointerHolds' /\ VersionsHold'
    BY <2>2 DEF IInv, ArtifactInv, LoadInv, PointerHolds, VersionsHold, Kept, Whole, Exists
  <2> QED
    BY <2>1, <2>3, <2>4, <2>5 DEF IInv
<1>3. Torn \in Files /\ \A s \in Snapshots : s \in Files
  BY DEF Files
<1>4. ASSUME NEW dir \in Sources, NEW s \in Snapshots, BeginExport(e, dir, s) PROVE IInv'
  <2>1. begun' \in [exports : Nat, publications : Nat]
    BY <1>1, <1>4 DEF BeginExport, TypeOK
  <2>2. export' = [export EXCEPT ![e] = [pc |-> "snapshot", dir |-> dir, snapshot |-> s]]
    BY <1>4 DEF BeginExport
  <2> QED
    BY <1>2, <1>3, <1>4, <2>1, <2>2 DEF BeginExport
<1>5. CASE \/ WriteSnapshotFile(e) \/ OpenManifestFile(e) \/ WriteManifestFile(e)
  <2> DEFINE x == export[e]
  <2>1. x.dir \in Sources /\ x.snapshot \in Snapshots /\ begun' \in [exports : Nat, publications : Nat]
    BY <1>1, <1>5 DEF WriteSnapshotFile, OpenManifestFile, WriteManifestFile, ExportInv, TypeOK
  <2>2. ASSUME NEW pc \in {"open", "manifest"}, export' = [export EXCEPT ![e].pc = pc]
        PROVE  export' = [export EXCEPT ![e] = [pc |-> pc, dir |-> x.dir, snapshot |-> x.snapshot]]
    <3>1. [x EXCEPT !.pc = pc] = [pc |-> pc, dir |-> x.dir, snapshot |-> x.snapshot]
      BY <1>1 DEF Exports
    <3>2. export' = [export EXCEPT ![e] = [x EXCEPT !.pc = pc]]
      BY <2>2
    <3> QED
      BY <3>1, <3>2
  <2>3. CASE WriteSnapshotFile(e)
    BY <1>2, <1>3, <2>1, <2>2, <2>3 DEF WriteSnapshotFile
  <2>4. CASE OpenManifestFile(e)
    BY <1>2, <1>3, <2>1, <2>2, <2>4 DEF OpenManifestFile
  <2>5. CASE WriteManifestFile(e)
    BY <1>2, <1>3, <2>1, <2>5 DEF WriteManifestFile
  <2> QED
    BY <1>5, <2>3, <2>4, <2>5
<1>6. CASE ExportEnds(e)
  <2>1. /\ UNCHANGED <<source, artifact, pointer, publication, load, serving, resolved, begun>>
        /\ export' = [export EXCEPT ![e] = NoExport]
    BY <1>6 DEF ExportEnds, files, planes
  <2>2. TypeOK'
    BY <1>1, <2>1 DEF TypeOK, Exports, NoExport
  <2>3. \A f \in Exporters : ExportInv(f)'
    BY <2>1 DEF IInv, TypeOK, ExportInv, NoExport
  <2>4. /\ \A v \in Versions : ArtifactInv(v)'
        /\ \A p \in Publishers : PublicationInv(p)'
        /\ \A d \in DataPlanes : LoadInv(d)'
        /\ PointerHolds' /\ VersionsHold'
    BY <2>1 DEF IInv, ArtifactInv, PublicationInv, LoadInv, PointerHolds, VersionsHold, Kept, Whole, Exists
  <2> QED
    BY <2>2, <2>3, <2>4 DEF IInv
<1> QED
  BY <1>4, <1>5, <1>6 DEF Exporting

-----------------------------------------------------------------------------
(* The steps of a publisher *)

\* A publisher changes its own state; of the files, it makes the directory of a
\* version or moves the pointer.
LEMMA PublisherAlone ==
  ASSUME IInv, NEW p \in Publishers, NEW w \in Publications,
         publication' = [publication EXCEPT ![p] = w],
         UNCHANGED <<source, export, planes>>, begun' \in [exports : Nat, publications : Nat],
         Final, artifact' \in [Versions -> [snapshot : Files, manifest : Files, disturbed : BOOLEAN]],
         \A v \in Versions : ArtifactInv(v)',
         pointer' \in Snapshots \cup {None}, PointerHolds', PublicationInv(p)'
  PROVE  IInv'
<1>1. TypeOK /\ \A v \in Versions : ArtifactInv(v)
  BY DEF IInv
<1>2. TypeOK'
  BY <1>1 DEF TypeOK, planes
<1>3. \A e \in Exporters : ExportInv(e)'
  BY DEF IInv, ExportInv
<1>4. ASSUME NEW q \in Publishers PROVE PublicationInv(q)'
  <2>1. q # p => Steady(q)
    BY <1>1 DEF TypeOK, Steady
  <2> QED
    BY <1>1, <2>1, PublicationKeeps DEF IInv
<1>5. ASSUME NEW d \in DataPlanes PROVE LoadInv(d)'
  BY <1>1, LoadKeeps DEF IInv, planes
<1>6. VersionsHold'
  BY <1>1, StoresKeep DEF IInv, planes
<1> QED
  BY <1>2, <1>3, <1>4, <1>5, <1>6 DEF IInv

\* The same where the files are left alone.
LEMMA PublisherReads ==
  ASSUME IInv, NEW p \in Publishers, NEW w \in Publications,
         publication' = [publication EXCEPT ![p] = w],
         UNCHANGED <<files, export, planes>>, begun' \in [exports : Nat, publications : Nat],
         PublicationInv(p)'
  PROVE  IInv'
<1>1. UNCHANGED <<source, artifact, pointer>>
  BY DEF files
<1>2. /\ Final /\ PointerHolds' /\ \A v \in Versions : ArtifactInv(v)'
      /\ artifact' \in [Versions -> [snapshot : Files, manifest : Files, disturbed : BOOLEAN]]
      /\ pointer' \in Snapshots \cup {None}
  BY <1>1 DEF IInv, TypeOK, Final, PointerHolds, ArtifactInv, Kept, Whole, Exists
<1> QED
  BY <1>1, <1>2, PublisherAlone

\* A publisher that is done needs nothing more of the files.
LEMMA PublisherFinishes ==
  ASSUME IInv, NEW p \in Publishers,
         NEW answer \in {"none", "published", "unrecorded", "exists", "failed"},
         NEW s \in Snapshots \cup {None},
         answer \in {"published", "unrecorded"} => s \in Snapshots /\ Kept(s),
         Finish(p, answer, s), UNCHANGED <<artifact, pointer>>, OthersOfPublisher
  PROVE  IInv'
<1> DEFINE w == NoPublication(answer, s)
<1>1. w \in Publications
  BY DEF NoPublication, Publications, Empty, Folder, Files, Copying
<1>2. publication' = [publication EXCEPT ![p] = w] /\ publication'[p] = w
  BY DEF Finish, IInv, TypeOK
<1>3. /\ w.pc = "idle" /\ w.answer = answer /\ w.manifest = s
  BY DEF NoPublication
<1>4. UNCHANGED <<files, export, planes>> /\ begun' \in [exports : Nat, publications : Nat]
  BY DEF OthersOfPublisher, files, IInv, TypeOK
<1>5. Kept(s)' <=> Kept(s)
  BY DEF Kept, Whole, Exists
<1>6. PublicationInv(p)'
  BY <1>2, <1>3, <1>5 DEF PublicationInv, Copying
<1> HIDE DEF w
<1> QED
  BY <1>1, <1>2, <1>4, <1>6, PublisherReads

\* What a publisher knows that is on its way.
LEMMA OnItsWay ==
  ASSUME IInv, NEW p \in Publishers, publication[p].pc # "idle"
  PROVE  /\ publication[p] \in Publications /\ PublicationInv(p)
         /\ publication[p].dir \in Sources /\ publication[p].manifest \in Snapshots
         /\ Target(p) \in Versions
<1>1. publication[p] \in Publications /\ PublicationInv(p)
  BY DEF IInv, TypeOK
<1> QED
  BY <1>1 DEF PublicationInv, Target, Versions

LEMMA PublishStep ==
  ASSUME IInv, NEW p \in Publishers, NEW dir \in Sources, Publish(p, dir)
  PROVE  IInv'
<1> DEFINE m == source[dir].manifest
           w == [pc |-> "snapshot", dir |-> dir, manifest |-> m, temp |-> Empty,
                 disturbed |-> FALSE, answer |-> "none"]
<1>1. m \in Snapshots
  BY DEF Publish
<1>3. w \in Publications
  BY <1>1 DEF Publications, Empty, Folder, Files, Copying
<1>4. publication' = [publication EXCEPT ![p] = w] /\ publication'[p] = w
  BY DEF Publish, IInv, TypeOK
<1>5. UNCHANGED <<files, export, planes>> /\ begun' \in [exports : Nat, publications : Nat]
  BY DEF Publish, IInv, TypeOK
<1>6. PublicationInv(p)'
  BY <1>1, <1>4, <1>5 DEF PublicationInv, Copying, files
<1> HIDE DEF w
<1> QED
  BY <1>3, <1>4, <1>5, <1>6, PublisherReads

\* The steps that look at the source or at the target.
LEMMA LookStep ==
  ASSUME IInv, NEW p \in Publishers, ReadArtifact(p) \/ CheckDigest(p) \/ StatTarget(p)
  PROVE  IInv'
<1> DEFINE w == publication[p]
           wn == publication'[p]
<1>1. PICK pc \in {"digest", "stat", "copySnapshot"} :
        /\ Goto(p, pc) /\ w.pc \in {"snapshot", "digest", "stat"}
        /\ w.pc = "snapshot" => ReadsWhatTheManifestSays(p)
        /\ UNCHANGED <<artifact, pointer>> /\ OthersOfPublisher
  BY DEF ReadArtifact, CheckDigest, StatTarget, At
<1>2. w \in Publications /\ PublicationInv(p)
  BY <1>1, OnItsWay
<1>3. /\ [w EXCEPT !.pc = pc] \in Publications
      /\ publication' = [publication EXCEPT ![p] = [w EXCEPT !.pc = pc]]
      /\ wn = [w EXCEPT !.pc = pc]
  BY <1>1, <1>2 DEF Goto, Publications, Copying, IInv, TypeOK
<1>4. /\ wn.pc = pc /\ wn.dir = w.dir /\ wn.manifest = w.manifest /\ wn.temp = w.temp
      /\ wn.disturbed = w.disturbed /\ wn.answer = w.answer
  BY <1>2, <1>3 DEF Publications
<1>5. UNCHANGED <<files, export, planes>> /\ begun' \in [exports : Nat, publications : Nat]
  BY <1>1 DEF OthersOfPublisher, files, IInv, TypeOK
<1>6. Kept(w.manifest)' <=> Kept(w.manifest)
  BY <1>4, <1>5 DEF Kept, Whole, Exists, files
<1>7. PublicationInv(p)'
  BY <1>1, <1>2, <1>4, <1>5, <1>6 DEF PublicationInv, Copying, files, ReadsWhatTheManifestSays, Kept, Whole, Exists
<1> HIDE DEF w, wn
<1> QED
  BY <1>3, <1>5, <1>7, PublisherReads

LEMMA CopyStep ==
  ASSUME IInv, NEW p \in Publishers, CopySnapshot(p) \/ CopyManifest(p)
  PROVE  IInv'
<1> DEFINE w == publication[p]
           wn == publication'[p]
<1>1. w \in Publications /\ PublicationInv(p) /\ w.dir \in Sources /\ w.manifest \in Snapshots
  BY OnItsWay DEF CopySnapshot, CopyManifest, At
<1>2. source[w.dir] \in Folder
  BY <1>1 DEF IInv, TypeOK
<1>3. UNCHANGED <<files, export, planes>> /\ begun' \in [exports : Nat, publications : Nat]
  BY DEF CopySnapshot, CopyManifest, CopyFile, OthersOfPublisher, files, IInv, TypeOK
<1>4. \A s \in Snapshots : Kept(s)' <=> Kept(s)
  BY <1>3 DEF Kept, Whole, Exists, files
<1>5. ASSUME NEW file \in {"snapshot", "manifest"}, NEW next \in {"copyManifest", "commit"},
             CopyFile(p, file, next)
      PROVE  /\ publication' = [publication EXCEPT ![p] = wn] /\ wn \in Publications
             /\ wn.pc = next /\ wn.dir = w.dir /\ wn.manifest = w.manifest
             /\ wn.disturbed = w.disturbed /\ wn.answer = w.answer
             /\ wn.temp[file] = source[w.dir][file] /\ source[w.dir][file] # None
             /\ \A other \in {"snapshot", "manifest"} \ {file} : wn.temp[other] = w.temp[other]
  <2> DEFINE t == [w.temp EXCEPT ![file] = source[w.dir][file]]
             x == [w EXCEPT !.pc = next, !.temp = t]
  <2>1. w.temp \in Folder /\ t \in Folder
    BY <1>1, <1>2 DEF Publications, Folder
  <2>2. x \in Publications
    BY <1>1, <2>1 DEF Publications, Copying
  <2>3. publication' = [publication EXCEPT ![p] = x] /\ wn = x
    BY <1>1, <1>5 DEF CopyFile, IInv, TypeOK
  <2>4. /\ x.pc = next /\ x.dir = w.dir /\ x.manifest = w.manifest /\ x.temp = t
        /\ x.disturbed = w.disturbed /\ x.answer = w.answer
    BY <1>1 DEF Publications
  <2>5. /\ t[file] = source[w.dir][file] /\ source[w.dir][file] # None
        /\ \A other \in {"snapshot", "manifest"} \ {file} : t[other] = w.temp[other]
    BY <1>5, <2>1 DEF Folder, CopyFile
  <2> HIDE DEF x, t
  <2> QED
    BY <2>2, <2>3, <2>4, <2>5
<1>6. CASE CopySnapshot(p)
  <2>1. CopyFile(p, "snapshot", "copyManifest") /\ w.pc = "copySnapshot"
    BY <1>6 DEF CopySnapshot, At
  <2>2. PublicationInv(p)'
    BY <1>1, <1>3, <1>4, <1>5, <2>1 DEF PublicationInv, Copying, files
  <2> QED
    BY <1>3, <1>5, <2>1, <2>2, PublisherReads
<1>7. CASE CopyManifest(p)
  <2>1. CopyFile(p, "manifest", "commit") /\ w.pc = "copyManifest"
    BY <1>7 DEF CopyManifest, At
  <2>2. PublicationInv(p)'
    BY <1>1, <1>3, <1>4, <1>5, <2>1 DEF PublicationInv, Copying, files
  <2> QED
    BY <1>3, <1>5, <2>1, <2>2, PublisherReads
<1> QED
  BY <1>6, <1>7

\* The directory comes into being whole, or disturbed.
LEMMA CommitStep ==
  ASSUME IInv, NEW p \in Publishers, CommitArtifact(p)
  PROVE  IInv'
<1> DEFINE w == publication[p]
           wn == publication'[p]
           v == Version[w.manifest]
           a == [snapshot |-> w.temp.snapshot, manifest |-> w.temp.manifest, disturbed |-> w.disturbed]
<1>1. /\ w \in Publications /\ PublicationInv(p) /\ w.manifest \in Snapshots /\ v \in Versions
      /\ w.pc = "commit"
  BY OnItsWay DEF CommitArtifact, At, Target
<1>2. /\ ~Exists(v) /\ artifact' = [artifact EXCEPT ![v] = a]
      /\ publication' = [publication EXCEPT ![p] = [w EXCEPT !.pc = "pointer"]]
      /\ UNCHANGED <<source, export, planes, pointer, begun>>
  BY DEF CommitArtifact, Target, Goto, OthersOfPublisher
<1>3. a \in [snapshot : Files, manifest : Files, disturbed : BOOLEAN] /\ a.snapshot # None
  BY <1>1 DEF Publications, Folder, PublicationInv
<1>4. /\ artifact' \in [Versions -> [snapshot : Files, manifest : Files, disturbed : BOOLEAN]]
      /\ artifact'[v] = a /\ \A u \in Versions : u # v => artifact'[u] = artifact[u]
  BY <1>1, <1>2, <1>3 DEF IInv, TypeOK
<1>5. Final /\ \A u \in Versions : ArtifactInv(u)'
  BY <1>2, <1>3, <1>4 DEF Final, IInv, ArtifactInv, Exists
<1>6. \A s \in Snapshots : s = w.manifest => Kept(s)'
  BY <1>1, <1>3, <1>4 DEF PublicationInv, Kept, Whole, Exists
<1>7. PointerHolds' /\ pointer' \in Snapshots \cup {None}
  BY <1>2, <1>5, FinalKeeps DEF IInv, TypeOK, PointerHolds
<1>8. /\ [w EXCEPT !.pc = "pointer"] \in Publications /\ wn = [w EXCEPT !.pc = "pointer"]
  BY <1>1, <1>2 DEF Publications, Copying, IInv, TypeOK
<1>9. /\ wn.pc = "pointer" /\ wn.dir = w.dir /\ wn.manifest = w.manifest /\ wn.answer = w.answer
  BY <1>1, <1>8 DEF Publications
<1>10. PublicationInv(p)'
  BY <1>1, <1>6, <1>9 DEF PublicationInv, Copying
<1>11. begun' \in [exports : Nat, publications : Nat] /\ UNCHANGED <<source, export, planes>>
  BY <1>2 DEF IInv, TypeOK
<1> HIDE DEF w, wn, v, a
<1> QED
  BY <1>2, <1>4, <1>5, <1>7, <1>8, <1>10, <1>11, PublisherAlone

LEMMA PointerStep ==
  ASSUME IInv, NEW p \in Publishers, MovePointer(p) \/ RemovePointer(p)
  PROVE  IInv'
<1> DEFINE w == publication[p]
           wn == publication'[p]
<1>1. /\ w \in Publications /\ PublicationInv(p) /\ w.manifest \in Snapshots
      /\ w.pc \in {"pointer", "replace"}
  BY OnItsWay DEF MovePointer, RemovePointer, At
<1>2. PICK pc \in {"replace", "record"} :
        /\ publication' = [publication EXCEPT ![p] = [w EXCEPT !.pc = pc]]
        /\ pointer' \in {w.manifest, None}
        /\ UNCHANGED <<source, export, planes, artifact, begun>>
  BY DEF MovePointer, RemovePointer, Goto, OthersOfPublisher
<1>3. /\ [w EXCEPT !.pc = pc] \in Publications /\ wn = [w EXCEPT !.pc = pc]
  BY <1>1, <1>2 DEF Publications, Copying, IInv, TypeOK
<1>4. /\ wn.pc = pc /\ wn.dir = w.dir /\ wn.manifest = w.manifest /\ wn.answer = w.answer
  BY <1>1, <1>3 DEF Publications
<1>5. Kept(w.manifest) /\ Kept(w.manifest)'
  BY <1>1, <1>2 DEF PublicationInv, Kept, Whole, Exists
<1>6. PublicationInv(p)'
  BY <1>1, <1>4, <1>5 DEF PublicationInv, Copying
<1>7. PointerHolds' /\ pointer' \in Snapshots \cup {None}
  BY <1>1, <1>2, <1>5 DEF PointerHolds
<1>8. /\ Final /\ \A v \in Versions : ArtifactInv(v)'
      /\ artifact' \in [Versions -> [snapshot : Files, manifest : Files, disturbed : BOOLEAN]]
      /\ begun' \in [exports : Nat, publications : Nat] /\ UNCHANGED <<source, export, planes>>
  BY <1>2 DEF Final, IInv, TypeOK, ArtifactInv, Exists
<1> HIDE DEF w, wn
<1> QED
  BY <1>2, <1>3, <1>6, <1>7, <1>8, PublisherAlone

LEMMA PublisherStep ==
  ASSUME IInv, NEW p \in Publishers, PublishArtifactDir(p)
  PROVE  IInv'
<1>1. CASE \E dir \in Sources : Publish(p, dir)
  BY <1>1, PublishStep
<1>2. CASE ReadArtifact(p) \/ CheckDigest(p) \/ StatTarget(p)
  BY <1>2, LookStep
<1>3. CASE CopySnapshot(p) \/ CopyManifest(p)
  BY <1>3, CopyStep
<1>4. CASE CommitArtifact(p)
  BY <1>4, CommitStep
<1>5. CASE MovePointer(p) \/ RemovePointer(p)
  BY <1>5, PointerStep
<1>6. CASE AlreadyExists(p) \/ PublishFails(p) \/ PublisherDies(p)
  <2>1. PICK answer \in {"exists", "failed", "none"} :
          Finish(p, answer, None) /\ UNCHANGED <<artifact, pointer>> /\ OthersOfPublisher
    BY <1>6 DEF AlreadyExists, PublishFails, PublisherDies
  <2> QED
    BY <2>1, PublisherFinishes
<1>7. CASE Record(p)
  <2>1. PICK answer \in {"published", "unrecorded"} :
          Finish(p, answer, publication[p].manifest) /\ UNCHANGED <<artifact, pointer>> /\ OthersOfPublisher
    BY <1>7 DEF Record
  <2>2. publication[p].manifest \in Snapshots /\ Kept(publication[p].manifest)
    BY <1>7, OnItsWay DEF Record, At, PublicationInv
  <2> QED
    BY <2>1, <2>2, PublisherFinishes
<1> QED
  BY <1>1, <1>2, <1>3, <1>4, <1>5, <1>6, <1>7 DEF PublishArtifactDir

-----------------------------------------------------------------------------
(* The steps of a data plane *)

LEMMA PlaneAlone ==
  ASSUME IInv, NEW d \in DataPlanes, NEW l \in Loads,
         load' = [load EXCEPT ![d] = l], OthersOfPlane,
         serving' \in [DataPlanes -> Snapshots \cup {None}],
         resolved' \in [DataPlanes -> Snapshots \cup {None}],
         VersionsHold', LoadInv(d)'
  PROVE  IInv'
<1>1. TypeOK /\ UNCHANGED <<source, artifact, pointer, export, publication, begun>>
  BY DEF IInv, OthersOfPlane, files
<1>2. TypeOK'
  BY <1>1 DEF TypeOK
<1>3. ASSUME NEW c \in DataPlanes PROVE LoadInv(c)'
  <2>1. c # d => load'[c] = load[c]
    BY <1>1 DEF TypeOK
  <2>2. Final /\ \A v \in Versions : ArtifactInv(v)
    BY <1>1 DEF Final, IInv
  <2> QED
    BY <1>1, <2>1, <2>2, LoadKeeps DEF IInv
<1>4. /\ \A e \in Exporters : ExportInv(e)'
      /\ \A v \in Versions : ArtifactInv(v)'
      /\ \A p \in Publishers : PublicationInv(p)'
      /\ PointerHolds'
  BY <1>1 DEF IInv, ExportInv, ArtifactInv, PublicationInv, PointerHolds, Kept, Whole, Exists
<1> QED
  BY <1>2, <1>3, <1>4 DEF IInv

\* The steps of a load: what it reads agrees with the pointer it followed.
LEMMA ReadStep ==
  ASSUME IInv, NEW d \in DataPlanes,
         ReadPointer(d) \/ ValidateManifest(d) \/ ValidateDigest(d) \/ ReadSnapshot(d)
  PROVE  IInv' /\ (ReadSnapshot(d) => load'[d].snapshot = load[d].pointer)
<1> DEFINE l == load[d]
           ln == load'[d]
<1>1. l \in Loads /\ LoadInv(d) /\ pointer \in Snapshots \cup {None}
  BY DEF IInv, TypeOK
<1>2. OthersOfPlane /\ UNCHANGED <<serving, resolved, artifact>>
  BY DEF ReadPointer, ValidateManifest, ValidateDigest, ReadSnapshot, Proceed, OthersOfPlane, files
<1>3. /\ serving' \in [DataPlanes -> Snapshots \cup {None}]
      /\ resolved' \in [DataPlanes -> Snapshots \cup {None}]
      /\ VersionsHold'
  BY <1>2 DEF IInv, TypeOK, VersionsHold, Whole
<1>4. ASSUME NEW x \in Loads, load' = [load EXCEPT ![d] = x], LoadInv(d)' PROVE IInv'
  BY <1>2, <1>3, <1>4, PlaneAlone
<1>5. ASSUME NEW x \in Loads, load' = [load EXCEPT ![d] = x] PROVE ln = x
  BY <1>5 DEF IInv, TypeOK
<1>6. \A s \in Snapshots : Whole(s)' <=> Whole(s)
  BY <1>2 DEF Whole
<1>7. CASE ReadPointer(d)
  <2> DEFINE x == [l EXCEPT !.pc = "manifest", !.pointer = pointer]
  <2>1. x \in Loads /\ pointer # None /\ l.pc \in {"idle", "resolve"}
    BY <1>1, <1>7 DEF ReadPointer, Loading, Loads
  <2>2. load' = [load EXCEPT ![d] = x]
    BY <1>1, <1>7 DEF ReadPointer, IInv, TypeOK
  <2>3. x.pc = "manifest" /\ x.pointer = pointer /\ x.snapshot = l.snapshot
    BY <1>1 DEF Loads
  <2>4. ln = x
    BY <1>5, <2>1, <2>2
  <2> HIDE DEF x
  <2>5. LoadInv(d)'
    BY <1>1, <1>6, <2>1, <2>3, <2>4 DEF LoadInv, Loads
  <2>6. ~ReadSnapshot(d)
    BY <2>1 DEF ReadSnapshot, Loading
  <2> QED
    BY <1>4, <2>1, <2>2, <2>5, <2>6
<1>8. CASE ValidateManifest(d) \/ ValidateDigest(d)
  <2>1. PICK pc \in {"check", "read", "swap"} :
          /\ load' = [load EXCEPT ![d].pc = pc] /\ l.pc \in {"manifest", "check"}
          /\ pc = "check" => artifact[Version[l.pointer]].manifest = l.pointer
          /\ pc # "check" => l.pc = "check" /\ artifact[Version[l.pointer]].snapshot = l.pointer
          /\ pc = "read" => l.snapshot = None
          /\ pc = "swap" => l.snapshot # None
    BY <1>8 DEF ValidateManifest, ValidateDigest, Proceed, Loading, Reads
  <2> DEFINE x == [l EXCEPT !.pc = pc]
  <2>2. x \in Loads /\ x.pc = pc /\ x.pointer = l.pointer /\ x.snapshot = l.snapshot
    BY <1>1 DEF Loads
  <2>3. load' = [load EXCEPT ![d] = x]
    BY <2>1 DEF IInv, TypeOK
  <2>4. ln = x
    BY <1>5, <2>2, <2>3
  <2> HIDE DEF x
  <2>5. LoadInv(d)'
    BY <1>1, <1>2, <1>6, <2>1, <2>2, <2>4 DEF LoadInv, Loads
  <2>6. ~ReadSnapshot(d)
    BY <2>1 DEF ReadSnapshot, Loading
  <2> QED
    BY <1>4, <2>2, <2>3, <2>5, <2>6
<1>9. CASE ReadSnapshot(d)
  <2>1. l.pc = "read" /\ l.pointer \in Snapshots
    BY <1>1, <1>9 DEF ReadSnapshot, Loading, LoadInv, Loads
  <2>2. Reads(d).snapshot = l.pointer /\ Whole(l.pointer)
    BY <1>1, <2>1 DEF LoadInv, Reads, Whole
  <2> DEFINE x == [pc |-> "resolve", pointer |-> None, snapshot |-> l.pointer]
  <2>3. x \in Loads /\ x.pc = "resolve" /\ x.pointer = None /\ x.snapshot = l.pointer
    BY <2>1 DEF Loads
  <2>4. load' = [load EXCEPT ![d] = x]
    BY <1>9, <2>2 DEF ReadSnapshot
  <2>5. ln = x
    BY <1>5, <2>3, <2>4
  <2> HIDE DEF x
  <2>6. l.pointer # None
    BY <2>1, DistributionAssumption
  <2>7. LoadInv(d)'
    BY <1>1, <1>6, <2>1, <2>2, <2>3, <2>5, <2>6 DEF LoadInv
  <2> QED
    BY <1>4, <2>3, <2>4, <2>5, <2>7
<1> QED
  BY <1>7, <1>8, <1>9

\* A load that ends, with a snapshot or without one.
LEMMA EndStep ==
  ASSUME IInv, NEW d \in DataPlanes,
         Swap(d) \/ StartUnresolved(d) \/ LoadFails(d) \/ Stop(d)
  PROVE  IInv'
<1> DEFINE l == load[d]
<1>1. l \in Loads /\ LoadInv(d) /\ VersionsHold
  BY DEF IInv, TypeOK
<1>2. OthersOfPlane /\ load' = [load EXCEPT ![d] = NoLoad] /\ UNCHANGED artifact
  BY DEF Swap, StartUnresolved, LoadFails, Stop, OthersOfPlane, files
<1>3. NoLoad \in Loads /\ load'[d] = NoLoad
  BY <1>2 DEF NoLoad, Loads, IInv, TypeOK
<1>4. LoadInv(d)'
  BY <1>3 DEF LoadInv, NoLoad
<1>5. /\ serving' \in [DataPlanes -> Snapshots \cup {None}]
      /\ resolved' \in [DataPlanes -> Snapshots \cup {None}]
  BY <1>1 DEF Swap, StartUnresolved, LoadFails, Stop, IInv, TypeOK, Loads
<1>6. l.snapshot # None => l.snapshot \in Snapshots /\ Whole(l.snapshot)
  BY <1>1 DEF LoadInv, Loads
<1>7. l.pc = "swap" => l.snapshot # None /\ l.pointer \in Snapshots /\ Whole(l.pointer)
  BY <1>1 DEF LoadInv, Loads, Whole
<1>8. ASSUME NEW c \in DataPlanes
      PROVE  /\ serving'[c] \in {serving[c], None} \cup (IF c = d /\ l.snapshot # None THEN {l.snapshot} ELSE {})
             /\ resolved'[c] \in {resolved[c], None} \cup (IF c = d /\ l.pc = "swap" THEN {l.pointer} ELSE {})
  BY <1>7 DEF Swap, StartUnresolved, LoadFails, Stop, Loading, IInv, TypeOK
<1>9. \A s : Whole(s)' <=> Whole(s)
  BY <1>2 DEF Whole
<1>10. VersionsHold'
  BY <1>1, <1>6, <1>7, <1>8, <1>9 DEF VersionsHold
<1> QED
  BY <1>2, <1>3, <1>4, <1>5, <1>10, PlaneAlone

-----------------------------------------------------------------------------

LEMMA Initially ==
  ASSUME Init
  PROVE  IInv
<1>1. TypeOK
  BY DEF Init, TypeOK, Empty, Missing, Folder, Files, NoExport, Exports, NoPublication, Publications,
         NoLoad, Loads
<1>2. /\ \A e \in Exporters : ExportInv(e)
      /\ \A v \in Versions : ArtifactInv(v)
      /\ \A p \in Publishers : PublicationInv(p)
  BY DEF Init, ExportInv, NoExport, ArtifactInv, Missing, PublicationInv, NoPublication, Copying
<1>3. \A d \in DataPlanes : LoadInv(d)
  BY DEF Init, LoadInv, NoLoad
<1>4. PointerHolds /\ VersionsHold
  BY DEF Init, PointerHolds, VersionsHold
<1> QED
  BY <1>1, <1>2, <1>3, <1>4 DEF IInv

\* Whatever anyone writes, reads, renames or drops, what was validated is still so.
THEOREM Invariant == Spec => []IInv
<1>1. Init => IInv
  BY Initially
<1>2. IInv /\ [Next]_vars => IInv'
  <2>1. ASSUME IInv, NEW e \in Exporters, Exporting(e) PROVE IInv'
    BY <2>1, ExportStep
  <2>2. ASSUME IInv, NEW p \in Publishers, PublishArtifactDir(p) PROVE IInv'
    BY <2>2, PublisherStep
  <2>3. ASSUME IInv, NEW d \in DataPlanes, LoadCandidate(d) PROVE IInv'
    BY <2>3, ReadStep, EndStep DEF LoadCandidate
  <2>4. ASSUME IInv, UNCHANGED vars PROVE IInv'
    BY <2>4 DEF vars, files, planes, IInv, TypeOK, ExportInv, ArtifactInv, PublicationInv, LoadInv,
                PointerHolds, VersionsHold, Kept, Whole, Exists
  <2> QED
    BY <2>1, <2>2, <2>3, <2>4 DEF Next
<1> QED
  BY <1>1, <1>2, PTL DEF Spec

\* What the pointer names is there, what callers were told is so, and what data
\* planes serve is what the version's directory holds (PublishArtifactDir, LoadFile).
THEOREM DistributionAlwaysHolds == Spec => []DistributionHolds
<1>1. IInv => DistributionHolds
  BY DEF IInv, DistributionHolds, AnswersHold, PublicationInv
<1> QED
  BY <1>1, Invariant, PTL

-----------------------------------------------------------------------------
(* The register *)

Unseen == UNCHANGED <<pointer, First, Second, serving, resolved>>

\* What a data plane has seen changes with its load alone.
LEMMA SeenBy ==
  ASSUME TypeOK, NEW d \in DataPlanes, NEW x \in Loads, load' = [load EXCEPT ![d] = x]
  PROVE  /\ First' = [First EXCEPT ![d] = IF x.snapshot = None THEN x.pointer ELSE x.snapshot]
         /\ Second' = [Second EXCEPT ![d] = IF x.snapshot = None THEN None ELSE x.pointer]
<1>1. \A c \in DataPlanes : load'[c] = IF c = d THEN x ELSE load[c]
  BY DEF TypeOK
<1>2. First' = [c \in DataPlanes |-> IF c = d THEN (IF x.snapshot = None THEN x.pointer ELSE x.snapshot)
                                     ELSE First[c]]
  BY <1>1 DEF First
<1>3. Second' = [c \in DataPlanes |-> IF c = d THEN (IF x.snapshot = None THEN None ELSE x.pointer)
                                      ELSE Second[c]]
  BY <1>1 DEF Second
<1>4. DOMAIN First = DataPlanes /\ DOMAIN Second = DataPlanes
  BY DEF First, Second
<1> QED
  BY <1>2, <1>3, <1>4

LEMMA FilesStep ==
  ASSUME UNCHANGED <<pointer, planes>>
  PROVE  Unseen
BY DEF Unseen, First, Second, planes

LEMMA PublisherSets ==
  ASSUME IInv, NEW p \in Publishers, PublishArtifactDir(p)
  PROVE  Unseen \/ \E s \in Snapshots \cup {None} : Register!Set(s)
<1>1. CASE MovePointer(p) \/ RemovePointer(p)
  <2>1. publication[p].manifest \in Snapshots
    BY <1>1, OnItsWay DEF MovePointer, RemovePointer, At
  <2>2. PICK s \in Snapshots \cup {None} : pointer' = s
    BY <1>1, <2>1 DEF MovePointer, RemovePointer
  <2>3. UNCHANGED <<First, Second, serving, resolved>>
    BY <1>1 DEF MovePointer, RemovePointer, OthersOfPublisher, planes, First, Second
  <2> QED
    BY <2>2, <2>3 DEF Register!Set
<1>2. CASE ~MovePointer(p) /\ ~RemovePointer(p)
  <2>1. UNCHANGED <<pointer, planes>>
    BY <1>2 DEF PublishArtifactDir, Publish, ReadArtifact, CheckDigest, StatTarget, AlreadyExists,
                CopySnapshot, CopyManifest, CopyFile, CommitArtifact, Record, PublishFails,
                PublisherDies, OthersOfPublisher, files
  <2> QED
    BY <2>1, FilesStep
<1> QED
  BY <1>1, <1>2

\* One look at the pointer, or a read that shows what the look already told.
LEMMA ReadLooks ==
  ASSUME IInv, NEW d \in DataPlanes,
         ReadPointer(d) \/ ValidateManifest(d) \/ ValidateDigest(d) \/ ReadSnapshot(d)
  PROVE  Unseen \/ Register!Look(d) \/ Register!LookAgain(d)
<1> DEFINE l == load[d]
           x == load'[d]
<1>1. TypeOK /\ l \in Loads /\ LoadInv(d) /\ pointer \in Snapshots \cup {None}
  BY DEF IInv, TypeOK
<1>2. IInv'
  BY ReadStep
<1>3. UNCHANGED <<pointer, serving, resolved>>
  BY DEF ReadPointer, ValidateManifest, ValidateDigest, ReadSnapshot, Proceed, OthersOfPlane, files
<1>4. x \in Loads /\ load' = [load EXCEPT ![d] = x]
  BY <1>1, <1>2 DEF IInv, TypeOK, ReadPointer, ValidateManifest, ValidateDigest, ReadSnapshot, Proceed
<1>5. /\ First' = [First EXCEPT ![d] = IF x.snapshot = None THEN x.pointer ELSE x.snapshot]
      /\ Second' = [Second EXCEPT ![d] = IF x.snapshot = None THEN None ELSE x.pointer]
  BY <1>1, <1>4, SeenBy
<1>6. /\ First[d] = (IF l.snapshot = None THEN l.pointer ELSE l.snapshot)
      /\ Second[d] = (IF l.snapshot = None THEN None ELSE l.pointer)
      /\ First = [First EXCEPT ![d] = First[d]] /\ Second = [Second EXCEPT ![d] = Second[d]]
  BY DEF First, Second
<1>7. CASE ReadPointer(d)
  <2>1. x.pointer = pointer /\ x.snapshot = l.snapshot /\ pointer # None /\ l.pc \in {"idle", "resolve"}
    BY <1>1, <1>7 DEF ReadPointer, Loading, TypeOK, Loads
  <2>2. l.pointer = None
    BY <1>1, <2>1 DEF LoadInv
  <2>3. CASE l.snapshot = None
    BY <1>3, <1>5, <1>6, <2>1, <2>2, <2>3 DEF Register!Look
  <2>4. CASE l.snapshot # None
    BY <1>3, <1>5, <1>6, <2>1, <2>2, <2>4 DEF Register!LookAgain
  <2> QED
    BY <2>3, <2>4
<1>8. CASE ValidateManifest(d) \/ ValidateDigest(d)
  <2>1. x.pointer = l.pointer /\ x.snapshot = l.snapshot
    BY <1>1, <1>8 DEF ValidateManifest, ValidateDigest, Proceed, TypeOK, Loads
  <2> QED
    BY <1>3, <1>5, <1>6, <2>1 DEF Unseen
<1>9. CASE ReadSnapshot(d)
  <2>1. x.snapshot = l.pointer /\ x.pointer = None
    BY <1>1, <1>9, ReadStep DEF ReadSnapshot, TypeOK
  <2>2. l.snapshot = None
    BY <1>1, <1>9 DEF ReadSnapshot, Loading, LoadInv
  <2> QED
    BY <1>3, <1>5, <1>6, <2>1, <2>2 DEF Unseen
<1> QED
  BY <1>7, <1>8, <1>9

LEMMA EndServes ==
  ASSUME IInv, NEW d \in DataPlanes,
         Swap(d) \/ StartUnresolved(d) \/ LoadFails(d) \/ Stop(d)
  PROVE  Register!Serve(d) \/ Register!ServeUnnamed(d) \/ Register!GiveUp(d) \/ Register!Stop(d)
<1> DEFINE l == load[d]
<1>1. TypeOK /\ l \in Loads /\ LoadInv(d)
  BY DEF IInv, TypeOK
<1>2. NoLoad \in Loads /\ load' = [load EXCEPT ![d] = NoLoad] /\ UNCHANGED pointer
  BY DEF Swap, StartUnresolved, LoadFails, Stop, OthersOfPlane, files, NoLoad, Loads
<1>3. First' = [First EXCEPT ![d] = None] /\ Second' = [Second EXCEPT ![d] = None]
  BY <1>1, <1>2, SeenBy DEF NoLoad
<1>4. Register!Forget(d)
  BY <1>3 DEF Register!Forget
<1>5. /\ First[d] = (IF l.snapshot = None THEN l.pointer ELSE l.snapshot)
      /\ Second[d] = (IF l.snapshot = None THEN None ELSE l.pointer)
  BY DEF First, Second
<1>6. CASE Swap(d)
  <2>1. l.snapshot # None /\ l.pointer # None
    BY <1>1, <1>6 DEF Swap, Loading, LoadInv
  <2> QED
    BY <1>2, <1>4, <1>5, <1>6, <2>1 DEF Swap, Register!Serve
<1>7. CASE StartUnresolved(d)
  BY <1>2, <1>4, <1>5, <1>7 DEF StartUnresolved, Register!ServeUnnamed
<1>8. CASE LoadFails(d)
  BY <1>2, <1>4, <1>8 DEF LoadFails, Register!GiveUp
<1>9. CASE Stop(d)
  BY <1>2, <1>4, <1>9 DEF Stop, Register!Stop
<1> QED
  BY <1>6, <1>7, <1>8, <1>9

\* A data plane that follows the pointer through several files, while they are
\* written, reads one register (WriteDistributionPointerAtomic, LoadCandidate).
THEOREM Refinement == Spec => ImplementsRegister
<1>1. Init => Register!RegisterInit
  BY DEF Init, NoLoad, First, Second, Register!RegisterInit, Register!Nothing
<1>2. IInv /\ [Next]_vars => [Register!RegisterNext]_Register!vars
  <2> SUFFICES ASSUME IInv, [Next]_vars PROVE Unseen \/ Register!RegisterNext
    BY DEF Register!vars, Unseen
  <2>1. CASE \E e \in Exporters : Exporting(e)
    <3>1. UNCHANGED <<pointer, planes>>
      BY <2>1 DEF Exporting, BeginExport, WriteSnapshotFile, OpenManifestFile, WriteManifestFile,
                  ExportEnds, Write, files
    <3> QED
      BY <3>1, FilesStep
  <2>2. CASE \E p \in Publishers : PublishArtifactDir(p)
    BY <2>2, PublisherSets DEF Register!RegisterNext
  <2>3. ASSUME NEW d \in DataPlanes, LoadCandidate(d) PROVE Unseen \/ Register!RegisterNext
    BY <2>3, ReadLooks, EndServes DEF LoadCandidate, Register!RegisterNext
  <2>4. CASE UNCHANGED vars
    BY <2>4, FilesStep DEF vars, files
  <2> QED
    BY <2>1, <2>2, <2>3, <2>4 DEF Next
<1> QED
  BY <1>1, <1>2, Invariant, PTL DEF Spec, ImplementsRegister, Register!RegisterSpec
================================================================================
