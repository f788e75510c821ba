------------------------- MODULE SnapshotDistribution -------------------------
(***************************************************************************)
(* How a snapshot travels: an exporter writes it with its manifest into a  *)
(* directory, a publisher copies both into the directory of the snapshot's *)
(* version and moves the pointer current.json, a data plane follows the    *)
(* pointer.  They share a file system and no lock, and each of them may    *)
(* fail or die between any two of its calls.                               *)
(*                                                                         *)
(* A snapshot stands for its bytes, so for its digest too.  A manifest or  *)
(* a pointer is determined by the snapshot it describes and stands as that *)
(* snapshot.  One that fits no snapshot counts as torn.                    *)
(***************************************************************************)
EXTENDS Naturals

CONSTANTS
  Snapshots,
  Version,      \* snapshot -> the version its registry was given: no function of its content
  Sources,      \* directories exports are written to
  Exporters, Publishers, DataPlanes,
  None, Torn,   \* no file, a file that was opened for writing and is not complete
  MaxExports, MaxPublications  \* bounds: how many are begun

ASSUME DistributionAssumption ==
  /\ DOMAIN Version = Snapshots
  /\ None \notin Snapshots /\ Torn \notin Snapshots /\ None # Torn

Versions == {Version[s] : s \in Snapshots}
Files == Snapshots \cup {None, Torn}

VARIABLES
  source,       \* per source directory, snapshot.json and manifest.json
  export,       \* per exporter, where WriteArtifactDir stands
  artifact,     \* per version, its directory under artifacts/
  pointer,      \* current.json
  publication,  \* per publisher, where PublishArtifactDir stands
  load,         \* per data plane, where its load stands
  serving,      \* per data plane, the snapshot in its store
  resolved,     \* per data plane, the snapshot whose path is in its store
  begun         \* how many exports and publications were begun

files == <<source, artifact, pointer>>
planes == <<load, serving, resolved>>
vars == <<files, export, publication, planes, begun>>

Empty == [snapshot |-> None, manifest |-> None]
\* A version that has no directory.  `disturbed' is history: the source was
\* rewritten between the first and the last time its publisher read it.
Missing == [snapshot |-> None, manifest |-> None, disturbed |-> FALSE]
Exists(v) == artifact[v].snapshot # None

NoExport == [pc |-> "idle", dir |-> None, snapshot |-> None]
NoLoad == [pc |-> "idle", pointer |-> None, snapshot |-> None]
\* `temp' is the temporary directory: its name is random, no one else sees it.
NoPublication(answer, s) ==
  [pc |-> "idle", dir |-> None, manifest |-> s, temp |-> Empty, disturbed |-> FALSE,
   answer |-> answer]

Init ==
  /\ source = [d \in Sources |-> Empty]
  /\ export = [e \in Exporters |-> NoExport]
  /\ artifact = [v \in Versions |-> Missing]
  /\ pointer = None
  /\ publication = [p \in Publishers |-> NoPublication("none", None)]
  /\ load = [d \in DataPlanes |-> NoLoad]
  /\ serving = [d \in DataPlanes |-> None]
  /\ resolved = [d \in DataPlanes |-> None]
  /\ begun = [exports |-> 0, publications |-> 0]

-----------------------------------------------------------------------------
(* WriteArtifactDir: os.WriteFile empties a file, then fills it *)

Copying == {"snapshot", "digest", "stat", "copySnapshot", "copyManifest"}

\* A write disturbs the publications that still read the directory.
Write(dir, file, content) ==
  /\ source' = [source EXCEPT ![dir][file] = content]
  /\ publication' = [p \in Publishers |->
       [publication[p] EXCEPT !.disturbed =
          @ \/ (publication[p].pc \in Copying /\ publication[p].dir = dir)]]
  /\ UNCHANGED <<artifact, pointer, planes>>

BeginExport(e, dir, s) ==
  /\ export[e].pc = "idle" /\ begun.exports < MaxExports
  /\ begun' = [begun EXCEPT !.exports = @ + 1]
  /\ export' = [export EXCEPT ![e] = [pc |-> "snapshot", dir |-> dir, snapshot |-> s]]
  /\ Write(dir, "snapshot", Torn)

WriteSnapshotFile(e) ==
  /\ export[e].pc = "snapshot"
  /\ export' = [export EXCEPT ![e].pc = "open"]
  /\ Write(export[e].dir, "snapshot", export[e].snapshot)
  /\ UNCHANGED begun

OpenManifestFile(e) ==
  /\ export[e].pc = "open"
  /\ export' = [export EXCEPT ![e].pc = "manifest"]
  /\ Write(export[e].dir, "manifest", Torn)
  /\ UNCHANGED begun

WriteManifestFile(e) ==
  /\ export[e].pc = "manifest"
  /\ export' = [export EXCEPT ![e] = NoExport]
  /\ Write(export[e].dir, "manifest", export[e].snapshot)
  /\ UNCHANGED begun

\* The exporter fails or dies: what it was writing stays as it is.
ExportEnds(e) ==
  /\ export[e].pc # "idle"
  /\ export' = [export EXCEPT ![e] = NoExport]
  /\ UNCHANGED <<files, publication, planes, begun>>

-----------------------------------------------------------------------------
(* PublishArtifactDir and the handler around it *)

At(p, pc) == publication[p].pc = pc
Goto(p, pc) == publication' = [publication EXCEPT ![p].pc = pc]
\* The caller is told, and the temporary directory removed.
Finish(p, answer, s) == publication' = [publication EXCEPT ![p] = NoPublication(answer, s)]
OthersOfPublisher == UNCHANGED <<source, export, planes, begun>>

\* A caller publishes a directory, again perhaps after an error: ReadManifestFile.
Publish(p, dir) ==
  /\ At(p, "idle") /\ source[dir].manifest \in Snapshots
  /\ begun.publications < MaxPublications
  /\ begun' = [begun EXCEPT !.publications = @ + 1]
  /\ publication' = [publication EXCEPT ![p] =
       [pc |-> "snapshot", dir |-> dir, manifest |-> source[dir].manifest, temp |-> Empty,
        disturbed |-> FALSE, answer |-> "none"]]
  /\ UNCHANGED <<files, export, planes>>

\* ReadSnapshotFile and ValidateArtifactConsistency; FileDigest reads the file again.
ReadsWhatTheManifestSays(p) == source[publication[p].dir].snapshot = publication[p].manifest

ReadArtifact(p) ==
  /\ At(p, "snapshot") /\ ReadsWhatTheManifestSays(p)
  /\ Goto(p, "digest")
  /\ UNCHANGED <<artifact, pointer>> /\ OthersOfPublisher

CheckDigest(p) ==
  /\ At(p, "digest") /\ ReadsWhatTheManifestSays(p)
  /\ Goto(p, "stat")
  /\ UNCHANGED <<artifact, pointer>> /\ OthersOfPublisher

Target(p) == Version[publication[p].manifest]

StatTarget(p) ==
  /\ At(p, "stat") /\ ~Exists(Target(p))
  /\ Goto(p, "copySnapshot")
  /\ UNCHANGED <<artifact, pointer>> /\ OthersOfPublisher

\* Every version has one directory, whoever made it.
AlreadyExists(p) ==
  /\ At(p, "stat") /\ Exists(Target(p))
  /\ Finish(p, "exists", None)
  /\ UNCHANGED <<artifact, pointer>> /\ OthersOfPublisher

\* copyFile reads the source once more and checks nothing but that it can.
CopyFile(p, file, next) ==
  /\ source[publication[p].dir][file] # None
  /\ publication' = [publication EXCEPT ![p] =
       [@ EXCEPT !.pc = next, !.temp[file] = source[publication[p].dir][file]]]
  /\ UNCHANGED <<artifact, pointer>> /\ OthersOfPublisher

CopySnapshot(p) == At(p, "copySnapshot") /\ CopyFile(p, "snapshot", "copyManifest")
CopyManifest(p) == At(p, "copyManifest") /\ CopyFile(p, "manifest", "commit")

\* A rename that would replace the directory.
Bug_CommitOver(p) ==
  /\ At(p, "commit")
  /\ artifact' = [artifact EXCEPT ![Target(p)] =
       [snapshot |-> publication[p].temp.snapshot, manifest |-> publication[p].temp.manifest,
        disturbed |-> publication[p].disturbed]]
  /\ Goto(p, "pointer")
  /\ UNCHANGED pointer /\ OthersOfPublisher

\* os.Rename does not replace a directory.
CommitArtifact(p) ==
  /\ At(p, "commit") /\ ~Exists(Target(p))
  /\ artifact' = [artifact EXCEPT ![Target(p)] =
       [snapshot |-> publication[p].temp.snapshot, manifest |-> publication[p].temp.manifest,
        disturbed |-> publication[p].disturbed]]
  /\ Goto(p, "pointer")
  /\ UNCHANGED pointer /\ OthersOfPublisher

\* WriteDistributionPointerAtomic: the complete temporary file is renamed over
\* current.json; where that fails, current.json is removed first.
MovePointer(p) ==
  /\ At(p, "pointer") \/ At(p, "replace")
  /\ pointer' = publication[p].manifest
  /\ Goto(p, "record")
  /\ UNCHANGED artifact /\ OthersOfPublisher

RemovePointer(p) ==
  /\ At(p, "pointer")
  /\ pointer' = None
  /\ Goto(p, "replace")
  /\ UNCHANGED artifact /\ OthersOfPublisher

\* The handler records the publication and the audit event; if it cannot, it
\* answers a retryable error although the snapshot is published.
Record(p) ==
  /\ At(p, "record")
  /\ \E answer \in {"published", "unrecorded"} : Finish(p, answer, publication[p].manifest)
  /\ UNCHANGED <<artifact, pointer>> /\ OthersOfPublisher

\* A call fails or finds what it does not expect.
PublishFails(p) ==
  /\ ~At(p, "idle") /\ ~At(p, "record")
  /\ Finish(p, "failed", None)
  /\ UNCHANGED <<artifact, pointer>> /\ OthersOfPublisher

\* The publisher dies: what it has done stays, nobody is told.
PublisherDies(p) ==
  /\ ~At(p, "idle")
  /\ Finish(p, "none", None)
  /\ UNCHANGED <<artifact, pointer>> /\ OthersOfPublisher

-----------------------------------------------------------------------------
(* LoadFile, then ResolvePath once more: LoadCandidate, and main with NewSnapshotStore *)

Loading(d, pc) == load[d].pc = pc
Reads(d) == artifact[Version[load[d].pointer]]
Proceed(d, pc) == load' = [load EXCEPT ![d].pc = pc] /\ UNCHANGED <<serving, resolved>>
OthersOfPlane == UNCHANGED <<files, export, publication, begun>>

\* resolveDistributionPointer reads current.json, before and after the load.
ReadPointer(d) ==
  /\ Loading(d, "idle") \/ Loading(d, "resolve")
  /\ pointer # None
  /\ load' = [load EXCEPT ![d].pc = "manifest", ![d].pointer = pointer]
  /\ UNCHANGED <<serving, resolved>> /\ OthersOfPlane

\* validateDistributionManifest: manifest against pointer, then snapshot against manifest.
ValidateManifest(d) ==
  /\ Loading(d, "manifest") /\ Reads(d).manifest = load[d].pointer
  /\ Proceed(d, "check") /\ OthersOfPlane

ValidateDigest(d) ==
  /\ Loading(d, "check") /\ Reads(d).snapshot = load[d].pointer
  /\ Proceed(d, IF load[d].snapshot = None THEN "read" ELSE "swap") /\ OthersOfPlane

\* The path resolved anew for the read.
Bug_ReadsCurrent(d) ==
  /\ Loading(d, "read") /\ pointer # None /\ artifact[Version[pointer]].snapshot \in Snapshots
  /\ load' = [load EXCEPT ![d] =
       [pc |-> "resolve", pointer |-> None, snapshot |-> artifact[Version[pointer]].snapshot]]
  /\ UNCHANGED <<serving, resolved>> /\ OthersOfPlane

\* LoadFile reads the snapshot again, whatever it holds now.
ReadSnapshot(d) ==
  /\ Loading(d, "read") /\ Reads(d).snapshot \in Snapshots
  /\ load' = [load EXCEPT ![d] =
       [pc |-> "resolve", pointer |-> None, snapshot |-> Reads(d).snapshot]]
  /\ UNCHANGED <<serving, resolved>> /\ OthersOfPlane

Swap(d) ==
  /\ Loading(d, "swap")
  /\ serving' = [serving EXCEPT ![d] = load[d].snapshot]
  /\ resolved' = [resolved EXCEPT ![d] = load[d].pointer]
  /\ load' = [load EXCEPT ![d] = NoLoad]
  /\ OthersOfPlane

\* NewSnapshotStore ignores that the path cannot be resolved.
StartUnresolved(d) ==
  /\ serving[d] = None /\ load[d].snapshot # None /\ ~Loading(d, "swap")
  /\ serving' = [serving EXCEPT ![d] = load[d].snapshot]
  /\ load' = [load EXCEPT ![d] = NoLoad]
  /\ UNCHANGED resolved /\ OthersOfPlane

\* A reload fails and the old snapshot is kept; a start fails.
LoadFails(d) ==
  /\ ~Loading(d, "idle")
  /\ load' = [load EXCEPT ![d] = NoLoad]
  /\ UNCHANGED <<serving, resolved>> /\ OthersOfPlane

Stop(d) ==
  /\ serving[d] # None
  /\ load' = [load EXCEPT ![d] = NoLoad]
  /\ serving' = [serving EXCEPT ![d] = None]
  /\ resolved' = [resolved EXCEPT ![d] = None]
  /\ OthersOfPlane

-----------------------------------------------------------------------------

Exporting(e) ==
  \/ \E dir \in Sources, s \in Snapshots : BeginExport(e, dir, s)
  \/ WriteSnapshotFile(e) \/ OpenManifestFile(e) \/ WriteManifestFile(e) \/ ExportEnds(e)

PublishArtifactDir(p) ==
  \/ \E dir \in Sources : Publish(p, dir)
  \/ ReadArtifact(p) \/ CheckDigest(p) \/ StatTarget(p) \/ AlreadyExists(p)
  \/ CopySnapshot(p) \/ CopyManifest(p) \/ CommitArtifact(p)
  \/ MovePointer(p) \/ RemovePointer(p) \/ Record(p)
  \/ PublishFails(p) \/ PublisherDies(p)

LoadCandidate(d) ==
  \/ ReadPointer(d) \/ ValidateManifest(d) \/ ValidateDigest(d) \/ ReadSnapshot(d)
  \/ Swap(d) \/ StartUnresolved(d) \/ LoadFails(d) \/ Stop(d)

Next ==
  \/ \E e \in Exporters : Exporting(e)
  \/ \E p \in Publishers : PublishArtifactDir(p)
  \/ \E d \in DataPlanes : LoadCandidate(d)

Spec == Init /\ [][Next]_vars

-----------------------------------------------------------------------------
(* Properties *)

Whole(s) == artifact[Version[s]].snapshot = s /\ artifact[Version[s]].manifest = s

\* The directory of the snapshot's version is there and, unless the source was
\* rewritten while it was copied, holds this snapshot with its manifest.
Kept(s) == Exists(Version[s]) /\ (Whole(s) \/ artifact[Version[s]].disturbed)

\* The pointer never names what is not there, at whatever step a publisher
\* fails or dies and whoever publishes the same version at the same time.
PointerHolds == pointer # None => Kept(pointer)

\* Nor is a caller told that his snapshot is published when the directory of its
\* version was made from another publisher's.
AnswersHold ==
  \A p \in Publishers :
    publication[p].answer \in {"published", "unrecorded"} => Kept(publication[p].manifest)

\* What a data plane serves, or says it serves, is what the directory of that version
\* holds, for good: no two data planes serve two snapshots under one version.
VersionsHold ==
  \A d \in DataPlanes : /\ serving[d] # None => Whole(serving[d])
                        /\ resolved[d] # None => Whole(resolved[d])

\* What publishers promise and data planes rely on, whatever is interrupted:
\* PublishArtifactDir against WriteArtifactDir, LoadFile and itself.
DistributionHolds == PointerHolds /\ AnswersHold /\ VersionsHold

\* What a load has seen, at its first and at its second look at the pointer.
First == [d \in DataPlanes |->
  IF load[d].snapshot = None THEN load[d].pointer ELSE load[d].snapshot]
Second == [d \in DataPlanes |-> IF load[d].snapshot = None THEN None ELSE load[d].pointer]

Register == INSTANCE SnapshotRegister
  WITH value <- pointer, first <- First, second <- Second, served <- serving, named <- resolved

\* Behind the several files that a load reads one after the other there is one
\* register, read twice.
ImplementsRegister == Register!RegisterSpec

-----------------------------------------------------------------------------
(* Why they hold: what each party has read is still so, or cannot change any more *)

Folder == [snapshot : Files, manifest : Files]

Exports ==
  [pc : {"idle", "snapshot", "open", "manifest"}, dir : Sources \cup {None},
   snapshot : Snapshots \cup {None}]

Publications ==
  [pc : Copying \cup {"idle", "commit", "pointer", "replace", "record"},
   dir : Sources \cup {None}, manifest : Snapshots \cup {None}, temp : Folder,
   disturbed : BOOLEAN, answer : {"none", "published", "unrecorded", "exists", "failed"}]

Loads ==
  [pc : {"idle", "manifest", "check", "read", "resolve", "swap"},
   pointer : Snapshots \cup {None}, snapshot : Snapshots \cup {None}]

TypeOK ==
  /\ source \in [Sources -> Folder]
  /\ export \in [Exporters -> Exports]
  /\ artifact \in [Versions -> [snapshot : Files, manifest : Files, disturbed : BOOLEAN]]
  /\ pointer \in Snapshots \cup {None}
  /\ publication \in [Publishers -> Publications]
  /\ load \in [DataPlanes -> Loads]
  /\ serving \in [DataPlanes -> Snapshots \cup {None}]
  /\ resolved \in [DataPlanes -> Snapshots \cup {None}]
  /\ begun \in [exports : Nat, publications : Nat]

ExportInv(e) == export[e].pc # "idle" => export[e].dir \in Sources /\ export[e].snapshot \in Snapshots

ArtifactInv(v) == ~Exists(v) => artifact[v].manifest = None

\* Undisturbed, the source still is what it was when it was validated, and so is the copy.
PublicationInv(p) ==
  LET w == publication[p] IN
  /\ w.pc # "idle" => w.dir \in Sources /\ w.manifest \in Snapshots
  /\ w.pc \in Copying /\ ~w.disturbed =>
       /\ source[w.dir].manifest = w.manifest
       /\ w.pc # "snapshot" => source[w.dir].snapshot = w.manifest
  /\ w.pc \in {"copyManifest", "commit"} =>
       /\ w.temp.snapshot # None
       /\ w.disturbed \/ w.temp.snapshot = w.manifest
  /\ w.pc = "commit" => w.disturbed \/ w.temp.manifest = w.manifest
  /\ w.pc \in {"pointer", "replace", "record"} => Kept(w.manifest)
  /\ w.answer \in {"published", "unrecorded"} => w.manifest \in Snapshots /\ Kept(w.manifest)

LoadInv(d) ==
  LET l == load[d] IN
  /\ l.pc \in {"idle", "resolve"} <=> l.pointer = None
  /\ l.pc \in {"idle", "read"} => l.snapshot = None
  /\ l.pc \in {"resolve", "swap"} => l.snapshot # None
  /\ l.pc \in {"check", "read", "swap"} => artifact[Version[l.pointer]].manifest = l.pointer
  /\ l.pc \in {"read", "swap"} => artifact[Version[l.pointer]].snapshot = l.pointer
  /\ l.snapshot # None => Whole(l.snapshot)

IInv ==
  /\ TypeOK
  /\ \A e \in Exporters : ExportInv(e)
  /\ \A v \in Versions : ArtifactInv(v)
  /\ \A p \in Publishers : PublicationInv(p)
  /\ \A d \in DataPlanes : LoadInv(d)
  /\ PointerHolds /\ VersionsHold
================================================================================
