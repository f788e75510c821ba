------------------------- MODULE MCRegistryMutation -------------------------
(***************************************************************************)
(* Small instances of RegistryMutation. Each one is a set of requests; the *)
(* configurations choose the set and what it starts from.                  *)
(***************************************************************************)
EXTENDS RegistryMutation

\* The registry document whose slices are x (project p1), y (project p2)
\* and z (the platform).
Doc(x, y, z) == [o \in {"p1", "p2", "platform"} |->
                   CASE o = "p1" -> x [] o = "p2" -> y [] o = "platform" -> z]

MCProjects == {"p1", "p2"}
MCContents == {"a", "b"}
MCInitial  == Doc("a", "a", "a")

Req(operation, project, key, document) ==
  [operation |-> operation, project |-> project, key |-> key, document |-> document]

Import(key, document) == Req("import_replace", "p1", key, document)
Replacement(project, key, document) ==
  Req("project_partition_replace", project, key, document)

\* Imports: the same request twice, another document under its key, an import
\* under a key of its own, and one from the command line, without a key, that
\* drops a project which policy tables refer to.
ImportRequests ==
  [i1 |-> Import("k1", Doc("b", "a", "a")), i2 |-> Import("k1", Doc("b", "a", "a")),
   i3 |-> Import("k1", Doc("a", "b", "a")), i4 |-> Import("k2", Doc("a", "b", "a")),
   cli |-> Import(NoKey, Doc("b", "a", "a"))]

MCDangling == {"cli"}

\* Two projects replace their partitions from one starting point. The second
\* document of p1 reaches into the slice of p2, unless p2 has been there first;
\* an import changes the platform's slice, with the key wanted before the lock.
PartitionRequests ==
  [x1 |-> Replacement("p1", "kx", Doc("b", "a", "a")),
   x2 |-> Replacement("p1", "kx", Doc("b", "b", "a")),
   y1 |-> Replacement("p2", "ky", Doc("a", "b", "a")),
   i1 |-> Import("k1", Doc("a", "a", "b"))]

\* One replacement, and an import that changes another slice.
RetryRequests ==
  [x1 |-> Replacement("p1", "kx", Doc("b", "a", "a")),
   i1 |-> Import("k1", Doc("a", "a", "b"))]

MCKeys == {"k1", "k2", "kx", "ky"}

ImportIds        == DOMAIN ImportRequests
ImportOperation  == [r \in ImportIds |-> ImportRequests[r].operation]
ImportKey        == [r \in ImportIds |-> ImportRequests[r].key]
ImportProject    == [r \in ImportIds |-> ImportRequests[r].project]
ImportDocument   == [r \in ImportIds |-> ImportRequests[r].document]

PartitionIds       == DOMAIN PartitionRequests
PartitionOperation == [r \in PartitionIds |-> PartitionRequests[r].operation]
PartitionKey       == [r \in PartitionIds |-> PartitionRequests[r].key]
PartitionProject   == [r \in PartitionIds |-> PartitionRequests[r].project]
PartitionDocument  == [r \in PartitionIds |-> PartitionRequests[r].document]

RetryIds       == DOMAIN RetryRequests
RetryOperation == [r \in RetryIds |-> RetryRequests[r].operation]
RetryKey       == [r \in RetryIds |-> RetryRequests[r].key]
RetryProject   == [r \in RetryIds |-> RetryRequests[r].project]
RetryDocument  == [r \in RetryIds |-> RetryRequests[r].document]

=============================================================================
