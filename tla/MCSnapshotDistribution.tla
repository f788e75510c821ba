------------------------ MODULE MCSnapshotDistribution ------------------------
(* Two snapshots that were given one version, and one of a version of its own. *)
EXTENDS SnapshotDistribution, TLC
CONSTANTS a, b, c, p, q

MCVersion == [s \in Snapshots |-> IF s = c THEN "v2" ELSE "v1"]

\* Publishers are alike, and so are the two snapshots of one version.
Symmetry == Permutations(Publishers) \cup Permutations({a, b})
================================================================================
