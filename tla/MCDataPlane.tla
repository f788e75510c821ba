----------------------------- MODULE MCDataPlane -----------------------------
(***************************************************************************)
(* A small instance of DataPlane. Two requests arrive, or a request and a  *)
(* reload, or two reloads; the project may have one request in a life. One *)
(* snapshot has two providers and a policy that would like three attempts, *)
(* the other has no provider.                                              *)
(***************************************************************************)
EXTENDS DataPlane

MCProject    == [r \in Requests |-> "p"]
MCVersions   == {"v1", "v2"}
MCCandidates == [v \in MCVersions |-> IF v = "v1" THEN 2 ELSE 0]
MCFailures   == {"TIMEOUT", "PROVIDER_ERROR"}
MCPolicy     == [v \in MCVersions |->
  [enabled |-> v = "v1", maxAttempts |-> 3, retryOn |-> {"TIMEOUT", "PROVIDER_ERROR"}]]
==============================================================================
