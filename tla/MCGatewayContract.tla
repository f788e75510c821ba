-------------------------- MODULE MCGatewayContract --------------------------
(***************************************************************************)
(* The contract alone; and traffic that meets in one microsecond while the *)
(* policy changes and things fail.                                         *)
(***************************************************************************)
EXTENDS GatewayContract

CONSTANTS c1, c2

\* A request of the traffic: the server stays as it was set last.
Any(request) == [Sends(request, 0, Blank, 0, 0) EXCEPT !.server = <<>>]
Set(request, switches) == WithServer(Any(request), switches)
Two(s1, s2) == [c \in {c1, c2} |-> IF c = c1 THEN s1 ELSE s2]
Scenario(s1, s2, n) == [script |-> Two(s1, s2), faults |-> n]

Import(id, key) == Mutate("import", "admin", id, key, "replacement")

MCScenarios ==
  { Scenario(Contract, <<>>, 0),
    \* two requests of one principal, and each of them again
    Scenario(<<Set(Import("i1", "k"), Live), Any(Import("i1", "k"))>>,
             <<Set(Import("i2", "k"), Live), Any(Import("i2", "k"))>>, 1),
    \* a grant comes and goes between two requests of one name
    Scenario(<<WithPolicy(Set(Ask("validate", "revoked", "v"), Live), HostedPermissionSeed),
               WithPolicy(Any(Ask("validate", "revoked", "w")), HostedPermissionSeed)>>,
             <<WithPolicy(Set(Ask("validate", "revoked", "v"), Live),
                          [HostedPermissionSeed EXCEPT !.grants = @ \cup {<<"project_revoked", "validate">>}])>>, 1),
    \* the fixture, with a version no table knows, a stale policy and
    \* an insert that never succeeds
    Scenario(<<Set(AdminValidates, [Live EXCEPT !.source = "fixture", !.transient = 3]),
               Set(Ask("validate", "admin", "cookie"), [Live EXCEPT !.source = "fixture"])>>,
             <<Set(Ask("healthz", "none", Blank), [Live EXCEPT !.source = "fixture",
                                         !.store = WithoutPermission(@, "project_revoked", "validate")]),
               Set(AdminValidates, [Live EXCEPT !.source = "fixture", !.store = WithStalePolicy(@)])>>, 1) }
================================================================================
