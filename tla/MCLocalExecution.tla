--------------------------- MODULE MCLocalExecution ---------------------------
(***************************************************************************)
(* Three providers: A has a bearer token for the whole package, B a token  *)
(* of its own tool and an output mapping, and C a package without runner.  *)
(***************************************************************************)
EXTENDS LocalExecution

CONSTANTS c1, c2, operator

Token(env) == [type |-> "bearer", supported |-> TRUE,
               credentials |-> <<[type |-> "bearer", env |-> env, location |-> "authorization",
                                  name |-> "Authorization"]>>]
ToolOf(auth) == [auth |-> auth, known |-> TRUE, grpc |-> FALSE, required |-> {"q"}]

MCRegistry == << [id |-> "A", cost |-> Ratio(2, 1), regions |-> <<"eu">>, geo |-> "unknown"],
                 [id |-> "B", cost |-> Ratio(1, 1), regions |-> <<>>, geo |-> "global"],
                 [id |-> "C", cost |-> Ratio(3, 1), regions |-> <<>>, geo |-> "unknown"] >>
Ids == {"A", "B", "C"}
MCPackage  == [p \in Ids |->
                IF p = "A" THEN [problem |-> "none", auth |-> Token("TOKEN_A"), tool |-> ToolOf(Inherited)]
                ELSE [problem |-> IF p = "B" THEN "none" ELSE "missing_runner", auth |-> NoAuth, tool |-> ToolOf(Token("TOKEN_B"))]]
MCDeclared == [p \in Ids |-> NoCredential]
MCMapped   == [p \in Ids |-> p = "B"]
MCDuration == [p \in Ids |-> IF p = "A" THEN 3 ELSE 5]
MCAdapters == <<"B">>
MCEnviron  == {"TOKEN_A", "TOKEN_B"}
MCProxyConfig == <<>>

\* Replays run with the proxy in the environment or without, one of them with
\* a base URL that is none. A's package is named like what the registry has.
MCOperatorEnviron ==
  { [proxyUrl |-> "unset", baseUrl |-> "unset", key |-> TRUE], [proxyUrl |-> "url", baseUrl |-> "unset", key |-> TRUE],
    [proxyUrl |-> "url", baseUrl |-> "malformed", key |-> FALSE] }
MCPackageName == [p \in Ids |-> IF p = "A" THEN [capability |-> Capability, provider |-> p]
                                ELSE [capability |-> "package", provider |-> "package"]]

Base == [entry |-> "library", proxyUrl |-> "unset", ambient |-> "unset", baseUrl |-> "unset", key |-> TRUE, failover |-> TRUE,
         limit |-> NoLimit, codes |-> {}, shadow |-> FALSE, shadowIds |-> <<>>, includeShadow |-> FALSE,
         policy |-> RoutingPolicyPreset("balanced"), params |-> {"q"}, provider |-> "any"]

Direct  == [Base EXCEPT !.failover = FALSE]
Proxied == [Direct EXCEPT !.proxyUrl = "url"]
Two(o1, o2) == [c \in {c1, c2} |-> IF c = c1 THEN o1 ELSE o2]

\* Failover through the proxy beside a call that lacks a parameter; two callers
\* who compete for the quota, one of them by its environment; an SDK call with
\* a shadow it has no adapter for beside one with shadows; failover beside an
\* SDK call; a command that refuses C beside a caller without a key; and the
\* SDK asked for a provider. Replays come between the calls of each.
MCWorkloads ==
  { Two([Base EXCEPT !.proxyUrl = "url", !.limit = 2, !.policy.strategy = "lowest_latency"],
        [Direct EXCEPT !.params = {}, !.policy.strategy = "random"]),
    Two([Direct EXCEPT !.ambient = "url", !.policy.strategy = "first"],
        [Proxied EXCEPT !.policy.strategy = "first"]),
    Two([Direct EXCEPT !.entry = "sdk", !.shadowIds = <<"other">>],
        [Direct EXCEPT !.shadow = TRUE, !.policy.strategy = "lowest_cost"]),
    Two([Base EXCEPT !.codes = {503}, !.policy.strategy = "region_aware_latency", !.policy.region = "eu"],
        [Base EXCEPT !.entry = "sdk", !.shadow = TRUE, !.policy.strategy = "highest_success_rate"]),
    Two([Base EXCEPT !.entry = "cli"], [Proxied EXCEPT !.key = FALSE, !.policy.region = "eu"]),
    Two([Direct EXCEPT !.entry = "sdk", !.provider = "other"], [Direct EXCEPT !.entry = "sdk", !.provider = "B"]) }

Answer(ok, status, unmapped) == [ok |-> ok, error |-> NoError, status |-> status, unmapped |-> unmapped]
NoAnswer == [ok |-> FALSE, error |-> "timeout", status |-> NoStatus, unmapped |-> FALSE]
MCOutcomes == [p \in Ids |-> IF p = "A" THEN {Answer(TRUE, 200, FALSE), Answer(FALSE, 503, FALSE)}
                                    ELSE {Answer(TRUE, 200, TRUE), NoAnswer}]
================================================================================
