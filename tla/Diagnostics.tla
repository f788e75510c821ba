------------------------------ MODULE Diagnostics ------------------------------
(***************************************************************************)
(* diagnostics.py: what api2agent says of the quality of a capability. A   *)
(* finding is its id, its severity and the place it is about (<<>> for the *)
(* capability, else the name of a tool); messages and recommendations are  *)
(* left out. A report has the findings, a status and a score.              *)
(***************************************************************************)
EXTENDS OpenApi

CONSTANTS LargeToolsetThreshold,            \* 50 in the code
          ManyRequiredParametersThreshold   \* 6 in the code

GenericCapabilityNames == {<<"api">>, <<"www">>, <<"default">>, <<"openapi">>, <<"api2agent">>, <<"generated">>}
GenericToolNames == {<<"get">>, <<"post">>, <<"put">>, <<"patch">>, <<"delete">>, <<"list">>,
                     <<"create">>, <<"update">>, <<"execute">>, <<"call">>}

Finding(id, severity, at) == [id |-> id, severity |-> severity, at |-> at]
When(holds, id, severity, at) == IF holds THEN <<Finding(id, severity, at)>> ELSE <<>>

--------------------------------------------------------------------------------
\* Credentials and servers.

MissingAuthEnv(auth) ==
  \E c \in (IF auth.credentials = <<>> THEN {auth} ELSE Range(auth.credentials)) :
     c.type \in {"api_key", "bearer"} /\ c.env = <<>>

AuthFindings(auth, at) == When(auth.type = "unknown", "unknown_auth", "warning", at)
                            \o When(MissingAuthEnv(auth), "auth_env_missing", "warning", at)

\* _security_requirement_findings: a scheme that cannot be used counts as
\* metadata when it has scopes.
SchemeFindings(scheme, at) ==
     When(scheme.location = "query", "query_api_key_auth", "info", at)
  \o When(scheme.location = "cookie", "cookie_api_key_auth", "info", at)
  \o When(scheme.type = "unknown" /\ scheme.scopes # {}, "metadata_only_oauth", "info", at)
  \o When(scheme.type = "unknown" /\ scheme.scopes = {}, "unsupported_auth_scheme", "warning", at)

SecurityFindings(security, at) ==
  LET Alternative(a) == When(Len(a.schemes) > 1, "combined_auth_required", "info", at)
                          \o Each(a.schemes, LAMBDA s : SchemeFindings(s, at))
      OfSection(alternatives) ==
        When(Len(alternatives) > 1, "auth_alternatives_present", "info", at)
          \o Each(alternatives, Alternative)
  IN  Each(security, OfSection)

ServerFindings(servers, at) ==
  LET profiles == UNION {s.hints : s \in Range(servers)} \ {"production"}
      OfServer(s) == When(s.relative, "relative_server_url", "warning", at)
                       \o When(s.variables # {}, "server_variables_present", "info", at)
  IN  When(Len(servers) > 1, "multiple_servers_present", "info", at)
        \o When(Cardinality(profiles) > 1, "ambiguous_server_profiles", "info", at)
        \o Each(servers, OfServer)

--------------------------------------------------------------------------------
\* Schemas.

\* What _schema_complexity_findings reports of a count: hint, id, severity.
HintSpecs(request, deprecated) ==
  LET branching == IF request THEN "warning" ELSE "info"
  IN  <<<<"nullable", "nullable_fields_present", "info">>,
        <<"maps", "additional_properties_present", "info">>,
        <<"nested_polymorphic", "nested_polymorphic_schema", "info">>,
        <<"arrays_without_items", "array_without_item_schema", "warning">>,
        <<"large_objects", "large_object_schema", "info">>,
        <<"schema_keywords", "schema_keywords_present", "info">>,
        <<"string_constraints", "string_constraints_present", "info">>,
        <<"numeric_constraints", "numeric_constraints_present", "info">>,
        <<"array_constraints", "array_constraints_present", "info">>,
        <<"const_schema", "const_schema_present", "info">>,
        <<"deprecated_schema_fields", "deprecated_schema_fields", deprecated>>,
        <<"pattern_schema", "pattern_schema_present", "info">>,
        <<"unsupported_schema_keywords", "unsupported_schema_keywords_present", "info">>,
        <<"conditional_schema", "conditional_schema_present", branching>>,
        <<"dependent_schema", "dependent_schema_present", branching>>>>

DiscriminatorSpecs ==
  <<<<"discriminators", "discriminator_present", "info">>,
    <<"discriminator_mappings", "discriminator_mapping_present", "info">>,
    <<"discriminator_missing_property", "discriminator_missing_property", "warning">>,
    <<"discriminator_without_polymorphism", "discriminator_without_polymorphism", "warning">>,
    <<"discriminator_mapping_unresolved", "discriminator_mapping_unresolved", "warning">>,
    <<"discriminator_branch_without_tag", "discriminator_branch_without_tag", "info">>>>

DiscriminatorFindings(s, at) ==
  Each(DiscriminatorSpecs, LAMBDA spec : When(PathsWithHint(s, spec[1]) # {}, spec[2], spec[3], at))

SchemaFindings(s, at, request, deprecated) ==
  LET Reported(spec) == When(HintCount(s, spec[1], 0) > 0, spec[2], spec[3], at)
  IN  IF DOMAIN s = {} THEN <<>>
      ELSE Each(HintSpecs(request, deprecated), Reported) \o DiscriminatorFindings(s, at)

RECURSIVE RequiresDeprecated(_)
RequiresDeprecated(s) ==
  \/ \E n \in Required(s) \cap DOMAIN Properties(s) : Flag(Properties(s)[n], "deprecated")
  \/ \E child \in Children(s) : RequiresDeprecated(child[2])

BodyFindings(body, at) ==
  LET s == body.schema
      deprecated == IF RequiresDeprecated(s) THEN "warning" ELSE "info"
  IN  When(body.required /\ DOMAIN s = {}, "required_body_without_schema", "error", at)
        \o When(Has(s, "type") /\ s.type = <<"object">> /\ DOMAIN Properties(s) = {},
                "broad_object_schema", "warning", at)
        \o When(PathsWithHint(s, "read_only") # {}, "read_only_request_fields", "info", at)
        \o SchemaFindings(s, at, TRUE, deprecated)

\* response_category of a status, here a class of statuses.
Category(status) == CASE status \in {"200", "204"} -> "success"
                      [] status = "304" -> "redirect"
                      [] status = "404" -> "client_error"
                      [] status = "500" -> "server_error"
                      [] status = "default" -> "default"
                      [] OTHER -> "unknown"
NoBodyStatuses == {"204", "304"}

ResponseFindings(response, at) ==
  LET s        == response.schema
      shaped   == DOMAIN s # {}
      category == Category(response.status)
  IN  When(shaped, "response_schema_present", "info", at)
        \o When(~shaped, "response_without_schema", "info", at)
        \o When(~shaped /\ category = "success" /\ response.status \notin NoBodyStatuses,
                "success_response_without_schema", "warning", at)
        \o When(response.examples # <<>>, "response_example_present", "info", at)
        \o When(shaped /\ category \in {"client_error", "server_error"},
                "error_response_schema_present", "info", at)
        \o When(category = "default", "default_response_present", "info", at)
        \o When(Cardinality(response.types) > 1, "multiple_response_content_types", "info", at)
        \o When(Polymorphic(s), "response_polymorphic_schema", "info", at)
        \o When(PathsWithHint(s, "write_only") # {}, "write_only_response_fields", "info", at)
        \o SchemaFindings(s, at, FALSE, "info")

--------------------------------------------------------------------------------
\* Tools and the capability.

RequiredInputs(tool) == Len(RequiredOf(tool.parameters)) + Len(RequiredBody(tool))

\* A description that is missing is made of the method and the path.
WeakDescription(tool) == tool.summary = <<>> \/ Head(tool.summary) \in {"path", "method path"}

ToolFindings(tool) ==
  LET at == tool.name
      Described(p) == p.described
      OfParameter(p) == SchemaFindings(p.schema, at, FALSE, IF p.required THEN "warning" ELSE "info")
  IN  When(tool.name \in GenericToolNames, "generic_tool_name", "warning", at)
        \o When(tool.safety = "unknown", "unknown_safety", "warning", at)
        \o When(tool.safety \in {"write", "delete"}, "write_tools_present", "warning", at)
        \o When(WeakDescription(tool), "weak_tool_description", "warning", at)
        \o When(RequiredInputs(tool) > ManyRequiredParametersThreshold, "many_required_parameters", "warning", at)
        \o When(\E p \in Range(RequiredOf(tool.parameters)) : ~Described(p),
                "missing_parameter_descriptions", "info", at)
        \o Each(tool.body, LAMBDA b : BodyFindings(b, at))
        \o Each(tool.responses, LAMBDA r : ResponseFindings(r, at))
        \o Each(tool.parameters, OfParameter)
        \o Each(tool.auth, LAMBDA a : AuthFindings(a, at))
        \o SecurityFindings(tool.security, at)

DuplicateNames(tools) ==
  {tools[i].name : i \in {k \in DOMAIN tools : \E j \in DOMAIN tools : j # k /\ tools[j].name = tools[k].name}}

CapabilityFindings(capability) ==
  LET tools == capability.tools
      Some(safeties) == \E t \in Range(tools) : t.safety \in safeties
      OfTool(tool) ==
        ToolFindings(tool)
          \o (IF tool.source # "document" THEN ServerFindings(tool.servers, tool.name) ELSE <<>>)
          \o When(tool.source = "path", "path_server_override", "info", tool.name)
          \o When(tool.source = "operation", "operation_server_override", "info", tool.name)
  IN  When(Len(tools) > LargeToolsetThreshold, "large_toolset", "warning", <<>>)
        \o When(tools # <<>> /\ ~Some({"read"}), "no_read_tools", "warning", <<>>)
        \o When(~Some({"read"}) /\ Some({"write", "delete"}), "write_only_package", "warning", <<>>)
        \o When(capability.name \in GenericCapabilityNames, "generic_capability_name", "warning", <<>>)
        \o When(DuplicateNames(tools) # {}, "duplicate_tool_names", "error", <<>>)
        \o AuthFindings(capability.auth, <<>>)
        \o SecurityFindings(capability.security, <<>>)
        \o When(capability.base = <<>> /\ \A t \in Range(tools) : t.base = <<>>, "missing_base_url", "error", <<>>)
        \o ServerFindings(capability.servers, <<>>)
        \o When(~capability.region, "missing_provider_region", "info", <<>>)
        \o Each(tools, OfTool)
        \o When(\E t \in Range(tools) : t.auth # <<>>, "mixed_auth_summary", "info", <<>>)
        \o <<Finding("proxy_identity_ready", "info", <<>>)>>

--------------------------------------------------------------------------------
\* The score. Impacts are listed from the gravest.

Blocking == {"duplicate_tool_names", "missing_base_url", "required_body_without_schema"}

ActionRequired ==
  {"large_toolset", "no_read_tools", "write_only_package", "generic_capability_name",
   "generic_tool_name", "unknown_safety", "write_tools_present", "weak_tool_description",
   "many_required_parameters", "array_without_item_schema", "discriminator_missing_property",
   "discriminator_without_polymorphism", "discriminator_mapping_unresolved",
   "success_response_without_schema", "unsupported_auth_scheme", "unknown_auth",
   "auth_env_missing", "relative_server_url"}

ReviewRequired == {"broad_object_schema", "read_only_request_fields", "write_only_response_fields",
                   "conditional_schema_present", "dependent_schema_present"}

\* Any other id is metadata: the code lists those it knows, and falls back on
\* the severity for one it does not.
Impact(f) == CASE f.id = "proxy_identity_ready" -> "readiness"
               [] f.id \in Blocking             -> "blocking"
               [] f.id \in ActionRequired       -> "action_required"
               [] f.id \in ReviewRequired       -> "review_required"
               [] f.id = "deprecated_schema_fields" /\ f.severity = "warning" -> "review_required"
               [] OTHER -> "metadata_review"

Penalty == [blocking |-> 35, action_required |-> 10, review_required |-> 4,
            metadata_review |-> 1, readiness |-> 0]

CountOf(findings, Counted(_)) == Len(SelectSeq(findings, Counted))

Score(findings) ==
  LET Of(impact) == SelectSeq(findings, LAMBDA f : Impact(f) = impact)
      raw(impact) == Len(Of(impact)) * Penalty[impact]
      ids(impact) == {f.id : f \in Range(Of(impact))}
      penalty == raw("blocking") + raw("review_required")
                   + Min({raw("action_required"), 10 * Cardinality(ids("action_required"))})
                   + Min({raw("metadata_review"), 8})
  IN  Max({0, Min({100, 100 - penalty})})

Summary(findings) ==
  [errors   |-> CountOf(findings, LAMBDA f : f.severity = "error"),
   warnings |-> CountOf(findings, LAMBDA f : f.severity = "warning"),
   info     |-> CountOf(findings, LAMBDA f : f.severity = "info")]

Status(summary) == CASE summary.errors > 0 -> "fail"
                     [] summary.errors = 0 /\ summary.warnings > 0 -> "warn"
                     [] OTHER -> "pass"

Report(findings) ==
  [findings |-> findings, ids |-> {f.id : f \in Range(findings)},
   status |-> Status(Summary(findings)), score |-> Score(findings)]

DiagnoseCapability(capability) == Report(CapabilityFindings(capability))
================================================================================
