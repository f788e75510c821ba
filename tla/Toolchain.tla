------------------------------- MODULE Toolchain -------------------------------
(***************************************************************************)
(* What api2agent generate makes of a source and its options: the package  *)
(* that PackageCommands writes, tests and serves, from the parsers, the    *)
(* filter, the samples, the tool schemas and the diagnostics.              *)
(***************************************************************************)
EXTENDS Diagnostics, Captures, PackageCommands

CONSTANTS
  Documents,         \* the OpenAPI documents, by name
  Captures,          \* the exports of the other nine parsers, by name
  Filters            \* the options of --include-... and --max-tools, by name

\* A build is <<document or export, filter, whether --provider-region is given>>.

--------------------------------------------------------------------------------
\* The secrets of an auth, and those of a capability that auth.env.example names.
AuthEnvNames(auth) ==
  {c.env : c \in {a \in (IF auth.credentials = <<>> THEN {auth} ELSE Range(auth.credentials)) :
                    a.type \in {"api_key", "bearer"} /\ a.env # <<>>}}

AuthEnv(capability) ==
  AuthEnvNames(capability.auth)
    \cup UNION {AuthEnvNames(t.auth[1]) : t \in {u \in Range(capability.tools) : u.auth # <<>>}}

AuthOf(capability, tool) == IF tool.auth = <<>> THEN capability.auth ELSE tool.auth[1]

\* A document is filtered while it is parsed, any other source afterwards.
CapabilityOf(build) ==
  LET source == build[1]
      filter == Filters[build[2]]
      parsed == IF source \in DOMAIN Documents THEN ParseOpenApi(Documents[source], filter)
                ELSE FilterCapability(ParseCapture(Captures[source]), filter)
  IN  [parsed EXCEPT !.region = build[3]]

\* A tool as the files of the package have it, in tools.json as it is offered
\* and in a generated test with its sample inputs.
PackagedTool(capability, tool) ==
  [name |-> tool.name, safety |-> tool.safety, required |-> RequiredNames(tool),
   authorized |-> AuthOf(capability, tool).type # "unknown",
   offered |-> ToolParameters(tool), sample |-> SampleParams(tool)]

\* generate_package: what the files say.
Package(capability) ==
  [capability  |-> capability,
   tools       |-> [i \in DOMAIN capability.tools |-> PackagedTool(capability, capability.tools[i])],
   diagnostics |-> DiagnoseCapability(capability),
   env         |-> AuthEnv(capability)]

\* The packages of an instance's builds.
Packages == [b \in Builds |-> Package(CapabilityOf(b))]

--------------------------------------------------------------------------------
\* Whether the scripts of a package fit the tools of one.

\* A tool whose inputs have distinct names and schemas that can be filled.
Samplable(tool) ==
  /\ \A i, j \in DOMAIN tool.parameters : tool.parameters[i].name = tool.parameters[j].name => i = j
  /\ \A p \in Range(tool.parameters) : p.name # "body" /\ (p.required => Fillable(p.schema))
  /\ \A b \in Range(tool.body) : Fillable(Shape(b.schema, "request"))

\* The sample call has what is offered of the tool that its name means.
CallFits(call, tool, offered, auth, env) ==
  /\ AuthEnvNames(auth) \subseteq env
  /\ Samplable(tool) =>
       \A n \in offered.required : n \in DOMAIN call.params /\ Fits(call.params[n], offered.properties[n])

ScriptsFit(tested, package) ==
  \A call \in ScriptOf(tested, {"read"}) \cup ScriptOf(tested, Writing) :
    \E i \in FirstNamed(package.tools, call.name) :
      LET tool == package.capability.tools[i]
      IN  CallFits(call, tool, package.tools[i].offered, AuthOf(package.capability, tool), package.env)

\* Unless diagnose says that two tools have one name.
FittingBuilds ==
  {b \in Builds \X Builds : ReportsDuplicates(Packages[b[2]]) \/ ScriptsFit(Packages[b[1]], Packages[b[2]])}

\* What PackageCommands takes for granted of its packages is made here.
ASSUME BuildsAssumption == Built = Packages /\ Fitting = FittingBuilds

--------------------------------------------------------------------------------
\* The operators agree with each other on the documents of an instance.

\* Filtering while parsing gives what filtering afterwards gives, and without
\* a filter a document has as many tools as operations are counted in it.
ASSUME FilterAssumption ==
  \A d \in DOMAIN Documents :
    LET whole == ParseOpenApi(Documents[d], EmptyFilter)
    IN  /\ Len(whole.tools) = CountOperations(Documents[d])
        /\ \A f \in DOMAIN Filters :
             ParseOpenApi(Documents[d], Filters[f]) = FilterCapability(whole, Filters[f])

Sources == DOMAIN Documents \cup DOMAIN Captures
Parsed(source) == IF source \in DOMAIN Documents THEN ParseOpenApi(Documents[source], EmptyFilter)
                  ELSE ParseCapture(Captures[source])

NamesAreDistinct(tools) == Cardinality({t.name : t \in Range(tools)}) = Len(tools)

\* Two requests of one recording never share a name, and of every source with
\* distinct names, the tests of a package fit its tools.
ASSUME SampleAssumption ==
  \A source \in Sources :
    LET package == Package(Parsed(source))
        tools   == package.capability.tools
    IN  /\ source \in DOMAIN Captures /\ Captures[source].kind \notin {"graphql", "proto"} =>
             NamesAreDistinct(tools)
        /\ NamesAreDistinct(tools) => ScriptsFit(package, package)

SchemasOf(tool) == {p.schema : p \in Range(tool.parameters)} \cup {b.schema : b \in Range(tool.body)}
                     \cup {r.schema : r \in Range(tool.responses)}

\* A hint is counted as often as it has a place, and a shaped request is one
\* that shaping leaves alone.
ASSUME ShapingAssumption ==
  \A source \in Sources : \A tool \in Range(Parsed(source).tools) : \A s \in SchemasOf(tool) :
    /\ \A spec \in Range(HintSpecs(FALSE, "info")) :
         HintCount(s, spec[1], 0) = Cardinality(PathsWithHint(s, spec[1]))
    /\ Shape(Shape(s, "request"), "request") = Shape(s, "request")

\* A report fails exactly on a blocking finding, and then scores 65 at most.
ASSUME ReportAssumption ==
  \A source \in Sources :
    LET report == DiagnoseCapability(Parsed(source))
    IN  /\ report.score \in 0..100
        /\ report.status = "fail" <=> report.ids \cap Blocking # {}
        /\ report.status = "fail" => report.score <= 65
================================================================================
