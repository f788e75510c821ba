-------------------------------- MODULE OpenApi --------------------------------
(***************************************************************************)
(* From an OpenAPI document to a capability: parsers/openapi.py with the   *)
(* names (utils/naming.py), the safety classes (safety/classifier.py), the *)
(* intermediate representation (ir/models.py) and the filters (filters.py) *)
(* it uses.                                                                *)
(*                                                                         *)
(* A name of the source is [words, style]; two of the same words differ    *)
(* only in the separators and capitals that snake_name removes. A path is  *)
(* the sequence of its segments. What a document may leave out is a        *)
(* sequence of one element or none.                                        *)
(***************************************************************************)
EXTENDS Samples

\* F of each element, one after the other.
Each(seq, F(_)) == FlattenSeq([i \in DOMAIN seq |-> F(seq[i])])

\* snake_name and env_name.
Unnamed         == [words |-> <<>>, style |-> "none"]
SnakeName(name) == IF name.words = <<>> THEN <<"api">> ELSE name.words
EnvName(capability, suffix) == capability \o suffix

SafetyOf(method) == CASE method \in {"get", "head", "options"} -> "read"
                      [] method \in {"post", "put", "patch"} -> "write"
                      [] method = "delete" -> "delete"
                      [] OTHER -> "unknown"

HttpMethods == {"get", "post", "put", "patch", "delete", "head", "options"}

--------------------------------------------------------------------------------
\* References and composition.

\* _resolve_refs: keywords beside a reference override what it refers to; a
\* reference met inside itself, or to nothing, stays.
RECURSIVE ResolveFrom(_, _, _)
ResolveFrom(components, s, seen) ==
  LET Inner(child)    == ResolveFrom(components, child, seen)
      siblings        == [k \in DOMAIN s \ {"ref"} |-> s[k]]
      resolved        == ResolveFrom(components, components[s.ref], seen \cup {s.ref})
      Sibling(child)  == ResolveFrom(components, child, seen \cup {s.ref})
  IN  CASE ~Has(s, "ref") -> OnChildren(s, Inner)
        [] Has(s, "ref") /\ (s.ref \in seen \/ s.ref \notin DOMAIN components) -> s
        [] OTHER -> OnChildren(siblings, Sibling) @@ resolved

ResolveRefs(document, value) == ResolveFrom(document.components, value, {})

\* _merge_all_of: object parts are merged, a later part's properties over an
\* earlier one's and their other keywords under what is there; other parts stay.
MergeAllOf(s) ==
  LET IsObject(part) == (Has(part, "type") /\ part.type = <<"object">>) \/ Has(part, "properties")
      own     == [k \in DOMAIN s \ {"allOf"} |-> s[k]]
      objects == SelectSeq(s.allOf, IsObject)
      others  == SelectSeq(s.allOf, LAMBDA part : ~IsObject(part))
      Rest(part) == [k \in DOMAIN part \ {"type", "properties", "required"} |-> part[k]]
      merged  == FoldLeft(LAMBDA done, part : Properties(part) @@ done, Properties(own), objects)
      keywords == FoldLeft(LAMBDA done, part : done @@ Rest(part), own, objects)
      required == Required(own) \cup UNION {Required(part) : part \in Range(objects)}
      object  == objects # <<>> \/ DOMAIN Properties(own) # {} \/ (Has(own, "type") /\ own.type = <<"object">>)
  IN  (IF object
         THEN [k \in {"type"} |-> <<"object">>] @@ [k \in {"properties"} |-> merged]
                @@ [k \in {"required" : n \in required} |-> required]
         ELSE <<>>)
      @@ keywords @@ [k \in {"allOf" : part \in Range(others)} |-> others]

RECURSIVE Normalize(_)
Normalize(s) ==
  LET inner == OnChildren(s, Normalize)
  IN  IF Has(s, "allOf") THEN MergeAllOf(inner) ELSE inner

ResolveSchema(document, s) == Normalize(ResolveRefs(document, s))

\* An operation is resolved, then each part of it, then the part's schema. A
\* recursive schema is unfolded by one more level each time.
ResolveTwice(document, value) == ResolveRefs(document, ResolveRefs(document, value))

--------------------------------------------------------------------------------
\* Servers. A source server is [url, markers, relative, variables]: the words
\* its URL and description show, and the default of each variable that has one.

ServerConfigs(servers, source) ==
  [i \in DOMAIN servers |->
    [url |-> servers[i].url, source |-> source, variables |-> DOMAIN servers[i].variables,
     resolved |-> <<servers[i].url, servers[i].variables>>, relative |-> servers[i].relative,
     hints |-> (servers[i].markers \cap {"sandbox", "staging", "production", "admin"})
                 \cup (IF "region" \in servers[i].markers \cup DOMAIN servers[i].variables
                         THEN {"regional"} ELSE {})
                 \cup (IF servers[i].relative THEN {"relative"} ELSE {})]]

--------------------------------------------------------------------------------
\* Security. The secret of every scheme of one kind is sought under the same
\* name. A requirement is a sequence of <<scheme, scopes>>, all of them
\* needed; the empty one is anonymous access. A section that is there is a
\* sequence of requirements, any of which will do.

NoAuth == [type |-> "none", env |-> <<>>, location |-> "none", name |-> "none",
           scheme |-> "none", scopes |-> {}, reason |-> "none", credentials |-> <<>>]

UnknownAuth(scheme, scopes, reason) ==
  [NoAuth EXCEPT !.type = "unknown", !.location = "unknown", !.scheme = scheme,
                 !.scopes = scopes, !.reason = reason]

SecuritySchemes(document, capability) ==
  [n \in DOMAIN document.schemes |->
     LET scheme == document.schemes[n]
     IN  CASE scheme.type = "http" /\ scheme.scheme = "bearer" ->
                [NoAuth EXCEPT !.type = "bearer", !.env = EnvName(capability, <<"token">>),
                               !.location = "authorization", !.name = "Authorization", !.scheme = n]
           [] scheme.type = "apiKey" /\ scheme.in \in {"header", "query", "cookie"} ->
                [NoAuth EXCEPT !.type = "api_key", !.env = EnvName(capability, <<"api", "key">>),
                               !.location = scheme.in, !.name = scheme.name, !.scheme = n]
           [] OTHER -> UnknownAuth(n, IF scheme.type = "oauth2" THEN scheme.scopes ELSE {},
                                   IF scheme.type \in {"oauth2", "openIdConnect"}
                                     THEN "metadata-only" ELSE "unsupported")]

\* _security_requirements_for, of a security section that is there.
SecurityRequirements(security, schemes) ==
  LET Auth(n, scopes) ==
        LET auth == IF n \in DOMAIN schemes THEN schemes[n] ELSE UnknownAuth(n, {}, "undefined")
        IN  IF scopes = {} THEN auth ELSE [auth EXCEPT !.scopes = scopes]
  IN  [i \in DOMAIN security |->
        [anonymous |-> security[i] = <<>>,
         schemes   |-> [j \in DOMAIN security[i] |-> Auth(security[i][j][1], security[i][j][2])]]]

Supported(auth) == auth.type \in {"bearer", "api_key"}
                     /\ auth.location \in {"authorization", "header", "query", "cookie"}

SelectAuth(alternatives) ==
  LET usable == {i \in DOMAIN alternatives : /\ alternatives[i].schemes # <<>>
                                             /\ \A a \in Range(alternatives[i].schemes) : Supported(a)}
      schemes == alternatives[Min(usable)].schemes
  IN  CASE alternatives = <<>> \/ \E a \in Range(alternatives) : a.anonymous -> NoAuth
        [] OTHER ->
             IF usable = {} THEN
               [UnknownAuth("none", {}, "no supported alternative") EXCEPT
                  !.credentials = FlattenSeq([i \in DOMAIN alternatives |-> alternatives[i].schemes])]
             ELSE IF Len(schemes) = 1 THEN Head(schemes)
             ELSE [Head(schemes) EXCEPT !.credentials = schemes]

\* _extract_auth: without a security section, the first scheme that works.
CapabilityAuth(document, schemes) ==
  LET known == SelectSeq(document.schemeOrder, LAMBDA n : schemes[n].type # "unknown")
  IN  CASE document.security # <<>> -> SelectAuth(SecurityRequirements(document.security[1], schemes))
        [] document.security = <<>> /\ known # <<>> -> schemes[Head(known)]
        [] OTHER -> NoAuth

--------------------------------------------------------------------------------
\* Filters. A pattern is [segments, glob]; a glob ends in a star.

EmptyFilter == [tags |-> {}, paths |-> {}, operations |-> {}, max |-> <<>>]
Limited(tools, filter) == IF filter.max = <<>> THEN tools
                           ELSE SubSeq(tools, 1, Min({filter.max[1], Len(tools)}))

Lower(tag) == tag[1]    \* a tag is <<word, how it is capitalised>>

PathMatches(path, pattern) ==
  IF pattern.glob THEN IsPrefix(pattern.segments, path) /\ Len(path) > Len(pattern.segments)
  ELSE \E i, j \in 1..Len(path) : SubSeq(path, i, j) = pattern.segments

TagsMatch(tags, wanted) ==
  wanted # {} => {Lower(t) : t \in wanted} \cap {Lower(t) : t \in tags} # {}

\* _matches_operation_filters, on the operation as the document has it.
MatchesOperationFilters(path, method, operation, filter) ==
  LET id    == operation.id
      names == {IF id # Unnamed THEN SnakeName(id) ELSE <<method>> \o path}
  IN  /\ TagsMatch(operation.tags, filter.tags)
      /\ filter.paths # {} => \E p \in filter.paths : PathMatches(path, p)
      /\ filter.operations # {} => \E o \in filter.operations :
           (id # Unnamed /\ o = id) \/ SnakeName(o) \in names

\* filter_capability, on a capability that was parsed without a filter.
FilterCapability(capability, filter) ==
  LET Matches(tool) ==
        /\ TagsMatch(tool.tags, filter.tags)
        /\ filter.paths # {} => \E p \in filter.paths : PathMatches(tool.path, p)
        /\ filter.operations # {} => \E o \in filter.operations :
             (tool.id # Unnamed /\ o = tool.id) \/ SnakeName(o) = tool.name
  IN  [capability EXCEPT !.tools = Limited(SelectSeq(@, Matches), filter)]

--------------------------------------------------------------------------------
\* Tools.

\* _extract_parameters: cookies, and references to nothing, are left out.
Parameters(document, parameters) ==
  LET resolved == [i \in DOMAIN parameters |-> ResolveRefs(document, parameters[i])]
      kept     == SelectSeq(resolved, LAMBDA p : Has(p, "in") /\ p.in \in {"path", "query", "header"})
  IN  [i \in DOMAIN kept |-> [kept[i] EXCEPT !.schema = ResolveSchema(document, @)]]

\* _select_content: JSON, or the first type there is.
SelectContent(content) ==
  LET json == {i \in DOMAIN content : content[i].type = "application/json"}
  IN  content[IF json = {} THEN 1 ELSE Min(json)]

RequestBodies(document, bodies) ==
  LET kept == SelectSeq(bodies, LAMBDA b : b.content # <<>>)
  IN  [i \in DOMAIN kept |->
        LET chosen == SelectContent(kept[i].content)
        IN  [required |-> kept[i].required, type |-> chosen.type, examples |-> chosen.examples,
             schema |-> ResolveSchema(document, ResolveTwice(document, chosen.schema))]]

Responses(document, responses) ==
  [i \in DOMAIN responses |->
     LET content == responses[i].content
         chosen  == SelectContent(content)
     IN  [status |-> responses[i].status, types |-> {c.type : c \in Range(content)},
          schema |-> IF content = <<>> THEN <<>>
                     ELSE ResolveSchema(document, ResolveTwice(document, chosen.schema)),
          examples |-> IF content = <<>> THEN <<>> ELSE chosen.examples]]

\* _extract_tools for one operation of a path. A tool is named after its
\* operation, or its method and path; nothing makes the names distinct.
ToolOf(document, item, entry, defaults) ==
  LET operation == entry.operation
      own       == ServerConfigs(operation.servers, "operation")
      paths     == ServerConfigs(item.servers, "path")
      servers   == CASE own # <<>> -> own
                     [] own = <<>> /\ paths # <<>> -> paths
                     [] OTHER -> defaults.servers
      auth      == SelectAuth(SecurityRequirements(operation.security[1], defaults.schemes))
  IN  [name |-> SnakeName(IF operation.id # Unnamed THEN operation.id
                          ELSE [words |-> <<entry.method>> \o item.path, style |-> "path"]),
       id |-> operation.id, method |-> entry.method, path |-> item.path,
       safety |-> SafetyOf(entry.method), tags |-> operation.tags, summary |-> operation.summary,
       parameters |-> Parameters(document, item.parameters)
                        \o Parameters(document, [i \in DOMAIN operation.parameters |->
                             ResolveRefs(document, operation.parameters[i])]),
       body |-> RequestBodies(document, operation.body),
       responses |-> Responses(document, operation.responses),
       servers |-> servers, source |-> IF servers = <<>> THEN "none" ELSE servers[1].source,
       base |-> IF servers = <<>> \/ servers[1].resolved = defaults.base THEN <<>>
                ELSE servers[1].resolved,
       auth |-> IF operation.security = <<>> \/ auth = defaults.auth THEN <<>> ELSE <<auth>>,
       security |-> IF operation.security = <<>> THEN <<>>
                    ELSE <<SecurityRequirements(operation.security[1], defaults.schemes)>>]

\* _extract_tools: filters come first, and the limit ends the search.
Tools(document, defaults, filter) ==
  LET OfItem(item) ==
        LET Kept(entry) ==
              IF entry.method \in HttpMethods
                   /\ MatchesOperationFilters(item.path, entry.method, entry.operation, filter)
                THEN <<ToolOf(document, item, entry, defaults)>> ELSE <<>>
        IN  Each(item.operations, Kept)
  IN  Limited(Each(document.paths, OfItem), filter)

ParseOpenApi(document, filter) ==
  LET name    == SnakeName(document.title)
      schemes == SecuritySchemes(document, name)
      servers == ServerConfigs(document.servers, "document")
      base    == IF servers = <<>> THEN <<>> ELSE servers[1].resolved
      auth    == CapabilityAuth(document, schemes)
  IN  [name |-> name, auth |-> auth, servers |-> servers, base |-> base, region |-> FALSE,
       security |-> [i \in DOMAIN document.security |->
                       SecurityRequirements(document.security[i], schemes)],
       tools |-> Tools(document, [servers |-> servers, base |-> base, auth |-> auth,
                                  schemes |-> schemes], filter)]

CountOperations(document) ==
  LET Counted(item) == SelectSeq(item.operations, LAMBDA e : e.method \in HttpMethods)
  IN  Len(FlattenSeq([i \in DOMAIN document.paths |-> Counted(document.paths[i])]))
================================================================================
