-------------------------------- MODULE Captures --------------------------------
(***************************************************************************)
(* The other sources of a capability: recorded requests (parsers/curl.py,  *)
(* har.py, postman.py, insomnia.py and bruno.py) and manifests             *)
(* (workflow.py, graphql.py, asyncapi.py and protobuf.py).                 *)
(*                                                                         *)
(* An export has a kind, a title, variables (what a name stands for in a   *)
(* base URL) and requests in the order of the file. A URL is [base, host,  *)
(* path, query]: a base is [http, text], or the name of a variable; a path *)
(* is a sequence of [text, variable]. A recorded value is [kind, ...] and  *)
(* has no more structure than JSON. Header names are in lower case.        *)
(***************************************************************************)
EXTENDS OpenApi

Optional(value, condition) == IF condition THEN <<value>> ELSE <<>>

--------------------------------------------------------------------------------
\* What the parsers have in common.

\* _infer_schema. A null is a value without a type, or taken for a string.
RECURSIVE InferSchema(_, _)
InferSchema(value, nullIsString) ==
  CASE value.kind = "object" ->
         [type |-> <<"object">>,
          properties |-> [n \in DOMAIN value.fields |-> InferSchema(value.fields[n], nullIsString)]]
    [] value.kind = "array" ->
         [type |-> <<"array">>,
          items |-> IF value.items = <<>> THEN <<>> ELSE InferSchema(Head(value.items), nullIsString)]
    [] value.kind = "null" /\ ~nullIsString -> <<>>
    [] value.kind = "null" /\ nullIsString  -> [type |-> <<"string">>]
    [] OTHER -> [type |-> <<value.kind>>]

InferDefault(value, nullIsString) == InferSchema(value, nullIsString) @@ [default |-> value]

\* An input that a recording shows: never required, and its value the default.
Recorded(item, in, nullIsString) ==
  [name |-> item.name, in |-> in, required |-> FALSE, described |-> FALSE, examples |-> <<>>,
   schema |-> InferDefault(item.value, nullIsString)]

RecordedAll(items, in, nullIsString) ==
  [i \in DOMAIN items |-> Recorded(items[i], in, nullIsString)]

Enabled(items) == SelectSeq(items, LAMBDA item : ~item.disabled)

\* _parameters_from_path: the variables of the path are required.
PathParameters(path) ==
  LET variables == SelectSeq(path, LAMBDA part : part.variable)
  IN  [i \in DOMAIN variables |->
        [name |-> variables[i].text, in |-> "path", required |-> TRUE, described |-> FALSE,
         examples |-> <<>>, schema |-> [type |-> <<"string">>]]]

RecordedBody(type, value, nullIsString) ==
  [required |-> TRUE, type |-> type, schema |-> InferSchema(value, nullIsString),
   examples |-> Optional(value, value.kind # "null")]

\* _unique_tool_name: a number after a name that was seen before, the first
\* that makes it new.
UniqueName(name, seen) ==
  LET Numbered(i) == name \o <<ToString(i)>>
  IN  IF name \notin seen THEN name
      ELSE Numbered(Min({i \in 2..(Cardinality(seen) + 2) : Numbered(i) \notin seen}))

WithUniqueNames(tools) ==
  FoldLeft(LAMBDA done, tool :
             Append(done, [tool EXCEPT !.name = UniqueName(tool.name, {t.name : t \in Range(done)})]),
           <<>>, tools)

\* The auth of an object that has one: _auth_from_postman and its likes. A
\* manifest may name the secret; a place they do not know becomes a header.
DeclaredAuth(auth, capability) ==
  LET Env(suffix) == IF auth.env # <<>> THEN auth.env ELSE EnvName(capability, suffix)
  IN  CASE auth.type = "none" -> NoAuth
        [] auth.type = "bearer" ->
             [NoAuth EXCEPT !.type = "bearer", !.env = Env(<<"token">>),
                            !.location = "authorization", !.name = "Authorization"]
        [] auth.type = "apikey" ->
             [NoAuth EXCEPT !.type = "api_key", !.env = Env(<<"api", "key">>), !.name = auth.key,
                            !.location = IF auth.in \in {"header", "query"} THEN auth.in ELSE "header"]
        [] OTHER -> [NoAuth EXCEPT !.type = "unknown", !.reason = "unsupported"]

AuthObject(auths, capability) == IF auths = <<>> THEN NoAuth ELSE DeclaredAuth(auths[1], capability)

BearerHeader(capability)    == [NoAuth EXCEPT !.type = "bearer", !.env = EnvName(capability, <<"token">>),
                                  !.location = "authorization", !.name = "Authorization"]
KeyHeader(capability, name) == [NoAuth EXCEPT !.type = "api_key", !.env = EnvName(capability, <<"api", "key">>),
                                  !.location = "header", !.name = name]

\* The first of a sequence of auths that is one.
FirstAuth(auths) ==
  LET some == SelectSeq(auths, LAMBDA a : a.type # "none")
  IN  IF some = <<>> THEN NoAuth ELSE Head(some)

\* A tool has an auth of its own when it differs from the collection's; a
\* request that was recorded without any shares the collection's.
OwnAuth(auth, shared) == Optional(auth, auth.type # "none" /\ auth # shared)

\* _capability_name_from_host.
HostName(host, prefixes, suffix) ==
  CASE host[1] \in prefixes /\ Len(host) > 1 -> <<host[2]>> \o (IF suffix = <<>> THEN <<host[1]>> ELSE suffix)
    [] OTHER -> <<host[1]>> \o suffix

Joined(words) == FoldLeft(LAMBDA done, word : done \o "_" \o word, Head(words), Tail(words))

Titled(export, otherwise) == IF export.title = Unnamed THEN otherwise ELSE SnakeName(export.title)

Texts(path) == [i \in DOMAIN path |-> path[i].text]
BaseUrl(base, variables) == IF base.http \/ base.text \notin DOMAIN variables THEN base ELSE variables[base.text]
IsHttp(request, variables) == request.url # <<>> /\ BaseUrl(request.url[1].base, variables).http

SuccessResponse(schemas) ==
  [i \in DOMAIN schemas |-> [status |-> "200", types |-> {"application/json"}, schema |-> schemas[i],
                             examples |-> <<>>]]

\* The fields that most tools leave at their defaults.
BaseTool(name, method, path) ==
  [name |-> name, id |-> Unnamed, method |-> method, path |-> path, safety |-> SafetyOf(method),
   tags |-> {}, summary |-> <<"good">>, parameters |-> <<>>, body |-> <<>>, responses |-> <<>>,
   servers |-> <<>>, source |-> "none", base |-> <<>>, auth |-> <<>>, security |-> <<>>]

CapabilityWith(name, auth, base, tools) ==
  [name |-> name, auth |-> auth, servers |-> <<>>, base |-> base, region |-> FALSE,
   security |-> <<>>, tools |-> tools]

--------------------------------------------------------------------------------
\* cURL: one command, one tool. An API key stays among the parameters.

CurlAuth(headers, capability) ==
  FirstAuth([i \in DOMAIN headers |->
    CASE headers[i].name = "authorization" /\ headers[i].bearer -> BearerHeader(capability)
      [] headers[i].name = "x-api-key" -> KeyHeader(capability, "x-api-key")
      [] OTHER -> NoAuth])

ParseCurl(export) ==
  LET r       == export.requests[1]
      url     == r.url[1]
      name    == Titled(export, HostName(url.host, {"api", "www"}, <<>>))
      method  == IF r.method = "get" /\ r.body # <<>> THEN "post" ELSE r.method
      headers == SelectSeq(r.headers, LAMBDA h : /\ ~(h.name = "authorization" /\ h.bearer)
                                                 /\ h.name # "content-type")
      words   == IF url.path = <<>> THEN name ELSE Texts(url.path)
  IN  CapabilityWith(name, CurlAuth(r.headers, name), <<url.base.text>>,
        <<[BaseTool(<<method>> \o words, method, Texts(url.path)) EXCEPT
             !.summary = <<"method path">>,
             !.parameters = RecordedAll(url.query, "query", TRUE) \o RecordedAll(headers, "header", TRUE),
             !.body = [i \in DOMAIN r.body |->
                        [RecordedBody("application/json", r.body[i].value, TRUE) EXCEPT !.examples = <<>>]]]>>)

--------------------------------------------------------------------------------
\* HAR: what a browser sent, without the headers that a browser adds.

BrowserHeaderNames ==
  {"accept", "accept-encoding", "accept-language", "cache-control", "connection", "cookie", "host",
   "origin", "referer", "sec-ch-ua", "sec-ch-ua-mobile", "sec-ch-ua-platform", "sec-fetch-dest",
   "sec-fetch-mode", "sec-fetch-site", "upgrade-insecure-requests", "user-agent"}

HarAuth(headers, capability) ==
  FirstAuth([i \in DOMAIN headers |->
    CASE headers[i].name = "authorization" /\ headers[i].bearer -> BearerHeader(capability)
      [] headers[i].name \in {"x-api-key", "api-key"} -> KeyHeader(capability, headers[i].name)
      [] OTHER -> NoAuth])

\* _response_shape: an entry without an answer has one of no status.
HarResponse(response) ==
  IF response = <<>>
    THEN [status |-> "default", types |-> {"application/json"}, schema |-> <<>>, examples |-> <<>>]
    ELSE [status |-> response[1].status, types |-> {response[1].type},
          schema |-> InferSchema(response[1].value, FALSE),
          examples |-> Optional(response[1].value, response[1].value.kind # "null")]

HarTool(r, capability, shared) ==
  LET url     == r.url[1]
      hidden  == BrowserHeaderNames \cup {"content-type", "authorization", "x-api-key", "api-key"}
      headers == SelectSeq(r.headers, LAMBDA h : h.name \notin hidden)
      words   == IF url.path = <<>> THEN capability ELSE Texts(url.path)
  IN  [BaseTool(<<r.method>> \o words, r.method, Texts(url.path)) EXCEPT
         !.base = <<url.base.text>>,
         !.tags = {<<"har", "low">>, <<Joined(HostName(url.host, {"api", "www"}, <<>>)), "low">>},
         !.parameters = RecordedAll(IF r.query # <<>> THEN r.query ELSE url.query, "query", FALSE)
                          \o RecordedAll(headers, "header", FALSE),
         !.body = [i \in DOMAIN r.body |-> RecordedBody(r.body[i].type, r.body[i].value, FALSE)],
         !.responses = <<HarResponse(r.response)>>,
         !.auth = OwnAuth(HarAuth(r.headers, capability), shared)]

ParseHar(export) ==
  LET requests == SelectSeq(export.requests, LAMBDA r : IsHttp(r, <<>>))
      url      == requests[1].url[1]
      name     == Titled(export, HostName(url.host, {"api", "www"}, <<>>))
      shared   == FirstAuth([i \in DOMAIN requests |-> HarAuth(requests[i].headers, name)])
  IN  CapabilityWith(name, shared, <<url.base.text>>,
        WithUniqueNames([i \in DOMAIN requests |-> HarTool(requests[i], name, shared)]))

--------------------------------------------------------------------------------
\* Postman: an auth of the collection, and requests that may name their own,
\* also that they want none. A base that nothing resolves is left out.

PostmanHeaders(headers) ==
  SelectSeq(Enabled(headers), LAMBDA h : h.name \notin {"authorization", "content-type"})

\* _url_parts: the query that is listed, or the one of the raw URL.
PostmanUrl(r, variables) ==
  LET url    == r.url[1]
      base   == BaseUrl(url.base, variables)
      listed == Enabled(r.query)
  IN  [base |-> Optional(base.text, base.http), path |-> Texts(url.path),
       parameters |-> PathParameters(url.path)
                        \o RecordedAll(IF listed # <<>> THEN listed ELSE url.query, "query", TRUE)]

PostmanTool(r, capability, variables) ==
  LET url   == PostmanUrl(r, variables)
      words == IF r.name # Unnamed THEN SnakeName(r.name)
               ELSE <<r.method>> \o [i \in DOMAIN r.folders |-> Lower(r.folders[i])] \o url.path
  IN  [BaseTool(words, r.method, url.path) EXCEPT
         !.base = url.base, !.tags = Range(r.folders),
         !.summary = <<IF r.name # Unnamed THEN "good" ELSE "method path">>,
         !.parameters = url.parameters \o RecordedAll(PostmanHeaders(r.headers), "header", TRUE),
         !.body = LET kept == SelectSeq(r.body, LAMBDA b : b.mode # "file")
                  IN  [i \in DOMAIN kept |-> RecordedBody(kept[i].type, kept[i].value, TRUE)],
         !.auth = [i \in DOMAIN r.auth |-> DeclaredAuth(r.auth[i], capability)]]

ParsePostman(export) ==
  LET name     == Titled(export, <<"postman", "collection">>)
      requests == SelectSeq(export.requests, LAMBDA r : r.url # <<>>)
      tools    == WithUniqueNames([i \in DOMAIN requests |-> PostmanTool(requests[i], name, export.variables)])
      named    == SelectSeq(<<"baseUrl", "base_url", "url">>,
                            LAMBDA n : n \in DOMAIN export.variables /\ export.variables[n].http)
  IN  CapabilityWith(name, AuthObject(export.auth, name),
        IF named # <<>> THEN <<export.variables[Head(named)].text>>
        ELSE IF tools # <<>> THEN tools[1].base ELSE <<>>,
        tools)

--------------------------------------------------------------------------------
\* Insomnia: flat resources. A body without a text is required all the same.

InsomniaTool(r, capability, variables, shared) ==
  LET url   == r.url[1]
      words == IF r.name # Unnamed THEN SnakeName(r.name) ELSE <<r.method>> \o Texts(url.path)
  IN  [BaseTool(words, r.method, Texts(url.path)) EXCEPT
         !.base = <<BaseUrl(url.base, variables).text>>,
         !.tags = {r.folders[i] : i \in {Len(r.folders)} \cap DOMAIN r.folders},
         !.summary = <<IF r.name # Unnamed THEN "good" ELSE "method path">>,
         !.parameters = PathParameters(url.path) \o RecordedAll(url.query, "query", FALSE)
                          \o RecordedAll(PostmanHeaders(r.headers), "header", FALSE),
         !.body = [i \in DOMAIN r.body |-> RecordedBody(r.body[i].type, r.body[i].value, FALSE)],
         !.auth = OwnAuth(AuthObject(r.auth, capability), shared)]

\* The shared auth may come from a request that is left out.
ParseInsomnia(export) ==
  LET name     == Titled(export, <<"insomnia", "collection">>)
      requests == SelectSeq(export.requests, LAMBDA r : IsHttp(r, export.variables))
      shared   == FirstAuth([i \in DOMAIN export.requests |-> AuthObject(export.requests[i].auth, name)])
      tools    == [i \in DOMAIN requests |-> InsomniaTool(requests[i], name, export.variables, shared)]
  IN  CapabilityWith(name, shared, tools[1].base, WithUniqueNames(tools))

--------------------------------------------------------------------------------
\* Bruno: folders of requests; what looks like a variable in a path is text.

BrunoTool(r, capability, variables, shared) ==
  LET url    == r.url[1]
      listed == Enabled(r.query)
      words  == IF r.name # Unnamed THEN SnakeName(r.name) ELSE <<r.method>> \o Texts(url.path)
  IN  [BaseTool(words, r.method, Texts(url.path)) EXCEPT
         !.base = <<BaseUrl(url.base, variables).text>>, !.tags = Range(r.folders),
         !.summary = <<IF r.name # Unnamed THEN "good" ELSE "method path">>,
         !.parameters = RecordedAll(IF listed # <<>> THEN listed ELSE url.query, "query", FALSE)
                          \o RecordedAll(PostmanHeaders(r.headers), "header", FALSE),
         !.body = [i \in DOMAIN r.body |-> RecordedBody(r.body[i].type, r.body[i].value, FALSE)],
         !.auth = OwnAuth(AuthObject(r.auth, capability), shared)]

ParseBruno(export) ==
  LET name     == Titled(export, <<"bruno", "collection">>)
      requests == SelectSeq(export.requests, LAMBDA r : IsHttp(r, export.variables))
      shared   == FirstAuth([i \in DOMAIN export.requests |-> AuthObject(export.requests[i].auth, name)])
      tools    == [i \in DOMAIN requests |-> BrunoTool(requests[i], name, export.variables, shared)]
  IN  CapabilityWith(name, shared, tools[1].base, WithUniqueNames(tools))

--------------------------------------------------------------------------------
\* A workflow manifest describes one endpoint.

ParseWorkflow(manifest) ==
  LET url  == manifest.url
      name == Titled(manifest, HostName(url.host, {"hooks", "webhook", "api"}, <<"workflow">>))
      tool == CASE manifest.endpoint # Unnamed -> SnakeName(manifest.endpoint)
                [] manifest.endpoint = Unnamed /\ manifest.title # Unnamed -> SnakeName(manifest.title)
                [] OTHER -> <<manifest.method>> \o Texts(url.path)
      body == [required |-> TRUE, type |-> "application/json", schema |-> manifest.input,
               examples |-> manifest.examples]
  IN  CapabilityWith(name, AuthObject(manifest.auth, name), <<url.base.text>>,
        <<[BaseTool(tool, manifest.method, Texts(url.path)) EXCEPT
             !.base = <<url.base.text>>, !.tags = {<<"workflow", "low">>},
             !.parameters = RecordedAll(url.query, "query", TRUE),
             !.body = Optional(body, manifest.method \notin {"get", "head"}),
             !.responses = SuccessResponse(manifest.output)]>>)

--------------------------------------------------------------------------------
\* A GraphQL manifest: every operation is sent to one endpoint, and reads
\* when it is a query. Nothing makes the names distinct.

GraphQLTool(operation, manifest) ==
  LET variables == IF operation.input = <<>> THEN [type |-> <<"object">>] ELSE operation.input[1]
  IN  [BaseTool(SnakeName(operation.name), manifest.method, Texts(manifest.url.path)) EXCEPT
         !.tags = {<<"graphql", "low">>, <<operation.type, "low">>},
         !.body = <<[required |-> TRUE, type |-> "application/json",
                     schema |-> [k \in {"x-api2agent-graphql"} |-> operation.query] @@ variables,
                     examples |-> operation.examples]>>,
         !.responses = SuccessResponse(operation.output),
         !.safety = IF operation.type = "query" THEN "read" ELSE "write"]

ParseGraphQL(manifest) ==
  LET name == Titled(manifest, HostName(manifest.url.host, {"api", "graphql"}, <<"graphql">>))
  IN  CapabilityWith(name, AuthObject(manifest.auth, name), <<manifest.url.base.text>>,
        [i \in DOMAIN manifest.operations |-> GraphQLTool(manifest.operations[i], manifest)])

--------------------------------------------------------------------------------
\* AsyncAPI: the channels that something is sent to over HTTP.

\* _operation_base_url: the first server of the operation or of its channel.
OperationBase(operation, channel) ==
  FirstOf(FirstOf(operation.servers) \o FirstOf(channel.servers))

\* _http_method: a binding says it, or a server of its own stands for POST.
ChannelMethod(operation, channel) ==
  CASE operation.method \o channel.method # <<>> -> FirstOf(operation.method \o channel.method)
    [] operation.method \o channel.method = <<>> /\ OperationBase(operation, channel) # <<>> -> <<"post">>
    [] OTHER -> <<>>

AsyncApiTool(operation, channel, default) ==
  LET method == ChannelMethod(operation, channel)[1]
      own    == OperationBase(operation, channel)
      name   == IF operation.id # Unnamed THEN SnakeName(operation.id) ELSE <<method>> \o channel.path
      base   == IF own # <<>> THEN own ELSE default
  IN  [BaseTool(name, method, channel.path) EXCEPT
         !.id = IF operation.id # Unnamed THEN operation.id ELSE [words |-> name, style |-> "snake"],
         !.tags = {<<"asyncapi", "low">>, <<operation.action, "low">>},
         !.base = [i \in DOMAIN base |-> base[i].text],
         !.body = <<[required |-> TRUE, type |-> operation.message.type, examples |-> operation.message.examples,
                     schema |-> IF operation.message.payload = <<>> THEN [type |-> <<"object">>]
                                ELSE operation.message.payload[1]]>>,
         !.responses = <<[status |-> operation.status, types |-> {"application/json"},
                          schema |-> <<>>, examples |-> <<>>]>>]

\* _auth_from_security: the first scheme that is known, whoever asks for it.
AsyncApiAuth(document, capability) ==
  FirstAuth([i \in DOMAIN document.schemes |->
    IF document.schemes[i].type \in {"bearer", "apikey"}
      THEN [DeclaredAuth(document.schemes[i], capability) EXCEPT !.scheme = document.schemes[i].scheme]
      ELSE NoAuth])

ParseAsyncApi(document) ==
  LET name    == Titled(document, <<"asyncapi", "webhook">>)
      default == FirstOf(SelectSeq(document.servers, LAMBDA s : s.http))
      OfChannel(channel) ==
        LET Callable(operation) == ChannelMethod(operation, channel) # <<>>
            kept == SelectSeq(channel.operations, Callable)
        IN  [i \in DOMAIN kept |-> AsyncApiTool(kept[i], channel, default)]
  IN  CapabilityWith(name, AsyncApiAuth(document, name), [i \in DOMAIN default |-> default[i].text],
        WithUniqueNames(Each(document.channels, OfChannel)))

--------------------------------------------------------------------------------
\* Protocol buffers: the unary calls of every service.

ScalarTypes == [double |-> "number", float |-> "number", int32 |-> "integer", uint64 |-> "integer",
                bool |-> "boolean", string |-> "string", bytes |-> "string"]

\* _message_schema: a message that is met inside itself, or is not in the
\* file, is any object.
RECURSIVE MessageSchema(_, _, _)
MessageSchema(message, messages, seen) ==
  LET FieldSchema(field) ==
        LET schema == CASE field.type \in DOMAIN ScalarTypes -> [type |-> <<ScalarTypes[field.type]>>]
                        [] field.type = "Timestamp" -> [type |-> <<"string">>, format |-> "date-time"]
                        [] OTHER -> MessageSchema(field.type, messages, seen \cup {message})
        IN  IF field.repeated THEN [type |-> <<"array">>, items |-> schema] ELSE schema
  IN  IF message \notin DOMAIN messages \/ message \in seen THEN [type |-> <<"object">>]
      ELSE [type |-> <<"object">>,
            properties |-> [n \in DOMAIN messages[message] |-> FieldSchema(messages[message][n])]]

RpcTool(service, rpc, messages) ==
  [BaseTool(<<service>> \o rpc.name, "post", <<service>> \o rpc.name) EXCEPT
     !.id = [words |-> <<service>> \o rpc.name, style |-> "dotted"],
     !.safety = "unknown", !.base = <<"grpc">>, !.tags = {<<"grpc", "low">>, <<service, "camel">>},
     !.body = <<[required |-> TRUE, type |-> "application/json", examples |-> <<>>,
                 schema |-> [k \in {"x-api2agent-grpc"} |-> rpc.name] @@ MessageSchema(rpc.request, messages, {})]>>,
     !.responses = <<[status |-> "ok", types |-> {"application/json"}, examples |-> <<>>,
                      schema |-> MessageSchema(rpc.response, messages, {})]>>]

ParseProto(file) ==
  LET OfService(service) ==
        LET unary == SelectSeq(service.rpcs, LAMBDA rpc : ~rpc.streaming)
        IN  [i \in DOMAIN unary |-> RpcTool(service.name, unary[i], file.messages)]
  IN  CapabilityWith(Titled(file, <<file.services[1].name>>), NoAuth, <<"grpc">>,
                     Each(file.services, OfService))

--------------------------------------------------------------------------------
ParseCapture(export) ==
  CASE export.kind = "curl"     -> ParseCurl(export)
    [] export.kind = "har"      -> ParseHar(export)
    [] export.kind = "postman"  -> ParsePostman(export)
    [] export.kind = "insomnia" -> ParseInsomnia(export)
    [] export.kind = "bruno"    -> ParseBruno(export)
    [] export.kind = "workflow" -> ParseWorkflow(export)
    [] export.kind = "graphql"  -> ParseGraphQL(export)
    [] export.kind = "asyncapi" -> ParseAsyncApi(export)
    [] export.kind = "proto"    -> ParseProto(export)
================================================================================
