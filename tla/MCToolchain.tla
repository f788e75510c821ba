------------------------------ MODULE MCToolchain ------------------------------
(***************************************************************************)
(* Sources small enough for TLC that between them meet every case of the  *)
(* parsers, of the schemas, of the samples and of the diagnostics.         *)
(***************************************************************************)
EXTENDS Toolchain

Name(words) == [words |-> words, style |-> "camel"]
Str == [type |-> <<"string">>]
Whole(low, high) == [type |-> <<"integer">>, minimum |-> low, exclusiveMaximum |-> high]
Ref(name) == [ref |-> name]

Param(name, in, required, schema) ==
  [name |-> name, in |-> in, required |-> required, schema |-> schema,
   described |-> required, examples |-> <<>>]
Body(required, schema) ==
  <<[required |-> required, content |-> <<[type |-> "text/plain", schema |-> Str, examples |-> <<>>],
                                          [type |-> "application/json", schema |-> schema, examples |-> <<>>]>>]>>
Content1(schema) == <<[type |-> "application/json", schema |-> schema, examples |-> <<"shown">>]>>
Answer(status, content) == [status |-> status, content |-> content]
Plain(id) == [id |-> id, tags |-> {}, summary |-> <<"good">>, parameters |-> <<>>, body |-> <<>>,
              responses |-> <<>>, security |-> <<>>, servers |-> <<>>]
On(method, operation) == [method |-> method, operation |-> operation]
Item(path, operations) == [path |-> path, operations |-> operations, parameters |-> <<>>, servers |-> <<>>]
Server(url) == [url |-> url, markers |-> {"production"}, relative |-> FALSE, variables |-> <<>>]
Document(title) == [title |-> Name(title), servers |-> <<Server("one")>>, schemes |-> <<>>,
                    schemeOrder |-> <<>>, security |-> <<>>, components |-> <<>>, paths |-> <<>>]

\* Reads and writes, references, composition, bounds.
User == [allOf |-> <<Ref("Base"), [type |-> <<"object">>, required |-> {"email"},
           properties |-> [email |-> [type |-> <<"string">>, format |-> "email", maxLength |-> 12],
                           secret |-> [type |-> <<"string">>, writeOnly |-> TRUE, minLength |-> 12]]]>>]
Base == [type |-> <<"object">>, required |-> {"id", "age"},
         properties |-> [id |-> [type |-> <<"string">>, readOnly |-> TRUE],
                         age |-> [type |-> <<"integer">>, exclusiveMinimum |-> 170, maximum |-> 1200],
                         score |-> [type |-> <<"number">>, minimum |-> 5, maximum |-> 9]]]

Users == [Document(<<"user", "directory">>) EXCEPT
  !.components = [Base |-> Base, User |-> User, Limit |-> Param("limit", "query", TRUE, Whole(0, 500))],
  !.schemes = [main |-> [type |-> "http", scheme |-> "bearer"],
               key |-> [type |-> "apiKey", in |-> "query", name |-> "k"]],
  !.schemeOrder = <<"main", "key">>,
  !.paths = <<[Item(<<"users", "id">>,
                 <<On("get", [Plain(Name(<<"get", "user">>)) EXCEPT !.tags = {<<"users", "low">>},
                      !.parameters = <<Ref("Limit"), Param("sid", "cookie", TRUE, Str), Ref("Gone")>>,
                      !.responses = <<Answer("200", Content1(Ref("User"))), Answer("404", <<>>)>>]),
                   On("delete", [Plain(Unnamed) EXCEPT !.security = <<<<<<<<"key", {}>>>>>>>>])>>)
                EXCEPT !.parameters = <<Param("id", "path", TRUE, Str)>>],
              Item(<<"users">>,
                 <<On("post", [Plain(Name(<<"create", "user">>)) EXCEPT !.tags = {<<"users", "up">>},
                      !.body = Body(TRUE, [ref |-> "User", deprecated |-> TRUE])])>>)>>]

\* Two operations whose ids differ only in style, the writing one first.
Clash == [Document(<<"clash">>) EXCEPT
  !.paths = <<Item(<<"jobs">>, <<On("post", Plain(Name(<<"run", "job">>))),
                                 On("get", Plain([Name(<<"run", "job">>) EXCEPT !.style = "snake"]))>>)>>]

\* What was a read before the name came to mean a write.
Before == [Clash EXCEPT !.paths[1].operations = <<Clash.paths[1].operations[2]>>]

\* Schemas with every kind of hint, and a recursive one.
Node == [type |-> <<"object">>, properties |-> [next |-> Ref("Node"), kind |-> [const |-> "n"]]]
Cat == [type |-> <<"object">>, title |-> "Cat", required |-> {"kind"},
        properties |-> [kind |-> [type |-> <<"string">>, enum |-> <<"cat">>],
                        lives |-> [type |-> <<"integer">>, default |-> "9"]]]
Dog == [type |-> <<"object">>, title |-> "Dog", properties |-> [bark |-> [type |-> <<"boolean">>]]]
Pet(mapping) == [oneOf |-> <<Cat, Dog>>, discriminator |-> [property |-> "kind", mapping |-> mapping]]
To(value, label) == [value |-> value, label |-> label, local |-> TRUE]

Odd == [type |-> <<"object", "null">>, additionalProperties |-> <<Str>>, required |-> {"old"},
        properties |->
          [old |-> [type |-> <<"string">>, deprecated |-> TRUE, pattern |-> "x"],
           list |-> [type |-> <<"array">>, minItems |-> 2, items |-> [type |-> <<"number">>]],
           loose |-> [type |-> <<"array">>, maxItems |-> 1],
           any |-> [anyOf |-> <<Str, Whole(0, 50)>>, if |-> TRUE, dependentSchemas |-> TRUE],
           lone |-> [type |-> <<"object">>, discriminator |-> [property |-> NoName, mapping |-> <<>>]],
           lost |-> Pet(<<To("cow", "Cow")>>)]]

Zoo == [Document(<<"api">>) EXCEPT
  !.components = [Node |-> Node],
  !.servers = <<[Server("base") EXCEPT !.variables = [region |-> "eu"], !.markers = {"staging"}],
                [Server("/v1") EXCEPT !.relative = TRUE, !.markers = {"admin"}]>>,
  !.schemes = [key |-> [type |-> "apiKey", in |-> "header", name |-> "X-Key"],
               jar |-> [type |-> "apiKey", in |-> "cookie", name |-> "jar"],
               oauth |-> [type |-> "oauth2", scopes |-> {"read"}],
               old |-> [type |-> "digest"]],
  !.schemeOrder = <<"key", "jar", "oauth", "old">>,
  !.security = <<<<<<<<"oauth", {}>>>>, <<<<"key", {}>>, <<"jar", {}>>>>>>>>,
  !.paths = <<[Item(<<"pets">>,
                 <<On("get", [Plain(Name(<<"list">>)) EXCEPT !.summary = <<"path">>,
                      !.parameters = <<Param("limit", "query", FALSE, Whole(0, 20)),
                                       Param("flag", "header", TRUE, [type |-> <<"boolean">>])>>,
                      !.responses = <<Answer("200", <<>>), Answer("204", <<>>),
                                      Answer("404", Content1(Odd)), Answer("default", Content1(Ref("Node"))),
                                      Answer("200", Content1(Pet(<<>>)) \o <<[type |-> "text/xml",
                                                 schema |-> Str, examples |-> <<>>]>>)>>]),
                   On("put", [Plain(Unnamed) EXCEPT !.summary = <<>>, !.body = Body(TRUE, Pet(<<To("c", "Cat")>>)),
                      !.security = <<<<<<<<"old", {}>>>>, <<<<"lost", {"x"}>>>>>>>>]),
                   On("trace", Plain(Unnamed))>>) EXCEPT !.servers = <<Server("pets")>>],
              Item(<<"pets", "id">>,
                 <<On("patch", [Plain(Name(<<"odd", "pet">>)) EXCEPT !.body = Body(FALSE, Odd),
                      !.security = <<<<>>>>, !.servers = <<Server("own")>>])>>)>>]

\* No server, and nothing but writes.
Bare == [Document(<<>>) EXCEPT !.servers = <<>>,
  !.paths = <<Item(<<"drop">>, <<On("post", [Plain(Unnamed) EXCEPT
      !.body = Body(TRUE, <<>>), !.security = <<<<<<>>, <<<<"gone", {}>>>>>>>>,
      !.parameters = <<Param("id", "query", TRUE, Str), Param("id", "path", TRUE, Whole(0, 30))>>])>>)>>]

MCDocuments == [users |-> Users, clash |-> Clash, before |-> Before, zoo |-> Zoo, bare |-> Bare]

--------------------------------------------------------------------------------
\* Recordings and manifests, one or two of each kind.

Text   == [kind |-> "string"]
Record(fields) == [kind |-> "object", fields |-> fields]
List(items)    == [kind |-> "array", items |-> items]
Site == [http |-> TRUE, text |-> "https://api.shop.example"]
Words(path) == [i \in DOMAIN path |-> [text |-> path[i], variable |-> path[i] = "id"]]
Url(base, path) == [base |-> base, host |-> <<"api", "shop">>, path |-> Words(path), query |-> <<>>]
Item1(name, value) == [name |-> name, value |-> value, bearer |-> FALSE, disabled |-> FALSE]
Bearer == [Item1("authorization", Text) EXCEPT !.bearer = TRUE]
Key    == [type |-> "apikey", env |-> <<>>, key |-> "X-Key", in |-> "query", scheme |-> "none"]
Token  == [Key EXCEPT !.type = "bearer"]
Secret == [Token EXCEPT !.env = <<"shop", "secret">>]    \* manifests alone name it
Json(value) == <<[mode |-> "raw", type |-> "application/json", value |-> value, status |-> "200"]>>

Request(method, path) ==
  [method |-> method, name |-> Unnamed, url |-> <<Url(Site, path)>>, query |-> <<>>, headers |-> <<>>,
   auth |-> <<>>, body |-> <<>>, response |-> <<>>, folders |-> <<<<"orders", "up">>>>]
Export(kind, requests) ==
  [kind |-> kind, title |-> Unnamed, variables |-> <<>>, auth |-> <<>>, requests |-> requests]

Order == Record([item |-> Text, count |-> [kind |-> "integer"], tags |-> List(<<Text>>)])
Draft == Record([note |-> [kind |-> "null"], parts |-> List(<<>>), paid |-> [kind |-> "boolean"]])
Listing == [Request("get", <<"orders">>) EXCEPT !.query = <<Item1("limit", Text)>>,
              !.headers = <<Bearer, Item1("cookie", Text), Item1("x-trace", Text)>>,
              !.response = Json(List(<<Draft>>))]
Posting == [Request("post", <<"orders">>) EXCEPT !.body = Json(Order), !.headers = <<Item1("x-api-key", Text)>>]
Showing == [Request("get", <<"orders", "id">>) EXCEPT !.name = Name(<<"show">>), !.auth = <<Key>>]
Again   == [Showing EXCEPT !.method = "delete", !.auth = <<[Key EXCEPT !.type = "none"]>>,
                             !.body = Json(Draft)]
Elsewhere(name) == [Showing EXCEPT !.url = <<Url([http |-> FALSE, text |-> name], <<"orders">>)>>,
                                   !.auth = <<Token>>]

Operation1(name, type) == [name |-> Name(name), type |-> type, query |-> "text", input |-> <<>>,
                           examples |-> <<>>, output |-> <<Str>>]
Sending(action, id, servers) ==
  [action |-> action, id |-> id, method |-> <<>>, servers |-> servers, status |-> "202",
   message |-> [type |-> "application/json", examples |-> <<>>, payload |-> <<Odd>>]]
Channel(path, servers, method, operations) ==
  [path |-> path, servers |-> servers, method |-> method, operations |-> operations]
Field(type, repeated) == [type |-> type, repeated |-> repeated]
Rpc(name, request, streaming) ==
  [name |-> name, request |-> request, response |-> "Item", streaming |-> streaming]

MCCaptures ==
  [command  |-> Export("curl", <<[Posting EXCEPT !.method = "get"]>>),
   traffic  |-> Export("har", <<Listing, Posting, Listing, Elsewhere("none"), Posting>>),
   shared   |-> [Export("postman", <<Listing, Showing, Again, Elsewhere("shop"), Elsewhere("lost")>>)
                   EXCEPT !.auth = <<Token>>, !.variables = [shop |-> Site, url |-> Site]],
   bare_api |-> Export("postman", <<[Posting EXCEPT !.body = <<[@[1] EXCEPT !.mode = "file"]>>]>>),
   desk     |-> [Export("insomnia", <<Elsewhere("lost"), Listing, Showing, Posting, Again>>)
                   EXCEPT !.title = Name(<<"shop", "desk">>)],
   folder   |-> [Export("bruno", <<Showing, Showing, Posting, Elsewhere("shop")>>)
                   EXCEPT !.variables = [shop |-> Site]],
   hook     |-> [kind |-> "workflow", title |-> Unnamed, endpoint |-> Unnamed, method |-> "post",
                 url |-> Url(Site, <<"hook">>), auth |-> <<Key>>, input |-> User.allOf[2],
                 examples |-> <<>>, output |-> <<Str>>],
   graph    |-> [kind |-> "graphql", title |-> Name(<<"shop">>), method |-> "post", url |-> Url(Site, <<"graphql">>),
                 auth |-> <<Secret>>,
                 operations |-> <<Operation1(<<"orders">>, "query"), Operation1(<<"orders">>, "mutation"),
                                  [Operation1(<<"cancel">>, "mutation") EXCEPT !.input = <<User.allOf[2]>>]>>],
   graph2   |-> [kind |-> "graphql", title |-> Unnamed, method |-> "post", url |-> Url(Site, <<"graphql">>),
                 auth |-> <<>>,
                 operations |-> <<Operation1(<<"orders">>, "query"),
                                  [Operation1(<<"cancel">>, "mutation") EXCEPT !.input = <<User.allOf[2]>>]>>],
   events   |-> [kind |-> "asyncapi", title |-> Unnamed, servers |-> <<[http |-> FALSE, text |-> "kafka"], Site>>,
                 schemes |-> <<[Key EXCEPT !.type = "plain"], Token>>,
                 channels |->
                   <<Channel(<<"paid">>, <<Site>>, <<>>, <<Sending("publish", Name(<<"paid">>), <<>>),
                                                          Sending("publish", Unnamed, <<Site>>)>>),
                     Channel(<<"sent">>, <<>>, <<"put">>, <<Sending("publish", Name(<<"paid">>), <<>>)>>),
                     Channel(<<"lost">>, <<>>, <<>>, <<Sending("subscribe", Unnamed, <<>>)>>)>>],
   stubs    |-> [kind |-> "proto", title |-> Unnamed,
                 messages |-> [Item |-> [name |-> Field("string", FALSE), made |-> Field("Timestamp", FALSE),
                                         like |-> Field("Item", TRUE), of |-> Field("Other", FALSE)]],
                 services |-> <<[name |-> "Shop", rpcs |-> <<Rpc(<<"get">>, "Item", FALSE),
                                                            Rpc(<<"watch">>, "Item", TRUE)>>]>>]]

Part(segments) == [segments |-> segments, glob |-> FALSE]
MCFilters ==
  [all    |-> EmptyFilter,
   tagged |-> [EmptyFilter EXCEPT !.tags = {<<"users", "low">>}],
   below  |-> [EmptyFilter EXCEPT !.paths = {[segments |-> <<"users">>, glob |-> TRUE], Part(<<"pets", "id">>)}],
   named  |-> [EmptyFilter EXCEPT !.operations = {Name(<<"create", "user">>), Name(<<"put", "pets">>)}],
   few    |-> [EmptyFilter EXCEPT !.paths = {Part(<<"users">>), Part(<<"jobs">>)}, !.max = <<1>>],
   two    |-> [EmptyFilter EXCEPT !.max = <<2>>]]

\* One with reads, writes and a delete, one whose names collide, one that was
\* recorded, one that is refused because no tool is left, and two in which one
\* name means a read and a write.
MCBuilds == {<<"users", "all", TRUE>>, <<"clash", "all", FALSE>>, <<"traffic", "two", FALSE>>,
             <<"clash", "tagged", FALSE>>, <<"before", "all", FALSE>>, <<"clash", "few", FALSE>>}

MCBuilt   == Packages
MCFitting == FittingBuilds

\* Nothing tells the shells apart.
ShellSymmetry == Permutations(Shells)
================================================================================
