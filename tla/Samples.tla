-------------------------------- MODULE Samples --------------------------------
(***************************************************************************)
(* generators/examples.py and generators/tools.py: the inputs a package    *)
(* offers to an agent, and the sample inputs that its tests and its README *)
(* use. A sample is a record with a kind. A string is its length, and a    *)
(* value that the source gives is taken over as it is.                     *)
(***************************************************************************)
EXTENDS SchemaShaping

Given(value) == [kind |-> "given", value |-> value]

One(s, key)    == IF Has(s, key) THEN <<s[key]>> ELSE <<>>
FirstOf(list)  == IF list = <<>> THEN <<>> ELSE <<Head(list)>>
First(s, key)  == IF Has(s, key) THEN FirstOf(s[key]) ELSE <<>>

\* What the name of a field says of its value, where it says anything.
SemanticLength(name) ==
  CASE name \in {"api_key", "token", "secret", "password"} -> 10
    [] name = "email" -> 16
    [] name = "url" -> 19
    [] name = "country" -> 2
    [] name \in {"status", "id"} -> 6
    [] name \in {"type", "kind"} -> 8
    [] name = "name" -> 4
    [] OTHER -> 7

SemanticNumber(name) == CASE name = "offset" -> 0
                          [] name \in {"limit", "page_size", "per_page"} -> 100
                          [] OTHER -> 10

FormatLength == [email |-> 16, uri |-> 19, url |-> 19, uuid |-> 36, date |-> 10, hostname |-> 11]
                @@ ("date-time" :> 20)

\* _string_example pads up to a minLength of 64 and cuts at maxLength.
StringSample(s, name) ==
  LET base   == IF Has(s, "format") /\ s.format \in DOMAIN FormatLength
                  THEN FormatLength[s.format] ELSE SemanticLength(name)
      padded == IF Has(s, "minLength") /\ s.minLength <= 64 THEN Max({base, s.minLength}) ELSE base
  IN  [kind |-> "string", length |-> IF Has(s, "maxLength") THEN Min({padded, s.maxLength})
                                     ELSE padded]

\* _numeric_example, in tenths: away from either bound by one step, then back
\* to an inclusive bound that was passed; int() cuts a fraction off.
NumericSample(s, integer, name) ==
  LET step  == IF integer THEN 10 ELSE 1
      lower == IF Has(s, "exclusiveMinimum") THEN One(s, "exclusiveMinimum") ELSE One(s, "minimum")
      upper == IF Has(s, "exclusiveMaximum") THEN One(s, "exclusiveMaximum") ELSE One(s, "maximum")
      start == SemanticNumber(name)
      above == IF lower # <<>> /\ start <= Head(lower) THEN Head(lower) + step ELSE start
      below == IF upper # <<>> /\ above >= Head(upper) THEN Head(upper) - step ELSE above
      least == IF Has(s, "minimum") THEN Max({below, s.minimum}) ELSE below
      most  == IF Has(s, "maximum") THEN Min({least, s.maximum}) ELSE least
  IN  [kind |-> "number", tenths |-> CASE ~integer -> most
                                       [] integer /\ most >= 0 -> 10 * (most \div 10)
                                       [] OTHER -> -(10 * (-most \div 10))]

ArrayCount(s) ==
  LET wanted == Max({1, Min({IF Has(s, "minItems") THEN s.minItems ELSE 1, 3})})
  IN  IF Has(s, "maxItems") THEN Min({wanted, s.maxItems}) ELSE wanted

\* This module's own _primary_type: an object without a type is no object here.
DeclaredType(s) == IF Has(s, "type") THEN PrimaryType(s) ELSE NoName

RECURSIVE Sample(_, _, _)
Sample(s, requiredOnly, name) ==
  LET given  == One(s, "default") \o One(s, "example") \o First(s, "examples")
                  \o First(s, "enum") \o One(s, "const")
      chosen == SelectBranch(s)
      inner  == Sample(chosen.branch, requiredOnly, name)
      wanted == {n \in DOMAIN Properties(s) : ~requiredOnly \/ Required(s) = {} \/ n \in Required(s)}
      type   == DeclaredType(s)
  IN  CASE given # <<>> -> Given(Head(given))
        [] given = <<>> /\ SelectsBranch(s) ->
             IF inner.kind = "object" /\ chosen.tag # NoName
               THEN [inner EXCEPT !.fields = (s.discriminator.property :> Given(chosen.tag)) @@ @]
               ELSE inner
        [] OTHER ->
             CASE type = "object" ->
                    [kind |-> "object", fields |-> [n \in wanted |-> Sample(Properties(s)[n], FALSE, n)]]
               [] type = "array" ->
                    [kind |-> "array", items |-> IF ~Has(s, "items") THEN <<>> ELSE
                       [i \in 1..ArrayCount(s) |-> Sample(s.items, FALSE, name)]]
               [] type \in {"integer", "number"} -> NumericSample(s, type = "integer", name)
               [] type = "boolean" -> [kind |-> "boolean"]
               [] OTHER -> StringSample(s, name)

ParameterSample(p) ==
  LET given == p.examples \o One(p.schema, "default") \o One(p.schema, "example")
                 \o First(p.schema, "examples") \o First(p.schema, "enum") \o One(p.schema, "const")
  IN  IF given # <<>> THEN Given(Head(given)) ELSE Sample(p.schema, FALSE, p.name)

BodySample(body) ==
  LET given == body.examples \o One(body.schema, "default") \o One(body.schema, "example")
                 \o First(body.schema, "examples")
  IN  IF given # <<>> THEN Given(Head(given))
      ELSE Sample(Shape(body.schema, "request"), TRUE, NoName)

--------------------------------------------------------------------------------
\* A tool's inputs under the names an agent uses, of parameters of one name
\* the last; the request body, a sequence of one or none, is called "body".

Keyed(parameters, Value(_)) ==
  [n \in {p.name : p \in Range(parameters)} |->
     Value(parameters[Max({i \in DOMAIN parameters : parameters[i].name = n})])]

RequiredOf(parameters) == SelectSeq(parameters, LAMBDA p : p.required)
RequiredBody(tool) == SelectSeq(tool.body, LAMBDA b : b.required)

RequiredNames(tool) == {p.name : p \in Range(RequiredOf(tool.parameters))}
                         \cup {"body" : b \in Range(RequiredBody(tool))}

\* _tool_parameters: what tools.json offers.
ToolParameters(tool) ==
  [properties |-> [n \in {"body" : b \in Range(tool.body)} |->
                     Shape(IF DOMAIN tool.body[1].schema = {} THEN [type |-> <<"object">>]
                           ELSE tool.body[1].schema, "request")]
                  @@ Keyed(tool.parameters, LAMBDA p :
                       IF DOMAIN p.schema = {} THEN [type |-> <<"string">>] ELSE p.schema),
   required |-> RequiredNames(tool)]

\* The params of smoke_test.py and manual_write_test.py: what is required.
SampleParams(tool) ==
  [n \in {"body" : b \in Range(RequiredBody(tool))} |-> BodySample(tool.body[1])]
    @@ Keyed(RequiredOf(tool.parameters), ParameterSample)

--------------------------------------------------------------------------------
\* What it means for a sample to be a value of an offered schema. A value
\* that the source itself gives is not judged.

Within(v, s) ==
  /\ Has(s, "minimum") => s.minimum <= v
  /\ Has(s, "maximum") => v <= s.maximum
  /\ Has(s, "exclusiveMinimum") => s.exclusiveMinimum < v
  /\ Has(s, "exclusiveMaximum") => v < s.exclusiveMaximum

RECURSIVE Fits(_, _)
Fits(v, s) ==
  LET type == DeclaredType(s)
  IN  \/ v.kind = "given"
      \/ \E i \in DOMAIN Branches(s) : Fits(v, Branches(s)[i])
      \/ /\ type = "object" /\ v.kind = "object"
         /\ Required(s) \subseteq DOMAIN v.fields
         /\ DOMAIN v.fields \subseteq DOMAIN Properties(s)
         /\ \A n \in DOMAIN v.fields : Fits(v.fields[n], Properties(s)[n])
      \/ /\ type = "array" /\ v.kind = "array"
         /\ Has(s, "minItems") => s.minItems <= Len(v.items)
         /\ Has(s, "maxItems") => Len(v.items) <= s.maxItems
         /\ \A i \in DOMAIN v.items : Fits(v.items[i], s.items)
      \/ /\ type \in {"integer", "number"} /\ v.kind = "number"
         /\ Within(v.tenths, s)
         /\ type = "integer" => v.tenths % 10 = 0
      \/ /\ type = "string" /\ v.kind = "string"
         /\ Has(s, "minLength") => s.minLength <= v.length
         /\ Has(s, "maxLength") => v.length <= s.maxLength
      \/ type = "boolean" /\ v.kind = "boolean"

\* The schemas the generator undertakes to fill: a declared type, bounds that
\* leave a step free on either side, at most three items and 64 characters
\* asked for, and of alternatives a discriminator that tells them apart.
Roomy(s) ==
  LET step  == IF DeclaredType(s) = "integer" THEN 10 ELSE 1
      lows  == Range(One(s, "minimum") \o One(s, "exclusiveMinimum"))
      highs == Range(One(s, "maximum") \o One(s, "exclusiveMaximum"))
  IN  /\ \A low \in lows, high \in highs : low + step < high
      /\ DeclaredType(s) = "integer" => \A bound \in lows \cup highs : bound % 10 = 0

RECURSIVE Fillable(_)
Fillable(s) ==
  /\ \/ DeclaredType(s) # NoName /\ ~Polymorphic(s)
     \/ /\ SelectsBranch(s) /\ UnresolvedMappings(s) = {}
        /\ \A b \in Range(Branches(s)) : s.discriminator.property \in DOMAIN Properties(b)
  /\ Roomy(s)
  /\ ~Has(s, "ref") /\ ~Has(s, "allOf")
  /\ Required(s) \subseteq DOMAIN Properties(s)
  /\ DeclaredType(s) = "array" => Has(s, "items")
  /\ Has(s, "minItems") => s.minItems <= 3
  /\ Has(s, "minLength") => s.minLength <= 64
  /\ \A child \in Children(s) : Fillable(child[2])
================================================================================
