----------------------------- MODULE SchemaShaping -----------------------------
(***************************************************************************)
(* schema_shaping.py: what the generators and the diagnostics see of a     *)
(* JSON schema. A schema is a function from its keywords to their values:  *)
(* "type" a sequence of type names, "properties" a function from names to  *)
(* schemas, "required" a set of names, "items" a schema, "oneOf", "anyOf"  *)
(* and "allOf" sequences of schemas, "additionalProperties" a sequence of  *)
(* one schema, or the empty one when the keyword is a Boolean. Numbers are *)
(* counted in tenths. The wording of summaries is left out.                *)
(***************************************************************************)
EXTENDS Integers, Sequences, FiniteSets, SequencesExt, FiniteSetsExt, TLC

CONSTANT LargeObjectPropertyThreshold   \* 12 in the code

Has(s, key)     == key \in DOMAIN s
HasAny(s, keys) == keys \cap DOMAIN s # {}
Flag(s, key)    == Has(s, key) /\ s[key]
NoName          == "none"

Properties(s) == IF Has(s, "properties") THEN s.properties ELSE <<>>
Required(s)   == IF Has(s, "required") THEN s.required ELSE {}

\* A schema with every schema inside it replaced.
OnChildren(s, F(_)) ==
  [k \in DOMAIN s |->
     CASE k = "properties" -> [n \in DOMAIN s[k] |-> F(s[k][n])]
       [] k \in {"items", "schema"} -> F(s[k])
       [] k \in {"oneOf", "anyOf", "allOf", "additionalProperties"} ->
            [i \in DOMAIN s[k] |-> F(s[k][i])]
       [] OTHER -> s[k]]

\* The schemas directly inside s, with the step of the path that leads to each.
Children(s) ==
       {<<<<"properties", n>>, Properties(s)[n]>> : n \in DOMAIN Properties(s)}
  \cup {<<<<"items">>, s.items>> : k \in {"items"} \cap DOMAIN s}
  \cup UNION {{<<<<k, i>>, s[k][i]>> : i \in DOMAIN s[k]} :
                k \in {"oneOf", "anyOf", "allOf", "additionalProperties"} \cap DOMAIN s}

\* _shape_value: a request leaves out what is read-only, a response what is
\* write-only, the names in "required" included; annotations go either way.
Annotations == {"x-api2agent-grpc", "x-api2agent-graphql"}

Withheld(direction) == CASE direction = "request"  -> "readOnly"
                         [] direction = "response" -> "writeOnly"
                         [] OTHER -> "nothing"

RECURSIVE Shape(_, _)
Shape(s, direction) ==
  LET shown   == [k \in DOMAIN s \ Annotations |-> s[k]]
      skipped == {n \in DOMAIN Properties(s) : Flag(Properties(s)[n], Withheld(direction))}
      kept    == [k \in DOMAIN shown |->
                    CASE k = "properties" -> [n \in DOMAIN s[k] \ skipped |-> s[k][n]]
                      [] k = "required"   -> s[k] \ skipped
                      [] OTHER            -> s[k]]
      Inner(child) == Shape(child, direction)
  IN  OnChildren(kept, Inner)

PrimaryType(s) ==
  LET types == IF Has(s, "type") THEN SelectSeq(s.type, LAMBDA t : t # "null") ELSE <<>>
  IN  CASE types # <<>> -> Head(types)
        [] types = <<>> /\ Has(s, "type") -> "null"
        [] OTHER -> IF HasAny(s, {"properties", "additionalProperties"}) THEN "object" ELSE NoName

Nullable(s) == Flag(s, "nullable") \/ (Has(s, "type") /\ "null" \in Range(s.type))

--------------------------------------------------------------------------------
\* Discriminators. s.discriminator is [property, mapping], the mapping a
\* sequence of [value, label, local]: local when the target starts with #/.

Polymorphic(s) == HasAny(s, {"oneOf", "anyOf"})
Branches(s) == CASE Has(s, "oneOf") -> s.oneOf
                 [] ~Has(s, "oneOf") /\ Has(s, "anyOf") -> s.anyOf
                 [] OTHER -> <<>>
BranchLabel(branch) == IF Has(branch, "title") THEN branch.title ELSE NoName

Discriminated(s) == Has(s, "discriminator")
Mapping(s) == s.discriminator.mapping

UnresolvedMappings(s) ==
  LET labels == {BranchLabel(b) : b \in Range(Branches(s))} \ {NoName}
  IN  {m \in Range(Mapping(s)) : labels # {} /\ m.local /\ m.label \notin labels}

\* The value a branch fixes for the discriminator property, if it does.
TagOf(branch, property) ==
  LET tag == IF property \in DOMAIN Properties(branch) THEN Properties(branch)[property] ELSE <<>>
      fixed == {"const", "default", "example"} \cap DOMAIN tag
  IN  CASE fixed # {} -> tag[SelectSeq(<<"const", "default", "example">>, LAMBDA k : k \in fixed)[1]]
        [] fixed = {} /\ Has(tag, "enum") -> Head(tag.enum)
        [] OTHER -> NoName

UntaggedBranches(s) ==
  {i \in DOMAIN Branches(s) : /\ s.discriminator.property # NoName
                              /\ TagOf(Branches(s)[i], s.discriminator.property) = NoName}

\* select_discriminator_branch: the first mapping decides, and the first
\* branch stands in for a target that no branch is called.
SelectsBranch(s) == /\ Discriminated(s)
                    /\ s.discriminator.property # NoName
                    /\ Branches(s) # <<>>

SelectBranch(s) ==
  LET called(label) == {i \in DOMAIN Branches(s) : BranchLabel(Branches(s)[i]) = label}
      first         == Branches(s)[1]
  IN  IF Mapping(s) = <<>>
        THEN [branch |-> first, tag |-> TagOf(first, s.discriminator.property)]
        ELSE [branch |-> IF called(Mapping(s)[1].label) = {} THEN first
                         ELSE Branches(s)[Min(called(Mapping(s)[1].label))],
              tag    |-> Mapping(s)[1].value]

--------------------------------------------------------------------------------
\* Hints. The code decides twice where a hint is: once to count
\* (_collect_schema_hints) and once to name the place (_schema_has_hint).

StringConstraints  == {"format", "pattern", "minLength", "maxLength"}
NumericConstraints == {"minimum", "maximum", "exclusiveMinimum", "exclusiveMaximum"}
ArrayConstraints   == {"minItems", "maxItems", "uniqueItems"}
VisibleKeywords    == StringConstraints \cup NumericConstraints \cup ArrayConstraints
                        \cup {"const", "deprecated"}
ConditionalKeywords == {"if", "then", "else", "not"}
DependentKeywords   == {"dependentRequired", "dependentSchemas"}
UnsupportedKeywords == ConditionalKeywords \cup DependentKeywords \cup
  {"multipleOf", "minProperties", "maxProperties", "patternProperties", "propertyNames",
   "contains", "minContains", "maxContains", "unevaluatedProperties", "unevaluatedItems"}

\* _collect_schema_hints at one schema.
HintsAt(s, depth) ==
  LET held == [nullable |-> Nullable(s),
               read_only |-> Flag(s, "readOnly"),
               write_only |-> Flag(s, "writeOnly"),
               schema_keywords |-> HasAny(s, VisibleKeywords \cup UnsupportedKeywords),
               string_constraints |-> HasAny(s, StringConstraints),
               numeric_constraints |-> HasAny(s, NumericConstraints),
               array_constraints |-> HasAny(s, ArrayConstraints),
               const_schema |-> Has(s, "const"),
               deprecated_schema_fields |-> Flag(s, "deprecated"),
               pattern_schema |-> Has(s, "pattern"),
               unsupported_schema_keywords |-> HasAny(s, UnsupportedKeywords),
               conditional_schema |-> HasAny(s, ConditionalKeywords),
               dependent_schema |-> HasAny(s, DependentKeywords),
               maps |-> Has(s, "additionalProperties"),
               discriminators |-> Discriminated(s),
               discriminator_mappings |-> Discriminated(s) /\ Mapping(s) # <<>>,
               polymorphic |-> Polymorphic(s),
               nested_polymorphic |-> Polymorphic(s) /\ depth > 0,
               arrays_without_items |-> PrimaryType(s) = "array" /\ ~Has(s, "items"),
               large_objects |->
                 Cardinality(DOMAIN Properties(s)) > LargeObjectPropertyThreshold]
  IN  {h \in DOMAIN held : held[h]}

RECURSIVE HintCount(_, _, _)
HintCount(s, hint, depth) ==
  FoldSet(LAMBDA child, sum : sum + HintCount(child[2], hint, depth + 1),
          IF hint \in HintsAt(s, depth) THEN 1 ELSE 0, Children(s))

\* _schema_has_hint: the place-naming side, which knows no "polymorphic" but
\* tells how a discriminator falls short.
HasHint(s, hint, depth) ==
  CASE hint = "nullable"   -> Nullable(s)
    [] hint = "read_only"  -> Flag(s, "readOnly")
    [] hint = "write_only" -> Flag(s, "writeOnly")
    [] hint = "schema_keywords"     -> HasAny(s, VisibleKeywords \cup UnsupportedKeywords)
    [] hint = "string_constraints"  -> HasAny(s, StringConstraints)
    [] hint = "numeric_constraints" -> HasAny(s, NumericConstraints)
    [] hint = "array_constraints"   -> HasAny(s, ArrayConstraints)
    [] hint = "const_schema"        -> Has(s, "const")
    [] hint = "deprecated_schema_fields"    -> Flag(s, "deprecated")
    [] hint = "pattern_schema"              -> Has(s, "pattern")
    [] hint = "unsupported_schema_keywords" -> HasAny(s, UnsupportedKeywords)
    [] hint = "conditional_schema" -> HasAny(s, ConditionalKeywords)
    [] hint = "dependent_schema"   -> HasAny(s, DependentKeywords)
    [] hint = "maps"               -> Has(s, "additionalProperties")
    [] hint = "discriminators"     -> Discriminated(s)
    [] hint = "discriminator_mappings" -> Discriminated(s) /\ Mapping(s) # <<>>
    [] hint = "discriminator_missing_property" ->
         Discriminated(s) /\ s.discriminator.property = NoName
    [] hint = "discriminator_without_polymorphism" -> Discriminated(s) /\ ~Polymorphic(s)
    [] hint = "discriminator_mapping_unresolved" ->
         Discriminated(s) /\ UnresolvedMappings(s) # {}
    [] hint = "discriminator_branch_without_tag" ->
         Discriminated(s) /\ UntaggedBranches(s) # {}
    [] hint = "nested_polymorphic"   -> depth > 0 /\ Polymorphic(s)
    [] hint = "arrays_without_items" -> PrimaryType(s) = "array" /\ ~Has(s, "items")
    [] hint = "large_objects" ->
         Cardinality(DOMAIN Properties(s)) > LargeObjectPropertyThreshold
    [] OTHER -> FALSE

RECURSIVE PathsFrom(_, _, _, _)
PathsFrom(s, hint, path, depth) ==
  (IF HasHint(s, hint, depth) THEN {path} ELSE {})
    \cup UNION {PathsFrom(child[2], hint, path \o child[1], depth + 1) : child \in Children(s)}

PathsWithHint(s, hint) == PathsFrom(s, hint, <<>>, 0)
================================================================================
