--------------------------- MODULE RecordCleaning ---------------------------
(***************************************************************************)
(* What data.transform and data.validate compute for one record: the       *)
(* declared normalisation rules and the coercion to the schema's types,    *)
(* the check against the schema and the business rules, the identity of a  *)
(* record, and what storing its fields as jsonb does to them.              *)
(*                                                                         *)
(* A rule that reads a text (an alias table, a date layout, a unit, a      *)
(* separator) is the partial function from texts to values that it stands  *)
(* for, and a rule or a schema keyword that refuses values (enum, pattern, *)
(* length, range, format) is the set of values it refuses.  Arrays are one *)
(* level deep and objects are left out.                                    *)
(***************************************************************************)
EXTENDS Integers, Sequences, FiniteSets

CONSTANTS
    Schema,         \* declared field -> [type, item, required, refused]
    Normalizations, \* normalization_rules, in their order
    Validations,    \* the validation_rules
    KeyFields,      \* key_fields of the data contract
    Clean,          \* normalizeText: text -> text
    Reads,          \* <<type, text>> -> the value that the text is parsed to
    Plain,          \* numeral -> how FormatFloat writes its number
    Numeric,        \* numeral -> how PostgreSQL's numeric writes it
    Integral        \* the numerals that ParseInt accepts

Declared == DOMAIN Schema

\* JSON values.
Null == [kind |-> "null", v |-> "null"]
Str(text) == [kind |-> "string", v |-> text]
Bool(b) == [kind |-> "boolean", v |-> b]
Num(numeral) == [kind |-> "number", v |-> numeral]
List(seq) == [items |-> seq]

IsList(value) == "items" \in DOMAIN value
IsStr(value) == ~ IsList(value) /\ value.kind = "string"

\* Text that is written for a value (fmt.Sprint; the items of a list are left
\* out), and the values without any content.
Shown(value) == IF ~ IsList(value) THEN value.v ELSE IF value.items = <<>> THEN "[]" ELSE "[list]"
Blank(value) == value \in {Null, Str(""), List(<<>>)}

Without(fields, names) == [f \in DOMAIN fields \ names |-> fields[f]]
With(fields, name, value) ==
    [f \in DOMAIN fields \cup {name} |-> IF f = name THEN value ELSE fields[f]]

-----------------------------------------------------------------------------
(* The schema *)

HasScalarType(type, value) ==
    /\ ~ IsList(value)
    /\ value.kind = IF type = "integer" THEN "number" ELSE type
    /\ type = "integer" => value.v \in Integral

\* validateJSONValue of a field.
Allowed(node, value) ==
    /\ value # Null
    /\ value \notin node.refused
    /\ IF node.type = "array"
       THEN IsList(value) /\ \A i \in DOMAIN value.items : HasScalarType(node.item, value.items[i])
       ELSE HasScalarType(node.type, value)

\* NormalizeDatasetItem accepts the fields.
Conforms(fields) ==
    /\ \A f \in Declared : Schema[f].required => f \in DOMAIN fields
    /\ \A f \in DOMAIN fields : f \in Declared /\ Allowed(Schema[f], fields[f])

-----------------------------------------------------------------------------
(* Rules that may be declared *)

\* The value operations; "concat" comes after them.
ReadsText == {"enum_alias", "boolean_alias", "date", "unit_scale", "split"}

NormalizationRuleOK(rule) ==
    /\ rule.field \in Declared
    /\ LET node == Schema[rule.field]
       IN  \/ rule.op = "enum_alias" /\ \A t \in DOMAIN rule.to : Allowed(node, rule.to[t])
           \/ rule.op = "boolean_alias" /\ node.type = "boolean"
           \/ rule.op = "date" /\ node.type = "string"
           \/ rule.op = "unit_scale" /\ node.type \in {"integer", "number"}
           \/ rule.op = "split" /\ node.type = "array" /\ node.item = "string"
           \/ rule.op = "concat" /\ node.type = "string" /\ {rule.from[i] : i \in DOMAIN rule.from} \subseteq Declared

ValidationRuleOK(rule) ==
    /\ rule.field \in Declared
    /\ rule.severity \in {"error", "warning"}
    /\ LET type == Schema[rule.field].type
       IN  \/ rule.op \in {"required", "one_of"}
           \/ rule.op = "regex" /\ type = "string"
           \/ rule.op = "range" /\ type \in {"integer", "number"}
           \/ rule.op = "length" /\ type \in {"string", "array"}
           \/ rule.op = "compare" /\ rule.other \in Declared \ {rule.field}
                 /\ Schema[rule.other].type = type /\ type \in {"string", "integer", "number"}

Scalars == {"string", "boolean", "integer", "number"}

\* normalizeSchemaNode of the root and of its fields.
SchemaOK ==
    /\ Declared # {}
    /\ \A f \in Declared :
          \/ Schema[f].type \in Scalars
          \/ Schema[f].type = "array" /\ Schema[f].item \in Scalars

\* NormalizeCleaningRules accepts them: at most one normalisation per field.
RulesOK ==
    /\ \A i \in DOMAIN Normalizations : NormalizationRuleOK(Normalizations[i])
    /\ \A i, j \in DOMAIN Normalizations :
          Normalizations[i].field = Normalizations[j].field => i = j
    /\ \A rule \in Validations : ValidationRuleOK(rule)

\* ValidateDatasetKeyFields
KeysOK ==
    /\ KeyFields # {} /\ Cardinality(KeyFields) <= 4
    /\ \A f \in KeyFields : f \in Declared /\ Schema[f].type # "array"

CleaningAssumption == SchemaOK /\ RulesOK /\ KeysOK

-----------------------------------------------------------------------------
(* TransformRecord *)

\* A value with whether it could not be converted.
Converted(value) == [value |-> value, failed |-> FALSE]
Failed(value) == [value |-> value, failed |-> TRUE]

\* normalizeLooseValue, which comes before the rules.
Loose(value) ==
    IF IsList(value) THEN List([i \in DOMAIN value.items |->
        IF IsStr(value.items[i]) THEN Str(Clean[value.items[i].v]) ELSE value.items[i]])
    ELSE IF IsStr(value) THEN Str(Clean[value.v]) ELSE value

\* applyNormalizationRule: an enum value without alias and, but for dates, a
\* value that is no text are kept.
ApplyRule(rule, value) ==
    IF ~ IsStr(value) THEN IF rule.op = "date" THEN Failed(value) ELSE Converted(value)
    ELSE IF value.v \in DOMAIN rule.to THEN Converted(rule.to[value.v])
    ELSE IF rule.op = "enum_alias" THEN Converted(value) ELSE Failed(value)

CoerceScalar(type, value) ==
    IF IsList(value) THEN Failed(value)
    ELSE IF type = "string" /\ value.kind \in {"number", "boolean"} THEN Converted(Str(value.v))
    ELSE IF type = "number" /\ value.kind = "number" THEN Converted(Num(Plain[value.v]))
    ELSE IF HasScalarType(type, value) THEN Converted(value)
    ELSE IF value.kind = "string" /\ <<type, value.v>> \in DOMAIN Reads
         THEN Converted(Reads[<<type, value.v>>])
    ELSE Failed(value)

\* coerceValueForSchema
Coerce(node, value) ==
    IF node.type # "array" THEN CoerceScalar(node.type, value)
    ELSE IF ~ IsList(value) THEN Failed(value)
    ELSE LET item == [i \in DOMAIN value.items |-> CoerceScalar(node.item, value.items[i])]
         IN  [value |-> List([i \in DOMAIN item |-> item[i].value]),
              failed |-> \E i \in DOMAIN item : item[i].failed]

RulesOf(field) == {Normalizations[i] : i \in {j \in DOMAIN Normalizations : Normalizations[j].field = field}}

\* A value that a rule cannot read is not coerced either.
Transformed(field, value) ==
    LET rules == {r \in RulesOf(field) : r.op \in ReadsText}
        read == IF rules = {} THEN Converted(value) ELSE ApplyRule(CHOOSE r \in rules : TRUE, value)
    IN  IF read.failed THEN read ELSE Coerce(Schema[field], read.value)

Concats == SelectSeq(Normalizations, LAMBDA r : r.op = "concat")

\* The texts of the source fields, joined; only a missing field, null and an
\* empty text have none (an empty list is written as one).
Joined(rule, fields) ==
    LET text[i \in 0..Len(rule.from)] ==
          IF i = 0 THEN ""
          ELSE IF rule.from[i] \notin DOMAIN fields \/ fields[rule.from[i]] \in {Null, Str("")}
               THEN text[i - 1]
          ELSE (IF text[i - 1] = "" THEN "" ELSE text[i - 1] \o rule.separator) \o Shown(fields[rule.from[i]])
    IN  text[Len(rule.from)]

\* The record and the fields that could not be converted, which keep their
\* values.  The targets of concat are overwritten last, in the rules' order.
TransformRecord(draft) ==
    LET targets == {Concats[i].field : i \in DOMAIN Concats}
        value == [f \in DOMAIN draft |-> Loose(draft[f])]
        done == [f \in (DOMAIN draft \cap Declared) \ targets |-> Transformed(f, value[f])]
        fields == [f \in DOMAIN draft |-> IF f \in DOMAIN done THEN done[f].value ELSE value[f]]
        joined[i \in 0..Len(Concats)] ==
            IF i = 0 THEN fields
            ELSE With(joined[i - 1], Concats[i].field, Str(Joined(Concats[i], joined[i - 1])))
    IN  [fields |-> joined[Len(Concats)], failed |-> {f \in DOMAIN done : done[f].failed}]

-----------------------------------------------------------------------------
(* ValidateTransformedRecord *)

\* evaluateValidationRule reports an issue.
Broken(rule, fields) ==
    LET has == rule.field \in DOMAIN fields
    IN  IF rule.op = "required" THEN ~ has \/ Blank(fields[rule.field])
        ELSE /\ has /\ fields[rule.field] # Null
             /\ IF rule.op # "compare" THEN fields[rule.field] \in rule.refused
                ELSE /\ rule.other \in DOMAIN fields /\ fields[rule.other] # Null
                     /\ <<fields[rule.field], fields[rule.other]>> \notin rule.holds

Severities(record) ==
    (IF record.failed # {} \/ ~ Conforms(record.fields) THEN {"error"} ELSE {})
    \cup {r.severity : r \in {s \in Validations : Broken(s, record.fields)}}

-----------------------------------------------------------------------------
(* Identity and storage *)

NoKey == <<>>

\* DatasetItemIdentity: the item key, if no key field is blank.
ItemKey(fields) ==
    IF \E f \in KeyFields : f \notin DOMAIN fields \/ Blank(fields[f]) THEN NoKey
    ELSE [f \in KeyFields |-> fields[f]]

\* PostgreSQL stores the numbers of a jsonb value as numeric: no exponent and
\* no negative zero comes back.
JsonbScalar(value) == IF value.kind = "number" THEN Num(Numeric[value.v]) ELSE value
Jsonb(fields) ==
    [f \in DOMAIN fields |->
        IF IsList(fields[f])
        THEN List([i \in DOMAIN fields[f].items |-> JsonbScalar(fields[f].items[i])])
        ELSE JsonbScalar(fields[f])]

=============================================================================
