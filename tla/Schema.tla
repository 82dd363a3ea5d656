------------------------------- MODULE Schema -------------------------------
(***************************************************************************)
(* The schemas of internal/contract/domain/model.go and their meaning for  *)
(* a payload, internal/quality/domain/typecheck.go.                        *)
(*                                                                         *)
(* Data: a field name is an integer standing for its place in the byte     *)
(* order of strings; Trim gives the name strings.TrimSpace makes of it and *)
(* Plain the type name that TrimSpace and ToLower make of a type.  The     *)
(* enum of a field is the set of its texts (the code keeps it sorted), a   *)
(* default is only present or absent, the raw text of a schema is left     *)
(* out.  A payload value is its JSON class and the text fmt.Sprint gives.  *)
(***************************************************************************)
EXTENDS Integers, Sequences, FiniteSets

CONSTANTS
    FieldNames,    \* names as clients write them, as integers in byte order
    Trim,          \* strings.TrimSpace on names
    Types,         \* type names as clients write them
    Plain,         \* strings.ToLower after strings.TrimSpace on type names
    Texts,         \* enum members and the text of payload values
    Annotations

ASSUME TextAssumption ==
    /\ FieldNames \subseteq Int
    /\ Trim \in [FieldNames -> FieldNames]
    /\ \A n \in FieldNames : Trim[Trim[n]] = Trim[n]
    /\ Plain \in [Types -> Types]
    /\ \A t \in Types : Plain[Plain[t]] = Plain[t]

Kinds == {"json-schema", "protobuf"}

Modes == {"backward", "forward", "full", "none"}

Field ==
    [name: FieldNames, type: Types, required: BOOLEAN, default: BOOLEAN,
     enum: SUBSET Texts, annotation: Annotations]

SchemaType == [kind: Kinds, fields: Seq(Field)]

-----------------------------------------------------------------------------
(* Schema.Validate: a known kind is part of SchemaType; the names are      *)
(* compared as they were written.                                          *)
ValidSchema(s) ==
    /\ s.fields # <<>>
    /\ \A i, j \in DOMAIN s.fields : s.fields[i].name = s.fields[j].name => i = j

(* sort.Slice on the field names as written; equal names keep their order, *)
(* as sort.Slice does for the short lists of this model.                   *)
SortedByName(fields) ==
    LET Before(i, j) == \/ fields[i].name < fields[j].name
                        \/ fields[i].name = fields[j].name /\ i < j
        Rank(i) == Cardinality({j \in DOMAIN fields : Before(j, i)}) + 1 IN
    [k \in DOMAIN fields |-> fields[CHOOSE i \in DOMAIN fields : Rank(i) = k]]

(* Schema.Canonical: the fields are sorted first and trimmed afterwards.   *)
Canonical(s) ==
    LET sorted == SortedByName(s.fields) IN
    [s EXCEPT !.fields =
        [i \in DOMAIN sorted |-> [sorted[i] EXCEPT !.name = Trim[@], !.type = Plain[@]]]]

(* Schema.Fingerprint, without the hash: what is hashed of the canonical   *)
(* schema.  A default is not part of it.                                   *)
Fingerprint(s) ==
    LET fields == Canonical(s).fields IN
    <<s.kind, [i \in DOMAIN fields |->
                  <<fields[i].name, fields[i].type, fields[i].required,
                    fields[i].enum, fields[i].annotation>>]>>

-----------------------------------------------------------------------------
(* Compare                                                                 *)

FieldsNamed(s) == {s.fields[i].name : i \in DOMAIN s.fields}

(* The map built from the fields in order: the last field of a name wins.  *)
FieldOf(s, n) ==
    s.fields[CHOOSE i \in DOMAIN s.fields :
                /\ s.fields[i].name = n
                /\ \A j \in DOMAIN s.fields : s.fields[j].name = n => j <= i]

MutEnumNarrowed(f, nf) == f.enum # {} /\ ~(nf.enum \subseteq f.enum)

(* len(f.Enum) > 0 && !containsAll(nf.Enum, f.Enum)                        *)
EnumNarrowed(f, nf) == f.enum # {} /\ ~(f.enum \subseteq nf.enum)

RequiredStrengthened(f, nf) == ~f.required /\ nf.required /\ ~nf.default

(* The changes compare reports for a field that both schemas have.         *)
ChangesToField(f, nf) ==
    {c \in {<<"type-changed", "breaking">>, <<"required-strengthened", "breaking">>,
            <<"enum-narrowed", "breaking">>, <<"semantic-annotation-changed", "warning">>} :
        \/ c[1] = "type-changed" /\ f.type # nf.type
        \/ c[1] = "required-strengthened" /\ RequiredStrengthened(f, nf)
        \/ c[1] = "enum-narrowed" /\ EnumNarrowed(f, nf)
        \/ c[1] = "semantic-annotation-changed" /\ f.annotation # nf.annotation}

RemovedSeverity(mode) == IF mode = "forward" THEN "warning" ELSE "breaking"

AddedSeverity(f, mode) ==
    IF f.required /\ ~f.default /\ mode # "forward" THEN "breaking" ELSE "safe"

(* compare on two canonical schemas: the changes with their severity.      *)
Changes(old, new, mode) ==
    LET was == FieldsNamed(old)
        is  == FieldsNamed(new) IN
    (UNION {ChangesToField(FieldOf(old, n), FieldOf(new, n)) : n \in was \cap is})
    \cup {<<"field-removed", RemovedSeverity(mode)>> : n \in was \ is}
    \cup {<<"field-added", AddedSeverity(FieldOf(new, n), mode)>> : n \in is \ was}

(* Compare(...).Compatible                                                 *)
Compatible(old, new, mode) ==
    \A c \in Changes(Canonical(old), Canonical(new), mode) : c[2] # "breaking"

-----------------------------------------------------------------------------
(* ValidatePayload                                                         *)

(* Numbers are float64 once decoded: those an int64 holds, "edge" for      *)
(* 2^63, "huge" for whole numbers further out on either side.              *)
Numbers == {"negative", "natural", "fraction", "edge", "huge"}

Classes == {"string", "bool", "object", "array"} \cup Numbers

(* isInteger: float64(int64(x)) == x.  Go leaves the conversion of a value *)
(* that does not fit to the processor: where it saturates, 2^63 comes back *)
(* as it was (int64's maximum rounds to it); where it does not, it comes   *)
(* back negative.  What is further out never comes back.                   *)
Integers64(saturates) == {"negative", "natural"} \cup IF saturates THEN {"edge"} ELSE {}

(* matchesType, one name for each group of type names.  A type that is not *)
(* known accepts every value.                                              *)
ClassesOfType(t, saturates) ==
    CASE t = "string" -> {"string"}
      [] t = "bool"   -> {"bool"}
      [] t = "int"    -> Integers64(saturates)
      [] t = "uint"   -> Integers64(saturates) \ {"negative"}
      [] t = "number" -> Numbers
      [] t = "object" -> {"object"}
      [] t = "array"  -> {"array"}
      [] t = "bytes"  -> {"string"}
      [] OTHER        -> Classes

Values == [class: Classes, text: Texts]

(* The payloads that give values to some of the names.                     *)
PayloadsOver(names) == UNION {[present -> Values] : present \in SUBSET names}

FieldAccepts(payload, f, saturates) ==
    IF f.name \in DOMAIN payload
    THEN /\ payload[f.name].class \in ClassesOfType(Plain[f.type], saturates)
         /\ f.enum # {} => payload[f.name].text \in f.enum
    ELSE ~f.required

(* ValidatePayload finds no issue.  A payload is a function from the names *)
(* it gives a non-null value; fields the schema does not name are ignored. *)
Accepts(s, payload, saturates) ==
    \A i \in DOMAIN s.fields : FieldAccepts(payload, s.fields[i], saturates)
=============================================================================
