----------------------------- MODULE MCRegistry -----------------------------
(***************************************************************************)
(* Small instances of Registry for TLC, and the statements of the          *)
(* repository's documents that the runs put to the test.                   *)
(***************************************************************************)
EXTENDS Registry, TLC

(* Three names in byte order: " b", "a" and "b".                           *)
ThreeNames == {0, 1, 2}
TrimNames == (0 :> 2) @@ (1 :> 1) @@ (2 :> 2)
ThreeTypes == {"string", "STRING", "int"}
PlainTypes == ("string" :> "string") @@ ("STRING" :> "string") @@ ("int" :> "int")
TwoTexts == {"x", "y"}
OneAnnotation == {""}

F(name, type, required, default, enum) ==
    [name |-> name, type |-> type, required |-> required, default |-> default,
     enum |-> enum, annotation |-> ""]

Of(fields) == [kind |-> "json-schema", fields |-> fields]

(* Schemas that follow from one another, and one that takes a field back.  *)
Evolving ==
    {Of(<<F(1, "string", TRUE, FALSE, {})>>),
     Of(<<F(2, "int", FALSE, FALSE, {}), F(1, "STRING", TRUE, FALSE, {})>>),
     Of(<<F(1, "string", FALSE, FALSE, {})>>)}

(* Every single field over two enums, required or not, with a default or   *)
(* not, alone or beside a field whose name is padded.                      *)
AllFields(names) ==
    {F(n, t, r, d, e) : n \in names, t \in {"STRING", "int"}, r \in BOOLEAN,
                        d \in BOOLEAN, e \in {{}, {"x"}, {"x", "y"}}}

Thorough ==
    {Of(<<f>>) : f \in AllFields({1})}
    \cup {Of(<<f, g>>) : f \in {F(1, "string", TRUE, FALSE, {"x"})},
                         g \in {h \in AllFields({0, 2}) : h.type = "int" /\ h.enum # {"x"}}}

TwoSchemas ==
    {Of(<<F(1, "string", TRUE, FALSE, {})>>),
     Of(<<F(1, "string", TRUE, FALSE, {}), F(2, "int", FALSE, FALSE, {})>>)}

ClientSymmetry == Permutations(Clients)

-----------------------------------------------------------------------------
(* "Publish a version with optimistic `If-Match` concurrency protection."  *)
(* README.md:15.  What is published is what the client was shown under the *)
(* ETag it sends; an ETag is the revision of a copy (model.go:215) and two *)
(* copies may get the same one.                                            *)
PublishesWhatWasShown ==
    [][\A cl \in Clients, t \in Tenants, view \in shown :
          Publish(cl, t, view) => job'[cl].result.schema = view.version.schema]_vars
=============================================================================
