------------------------------ MODULE MCGateway ------------------------------
(***************************************************************************)
(* A small instance of Gateway for TLC: one contract with one version, one *)
(* rule, and a producer that sends an event again and again, under its own *)
(* key and under that of a replay, and names contracts in two ways.        *)
(***************************************************************************)
EXTENDS Gateway, TLC

CONSTANTS acme, east, k1

(* With its "/", the contract id east/1 sent by the tenant acme makes the  *)
(* key of the contract 1 of the tenant acme/east.                          *)
TwoTenants == {<<acme>>, <<acme, east>>}
TwoContractIDs == {<<1>>, <<east, 1>>}
AllParts == {acme, east, k1}

(* The first event is 1, its attempt 2 and its letter 3, so that 4 is the  *)
(* key of the first replay.                                                *)
TwoKeys == {<<k1>>, <<4>>}

OneName == {1}
Same(S) == [x \in S |-> x]
TrimNames == Same(OneName)
OneType == {"int"}
PlainTypes == Same(OneType)
SomeTexts == {"", "5", "9", "<nil>"}
BlankTexts == {""}
Numbers == ("5" :> 5) @@ ("9" :> 9)
NoPatterns == [t \in {} |-> {}]
OneRuleID == {"r"}
IDOrder == ("r" :> 1)
OneAnnotation == {""}

FieldOfType(type) ==
    [name |-> 1, type |-> type, required |-> TRUE, default |-> FALSE, enum |-> {},
     annotation |-> ""]

(* The field is an integer; the rule wants it at most 5.                   *)
OneSchema ==
    {[kind |-> "json-schema", fields |-> <<FieldOfType(type)>>] : type \in Types}

OnePolicy ==
    {<<[id |-> "r", field |-> 1, operator |-> "max", value |-> "5", enabled |-> TRUE]>>}

(* Both fail the rule; only the number fits the schema.                    *)
TwoPayloads == {(1 :> [class |-> class, text |-> "9"]) : class \in {"natural", "string"}}

Event(key, contract, class) ==
    [tenant |-> <<acme>>, key |-> key, id |-> None, contract |-> contract, version |-> 1,
     payload |-> 1 :> [class |-> class, text |-> "9"], occurred |-> None, signed |-> FALSE]

ThreeRequests ==
    {Event(<<k1>>, <<1>>, "natural"), Event(<<k1>>, <<east, 1>>, "natural"),
     Event(<<4>>, <<1>>, "string")}
=============================================================================
