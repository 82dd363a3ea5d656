----------------------------- MODULE MCPolicyAPI -----------------------------
(***************************************************************************)
(* Small instances of RuleCatalog and PolicyAPI for TLC.                   *)
(***************************************************************************)
EXTENDS PolicyAPI, TLC

SomeIDs == {"", "a", "b", "c"}
IDOrder == ("" :> 0) @@ ("a" :> 1) @@ ("b" :> 2) @@ ("c" :> 3)
SomeTexts == {"", "5", "9", "5x", "(", "<nil>"}
BlankTexts == {""}
Numbers == ("5" :> 5) @@ ("9" :> 9) @@ ("5x" :> 5)
Patterns == ("5" :> {"5", "5x"}) @@ ("" :> SomeTexts)

R(id, field, operator, value) ==
    [id |-> id, field |-> field, operator |-> operator, value |-> value, enabled |-> TRUE]

Needed == R("a", 1, "required", "")
AtMost == R("b", 1, "max", "5")
Broken == R("b", 1, "regex", "(")

(* Two valid policies, one sent in the order of the ids and one not; the   *)
(* empty one; one with a pattern that is not valid and one that has an id  *)
(* twice.                                                                  *)
FivePolicies ==
    {<<Needed>>, <<AtMost, Needed, [R("c", 1, "regex", "5") EXCEPT !.enabled = FALSE]>>, <<>>,
     <<Needed, Broken>>, <<Needed, R("a", 2, "min", "9")>>}

(* No field, a blank one, a null, and values that pass or fail the bounds. *)
FivePayloads == {<<>>, <<"">>, <<Null>>, <<"5x", "5">>, <<"9", "9">>}

ClientSymmetry == Permutations(Clients)
=============================================================================
