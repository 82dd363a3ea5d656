--------------------------- MODULE ContractHistory ---------------------------
(***************************************************************************)
(* What the contract registry promises its users: a contract has a history *)
(* of schema versions that only grows, each version starts as a draft and  *)
(* is published at most once, and a published version stays as it is       *)
(* (README.md:85-87; nothing in the code deprecates or retires a version). *)
(***************************************************************************)
EXTENDS Naturals, Sequences

CONSTANTS
    IDs,           \* contract ids
    Schemas        \* canonical schemas

VARIABLE history       \* of each contract: its versions, oldest first

Register(id) ==
    /\ id \notin DOMAIN history
    /\ history' = [x \in DOMAIN history \cup {id} |->
                      IF x = id THEN <<>> ELSE history[x]]

AddVersion(id, schema) ==
    history' = [history EXCEPT ![id] = Append(@, [schema |-> schema, lifecycle |-> "draft"])]

Publish(id, n) ==
    /\ history[id][n].lifecycle = "draft"
    /\ history' = [history EXCEPT ![id][n].lifecycle = "published"]

Init == history = [x \in {} |-> <<>>]

Next ==
    \/ \E id \in IDs : Register(id)
    \/ \E id \in DOMAIN history, schema \in Schemas : AddVersion(id, schema)
    \/ \E id \in DOMAIN history : \E n \in DOMAIN history[id] : Publish(id, n)

Spec == Init /\ [][Next]_history
=============================================================================
