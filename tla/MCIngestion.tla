----------------------------- MODULE MCIngestion -----------------------------
(***************************************************************************)
(* Small instances of Ingestion for TLC, and the statements of the         *)
(* repository's documents that the runs put to the test.                   *)
(***************************************************************************)
EXTENDS Ingestion, TLC

CONSTANTS acme, globex, k1, k2, k3, c1, r1, e1, s1

NoNames == {}
OneTenant == {<<acme>>}
TwoTenants == {<<acme>>, <<globex>>}
OneKey == {<<k1>>}
ThreeKeys == {<<k1>>, <<k2>>, <<k3>>}

(* The first request fails as attempt 1 and letter 2; its replay draws the *)
(* key 3, which a client may send once the replay is recorded.             *)
TwoKeysOneDrawn == {<<k1>>, <<k2>>, <<3>>}

OneContract == {<<c1>>}
AllParts == {acme, globex, k1, k2, k3, c1}

(* A payload is the set of the checks it fails.                            *)
OneRule == {[id |-> r1]}
FailedChecks == SUBSET {"empty", s1, r1}
NoFields == {"empty"}
FitsSchema(schema, payload) == schema \notin payload
PassesRule(rule, payload) == rule.id \notin payload

Request(tenant, key, id, contract, payload, occurred, signed) ==
    [tenant |-> tenant, key |-> key, id |-> id, contract |-> contract,
     version |-> 1, payload |-> payload, occurred |-> occurred, signed |-> signed]

(* Producers of one tenant that share an event id, with a payload that a   *)
(* rule rejects once that rule is enabled.                                 *)
SharedID ==
    {Request(<<acme>>, k, e1, <<c1>>, {r1}, None, FALSE) : k \in Keys}

(* The same event with a clean payload or one that fails the schema, with  *)
(* an id or without, too old or from the future, or without a contract, or *)
(* under the key of a replay.                                              *)
Varied ==
    {Request(<<acme>>, <<k1>>, e1, <<c1>>, p, None, FALSE) : p \in {{}, {s1}}}
    \cup {Request(<<acme>>, <<k2>>, e1, <<c1>>, {"empty"}, at, FALSE) : at \in {-1, 1}}
    \cup {Request(<<acme>>, <<3>>, e1, <<c1>>, {}, None, FALSE)}
    \cup {Request(<<acme>>, <<k2>>, None, c, {}, None, FALSE) : c \in {<<c1>>, None}}

(* A producer that names no contract, so that every event is dead-lettered *)
(* without a look at the store: only the quota matters.                    *)
Unrouted ==
    {Request(t, k, None, None, {}, None, FALSE) : t \in Tenants, k \in Keys}

(* A signed event.                                                         *)
Signed ==
    {Request(<<acme>>, <<k1>>, e1, <<c1>>, {}, None, TRUE)}

ThreadSymmetry == Permutations(Threads)
QuotaSymmetry == Permutations(Threads) \cup Permutations({k1, k2, k3})

-----------------------------------------------------------------------------
(* "Dead letters move `pending -> replaying -> replayed`" README.md:88.    *)
(* A letter whose event carried a valid signature is not refused for its   *)
(* signature when it is replayed; Replay changes the idempotency key       *)
(* (service.go:210), which the signature covers (service.go:169).          *)
ReplayKeepsSignature ==
    \A x \in log :
        x.replayOf # 0 /\ "invalid signature" \in x.reasons =>
            \E y \in log : y.letter = x.replayOf /\ "invalid signature" \in y.reasons

=============================================================================
