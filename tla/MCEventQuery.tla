---------------------------- MODULE MCEventQuery ----------------------------
(***************************************************************************)
(* Small instances of EventQuery for TLC, and the statement of the         *)
(* repository about listings that a run puts to the test.                  *)
(***************************************************************************)
EXTENDS MCIngestion, EventQuery

(* Ids are drawn at random: here the later ones come first.                *)
Descending == [id \in ClientIDs \cup (1 .. 3 * MaxRequests) |-> IF id = e1 THEN 0 ELSE -id]

(* Events of one contract that carry no id of their own.                   *)
Unnamed ==
    {Request(<<acme>>, k, None, <<c1>>, {}, None, FALSE) : k \in Keys}

ByTenant == [AnyEvent EXCEPT !.tenant = <<acme>>]

NoFilters == {}
TenantFilters == {ByTenant}
StatusFilters == {ByTenant, [ByTenant EXCEPT !.status = "dead_lettered"]}

(* Goroutines are alike, and so are the keys of unnamed events.            *)
ListingSymmetry == Permutations(Threads) \cup Permutations({k1, k2, k3})

(* "Cursor values are event IDs, so callers can safely resume a page after *)
(* transient network failures." query.go:16.  A listing that has come to   *)
(* its end shows every event that matched at its start exactly once; a     *)
(* replay moves its event to the end of the order (service.go:69, 93),     *)
(* the cursor with it.                                                     *)
ListingResumes ==
    walk.step = "done" =>
        /\ walk.first \subseteq Range(walk.listed)
        /\ IsInjective(walk.listed)
=============================================================================
