----------------------------- MODULE EventLedger -----------------------------
(***************************************************************************)
(* What the ingestion service promises the producers and operators of a    *)
(* tenant: an idempotency key is decided once and for all, an event that   *)
(* fails is in the dead letters from the moment its failure is known, and  *)
(* a dead letter is replayed by one operator at a time, at most MaxReplays *)
(* times, before it is poisoned (README.md:16-20, 85-89).                  *)
(***************************************************************************)
EXTENDS Naturals

CONSTANTS
    Keys,          \* idempotency keys, each with its tenant
    LetterIDs,
    MaxReplays

VARIABLES
    decided,       \* the status of each key that was processed
    letters        \* the state of each dead letter, and the replays begun

Init ==
    /\ decided = [k \in {} |-> "accepted"]
    /\ letters = [l \in {} |-> [state |-> "pending", attempts |-> 0]]

With(f, x, y) == [z \in DOMAIN f \cup {x} |-> IF z = x THEN y ELSE f[z]]

Accept(k) ==
    /\ k \notin DOMAIN decided
    /\ decided' = With(decided, k, "accepted")
    /\ UNCHANGED letters

Bury(k) ==
    /\ k \notin DOMAIN decided
    /\ decided' = With(decided, k, "dead_lettered")
    /\ \E l \in LetterIDs \ DOMAIN letters :
          letters' = With(letters, l, [state |-> "pending", attempts |-> 0])

BeginReplay(l) ==
    /\ \A m \in DOMAIN letters : letters[m].state # "replaying"
    /\ letters[l].state # "poisoned"
    /\ letters[l].attempts < MaxReplays
    /\ letters' = [letters EXCEPT ![l] = [state |-> "replaying", attempts |-> @.attempts + 1]]
    /\ UNCHANGED decided

(* A failed replay returns the letter, or poisons it if it was the last.   *)
EndReplay(l) ==
    /\ letters[l].state = "replaying"
    /\ \E state \in {"replayed",
                     IF letters[l].attempts = MaxReplays THEN "poisoned" ELSE "pending"} :
          letters' = [letters EXCEPT ![l].state = state]
    /\ UNCHANGED decided

Next ==
    \/ \E k \in Keys : Accept(k) \/ Bury(k)
    \/ \E l \in DOMAIN letters : BeginReplay(l) \/ EndReplay(l)

Spec == Init /\ [][Next]_<<decided, letters>>
=============================================================================
