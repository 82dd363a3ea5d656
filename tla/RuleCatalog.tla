----------------------------- MODULE RuleCatalog -----------------------------
(***************************************************************************)
(* The versioned rule policies: the Catalog of                             *)
(* internal/quality/domain/catalog.go and the two operations of the        *)
(* ingestion service that keep it in step with the live rules, SetRules    *)
(* (service.go) and ActivateRuleVersion (policy.go).                       *)
(*                                                                         *)
(* Both operations hold the service's mutex from beginning to end, so each *)
(* is one action.  A policy is the list of rules as a client sends it.     *)
(***************************************************************************)
EXTENDS RuleEngine

CONSTANTS
    ContractIDs,
    Policies,      \* the rule lists that POST .../quality-rules receives
    MaxKeep,       \* versions the catalog retains (10 in the code)
    MaxVersion     \* bound: versions made of a contract's policy

ASSUME KeepAssumption == MaxKeep \in Nat \ {0} /\ MaxVersion \in Nat

ASSUME PolicyAssumption == Policies \subseteq Seq(Rule)

RuleSet == [version: Nat \ {0}, rules: Policies, active: BOOLEAN]

VARIABLES
    sets,     \* Catalog.sets
    latest,   \* Catalog.latest
    live      \* Service.rules: what validation and evaluation run

vars == <<sets, latest, live>>

TypeOK ==
    /\ sets \in [ContractIDs -> Seq(RuleSet)]
    /\ latest \in [ContractIDs -> Nat]
    /\ live \in [ContractIDs -> Policies \cup {<<>>}]

Init ==
    /\ sets = [c \in ContractIDs |-> <<>>]
    /\ latest = [c \in ContractIDs |-> 0]
    /\ live = [c \in ContractIDs |-> <<>>]

-----------------------------------------------------------------------------
MutValidPolicyRepeatsIDs(rules) == \A i \in DOMAIN rules : ValidRule(rules[i])

(* Rule.Validate on each rule, and RuleSet.Validate: no id twice.          *)
ValidPolicy(rules) ==
    /\ \A i \in DOMAIN rules : ValidRule(rules[i])
    /\ \A i, j \in DOMAIN rules : rules[i].id = rules[j].id => i = j

MutFlaggedKeepsOthers(items, version) ==
    [i \in DOMAIN items |->
        IF items[i].version = version THEN [items[i] EXCEPT !.active = TRUE] ELSE items[i]]

(* Every item gets its flag anew: only the given version is active.  With  *)
(* a version that no item has, every flag is cleared.                      *)
Flagged(items, version) ==
    [i \in DOMAIN items |-> [items[i] EXCEPT !.active = items[i].version = version]]

MutTrimmedFromFront(items) ==
    IF Len(items) > MaxKeep THEN SubSeq(items, 1, MaxKeep) ELSE items

(* The newest MaxKeep items.                                               *)
Trimmed(items) ==
    IF Len(items) > MaxKeep
    THEN SubSeq(items, Len(items) - MaxKeep + 1, Len(items))
    ELSE items

(* Catalog.Put of an active set with a version beyond the latest; the sort *)
(* by version changes nothing, as the new version is the greatest.         *)
Put(items, version, rules) ==
    Trimmed(Append(Flagged(items, version),
                   [version |-> version, rules |-> rules, active |-> TRUE]))

MutNextVersionIsLatest(c) == latest[c]

MutNextVersionCountsSets(c) == Len(sets[c]) + 1

(* Catalog.NextVersion                                                     *)
NextVersion(c) == latest[c] + 1

(* Service.SetRules.  An invalid policy is an error that changes nothing.  *)
SetRules(c, rules) ==
    /\ latest[c] < MaxVersion
    /\ ValidPolicy(rules)
    /\ sets' = [sets EXCEPT ![c] = Put(@, NextVersion(c), rules)]
    /\ latest' = [latest EXCEPT ![c] = NextVersion(c)]
    /\ live' = [live EXCEPT ![c] = rules]

MutActivateFlagsOnly(c, version) ==
    /\ \E i \in DOMAIN sets[c] : sets[c][i].version = version
    /\ sets' = [sets EXCEPT ![c] = Flagged(@, version)]
    /\ UNCHANGED <<latest, live>>

(* Service.ActivateRuleVersion with a version the catalog retains.         *)
ActivateRuleVersion(c, version) ==
    /\ \E i \in DOMAIN sets[c] :
          /\ sets[c][i].version = version
          /\ live' = [live EXCEPT ![c] = sets[c][i].rules]
    /\ sets' = [sets EXCEPT ![c] = Flagged(@, version)]
    /\ UNCHANGED latest

(* The same with any other version: Catalog.Activate has cleared the flags *)
(* in place by the time it finds that the version is missing.              *)
ActivateUnknownVersion(c, version) ==
    /\ \A i \in DOMAIN sets[c] : sets[c][i].version # version
    /\ sets' = [sets EXCEPT ![c] = Flagged(@, version)]
    /\ UNCHANGED <<latest, live>>

Next ==
    \E c \in ContractIDs :
        \/ \E rules \in Policies : SetRules(c, rules)
        \/ \E version \in 0 .. MaxVersion + 1 :
              ActivateRuleVersion(c, version) \/ ActivateUnknownVersion(c, version)

Spec == Init /\ [][Next]_vars

-----------------------------------------------------------------------------
(* Properties                                                              *)

(* The catalog keeps exactly the newest versions, at most MaxKeep, with no *)
(* gap and in order, through any number of updates and roll backs          *)
(* (catalog.go:112-146).                                                   *)
KeepsNewest ==
    \A c \in ContractIDs :
        /\ Len(sets[c]) = IF latest[c] < MaxKeep THEN latest[c] ELSE MaxKeep
        /\ \A i \in DOMAIN sets[c] : sets[c][i].version = latest[c] - Len(sets[c]) + i

(* At most one version is flagged active, and the flagged one is what      *)
(* validation runs: the history never points at a policy that is not in    *)
(* force (catalog.go:148-162, policy.go:27-39).                            *)
ActiveIsLive ==
    \A c \in ContractIDs : \A i \in DOMAIN sets[c] :
        sets[c][i].active =>
            /\ sets[c][i].rules = live[c]
            /\ \A j \in DOMAIN sets[c] : sets[c][j].active => i = j

(* The policy in force is always in the history, even after a roll back to *)
(* the oldest retained version followed by updates that push it out        *)
(* (catalog.go:134, policy.go:37, service.go:58).                          *)
LiveIsRetained ==
    \A c \in ContractIDs :
        latest[c] > 0 => \E i \in DOMAIN sets[c] : sets[c][i].rules = live[c]

(* A version number stands for one policy: while it is retained its rules  *)
(* do not change, and it is not given out again.                           *)
VersionsImmutable ==
    [][\A c \in ContractIDs :
          /\ \A i \in DOMAIN sets[c], j \in DOMAIN sets'[c] :
                sets[c][i].version = sets'[c][j].version =>
                    sets[c][i].rules = sets'[c][j].rules
          /\ \A j \in DOMAIN sets'[c] :
                \/ \E i \in DOMAIN sets[c] : sets[c][i].version = sets'[c][j].version
                \/ sets'[c][j].version > latest[c]]_vars
=============================================================================
