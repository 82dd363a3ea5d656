-------------------------- MODULE RuleCatalogProofs --------------------------
(***************************************************************************)
(* Theorems about the rule catalog, for any contracts, any policies and    *)
(* any retention limit.                                                    *)
(***************************************************************************)
EXTENDS RuleCatalog, TLAPS

-----------------------------------------------------------------------------
(* What the operators on a contract's retained sets return                 *)

(* Flagged changes nothing but the active flags.                           *)
LEMMA FlaggedFacts ==
    ASSUME NEW items \in Seq(RuleSet), NEW version \in Nat
    PROVE  /\ Flagged(items, version) \in Seq(RuleSet)
           /\ Len(Flagged(items, version)) = Len(items)
           /\ \A i \in 1 .. Len(items) :
                 /\ Flagged(items, version)[i].version = items[i].version
                 /\ Flagged(items, version)[i].rules = items[i].rules
                 /\ Flagged(items, version)[i].active = (items[i].version = version)
<1> DEFINE f == Flagged(items, version)
<1>1. DOMAIN items = 1 .. Len(items) /\ Len(items) \in Nat
  OBVIOUS
<1>2. f = [i \in 1 .. Len(items) |-> [items[i] EXCEPT !.active = items[i].version = version]]
  BY <1>1 DEF Flagged
<1>3. ASSUME NEW i \in 1 .. Len(items)
      PROVE  /\ items[i] \in RuleSet
             /\ [items[i] EXCEPT !.active = items[i].version = version] \in RuleSet
  <2>1. items[i] \in RuleSet
    OBVIOUS
  <2>2. (items[i].version = version) \in BOOLEAN
    OBVIOUS
  <2> QED BY <2>1, <2>2 DEF RuleSet
<1>4. f \in [1 .. Len(items) -> RuleSet]
  BY <1>2, <1>3
<1>5. f \in Seq(RuleSet) /\ Len(f) = Len(items)
  BY <1>1, <1>4
<1>6. ASSUME NEW i \in 1 .. Len(items)
      PROVE  /\ f[i].version = items[i].version
             /\ f[i].rules = items[i].rules
             /\ f[i].active = (items[i].version = version)
  <2>1. f[i] = [items[i] EXCEPT !.active = items[i].version = version]
    BY <1>2
  <2>2. items[i] \in [version: Nat \ {0}, rules: Policies, active: BOOLEAN]
    BY <1>3 DEF RuleSet
  <2> QED BY <2>1, <2>2
<1> QED BY <1>5, <1>6

(* Trimmed keeps the last MaxKeep items, in order.                         *)
LEMMA TrimmedFacts ==
    ASSUME NEW items \in Seq(RuleSet)
    PROVE  /\ Trimmed(items) \in Seq(RuleSet)
           /\ Len(Trimmed(items)) = IF Len(items) < MaxKeep THEN Len(items) ELSE MaxKeep
           /\ \A i \in 1 .. Len(Trimmed(items)) :
                 /\ i + (Len(items) - Len(Trimmed(items))) \in 1 .. Len(items)
                 /\ Trimmed(items)[i] = items[i + (Len(items) - Len(Trimmed(items)))]
<1>1. MaxKeep \in Nat \ {0} /\ Len(items) \in Nat
  BY KeepAssumption
<1>2. CASE Len(items) > MaxKeep
  <2>1. Trimmed(items) = SubSeq(items, Len(items) - MaxKeep + 1, Len(items))
    BY <1>2 DEF Trimmed
  <2>2. Len(Trimmed(items)) = MaxKeep
    BY <1>1, <1>2, <2>1
  <2>3. Trimmed(items) \in Seq(RuleSet)
    BY <1>1, <1>2, <2>1
  <2>4. ASSUME NEW i \in 1 .. MaxKeep
        PROVE  /\ i + (Len(items) - MaxKeep) \in 1 .. Len(items)
               /\ Trimmed(items)[i] = items[i + (Len(items) - MaxKeep)]
    BY <1>1, <1>2, <2>1
  <2> QED BY <1>1, <1>2, <2>2, <2>3, <2>4
<1>3. CASE ~(Len(items) > MaxKeep)
  <2>1. Trimmed(items) = items
    BY <1>3 DEF Trimmed
  <2> QED BY <1>1, <1>3, <2>1
<1> QED BY <1>2, <1>3

(* Put keeps the newest of the old sets, inactive unless they have the new *)
(* version, and adds the new set at the end.                               *)
PutResult(put, items, version, rules) ==
    LET gone == Len(items) + 1 - Len(put) IN
    /\ put \in Seq(RuleSet)
    /\ Len(put) = IF Len(items) + 1 < MaxKeep THEN Len(items) + 1 ELSE MaxKeep
    /\ \A i \in 1 .. Len(put) - 1 :
          /\ i + gone \in 1 .. Len(items)
          /\ put[i].version = items[i + gone].version
          /\ put[i].rules = items[i + gone].rules
          /\ put[i].active = (items[i + gone].version = version)
    /\ put[Len(put)] = [version |-> version, rules |-> rules, active |-> TRUE]

LEMMA PutFacts ==
    ASSUME NEW items \in Seq(RuleSet), NEW version \in Nat \ {0}, NEW rules \in Policies
    PROVE  PutResult(Put(items, version, rules), items, version, rules)
<1> DEFINE new    == [version |-> version, rules |-> rules, active |-> TRUE]
           old    == Flagged(items, version)
           longer == Append(old, new)
           put    == Put(items, version, rules)
           gone   == Len(items) + 1 - Len(put)
<1>1. new \in RuleSet
  BY DEF RuleSet
<1>2. /\ old \in Seq(RuleSet) /\ Len(old) = Len(items)
      /\ \A i \in 1 .. Len(items) : /\ old[i].version = items[i].version
                                    /\ old[i].rules = items[i].rules
                                    /\ old[i].active = (items[i].version = version)
  BY FlaggedFacts
<1>3. put = Trimmed(longer)
  BY DEF Put
<1> HIDE DEF new, old, put
<1>4. /\ longer \in Seq(RuleSet) /\ Len(longer) = Len(items) + 1
      /\ longer[Len(items) + 1] = new
      /\ \A i \in 1 .. Len(items) : longer[i] = old[i]
  BY <1>1, <1>2
<1> HIDE DEF longer
<1>5. /\ put \in Seq(RuleSet)
      /\ Len(put) = IF Len(longer) < MaxKeep THEN Len(longer) ELSE MaxKeep
      /\ \A i \in 1 .. Len(put) :
            /\ i + (Len(longer) - Len(put)) \in 1 .. Len(longer)
            /\ put[i] = longer[i + (Len(longer) - Len(put))]
  BY <1>3, <1>4, TrimmedFacts
<1>6. /\ put \in Seq(RuleSet)
      /\ Len(put) = IF Len(items) + 1 < MaxKeep THEN Len(items) + 1 ELSE MaxKeep
  BY <1>4, <1>5
<1>7. Len(items) \in Nat /\ Len(put) \in Nat \ {0} /\ gone \in Int
  BY <1>6, KeepAssumption
<1>8. \A i \in 1 .. Len(put) : i + gone \in 1 .. Len(items) + 1 /\ put[i] = longer[i + gone]
  BY <1>4, <1>5
<1>9. ASSUME NEW i \in 1 .. Len(put) - 1
      PROVE  /\ i + gone \in 1 .. Len(items)
             /\ put[i].version = items[i + gone].version
             /\ put[i].rules = items[i + gone].rules
             /\ put[i].active = (items[i + gone].version = version)
  <2>1. i + gone \in 1 .. Len(items) /\ put[i] = longer[i + gone]
    BY <1>7, <1>8
  <2>2. put[i] = old[i + gone]
    BY <1>4, <2>1
  <2> QED BY <1>2, <2>1, <2>2
<1>10. put[Len(put)] = new
  <2>1. put[Len(put)] = longer[Len(put) + gone]
    BY <1>7, <1>8
  <2>2. Len(put) + gone = Len(items) + 1
    BY <1>7
  <2> QED BY <1>4, <2>1, <2>2
<1> QED BY <1>6, <1>9, <1>10 DEF PutResult, new, put

-----------------------------------------------------------------------------
(* The invariant                                                           *)

CatalogInv == TypeOK /\ KeepsNewest /\ ActiveIsLive /\ LiveIsRetained

(* A new Catalog satisfies the invariant.                                  *)
LEMMA CatalogInit == Init => CatalogInv
<1> SUFFICES ASSUME Init PROVE CatalogInv
  OBVIOUS
<1>1. TypeOK
  BY DEF Init, TypeOK
<1>2. KeepsNewest
  BY KeepAssumption DEF Init, KeepsNewest
<1>3. ActiveIsLive /\ LiveIsRetained
  BY DEF Init, ActiveIsLive, LiveIsRetained
<1> QED BY <1>1, <1>2, <1>3 DEF CatalogInv

(* The versions of a contract, spelt out from KeepsNewest.                 *)
LEMMA VersionsSpread ==
    ASSUME TypeOK, KeepsNewest, NEW c \in ContractIDs
    PROVE  /\ sets[c] \in Seq(RuleSet) /\ Len(sets[c]) \in Nat /\ latest[c] \in Nat
           /\ Len(sets[c]) = IF latest[c] < MaxKeep THEN latest[c] ELSE MaxKeep
           /\ \A i \in 1 .. Len(sets[c]) : /\ sets[c][i] \in RuleSet
                                           /\ sets[c][i].version = latest[c] - Len(sets[c]) + i
                                           /\ sets[c][i].version <= latest[c]
<1>1. sets[c] \in Seq(RuleSet) /\ latest[c] \in Nat
  BY DEF TypeOK
<1>2. Len(sets[c]) \in Nat /\ DOMAIN sets[c] = 1 .. Len(sets[c])
  BY <1>1
<1>3. \A i \in 1 .. Len(sets[c]) : sets[c][i] \in RuleSet
  BY <1>1
<1>4. /\ Len(sets[c]) = IF latest[c] < MaxKeep THEN latest[c] ELSE MaxKeep
      /\ \A i \in 1 .. Len(sets[c]) : sets[c][i].version = latest[c] - Len(sets[c]) + i
  BY <1>2 DEF KeepsNewest
<1>5. ASSUME NEW i \in 1 .. Len(sets[c])
      PROVE  sets[c][i].version <= latest[c]
  <2>1. sets[c][i].version = latest[c] - Len(sets[c]) + i
    BY <1>4
  <2> QED BY <1>1, <1>2, <2>1
<1> QED BY <1>1, <1>2, <1>3, <1>4, <1>5

(* What an update does to the contract it is for.                          *)
LEMMA UpdateFacts ==
    ASSUME CatalogInv, NEW c \in ContractIDs, NEW rules \in Policies, SetRules(c, rules)
    PROVE  LET gone == Len(sets[c]) + 1 - Len(sets'[c]) IN
           /\ latest'[c] = latest[c] + 1 /\ live'[c] = rules
           /\ sets'[c] \in Seq(RuleSet)
           /\ Len(sets'[c]) = IF latest'[c] < MaxKeep THEN latest'[c] ELSE MaxKeep
           /\ \A i \in 1 .. Len(sets'[c]) : sets'[c][i].version = latest'[c] - Len(sets'[c]) + i
           /\ \A i \in 1 .. Len(sets'[c]) - 1 : /\ i + gone \in 1 .. Len(sets[c])
                                                /\ sets'[c][i].version = sets[c][i + gone].version
                                                /\ sets'[c][i].rules = sets[c][i + gone].rules
                                                /\ sets'[c][i].active = FALSE
           /\ Len(sets'[c]) >= 1
           /\ sets'[c][Len(sets'[c])].rules = rules
<1> DEFINE version == latest[c] + 1
           n == Len(sets[c])
           p == sets'[c]
           gone == n + 1 - Len(p)
<1>1. /\ sets[c] \in Seq(RuleSet) /\ n \in Nat /\ latest[c] \in Nat
      /\ n = IF latest[c] < MaxKeep THEN latest[c] ELSE MaxKeep
      /\ \A i \in 1 .. n : /\ sets[c][i] \in RuleSet
                           /\ sets[c][i].version = latest[c] - n + i
                           /\ sets[c][i].version <= latest[c]
  BY VersionsSpread DEF CatalogInv
<1>2. /\ latest'[c] = version /\ live'[c] = rules
      /\ p = Put(sets[c], version, rules)
  BY DEF SetRules, CatalogInv, TypeOK, NextVersion
<1>3. version \in Nat \ {0}
  BY <1>1
<1> HIDE DEF p, version
<1>4. /\ p \in Seq(RuleSet)
      /\ Len(p) = IF n + 1 < MaxKeep THEN n + 1 ELSE MaxKeep
      /\ \A i \in 1 .. Len(p) - 1 : /\ i + gone \in 1 .. n
                                    /\ p[i].version = sets[c][i + gone].version
                                    /\ p[i].rules = sets[c][i + gone].rules
                                    /\ p[i].active = (sets[c][i + gone].version = version)
      /\ p[Len(p)] = [version |-> version, rules |-> rules, active |-> TRUE]
  <2>1. PutResult(Put(sets[c], version, rules), sets[c], version, rules)
    BY <1>1, <1>3, PutFacts
  <2>2. PutResult(p, sets[c], version, rules)
    BY <1>2, <2>1
  <2> QED BY <2>2 DEF PutResult
<1>5. Len(p) \in Nat /\ Len(p) >= 1
  BY <1>1, <1>4, KeepAssumption
<1>6. Len(p) = IF version < MaxKeep THEN version ELSE MaxKeep
  BY <1>1, <1>4, KeepAssumption DEF version
<1>7. ASSUME NEW i \in 1 .. Len(p) - 1
      PROVE  p[i].version = version - Len(p) + i /\ p[i].active = FALSE
  <2>1. i + gone \in 1 .. n
    BY <1>4
  <2>2. /\ sets[c][i + gone].version = latest[c] - n + (i + gone)
        /\ sets[c][i + gone].version <= latest[c]
    BY <1>1, <2>1
  <2>3. p[i].version = version - Len(p) + i
    <3>1. p[i].version = latest[c] - n + (i + gone)
      BY <1>4, <2>2
    <3>2. i \in Int
      OBVIOUS
    <3> HIDE DEF n
    <3> QED BY <1>1, <1>5, <3>1, <3>2 DEF version
  <2>4. sets[c][i + gone].version # version
    BY <1>1, <1>5, <2>1, <2>2 DEF version
  <2> QED BY <1>4, <2>3, <2>4
<1>8. p[Len(p)].version = version - Len(p) + Len(p) /\ p[Len(p)].rules = rules
  <2>1. p[Len(p)].version = version /\ p[Len(p)].rules = rules
    BY <1>4
  <2> QED BY <1>3, <1>5, <2>1
<1>9. \A i \in 1 .. Len(p) : p[i].version = version - Len(p) + i
  <2> TAKE i \in 1 .. Len(p)
  <2>1. CASE i = Len(p)
    BY <1>8, <2>1
  <2>2. CASE i # Len(p)
    <3>1. i \in 1 .. Len(p) - 1
      BY <1>5, <2>2
    <3> QED BY <1>7, <3>1
  <2> QED BY <2>1, <2>2
<1> QED BY <1>2, <1>4, <1>5, <1>6, <1>7, <1>8, <1>9 DEF p, version

(* The invariant of one contract, on its retained sets, its latest version *)
(* and its live rules.                                                     *)
ContractInv(items, last, rules) ==
    /\ items \in Seq(RuleSet) /\ last \in Nat /\ rules \in Policies \cup {<<>>}
    /\ Len(items) = IF last < MaxKeep THEN last ELSE MaxKeep
    /\ \A i \in 1 .. Len(items) : items[i].version = last - Len(items) + i
    /\ \A i \in 1 .. Len(items) : items[i].active =>
          /\ items[i].rules = rules
          /\ \A j \in 1 .. Len(items) : items[j].active => i = j
    /\ last > 0 => \E i \in 1 .. Len(items) : items[i].rules = rules

(* The invariant is that of every contract.                                *)
EachContract ==
    /\ TypeOK
    /\ \A c \in ContractIDs : ContractInv(sets[c], latest[c], live[c])

(* The invariant gives that of every contract.                             *)
LEMMA InvSplits == CatalogInv => EachContract
<1> SUFFICES ASSUME CatalogInv PROVE EachContract
  OBVIOUS
<1>1. TypeOK
  BY DEF CatalogInv
<1>2. ASSUME NEW c \in ContractIDs PROVE ContractInv(sets[c], latest[c], live[c])
  <2>1. sets[c] \in Seq(RuleSet) /\ latest[c] \in Nat /\ live[c] \in Policies \cup {<<>>}
    BY DEF CatalogInv, TypeOK
  <2>2. DOMAIN sets[c] = 1 .. Len(sets[c])
    BY <2>1
  <2>3. /\ Len(sets[c]) = IF latest[c] < MaxKeep THEN latest[c] ELSE MaxKeep
        /\ \A i \in 1 .. Len(sets[c]) : sets[c][i].version = latest[c] - Len(sets[c]) + i
    BY <2>2 DEF CatalogInv, KeepsNewest
  <2>4. \A i \in 1 .. Len(sets[c]) : sets[c][i].active =>
           /\ sets[c][i].rules = live[c]
           /\ \A j \in 1 .. Len(sets[c]) : sets[c][j].active => i = j
    BY <2>2 DEF CatalogInv, ActiveIsLive
  <2>5. latest[c] > 0 => \E i \in 1 .. Len(sets[c]) : sets[c][i].rules = live[c]
    BY <2>2 DEF CatalogInv, LiveIsRetained
  <2> QED BY <2>1, <2>3, <2>4, <2>5 DEF ContractInv
<1> QED BY <1>1, <1>2 DEF EachContract

(* And the invariants of all contracts give it back.                       *)
LEMMA InvJoins == EachContract => CatalogInv
<1> SUFFICES ASSUME EachContract PROVE CatalogInv
  OBVIOUS
<1>1. \A c \in ContractIDs : ContractInv(sets[c], latest[c], live[c])
  BY DEF EachContract
<1>2. \A c \in ContractIDs : /\ sets[c] \in Seq(RuleSet) /\ latest[c] \in Nat
                             /\ live[c] \in Policies \cup {<<>>}
                             /\ DOMAIN sets[c] = 1 .. Len(sets[c])
  BY <1>1 DEF ContractInv
<1>3. TypeOK
  BY DEF EachContract
<1>4. KeepsNewest
  BY <1>1, <1>2 DEF KeepsNewest, ContractInv
<1>5. ActiveIsLive
  BY <1>1, <1>2 DEF ActiveIsLive, ContractInv
<1>6. LiveIsRetained
  BY <1>1, <1>2 DEF LiveIsRetained, ContractInv
<1> QED BY <1>3, <1>4, <1>5, <1>6 DEF CatalogInv

(* A step that is about one contract, and keeps its invariant, keeps them  *)
(* all.                                                                    *)
LEMMA OneContract ==
    ASSUME CatalogInv, NEW c \in ContractIDs, NEW items, NEW last, NEW rules,
           sets' = [sets EXCEPT ![c] = items],
           latest' = [latest EXCEPT ![c] = last],
           live' = [live EXCEPT ![c] = rules],
           ContractInv(items, last, rules)
    PROVE  CatalogInv'
<1>1. EachContract
  BY InvSplits
<1>2. EachContract'
  <2>1. TypeOK'
    BY <1>1 DEF EachContract, TypeOK, ContractInv
  <2>2. ASSUME NEW d \in ContractIDs PROVE ContractInv(sets'[d], latest'[d], live'[d])
    <3>1. CASE d = c
      BY <1>1, <3>1 DEF EachContract, TypeOK
    <3>2. CASE d # c
      <4>1. sets'[d] = sets[d] /\ latest'[d] = latest[d] /\ live'[d] = live[d]
        BY <1>1, <3>2 DEF EachContract, TypeOK
      <4> QED BY <1>1, <4>1 DEF EachContract
    <3> QED BY <3>1, <3>2
  <2> QED BY <2>1, <2>2 DEF EachContract
<1> QED BY <1>2, InvJoins, PTL

(* An update keeps the invariant of its contract.                          *)
LEMMA UpdateStep ==
    ASSUME CatalogInv, NEW c \in ContractIDs, NEW rules \in Policies, SetRules(c, rules)
    PROVE  CatalogInv'
<1> DEFINE p == sets'[c]
           gone == Len(sets[c]) + 1 - Len(p)
<1>1. /\ latest'[c] = latest[c] + 1 /\ live'[c] = rules
      /\ p \in Seq(RuleSet)
      /\ Len(p) = IF latest'[c] < MaxKeep THEN latest'[c] ELSE MaxKeep
      /\ \A i \in 1 .. Len(p) : p[i].version = latest'[c] - Len(p) + i
      /\ \A i \in 1 .. Len(p) - 1 : p[i].active = FALSE
      /\ Len(p) >= 1
      /\ p[Len(p)].rules = rules
  BY UpdateFacts
<1>2. latest[c] \in Nat
  BY DEF CatalogInv, TypeOK
<1>3. /\ sets' = [sets EXCEPT ![c] = p] /\ latest' = [latest EXCEPT ![c] = latest[c] + 1]
      /\ live' = [live EXCEPT ![c] = rules]
  BY DEF SetRules, NextVersion, CatalogInv, TypeOK
<1> HIDE DEF p
<1>4. Len(p) \in Nat
  BY <1>1
<1>5. \A i \in 1 .. Len(p) : p[i].active => i = Len(p)
  <2> SUFFICES ASSUME NEW i \in 1 .. Len(p), i # Len(p) PROVE ~p[i].active
    OBVIOUS
  <2>1. i \in 1 .. Len(p) - 1
    BY <1>4
  <2> QED BY <1>1, <2>1
<1>6. ContractInv(p, latest[c] + 1, rules)
  <2>1. latest[c] + 1 \in Nat /\ Len(p) \in 1 .. Len(p)
    BY <1>1, <1>2, <1>4
  <2>2. /\ Len(p) = IF latest[c] + 1 < MaxKeep THEN latest[c] + 1 ELSE MaxKeep
        /\ \A i \in 1 .. Len(p) : p[i].version = (latest[c] + 1) - Len(p) + i
    BY <1>1
  <2>3. ASSUME NEW i \in 1 .. Len(p), p[i].active
        PROVE  p[i].rules = rules /\ \A j \in 1 .. Len(p) : p[j].active => i = j
    BY <1>1, <1>5, <2>3
  <2> QED BY <1>1, <2>1, <2>2, <2>3 DEF ContractInv
<1> QED BY <1>3, <1>6, OneContract

(* What setting the flags does to the invariant of a contract: the version *)
(* whose rules are made live is the only one flagged.                      *)
LEMMA FlaggedStep ==
    ASSUME NEW items, NEW last, NEW rules, ContractInv(items, last, rules),
           NEW version \in Nat, NEW newRules \in Policies \cup {<<>>},
           \A i \in 1 .. Len(items) : items[i].version = version => items[i].rules = newRules,
           last > 0 => \E i \in 1 .. Len(items) : items[i].rules = newRules
    PROVE  ContractInv(Flagged(items, version), last, newRules)
<1> DEFINE f == Flagged(items, version)
<1>1. /\ items \in Seq(RuleSet) /\ last \in Nat /\ Len(items) \in Nat
      /\ Len(items) = IF last < MaxKeep THEN last ELSE MaxKeep
      /\ \A i \in 1 .. Len(items) : items[i].version = last - Len(items) + i
  BY DEF ContractInv
<1>2. /\ f \in Seq(RuleSet) /\ Len(f) = Len(items)
      /\ \A i \in 1 .. Len(items) : /\ f[i].version = items[i].version
                                    /\ f[i].rules = items[i].rules
                                    /\ f[i].active = (items[i].version = version)
  BY <1>1, FlaggedFacts
<1> HIDE DEF f
<1>3. ASSUME NEW i \in 1 .. Len(items), NEW j \in 1 .. Len(items),
             f[i].active, f[j].active
      PROVE  f[i].rules = newRules /\ i = j
  <2>1. items[i].version = version /\ items[j].version = version
    BY <1>2, <1>3
  <2>2. last - Len(items) + i = last - Len(items) + j
    BY <1>1, <2>1
  <2>3. i = j
    BY <1>1, <2>2
  <2> QED BY <1>2, <2>1, <2>3
<1>4. ContractInv(f, last, newRules)
  BY <1>1, <1>2, <1>3 DEF ContractInv
<1> QED BY <1>4 DEF f

(* A roll back makes a retained version live and flags it.                 *)
LEMMA ActivateStep ==
    ASSUME CatalogInv, NEW c \in ContractIDs, NEW version \in Nat,
           ActivateRuleVersion(c, version)
    PROVE  CatalogInv'
<1>1. PICK k \in DOMAIN sets[c] : /\ sets[c][k].version = version
                                  /\ live' = [live EXCEPT ![c] = sets[c][k].rules]
  BY DEF ActivateRuleVersion
<1>2. ContractInv(sets[c], latest[c], live[c])
  BY InvSplits DEF EachContract
<1>3. /\ sets[c] \in Seq(RuleSet) /\ Len(sets[c]) \in Nat /\ latest[c] \in Nat
      /\ k \in 1 .. Len(sets[c]) /\ sets[c][k] \in RuleSet
      /\ \A i \in 1 .. Len(sets[c]) : sets[c][i].version = latest[c] - Len(sets[c]) + i
  BY <1>1, <1>2 DEF ContractInv
<1>4. sets[c][k].rules \in Policies \cup {<<>>}
  BY <1>3 DEF RuleSet
<1>5. ASSUME NEW i \in 1 .. Len(sets[c]), sets[c][i].version = version
      PROVE  sets[c][i].rules = sets[c][k].rules
  <2>1. latest[c] - Len(sets[c]) + i = latest[c] - Len(sets[c]) + k
    BY <1>1, <1>3, <1>5
  <2>2. i = k
    BY <1>3, <2>1
  <2> QED BY <2>2
<1>6. ContractInv(Flagged(sets[c], version), latest[c], sets[c][k].rules)
  BY <1>2, <1>3, <1>4, <1>5, FlaggedStep
<1>7. /\ sets' = [sets EXCEPT ![c] = Flagged(sets[c], version)]
      /\ latest' = [latest EXCEPT ![c] = latest[c]]
  BY DEF ActivateRuleVersion, CatalogInv, TypeOK
<1> QED BY <1>1, <1>6, <1>7, OneContract

(* A failed roll back only clears the flags.                               *)
LEMMA ActivateUnknownStep ==
    ASSUME CatalogInv, NEW c \in ContractIDs, NEW version \in Nat,
           ActivateUnknownVersion(c, version)
    PROVE  CatalogInv'
<1>1. ContractInv(sets[c], latest[c], live[c])
  BY InvSplits DEF EachContract
<1>2. /\ sets[c] \in Seq(RuleSet) /\ live[c] \in Policies \cup {<<>>}
      /\ latest[c] > 0 => \E i \in 1 .. Len(sets[c]) : sets[c][i].rules = live[c]
  BY <1>1 DEF ContractInv
<1>3. \A i \in 1 .. Len(sets[c]) : sets[c][i].version # version
  BY <1>2 DEF ActivateUnknownVersion
<1>4. ContractInv(Flagged(sets[c], version), latest[c], live[c])
  BY <1>1, <1>2, <1>3, FlaggedStep
<1>5. /\ sets' = [sets EXCEPT ![c] = Flagged(sets[c], version)]
      /\ latest' = [latest EXCEPT ![c] = latest[c]]
      /\ live' = [live EXCEPT ![c] = live[c]]
  BY DEF ActivateUnknownVersion, CatalogInv, TypeOK
<1> QED BY <1>4, <1>5, OneContract

(* Every operation on the catalog keeps the invariant.                     *)
LEMMA CatalogStep == CatalogInv /\ [Next]_vars => CatalogInv'
<1> SUFFICES ASSUME CatalogInv, [Next]_vars PROVE CatalogInv'
  OBVIOUS
<1>1. ASSUME NEW c \in ContractIDs, NEW rules \in Policies, SetRules(c, rules)
      PROVE  CatalogInv'
  BY <1>1, UpdateStep
<1>2. ASSUME NEW c \in ContractIDs, NEW version \in 0 .. MaxVersion + 1,
             ActivateRuleVersion(c, version)
      PROVE  CatalogInv'
  <2>1. version \in Nat
    BY KeepAssumption
  <2> QED BY <1>2, <2>1, ActivateStep
<1>3. ASSUME NEW c \in ContractIDs, NEW version \in 0 .. MaxVersion + 1,
             ActivateUnknownVersion(c, version)
      PROVE  CatalogInv'
  <2>1. version \in Nat
    BY KeepAssumption
  <2> QED BY <1>3, <2>1, ActivateUnknownStep
<1>4. CASE UNCHANGED vars
  BY <1>4 DEF vars, CatalogInv, TypeOK, KeepsNewest, ActiveIsLive, LiveIsRetained
<1> QED BY <1>1, <1>2, <1>3, <1>4 DEF Next

(* Type correctness, exact retention, a flag that tells the truth and a    *)
(* live policy that is in the history hold together, always.               *)
THEOREM CatalogInvariant == Spec => []CatalogInv
<1> QED BY CatalogInit, CatalogStep, PTL DEF Spec

(* SetRules, ActivateRuleVersion and the failed activation keep the        *)
(* catalog well typed.                                                     *)
THEOREM CatalogTypes == Spec => []TypeOK
<1>1. CatalogInv => TypeOK
  BY DEF CatalogInv
<1> QED BY <1>1, CatalogInvariant, PTL

(* Catalog.Put retains exactly the newest versions, for any limit.         *)
THEOREM CatalogKeepsNewest == Spec => []KeepsNewest
<1>1. CatalogInv => KeepsNewest
  BY DEF CatalogInv
<1> QED BY <1>1, CatalogInvariant, PTL

(* The version that Catalog.Activate or Put flags is the policy in force.  *)
THEOREM CatalogActiveIsLive == Spec => []ActiveIsLive
<1>1. CatalogInv => ActiveIsLive
  BY DEF CatalogInv
<1> QED BY <1>1, CatalogInvariant, PTL

(* The trimming of Catalog.Put never drops the policy in force.            *)
THEOREM CatalogLiveIsRetained == Spec => []LiveIsRetained
<1>1. CatalogInv => LiveIsRetained
  BY DEF CatalogInv
<1> QED BY <1>1, CatalogInvariant, PTL

-----------------------------------------------------------------------------
(* Versions do not change                                                  *)

(* What VersionsImmutable says of one contract in one step.                *)
Immutable(old, new, last) ==
    /\ \A i \in 1 .. Len(old), j \in 1 .. Len(new) :
          old[i].version = new[j].version => old[i].rules = new[j].rules
    /\ \A j \in 1 .. Len(new) :
          \/ \E i \in 1 .. Len(old) : old[i].version = new[j].version
          \/ new[j].version > last

(* An update leaves the versions it retains as they were and adds a new    *)
(* number.                                                                 *)
LEMMA UpdateImmutable ==
    ASSUME CatalogInv, NEW c \in ContractIDs, NEW rules \in Policies, SetRules(c, rules)
    PROVE  Immutable(sets[c], sets'[c], latest[c])
<1> DEFINE old == sets[c]
           p == sets'[c]
           gone == Len(old) + 1 - Len(p)
<1>1. /\ Len(old) \in Nat /\ latest[c] \in Nat
      /\ \A i \in 1 .. Len(old) : /\ old[i].version = latest[c] - Len(old) + i
                                  /\ old[i].version <= latest[c]
  BY VersionsSpread DEF CatalogInv
<1>2. /\ latest'[c] = latest[c] + 1
      /\ p \in Seq(RuleSet)
      /\ \A i \in 1 .. Len(p) : p[i].version = latest'[c] - Len(p) + i
      /\ \A i \in 1 .. Len(p) - 1 : /\ i + gone \in 1 .. Len(old)
                                    /\ p[i].version = old[i + gone].version
                                    /\ p[i].rules = old[i + gone].rules
      /\ Len(p) >= 1
  BY UpdateFacts
<1> HIDE DEF old, p
<1>3. Len(p) \in Nat
  BY <1>2
<1>4. p[Len(p)].version = latest[c] + 1
  <2>1. Len(p) \in 1 .. Len(p)
    BY <1>2, <1>3
  <2>2. p[Len(p)].version = latest'[c] - Len(p) + Len(p)
    BY <1>2, <2>1
  <2> QED BY <1>1, <1>2, <1>3, <2>2
<1>5. ASSUME NEW i \in 1 .. Len(old), NEW j \in 1 .. Len(p), old[i].version = p[j].version
      PROVE  old[i].rules = p[j].rules
  <2>1. j # Len(p)
    BY <1>1, <1>4, <1>5
  <2>2. j \in 1 .. Len(p) - 1
    BY <1>3, <2>1
  <2>3. j + gone \in 1 .. Len(old) /\ old[i].version = old[j + gone].version
    BY <1>2, <1>5, <2>2
  <2>4. latest[c] - Len(old) + i = latest[c] - Len(old) + (j + gone)
    BY <1>1, <2>3
  <2> HIDE DEF gone
  <2>5. i = j + gone
    BY <1>1, <2>3, <2>4
  <2> QED BY <1>2, <2>2, <2>5
<1>6. ASSUME NEW j \in 1 .. Len(p)
      PROVE  \/ \E i \in 1 .. Len(old) : old[i].version = p[j].version
             \/ p[j].version > latest[c]
  <2>1. CASE j = Len(p)
    BY <1>1, <1>4, <2>1
  <2>2. CASE j # Len(p)
    <3>1. j \in 1 .. Len(p) - 1
      BY <1>3, <2>2
    <3> QED BY <1>2, <3>1
  <2> QED BY <2>1, <2>2
<1> QED BY <1>5, <1>6 DEF Immutable, old, p

(* Setting the flags leaves versions and rules alone.                      *)
LEMMA FlaggedImmutable ==
    ASSUME CatalogInv, NEW c \in ContractIDs, NEW version \in Nat
    PROVE  /\ Immutable(sets[c], Flagged(sets[c], version), latest[c])
           /\ Immutable(sets[c], sets[c], latest[c])
<1> DEFINE old == sets[c]
           f == Flagged(old, version)
<1>1. /\ old \in Seq(RuleSet) /\ Len(old) \in Nat /\ latest[c] \in Nat
      /\ \A i \in 1 .. Len(old) : old[i].version = latest[c] - Len(old) + i
  BY VersionsSpread DEF CatalogInv
<1>2. /\ Len(f) = Len(old)
      /\ \A i \in 1 .. Len(old) : f[i].version = old[i].version /\ f[i].rules = old[i].rules
  BY <1>1, FlaggedFacts
<1> HIDE DEF old, f
<1>3. ASSUME NEW i \in 1 .. Len(old), NEW j \in 1 .. Len(old), old[i].version = old[j].version
      PROVE  i = j
  <2>1. latest[c] - Len(old) + i = latest[c] - Len(old) + j
    BY <1>1, <1>3
  <2> QED BY <1>1, <2>1
<1>4. Immutable(old, f, latest[c])
  BY <1>2, <1>3 DEF Immutable
<1>5. Immutable(old, old, latest[c])
  BY <1>3 DEF Immutable
<1> QED BY <1>4, <1>5 DEF old, f

(* So does every step, for every contract.                                 *)
LEMMA StepImmutable ==
    ASSUME CatalogInv, [Next]_vars, NEW d \in ContractIDs
    PROVE  Immutable(sets[d], sets'[d], latest[d])
<1>1. Immutable(sets[d], sets[d], latest[d])
  <2>1. 0 \in Nat
    OBVIOUS
  <2> QED BY <2>1, FlaggedImmutable
<1>2. ASSUME NEW c \in ContractIDs, NEW rules \in Policies, SetRules(c, rules)
      PROVE  Immutable(sets[d], sets'[d], latest[d])
  <2>1. CASE c = d
    BY <1>2, <2>1, UpdateImmutable
  <2>2. CASE c # d
    <3>1. sets'[d] = sets[d]
      BY <1>2, <2>2 DEF SetRules, CatalogInv, TypeOK
    <3> QED BY <1>1, <3>1
  <2> QED BY <2>1, <2>2
<1>3. ASSUME NEW c \in ContractIDs, NEW version \in 0 .. MaxVersion + 1,
             sets' = [sets EXCEPT ![c] = Flagged(sets[c], version)]
      PROVE  Immutable(sets[d], sets'[d], latest[d])
  <2>1. version \in Nat
    BY KeepAssumption
  <2>2. CASE c = d
    <3>1. sets'[d] = Flagged(sets[d], version)
      BY <1>3, <2>2 DEF CatalogInv, TypeOK
    <3> QED BY <2>1, <3>1, FlaggedImmutable
  <2>3. CASE c # d
    <3>1. sets'[d] = sets[d]
      BY <1>3, <2>3 DEF CatalogInv, TypeOK
    <3> QED BY <1>1, <3>1
  <2> QED BY <2>2, <2>3
<1>4. CASE UNCHANGED vars
  BY <1>1, <1>4 DEF vars
<1> QED BY <1>2, <1>3, <1>4 DEF Next, ActivateRuleVersion, ActivateUnknownVersion

(* A version number stands for one policy, whatever updates, roll backs    *)
(* and failed roll backs are made (Catalog.Put, NextVersion, Activate).    *)
THEOREM CatalogVersionsImmutable == Spec => VersionsImmutable
<1> DEFINE Kept == \A c \in ContractIDs :
          /\ \A i \in DOMAIN sets[c], j \in DOMAIN sets'[c] :
                sets[c][i].version = sets'[c][j].version =>
                    sets[c][i].rules = sets'[c][j].rules
          /\ \A j \in DOMAIN sets'[c] :
                \/ \E i \in DOMAIN sets[c] : sets[c][i].version = sets'[c][j].version
                \/ sets'[c][j].version > latest[c]
<1>1. ASSUME CatalogInv, CatalogInv', [Next]_vars PROVE Kept
  <2> SUFFICES ASSUME NEW c \in ContractIDs
               PROVE  /\ \A i \in DOMAIN sets[c], j \in DOMAIN sets'[c] :
                            sets[c][i].version = sets'[c][j].version =>
                                sets[c][i].rules = sets'[c][j].rules
                      /\ \A j \in DOMAIN sets'[c] :
                            \/ \E i \in DOMAIN sets[c] :
                                  sets[c][i].version = sets'[c][j].version
                            \/ sets'[c][j].version > latest[c]
    OBVIOUS
  <2>1. sets[c] \in Seq(RuleSet) /\ sets'[c] \in Seq(RuleSet)
    BY <1>1 DEF CatalogInv, TypeOK
  <2>2. DOMAIN sets[c] = 1 .. Len(sets[c]) /\ DOMAIN sets'[c] = 1 .. Len(sets'[c])
    BY <2>1
  <2>3. Immutable(sets[c], sets'[c], latest[c])
    BY <1>1, StepImmutable
  <2> QED BY <2>2, <2>3 DEF Immutable
<1> QED BY <1>1, CatalogInvariant, PTL DEF Spec, VersionsImmutable
=============================================================================
