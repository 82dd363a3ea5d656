--------------------------- MODULE PolicyAPIProofs ---------------------------
(***************************************************************************)
(* Theorems about the quality-rules endpoints: to the catalog, requests    *)
(* that overlap are catalog operations one after the other, nothing they   *)
(* bring in force panics, their answers explain themselves, and the codes  *)
(* of an evaluation name one rule each.                                    *)
(***************************************************************************)
EXTENDS PolicyAPI, RuleCatalogProofs, FiniteSetTheorems, FunctionTheorems

(* A step of a handler is an operation of the catalog, or only a read.     *)
LEMMA HandlerStep == [APINext]_apiVars => [Next]_vars
<1> SUFFICES ASSUME [APINext]_apiVars PROVE [Next]_vars
  OBVIOUS
<1>1. CASE UNCHANGED apiVars
  BY <1>1 DEF apiVars, vars
<1>2. ASSUME NEW cl \in Clients, NEW c \in ContractIDs, NEW rules \in Policies,
             PostRules(cl, c, rules)
      PROVE  Next
  BY <1>2 DEF PostRules, Next
<1>3. ASSUME NEW cl \in Clients, NEW c \in ContractIDs, NEW version \in 0 .. MaxVersion + 1,
             PostActivate(cl, c, version)
      PROVE  Next
  BY <1>3 DEF PostActivate, Next
<1>4. ASSUME NEW cl \in Clients, NEW c \in ContractIDs, GetRules(cl, c)
      PROVE  UNCHANGED vars
  BY <1>4 DEF GetRules
<1>5. ASSUME NEW cl \in Clients, AnswerActivate(cl) \/ AnswerRules(cl)
      PROVE  UNCHANGED vars
  BY <1>5 DEF AnswerActivate, AnswerRules
<1> QED BY <1>1, <1>2, <1>3, <1>4, <1>5 DEF APINext

(* The endpoints implement RuleCatalog, so that its theorems hold for      *)
(* clients whose requests overlap (server.go:201-241).                     *)
THEOREM EndpointsImplementCatalog == APISpec => Spec
<1>1. APIInit => Init
  BY DEF APIInit
<1> QED BY <1>1, HandlerStep, PTL DEF APISpec, Spec

-----------------------------------------------------------------------------
(* What is in force was validated, and so was everything that an           *)
(* activation can bring back.                                              *)
PolicyValid(c) ==
    /\ ValidPolicy(live[c])
    /\ \A i \in 1 .. Len(sets[c]) : ValidPolicy(sets[c][i].rules)

AllValid == \A c \in ContractIDs : PolicyValid(c)

(* New flags leave the rules of a contract's sets as they were.            *)
LEMMA FlaggedValid ==
    ASSUME NEW items \in Seq(RuleSet), NEW version \in Nat,
           \A i \in 1 .. Len(items) : ValidPolicy(items[i].rules)
    PROVE  \A i \in 1 .. Len(Flagged(items, version)) : ValidPolicy(Flagged(items, version)[i].rules)
BY FlaggedFacts

(* A set that is put, with those that stay, is made of validated policies. *)
LEMMA PutValid ==
    ASSUME NEW items \in Seq(RuleSet), NEW version \in Nat \ {0}, NEW rules \in Policies,
           ValidPolicy(rules), \A i \in 1 .. Len(items) : ValidPolicy(items[i].rules)
    PROVE  \A i \in 1 .. Len(Put(items, version, rules)) :
               ValidPolicy(Put(items, version, rules)[i].rules)
<1> DEFINE new == [version |-> version, rules |-> rules, active |-> TRUE]
           all == Append(Flagged(items, version), new)
<1>1. Flagged(items, version) \in Seq(RuleSet) /\ new \in RuleSet
  BY FlaggedFacts DEF RuleSet
<1>2. all \in Seq(RuleSet) /\ Len(all) = Len(Flagged(items, version)) + 1
  BY <1>1
<1>3. ASSUME NEW i \in 1 .. Len(all) PROVE ValidPolicy(all[i].rules)
  <2>1. CASE i \in 1 .. Len(Flagged(items, version))
    <3>1. all[i] = Flagged(items, version)[i]
      BY <1>1, <2>1
    <3> QED BY <2>1, <3>1, FlaggedValid
  <2>2. CASE i = Len(Flagged(items, version)) + 1
    <3>1. all[i] = new
      BY <1>1, <2>2
    <3> QED BY <3>1
  <2> QED BY <1>1, <1>2, <2>1, <2>2
<1>4. Put(items, version, rules) = Trimmed(all)
  BY DEF Put
<1>5. ASSUME NEW i \in 1 .. Len(Trimmed(all)) PROVE ValidPolicy(Trimmed(all)[i].rules)
  <2> HIDE DEF all
  <2>1. PICK j \in 1 .. Len(all) : Trimmed(all)[i] = all[j]
    BY <1>2, TrimmedFacts
  <2> QED BY <1>3, <2>1
<1> QED BY <1>4, <1>5

(* Every catalog operation keeps the policies validated.                   *)
LEMMA ValidStep == CatalogInv /\ AllValid /\ [Next]_vars => AllValid'
<1> SUFFICES ASSUME CatalogInv, AllValid, [Next]_vars, NEW d \in ContractIDs
             PROVE  PolicyValid(d)'
  BY DEF AllValid
<1>1. /\ sets \in [ContractIDs -> Seq(RuleSet)] /\ latest \in [ContractIDs -> Nat]
      /\ live \in [ContractIDs -> Policies \cup {<<>>}]
  BY DEF CatalogInv, TypeOK
<1>2. PolicyValid(d)
  BY DEF AllValid
<1>3. ASSUME NEW c \in ContractIDs, NEW rules \in Policies, SetRules(c, rules)
      PROVE  PolicyValid(d)'
  <2>1. CASE c = d
    <3>1. live'[d] = rules /\ sets'[d] = Put(sets[d], NextVersion(d), rules)
      BY <1>1, <1>3, <2>1 DEF SetRules
    <3>2. ValidPolicy(rules)
      BY <1>3 DEF SetRules
    <3>3. NextVersion(d) \in Nat \ {0} /\ sets[d] \in Seq(RuleSet)
      BY <1>1 DEF NextVersion
    <3>4. \A i \in 1 .. Len(sets[d]) : ValidPolicy(sets[d][i].rules)
      BY <1>2 DEF PolicyValid
    <3>5. \A i \in 1 .. Len(Put(sets[d], NextVersion(d), rules)) :
              ValidPolicy(Put(sets[d], NextVersion(d), rules)[i].rules)
      BY <3>2, <3>3, <3>4, PutValid
    <3> QED BY <3>1, <3>2, <3>5 DEF PolicyValid
  <2>2. CASE c # d
    <3>1. live'[d] = live[d] /\ sets'[d] = sets[d]
      BY <1>1, <1>3, <2>2 DEF SetRules
    <3> QED BY <1>2, <3>1 DEF PolicyValid
  <2> QED BY <2>1, <2>2
<1>4. ASSUME NEW c \in ContractIDs, NEW version \in 0 .. MaxVersion + 1,
             sets' = [sets EXCEPT ![c] = Flagged(@, version)],
             ValidPolicy(live'[d])
      PROVE  PolicyValid(d)'
  <2>1. version \in Nat
    BY KeepAssumption
  <2>2. sets'[d] = sets[d] \/ sets'[d] = Flagged(sets[d], version)
    BY <1>1, <1>4
  <2>3. \A i \in 1 .. Len(sets[d]) : ValidPolicy(sets[d][i].rules)
    BY <1>2 DEF PolicyValid
  <2>4. \A i \in 1 .. Len(Flagged(sets[d], version)) : ValidPolicy(Flagged(sets[d], version)[i].rules)
    BY <1>1, <2>1, <2>3, FlaggedValid
  <2> QED BY <1>4, <2>2, <2>3, <2>4 DEF PolicyValid
<1>5. ASSUME NEW c \in ContractIDs, NEW version \in 0 .. MaxVersion + 1,
             ActivateRuleVersion(c, version)
      PROVE  PolicyValid(d)'
  <2>1. PICK i \in DOMAIN sets[c] : live' = [live EXCEPT ![c] = sets[c][i].rules]
    BY <1>5 DEF ActivateRuleVersion
  <2>2. PolicyValid(c)
    BY DEF AllValid
  <2>3. i \in 1 .. Len(sets[c])
    BY <1>1, <2>1
  <2>4. ValidPolicy(sets[c][i].rules) /\ ValidPolicy(live[d])
    BY <1>2, <2>2, <2>3 DEF PolicyValid
  <2>5. live'[d] = live[d] \/ live'[d] = sets[c][i].rules
    BY <1>1, <2>1
  <2>6. ValidPolicy(live'[d])
    BY <2>4, <2>5
  <2>7. sets' = [sets EXCEPT ![c] = Flagged(@, version)]
    BY <1>5 DEF ActivateRuleVersion
  <2> QED BY <1>4, <2>6, <2>7
<1>6. ASSUME NEW c \in ContractIDs, NEW version \in 0 .. MaxVersion + 1,
             ActivateUnknownVersion(c, version)
      PROVE  PolicyValid(d)'
  <2>1. live' = live /\ sets' = [sets EXCEPT ![c] = Flagged(@, version)]
    BY <1>6 DEF ActivateUnknownVersion
  <2>2. ValidPolicy(live'[d])
    BY <1>2, <2>1 DEF PolicyValid
  <2> QED BY <1>4, <2>1, <2>2
<1>7. CASE UNCHANGED vars
  BY <1>2, <1>7 DEF vars, PolicyValid
<1> QED BY <1>3, <1>5, <1>6, <1>7 DEF Next

(* Whatever is in force or retained was validated by SetRules.             *)
LEMMA ValidInvariant == Spec => []AllValid
<1>1. Init => AllValid
  BY DEF Init, AllValid, PolicyValid, ValidPolicy
<1> QED BY <1>1, ValidStep, CatalogInvariant, PTL DEF Spec

(* No rule in force panics when it is run, for any texts, patterns and     *)
(* policies: every way a policy comes into force leads back to SetRules,   *)
(* which compiles its patterns first (model.go:44-48, 67; policy.go:27-39).*)
THEOREM RulesInForceRun == APISpec => []RulesNeverPanic
<1>1. AllValid => RulesNeverPanic
  BY DEF AllValid, PolicyValid, ValidPolicy, RulesNeverPanic, Panics, ValidRule
<1> QED BY <1>1, ValidInvariant, EndpointsImplementCatalog, PTL

-----------------------------------------------------------------------------
(* Policies in the order of the ids                                        *)

(* The places of a list are ordered strictly and completely.               *)
LEMMA RulesOrdered ==
    ASSUME NEW rules \in Seq(Rule)
    PROVE  /\ \A i \in DOMAIN rules : ~ByID(rules, i, i)
           /\ \A i, j \in DOMAIN rules : i # j => ByID(rules, i, j) \/ ByID(rules, j, i)
           /\ \A i, j, k \in DOMAIN rules : ByID(rules, i, j) /\ ByID(rules, j, k) => ByID(rules, i, k)
<1>1. DOMAIN rules = 1 .. Len(rules) /\ Len(rules) \in Nat
  OBVIOUS
<1>2. \A i \in DOMAIN rules : i \in Int /\ rules[i] \in Rule
  BY <1>1
<1>3. \A i \in DOMAIN rules : rules[i].id \in RuleIDs
  BY <1>2 DEF Rule
<1>4. /\ \A i \in DOMAIN rules : RuleRank[rules[i].id] \in Int
      /\ \A i, j \in DOMAIN rules : RuleRank[rules[i].id] = RuleRank[rules[j].id] =>
            rules[i].id = rules[j].id
  BY <1>3, RuleTextAssumption
<1>5. \A i \in DOMAIN rules : i \in Int
  BY <1>2
<1> QED BY <1>4, <1>5 DEF ByID

(* The places of a list are finitely many, so are those chosen of them.    *)
LEMMA PlacesFinite ==
    ASSUME NEW rules \in Seq(Rule), NEW places \in SUBSET DOMAIN rules
    PROVE  IsFiniteSet(places) /\ Cardinality(places) \in Nat
<1>1. Len(rules) \in Nat /\ DOMAIN rules = 1 .. Len(rules)
  OBVIOUS
<1>2. ASSUME NEW n \in Nat PROVE IsFiniteSet(1 .. n)
  BY FS_Interval
<1>3. IsFiniteSet(places)
  BY <1>1, <1>2, FS_Subset
<1> QED BY <1>3, FS_CardinalityType

Ahead(rules, places, i) == {j \in places : ByID(rules, j, i)}

Place(rules, places, i) == Cardinality(Ahead(rules, places, i)) + 1

(* The place that a rule of a list gets, and those of later ones.          *)
LEMMA PlaceFacts ==
    ASSUME NEW rules \in Seq(Rule), NEW places \in SUBSET DOMAIN rules, NEW i \in places
    PROVE  /\ IsFiniteSet(places) /\ Cardinality(places) \in Nat
           /\ Cardinality(Ahead(rules, places, i)) \in Nat
           /\ Place(rules, places, i) \in 1 .. Cardinality(places)
           /\ \A j \in places : ByID(rules, i, j) => Place(rules, places, i) < Place(rules, places, j)
           /\ \A j \in places : Place(rules, places, i) = Place(rules, places, j) => i = j
<1>1. IsFiniteSet(places) /\ Cardinality(places) \in Nat
  BY PlacesFinite
<1>2. ASSUME NEW j \in places
      PROVE  IsFiniteSet(Ahead(rules, places, j)) /\ Cardinality(Ahead(rules, places, j)) \in Nat
  <2>1. IsFiniteSet(Ahead(rules, places, j))
    BY <1>1, FS_Subset DEF Ahead
  <2> QED BY <2>1, FS_CardinalityType
<1>3. ASSUME NEW j \in places, NEW k \in places, ByID(rules, j, k)
      PROVE  Place(rules, places, j) < Place(rules, places, k)
  <2>1. Ahead(rules, places, j) \subseteq Ahead(rules, places, k)
    BY <1>3, RulesOrdered DEF Ahead
  <2>2. j \in Ahead(rules, places, k) /\ j \notin Ahead(rules, places, j)
    BY <1>3, RulesOrdered DEF Ahead
  <2>3. Cardinality(Ahead(rules, places, j)) < Cardinality(Ahead(rules, places, k))
    BY <1>2, <2>1, <2>2, FS_Subset
  <2> QED BY <1>2, <2>3 DEF Place
<1>4. Place(rules, places, i) \in 1 .. Cardinality(places)
  <2>1. Ahead(rules, places, i) \subseteq places \ {i}
    BY RulesOrdered DEF Ahead
  <2>2. IsFiniteSet(places \ {i}) /\ Cardinality(places \ {i}) = Cardinality(places) - 1
    BY <1>1, FS_RemoveElement
  <2>3. Cardinality(Ahead(rules, places, i)) <= Cardinality(places) - 1
    BY <2>1, <2>2, FS_Subset
  <2> QED BY <1>1, <1>2, <2>3 DEF Place
<1>5. ASSUME NEW j \in places, Place(rules, places, i) = Place(rules, places, j) PROVE i = j
  <2>1. Place(rules, places, i) \in Int /\ Place(rules, places, j) \in Int
    BY <1>2 DEF Place
  <2>2. ~ByID(rules, i, j) /\ ~ByID(rules, j, i)
    BY <1>3, <1>5, <2>1
  <2> QED BY <2>2, RulesOrdered
<1> QED BY <1>1, <1>2, <1>3, <1>4, <1>5

(* Every place is taken.                                                   *)
LEMMA PlacesTaken ==
    ASSUME NEW rules \in Seq(Rule), NEW places \in SUBSET DOMAIN rules,
           NEW k \in 1 .. Cardinality(places)
    PROVE  \E i \in places : Place(rules, places, i) = k
<1> DEFINE D == 1 .. Cardinality(places)
           P == [i \in places |-> Place(rules, places, i)]
<1>1. IsFiniteSet(places) /\ Cardinality(places) \in Nat
  BY PlacesFinite
<1>2. ASSUME NEW n \in Nat PROVE IsFiniteSet(1 .. n) /\ Cardinality(1 .. n) = n
  BY FS_Interval
<1>3. IsFiniteSet(D) /\ Cardinality(D) = Cardinality(places)
  BY <1>1, <1>2
<1>4. \A i \in places : Place(rules, places, i) \in D
  BY PlaceFacts
<1>5. \A i, j \in places : Place(rules, places, i) = Place(rules, places, j) => i = j
  BY PlaceFacts
<1>6. P \in Injection(places, D)
  BY <1>4, <1>5, Fun_IsInj
<1> HIDE DEF D, P
<1>7. P \in Surjection(places, D)
  BY <1>1, <1>3, <1>6, FS_Injection
<1>8. \A m \in D : \E i \in places : P[i] = m
  BY <1>7, Fun_SurjectionProperties
<1> QED BY <1>8 DEF P, D

(* A list by its places: each of them once, in the order of the ids.       *)
Arranges(p, rules, places, out) ==
    /\ DOMAIN out = 1 .. Cardinality(places)
    /\ \A k \in DOMAIN out : p[k] \in places /\ out[k] = rules[p[k]]
    /\ \A i \in places : \E k \in DOMAIN out : p[k] = i
    /\ \A k, m \in DOMAIN out : k < m => ByID(rules, p[k], p[m])

(* The sort is modelled by what it returns, and there is such a thing.     *)
LEMMA SortedRules ==
    ASSUME NEW rules \in Seq(Rule), NEW places \in SUBSET DOMAIN rules
    PROVE  /\ \E p : Arranges(p, rules, places, SortedByID(rules, places))
           /\ SortedByID(rules, places) \in Seq(Rule)
<1> DEFINE n == Cardinality(places)
           p == [k \in 1 .. n |-> CHOOSE i \in places : Cardinality(Ahead(rules, places, i)) = k - 1]
           out == SortedByID(rules, places)
<1>1. IsFiniteSet(places) /\ n \in Nat
  BY PlacesFinite
<1>2. out = [k \in 1 .. n |-> rules[p[k]]]
  BY DEF SortedByID, Ahead
<1>3. ASSUME NEW k \in 1 .. n PROVE p[k] \in places /\ Place(rules, places, p[k]) = k
  <2>1. PICK i \in places : Place(rules, places, i) = k
    BY PlacesTaken
  <2>2. Cardinality(Ahead(rules, places, i)) \in Nat
    BY PlaceFacts
  <2>3. Cardinality(Ahead(rules, places, i)) = k - 1
    BY <2>1, <2>2 DEF Place
  <2>4. p[k] \in places /\ Cardinality(Ahead(rules, places, p[k])) = k - 1
    BY <2>3
  <2> QED BY <1>1, <2>4 DEF Place
<1> HIDE DEF n, p, out
<1>4. DOMAIN out = 1 .. n /\ \A k \in 1 .. n : out[k] = rules[p[k]]
  BY <1>2
<1>5. out \in Seq(Rule)
  <2>1. \A k \in 1 .. n : rules[p[k]] \in Rule
    BY <1>3
  <2>2. out \in [1 .. n -> Rule]
    BY <1>2, <2>1
  <2> QED BY <1>1, <2>2
<1>6. ASSUME NEW i \in places PROVE \E k \in 1 .. n : p[k] = i
  <2>1. Place(rules, places, i) \in 1 .. n
    BY PlaceFacts DEF n
  <2>2. PICK k \in 1 .. n : k = Place(rules, places, i)
    BY <2>1
  <2>3. p[k] \in places /\ Place(rules, places, p[k]) = Place(rules, places, i)
    BY <1>3, <2>2
  <2>4. p[k] = i
    BY <2>3, PlaceFacts
  <2> QED BY <2>2, <2>4
<1>7. ASSUME NEW k \in 1 .. n, NEW m \in 1 .. n, k < m PROVE ByID(rules, p[k], p[m])
  <2>1. /\ p[k] \in places /\ Place(rules, places, p[k]) = k
        /\ p[m] \in places /\ Place(rules, places, p[m]) = m
    BY <1>3
  <2>2. ~(m < k) /\ k # m
    BY <1>1, <1>7
  <2>3. p[k] # p[m] /\ ~ByID(rules, p[m], p[k])
    BY <2>1, <2>2, PlaceFacts
  <2> QED BY <2>1, <2>3, RulesOrdered
<1>8. Arranges(p, rules, places, out)
  BY <1>3, <1>4, <1>6, <1>7 DEF Arranges, n
<1> QED BY <1>5, <1>8 DEF out

(* The failures of an evaluation, sorted by id, are those of the policy    *)
(* in the order in which it was sent, and with distinct ids no two share a *)
(* code.                                                                   *)
LEMMA CodesNameOne ==
    ASSUME NEW rules \in Seq(Rule), ValidPolicy(rules), NEW payload
    PROVE  LET codes == Evaluate(rules, payload).failureCodes IN
           /\ \A i, j \in DOMAIN codes : i < j => RuleRank[codes[i]] < RuleRank[codes[j]]
           /\ {codes[i] : i \in DOMAIN codes} =
                 {rules[i].id : i \in {i \in DOMAIN rules :
                     rules[i].enabled /\ ~Passes(rules[i], payload)}}
<1> DEFINE codes == Evaluate(rules, payload).failureCodes
           places == {i \in DOMAIN rules : rules[i].enabled /\ ~Passes(rules[i], payload)}
           failed == SortedByID(rules, places)
<1>1. {i \in {i \in DOMAIN rules : rules[i].enabled} : ~Passes(rules[i], payload)} = places
  OBVIOUS
<1>2. codes = [i \in DOMAIN failed |-> failed[i].id]
  BY <1>1 DEF Evaluate
<1>3. places \in SUBSET DOMAIN rules
  OBVIOUS
<1> HIDE DEF codes, places, failed
<1>4. PICK p : Arranges(p, rules, places, failed)
  BY <1>3, SortedRules DEF failed
<1>5. /\ DOMAIN codes = DOMAIN failed
      /\ \A k \in DOMAIN codes : p[k] \in places /\ p[k] \in DOMAIN rules /\ codes[k] = rules[p[k]].id
  BY <1>2, <1>3, <1>4 DEF Arranges
<1>6. ASSUME NEW k \in DOMAIN codes, NEW m \in DOMAIN codes, k < m
      PROVE  RuleRank[codes[k]] < RuleRank[codes[m]]
  <2>1. ByID(rules, p[k], p[m])
    BY <1>4, <1>5, <1>6 DEF Arranges
  <2>2. p[k] \in DOMAIN rules /\ p[m] \in DOMAIN rules
    BY <1>5
  <2>3. p[k] # p[m]
    BY <2>1, <2>2, RulesOrdered
  <2>4. rules[p[k]].id # rules[p[m]].id
    BY <2>2, <2>3 DEF ValidPolicy
  <2> QED BY <1>5, <2>1, <2>4 DEF ByID
<1>7. \A i \in places : \E k \in DOMAIN codes : p[k] = i
  BY <1>4, <1>5 DEF Arranges
<1>8. {codes[k] : k \in DOMAIN codes} = {rules[i].id : i \in places}
  BY <1>5, <1>7
<1> QED BY <1>6, <1>8 DEF codes, places

(* A failure code of the detailed results names one rule of the policy in  *)
(* force, and the codes are those of the rules that validation reports, in *)
(* the order of the ids (Evaluate, RuleSet.Validate; catalog.go:42-94).    *)
THEOREM EvaluationsAreUnambiguous == APISpec => []EvaluationUnambiguous
<1>1. TypeOK /\ AllValid => EvaluationUnambiguous
  <2> SUFFICES ASSUME TypeOK, AllValid PROVE EvaluationUnambiguous
    OBVIOUS
  <2>1. ASSUME NEW c \in ContractIDs PROVE live[c] \in Seq(Rule) /\ ValidPolicy(live[c])
    <3>1. live[c] \in Policies \cup {<<>>}
      BY DEF TypeOK
    <3>2. <<>> \in Seq(Rule)
      OBVIOUS
    <3> QED BY <3>1, <3>2, PolicyAssumption DEF AllValid, PolicyValid
  <2> QED BY <2>1, CodesNameOne DEF EvaluationUnambiguous, EvaluateEvent
<1> QED BY <1>1, ValidInvariant, CatalogTypes, EndpointsImplementCatalog, PTL

-----------------------------------------------------------------------------
(* Answers that are read twice                                             *)

(* The rules that a request read first are those of a version that is      *)
(* still there, unless there was none or a version was dropped since.      *)
Explained(rules, oldest, items) ==
    /\ oldest <= Oldest(items)
    /\ \/ oldest = 0
       \/ oldest < Oldest(items)
       \/ \E i \in 1 .. Len(items) : InOrder(items[i].rules) = rules

(* The version that was activated is retained and in force.                *)
InForce(version, items, rules) ==
    \E i \in 1 .. Len(items) : items[i].version = version /\ items[i].rules = rules

Reads(x, c, rules, oldest) ==
    x = [step |-> "reading", contract |-> c, rules |-> rules, history |-> Unread, oldest |-> oldest]

Activated(x, c, version, overtaken) ==
    x = [step |-> "activated", contract |-> c, version |-> version, overtaken |-> overtaken]

ReadOf(x, items) ==
    \E c \in ContractIDs, rules \in Seq(Rule), oldest \in Nat :
        Reads(x, c, rules, oldest) /\ Explained(rules, oldest, items[c])

ActivationOf(x, items, rules) ==
    \E c \in ContractIDs, version \in Nat, overtaken \in BOOLEAN :
        /\ Activated(x, c, version, overtaken)
        /\ ~overtaken => InForce(version, items[c], rules[c])

CallOf(x, items, rules) == x = Idle \/ ReadOf(x, items) \/ ActivationOf(x, items, rules)

(* What every goroutine has read is still accounted for by the catalog.    *)
CallInv ==
    /\ call = [cl \in Clients |-> call[cl]]
    /\ \A cl \in Clients : CallOf(call[cl], sets, live)

(* The versions of a contract, and the oldest that is retained.            *)
Numbered(items, last) ==
    /\ items \in Seq(RuleSet) /\ Len(items) \in Nat /\ last \in Nat
    /\ Oldest(items) = IF last = 0 THEN 0 ELSE last - Len(items) + 1
    /\ Len(items) = IF last < MaxKeep THEN last ELSE MaxKeep
    /\ \A i \in 1 .. Len(items) : items[i].version = last - Len(items) + i

(* They are numbered without a gap.                                        *)
LEMMA OldestFacts ==
    ASSUME NEW items, NEW last, NEW rules, ContractInv(items, last, rules)
    PROVE  Numbered(items, last)
<1>1. /\ items \in Seq(RuleSet) /\ last \in Nat
      /\ Len(items) = IF last < MaxKeep THEN last ELSE MaxKeep
      /\ \A i \in 1 .. Len(items) : items[i].version = last - Len(items) + i
  BY DEF ContractInv
<1>2. Len(items) \in Nat
  BY <1>1
<1>3. Oldest(items) = IF last = 0 THEN 0 ELSE last - Len(items) + 1
  <2>1. CASE last = 0
    <3>1. Len(items) = 0
      BY <1>1, <2>1, KeepAssumption
    <3>2. items = <<>>
      BY <1>1, <3>1
    <3> QED BY <2>1, <3>2 DEF Oldest
  <2>2. CASE last # 0
    <3>1. Len(items) > 0
      BY <1>1, <2>2, KeepAssumption
    <3>2. items # <<>> /\ 1 \in 1 .. Len(items)
      BY <1>1, <1>2, <3>1
    <3> QED BY <1>1, <2>2, <3>2 DEF Oldest
  <2> QED BY <2>1, <2>2
<1> QED BY <1>1, <1>2, <1>3 DEF Numbered

(* Versions only ever go up.                                               *)
LEMMA LatestGrows ==
    ASSUME CatalogInv, [Next]_vars, NEW d \in ContractIDs
    PROVE  latest'[d] = latest[d] \/ latest'[d] = latest[d] + 1
<1>1. latest \in [ContractIDs -> Nat]
  BY DEF CatalogInv, TypeOK
<1>2. ASSUME NEW c \in ContractIDs, NEW rules \in Policies, SetRules(c, rules)
      PROVE  latest'[d] = latest[d] \/ latest'[d] = latest[d] + 1
  BY <1>1, <1>2 DEF SetRules, NextVersion
<1> QED BY <1>2 DEF Next, ActivateRuleVersion, ActivateUnknownVersion, vars

(* A version that was retained is retained still, or newer ones only are.  *)
LEMMA RetainedOrDropped ==
    ASSUME CatalogInv, CatalogInv', [Next]_vars, NEW c \in ContractIDs
    PROVE  /\ Oldest(sets[c]) \in Nat /\ Oldest(sets'[c]) \in Nat
           /\ Oldest(sets[c]) <= Oldest(sets'[c])
           /\ \A i \in 1 .. Len(sets[c]) :
                 /\ Oldest(sets[c]) <= sets[c][i].version
                 /\ \/ sets[c][i].version < Oldest(sets'[c])
                    \/ \E j \in 1 .. Len(sets'[c]) : sets'[c][j].rules = sets[c][i].rules
<1> DEFINE old == sets[c]
           new == sets'[c]
           last == latest[c]
           next == latest'[c]
           first == Oldest(old)
           later == Oldest(new)
<1>1. Numbered(old, last)
  <2>1. ContractInv(sets[c], latest[c], live[c])
    BY InvSplits DEF EachContract
  <2> QED BY <2>1, OldestFacts
<1>2. Numbered(new, next)
  <2>1. EachContract'
    BY InvSplits, PTL
  <2>2. ContractInv(sets'[c], latest'[c], live'[c])
    BY <2>1 DEF EachContract
  <2> QED BY <2>2, OldestFacts
<1>3. next = last \/ next = last + 1
  BY LatestGrows
<1>4. Immutable(old, new, last)
  BY StepImmutable
<1> USE DEF Numbered
<1> HIDE DEF old, new, last, next
<1>5. first \in Nat /\ later \in Nat /\ first <= later
  BY <1>1, <1>2, <1>3, KeepAssumption
<1>6. ASSUME NEW i \in 1 .. Len(old)
      PROVE  /\ first <= old[i].version
             /\ old[i].version < later \/ \E j \in 1 .. Len(new) : new[j].rules = old[i].rules
  <2> DEFINE v == old[i].version
             j == v - (next - Len(new))
  <2>1. v = last - Len(old) + i
    BY <1>1
  <2> HIDE DEF v
  <2>2. i \in Nat /\ 1 <= i /\ i <= Len(old) /\ last # 0
    BY <1>1, KeepAssumption
  <2>3. first <= v /\ v <= last
    BY <1>1, <2>1, <2>2
  <2>4. CASE ~(v < later)
    <3>1. j \in 1 .. Len(new) /\ next - Len(new) + j = v
      BY <1>1, <1>2, <1>3, <2>1, <2>2, <2>3, <2>4, KeepAssumption
    <3>2. new[j].version = v
      BY <1>2, <3>1
    <3> HIDE DEF j
    <3>3. new[j].rules = old[i].rules
      BY <1>4, <3>1, <3>2 DEF Immutable, v
    <3> QED BY <2>3, <3>1, <3>3 DEF v
  <2> QED BY <2>3, <2>4 DEF v
<1> QED BY <1>5, <1>6 DEF old, new, last, next

(* What was read stays explained.                                          *)
LEMMA ExplainedStays ==
    ASSUME CatalogInv, CatalogInv', [Next]_vars, NEW c \in ContractIDs, NEW rules,
           NEW oldest \in Nat, Explained(rules, oldest, sets[c])
    PROVE  Explained(rules, oldest, sets'[c])
<1>1. /\ Oldest(sets[c]) \in Nat /\ Oldest(sets'[c]) \in Nat
      /\ Oldest(sets[c]) <= Oldest(sets'[c])
      /\ \A i \in 1 .. Len(sets[c]) :
            /\ Oldest(sets[c]) <= sets[c][i].version
            /\ \/ sets[c][i].version < Oldest(sets'[c])
               \/ \E j \in 1 .. Len(sets'[c]) : sets'[c][j].rules = sets[c][i].rules
  BY RetainedOrDropped
<1>2. /\ oldest <= Oldest(sets[c])
      /\ \/ oldest = 0
         \/ oldest < Oldest(sets[c])
         \/ \E i \in 1 .. Len(sets[c]) : InOrder(sets[c][i].rules) = rules
  BY DEF Explained
<1>3. oldest <= Oldest(sets'[c])
  BY <1>1, <1>2
<1>4. CASE oldest = 0 \/ oldest < Oldest(sets'[c])
  BY <1>3, <1>4 DEF Explained
<1>5. CASE ~(oldest = 0 \/ oldest < Oldest(sets'[c]))
  <2>1. ~(oldest < Oldest(sets[c]))
    BY <1>1, <1>5
  <2>2. PICK i \in 1 .. Len(sets[c]) : InOrder(sets[c][i].rules) = rules
    BY <1>2, <1>5, <2>1
  <2>3. sets[c][i].version \in Int
    <3>1. sets[c] \in Seq(RuleSet)
      BY DEF CatalogInv, TypeOK
    <3>2. sets[c][i] \in RuleSet
      BY <2>2, <3>1
    <3> QED BY <3>2 DEF RuleSet
  <2>4. ~(sets[c][i].version < Oldest(sets'[c]))
    BY <1>1, <1>2, <1>5, <2>3
  <2>5. PICK j \in 1 .. Len(sets'[c]) : sets'[c][j].rules = sets[c][i].rules
    BY <1>1, <2>4
  <2> QED BY <1>3, <2>2, <2>5 DEF Explained
<1> QED BY <1>4, <1>5

(* So does every request that reads.                                       *)
LEMMA ReadStays ==
    ASSUME CatalogInv, CatalogInv', [Next]_vars, NEW x, ReadOf(x, sets)
    PROVE  ReadOf(x, sets')
<1>1. PICK c \in ContractIDs, rules \in Seq(Rule), oldest \in Nat :
          Reads(x, c, rules, oldest) /\ Explained(rules, oldest, sets[c])
  BY DEF ReadOf
<1>2. Explained(rules, oldest, sets'[c])
  BY <1>1, ExplainedStays
<1> QED BY <1>1, <1>2 DEF ReadOf

(* What is assigned to a field of a call leaves the other fields alone.    *)
LEMMA FieldSet ==
    /\ \A x, c, version, overtaken :
          Activated(x, c, version, overtaken) =>
              Activated([x EXCEPT !.overtaken = TRUE], c, version, TRUE)
    /\ \A x, c, rules, oldest, r :
          Reads(x, c, rules, oldest) => Reads([x EXCEPT !.rules = r], c, r, oldest)
<1>1. ASSUME NEW x, NEW c, NEW version, NEW overtaken, Activated(x, c, version, overtaken)
      PROVE  Activated([x EXCEPT !.overtaken = TRUE], c, version, TRUE)
  <2> DEFINE y == [x EXCEPT !.overtaken = TRUE]
  <2>1. /\ DOMAIN x = {"step", "contract", "version", "overtaken"}
        /\ x.step = "activated" /\ x.contract = c /\ x.version = version
    BY <1>1 DEF Activated
  <2>2. y = [k \in DOMAIN x |-> IF k = "overtaken" THEN TRUE ELSE x[k]]
    OBVIOUS
  <2> HIDE DEF y
  <2>3. Activated(y, c, version, TRUE)
    BY <2>1, <2>2 DEF Activated
  <2> QED BY <2>3 DEF y
<1>2. ASSUME NEW x, NEW c, NEW rules, NEW oldest, NEW r, Reads(x, c, rules, oldest)
      PROVE  Reads([x EXCEPT !.rules = r], c, r, oldest)
  <2> DEFINE y == [x EXCEPT !.rules = r]
  <2>1. /\ DOMAIN x = {"step", "contract", "rules", "history", "oldest"}
        /\ x.step = "reading" /\ x.contract = c /\ x.history = Unread /\ x.oldest = oldest
    BY <1>2 DEF Reads
  <2>2. y = [k \in DOMAIN x |-> IF k = "rules" THEN r ELSE x[k]]
    OBVIOUS
  <2> QED BY <2>1, <2>2 DEF Reads
<1> QED BY <1>1, <1>2

(* A change of one contract's policy is noted by the activations that wait *)
(* for their answer, and is none of the others' business.                  *)
LEMMA OvertakenCall ==
    ASSUME CatalogInv, CatalogInv', [Next]_vars, CallInv, NEW cl \in Clients, NEW c \in ContractIDs,
           call[cl] = Idle, NEW x \in Clients,
           \A d \in ContractIDs \ {c} : sets'[d] = sets[d] /\ live'[d] = live[d]
    PROVE  CallOf(Overtaken(cl, c)[x], sets', live')
<1> DEFINE y == Overtaken(cl, c)[x]
<1>1. y = IF x # cl /\ call[x].step = "activated" /\ call[x].contract = c
          THEN [call[x] EXCEPT !.overtaken = TRUE] ELSE call[x]
  BY DEF Overtaken
<1> HIDE DEF y
<1>2. CASE call[x] = Idle
  <2>1. y = Idle
    BY <1>1, <1>2 DEF Idle
  <2> QED BY <2>1 DEF CallOf, y
<1>3. CASE ReadOf(call[x], sets)
  <2>1. call[x].step = "reading"
    BY <1>3 DEF ReadOf, Reads
  <2>2. y = call[x]
    BY <1>1, <2>1
  <2>3. ReadOf(y, sets)
    BY <1>3, <2>2
  <2>4. PICK z : z = y
    OBVIOUS
  <2>5. ReadOf(z, sets')
    BY <2>3, <2>4, ReadStays
  <2> QED BY <2>4, <2>5 DEF CallOf, y
<1>4. CASE ActivationOf(call[x], sets, live)
  <2>1. PICK d \in ContractIDs, version \in Nat, overtaken \in BOOLEAN :
            /\ Activated(call[x], d, version, overtaken)
            /\ ~overtaken => InForce(version, sets[d], live[d])
    BY <1>4 DEF ActivationOf
  <2>2. call[x].step = "activated" /\ call[x].contract = d
    BY <2>1 DEF Activated
  <2>3. x # cl
    BY <2>2 DEF Idle
  <2>4. CASE c = d
    <3>1. y = [call[x] EXCEPT !.overtaken = TRUE]
      BY <1>1, <2>2, <2>3, <2>4
    <3>2. Activated(y, d, version, TRUE)
      BY <2>1, <3>1, FieldSet
    <3> QED BY <3>2 DEF CallOf, ActivationOf, y
  <2>5. CASE c # d
    <3>1. y = call[x] /\ sets'[d] = sets[d] /\ live'[d] = live[d]
      BY <1>1, <2>2, <2>5
    <3>2. /\ Activated(y, d, version, overtaken)
          /\ ~overtaken => InForce(version, sets'[d], live'[d])
      BY <2>1, <3>1
    <3> QED BY <3>2 DEF CallOf, ActivationOf, y
  <2> QED BY <2>4, <2>5
<1> QED BY <1>2, <1>3, <1>4 DEF CallInv, CallOf

(* A call that goes on as it was, while the policies stay.                 *)
LEMMA CallStays ==
    ASSUME CatalogInv, CatalogInv', [Next]_vars, NEW x, CallOf(x, sets, live),
           \A d \in ContractIDs, version \in Nat :
               InForce(version, sets[d], live[d]) => InForce(version, sets'[d], live'[d])
    PROVE  CallOf(x, sets', live')
<1>1. CASE x = Idle
  BY <1>1 DEF CallOf
<1>2. CASE ReadOf(x, sets)
  BY <1>2, ReadStays DEF CallOf
<1>3. CASE ActivationOf(x, sets, live)
  <2>1. ActivationOf(x, sets', live')
    BY <1>3 DEF ActivationOf
  <2> QED BY <2>1 DEF CallOf
<1> QED BY <1>1, <1>2, <1>3 DEF CallOf

(* New flags leave what is in force in force.                              *)
LEMMA FlaggedInForce ==
    ASSUME NEW items \in Seq(RuleSet), NEW version \in Nat, NEW v \in Nat, NEW rules
    PROVE  InForce(v, Flagged(items, version), rules) <=> InForce(v, items, rules)
  BY FlaggedFacts DEF InForce

(* What an activation answers for is in force when it has been made.       *)
LEMMA ActivationInForce ==
    ASSUME CatalogInv, NEW c \in ContractIDs, NEW version \in Nat, ActivateRuleVersion(c, version)
    PROVE  InForce(version, sets'[c], live'[c])
<1>1. sets \in [ContractIDs -> Seq(RuleSet)] /\ live \in [ContractIDs -> Policies \cup {<<>>}]
  BY DEF CatalogInv, TypeOK
<1>2. PICK i \in DOMAIN sets[c] :
          sets[c][i].version = version /\ live' = [live EXCEPT ![c] = sets[c][i].rules]
  BY DEF ActivateRuleVersion
<1>3. i \in 1 .. Len(sets[c]) /\ live'[c] = sets[c][i].rules
  BY <1>1, <1>2
<1>4. InForce(version, sets[c], live'[c])
  BY <1>2, <1>3 DEF InForce
<1>5. sets'[c] = Flagged(sets[c], version) /\ sets[c] \in Seq(RuleSet)
  BY <1>1 DEF ActivateRuleVersion
<1>6. PICK rules : rules = live'[c]
  OBVIOUS
<1> QED BY <1>4, <1>5, <1>6, FlaggedInForce

(* What getRules reads first is explained by the history at that moment.   *)
LEMMA ReadIsExplained ==
    ASSUME CatalogInv, NEW c \in ContractIDs
    PROVE  /\ Rules(c) \in Seq(Rule) /\ Oldest(sets[c]) \in Nat
           /\ Explained(Rules(c), Oldest(sets[c]), sets[c])
<1>1. live[c] \in Seq(Rule)
  <2>1. live[c] \in Policies \cup {<<>>} /\ <<>> \in Seq(Rule)
    BY DEF CatalogInv, TypeOK
  <2> QED BY <2>1, PolicyAssumption
<1>2. Rules(c) \in Seq(Rule)
  BY <1>1, SortedRules DEF Rules, InOrder
<1>3. ContractInv(sets[c], latest[c], live[c])
  BY InvSplits DEF EachContract
<1>4. Numbered(sets[c], latest[c])
  BY <1>3, OldestFacts
<1>5. Oldest(sets[c]) \in Nat /\ (Oldest(sets[c]) # 0 => latest[c] > 0)
  BY <1>4, KeepAssumption DEF Numbered
<1>6. latest[c] > 0 => \E i \in 1 .. Len(sets[c]) : sets[c][i].rules = live[c]
  BY <1>3 DEF ContractInv
<1>7. Explained(Rules(c), Oldest(sets[c]), sets[c])
  BY <1>5, <1>6 DEF Explained, Rules
<1> QED BY <1>2, <1>5, <1>7

(* The steps of the handlers keep it so.                                   *)
LEMMA CallStep == CatalogInv /\ CatalogInv' /\ CallInv /\ [APINext]_apiVars => CallInv'
<1> SUFFICES ASSUME CatalogInv, CatalogInv', CallInv, [APINext]_apiVars PROVE CallInv'
  OBVIOUS
<1>1. [Next]_vars
  BY HandlerStep
<1>2. /\ sets \in [ContractIDs -> Seq(RuleSet)] /\ latest \in [ContractIDs -> Nat]
      /\ live \in [ContractIDs -> Policies \cup {<<>>}]
  BY DEF CatalogInv, TypeOK
<1>3. call = [cl \in Clients |-> call[cl]] /\ \A cl \in Clients : CallOf(call[cl], sets, live)
  BY DEF CallInv
<1>4. ASSUME NEW x \in Clients, call'[x] = call[x],
             \A d \in ContractIDs, version \in Nat :
                 InForce(version, sets[d], live[d]) => InForce(version, sets'[d], live'[d])
      PROVE  CallOf(call'[x], sets', live')
  <2>1. PICK y : y = call[x]
    OBVIOUS
  <2>2. CallOf(y, sets', live')
    BY <1>1, <1>3, <1>4, <2>1, CallStays
  <2> QED BY <1>4, <2>1, <2>2
<1>5. ASSUME NEW cl \in Clients, NEW c \in ContractIDs, NEW rules \in Policies, PostRules(cl, c, rules)
      PROVE  CallInv'
  <2>1. call[cl] = Idle /\ call' = Overtaken(cl, c)
        /\ \A d \in ContractIDs \ {c} : sets'[d] = sets[d] /\ live'[d] = live[d]
    BY <1>2, <1>5 DEF PostRules, SetRules
  <2>2. \A x \in Clients : CallOf(call'[x], sets', live')
    BY <1>1, <2>1, OvertakenCall
  <2>3. call' = [x \in Clients |-> call'[x]]
    BY <2>1 DEF Overtaken
  <2> QED BY <2>2, <2>3 DEF CallInv
<1>6. ASSUME NEW cl \in Clients, NEW c \in ContractIDs, NEW version \in 0 .. MaxVersion + 1,
             PostActivate(cl, c, version), ActivateRuleVersion(c, version),
             call' = [Overtaken(cl, c) EXCEPT ![cl] =
                        [step |-> "activated", contract |-> c, version |-> version,
                         overtaken |-> FALSE]]
      PROVE  CallInv'
  <2>1. version \in Nat
    BY KeepAssumption
  <2>2. call[cl] = Idle /\ \A d \in ContractIDs \ {c} : sets'[d] = sets[d] /\ live'[d] = live[d]
    BY <1>2, <1>6 DEF PostActivate, ActivateRuleVersion
  <2>3. InForce(version, sets'[c], live'[c])
    BY <1>6, <2>1, ActivationInForce
  <2>4. Overtaken(cl, c) = [x \in Clients |-> Overtaken(cl, c)[x]]
    BY DEF Overtaken
  <2>5. ASSUME NEW x \in Clients PROVE CallOf(call'[x], sets', live')
    <3>1. CASE x = cl
      <4>1. Activated(call'[cl], c, version, FALSE)
        BY <1>6, <2>4 DEF Activated
      <4>2. ActivationOf(call'[cl], sets', live')
        BY <2>1, <2>3, <4>1 DEF ActivationOf
      <4> QED BY <3>1, <4>2 DEF CallOf
    <3>2. CASE x # cl
      <4>1. call'[x] = Overtaken(cl, c)[x]
        BY <1>6, <2>4, <3>2
      <4>2. CallOf(Overtaken(cl, c)[x], sets', live')
        BY <1>1, <2>2, OvertakenCall
      <4> QED BY <4>1, <4>2
    <3> QED BY <3>1, <3>2
  <2>6. call' = [x \in Clients |-> call'[x]]
    BY <1>6, <2>4
  <2> QED BY <2>5, <2>6 DEF CallInv
<1>7. ASSUME NEW c \in ContractIDs, NEW version \in 0 .. MaxVersion + 1,
             ActivateUnknownVersion(c, version), UNCHANGED call
      PROVE  CallInv'
  <2>1. version \in Nat
    BY KeepAssumption
  <2>2. ASSUME NEW d \in ContractIDs, NEW v \in Nat, InForce(v, sets[d], live[d])
        PROVE  InForce(v, sets'[d], live'[d])
    <3>1. live' = live /\ (sets'[d] = sets[d] \/ sets'[d] = Flagged(sets[d], version))
      BY <1>2, <1>7 DEF ActivateUnknownVersion
    <3>2. InForce(v, Flagged(sets[d], version), live[d])
      BY <1>2, <2>1, <2>2, FlaggedInForce
    <3> QED BY <2>2, <3>1, <3>2
  <2>3. \A x \in Clients : CallOf(call'[x], sets', live')
    BY <1>4, <1>7, <2>2
  <2> QED BY <1>3, <1>7, <2>3 DEF CallInv
<1>8. ASSUME UNCHANGED vars, NEW cl \in Clients, NEW new, call' = [call EXCEPT ![cl] = new],
             CallOf(new, sets, live)
      PROVE  CallInv'
  <2>1. sets' = sets /\ live' = live
    BY <1>8 DEF vars
  <2>2. ASSUME NEW x \in Clients PROVE CallOf(call'[x], sets', live')
    <3>1. call'[x] = new \/ call'[x] = call[x]
      BY <1>3, <1>8
    <3> QED BY <1>3, <1>8, <2>1, <3>1
  <2>3. call' = [x \in Clients |-> call'[x]]
    BY <1>3, <1>8
  <2> QED BY <2>2, <2>3 DEF CallInv
<1>9. ASSUME NEW cl \in Clients, NEW c \in ContractIDs, GetRules(cl, c) PROVE CallInv'
  <2> DEFINE begun == [step |-> "reading", contract |-> c, rules |-> Unread, history |-> Unread,
                       oldest |-> Oldest(sets[c])]
             new == [begun EXCEPT !.rules = Rules(c)]
  <2>1. call' = [call EXCEPT ![cl] = new] /\ UNCHANGED vars
    BY <1>9 DEF GetRules, ReadNext
  <2>2. ReadOf(new, sets)
    <3>1. Reads(begun, c, Unread, Oldest(sets[c]))
      BY DEF Reads
    <3> HIDE DEF begun
    <3>2. Reads(new, c, Rules(c), Oldest(sets[c]))
      BY <3>1, FieldSet
    <3> HIDE DEF new
    <3> QED BY <3>2, ReadIsExplained DEF ReadOf
  <2> HIDE DEF new
  <2>3. CallOf(new, sets, live)
    BY <2>2 DEF CallOf
  <2>4. PICK y : y = new
    OBVIOUS
  <2> QED BY <1>8, <2>1, <2>3, <2>4
<1>10. ASSUME NEW cl \in Clients, AnswerActivate(cl) \/ AnswerRules(cl) PROVE CallInv'
  <2>1. call' = [call EXCEPT ![cl] = Idle] /\ UNCHANGED vars
    BY <1>10 DEF AnswerActivate, AnswerRules
  <2>2. CallOf(Idle, sets, live)
    BY DEF CallOf
  <2> QED BY <1>8, <2>1, <2>2
<1>11. CASE UNCHANGED apiVars
  <2>1. sets' = sets /\ live' = live /\ call' = call
    BY <1>11 DEF apiVars
  <2> QED BY <1>3, <2>1 DEF CallInv
<1> QED BY <1>5, <1>6, <1>7, <1>9, <1>10, <1>11 DEF APINext, PostActivate

(* What the goroutines have read stays accounted for.                      *)
LEMMA CallInvariant == APISpec => [](CatalogInv /\ CallInv)
<1>1. APIInit => CallInv
  BY DEF APIInit, CallInv, CallOf
<1> QED BY <1>1, CallStep, CatalogInvariant, EndpointsImplementCatalog, PTL DEF APISpec

(* The state of the endpoints stays well typed; the sorted copy of the     *)
(* rules that a request holds is a list of rules (policy.go:13-19).        *)
THEOREM APITypes == APISpec => []APITypeOK
<1>1. CatalogInv /\ CallInv => APITypeOK
  <2> SUFFICES ASSUME CatalogInv, CallInv PROVE APITypeOK
    OBVIOUS
  <2>1. ASSUME NEW cl \in Clients PROVE call[cl] \in Call
    <3>1. CASE call[cl] = Idle
      BY <3>1 DEF Call
    <3>2. CASE ReadOf(call[cl], sets)
      BY <3>2 DEF ReadOf, Reads, Call
    <3>3. CASE ActivationOf(call[cl], sets, live)
      BY <3>3 DEF ActivationOf, Activated, Call
    <3> QED BY <3>1, <3>2, <3>3 DEF CallInv, CallOf
  <2> QED BY <2>1 DEF APITypeOK, CallInv, CatalogInv
<1> QED BY <1>1, CallInvariant, PTL

(* The answer of getRules explains itself, whatever requests come between  *)
(* its two reads (Service.Rules, Service.RuleHistory; server.go:224).      *)
THEOREM HistoriesExplainRules == APISpec => HistoryExplainsRules
<1> DEFINE Shows ==
          \A cl \in Clients : AnswerRules(cl) =>
              LET out == ReadNext(call[cl].contract, call[cl]) IN
              \/ out.oldest = 0
              \/ Oldest(out.history) > out.oldest
              \/ \E i \in DOMAIN out.history : InOrder(out.history[i].rules) = out.rules
<1>1. CatalogInv /\ CallInv => Shows
  <2> SUFFICES ASSUME CatalogInv, CallInv, NEW cl \in Clients, AnswerRules(cl)
               PROVE  LET out == ReadNext(call[cl].contract, call[cl]) IN
                      \/ out.oldest = 0
                      \/ Oldest(out.history) > out.oldest
                      \/ \E i \in DOMAIN out.history : InOrder(out.history[i].rules) = out.rules
    OBVIOUS
  <2>1. call[cl].step = "reading"
    BY DEF AnswerRules
  <2>2. ReadOf(call[cl], sets)
    BY <2>1 DEF CallInv, CallOf, Idle, ActivationOf, Activated
  <2>3. PICK c \in ContractIDs, rules \in Seq(Rule), oldest \in Nat :
            Reads(call[cl], c, rules, oldest) /\ Explained(rules, oldest, sets[c])
    BY <2>2 DEF ReadOf
  <2> DEFINE x == call[cl]
             out == ReadNext(x.contract, x)
  <2>4. /\ x.contract = c /\ x.rules = rules /\ x.oldest = oldest
        /\ DOMAIN x = {"step", "contract", "rules", "history", "oldest"}
    BY <2>3 DEF Reads
  <2>5. rules # Unread
    BY <2>3, UnreadAssumption
  <2>6. out = [x EXCEPT !.history = sets[c]]
    BY <2>4, <2>5 DEF ReadNext, RuleHistory
  <2> HIDE DEF x, out
  <2>7. out.rules = rules /\ out.oldest = oldest /\ out.history = sets[c]
    BY <2>4, <2>6
  <2>8. sets[c] \in Seq(RuleSet) /\ Oldest(sets[c]) \in Nat
    BY ReadIsExplained DEF CatalogInv, TypeOK
  <2>9. DOMAIN sets[c] = 1 .. Len(sets[c])
    BY <2>8
  <2>10. \/ out.oldest = 0
         \/ Oldest(out.history) > out.oldest
         \/ \E i \in DOMAIN out.history : InOrder(out.history[i].rules) = out.rules
    BY <2>3, <2>7, <2>8, <2>9 DEF Explained
  <2> QED BY <2>10 DEF out, x
<1> QED BY <1>1, CallInvariant, PTL DEF HistoryExplainsRules

(* The answer of activateRules shows the version it names, unless another  *)
(* request came first (Service.ActivateRuleVersion; server.go:236-240).    *)
THEOREM ActivationsAreAnswered == APISpec => ActivationAnswered
<1> DEFINE Shows ==
          \A cl \in Clients : AnswerActivate(cl) /\ ~call[cl].overtaken =>
              \E i \in DOMAIN sets[call[cl].contract] :
                  LET set == sets[call[cl].contract][i] IN
                  /\ set.version = call[cl].version
                  /\ Rules(call[cl].contract) = InOrder(set.rules)
<1>1. CatalogInv /\ CallInv => Shows
  <2> SUFFICES ASSUME CatalogInv, CallInv, NEW cl \in Clients, AnswerActivate(cl),
                      ~call[cl].overtaken
               PROVE  \E i \in DOMAIN sets[call[cl].contract] :
                          LET set == sets[call[cl].contract][i] IN
                          /\ set.version = call[cl].version
                          /\ Rules(call[cl].contract) = InOrder(set.rules)
    OBVIOUS
  <2>1. call[cl].step = "activated"
    BY DEF AnswerActivate
  <2>2. ActivationOf(call[cl], sets, live)
    BY <2>1 DEF CallInv, CallOf, Idle, ReadOf, Reads
  <2>3. PICK c \in ContractIDs, version \in Nat, overtaken \in BOOLEAN :
            /\ Activated(call[cl], c, version, overtaken)
            /\ ~overtaken => InForce(version, sets[c], live[c])
    BY <2>2 DEF ActivationOf
  <2>4. call[cl].contract = c /\ call[cl].version = version /\ call[cl].overtaken = overtaken
    BY <2>3 DEF Activated
  <2>5. PICK i \in 1 .. Len(sets[c]) : sets[c][i].version = version /\ sets[c][i].rules = live[c]
    BY <2>3, <2>4 DEF InForce
  <2>6. sets[c] \in Seq(RuleSet)
    BY DEF CatalogInv, TypeOK
  <2>7. i \in DOMAIN sets[c]
    BY <2>5, <2>6
  <2> QED BY <2>4, <2>5, <2>7 DEF Rules
<1> QED BY <1>1, CallInvariant, PTL DEF ActivationAnswered
=============================================================================
