----------------------------- MODULE RuleEngine -----------------------------
(***************************************************************************)
(* The quality rules of internal/quality/domain/model.go and the summary   *)
(* that Evaluate of catalog.go makes of them.                              *)
(*                                                                         *)
(* Data: a field name is a number, 0 for the empty one.  A payload gives   *)
(* each of its fields Null or the text that fmt.Sprint prints of the       *)
(* value.  What the libraries make of a text is a parameter: its place in  *)
(* the order of strings, the number fmt.Sscan reads from it, the pattern   *)
(* regexp.Compile makes of it, whether it is blank.  Durations are left    *)
(* out; the timeout of a rule is not read by the code.                     *)
(***************************************************************************)
EXTENDS Integers, Sequences, FiniteSets

CONSTANTS
    RuleIDs,
    RuleRank,      \* the place of each rule id in the order of strings
    Texts,
    Blank,         \* the texts of which strings.TrimSpace leaves nothing
    Number,        \* fmt.Sscan into a float64, on the texts it succeeds for
    Pattern,       \* on the texts that are regular expressions: what they match
    Null,          \* the JSON null
    NullText       \* what fmt.Sprint prints of Null and of a missing field

ASSUME RuleTextAssumption ==
    /\ RuleRank \in [RuleIDs -> Int]
    /\ \A a, b \in RuleIDs : RuleRank[a] = RuleRank[b] => a = b
    /\ Blank \subseteq Texts /\ NullText \in Texts \ Blank
    /\ DOMAIN Number \subseteq Texts /\ \A t \in DOMAIN Number : Number[t] \in Int
    /\ DOMAIN Pattern \subseteq Texts /\ \A t \in DOMAIN Pattern : Pattern[t] \subseteq Texts

Operators == {"required", "regex", "min", "max", "equals"}

Rule == [id: RuleIDs, field: Nat, operator: Operators \cup {"other"}, value: Texts, enabled: BOOLEAN]

-----------------------------------------------------------------------------
MutValidRuleAnyPattern(r) == r.id # "" /\ r.field # 0 /\ r.operator \in Operators

(* Rule.Validate                                                           *)
ValidRule(r) ==
    /\ r.id # "" /\ r.field # 0
    /\ r.operator \in Operators
    /\ r.operator = "regex" => r.value \in DOMAIN Pattern

(* regexp.MustCompile panics on what is not a regular expression.          *)
Panics(r, payload) ==
    r.operator = "regex" /\ r.field \in DOMAIN payload /\ r.value \notin DOMAIN Pattern

(* Rule.Execute, as its Result.Passed.  The bounds read a number from the  *)
(* text of a missing field too and fail on it, as on any other text that   *)
(* is not a number.                                                        *)
Passes(r, payload) ==
    LET given == r.field \in DOMAIN payload
        null  == given => payload[r.field] = Null
        text  == IF null THEN NullText ELSE payload[r.field]
        Bounded == text \in DOMAIN Number /\ r.value \in DOMAIN Number IN
    /\ r.operator = "required" => ~null /\ text \notin Blank
    /\ r.operator = "equals" => given /\ text = r.value
    /\ r.operator = "regex" => given /\ text \in Pattern[r.value]
    /\ r.operator = "min" => Bounded /\ Number[text] >= Number[r.value]
    /\ r.operator = "max" => Bounded /\ Number[text] <= Number[r.value]

(* The order of the ids, and for an id that occurs twice that of the list. *)
ByID(rules, i, j) ==
    \/ RuleRank[rules[i].id] < RuleRank[rules[j].id]
    \/ rules[i].id = rules[j].id /\ i < j

(* The rules at the given places of a list, sorted by id: the k-th has     *)
(* k - 1 before it.                                                        *)
SortedByID(rules, places) ==
    [k \in 1 .. Cardinality(places) |->
        rules[CHOOSE i \in places : Cardinality({j \in places : ByID(rules, j, i)}) = k - 1]]

(* Evaluate: the enabled rules run in the order of their ids; the total    *)
(* counts the disabled ones too.                                           *)
Evaluate(rules, payload) ==
    LET enabled == {i \in DOMAIN rules : rules[i].enabled}
        run     == SortedByID(rules, enabled)
        failed  == SortedByID(rules, {i \in enabled : ~Passes(rules[i], payload)}) IN
    [total        |-> Len(rules),
     passed       |-> failed = <<>>,
     evaluations  |-> [i \in DOMAIN run |->
                         [rule |-> run[i].id, passed |-> Passes(run[i], payload)]],
     failureCodes |-> [i \in DOMAIN failed |-> failed[i].id]]
=============================================================================
