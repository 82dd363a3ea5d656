------------------------------ MODULE PolicyAPI ------------------------------
(***************************************************************************)
(* The quality-rules endpoints of internal/platform/httpapi/server.go over *)
(* the rule catalog.  Reading a policy and activating one take the         *)
(* service's mutex twice, so other requests may come in between:           *)
(*                                                                         *)
(*   POST .../quality-rules                 SetRules                       *)
(*   POST .../quality-rules/{v}/activate    ActivateRuleVersion, Rules     *)
(*   GET  .../quality-rules                 Rules, RuleHistory             *)
(*                                                                         *)
(* A request that is refused before it reaches the service changes nothing *)
(* and is left out.                                                        *)
(***************************************************************************)
EXTENDS RuleCatalog

CONSTANTS
    Clients,   \* goroutines serving these requests
    Samples,   \* payloads of stored events, for quality-results/detailed
    Unread     \* in place of what a request has not read yet

ASSUME UnreadAssumption == Unread \notin Seq(Rule) \cup Seq(RuleSet)

VARIABLE call  \* what each goroutine has read, and history of its request

apiVars == <<sets, latest, live, call>>

Idle == [step |-> "idle"]

(* A read in progress, with the oldest version retained when it began, 0   *)
(* for none; an activation not yet answered, with whether another request  *)
(* has changed the policy since.                                           *)
Call ==
    {Idle}
    \cup [step: {"reading"}, contract: ContractIDs, rules: Seq(Rule) \cup {Unread},
          history: Seq(RuleSet) \cup {Unread}, oldest: Nat]
    \cup [step: {"activated"}, contract: ContractIDs, version: Nat, overtaken: BOOLEAN]

APITypeOK == TypeOK /\ call \in [Clients -> Call]

APIInit == Init /\ call = [cl \in Clients |-> Idle]

-----------------------------------------------------------------------------
(* A policy in the order of the ids.                                       *)
InOrder(rules) == SortedByID(rules, DOMAIN rules)

(* Service.Rules: a copy of the rules in force, in the order of the ids.   *)
Rules(c) == InOrder(live[c])

(* Service.RuleHistory and Catalog.List: a copy of what is retained.       *)
RuleHistory(c) == sets[c]

(* Service.EvaluateEvent: the rules now in force on the stored payload.    *)
EvaluateEvent(c, payload) == Evaluate(live[c], payload)

MutReadNextHistoryFirst(c, out) ==
    IF out.history = Unread
    THEN [out EXCEPT !.history = RuleHistory(c)]
    ELSE [out EXCEPT !.rules = Rules(c)]

(* The two calls in the body of getRules, in the order Go evaluates them:  *)
(* Rules, then RuleHistory.                                                *)
ReadNext(c, out) ==
    IF out.rules = Unread
    THEN [out EXCEPT !.rules = Rules(c)]
    ELSE [out EXCEPT !.history = RuleHistory(c)]

(* What a change of a contract's policy by cl means for the activations    *)
(* that wait for their answer.                                             *)
Overtaken(cl, c) ==
    [x \in Clients |-> IF x # cl /\ call[x].step = "activated" /\ call[x].contract = c
                       THEN [call[x] EXCEPT !.overtaken = TRUE]
                       ELSE call[x]]

(* setRules                                                                *)
PostRules(cl, c, rules) ==
    /\ call[cl] = Idle
    /\ SetRules(c, rules)
    /\ call' = Overtaken(cl, c)

(* activateRules: a version below 1 is refused; a version that is not      *)
(* retained is an error, answered at once.                                 *)
PostActivate(cl, c, version) ==
    /\ call[cl] = Idle
    /\ version >= 1
    /\ \/ /\ ActivateRuleVersion(c, version)
          /\ call' = [Overtaken(cl, c) EXCEPT ![cl] =
                        [step |-> "activated", contract |-> c, version |-> version,
                         overtaken |-> FALSE]]
       \/ ActivateUnknownVersion(c, version) /\ UNCHANGED call

(* The answer to an activation shows Rules(call[cl].contract).             *)
AnswerActivate(cl) ==
    /\ call[cl].step = "activated"
    /\ call' = [call EXCEPT ![cl] = Idle]
    /\ UNCHANGED vars

Oldest(items) == IF items = <<>> THEN 0 ELSE items[1].version

(* getRules                                                                *)
GetRules(cl, c) ==
    /\ call[cl] = Idle
    /\ call' = [call EXCEPT ![cl] =
                  ReadNext(c, [step |-> "reading", contract |-> c, rules |-> Unread,
                               history |-> Unread, oldest |-> Oldest(sets[c])])]
    /\ UNCHANGED vars

(* The answer shows ReadNext(call[cl].contract, call[cl]).                 *)
AnswerRules(cl) ==
    /\ call[cl].step = "reading"
    /\ call' = [call EXCEPT ![cl] = Idle]
    /\ UNCHANGED vars

APINext ==
    \E cl \in Clients :
        \/ \E c \in ContractIDs :
              \/ \E rules \in Policies : PostRules(cl, c, rules)
              \/ \E version \in 0 .. MaxVersion + 1 : PostActivate(cl, c, version)
              \/ GetRules(cl, c)
        \/ AnswerActivate(cl)
        \/ AnswerRules(cl)

APISpec == APIInit /\ [][APINext]_apiVars

-----------------------------------------------------------------------------
(* Properties                                                              *)

(* The answer of getRules explains itself although it reads twice: the     *)
(* rules it shows are those of a version in the history it shows, unless   *)
(* there was no policy at the first read or so many new ones came between  *)
(* the reads that the history has dropped a version.  Read the other way   *)
(* round, one update in between would do (server.go:224).                  *)
HistoryExplainsRules ==
    [][\A cl \in Clients : AnswerRules(cl) =>
          LET out == ReadNext(call[cl].contract, call[cl]) IN
          \/ out.oldest = 0
          \/ Oldest(out.history) > out.oldest
          \/ \E i \in DOMAIN out.history : InOrder(out.history[i].rules) = out.rules]_apiVars

(* The answer of activateRules shows the rules of the version it names     *)
(* unless another request has changed the policy after the activation; the *)
(* version may have been dropped from the history only in that case        *)
(* (server.go:236-240).                                                    *)
ActivationAnswered ==
    [][\A cl \in Clients : AnswerActivate(cl) /\ ~call[cl].overtaken =>
          \E i \in DOMAIN sets[call[cl].contract] :
              LET set == sets[call[cl].contract][i] IN
              /\ set.version = call[cl].version
              /\ Rules(call[cl].contract) = InOrder(set.rules)]_apiVars

(* No rule that is in force panics, whichever way it got there: SetRules   *)
(* validates it, an activation brings back a version that was validated    *)
(* long ago, and Execute compiles its pattern anew (model.go:44-48, 67).   *)
RulesNeverPanic ==
    \A c \in ContractIDs, payload \in Samples : \A i \in DOMAIN live[c] :
        ~Panics(live[c][i], payload)

(* A failure code names one rule: the summary of the detailed results      *)
(* lists the failures in the order of the ids, none twice, and exactly the *)
(* rules that validate reports when it runs the policy in the order in     *)
(* which it was sent (catalog.go:42-63, 72-94; service.go:155-163).        *)
EvaluationUnambiguous ==
    \A c \in ContractIDs, payload \in Samples :
        LET codes == EvaluateEvent(c, payload).failureCodes IN
        /\ \A i, j \in DOMAIN codes : i < j => RuleRank[codes[i]] < RuleRank[codes[j]]
        /\ {codes[i] : i \in DOMAIN codes} =
              {live[c][i].id : i \in {i \in DOMAIN live[c] :
                  live[c][i].enabled /\ ~Passes(live[c][i], payload)}}
=============================================================================
