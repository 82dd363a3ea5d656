--------------------------- MODULE IngestionProofs ---------------------------
(***************************************************************************)
(* Theorems about the ingestion service, for any number of goroutines,     *)
(* tenants, keys and requests and any limits: the quota bounds the rate of *)
(* admissions; receipts, attempts, lineages and dead letters tell one      *)
(* story however the goroutines interleave, and that story is only ever    *)
(* extended.                                                               *)
(***************************************************************************)
EXTENDS Ingestion, TLAPS, SequenceTheorems

-----------------------------------------------------------------------------
(* Lemmas on the maps and records of the model                             *)

(* The joined key of an event is a name.                                   *)
LEMMA SeenKeyType ==
    ASSUME NEW e \in Event
    PROVE  SeenKey(e) \in Names
  BY NameAssumption DEF Event, SeenKey, Names

(* BeginReplay and FinishReplay turn letters into letters.                 *)
LEMMA ReplayType ==
    ASSUME NEW l \in Letter, NEW ok \in BOOLEAN
    PROVE  BeginReplay(l) \in Letter /\ FinishReplay(l, ok) \in Letter
<1>1. BeginReplay(l) \in Letter
  <2>1. Append(l.audit, "replay_started") \in Seq(AuditActions)
    BY DEF Letter, AuditActions
  <2>2. l.attempts + 1 \in Nat /\ "replaying" \in LetterStates
    BY DEF Letter, LetterStates
  <2> QED BY <2>1, <2>2 DEF BeginReplay, Letter
<1>2. FinishReplay(l, ok) \in Letter
  <2>1. Append(l.audit, IF ok THEN "replay_succeeded" ELSE "replay_failed") \in Seq(AuditActions)
    BY DEF Letter, AuditActions
  <2>2. (CASE ok                         -> "replayed"
           [] ~ok /\ l.attempts >= l.max -> "poisoned"
           [] ~ok /\ l.attempts < l.max  -> "pending") \in LetterStates
    BY DEF Letter, LetterStates
  <2> QED BY <2>1, <2>2 DEF FinishReplay, Letter
<1> QED BY <1>1, <1>2

(* What Publish makes of a request is an event.                            *)
LEMMA ArrivedType ==
    ASSUME NEW r \in Requests, clock \in Nat, ids \in Nat
    PROVE  Arrived(r) \in Event
<1> DEFINE sig == IF r.signed THEN <<r.id, r.contract, r.key>> ELSE None
<1>1. /\ r.tenant \in Tenants /\ r.key \in Keys /\ r.id \in ClientIDs \cup {None}
      /\ r.contract \in ContractIDs \cup {None} /\ r.version \in Versions
      /\ r.payload \in Payloads /\ r.occurred \in Int \cup {None}
  BY RequestAssumption
<1>2. r.key \in Names
  BY <1>1, NameAssumption DEF Names
<1>3. sig \in Signatures
  BY <1>1 DEF Signatures
<1>4. (IF r.id = None THEN ids + 1 ELSE r.id) \in IDs
  BY <1>1 DEF IDs
<1>5. (IF r.occurred = None THEN clock ELSE r.occurred) \in Int
  BY <1>1
<1> HIDE DEF sig
<1>6. Arrived(r) = [id |-> IF r.id = None THEN ids + 1 ELSE r.id, tenant |-> r.tenant,
                    contract |-> r.contract, version |-> r.version, key |-> r.key,
                    payload |-> r.payload,
                    occurred |-> IF r.occurred = None THEN clock ELSE r.occurred,
                    received |-> clock, signature |-> sig]
  BY DEF Arrived, sig
<1> QED BY <1>1, <1>2, <1>3, <1>4, <1>5, <1>6 DEF Event

-----------------------------------------------------------------------------
(* Type correctness                                                        *)

(* Replay reads the event of a letter; that it is there is what makes the  *)
(* type invariant inductive.                                               *)
LetterEventsStored == \A l \in DOMAIN letters : letters[l].event \in DOMAIN events

(* The rules are read only for an event that names a contract.             *)
RulesNeedContract ==
    \A th \in Threads : job[th].step = "rules" => job[th].event.contract \in ContractIDs

TypeInv == TypeOK /\ LetterEventsStored /\ RulesNeedContract

(* A new service is well typed.                                            *)
LEMMA TypeInit == Init => TypeInv
<1> SUFFICES ASSUME Init PROVE TypeInv
  OBVIOUS
<1>1. IdleJob \in Job
  BY DEF IdleJob, Job, Steps
<1> QED
  BY <1>1 DEF Init, TypeInv, TypeOK, LetterEventsStored, RulesNeedContract, EmptyMap, IdleJob, Quota, Never

(* Publish up to its first lock keeps the types.                           *)
LEMMA ReceiveType ==
    ASSUME TypeInv, NEW th \in Threads, NEW r \in Requests, Receive(th, r)
    PROVE  TypeInv'
<1> USE DEF TypeInv, TypeOK
<1>1. Arrived(r) \in Event
  BY ArrivedType
<1> DEFINE started == [IdleJob EXCEPT !.step = "admit", !.event = Arrived(r), !.start = clock]
<1>2. started \in Job /\ started.event = Arrived(r) /\ started.step = "admit"
  BY <1>1 DEF IdleJob, Job, Steps
<1>3. job' = [job EXCEPT ![th] = started]
  BY DEF Receive
<1> HIDE DEF started
<1>4. job' \in [Threads -> Job] /\ \A x \in Threads : job'[x].step # "idle" => job'[x].event \in Event
  BY <1>1, <1>2, <1>3
<1>5. ids' \in Nat /\ requests' \in Nat
  BY DEF Receive
<1> QED
  BY <1>2, <1>3, <1>4, <1>5 DEF Receive, environment, service, LetterEventsStored, RulesNeedContract

(* A step that only moves a job from one place to another.                 *)
LEMMA ReturnType ==
    ASSUME TypeInv, NEW th \in Threads, NEW ok \in BOOLEAN,
           job[th].step # "idle", Return(th, ok)
    PROVE  /\ job' \in [Threads -> Job]
           /\ \A x \in Threads : job'[x].step # "idle" => job'[x].event \in Event
           /\ RulesNeedContract'
<1> USE DEF TypeInv, TypeOK, RulesNeedContract
<1>1. CASE job[th].letter = 0
  <2>1. IdleJob \in Job /\ IdleJob.step = "idle"
    BY DEF IdleJob, Job, Steps
  <2> QED BY <1>1, <2>1 DEF Return
<1>2. CASE job[th].letter # 0
  <2> DEFINE done == [job[th] EXCEPT !.step = "finish", !.ok = ok]
  <2>1. done \in Job /\ done.event = job[th].event /\ done.step = "finish"
    BY DEF Job, Steps
  <2>2. job' = [job EXCEPT ![th] = done]
    BY <1>2 DEF Return
  <2> QED BY <2>1, <2>2
<1> QED BY <1>1, <1>2

(* So does the answer to a duplicate,                                      *)
LEMMA DuplicateType ==
    ASSUME TypeInv, NEW th \in Threads, AnswerDuplicate(th)
    PROVE  TypeInv'
<1>1. Return(th, seen[SeenKey(job[th].event)].status = "accepted") /\ job[th].step # "idle"
  BY DEF AnswerDuplicate
<1>2. /\ job' \in [Threads -> Job]
      /\ \A x \in Threads : job'[x].step # "idle" => job'[x].event \in Event
      /\ RulesNeedContract'
  BY <1>1, ReturnType
<1> QED
  BY <1>2 DEF AnswerDuplicate, TypeInv, TypeOK, LetterEventsStored, environment, service

(* and the refusal by the quota.                                           *)
LEMMA RejectType ==
    ASSUME TypeInv, NEW th \in Threads, RejectQuota(th)
    PROVE  TypeInv'
<1>1. Return(th, FALSE) /\ job[th].step # "idle"
  BY DEF RejectQuota
<1>2. /\ job' \in [Threads -> Job]
      /\ \A x \in Threads : job'[x].step # "idle" => job'[x].event \in Event
      /\ RulesNeedContract'
  BY <1>1, ReturnType
<1> QED
  BY <1>2 DEF RejectQuota, TypeInv, TypeOK, LetterEventsStored, environment, service

(* The window that a request is charged to.                                *)
LEMMA WindowType ==
    ASSUME NEW q \in Quota, NEW now \in Nat
    PROVE  CurrentWindow(q, now) \in Quota /\ CurrentWindow(q, now).start \in Nat
  BY DEF CurrentWindow, Quota, Never

(* A step that changes the place of a job and its reasons.                 *)
LEMMA StepType ==
    ASSUME TypeInv, NEW th \in Threads, job[th].step # "idle",
           NEW step \in Steps, NEW reasons \in SUBSET Reasons,
           job' = [job EXCEPT ![th] = [@ EXCEPT !.step = step, !.reasons = reasons]]
    PROVE  /\ job' \in [Threads -> Job]
           /\ \A x \in Threads : job'[x].step # "idle" => job'[x].event \in Event
<1> USE DEF TypeInv, TypeOK
<1> DEFINE next == [job[th] EXCEPT !.step = step, !.reasons = reasons]
<1>1. next \in Job /\ next.event = job[th].event
  BY DEF Job
<1>2. job' = [job EXCEPT ![th] = next]
  OBVIOUS
<1> QED BY <1>1, <1>2

(* An admission charges a well-typed quota.                                *)
LEMMA AdmitType ==
    ASSUME TypeInv, NEW th \in Threads, Admit(th)
    PROVE  TypeInv'
<1> USE DEF TypeInv, TypeOK
<1> DEFINE e == job[th].event
           q == CurrentWindow(usage[e.tenant], job[th].start)
<1>1. e \in Event /\ e.tenant \in Tenants /\ job[th].start \in Nat
  BY DEF Admit, Event, Job
<1>2. q \in Quota /\ q.start \in Nat
  BY <1>1, WindowType
<1> DEFINE charged == [q EXCEPT !.count = q.count + 1]
<1>3. charged \in Quota
  BY <1>2 DEF Quota
<1>4. usage' = [usage EXCEPT ![e.tenant] = charged]
  BY DEF Admit
<1>5. granted' = [granted EXCEPT ![e.tenant] = Append(@, q.start)]
  BY DEF Admit
<1>6. job' = [job EXCEPT ![th].step = "lookup"]
  BY DEF Admit
<1>7. /\ job' \in [Threads -> Job]
      /\ \A x \in Threads : job'[x].step # "idle" => job'[x].event \in Event
      /\ RulesNeedContract'
  <2>1. [job[th] EXCEPT !.step = "lookup"] \in Job
    BY DEF Job, Steps
  <2> QED BY <1>1, <1>6, <2>1 DEF Job, RulesNeedContract
<1> HIDE DEF q, charged
<1>8. usage' \in [Tenants -> Quota]
  BY <1>1, <1>3, <1>4
<1>9. granted' \in [Tenants -> Seq(Nat)]
  BY <1>1, <1>2, <1>5
<1> QED
  BY <1>7, <1>8, <1>9 DEF Admit, environment, service, LetterEventsStored

(* validate yields reasons, and goes on to the rules only for an event     *)
(* with a contract.                                                        *)
LEMMA LookupType ==
    ASSUME TypeInv, NEW th \in Threads, Lookup(th)
    PROVE  TypeInv'
<1> USE DEF TypeInv, TypeOK
<1>1. \E step \in Steps, found \in SUBSET Reasons :
         /\ job' = [job EXCEPT ![th] = [@ EXCEPT !.step = step, !.reasons = found]]
         /\ step = "rules" => job[th].event.contract # None
  <2>1. EnvelopeReasons(job[th].event) \in SUBSET Reasons
    BY DEF EnvelopeReasons, Reasons
  <2>2. SchemaReasons(job[th].event) \in SUBSET Reasons
    BY DEF SchemaReasons, Reasons
  <2> QED BY <2>1, <2>2 DEF Lookup, Steps, Reasons
<1>2. job[th].step # "idle" /\ job[th].event \in Event
  BY DEF Lookup
<1>3. /\ job' \in [Threads -> Job]
      /\ \A x \in Threads : job'[x].step # "idle" => job'[x].event \in Event
  BY <1>1, <1>2, StepType
<1>4. RulesNeedContract'
  BY <1>1, <1>2 DEF RulesNeedContract, Event, Job
<1> QED
  BY <1>3, <1>4 DEF Lookup, environment, service, LetterEventsStored

(* The rules of the contract add reasons.                                  *)
LEMMA SnapshotRulesType ==
    ASSUME TypeInv, NEW th \in Threads, SnapshotRules(th)
    PROVE  TypeInv'
<1> DEFINE found == job[th].reasons \cup RuleReasons(job[th].event)
<1>1. found \in SUBSET Reasons
  <2>1. job[th].event.contract \in ContractIDs /\ job[th].reasons \in SUBSET Reasons
    BY DEF SnapshotRules, TypeInv, TypeOK, RulesNeedContract, Job
  <2>2. rules[job[th].event.contract] \subseteq Rules
    BY <2>1 DEF TypeInv, TypeOK
  <2>3. RuleReasons(job[th].event) \subseteq RuleIDs
    BY <2>2, RuleAssumption DEF RuleReasons
  <2> QED BY <2>1, <2>3 DEF Reasons
<1>2. job' = [job EXCEPT ![th] = [@ EXCEPT !.step = "commit", !.reasons = found]]
  BY DEF SnapshotRules
<1> HIDE DEF found
<1>3. job[th].step # "idle" /\ "commit" \in Steps
  BY DEF SnapshotRules, Steps
<1>4. /\ job' \in [Threads -> Job]
      /\ \A x \in Threads : job'[x].step # "idle" => job'[x].event \in Event
  BY <1>1, <1>2, <1>3, StepType
<1>5. RulesNeedContract'
  BY <1>2 DEF TypeInv, TypeOK, RulesNeedContract
<1> QED
  BY <1>4, <1>5 DEF SnapshotRules, TypeInv, TypeOK, environment, service, LetterEventsStored

(* What Publish records is well typed, and a new letter names a stored     *)
(* event.                                                                  *)
LEMMA CommitType ==
    ASSUME TypeInv, NEW th \in Threads, Commit(th)
    PROVE  TypeInv'
<1> DEFINE e       == job[th].event
           reasons == job[th].reasons
           status  == StatusOf(reasons)
           failed  == status = "dead_lettered"
           attempt == [id |-> ids + 1, status |-> status, reasons |-> reasons]
           receipt == [event |-> e.id, status |-> status, attempt |-> ids + 1,
                       reasons |-> reasons]
           entry   == [sent |-> e, attempt |-> ids + 1, status |-> status, reasons |-> reasons,
                       letter |-> IF failed THEN ids + 2 ELSE 0,
                       replayOf |-> job[th].letter]
           lineage == [contract |-> e.contract, attempts |-> <<attempt>>]
<1>1. /\ e \in Event /\ reasons \in SUBSET Reasons /\ ids \in Nat
      /\ job[th].letter \in Nat /\ job[th].step # "idle"
  BY DEF TypeInv, TypeOK, Commit, Job
<1>2. status \in Statuses
  BY DEF StatusOf, Statuses
<1>3. attempt \in Attempt /\ receipt \in Receipt
  BY <1>1, <1>2 DEF Attempt, Receipt, Event
<1>4. entry \in LogEntry
  BY <1>1, <1>2 DEF LogEntry
<1>5. NewLetter(e) \in Letter /\ NewLetter(e).event = e.id
  BY <1>1, LimitAssumption DEF NewLetter, Letter, Event, LetterStates, AuditActions
<1>6. lineage \in Lineage
  BY <1>1, <1>3 DEF Lineage, Event
<1>7. e.id \in IDs /\ SeenKey(e) \in Names
  BY <1>1, SeenKeyType DEF Event
<1>8. /\ events' = Put(events, e.id, e)
      /\ seen' = Put(seen, SeenKey(e), receipt)
      /\ attempts' = AttemptsWith(e.id, attempt)
      /\ letters' = LettersWith(e, failed, ids + 2)
      /\ lineages' = Put(lineages, e.id, lineage)
      /\ ids' = ids + IF failed THEN 2 ELSE 1
      /\ log' = log \cup {entry}
      /\ Return(th, ~failed)
      /\ UNCHANGED <<environment, usage, requests, granted>>
  BY DEF Commit, LineagesWith
<1> HIDE DEF e, reasons, status, failed, attempt, receipt, entry, lineage
<1>9. events' \in [DOMAIN events' -> Event] /\ DOMAIN events' = DOMAIN events \cup {e.id}
  <2>1. events \in [DOMAIN events -> Event]
    BY DEF TypeInv, TypeOK
  <2> QED BY <1>8, <1>1, <2>1 DEF Put
<1>10. seen' \in [DOMAIN seen' -> Receipt] /\ DOMAIN seen' = DOMAIN seen \cup {SeenKey(e)}
  <2>1. seen \in [DOMAIN seen -> Receipt]
    BY DEF TypeInv, TypeOK
  <2> QED BY <1>8, <1>3, <2>1 DEF Put
<1>11. lineages' \in [DOMAIN lineages' -> Lineage] /\ DOMAIN lineages' = DOMAIN lineages \cup {e.id}
  <2>1. lineages \in [DOMAIN lineages -> Lineage]
    BY DEF TypeInv, TypeOK
  <2> QED BY <1>8, <1>6, <2>1 DEF Put
<1>12. /\ attempts' \in [DOMAIN attempts' -> Seq(Attempt)]
       /\ DOMAIN attempts' = DOMAIN attempts \cup {e.id}
  <2> DEFINE before == IF e.id \in DOMAIN attempts THEN attempts[e.id] ELSE <<>>
  <2>1. before \in Seq(Attempt)
    BY DEF TypeInv, TypeOK
  <2>2. Append(before, attempt) \in Seq(Attempt)
    BY <2>1, <1>3
  <2>3. attempts' = Put(attempts, e.id, Append(before, attempt))
    BY <1>8 DEF AttemptsWith
  <2>4. attempts \in [DOMAIN attempts -> Seq(Attempt)]
    BY DEF TypeInv, TypeOK
  <2> HIDE DEF before
  <2> QED BY <2>2, <2>3, <2>4 DEF Put
<1>13. /\ letters' \in [DOMAIN letters' -> Letter] /\ DOMAIN letters' \subseteq Nat \ {0}
       /\ LetterEventsStored'
  <2>1. CASE failed
    <3>1. letters' = Put(letters, ids + 2, NewLetter(e))
      BY <1>8, <2>1 DEF LettersWith
    <3>2. letters' \in [DOMAIN letters' -> Letter] /\ DOMAIN letters' = DOMAIN letters \cup {ids + 2}
      <4>1. letters \in [DOMAIN letters -> Letter]
        BY DEF TypeInv, TypeOK
      <4> QED BY <1>5, <3>1, <4>1 DEF Put
    <3>3. LetterEventsStored'
      BY <1>5, <1>9, <3>1 DEF LetterEventsStored, TypeInv, Put
    <3> QED BY <1>1, <3>2, <3>3 DEF TypeInv, TypeOK
  <2>2. CASE ~failed
    BY <1>8, <1>9, <2>2 DEF LettersWith, TypeInv, TypeOK, LetterEventsStored
  <2> QED BY <2>1, <2>2
<1>14. /\ job' \in [Threads -> Job]
       /\ \A x \in Threads : job'[x].step # "idle" => job'[x].event \in Event
       /\ RulesNeedContract'
  BY <1>1, <1>8, ReturnType
<1>15. ids' \in Nat /\ log' \subseteq LogEntry
  BY <1>1, <1>4, <1>8 DEF TypeInv, TypeOK
<1> QED
  BY <1>7, <1>8, <1>9, <1>10, <1>11, <1>12, <1>13, <1>14, <1>15
     DEF TypeInv, TypeOK, environment

(* Replay sends in the stored event of the letter.                         *)
LEMMA ReplayBeginType ==
    ASSUME TypeInv, NEW th \in Threads, NEW l \in DOMAIN letters, ReplayBegin(th, l)
    PROVE  TypeInv'
<1> DEFINE e == events[letters[l].event]
           again == [e EXCEPT !.key = <<ids + 1>>, !.received = clock]
           started == [IdleJob EXCEPT !.step = "admit", !.event = again, !.start = clock,
                                      !.letter = l]
<1>1. letters[l] \in Letter /\ l \in Nat /\ ids \in Nat /\ clock \in Nat
  BY DEF TypeInv, TypeOK
<1>2. e \in Event
  BY DEF TypeInv, TypeOK, LetterEventsStored
<1>3. again \in Event
  <2>1. <<ids + 1>> \in Names
    BY <1>1 DEF Names
  <2> QED BY <1>1, <1>2, <2>1 DEF Event
<1>4. job' = [job EXCEPT ![th] = started] /\ ids' = ids + 1 /\ requests' = requests + 1
  BY DEF ReplayBegin
<1>5. letters' = [letters EXCEPT ![l] = BeginReplay(letters[l])]
  BY DEF ReplayBegin
<1> HIDE DEF e, again
<1>6. started \in Job /\ started.event = again /\ started.step = "admit"
  BY <1>1, <1>3 DEF IdleJob, Job, Steps
<1> HIDE DEF started
<1>7. /\ job' \in [Threads -> Job]
      /\ \A x \in Threads : job'[x].step # "idle" => job'[x].event \in Event
      /\ RulesNeedContract'
  BY <1>3, <1>4, <1>6 DEF TypeInv, TypeOK, RulesNeedContract
<1>8. BeginReplay(letters[l]) \in Letter
  BY <1>1, ReplayType
<1>9. BeginReplay(letters[l]).event = letters[l].event
  BY <1>1 DEF BeginReplay, Letter
<1>10. letters' \in [DOMAIN letters' -> Letter] /\ DOMAIN letters' = DOMAIN letters
  BY <1>5, <1>8 DEF TypeInv, TypeOK
<1>11. LetterEventsStored'
  BY <1>5, <1>9, <1>10 DEF TypeInv, LetterEventsStored, ReplayBegin
<1> QED
  BY <1>1, <1>4, <1>7, <1>10, <1>11 DEF ReplayBegin, TypeInv, TypeOK, environment

(* The end of a replay keeps the letter a letter.                          *)
LEMMA ReplayFinishType ==
    ASSUME TypeInv, NEW th \in Threads, ReplayFinish(th)
    PROVE  TypeInv'
<1> DEFINE l == job[th].letter
           finished == FinishReplay(letters[l], job[th].ok)
<1>1. letters' = [letters EXCEPT ![l] = finished] /\ job' = [job EXCEPT ![th] = IdleJob]
  BY DEF ReplayFinish
<1>2. job[th].ok \in BOOLEAN
  BY DEF TypeInv, TypeOK, Job
<1>3. l \in DOMAIN letters => finished \in Letter /\ finished.event = letters[l].event
  <2> SUFFICES ASSUME l \in DOMAIN letters
               PROVE  finished \in Letter /\ finished.event = letters[l].event
    OBVIOUS
  <2>1. letters[l] \in Letter
    BY DEF TypeInv, TypeOK
  <2> QED BY <1>2, <2>1, ReplayType DEF FinishReplay, Letter
<1> HIDE DEF l, finished
<1>4. letters' \in [DOMAIN letters' -> Letter] /\ DOMAIN letters' = DOMAIN letters
  BY <1>1, <1>3 DEF TypeInv, TypeOK
<1>5. LetterEventsStored'
  BY <1>1, <1>3, <1>4 DEF TypeInv, LetterEventsStored, ReplayFinish
<1>6. IdleJob \in Job /\ IdleJob.step = "idle"
  BY DEF IdleJob, Job, Steps
<1>7. /\ job' \in [Threads -> Job]
      /\ \A x \in Threads : job'[x].step # "idle" => job'[x].event \in Event
      /\ RulesNeedContract'
  BY <1>1, <1>6 DEF TypeInv, TypeOK, RulesNeedContract
<1> QED
  BY <1>4, <1>5, <1>7 DEF ReplayFinish, TypeInv, TypeOK, environment

(* Every step keeps the strengthened type invariant.                       *)
LEMMA TypeStep == TypeInv /\ [Next]_vars => TypeInv'
<1> SUFFICES ASSUME TypeInv, [Next]_vars PROVE TypeInv'
  OBVIOUS
<1>1. CASE \E th \in Threads, r \in Requests : Receive(th, r)
  BY <1>1, ReceiveType
<1>2. CASE \E th \in Threads, l \in DOMAIN letters : ReplayBegin(th, l)
  BY <1>2, ReplayBeginType
<1>3. CASE \E th \in Threads : ThreadStep(th)
  BY <1>3, DuplicateType, RejectType, AdmitType, LookupType, SnapshotRulesType, CommitType,
     ReplayFinishType DEF ThreadStep
<1>4. CASE \E k \in StoreKeys, published \in Publications : RegistryChanges(k, published)
  BY <1>4 DEF RegistryChanges, TypeInv, TypeOK, LetterEventsStored, RulesNeedContract, service
<1>5. CASE \E c \in ContractIDs, enabled \in SUBSET Rules : RulesChange(c, enabled)
  BY <1>5 DEF RulesChange, TypeInv, TypeOK, LetterEventsStored, RulesNeedContract, service
<1>6. CASE Tick
  BY <1>6 DEF Tick, TypeInv, TypeOK, LetterEventsStored, RulesNeedContract, service
<1>7. CASE UNCHANGED vars
  BY <1>7 DEF vars, TypeInv, TypeOK, LetterEventsStored, RulesNeedContract
<1> QED BY <1>1, <1>2, <1>3, <1>4, <1>5, <1>6, <1>7 DEF Next

(* The strengthened type invariant holds always.                           *)
LEMMA TypeInvariant == Spec => []TypeInv
  BY TypeInit, TypeStep, PTL DEF Spec

(* The service's maps, the quota windows and the local state of every      *)
(* goroutine keep their types in every execution; in particular Replay     *)
(* never reads an event that is not there (service.go:209).                *)
THEOREM IngestionTypes == Spec => []TypeOK
<1>1. TypeInv => TypeOK
  BY DEF TypeInv
<1> QED BY <1>1, TypeInvariant, PTL

-----------------------------------------------------------------------------
(* The quota                                                               *)

(* What a tenant's window says about the admissions granted so far: the    *)
(* last count of them were charged to the current window, all the others   *)
(* to windows that started at least Window before it.                      *)
Accounts(g, q) ==
    /\ q.count <= MaxQuota /\ q.count <= Len(g)
    /\ q.start = Never => Len(g) = 0
    /\ \A i \in 1 .. Len(g) : i > Len(g) - q.count => g[i] = q.start
    /\ \A i \in 1 .. Len(g) : i <= Len(g) - q.count => q.start - g[i] >= Window

Spread(g) ==
    \A i \in DOMAIN g : i + MaxQuota \in DOMAIN g => g[i + MaxQuota] - g[i] >= Window

QuotaInv == \A t \in Tenants : Accounts(granted[t], usage[t]) /\ Spread(granted[t])

(* Moving on to a new window keeps the account.                            *)
LEMMA NewWindow ==
    ASSUME NEW g \in Seq(Nat), NEW q \in Quota, NEW now \in Nat, Accounts(g, q)
    PROVE  Accounts(g, CurrentWindow(q, now))
<1>1. CASE q.start # Never /\ now - q.start < Window
  BY <1>1, WindowAssumption DEF CurrentWindow, Quota, Never
<1>2. CASE q.start = Never
  BY <1>2, QuotaAssumption DEF CurrentWindow, Accounts, Never
<1>3. CASE q.start # Never /\ now - q.start >= Window
  <2>1. CurrentWindow(q, now) = [start |-> now, count |-> 0]
    BY <1>3 DEF CurrentWindow
  <2>2. q.start \in Nat /\ q.count \in Nat
    BY <1>3 DEF Quota
  <2>3. ASSUME NEW i \in 1 .. Len(g)
        PROVE  now - g[i] >= Window
    <3>1. g[i] \in Nat
      BY <2>3
    <3>2. g[i] = q.start \/ q.start - g[i] >= Window
      BY <2>2, <2>3 DEF Accounts
    <3> QED BY <1>3, <2>2, <3>1, <3>2, WindowAssumption
  <2> QED BY <2>1, <2>3, QuotaAssumption DEF Accounts, Never
<1> QED BY <1>1, <1>2, <1>3, WindowAssumption DEF Quota

(* Charging one more admission to a window that has room keeps the account *)
(* and the distance.                                                       *)
LEMMA Charge ==
    ASSUME NEW g \in Seq(Nat), NEW q \in Quota, q.start \in Nat, q.count < MaxQuota,
           Accounts(g, q), Spread(g)
    PROVE  /\ Accounts(Append(g, q.start), [q EXCEPT !.count = q.count + 1])
           /\ Spread(Append(g, q.start))
<1> DEFINE h == Append(g, q.start)
           r == [q EXCEPT !.count = q.count + 1]
<1>1. q.count \in Nat /\ MaxQuota \in Nat \ {0} /\ Window \in Nat \ {0}
  BY QuotaAssumption, WindowAssumption DEF Quota
<1>2. /\ h \in Seq(Nat) /\ Len(h) = Len(g) + 1 /\ DOMAIN h = 1 .. Len(h)
      /\ h[Len(g) + 1] = q.start
      /\ \A i \in 1 .. Len(g) : h[i] = g[i]
  OBVIOUS
<1>3. r.start = q.start /\ r.count = q.count + 1
  BY DEF Quota
<1> HIDE DEF h, r
<1>4. Accounts(h, r)
  <2>1. r.count <= MaxQuota /\ r.count <= Len(h) /\ r.start # Never
    <3>1. q.count <= Len(g) /\ Len(g) \in Nat
      BY DEF Accounts
    <3>2. r.start # Never
      BY <1>3 DEF Never
    <3> QED BY <1>1, <1>2, <1>3, <3>1, <3>2
  <2>2. ASSUME NEW i \in 1 .. Len(h)
        PROVE  /\ i > Len(h) - r.count => h[i] = r.start
               /\ i <= Len(h) - r.count => r.start - h[i] >= Window
    <3>1. Len(h) - r.count = Len(g) - q.count
      BY <1>1, <1>2, <1>3
    <3>2. CASE i = Len(g) + 1
      BY <1>1, <1>2, <1>3, <3>1, <3>2
    <3>3. CASE i # Len(g) + 1
      <4>1. i \in 1 .. Len(g) /\ h[i] = g[i]
        BY <1>2, <2>2, <3>3
      <4> QED BY <1>3, <3>1, <4>1 DEF Accounts
    <3> QED BY <3>2, <3>3
  <2> QED BY <2>1, <2>2 DEF Accounts
<1>5. ASSUME NEW i \in DOMAIN h, i + MaxQuota \in DOMAIN h
      PROVE  h[i + MaxQuota] - h[i] >= Window
  <2>1. i \in 1 .. Len(g)
    BY <1>1, <1>2, <1>5
  <2>2. CASE i + MaxQuota \in 1 .. Len(g)
    <3>1. i \in DOMAIN g /\ i + MaxQuota \in DOMAIN g
      BY <2>1, <2>2
    <3>2. g[i + MaxQuota] - g[i] >= Window
      BY <3>1 DEF Spread
    <3> QED BY <1>2, <2>1, <2>2, <3>2
  <2>3. CASE i + MaxQuota = Len(g) + 1
    <3>1. i <= Len(g) - q.count
      BY <1>1, <2>1, <2>3
    <3>2. q.start - g[i] >= Window
      BY <2>1, <3>1 DEF Accounts
    <3> QED BY <1>2, <2>1, <2>3, <3>2
  <2> QED BY <1>1, <1>2, <1>5, <2>1, <2>2, <2>3
<1> QED BY <1>4, <1>5 DEF h, r, Spread

(* Nothing is charged to begin with.                                       *)
LEMMA QuotaInit == Init => QuotaInv
  BY QuotaAssumption DEF Init, QuotaInv, Accounts, Spread

(* An admission keeps the account of the tenant it charges, and of the     *)
(* others.                                                                 *)
LEMMA AdmitQuota ==
    ASSUME TypeInv, QuotaInv, NEW th \in Threads, Admit(th)
    PROVE  QuotaInv'
<1> DEFINE t == job[th].event.tenant
           q == CurrentWindow(usage[t], job[th].start)
           r == [q EXCEPT !.count = q.count + 1]
<1>1. t \in Tenants /\ job[th].start \in Nat /\ granted[t] \in Seq(Nat) /\ usage[t] \in Quota
  BY DEF TypeInv, TypeOK, Admit, Event, Job
<1>2. q \in Quota /\ q.start \in Nat
  BY <1>1, WindowType
<1>3. q.count < MaxQuota
  <2>1. ~ QuotaExhausted(q)
    BY DEF Admit
  <2> HIDE DEF q
  <2>2. q.count \in Nat
    BY <1>2 DEF Quota
  <2> QED BY <2>1, <2>2, QuotaAssumption DEF QuotaExhausted
<1>4. Accounts(granted[t], q) /\ Spread(granted[t])
  BY <1>1, NewWindow DEF QuotaInv
<1>5. /\ usage' = [usage EXCEPT ![t] = r]
      /\ granted' = [granted EXCEPT ![t] = Append(granted[t], q.start)]
  BY DEF Admit
<1>6. Accounts(Append(granted[t], q.start), r) /\ Spread(Append(granted[t], q.start))
  <2> HIDE DEF q, t
  <2> QED BY <1>1, <1>2, <1>3, <1>4, Charge
<1> HIDE DEF t, q, r
<1> QED BY <1>1, <1>5, <1>6 DEF QuotaInv, TypeInv, TypeOK

(* No other step touches the accounts.                                     *)
LEMMA QuotaStep == TypeInv /\ QuotaInv /\ [Next]_vars => QuotaInv'
<1> SUFFICES ASSUME TypeInv, QuotaInv, [Next]_vars PROVE QuotaInv'
  OBVIOUS
<1>1. CASE \E th \in Threads : Admit(th)
  BY <1>1, AdmitQuota
<1>2. CASE UNCHANGED <<usage, granted>>
  BY <1>2 DEF QuotaInv
<1>3. (\E th \in Threads : Admit(th)) \/ UNCHANGED <<usage, granted>>
  BY DEF Next, ThreadStep, Receive, ReplayBegin, AnswerDuplicate, RejectQuota, Lookup,
         SnapshotRules, Commit, ReplayFinish, RegistryChanges, RulesChange, Tick, vars
<1> QED BY <1>1, <1>2, <1>3

(* The accounts are right always.                                          *)
LEMMA QuotaInvariant == Spec => []QuotaInv
  BY QuotaInit, QuotaStep, TypeInvariant, PTL DEF Spec

(* The tenant quota limits the rate of admissions whatever the goroutines  *)
(* do between reading the clock and taking the mutex: of any MaxQuota + 1  *)
(* consecutive admissions of a tenant the last is charged at least Window  *)
(* after the first (service.go:106-117).                                   *)
THEOREM QuotaLimitsRate == Spec => []QuotaSpread
<1>1. QuotaInv => QuotaSpread
  BY DEF QuotaInv, Spread, QuotaSpread
<1> QED BY <1>1, QuotaInvariant, PTL

(* No request is refused for another tenant's traffic, or for traffic of   *)
(* its own tenant that is a Window away (service.go:111).                  *)
THEOREM RefusalsJustified == Spec => RefusalJustified
<1> DEFINE Justified ==
      \A th \in Threads : RejectQuota(th) =>
          LET g == granted[job[th].event.tenant] IN
          /\ Len(g) >= MaxQuota
          /\ job[th].start - g[Len(g) - MaxQuota + 1] < Window
<1>1. TypeInv /\ QuotaInv => Justified
  <2> SUFFICES ASSUME TypeInv, QuotaInv, NEW th \in Threads, RejectQuota(th)
               PROVE  LET g == granted[job[th].event.tenant] IN
                      /\ Len(g) >= MaxQuota
                      /\ job[th].start - g[Len(g) - MaxQuota + 1] < Window
    BY DEF Justified
  <2> DEFINE t == job[th].event.tenant
  <2>1. t \in Tenants /\ job[th].start \in Nat /\ granted[t] \in Seq(Nat) /\ usage[t] \in Quota
    BY DEF TypeInv, TypeOK, RejectQuota, Event, Job
  <2>2. Accounts(granted[t], usage[t])
    BY <2>1 DEF QuotaInv
  <2>3. usage[t].count >= MaxQuota /\ job[th].start - usage[t].start < Window
    BY <2>1, QuotaAssumption, WindowAssumption
       DEF RejectQuota, QuotaExhausted, CurrentWindow, Quota, Never
  <2> HIDE DEF t
  <2>4. usage[t].count = MaxQuota /\ Len(granted[t]) >= MaxQuota
    BY <2>1, <2>2, <2>3, QuotaAssumption DEF Accounts, Quota
  <2>5. granted[t][Len(granted[t]) - MaxQuota + 1] = usage[t].start
    <3> DEFINE i == Len(granted[t]) - MaxQuota + 1
    <3>1. i \in 1 .. Len(granted[t]) /\ i > Len(granted[t]) - usage[t].count
      BY <2>1, <2>4, QuotaAssumption
    <3> QED BY <2>2, <3>1 DEF Accounts
  <2> QED BY <2>3, <2>4, <2>5 DEF t
<1> HIDE DEF Justified
<1>2. TypeInv /\ QuotaInv => [Justified]_vars
  BY <1>1
<1>3. Spec => [][Justified]_vars
  BY <1>2, TypeInvariant, QuotaInvariant, PTL
<1> QED BY <1>3 DEF RefusalJustified, Justified

-----------------------------------------------------------------------------
(* Lemmas on maps and sequences                                            *)

(* What append leaves: the old sequence as a prefix, the new element last. *)
LEMMA AppendFacts ==
    ASSUME NEW S, NEW s \in Seq(S), NEW x \in S
    PROVE  /\ Len(Append(s, x)) = Len(s) + 1 /\ Append(s, x) # <<>>
           /\ Append(s, x)[Len(s) + 1] = x
           /\ \A i \in 1 .. Len(s) : Append(s, x)[i] = s[i]
           /\ s = SubSeq(Append(s, x), 1, Len(s))
<1>1. /\ Len(Append(s, x)) = Len(s) + 1 /\ Append(s, x) # <<>>
      /\ Append(s, x)[Len(s) + 1] = x
      /\ \A i \in 1 .. Len(s) : Append(s, x)[i] = s[i]
  BY AppendProperties
<1>2. s = SubSeq(Append(s, x), 1, Len(s))
  <2> DEFINE t == SubSeq(Append(s, x), 1, Len(s))
  <2>1. \A i \in 1 .. Len(s) : Append(s, x)[i] \in S
    BY <1>1, ElementOfSeq
  <2>2. /\ t \in Seq(S) /\ Len(t) = Len(s)
        /\ \A i \in 1 .. Len(s) : t[i] = s[i]
    BY <1>1, <2>1, SubSeqProperties, LenProperties
  <2> HIDE DEF t
  <2>3. s = t
    BY <2>2, SeqEqual
  <2> QED BY <2>3 DEF t
<1> QED BY <1>1, <1>2

-----------------------------------------------------------------------------
(* What a Commit writes                                                    *)

AttemptOf(x) == [id |-> x.attempt, status |-> x.status, reasons |-> x.reasons]

ReceiptOf(x) == [event |-> x.sent.id, status |-> x.status, attempt |-> x.attempt,
                 reasons |-> x.reasons]

Failure(x) == x.status = "dead_lettered"

(* The step that writes down the attempt x, in every map of the service.   *)
Records(x) ==
    /\ x \in LogEntry
    /\ x.attempt = ids + 1
    /\ x.letter = IF Failure(x) THEN ids + 2 ELSE 0
    /\ log' = log \cup {x}
    /\ events' = Put(events, x.sent.id, x.sent)
    /\ seen' = Put(seen, SeenKey(x.sent), ReceiptOf(x))
    /\ attempts' = AttemptsWith(x.sent.id, AttemptOf(x))
    /\ lineages' = LineagesWith(x.sent, AttemptOf(x))
    /\ letters' = LettersWith(x.sent, Failure(x), x.letter)
    /\ ids' = ids + IF Failure(x) THEN 2 ELSE 1

(* A Commit records one attempt.                                           *)
LEMMA CommitRecords ==
    ASSUME TypeInv, NEW th \in Threads, Commit(th)
    PROVE  \E x \in LogEntry : /\ Records(x)
                               /\ x.sent = job[th].event /\ x.replayOf = job[th].letter
                               /\ Return(th, ~Failure(x))
<1> DEFINE status == StatusOf(job[th].reasons)
           x == [sent |-> job[th].event, attempt |-> ids + 1, status |-> status,
                 reasons |-> job[th].reasons,
                 letter |-> IF status = "dead_lettered" THEN ids + 2 ELSE 0,
                 replayOf |-> job[th].letter]
<1>1. x \in LogEntry
  <2>1. /\ job[th].event \in Event /\ job[th].reasons \in SUBSET Reasons
        /\ ids \in Nat /\ job[th].letter \in Nat
    BY DEF TypeInv, TypeOK, Commit, Job
  <2>2. status \in Statuses
    BY DEF StatusOf, Statuses
  <2> HIDE DEF status
  <2> QED BY <2>1, <2>2 DEF LogEntry
<1>2. Records(x) /\ Return(th, ~Failure(x))
  BY <1>1 DEF Records, Failure, AttemptOf, ReceiptOf, Commit, LettersWith
<1> QED BY <1>1, <1>2

(* No other step records anything.                                         *)
LEMMA OnlyCommitRecords ==
    ASSUME [Next]_vars
    PROVE  (\E th \in Threads : Commit(th)) \/ UNCHANGED <<seen, events, attempts, lineages, log>>
<1>1. ASSUME NEW th \in Threads,
             \/ AnswerDuplicate(th) \/ RejectQuota(th) \/ Admit(th) \/ Lookup(th)
             \/ SnapshotRules(th) \/ ReplayFinish(th)
      PROVE  UNCHANGED <<seen, events, attempts, lineages, log>>
  BY <1>1 DEF AnswerDuplicate, RejectQuota, Admit, Lookup, SnapshotRules, ReplayFinish, service
<1>2. ASSUME \/ \E th \in Threads, r \in Requests : Receive(th, r)
             \/ \E th \in Threads, l \in DOMAIN letters : ReplayBegin(th, l)
             \/ \E k \in StoreKeys, published \in Publications : RegistryChanges(k, published)
             \/ \E c \in ContractIDs, enabled \in SUBSET Rules : RulesChange(c, enabled)
             \/ Tick
             \/ UNCHANGED vars
      PROVE  UNCHANGED <<seen, events, attempts, lineages, log>>
  BY <1>2 DEF Receive, ReplayBegin, RegistryChanges, RulesChange, Tick, service, vars
<1> QED BY <1>1, <1>2 DEF Next, ThreadStep

-----------------------------------------------------------------------------
(* Receipts, attempts and lineages                                         *)

StoresAgree == ReceiptsBacked /\ LineageIsCurrent

(* An empty service tells a consistent story.                              *)
LEMMA StoresInit == Init => StoresAgree
  BY DEF Init, StoresAgree, ReceiptsBacked, LineageIsCurrent, EmptyMap

(* The attempts of an event after one more.                                *)
LEMMA AttemptsGrow ==
    ASSUME TypeInv, NEW x, Records(x)
    PROVE  /\ DOMAIN attempts' = DOMAIN attempts \cup {x.sent.id}
           /\ \A id \in DOMAIN attempts : id # x.sent.id => attempts'[id] = attempts[id]
           /\ attempts'[x.sent.id] # <<>>
           /\ Len(attempts'[x.sent.id]) \in DOMAIN attempts'[x.sent.id]
           /\ attempts'[x.sent.id][Len(attempts'[x.sent.id])] = AttemptOf(x)
           /\ x.sent.id \in DOMAIN attempts =>
                 /\ Len(attempts[x.sent.id]) \in 0 .. Len(attempts'[x.sent.id])
                 /\ attempts[x.sent.id] = SubSeq(attempts'[x.sent.id], 1, Len(attempts[x.sent.id]))
                 /\ \A i \in DOMAIN attempts[x.sent.id] :
                       /\ i \in DOMAIN attempts'[x.sent.id]
                       /\ attempts'[x.sent.id][i] = attempts[x.sent.id][i]
<1> DEFINE id == x.sent.id
           before == IF id \in DOMAIN attempts THEN attempts[id] ELSE <<>>
           after == Append(before, AttemptOf(x))
<1>1. before \in Seq(Attempt) /\ AttemptOf(x) \in Attempt
  <2>1. before \in Seq(Attempt)
    BY DEF TypeInv, TypeOK
  <2>2. x \in LogEntry
    BY DEF Records
  <2>3. AttemptOf(x) \in Attempt
    BY <2>2 DEF LogEntry, AttemptOf, Attempt
  <2> QED BY <2>1, <2>3
<1>2. attempts' = Put(attempts, id, after)
  BY DEF Records, AttemptsWith
<1> HIDE DEF before
<1>3. /\ after \in Seq(Attempt) /\ Len(after) = Len(before) + 1 /\ after # <<>>
      /\ after[Len(before) + 1] = AttemptOf(x)
      /\ \A i \in 1 .. Len(before) : after[i] = before[i]
      /\ before = SubSeq(after, 1, Len(before))
  BY <1>1, AppendFacts, AppendProperties
<1>4. Len(before) \in Nat /\ DOMAIN before = 1 .. Len(before) /\ DOMAIN after = 1 .. Len(after)
  BY <1>1, <1>3, LenProperties
<1> HIDE DEF after
<1>5. /\ DOMAIN attempts' = DOMAIN attempts \cup {id}
      /\ attempts'[id] = after
      /\ \A y \in DOMAIN attempts : y # id => attempts'[y] = attempts[y]
  BY <1>2 DEF Put
<1>6. id \in DOMAIN attempts => before = attempts[id]
  BY DEF before
<1>7. Len(after) \in DOMAIN after /\ after[Len(after)] = AttemptOf(x)
  BY <1>3, <1>4
<1>8. /\ Len(before) \in 0 .. Len(after)
      /\ \A i \in DOMAIN before : i \in DOMAIN after /\ after[i] = before[i]
  BY <1>3, <1>4
<1> HIDE DEF id
<1>9. QED BY <1>3, <1>5, <1>6, <1>7, <1>8 DEF id

(* Recording an attempt keeps receipts backed by attempts of stored events.*)
LEMMA ReceiptsStep ==
    ASSUME TypeInv, StoresAgree, NEW x, Records(x)
    PROVE  ReceiptsBacked'
<1> DEFINE id == x.sent.id
<1>1. /\ DOMAIN seen' = DOMAIN seen \cup {SeenKey(x.sent)}
      /\ seen'[SeenKey(x.sent)] = ReceiptOf(x)
      /\ \A k \in DOMAIN seen : k # SeenKey(x.sent) => seen'[k] = seen[k]
  BY DEF Records, Put
<1>2. DOMAIN events' = DOMAIN events \cup {id}
  BY DEF Records, Put
<1> SUFFICES ASSUME NEW k \in DOMAIN seen'
             PROVE  /\ seen'[k].event \in DOMAIN events'
                    /\ seen'[k].event \in DOMAIN attempts'
                    /\ \E i \in DOMAIN attempts'[seen'[k].event] :
                          attempts'[seen'[k].event][i] =
                             [id |-> seen'[k].attempt, status |-> seen'[k].status,
                              reasons |-> seen'[k].reasons]
  BY DEF ReceiptsBacked
<1>3. CASE k = SeenKey(x.sent)
  <2>1. /\ seen'[k].event = id
        /\ AttemptOf(x) = [id |-> seen'[k].attempt, status |-> seen'[k].status,
                           reasons |-> seen'[k].reasons]
    BY <1>1, <1>3 DEF ReceiptOf, AttemptOf
  <2>2. \E i \in DOMAIN attempts'[id] : attempts'[id][i] = AttemptOf(x)
    BY AttemptsGrow
  <2>3. id \in DOMAIN events' /\ id \in DOMAIN attempts'
    BY <1>2, AttemptsGrow
  <2> HIDE DEF id
  <2> QED BY <2>1, <2>2, <2>3
<1>4. CASE k # SeenKey(x.sent)
  <2>1. k \in DOMAIN seen /\ seen'[k] = seen[k]
    BY <1>1, <1>4
  <2> DEFINE r == seen[k]
             made == [id |-> r.attempt, status |-> r.status, reasons |-> r.reasons]
  <2>2. r.event \in DOMAIN events /\ r.event \in DOMAIN attempts
    BY <2>1 DEF StoresAgree, ReceiptsBacked
  <2>3. PICK i \in DOMAIN attempts[r.event] : attempts[r.event][i] = made
    BY <2>1 DEF StoresAgree, ReceiptsBacked
  <2>4. i \in DOMAIN attempts'[r.event] /\ attempts'[r.event][i] = made
    BY <2>2, <2>3, AttemptsGrow
  <2> QED BY <1>2, <2>1, <2>2, <2>4, AttemptsGrow
<1> QED BY <1>3, <1>4

(* The last attempt alone is the end of the attempts made.                 *)
LEMMA LastIsEnd ==
    ASSUME NEW T, NEW s \in Seq(T), s # <<>>
    PROVE  Len(s) \in 1 .. Len(s) /\ SubSeq(s, Len(s), Len(s)) = <<s[Len(s)]>>
<1>1. Len(s) \in Nat /\ Len(s) # 0
  BY EmptySeq, LenProperties
<1>2. PICK n \in Nat \ {0} : n = Len(s)
  BY <1>1
<1>3. SubSeq(s, n, n) = [i \in 1 .. 1 |-> s[n]]
  BY <1>2 
<1> QED BY <1>2, <1>3

(* It shows in the lineage as the last attempt.                            *)
LEMMA LineageStep ==
    ASSUME TypeInv, StoresAgree, NEW x, Records(x)
    PROVE  LineageIsCurrent'
<1> DEFINE id == x.sent.id
<1>1. /\ DOMAIN events' = DOMAIN events \cup {id} /\ events'[id] = x.sent
      /\ \A y \in DOMAIN events : y # id => events'[y] = events[y]
  BY DEF Records, Put
<1>2. /\ DOMAIN lineages' = DOMAIN lineages \cup {id}
      /\ lineages'[id].attempts = <<AttemptOf(x)>>
      /\ lineages'[id].contract = x.sent.contract
      /\ \A y \in DOMAIN lineages : y # id => lineages'[y] = lineages[y]
  BY DEF Records, LineagesWith, Put
<1>3. DOMAIN attempts' = DOMAIN events' /\ DOMAIN lineages' = DOMAIN events'
  BY <1>1, <1>2, AttemptsGrow DEF StoresAgree, LineageIsCurrent
<1> SUFFICES ASSUME NEW y \in DOMAIN events'
             PROVE  /\ lineages'[y].contract = events'[y].contract
                    /\ \E n \in 1 .. Len(attempts'[y]) :
                          lineages'[y].attempts = SubSeq(attempts'[y], n, Len(attempts'[y]))
  BY <1>3 DEF LineageIsCurrent
<1>4. CASE y = id
  <2>1. attempts'[y] # <<>> /\ attempts'[y][Len(attempts'[y])] = AttemptOf(x)
    BY <1>4, AttemptsGrow
  <2>2. attempts'[y] \in Seq(Attempt)
    <3>1. y \in DOMAIN attempts' /\ attempts' = AttemptsWith(id, AttemptOf(x))
      BY <1>3, <1>4 DEF Records
    <3>2. AttemptOf(x) \in Attempt
      BY DEF Records, LogEntry, AttemptOf, Attempt
    <3>3. \A z \in DOMAIN attempts : attempts[z] \in Seq(Attempt)
      BY DEF TypeInv, TypeOK
    <3> HIDE DEF id
    <3> QED BY <1>4, <3>1, <3>2, <3>3 DEF AttemptsWith, Put
  <2>3. /\ Len(attempts'[y]) \in 1 .. Len(attempts'[y])
        /\ SubSeq(attempts'[y], Len(attempts'[y]), Len(attempts'[y])) = <<AttemptOf(x)>>
    BY <2>1, <2>2, LastIsEnd
  <2> QED BY <1>1, <1>2, <1>4, <2>3
<1>5. CASE y # id
  <2>1. y \in DOMAIN events /\ y \in DOMAIN lineages /\ y \in DOMAIN attempts
    BY <1>1, <1>5 DEF StoresAgree, LineageIsCurrent
  <2>2. attempts'[y] = attempts[y] /\ lineages'[y] = lineages[y] /\ events'[y] = events[y]
    BY <1>1, <1>2, <1>5, <2>1, AttemptsGrow
  <2> QED BY <2>1, <2>2 DEF StoresAgree, LineageIsCurrent
<1> QED BY <1>4, <1>5

(* Every step keeps the story consistent.                                  *)
LEMMA StoresStep == TypeInv /\ StoresAgree /\ [Next]_vars => StoresAgree'
<1> SUFFICES ASSUME TypeInv, StoresAgree, [Next]_vars PROVE StoresAgree'
  OBVIOUS
<1>1. CASE \E th \in Threads : Commit(th)
  BY <1>1, CommitRecords, ReceiptsStep, LineageStep DEF StoresAgree
<1>2. CASE UNCHANGED <<seen, events, attempts, lineages, log>>
  BY <1>2 DEF StoresAgree, ReceiptsBacked, LineageIsCurrent
<1> QED BY <1>1, <1>2, OnlyCommitRecords

(* Whatever the goroutines do, an answer given from s.seen is backed by a  *)
(* recorded attempt of a stored event with the same outcome                *)
(* (service.go:74-78, 93-95).                                              *)
THEOREM ReceiptsAreBacked == Spec => []ReceiptsBacked
<1>1. StoresAgree => ReceiptsBacked
  BY DEF StoresAgree
<1> QED BY <1>1, StoresInit, StoresStep, TypeInvariant, PTL DEF Spec

(* Events, attempts and lineages cover the same events, and a lineage      *)
(* always ends with the last attempt (service.go:93-103).                  *)
THEOREM LineagesAreCurrent == Spec => []LineageIsCurrent
<1>1. StoresAgree => LineageIsCurrent
  BY DEF StoresAgree
<1> QED BY <1>1, StoresInit, StoresStep, TypeInvariant, PTL DEF Spec

-----------------------------------------------------------------------------
(* Dead letters                                                            *)

(* m is the letter l later in its life: the same failure, a longer audit.  *)
Later(l, m) ==
    /\ m.event = l.event /\ m.tenant = l.tenant /\ m.payload = l.payload
    /\ \E n \in 0 .. Len(m.audit) : l.audit = SubSeq(m.audit, 1, n)

(* Ids are drawn in order, and none is drawn for a letter that an accepted *)
(* attempt would have.                                                     *)
LettersNumbered ==
    /\ \A l \in DOMAIN letters : l <= ids
    /\ \A x \in log : x.letter <= ids /\ x.attempt <= ids
    /\ \A x \in log : Failure(x) <=> x.letter # 0

LetterInv == LettersNumbered /\ LettersMatchFailures

(* The methods of a letter keep the failure it stands for and only append  *)
(* to its audit.                                                           *)
LEMMA LettersAge ==
    ASSUME NEW l \in Letter, NEW ok \in BOOLEAN
    PROVE  Later(l, l) /\ Later(l, BeginReplay(l)) /\ Later(l, FinishReplay(l, ok))
<1> DEFINE ended == IF ok THEN "replay_succeeded" ELSE "replay_failed"
<1>1. l.audit \in Seq(AuditActions) /\ "replay_started" \in AuditActions /\ ended \in AuditActions
  BY DEF Letter, AuditActions
<1>2. Len(l.audit) \in Nat /\ SubSeq(l.audit, 1, Len(l.audit)) = l.audit
  BY <1>1, SubSeqFull, LenProperties
<1>3. Later(l, l)
  BY <1>2 DEF Later
<1> HIDE DEF ended
<1>4. ASSUME NEW a \in AuditActions, NEW m, m.audit = Append(l.audit, a),
             m.event = l.event, m.tenant = l.tenant, m.payload = l.payload
      PROVE  Later(l, m)
  <2>1. Len(m.audit) = Len(l.audit) + 1 /\ l.audit = SubSeq(m.audit, 1, Len(l.audit))
    BY <1>1, <1>4, AppendFacts
  <2> QED BY <1>2, <1>4, <2>1 DEF Later
<1>5. Later(l, BeginReplay(l))
  <2>1. /\ BeginReplay(l).audit = Append(l.audit, "replay_started")
        /\ BeginReplay(l).event = l.event /\ BeginReplay(l).tenant = l.tenant
        /\ BeginReplay(l).payload = l.payload
    BY DEF BeginReplay, Letter
  <2> QED BY <1>1, <1>4, <2>1
<1>6. Later(l, FinishReplay(l, ok))
  <2>1. /\ FinishReplay(l, ok).audit = Append(l.audit, ended)
        /\ FinishReplay(l, ok).event = l.event /\ FinishReplay(l, ok).tenant = l.tenant
        /\ FinishReplay(l, ok).payload = l.payload
    BY DEF FinishReplay, Letter, ended
  <2> QED BY <1>1, <1>4, <2>1
<1> QED BY <1>3, <1>5, <1>6

(* Except for a Commit, no step adds or removes a letter, and each letter  *)
(* that it touches only ages.                                              *)
LEMMA LettersStay ==
    ASSUME TypeInv, [Next]_vars, ~ \E th \in Threads : Commit(th)
    PROVE  /\ DOMAIN letters' = DOMAIN letters
           /\ \A l \in DOMAIN letters : Later(letters[l], letters'[l])
<1>1. \A l \in DOMAIN letters : letters[l] \in Letter
  BY DEF TypeInv, TypeOK
<1>2. \A l \in DOMAIN letters : Later(letters[l], letters[l])
  BY <1>1, LettersAge
<1>3. ASSUME NEW th \in Threads, NEW l \in DOMAIN letters, ReplayBegin(th, l)
      PROVE  /\ DOMAIN letters' = DOMAIN letters
             /\ \A k \in DOMAIN letters : Later(letters[k], letters'[k])
  <2>1. letters' = [letters EXCEPT ![l] = BeginReplay(letters[l])]
    BY <1>3 DEF ReplayBegin
  <2>2. Later(letters[l], BeginReplay(letters[l]))
    BY <1>1, <1>3, LettersAge
  <2> QED BY <1>2, <2>1, <2>2
<1>4. ASSUME NEW th \in Threads, ReplayFinish(th)
      PROVE  /\ DOMAIN letters' = DOMAIN letters
             /\ \A k \in DOMAIN letters : Later(letters[k], letters'[k])
  <2> DEFINE l == job[th].letter
  <2>1. letters' = [letters EXCEPT ![l] = FinishReplay(letters[l], job[th].ok)]
    BY <1>4 DEF ReplayFinish
  <2>2. job[th].ok \in BOOLEAN
    BY DEF TypeInv, TypeOK, Job
  <2>3. l \in DOMAIN letters => Later(letters[l], FinishReplay(letters[l], job[th].ok))
    BY <1>1, <2>2, LettersAge
  <2> HIDE DEF l
  <2> QED BY <1>2, <2>1, <2>3
<1>5. \/ \E th \in Threads, l \in DOMAIN letters : ReplayBegin(th, l)
      \/ \E th \in Threads : ReplayFinish(th)
      \/ UNCHANGED letters
  BY DEF Next, ThreadStep, Receive, AnswerDuplicate, RejectQuota, Admit, Lookup,
         SnapshotRules, RegistryChanges, RulesChange, Tick, vars, service
<1> QED BY <1>2, <1>3, <1>4, <1>5

(* Ids are only drawn.                                                     *)
LEMMA IdsGrow ==
    ASSUME TypeInv, [Next]_vars
    PROVE  ids \in Nat /\ ids' \in Nat /\ ids <= ids'
<1>1. ids \in Nat
  BY DEF TypeInv, TypeOK
<1>2. CASE \E th \in Threads : Commit(th)
  BY <1>1, <1>2, CommitRecords DEF Records
<1>3. CASE ~ \E th \in Threads : Commit(th)
  <2>1. ids' = ids \/ ids' = ids + 1
    BY <1>3 DEF Next, ThreadStep, Receive, ReplayBegin, AnswerDuplicate, RejectQuota, Admit,
           Lookup, SnapshotRules, ReplayFinish, RegistryChanges, RulesChange, Tick, vars
  <2> QED BY <1>1, <2>1
<1> QED BY <1>2, <1>3

(* A new service has no letters.                                           *)
LEMMA LettersInit == Init => LetterInv
  BY DEF Init, LetterInv, LettersNumbered, LettersMatchFailures, EmptyMap

(* The letters after an attempt is recorded: those before, and a new one   *)
(* for a failure.                                                          *)
LEMMA LettersGrow ==
    ASSUME TypeInv, LettersNumbered, NEW x, Records(x)
    PROVE  /\ Failure(x) => /\ DOMAIN letters' = DOMAIN letters \cup {x.letter}
                            /\ letters'[x.letter] = NewLetter(x.sent)
           /\ ~Failure(x) => DOMAIN letters' = DOMAIN letters
           /\ \A l \in DOMAIN letters : l # x.letter /\ letters'[l] = letters[l]
<1>1. \A l \in DOMAIN letters : l \in Nat \ {0} /\ l <= ids
  BY DEF TypeInv, TypeOK, LettersNumbered
<1>2. ids \in Nat
  BY DEF TypeInv, TypeOK
<1>3. \A l \in DOMAIN letters : l # x.letter
  BY <1>1, <1>2 DEF Records
<1>4. letters' = IF Failure(x) THEN Put(letters, x.letter, NewLetter(x.sent)) ELSE letters
  BY DEF Records, LettersWith
<1> QED BY <1>3, <1>4 DEF Put

(* A failure and its letter come into being together.                      *)
LEMMA LettersCommit ==
    ASSUME TypeInv, LetterInv, NEW x, Records(x)
    PROVE  LetterInv'
<1>1. /\ ids \in Nat /\ x.attempt = ids + 1
      /\ x.letter = IF Failure(x) THEN ids + 2 ELSE 0
      /\ ids' = ids + IF Failure(x) THEN 2 ELSE 1
      /\ log' = log \cup {x}
  BY DEF TypeInv, TypeOK, Records
<1>2. \A y \in log : y.letter \in Nat /\ y.attempt \in Nat /\ y.letter <= ids /\ y.attempt <= ids
  BY DEF TypeInv, TypeOK, LogEntry, LetterInv, LettersNumbered
<1>3. \A l \in DOMAIN letters : l \in Nat /\ l <= ids
  BY DEF TypeInv, TypeOK, LetterInv, LettersNumbered
<1>4. LettersNumbered'
  <2>1. \A l \in DOMAIN letters' : l \in DOMAIN letters \/ (Failure(x) /\ l = x.letter)
    BY LettersGrow DEF LetterInv
  <2>4. \A l \in DOMAIN letters' : l <= ids'
    BY <1>1, <1>3, <2>1
  <2>2. \A y \in log' : y.letter <= ids' /\ y.attempt <= ids'
    BY <1>1, <1>2
  <2>3. \A y \in log' : Failure(y) <=> y.letter # 0
    BY <1>1 DEF LetterInv, LettersNumbered
  <2> QED BY <2>2, <2>3, <2>4 DEF LettersNumbered, Failure
<1>5. ASSUME NEW y \in log', Failure(y)
      PROVE  /\ y.letter \in DOMAIN letters'
             /\ letters'[y.letter].event = y.sent.id
             /\ letters'[y.letter].tenant = y.sent.tenant
             /\ letters'[y.letter].payload = y.sent.payload
  <2>1. CASE y = x
    <3>1. x.letter \in DOMAIN letters' /\ letters'[x.letter] = NewLetter(x.sent)
      BY <1>5, <2>1, LettersGrow DEF LetterInv
    <3> QED BY <2>1, <3>1 DEF NewLetter
  <2>2. CASE y \in log
    <3>1. /\ y.letter \in DOMAIN letters
          /\ letters[y.letter].event = y.sent.id
          /\ letters[y.letter].tenant = y.sent.tenant
          /\ letters[y.letter].payload = y.sent.payload
      BY <1>5, <2>2 DEF LetterInv, LettersMatchFailures, Failure
    <3> QED BY <3>1, LettersGrow DEF LetterInv
  <2> QED BY <1>1, <1>5, <2>1, <2>2
<1>6. \A l \in DOMAIN letters' : \E y \in log' : y.letter = l
  <2>1. \A l \in DOMAIN letters' : l \in DOMAIN letters \/ l = x.letter
    BY LettersGrow DEF LetterInv
  <2> QED BY <1>1, <2>1 DEF LetterInv, LettersMatchFailures
<1>7. \A y, z \in log' : y.letter = z.letter /\ y.letter # 0 => y = z
  <2>1. \A y \in log : x.letter # 0 => y.letter # x.letter
    BY <1>1, <1>2
  <2> QED BY <1>1, <2>1 DEF LetterInv, LettersMatchFailures
<1> QED BY <1>4, <1>5, <1>6, <1>7 DEF LetterInv, LettersMatchFailures, Failure

(* Every step keeps letters and failures in correspondence.                *)
LEMMA LettersStep == TypeInv /\ LetterInv /\ [Next]_vars => LetterInv'
<1> SUFFICES ASSUME TypeInv, LetterInv, [Next]_vars PROVE LetterInv'
  OBVIOUS
<1>1. CASE \E th \in Threads : Commit(th)
  BY <1>1, CommitRecords, LettersCommit
<1>2. CASE ~ \E th \in Threads : Commit(th)
  <2>1. log' = log
    BY <1>2, OnlyCommitRecords
  <2>2. /\ DOMAIN letters' = DOMAIN letters
        /\ \A l \in DOMAIN letters : Later(letters[l], letters'[l])
    BY <1>2, LettersStay
  <2>3. LettersNumbered'
    <3>1. \A l \in DOMAIN letters : l \in Nat
      BY DEF TypeInv, TypeOK
    <3>2. \A x \in log : x.letter \in Nat /\ x.attempt \in Nat
      BY DEF TypeInv, TypeOK, LogEntry
    <3> QED BY <2>1, <2>2, <3>1, <3>2, IdsGrow DEF LetterInv, LettersNumbered, Failure
  <2>4. LettersMatchFailures'
    BY <2>1, <2>2 DEF LetterInv, LettersMatchFailures, Later
  <2> QED BY <2>3, <2>4 DEF LetterInv
<1> QED BY <1>1, <1>2

(* Letters and failures correspond always.                                 *)
LEMMA LettersInvariant == Spec => []LetterInv
  BY LettersInit, LettersStep, TypeInvariant, PTL DEF Spec

(* No failure is lost and no letter is invented: dead letters and failed   *)
(* validations correspond one to one, whatever overlaps and however often  *)
(* an event id is used again (service.go:97-102).                          *)
THEOREM FailuresHaveLetters == Spec => []LettersMatchFailures
<1>1. LetterInv => LettersMatchFailures
  BY DEF LetterInv
<1> QED BY <1>1, LettersInvariant, PTL

(* Attempts and audit trails are never shortened or rewritten, and letters *)
(* never disappear, by any step of any goroutine (README.md:19).           *)
THEOREM HistoryIsAppendOnly == Spec => HistoryAppendOnly
<1> DEFINE Extended ==
      /\ \A id \in DOMAIN attempts :
            /\ id \in DOMAIN attempts'
            /\ \E n \in 0 .. Len(attempts'[id]) : attempts[id] = SubSeq(attempts'[id], 1, n)
      /\ \A l \in DOMAIN letters :
            /\ l \in DOMAIN letters'
            /\ \E n \in 0 .. Len(letters'[l].audit) :
                  letters[l].audit = SubSeq(letters'[l].audit, 1, n)
<1>1. ASSUME TypeInv, LetterInv, [Next]_vars
      PROVE  Extended
  <2>1. ASSUME NEW id \in DOMAIN attempts
        PROVE  \E n \in 0 .. Len(attempts[id]) : attempts[id] = SubSeq(attempts[id], 1, n)
    <3>1. attempts[id] \in Seq(Attempt)
      BY <1>1 DEF TypeInv, TypeOK
    <3> QED BY <3>1, SubSeqFull, LenProperties
  <2>2. \A l \in DOMAIN letters : Later(letters[l], letters[l])
    BY <1>1, LettersAge DEF TypeInv, TypeOK
  <2>3. CASE \E th \in Threads : Commit(th)
    <3>1. PICK x \in LogEntry : Records(x)
      BY <1>1, <2>3, CommitRecords
    <3>2. ASSUME NEW id \in DOMAIN attempts
          PROVE  /\ id \in DOMAIN attempts'
                 /\ \E n \in 0 .. Len(attempts'[id]) : attempts[id] = SubSeq(attempts'[id], 1, n)
      <4>1. CASE id = x.sent.id
        BY <1>1, <3>1, <3>2, <4>1, AttemptsGrow
      <4>2. CASE id # x.sent.id
        <5>1. id \in DOMAIN attempts' /\ attempts'[id] = attempts[id]
          BY <1>1, <3>1, <3>2, <4>2, AttemptsGrow
        <5> QED BY <2>1, <5>1
      <4> QED BY <4>1, <4>2
    <3>3. \A l \in DOMAIN letters : l \in DOMAIN letters' /\ letters'[l] = letters[l]
      BY <1>1, <3>1, LettersGrow DEF LetterInv
    <3> QED BY <2>2, <3>2, <3>3 DEF Later
  <2>4. CASE ~ \E th \in Threads : Commit(th)
    <3>1. attempts' = attempts
      BY <1>1, <2>4, OnlyCommitRecords
    <3>2. /\ DOMAIN letters' = DOMAIN letters
          /\ \A l \in DOMAIN letters : Later(letters[l], letters'[l])
      BY <1>1, <2>4, LettersStay
    <3> QED BY <2>1, <3>1, <3>2 DEF Later
  <2> QED BY <2>3, <2>4
<1> HIDE DEF Extended
<1>2. TypeInv /\ LetterInv /\ [Next]_vars => [Extended]_vars
  BY <1>1
<1>3. Spec => [][Extended]_vars
  BY <1>2, TypeInvariant, LettersInvariant, PTL DEF Spec
<1> QED BY <1>3 DEF HistoryAppendOnly, Extended

-----------------------------------------------------------------------------
(* Answers to duplicates                                                   *)

(* The receipt under a joined key is of an attempt that was made under it. *)
SeenLogged ==
    \A k \in DOMAIN seen : \E x \in log :
        SeenKey(x.sent) = k /\ x.attempt = seen[k].attempt

(* Two joined names whose first parts are equally long have the same parts.*)
LEMMA JoinInjective ==
    ASSUME NEW t \in Names, NEW u \in Names, NEW j \in Names, NEW k \in Names,
           Len(t) = Len(u), t \o j = u \o k
    PROVE  t = u /\ j = k
<1> USE DEF Names
<1>1. Len(t) \in Nat /\ Len(u) \in Nat /\ Len(j) \in Nat /\ Len(k) \in Nat
  BY LenProperties
<1>2. /\ Len(t \o j) = Len(t) + Len(j)
      /\ \A i \in 1 .. Len(t) + Len(j) : (t \o j)[i] = IF i <= Len(t) THEN t[i] ELSE j[i - Len(t)]
  BY ConcatProperties
<1>3. /\ Len(u \o k) = Len(u) + Len(k)
      /\ \A i \in 1 .. Len(u) + Len(k) : (u \o k)[i] = IF i <= Len(u) THEN u[i] ELSE k[i - Len(u)]
  BY ConcatProperties
<1>4. Len(j) = Len(k)
  BY <1>1, <1>2, <1>3
<1>5. \A i \in 1 .. Len(t) : t[i] = u[i]
  BY <1>1, <1>2, <1>3, <1>4
<1>6. t = u
  BY <1>5, SeqEqual
<1>7. ASSUME NEW i \in 1 .. Len(j) PROVE j[i] = k[i]
  <2>1. i + Len(t) \in 1 .. Len(t) + Len(j) /\ ~(i + Len(t) <= Len(t)) /\ (i + Len(t)) - Len(t) = i
    BY <1>1, <1>7
  <2>2. (t \o j)[i + Len(t)] = j[i] /\ (u \o k)[i + Len(t)] = k[i]
    BY <1>2, <1>3, <1>4, <2>1
  <2> QED BY <2>2
<1> QED BY <1>4, <1>6, <1>7, SeqEqual

(* So the joined key tells apart what differs in tenant or key.            *)
LEMMA SeenKeyInjective ==
    ASSUME NEW e \in Event, NEW f \in Event, Len(e.tenant) = Len(f.tenant),
           SeenKey(e) = SeenKey(f)
    PROVE  e.tenant = f.tenant /\ e.key = f.key
<1> DEFINE t == e.tenant
           u == f.tenant
           j == e.key
           k == f.key
<1>1. t \in Tenants /\ u \in Tenants /\ j \in Names /\ k \in Names
  BY DEF Event
<1>2. t \in Names /\ u \in Names
  BY <1>1, NameAssumption DEF Names
<1>3. t \o j = u \o k /\ Len(t) = Len(u)
  BY DEF SeenKey
<1> HIDE DEF t, u, j, k
<1>4. t = u /\ j = k
  BY <1>1, <1>2, <1>3, JoinInjective
<1> QED BY <1>4 DEF t, u, j, k

(* Every step keeps the receipts under the keys of their attempts.         *)
LEMMA SeenStep == TypeInv /\ SeenLogged /\ [Next]_vars => SeenLogged'
<1> SUFFICES ASSUME TypeInv, SeenLogged, [Next]_vars PROVE SeenLogged'
  OBVIOUS
<1>1. CASE \E th \in Threads : Commit(th)
  <2>1. PICK x \in LogEntry : Records(x)
    BY <1>1, CommitRecords
  <2>2. /\ DOMAIN seen' = DOMAIN seen \cup {SeenKey(x.sent)}
        /\ seen'[SeenKey(x.sent)] = ReceiptOf(x)
        /\ \A k \in DOMAIN seen : k # SeenKey(x.sent) => seen'[k] = seen[k]
    BY <2>1 DEF Records, Put
  <2>3. log' = log \cup {x} /\ ReceiptOf(x).attempt = x.attempt
    BY <2>1 DEF Records, ReceiptOf
  <2> SUFFICES ASSUME NEW k \in DOMAIN seen'
               PROVE  \E y \in log' : SeenKey(y.sent) = k /\ y.attempt = seen'[k].attempt
    BY DEF SeenLogged, SeenKey
  <2>4. CASE k = SeenKey(x.sent)
    BY <2>2, <2>3, <2>4
  <2>5. CASE k # SeenKey(x.sent)
    BY <2>2, <2>3, <2>5 DEF SeenLogged
  <2> QED BY <2>4, <2>5
<1>2. CASE UNCHANGED <<seen, events, attempts, lineages, log>>
  BY <1>2 DEF SeenLogged, SeenKey
<1> QED BY <1>1, <1>2, OnlyCommitRecords

(* Receipts stay under the keys of their attempts.                         *)
LEMMA SeenInvariant == Spec => []SeenLogged
<1>1. Init => SeenLogged
  BY DEF Init, SeenLogged, EmptyMap
<1> QED BY <1>1, SeenStep, TypeInvariant, PTL DEF Spec

(* A request that finds its key taken is answered for what its own tenant  *)
(* sent under that key, in every interleaving, when all tenants have       *)
(* equally many parts (service.go:74, 94).                                 *)
THEOREM DuplicatesAreOwn == Spec => []DuplicatesOwn
<1>1. ASSUME TypeInv, SeenLogged
      PROVE  DuplicatesOwn
  <2> SUFFICES ASSUME \A t, u \in Tenants : Len(t) = Len(u),
                      NEW th \in Threads, job[th].step = "admit",
                      SeenKey(job[th].event) \in DOMAIN seen
               PROVE  \E x \in log : /\ x.sent.tenant = job[th].event.tenant
                                     /\ x.sent.key = job[th].event.key
                                     /\ x.attempt = seen[SeenKey(job[th].event)].attempt
    BY DEF DuplicatesOwn
  <2> DEFINE e == job[th].event
  <2>1. e \in Event
    BY <1>1 DEF TypeInv, TypeOK
  <2>2. PICK x \in log : SeenKey(x.sent) = SeenKey(e) /\ x.attempt = seen[SeenKey(e)].attempt
    BY <1>1 DEF SeenLogged
  <2>3. x.sent \in Event
    BY <1>1 DEF TypeInv, TypeOK, LogEntry
  <2> HIDE DEF e
  <2>4. e.tenant \in Tenants /\ x.sent.tenant \in Tenants
    BY <2>1, <2>3 DEF Event
  <2>5. x.sent.tenant = e.tenant /\ x.sent.key = e.key
    BY <2>1, <2>2, <2>3, <2>4, SeenKeyInjective
  <2> QED BY <2>2, <2>5 DEF e
<1>2. TypeInv /\ SeenLogged => DuplicatesOwn
  BY <1>1
<1> QED BY <1>2, TypeInvariant, SeenInvariant, PTL

=============================================================================
