------------------------------ MODULE Ingestion ------------------------------
(***************************************************************************)
(* The ingestion service of internal/ingestion/application/service.go.     *)
(*                                                                         *)
(* Every HTTP request runs Service.Publish or Service.Replay on a          *)
(* goroutine of its own.  Both take the mutex s.mu several times and give  *)
(* it up in between, so one action of this module is one critical section  *)
(* (or one unlocked read of the contract store), and the goroutines        *)
(* interleave between them:                                                *)
(*                                                                         *)
(*   Publish   Receive -> Admit | AnswerDuplicate | RejectQuota            *)
(*             Admit   -> Lookup -> SnapshotRules -> Commit                *)
(*   Replay    ReplayBegin -> (the steps of Publish) -> ReplayFinish       *)
(*                                                                         *)
(* The contract store and the rule policy belong to other components;      *)
(* here they are variables that may change under a request at any time.    *)
(*                                                                         *)
(* Data: what a schema or a rule says of a payload is a parameter, the     *)
(* wording of reasons is dropped, and a tenant, key or contract id is the  *)
(* sequence of its "/"-separated parts, so that the joined map keys of the *)
(* code (tenant + "/" + key) are concatenations.                           *)
(***************************************************************************)
EXTENDS Integers, Sequences, FiniteSets, Functions, DeadLetter

CONSTANTS
    Threads,       \* request goroutines
    Parts,         \* "/"-free parts of names, those drawn by s.ids() aside
    Tenants,       \* X-Tenant-ID values
    Keys,          \* Idempotency-Key values chosen by clients
    ClientIDs,     \* event ids chosen by clients
    ContractIDs,
    Versions,      \* schema version numbers
    Schemas,       \* what a published version may contain
    Rules,         \* quality rules, each with an id
    RuleIDs,
    Payloads,
    EmptyPayload,
    Conforms(_, _),  \* ValidatePayload has no issue with a schema and a payload
    Holds(_, _),     \* Execute of a rule passes a payload
    Requests,      \* the bodies and headers that POST /ingest/events receives
    Secret,        \* TRUE when ECQG_HMAC_SECRET is set
    MaxQuota,      \* ECQG_DEFAULT_QUOTA
    Window,        \* length of a quota window (one minute in the code)
    MaxAge,        \* oldest accepted event (24 hours in the code)
    MaxSkew,       \* furthest accepted event in the future (5 minutes)
    MaxReplays,    \* Letter.MaxAttempts (3 in the code)
    MaxTime,       \* bound: last reading of the clock
    MaxRequests,   \* bound: requests started
    None           \* the empty string or the zero value

ASSUME QuotaAssumption == MaxQuota \in Nat \ {0}
ASSUME WindowAssumption == Window \in Nat \ {0}
ASSUME LimitAssumption ==
    /\ MaxAge \in Nat /\ MaxSkew \in Nat /\ MaxReplays \in Nat \ {0}
    /\ MaxTime \in Nat /\ MaxRequests \in Nat
    /\ Secret \in BOOLEAN
ASSUME NameAssumption ==
    /\ Tenants \subseteq Seq(Parts \cup Nat)
    /\ Keys \subseteq Seq(Parts \cup Nat)
    /\ ContractIDs \subseteq Seq(Parts \cup Nat)
ASSUME RuleAssumption == \A r \in Rules : r.id \in RuleIDs

-----------------------------------------------------------------------------
(* Types                                                                   *)

IDs == ClientIDs \cup Nat          \* chosen by a client, or drawn by s.ids()

Names == Seq(Parts \cup Nat)       \* joined names; an id is the number of its draw

StoreKeys == {t \o c : t \in Tenants, c \in ContractIDs}

(* A stored contract, as far as validate looks at it: the schemas of its   *)
(* published versions.                                                     *)
Publications == UNION {[V -> Schemas] : V \in SUBSET Versions}

Reasons == {"payload is required", "invalid signature", "timestamp outside window",
            "contract id is required", "contract not found",
            "version not published", "schema"} \cup RuleIDs

ASSUME RequestAssumption ==
    Requests \subseteq
      [tenant: Tenants, key: Keys, id: ClientIDs \cup {None},
       contract: ContractIDs \cup {None}, version: Versions,
       payload: Payloads, occurred: Int \cup {None}, signed: BOOLEAN]

Signatures ==
    {None} \cup ((ClientIDs \cup {None}) \X (ContractIDs \cup {None}) \X Keys)

Event ==
    [id: IDs, tenant: Tenants, contract: ContractIDs \cup {None},
     version: Versions, key: Names, payload: Payloads,
     occurred: Int, received: Nat, signature: Signatures]

Statuses == {"accepted", "dead_lettered"}

Attempt == [id: Nat, status: Statuses, reasons: SUBSET Reasons]

Receipt == [event: IDs, status: Statuses, attempt: Nat, reasons: SUBSET Reasons]

Letter ==
    [tenant: Tenants, event: IDs, payload: Payloads, state: LetterStates,
     attempts: Nat, max: Nat, audit: Seq(AuditActions)]

Lineage == [contract: ContractIDs \cup {None}, attempts: Seq(Attempt)]

Never == -1                        \* the zero time.Time of a fresh quota

Quota == [start: Nat \cup {Never}, count: Nat]

Steps == {"idle", "admit", "lookup", "rules", "commit", "finish"}

Job ==
    [step: Steps, event: Event \cup {None}, start: Nat, letter: Nat,
     reasons: SUBSET Reasons, ok: BOOLEAN]

LogEntry ==
    [sent: Event, attempt: Nat, status: Statuses, reasons: SUBSET Reasons,
     letter: Nat, replayOf: Nat]

VARIABLES
    contracts,  \* the contract store: published versions of each stored contract
    rules,      \* s.rules: the enabled rules of each contract
    clock,      \* s.now()
    seen,       \* s.seen
    events,     \* s.events
    attempts,   \* s.attempts
    letters,    \* s.letters
    lineages,   \* s.lineages
    usage,      \* s.usage
    ids,        \* how many ids s.ids() has drawn
    job,        \* the local state of each goroutine
    requests,   \* bound: how many requests have started
    log,        \* history: what every Commit recorded
    granted     \* history: the window start each admission was charged to

service == <<seen, events, attempts, letters, lineages>>
environment == <<contracts, rules, clock>>
vars == <<contracts, rules, clock, seen, events, attempts, letters, lineages,
          usage, ids, job, requests, log, granted>>

(* m[k] = v on a Go map.                                                   *)
Put(m, k, v) == [x \in DOMAIN m \cup {k} |-> IF x = k THEN v ELSE m[x]]

EmptyMap == [x \in {} |-> None]

IdleJob == [step |-> "idle", event |-> None, start |-> 0, letter |-> 0,
            reasons |-> {}, ok |-> FALSE]

TypeOK ==
    /\ contracts \in [StoreKeys -> {None} \cup Publications]
    /\ rules \in [ContractIDs -> SUBSET Rules]
    /\ clock \in Nat
    /\ seen \in [DOMAIN seen -> Receipt] /\ DOMAIN seen \subseteq Names
    /\ events \in [DOMAIN events -> Event] /\ DOMAIN events \subseteq IDs
    /\ attempts \in [DOMAIN attempts -> Seq(Attempt)] /\ DOMAIN attempts \subseteq IDs
    /\ letters \in [DOMAIN letters -> Letter] /\ DOMAIN letters \subseteq Nat \ {0}
    /\ lineages \in [DOMAIN lineages -> Lineage] /\ DOMAIN lineages \subseteq IDs
    /\ usage \in [Tenants -> Quota]
    /\ ids \in Nat
    /\ job \in [Threads -> Job]
    /\ \A th \in Threads : job[th].step # "idle" => job[th].event \in Event
    /\ requests \in Nat
    /\ log \subseteq LogEntry
    /\ granted \in [Tenants -> Seq(Nat)]

Init ==
    /\ contracts = [k \in StoreKeys |-> None]
    /\ rules = [c \in ContractIDs |-> {}]
    /\ clock = 0
    /\ seen = EmptyMap /\ events = EmptyMap /\ attempts = EmptyMap
    /\ letters = EmptyMap /\ lineages = EmptyMap
    /\ usage = [t \in Tenants |-> [start |-> Never, count |-> 0]]
    /\ ids = 0
    /\ job = [th \in Threads |-> IdleJob]
    /\ requests = 0
    /\ log = {}
    /\ granted = [t \in Tenants |-> <<>>]

-----------------------------------------------------------------------------
(* Service.Publish up to its first critical section                        *)

(* The event that Publish makes of a request: an absent id is drawn, an    *)
(* absent time is the arrival.  The client signed what it sent, so an id   *)
(* the gateway draws is not in the signature.                              *)
Arrived(r) ==
    [id        |-> IF r.id = None THEN ids + 1 ELSE r.id,
     tenant    |-> r.tenant,
     contract  |-> r.contract,
     version   |-> r.version,
     key       |-> r.key,
     payload   |-> r.payload,
     occurred  |-> IF r.occurred = None THEN clock ELSE r.occurred,
     received  |-> clock,
     signature |-> IF r.signed THEN <<r.id, r.contract, r.key>> ELSE None]

(* What no client can write: an id is 16 random bytes that are still to be *)
(* drawn, or the key of a replay, which the event endpoints show only once *)
(* Commit has stored its event.  From then on clients may send it, too.    *)
Private(p) ==
    /\ p \in Nat
    /\ \/ p > ids
       \/ \E th \in Threads : /\ job[th].letter # 0 /\ job[th].step # "finish"
                              /\ job[th].event.key = <<p>>

(* A goroutine takes a request; a request without an Idempotency-Key is    *)
(* answered with an error before anything is touched and is not modelled.  *)
Receive(th, r) ==
    /\ job[th].step = "idle"
    /\ requests < MaxRequests
    /\ \A p \in Range(r.tenant \o r.key) : ~Private(p)
    /\ requests' = requests + 1
    /\ ids' = IF r.id = None THEN ids + 1 ELSE ids
    /\ job' = [job EXCEPT ![th] = [IdleJob EXCEPT !.step  = "admit",
                                                  !.event = Arrived(r),
                                                  !.start = clock]]
    /\ UNCHANGED <<environment, service, usage, log, granted>>

MutReturnAlwaysOk(th, ok) ==
    job' = [job EXCEPT ![th] = IF @.letter = 0
                               THEN IdleJob
                               ELSE [@ EXCEPT !.step = "finish", !.ok = TRUE]]

(* Publish returns: a plain request is over, a replay goes on to finish.   *)
Return(th, ok) ==
    job' = [job EXCEPT ![th] = IF @.letter = 0
                               THEN IdleJob
                               ELSE [@ EXCEPT !.step = "finish", !.ok = ok]]

MutSeenKeyOfAnyTenant(e) == e.key

MutSeenKeyPerEvent(e) == e.tenant \o e.key \o <<e.id>>

(* e.TenantID + "/" + e.IdempotencyKey                                     *)
SeenKey(e) == e.tenant \o e.key

(* The key was seen: the stored receipt is returned, marked as duplicate.  *)
AnswerDuplicate(th) ==
    /\ job[th].step = "admit"
    /\ SeenKey(job[th].event) \in DOMAIN seen
    /\ Return(th, seen[SeenKey(job[th].event)].status = "accepted")
    /\ UNCHANGED <<environment, service, usage, ids, requests, log, granted>>

(* The window consumeQuota charges: a new one when the old is a full       *)
(* Window away.  now was read before the mutex was taken, so it may be     *)
(* older than the window's start.                                          *)
CurrentWindow(q, now) ==
    IF q.start = Never \/ now - q.start >= Window
    THEN [start |-> now, count |-> 0]
    ELSE q

MutQuotaExhaustedLate(q) == q.count > MaxQuota

MutQuotaExhaustedEarly(q) == q.count + 1 >= MaxQuota

QuotaExhausted(q) == q.count >= MaxQuota

(* consumeQuota fails: nothing is stored, a reset of the window neither.   *)
RejectQuota(th) ==
    LET e == job[th].event IN
    /\ job[th].step = "admit"
    /\ SeenKey(e) \notin DOMAIN seen
    /\ QuotaExhausted(CurrentWindow(usage[e.tenant], job[th].start))
    /\ Return(th, FALSE)
    /\ UNCHANGED <<environment, service, usage, ids, requests, log, granted>>

(* consumeQuota succeeds; the mutex is released with the key not yet in    *)
(* s.seen.                                                                 *)
Admit(th) ==
    LET e == job[th].event
        q == CurrentWindow(usage[e.tenant], job[th].start) IN
    /\ job[th].step = "admit"
    /\ SeenKey(e) \notin DOMAIN seen
    /\ ~QuotaExhausted(q)
    /\ usage' = [usage EXCEPT ![e.tenant] = [q EXCEPT !.count = q.count + 1]]
    /\ granted' = [granted EXCEPT ![e.tenant] = Append(@, q.start)]
    /\ job' = [job EXCEPT ![th].step = "lookup"]
    /\ UNCHANGED <<environment, service, ids, requests, log>>

-----------------------------------------------------------------------------
(* Service.validate                                                        *)

(* The HMAC is taken over e.ID | e.ContractID | e.IdempotencyKey.          *)
validSignature(e) == e.signature = <<e.id, e.contract, e.key>>

(* The checks validate makes before it looks the contract up.              *)
EnvelopeReasons(e) ==
    {r \in {"payload is required", "invalid signature", "timestamp outside window"} :
        \/ r = "payload is required" /\ e.payload = EmptyPayload
        \/ r = "invalid signature" /\ Secret /\ ~validSignature(e)
        \/ /\ r = "timestamp outside window"
           /\ clock - e.occurred > MaxAge \/ e.occurred - clock > MaxSkew}

(* ValidatePayload's issues with the published version, as one reason.     *)
SchemaReasons(e) ==
    {r \in {"schema"} : ~Conforms(contracts[e.tenant \o e.contract][e.version], e.payload)}

(* The rules are run in the order of the policy; the reasons are sorted.   *)
RuleReasons(e) == {r.id : r \in {r \in rules[e.contract] : ~Holds(r, e.payload)}}

(* contracts.Find and the search for a published version.  A missing       *)
(* contract id, contract or version ends the validation.                   *)
Lookup(th) ==
    LET e == job[th].event
        Verdict(found, step) ==
            job' = [job EXCEPT ![th] = [@ EXCEPT !.step = step, !.reasons = found]] IN
    /\ job[th].step = "lookup"
    /\ \/ /\ e.contract = None
          /\ Verdict({"contract id is required"}, "commit")
       \/ /\ e.contract # None
          /\ contracts[e.tenant \o e.contract] = None
          /\ Verdict(EnvelopeReasons(e) \cup {"contract not found"}, "commit")
       \/ /\ e.contract # None
          /\ contracts[e.tenant \o e.contract] # None
          /\ e.version \notin DOMAIN contracts[e.tenant \o e.contract]
          /\ Verdict(EnvelopeReasons(e) \cup {"version not published"}, "commit")
       \/ /\ e.contract # None
          /\ contracts[e.tenant \o e.contract] # None
          /\ e.version \in DOMAIN contracts[e.tenant \o e.contract]
          /\ Verdict(EnvelopeReasons(e) \cup SchemaReasons(e), "rules")
    /\ UNCHANGED <<environment, service, usage, ids, requests, log, granted>>

MutSnapshotRulesRetries(th) ==
    LET e == job[th].event IN
    /\ job[th].step = "rules"
    /\ job' = [job EXCEPT ![th].step = IF RuleReasons(e) = {}
                                      THEN "commit" ELSE "lookup"]
    /\ UNCHANGED <<environment, service, usage, ids, requests, log, granted>>

(* The rules are copied under the mutex and run after it is released.      *)
SnapshotRules(th) ==
    LET e == job[th].event IN
    /\ job[th].step = "rules"
    /\ job' = [job EXCEPT ![th] = [@ EXCEPT !.step = "commit",
                                            !.reasons = job[th].reasons \cup RuleReasons(e)]]
    /\ UNCHANGED <<environment, service, usage, ids, requests, log, granted>>

-----------------------------------------------------------------------------
(* The second critical section of Publish, and Service.Replay              *)

StatusOf(reasons) == IF reasons = {} THEN "accepted" ELSE "dead_lettered"

NewLetter(e) ==
    [tenant |-> e.tenant, event |-> e.id, payload |-> e.payload,
     state |-> "pending", attempts |-> 0, max |-> MaxReplays,
     audit |-> <<"created">>]

MutAttemptsReplaced(id, a) == Put(attempts, id, <<a>>)

(* s.attempts[e.ID] = append(s.attempts[e.ID], attempt)                    *)
AttemptsWith(id, a) ==
    Put(attempts, id, Append(IF id \in DOMAIN attempts THEN attempts[id] ELSE <<>>, a))

MutLettersUnderEmptyID(e, failed, id) ==
    IF failed THEN Put(letters, 0, NewLetter(e)) ELSE letters

MutLettersOnlyForNewEvents(e, failed, id) ==
    IF failed /\ e.id \notin DOMAIN events THEN Put(letters, id, NewLetter(e)) ELSE letters

(* A failed validation leaves a letter, whatever the event had before.     *)
LettersWith(e, failed, id) ==
    IF failed THEN Put(letters, id, NewLetter(e)) ELSE letters

MutLineageKeptFromFirst(e, a) ==
    IF e.id \in DOMAIN lineages THEN lineages
    ELSE Put(lineages, e.id, [contract |-> e.contract, attempts |-> <<a>>])

(* s.lineages[e.ID] is written anew with the one attempt just made.        *)
LineagesWith(e, a) ==
    Put(lineages, e.id, [contract |-> e.contract, attempts |-> <<a>>])

(* Everything Publish records, under one lock; s.seen is not read again.   *)
Commit(th) ==
    LET e       == job[th].event
        reasons == job[th].reasons
        status  == StatusOf(reasons)
        failed  == status = "dead_lettered"
        attempt == [id |-> ids + 1, status |-> status, reasons |-> reasons]
        receipt == [event |-> e.id, status |-> status, attempt |-> ids + 1,
                    reasons |-> reasons]
        entry   == [sent |-> e, attempt |-> ids + 1, status |-> status, reasons |-> reasons,
                    letter |-> IF failed THEN ids + 2 ELSE 0,
                    replayOf |-> job[th].letter] IN
    /\ job[th].step = "commit"
    /\ events' = Put(events, e.id, e)
    /\ seen' = Put(seen, SeenKey(e), receipt)
    /\ attempts' = AttemptsWith(e.id, attempt)
    /\ letters' = LettersWith(e, failed, ids + 2)
    /\ lineages' = LineagesWith(e, attempt)
    /\ ids' = ids + IF failed THEN 2 ELSE 1
    /\ log' = log \cup {entry}
    /\ Return(th, ~failed)
    /\ UNCHANGED <<environment, usage, requests, granted>>

(* Replay's first critical section, and its call of Publish: the stored    *)
(* event goes in again under a fresh idempotency key.  A letter that is    *)
(* missing or cannot be replayed is an error that changes nothing.         *)
ReplayBegin(th, l) ==
    LET e == events[letters[l].event] IN
    /\ job[th].step = "idle"
    /\ requests < MaxRequests
    /\ CanReplay(letters[l])
    /\ requests' = requests + 1
    /\ ids' = ids + 1
    /\ letters' = [letters EXCEPT ![l] = BeginReplay(@)]
    /\ job' = [job EXCEPT ![th] =
                 [IdleJob EXCEPT !.step   = "admit",
                                 !.event  = [e EXCEPT !.key = <<ids + 1>>, !.received = clock],
                                 !.start  = clock,
                                 !.letter = l]]
    /\ UNCHANGED <<environment, seen, events, attempts, lineages, usage, log, granted>>

ReplayFinish(th) ==
    LET l == job[th].letter IN
    /\ job[th].step = "finish"
    /\ letters' = [letters EXCEPT ![l] = FinishReplay(@, job[th].ok)]
    /\ job' = [job EXCEPT ![th] = IdleJob]
    /\ UNCHANGED <<environment, seen, events, attempts, lineages, usage, ids,
                   requests, log, granted>>

-----------------------------------------------------------------------------
(* What other components do meanwhile                                      *)

(* The registry registers a contract, adds a version or publishes one; a   *)
(* stale Save may also take a published version back.                      *)
RegistryChanges(k, published) ==
    /\ contracts[k] # published
    /\ contracts' = [contracts EXCEPT ![k] = published]
    /\ UNCHANGED <<rules, clock, service, usage, ids, job, requests, log, granted>>

(* SetRules or ActivateRuleVersion replaces the live rules of a contract.  *)
RulesChange(c, enabled) ==
    /\ rules[c] # enabled
    /\ rules' = [rules EXCEPT ![c] = enabled]
    /\ UNCHANGED <<contracts, clock, service, usage, ids, job, requests, log, granted>>

Tick ==
    /\ clock < MaxTime
    /\ clock' = clock + 1
    /\ UNCHANGED <<contracts, rules, service, usage, ids, job, requests, log, granted>>

-----------------------------------------------------------------------------
ThreadStep(th) ==
    \/ AnswerDuplicate(th) \/ RejectQuota(th) \/ Admit(th)
    \/ Lookup(th) \/ SnapshotRules(th) \/ Commit(th) \/ ReplayFinish(th)

Next ==
    \/ \E th \in Threads, r \in Requests : Receive(th, r)
    \/ \E th \in Threads, l \in DOMAIN letters : ReplayBegin(th, l)
    \/ \E th \in Threads : ThreadStep(th)
    \/ \E k \in StoreKeys, published \in Publications : RegistryChanges(k, published)
    \/ \E c \in ContractIDs, enabled \in SUBSET Rules : RulesChange(c, enabled)
    \/ Tick

Spec == Init /\ [][Next]_vars

-----------------------------------------------------------------------------
(* Properties                                                              *)

(* Every stored receipt is backed by a recorded attempt of the same event  *)
(* with the same id, status and reasons, and that event is stored: an      *)
(* answer given to a duplicate never speaks of work that left no trace.    *)
(* Publish writes the maps one by one (service.go:93-95); two goroutines   *)
(* may write the same key or the same event id.                            *)
ReceiptsBacked ==
    \A k \in DOMAIN seen :
        LET r == seen[k] IN
        /\ r.event \in DOMAIN events
        /\ r.event \in DOMAIN attempts
        /\ \E i \in DOMAIN attempts[r.event] :
              attempts[r.event][i] = [id |-> r.attempt, status |-> r.status,
                                      reasons |-> r.reasons]

(* The three views of an event agree: an event is stored iff it has        *)
(* attempts iff it has a lineage, and the lineage names the contract of    *)
(* the event as stored and ends with its last attempt, under replays and   *)
(* colliding event ids alike (service.go:93-103).  How far back a lineage  *)
(* goes is left open.                                                      *)
LineageIsCurrent ==
    /\ DOMAIN attempts = DOMAIN events
    /\ DOMAIN lineages = DOMAIN events
    /\ \A id \in DOMAIN events :
          /\ lineages[id].contract = events[id].contract
          /\ \E n \in 1 .. Len(attempts[id]) :
                lineages[id].attempts = SubSeq(attempts[id], n, Len(attempts[id]))

(* No failure is lost and no letter is invented: the failed validations    *)
(* and the dead letters correspond one to one, the letter naming the event *)
(* and the tenant of its failure and holding the payload that failed       *)
(* (service.go:97-102).                                                    *)
LettersMatchFailures ==
    /\ \A x \in log : x.status = "dead_lettered" =>
          /\ x.letter \in DOMAIN letters
          /\ letters[x.letter].event = x.sent.id
          /\ letters[x.letter].tenant = x.sent.tenant
          /\ letters[x.letter].payload = x.sent.payload
    /\ \A l \in DOMAIN letters : \E x \in log : x.letter = l
    /\ \A x, y \in log : x.letter = y.letter /\ x.letter # 0 => x = y

(* The quota bounds the rate, not just a counter: of any MaxQuota + 1      *)
(* consecutive admissions of a tenant, the last is charged to a window     *)
(* that starts at least Window after that of the first.  The time charged  *)
(* was read before the mutex was taken (service.go:62, 79, 106-117).       *)
QuotaSpread ==
    \A t \in Tenants : \A i \in DOMAIN granted[t] :
        i + MaxQuota \in DOMAIN granted[t] =>
            granted[t][i + MaxQuota] - granted[t][i] >= Window

(* A request is refused only for its own tenant's traffic: the tenant has  *)
(* been granted MaxQuota admissions, the oldest of them less than Window   *)
(* before the refused request (docs/architecture.md:39).                   *)
RefusalJustified ==
    [][\A th \in Threads : RejectQuota(th) =>
          LET g == granted[job[th].event.tenant] IN
          /\ Len(g) >= MaxQuota
          /\ job[th].start - g[Len(g) - MaxQuota + 1] < Window]_vars

InFlight(l) == {th \in Threads : job[th].letter = l}

(* The replay budget of a letter holds however its replays overlap: at     *)
(* most MaxReplays are started, each is audited when it starts and when it *)
(* ends, and a letter is poisoned only with its budget spent               *)
(* (deadletter/domain/model.go:34-58, service.go:198-220).                 *)
ReplayBudget ==
    \A l \in DOMAIN letters :
        /\ letters[l].attempts <= MaxReplays
        /\ Len(letters[l].audit) + Cardinality(InFlight(l)) = 1 + 2 * letters[l].attempts
        /\ letters[l].state = "poisoned" => letters[l].attempts = MaxReplays

(* A letter is shown as replaying only while a replay of it is running,    *)
(* so none is left behind in that state (service.go:205-217).              *)
ReplayingIsInFlight ==
    \A l \in DOMAIN letters : letters[l].state = "replaying" => InFlight(l) # {}

(* A letter is reported as replayed only if a replay of it was accepted:   *)
(* its event was validated again under a key of its own and recorded, and  *)
(* no other replay or request that overlapped with it counts instead       *)
(* (service.go:209-217).                                                   *)
ReplayedWasAccepted ==
    \A l \in DOMAIN letters : letters[l].state = "replayed" =>
        \E x \in log : /\ x.replayOf = l /\ x.status = "accepted"
                       /\ x.sent.id = letters[l].event

(* A request that finds its key taken is answered for what its own tenant  *)
(* sent under that key, never for another tenant's event.  The map keys    *)
(* are joined texts (service.go:74, 94), so this needs tenants that have   *)
(* equally many "/"-separated parts; nothing in the gateway sees to that.  *)
DuplicatesOwn ==
    (\A t, u \in Tenants : Len(t) = Len(u)) =>
        \A th \in Threads : LET e == job[th].event IN
            job[th].step = "admit" /\ SeenKey(e) \in DOMAIN seen =>
                \E x \in log : /\ x.sent.tenant = e.tenant /\ x.sent.key = e.key
                               /\ x.attempt = seen[SeenKey(e)].attempt

(* History is append-only: attempts and audit entries are never dropped or *)
(* changed, and letters never disappear (README.md:19, architecture.md:27).*)
HistoryAppendOnly ==
    [][/\ \A id \in DOMAIN attempts :
            /\ id \in DOMAIN attempts'
            /\ \E n \in 0 .. Len(attempts'[id]) : attempts[id] = SubSeq(attempts'[id], 1, n)
       /\ \A l \in DOMAIN letters :
            /\ l \in DOMAIN letters'
            /\ \E n \in 0 .. Len(letters'[l].audit) :
                  letters[l].audit = SubSeq(letters'[l].audit, 1, n)]_vars

(* An idempotency key is processed once per tenant (README.md:16-18).      *)
Idempotent ==
    \A x, y \in log : x.sent.tenant = y.sent.tenant /\ x.sent.key = y.sent.key => x = y

Ledger == INSTANCE EventLedger
            WITH Keys      <- {t \o k : t \in Tenants,
                                        k \in Keys \cup {<<n>> : n \in 1 .. 3 * MaxRequests}},
                 LetterIDs <- 1 .. 3 * MaxRequests,
                 decided   <- [k \in DOMAIN seen |-> seen[k].status],
                 letters   <- [l \in DOMAIN letters |->
                                 [state |-> letters[l].state, attempts |-> letters[l].attempts]]

(* Requests served one after the other keep the promises of EventLedger,   *)
(* whatever the registry and the policies do meanwhile and whatever fails: *)
(* s.seen decides a key once, and letters follow their life cycle.         *)
ImplementsLedger == Ledger!Spec
=============================================================================
