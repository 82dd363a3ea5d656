# A TLA+ verification project for the event contract quality gateway

The gateway is a Go service that registers event contracts (versioned schemas),
takes events over HTTP, checks each event against its contract and against the
contract's quality rules, and keeps receipts, attempts, lineage and dead letters
in memory. This directory holds TLA+ models of its core, TLC configurations that
check them on small instances, and TLAPS proofs of what matters most. File and
line references are to the repository (`src/` here); "README.md:n" is the
repository's own README.

Contents: 1 inventory, 2 modules and the code they model, 3 runs, 4 proofs,
5 disagreements with the documents, 6 what is left out, 7 plan.

## 1. Inventory

| Component | State | Operations | Talks to |
|---|---|---|---|
| Ingestion service (`internal/ingestion/application/service.go`) | maps `seen`, `events`, `attempts`, `letters`, `lineages`, `rules`, `usage`, all under one mutex | `Publish`, `Replay`, `SetRules` | contract store (`Find`), rule catalog, dead letters |
| Dead letters (`internal/deadletter/domain/model.go`) | state, attempts and audit trail of a letter | `BeginReplay`, `FinishReplay` | called by `Replay` |
| Contract registry (`internal/contract/application/service.go`) | none of its own | `Register`, `AddVersion`, `Publish`; `Get`, `Check` read | contract store |
| Contract store (`internal/platform/store/memory.go`) | a map of contracts under an RW mutex | `Create`, `Find`, `Save`, `List` | - |
| Schemas (`internal/contract/domain/model.go`) | - | `Validate`, `Canonical`, `Fingerprint`, `Compare` | registry |
| Payload validation (`internal/quality/domain/typecheck.go`) | - | `ValidatePayload` | ingestion |
| Rule catalog (`internal/quality/domain/catalog.go`, `ingestion/application/policy.go`) | retained policies of each contract, the latest version number, the live rules | `SetRules`, `ActivateRuleVersion`; `Rules`, `RuleHistory` read | ingestion |
| Rule engine (`internal/quality/domain/model.go`) | - | `Validate`, `Execute`, `Evaluate` | catalog, ingestion |
| Event queries (`internal/ingestion/application/query.go`) | reads the ingestion maps | `FindEvents`, `GetEvent`, `Summary`, `ListLetters`, `ReplayMany`, `ReplayManyForTenant`, `PruneExpiredLineage` | ingestion |
| HTTP API (`internal/platform/httpapi`) | metric counters | one handler for each route | all services |
| Telemetry (`internal/platform/telemetry`) | atomic counters | `Accepted.Add`, `DeadLettered.Add` | HTTP API |
| Gateway process (`cmd/gateway/main.go`) | whether it serves, drains or has exited | start, signal, graceful shutdown with a timeout | all |
| Configuration, `cmd/worker` | - | read once; log a tick | - |

How the parts interact, and where it is hard:

* Each HTTP request runs on its own goroutine. `Service.Publish` takes the
  mutex to look the idempotency key up and to charge the quota, *releases it*
  while it validates, takes it once more to copy the rules, and a third time
  to record the result. `Replay` wraps two more critical sections around a
  whole `Publish`. What is read in one section may be stale in the next.
* The start time that the quota is charged to is read before the mutex.
* The registry reads a copy of a contract (`Find`), changes the copy, and
  writes it back (`Save`), with nothing to stop two requests from working on
  two copies of the same contract.
* A rule policy update touches three things (retained sets, their active
  flags, the live rules) which must stay in step, also when it fails midway.
* Three handlers read twice under one lock each (`getRules`, `activateRules`,
  `getEvent`) and put both results into one answer.
* The counters are incremented after the record is made, outside its lock.
* A shutdown meets requests in any of these states.
* All state is in memory: there is no crash recovery to speak of, a restart
  begins from `Init`.

What makes each part correct:

* ingestion: the five maps tell one story about each event; a failure leaves
  exactly one letter; histories only grow; the quota bounds a rate and refuses
  nobody else's traffic; an idempotency key is processed once; every request is
  answered;
* dead letters: a budget of replays that holds when replays overlap, and no
  letter stranded in `replaying`;
* registry: an append-only history of versions, each compatible with its
  predecessor and published at most once, with ETags that identify versions;
* schemas: a change that is let through does not invalidate old payloads;
* catalog: bounded retention without gaps, numbers never reused, the active
  flag on what is in force; answers that explain themselves;
* rule engine: nothing in force panics, and a failure code names one rule;
* the process as a whole: only published versions validate events, every event
  is counted, a clean exit leaves nothing half done, and a signal leads to one.

The hazards behind these properties are listed line by line in `PROJECT.json`.

## 2. Modules and the code they model

| Module | Models | Kind |
|---|---|---|
| `DeadLetter` | `Letter.BeginReplay`, `Letter.FinishReplay` | operators on the letter record |
| `Ingestion` | `Service.Publish`, `consumeQuota`, `validate`, `Replay` | state machine |
| `EventLedger` | what ingestion promises producers and operators | abstract specification |
| `IngestionProofs` | types, the quota, receipts, attempts, lineages and letters of `Ingestion` | proofs |
| `ReplayProofs` | the replays and the admissions of `Ingestion` | proofs |
| `SequentialProofs` | `Ingestion` served by one goroutine; it implements `EventLedger` | proofs |
| `EventQuery` | `FindEvents`, `GetEvent`, `Summary`, `ReplayManyForTenant` over a running `Ingestion` | state machine, composed |
| `QueryProofs` | theorems about `EventQuery` | proofs |
| `Schema` | `Schema.Validate/Canonical/Fingerprint`, `Compare`, `ValidatePayload` | operators |
| `Registry` | registry service, contract aggregate, store | state machine |
| `ContractHistory` | what the registry promises | abstract specification |
| `RegistryProofs` | theorems about `Registry`, `Schema` and `ContractHistory` | proofs |
| `RuleEngine` | `Rule.Validate`, `Rule.Execute`, `Evaluate` | operators |
| `RuleCatalog` | `Catalog`, `SetRules`, `ActivateRuleVersion` | state machine |
| `RuleCatalogProofs` | theorems about `RuleCatalog` | proofs |
| `PolicyAPI` | the quality-rules handlers over `RuleCatalog` | state machine, composed |
| `PolicyAPIProofs` | theorems about `PolicyAPI` | proofs |
| `Gateway` | `cmd/gateway/main.go`: `Registry`, `RuleCatalog` and `Ingestion` behind the handlers, counters, shutdown | state machine, composed |
| `GatewayProofs` | theorems about `Gateway`, on top of those of its components | proofs |
| `MCIngestion`, `MCEventQuery`, `MCRegistry`, `MCPolicyAPI`, `MCGateway` | instances for TLC | |

Operators whose names begin with `Mut` are deliberately wrong variants of the
definition that follows them; each one breaks a property, which shows that the
property depends on the code being as it is.

### Ingestion

One action is one critical section, or the one unlocked access to shared state,
the read of the contract store:

| Action | Code |
|---|---|
| `Receive` | `Publish` up to its first `Lock` (service.go:61-72) |
| `AnswerDuplicate`, `RejectQuota`, `Admit` | the first critical section (73-83) with `consumeQuota` (106-117) |
| `Lookup` | `validate` up to the copy of the rules (118-151) |
| `SnapshotRules` | the copy of the rules under the mutex and their execution (152-166) |
| `Commit` | everything `Publish` records under its last lock (85-105) |
| `ReplayBegin`, `ReplayFinish` | the two critical sections of `Replay` (198-220); between them the goroutine takes the steps of `Publish` |
| `RegistryChanges`, `RulesChange`, `Tick` | what the registry, the rule policy and the clock do meanwhile |

The service's maps are variables of the same names; `job[th]` holds the local
variables of a goroutine. `log` and `granted` are history variables: they record
what every `Commit` wrote and which window start every admission was charged to;
no guard reads them. A payload is opaque: what a schema or a rule says of it are
the operator constants `Conforms` and `Holds`, which the small instances give as
tables and `Gateway` as the definitions of `Schema` and `RuleEngine`.
Client-chosen names are sequences of "/"-free parts, so that the joined map keys
of the code are concatenations. A signature is the triple the client signed.
Drawn ids are numbers, which clients may use in names once they have seen them: what
they cannot know is an id that is still to be drawn, and the key of a replay until
`Commit` has stored its event, which is when the event endpoints begin to show it
(`Private`, a guard of `Receive`; ids are 16 random bytes, cmd/gateway/main.go:27).

Steps that the code takes separately and the model takes together, because no
other goroutine can tell: `Receive` reads the clock and draws the id; `Lookup`
reads the clock in the step that reads the store; the attempt id is drawn in
`Commit` (ids are only compared for equality); `ReplayBegin` includes the first
lines of the `Publish` it calls. Error paths that change nothing (no
idempotency key, unknown letter, letter not replayable) have no action. The
registry's whole state, as ingestion sees it, is what each contract has
published, version by version, and `RegistryChanges` may set it to anything: the
model covers every registry, also one that loses updates.

`EventLedger` states the promise: a key is decided once, a failure is in the dead
letters from the moment it is known, and letters follow their life cycle, one
replay at a time. One goroutine keeps it (`ImplementsLedger`); two do not, which
is `Doc_idempotent`.

### EventQuery

Extends `Ingestion` with a client that reads a listing page by page (`FirstPage`,
`NextPage`) or a single event with its receipt and attempts, which takes two locks
(`GetEvent`, `AnswerEvent`), and with goroutines that work through a batch of replays
(`BatchBegin`, then `BatchNotFound`, `BatchRefused` or `BatchReplay` for each
letter; `BatchReport` appends what `replayOne` made of it, the status of the receipt or
the error). `QueryNext` lets every step of ingestion happen between two pages or
two letters. Where the code takes the first receipt of an event that a map
iteration meets, `Matching` and `Summaries` allow any of them. `walk` also holds
what matched when the listing began and whether an event was processed again or
a stored receipt replaced since; both are history. Ids are ordered by the constant
`IDRank`, because drawn ids come in any order. `Sorted` is `sort.Slice` by what it
returns: the k-th item is the one with k - 1 others before it. The look at the letter's tenant and the start of its
replay are two critical sections and one step: letters are never removed and
never change tenant.

### Registry and Schema

`AddVersion` and `Publish` are `Find` plus the change of the private copy;
`Save` writes the copy back; `base` is history, the contract as it was found. Every
contract belongs to a tenant, and a request of another tenant does not find it.
A client publishes with the number and the ETag of
a version that a response showed it (`shown`). Contracts are addressed by id,
an ETag `"id-n"` is the number `n`. `Get`, `Check` and `List` only read.

In `Schema` a field name is an integer for its place in byte order, with a map
for what `TrimSpace` makes of it: the code sorts names as written and trims
them afterwards, and the model keeps that order of steps. A payload value is
its JSON class and its text. Whole numbers have three classes by size: inside
int64, 2^63 itself ("edge"), and further out ("huge"). `float64(int64(x)) == x`
(typecheck.go:107) is true of 2^63 where the processor's conversion saturates and
false where it does not, hence the parameter `saturates`.

### RuleEngine

Pure operators. What the libraries make of a text are constants: the number
`fmt.Sscan` reads from it, the texts a pattern matches, whether `TrimSpace` leaves
anything. `Passes` is `Execute` branch by branch, with what it does on missing and
null fields; `Evaluate` is the summary of the detailed results. `SortedByID` is the
stable sort by what it returns, applied to the places of the list that are wanted: to
sort all rules and skip the disabled ones, as the code does, gives the same list.

### RuleCatalog

`SetRules` and `ActivateRuleVersion` hold the mutex throughout and are one
action each. The failed activation is an action of its own, since
`Catalog.Activate` changes flags before it fails. The loop that `Put` runs over
the flags of older sets is `Flagged` with the new version.

### PolicyAPI

`PostRules`, `PostActivate` and `GetRules` are the handlers up to the end of their
first critical section; `AnswerActivate` and `AnswerRules` are the second read and
the response. `call` holds what a goroutine has read, and as history the oldest
version retained when it began and whether another request changed the policy
since.

### Gateway

The composition of cmd/gateway/main.go. `R`, `C` and `I` are instances of `Registry`,
`RuleCatalog` and `Ingestion` over one state: what `Ingestion` sees as the store and
the rules are the state functions `Contracts` and `Enforced` of the other two, so
`RegistryChanges` and `RulesChange` are replaced by the real components. Each
handler that changes state is an action named after it (`createContract`,
`addVersion`, `publish`, `setRules`, `activateRules`, `ingest`, `replay`); the
components' later steps follow in `RegistrySave`, `IngestStep` and `CountEvent`, the
last being the increment of a counter after `Publish` has returned.

`phase` is the life of the process: `Signal` closes the listener, `Stop` is a
`Shutdown` that found every request answered, `ShutdownFails` one whose timeout
expired first, `ListenFails` the exit of the serving goroutine. Requests that were
taken go on while the process drains. Some of them may not have been read yet: the
server sets no `ReadTimeout` (main.go:32), so a handler may wait in `Decode`
(server.go:178) for the rest of a body. `reading` counts them from the signal on. Each
may still be read and then call a component while the process drains (`Begin`), or
come to nothing (`Abandon`), and until then it keeps `Shutdown` waiting. A connection
that is open when the signal comes but has sent nothing counts as one without a request.
`ContractIDs` are the texts by which events and policies name contracts; they include
the drawn ids and may have a "/" of their own, which `Contracts` joins as the store does. Time stands still here;
`Ingestion` on its own has the clock, and by `ImplementsIngestion` what is shown
there holds here.

## 3. Runs

| Run | Checks | Instance | Distinct states |
|---|---|---|---|
| `Ingest_race` | `TypeOK`, `ReceiptsBacked`, `LineageIsCurrent`, `LettersMatchFailures`, `ReplayBudget`, `ReplayingIsInFlight`, `ReplayedWasAccepted`, `HistoryAppendOnly` | 2 goroutines, 2 keys and the key of a replay, one shared event id, contract and rule change at any time, 4 requests | 987,892 |
| `Ingest_quota` | `QuotaSpread`, `DuplicatesOwn`, `RefusalJustified` | 2 tenants, 3 keys, quota 2, window 2, clock to 3, 3 requests | 118,068 |
| `Ingest_sequential` | `QueryTypeOK`, `Idempotent`, `SummaryAddsUp`, `BatchResultsAudited`, `ImplementsLedger` | 1 goroutine, 3 requests, quota 2; clean, invalid, early, late and unrouted events, with and without ids, one under the key of a replay; batches of 2 letters | 245,697 |
| `Query_listing` | `ListingComplete`, `ReceiptAmongAttempts` | 2 goroutines, 3 requests, pages of 1 or 2 events, with and without a status filter; single events | 945,878 |
| `Registry_race` | `TypeOK`, `RevisionAccounts`, `TagsIdentify`, `ChainCompatible`, `OnlyStaleSavesLose` | 2 goroutines, 3 schemas, 2 versions | 165,057 |
| `Registry_sequential` | `VersionsSubstitutable`, `ImplementsHistory` | 1 goroutine, every one-field schema and pairs with a padded name | 24,165 |
| `Catalog_policies` | `APITypeOK`, `KeepsNewest`, `ActiveIsLive`, `LiveIsRetained`, `RulesNeverPanic`, `EvaluationUnambiguous`, `VersionsImmutable`, `HistoryExplainsRules`, `ActivationAnswered` | 1 contract, 3 clients, 5 policies, retention 2, 5 versions | 28,375 |
| `Gateway_composed` | `AcceptedWasPublished`, `MetricsAccount`, `CleanExit`, `ImplementsIngestion`, `RequestsComplete`, `SignalStops` | 1 ingest and 2 registry goroutines, 2 tenants, contract ids with and without a "/", 1 schema, 1 policy, quota 2, 3 requests, at most 1 half read at the signal | 138,894 |
| `Doc_*` | one documented statement each, violated (section 5) | the smallest instance that shows it | |

Why the bounds are enough for the cases that matter. Two goroutines are the
least that race, and every race in this code is between two: on a key, an event
id, a letter, a contract. Four requests allow two publications and two
overlapping replays of the letter one of them left, or a replay of the letter
that a replay left. A replay budget of 2 lets one failure return to `pending`
and the next poison. Quota 2 with a clock past one window has refusals, a window
that a late goroutine charges after it is over, and a request exactly one
window after the last. Three events are the fewest that leave one between a
page and a late commit or a moved cursor; a batch of 2 can name a letter twice,
and with the budget of 2 meet a spent one. Retention 2 with 5 versions pushes
versions out after a roll back to the oldest, and lets a third client drop, between
another's two reads, the version that the first read showed. In `Gateway_composed`
two registry goroutines overwrite each other's copies while one event is
validated; three requests are an event, its duplicate and its replay, or two
replays, or an event, its replay and a post under the key of that replay; the contract
may belong to the producer's tenant or to the one that the "/" in a contract id leads to.
Races between two ingestion goroutines are left to `Ingest_race`, to which
`ImplementsIngestion` ties the composition, and to the proofs, which have any number of
both. Symmetry is used for goroutines and, where only the quota matters, for keys; never
in the run with liveness.

`MaxTime`, `MaxRequests`, `MaxContracts`, `MaxVersions`, `MaxVersion` and `MaxReading` bound
counters that the code leaves unbounded; `MaxAge`, `MaxSkew`, `Window`,
`MaxReplays`, `MaxKeep` and `MaxQuota` are limits of the code with small values.
`Ingest_quota` and the registry runs switch the deadlock check off: there, all
goroutines idle with the bounds used up (no more clients, no more time) is a
legitimate end. So does `Gateway_composed`, whose process exits. The other runs
keep it on.

Fairness. `Gateway.Spec` asks weak fairness of the steps of each goroutine that has
taken a request (`IngestStep` or `CountEvent`, `RegistrySave`) and of `Stop`; not of
clients, operators, the signal or the shutdown timeout. The Go scheduler is
preemptive, the critical sections are short and make no calls that block,
`sync.Mutex` passes the lock to a waiter that has waited for 1 ms, and `Shutdown`
polls until no connection is active. `RequestsComplete` says with this that every
request is answered and counted and that a letter under replay comes out of it,
`SignalStops` that a signal ends the process without the help of the timeout once
every request has been read. There is no fairness on `Begin` or `Abandon`: a client that
never sends the rest of a body keeps the process draining until `ShutdownTimeout`, and
the model has that behaviour.

`ImplementsHistory` is a refinement: with one goroutine `Registry` implements
`ContractHistory` under the mapping `StoredHistory`. With two it does not (a
stale `Save` drops a version or takes a publication back), which is the
observation on lost updates in section 5; what survives the race is
`RevisionAccounts`, `TagsIdentify` and `ChainCompatible`, and that nothing else is
wrong: by `OnlyStaleSavesLose` every step but the `Save` of an outdated copy is still
a step of the abstract history.

`ListingComplete` and `SummaryAddsUp` state their conditions because the code
needs them: a replay moves its event in the order of a listing
(`Doc_cursor`); an event with receipts of both statuses may match a status filter
in one page and not in the next; and two concurrent requests with one key leave
the first event without any receipt, so that it is in no status. The last case is
why a replaced receipt counts as a disturbance: an event replayed with another
result has two receipts, and when the second of two requests with one key writes
over one of them the event leaves a status-filtered listing, its cursor is no
longer found and the listing starts over. It takes five requests, more than the run
has; it came to light because `ListingComplete` could not be proved without it.

`VersionsSubstitutable` compares the compatibility check with what
`ValidatePayload` then accepts. It names the changes that `compare` does not look
at (`Unchecked`), and says that outside `forward` mode there are no others, for
either way in which processors convert numbers at the edge of int64.

`HistoryExplainsRules` and `ReceiptAmongAttempts` depend on the order of two reads:
the one that can only fall behind comes first in the code, and each property's
mutant swaps them. `DuplicatesOwn` states the condition that makes joined keys
safe, equally many "/"-separated parts in every tenant. `AcceptedWasPublished` makes no
such condition: it names the contract by the joined key, whoever owns it, and says
that it is the tenant's own only for an id without a "/". `LineageIsCurrent` leaves open
how many attempts a lineage keeps: it forbids a lineage that tells of another contract,
of attempts that were not made or not of the last, and it holds of the code, which
keeps one (section 5), as it would if all were kept. `MetricsAccount` allows that a
client who posts under the key of a replay is answered with that replay's receipt, and
that this is counted.

## 4. Proofs

The eight `*Proofs` modules are checked by TLAPS for every value of the constants:
any number of goroutines, clients, requests, versions, schemas and policies, any
limits. The theorems rest on the named assumptions of the modules only:

* `QuotaAssumption`, `WindowAssumption`, `LimitAssumption`, `KeepAssumption`: limits
  are numbers, positive where `Load` or the code makes them so;
* `NameAssumption`, `RequestAssumption`, `RuleAssumption`, `PolicyAssumption`,
  `SubmittedAssumption`, `FilterAssumption`: what clients send is made of the
  declared sets;
* `TextAssumption`, `RuleTextAssumption`, `QueryAssumption`: what the libraries do with
  texts (trimming twice is trimming once, strings are totally ordered, a float is or
  is not read) as parameters;
* `NoneAssumption`, `UnreadAssumption`: the marks for "nothing" are no data;
* `RegistryAssumption`, `CatalogAssumption`, `ServiceAssumption` of `Gateway`: the
  assumptions of the three components, for the constants they share; what a
  component's assumptions say of its parameters is derived from them
  (`RegistryParameters`, `CatalogParameters`, `ServiceParameters`).

`Conforms` and `Holds` are arbitrary: the theorems about `Ingestion` hold for every
validation of payloads. Two hypotheses appear in theorems where the code needs them,
`OneAtATime` (one ingestion goroutine) and `OneClient` (one registry goroutine);
`Doc_idempotent` and `Doc_if_match` show what happens otherwise.

### Ingestion

* `IngestionTypes` (`TypeOK`). Not inductive as it stands: `ReplayBegin` reads
  `events[letters[l].event]`, and `SnapshotRules` the rules of the event's contract.
  `TypeInv` adds that a letter's event is stored and that a goroutine at the rules has
  a contract.
* `QuotaLimitsRate` (`QuotaSpread`), `RefusalsJustified` (`RefusalJustified`). `QuotaInv`
  ties `usage` to the history: the last `count` admissions of a tenant were
  charged to the current window's start, and of any `MaxQuota + 1` consecutive
  admissions the ends are a window apart. Nothing is assumed of the order in which
  goroutines get the mutex, so the stale time of a late one is covered.
* `ReceiptsAreBacked`, `LineagesAreCurrent` (`LineageIsCurrent`). Only `Commit` writes these maps; the two
  properties are inductive together, with `TypeInv`.
* `FailuresHaveLetters` (`LettersMatchFailures`). `LetterInv` adds that letters are numbered
  by draws, so that a new letter cannot take the place of an old one.
* `HistoryIsAppendOnly`: every step either leaves a sequence alone or appends.
* `DuplicatesAreOwn`. Every stored receipt has a log entry with its joined key
  (`SeenLogged`), and joining is injective when all tenants have equally many parts.
* `BudgetIsKept` (`ReplayBudget`), `NoLetterIsStranded` (`ReplayingIsInFlight`). `ReplayInv`
  counts: the audit trail's length plus the replays in flight is one more than twice
  the replays begun. `ReplayBudget` says nothing of a letter that is being replayed
  twice at once; the count does.
* `ReplayedMeansAccepted` (`ReplayedWasAccepted`). A replay could be answered as a
  duplicate of another request's event and end well without a record of its own.
  `KeysApart` excludes it: the parts of a replay's key are private to it until its
  event is stored (`Known`, `Private`), so that no request has it, although requests may
  repeat the keys of earlier replays. `OutcomeInv` carries the accepted record from
  `Commit` to `ReplayFinish`.
* `AdmissionsAccounted` (`AdmissionInv`): what a tenant was charged for is a record of
  that tenant or an event under validation. A goroutine takes its event unchanged from
  `Admit` to `Commit` (`StepMoves`), and a `Commit` adds an entry that the log does not have
  (`LogInv`), so that no two admissions share a record.
* `SequentiallyIdempotent` (`Idempotent`) and `ServiceImplementsLedger` (`ImplementsLedger`),
  under `OneAtATime`. `SerialInv`: a key in hand is not decided yet, a decided key
  has one attempt. For the refinement every step is shown to be a step of `EventLedger`
  or a stutter under the mapping `Decided`, `Buried`; `DrawsInv` bounds the drawn ids,
  which the ledger's keys are made of.

### Queries

* `QueriesLeaveServiceAlone`: `QuerySpec => Spec`, so all of the above holds with
  queries and batches running.
* `AnswersAgree` (`ReceiptAmongAttempts`). `ViewInv`: the attempt that the first read
  found stays among the attempts, which only grow.
* `BatchesTellTruth` (`BatchResultsAudited`). `BatchInv` adds that a goroutine in a batch
  is busy with the letter that comes next; without it a replay could report
  to the wrong letter. Audit trails only grow and a spent letter stays spent.
* `SummariesAddUp` (`SummaryAddsUp`), under `OneAtATime`: `ReceiptsKept`, every event
  has a receipt, since no request writes over another's.
* `ListingsAreComplete` (`ListingComplete`), for any number of goroutines. `WalkInv`: what
  has been listed is in order, what is still to come is after the cursor, and the
  cursor is among what will be found, as long as nothing disturbs the listing. A late
  commit of an early event may come before the cursor, and is not owed. Beneath it,
  `SortedLists`: `Sorted` lists every event found once and in order, and
  `IDsInv`: ids are drawn within the range that `IDRank` orders (a goroutine at work
  may still draw two).
* `QueryTypes` (`QueryTypeOK`).

### Registry and schemas

* `RegistryTypes`, `RevisionsAccount`, `TagsAreUnique`, `ChainsAreCompatible`. `RegistryInv`
  says that every copy in a goroutine's hands is sound, and one change away from a
  sound contract; so whatever is saved over whatever, the result is sound.
  For the chain, compatibility is checked on the schema as it was sent and must
  hold of what is stored: `StoredAsChecked` shows that canonical form does not matter
  when the stored versions are clean.
* `VersionsAreSubstitutable`: from the chain, `SafeMeansSubstitutable`, for every
  schema, padded and repeated names and every payload.
* `OnlyStaleSavesDepart` (`OnlyStaleSavesLose`) and, under `OneClient`,
  `SequentialImplementsHistory` (`ImplementsHistory`): a step is a step of
  `ContractHistory` unless it saves a stale copy, and one client's is never stale
  (`FreshInv`).
* `PublicationsWereShown` (`StoredWasShown`). `PublicationInv` adds what a goroutine holds:
  everything published in its copy was shown, or is the publication that it is
  about to save and show. A stale copy can therefore take a publication back, but never
  make one up.

### Rules

* `CatalogTypes`, `CatalogKeepsNewest`, `CatalogActiveIsLive`, `CatalogLiveIsRetained`,
  `CatalogVersionsImmutable`. The invariants are inductive together: that a version is
  found at one place only (`KeepsNewest`) is what makes the flag unique
  (`ActiveIsLive`), and a roll back to a retained version keeps the live policy retained.
* `EndpointsImplementCatalog`: `APISpec => Spec`, every step of a handler is one
  operation of the catalog or only a read, so that the theorems above hold for
  clients whose requests overlap.
* `RulesInForceRun` (`RulesNeverPanic`). Not inductive: an activation brings back a
  policy that was replaced long ago. `AllValid` adds that every retained policy
  passed validation.
* `EvaluationsAreUnambiguous` (`EvaluationUnambiguous`), from the same invariant, which
  makes ids distinct, and `SortedRules`: the sort rearranges its input.
* `HistoriesExplainRules`, `ActivationsAreAnswered`, `APITypes`. `CallInv`: what
  was read first is explained by the history as it is now, or a version was dropped
  since (`Explained`); an activation that was not overtaken is still in force. The
  step needs that a version leaves the history only when all that remain are newer
  (`RetainedOrDropped`).

Sorting is proved about without induction: the place of an item is the number of
items before it, places are distinct, and an injection of a finite set into one as
large is onto.

### The process

`GatewayProofs` takes the three components' proof modules by `INSTANCE`, with the
substitutions of `Gateway`, and adds what holds only of the whole:

* `GatewayKeepsContracts`, `GatewayKeepsPolicies`: every step of the process is a step of the
  registry, or of the catalog, or leaves it alone (`RegistrySteps`, `CatalogSteps`), so
  that `Spec` implies the specification of each and with it each of its theorems.
* `GatewayImplementsIngestion` (`ImplementsIngestion`). The service's store and rules are
  here state functions of the other components, so a `Save` or an activation has to
  be one `RegistryChanges` or `RulesChange` of `Ingestion`: it changes what the service
  sees of at most one contract (`StoreChange`, `PolicyChange`), to something of the
  right type. This needs the registry's invariant (a contract keeps its tenant), that
  two contracts, whose ids are drawn, never share a key of the store (`KeysTell`), and
  the catalog's types (`ComponentInv`). `GatewayKeepsRecords` then carries the safety theorems about
  `Ingestion` over.
* `AcceptedEventsWerePublished` (`AcceptedWasPublished`). `AcceptInv` adds the goroutines
  between `Lookup` and `Commit` that have found no fault: their event is valid for a
  version that was shown as published, of the contract under the key that it makes.
  `LookupFindsPublished` goes from that key to the one contract behind it, whose tenant
  is the event's when the id it names is a single part (`KeysTell` again), and by
  `PublicationInv` to the client that was shown the version; a version shown stays shown (`ValidStays`), although
  the store may lose it before the event is recorded.
* `MetricsAreAccounted` (`MetricsAccount`). `MetricsInv` counts the handlers that have yet to
  count, and sets the counters, the replays' records and the goroutines at work
  (`Busy`) against the requests taken. That no counter moves without a record
  of its status needs that every stored receipt has one (`LogInv`). A receipt that answers
  a duplicate may be a replay's.
* `ExitIsClean` (`CleanExit`). `ExitInv`: a stopped process has answered everything.
  With nothing under validation, `AdmissionInv` makes charges equal to records; with no
  replay in flight, `ReplayInv` leaves no letter in replay; with nothing to be counted,
  `MetricsInv` has every record counted.

Only model-checked: `RequestsComplete` and `SignalStops`, which are liveness under
fairness and outside the prover's reach. Every other property of the passing runs is
the statement of a theorem. The `Doc_*` statements are false.

## 5. Disagreements with the documents

Each with a run in which TLC shows it (`findings` in `PROJECT.json`):

* `Doc_idempotent`: two requests with one key pass the check before either is
  recorded; the event is processed twice.
* `Doc_signature`: a replay changes the idempotency key that the HMAC covers, so
  with a secret set no signed event can ever be replayed successfully.
* `Doc_if_match`: two concurrent `AddVersion` calls return one ETag for two
  schemas; a client publishes what it has not seen.
* `Doc_cursor`: the event that a cursor names is replayed between two pages and
  takes the cursor with it to the end of the order; the events between are
  skipped.

Observed in the same models, without a run of their own:

* an enum put on a field that had none is not reported as a change
  (model.go:165; README.md:13-14);
* activating an unknown version fails and leaves no version flagged active while
  the old rules stay in force (catalog.go:153-159; its comment at 96-97);
* a letter in state `replayed` or `replaying` can be replayed again and can end
  `poisoned` (deadletter/domain/model.go:35 tests only `poisoned` and the budget;
  README.md:88-89 draws a line of states);
* a failed replay files a new letter with a budget of its own, so the replays of
  an event are not bounded (service.go:97-102; README.md:19-20);
* the lineage is written anew by every attempt and keeps only the last
  (service.go:103; README.md:19);
* an event id that is used twice overwrites the stored event, across tenants
  too: the replay of a letter then publishes the later event (service.go:93, 209);
* quality rules are kept by contract id alone: any tenant that names the id sets
  the rules that another tenant's events are checked with, and rules can be set
  for a contract that does not exist (server.go:201-218, service.go:46-60);
* the counters `Rejected` and `ReplaySucceeded` are declared and never incremented
  (telemetry.go:11, 13), and a duplicate is counted again (server.go:193-198);
* a whole number of 2^63 is an integer on one processor and not on another
  (typecheck.go:107);
* keys joined with "/" coincide for tenants or keys that contain "/"
  (service.go:74, memory.go:19);
* a contract id is free text for producers: with a "/" in it, an event of one tenant may
  be validated by the contract of another (service.go:135, memory.go:19;
  docs/architecture.md:24);
* a replay's idempotency key is shown with its event; a client that posts under it is
  answered with the replay's receipt, and the counters count that (service.go:93, 210,
  server.go:193-198);
* a body that never ends keeps a shutdown waiting until `ShutdownTimeout`, after which
  the process exits with status 1 (main.go:32, 43-48);
* a stale `Save` takes a published version back (memory.go:39-48;
  README.md:85-87);
* `Canonical` sorts before it trims, so padded names give a schema and its
  canonical form different fingerprints (model.go:88-91; README.md:11-12), and
  two names that are equal once trimmed pass `Validate`;
* a required field may be removed in `forward` mode (model.go:152-156;
  docs/architecture.md:37);
* a required field with a default is let through as added or strengthened, but
  `ValidatePayload` never fills the default in (model.go:162, 174);
* `Summary.Duplicate` is always 0, since stored receipts are never marked
  (query.go:179; README.md:30-31).

## 6. What is left out

* Rule engine: durations; the timeout of a rule, which the code never reads.
* Payload validation: formatting of floats (a value's text is given with it), and
  values that JSON decoding cannot produce (byte slices, Go integers, NaN).
* Of the queries: the latencies of `Summary`, the partition and text filters, and
  `ListLetters`, `GetLineage`, `Quality`, `LineageSnapshot`, which read once.
  `ReplayMany`, `Letters`, `RuleResults`, `PruneExpiredLineage` and
  `MemoryContracts.List` have no caller.
* Contract ids with an escaped "/" in the paths of the registry's routes, which reach
  another tenant's contract as those in events do: `Registry` addresses contracts by
  number and tenant. What such a request does to the contract is what one of the owner
  does, which the model has.
* HTTP handlers that read once and encode, request decoding and status codes; the
  recovery from panics (by `RulesNeverPanic` no rule causes one).
* Configuration: read once; what `Load` guarantees, a positive quota, is
  `QuotaAssumption`. The worker process: it logs a tick and touches no state.
* Migrations, the protobuf and OpenAPI files: no Go code behind them.
* Durations, time stamps of audit entries, wording of reasons, actors.

## 7. Plan

Modelling is complete up to section 6, and every safety property of the
components and of the process is proved. What could be added:

1. `PolicyAPI` and `EventQuery` composed with `Gateway`, so that the reads of all handlers
   run beside each other; their theorems hold of the single components today;
2. a clock in `Gateway`, where time stands still;
3. the latencies of `Summary` and the text filter, if the code comes to rely on them.
