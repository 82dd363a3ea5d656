------------------------------- MODULE Gateway -------------------------------
(***************************************************************************)
(* The gateway process of cmd/gateway/main.go: the contract registry, the  *)
(* rule policies and the ingestion service behind the handlers of          *)
(* internal/platform/httpapi/server.go, with the counters of               *)
(* internal/platform/telemetry and the graceful shutdown.                  *)
(*                                                                         *)
(* The components share their state: what Ingestion sees as the store of   *)
(* contracts and the rules in force, and lets change at any time, are here *)
(* the registry's store and the live policies, and its payloads are those  *)
(* of Schema and RuleEngine.  Time stands still; Ingestion has the clock.  *)
(***************************************************************************)
EXTENDS Integers, Sequences, FiniteSets

CONSTANTS
    FieldNames, Trim, Types, Plain, Texts, Annotations,          \* of Schema
    Blank, Number, Pattern, Null, NullText, RuleIDs, RuleRank,   \* of RuleEngine
    Policies, MaxKeep, MaxVersion,                               \* of RuleCatalog
    Clients, Submitted, Requested, MaxContracts, MaxVersions,    \* of Registry
    Threads, Parts, Tenants, Keys, ClientIDs, Requests, Secret,  \* of Ingestion
    MaxQuota, MaxReplays, MaxRequests, None,
    ContractIDs,   \* the texts that clients name contracts by
    Payloads,      \* functions from field names to classes with their texts
    Saturates,     \* how the processor converts a float64 to an int64
    MaxReading     \* bound: requests still being read when the signal comes

VARIABLES
    store, writer, shown,               \* of Registry, whose job is the writer
    sets, latest, live,                 \* of RuleCatalog
    seen, events, attempts, letters,    \* of Ingestion
    lineages, usage, ids, job, requests, log, granted,
    tally,     \* the status each ingest handler has yet to count
    metrics,   \* telemetry.Metrics
    phase,     \* of the process
    reading    \* once the signal has come: requests taken whose body or path
               \* the handler has not finished reading

registry == <<store, writer, shown>>
policies == <<sets, latest, live>>
service == <<seen, events, attempts, letters, lineages, usage, ids, job, requests, log, granted>>
process == <<tally, metrics, phase>>
vars == <<registry, policies, service, process, reading>>

RulesSent == UNION {{rules[i] : i \in DOMAIN rules} : rules \in Policies}

R == INSTANCE Registry WITH job <- writer

C == INSTANCE RuleCatalog

(* What the components assume of these parameters, for the whole process.  *)
ASSUME RegistryAssumption ==
    /\ FieldNames \subseteq Int
    /\ Trim \in [FieldNames -> FieldNames] /\ \A n \in FieldNames : Trim[Trim[n]] = Trim[n]
    /\ Plain \in [Types -> Types] /\ \A t \in Types : Plain[Plain[t]] = Plain[t]
    /\ Submitted \subseteq R!SchemaType /\ Requested \subseteq R!Modes \cup {""}
    /\ MaxContracts \in Nat /\ MaxVersions \in Nat /\ MaxReading \in Nat
ASSUME CatalogAssumption ==
    /\ RuleRank \in [RuleIDs -> Int]
    /\ \A a, b \in RuleIDs : RuleRank[a] = RuleRank[b] => a = b
    /\ Blank \subseteq Texts /\ NullText \in Texts \ Blank
    /\ DOMAIN Number \subseteq Texts /\ \A t \in DOMAIN Number : Number[t] \in Int
    /\ DOMAIN Pattern \subseteq Texts /\ \A t \in DOMAIN Pattern : Pattern[t] \subseteq Texts
    /\ Policies \subseteq Seq(C!Rule) /\ MaxKeep \in Nat \ {0} /\ MaxVersion \in Nat
ASSUME ServiceAssumption ==
    /\ Tenants \cup Keys \cup ContractIDs \subseteq Seq(Parts \cup Nat)
    /\ {<<id>> : id \in 1 .. MaxContracts} \subseteq ContractIDs
    /\ MaxQuota \in Nat \ {0} /\ MaxReplays \in Nat \ {0} /\ MaxRequests \in Nat
    /\ Secret \in BOOLEAN /\ None \notin {"accepted", "dead_lettered"}
    /\ Requests \subseteq
         [tenant: Tenants, key: Keys, id: ClientIDs \cup {None},
          contract: ContractIDs \cup {None}, version: 1 .. MaxVersions,
          payload: Payloads, occurred: Int \cup {None}, signed: BOOLEAN]

-----------------------------------------------------------------------------
(* What validate asks the other components                                 *)

(* ValidatePayload; a null counts as missing.                              *)
Conforms(schema, payload) ==
    LET present == {n \in DOMAIN payload : payload[n].class # "null"} IN
    R!Accepts(schema, [n \in present |-> payload[n]], Saturates)

(* Rule.Execute                                                            *)
Holds(rule, payload) ==
    C!Passes(rule, [n \in DOMAIN payload |->
                       IF payload[n].class = "null" THEN Null ELSE payload[n].text])

MutPublishedAnyLifecycle(c) == [n \in DOMAIN c.versions |-> c.versions[n].schema]

MutPublishedByIndex(c) ==
    [n \in {i - 1 : i \in R!PublishedOf(c)} |-> c.versions[n + 1].schema]

(* The versions validate will find and let pass: by number, if published.  *)
Published(c) == [n \in R!PublishedOf(c) |-> c.versions[n].schema]

(* MemoryContracts.values under the keys tenant + "/" + id, where the id   *)
(* that an event names may have a "/" of its own.                          *)
Contracts ==
    [k \in {t \o c : t \in Tenants, c \in ContractIDs} |->
        IF \E id \in DOMAIN store : k = store[id].tenant \o <<id>>
        THEN Published(store[CHOOSE id \in DOMAIN store : k = store[id].tenant \o <<id>>])
        ELSE None]

(* The rules of s.rules that validate runs; the tenant plays no part.      *)
Enforced == [c \in ContractIDs |-> {live[c][i] : i \in {i \in DOMAIN live[c] : live[c][i].enabled}}]

I == INSTANCE Ingestion
       WITH contracts <- Contracts, rules <- Enforced, clock <- 0,
            Versions <- 1 .. MaxVersions, Rules <- RulesSent,
            Schemas <- {R!Canonical(s) : s \in Submitted},
            EmptyPayload <- [n \in {} |-> None],
            Window <- 1, MaxAge <- 0, MaxSkew <- 0, MaxTime <- 0

-----------------------------------------------------------------------------
Init ==
    /\ R!Init /\ C!Init
    /\ seen = I!EmptyMap /\ events = I!EmptyMap /\ attempts = I!EmptyMap
    /\ letters = I!EmptyMap /\ lineages = I!EmptyMap
    /\ usage = [t \in Tenants |-> [start |-> I!Never, count |-> 0]]
    /\ ids = 0 /\ requests = 0 /\ log = {}
    /\ job = [th \in Threads |-> I!IdleJob]
    /\ granted = [t \in Tenants |-> <<>>]
    /\ tally = [th \in Threads |-> None]
    /\ metrics = [accepted |-> 0, dead_lettered |-> 0]
    /\ phase = "serving"
    /\ reading = 0

Serving == phase = "serving"

(* A handler has read its request and calls a component.  Requests are     *)
(* taken until Shutdown closes the listener; one that was taken before is  *)
(* served when the client has sent the rest of it.                         *)
Begin ==
    \/ Serving /\ UNCHANGED reading
    \/ phase = "draining" /\ reading > 0 /\ reading' = reading - 1

MutRunningUntilSignal == phase = "serving"

Running == phase \in {"serving", "draining"}

(* The handlers of the registry's routes, up to Save.                      *)
createContract(cl) ==
    /\ Begin
    /\ \E t \in Tenants, mode \in Requested : R!Register(cl, t, mode)
    /\ UNCHANGED <<policies, service, process>>

addVersion(cl) ==
    /\ Begin
    /\ \E t \in Tenants, id \in DOMAIN store, schema \in Submitted :
          R!AddVersion(cl, t, id, schema)
    /\ UNCHANGED <<policies, service, process>>

publish(cl) ==
    /\ Begin
    /\ \E t \in Tenants, view \in shown : R!Publish(cl, t, view)
    /\ UNCHANGED <<policies, service, process>>

(* Save, and the response of addVersion or publish.                        *)
RegistrySave(cl) ==
    /\ Running
    /\ R!Save(cl)
    /\ UNCHANGED <<policies, service, process, reading>>

(* Neither handler asks whether the contract exists, or whose it is.       *)
setRules(c) ==
    /\ Begin
    /\ \E rules \in Policies : C!SetRules(c, rules)
    /\ UNCHANGED <<registry, service, process>>

activateRules(c) ==
    /\ Begin
    /\ \E version \in 1 .. MaxVersion :
          C!ActivateRuleVersion(c, version) \/ C!ActivateUnknownVersion(c, version)
    /\ UNCHANGED <<registry, service, process>>

(* ingest and replay, up to the call of the service.                       *)
ingest(th) ==
    /\ Begin
    /\ tally[th] = None
    /\ UNCHANGED <<registry, policies, process>>
    /\ \E r \in Requests : I!Receive(th, r)

replay(th) ==
    /\ Begin
    /\ tally[th] = None
    /\ UNCHANGED <<registry, policies, process>>
    /\ \E l \in DOMAIN letters : I!ReplayBegin(th, l)

MutToCountReplaysToo(th, status) == [tally EXCEPT ![th] = status]

(* Publish has returned a receipt: ingest counts it, replay does not.      *)
ToCount(th, status) ==
    IF job[th].letter = 0 THEN [tally EXCEPT ![th] = status] ELSE tally

IngestStep(th) ==
    /\ Running
    /\ UNCHANGED <<registry, policies, metrics, phase, reading>>
    /\ \/ /\ I!AnswerDuplicate(th)
          /\ tally' = ToCount(th, seen[I!SeenKey(job[th].event)].status)
       \/ /\ I!Commit(th)
          /\ tally' = ToCount(th, I!StatusOf(job[th].reasons))
       \/ /\ \/ I!RejectQuota(th) \/ I!Admit(th) \/ I!Lookup(th)
             \/ I!SnapshotRules(th) \/ I!ReplayFinish(th)
          /\ UNCHANGED tally

(* s.metrics.Accepted.Add(1) or DeadLettered.Add(1), and the response.     *)
CountEvent(th) ==
    /\ Running
    /\ tally[th] # None
    /\ metrics' = [metrics EXCEPT ![tally[th]] = @ + 1]
    /\ tally' = [tally EXCEPT ![th] = None]
    /\ UNCHANGED <<registry, policies, service, phase, reading>>

-----------------------------------------------------------------------------
(* main                                                                    *)

MutAllAnsweredCommitted ==
    /\ reading = 0
    /\ \A th \in Threads : job[th].step \in {"idle", "finish"}

(* Shutdown finds no connection with a request in flight.                  *)
AllAnswered ==
    /\ reading = 0
    /\ \A th \in Threads : job[th].step = "idle" /\ tally[th] = None
    /\ \A cl \in Clients : writer[cl] = R!Idle

Exit(from, to) ==
    /\ phase = from
    /\ phase' = to
    /\ UNCHANGED <<registry, policies, service, tally, metrics>>

(* SIGINT or SIGTERM, with any number of requests half read: the server    *)
(* sets no ReadTimeout, so that a client may take its time over a body.    *)
Signal == Exit("serving", "draining") /\ reading' \in 0 .. MaxReading

(* Such a request comes to nothing: the client is gone, what it sent is    *)
(* rejected, or the handler only reads.                                    *)
Abandon ==
    /\ phase = "draining" /\ reading > 0
    /\ reading' = reading - 1
    /\ UNCHANGED <<registry, policies, service, process>>

Stop == AllAnswered /\ Exit("draining", "stopped") /\ UNCHANGED reading

(* ShutdownTimeout is over before the last request is answered.            *)
ShutdownFails == ~AllAnswered /\ Exit("draining", "failed") /\ UNCHANGED reading

(* ListenAndServe returns an error other than ErrServerClosed.             *)
ListenFails == Exit("serving", "failed") /\ UNCHANGED reading

Next ==
    \/ \E cl \in Clients :
          createContract(cl) \/ addVersion(cl) \/ publish(cl) \/ RegistrySave(cl)
    \/ \E c \in ContractIDs : setRules(c) \/ activateRules(c)
    \/ \E th \in Threads : ingest(th) \/ replay(th) \/ IngestStep(th) \/ CountEvent(th)
    \/ Signal \/ Abandon \/ Stop \/ ShutdownFails \/ ListenFails

(* A goroutine that has read its request keeps running: the critical       *)
(* sections are short, and sync.Mutex hands the lock to a waiter that has  *)
(* starved.  Shutdown polls until nothing is in flight.  Nothing says that *)
(* a signal comes, that a client sends the rest of a request or that the   *)
(* timeout expires.                                                        *)
Spec ==
    /\ Init /\ [][Next]_vars
    /\ \A th \in Threads : WF_vars(IngestStep(th) \/ CountEvent(th))
    /\ \A cl \in Clients : WF_vars(RegistrySave(cl))
    /\ WF_vars(Stop)

-----------------------------------------------------------------------------
(* Properties                                                              *)

(* The composed system is an instance of Ingestion: whatever the registry, *)
(* the policies, the counters and the shutdown do is, to the ingestion     *)
(* service, one of the changes that Ingestion lets happen, so that what is *)
(* checked and proved there holds for the gateway.                         *)
ImplementsIngestion == I!Spec

(* An accepted event was valid for a version that some client was shown as *)
(* published, of the contract whose key is that of its tenant and contract *)
(* id: not for a draft, nor for a version of a copy that was never saved,  *)
(* however publications, stale saves and validations overlap               *)
(* (service.go:135-151, memory.go:19).  When the id it names is a single   *)
(* part, as drawn ids are, that is a contract of its own tenant; when it   *)
(* has a "/", the contract may be another tenant's.                        *)
AcceptedWasPublished ==
    \A x \in log : x.status = "accepted" =>
        \E v \in shown :
            /\ x.sent.tenant \o x.sent.contract = store[v.id].tenant \o <<v.id>>
            /\ Len(x.sent.contract) = 1 => store[v.id].tenant = x.sent.tenant
            /\ v.version.number = x.sent.version /\ v.version.lifecycle = "published"
            /\ Conforms(v.version.schema, x.sent.payload)

Processed(status) == Cardinality({x \in log : x.replayOf = 0 /\ x.status = status})

ToBeCounted(status) == Cardinality({th \in Threads : tally[th] = status})

(* The counters lag behind the records but lose nothing: every event that  *)
(* was recorded is counted or about to be, an outcome is counted only when *)
(* it is on record, and what is counted beyond the events are answers to   *)
(* duplicates, at most one for each request that is not a replay of which  *)
(* there is a record (server.go:184-199, 324-337).  The answer may repeat  *)
(* the receipt of a replay, whose key the event endpoints show.            *)
MetricsAccount ==
    /\ \A status \in {"accepted", "dead_lettered"} :
          metrics[status] + ToBeCounted(status) >= Processed(status)
    /\ \A status \in {"accepted", "dead_lettered"} :
          metrics[status] > 0 => \E x \in log : x.status = status
    /\ metrics.accepted + metrics.dead_lettered
          + Cardinality({x \in log : x.replayOf # 0}) <= requests

(* A gateway that exits with status 0 has left nothing half done: every    *)
(* admission that was charged to a quota has its record, every letter is   *)
(* out of replay, every record is counted, and no writer holds a copy of a *)
(* contract that it has not saved (main.go:40-48).                         *)
CleanExit ==
    phase = "stopped" =>
        /\ \A t \in Tenants : Len(granted[t]) = Cardinality({x \in log : x.sent.tenant = t})
        /\ \A l \in DOMAIN letters : letters[l].state # "replaying"
        /\ \A status \in {"accepted", "dead_lettered"} : metrics[status] >= Processed(status)
        /\ \A cl \in Clients : ~writer[cl].saving

Exited == phase \in {"stopped", "failed"}

(* Every request that a goroutine has taken is answered and counted, and   *)
(* leaves no letter behind in the replaying state: a letter under replay   *)
(* always comes out of it again.  Only an exit of the process cuts a       *)
(* request short (service.go:61-105, 198-220).                             *)
RequestsComplete ==
    \A th \in Threads :
        job[th].step # "idle" ~>
            \/ job[th].step = "idle" /\ tally[th] = None /\ I!ReplayingIsInFlight
            \/ Exited

(* Once every request has been read, a signal stops the gateway without    *)
(* the help of the timeout: nothing in flight waits for something that     *)
(* shutdown has ended.  A client that never finishes its body is cut off   *)
(* by the timeout alone (main.go:32, 40-48, server.go:178).                *)
SignalStops == phase = "draining" /\ reading = 0 ~> Exited
=============================================================================
