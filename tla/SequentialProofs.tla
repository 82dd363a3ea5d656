-------------------------- MODULE SequentialProofs --------------------------
(***************************************************************************)
(* What the ingestion service guarantees when requests are served one      *)
(* after the other: an idempotency key is processed once, and the service  *)
(* implements EventLedger.  The mutex is given up between the look at      *)
(* s.seen and the write to it (service.go:74, 94), so neither holds of     *)
(* requests that overlap.                                                  *)
(***************************************************************************)
EXTENDS ReplayProofs

OneAtATime == \A a, b \in Threads : a = b

(* A key in hand is not decided, a decided key has one attempt, and the    *)
(* letter that is being replayed says so.                                  *)
SerialInv ==
    /\ \A x \in log : SeenKey(x.sent) \in DOMAIN seen
    /\ \A x, y \in log : SeenKey(x.sent) = SeenKey(y.sent) => x = y
    /\ \A th \in Threads : job[th].step \in Validating =>
          SeenKey(job[th].event) \notin DOMAIN seen
    /\ \A th \in Threads : job[th].letter # 0 => letters[job[th].letter].state = "replaying"

(* A request draws at most three ids, two of them when it is recorded.     *)
DrawsInv ==
    /\ requests <= MaxRequests /\ ids <= 3 * requests
    /\ \A th \in Threads : job[th].step \in Validating \cup {"admit"} => ids + 2 <= 3 * requests

-----------------------------------------------------------------------------
(* Where a goroutine goes                                                  *)

(* When Publish returns, its goroutine validates no more.                  *)
LEMMA ReturnLeaves ==
    ASSUME TypeInv, NEW th \in Threads, NEW ok, Return(th, ok)
    PROVE  /\ job'[th].step \in {"idle", "finish"}
           /\ job'[th].letter = job[th].letter
<1>1. job \in [Threads -> Job]
  BY DEF TypeInv, TypeOK
<1>2. CASE job[th].letter = 0
  BY <1>1, <1>2 DEF Return, IdleJob
<1>3. CASE job[th].letter # 0
  BY <1>1, <1>3 DEF Return, Job
<1> QED BY <1>2, <1>3

(* The steps of a goroutine that touch nothing but its local state and the *)
(* quota.                                                                  *)
LEMMA LocalStep ==
    ASSUME TypeInv, NEW th \in Threads,
           AnswerDuplicate(th) \/ RejectQuota(th) \/ Admit(th) \/ Lookup(th) \/ SnapshotRules(th)
    PROVE  /\ UNCHANGED <<service, ids, requests, log>>
           /\ job'[th].letter = job[th].letter
           /\ job'[th].step \in Validating =>
                 /\ job'[th].event = job[th].event
                 /\ job[th].step \in Validating \/ SeenKey(job[th].event) \notin DOMAIN seen
           /\ job[th].step \in Validating \cup {"admit"} /\ job'[th].step # "admit"
<1>1. job \in [Threads -> Job]
  BY DEF TypeInv, TypeOK
<1>2. CASE AnswerDuplicate(th) \/ RejectQuota(th)
  <2>1. \E ok : Return(th, ok)
    BY <1>2 DEF AnswerDuplicate, RejectQuota
  <2>2. job'[th].step \in {"idle", "finish"} /\ job'[th].letter = job[th].letter
    BY <2>1, ReturnLeaves
  <2>3. job[th].step = "admit" /\ UNCHANGED <<service, ids, requests, log>>
    BY <1>2 DEF AnswerDuplicate, RejectQuota
  <2>4. job'[th].step \notin Validating
    BY <2>2 DEF Validating
  <2> QED BY <2>2, <2>3, <2>4
<1>3. CASE Admit(th)
  <2>1. /\ job[th].step = "admit" /\ SeenKey(job[th].event) \notin DOMAIN seen
        /\ job' = [job EXCEPT ![th].step = "lookup"]
        /\ UNCHANGED <<service, ids, requests, log>>
    BY <1>3 DEF Admit
  <2>2. /\ job'[th].step = "lookup" /\ job'[th].event = job[th].event
        /\ job'[th].letter = job[th].letter
    BY <1>1, <2>1 DEF Job
  <2> QED BY <2>1, <2>2 DEF Validating
<1>4. CASE Lookup(th)
  <2>1. job[th].step = "lookup" /\ UNCHANGED <<service, ids, requests, log>>
    BY <1>4 DEF Lookup
  <2>2. \E found, step :
           /\ step \in {"rules", "commit"}
           /\ job' = [job EXCEPT ![th] = [@ EXCEPT !.step = step, !.reasons = found]]
    BY <1>4 DEF Lookup
  <2>3. /\ job'[th].step \in {"rules", "commit"} /\ job'[th].event = job[th].event
        /\ job'[th].letter = job[th].letter
    BY <1>1, <2>2 DEF Job
  <2> QED BY <2>1, <2>3 DEF Validating
<1>5. CASE SnapshotRules(th)
  BY <1>1, <1>5 DEF SnapshotRules, Job, Validating
<1> QED BY <1>2, <1>3, <1>4, <1>5

-----------------------------------------------------------------------------
(* One attempt for a key                                                   *)

(* A local step keeps the key in hand undecided.                           *)
LEMMA LocalSerial ==
    ASSUME TypeInv, SerialInv, OneAtATime, NEW th \in Threads,
           AnswerDuplicate(th) \/ RejectQuota(th) \/ Admit(th) \/ Lookup(th) \/ SnapshotRules(th)
    PROVE  SerialInv'
<1>1. seen' = seen /\ log' = log /\ letters' = letters
  BY LocalStep DEF service
<1>2. \A x \in Threads : x = th
  BY DEF OneAtATime
<1>3. job'[th].step \in Validating => SeenKey(job'[th].event) \notin DOMAIN seen
  BY LocalStep DEF SerialInv
<1>4. job'[th].letter # 0 => letters[job'[th].letter].state = "replaying"
  BY LocalStep DEF SerialInv
<1> QED BY <1>1, <1>2, <1>3, <1>4 DEF SerialInv, SeenKey

(* A key is decided only while it is undecided.                            *)
LEMMA CommitSerial ==
    ASSUME TypeInv, LetterInv, ReplayInv, SerialInv, OneAtATime, NEW th \in Threads, Commit(th)
    PROVE  SerialInv'
<1>1. PICK x \in LogEntry : Records(x) /\ x.sent = job[th].event /\ Return(th, ~Failure(x))
  BY CommitRecords
<1>2. job[th].step \in Validating
  BY DEF Commit, Validating
<1>3. SeenKey(x.sent) \notin DOMAIN seen
  BY <1>1, <1>2 DEF SerialInv
<1>4. DOMAIN seen' = DOMAIN seen \cup {SeenKey(x.sent)} /\ log' = log \cup {x}
  BY <1>1 DEF Records, Put
<1>5. job'[th].step \in {"idle", "finish"} /\ job'[th].letter = job[th].letter
  BY <1>1, ReturnLeaves
<1>6. \A y \in Threads : y = th
  BY DEF OneAtATime
<1>7. \A y \in log' : SeenKey(y.sent) \in DOMAIN seen'
  BY <1>4 DEF SerialInv
<1>8. \A y, z \in log' : SeenKey(y.sent) = SeenKey(z.sent) => y = z
  <2>1. \A y \in log : SeenKey(y.sent) # SeenKey(x.sent)
    BY <1>3 DEF SerialInv
  <2> QED BY <1>4, <2>1 DEF SerialInv
<1>9. job'[th].letter # 0 => letters'[job'[th].letter].state = "replaying"
  <2>1. job[th].letter # 0 =>
           job[th].letter \in DOMAIN letters /\ letters[job[th].letter].state = "replaying"
    BY DEF ReplayInv, ReplaysNamed, SerialInv
  <2>2. \A l \in DOMAIN letters : letters'[l] = letters[l]
    BY <1>1, LettersGrow DEF LetterInv
  <2> QED BY <1>5, <2>1, <2>2
<1>10. \A y \in Threads : job'[y].step \notin Validating
  BY <1>5, <1>6 DEF Validating
<1> QED BY <1>6, <1>7, <1>8, <1>9, <1>10 DEF SerialInv, SeenKey

(* A replay begins or ends.                                                *)
LEMMA ReplaySerial ==
    ASSUME TypeInv, SerialInv, OneAtATime, NEW th \in Threads,
           (\E l \in DOMAIN letters : ReplayBegin(th, l)) \/ ReplayFinish(th)
    PROVE  SerialInv'
<1>1. job \in [Threads -> Job]
  BY DEF TypeInv, TypeOK
<1>2. \A y \in Threads : y = th
  BY DEF OneAtATime
<1>3. seen' = seen /\ log' = log
  BY DEF ReplayBegin, ReplayFinish
<1>4. job'[th].step \notin Validating
  <2>1. ReplayFinish(th) => job'[th].step = "idle"
    BY <1>1 DEF ReplayFinish, IdleJob
  <2>2. ASSUME NEW l \in DOMAIN letters, ReplayBegin(th, l)
        PROVE  job'[th].step = "admit"
    BY <1>1, <2>2 DEF ReplayBegin, IdleJob
  <2> QED BY <2>1, <2>2 DEF Validating
<1>5. job'[th].letter # 0 => letters'[job'[th].letter].state = "replaying"
  <2>1. CASE ReplayFinish(th)
    BY <1>1, <2>1 DEF ReplayFinish, IdleJob
  <2>2. ASSUME NEW l \in DOMAIN letters, ReplayBegin(th, l)
        PROVE  job'[th].letter = l /\ letters'[l].state = "replaying"
    <3>1. letters[l] \in Letter
      BY DEF TypeInv, TypeOK
    <3> QED BY <1>1, <2>2, <3>1 DEF ReplayBegin, IdleJob, BeginReplay, Letter
  <2> QED BY <2>1, <2>2
<1> QED BY <1>2, <1>3, <1>4, <1>5 DEF SerialInv, SeenKey

(* Every step keeps the keys decided once.                                 *)
LEMMA SerialStep ==
    ASSUME OneAtATime
    PROVE  TypeInv /\ LetterInv /\ ReplayInv /\ SerialInv /\ [Next]_vars => SerialInv'
<1> SUFFICES ASSUME TypeInv, LetterInv, ReplayInv, SerialInv, [Next]_vars PROVE SerialInv'
  OBVIOUS
<1>1. ASSUME NEW th \in Threads, NEW r \in Requests, Receive(th, r)
      PROVE  SerialInv'
  <2>1. seen' = seen /\ log' = log /\ letters' = letters
    BY <1>1 DEF Receive, service
  <2>2. job'[th].step \notin Validating /\ job'[th].letter = 0
    BY <1>1 DEF Receive, IdleJob, Validating, TypeInv, TypeOK
  <2>3. \A y \in Threads : y = th
    BY DEF OneAtATime
  <2> QED BY <2>1, <2>2, <2>3 DEF SerialInv, SeenKey
<1>2. CASE \E th \in Threads, l \in DOMAIN letters : ReplayBegin(th, l)
  BY <1>2, ReplaySerial
<1>3. CASE \E th \in Threads : ThreadStep(th)
  BY <1>3, LocalSerial, CommitSerial, ReplaySerial DEF ThreadStep
<1>4. CASE UNCHANGED <<seen, log, letters, job>>
  BY <1>4 DEF SerialInv, SeenKey
<1> QED
  BY <1>1, <1>2, <1>3, <1>4 DEF Next, RegistryChanges, RulesChange, Tick, vars, service

(* Keys are decided once, always.                                          *)
LEMMA SerialInvariant ==
    ASSUME OneAtATime
    PROVE  Spec => []SerialInv
<1>1. Init => SerialInv
  BY DEF Init, SerialInv, IdleJob, EmptyMap, Validating
<1> QED
  BY <1>1, SerialStep, TypeInvariant, LettersInvariant, ReplayInvariant, PTL DEF Spec

(* Served one after the other, requests of a tenant under one idempotency  *)
(* key are processed once (README.md:16-18), replays included: their keys  *)
(* are never those of a request.                                           *)
THEOREM SequentiallyIdempotent ==
    ASSUME OneAtATime
    PROVE  Spec => []Idempotent
<1>1. SerialInv => Idempotent
  BY DEF SerialInv, Idempotent, SeenKey
<1> QED BY <1>1, SerialInvariant, PTL

-----------------------------------------------------------------------------
(* How many ids are drawn                                                  *)

(* Every step keeps the count of the draws.                                *)
LEMMA DrawsStep ==
    ASSUME OneAtATime
    PROVE  TypeInv /\ DrawsInv /\ [Next]_vars => DrawsInv'
<1> SUFFICES ASSUME TypeInv, DrawsInv, [Next]_vars PROVE DrawsInv'
  OBVIOUS
<1>1. ids \in Nat /\ requests \in Nat /\ MaxRequests \in Nat /\ job \in [Threads -> Job]
  BY LimitAssumption DEF TypeInv, TypeOK
<1>2. ASSUME NEW th \in Threads,
             requests < MaxRequests, requests' = requests + 1, ids' = ids \/ ids' = ids + 1
      PROVE  DrawsInv'
  <2>1. requests' <= MaxRequests /\ ids' + 2 <= 3 * requests' /\ ids' <= 3 * requests'
    BY <1>1, <1>2 DEF DrawsInv
  <2> QED BY <2>1 DEF DrawsInv
<1>3. CASE \E th \in Threads, r \in Requests : Receive(th, r)
  BY <1>2, <1>3 DEF Receive
<1>4. CASE \E th \in Threads, l \in DOMAIN letters : ReplayBegin(th, l)
  BY <1>2, <1>4 DEF ReplayBegin
<1>5. ASSUME NEW th \in Threads, Commit(th)
      PROVE  DrawsInv'
  <2>1. PICK x \in LogEntry : Records(x) /\ Return(th, ~Failure(x))
    BY <1>5, CommitRecords
  <2>2. job'[th].step \in {"idle", "finish"}
    BY <2>1, ReturnLeaves
  <2>3. ids + 2 <= 3 * requests
    BY <1>5 DEF Commit, DrawsInv, Validating
  <2>4. ids' \in Nat /\ ids' <= ids + 2 /\ requests' = requests
    BY <1>1, <1>5, <2>1 DEF Records, Commit
  <2>5. ids' <= 3 * requests'
    BY <1>1, <2>3, <2>4
  <2>6. \A y \in Threads : job'[y].step \notin Validating \cup {"admit"}
    BY <2>2 DEF OneAtATime, Validating
  <2> QED BY <2>4, <2>5, <2>6 DEF DrawsInv
<1>6. ASSUME NEW th \in Threads,
             AnswerDuplicate(th) \/ RejectQuota(th) \/ Admit(th) \/ Lookup(th) \/ SnapshotRules(th)
      PROVE  DrawsInv'
  <2>1. ids' = ids /\ requests' = requests /\ job[th].step \in Validating \cup {"admit"}
    BY <1>6, LocalStep
  <2> QED BY <2>1 DEF DrawsInv, OneAtATime
<1>7. ASSUME NEW th \in Threads, ReplayFinish(th)
      PROVE  DrawsInv'
  <2>1. ids' = ids /\ requests' = requests /\ job'[th].step = "idle"
    BY <1>1, <1>7 DEF ReplayFinish, IdleJob
  <2> QED BY <2>1 DEF DrawsInv, OneAtATime, Validating
<1>8. CASE UNCHANGED <<ids, requests, job>>
  BY <1>8 DEF DrawsInv
<1> QED
  BY <1>3, <1>4, <1>5, <1>6, <1>7, <1>8 DEF Next, ThreadStep, RegistryChanges, RulesChange, Tick, vars

(* The count of the draws is right always.                                 *)
LEMMA DrawsInvariant ==
    ASSUME OneAtATime
    PROVE  Spec => []DrawsInv
<1>1. Init => DrawsInv
  BY LimitAssumption DEF Init, DrawsInv, IdleJob, Validating
<1> QED BY <1>1, DrawsStep, TypeInvariant, PTL DEF Spec

-----------------------------------------------------------------------------
(* The service implements the ledger                                       *)

LedgerInv ==
    TypeInv /\ LetterInv /\ ReplayInv /\ KeysApart /\ SerialInv /\ DrawsInv

Decided == [k \in DOMAIN seen |-> seen[k].status]

Buried == [l \in DOMAIN letters |->
             [state |-> letters[l].state, attempts |-> letters[l].attempts]]

(* A step that leaves the decisions and the letters alone is a stutter.    *)
LEMMA LedgerStutter ==
    ASSUME UNCHANGED <<seen, letters>>
    PROVE  Decided' = Decided /\ Buried' = Buried
  BY DEF Decided, Buried

(* The names the ledger knows keys by.                                     *)
DrawnNames == {<<n>> : n \in 1 .. 3 * MaxRequests}

LedgerNames == {t \o k : t \in Tenants, k \in Keys \cup DrawnNames}

(* The key that is decided is one of the ledger's.                         *)
LEMMA LedgerKeys ==
    ASSUME LedgerInv, NEW th \in Threads, job[th].step = "commit"
    PROVE  SeenKey(job[th].event) \in LedgerNames
<1>1. job[th].event.tenant \in Tenants
  BY DEF LedgerInv, TypeInv, TypeOK, Event
<1>2. /\ ids \in Nat /\ requests \in Nat /\ MaxRequests \in Nat
      /\ requests <= MaxRequests /\ ids <= 3 * requests
  BY LimitAssumption DEF LedgerInv, TypeInv, TypeOK, DrawsInv
<1>3. job[th].event.key \in Keys \/ \E n \in 1 .. ids : job[th].event.key = <<n>>
  BY DEF LedgerInv, KeysApart, DrawnKey
<1>4. \A n \in 1 .. ids : n \in 1 .. 3 * MaxRequests
  BY <1>2
<1>5. job[th].event.key \in Keys \cup DrawnNames
  BY <1>3, <1>4 DEF DrawnNames
<1>6. \A t \in Tenants, k \in Keys \cup DrawnNames : t \o k \in LedgerNames
  BY DEF LedgerNames
<1> QED BY <1>1, <1>5, <1>6 DEF SeenKey

(* Recording an attempt decides a key of the ledger, once.                 *)
LEMMA CommitIsDecision ==
    ASSUME LedgerInv, NEW th \in Threads, Commit(th)
    PROVE  Ledger!Next
<1>1. PICK x \in LogEntry : Records(x) /\ x.sent = job[th].event
  BY CommitRecords DEF LedgerInv
<1>2. PICK k : k = SeenKey(x.sent)
  OBVIOUS
<1>3. k \in LedgerNames
  <2>1. job[th].step = "commit" /\ k = SeenKey(job[th].event)
    BY <1>1, <1>2 DEF Commit
  <2> QED BY <2>1, LedgerKeys
<1>4. k \notin DOMAIN seen
  BY <1>1, <1>2 DEF LedgerInv, SerialInv, Commit, Validating
<1>5. Decided' = Ledger!With(Decided, k, x.status) /\ k \notin DOMAIN Decided
  <2>1. seen' = Put(seen, k, ReceiptOf(x)) /\ ReceiptOf(x).status = x.status
    BY <1>1, <1>2 DEF Records, ReceiptOf
  <2> QED BY <1>4, <2>1 DEF Decided, Put, Ledger!With
<1>6. CASE Failure(x)
  <2>1. PICK l : l = x.letter
    OBVIOUS
  <2>2. l \in 1 .. 3 * MaxRequests /\ l \notin DOMAIN letters
    <3>1. /\ ids \in Nat /\ requests \in Nat /\ MaxRequests \in Nat
          /\ requests <= MaxRequests /\ ids + 2 <= 3 * requests
      BY LimitAssumption DEF LedgerInv, TypeInv, TypeOK, DrawsInv, Commit, Validating
    <3>2. l = ids + 2
      BY <1>1, <1>6, <2>1 DEF Records
    <3>3. \A m \in DOMAIN letters : m # l
      BY <1>1, <2>1, LettersGrow DEF LedgerInv, LetterInv
    <3> QED BY <3>1, <3>2, <3>3
  <2>3. Buried' = Ledger!With(Buried, l, [state |-> "pending", attempts |-> 0])
    <3>1. letters' = Put(letters, l, NewLetter(x.sent))
      BY <1>1, <1>6, <2>1 DEF Records, LettersWith
    <3>2. NewLetter(x.sent).state = "pending" /\ NewLetter(x.sent).attempts = 0
      BY DEF NewLetter
    <3> QED BY <2>2, <3>1, <3>2 DEF Buried, Put, Ledger!With
  <2>4. l \notin DOMAIN Buried
    BY <2>2 DEF Buried
  <2>5. x.status = "dead_lettered"
    BY <1>6 DEF Failure
  <2>6. Ledger!Bury(k)
    BY <1>5, <2>2, <2>3, <2>4, <2>5 DEF Ledger!Bury, Decided, Buried
  <2> QED BY <1>3, <2>6 DEF Ledger!Next, LedgerNames, DrawnNames
<1>7. CASE ~Failure(x)
  <2>1. letters' = letters
    BY <1>1, <1>7 DEF Records, LettersWith
  <2>2. Buried' = Buried
    BY <2>1 DEF Buried
  <2>3. x.status = "accepted"
    BY <1>7 DEF Failure, LogEntry, Statuses
  <2>4. Ledger!Accept(k)
    BY <1>5, <2>2, <2>3 DEF Ledger!Accept, Decided, Buried
  <2> QED BY <1>3, <2>4 DEF Ledger!Next, LedgerNames, DrawnNames
<1> QED BY <1>6, <1>7

(* A goroutine that is free to replay a letter is the only one: no letter  *)
(* is being replayed when the next replay begins.                          *)
LEMMA ReplayBeginIsLedger ==
    ASSUME LedgerInv, OneAtATime, NEW th \in Threads, NEW l \in DOMAIN letters, ReplayBegin(th, l)
    PROVE  Ledger!Next
<1>1. letters \in [DOMAIN letters -> Letter] /\ DOMAIN letters \subseteq Nat \ {0}
  BY DEF LedgerInv, TypeInv, TypeOK
<1>2. DOMAIN Buried = DOMAIN letters
  BY DEF Buried
<1>3. \A m \in DOMAIN Buried : Buried[m].state # "replaying"
  <2>1. job[th].letter = 0
    BY DEF LedgerInv, ReplayInv, ReplaysNamed, ReplayBegin
  <2>2. \A m \in DOMAIN letters : InFlight(m) = {}
    BY <1>1, <2>1 DEF InFlight, OneAtATime
  <2>3. \A m \in DOMAIN letters : letters[m].state # "replaying"
    BY <2>2 DEF LedgerInv, ReplayInv, Budgeted
  <2> QED BY <2>3 DEF Buried
<1>4. /\ Buried[l].state # "poisoned" /\ Buried[l].attempts < MaxReplays
      /\ Buried[l].state = letters[l].state /\ Buried[l].attempts = letters[l].attempts
  BY DEF Buried, LedgerInv, ReplayInv, Budgeted, ReplayBegin, CanReplay
<1>5. letters' = [letters EXCEPT ![l] = BeginReplay(letters[l])]
  BY DEF ReplayBegin
<1>6. /\ BeginReplay(letters[l]).state = "replaying"
      /\ BeginReplay(letters[l]).attempts = letters[l].attempts + 1
  BY <1>1 DEF BeginReplay, Letter
<1>7. Buried' = [Buried EXCEPT ![l] = [state |-> "replaying", attempts |-> Buried[l].attempts + 1]]
  BY <1>1, <1>4, <1>5, <1>6 DEF Buried
<1>8. Decided' = Decided
  BY DEF ReplayBegin, Decided
<1>9. Ledger!BeginReplay(l)
  BY <1>3, <1>4, <1>7, <1>8 DEF Ledger!BeginReplay, Buried, Decided
<1> QED BY <1>2, <1>9 DEF Ledger!Next, Buried

(* The end of a replay gives the letter the state the ledger foresees.     *)
LEMMA ReplayFinishIsLedger ==
    ASSUME LedgerInv, NEW th \in Threads, ReplayFinish(th)
    PROVE  Ledger!Next
<1>1. letters \in [DOMAIN letters -> Letter]
  BY DEF LedgerInv, TypeInv, TypeOK
<1>2. PICK l, ok : l = job[th].letter /\ ok = job[th].ok
  OBVIOUS
<1>3. l \in DOMAIN letters /\ letters[l].state = "replaying" /\ ok \in BOOLEAN
  BY <1>2 DEF LedgerInv, SerialInv, ReplayInv, ReplaysNamed, ReplayFinish, TypeInv, TypeOK, Job
<1>4. letters' = [letters EXCEPT ![l] = FinishReplay(letters[l], ok)]
  BY <1>2 DEF ReplayFinish
<1>5. /\ letters[l].max = MaxReplays /\ letters[l].attempts <= MaxReplays
      /\ letters[l].attempts \in Nat /\ MaxReplays \in Nat
  BY <1>1, <1>3, LimitAssumption DEF LedgerInv, ReplayInv, Budgeted, Letter
<1>6. PICK state \in {"replayed",
                      IF letters[l].attempts = MaxReplays THEN "poisoned" ELSE "pending"} :
           /\ FinishReplay(letters[l], ok).state = state
           /\ FinishReplay(letters[l], ok).attempts = letters[l].attempts
  BY <1>1, <1>3, <1>5 DEF FinishReplay, Letter
<1>7. /\ DOMAIN Buried = DOMAIN letters
      /\ Buried[l] = [state |-> "replaying", attempts |-> letters[l].attempts]
  BY <1>3 DEF Buried
<1>8. Buried' = [Buried EXCEPT ![l].state = state]
  <2>1. Buried' = [Buried EXCEPT ![l] = [state |-> state, attempts |-> letters[l].attempts]]
    BY <1>1, <1>3, <1>4, <1>6 DEF Buried
  <2>2. [Buried[l] EXCEPT !.state = state] = [state |-> state, attempts |-> letters[l].attempts]
    BY <1>7
  <2> QED BY <2>1, <2>2
<1>9. Decided' = Decided
  BY DEF ReplayFinish, Decided
<1>10. Ledger!EndReplay(l)
  <2>1. Buried[l].state = "replaying" /\ Buried[l].attempts = letters[l].attempts
    BY <1>7
  <2> QED BY <1>6, <1>8, <1>9, <2>1 DEF Ledger!EndReplay, Buried, Decided
<1> QED BY <1>3, <1>10 DEF Ledger!Next

(* Served one after the other, whatever the registry and the policies do   *)
(* meanwhile, requests keep the promises of EventLedger: a key is decided  *)
(* once and for all, together with the letter of its failure, and letters  *)
(* are replayed within their budget and one at a time                      *)
(* (service.go:58-105, 194-224).                                           *)
THEOREM ServiceImplementsLedger ==
    ASSUME OneAtATime
    PROVE  Spec => ImplementsLedger
<1>1. Init => Ledger!Init
  BY DEF Init, EmptyMap, Ledger!Init
<1>2. LedgerInv /\ [Next]_vars => [Ledger!Next]_<<Decided, Buried>>
  <2> SUFFICES ASSUME LedgerInv, [Next]_vars
               PROVE  Ledger!Next \/ (Decided' = Decided /\ Buried' = Buried)
    OBVIOUS
  <2>1. CASE \E th \in Threads, l \in DOMAIN letters : ReplayBegin(th, l)
    BY <2>1, ReplayBeginIsLedger
  <2>2. CASE \E th \in Threads : Commit(th)
    BY <2>2, CommitIsDecision
  <2>3. CASE \E th \in Threads : ReplayFinish(th)
    BY <2>3, ReplayFinishIsLedger
  <2>4. CASE UNCHANGED <<seen, letters>>
    BY <2>4, LedgerStutter
  <2> QED
    BY <2>1, <2>2, <2>3, <2>4
    DEF Next, ThreadStep, Receive, AnswerDuplicate, RejectQuota, Admit, Lookup, SnapshotRules,
        RegistryChanges, RulesChange, Tick, vars, service
<1>3. Spec => []LedgerInv
  BY TypeInvariant, LettersInvariant, ReplayInvariant, KeysInvariant, SerialInvariant,
     DrawsInvariant, PTL DEF LedgerInv
<1> QED BY <1>1, <1>2, <1>3, PTL DEF Spec, ImplementsLedger, Ledger!Spec, Decided, Buried

=============================================================================
