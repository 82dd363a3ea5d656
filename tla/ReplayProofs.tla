---------------------------- MODULE ReplayProofs ----------------------------
(***************************************************************************)
(* Theorems about the replay of dead letters: however many operators       *)
(* replay a letter at once, its budget holds, it is never left behind as   *)
(* replaying, and it is reported as replayed only for an accepted replay.  *)
(***************************************************************************)
EXTENDS IngestionProofs, FiniteSetTheorems

-----------------------------------------------------------------------------
(* Replays in flight                                                       *)

(* A goroutine that replays names a letter that is there; one that does    *)
(* not has nothing to finish.                                              *)
ReplaysNamed ==
    \A th \in Threads :
        /\ job[th].step = "idle" => job[th].letter = 0
        /\ job[th].step = "finish" => job[th].letter # 0
        /\ job[th].letter # 0 => job[th].letter \in DOMAIN letters

(* What a letter tells of its replays, given those that are in flight.     *)
Budgeted(l, flight) ==
    /\ l.max = MaxReplays /\ l.attempts <= MaxReplays
    /\ IsFiniteSet(flight)
    /\ Len(l.audit) + Cardinality(flight) = 1 + 2 * l.attempts
    /\ l.state = "poisoned" => l.attempts = MaxReplays
    /\ l.state = "replaying" => flight # {}

ReplayInv == ReplaysNamed /\ \A l \in DOMAIN letters : Budgeted(letters[l], InFlight(l))

(* A new service replays nothing.                                          *)
LEMMA ReplayInit == Init => ReplayInv
  BY DEF Init, ReplayInv, ReplaysNamed, EmptyMap, IdleJob

(* Clients knew every part of the tenant and the key of the event.         *)
Known(e) == \A p \in Range(SeenKey(e)) : ~Private(p)

(* What the steps of Publish leave of a goroutine's work: the letter it    *)
(* replays, the event it works on, and a replay that has only to finish.   *)
Carries(x) ==
    /\ job'[x].letter = job[x].letter
    /\ job'[x].step = "idle" => job'[x].letter = 0
    /\ job'[x].step = "finish" => job'[x].letter # 0
    /\ job'[x].step # "idle" =>
          IF job[x].step = "idle"
          THEN /\ job'[x].event.key \in Keys
               /\ \A p \in Range(SeenKey(job'[x].event)) : ~Private(p)
          ELSE job'[x].event = job[x].event
    /\ job[x].step = "finish" => job'[x] = job[x]

(* Publish never changes which letter a goroutine replays.                 *)
LEMMA FlightsKept ==
    ASSUME TypeInv, ReplaysNamed, [Next]_vars,
           ~ \E th \in Threads, l \in DOMAIN letters : ReplayBegin(th, l),
           ~ \E th \in Threads : ReplayFinish(th),
           NEW x \in Threads
    PROVE  Carries(x)
<1>1. /\ job \in [Threads -> Job]
      /\ job[x].step = "idle" => job[x].letter = 0
      /\ job[x].step = "finish" => job[x].letter # 0
  BY DEF TypeInv, TypeOK, ReplaysNamed
<1>2. ASSUME NEW th \in Threads, NEW ok, Return(th, ok), job[th].step \notin {"idle", "finish"}
      PROVE  Carries(x)
  <2>1. CASE x = th /\ job[th].letter = 0
    BY <1>1, <1>2, <2>1 DEF Return, IdleJob, Carries
  <2>2. CASE x = th /\ job[th].letter # 0
    BY <1>1, <1>2, <2>2 DEF Return, Job, Carries
  <2>3. CASE x # th
    BY <1>1, <1>2, <2>3 DEF Return, Carries
  <2> QED BY <2>1, <2>2, <2>3
<1>3. ASSUME NEW th \in Threads, NEW step \in {"lookup", "rules", "commit"}, NEW reasons,
             job[th].step \notin {"idle", "finish"},
             job' = [job EXCEPT ![th] = [@ EXCEPT !.step = step, !.reasons = reasons]]
      PROVE  Carries(x)
  BY <1>1, <1>3 DEF Job, Carries
<1>4. ASSUME NEW th \in Threads, NEW r \in Requests, Receive(th, r)
      PROVE  Carries(x)
  <2>1. Arrived(r).key \in Keys /\ \A p \in Range(SeenKey(Arrived(r))) : ~Private(p)
    BY <1>4, RequestAssumption DEF Arrived, Receive, SeenKey
  <2>2. CASE x = th
    BY <1>1, <1>4, <2>1, <2>2 DEF Receive, IdleJob, Carries
  <2>3. CASE x # th
    BY <1>1, <1>4, <2>3 DEF Receive, Carries
  <2> QED BY <2>2, <2>3
<1>5. ASSUME NEW th \in Threads, ThreadStep(th)
      PROVE  Carries(x)
  <2>1. CASE AnswerDuplicate(th) \/ RejectQuota(th) \/ Commit(th)
    <3>1. job[th].step \notin {"idle", "finish"} /\ \E ok : Return(th, ok)
      BY <2>1 DEF AnswerDuplicate, RejectQuota, Commit
    <3> QED BY <1>2, <3>1
  <2>2. CASE Admit(th)
    BY <1>1, <2>2 DEF Admit, Job, Carries
  <2>3. CASE Lookup(th)
    <3>1. job[th].step \notin {"idle", "finish"}
      BY <2>3 DEF Lookup
    <3>2. \E step \in {"lookup", "rules", "commit"} : \E reasons :
             job' = [job EXCEPT ![th] = [@ EXCEPT !.step = step, !.reasons = reasons]]
      BY <2>3 DEF Lookup
    <3> QED BY <1>3, <3>1, <3>2
  <2>4. CASE SnapshotRules(th)
    <3>1. job[th].step \notin {"idle", "finish"}
      BY <2>4 DEF SnapshotRules
    <3>2. \E reasons :
             job' = [job EXCEPT ![th] = [@ EXCEPT !.step = "commit", !.reasons = reasons]]
      BY <2>4 DEF SnapshotRules
    <3> QED BY <1>3, <3>1, <3>2
  <2> QED BY <1>5, <2>1, <2>2, <2>3, <2>4 DEF ThreadStep
<1>6. CASE UNCHANGED job
  BY <1>1, <1>6 DEF Carries
<1>7. \/ \E th \in Threads, r \in Requests : Receive(th, r)
      \/ \E th \in Threads : ThreadStep(th)
      \/ UNCHANGED job
  BY DEF Next, RegistryChanges, RulesChange, Tick, vars
<1> QED BY <1>4, <1>5, <1>6, <1>7

(* A letter that has just been made has its whole budget.                  *)
LEMMA FreshBudget ==
    ASSUME NEW e
    PROVE  Budgeted(NewLetter(e), {})
  BY FS_EmptySet, LimitAssumption DEF Budgeted, NewLetter

(* One more replay is begun.                                               *)
LEMMA BeginBudget ==
    ASSUME NEW l \in Letter, NEW flight, NEW th, th \notin flight,
           Budgeted(l, flight), CanReplay(l)
    PROVE  Budgeted(BeginReplay(l), flight \cup {th})
<1> DEFINE m == BeginReplay(l)
<1>1. /\ m.state = "replaying" /\ m.attempts = l.attempts + 1 /\ m.max = l.max
      /\ m.audit = Append(l.audit, "replay_started")
  BY DEF BeginReplay, Letter
<1>2. l.audit \in Seq(AuditActions) /\ l.attempts \in Nat /\ l.max \in Nat
  BY DEF Letter
<1>3. Len(m.audit) = Len(l.audit) + 1 /\ Len(l.audit) \in Nat
  BY <1>1, <1>2
<1>4. /\ IsFiniteSet(flight \cup {th})
      /\ Cardinality(flight \cup {th}) = Cardinality(flight) + 1
      /\ Cardinality(flight) \in Nat
  BY FS_AddElement, FS_CardinalityType DEF Budgeted
<1>5. m.max = MaxReplays /\ m.attempts <= MaxReplays
  BY <1>1, <1>2 DEF Budgeted, CanReplay
<1> HIDE DEF m
<1>6. Len(m.audit) + Cardinality(flight \cup {th}) = 1 + 2 * m.attempts
  <2>1. Len(l.audit) + Cardinality(flight) = 1 + 2 * l.attempts
    BY DEF Budgeted
  <2>2. Len(m.audit) + Cardinality(flight \cup {th}) = Len(l.audit) + Cardinality(flight) + 2
    BY <1>3, <1>4
  <2>3. 1 + 2 * m.attempts = 1 + 2 * l.attempts + 2
    BY <1>1, <1>2
  <2> QED BY <2>1, <2>2, <2>3
<1>7. Budgeted(m, flight \cup {th})
  BY <1>1, <1>4, <1>5, <1>6 DEF Budgeted
<1> QED BY <1>7 DEF m

(* A replay in flight ends.                                                *)
LEMMA FinishBudget ==
    ASSUME NEW l \in Letter, NEW flight, NEW th \in flight, NEW ok \in BOOLEAN,
           Budgeted(l, flight)
    PROVE  Budgeted(FinishReplay(l, ok), flight \ {th})
<1> DEFINE m == FinishReplay(l, ok)
           ended == IF ok THEN "replay_succeeded" ELSE "replay_failed"
<1>1. l.audit \in Seq(AuditActions) /\ l.attempts \in Nat /\ l.max \in Nat /\ ended \in AuditActions
  BY DEF Letter, AuditActions
<1>2. /\ m.attempts = l.attempts /\ m.max = l.max
      /\ m.audit = Append(l.audit, ended)
      /\ m.state # "replaying"
      /\ m.state = "poisoned" => l.attempts >= l.max
  BY <1>1 DEF FinishReplay, Letter
<1>3. Len(m.audit) = Len(l.audit) + 1 /\ Len(l.audit) \in Nat
  BY <1>1, <1>2, AppendProperties, LenProperties
<1>4. /\ IsFiniteSet(flight \ {th})
      /\ Cardinality(flight \ {th}) = Cardinality(flight) - 1
      /\ Cardinality(flight) \in Nat
  BY FS_RemoveElement, FS_CardinalityType DEF Budgeted
<1> HIDE DEF m
<1>5. Len(m.audit) + Cardinality(flight \ {th}) = 1 + 2 * m.attempts
  BY <1>1, <1>2, <1>3, <1>4 DEF Budgeted
<1>6. Budgeted(m, flight \ {th})
  BY <1>1, <1>2, <1>4, <1>5, LimitAssumption DEF Budgeted
<1> QED BY <1>6 DEF m

(* Replay's first critical section takes one attempt from the budget.      *)
LEMMA ReplayBeginInv ==
    ASSUME TypeInv, ReplayInv, NEW th \in Threads, NEW l \in DOMAIN letters, ReplayBegin(th, l)
    PROVE  ReplayInv'
<1>1. /\ job \in [Threads -> Job] /\ job[th].letter = 0
      /\ letters[l] \in Letter /\ l \in Nat \ {0} /\ CanReplay(letters[l])
  BY DEF TypeInv, TypeOK, ReplayInv, ReplaysNamed, ReplayBegin
<1>2. /\ letters' = [letters EXCEPT ![l] = BeginReplay(letters[l])]
      /\ DOMAIN letters' = DOMAIN letters
  BY DEF ReplayBegin
<1>3. /\ job'[th].letter = l /\ job'[th].step = "admit"
      /\ \A x \in Threads : x # th => job'[x] = job[x]
  BY <1>1 DEF ReplayBegin, IdleJob
<1>4. InFlight(l)' = InFlight(l) \cup {th} /\ th \notin InFlight(l)
  BY <1>1, <1>3 DEF InFlight
<1>5. \A k \in DOMAIN letters : k # l => InFlight(k)' = InFlight(k)
  BY <1>1, <1>3 DEF InFlight, TypeInv, TypeOK
<1>6. Budgeted(BeginReplay(letters[l]), InFlight(l) \cup {th})
  BY <1>1, <1>4, BeginBudget DEF ReplayInv
<1>7. ReplaysNamed'
  BY <1>1, <1>2, <1>3 DEF ReplayInv, ReplaysNamed
<1>8. ASSUME NEW k \in DOMAIN letters PROVE Budgeted(letters'[k], InFlight(k)')
  <2>1. CASE k = l
    BY <1>2, <1>4, <1>6, <2>1
  <2>2. CASE k # l
    <3>1. letters'[k] = letters[k] /\ InFlight(k)' = InFlight(k)
      BY <1>2, <1>5, <1>8, <2>2
    <3> QED BY <1>8, <3>1 DEF ReplayInv
  <2> QED BY <2>1, <2>2
<1> QED BY <1>2, <1>7, <1>8 DEF ReplayInv, Budgeted

(* Its last critical section puts the end of the replay on the record.     *)
LEMMA ReplayFinishInv ==
    ASSUME TypeInv, ReplayInv, NEW th \in Threads, ReplayFinish(th)
    PROVE  ReplayInv'
<1>0. PICK l : l = job[th].letter
  OBVIOUS
<1>1. /\ job \in [Threads -> Job] /\ l \in DOMAIN letters /\ l \in Nat \ {0}
      /\ letters[l] \in Letter /\ job[th].ok \in BOOLEAN
  BY <1>0 DEF TypeInv, TypeOK, ReplayInv, ReplaysNamed, ReplayFinish, Job
<1>2. /\ letters' = [letters EXCEPT ![l] = FinishReplay(letters[l], job[th].ok)]
      /\ DOMAIN letters' = DOMAIN letters
  BY <1>0 DEF ReplayFinish
<1>3. /\ job'[th].letter = 0 /\ job'[th].step = "idle"
      /\ \A x \in Threads : x # th => job'[x] = job[x]
  BY <1>1 DEF ReplayFinish, IdleJob
<1>4. InFlight(l)' = InFlight(l) \ {th} /\ th \in InFlight(l)
  BY <1>0, <1>1, <1>3 DEF InFlight
<1>5. \A k \in DOMAIN letters : k # l => InFlight(k)' = InFlight(k)
  BY <1>0, <1>1, <1>3 DEF InFlight, TypeInv, TypeOK
<1>6. Budgeted(FinishReplay(letters[l], job[th].ok), InFlight(l) \ {th})
  BY <1>1, <1>4, FinishBudget DEF ReplayInv
<1>7. ReplaysNamed'
  BY <1>1, <1>2, <1>3 DEF ReplayInv, ReplaysNamed
<1>8. ASSUME NEW k \in DOMAIN letters PROVE Budgeted(letters'[k], InFlight(k)')
  <2>1. CASE k = l
    BY <1>2, <1>4, <1>6, <2>1
  <2>2. CASE k # l
    <3>1. letters'[k] = letters[k] /\ InFlight(k)' = InFlight(k)
      BY <1>2, <1>5, <1>8, <2>2
    <3> QED BY <1>8, <3>1 DEF ReplayInv
  <2> QED BY <2>1, <2>2
<1> QED BY <1>2, <1>7, <1>8 DEF ReplayInv, Budgeted

(* Every step keeps the budgets.                                           *)
LEMMA ReplayStep == TypeInv /\ LetterInv /\ ReplayInv /\ [Next]_vars => ReplayInv'
<1> SUFFICES ASSUME TypeInv, LetterInv, ReplayInv, [Next]_vars PROVE ReplayInv'
  OBVIOUS
<1>1. CASE \E th \in Threads, l \in DOMAIN letters : ReplayBegin(th, l)
  BY <1>1, ReplayBeginInv
<1>2. CASE \E th \in Threads : ReplayFinish(th)
  BY <1>2, ReplayFinishInv
<1>3. CASE /\ ~ \E th \in Threads, l \in DOMAIN letters : ReplayBegin(th, l)
           /\ ~ \E th \in Threads : ReplayFinish(th)
  <2>1. \A x \in Threads : /\ job'[x].letter = job[x].letter
                           /\ job'[x].step = "idle" => job'[x].letter = 0
                           /\ job'[x].step = "finish" => job'[x].letter # 0
    BY <1>3, FlightsKept DEF ReplayInv, Carries
  <2>2. \A k : InFlight(k)' = InFlight(k)
    BY <2>1 DEF InFlight
  <2>3. CASE \E th \in Threads : Commit(th)
    <3>1. PICK x \in LogEntry : Records(x)
      BY <2>3, CommitRecords
    <3>2. /\ \A l \in DOMAIN letters : l \in DOMAIN letters' /\ letters'[l] = letters[l]
          /\ \A l \in DOMAIN letters' :
                l \in DOMAIN letters \/ (l = x.letter /\ letters'[l] = NewLetter(x.sent))
      BY <3>1, LettersGrow DEF LetterInv
    <3>3. ReplaysNamed'
      BY <2>1, <3>2 DEF ReplayInv, ReplaysNamed
    <3>4. ASSUME NEW l \in DOMAIN letters' PROVE Budgeted(letters'[l], InFlight(l)')
      <4>1. CASE l \in DOMAIN letters
        <5>1. Budgeted(letters[l], InFlight(l)) /\ letters'[l] = letters[l]
          BY <3>2, <4>1 DEF ReplayInv
        <5> QED BY <2>2, <5>1
      <4>2. CASE l \notin DOMAIN letters
        <5>1. l # 0
          BY TypeStep DEF TypeInv, TypeOK
        <5>2. InFlight(l) = {}
          BY <4>2, <5>1 DEF InFlight, ReplayInv, ReplaysNamed
        <5>3. letters'[l] = NewLetter(x.sent)
          BY <3>2, <4>2
        <5> QED BY <2>2, <5>2, <5>3, FreshBudget
      <4> QED BY <4>1, <4>2
    <3> QED BY <3>3, <3>4 DEF ReplayInv, Budgeted
  <2>4. CASE ~ \E th \in Threads : Commit(th)
    <3>1. letters' = letters
      BY <1>3, <2>4 DEF Next, ThreadStep, Receive, AnswerDuplicate, RejectQuota, Admit, Lookup,
             SnapshotRules, RegistryChanges, RulesChange, Tick, vars, service
    <3>2. ReplaysNamed'
      BY <2>1, <3>1 DEF ReplayInv, ReplaysNamed
    <3>3. ASSUME NEW l \in DOMAIN letters PROVE Budgeted(letters'[l], InFlight(l)')
      <4>1. Budgeted(letters[l], InFlight(l)) /\ letters'[l] = letters[l]
        BY <3>1, <3>3 DEF ReplayInv
      <4> QED BY <2>2, <4>1
    <3> QED BY <3>1, <3>2, <3>3 DEF ReplayInv, Budgeted
  <2> QED BY <2>3, <2>4
<1> QED BY <1>1, <1>2, <1>3

(* The budgets are kept always.                                            *)
LEMMA ReplayInvariant == Spec => []ReplayInv
  BY ReplayInit, ReplayStep, TypeInvariant, LettersInvariant, PTL DEF Spec

(* However replays of a letter overlap, no more than MaxReplays are begun, *)
(* each is audited at both ends, and only a letter with its budget spent   *)
(* is poisoned (deadletter/domain/model.go:34-58).                         *)
THEOREM BudgetIsKept == Spec => []ReplayBudget
<1>1. ReplayInv => ReplayBudget
  BY DEF ReplayInv, Budgeted, ReplayBudget
<1> QED BY <1>1, ReplayInvariant, PTL

(* No letter is left behind as replaying: one in that state has a replay   *)
(* in flight that will move it on (service.go:205-217).                    *)
THEOREM NoLetterIsStranded == Spec => []ReplayingIsInFlight
<1>1. ReplayInv => ReplayingIsInFlight
  BY DEF ReplayInv, Budgeted, ReplayingIsInFlight
<1> QED BY <1>1, ReplayInvariant, PTL

-----------------------------------------------------------------------------
(* The keys and the outcome of replays                                     *)

(* A request carries a key that its client knew, a replay one that was     *)
(* drawn for it alone and that nothing else in the service has.            *)
DrawnKey(e) == \E n \in 1 .. ids : e.key = <<n>>

KeysApart ==
    /\ \A x \in log : Known(x.sent)
    /\ \A id \in DOMAIN events : Known(events[id])
    /\ \A th \in Threads : job[th].step # "idle" =>
          IF job[th].letter = 0
          THEN job[th].event.key \in Keys /\ Known(job[th].event)
          ELSE DrawnKey(job[th].event) /\ \A p \in Range(job[th].event.tenant) : ~Private(p)
    /\ \A a, b \in Threads : a # b /\ job[a].letter # 0 /\ job[b].letter # 0 =>
          job[a].event.key # job[b].event.key

AcceptedReplay(l) ==
    \E x \in log : x.replayOf = l /\ x.status = "accepted" /\ x.sent.id = letters[l].event

(* A replay is of the event of its letter, and it ends well only if that   *)
(* event was accepted.                                                     *)
OutcomeInv ==
    /\ \A id \in DOMAIN events : events[id].id = id
    /\ \A th \in Threads : job[th].letter # 0 =>
          /\ job[th].event.id = letters[job[th].letter].event
          /\ job[th].step = "finish" /\ job[th].ok => AcceptedReplay(job[th].letter)
    /\ ReplayedWasAccepted

(* The parts of a joined key.                                              *)
LEMMA JoinedParts ==
    ASSUME NEW e \in Event
    PROVE  Range(SeenKey(e)) = Range(e.tenant) \cup Range(e.key)
<1>1. PICK t \in Names, k \in Names : t = e.tenant /\ k = e.key
  BY NameAssumption DEF Event, Names
<1>2. SeenKey(e) = t \o k
  BY <1>1 DEF SeenKey
<1>3. /\ DOMAIN (t \o k) = 1 .. Len(t) + Len(k)
      /\ \A i \in 1 .. Len(t) + Len(k) :
            (t \o k)[i] = IF i <= Len(t) THEN t[i] ELSE k[i - Len(t)]
      /\ Len(t) \in Nat /\ Len(k) \in Nat /\ DOMAIN t = 1 .. Len(t) /\ DOMAIN k = 1 .. Len(k)
  BY ConcatProperties, LenProperties DEF Names
<1>4. ASSUME NEW i \in DOMAIN (t \o k) PROVE (t \o k)[i] \in Range(t) \cup Range(k)
  BY <1>3, <1>4 DEF Range
<1>5. ASSUME NEW i \in DOMAIN t PROVE t[i] \in Range(t \o k)
  <2>1. i \in DOMAIN (t \o k) /\ (t \o k)[i] = t[i]
    BY <1>3, <1>5
  <2> QED BY <2>1 DEF Range
<1>6. ASSUME NEW i \in DOMAIN k PROVE k[i] \in Range(t \o k)
  <2>1. i + Len(t) \in DOMAIN (t \o k) /\ (t \o k)[i + Len(t)] = k[i]
    BY <1>3, <1>6
  <2> QED BY <2>1 DEF Range
<1>7. Range(t \o k) = Range(t) \cup Range(k)
  BY <1>4, <1>5, <1>6 DEF Range
<1> QED BY <1>1, <1>2, <1>7

(* The one part of a drawn key.                                            *)
LEMMA DrawnPart ==
    ASSUME NEW n
    PROVE  Range(<<n>>) = {n}
  BY DEF Range

(* A replay never finds its key taken.                                     *)
LEMMA ReplaysAreNoDuplicates ==
    ASSUME TypeInv, SeenLogged, KeysApart, NEW th \in Threads,
           job[th].step = "admit", job[th].letter # 0
    PROVE  SeenKey(job[th].event) \notin DOMAIN seen
<1> SUFFICES ASSUME SeenKey(job[th].event) \in DOMAIN seen PROVE FALSE
  OBVIOUS
<1>1. PICK x \in log : SeenKey(x.sent) = SeenKey(job[th].event)
  BY DEF SeenLogged
<1>2. job[th].event \in Event /\ ids \in Nat
  BY DEF TypeInv, TypeOK
<1>3. PICK n \in 1 .. ids : job[th].event.key = <<n>>
  BY DEF KeysApart, DrawnKey
<1>4. n \in Range(SeenKey(job[th].event))
  BY <1>2, <1>3, JoinedParts, DrawnPart
<1>5. n \in Nat
  BY <1>2
<1>6. Private(n)
  BY <1>3, <1>5 DEF Private
<1> QED BY <1>1, <1>4, <1>6 DEF KeysApart, Known

(* What clients know they go on knowing.                                   *)
LEMMA PrivateShrinks ==
    ASSUME TypeInv, ReplayInv, [Next]_vars, NEW p, Private(p)'
    PROVE  Private(p)
<1>1. p \in Nat /\ ids \in Nat /\ ids' \in Nat /\ ids <= ids' /\ job \in [Threads -> Job]
  BY IdsGrow DEF Private, TypeInv, TypeOK
<1>2. CASE p > ids'
  BY <1>1, <1>2 DEF Private
<1>3. ASSUME NEW th \in Threads, job'[th].letter # 0, job'[th].step # "finish",
             job'[th].event.key = <<p>>
      PROVE  Private(p)
  <2>1. CASE job'[th] = job[th]
    BY <1>1, <1>3, <2>1 DEF Private
  <2>2. ASSUME NEW u \in Threads, NEW l \in DOMAIN letters, ReplayBegin(u, l), job'[th] # job[th]
        PROVE  Private(p)
    <3>1. events[letters[l].event] \in Event
      BY DEF TypeInv, TypeOK, LetterEventsStored
    <3>2. th = u /\ job'[th].event.key = <<ids + 1>>
      BY <1>1, <2>2, <3>1 DEF ReplayBegin, IdleJob, Event
    <3>3. p = ids + 1
      BY <1>1, <1>3, <3>2
    <3> QED BY <1>1, <3>3 DEF Private
  <2>3. ASSUME NEW u \in Threads, ReplayFinish(u), job'[th] # job[th]
        PROVE  FALSE
    BY <1>1, <1>3, <2>3 DEF ReplayFinish, IdleJob
  <2>4. CASE /\ ~ \E u \in Threads, l \in DOMAIN letters : ReplayBegin(u, l)
             /\ ~ \E u \in Threads : ReplayFinish(u)
    <3>1. Carries(th)
      BY <2>4, FlightsKept DEF ReplayInv
    <3>2. job[th].letter # 0 /\ job[th].step # "idle" /\ job'[th].step # "idle"
      BY <1>3, <3>1 DEF Carries, ReplayInv, ReplaysNamed
    <3>3. job[th].step # "finish" /\ job[th].event.key = <<p>>
      BY <1>3, <3>1, <3>2 DEF Carries
    <3> QED BY <1>1, <3>2, <3>3 DEF Private
  <2> QED BY <2>1, <2>2, <2>3, <2>4
<1> QED BY <1>2, <1>3 DEF Private

(* A replay takes a key that was never used.                               *)
LEMMA ReplayBeginKeys ==
    ASSUME TypeInv, ReplayInv, KeysApart, [Next]_vars, NEW th \in Threads,
           NEW l \in DOMAIN letters, ReplayBegin(th, l)
    PROVE  KeysApart'
<1>1. /\ job \in [Threads -> Job] /\ ids \in Nat /\ ids' = ids + 1
      /\ log' = log /\ events' = events
  BY DEF TypeInv, TypeOK, ReplayBegin
<1>2. PICK e \in Event : e = events[letters[l].event] /\ Known(e)
  BY DEF TypeInv, TypeOK, LetterEventsStored, KeysApart
<1>3. /\ job'[th].letter = l /\ job'[th].step = "admit"
      /\ job'[th].event.key = <<ids + 1>> /\ job'[th].event.tenant = e.tenant
      /\ \A x \in Threads : x # th => job'[x] = job[x]
  BY <1>1, <1>2 DEF ReplayBegin, IdleJob, Event
<1>4. l # 0
  BY DEF TypeInv, TypeOK
<1>5. \A p : ~Private(p) => ~Private(p)'
  BY PrivateShrinks
<1>6. \A n \in 1 .. ids : <<n>> # <<ids + 1>> /\ n \in 1 .. ids'
  BY <1>1
<1>7. /\ \A x \in log' : Known(x.sent)'
      /\ \A id \in DOMAIN events' : Known(events[id])'
  BY <1>1, <1>5 DEF KeysApart, Known
<1>8. ASSUME NEW x \in Threads, job'[x].step # "idle"
      PROVE  IF job'[x].letter = 0
             THEN job'[x].event.key \in Keys /\ Known(job[x].event)'
             ELSE /\ DrawnKey(job[x].event)'
                  /\ \A p \in Range(job'[x].event.tenant) : ~Private(p)'
  <2>1. CASE x = th
    <3>1. \A p \in Range(e.tenant) : ~Private(p)
      BY <1>2, JoinedParts DEF Known
    <3>2. DrawnKey(job[x].event)'
      BY <1>1, <1>3, <2>1 DEF DrawnKey
    <3> QED BY <1>3, <1>4, <1>5, <2>1, <3>1, <3>2
  <2>2. CASE x # th
    <3>1. job'[x] = job[x]
      BY <1>3, <2>2
    <3>2. CASE job[x].letter = 0
      BY <1>5, <1>8, <3>1, <3>2 DEF KeysApart, Known
    <3>3. CASE job[x].letter # 0
      BY <1>5, <1>6, <1>8, <3>1, <3>3 DEF KeysApart, DrawnKey
    <3> QED BY <3>2, <3>3
  <2> QED BY <2>1, <2>2
<1>9. ASSUME NEW x \in Threads, x # th, job[x].letter # 0
      PROVE  job[x].event.key # <<ids + 1>>
  <2>1. job[x].step # "idle"
    BY <1>9 DEF ReplayInv, ReplaysNamed
  <2> QED BY <1>6, <1>9, <2>1 DEF KeysApart, DrawnKey
<1>10. ASSUME NEW a \in Threads, NEW b \in Threads, a # b, job'[a].letter # 0, job'[b].letter # 0
       PROVE  job'[a].event.key # job'[b].event.key
  BY <1>3, <1>9, <1>10 DEF KeysApart
<1> QED BY <1>7, <1>8, <1>10 DEF KeysApart

(* The steps of Publish keep the goroutines' keys apart.                   *)
LEMMA CarriedKeys ==
    ASSUME TypeInv, ReplayInv, KeysApart, [Next]_vars, \A x \in Threads : Carries(x)
    PROVE  /\ \A x \in Threads : job'[x].step # "idle" =>
                 IF job'[x].letter = 0
                 THEN job'[x].event.key \in Keys /\ Known(job[x].event)'
                 ELSE /\ DrawnKey(job[x].event)'
                      /\ \A p \in Range(job'[x].event.tenant) : ~Private(p)'
           /\ \A a, b \in Threads : a # b /\ job'[a].letter # 0 /\ job'[b].letter # 0 =>
                 job'[a].event.key # job'[b].event.key
<1>1. \A p : ~Private(p) => ~Private(p)'
  BY PrivateShrinks
<1>2. \A n \in 1 .. ids : n \in 1 .. ids'
  BY IdsGrow
<1>3. ASSUME NEW x \in Threads, job'[x].step # "idle"
      PROVE  IF job'[x].letter = 0
             THEN job'[x].event.key \in Keys /\ Known(job[x].event)'
             ELSE /\ DrawnKey(job[x].event)'
                  /\ \A p \in Range(job'[x].event.tenant) : ~Private(p)'
  <2>1. CASE job[x].step = "idle"
    <3>1. job'[x].letter = 0 /\ job'[x].event.key \in Keys
      BY <1>3, <2>1 DEF Carries, ReplayInv, ReplaysNamed
    <3>2. \A p \in Range(SeenKey(job'[x].event)) : ~Private(p)
      BY <1>3, <2>1 DEF Carries
    <3> QED BY <1>1, <3>1, <3>2 DEF Known
  <2>2. CASE job[x].step # "idle"
    <3>1. job'[x].event = job[x].event /\ job'[x].letter = job[x].letter
      BY <1>3, <2>2 DEF Carries
    <3>2. CASE job[x].letter = 0
      BY <1>1, <2>2, <3>1, <3>2 DEF KeysApart, Known
    <3>3. CASE job[x].letter # 0
      BY <1>1, <1>2, <2>2, <3>1, <3>3 DEF KeysApart, DrawnKey
    <3> QED BY <3>1, <3>2, <3>3
  <2> QED BY <2>1, <2>2
<1>4. ASSUME NEW a \in Threads, NEW b \in Threads, a # b, job'[a].letter # 0, job'[b].letter # 0
      PROVE  job'[a].event.key # job'[b].event.key
  BY <1>4 DEF KeysApart, Carries, ReplayInv, ReplaysNamed
<1> QED BY <1>3, <1>4

(* What is recorded is shown from then on: only the goroutine that made    *)
(* the record had its key.                                                 *)
LEMMA CommitKeys ==
    ASSUME TypeInv, ReplayInv, KeysApart, [Next]_vars, NEW th \in Threads, Commit(th),
           \A x \in Threads : Carries(x)
    PROVE  KeysApart'
<1>1. PICK x \in LogEntry : Records(x) /\ x.sent = job[th].event /\ Return(th, ~Failure(x))
  BY CommitRecords
<1>2. /\ log' = log \cup {x} /\ job[th].step = "commit" /\ job \in [Threads -> Job]
      /\ events' = Put(events, x.sent.id, x.sent)
  BY <1>1 DEF Records, Commit, TypeInv, TypeOK
<1>3. job[th].letter # 0 => job'[th].step = "finish"
  BY <1>1, <1>2 DEF Return, Job
<1>4. ids \in Nat /\ ids' \in Nat /\ ids <= ids'
  BY IdsGrow
<1>5. \A p : ~Private(p) => ~Private(p)'
  BY PrivateShrinks
<1>6. \A p \in Range(SeenKey(x.sent)) : ~Private(p)'
  <2>1. CASE job[th].letter = 0
    BY <1>1, <1>2, <1>5, <2>1 DEF KeysApart, Known
  <2>2. CASE job[th].letter # 0
    <3>1. PICK n \in 1 .. ids : x.sent.key = <<n>>
      BY <1>1, <1>2, <2>2 DEF KeysApart, DrawnKey
    <3>2. \A p \in Range(x.sent.tenant) : ~Private(p)'
      BY <1>1, <1>2, <1>5, <2>2 DEF KeysApart
    <3>3. x.sent \in Event
      BY DEF LogEntry
    <3>4. Range(SeenKey(x.sent)) = Range(x.sent.tenant) \cup {n}
      BY <3>1, <3>3, JoinedParts, DrawnPart
    <3>5. ASSUME NEW u \in Threads, job'[u].letter # 0, job'[u].step # "finish",
                 job'[u].event.key = <<n>>
          PROVE  FALSE
      <4>1. u # th
        BY <1>3, <2>2, <3>5
      <4>2. job[u].letter # 0 /\ job[u].event.key = <<n>>
        BY <3>5 DEF Carries, ReplayInv, ReplaysNamed
      <4> QED BY <1>1, <2>2, <3>1, <4>1, <4>2 DEF KeysApart
    <3>6. ~Private(n)'
      BY <1>4, <3>5 DEF Private
    <3> QED BY <3>2, <3>4, <3>6
  <2> QED BY <2>1, <2>2
<1>7. \A y \in log' : Known(y.sent)'
  BY <1>2, <1>5, <1>6 DEF KeysApart, Known
<1>8. \A id \in DOMAIN events' : Known(events[id])'
  <2>1. ASSUME NEW id \in DOMAIN events'
        PROVE  events'[id] = x.sent \/ (id \in DOMAIN events /\ events'[id] = events[id])
    BY <1>2, <2>1 DEF Put
  <2> QED BY <1>5, <1>6, <2>1 DEF KeysApart, Known
<1> QED BY <1>7, <1>8, CarriedKeys DEF KeysApart

(* Every step keeps the keys apart.                                        *)
LEMMA KeysStep == TypeInv /\ ReplayInv /\ KeysApart /\ [Next]_vars => KeysApart'
<1> SUFFICES ASSUME TypeInv, ReplayInv, KeysApart, [Next]_vars PROVE KeysApart'
  OBVIOUS
<1>1. CASE \E th \in Threads, l \in DOMAIN letters : ReplayBegin(th, l)
  BY <1>1, ReplayBeginKeys
<1>2. CASE \E th \in Threads : ReplayFinish(th)
  <2>1. PICK th \in Threads : ReplayFinish(th)
    BY <1>2
  <2>2. /\ job'[th].letter = 0 /\ job'[th].step = "idle"
        /\ \A x \in Threads : x # th => job'[x] = job[x]
    BY <2>1 DEF ReplayFinish, IdleJob, TypeInv, TypeOK
  <2>3. log' = log /\ ids' = ids /\ events' = events
    BY <2>1 DEF ReplayFinish
  <2>4. \A p : ~Private(p) => ~Private(p)'
    BY PrivateShrinks
  <2>5. \A y \in log' : Known(y.sent)'
    BY <2>3, <2>4 DEF KeysApart, Known
  <2>6. \A id \in DOMAIN events' : Known(events[id])'
    BY <2>3, <2>4 DEF KeysApart, Known
  <2>7. ASSUME NEW x \in Threads, job'[x].step # "idle"
        PROVE  IF job'[x].letter = 0
               THEN job'[x].event.key \in Keys /\ Known(job[x].event)'
               ELSE /\ DrawnKey(job[x].event)'
                    /\ \A p \in Range(job'[x].event.tenant) : ~Private(p)'
    <3>1. job'[x] = job[x]
      BY <2>2, <2>7
    <3> QED BY <2>3, <2>4, <2>7, <3>1 DEF KeysApart, Known, DrawnKey
  <2>8. ASSUME NEW a \in Threads, NEW b \in Threads, a # b, job'[a].letter # 0, job'[b].letter # 0
        PROVE  job'[a].event.key # job'[b].event.key
    BY <2>2, <2>8 DEF KeysApart
  <2> QED BY <2>5, <2>6, <2>7, <2>8 DEF KeysApart
<1>3. CASE /\ ~ \E th \in Threads, l \in DOMAIN letters : ReplayBegin(th, l)
           /\ ~ \E th \in Threads : ReplayFinish(th)
  <2>1. \A x \in Threads : Carries(x)
    BY <1>3, FlightsKept DEF ReplayInv
  <2>2. CASE \E th \in Threads : Commit(th)
    BY <2>1, <2>2, CommitKeys
  <2>3. CASE ~ \E th \in Threads : Commit(th)
    <3>1. log' = log /\ events' = events
      BY <2>3, OnlyCommitRecords
    <3>2. \A p : ~Private(p) => ~Private(p)'
      BY PrivateShrinks
    <3>3. \A y \in log' : Known(y.sent)'
      BY <3>1, <3>2 DEF KeysApart, Known
    <3>4. \A id \in DOMAIN events' : Known(events[id])'
      BY <3>1, <3>2 DEF KeysApart, Known
    <3> QED BY <2>1, <3>3, <3>4, CarriedKeys DEF KeysApart
  <2> QED BY <2>2, <2>3
<1> QED BY <1>1, <1>2, <1>3

(* The keys are apart always.                                              *)
LEMMA KeysInvariant == Spec => []KeysApart
<1>1. Init => KeysApart
  BY DEF Init, KeysApart, IdleJob, EmptyMap
<1> QED BY <1>1, KeysStep, TypeInvariant, ReplayInvariant, PTL DEF Spec

(* A letter keeps its event, and an accepted replay stays one.             *)
LEMMA AcceptedStays ==
    ASSUME TypeInv, LetterInv, [Next]_vars, NEW l \in DOMAIN letters
    PROVE  /\ l \in DOMAIN letters' /\ letters'[l].event = letters[l].event
           /\ AcceptedReplay(l) => AcceptedReplay(l)'
<1>1. l \in DOMAIN letters' /\ letters'[l].event = letters[l].event
  <2>1. CASE \E th \in Threads : Commit(th)
    BY <2>1, CommitRecords, LettersGrow DEF LetterInv
  <2>2. CASE ~ \E th \in Threads : Commit(th)
    BY <2>2, LettersStay DEF Later
  <2> QED BY <2>1, <2>2
<1>2. log \subseteq log'
  BY OnlyCommitRecords, CommitRecords DEF Records
<1> QED BY <1>1, <1>2 DEF AcceptedReplay

(* A replay ends well only by recording its event as accepted: it is never *)
(* answered as a duplicate, and a refused one does not end well.           *)
LEMMA EndsWellByCommit ==
    ASSUME TypeInv, SeenLogged, KeysApart, ReplayInv, [Next]_vars,
           ~ \E th \in Threads, l \in DOMAIN letters : ReplayBegin(th, l),
           ~ \E th \in Threads : ReplayFinish(th),
           NEW x \in Threads, job[x].letter # 0, job[x].step # "finish",
           job'[x].step = "finish", job'[x].ok
    PROVE  \E y \in log' : /\ y.replayOf = job[x].letter /\ y.status = "accepted"
                           /\ y.sent.id = job[x].event.id
<1>1. job \in [Threads -> Job] /\ job[x].step # "idle"
  BY DEF TypeInv, TypeOK, ReplayInv, ReplaysNamed
<1>2. ASSUME NEW th \in Threads, ThreadStep(th), th # x
      PROVE  job'[x] = job[x]
  BY <1>1, <1>2 DEF ThreadStep, AnswerDuplicate, RejectQuota, Admit, Lookup, SnapshotRules, Commit,
         ReplayFinish, Return
<1>3. ThreadStep(x)
  <2>1. ASSUME NEW th \in Threads, NEW r \in Requests, Receive(th, r)
        PROVE  job'[x] = job[x]
    BY <1>1, <2>1 DEF Receive
  <2> QED BY <1>2, <2>1 DEF Next, RegistryChanges, RulesChange, Tick, vars
<1>4. CASE Commit(x)
  <2>1. PICK y \in LogEntry : /\ Records(y) /\ y.sent = job[x].event
                              /\ y.replayOf = job[x].letter /\ Return(x, ~Failure(y))
    BY <1>4, CommitRecords
  <2>2. job'[x].ok = ~Failure(y)
    BY <1>1, <2>1 DEF Return, Job
  <2>3. y \in log' /\ y.status \in Statuses
    BY <2>1 DEF Records, LogEntry
  <2>4. y.status = "accepted"
    BY <2>2, <2>3 DEF Failure, Statuses
  <2> QED BY <2>1, <2>3, <2>4
<1>5. CASE RejectQuota(x)
  BY <1>1, <1>5 DEF RejectQuota, Return, Job
<1>6. CASE AnswerDuplicate(x)
  BY <1>6, ReplaysAreNoDuplicates DEF AnswerDuplicate
<1>7. CASE Admit(x) \/ Lookup(x) \/ SnapshotRules(x)
  <2>1. Admit(x) => job'[x].step = "lookup"
    BY <1>1 DEF Admit, Job
  <2>2. Lookup(x) => job'[x].step \in {"rules", "commit"}
    BY <1>1 DEF Lookup, Job
  <2>3. SnapshotRules(x) => job'[x].step = "commit"
    BY <1>1 DEF SnapshotRules, Job
  <2> QED BY <1>7, <2>1, <2>2, <2>3
<1> QED BY <1>3, <1>4, <1>5, <1>6, <1>7 DEF ThreadStep

(* Replay sends in the event of its letter.                                *)
LEMMA ReplayBeginOutcome ==
    ASSUME TypeInv, LetterInv, ReplayInv, OutcomeInv, [Next]_vars,
           NEW th \in Threads, NEW l \in DOMAIN letters, ReplayBegin(th, l)
    PROVE  OutcomeInv'
<1>1. /\ job \in [Threads -> Job] /\ events' = events /\ letters[l] \in Letter
      /\ events[letters[l].event] \in Event
      /\ events[letters[l].event].id = letters[l].event
  BY DEF TypeInv, TypeOK, LetterEventsStored, OutcomeInv, ReplayBegin
<1>2. /\ job'[th].letter = l /\ job'[th].step = "admit"
      /\ job'[th].event.id = letters[l].event
      /\ \A x \in Threads : x # th => job'[x] = job[x]
  BY <1>1 DEF ReplayBegin, IdleJob, Event
<1>3. /\ DOMAIN letters' = DOMAIN letters
      /\ letters'[l].state = "replaying"
      /\ \A k \in DOMAIN letters : k # l => letters'[k] = letters[k]
  BY <1>1 DEF ReplayBegin, BeginReplay, Letter
<1>4. ASSUME NEW x \in Threads, job'[x].letter # 0
      PROVE  /\ job'[x].event.id = letters'[job'[x].letter].event
             /\ job'[x].step = "finish" /\ job'[x].ok => AcceptedReplay(job[x].letter)'
  <2>1. CASE x = th
    BY <1>2, <2>1, AcceptedStays
  <2>2. CASE x # th
    <3>1. PICK k : k = job[x].letter
      OBVIOUS
    <3>2. job'[x] = job[x] /\ k # 0
      BY <1>2, <1>4, <2>2, <3>1
    <3>3. k \in DOMAIN letters
      BY <3>1, <3>2 DEF ReplayInv, ReplaysNamed
    <3> QED BY <3>1, <3>2, <3>3, AcceptedStays DEF OutcomeInv, AcceptedReplay
  <2> QED BY <2>1, <2>2
<1>5. ReplayedWasAccepted'
  BY <1>3, AcceptedStays DEF OutcomeInv, ReplayedWasAccepted, AcceptedReplay
<1> QED BY <1>1, <1>4, <1>5 DEF OutcomeInv

(* A letter becomes replayed only when its replay ended well.              *)
LEMMA ReplayFinishOutcome ==
    ASSUME TypeInv, LetterInv, ReplayInv, OutcomeInv, [Next]_vars,
           NEW th \in Threads, ReplayFinish(th)
    PROVE  OutcomeInv'
<1>1. PICK l : l = job[th].letter
  OBVIOUS
<1>2. /\ job \in [Threads -> Job] /\ events' = events /\ l # 0 /\ l \in DOMAIN letters
      /\ letters[l] \in Letter /\ job[th].step = "finish" /\ job[th].ok \in BOOLEAN
  BY <1>1 DEF TypeInv, TypeOK, ReplayInv, ReplaysNamed, ReplayFinish, Job
<1>3. /\ job'[th].letter = 0
      /\ \A x \in Threads : x # th => job'[x] = job[x]
  BY <1>2 DEF ReplayFinish, IdleJob
<1>4. /\ DOMAIN letters' = DOMAIN letters
      /\ letters'[l].state = "replayed" => job[th].ok
      /\ \A k \in DOMAIN letters : k # l => letters'[k] = letters[k]
  <2>1. letters' = [letters EXCEPT ![l] = FinishReplay(letters[l], job[th].ok)]
    BY <1>1 DEF ReplayFinish
  <2>2. FinishReplay(letters[l], job[th].ok).state = "replayed" => job[th].ok
    BY <1>2 DEF FinishReplay, Letter
  <2> QED BY <1>2, <2>1, <2>2
<1>5. ASSUME NEW x \in Threads, job'[x].letter # 0
      PROVE  /\ job'[x].event.id = letters'[job'[x].letter].event
             /\ job'[x].step = "finish" /\ job'[x].ok => AcceptedReplay(job[x].letter)'
  <2>1. PICK k : k = job[x].letter
    OBVIOUS
  <2>2. job'[x] = job[x] /\ k # 0
    BY <1>3, <1>5, <2>1
  <2>3. k \in DOMAIN letters
    BY <2>1, <2>2 DEF ReplayInv, ReplaysNamed
  <2> QED BY <2>1, <2>2, <2>3, AcceptedStays DEF OutcomeInv, AcceptedReplay
<1>6. letters'[l].state = "replayed" => AcceptedReplay(l)
  BY <1>1, <1>2, <1>4 DEF OutcomeInv
<1>7. ReplayedWasAccepted'
  BY <1>4, <1>6, AcceptedStays DEF OutcomeInv, ReplayedWasAccepted, AcceptedReplay
<1> QED BY <1>2, <1>5, <1>7 DEF OutcomeInv

(* Every step keeps what a replay's outcome tells.                         *)
LEMMA OutcomeStep ==
    TypeInv /\ LetterInv /\ SeenLogged /\ ReplayInv /\ KeysApart /\ OutcomeInv /\ [Next]_vars
       => OutcomeInv'
<1> SUFFICES ASSUME TypeInv, LetterInv, SeenLogged, ReplayInv, KeysApart, OutcomeInv, [Next]_vars
             PROVE  OutcomeInv'
  OBVIOUS
<1>1. CASE \E th \in Threads, l \in DOMAIN letters : ReplayBegin(th, l)
  BY <1>1, ReplayBeginOutcome
<1>2. CASE \E th \in Threads : ReplayFinish(th)
  BY <1>2, ReplayFinishOutcome
<1>3. CASE /\ ~ \E th \in Threads, l \in DOMAIN letters : ReplayBegin(th, l)
           /\ ~ \E th \in Threads : ReplayFinish(th)
  <2>1. \A x \in Threads : Carries(x)
    BY <1>3, FlightsKept DEF ReplayInv
  <2>2. \A id \in DOMAIN events' : events'[id].id = id
    <3>1. CASE \E th \in Threads : Commit(th)
      <4>1. PICK x \in LogEntry : Records(x)
        BY <3>1, CommitRecords
      <4>2. events' = Put(events, x.sent.id, x.sent)
        BY <4>1 DEF Records
      <4> QED BY <4>2 DEF OutcomeInv, Put
    <3>2. CASE events' = events
      BY <3>2 DEF OutcomeInv
    <3> QED BY <3>1, <3>2, OnlyCommitRecords
  <2>3. ASSUME NEW x \in Threads, job'[x].letter # 0
        PROVE  /\ job'[x].event.id = letters'[job'[x].letter].event
               /\ job'[x].step = "finish" /\ job'[x].ok => AcceptedReplay(job[x].letter)'
    <3>1. PICK k : k = job[x].letter
      OBVIOUS
    <3>2. /\ k # 0 /\ k \in DOMAIN letters /\ job'[x].letter = k /\ job[x].step # "idle"
          /\ job'[x].event = job[x].event /\ job[x].event.id = letters[k].event
      BY <2>1, <2>3, <3>1 DEF Carries, ReplayInv, ReplaysNamed, OutcomeInv
    <3>3. letters'[k].event = letters[k].event /\ (AcceptedReplay(k) => AcceptedReplay(k)')
      BY <3>2, AcceptedStays
    <3>4. job'[x].step = "finish" /\ job'[x].ok => AcceptedReplay(k)'
      <4>1. CASE job[x].step = "finish"
        <5>1. job'[x] = job[x]
          BY <2>1, <4>1 DEF Carries
        <5> QED BY <3>1, <3>2, <3>3, <4>1, <5>1 DEF OutcomeInv
      <4>2. CASE job[x].step # "finish"
        <5> SUFFICES ASSUME job'[x].step = "finish", job'[x].ok PROVE AcceptedReplay(k)'
          OBVIOUS
        <5>1. PICK y \in log' : /\ y.replayOf = job[x].letter /\ y.status = "accepted"
                                /\ y.sent.id = job[x].event.id
          BY <1>3, <3>1, <3>2, <4>2, EndsWellByCommit
        <5> QED BY <3>1, <3>2, <3>3, <5>1 DEF AcceptedReplay
      <4> QED BY <4>1, <4>2
    <3> QED BY <3>2, <3>3, <3>4 DEF AcceptedReplay
  <2>4. ASSUME NEW l \in DOMAIN letters', letters'[l].state = "replayed"
        PROVE  AcceptedReplay(l)'
    <3>1. l \in DOMAIN letters /\ letters[l].state = "replayed"
      <4>1. CASE \E th \in Threads : Commit(th)
        <5>1. PICK x \in LogEntry : Records(x)
          BY <4>1, CommitRecords
        <5>2. l \in DOMAIN letters \/ letters'[l] = NewLetter(x.sent)
          BY <2>4, <5>1, LettersGrow DEF LetterInv
        <5>3. l \in DOMAIN letters
          BY <2>4, <5>2 DEF NewLetter
        <5>4. letters'[l] = letters[l]
          BY <5>1, <5>3, LettersGrow DEF LetterInv
        <5> QED BY <2>4, <5>3, <5>4
      <4>2. CASE ~ \E th \in Threads : Commit(th)
        <5>1. letters' = letters
          BY <1>3, <4>2 DEF Next, ThreadStep, Receive, AnswerDuplicate, RejectQuota, Admit,
                 Lookup, SnapshotRules, RegistryChanges, RulesChange, Tick, vars, service
        <5> QED BY <2>4, <5>1
      <4> QED BY <4>1, <4>2
    <3>2. AcceptedReplay(l)
      BY <3>1 DEF OutcomeInv, ReplayedWasAccepted, AcceptedReplay
    <3> QED BY <3>1, <3>2, AcceptedStays
  <2>5. ReplayedWasAccepted'
    BY <2>4 DEF ReplayedWasAccepted, AcceptedReplay
  <2> QED BY <2>2, <2>3, <2>5 DEF OutcomeInv
<1> QED BY <1>1, <1>2, <1>3

(* A letter that reads replayed had a replay of its own event accepted and *)
(* recorded, whatever other replays and requests overlapped with it; in    *)
(* particular no replay is answered for somebody else's key                *)
(* (service.go:209-217).                                                   *)
THEOREM ReplayedMeansAccepted == Spec => []ReplayedWasAccepted
<1>1. Init => OutcomeInv
  BY DEF Init, OutcomeInv, ReplayedWasAccepted, EmptyMap, IdleJob
<1>2. OutcomeInv => ReplayedWasAccepted
  BY DEF OutcomeInv
<1> QED
  BY <1>1, <1>2, OutcomeStep, TypeInvariant, LettersInvariant, SeenInvariant, ReplayInvariant,
     KeysInvariant, PTL DEF Spec

-----------------------------------------------------------------------------
(* Where a goroutine goes                                                  *)

Validating == {"lookup", "rules", "commit"}

Moves(th, from, to) ==
    /\ job[th].step \in from /\ job'[th].step \in to
    /\ \A u \in Threads : u # th => job'[u] = job[u]

(* The order in which a goroutine goes through its critical sections, and  *)
(* that it works on one event from its admission to its record.            *)
LEMMA StepMoves ==
    ASSUME TypeInv, NEW th \in Threads
    PROVE  /\ \A r \in Requests : Receive(th, r) => Moves(th, {"idle"}, {"admit"})
           /\ \A l \in DOMAIN letters : ReplayBegin(th, l) => Moves(th, {"idle"}, {"admit"})
           /\ AnswerDuplicate(th) \/ RejectQuota(th) => Moves(th, {"admit"}, {"idle", "finish"})
           /\ Admit(th) => Moves(th, {"admit"}, {"lookup"}) /\ job'[th].event = job[th].event
           /\ Lookup(th) => /\ Moves(th, {"lookup"}, {"rules", "commit"})
                            /\ job'[th].event = job[th].event
           /\ SnapshotRules(th) => /\ Moves(th, {"rules"}, {"commit"})
                                   /\ job'[th].event = job[th].event
           /\ Commit(th) => Moves(th, {"commit"}, {"idle", "finish"})
           /\ ReplayFinish(th) => Moves(th, {"finish"}, {"idle"})
<1>1. job \in [Threads -> Job]
  BY DEF TypeInv, TypeOK
<1>2. ASSUME NEW ok, Return(th, ok)
      PROVE  /\ job'[th].step \in {"idle", "finish"}
             /\ \A u \in Threads : u # th => job'[u] = job[u]
  <2>1. CASE job[th].letter = 0
    BY <1>1, <1>2, <2>1 DEF Return, IdleJob
  <2>2. CASE job[th].letter # 0
    BY <1>1, <1>2, <2>2 DEF Return, Job
  <2> QED BY <2>1, <2>2
<1>3. \A r \in Requests : Receive(th, r) => Moves(th, {"idle"}, {"admit"})
  BY <1>1 DEF Receive, IdleJob, Moves
<1>4. \A l \in DOMAIN letters : ReplayBegin(th, l) => Moves(th, {"idle"}, {"admit"})
  BY <1>1 DEF ReplayBegin, IdleJob, Moves
<1>5. AnswerDuplicate(th) \/ RejectQuota(th) => Moves(th, {"admit"}, {"idle", "finish"})
  BY <1>2 DEF AnswerDuplicate, RejectQuota, Moves
<1>6. Admit(th) => Moves(th, {"admit"}, {"lookup"}) /\ job'[th].event = job[th].event
  BY <1>1 DEF Admit, Job, Moves
<1>7. Lookup(th) => Moves(th, {"lookup"}, {"rules", "commit"}) /\ job'[th].event = job[th].event
  <2> SUFFICES ASSUME Lookup(th)
               PROVE  Moves(th, {"lookup"}, {"rules", "commit"}) /\ job'[th].event = job[th].event
    OBVIOUS
  <2>1. \E found, step :
           /\ step \in {"rules", "commit"}
           /\ job' = [job EXCEPT ![th] = [@ EXCEPT !.step = step, !.reasons = found]]
    BY DEF Lookup
  <2>2. job[th].step = "lookup"
    BY DEF Lookup
  <2> QED BY <1>1, <2>1, <2>2 DEF Job, Moves
<1>8. SnapshotRules(th) => Moves(th, {"rules"}, {"commit"}) /\ job'[th].event = job[th].event
  BY <1>1 DEF SnapshotRules, Job, Moves
<1>9. Commit(th) => Moves(th, {"commit"}, {"idle", "finish"})
  BY <1>2 DEF Commit, Moves
<1>10. ReplayFinish(th) => Moves(th, {"finish"}, {"idle"})
  BY <1>1 DEF ReplayFinish, IdleJob, Moves
<1> QED BY <1>3, <1>4, <1>5, <1>6, <1>7, <1>8, <1>9, <1>10

-----------------------------------------------------------------------------
(* The log                                                                 *)

(* The log has an entry for each number it gave out, and a receipt says    *)
(* what the log says of its key.                                           *)
LogInv ==
    /\ IsFiniteSet(log)
    /\ \A x \in log : x.attempt <= ids
    /\ \A k \in DOMAIN seen : \E x \in log : SeenKey(x.sent) = k /\ x.status = seen[k].status

(* A Commit adds an entry to the log.                                      *)
LEMMA CommitLog ==
    ASSUME TypeInv, LogInv, NEW th \in Threads, Commit(th)
    PROVE  /\ LogInv'
           /\ \E x : /\ x \notin log /\ log' = log \cup {x}
                     /\ x.sent = job[th].event /\ x.replayOf = job[th].letter
                     /\ x.status = StatusOf(job[th].reasons)
<1>1. PICK x \in LogEntry : Records(x) /\ x.sent = job[th].event /\ x.replayOf = job[th].letter
  BY CommitRecords
<1>2. /\ log' = log \cup {x} /\ x.attempt = ids + 1 /\ ids' = ids + IF Failure(x) THEN 2 ELSE 1
      /\ seen' = Put(seen, SeenKey(x.sent), ReceiptOf(x))
  BY <1>1 DEF Records
<1>3. ids \in Nat /\ \A y \in log : y.attempt \in Nat
  BY DEF TypeInv, TypeOK, LogEntry
<1>4. x \notin log
  BY <1>2, <1>3 DEF LogInv
<1>5. x.status = StatusOf(job[th].reasons)
  <2>1. log' = log \cup {[sent |-> job[th].event, attempt |-> ids + 1,
                          status |-> StatusOf(job[th].reasons), reasons |-> job[th].reasons,
                          letter |-> IF StatusOf(job[th].reasons) = "dead_lettered"
                                     THEN ids + 2 ELSE 0,
                          replayOf |-> job[th].letter]}
    BY DEF Commit
  <2> QED BY <1>2, <1>4, <2>1
<1>6. IsFiniteSet(log')
  BY <1>2, FS_AddElement DEF LogInv
<1>7. \A y \in log' : y.attempt <= ids'
  BY <1>2, <1>3 DEF LogInv
<1>8. \A k \in DOMAIN seen' : \E y \in log' : SeenKey(y.sent) = k /\ y.status = seen'[k].status
  <2>1. /\ DOMAIN seen' = DOMAIN seen \cup {SeenKey(x.sent)}
        /\ seen'[SeenKey(x.sent)] = ReceiptOf(x)
        /\ \A k \in DOMAIN seen : k # SeenKey(x.sent) => seen'[k] = seen[k]
    BY <1>2 DEF Put
  <2>2. ReceiptOf(x).status = x.status
    BY DEF ReceiptOf
  <2> QED BY <1>2, <2>1, <2>2 DEF LogInv
<1> QED BY <1>1, <1>2, <1>4, <1>5, <1>6, <1>7, <1>8 DEF LogInv, SeenKey

(* The log is in order always.                                             *)
LEMMA LogInvariant == Spec => []LogInv
<1>1. Init => LogInv
  BY FS_EmptySet DEF Init, LogInv, EmptyMap
<1>2. TypeInv /\ LogInv /\ [Next]_vars => LogInv'
  <2> SUFFICES ASSUME TypeInv, LogInv, [Next]_vars PROVE LogInv'
    OBVIOUS
  <2>1. CASE \E th \in Threads : Commit(th)
    BY <2>1, CommitLog
  <2>2. CASE UNCHANGED <<seen, events, attempts, lineages, log>>
    <3>1. ids <= ids' /\ ids \in Nat /\ ids' \in Nat /\ \A y \in log : y.attempt \in Nat
      BY IdsGrow DEF TypeInv, TypeOK, LogEntry
    <3>2. \A y \in log : y.attempt <= ids'
      BY <3>1 DEF LogInv
    <3> QED BY <2>2, <3>2 DEF LogInv, SeenKey
  <2> QED BY <2>1, <2>2, OnlyCommitRecords
<1> QED BY <1>1, <1>2, TypeInvariant, PTL DEF Spec

-----------------------------------------------------------------------------
(* Admissions and records                                                  *)

(* A set that differs from another in at most one member.                  *)
LEMMA OneMember ==
    ASSUME NEW S, IsFiniteSet(S), NEW T, NEW x, T \ {x} = S \ {x}
    PROVE  /\ IsFiniteSet(T) /\ Cardinality(S) \in Nat /\ Cardinality(T) \in Nat
           /\ (x \in S <=> x \in T) => Cardinality(T) = Cardinality(S)
           /\ x \notin S /\ x \in T => Cardinality(T) = Cardinality(S) + 1
           /\ x \in S /\ x \notin T => Cardinality(T) = Cardinality(S) - 1
<1>1. CASE x \in S <=> x \in T
  <2>1. S = T
    BY <1>1
  <2> QED BY <1>1, <2>1, FS_CardinalityType
<1>2. CASE x \notin S /\ x \in T
  <2>1. T = S \cup {x}
    BY <1>2
  <2> QED BY <1>2, <2>1, FS_AddElement, FS_CardinalityType
<1>3. CASE x \in S /\ x \notin T
  <2>1. T = S \ {x}
    BY <1>3
  <2> QED BY <1>3, <2>1, FS_RemoveElement, FS_CardinalityType
<1> QED BY <1>1, <1>2, <1>3

RecordedOf(t) == {x \in log : x.sent.tenant = t}

ValidatedFor(t) == {th \in Threads : job[th].step \in Validating /\ job[th].event.tenant = t}

(* What a tenant was charged for is in the log or under validation.        *)
AdmissionInv ==
    \A t \in Tenants :
        /\ IsFiniteSet(ValidatedFor(t))
        /\ Len(granted[t]) = Cardinality(RecordedOf(t)) + Cardinality(ValidatedFor(t))

(* The records of a tenant can be counted.                                 *)
LEMMA RecordsCounted ==
    ASSUME LogInv, NEW t
    PROVE  IsFiniteSet(RecordedOf(t)) /\ Cardinality(RecordedOf(t)) \in Nat
<1>1. IsFiniteSet(RecordedOf(t))
  BY FS_Subset DEF LogInv, RecordedOf
<1> QED BY <1>1, FS_CardinalityType

(* An admission is charged and goes into validation.                       *)
LEMMA AdmitAccounts ==
    ASSUME TypeInv, LogInv, AdmissionInv, NEW th \in Threads, Admit(th)
    PROVE  AdmissionInv'
<1>1. PICK e : e = job[th].event
  OBVIOUS
<1>2. e.tenant \in Tenants /\ granted \in [Tenants -> Seq(Nat)]
  BY <1>1 DEF TypeInv, TypeOK, Admit, Event
<1>3. PICK w : granted' = [granted EXCEPT ![e.tenant] = Append(@, w)]
  BY <1>1 DEF Admit
<1>4. log' = log
  BY DEF Admit
<1>5. /\ job[th].step = "admit" /\ job'[th].step = "lookup" /\ job'[th].event = e
      /\ \A u \in Threads : u # th => job'[u] = job[u]
  BY <1>1, StepMoves DEF Moves
<1> SUFFICES ASSUME NEW t \in Tenants
             PROVE  /\ IsFiniteSet(ValidatedFor(t)')
                    /\ Len(granted'[t]) = Cardinality(RecordedOf(t)') + Cardinality(ValidatedFor(t)')
  BY DEF AdmissionInv
<1>6. RecordedOf(t)' = RecordedOf(t)
  BY <1>4 DEF RecordedOf
<1>7. /\ ValidatedFor(t)' \ {th} = ValidatedFor(t) \ {th} /\ th \notin ValidatedFor(t)
      /\ th \in ValidatedFor(t)' <=> t = e.tenant
  BY <1>1, <1>5 DEF ValidatedFor, Validating
<1>8. Len(granted'[t]) = IF t = e.tenant THEN Len(granted[t]) + 1 ELSE Len(granted[t])
  <2>1. granted[t] \in Seq(Nat) /\ Len(Append(granted[t], w)) = Len(granted[t]) + 1
    BY <1>2
  <2> QED BY <1>2, <1>3, <2>1
<1>9. /\ IsFiniteSet(ValidatedFor(t)) /\ Cardinality(RecordedOf(t)) \in Nat
      /\ Len(granted[t]) = Cardinality(RecordedOf(t)) + Cardinality(ValidatedFor(t))
  BY RecordsCounted DEF AdmissionInv
<1>10. PICK S, T : S = ValidatedFor(t) /\ T = ValidatedFor(t)'
  OBVIOUS
<1>11. /\ IsFiniteSet(T) /\ Cardinality(S) \in Nat
       /\ Cardinality(T) = IF t = e.tenant THEN Cardinality(S) + 1 ELSE Cardinality(S)
  <2>1. IsFiniteSet(S) /\ T \ {th} = S \ {th} /\ th \notin S /\ (th \in T <=> t = e.tenant)
    BY <1>7, <1>9, <1>10
  <2> HIDE <1>10
  <2> QED BY <2>1, OneMember
<1> QED BY <1>6, <1>8, <1>9, <1>10, <1>11

(* A Commit makes a record of what was under validation.                   *)
LEMMA CommitAccounts ==
    ASSUME TypeInv, LogInv, AdmissionInv, NEW th \in Threads, Commit(th)
    PROVE  AdmissionInv'
<1>1. PICK e : e = job[th].event
  OBVIOUS
<1>2. PICK x : x \notin log /\ log' = log \cup {x} /\ x.sent = e
  BY <1>1, CommitLog
<1>3. granted' = granted
  BY DEF Commit
<1>4. /\ job[th].step = "commit" /\ job'[th].step \in {"idle", "finish"}
      /\ \A u \in Threads : u # th => job'[u] = job[u]
  BY StepMoves DEF Moves
<1> SUFFICES ASSUME NEW t \in Tenants
             PROVE  /\ IsFiniteSet(ValidatedFor(t)')
                    /\ Len(granted'[t]) = Cardinality(RecordedOf(t)') + Cardinality(ValidatedFor(t)')
  BY DEF AdmissionInv
<1>5. /\ IsFiniteSet(ValidatedFor(t)) /\ IsFiniteSet(RecordedOf(t))
      /\ Len(granted[t]) = Cardinality(RecordedOf(t)) + Cardinality(ValidatedFor(t))
  BY RecordsCounted DEF AdmissionInv
<1>6. PICK S, T, U, V : /\ S = ValidatedFor(t) /\ T = ValidatedFor(t)'
                        /\ U = RecordedOf(t) /\ V = RecordedOf(t)'
  OBVIOUS
<1>7. /\ T \ {th} = S \ {th} /\ th \notin T
      /\ th \in S <=> t = e.tenant
  BY <1>1, <1>4, <1>6 DEF ValidatedFor, Validating
<1>8. /\ V \ {x} = U \ {x} /\ x \notin U
      /\ x \in V <=> t = e.tenant
  BY <1>2, <1>6 DEF RecordedOf
<1>9. IsFiniteSet(S) /\ IsFiniteSet(U)
  BY <1>5, <1>6
<1>10. /\ IsFiniteSet(T) /\ Cardinality(S) \in Nat /\ Cardinality(T) \in Nat
       /\ Cardinality(T) = IF t = e.tenant THEN Cardinality(S) - 1 ELSE Cardinality(S)
  <2> HIDE <1>6
  <2> QED BY <1>7, <1>9, OneMember
<1>11. /\ Cardinality(U) \in Nat /\ Cardinality(V) \in Nat
       /\ Cardinality(V) = IF t = e.tenant THEN Cardinality(U) + 1 ELSE Cardinality(U)
  <2> HIDE <1>6
  <2> QED BY <1>8, <1>9, OneMember
<1> QED BY <1>3, <1>5, <1>6, <1>10, <1>11

(* No other step takes anything into validation or out of it.              *)
LEMMA OthersAccount ==
    ASSUME TypeInv, AdmissionInv, [Next]_vars,
           ~ \E th \in Threads : Admit(th), ~ \E th \in Threads : Commit(th)
    PROVE  AdmissionInv'
<1>1. granted' = granted
  <2>1. ASSUME NEW th \in Threads,
               \/ AnswerDuplicate(th) \/ RejectQuota(th) \/ Lookup(th)
               \/ SnapshotRules(th) \/ ReplayFinish(th)
        PROVE  granted' = granted
    BY <2>1 DEF AnswerDuplicate, RejectQuota, Lookup, SnapshotRules, ReplayFinish
  <2> QED BY <2>1 DEF Next, ThreadStep, Receive, ReplayBegin, RegistryChanges, RulesChange, Tick, vars
<1>2. log' = log
  BY OnlyCommitRecords
<1>3. ASSUME NEW t \in Tenants PROVE ValidatedFor(t)' = ValidatedFor(t)
  <2>1. CASE UNCHANGED job
    BY <2>1 DEF ValidatedFor
  <2>2. ASSUME NEW th \in Threads, \E from, to : /\ Moves(th, from, to)
                                                /\ from \cap Validating = {} /\ to \cap Validating = {}
        PROVE  ValidatedFor(t)' = ValidatedFor(t)
    BY <2>2 DEF Moves, ValidatedFor
  <2>3. ASSUME NEW th \in Threads, \E from, to : /\ Moves(th, from, to)
                                                /\ from \subseteq Validating /\ to \subseteq Validating,
               job'[th].event = job[th].event
        PROVE  ValidatedFor(t)' = ValidatedFor(t)
    BY <2>3 DEF Moves, ValidatedFor
  <2>4. CASE \/ \E th \in Threads, r \in Requests : Receive(th, r)
             \/ \E th \in Threads, l \in DOMAIN letters : ReplayBegin(th, l)
    <3>1. PICK th \in Threads : Moves(th, {"idle"}, {"admit"})
      BY <2>4, StepMoves
    <3> QED BY <2>2, <3>1 DEF Validating
  <2>5. CASE \E th \in Threads : AnswerDuplicate(th) \/ RejectQuota(th) \/ ReplayFinish(th)
    <3>1. PICK th \in Threads : \/ Moves(th, {"admit"}, {"idle", "finish"})
                                \/ Moves(th, {"finish"}, {"idle"})
      BY <2>5, StepMoves
    <3> QED BY <2>2, <3>1 DEF Validating
  <2>6. CASE \E th \in Threads : Lookup(th) \/ SnapshotRules(th)
    <3>1. PICK th \in Threads : /\ \/ Moves(th, {"lookup"}, {"rules", "commit"})
                                   \/ Moves(th, {"rules"}, {"commit"})
                                /\ job'[th].event = job[th].event
      BY <2>6, StepMoves
    <3> QED BY <2>3, <3>1 DEF Validating
  <2> QED BY <2>1, <2>4, <2>5, <2>6 DEF Next, ThreadStep, RegistryChanges, RulesChange, Tick, vars
<1> QED BY <1>1, <1>2, <1>3 DEF AdmissionInv, RecordedOf

(* Nothing that was charged to a quota gets lost: each admission has its   *)
(* record or is being validated, in every interleaving (service.go:79-95). *)
THEOREM AdmissionsAccounted == Spec => []AdmissionInv
<1>1. Init => AdmissionInv
  <2> SUFFICES ASSUME Init, NEW t \in Tenants
               PROVE  /\ IsFiniteSet(ValidatedFor(t))
                      /\ Len(granted[t]) = Cardinality(RecordedOf(t)) + Cardinality(ValidatedFor(t))
    BY DEF AdmissionInv
  <2>1. ValidatedFor(t) = {} /\ RecordedOf(t) = {} /\ Len(granted[t]) = 0
    BY DEF Init, ValidatedFor, RecordedOf, IdleJob, Validating
  <2> QED BY <2>1, FS_EmptySet
<1>2. TypeInv /\ LogInv /\ AdmissionInv /\ [Next]_vars => AdmissionInv'
  BY AdmitAccounts, CommitAccounts, OthersAccount
<1> QED BY <1>1, <1>2, TypeInvariant, LogInvariant, PTL DEF Spec


=============================================================================
