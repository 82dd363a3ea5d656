----------------------------- MODULE DeadLetter -----------------------------
(***************************************************************************)
(* The dead letter of internal/deadletter/domain/model.go: a record and    *)
(* the two methods that move it.  A letter is created "pending" by the     *)
(* ingestion service and is then only changed by BeginReplay and           *)
(* FinishReplay.  The audit trail keeps the action names; actor, detail    *)
(* and time stamps are left out.                                           *)
(***************************************************************************)
EXTENDS Naturals, Sequences

LetterStates == {"pending", "replaying", "replayed", "poisoned"}

AuditActions == {"created", "replay_started", "replay_failed", "replay_succeeded"}

MutCanReplayForgetsBudget(l) == l.state # "poisoned"

(* The result of BeginReplay: a letter can be replayed unless it is        *)
(* poisoned or has no attempt left.  The state "replaying" or "replayed"   *)
(* does not stand in the way.                                              *)
CanReplay(l) == l.state # "poisoned" /\ l.attempts < l.max

(* What a successful BeginReplay leaves behind.                            *)
BeginReplay(l) ==
    [l EXCEPT !.state    = "replaying",
              !.attempts = @ + 1,
              !.audit    = Append(@, "replay_started")]

MutFinishReplayKeepsState(l, ok) ==
    [l EXCEPT !.state = IF ok THEN "replayed" ELSE @,
              !.audit = Append(@, IF ok THEN "replay_succeeded" ELSE "replay_failed")]

FinishReplay(l, ok) ==
    [l EXCEPT !.state = CASE ok                          -> "replayed"
                          [] ~ok /\ l.attempts >= l.max  -> "poisoned"
                          [] ~ok /\ l.attempts < l.max   -> "pending",
              !.audit = Append(@, IF ok THEN "replay_succeeded" ELSE "replay_failed")]
=============================================================================
