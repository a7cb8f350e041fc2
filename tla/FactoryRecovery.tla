-------------------------- MODULE FactoryRecovery ---------------------------
(***************************************************************************)
(* Governed recovery of one factory task: the runs that share one worktree, *)
(* the recoveries an operator authorises for it (verifier_only,             *)
(* checkpoint_verification, source_correction), the budget and contract     *)
(* revisions they rest on, the server's recheck when it dispatches them and *)
(* the runner that executes them.  `tree` is the content of the worktree; a *)
(* fingerprint is the content it was taken of.  A runner event is applied   *)
(* in the step that sends it, or refused as the store refuses it: the run   *)
(* already ended, or the work item cannot follow.                           *)
(***************************************************************************)
EXTENDS Naturals, Sequences, FiniteSets, FiniteSetsExt

CONSTANTS MaxRuns,      \* bound: runs of the lineage
          MaxTree,      \* bound: contents of the worktree
          MaxAttempts,  \* task.max_attempts
          MaxLimit,     \* bound: budget limits a revision may start from
          MaxFaults,    \* bound: crashes, lost runners, uncertain teardowns
          MaxEdits,     \* bound: what people do to the item, the run, the worktree
          Gated         \* whether the policy has a manual gate

ASSUME RecoveryAssumption ==
    /\ {MaxRuns, MaxTree, MaxAttempts, MaxLimit} \subseteq Nat \ {0}
    /\ MaxFaults \in Nat /\ MaxEdits \in Nat /\ Gated \in BOOLEAN

VARIABLES db,       \* runs (with their recoveries), task, mission and work item
          budget,   \* the mission's limit, its usage and a pending revision
          stopAsked,\* some run of the lineage has a run.stop_requested event
          command,  \* the pending runner command of the newest run
          tree,     \* what the worktree holds
          proc,     \* the assignment the runner executes
          faults, edits

vars == <<db, budget, stopAsked, command, tree, proc, faults, edits>>

Verifying == {"verifier_only", "checkpoint_verification"}
Modes == Verifying \cup {"source_correction"}
ActiveStatuses == {"starting", "running", "waiting"}
Hard == {"suspend", "stop"}
Closed == {"verified", "cancelled"}

NewRun(kind, parent, auth, origin) ==
    [kind |-> kind, status |-> "starting", verdict |-> "pending", parent |-> parent,
     auth |-> auth, origin |-> origin,
     recovery |-> IF kind \in Modes THEN "running" ELSE "none",
     breaker |-> "none", loop |-> FALSE, path |-> FALSE, pre |-> FALSE,
     disp |-> "none", clean |-> FALSE, print |-> 0, exported |-> 0]

Idle == [run |-> 0, pc |-> "idle", cancel |-> FALSE]

Runs == DOMAIN db.runs
Last == Len(db.runs)
Provider(r) == r.kind \notin Verifying
Active(i) == db.runs[i].status \in ActiveStatuses
NoActiveRun == \A i \in Runs : ~Active(i)

SetRow(s, i, f) == [s EXCEPT !.runs[i] = f]
Plan(s, status, verif, mission) ==
    [s EXCEPT !.task.status = status, !.task.verif = verif, !.mission = mission]

-----------------------------------------------------------------------------
(* The lineage of the worktree and what may start from it.                   *)

lineage_run_is_pre_dispatch_failure(r) ==
    r.status = "failed" /\ ~r.path /\ r.disp = "none" /\ r.pre

latest_workspace_source_id ==
    Max({i \in Runs : ~lineage_run_is_pre_dispatch_failure(db.runs[i])})

factory_recovery_source_is_terminal(r) ==
    \/ r.status \in {"failed", "cancelled"}
    \/ r.status = "lost" /\ r.kind \in Verifying

ensure_factory_terminal(r) ==
    /\ \/ factory_recovery_source_is_terminal(r)
       \/ r.status = "lost" /\ r.kind = "source_correction" /\ r.recovery = "failed"
    /\ r.verdict = "failed"

ensure_preserved(r) ==
    /\ r.disp = "preserved" /\ r.path
    /\ r.kind \in Verifying => r.print = r.auth
    /\ r.status = "lost" /\ r.kind = "source_correction" => r.print # 0

validate_report(r, print) == r.kind \in Verifying => print = r.auth

(* The suspended or stopped provider run whose seal a verifier inherits.     *)
CheckpointOrigin(i) ==
    IF Provider(db.runs[i]) THEN i
    ELSE IF db.runs[i].kind = "checkpoint_verification" /\ db.runs[i].recovery = "failed"
    THEN db.runs[i].origin ELSE 0

ensure_no_explicit_stop == ~stopAsked

MeasuredBudget(r) == r.breaker \in Hard /\ ~r.loop

(* The provider's process was gone before the worktree was sealed.           *)
SealedAfterProvider(r) == r.clean /\ r.print # 0

(* The boundary was a measured budget, not a loop.                           *)
budget_origin(o) ==
    /\ o # 0
    /\ LET r == db.runs[o] IN
       /\ Provider(r) /\ MeasuredBudget(r)
       /\ r.status \in {"failed", "cancelled"}
       /\ r.disp = "preserved" /\ SealedAfterProvider(r)

source_authority(i) ==
    /\ db.runs[i].status \in {"failed", "cancelled", "lost"}
    /\ db.runs[i].disp = "preserved"
    /\ ensure_no_explicit_stop
    /\ budget_origin(CheckpointOrigin(i))

validate_lineage(o) ==
    /\ ensure_no_explicit_stop
    /\ \A i \in Runs :
        LET r == db.runs[i] IN
        /\ r.status \notin ActiveStatuses /\ r.disp # "quarantined"
        /\ r.breaker = "stop" => i = o
        /\ i > o => /\ r.breaker = "none"
                    /\ r.kind = "checkpoint_verification" /\ r.recovery = "failed"
                    /\ r.origin = o

(* Once a lineage was suspended, or corrected under authority, a correction  *)
(* needs that authority for ever.                                            *)
requires_authority(i) ==
    \E j \in 1 .. i : \/ db.runs[j].breaker = "suspend"
                      \/ db.runs[j].kind = "source_correction" /\ db.runs[j].origin # 0

(* Nothing else in the lineage is protected.                                 *)
OnlyBarrier(o, upto) ==
    \A j \in 1 .. upto :
        /\ db.runs[j].disp # "quarantined"
        /\ db.runs[j].breaker \in Hard => j = o /\ db.runs[j].breaker = "suspend"

validate_admission_suffix(i) ==
    \A j \in i + 1 .. Last : lineage_run_is_pre_dispatch_failure(db.runs[j])

(* What the correction was launched with is still its source's seal.         *)
validate_native_edge(r) ==
    db.runs[r.parent].print = r.auth /\ db.runs[r.parent].disp # "quarantined"

FailedCheckpoint(r) ==
    r.kind = "checkpoint_verification" /\ r.status = "failed" /\ r.verdict = "failed"

historical_inner(r) ==
    /\ r.kind = "source_correction" /\ r.status \in {"failed", "cancelled", "lost"}
    /\ validate_native_edge(r)

(* A correction goes back to the failed checkpoint verification of the       *)
(* suspended run, through corrections that failed.                           *)
derive(i) ==
    LET r == db.runs[i] IN
    /\ r.recovery = "failed"
    /\ FailedCheckpoint(r) \/ historical_inner(r)
    /\ budget_origin(r.origin) /\ ensure_no_explicit_stop
    /\ OnlyBarrier(r.origin, i)

admit(i) == db.task.revised = i /\ derive(i) /\ validate_admission_suffix(i)

-----------------------------------------------------------------------------
(* The work item follows the run, in the transaction of the event.           *)

(* Every ancestor of the run: later siblings never started.                  *)
FailLineage(rs, i) ==
    [j \in DOMAIN rs |-> IF j <= i /\ rs[j].recovery = "running"
                         THEN [rs[j] EXCEPT !.recovery = "failed"] ELSE rs[j]]

FailureRefused(s) == s.item \in Closed

reconcile_factory_verification_failure_tx(s, i, cause) ==
    IF s.item = "verification_failed" \/ (s.item = "blocked" /\ cause # "recovery_admission")
    THEN s
    ELSE [s EXCEPT !.item = "verification_failed", !.owned = FALSE,
                   !.runs = FailLineage(@, i)]

reconcile_factory_verified_tx(s) ==
    IF s.item \in {"running", "awaiting_approval"} THEN [s EXCEPT !.item = "verified"] ELSE s

VerifiedRefused(s) == s.item \in {"verification_failed", "cancelled"}

AwaitRefused(s) == s.mission = "running" /\ s.item \in {"verification_failed"} \cup Closed

reconcile_factory_awaiting_approval_tx(s) ==
    IF s.mission = "running" /\ s.item = "running"
    THEN [s EXCEPT !.item = "awaiting_approval"] ELSE s

settle_successful_factory_recoveries_tx(rs, i) ==
    [j \in DOMAIN rs |-> IF j <= i /\ rs[j].recovery = "running"
                         THEN [rs[j] EXCEPT !.recovery = "completed"] ELSE rs[j]]

(* A recovery run that fails, is cancelled or is lost.                       *)
terminalize_factory_recovery_run_tx(s, i, status) ==
    IF FailureRefused(s) THEN s
    ELSE reconcile_factory_verification_failure_tx(
           Plan(SetRow(s, i, [s.runs[i] EXCEPT
                    !.status = status, !.verdict = "failed", !.recovery = "failed",
                    !.pre = @ \/ (~s.runs[i].path /\ status # "lost")]),
                "verification_failed", "failed", "failed"), i, "recovery_run_failure")

(* factory_run_failure::reconcile_tx: the item is parked and remembers it.   *)
ParkItem(s) ==
    IF s.item \in {"running", "awaiting_approval"}
    THEN [s EXCEPT !.item = "blocked", !.owned = TRUE] ELSE s

should_retry_runner_failure(s, i) ==
    s.runs[i].breaker \notin Hard /\ s.task.attempts < MaxAttempts

-----------------------------------------------------------------------------
(* Events of the runner as the store applies them.                           *)

run_started(s, i) ==
    IF s.runs[i].status \notin ActiveStatuses THEN s
    ELSE [SetRow(s, i, [s.runs[i] EXCEPT !.status = "running", !.path = TRUE])
            EXCEPT !.task.status = "running"]

run_failed(s, i) ==
    IF \/ s.runs[i].status \notin ActiveStatuses \/ i # Len(s.runs)
       \/ s.task.status = "completed" \/ s.mission \in {"completed", "cancelled"}
    THEN s
    ELSE IF s.runs[i].recovery # "none" THEN terminalize_factory_recovery_run_tx(s, i, "failed")
    ELSE LET t == SetRow(s, i, [s.runs[i] EXCEPT !.status = "failed"])
         IN  IF should_retry_runner_failure(s, i)
             THEN [t EXCEPT !.task.status = "ready"]
             ELSE ParkItem([t EXCEPT !.task.status = "failed", !.mission = "failed"])

run_cancelled(s, i) ==
    IF s.runs[i].status \notin ActiveStatuses THEN s
    ELSE IF s.runs[i].recovery # "none" THEN terminalize_factory_recovery_run_tx(s, i, "cancelled")
    ELSE [SetRow(s, i, [s.runs[i] EXCEPT !.status = "cancelled"])
            EXCEPT !.task.status = "cancelled", !.mission = "cancelled"]

run_verification_failed(s, i) ==
    IF s.runs[i].status \notin ActiveStatuses \/ FailureRefused(s) THEN s
    ELSE reconcile_factory_verification_failure_tx(
           Plan(SetRow(s, i, [s.runs[i] EXCEPT !.status = "failed", !.verdict = "failed"]),
                "verification_failed", "failed",
                IF s.mission = "running" THEN "failed" ELSE s.mission),
           i, "automated_verification")

run_verification_waiting(s, i) ==
    IF s.runs[i].status \notin ActiveStatuses \/ AwaitRefused(s) THEN s
    ELSE reconcile_factory_awaiting_approval_tx(
           [SetRow(s, i, [s.runs[i] EXCEPT !.status = "waiting", !.verdict = "waiting"])
              EXCEPT !.task.status = "awaiting_approval", !.task.verif = "waiting"])

run_completed(s, i) ==
    IF s.runs[i].status \notin ActiveStatuses \/ VerifiedRefused(s) THEN s
    ELSE LET t == Plan(SetRow(s, i, [s.runs[i] EXCEPT !.status = "completed",
                                                      !.verdict = "passed"]),
                       "completed", "passed", "completed")
         IN  reconcile_factory_verified_tx(
               [t EXCEPT !.runs = settle_successful_factory_recoveries_tx(@, i)])

(* run.workspace_preserved: quarantine sticks, a seal is never replaced, a   *)
(* verifier may only report the content it was authorised for, and a lost    *)
(* correction gets back the worktree it was authorised for.                  *)
run_workspace_preserved(s, i, print, quarantined) ==
    LET r == s.runs[i]
        q == quarantined \/ r.disp = "quarantined"
        p == IF q THEN 0 ELSE print
    IN  IF p # 0 /\ (~validate_report(r, p) \/ r.print \notin {0, p}) THEN s
        ELSE SetRow(s, i, [r EXCEPT
               !.disp = IF q THEN "quarantined" ELSE "preserved",
               !.print = IF p # 0 THEN p ELSE @,
               !.path = @ \/ (/\ r.status = "lost" /\ r.kind = "source_correction"
                              /\ r.recovery = "failed" /\ p # 0)])

run_teardown_uncertain(s, i) ==
    IF s.runs[i].status \notin ActiveStatuses \/ s.runs[i].disp = "quarantined" THEN s
    ELSE SetRow(s, i, [s.runs[i] EXCEPT !.disp = "preserved"])

fail_factory_recovery_before_dispatch(s, i) ==
    IF FailureRefused(s) \/ s.runs[i].status # "starting" THEN s
    ELSE LET t == Plan(SetRow(s, i, [s.runs[i] EXCEPT !.status = "failed", !.verdict = "failed",
                                                      !.pre = TRUE, !.recovery = "failed"]),
                       "verification_failed", "failed", "failed")
         IN  reconcile_factory_verification_failure_tx(t, i, "dispatch_failed")

-----------------------------------------------------------------------------
(* What operators ask for.                                                   *)

AtLatestSource(i) == i = latest_workspace_source_id /\ NoActiveRun

(* create_factory_verification_recovery: conditions common to the two modes  *)
(* that answer a failed verification; the item is reconciled first.          *)
VerificationFailedState(i) ==
    /\ ensure_factory_terminal(db.runs[i])
    /\ db.task.status = "verification_failed"
    /\ db.task.verif = "failed" \/ (db.task.revised = i /\ db.task.verif = "pending")
    /\ db.mission = "failed"
    /\ db.item \in {"running", "blocked", "awaiting_approval", "verification_failed"}

CheckpointAdmitted(i) ==
    /\ source_authority(i) /\ validate_lineage(CheckpointOrigin(i))
    /\ db.task.status \in {"failed", "cancelled", "verification_failed"}
    /\ db.mission \in {"failed", "cancelled"}
    /\ db.item \in {"running", "verification_failed"} \/ (db.item = "blocked" /\ db.owned)

(* The verifier's lineage must be free of barriers; a correction may pass    *)
(* the one suspension its authority names.                                   *)
LineageAdmits(mode, i) ==
    CASE mode = "checkpoint_verification" ->
            CheckpointAdmitted(i) /\ \A j \in Runs : db.runs[j].disp # "quarantined"
      [] mode = "verifier_only" -> VerificationFailedState(i) /\ OnlyBarrier(0, Last)
      [] mode = "source_correction" ->
            /\ VerificationFailedState(i) /\ db.task.revised = i
            /\ IF requires_authority(i) THEN admit(i) /\ OnlyBarrier(db.runs[i].origin, Last)
               ELSE OnlyBarrier(0, Last)

Charged(mode) == mode # "checkpoint_verification"

BudgetAllows(mode) ==
    Charged(mode) => db.task.attempts < MaxAttempts /\ budget.used < budget.limit

(* The checkpoint a replacement stands on, kept with the recovery.           *)
RecoveryOrigin(mode, i) ==
    CASE mode = "checkpoint_verification" -> CheckpointOrigin(i)
      [] mode = "source_correction" /\ requires_authority(i) -> db.runs[i].origin
      [] OTHER -> 0

(* An item that did not follow its failed run yet is reconciled first.       *)
Reconciled(mode, i) ==
    IF Charged(mode) THEN reconcile_factory_verification_failure_tx(db, i, "recovery_admission")
    ELSE db

(* Mission, task and item are at work again.                                 *)
Reopened(s, mode) ==
    [s EXCEPT !.task.status = "claimed", !.task.verif = "pending",
              !.task.attempts = IF Charged(mode) THEN @ + 1 ELSE @,
              !.mission = "running", !.item = "running", !.owned = FALSE, !.parked = FALSE]

create_factory_verification_recovery(mode) ==
    LET i == latest_workspace_source_id
        r == db.runs[i]
    IN
    /\ Last < MaxRuns /\ NoActiveRun /\ command = "none"
    /\ ensure_preserved(r) /\ r.print # 0
    /\ LineageAdmits(mode, i) /\ BudgetAllows(mode)
    /\ db' = [Reopened(Reconciled(mode, i), mode) EXCEPT
                !.runs = Append(@, NewRun(mode, i, r.print, RecoveryOrigin(mode, i)))]
    /\ command' = "launch"
    /\ UNCHANGED <<budget, stopAsked, tree, proc, faults, edits>>

(* A worktree that was kept without a seal.                                  *)
SealableSource(r) ==
    /\ ensure_factory_terminal(r) /\ r.disp = "preserved" /\ r.path /\ r.print = 0
    /\ db.mission = "failed" /\ db.task.status = "verification_failed" /\ db.task.verif = "failed"
    /\ OnlyBarrier(0, Last)

checkpoint_factory_workspace ==
    /\ command = "none" /\ NoActiveRun
    /\ db.item \in {"verification_failed", "blocked"}
    /\ SealableSource(db.runs[latest_workspace_source_id])
    /\ command' = "seal"
    /\ UNCHANGED <<db, budget, stopAsked, tree, proc, faults, edits>>

(* A reviewed checkpoint whose deliverable was exported needs no runner.     *)
review_ready(i) ==
    LET r == db.runs[i] IN
    /\ r.status = "waiting" /\ r.kind = "checkpoint_verification" /\ r.recovery = "running"
    /\ db.task.status = "awaiting_approval" /\ db.mission = "running"
    /\ db.item = "awaiting_approval" /\ r.exported # 0

(* It is asked for when the seal of the waiting run was lost with its runner: *)
(* a verifier that is about to report its seal is left to do so.              *)
request_review_checkpoint ==
    /\ command = "none" /\ proc.pc = "idle" /\ edits < MaxEdits
    /\ review_ready(Last) /\ db.runs[Last].print = 0
    /\ \A j \in Runs : db.runs[j].disp # "quarantined"
    /\ command' = "seal" /\ edits' = edits + 1
    /\ UNCHANGED <<db, budget, stopAsked, tree, proc, faults>>

(* create_mission_contract_revision, next action resume.                     *)
ResumableSource(i) ==
    LET r == db.runs[i] IN
    /\ r.status \in {"failed", "cancelled", "lost"} /\ r.disp = "preserved"
    /\ \A j \in Runs : db.runs[j].breaker # "stop" /\ db.runs[j].disp # "quarantined"

create_mission_contract_revision ==
    LET i == latest_workspace_source_id IN
    /\ NoActiveRun /\ ResumableSource(i) /\ db.task.revised # i
    /\ db.mission # "completed"
    /\ db' = [db EXCEPT !.task.revised = i, !.task.verif = "pending"]
    /\ UNCHANGED <<budget, stopAsked, command, tree, proc, faults, edits>>

(* The newest run is a suspension that can be resumed with more budget.      *)
ResumableSuspension ==
    LET r == db.runs[latest_workspace_source_id] IN
    /\ NoActiveRun /\ Provider(r)
    /\ r.breaker = "suspend" /\ r.status \in {"failed", "cancelled"} /\ r.disp = "preserved"

propose_budget_revision ==
    /\ ~budget.pending /\ db.mission # "completed" /\ ResumableSuspension
    /\ budget.limit < MaxLimit
    /\ budget' = [budget EXCEPT !.pending = TRUE]
    /\ UNCHANGED <<db, stopAsked, command, tree, proc, faults, edits>>

(* The new limit exceeds what was consumed.                                  *)
decide_budget_revision(approve) ==
    /\ budget.pending
    /\ approve => db.mission # "completed" /\ ResumableSuspension
    /\ budget' = [budget EXCEPT !.pending = FALSE,
                                !.limit = IF approve THEN budget.used + 1 ELSE @]
    /\ UNCHANGED <<db, stopAsked, command, tree, proc, faults, edits>>

ensure_generic_resume_is_not_factory_recovery(r) ==
    db.task.status # "verification_failed" /\ r.verdict # "failed"

(* resume_tx: an item that was parked because its run failed runs again; an  *)
(* outcome is not reopened.                                                  *)
ResumeRefused == db.item \in Closed
ResumedItem   == IF db.item = "blocked" /\ db.owned THEN "running" ELSE db.item

create_resume_run ==
    LET i == latest_workspace_source_id
        r == db.runs[i]
    IN
    /\ Last < MaxRuns /\ NoActiveRun /\ command = "none"
    /\ Provider(r) /\ r.disp = "preserved" /\ ~ResumeRefused
    /\ ensure_generic_resume_is_not_factory_recovery(r)
    /\ \A j \in Runs : db.runs[j].breaker # "stop"
    /\ budget.used < budget.limit
    /\ db' = [db EXCEPT !.runs = Append(@, NewRun("resume", i, 0, 0)),
                        !.task.status = "claimed", !.task.verif = "pending",
                        !.mission = "running", !.item = ResumedItem, !.owned = FALSE]
    /\ command' = "launch"
    /\ UNCHANGED <<budget, stopAsked, tree, proc, faults, edits>>

(* The owner of the claim moves the item: parks it, lets it go on, or ends   *)
(* it (failed differs from cancelled in nothing that matters here).          *)
transition_factory_work_item(to) ==
    /\ edits < MaxEdits
    /\ \/ to = "running" /\ db.item = "blocked" /\ db.mission = "running"
       \/ to = "blocked" /\ db.item \in {"running", "awaiting_approval", "verification_failed"}
       \/ to = "cancelled" /\ db.item \notin Closed
    /\ db' = [db EXCEPT !.item = to, !.owned = FALSE, !.parked = @ \/ to = "blocked",
                        !.from = IF to = "cancelled" THEN db.item ELSE "none"]
    /\ edits' = edits + 1
    /\ UNCHANGED <<budget, stopAsked, command, tree, proc, faults>>

(* The item was cancelled by its owner, from running, because the mission    *)
(* stopped at its budget.                                                    *)
cancellation_event(i) ==
    /\ db.item = "cancelled" /\ db.from = "running"
    /\ db.mission = "cancelled" /\ db.task.status = "cancelled"
    /\ db.runs[i].status = "cancelled" /\ Provider(db.runs[i]) /\ db.runs[i].breaker \in Hard

reconcile_checkpoint_cancellation ==
    LET i == latest_workspace_source_id IN
    /\ AtLatestSource(i)
    /\ source_authority(i) /\ validate_lineage(CheckpointOrigin(i))
    /\ cancellation_event(i)
    /\ db' = [db EXCEPT !.item = "running", !.from = "none"]
    /\ UNCHANGED <<budget, stopAsked, command, tree, proc, faults, edits>>

(* request_emergency_stop: the event first, then the control to the runner.  *)
request_emergency_stop ==
    /\ edits < MaxEdits /\ Active(Last)
    /\ stopAsked' = TRUE /\ edits' = edits + 1
    /\ proc' = IF proc.run = Last THEN [proc EXCEPT !.cancel = TRUE] ELSE proc
    /\ UNCHANGED <<db, budget, command, tree, faults>>

decide_verification(approved) ==
    /\ db.runs[Last].status = "waiting" /\ db.task.status = "awaiting_approval"
    /\ db.mission = "running"
    /\ db' = IF approved THEN run_completed(db, Last) ELSE run_verification_failed(db, Last)
    /\ db' # db
    /\ UNCHANGED <<budget, stopAsked, command, tree, proc, faults, edits>>

-----------------------------------------------------------------------------
(* The server dispatches a pending command, or finds that it may not.        *)

verification_recovery_dispatch_authorized(i) ==
    LET r == db.runs[i]
        source == db.runs[r.parent]
    IN
    /\ r.status \in ActiveStatuses /\ r.disp # "quarantined" /\ r.recovery = "running"
    /\ source.status \in {"failed", "cancelled", "lost"}
    /\ source.disp = "preserved" /\ source.path /\ source.print = r.auth
    /\ r.kind = "checkpoint_verification" => ensure_no_explicit_stop

(* The rows the launch command was written from have not moved.              *)
CommandRowsUnmoved(i) ==
    LET r == db.runs[i]
        source == db.runs[r.parent]
    IN
    /\ r.status \in ActiveStatuses /\ r.disp # "quarantined" /\ r.recovery = "running"
    /\ db.task.status \in {"claimed", "running"} /\ db.mission = "running" /\ db.item = "running"
    /\ source.status \in {"failed", "cancelled", "lost"} /\ source.disp = "preserved"
    /\ source.print = r.auth

source_correction_command_authorized(i) ==
    /\ CommandRowsUnmoved(i) /\ i = Last
    /\ IF db.runs[i].origin # 0 THEN derive(db.runs[i].parent) ELSE OnlyBarrier(0, Last)

\* Mutant: the authority is only checked when the recovery is created.
AuthorizedAtCreation(i) ==
    db.runs[i].status \in ActiveStatuses /\ db.runs[db.runs[i].parent].print = db.runs[i].auth

AuthorityIsCurrent(i) ==
    CASE db.runs[i].kind \in Verifying -> verification_recovery_dispatch_authorized(i)
      [] db.runs[i].kind = "source_correction" -> source_correction_command_authorized(i)
      [] OTHER -> Active(i)

(* The runner refuses a run it already holds and asks for nothing else; that *)
(* its earlier assignment has left the worktree follows from the row of the  *)
(* source, which names a preserved worktree only when it has.                *)
Dispatch ==
    /\ command = "launch" /\ proc.run # Last
    /\ IF AuthorityIsCurrent(Last)
       THEN /\ proc' = [Idle EXCEPT !.run = Last, !.pc = "launched"]
            /\ command' = "none" /\ UNCHANGED db
       ELSE /\ db' = fail_factory_recovery_before_dispatch(db, Last)
            /\ command' = IF db' # db \/ ~Active(Last) THEN "none" ELSE command
            /\ UNCHANGED proc
    /\ UNCHANGED <<budget, stopAsked, tree, faults, edits>>

(* Secrets, the artifact or the runner's capability are missing.             *)
DispatchImpossible ==
    /\ command = "launch" /\ faults < MaxFaults /\ db.runs[Last].kind \in Modes
    /\ db' = fail_factory_recovery_before_dispatch(db, Last) /\ db' # db
    /\ command' = "none" /\ faults' = faults + 1
    /\ UNCHANGED <<budget, stopAsked, tree, proc, edits>>

\* Mutant: only runs the runner started are reconciled.
LoseStarted ==
    /\ db.runs[Last].path /\ Active(Last) /\ proc.run # Last
    /\ db.runs[Last].status # "waiting"
    /\ db' = IF db.runs[Last].recovery = "running"
             THEN terminalize_factory_recovery_run_tx(db, Last, "lost")
             ELSE SetRow(db, Last, [db.runs[Last] EXCEPT !.status = "lost"])
    /\ db' # db
    /\ UNCHANGED <<budget, stopAsked, command, tree, proc, faults, edits>>

(* A run its runner does not report is lost; so is one whose runner stayed   *)
(* away too long while it worked on.                                         *)
mark_runner_runs_lost ==
    LET i == Last
        r == db.runs[i]
    IN
    /\ Active(i) /\ command # "launch" /\ ~review_ready(i)
    /\ \/ proc.run # i /\ r.status # "waiting" /\ UNCHANGED faults
       \/ faults < MaxFaults /\ faults' = faults + 1
    /\ db' = IF r.recovery = "running" THEN terminalize_factory_recovery_run_tx(db, i, "lost")
             ELSE [SetRow(db, i, [r EXCEPT !.status = "lost"]) EXCEPT
                     !.task.status = "blocked",
                     !.mission = IF @ = "running" THEN "failed" ELSE @]
    /\ db' # db
    /\ UNCHANGED <<budget, stopAsked, command, tree, proc, edits>>

-----------------------------------------------------------------------------
(* The runner: provider assignments.                                         *)

At(pc) == proc.pc = pc
Row == db.runs[proc.run]
Goto(pc) == proc' = [proc EXCEPT !.pc = pc]
Done == proc' = Idle

verify_prepared_recovery_workspace == Row.auth = 0 \/ tree = Row.auth

strongest_breaker_stage(used, limit) ==
    IF used > limit THEN "stop" ELSE IF used = limit THEN "suspend" ELSE "none"

(* execute_assignment: the worktree is compared before the provider starts.  *)
StartProvider ==
    /\ At("launched") /\ Provider(Row)
    /\ IF verify_prepared_recovery_workspace
       THEN db' = run_started(db, proc.run) /\ Goto("working")
       ELSE db' = run_workspace_preserved(run_failed(db, proc.run), proc.run, 0, TRUE) /\ Done
    /\ UNCHANGED <<budget, stopAsked, command, tree, faults, edits>>

(* The provider edits the worktree and reports usage; the breaker is         *)
(* evaluated with the usage it reports.                                      *)
ProviderWorks(cost) ==
    /\ At("working") /\ Row.breaker = "none" /\ tree < MaxTree
    /\ tree' = tree + 1
    /\ IF Active(proc.run)
       THEN /\ budget' = [budget EXCEPT !.used = @ + cost]
            /\ db' = SetRow(db, proc.run, [Row EXCEPT
                        !.breaker = strongest_breaker_stage(budget.used + cost, budget.limit)])
       ELSE UNCHANGED <<budget, db>>
    /\ UNCHANGED <<stopAsked, command, proc, faults, edits>>

(* Repeated tools or no progress.                                            *)
LoopDetected ==
    /\ At("working") /\ Active(proc.run) /\ Row.breaker = "none" /\ edits < MaxEdits
    /\ db' = SetRow(db, proc.run, [Row EXCEPT !.breaker = "suspend", !.loop = TRUE])
    /\ edits' = edits + 1
    /\ UNCHANGED <<budget, stopAsked, command, tree, proc, faults>>

(* source_checkpoint::report, then the terminal event: the provider is gone  *)
(* before the worktree is sealed, unless its teardown is uncertain.          *)
SealSource(s, certain) ==
    IF certain
    THEN LET t == run_workspace_preserved(s, proc.run, tree, FALSE)
         IN  SetRow(t, proc.run, [t.runs[proc.run] EXCEPT !.clean = TRUE])
    ELSE run_teardown_uncertain(s, proc.run)

HardBoundary(fails, certain) ==
    /\ At("working") /\ Row.breaker \in Hard
    /\ ~certain => faults < MaxFaults
    /\ faults' = IF certain THEN faults ELSE faults + 1
    /\ LET s == SealSource(db, certain)
       IN  db' = IF fails THEN run_failed(s, proc.run) ELSE run_cancelled(s, proc.run)
    /\ Done
    /\ UNCHANGED <<budget, stopAsked, command, tree, edits>>

(* Verification of a provider's work runs in the worktree itself.            *)
AcceptWork(s, i) ==
    LET t == SetRow(s, i, [s.runs[i] EXCEPT !.exported = tree])
    IN  IF s.runs[i].status \notin ActiveStatuses THEN s
        ELSE IF Gated THEN run_verification_waiting(t, i) ELSE run_completed(t, i)

ProviderFinishes(outcome) ==
    /\ At("working") /\ Row.breaker = "none"
    /\ db' = CASE outcome = "passed" -> AcceptWork(db, proc.run)
               [] outcome = "rejected" -> run_verification_failed(db, proc.run)
               [] outcome = "failed" -> run_failed(db, proc.run)
    /\ Goto("retain")
    /\ UNCHANGED <<budget, stopAsked, command, tree, faults, edits>>

(* The worktree is retained; reading its fingerprint may fail.  A provider's *)
(* verification is given no fingerprint and no head to compare with, so it   *)
(* never reports the integrity failure that would quarantine the worktree.   *)
RetainWorkspace(sealed) ==
    /\ At("retain")
    /\ ~sealed => faults < MaxFaults
    /\ faults' = IF sealed THEN faults ELSE faults + 1
    /\ db' = run_workspace_preserved(db, proc.run, IF sealed THEN tree ELSE 0, FALSE)
    /\ Done
    /\ UNCHANGED <<budget, stopAsked, command, tree, edits>>

-----------------------------------------------------------------------------
(* The runner: verification assignments.                                     *)

(* The source and the private baseline copied from it are compared with the  *)
(* authorised fingerprint before anything runs.                              *)
AdmitCheckpoint ==
    /\ At("launched") /\ ~Provider(Row)
    /\ db' = run_started(db, proc.run)
    /\ Goto(IF verify_prepared_recovery_workspace THEN "checking" ELSE "integrity")
    /\ UNCHANGED <<budget, stopAsked, command, tree, faults, edits>>

verify_preserved_workspace_checkpoint == tree = Row.auth

(* verify_isolated_recovery_checks, then the source is compared again.       *)
RunChecks(pass) ==
    /\ At("checking") /\ ~proc.cancel
    /\ IF pass /\ verify_preserved_workspace_checkpoint
       THEN UNCHANGED db /\ Goto("export")
       ELSE /\ db' = run_verification_failed(db, proc.run)
            /\ Goto(IF verify_preserved_workspace_checkpoint THEN "recheck" ELSE "integrity")
    /\ UNCHANGED <<budget, stopAsked, command, tree, faults, edits>>

(* The deliverable is exported from the worktree and uploaded; the source is *)
(* compared after the export and before acceptance.                          *)
ExportDeliverable ==
    /\ At("export") /\ ~proc.cancel
    /\ db' = IF Active(proc.run) THEN SetRow(db, proc.run, [Row EXCEPT !.exported = tree]) ELSE db
    /\ Goto("accept")
    /\ UNCHANGED <<budget, stopAsked, command, tree, faults, edits>>

\* Mutant: the last comparison with the source is skipped.
AcceptUnchecked ==
    /\ At("accept") /\ ~proc.cancel
    /\ db' = IF Gated THEN run_verification_waiting(db, proc.run) ELSE run_completed(db, proc.run)
    /\ Goto("finish")
    /\ UNCHANGED <<budget, stopAsked, command, tree, faults, edits>>

AcceptChecked ==
    /\ At("accept") /\ ~proc.cancel
    /\ IF verify_preserved_workspace_checkpoint
       THEN /\ db' = IF Gated THEN run_verification_waiting(db, proc.run)
                     ELSE run_completed(db, proc.run)
            /\ Goto("finish")
       ELSE db' = run_failed(db, proc.run) /\ Goto("integrity")
    /\ UNCHANGED <<budget, stopAsked, command, tree, faults, edits>>

(* A stop or a hard breaker cancels what is not yet accepted.                *)
Interrupted ==
    /\ proc.cancel
    /\ proc.pc \in {"working", "checking", "export", "accept"}
    /\ IF Provider(Row)
       THEN db' = run_cancelled(db, proc.run) /\ Goto("retain")
       ELSE /\ db' = IF verify_preserved_workspace_checkpoint
                     THEN run_cancelled(db, proc.run) ELSE run_failed(db, proc.run)
            /\ Goto("recheck")
    /\ UNCHANGED <<budget, stopAsked, command, tree, faults, edits>>

(* The end of execute_verification_assignment: a source that changed is      *)
(* quarantined, a finished run keeps the fingerprint it was authorised for.  *)
FinishVerification ==
    /\ proc.pc \in {"recheck", "integrity", "finish"}
    /\ LET bad == At("integrity") \/ (At("recheck") /\ ~verify_preserved_workspace_checkpoint)
       IN  db' = run_workspace_preserved(IF bad THEN run_failed(db, proc.run) ELSE db,
                                         proc.run, Row.auth, bad)
    /\ Done
    /\ UNCHANGED <<budget, stopAsked, command, tree, faults, edits>>

(* checkpoint_preserved_workspace: the head must be the expected one.        *)
checkpoint_preserved_workspace(matches) ==
    LET i == IF Active(Last) THEN Last ELSE latest_workspace_source_id IN
    /\ command = "seal"
    /\ ~matches => edits < MaxEdits
    /\ edits' = IF matches THEN edits ELSE edits + 1
    /\ db' = IF matches THEN run_workspace_preserved(db, i, tree, FALSE)
             ELSE run_workspace_preserved(run_failed(db, i), i, 0, TRUE)
    /\ command' = "none"
    /\ UNCHANGED <<budget, stopAsked, tree, proc, faults>>

RunnerCrash ==
    /\ proc.pc # "idle" /\ faults < MaxFaults
    /\ faults' = faults + 1 /\ Done
    /\ UNCHANGED <<db, budget, stopAsked, command, tree, edits>>

(* Something outside the system writes to the worktree.                      *)
OutsideEdit ==
    /\ edits < MaxEdits /\ tree < MaxTree /\ db.mission # "completed"
    /\ tree' = tree + 1 /\ edits' = edits + 1
    /\ UNCHANGED <<db, budget, stopAsked, command, proc, faults>>

-----------------------------------------------------------------------------
(* The first run of the task is at work.                                     *)
Init ==
    /\ db = [runs |-> <<[NewRun("task", 0, 0, 0) EXCEPT !.status = "running", !.path = TRUE]>>,
             task |-> [status |-> "running", verif |-> "pending", attempts |-> 1, revised |-> 0],
             mission |-> "running", item |-> "running", owned |-> FALSE, parked |-> FALSE,
             from |-> "none"]
    /\ budget = [limit |-> 1, used |-> 0, pending |-> FALSE]
    /\ stopAsked = FALSE /\ command = "none" /\ tree = 1
    /\ proc = [Idle EXCEPT !.run = 1, !.pc = "working"]
    /\ faults = 0 /\ edits = 0

OperatorStep ==
    \/ \E mode \in Modes : create_factory_verification_recovery(mode)
    \/ checkpoint_factory_workspace \/ request_review_checkpoint
    \/ create_mission_contract_revision \/ propose_budget_revision
    \/ \E approve \in BOOLEAN : decide_budget_revision(approve)
    \/ create_resume_run \/ reconcile_checkpoint_cancellation
    \/ \E to \in {"running", "blocked", "cancelled"} : transition_factory_work_item(to)
    \/ request_emergency_stop
    \/ \E approved \in BOOLEAN : decide_verification(approved)

RunnerStep ==
    \/ StartProvider \/ \E cost \in 1 .. 2 : ProviderWorks(cost)
    \/ \E fails, certain \in BOOLEAN : HardBoundary(fails, certain)
    \/ \E outcome \in {"passed", "rejected", "failed"} : ProviderFinishes(outcome)
    \/ \E sealed \in BOOLEAN : RetainWorkspace(sealed)
    \/ AdmitCheckpoint \/ \E pass \in BOOLEAN : RunChecks(pass)
    \/ ExportDeliverable \/ AcceptChecked \/ Interrupted \/ FinishVerification
    \/ \E matches \in BOOLEAN : checkpoint_preserved_workspace(matches)

Next ==
    \/ OperatorStep \/ RunnerStep
    \/ Dispatch \/ DispatchImpossible \/ mark_runner_runs_lost
    \/ LoopDetected \/ RunnerCrash \/ OutsideEdit

Spec == Init /\ [][Next]_vars

(* The server polls its commands and reconciles the runs a runner does not   *)
(* report; a live runner works on; an adapter's process ends.                *)
FairSpec ==
    /\ Spec
    /\ WF_vars(Dispatch) /\ WF_vars(mark_runner_runs_lost) /\ WF_vars(RunnerStep)

-----------------------------------------------------------------------------

(* What a verifier accepted is the content its recovery was authorised for,  *)
(* and so is what it exported, whatever was written to the worktree between  *)
(* the seal, the checks, the export and the verdict.                         *)
VerdictIsOfSealedTree ==
    \A i \in Runs :
        LET r == db.runs[i] IN
        r.kind \in Verifying /\ r.verdict \in {"waiting", "passed"} =>
            /\ r.exported = r.auth
            /\ r.auth = db.runs[r.parent].print

(* A recovery is open exactly while its run is: no verdict, cancellation,    *)
(* loss or failed dispatch leaves one behind that would block the next, as   *)
(* long as nobody parked the item meanwhile.                                 *)
RecoveryFollowsRun ==
    \A i \in Runs :
        LET r == db.runs[i] IN
        /\ r.recovery = "running" => Active(i) \/ db.parked
        /\ Active(i) /\ r.kind \in Modes => r.recovery = "running" /\ i = Last
        /\ r.recovery = "completed" => r.status = "completed" \/ db.parked

(* No provider or verifier is launched past a barrier: the lineage it        *)
(* continues holds nothing quarantined before it, no stop beside the one a   *)
(* zero-cost verification may look at, and no stop anybody asked for when    *)
(* the authority is a suspended run's seal.                                  *)
NoLaunchPastBarrier ==
    [][Dispatch /\ proc'.pc = "launched" =>
        LET r == db.runs[Last] IN
        /\ \A j \in 1 .. Last - 1 : db.runs[j].disp # "quarantined"
        /\ Provider(r) => \A j \in Runs : db.runs[j].breaker # "stop"
        /\ r.origin # 0 => ~stopAsked]_vars

(* Every recovery ends, or waits for its reviewer, unless its item was ended *)
(* under it.                                                                 *)
RecoverySettles ==
    \A i \in 2 .. MaxRuns :
        (i <= Last /\ db.runs[i].recovery = "running" /\ Active(i))
            ~> (i > Last \/ ~Active(i) \/ db.runs[i].status = "waiting" \/ db.item \in Closed)

(* A recovery and its run agree, on what was verified and on whether it is   *)
(* over.                                                                     *)
RecoveryIsSound == VerdictIsOfSealedTree /\ RecoveryFollowsRun
=============================================================================
