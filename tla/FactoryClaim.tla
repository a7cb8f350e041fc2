---------------------------- MODULE FactoryClaim ----------------------------
(***************************************************************************)
(* One GitHub Project item, its factory_work_items row in the store, and    *)
(* the `ecorp factory` processes that drive it: the store's fenced          *)
(* operations (claim, renew, upgrade, transition, materialize, reject), the *)
(* reconciliation of the row with the outcome of its mission, and the       *)
(* driver's `run`, one step per request it makes.  A driver may stop at any *)
(* step, lose the answer of a request that was applied, or sleep while its  *)
(* lease runs out; two drivers may even share an actor.                     *)
(***************************************************************************)
EXTENDS Naturals, FiniteSets

CONSTANTS Drivers,      \* processes running `ecorp factory run` or `watch`
          ActorOf,      \* the actor each of them authenticates as
          MaxCycles,    \* bound: cycles of `run` started, by all drivers together
          MaxFaults,    \* bound: crashes and lost answers
          MaxEdits      \* bound: what people change on GitHub or to the mission

ASSUME ClaimAssumption ==
    MaxCycles \in Nat /\ MaxFaults \in Nat /\ MaxEdits \in Nat

VARIABLES item,     \* the factory_work_items row
          live,     \* lease_expires_at > now
          ops,      \* factory_operations: what each idempotency key did
          mission,  \* the linked mission, as the store shows it
          made,     \* missions created for this item
          gh,       \* the issue and its Project status
          drv,      \* the state of each driver's cycle
          cycles, faults, edits   \* what the bounds count

vars == <<item, live, ops, mission, made, gh, drv, cycles, faults, edits>>
row == <<item, live, ops>>

Terminal == {"published", "failed", "cancelled"}
States == {"claimed", "mission_created", "running", "blocked", "awaiting_approval",
           "verification_failed", "verified"} \cup Terminal
Absent == [state |-> "none", version |-> 0, owner |-> "none", token |-> 0, rev |-> 0,
           pinned |-> TRUE, linked |-> FALSE, origin |-> FALSE]

Idle == [pc |-> "idle", token |-> 0, ver |-> 0, st |-> "none", rev |-> 0, req |-> 0,
         pinned |-> TRUE, gen |-> 0, was |-> "Todo", aim |-> "none", ckpt |-> FALSE]

-----------------------------------------------------------------------------
(* The store: fences, transitions and replays.                              *)

factory_state_is_terminal(s) == s \in Terminal

factory_transition_allowed(from, to) ==
    to \in CASE from = "claimed" -> {"blocked", "failed", "cancelled"}
             [] from = "mission_created" ->
                    {"running", "blocked", "awaiting_approval", "verification_failed",
                     "verified", "failed", "cancelled"}
             [] from \in {"running", "blocked", "awaiting_approval"} ->
                    {"running", "blocked", "awaiting_approval", "verification_failed",
                     "verified", "failed", "cancelled"} \ {from}
             [] from = "verification_failed" -> {"blocked", "failed", "cancelled"}
             [] from = "verified" -> {"published", "failed", "cancelled"}
             [] OTHER -> {}

ensure_active_factory_control(a, token, ver) ==
    /\ ~factory_state_is_terminal(item.state)
    /\ item.owner = a /\ item.token = token
    /\ item.version = ver
    /\ live

ensure_materializable_factory_claim(a, token, ver) ==
    /\ ensure_active_factory_control(a, token, ver)
    /\ item.state = "claimed" /\ ~item.linked

(* The record an idempotency key left behind, if any.                        *)
factory_operation(key) == {o \in ops : o.key = key}
Used(key) == factory_operation(key) # {}

ensure_factory_operation_matches(key, op, a, token, request) ==
    \E o \in factory_operation(key) :
        o.op = op /\ o.actor = a /\ o.request = request /\ (token # 0 => o.token = token)

(* `at` is the version the key names; it is not a column.                    *)
Op(key, at, op, a, token, version, request) ==
    [key |-> key, at |-> at, op |-> op, actor |-> a, token |-> token, version |-> version,
     request |-> request]

(* A replay hands the token out only while it still fences the row.          *)
replayable_factory_claim_token(o) ==
    IF /\ ~factory_state_is_terminal(item.state)
       /\ item.owner = o.actor /\ item.version >= o.version
       /\ live /\ item.token = o.token
    THEN o.token ELSE 0

-----------------------------------------------------------------------------
(* How a request ends for the driver: it goes on with the answer, or the    *)
(* answer is lost (or the process dies) after the store applied it.  The    *)
(* store keeps factory_operations for ever; here a record is forgotten when *)
(* no request can name its key again, so that such leftovers split no state.*)

Nameable(o, r, d) ==
    \/ o.op = "materialize"
    \/ o.at >= r.version
    \/ \E p \in Drivers : d[p].pc # "idle" /\ o.at = IF d[p].pc \in {"reopen", "claim"} THEN d[p].gen ELSE d[p].ver

Remember(new) == ops' = {o \in ops \cup new : Nameable(o, item', drv')}

Reply(p, next, new) ==
    /\ \/ drv' = [drv EXCEPT ![p] = next] /\ UNCHANGED faults
       \/ /\ faults < MaxFaults
          /\ drv' = [drv EXCEPT ![p] = Idle] /\ faults' = faults + 1
    /\ Remember(new)

(* `?` in run: the cycle ends with an error.                                 *)
Bail(p) ==
    /\ drv' = [drv EXCEPT ![p] = Idle] /\ UNCHANGED <<item, live, faults>>
    /\ Remember({})

(* The row moves on: every change but a renewal drops the failure origin.    *)
Moved(r) == [r EXCEPT !.version = @ + 1, !.origin = FALSE]

-----------------------------------------------------------------------------
(* The driver reads GitHub and the store, then picks the item.              *)

factory_state_is_recoverable(s) ==
    s \in {"claimed", "mission_created", "running", "blocked", "awaiting_approval",
           "verification_failed"}

factory_item_recoverable_by(a, rev) ==
    /\ item.rev = rev
    /\ factory_state_is_recoverable(item.state)
    /\ item.owner = a \/ ~live

(* evaluate_items, without a recovery request; `explicit` is --issue, or the *)
(* issue a watcher remembers from its last cycle.                            *)
Recoverable(a, explicit) ==
    /\ item.state # "verification_failed"
    /\ \/ factory_item_recoverable_by(a, gh.rev)
       \/ /\ explicit /\ item.state = "verified" /\ item.rev = gh.rev
          /\ item.owner = a \/ ~live
    /\ gh.status \in {"Todo", "In Progress"}

Fresh == item.state = "none" /\ gh.status = "Todo" /\ gh.ready

evaluate_items(a, explicit) == Fresh \/ Recoverable(a, explicit)

(* cancellation_event_tx: the row's last event is the driver's own transition *)
(* from running to cancelled, under the token it still has, and the mission's *)
(* stopped run left a checkpoint that can be verified.                        *)
cancellation_event_tx ==
    /\ item.state = "cancelled" /\ item.origin /\ item.linked
    /\ mission.status = "cancelled" /\ mission.kept

(* evaluate_items under --verification-recovery checkpoint-verification.      *)
CheckpointWork(a) ==
    /\ item.linked /\ item.rev = gh.rev
    /\ \/ item.state \in {"verification_failed", "running", "blocked", "awaiting_approval"}
       \/ cancellation_event_tx
    /\ item.owner = a \/ ~live
    /\ gh.status \in {"Todo", "In Progress"}

(* What run lists and a watcher or --issue names; then refresh_selected,     *)
(* source and policy resolution and the preflights: reads only.              *)
Listed(p) == \E explicit \in BOOLEAN : evaluate_items(ActorOf[p], explicit)

Picked(pc, ckpt) ==
    [Idle EXCEPT !.pc = pc, !.rev = gh.rev, !.gen = item.version,
                 !.req = IF item.state = "none" THEN gh.rev ELSE item.rev,
                 !.pinned = item.pinned, !.was = gh.status, !.ckpt = ckpt]

Select(p) ==
    /\ drv[p].pc = "idle" /\ cycles < MaxCycles /\ cycles' = cycles + 1
    /\ \/ Listed(p) /\ drv' = [drv EXCEPT ![p] = Picked("claim", FALSE)]
       \/ /\ CheckpointWork(ActorOf[p]) /\ mission.kept
          /\ drv' = [drv EXCEPT ![p] =
                       Picked(IF item.state = "cancelled" THEN "reopen" ELSE "claim", TRUE)]
    /\ UNCHANGED <<row, mission, made, gh, faults, edits>>

(* revalidate_selected_for_effect reads the item and its issue again; a       *)
(* recovery does without the factory:ready label.                             *)
revalidate_selected_for_effect(p, expected) ==
    gh.rev = drv[p].rev /\ gh.status = expected /\ (drv[p].ckpt \/ gh.ready)

(* reconcile_checkpoint_cancellation, the store's: the one way back out of an *)
(* outcome.  The row keeps its owner, token and lease.                        *)
ReopenAllowed(a, ver) ==
    /\ item.version = ver /\ item.pinned
    /\ item.owner = a \/ ~live
    /\ cancellation_event_tx

Reopened == [Moved(item) EXCEPT !.state = "running"]

ReopenKey(p) == <<"reopen", ActorOf[p], drv[p].gen>>

(* The driver asks for it; what it read of GitHub may have changed since.     *)
Reopen(p) ==
    LET a == ActorOf[p]  d == drv[p]
        again == [d EXCEPT !.pc = "refresh"]
    IN  /\ d.pc = "reopen"
        /\ \/ ~revalidate_selected_for_effect(p, d.was) /\ Bail(p)
           \/ /\ Used(ReopenKey(p)) /\ UNCHANGED <<item, live>>
              /\ item.state = "running" /\ Reply(p, again, {})
           \/ /\ ~Used(ReopenKey(p)) /\ ReopenAllowed(a, d.gen)
              /\ item' = Reopened /\ UNCHANGED live
              /\ Reply(p, again, {Op(ReopenKey(p), d.gen, "transition", a, 0, item'.version, 0)})
           \/ /\ IF Used(ReopenKey(p)) THEN item.state # "running" ELSE ~ReopenAllowed(a, d.gen)
              /\ Bail(p)
        /\ UNCHANGED <<mission, made, gh, cycles, edits>>

(* refresh_selected after it: the item is read and judged again.              *)
Refresh(p) ==
    /\ drv[p].pc = "refresh" /\ UNCHANGED <<item, live, faults>>
    /\ drv' = [drv EXCEPT ![p] =
                 IF gh.rev = drv[p].rev /\ CheckpointWork(ActorOf[p])
                 THEN Picked("claim", TRUE) ELSE Idle]
    /\ Remember({})
    /\ UNCHANGED <<mission, made, gh, cycles, edits>>

(* What the claim answer leaves in the driver: token, version, mission.      *)
SkipsProject(p, token, r) ==
    [drv[p] EXCEPT !.token = token, !.ver = r.version, !.st = r.state,
                   !.gen = 0, !.req = 0, !.pinned = TRUE,
                   !.pc = IF ~drv[p].pinned THEN "upgrade"
                          ELSE IF r.linked THEN "mission-launch-ready" ELSE "materialize"]
Claimed(p, token, r) ==
    [drv[p] EXCEPT !.token = token, !.ver = r.version, !.st = r.state,
                   !.gen = 0, !.req = 0, !.pinned = TRUE,
                   !.pc = IF ~drv[p].pinned THEN "upgrade"
                          ELSE IF r.linked THEN "project-status" ELSE "materialize"]

(* ensure_factory_source_matches and the comparison of the policies.         *)
SourceMatches(d) == item.rev = d.req /\ item.pinned = d.pinned

NewClaim(a, d) ==
    [Absent EXCEPT !.state = "claimed", !.version = 1, !.owner = a, !.token = 1, !.rev = d.req]

Reclaimed(a) ==
    [Moved(item) EXCEPT !.owner = a, !.token = @ + 1,
                        !.state = IF item.linked THEN @ ELSE "claimed"]

(* claim_factory_work_item for one idempotency key.                          *)
ClaimFresh(a, d) == item.state = "none" /\ d.pinned
ClaimHeld(a, d) ==
    /\ item.state # "none" /\ ~factory_state_is_terminal(item.state)
    /\ live /\ item.owner = a /\ SourceMatches(d)
ClaimExpired(a, d) ==
    /\ item.state # "none" /\ ~factory_state_is_terminal(item.state)
    /\ ~live /\ SourceMatches(d)

RecordedClaim(p, key, at, r) ==
    {Op(key, at, "claim", ActorOf[p], r.token, r.version, drv[p].req)}

ClaimWith(p, key, at) ==
    LET a == ActorOf[p]  d == drv[p]
        Recorded(r) == RecordedClaim(p, key, at, r)
    IN  \/ /\ Used(key) /\ UNCHANGED <<item, live>>
           /\ IF ensure_factory_operation_matches(key, "claim", a, 0, d.req) /\ SourceMatches(d)
              THEN \E o \in factory_operation(key) :
                     LET t == replayable_factory_claim_token(o)
                     IN  IF t # 0 THEN Reply(p, Claimed(p, t, item), {})
                         ELSE IF d.pc = "claim"
                         THEN Reply(p, [d EXCEPT !.pc = "reclaim", !.ver = item.version], {})
                         ELSE Bail(p)
              ELSE Bail(p)
        \/ /\ ~Used(key) /\ ClaimFresh(a, d)
           /\ item' = NewClaim(a, d) /\ live' = TRUE
           /\ Reply(p, Claimed(p, 1, item'), Recorded(item'))
        \/ /\ ~Used(key) /\ ClaimHeld(a, d)
           /\ UNCHANGED <<item, live>>
           /\ Reply(p, Claimed(p, item.token, item), Recorded(item))
        \/ /\ ~Used(key) /\ ClaimExpired(a, d)
           /\ item' = Reclaimed(a) /\ live' = TRUE
           /\ Reply(p, Claimed(p, item'.token, item'), Recorded(item'))
        \/ /\ ~Used(key) /\ ~ClaimFresh(a, d) /\ ~ClaimHeld(a, d) /\ ~ClaimExpired(a, d)
           /\ Bail(p)

Claim(p) ==
    /\ drv[p].pc = "claim"
    /\ ClaimWith(p, <<"claim", drv[p].rev, ActorOf[p], drv[p].gen>>, drv[p].gen)
    /\ UNCHANGED <<mission, made, gh, cycles, edits>>

(* The first key replayed an old claim: ask again under the current version. *)
Reclaim(p) ==
    /\ drv[p].pc = "reclaim"
    /\ ClaimWith(p, <<"reclaim", drv[p].rev, ActorOf[p], drv[p].ver>>, drv[p].ver)
    /\ UNCHANGED <<mission, made, gh, cycles, edits>>

-----------------------------------------------------------------------------
(* Requests made under the fence.                                           *)

(* The state and version an answer carries, and where the cycle goes next.   *)
Answered(p, r, pc) == [drv[p] EXCEPT !.st = r.state, !.ver = r.version, !.pc = pc]

(* renew_factory_work_item keeps the failure origin: only the lease moves.   *)
Renewed == [item EXCEPT !.version = @ + 1]

(* A failed effect parks the item unless it is blocked already.              *)
BlockAt(d, st, where) ==
    IF st = "blocked" THEN Idle ELSE [d EXCEPT !.st = st, !.pc = where, !.aim = "blocked"]

(* The check that follows a renewal reads GitHub alone, so it is taken in the *)
(* renewal's step.                                                           *)
Checked(p, r, ok, next, where) ==
    IF ok THEN Answered(p, r, next)
    ELSE BlockAt([drv[p] EXCEPT !.ver = r.version], r.state, where)

(* Where a fenced request leads, by the step it was made at.                 *)
Then(p, r) ==
    CASE drv[p].pc = "project-status" ->
            Checked(p, r, revalidate_selected_for_effect(p, drv[p].was),
                    "project-status-ready", "block:status")
      [] drv[p].pc = "project-status-ready" -> Answered(p, r, "project")
      [] drv[p].pc = "mission-launch" ->
            Checked(p, r, revalidate_selected_for_effect(p, "In Progress"),
                    "mission-launch-ready", "block:launch")
      [] drv[p].pc = "mission-launch-ready" -> Answered(p, r, "launch")
      [] drv[p].pc = "upgrade" ->
            Answered(p, r, IF r.linked THEN "project-status" ELSE "materialize")
      [] OTHER -> Idle

(* The shape of renew, upgrade and transition: replay the key, or check the  *)
(* fence and the operation's own condition, change the row and record it.    *)
Fenced(p, key, op, request, allowed, changed, lease) ==
    LET a == ActorOf[p]  d == drv[p]
    IN  \/ /\ Used(key) /\ UNCHANGED <<item, live>>
           /\ IF ensure_factory_operation_matches(key, op, a, d.token, request)
              THEN \E o \in factory_operation(key) :
                     IF op = "renew" /\ replayable_factory_claim_token(o) # d.token
                     THEN Bail(p)
                     ELSE Reply(p, Then(p, item), {})
              ELSE Bail(p)
        \/ /\ ~Used(key)
           /\ ensure_active_factory_control(a, d.token, d.ver) /\ allowed
           /\ item' = changed /\ live' = lease
           /\ Reply(p, Then(p, changed), {Op(key, d.ver, op, a, d.token, changed.version, request)})
        \/ /\ ~Used(key) /\ ~(ensure_active_factory_control(a, d.token, d.ver) /\ allowed)
           /\ Bail(p)

Renew(p) ==
    /\ drv[p].pc \in {"project-status", "project-status-ready", "mission-launch",
                     "mission-launch-ready"}
    /\ Fenced(p, <<"renew", drv[p].rev, drv[p].pc, drv[p].ver>>, "renew", drv[p].ver, TRUE,
              Renewed, TRUE)
    /\ UNCHANGED <<mission, made, gh, cycles, edits>>

(* upgrade_factory_source_commit: a legacy policy gets its base commit, and  *)
(* the tasks of a mission that has not run yet get it too.                   *)
UpgradeAllowed == ~item.pinned /\ ~mission.runs
Upgraded == [Moved(item) EXCEPT !.pinned = TRUE]

Upgrade(p) ==
    /\ drv[p].pc = "upgrade"
    /\ Fenced(p, <<"upgrade", drv[p].rev>>, "upgrade", drv[p].ver, UpgradeAllowed, Upgraded, live)
    /\ UNCHANGED <<mission, made, gh, cycles, edits>>

(* transition_factory_work_item, with the driver's reason as its detail.     *)
TransitionAllowed(to) ==
    /\ factory_transition_allowed(item.state, to)
    /\ item.linked \/ to \in {"blocked", "failed", "cancelled"}
    /\ to = "verified" => mission.status = "completed"

(* The event of a cancellation that a driver made of a running item is one    *)
(* cancellation_event_tx recognises.                                          *)
Transitioned(to) ==
    [Moved(item) EXCEPT !.state = to, !.origin = (item.state = "running" /\ to = "cancelled")]

Transition(p) ==
    LET d == drv[p] IN
    /\ d.pc \in {"settle", "block:status", "block:project", "block:launch", "block:mission"}
    /\ Fenced(p, <<"transition", d.rev, d.aim, d.ver>>, "transition", <<d.ver, d.pc>>,
              TransitionAllowed(d.aim), Transitioned(d.aim),
              live /\ (item.linked \/ d.aim # "blocked"))
    /\ UNCHANGED <<mission, made, gh, cycles, edits>>

-----------------------------------------------------------------------------
(* materialize_factory_mission, the server's handler: replay, plan, create;  *)
(* a plan that is refused releases the claim it was made under.              *)

Materialized == [Moved(item) EXCEPT !.state = "mission_created", !.linked = TRUE]

NewMission == [status |-> "ready", runs |-> FALSE, vfail |-> FALSE, awaiting |-> FALSE,
               clean |-> TRUE, kept |-> FALSE, by |-> "none"]

MaterializeKey(p) == <<"materialize", drv[p].rev>>

(* The key was used: its own request gets the mission it made.               *)
MaterializeReplayed(p) ==
    /\ ensure_factory_operation_matches(MaterializeKey(p), "materialize", ActorOf[p],
                                        drv[p].token, 0)
    /\ UNCHANGED <<item, live, mission, made>>
    /\ Reply(p, Answered(p, item, "project-status"), {})

MaterializeCreates(p) ==
    /\ ~Used(MaterializeKey(p))
    /\ ensure_materializable_factory_claim(ActorOf[p], drv[p].token, drv[p].ver)
    /\ item' = Materialized /\ mission' = NewMission /\ made' = made + 1
    /\ UNCHANGED live
    /\ Reply(p, Answered(p, item', "project-status"),
             {Op(MaterializeKey(p), drv[p].ver, "materialize", ActorOf[p], drv[p].token,
                 item'.version, 0)})

Materialize(p) ==
    /\ drv[p].pc = "materialize"
    /\ \/ MaterializeReplayed(p)
       \/ MaterializeCreates(p)
       \/ \* a conflict is answered as it is
          /\ ~Used(MaterializeKey(p))
          /\ ~ensure_materializable_factory_claim(ActorOf[p], drv[p].token, drv[p].ver)
          /\ UNCHANGED <<mission, made>> /\ Bail(p)
    /\ UNCHANGED <<gh, cycles, edits>>

(* reject_factory_materialization: the owner's claim is parked as blocked    *)
(* and released, whatever version it has; a mission is never undone.         *)
UnfencedReject(p) == ~item.linked /\ item.state \in {"claimed", "blocked"}
RejectAllowed(p) ==
    /\ item.owner = ActorOf[p] /\ item.token = drv[p].token
    /\ ~item.linked /\ item.state \in {"claimed", "blocked"}

Parked == [Moved(item) EXCEPT !.state = "blocked"]

(* A refused plan, or a key that another actor's materialization holds.      *)
RejectMaterialization(p) ==
    LET d == drv[p]  key == <<"rejected", d.ver, d.rev, d.token>>
    IN  /\ d.pc = "materialize"
        /\ Used(MaterializeKey(p)) =>
             ~ensure_factory_operation_matches(MaterializeKey(p), "materialize", ActorOf[p],
                                               d.token, 0)
        /\ IF RejectAllowed(p) /\ ~Used(key)
           THEN /\ item' = IF item.state = "claimed" THEN Parked ELSE item
                /\ live' = (live /\ item.state # "claimed")
                /\ drv' = [drv EXCEPT ![p] = Idle] /\ UNCHANGED faults
                /\ Remember({Op(key, d.ver, "materialize_rejected", ActorOf[p], d.token,
                                item'.version, d.ver)})
           ELSE Bail(p)
        /\ UNCHANGED <<mission, made, gh, cycles, edits>>

-----------------------------------------------------------------------------
(* What the driver does outside the store.                                   *)

(* set_project_in_progress and verify_project_status; either may fail.       *)
set_project_in_progress(p) ==
    LET done == [gh EXCEPT !.status = IF drv[p].was = "In Progress" THEN @ ELSE "In Progress",
                           !.moved = TRUE]
    IN  /\ drv[p].pc = "project" /\ UNCHANGED <<item, live>>
        /\ \/ gh' = done /\ Reply(p, [drv[p] EXCEPT !.pc = "mission-launch", !.was = "Todo"], {})
           \/ /\ drv[p].was # "In Progress" /\ gh' \in {gh, done}
              /\ Reply(p, BlockAt(drv[p], drv[p].st, "block:project"), {})
        /\ UNCHANGED <<mission, made, cycles, edits>>

(* The transition that follows the launch, from the mission the driver saw.  *)
factory_completion_is_ready(m, s) ==
    /\ m.status = "completed" /\ m.clean
    /\ s \in {"mission_created", "running", "awaiting_approval", "blocked"}

(* checkpoint_catch_up: the cancelled mission of a running item is left alone *)
(* while a checkpoint of it can be verified.                                  *)
checkpoint_catch_up(m, s) == m.status = "cancelled" /\ m.kept /\ s = "running"

Settled(m, s) ==
    LET over == m.status \in {"failed", "cancelled"}
        outcome == IF m.status = "failed" /\ m.vfail THEN "verification_failed" ELSE m.status
    IN  CASE over -> IF s = outcome \/ checkpoint_catch_up(m, s) THEN "none" ELSE outcome
          [] ~over /\ m.awaiting -> IF s = "awaiting_approval" THEN "none" ELSE "awaiting_approval"
          [] ~over /\ ~m.awaiting /\ m.status # "completed"
                /\ s \in {"mission_created", "blocked", "awaiting_approval"} -> "running"
          [] ~m.awaiting /\ factory_completion_is_ready(m, s) -> "verified"
          [] OTHER -> "none"

AfterLaunch(d, m) ==
    LET aim == Settled(m, d.st)
    IN  IF aim = "none" THEN Idle ELSE [d EXCEPT !.pc = "settle", !.aim = aim]

(* launch_or_recover: an existing run is reported, a ready mission launched, *)
(* once; a launch that started nothing parks the item.                       *)
Launch(p) ==
    /\ drv[p].pc = "launch" /\ ~drv[p].ckpt /\ UNCHANGED <<item, live>>
    /\ \/ mission.runs /\ UNCHANGED mission /\ Reply(p, AfterLaunch(drv[p], mission), {})
       \/ /\ ~mission.runs /\ mission.status = "ready"
          /\ mission' = [mission EXCEPT !.status = "running", !.runs = TRUE]
          /\ Reply(p, AfterLaunch(drv[p], mission'), {})
       \/ /\ ~mission.runs /\ UNCHANGED mission
          /\ Reply(p, BlockAt(drv[p], drv[p].st, "block:mission"), {})
    /\ UNCHANGED <<made, gh, cycles, edits>>

(* recover_factory_verification in its place when the cycle recovers a        *)
(* checkpoint: the store admits one verification of it, or answers the actor  *)
(* who authorized the one under way; a refusal parks nothing.                 *)
AdmitAllowed(a, token, ver) ==
    /\ ensure_active_factory_control(a, token, ver)
    /\ mission.status \in {"failed", "cancelled"} /\ mission.kept
    /\ item.state \in {"running", "verification_failed"} \/ (item.state = "blocked" /\ item.origin)

Admitted(a) == [mission EXCEPT !.status = "running", !.vfail = FALSE, !.by = a]

(* The answer carries the row it found or left.                               *)
Recovered(p, r, m) == AfterLaunch([drv[p] EXCEPT !.st = r.state, !.ver = r.version], m)

RecoverCheckpoint(p) ==
    LET a == ActorOf[p]  d == drv[p]
    IN  /\ d.pc = "launch" /\ d.ckpt
        /\ \/ /\ mission.status = "running" /\ mission.by = a
              /\ UNCHANGED <<item, live, mission>>
              /\ Reply(p, Recovered(p, item, [mission EXCEPT !.awaiting = FALSE]), {})
           \/ /\ AdmitAllowed(a, d.token, d.ver)
              /\ item' = Reopened /\ mission' = Admitted(a) /\ UNCHANGED live
              /\ Reply(p, Recovered(p, item', mission'), {})
           \/ UNCHANGED mission /\ Bail(p)
        /\ UNCHANGED <<made, gh, cycles, edits>>

(* launch_mission, the operator's route: it asks nothing of the factory.      *)
OperatorLaunch ==
    /\ edits < MaxEdits /\ edits' = edits + 1
    /\ mission.status = "ready" /\ ~mission.runs
    /\ mission' = [mission EXCEPT !.status = "running", !.runs = TRUE]
    /\ UNCHANGED <<row, made, gh, drv, cycles, faults>>

Crash(p) ==
    /\ drv[p].pc # "idle" /\ faults < MaxFaults
    /\ drv' = [drv EXCEPT ![p] = Idle] /\ faults' = faults + 1
    /\ UNCHANGED <<row, mission, made, gh, cycles, edits>>

-----------------------------------------------------------------------------
(* The mission's outcome is written to the row in the transaction of the run *)
(* event; a reconciliation that is refused refuses the event.                *)

SilentVerify ==
    IF item.state \in {"mission_created", "running", "awaiting_approval"}
    THEN [item EXCEPT !.state = "verified"] ELSE item
reconcile_factory_verified_tx ==
    CASE item.state \in {"verified", "blocked"} -> item
      [] item.state \in {"mission_created", "running", "awaiting_approval"} ->
            [Moved(item) EXCEPT !.state = "verified"]
      [] OTHER -> Absent

reconcile_factory_verification_failure_tx ==
    CASE item.state \in {"verification_failed", "blocked"} -> item
      [] item.state \in {"mission_created", "running", "awaiting_approval"} ->
            [Moved(item) EXCEPT !.state = "verification_failed"]
      [] OTHER -> Absent

reconcile_factory_awaiting_approval_tx ==
    CASE item.state \in {"awaiting_approval", "blocked"} -> item
      [] item.state \in {"mission_created", "running"} ->
            [Moved(item) EXCEPT !.state = "awaiting_approval"]
      [] OTHER -> Absent

(* factory_run_failure::reconcile_tx: an ordinary failure parks the item and *)
(* stays its origin until something other than a renewal touches the row.    *)
reconcile_run_failure_tx ==
    IF item.state \in {"claimed", "mission_created", "running", "awaiting_approval"}
    THEN [Moved(item) EXCEPT !.state = "blocked", !.origin = TRUE]
    ELSE item

(* factory_run_failure::resume_tx: only the block that the failed run itself *)
(* caused is lifted; an outcome refuses the resumption.                      *)
resume_tx ==
    CASE item.state \in {"verified"} \cup Terminal -> Absent
      [] item.state = "blocked" /\ item.origin -> [Moved(item) EXCEPT !.state = "running"]
      [] OTHER -> item

Outcome(m, r) ==
    /\ r # Absent /\ mission' = m /\ item' = r
    /\ UNCHANGED <<live, ops, made, gh, drv, cycles, faults>>

MissionAwaits ==
    /\ UNCHANGED edits
    /\ mission.status = "running" /\ ~mission.awaiting
    /\ Outcome([mission EXCEPT !.awaiting = TRUE], reconcile_factory_awaiting_approval_tx)

MissionCompletes ==
    /\ UNCHANGED edits
    /\ mission.status = "running"
    /\ Outcome([mission EXCEPT !.status = "completed", !.awaiting = FALSE, !.clean = FALSE],
               reconcile_factory_verified_tx)

MissionRejected ==
    /\ UNCHANGED edits
    /\ mission.status = "running"
    /\ Outcome([mission EXCEPT !.status = "failed", !.vfail = TRUE, !.awaiting = FALSE],
               reconcile_factory_verification_failure_tx)

MissionFails ==
    /\ UNCHANGED edits
    /\ mission.status = "running" /\ ~mission.awaiting
    /\ Outcome([mission EXCEPT !.status = "failed", !.by = "none"], reconcile_run_failure_tx)

MissionResumes ==
    /\ edits < MaxEdits /\ edits' = edits + 1
    /\ mission.status = "failed" /\ ~mission.vfail
    /\ Outcome([mission EXCEPT !.status = "running"], resume_tx)

MissionCancelled ==
    /\ edits < MaxEdits /\ edits' = edits + 1
    /\ mission.status \in {"ready", "running"}
    /\ Outcome([mission EXCEPT !.status = "cancelled", !.awaiting = FALSE, !.kept = FALSE,
                               !.by = "none"], item)

(* A run that a breaker suspended or stopped leaves its workspace, sealed, as *)
(* a checkpoint that can be verified: now, later or never.                    *)
CheckpointKept ==
    /\ UNCHANGED edits
    /\ mission.status = "cancelled" /\ mission.runs /\ ~mission.kept
    /\ Outcome([mission EXCEPT !.kept = TRUE], item)

WorkspaceFinalized ==
    /\ UNCHANGED edits
    /\ ~mission.clean
    /\ Outcome([mission EXCEPT !.clean = TRUE], item)

-----------------------------------------------------------------------------
(* Time and people.                                                          *)

LeaseExpires ==
    /\ live /\ live' = FALSE
    /\ UNCHANGED <<item, ops, mission, made, gh, drv, cycles, faults, edits>>

EditIssue ==
    /\ edits < MaxEdits /\ edits' = edits + 1
    /\ \/ gh' = [gh EXCEPT !.rev = @ + 1]
       \/ gh' \in {[gh EXCEPT !.status = s] : s \in {"Todo", "Done"} \ {gh.status}}
       \/ gh' = [gh EXCEPT !.ready = ~@]
    /\ UNCHANGED <<row, mission, made, drv, cycles, faults>>

-----------------------------------------------------------------------------

(* A row left by a release that did not pin the source commit.               *)
Legacy(a) == [Absent EXCEPT !.state = "claimed", !.version = 1, !.owner = a, !.token = 1,
                            !.rev = 1, !.pinned = FALSE]

(* A row that ran, and that a driver cancelled when its mission was.         *)
Left(a) == [Absent EXCEPT !.state = "cancelled", !.version = 4, !.owner = a, !.token = 1,
                          !.rev = 1, !.linked = TRUE, !.origin = TRUE]

InitNew ==
    /\ item \in {Absent} \cup {Legacy(ActorOf[p]) : p \in Drivers} /\ ops = {}
    /\ mission = [NewMission EXCEPT !.status = "none"] /\ made = 0
    /\ gh = [rev |-> 1, status |-> "Todo", ready |-> TRUE, moved |-> FALSE]

InitLeft ==
    /\ \E p \in Drivers :
         /\ item = Left(ActorOf[p])
         /\ ops = {Op(<<"materialize", 1>>, 1, "materialize", ActorOf[p], 1, 2, 0)}
    /\ mission = [NewMission EXCEPT !.status = "cancelled", !.runs = TRUE] /\ made = 1
    /\ gh = [rev |-> 1, status |-> "In Progress", ready |-> TRUE, moved |-> TRUE]

Init ==
    /\ InitNew \/ InitLeft
    /\ live = FALSE
    /\ drv = [p \in Drivers |-> Idle]
    /\ cycles = 0 /\ faults = 0 /\ edits = 0

Drive(p) ==
    \/ Select(p) \/ Reopen(p) \/ Refresh(p) \/ Claim(p) \/ Reclaim(p) \/ Upgrade(p) \/ Materialize(p)
    \/ RejectMaterialization(p) \/ Renew(p) \/ set_project_in_progress(p)
    \/ Launch(p) \/ RecoverCheckpoint(p) \/ Transition(p)

Next ==
    \/ \E p \in Drivers : Drive(p) \/ Crash(p)
    \/ MissionAwaits \/ MissionCompletes \/ MissionRejected \/ MissionFails
    \/ MissionResumes \/ MissionCancelled \/ CheckpointKept \/ WorkspaceFinalized
    \/ OperatorLaunch
    \/ LeaseExpires \/ EditIssue

Spec == Init /\ [][Next]_vars

-----------------------------------------------------------------------------
(* Properties.                                                               *)

Pcs == {"idle", "reopen", "refresh", "claim", "reclaim", "upgrade", "materialize", "project-status",
        "project-status-ready", "project", "mission-launch", "mission-launch-ready", "launch",
        "settle", "block:status", "block:project", "block:launch", "block:mission"}

(* The row is a work item or none, its owner one of the actors, and a driver *)
(* is at one of the steps of run.                                            *)
TypeOK ==
    /\ item.state \in States \cup {"none"}
    /\ item.version \in Nat /\ item.token \in Nat /\ made \in Nat
    /\ item.owner \in {"none"} \cup {ActorOf[p] : p \in Drivers}
    /\ live \in BOOLEAN /\ item.linked \in BOOLEAN /\ item.origin \in BOOLEAN
    /\ mission.status \in {"none", "ready", "running", "completed", "failed", "cancelled"}
    /\ \A p \in Drivers : drv[p].pc \in Pcs /\ drv[p].aim \in States \cup {"none"}

(* However often the drivers crash, lose answers, fail over to one another   *)
(* or run twice as the same actor, the item gets one mission, and the row is *)
(* linked to it (materialize_factory_mission and its idempotency key).       *)
OneMission == made <= 1 /\ (item.linked <=> made = 1)

(* No snapshot a driver acts on late makes an item verified without the      *)
(* mission having completed (ensure_factory_mission_verified_tx is inside    *)
(* the transition's transaction).                                            *)
VerifiedIsComplete == item.state = "verified" => mission.status = "completed"

(* A driver asks for the launch only after the Project was moved to In        *)
(* Progress and only with the source commit pinned: no path through crashes,  *)
(* fail-overs, replays, legacy claims and reopened items gets there earlier.  *)
(* (An operator's launch_mission is not held to either.)                      *)
LaunchedIsReady ==
    \A p \in Drivers : drv[p].pc = "launch" => gh.moved /\ item.pinned

(* A change of the row by a driver's request comes from the token that holds *)
(* it now: after a fail-over the former owner's requests change nothing      *)
(* (ensure_active_factory_control, RejectAllowed).                           *)
FencedOut ==
    [][\A p \in Drivers :
         (drv[p].pc # "idle" /\ drv[p].token # 0 /\ drv[p].token < item.token
            /\ drv'[p] # drv[p]) => item' = item]_vars

(* A block that a driver raised by policy is not lifted by the resumption of *)
(* a run: only a transition of the current owner lifts it.                   *)
PolicyBlockStands ==
    [][(item.state = "blocked" /\ item'.state = "running" /\ drv' = drv) => item.origin]_vars

(* The promise to everyone else about the item.                              *)
Item == INSTANCE FactoryItem WITH
    state <- item.state, version <- item.version, fence <- item.token, missions <- made,
    Unlinked <- {"claimed", "blocked"},
    Linked <- {"mission_created", "running", "awaiting_approval", "verification_failed",
               "verified"},
    Terminal <- {"published", "failed", "cancelled"}, Reopenable <- {"cancelled"}

(* FactoryClaim implements FactoryItem: one fence, one mission, versions     *)
(* that every change consumes; published and failed are final, and cancelled *)
(* is left only for the mission the item has (the store's                    *)
(* reconcile_checkpoint_cancellation).                                       *)
ImplementsItem == Item!Spec

(* The row's state is backed by its mission at every interleaving of         *)
(* drivers, crashes, lost answers, fail-overs, operators' launches and the   *)
(* mission's own end: one mission, launched by a driver only when everything *)
(* was in place, verified when it was done.                                  *)
ItemIsBacked == TypeOK /\ OneMission /\ VerifiedIsComplete /\ LaunchedIsReady

(* Only the current owner moves the item: not a former owner's late request, *)
(* and not the resumption of a run that a policy had blocked.                *)
OwnerDecides == FencedOut /\ PolicyBlockStands
=============================================================================
