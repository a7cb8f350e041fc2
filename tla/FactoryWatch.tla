---------------------------- MODULE FactoryWatch ----------------------------
(***************************************************************************)
(* `ecorp factory watch`: processes that take turns as the controller of a  *)
(* Project, the factory_controllers row that fences them by connection      *)
(* epoch, and the GitHub request budget each keeps and persists with its    *)
(* heartbeats.  Time is a countdown: every deadline is the number of ticks  *)
(* left until it passes, 0 once it has; Never is the sentinel deadline that *)
(* does not pass (DateTime::MAX_UTC).                                       *)
(***************************************************************************)
EXTENDS Naturals, FiniteSets

CONSTANTS MaxEpochs,      \* bound: processes running `ecorp factory watch`, in turn
          Hints,          \* deadlines a rate-limited answer may ask for
          Quotas,         \* rateLimit data of an answer: limit, remaining, cost, until
          BaseBackoff, MaxBackoff,  \* BASE_BACKOFF_SECONDS, MAX_BACKOFF_SECONDS, in ticks
          MaxFailures,    \* MAX_FAILURES
          Never,          \* a deadline that does not pass, above all others
          MaxControls,    \* bound: operator requests
          MaxThrottles,   \* bound: answers that refuse a request or report a low quota
          MaxFaults       \* bound: crashes and lost answers

ASSUME WatchAssumption ==
    /\ BaseBackoff \in Nat \ {0} /\ MaxBackoff \in Nat /\ BaseBackoff <= MaxBackoff
    /\ Never \in Nat /\ MaxBackoff < Never /\ MaxFailures \in Nat \ {0}
    /\ Hints \subseteq 0..Never
    /\ Quotas \subseteq [limit : Nat, remaining : Nat, cost : Nat, until : 0..Never]

VARIABLES ctl,        \* the factory_controllers row
          w,          \* the watchers
          reconciled, \* newest generation a finished cycle had seen when it began
          owed,       \* longest wait GitHub asked of the controller in office, or it inherited
          controls, throttles, faults   \* what the bounds count

vars == <<ctl, w, reconciled, owed, controls, throttles, faults>>

(* A process and the connection epoch it makes up are named alike.          *)
Watchers == 1..MaxEpochs

NoQuota == [limit |-> 0, remaining |-> 0, cost |-> 0, until |-> 0]
Polling == [wait |-> 0, reason |-> "none", fails |-> 0, quota |-> NoQuota]
Off == [pc |-> "off", budget |-> Polling, cycle |-> "none", began |-> 0, cgen |-> 0,
        why |-> "none", last |-> "none", pend |-> 0, comp |-> 0]

Larger(a, b) == IF a >= b THEN a ELSE b
Smaller(a, b) == IF a <= b THEN a ELSE b

-----------------------------------------------------------------------------
(* quota.rs: the admission state for GitHub requests.                       *)

(* The base is doubled with every failure after the first, four times at most. *)
backoff(fails) ==
    LET doublings == Smaller(IF fails = 0 THEN 0 ELSE fails - 1, 4)
    IN  Smaller(BaseBackoff * <<1, 2, 4, 8, 16>>[doublings + 1], MaxBackoff)

outstanding(deadline) == deadline > 0

extend_wait(b, reason, deadline) ==
    IF \/ deadline > b.wait \/ b.reason = "none"
       \/ deadline = b.wait /\ b.reason = "quota" /\ reason # "quota"
    THEN [b EXCEPT !.wait = deadline, !.reason = reason] ELSE b

(* One percent of the limit, at least 1 and at most 25, and the last cost.   *)
required(q) == Larger(q.cost, 1) + Smaller(Larger(q.limit \div 100, 1), 25)

retain_quota_wait(b) ==
    IF b.quota # NoQuota /\ b.quota.remaining < required(b.quota) /\ outstanding(b.quota.until)
    THEN extend_wait(b, "quota", b.quota.until) ELSE b

(* Data of a window that ends before the known one, or with more left of it. *)
Stale(b, q) ==
    /\ b.quota # NoQuota
    /\ \/ q.until < b.quota.until
       \/ q.until = b.quota.until /\ q.remaining > b.quota.remaining

merge_quota(b, q) == IF Stale(b, q) THEN b ELSE [b EXCEPT !.quota = q]

valid_counters(q) == q.limit > 0 /\ q.remaining <= q.limit /\ q.cost <= q.limit

repair_wait(b) ==
    LET fails == Smaller(Larger(b.fails, 1), MaxFailures)
    IN  extend_wait([b EXCEPT !.fails = fails], "unavailable", backoff(fails))

(* BudgetState::restore of a fresh process: what the row knows is merged.    *)
restore(p) ==
    LET b == [Polling EXCEPT !.fails = Smaller(p.fails, MaxFailures)]
        waited == IF p.reason # "none" THEN extend_wait(b, p.reason, p.wait)
                  ELSE IF p.fails > 0 THEN repair_wait(b) ELSE b
    IN  retain_quota_wait(IF p.quota = NoQuota THEN waited ELSE merge_quota(waited, p.quota))

check(b) == retain_quota_wait(b)
Admits(b) == ~outstanding(check(b).wait)

(* Data for a window that is over is ignored, bad data fails the request.    *)
observe_json(b, q) ==
    IF outstanding(q.until) THEN retain_quota_wait(merge_quota(b, q)) ELSE b

(* What an answer that refuses a request is taken for; without a hint the    *)
(* base backoff is one.  Any other failure is not typed.                     *)
classify_failure == [reason : {"primary", "secondary"}, hint : Hints \cup {BaseBackoff}]

(* A typed failure: `hint` is what is left of the deadline it asked for.     *)
ForgetsHint(b, reason, hint) ==
    LET fails == Smaller(b.fails + 1, MaxFailures)
    IN  retain_quota_wait(extend_wait([b EXCEPT !.fails = fails], reason, backoff(fails)))
failure(b, reason, hint) ==
    LET counted == reason # "quota"
        fails == IF counted THEN Smaller(b.fails + 1, MaxFailures) ELSE b.fails
        local == IF counted THEN Larger(hint, backoff(fails)) ELSE hint
        deadline == IF reason = "primary" /\ b.quota # NoQuota
                    THEN Larger(local, b.quota.until) ELSE local
    IN  retain_quota_wait(extend_wait([b EXCEPT !.fails = fails], reason, deadline))

success(b) ==
    retain_quota_wait(
        IF ~outstanding(b.wait) THEN [b EXCEPT !.wait = 0, !.reason = "none", !.fails = 0]
        ELSE IF b.reason = "quota" THEN [b EXCEPT !.fails = 0] ELSE b)

(* The wait in seconds runs down; the quota window with it.                  *)
Pass(d) == IF d = Never \/ d = 0 THEN d ELSE d - 1
Elapse(b) ==
    [b EXCEPT !.wait = Pass(@), !.quota.until = IF @ = 0 THEN 0 ELSE @ - 1]

-----------------------------------------------------------------------------
(* factory_controller.rs: the row.                                          *)

(* configure_factory_controller: a new connection epoch takes the row over;  *)
(* what was asked, what is paused and what must be waited for stay.          *)
configure_factory_controller ==
    [ctl EXCEPT !.epoch = @ + 1]

NeverRelax(prior, next) == next.reason # "none" \/ prior.reason = "none"
validate_polling_update(prior, next) ==
    /\ (next.wait # 0) => next.reason # "none"
    /\ outstanding(prior.wait) => next.wait >= prior.wait

(* heartbeat_factory_controller.                                             *)
HeartbeatAllowed(epoch, completed, polling) ==
    /\ epoch = ctl.epoch
    /\ completed >= ctl.done /\ completed <= ctl.gen
    /\ validate_polling_update(ctl.polling, polling)

heartbeat_factory_controller(completed, polling) ==
    [ctl EXCEPT !.done = completed, !.polling = polling]

(* control_factory_controller: pause, resume or reconcile; a request for a   *)
(* version of the row that is past is refused and changes nothing.           *)
control_factory_controller(action) ==
    [ctl EXCEPT !.desired = CASE action = "pause" -> "paused"
                              [] action = "resume" -> "running"
                              [] OTHER -> @,
                !.gen = IF action = "pause" THEN @ ELSE @ + 1]

Control(action) ==
    /\ controls < MaxControls /\ controls' = controls + 1
    /\ ctl' = control_factory_controller(action)
    /\ UNCHANGED <<w, reconciled, owed, throttles, faults>>

-----------------------------------------------------------------------------
(* The watch loop, one step per request.                                    *)

Reports(v) == v.cycle = "none" /\ v.last # "none"

(* Of a superseded process only the report it has under way matters to the   *)
(* row: later ones are refused too, and a cycle that it still runs works on  *)
(* items (FactoryClaim), not on the controller.                              *)
Superseded(v) == IF v.pc = "heartbeat" /\ Reports(v) THEN v ELSE Off

(* A process starts, configures the controller and restores its budget; if   *)
(* the answer is lost it exits, superseding its predecessor all the same.    *)
Start(p) ==
    LET others == [q \in Watchers |-> Superseded(w[q])]
    IN  /\ p = ctl.epoch + 1
        /\ ctl' = configure_factory_controller
        /\ \/ /\ w' = [others EXCEPT ![p] = [Off EXCEPT !.pc = "tick",
                                                        !.budget = restore(ctl.polling)]]
              /\ UNCHANGED faults
           \/ faults < MaxFaults /\ faults' = faults + 1 /\ w' = others
        /\ owed' = ctl.polling.wait
        /\ UNCHANGED <<reconciled, controls, throttles>>

(* The finished cycle is collected: its result, and what it did to the       *)
(* budget; the deadline of a request is counted again if it has passed.      *)
Collected(v) ==
    IF v.cycle \in {"none", "running"} THEN v
    ELSE [v EXCEPT !.cycle = "none", !.began = 0,
                   !.last = IF v.cycle = "succeeded" THEN "succeeded" ELSE "failed",
                   !.budget = CASE v.cycle = "succeeded" -> success(@)
                                [] v.cycle = "throttled" /\ ~outstanding(@.wait) ->
                                      failure(@, v.why, 0)
                                [] OTHER -> @,
                   !.why = "none"]

(* The tick: collect, then the snapshot of the row; a snapshot that fails    *)
(* leaves the rest of the loop for the next tick.                            *)
Tick(p) ==
    LET v == Collected(w[p])
    IN  /\ w[p].pc = "tick"
        /\ \/ /\ w' = [w EXCEPT ![p] = [v EXCEPT !.pc = "heartbeat", !.pend = ctl.gen,
                                                 !.comp = ctl.done]]
              /\ UNCHANGED faults
           \/ /\ faults < MaxFaults /\ faults' = faults + 1
              /\ w' = [w EXCEPT ![p] = v]
        /\ reconciled' = IF w[p].cycle \in {"succeeded", "failed", "throttled"}
                         THEN Larger(reconciled, w[p].began) ELSE reconciled
        /\ UNCHANGED <<ctl, owed, controls, throttles>>

(* finished_generation: the generation of a forced cycle, or the completed   *)
(* one for a periodic cycle; a heartbeat without a report keeps the row's.   *)
ReportsPending(v) == IF Reports(v) THEN v.pend ELSE ctl.done
Finished(v) == IF Reports(v) THEN (IF v.cgen > 0 THEN v.cgen ELSE v.comp) ELSE ctl.done

(* A refused heartbeat ends the iteration; a superseded process is refused   *)
(* for ever.                                                                 *)
Refusal(p, v) ==
    IF p # ctl.epoch THEN Off ELSE [v EXCEPT !.pc = "tick", !.pend = 0, !.comp = 0]

(* After an accepted heartbeat: `paused` is the answer's, `forced` compares  *)
(* what the snapshot before it said, and the interval may have passed (due). *)
Decided(v, paused, due) ==
    LET forced == v.pend > v.comp
        spawn == v.cycle = "none" /\ ~paused /\ Admits(v.budget) /\ (forced \/ due)
        idle == [v EXCEPT !.pc = "tick", !.pend = 0, !.comp = 0, !.budget = check(@)]
    IN  IF spawn THEN [idle EXCEPT !.cycle = "running", !.began = ctl.gen,
                                   !.cgen = IF forced THEN v.pend ELSE 0]
        ELSE idle

Heartbeat(p) ==
    LET v == w[p]
        done == IF Reports(v) THEN [v EXCEPT !.cgen = 0, !.last = "none"] ELSE v
    IN  /\ v.pc = "heartbeat"
        /\ IF HeartbeatAllowed(p, Finished(v), v.budget)
           THEN /\ ctl' = heartbeat_factory_controller(Finished(v), v.budget)
                /\ \/ /\ \E due \in BOOLEAN :
                           w' = [w EXCEPT ![p] = Decided(done, ctl.desired = "paused", due)]
                      /\ UNCHANGED faults
                   \/ /\ faults < MaxFaults /\ faults' = faults + 1
                      /\ w' = [w EXCEPT ![p] = Refusal(p, v)]
           ELSE /\ w' = [w EXCEPT ![p] = Refusal(p, v)]
                /\ UNCHANGED <<ctl, faults>>
        /\ UNCHANGED <<reconciled, owed, controls, throttles>>

-----------------------------------------------------------------------------
(* The cycle's requests to GitHub, concurrent with the loop.                *)

(* graphql_json, gh_json_guarded, gh_run_guarded: nothing is sent while the  *)
(* budget waits; a refusal is recorded before it reaches the cycle.          *)
Send(p) == w[p].cycle = "running" /\ Admits(w[p].budget)

Requested(p) ==
    /\ Send(p)
    /\ \/ \E q \in {q \in Quotas : valid_counters(q)} :
            /\ throttles < MaxThrottles /\ throttles' = throttles + 1
            /\ w' = [w EXCEPT ![p].budget = observe_json(@, q)]
            /\ owed' = IF /\ p = ctl.epoch /\ q.remaining < required(q)
                          /\ ~Stale(w[p].budget, q)
                       THEN Larger(owed, q.until) ELSE owed
       \/ \E f \in classify_failure :
            /\ throttles < MaxThrottles /\ throttles' = throttles + 1
            /\ w' = [w EXCEPT ![p].budget = failure(@, f.reason, f.hint),
                              ![p].cycle = "throttled", ![p].why = f.reason]
            /\ owed' = IF p = ctl.epoch THEN Larger(owed, f.hint) ELSE owed
       \/ UNCHANGED <<throttles, owed>> /\ w' = [w EXCEPT ![p].cycle = "failed"]
    /\ UNCHANGED <<ctl, reconciled, controls, faults>>

Refused(p) ==
    /\ w[p].cycle = "running" /\ ~Admits(w[p].budget)
    /\ w' = [w EXCEPT ![p].cycle = "throttled", ![p].why = check(w[p].budget).reason,
                      ![p].budget = check(@)]
    /\ UNCHANGED <<ctl, reconciled, owed, controls, throttles, faults>>

CycleEnds(p) ==
    /\ w[p].cycle = "running" /\ w' = [w EXCEPT ![p].cycle = "succeeded"]
    /\ UNCHANGED <<ctl, reconciled, owed, controls, throttles, faults>>

Crash(p) ==
    /\ w[p].pc # "off" /\ faults < MaxFaults /\ faults' = faults + 1
    /\ w' = [w EXCEPT ![p] = Off]
    /\ UNCHANGED <<ctl, reconciled, owed, controls, throttles>>

Time ==
    /\ \E b \in {ctl.polling} \cup {w[p].budget : p \in Watchers} :
         b.wait \notin {0, Never} \/ b.quota.until # 0
    /\ ctl' = [ctl EXCEPT !.polling = Elapse(@)]
    /\ w' = [p \in Watchers |-> [w[p] EXCEPT !.budget = Elapse(@)]]
    /\ owed' = Pass(owed)
    /\ UNCHANGED <<reconciled, controls, throttles, faults>>

-----------------------------------------------------------------------------

Init ==
    /\ ctl = [epoch |-> 0, desired |-> "running", gen |-> 0, done |-> 0,
              polling |-> Polling]
    /\ w = [p \in Watchers |-> Off]
    /\ reconciled = 0 /\ owed = 0 /\ controls = 0 /\ throttles = 0 /\ faults = 0

Loop(p) == Tick(p) \/ Heartbeat(p)
Cycle(p) == Requested(p) \/ Refused(p) \/ CycleEnds(p)

Next ==
    \/ \E p \in Watchers : Start(p) \/ Loop(p) \/ Cycle(p) \/ Crash(p)
    \/ \E action \in {"pause", "resume", "reconcile"} : Control(action)
    \/ Time

Spec == Init /\ [][Next]_vars

(* The loop runs for ever, a cycle ends (every command of it has a time     *)
(* limit), and time passes.                                                 *)
FairSpec ==
    /\ Spec /\ WF_vars(Time)
    /\ \A p \in Watchers : WF_vars(Loop(p)) /\ WF_vars(Cycle(p))

-----------------------------------------------------------------------------
(* Properties.                                                               *)

(* The controller in office sends GitHub nothing before the longest deadline *)
(* that GitHub gave it, or that its predecessors persisted, whatever cycles  *)
(* succeeded, failed or were forced in between.  Quota data that is stale    *)
(* when it arrives gives none.                                               *)
WaitIsServed ==
    [][\A p \in Watchers : (Requested(p) /\ p = ctl.epoch) => owed = 0]_vars

(* A generation is reported complete only if a cycle that began after it was *)
(* requested has ended, over lost heartbeats, pauses and takeovers.          *)
DoneMeansReconciled == ctl.done <= reconciled

(* A requested reconciliation is completed unless the operator pauses the    *)
(* controller, nobody is in office, or GitHub asked for an unbounded wait.   *)
Office == \E p \in Watchers : w[p].pc # "off" /\ p = ctl.epoch
ReconcileCompletes ==
    \A g \in 1..MaxControls :
        (ctl.gen >= g) ~> (ctl.done >= g \/ ctl.desired = "paused" \/ ~Office
                             \/ ctl.polling.wait = Never
                             \/ \E p \in Watchers : w[p].budget.wait = Never)
=============================================================================
