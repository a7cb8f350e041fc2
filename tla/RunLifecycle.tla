---------------------------- MODULE RunLifecycle ----------------------------
(***************************************************************************)
(* The run / task / mission / agent tables of crony-store and the          *)
(* transactions that move them: scheduling (create_task_run), resume       *)
(* (create_resume_run), dispatch failure, the runner event handler         *)
(* (apply_runner_event), evidence-gated completion, durable approvals, the *)
(* circuit breaker and runner loss.  One action is one database            *)
(* transaction; the steps a handler takes outside a transaction (listing   *)
(* candidates, sending the start command, arming an expiry timer) have     *)
(* state of their own, so other transactions interleave with them.         *)
(*                                                                         *)
(* Abstractions.  A run id is its position in the creation order, so "the  *)
(* latest run" is the largest id.  The usage and loop metrics of a run are *)
(* one number, its pressure: the rank of the strongest stage they reach.   *)
(* A run holds at most one action approval and one artifact.  Agents are   *)
(* pinned (never retired).  No mission is linked to a factory work item.   *)
(* tasks.verification_status and agents.station mirror other columns and   *)
(* guard nothing here, so they are left out.                               *)
(***************************************************************************)
EXTENDS Integers, FiniteSets

CONSTANTS
  Missions, Tasks, Agents, Messages,
  MissionOf,      \* tasks.mission_id
  AgentOf,        \* tasks.assigned_agent_id
  Deps,           \* task_dependencies: the parents of a task
  MaxAttempts,    \* tasks.max_attempts
  Gated,          \* tasks whose verification policy has a manual gate
  NeedsArtifact,  \* tasks whose policy has an artifact check
  AsksApproval,   \* tasks whose adapter asks for action approvals
  Checks,         \* the automated checks of the verification policy
  Pressures,      \* the pressure levels the environment produces
  Recipient,      \* queued_messages.agent_id
  Reported,       \* agent statuses that run.status reports
  Cleanups,       \* the dispositions that workspace cleanup reports
  MayCrash,       \* whether the server process may crash and restart
  MaxRuns,        \* bound: the rows the runs table may hold
  NoTask          \* runs.task_id of a row that is not there yet

Runs == 1 .. MaxRuns
NoRun == 0
Stages == {"none", "steer", "constrain", "suspend", "stop"}

ASSUME RunsAssumption == MaxRuns \in Nat /\ NoTask \notin Tasks
ASSUME GraphAssumption ==
  /\ MissionOf \in [Tasks -> Missions]
  /\ AgentOf \in [Tasks -> Agents]
  /\ Deps \in [Tasks -> SUBSET Tasks]
  /\ MaxAttempts \in [Tasks -> Nat]
  /\ Recipient \in [Messages -> Agents]
  /\ Pressures \subseteq Stages
  /\ Reported \subseteq {"working", "blocked", "reviewing", "idle"}
  /\ Cleanups \subseteq {"preserved", "removed", "quarantined"}
  /\ MayCrash \in BOOLEAN

VARIABLES
  missionStatus,  \* missions.status
  taskStatus,     \* tasks.status
  attempts,       \* tasks.attempt_count
  agentStatus,    \* agents.status
  currentRun,     \* agents.current_run_id, NoRun for NULL
  created,        \* rows inserted into runs so far
  runStatus,      \* runs.status, "absent" before the insert
  runTask,        \* runs.task_id
  lineage,        \* runs.resumed_from_run_id and runs.workspace_run_id
  workspace,      \* session and workspace columns of a run
  verification,   \* verification columns, evidence rows and gate request
  breaker,        \* runs.breaker_stage and the pressure of the metrics
  approval,       \* action_approvals.status of the run's approval
  due,            \* approvals whose expires_at has passed
  timers,         \* expiry timers armed in server memory
  commands,       \* runner_commands rows: verdicts and breaker directions
  artifact,       \* artifacts.status of the run's artifact
  inbox,          \* queued_messages: status and reserving run
  candidates,     \* tasks some scheduling pass has listed and not yet tried
  dispatch,       \* how far the handler that allocated the run has come
  worker          \* how far the runner's supervised process has come

planVars == <<missionStatus, taskStatus, attempts, agentStatus, currentRun>>
runVars == <<created, runStatus, runTask, lineage, workspace, verification,
             breaker, artifact>>
approvalVars == <<approval, due, timers, commands>>
storeVars == <<inbox, candidates, dispatch>>
serverVars == <<storeVars, worker>>
vars == <<planVars, runVars, approvalVars, serverVars>>

-----------------------------------------------------------------------------
(* Vocabulary of the status columns.                                       *)

MissionStatuses == {"ready", "running", "completed", "failed", "cancelled"}
TaskStatuses == {"pending", "ready", "claimed", "running", "review",
                 "awaiting_approval", "blocked", "verification_failed",
                 "completed", "failed", "cancelled"}
AgentStatuses == {"idle", "starting", "working", "blocked", "reviewing"}
ActiveStatuses == {"provisioning", "starting", "running", "waiting_for_input",
                   "waiting_for_approval", "verifying"}
TerminalStatuses == {"completed", "failed", "cancelled", "lost"}
Dispositions == {"null", "active", "preserved", "removed", "quarantined"}
Verdicts == {"approved", "rejected", "expired"}
RunStatuses == ActiveStatuses \cup TerminalStatuses \cup {"absent"}
RunRef == Runs \cup {NoRun}

Lineages == [source : RunRef, root : RunRef]
Workspaces == [session : BOOLEAN, started : BOOLEAN, heard : BOOLEAN,
               notStarted : BOOLEAN, disposition : Dispositions]
Verifications ==
  [status : {"pending", "running", "passed", "waiting_for_approval", "failed"},
   request : {"none", "pending", "approved", "rejected"},
   evidence : [Checks -> {"none", "passed", "failed"}]]
Breakers == [stage : Stages, pressure : Stages]
Commands == [run : Runs, kind : Verdicts \cup Stages]
Notes == [status : {"absent", "queued", "reserved", "delivered"}, run : RunRef]

Active(r) == runStatus[r] \in ActiveStatuses
Terminal(r) == runStatus[r] \in TerminalStatuses
Agent(r) == AgentOf[runTask[r]]
Mission(r) == MissionOf[runTask[r]]
RunsOf(t) == {r \in Runs : runStatus[r] # "absent" /\ runTask[r] = t}
Latest(r) == \A s \in RunsOf(runTask[r]) : s <= r
ActiveRunOf(t) == \E r \in RunsOf(t) : Active(r)
ActiveRunOn(a) == \E r \in Runs : Active(r) /\ Agent(r) = a
TasksOf(m) == {t \in Tasks : MissionOf[t] = m}

-----------------------------------------------------------------------------
(* The pure rules of the store.                                            *)

breaker_rank(stage) ==
  CASE stage = "steer" -> 1
    [] stage = "constrain" -> 2
    [] stage = "suspend" -> 3
    [] stage = "stop" -> 4
    [] OTHER -> 0

breaker_is_hard(stage) == stage \in {"suspend", "stop"}

mission_allows_dispatch(m) == missionStatus[m] \in {"ready", "running"}

should_retry_runner_failure(stage, t) ==
  attempts[t] < MaxAttempts[t] /\ ~ breaker_is_hard(stage)

\* hard_breaker_reached_tx: the metrics are at or over a limit right now,
\* whether or not a breaker evaluation has recorded the stage yet.
hard_breaker_reached(r) == breaker_is_hard(breaker[r].pressure)

ensure_run_not_hard_blocked(r) ==
  /\ ~ breaker_is_hard(breaker[r].stage)
  /\ ~ hard_breaker_reached(r)

\* The events of runner_event_advances_run pass only these conditions.
MayAdvance(r) ==
  /\ Active(r)
  /\ ~ breaker_is_hard(breaker[r].stage)
  /\ workspace[r].disposition # "quarantined"
  /\ ensure_run_not_hard_blocked(r)

lineage_run_is_pre_dispatch_failure(r) ==
  /\ runStatus[r] = "failed"
  /\ ~ workspace[r].started
  /\ workspace[r].disposition = "null"
  /\ workspace[r].notStarted

LineageOf(root) == {r \in Runs : runStatus[r] # "absent" /\ lineage[r].root = root}

\* latest_workspace_source_id: the newest run of the worktree, skipping only
\* allocations that never reached a runner.
latest_workspace_source(r) ==
  /\ ~ lineage_run_is_pre_dispatch_failure(r)
  /\ \A s \in LineageOf(lineage[r].root) :
       s > r => lineage_run_is_pre_dispatch_failure(s)

DependenciesReady(t) == \A p \in Deps[t] : taskStatus[p] = "completed"

-----------------------------------------------------------------------------
(* Effects several transactions share.                                     *)

ReleaseAgent(a) ==
  /\ agentStatus' = [agentStatus EXCEPT ![a] = "idle"]
  /\ currentRun' = [currentRun EXCEPT ![a] = NoRun]

\* ... WHERE id = agent AND current_run_id = run
ReleaseAgentIfCurrent(r) ==
  IF currentRun[Agent(r)] = r
  THEN ReleaseAgent(Agent(r))
  ELSE UNCHANGED <<agentStatus, currentRun>>

\* Artifact finalization detached the agent, and the failed run is its
\* newest and only claim.
OwnsDetachedReview(r) ==
  LET a == Agent(r)
  IN /\ currentRun[a] = NoRun
     /\ agentStatus[a] = "reviewing"
     /\ \A s \in Runs : (runStatus[s] # "absent" /\ Agent(s) = a /\ s # r)
                           => s < r /\ ~ Active(s)

OwnsAgent(r) == currentRun[Agent(r)] = r \/ OwnsDetachedReview(r)

release_failed_run_agent(r) ==
  IF OwnsAgent(r)
  THEN ReleaseAgent(Agent(r))
  ELSE UNCHANGED <<agentStatus, currentRun>>

\* UPDATE missions ... WHERE status IN ('ready', 'running')
OpenMissionBecomes(m, status) ==
  missionStatus' = [missionStatus EXCEPT
    ![m] = IF @ \in {"ready", "running"} THEN status ELSE @]

\* UPDATE tasks child SET status = 'ready' ... WHERE child.status = 'pending'
ReadyChildren(statuses, m) ==
  [c \in Tasks |->
    IF /\ MissionOf[c] = m
       /\ statuses[c] = "pending"
       /\ \A p \in Deps[c] : statuses[p] = "completed"
    THEN "ready" ELSE statuses[c]]

MissionComplete(statuses, m) == \A t \in TasksOf(m) : statuses[t] = "completed"

\* The tail of run.completed and of an approving decide_verification: the
\* task completes, children whose parents are now all complete become ready,
\* and the mission completes with its last task.
CompleteTask(t) ==
  LET m == MissionOf[t]
      statuses == ReadyChildren([taskStatus EXCEPT ![t] = "completed"], m)
  IN /\ taskStatus' = statuses
     /\ OpenMissionBecomes(m, IF MissionComplete(statuses, m)
                               THEN "completed" ELSE "running")

\* reserve_queued_messages_tx: at most 20 messages, a bound no model reaches.
reserve_queued_messages(a, r) ==
  inbox' = [m \in Messages |->
    IF Recipient[m] = a /\ inbox[m].status = "queued"
    THEN [status |-> "reserved", run |-> r] ELSE inbox[m]]

RequeueReserved(rs) ==
  inbox' = [m \in Messages |->
    IF inbox[m].status = "reserved" /\ inbox[m].run \in rs
    THEN [status |-> "queued", run |-> NoRun] ELSE inbox[m]]

\* The INSERT INTO runs both allocators share: a fresh row, so every column
\* that is not listed takes its default.
InsertRun(r, t, src, root, session) ==
  /\ created' = r
  /\ runStatus' = [runStatus EXCEPT ![r] = "starting"]
  /\ runTask' = [runTask EXCEPT ![r] = t]
  /\ lineage' = [lineage EXCEPT ![r] = [source |-> src, root |-> root]]
  /\ workspace' = [workspace EXCEPT ![r].session = session]
  /\ dispatch' = [dispatch EXCEPT ![r] = "sending"]
  /\ reserve_queued_messages(AgentOf[t], r)
  /\ agentStatus' = [agentStatus EXCEPT ![AgentOf[t]] = "starting"]
  /\ currentRun' = [currentRun EXCEPT ![AgentOf[t]] = r]
  /\ UNCHANGED <<verification, breaker, artifact, approvalVars>>

-----------------------------------------------------------------------------
(* Scheduling and dispatch.                                                *)

Schedulable(t) ==
  /\ mission_allows_dispatch(MissionOf[t])
  /\ taskStatus[t] \in {"pending", "ready"}
  /\ agentStatus[AgentOf[t]] = "idle"
  /\ attempts[t] < MaxAttempts[t]
  /\ DependenciesReady(t)
  /\ ~ ActiveRunOf(t)
  /\ ~ ActiveRunOn(AgentOf[t])

\* A scheduling pass (mission launch, a run's end, the 3 s tick) lists the
\* mission's candidates; every one is tried later, in its own transaction.
schedulable_tasks(m) ==
  /\ \E t \in TasksOf(m) : Schedulable(t) /\ t \notin candidates
  /\ candidates' = candidates \cup {t \in TasksOf(m) : Schedulable(t)}
  /\ UNCHANGED <<planVars, runVars, approvalVars, inbox, dispatch, worker>>

Unclaimed(t) == ~ ActiveRunOf(t) /\ ~ ActiveRunOn(AgentOf[t])

WantsRun(t) ==
  /\ mission_allows_dispatch(MissionOf[t])
  /\ taskStatus[t] \in {"pending", "ready"}
  /\ attempts[t] < MaxAttempts[t]

\* Mutant: the parents are not checked again.
RunAllowedEarly(t) == WantsRun(t) /\ Unclaimed(t)

\* create_task_run checks everything again under row locks.
RunAllowed(t) == WantsRun(t) /\ DependenciesReady(t) /\ Unclaimed(t)

CountAttempt(t) == attempts' = [attempts EXCEPT ![t] = @ + 1]

create_task_run(t) ==
  LET r == created + 1
  IN /\ t \in candidates
     /\ r \in Runs
     /\ RunAllowed(t)
     /\ InsertRun(r, t, NoRun, r, FALSE)
     /\ OpenMissionBecomes(MissionOf[t], "running")
     /\ taskStatus' = [taskStatus EXCEPT ![t] = "claimed"]
     /\ CountAttempt(t)
     /\ candidates' = candidates \ {t}
     /\ UNCHANGED worker

\* No connected runner satisfies the candidate, or create_task_run refuses
\* it because another pass or event has overtaken it.
CandidateDropped(t) ==
  /\ t \in candidates
  /\ candidates' = candidates \ {t}
  /\ UNCHANGED <<planVars, runVars, approvalVars, inbox, dispatch, worker>>

\* The handler put StartRun or ResumeRun on the runner's current socket.
CommandSent(r) ==
  /\ dispatch[r] = "sending"
  /\ dispatch' = [dispatch EXCEPT ![r] = "sent"]
  /\ worker' = [worker EXCEPT ![r] = "launched"]
  /\ UNCHANGED <<planVars, runVars, approvalVars, inbox, candidates>>

\* The conditions under which a dispatch failure still owns its run.
DispatchFailureApplies(r) ==
  /\ Latest(r)
  /\ ~ workspace[r].heard
  /\ taskStatus[runTask[r]] # "completed"
  /\ missionStatus[Mission(r)] \notin {"completed", "cancelled"}
  /\ runStatus[r] \in {"provisioning", "starting"}

\* No runner, an unverifiable dependency context, a denied secret or a
\* changed connection epoch: the handler fails the run it allocated.
fail_run_before_dispatch(r) ==
  /\ dispatch[r] = "sending"
  /\ dispatch' = [dispatch EXCEPT ![r] = "refused"]
  /\ IF DispatchFailureApplies(r)
     THEN /\ runStatus' = [runStatus EXCEPT ![r] = "failed"]
          /\ workspace' = [workspace EXCEPT ![r].notStarted = TRUE]
          /\ RequeueReserved({r})
          /\ taskStatus' = [taskStatus EXCEPT ![runTask[r]] = "failed"]
          /\ missionStatus' = [missionStatus EXCEPT ![Mission(r)] = "failed"]
          /\ ReleaseAgentIfCurrent(r)
     ELSE UNCHANGED <<runStatus, workspace, inbox, taskStatus, missionStatus,
                      agentStatus, currentRun>>
  /\ UNCHANGED <<attempts, created, runTask, lineage, verification, breaker,
                 artifact, approvalVars, candidates, worker>>

\* A session whose worktree is preserved and whose lineage never stopped.
PreservedSession(src) ==
  /\ runStatus[src] # "absent"
  /\ workspace[src].session
  /\ workspace[src].started
  /\ workspace[src].disposition = "preserved"
  /\ \A s \in LineageOf(lineage[src].root) : breaker[s].stage # "stop"

\* Mutant: the agent may be working on another task.
ResumableBusy(src) ==
  /\ PreservedSession(src)
  /\ ~ ActiveRunOf(runTask[src])
  /\ latest_workspace_source(src)

\* The source conditions of create_resume_run.  Whether the mission, the
\* requester and the Corp have budget left is up to the environment: without
\* it the resume is refused and changes nothing.
Resumable(src) ==
  /\ PreservedSession(src)
  /\ Unclaimed(runTask[src])
  /\ latest_workspace_source(src)

ReopenMission(m) == missionStatus' = [missionStatus EXCEPT ![m] = "running"]

\* An operator resumes a preserved session.  Neither the task's nor the
\* mission's status is consulted, and the attempt counter stays.
create_resume_run(src) ==
  LET r == created + 1
      t == runTask[src]
  IN /\ r \in Runs
     /\ Resumable(src)
     /\ InsertRun(r, t, src, lineage[src].root, TRUE)
     /\ ReopenMission(MissionOf[t])
     /\ taskStatus' = [taskStatus EXCEPT ![t] = "claimed"]
     /\ UNCHANGED <<attempts, candidates, worker>>

-----------------------------------------------------------------------------
(* apply_runner_event, one action per event type.  The event carries the   *)
(* run's runner, agent and assignment token, so only the status fence is   *)
(* left.  An event the fence refuses, or one whose id was seen before,     *)
(* changes nothing.                                                        *)

\* The runner supervises one process per assignment and emits its events in
\* this order whether or not the server accepts them: launched (StartRun
\* arrived), working (run.started sent), verifying (run.verification_started
\* sent), passed (run.verification_passed sent), done (terminal event or
\* verification_waiting sent), gone (workspace reported).
Emits(r, from, to) ==
  /\ worker[r] \in from
  /\ worker' = [worker EXCEPT ![r] = to]

Alive == {"launched", "working", "verifying", "passed"}

SetRun(r, status) == runStatus' = [runStatus EXCEPT ![r] = status]
SetTask(r, status) == taskStatus' = [taskStatus EXCEPT ![runTask[r]] = status]
SetAgent(r, status) == agentStatus' = [agentStatus EXCEPT ![Agent(r)] = status]

run_session(r) ==
  /\ Active(r)
  /\ worker[r] \in {"launched", "working"}
  /\ ~ (workspace[r].session /\ workspace[r].heard)
  /\ workspace' = [workspace EXCEPT ![r].session = TRUE, ![r].heard = TRUE]
  /\ UNCHANGED <<planVars, created, runStatus, runTask, lineage, verification,
                 breaker, artifact, approvalVars, serverVars>>

run_started(r) ==
  /\ Emits(r, {"launched"}, "working")
  /\ MayAdvance(r)
  /\ SetRun(r, "running")
  /\ workspace' = [workspace EXCEPT ![r].started = TRUE, ![r].heard = TRUE,
                                    ![r].disposition = "active",
                                    ![r].notStarted = FALSE]
  /\ SetTask(r, "running")
  /\ SetAgent(r, "working")
  /\ inbox' = [m \in Messages |->
       IF inbox[m].status = "reserved" /\ inbox[m].run = r
       THEN [inbox[m] EXCEPT !.status = "delivered"] ELSE inbox[m]]
  /\ UNCHANGED <<missionStatus, attempts, currentRun, created, runTask, lineage,
                 verification, breaker, artifact, approvalVars, candidates, dispatch>>

\* run.status: the agent shows the reported status; only "working" resumes a
\* waiting run, and only when no approval of the run (of the task) is pending.
run_status(r, status) ==
  LET pendingFor(rs) == \E s \in rs : approval[s] = "pending"
  IN /\ worker[r] = "working"
     /\ MayAdvance(r)
     /\ SetAgent(r, status)
     /\ IF status = "working"
        THEN /\ runStatus' = [runStatus EXCEPT ![r] =
                  IF /\ @ \in {"waiting_for_input", "waiting_for_approval"}
                     /\ ~ pendingFor({r})
                  THEN "running" ELSE @]
             /\ taskStatus' = [taskStatus EXCEPT ![runTask[r]] =
                  IF @ = "awaiting_approval" /\ ~ pendingFor(RunsOf(runTask[r]))
                  THEN "running" ELSE @]
        ELSE UNCHANGED <<runStatus, taskStatus>>
     /\ UNCHANGED <<missionStatus, attempts, currentRun, created, runTask,
                    lineage, workspace, verification, breaker, artifact,
                    approvalVars, serverVars>>

\* Mutant: the expiry timer is not armed.
TimerForgotten(r) == UNCHANGED timers

\* The server spawns a task that sleeps until expires_at.
ArmTimer(r) == timers' = timers \cup {r}

run_approval_requested(r) ==
  /\ worker[r] = "working"
  /\ MayAdvance(r)
  /\ runTask[r] \in AsksApproval
  /\ approval[r] = "none"
  /\ approval' = [approval EXCEPT ![r] = "pending"]
  /\ ArmTimer(r)
  /\ SetRun(r, "waiting_for_approval")
  /\ SetTask(r, "awaiting_approval")
  /\ SetAgent(r, "blocked")
  /\ UNCHANGED <<missionStatus, attempts, currentRun, created, runTask, lineage,
                 workspace, verification, breaker, artifact, due, commands,
                 serverVars>>

\* run.usage and run.tool_activity move the metrics of an active run.  Usage
\* of the mission, the requester and the Corp counts too, so they rise while
\* the run waits; progress, the rolling window and a larger budget lower the
\* pressure again.
MetricsChange(r, pressure) ==
  /\ Active(r)
  /\ breaker[r].pressure # pressure
  /\ breaker' = [breaker EXCEPT ![r].pressure = pressure]
  /\ UNCHANGED <<planVars, created, runStatus, runTask, lineage, workspace,
                 verification, artifact, approvalVars, serverVars>>

run_verification_started(r) ==
  /\ Emits(r, {"working"}, "verifying")
  /\ MayAdvance(r)
  /\ SetRun(r, "verifying")
  /\ verification' = [verification EXCEPT ![r].status = "running"]
  /\ SetTask(r, "review")
  /\ SetAgent(r, "reviewing")
  /\ UNCHANGED <<missionStatus, attempts, currentRun, created, runTask, lineage,
                 workspace, breaker, artifact, approvalVars, storeVars>>

\* One evidence row per run and check: UNIQUE (run_id, check_index).
run_verification_evidence(r, c, status) ==
  /\ worker[r] = "verifying"
  /\ MayAdvance(r)
  /\ verification[r].evidence[c] = "none"
  /\ verification' = [verification EXCEPT ![r].evidence[c] = status]
  /\ UNCHANGED <<planVars, created, runStatus, runTask, lineage, workspace,
                 breaker, artifact, approvalVars, serverVars>>

AllPassed(r) == \A c \in Checks : verification[r].evidence[c] = "passed"
CompleteFailing(r) ==
  /\ \A c \in Checks : verification[r].evidence[c] # "none"
  /\ \E c \in Checks : verification[r].evidence[c] = "failed"

VerificationPasses(r) ==
  /\ runTask[r] \in NeedsArtifact => artifact[r] = "ready"
  /\ AllPassed(r)

run_verification_passed(r) ==
  /\ Emits(r, {"verifying"}, "passed")
  /\ MayAdvance(r)
  /\ VerificationPasses(r)
  /\ verification' = [verification EXCEPT ![r].status = "passed"]
  /\ UNCHANGED <<planVars, created, runStatus, runTask, lineage, workspace,
                 breaker, artifact, approvalVars, storeVars>>

run_verification_waiting(r) ==
  /\ Emits(r, {"passed"}, "done")
  /\ MayAdvance(r)
  /\ verification[r].status = "passed"
  /\ runTask[r] \in Gated
  /\ verification[r].request = "none"
  /\ verification' = [verification EXCEPT ![r].request = "pending",
                                          ![r].status = "waiting_for_approval"]
  /\ SetRun(r, "waiting_for_approval")
  /\ SetTask(r, "awaiting_approval")
  /\ SetAgent(r, "reviewing")
  /\ UNCHANGED <<missionStatus, attempts, currentRun, created, runTask, lineage,
                 workspace, breaker, artifact, approvalVars, storeVars>>

\* The tail of run.verification_failed and of a rejecting decision.
RejectWork(r) ==
  /\ SetRun(r, "failed")
  /\ SetTask(r, "verification_failed")
  /\ OpenMissionBecomes(Mission(r), "failed")
  /\ ReleaseAgent(Agent(r))

run_verification_failed(r) ==
  /\ Emits(r, {"verifying"}, "done")
  /\ Active(r)
  /\ CompleteFailing(r)
  /\ RejectWork(r)
  /\ verification' = [verification EXCEPT ![r].status = "failed"]
  /\ UNCHANGED <<attempts, created, runTask, lineage, workspace, breaker,
                 artifact, approvalVars, storeVars>>

\* Mutant: the manual gate is skipped.
AcceptableUngated(r) == verification[r].status = "passed"

Acceptable(r) == verification[r].status = "passed" /\ runTask[r] \notin Gated

run_completed(r) ==
  /\ Emits(r, {"passed"}, "done")
  /\ MayAdvance(r)
  /\ Acceptable(r)
  /\ SetRun(r, "completed")
  /\ CompleteTask(runTask[r])
  /\ ReleaseAgent(Agent(r))
  /\ UNCHANGED <<attempts, created, runTask, lineage, workspace, verification,
                 breaker, artifact, approvalVars, storeVars>>

\* A failure must come from the task's latest run and may not reach accepted
\* or cancelled work.
FailureApplies(r) ==
  /\ Latest(r)
  /\ taskStatus[runTask[r]] # "completed"
  /\ missionStatus[Mission(r)] \notin {"completed", "cancelled"}

\* The task retries while attempts are left and the breaker is not hard.
run_failed(r) ==
  LET t == runTask[r]
      retry == should_retry_runner_failure(breaker[r].stage, t)
  IN /\ Emits(r, Alive, "done")
     /\ Active(r)
     /\ FailureApplies(r)
     /\ SetRun(r, "failed")
     /\ SetTask(r, IF retry THEN "ready" ELSE "failed")
     /\ OpenMissionBecomes(Mission(r), IF retry THEN "running" ELSE "failed")
     /\ release_failed_run_agent(r)
     /\ UNCHANGED <<attempts, created, runTask, lineage, workspace, verification,
                    breaker, artifact, approvalVars, storeVars>>

run_cancelled(r) ==
  /\ Emits(r, Alive, "done")
  /\ Active(r)
  /\ SetRun(r, "cancelled")
  /\ SetTask(r, "cancelled")
  /\ missionStatus' = [missionStatus EXCEPT ![Mission(r)] = "cancelled"]
  /\ ReleaseAgent(Agent(r))
  /\ UNCHANGED <<attempts, created, runTask, lineage, workspace, verification,
                 breaker, artifact, approvalVars, storeVars>>

\* retained_workspace_disposition: quarantine is sticky.
Retained(r, reported) ==
  IF workspace[r].disposition = "quarantined" THEN "quarantined" ELSE reported

\* run.workspace_preserved / run.workspace_removed, the last thing a runner
\* says about a run and the one report a terminal run still accepts.
WorkspaceReport(r, reported) ==
  /\ Emits(r, {"done"}, "gone")
  /\ Active(r) \/ Terminal(r)
  /\ workspace' = [workspace EXCEPT ![r].disposition = Retained(r, reported),
                                    ![r].notStarted = FALSE]
  /\ UNCHANGED <<planVars, created, runStatus, runTask, lineage, verification,
                 breaker, artifact, approvalVars, storeVars>>

\* run.teardown_uncertain, and the run.workspace_preserved that a hard breaker
\* boundary reports: the worktree is retained while the run is still active.
run_teardown_uncertain(r) ==
  /\ worker[r] = "working"
  /\ Active(r)
  /\ workspace[r].disposition # Retained(r, "preserved")
  /\ workspace' = [workspace EXCEPT ![r].disposition = Retained(r, "preserved"),
                                    ![r].notStarted = FALSE]
  /\ UNCHANGED <<planVars, created, runStatus, runTask, lineage, verification,
                 breaker, artifact, approvalVars, serverVars>>

\* The server refuses an event (the run is finished, the breaker is hard, the
\* workspace is quarantined, a failure is superseded, the evidence does not
\* match) and the runner, which is not told, goes on.
EventRefused(r) ==
  /\ worker[r] \in Alive
  /\ \/ /\ ~ MayAdvance(r)
        /\ \/ Emits(r, {"launched"}, "working")
           \/ Emits(r, {"working"}, "verifying")
     \/ /\ ~ MayAdvance(r) \/ ~ VerificationPasses(r)
        /\ Emits(r, {"verifying"}, "passed")
     \/ /\ ~ Active(r) \/ ~ CompleteFailing(r)
        /\ Emits(r, {"verifying"}, "done")
     \/ /\ ~ MayAdvance(r) \/ verification[r].status # "passed"
        /\ Emits(r, {"passed"}, "done")
     \/ /\ ~ Active(r) \/ ~ FailureApplies(r)
        /\ Emits(r, Alive, "done")
  /\ UNCHANGED <<planVars, runVars, approvalVars, storeVars>>

-----------------------------------------------------------------------------
(* Artifact uploads, as far as they touch the run.                         *)

prepare_artifact_upload(r) ==
  /\ worker[r] \in {"working", "verifying"}
  /\ Active(r)
  /\ ensure_run_not_hard_blocked(r)
  /\ runTask[r] \in NeedsArtifact
  /\ artifact[r] = "none"
  /\ artifact' = [artifact EXCEPT ![r] = "staged"]
  /\ UNCHANGED <<planVars, created, runStatus, runTask, lineage, workspace,
                 verification, breaker, approvalVars, serverVars>>

\* By the upload handler or by the recovery sweep, at any later time: the
\* breaker is not consulted again, and the agent is detached from its run.
finalize_artifact_upload(r) ==
  /\ artifact[r] = "staged"
  /\ artifact' = [artifact EXCEPT ![r] = "ready"]
  /\ IF Active(r)
     THEN /\ SetRun(r, "verifying")
          /\ SetTask(r, "review")
          /\ SetAgent(r, "reviewing")
          /\ currentRun' = [currentRun EXCEPT ![Agent(r)] = NoRun]
     ELSE UNCHANGED <<runStatus, taskStatus, agentStatus, currentRun>>
  /\ UNCHANGED <<missionStatus, attempts, created, runTask, lineage, workspace,
                 verification, breaker, approvalVars, serverVars>>

\* reject_staged_artifact keeps a rejected row; abandon_staged_artifact
\* deletes a reservation without bytes so that the runner may retry.
DropStagedArtifact(r, outcome) ==
  /\ artifact[r] = "staged"
  /\ artifact' = [artifact EXCEPT ![r] = outcome]
  /\ UNCHANGED <<planVars, created, runStatus, runTask, lineage, workspace,
                 verification, breaker, approvalVars, serverVars>>

-----------------------------------------------------------------------------
(* The circuit breaker, approvals and the manual verification gate.        *)

StageRises(r) == breaker_rank(breaker[r].pressure) > breaker_rank(breaker[r].stage)

\* A transaction of its own after each usage or tool event.
evaluate_circuit_breaker(r) ==
  LET stage == breaker[r].pressure
  IN /\ runStatus[r] \in ActiveStatuses \ {"provisioning"}
     /\ StageRises(r)
     /\ breaker' = [breaker EXCEPT ![r].stage = stage]
     /\ commands' = commands \cup {[run |-> r, kind |-> stage]}
     /\ IF stage = "suspend"
        THEN /\ runStatus' = [runStatus EXCEPT ![r] =
                  IF @ = "running" THEN "waiting_for_input" ELSE @]
             /\ taskStatus' = [taskStatus EXCEPT ![runTask[r]] =
                  IF @ = "running" THEN "blocked" ELSE @]
        ELSE UNCHANGED <<runStatus, taskStatus>>
     /\ UNCHANGED <<missionStatus, attempts, agentStatus, currentRun, created,
                    runTask, lineage, workspace, verification, artifact,
                    approval, due, timers, serverVars>>

\* The clock passes the approval's expires_at.
ApprovalDue(r) ==
  /\ approval[r] = "pending"
  /\ r \notin due
  /\ due' = due \cup {r}
  /\ UNCHANGED <<planVars, runVars, approval, timers, commands, serverVars>>

\* Mutant: a verdict may be revised until the approval expires.
Revisable(r) ==
  approval[r] # "none" /\ ensure_run_not_hard_blocked(r) /\ r \notin due

Decidable(r) ==
  approval[r] = "pending" /\ ensure_run_not_hard_blocked(r) /\ r \notin due

\* A human with the required role decides in time.
decide_action_approval(r, verdict) ==
  /\ Decidable(r)
  /\ approval' = [approval EXCEPT ![r] = verdict]
  /\ commands' = commands \cup {[run |-> r, kind |-> verdict]}
  /\ UNCHANGED <<planVars, runVars, due, timers, serverVars>>

\* Mutant: the run is cancelled whatever its status.
CancelRun(r) == SetRun(r, "cancelled")

CancelWaitingRun(r) ==
  runStatus' = [runStatus EXCEPT ![r] =
    IF @ = "waiting_for_approval" THEN "cancelled" ELSE @]

CancelWaitingTask(r) ==
  taskStatus' = [taskStatus EXCEPT ![runTask[r]] =
    IF @ = "awaiting_approval" THEN "cancelled" ELSE @]

\* expire_action_approval: each table is repaired under a guard of its own.
expire_action_approval(r) ==
  /\ approval' = [approval EXCEPT ![r] = "expired"]
  /\ commands' = commands \cup {[run |-> r, kind |-> "expired"]}
  /\ CancelWaitingRun(r)
  /\ CancelWaitingTask(r)
  /\ missionStatus' = [missionStatus EXCEPT ![Mission(r)] =
       IF @ = "running" THEN "cancelled" ELSE @]
  /\ ReleaseAgentIfCurrent(r)
  /\ UNCHANGED <<attempts, created, runTask, lineage, workspace, verification,
                 breaker, artifact, due, serverVars>>

\* The timer the server armed in memory when the approval was requested.
ExpiryTimerFires(r) ==
  /\ r \in timers
  /\ r \in due \/ approval[r] # "pending"
  /\ timers' = timers \ {r}
  /\ IF approval[r] = "pending"
     THEN expire_action_approval(r)
     ELSE UNCHANGED <<planVars, runVars, approval, due, commands, serverVars>>

\* A decision that comes too late expires the approval instead.
DecideExpired(r) ==
  /\ approval[r] = "pending"
  /\ r \in due
  /\ ensure_run_not_hard_blocked(r)
  /\ expire_action_approval(r)
  /\ UNCHANGED timers

decide_verification(r, approved) ==
  /\ verification[r].request = "pending"
  /\ runStatus[r] = "waiting_for_approval"
  /\ taskStatus[runTask[r]] = "awaiting_approval"
  /\ ensure_run_not_hard_blocked(r)
  /\ missionStatus[Mission(r)] \notin {"completed", "failed", "cancelled"}
  /\ IF approved
     THEN /\ verification' = [verification EXCEPT ![r].request = "approved",
                                                  ![r].status = "passed"]
          /\ SetRun(r, "completed")
          /\ CompleteTask(runTask[r])
          /\ ReleaseAgent(Agent(r))
     ELSE /\ verification' = [verification EXCEPT ![r].request = "rejected",
                                                  ![r].status = "failed"]
          /\ RejectWork(r)
  /\ UNCHANGED <<attempts, created, runTask, lineage, workspace, breaker,
                 artifact, approvalVars, serverVars>>

-----------------------------------------------------------------------------
(* Runner loss, server restarts and operators.                             *)

\* Mutant: the tasks of lost runs keep their status.
KeepTasks(lost) == UNCHANGED taskStatus

BlockTasks(lost) ==
  taskStatus' = [t \in Tasks |->
    IF \E r \in lost : runTask[r] = t THEN "blocked" ELSE taskStatus[t]]

\* Mutant: runs that already ended are included.
AnyRuns(lost) == \A r \in lost : r <= created

OnlyActiveRuns(lost) == \A r \in lost : Active(r)

\* mark_runner_runs_lost_tx, for the runs of a runner whose grace period ran
\* out, or those a reconnecting runner did not claim.
mark_runner_runs_lost(lost) ==
  /\ lost # {}
  /\ OnlyActiveRuns(lost)
  /\ runStatus' = [r \in Runs |-> IF r \in lost THEN "lost" ELSE runStatus[r]]
  /\ BlockTasks(lost)
  /\ missionStatus' = [m \in Missions |->
       IF /\ \E r \in lost : Mission(r) = m
          /\ missionStatus[m] \in {"ready", "running"}
       THEN "failed" ELSE missionStatus[m]]
  /\ RequeueReserved(lost)
  /\ agentStatus' = [a \in Agents |->
       IF \E r \in lost : Agent(r) = a THEN "idle" ELSE agentStatus[a]]
  /\ currentRun' = [a \in Agents |->
       IF \E r \in lost : Agent(r) = a THEN NoRun ELSE currentRun[a]]
  /\ UNCHANGED <<attempts, created, runTask, lineage, workspace, verification,
                 breaker, artifact, approvalVars, candidates, dispatch, worker>>

\* Everything the server keeps only in memory is gone.
ServerRestart ==
  /\ MayCrash
  /\ timers # {} \/ candidates # {} \/ \E r \in Runs : dispatch[r] = "sending"
  /\ timers' = {}
  /\ candidates' = {}
  /\ dispatch' = [r \in Runs |->
       IF dispatch[r] = "sending" THEN "orphaned" ELSE dispatch[r]]
  /\ UNCHANGED <<planVars, runVars, approval, due, commands, inbox, worker>>

\* queue_message without the agent's control lease.
queue_message(m) ==
  /\ inbox[m].status = "absent"
  /\ inbox' = [inbox EXCEPT ![m].status = "queued"]
  /\ UNCHANGED <<planVars, runVars, approvalVars, candidates, dispatch, worker>>

-----------------------------------------------------------------------------

\* create_mission_tx: a task without parents starts ready, any other pending.
Init ==
  /\ missionStatus = [m \in Missions |-> "ready"]
  /\ taskStatus = [t \in Tasks |-> IF Deps[t] = {} THEN "ready" ELSE "pending"]
  /\ attempts = [t \in Tasks |-> 0]
  /\ agentStatus = [a \in Agents |-> "idle"]
  /\ currentRun = [a \in Agents |-> NoRun]
  /\ created = 0
  /\ runStatus = [r \in Runs |-> "absent"]
  /\ runTask = [r \in Runs |-> NoTask]
  /\ lineage = [r \in Runs |-> [source |-> NoRun, root |-> NoRun]]
  /\ workspace = [r \in Runs |-> [session |-> FALSE, started |-> FALSE,
                                  heard |-> FALSE, notStarted |-> FALSE,
                                  disposition |-> "null"]]
  /\ verification = [r \in Runs |-> [status |-> "pending", request |-> "none",
                                     evidence |-> [c \in Checks |-> "none"]]]
  /\ breaker = [r \in Runs |-> [stage |-> "none", pressure |-> "none"]]
  /\ approval = [r \in Runs |-> "none"]
  /\ due = {}
  /\ timers = {}
  /\ commands = {}
  /\ artifact = [r \in Runs |-> "none"]
  /\ inbox = [m \in Messages |-> [status |-> "absent", run |-> NoRun]]
  /\ candidates = {}
  /\ dispatch = [r \in Runs |-> "none"]
  /\ worker = [r \in Runs |-> "none"]

SchedulerStep ==
  \/ \E m \in Missions : schedulable_tasks(m)
  \/ \E t \in Tasks : create_task_run(t) \/ CandidateDropped(t)
  \/ \E r \in Runs : CommandSent(r) \/ fail_run_before_dispatch(r)

RunnerStep(r) ==
  \/ run_session(r) \/ run_started(r)
  \/ \E status \in Reported : run_status(r, status)
  \/ run_approval_requested(r)
  \/ \E p \in Pressures : MetricsChange(r, p)
  \/ run_verification_started(r)
  \/ \E c \in Checks, status \in {"passed", "failed"} :
       run_verification_evidence(r, c, status)
  \/ run_verification_passed(r) \/ run_verification_waiting(r)
  \/ run_verification_failed(r)
  \/ run_completed(r) \/ run_failed(r) \/ run_cancelled(r)
  \/ \E kept \in Cleanups : WorkspaceReport(r, kept)
  \/ run_teardown_uncertain(r)
  \/ EventRefused(r)

StoreStep(r) ==
  \/ prepare_artifact_upload(r) \/ finalize_artifact_upload(r)
  \/ \E outcome \in {"rejected", "none"} : DropStagedArtifact(r, outcome)
  \/ evaluate_circuit_breaker(r)
  \/ ApprovalDue(r) \/ ExpiryTimerFires(r)

HumanStep(r) ==
  \/ create_resume_run(r)
  \/ \E verdict \in {"approved", "rejected"} : decide_action_approval(r, verdict)
  \/ DecideExpired(r)
  \/ \E approved \in BOOLEAN : decide_verification(r, approved)

Next ==
  \/ SchedulerStep
  \/ \E r \in Runs : RunnerStep(r) \/ StoreStep(r) \/ HumanStep(r)
  \/ \E lost \in SUBSET Runs : mark_runner_runs_lost(lost)
  \/ ServerRestart
  \/ \E m \in Messages : queue_message(m)

Spec == Init /\ [][Next]_vars

\* tokio runs a due timer; the clock reaches every expires_at.
FairSpec ==
  /\ Spec
  /\ \A r \in Runs : WF_vars(ApprovalDue(r)) /\ WF_vars(ExpiryTimerFires(r))

-----------------------------------------------------------------------------
(* Properties.                                                             *)

\* Every column holds a value of its column's vocabulary.
TypeOK ==
  /\ missionStatus \in [Missions -> MissionStatuses]
  /\ taskStatus \in [Tasks -> TaskStatuses]
  /\ attempts \in [Tasks -> Nat]
  /\ agentStatus \in [Agents -> AgentStatuses]
  /\ currentRun \in [Agents -> RunRef]
  /\ created \in 0 .. MaxRuns
  /\ runStatus \in [Runs -> RunStatuses]
  /\ runTask \in [Runs -> Tasks \cup {NoTask}]
  /\ lineage \in [Runs -> Lineages]
  /\ workspace \in [Runs -> Workspaces]
  /\ verification \in [Runs -> Verifications]
  /\ breaker \in [Runs -> Breakers]
  /\ approval \in [Runs -> Verdicts \cup {"none", "pending"}]
  /\ due \in SUBSET Runs
  /\ timers \in SUBSET Runs
  /\ commands \in SUBSET Commands
  /\ artifact \in [Runs -> {"none", "staged", "ready", "rejected"}]
  /\ inbox \in [Messages -> Notes]
  /\ candidates \in SUBSET Tasks
  /\ dispatch \in [Runs -> {"none", "sending", "sent", "refused", "orphaned"}]
  /\ worker \in [Runs -> Alive \cup {"none", "done", "gone"}]

\* Two workers never run the same task, and an agent never runs two
\* assignments, however scheduling passes, resumes and failures interleave.
OneActiveRun ==
  \A r, s \in Runs :
    Active(r) /\ Active(s) /\ r # s =>
      runTask[r] # runTask[s] /\ Agent(r) # Agent(s)

\* agents.current_run_id never points at a finished run or at a run of
\* another agent.
CurrentRunIsActive ==
  \A a \in Agents : currentRun[a] # NoRun =>
    Active(currentRun[a]) /\ Agent(currentRun[a]) = a

\* A task that claims to be worked on has an active run, so some later event,
\* expiry or loss can still move it.
WorkedTaskHasRun ==
  \A t \in Tasks :
    taskStatus[t] \in {"claimed", "running", "review", "awaiting_approval"} =>
      ActiveRunOf(t)

\* The task of an active run is neither accepted nor open to the scheduler.
ActiveRunHoldsTask ==
  \A r \in Runs : Active(r) =>
    taskStatus[runTask[r]] \in
      {"claimed", "running", "review", "awaiting_approval", "blocked", "cancelled"}

\* Evidence-gated completion: an accepted task has a completed run all of
\* whose checks passed, whose artifact is durable when the policy asks for
\* one, whose manual gate was approved when there is one, and whose breaker
\* never reached a hard stage.
AcceptedTaskHasEvidence ==
  \A t \in Tasks : taskStatus[t] = "completed" =>
    \E r \in RunsOf(t) :
      /\ runStatus[r] = "completed"
      /\ verification[r].status = "passed"
      /\ AllPassed(r)
      /\ t \in NeedsArtifact => artifact[r] = "ready"
      /\ t \in Gated => verification[r].request = "approved"
      /\ ~ breaker_is_hard(breaker[r].stage)

\* A completed mission has nothing left to do and nothing still running.
CompletedMissionIsDone ==
  \A m \in Missions : missionStatus[m] = "completed" =>
    /\ \A t \in TasksOf(m) : taskStatus[t] = "completed"
    /\ \A r \in Runs : Active(r) => Mission(r) # m

\* A worktree's runs form a chain: between a resumed run and its source there
\* are only allocations that never reached a runner.
LineageIsChain ==
  \A r \in Runs : runStatus[r] # "absent" /\ lineage[r].source # NoRun =>
    \A s \in LineageOf(lineage[r].root) :
      lineage[r].source < s /\ s < r => lineage_run_is_pre_dispatch_failure(s)

\* A decided or expired approval has exactly its own verdict queued for the
\* runner, however decision, late decision and timer race.
OneVerdictPerApproval ==
  \A r \in Runs :
    {c.kind : c \in {d \in commands : d.run = r /\ d.kind \in Verdicts}} =
      {approval[r]} \cap Verdicts

\* Every attempt the scheduler spent is one row, and never more than allowed:
\* resumes do not spend attempts and retries do not exceed them.
AttemptsAreRuns ==
  \A t \in Tasks :
    /\ attempts[t] <= MaxAttempts[t]
    /\ attempts[t] = Cardinality({r \in RunsOf(t) : lineage[r].source = NoRun})

\* No late event, expiry, loss or dispatch failure revives a finished run.
TerminalRunIsFinal ==
  [][\A r \in Runs : Terminal(r) => runStatus'[r] = runStatus[r]]_vars

\* An operator's message is not stranded with a run whose runner was lost or
\* that was never dispatched: whatever the order of loss, dispatch failure and
\* late events, it is back in the queue for the next prompt, or delivered.
ReservedMessageIsOwed ==
  \A m \in Messages : inbox[m].status = "reserved" =>
    /\ runStatus[inbox[m].run] # "lost"
    /\ ~ workspace[inbox[m].run].notStarted

\* A fresh (not resumed) run starts only when every parent task is accepted,
\* even if the candidate list it came from is old.
FreshRunAfterParents ==
  [][created' # created /\ lineage'[created'].source = NoRun =>
       \A p \in Deps[runTask'[created']] : taskStatus[p] = "completed"]_vars

Assignments ==
  INSTANCE Assignment WITH
    task <- runTask,
    outcome <- [r \in Runs |-> IF Active(r) THEN "live" ELSE runStatus[r]]

\* The runs implement Assignment: however dispatch, events, expiry, decisions,
\* losses and restarts interleave, a transaction of the store makes one
\* assignment over no live one, ends live ones, or changes neither.
ImplementsAssignment == Assignments!Spec

\* A due approval is resolved without anybody deciding it.
ExpiryIsAutomatic ==
  \A r \in Runs : (approval[r] = "pending" /\ r \in due) ~> (approval[r] # "pending")

\* The rows that different transactions write agree, however retries, resumes,
\* late events, decisions, expiries and losses interleave: agents, tasks and runs
\* on who works on what, the mission on what is left, the approval on the verdict
\* that is queued, the lineage and the attempt count on the runs there were, and
\* the inbox on what a run still owes.
RowsAgree ==
  /\ TypeOK /\ CurrentRunIsActive /\ WorkedTaskHasRun /\ ActiveRunHoldsTask
  /\ CompletedMissionIsDone /\ OneVerdictPerApproval
  /\ LineageIsChain /\ AttemptsAreRuns /\ ReservedMessageIsOwed
=============================================================================
