------------------------- MODULE RunLifecycleProofs -------------------------
(***************************************************************************)
(* Theorems about RunLifecycle for every set of missions, tasks, agents,   *)
(* messages and checks, every task graph and any bound on the runs.        *)
(* The second half relates the runs to the tasks, missions, agents,        *)
(* approvals, messages and verification columns that other transactions    *)
(* write: each part first says what a step can do to its rows, action by   *)
(* action, and then argues about that summary alone.                       *)
(***************************************************************************)
EXTENDS RunLifecycle, FiniteSetTheorems, TLAPS

USE RunsAssumption, GraphAssumption DEF Runs, NoRun, RunRef

\* Replacing one row keeps the type of a table.
LEMMA RowUpdate ==
  ASSUME NEW S, NEW T, NEW f \in [S -> T], NEW x, NEW row \in T
  PROVE  [f EXCEPT ![x] = row] \in [S -> T]
OBVIOUS

\* The empty tables are well typed.
LEMMA InitTypeOK == Init => TypeOK
BY DEF Init, TypeOK, MissionStatuses, TaskStatuses, AgentStatuses, RunStatuses,
       Stages, Dispositions, Lineages, Workspaces, Verifications, Breakers, Notes

\* Every transaction writes values of the columns' vocabularies.
LEMMA NextTypeOK == TypeOK /\ [Next]_vars => TypeOK'
<1> SUFFICES ASSUME TypeOK, [Next]_vars PROVE TypeOK'
  OBVIOUS
<1> USE DEF planVars, runVars, approvalVars, storeVars, serverVars
<1>M. missionStatus \in [Missions -> MissionStatuses]
  BY DEF TypeOK
<1>K. taskStatus \in [Tasks -> TaskStatuses]
  BY DEF TypeOK
<1>A. agentStatus \in [Agents -> AgentStatuses]
  BY DEF TypeOK
<1>P. currentRun \in [Agents -> RunRef]
  BY DEF TypeOK
<1>R. runStatus \in [Runs -> RunStatuses]
  BY DEF TypeOK
<1>W. workspace \in [Runs -> Workspaces]
  BY DEF TypeOK
<1>V. verification \in [Runs -> Verifications]
  BY DEF TypeOK
<1>L. lineage \in [Runs -> Lineages]
  BY DEF TypeOK
<1>B. breaker \in [Runs -> Breakers]
  BY DEF TypeOK
<1>I. inbox \in [Messages -> Notes]
  BY DEF TypeOK
<1>C. commands \in SUBSET Commands
  BY DEF TypeOK
<1>Q. approval \in [Runs -> Verdicts \cup {"none", "pending"}]
  BY DEF TypeOK
<1>Z. worker \in [Runs -> Alive \cup {"none", "done", "gone"}]
  BY DEF TypeOK
<1>N. attempts \in [Tasks -> Nat]
  BY DEF TypeOK
<1>X. created \in 0 .. MaxRuns /\ runTask \in [Runs -> Tasks \cup {NoTask}]
  BY DEF TypeOK
<1>D. dispatch \in [Runs -> {"none", "sending", "sent", "refused", "orphaned"}]
  BY DEF TypeOK
<1>1. ASSUME NEW m \in Missions, schedulable_tasks(m) PROVE TypeOK'
  BY <1>1 DEF TypeOK, schedulable_tasks, TasksOf
<1>2. ASSUME NEW t \in Tasks, create_task_run(t) PROVE TypeOK'
  <2>1. created' \in 0 .. MaxRuns /\ runTask' \in [Runs -> Tasks \cup
     {NoTask}]
    BY <1>2, <1>X DEF create_task_run, InsertRun
  <2>2. runStatus' \in [Runs -> RunStatuses]
    BY <1>2, <1>R DEF create_task_run, InsertRun, RunStatuses, ActiveStatuses,
       TerminalStatuses
  <2>3. lineage' \in [Runs -> Lineages]
    BY <1>2, <1>L, <1>X DEF create_task_run, InsertRun, Lineages
  <2>4. created + 1 \in Runs
    BY <1>2 DEF create_task_run
  <2>5. workspace[created + 1] \in Workspaces
    BY <1>W, <2>4
  <2>6. ASSUME NEW w \in Workspaces PROVE [w EXCEPT !.session = FALSE] \in
     Workspaces
    BY DEF Workspaces
  <2>7. workspace' \in [Runs -> Workspaces]
    BY <1>2, <1>W, <2>5, <2>6, RowUpdate DEF create_task_run, InsertRun
  <2>8. dispatch' \in [Runs -> {"none", "sending", "sent", "refused",
     "orphaned"}]
    BY <1>2, <1>D DEF create_task_run, InsertRun
  <2>9. inbox' \in [Messages -> Notes]
    BY <1>2, <1>I DEF create_task_run, InsertRun, reserve_queued_messages,
       Notes
  <2>10. agentStatus' \in [Agents -> AgentStatuses]
    BY <1>2, <1>A DEF create_task_run, InsertRun, AgentStatuses
  <2>11. currentRun' \in [Agents -> RunRef]
    BY <1>2, <1>P DEF create_task_run, InsertRun
  <2>12. missionStatus' \in [Missions -> MissionStatuses]
    BY <1>2, <1>M DEF create_task_run, OpenMissionBecomes, MissionStatuses
  <2>13. taskStatus' \in [Tasks -> TaskStatuses]
    BY <1>2, <1>K DEF create_task_run, TaskStatuses
  <2>14. attempts' \in [Tasks -> Nat]
    BY <1>2, <1>N DEF create_task_run, CountAttempt
  <2> QED BY <1>2, <2>1, <2>2, <2>3, <2>7, <2>8, <2>9, <2>10, <2>11, <2>12,
     <2>13, <2>14 DEF TypeOK, create_task_run, InsertRun
<1>3. ASSUME NEW t \in Tasks, CandidateDropped(t) PROVE TypeOK'
  BY <1>3 DEF TypeOK, CandidateDropped
<1>4. ASSUME NEW r \in Runs, CommandSent(r) PROVE TypeOK'
  BY <1>4 DEF TypeOK, CommandSent, Alive
<1>5. ASSUME NEW r \in Runs, fail_run_before_dispatch(r) PROVE TypeOK'
  <2>1. runStatus' \in [Runs -> RunStatuses]
    BY <1>5, <1>R DEF fail_run_before_dispatch, RunStatuses, ActiveStatuses,
       TerminalStatuses
  <2>2. [workspace[r] EXCEPT !.notStarted = TRUE] \in Workspaces
    BY <1>W DEF Workspaces, Dispositions
  <2>3. workspace' \in [Runs -> Workspaces]
    BY <1>5, <1>W, <2>2, RowUpdate DEF fail_run_before_dispatch
  <2>4. inbox' \in [Messages -> Notes]
    BY <1>5, <1>I DEF fail_run_before_dispatch, RequeueReserved, Notes
  <2>5. taskStatus' \in [Tasks -> TaskStatuses]
    BY <1>5, <1>K DEF fail_run_before_dispatch, TaskStatuses
  <2>6. missionStatus' \in [Missions -> MissionStatuses]
    BY <1>5, <1>M DEF fail_run_before_dispatch, MissionStatuses
  <2>7. agentStatus' \in [Agents -> AgentStatuses]
    BY <1>5, <1>A DEF fail_run_before_dispatch, ReleaseAgentIfCurrent,
       ReleaseAgent, AgentStatuses
  <2>8. currentRun' \in [Agents -> RunRef]
    BY <1>5, <1>P DEF fail_run_before_dispatch, ReleaseAgentIfCurrent,
       ReleaseAgent
  <2>9. dispatch' \in [Runs -> {"none", "sending", "sent", "refused",
     "orphaned"}]
    BY <1>5, <1>D DEF fail_run_before_dispatch
  <2> QED BY <1>5, <2>1, <2>3, <2>4, <2>5, <2>6, <2>7, <2>8, <2>9 DEF TypeOK,
     fail_run_before_dispatch
<1>6. ASSUME NEW r \in Runs, create_resume_run(r) PROVE TypeOK'
  <2>1. created' \in 0 .. MaxRuns /\ runTask' \in [Runs -> Tasks \cup
     {NoTask}]
    BY <1>6, <1>X DEF create_resume_run, InsertRun, Resumable
  <2>2. runStatus' \in [Runs -> RunStatuses]
    BY <1>6, <1>R DEF create_resume_run, InsertRun, RunStatuses,
       ActiveStatuses, TerminalStatuses
  <2>3. lineage' \in [Runs -> Lineages]
    BY <1>6, <1>L, <1>X DEF create_resume_run, InsertRun, Resumable, Lineages
  <2>4. created + 1 \in Runs
    BY <1>6 DEF create_resume_run
  <2>5. workspace[created + 1] \in Workspaces
    BY <1>W, <2>4
  <2>6. ASSUME NEW w \in Workspaces PROVE [w EXCEPT !.session = TRUE] \in
     Workspaces
    BY DEF Workspaces
  <2>7. workspace' \in [Runs -> Workspaces]
    BY <1>6, <1>W, <2>5, <2>6, RowUpdate DEF create_resume_run, InsertRun
  <2>8. dispatch' \in [Runs -> {"none", "sending", "sent", "refused",
     "orphaned"}]
    BY <1>6, <1>D DEF create_resume_run, InsertRun
  <2>9. inbox' \in [Messages -> Notes]
    BY <1>6, <1>I DEF create_resume_run, InsertRun, reserve_queued_messages,
       Notes
  <2>10. agentStatus' \in [Agents -> AgentStatuses]
    BY <1>6, <1>A DEF create_resume_run, InsertRun, AgentStatuses
  <2>11. currentRun' \in [Agents -> RunRef]
    BY <1>6, <1>P DEF create_resume_run, InsertRun
  <2>12. missionStatus' \in [Missions -> MissionStatuses]
    BY <1>6, <1>M DEF create_resume_run, ReopenMission, MissionStatuses
  <2>13. taskStatus' \in [Tasks -> TaskStatuses]
    BY <1>6, <1>K DEF create_resume_run, TaskStatuses
  <2> QED BY <1>6, <2>1, <2>2, <2>3, <2>7, <2>8, <2>9, <2>10, <2>11, <2>12,
     <2>13 DEF TypeOK, create_resume_run, InsertRun
<1>7. ASSUME NEW r \in Runs, run_session(r) PROVE TypeOK'
  <2>1. [workspace[r] EXCEPT !.session = TRUE, !.heard = TRUE] \in Workspaces
    BY <1>W DEF Workspaces, Dispositions
  <2>2. workspace' \in [Runs -> Workspaces]
    BY <1>7, <1>W, <2>1, RowUpdate DEF run_session
  <2> QED BY <1>7, <2>2 DEF TypeOK, run_session
<1>8. ASSUME NEW r \in Runs, run_started(r) PROVE TypeOK'
  <2>1. [workspace[r] EXCEPT !.started = TRUE, !.heard = TRUE, !.disposition =
     "active", !.notStarted = FALSE] \in Workspaces
    BY <1>W DEF Workspaces, Dispositions
  <2>2. workspace' \in [Runs -> Workspaces]
    BY <1>8, <1>W, <2>1, RowUpdate DEF run_started
  <2>3. inbox' \in [Messages -> Notes]
    BY <1>8, <1>I DEF run_started, Notes
  <2>4. runStatus' \in [Runs -> RunStatuses]
    BY <1>8, <1>R DEF run_started, SetRun, RunStatuses, ActiveStatuses,
       TerminalStatuses
  <2>5. taskStatus' \in [Tasks -> TaskStatuses]
    BY <1>8, <1>K DEF run_started, SetTask, TaskStatuses
  <2>6. agentStatus' \in [Agents -> AgentStatuses]
    BY <1>8, <1>A DEF run_started, SetAgent, AgentStatuses
  <2>7. worker' \in [Runs -> Alive \cup {"none", "done", "gone"}]
    BY <1>8, <1>Z DEF run_started, Emits, Alive
  <2> QED BY <1>8, <2>2, <2>3, <2>4, <2>5, <2>6, <2>7 DEF TypeOK, run_started
<1>9. ASSUME NEW r \in Runs, NEW status \in Reported, run_status(r, status)
   PROVE TypeOK'
  <2>1. runStatus' \in [Runs -> RunStatuses]
    BY <1>9, <1>R DEF run_status, RunStatuses, ActiveStatuses,
       TerminalStatuses
  <2>2. taskStatus' \in [Tasks -> TaskStatuses]
    BY <1>9, <1>K DEF run_status, TaskStatuses
  <2>3. agentStatus' \in [Agents -> AgentStatuses]
    BY <1>9, <1>A DEF run_status, SetAgent, AgentStatuses
  <2> QED BY <1>9, <2>1, <2>2, <2>3 DEF TypeOK, run_status
<1>10. ASSUME NEW r \in Runs, run_approval_requested(r) PROVE TypeOK'
  <2>1. approval' \in [Runs -> Verdicts \cup {"none", "pending"}]
    BY <1>10, <1>Q DEF run_approval_requested, Verdicts
  <2>2. runStatus' \in [Runs -> RunStatuses]
    BY <1>10, <1>R DEF run_approval_requested, SetRun, RunStatuses,
       ActiveStatuses, TerminalStatuses
  <2>3. taskStatus' \in [Tasks -> TaskStatuses]
    BY <1>10, <1>K DEF run_approval_requested, SetTask, TaskStatuses
  <2>4. agentStatus' \in [Agents -> AgentStatuses]
    BY <1>10, <1>A DEF run_approval_requested, SetAgent, AgentStatuses
  <2> QED BY <1>10, <2>1, <2>2, <2>3, <2>4 DEF TypeOK, run_approval_requested,
     ArmTimer
<1>11. ASSUME NEW r \in Runs, NEW p \in Pressures, MetricsChange(r, p) PROVE
   TypeOK'
  <2>1. [breaker[r] EXCEPT !.pressure = p] \in Breakers
    BY <1>B DEF Breakers, Stages
  <2>2. breaker' \in [Runs -> Breakers]
    BY <1>11, <1>B, <2>1, RowUpdate DEF MetricsChange
  <2> QED BY <1>11, <2>2 DEF TypeOK, MetricsChange
<1>12. ASSUME NEW r \in Runs, run_verification_started(r) PROVE TypeOK'
  <2>1. [verification[r] EXCEPT !.status = "running"] \in Verifications
    BY <1>V DEF Verifications
  <2>2. verification' \in [Runs -> Verifications]
    BY <1>12, <1>V, <2>1, RowUpdate DEF run_verification_started
  <2>3. runStatus' \in [Runs -> RunStatuses]
    BY <1>12, <1>R DEF run_verification_started, SetRun, RunStatuses,
       ActiveStatuses, TerminalStatuses
  <2>4. taskStatus' \in [Tasks -> TaskStatuses]
    BY <1>12, <1>K DEF run_verification_started, SetTask, TaskStatuses
  <2>5. agentStatus' \in [Agents -> AgentStatuses]
    BY <1>12, <1>A DEF run_verification_started, SetAgent, AgentStatuses
  <2>6. worker' \in [Runs -> Alive \cup {"none", "done", "gone"}]
    BY <1>12, <1>Z DEF run_verification_started, Emits, Alive
  <2> QED BY <1>12, <2>2, <2>3, <2>4, <2>5, <2>6 DEF TypeOK,
     run_verification_started
<1>13. ASSUME NEW r \in Runs, NEW c \in Checks, NEW status \in {"passed",
   "failed"}, run_verification_evidence(r, c, status) PROVE TypeOK'
  <2>1. [verification[r] EXCEPT !.evidence[c] = status] \in Verifications
    BY <1>V DEF Verifications
  <2>2. verification' \in [Runs -> Verifications]
    BY <1>13, <1>V, <2>1, RowUpdate DEF run_verification_evidence
  <2> QED BY <1>13, <2>2 DEF TypeOK, run_verification_evidence
<1>14. ASSUME NEW r \in Runs, run_verification_passed(r) PROVE TypeOK'
  <2>1. [verification[r] EXCEPT !.status = "passed"] \in Verifications
    BY <1>V DEF Verifications
  <2>2. verification' \in [Runs -> Verifications]
    BY <1>14, <1>V, <2>1, RowUpdate DEF run_verification_passed
  <2>3. worker' \in [Runs -> Alive \cup {"none", "done", "gone"}]
    BY <1>14, <1>Z DEF run_verification_passed, Emits, Alive
  <2> QED BY <1>14, <2>2, <2>3 DEF TypeOK, run_verification_passed
<1>15. ASSUME NEW r \in Runs, run_verification_waiting(r) PROVE TypeOK'
  <2>1. [verification[r] EXCEPT !.request = "pending", !.status =
     "waiting_for_approval"] \in Verifications
    BY <1>V DEF Verifications
  <2>2. verification' \in [Runs -> Verifications]
    BY <1>15, <1>V, <2>1, RowUpdate DEF run_verification_waiting
  <2>3. runStatus' \in [Runs -> RunStatuses]
    BY <1>15, <1>R DEF run_verification_waiting, SetRun, RunStatuses,
       ActiveStatuses, TerminalStatuses
  <2>4. taskStatus' \in [Tasks -> TaskStatuses]
    BY <1>15, <1>K DEF run_verification_waiting, SetTask, TaskStatuses
  <2>5. agentStatus' \in [Agents -> AgentStatuses]
    BY <1>15, <1>A DEF run_verification_waiting, SetAgent, AgentStatuses
  <2>6. worker' \in [Runs -> Alive \cup {"none", "done", "gone"}]
    BY <1>15, <1>Z DEF run_verification_waiting, Emits, Alive
  <2> QED BY <1>15, <2>2, <2>3, <2>4, <2>5, <2>6 DEF TypeOK,
     run_verification_waiting
<1>16. ASSUME NEW r \in Runs, run_verification_failed(r) PROVE TypeOK'
  <2>1. [verification[r] EXCEPT !.status = "failed"] \in Verifications
    BY <1>V DEF Verifications
  <2>2. verification' \in [Runs -> Verifications]
    BY <1>16, <1>V, <2>1, RowUpdate DEF run_verification_failed
  <2>3. runStatus' \in [Runs -> RunStatuses]
    BY <1>16, <1>R DEF run_verification_failed, RejectWork, SetRun,
       RunStatuses, ActiveStatuses, TerminalStatuses
  <2>4. taskStatus' \in [Tasks -> TaskStatuses]
    BY <1>16, <1>K DEF run_verification_failed, RejectWork, SetTask,
       TaskStatuses
  <2>5. missionStatus' \in [Missions -> MissionStatuses]
    BY <1>16, <1>M DEF run_verification_failed, RejectWork,
       OpenMissionBecomes, MissionStatuses
  <2>6. agentStatus' \in [Agents -> AgentStatuses]
    BY <1>16, <1>A DEF run_verification_failed, RejectWork, ReleaseAgent,
       AgentStatuses
  <2>7. currentRun' \in [Agents -> RunRef]
    BY <1>16, <1>P DEF run_verification_failed, RejectWork, ReleaseAgent
  <2>8. worker' \in [Runs -> Alive \cup {"none", "done", "gone"}]
    BY <1>16, <1>Z DEF run_verification_failed, Emits, Alive
  <2> QED BY <1>16, <2>2, <2>3, <2>4, <2>5, <2>6, <2>7, <2>8 DEF TypeOK,
     run_verification_failed
<1>17. ASSUME NEW r \in Runs, run_completed(r) PROVE TypeOK'
  <2>1. runStatus' \in [Runs -> RunStatuses]
    BY <1>17, <1>R DEF run_completed, SetRun, RunStatuses, ActiveStatuses,
       TerminalStatuses
  <2>2. taskStatus' \in [Tasks -> TaskStatuses]
    BY <1>17, <1>K DEF run_completed, CompleteTask, ReadyChildren,
       TaskStatuses
  <2>3. missionStatus' \in [Missions -> MissionStatuses]
    BY <1>17, <1>M DEF run_completed, CompleteTask, OpenMissionBecomes,
       MissionStatuses
  <2>4. agentStatus' \in [Agents -> AgentStatuses]
    BY <1>17, <1>A DEF run_completed, ReleaseAgent, AgentStatuses
  <2>5. currentRun' \in [Agents -> RunRef]
    BY <1>17, <1>P DEF run_completed, ReleaseAgent
  <2>6. worker' \in [Runs -> Alive \cup {"none", "done", "gone"}]
    BY <1>17, <1>Z DEF run_completed, Emits, Alive
  <2> QED BY <1>17, <2>1, <2>2, <2>3, <2>4, <2>5, <2>6 DEF TypeOK,
     run_completed
<1>18. ASSUME NEW r \in Runs, run_failed(r) PROVE TypeOK'
  <2>1. runStatus' \in [Runs -> RunStatuses]
    BY <1>18, <1>R DEF run_failed, SetRun, RunStatuses, ActiveStatuses,
       TerminalStatuses
  <2>2. taskStatus' \in [Tasks -> TaskStatuses]
    BY <1>18, <1>K DEF run_failed, SetTask, TaskStatuses
  <2>3. missionStatus' \in [Missions -> MissionStatuses]
    BY <1>18, <1>M DEF run_failed, OpenMissionBecomes, MissionStatuses
  <2>4. agentStatus' \in [Agents -> AgentStatuses]
    BY <1>18, <1>A DEF run_failed, release_failed_run_agent, ReleaseAgent,
       AgentStatuses
  <2>5. currentRun' \in [Agents -> RunRef]
    BY <1>18, <1>P DEF run_failed, release_failed_run_agent, ReleaseAgent
  <2>6. worker' \in [Runs -> Alive \cup {"none", "done", "gone"}]
    BY <1>18, <1>Z DEF run_failed, Emits, Alive
  <2> QED BY <1>18, <2>1, <2>2, <2>3, <2>4, <2>5, <2>6 DEF TypeOK, run_failed
<1>19. ASSUME NEW r \in Runs, run_cancelled(r) PROVE TypeOK'
  <2>1. runStatus' \in [Runs -> RunStatuses]
    BY <1>19, <1>R DEF run_cancelled, SetRun, RunStatuses, ActiveStatuses,
       TerminalStatuses
  <2>2. taskStatus' \in [Tasks -> TaskStatuses]
    BY <1>19, <1>K DEF run_cancelled, SetTask, TaskStatuses
  <2>3. missionStatus' \in [Missions -> MissionStatuses]
    BY <1>19, <1>M DEF run_cancelled, MissionStatuses
  <2>4. agentStatus' \in [Agents -> AgentStatuses]
    BY <1>19, <1>A DEF run_cancelled, ReleaseAgent, AgentStatuses
  <2>5. currentRun' \in [Agents -> RunRef]
    BY <1>19, <1>P DEF run_cancelled, ReleaseAgent
  <2>6. worker' \in [Runs -> Alive \cup {"none", "done", "gone"}]
    BY <1>19, <1>Z DEF run_cancelled, Emits, Alive
  <2> QED BY <1>19, <2>1, <2>2, <2>3, <2>4, <2>5, <2>6 DEF TypeOK,
     run_cancelled
<1>20. ASSUME NEW r \in Runs, NEW kept \in Cleanups, WorkspaceReport(r, kept)
   PROVE TypeOK'
  <2>1. [workspace[r] EXCEPT !.disposition = Retained(r, kept), !.notStarted =
     FALSE] \in Workspaces
    BY <1>W DEF Workspaces, Dispositions, Retained
  <2>2. workspace' \in [Runs -> Workspaces]
    BY <1>20, <1>W, <2>1, RowUpdate DEF WorkspaceReport
  <2>3. worker' \in [Runs -> Alive \cup {"none", "done", "gone"}]
    BY <1>20, <1>Z DEF WorkspaceReport, Emits, Alive
  <2> QED BY <1>20, <2>2, <2>3 DEF TypeOK, WorkspaceReport
<1>21. ASSUME NEW r \in Runs, run_teardown_uncertain(r) PROVE TypeOK'
  <2>1. [workspace[r] EXCEPT !.disposition = Retained(r, "preserved"),
     !.notStarted = FALSE] \in Workspaces
    BY <1>W DEF Workspaces, Dispositions, Retained
  <2>2. workspace' \in [Runs -> Workspaces]
    BY <1>21, <1>W, <2>1, RowUpdate DEF run_teardown_uncertain
  <2> QED BY <1>21, <2>2 DEF TypeOK, run_teardown_uncertain
<1>22. ASSUME NEW r \in Runs, EventRefused(r) PROVE TypeOK'
  <2>1. worker' \in [Runs -> Alive \cup {"none", "done", "gone"}]
    BY <1>22, <1>Z DEF EventRefused, Emits, Alive
  <2> QED BY <1>22, <2>1 DEF TypeOK, EventRefused
<1>23. ASSUME NEW r \in Runs, prepare_artifact_upload(r) PROVE TypeOK'
  BY <1>23 DEF TypeOK, prepare_artifact_upload
<1>24. ASSUME NEW r \in Runs, finalize_artifact_upload(r) PROVE TypeOK'
  <2>1. runStatus' \in [Runs -> RunStatuses]
    BY <1>24, <1>R DEF finalize_artifact_upload, SetRun, RunStatuses,
       ActiveStatuses, TerminalStatuses
  <2>2. taskStatus' \in [Tasks -> TaskStatuses]
    BY <1>24, <1>K DEF finalize_artifact_upload, SetTask, TaskStatuses
  <2>3. agentStatus' \in [Agents -> AgentStatuses]
    BY <1>24, <1>A DEF finalize_artifact_upload, SetAgent, AgentStatuses
  <2>4. currentRun' \in [Agents -> RunRef]
    BY <1>24, <1>P DEF finalize_artifact_upload
  <2> QED BY <1>24, <2>1, <2>2, <2>3, <2>4 DEF TypeOK,
     finalize_artifact_upload
<1>25. ASSUME NEW r \in Runs, NEW outcome \in {"rejected", "none"},
   DropStagedArtifact(r, outcome) PROVE TypeOK'
  BY <1>25 DEF TypeOK, DropStagedArtifact
<1>26. ASSUME NEW r \in Runs, evaluate_circuit_breaker(r) PROVE TypeOK'
  <2>1. [breaker[r] EXCEPT !.stage = breaker[r].pressure] \in Breakers
    BY <1>B DEF Breakers, Stages
  <2>2. breaker' \in [Runs -> Breakers]
    BY <1>26, <1>B, <2>1, RowUpdate DEF evaluate_circuit_breaker
  <2>3. commands' \in SUBSET Commands
    BY <1>26, <1>C, <1>B DEF evaluate_circuit_breaker, Breakers, Commands,
       Stages, Verdicts
  <2>4. runStatus' \in [Runs -> RunStatuses]
    BY <1>26, <1>R DEF evaluate_circuit_breaker, RunStatuses, ActiveStatuses,
       TerminalStatuses
  <2>5. taskStatus' \in [Tasks -> TaskStatuses]
    BY <1>26, <1>K DEF evaluate_circuit_breaker, TaskStatuses
  <2> QED BY <1>26, <2>2, <2>3, <2>4, <2>5 DEF TypeOK,
     evaluate_circuit_breaker
<1>27. ASSUME NEW r \in Runs, ApprovalDue(r) PROVE TypeOK'
  BY <1>27 DEF TypeOK, ApprovalDue
<1>28. ASSUME NEW r \in Runs, ExpiryTimerFires(r) PROVE TypeOK'
  <2>1. approval' \in [Runs -> Verdicts \cup {"none", "pending"}]
    BY <1>28, <1>Q DEF ExpiryTimerFires, expire_action_approval, Verdicts
  <2>2. commands' \in SUBSET Commands
    BY <1>28, <1>C, <1>B DEF ExpiryTimerFires, expire_action_approval,
       Commands, Stages, Verdicts
  <2>3. runStatus' \in [Runs -> RunStatuses]
    BY <1>28, <1>R DEF ExpiryTimerFires, expire_action_approval,
       CancelWaitingRun, RunStatuses, ActiveStatuses, TerminalStatuses
  <2>4. taskStatus' \in [Tasks -> TaskStatuses]
    BY <1>28, <1>K DEF ExpiryTimerFires, expire_action_approval,
       CancelWaitingTask, TaskStatuses
  <2>5. missionStatus' \in [Missions -> MissionStatuses]
    BY <1>28, <1>M DEF ExpiryTimerFires, expire_action_approval,
       MissionStatuses
  <2>6. agentStatus' \in [Agents -> AgentStatuses]
    BY <1>28, <1>A DEF ExpiryTimerFires, expire_action_approval,
       ReleaseAgentIfCurrent, ReleaseAgent, AgentStatuses
  <2>7. currentRun' \in [Agents -> RunRef]
    BY <1>28, <1>P DEF ExpiryTimerFires, expire_action_approval,
       ReleaseAgentIfCurrent, ReleaseAgent
  <2> QED BY <1>28, <2>1, <2>2, <2>3, <2>4, <2>5, <2>6, <2>7 DEF TypeOK,
     ExpiryTimerFires, expire_action_approval
<1>29. ASSUME NEW r \in Runs, NEW verdict \in {"approved", "rejected"},
   decide_action_approval(r, verdict) PROVE TypeOK'
  <2>1. commands' \in SUBSET Commands
    BY <1>29, <1>C, <1>B DEF decide_action_approval, Commands, Stages,
       Verdicts
  <2>2. approval' \in [Runs -> Verdicts \cup {"none", "pending"}]
    BY <1>29, <1>Q DEF decide_action_approval, Verdicts
  <2> QED BY <1>29, <2>1, <2>2 DEF TypeOK, decide_action_approval
<1>30. ASSUME NEW r \in Runs, DecideExpired(r) PROVE TypeOK'
  <2>1. approval' \in [Runs -> Verdicts \cup {"none", "pending"}]
    BY <1>30, <1>Q DEF DecideExpired, expire_action_approval, Verdicts
  <2>2. commands' \in SUBSET Commands
    BY <1>30, <1>C, <1>B DEF DecideExpired, expire_action_approval, Commands,
       Stages, Verdicts
  <2>3. runStatus' \in [Runs -> RunStatuses]
    BY <1>30, <1>R DEF DecideExpired, expire_action_approval,
       CancelWaitingRun, RunStatuses, ActiveStatuses, TerminalStatuses
  <2>4. taskStatus' \in [Tasks -> TaskStatuses]
    BY <1>30, <1>K DEF DecideExpired, expire_action_approval,
       CancelWaitingTask, TaskStatuses
  <2>5. missionStatus' \in [Missions -> MissionStatuses]
    BY <1>30, <1>M DEF DecideExpired, expire_action_approval, MissionStatuses
  <2>6. agentStatus' \in [Agents -> AgentStatuses]
    BY <1>30, <1>A DEF DecideExpired, expire_action_approval,
       ReleaseAgentIfCurrent, ReleaseAgent, AgentStatuses
  <2>7. currentRun' \in [Agents -> RunRef]
    BY <1>30, <1>P DEF DecideExpired, expire_action_approval,
       ReleaseAgentIfCurrent, ReleaseAgent
  <2> QED BY <1>30, <2>1, <2>2, <2>3, <2>4, <2>5, <2>6, <2>7 DEF TypeOK,
     DecideExpired, expire_action_approval
<1>31. ASSUME NEW r \in Runs, NEW approved \in BOOLEAN, decide_verification(r,
   approved) PROVE TypeOK'
  <2>1. [verification[r] EXCEPT !.request = "approved", !.status = "passed"]
     \in Verifications
    BY <1>V DEF Verifications
  <2>2. [verification[r] EXCEPT !.request = "rejected", !.status = "failed"]
     \in Verifications
    BY <1>V DEF Verifications
  <2>3. verification' \in [Runs -> Verifications]
    BY <1>31, <1>V, <2>1, <2>2, RowUpdate DEF decide_verification
  <2>4. runStatus' \in [Runs -> RunStatuses]
    BY <1>31, <1>R DEF decide_verification, RejectWork, SetRun, RunStatuses,
       ActiveStatuses, TerminalStatuses
  <2>5. taskStatus' \in [Tasks -> TaskStatuses]
    BY <1>31, <1>K DEF decide_verification, RejectWork, SetTask, CompleteTask,
       ReadyChildren, TaskStatuses
  <2>6. missionStatus' \in [Missions -> MissionStatuses]
    BY <1>31, <1>M DEF decide_verification, RejectWork, CompleteTask,
       OpenMissionBecomes, MissionStatuses
  <2>7. agentStatus' \in [Agents -> AgentStatuses]
    BY <1>31, <1>A DEF decide_verification, RejectWork, ReleaseAgent,
       AgentStatuses
  <2>8. currentRun' \in [Agents -> RunRef]
    BY <1>31, <1>P DEF decide_verification, RejectWork, ReleaseAgent
  <2> QED BY <1>31, <2>3, <2>4, <2>5, <2>6, <2>7, <2>8 DEF TypeOK,
     decide_verification
<1>32. ASSUME NEW lost \in SUBSET Runs, mark_runner_runs_lost(lost) PROVE
   TypeOK'
  <2>1. inbox' \in [Messages -> Notes]
    BY <1>32, <1>I DEF mark_runner_runs_lost, RequeueReserved, Notes
  <2>2. runStatus' \in [Runs -> RunStatuses]
    BY <1>32, <1>R DEF mark_runner_runs_lost, RunStatuses, ActiveStatuses,
       TerminalStatuses
  <2>3. taskStatus' \in [Tasks -> TaskStatuses]
    BY <1>32, <1>K DEF mark_runner_runs_lost, BlockTasks, TaskStatuses
  <2>4. missionStatus' \in [Missions -> MissionStatuses]
    BY <1>32, <1>M DEF mark_runner_runs_lost, MissionStatuses
  <2>5. agentStatus' \in [Agents -> AgentStatuses]
    BY <1>32, <1>A DEF mark_runner_runs_lost, AgentStatuses
  <2>6. currentRun' \in [Agents -> RunRef]
    BY <1>32, <1>P DEF mark_runner_runs_lost
  <2> QED BY <1>32, <2>1, <2>2, <2>3, <2>4, <2>5, <2>6 DEF TypeOK,
     mark_runner_runs_lost
<1>33. ASSUME ServerRestart PROVE TypeOK'
  BY <1>33 DEF TypeOK, ServerRestart
<1>34. ASSUME NEW m \in Messages, queue_message(m) PROVE TypeOK'
  <2>1. inbox' \in [Messages -> Notes]
    BY <1>34, <1>I DEF queue_message, Notes
  <2> QED BY <1>34, <2>1 DEF TypeOK, queue_message
<1>35. CASE UNCHANGED vars
  BY <1>35 DEF vars, TypeOK
<1> QED BY <1>1, <1>2, <1>3, <1>4, <1>5, <1>6, <1>7, <1>8, <1>9, <1>10, <1>11,
   <1>12, <1>13, <1>14, <1>15, <1>16, <1>17, <1>18, <1>19, <1>20, <1>21,
   <1>22, <1>23, <1>24, <1>25, <1>26, <1>27, <1>28, <1>29, <1>30, <1>31,
   <1>32, <1>33, <1>34, <1>35 DEF Next, SchedulerStep, RunnerStep, StoreStep,
   HumanStep

\* The columns stay in their vocabularies whatever transactions interleave.
THEOREM TypeCorrect == Spec => []TypeOK
BY InitTypeOK, NextTypeOK, PTL DEF Spec

-----------------------------------------------------------------------------
(* What a step does to the runs table.                                     *)

\* The ids in use are the ones up to the counter, and their tasks exist.
RowsAreDense ==
  \A r \in Runs :
    /\ runStatus[r] = "absent" <=> r > created
    /\ runStatus[r] # "absent" => runTask[r] \in Tasks

\* A new row for a task nobody works on, by an agent nobody occupies.
Allocates(t) ==
  /\ created + 1 \in Runs
  /\ Unclaimed(t)
  /\ created' = created + 1
  /\ runTask' = [runTask EXCEPT ![created + 1] = t]
  /\ runStatus' = [runStatus EXCEPT ![created + 1] = "starting"]

\* Active runs end, all in the same way.
Finishes(rs, end) ==
  /\ rs # {}
  /\ \A r \in rs : Active(r)
  /\ runStatus' = [r \in Runs |-> IF r \in rs THEN end ELSE runStatus[r]]
  /\ UNCHANGED <<created, runTask>>

\* Active runs move between active statuses and the others stay.
Continues ==
  /\ UNCHANGED <<created, runTask>>
  /\ \A r \in Runs :
       \/ runStatus'[r] = runStatus[r]
       \/ Active(r) /\ runStatus'[r] \in ActiveStatuses

\* The three things a step can do to the runs table.
RunStep ==
  \/ \E t \in Tasks : Allocates(t)
  \/ \E rs \in SUBSET Runs, end \in TerminalStatuses : Finishes(rs, end)
  \/ Continues

\* Ending the one run r.
LEMMA FinishOne ==
  ASSUME TypeOK, NEW r \in Runs, Active(r), NEW end \in TerminalStatuses,
         runStatus' = [runStatus EXCEPT ![r] = end], UNCHANGED <<created, runTask>>
  PROVE  RunStep
<1>1. Finishes({r}, end)
  BY DEF Finishes, TypeOK
<1> QED BY <1>1 DEF RunStep

\* Moving the one active run r to another active status.
LEMMA ContinueOne ==
  ASSUME TypeOK, NEW r \in Runs, Active(r), NEW status \in ActiveStatuses,
         runStatus' = [runStatus EXCEPT ![r] = status], UNCHANGED <<created, runTask>>
  PROVE  RunStep
<1>1. Continues
  BY DEF Continues, TypeOK
<1> QED BY <1>1 DEF RunStep

\* A step that leaves the runs' statuses alone.
LEMMA ContinueNone ==
  ASSUME UNCHANGED <<created, runTask, runStatus>>
  PROVE  RunStep
BY DEF RunStep, Continues

\* Every transaction allocates one run, ends active runs or continues them.
LEMMA StepOnRuns == TypeOK /\ RowsAreDense /\ [Next]_vars => RunStep
<1> SUFFICES ASSUME TypeOK, RowsAreDense, [Next]_vars PROVE RunStep
  OBVIOUS
<1> USE DEF planVars, runVars, approvalVars, storeVars, serverVars
<1>R. runStatus \in [Runs -> RunStatuses]
  BY DEF TypeOK
<1>1. ASSUME NEW m \in Missions, schedulable_tasks(m) PROVE RunStep
  BY <1>1, ContinueNone DEF schedulable_tasks
<1>2. ASSUME NEW t \in Tasks, create_task_run(t) PROVE RunStep
  <2>1. Allocates(t)
    BY <1>2 DEF create_task_run, InsertRun, RunAllowed, Allocates
  <2> QED BY <2>1 DEF RunStep
<1>3. ASSUME NEW t \in Tasks, CandidateDropped(t) PROVE RunStep
  BY <1>3, ContinueNone DEF CandidateDropped
<1>4. ASSUME NEW r \in Runs, CommandSent(r) PROVE RunStep
  BY <1>4, ContinueNone DEF CommandSent
<1>5. ASSUME NEW r \in Runs, fail_run_before_dispatch(r) PROVE RunStep
  <2>1. CASE DispatchFailureApplies(r)
    <3>1. Active(r)
      BY <2>1 DEF DispatchFailureApplies, Active, ActiveStatuses
    <3> QED BY <1>5, <2>1, <3>1, FinishOne
            DEF fail_run_before_dispatch, TerminalStatuses
  <2>2. CASE ~ DispatchFailureApplies(r)
    BY <1>5, <2>2, ContinueNone DEF fail_run_before_dispatch
  <2> QED BY <2>1, <2>2
<1>6. ASSUME NEW r \in Runs, create_resume_run(r) PROVE RunStep
  <2>1. Allocates(runTask[r])
    BY <1>6 DEF create_resume_run, InsertRun, Resumable, Allocates
  <2>2. runTask[r] \in Tasks
    BY <1>6 DEF create_resume_run, Resumable, PreservedSession, RowsAreDense
  <2> QED BY <2>1, <2>2 DEF RunStep
<1>7. ASSUME NEW r \in Runs, run_session(r) PROVE RunStep
  BY <1>7, ContinueNone DEF run_session
<1>8. ASSUME NEW r \in Runs, run_started(r) PROVE RunStep
  BY <1>8, ContinueOne DEF run_started, MayAdvance, SetRun, ActiveStatuses
<1>9. ASSUME NEW r \in Runs, NEW status \in Reported, run_status(r, status)
      PROVE RunStep
  <2>1. Active(r) /\ UNCHANGED <<created, runTask>>
    BY <1>9 DEF run_status, MayAdvance
  <2>2. \/ runStatus' = runStatus
        \/ runStatus' = [runStatus EXCEPT ![r] = runStatus[r]]
        \/ runStatus' = [runStatus EXCEPT ![r] = "running"]
    BY <1>9 DEF run_status
  <2>3. "running" \in ActiveStatuses
    BY DEF ActiveStatuses
  <2> QED BY <2>1, <2>2, <2>3, <1>R DEF RunStep, Continues
<1>10. ASSUME NEW r \in Runs, run_approval_requested(r) PROVE RunStep
  BY <1>10, ContinueOne DEF run_approval_requested, MayAdvance, SetRun, ActiveStatuses
<1>11. ASSUME NEW r \in Runs, NEW p \in Pressures, MetricsChange(r, p) PROVE RunStep
  BY <1>11, ContinueNone DEF MetricsChange
<1>12. ASSUME NEW r \in Runs, run_verification_started(r) PROVE RunStep
  BY <1>12, ContinueOne DEF run_verification_started, MayAdvance, SetRun, ActiveStatuses
<1>13. ASSUME NEW r \in Runs, NEW c \in Checks, NEW status \in {"passed", "failed"},
              run_verification_evidence(r, c, status)
       PROVE RunStep
  BY <1>13, ContinueNone DEF run_verification_evidence
<1>14. ASSUME NEW r \in Runs, run_verification_passed(r) PROVE RunStep
  BY <1>14, ContinueNone DEF run_verification_passed
<1>15. ASSUME NEW r \in Runs, run_verification_waiting(r) PROVE RunStep
  BY <1>15, ContinueOne DEF run_verification_waiting, MayAdvance, SetRun, ActiveStatuses
<1>16. ASSUME NEW r \in Runs, run_verification_failed(r) PROVE RunStep
  BY <1>16, FinishOne DEF run_verification_failed, RejectWork, SetRun, TerminalStatuses
<1>17. ASSUME NEW r \in Runs, run_completed(r) PROVE RunStep
  BY <1>17, FinishOne DEF run_completed, MayAdvance, SetRun, TerminalStatuses
<1>18. ASSUME NEW r \in Runs, run_failed(r) PROVE RunStep
  BY <1>18, FinishOne DEF run_failed, SetRun, TerminalStatuses
<1>19. ASSUME NEW r \in Runs, run_cancelled(r) PROVE RunStep
  BY <1>19, FinishOne DEF run_cancelled, SetRun, TerminalStatuses
<1>20. ASSUME NEW r \in Runs, NEW kept \in Cleanups, WorkspaceReport(r, kept)
       PROVE RunStep
  BY <1>20, ContinueNone DEF WorkspaceReport
<1>21. ASSUME NEW r \in Runs, run_teardown_uncertain(r) PROVE RunStep
  BY <1>21, ContinueNone DEF run_teardown_uncertain
<1>22. ASSUME NEW r \in Runs, EventRefused(r) PROVE RunStep
  BY <1>22, ContinueNone DEF EventRefused
<1>23. ASSUME NEW r \in Runs, prepare_artifact_upload(r) PROVE RunStep
  BY <1>23, ContinueNone DEF prepare_artifact_upload
<1>24. ASSUME NEW r \in Runs, finalize_artifact_upload(r) PROVE RunStep
  BY <1>24, ContinueOne, ContinueNone
     DEF finalize_artifact_upload, SetRun, ActiveStatuses
<1>25. ASSUME NEW r \in Runs, NEW outcome \in {"rejected", "none"},
              DropStagedArtifact(r, outcome)
       PROVE RunStep
  BY <1>25, ContinueNone DEF DropStagedArtifact
<1>26. ASSUME NEW r \in Runs, evaluate_circuit_breaker(r) PROVE RunStep
  <2>1. Active(r) /\ UNCHANGED <<created, runTask>>
    BY <1>26 DEF evaluate_circuit_breaker, Active
  <2>2. \/ runStatus' = runStatus
        \/ runStatus' = [runStatus EXCEPT ![r] = runStatus[r]]
        \/ runStatus' = [runStatus EXCEPT ![r] = "waiting_for_input"]
    BY <1>26 DEF evaluate_circuit_breaker
  <2>3. "waiting_for_input" \in ActiveStatuses
    BY DEF ActiveStatuses
  <2> QED BY <2>1, <2>2, <2>3, <1>R DEF RunStep, Continues
<1>27. ASSUME NEW r \in Runs, ApprovalDue(r) PROVE RunStep
  BY <1>27, ContinueNone DEF ApprovalDue
<1>28. ASSUME NEW r \in Runs, expire_action_approval(r) PROVE RunStep
  <2>1. CASE runStatus[r] = "waiting_for_approval"
    <3>1. Active(r)
      BY <2>1 DEF Active, ActiveStatuses
    <3> QED BY <1>28, <2>1, <3>1, FinishOne
            DEF expire_action_approval, CancelWaitingRun, TerminalStatuses
  <2>2. CASE runStatus[r] # "waiting_for_approval"
    <3>1. runStatus' = runStatus
      BY <1>28, <2>2 DEF expire_action_approval, CancelWaitingRun, TypeOK
    <3> QED BY <1>28, <3>1, ContinueNone DEF expire_action_approval
  <2> QED BY <2>1, <2>2
<1>29. ASSUME NEW r \in Runs, ExpiryTimerFires(r) \/ DecideExpired(r) PROVE RunStep
  BY <1>28, <1>29, ContinueNone DEF ExpiryTimerFires, DecideExpired
<1>30. ASSUME NEW r \in Runs, NEW verdict \in {"approved", "rejected"},
              decide_action_approval(r, verdict)
       PROVE RunStep
  BY <1>30, ContinueNone DEF decide_action_approval
<1>31. ASSUME NEW r \in Runs, NEW approved \in BOOLEAN, decide_verification(r, approved)
       PROVE RunStep
  <2>1. Active(r) /\ UNCHANGED <<created, runTask>>
    BY <1>31 DEF decide_verification, Active, ActiveStatuses
  <2>2. \E end \in TerminalStatuses : runStatus' = [runStatus EXCEPT ![r] = end]
    BY <1>31 DEF decide_verification, RejectWork, SetRun, TerminalStatuses
  <2> QED BY <2>1, <2>2, FinishOne
<1>32. ASSUME NEW lost \in SUBSET Runs, mark_runner_runs_lost(lost) PROVE RunStep
  <2>1. Finishes(lost, "lost")
    BY <1>32 DEF mark_runner_runs_lost, OnlyActiveRuns, Finishes
  <2> QED BY <2>1 DEF RunStep, TerminalStatuses
<1>33. CASE ServerRestart
  BY <1>33, ContinueNone DEF ServerRestart
<1>34. ASSUME NEW m \in Messages, queue_message(m) PROVE RunStep
  BY <1>34, ContinueNone DEF queue_message
<1>35. CASE UNCHANGED vars
  BY <1>35, ContinueNone DEF vars
<1> QED BY <1>1, <1>2, <1>3, <1>4, <1>5, <1>6, <1>7, <1>8, <1>9, <1>10, <1>11,
           <1>12, <1>13, <1>14, <1>15, <1>16, <1>17, <1>18, <1>19, <1>20, <1>21,
           <1>22, <1>23, <1>24, <1>25, <1>26, <1>27, <1>29, <1>30, <1>31, <1>32,
           <1>33, <1>34, <1>35
        DEF Next, SchedulerStep, RunnerStep, StoreStep, HumanStep

-----------------------------------------------------------------------------
(* One active run per task and agent.                                      *)

\* The inductive invariant of the runs table.
RunsInv == TypeOK /\ RowsAreDense /\ OneActiveRun

\* The empty tables satisfy it.
LEMMA InitRunsInv == Init => RunsInv
<1> SUFFICES ASSUME Init PROVE RunsInv
  OBVIOUS
<1>1. \A r \in Runs : runStatus[r] = "absent" /\ created = 0
  BY DEF Init
<1>2. RowsAreDense
  BY <1>1 DEF RowsAreDense
<1>3. OneActiveRun
  BY <1>1 DEF OneActiveRun, Active, ActiveStatuses
<1> QED BY InitTypeOK, <1>2, <1>3 DEF RunsInv

\* A status is active, terminal or absent, and never two of these.
LEMMA StatusKinds ==
  /\ "absent" \notin ActiveStatuses
  /\ "absent" \notin TerminalStatuses
  /\ "starting" \in ActiveStatuses
  /\ ActiveStatuses \cap TerminalStatuses = {}
BY DEF ActiveStatuses, TerminalStatuses

\* Every step preserves it.
LEMMA NextRunsInv == RunsInv /\ [Next]_vars => RunsInv'
<1> SUFFICES ASSUME RunsInv, [Next]_vars PROVE (RowsAreDense /\ OneActiveRun)'
  BY NextTypeOK DEF RunsInv
<1>1. /\ created \in 0 .. MaxRuns
      /\ runStatus \in [Runs -> RunStatuses]
      /\ runTask \in [Runs -> Tasks \cup {NoTask}]
  BY DEF RunsInv, TypeOK
<1>2. RunStep
  BY StepOnRuns DEF RunsInv
<1>3. ASSUME NEW t \in Tasks, Allocates(t) PROVE (RowsAreDense /\ OneActiveRun)'
  <2>1. runStatus[created + 1] = "absent"
    BY <1>1, <1>3 DEF Allocates, RunsInv, RowsAreDense
  <2>2. RowsAreDense'
    BY <1>1, <1>3 DEF Allocates, RunsInv, RowsAreDense
  <2>3. \A s \in Runs : Active(s)' /\ s # created + 1 => Active(s)
    BY <1>1, <1>3 DEF Allocates, Active
  <2>4. \A s \in Runs : Active(s) =>
          /\ s # created + 1 /\ runTask[s] # t /\ AgentOf[runTask[s]] # AgentOf[t]
    BY <1>1, <1>3, <2>1, StatusKinds
       DEF Allocates, Unclaimed, ActiveRunOf, ActiveRunOn, RunsOf, Active, Agent
  <2>5. \A s \in Runs : s # created + 1 => runTask'[s] = runTask[s]
    BY <1>1, <1>3 DEF Allocates
  <2>6. runTask'[created + 1] = t
    BY <1>1, <1>3 DEF Allocates
  <2>7. OneActiveRun'
    BY <2>3, <2>4, <2>5, <2>6 DEF RunsInv, OneActiveRun, Agent
  <2> QED BY <2>2, <2>7
<1>4. ASSUME NEW rs \in SUBSET Runs, NEW end \in TerminalStatuses, Finishes(rs, end)
      PROVE (RowsAreDense /\ OneActiveRun)'
  <2>1. \A s \in Runs : Active(s)' => Active(s)
    BY <1>1, <1>4, StatusKinds DEF Finishes, Active
  <2>2. \A s \in Runs : runStatus'[s] = "absent" <=> runStatus[s] = "absent"
    BY <1>1, <1>4, StatusKinds DEF Finishes, Active
  <2>3. RowsAreDense'
    BY <1>4, <2>2 DEF Finishes, RunsInv, RowsAreDense
  <2> QED BY <1>4, <2>1, <2>3 DEF Finishes, RunsInv, OneActiveRun, Agent
<1>5. CASE Continues
  <2>1. \A s \in Runs : Active(s)' => Active(s)
    BY <1>1, <1>5 DEF Continues, Active
  <2>2. \A s \in Runs : runStatus'[s] = "absent" <=> runStatus[s] = "absent"
    BY <1>1, <1>5, StatusKinds DEF Continues, Active
  <2>3. RowsAreDense'
    BY <1>5, <2>2 DEF Continues, RunsInv, RowsAreDense
  <2> QED BY <1>5, <2>1, <2>3 DEF Continues, RunsInv, OneActiveRun, Agent
<1> QED BY <1>2, <1>3, <1>4, <1>5 DEF RunStep

\* RunsInv holds in every reachable state.
LEMMA RunsInvariant == Spec => []RunsInv
BY InitRunsInv, NextRunsInv, PTL DEF Spec

\* However scheduling passes, resumes, dispatch failures, events, expiry and
\* losses interleave, no task and no agent ever has two active runs.
THEOREM OneActiveRunHolds == Spec => []OneActiveRun
<1>1. RunsInv => OneActiveRun
  BY DEF RunsInv
<1> QED BY RunsInvariant, <1>1, PTL

\* A run that has completed, failed, been cancelled or been lost keeps that
\* status for ever.
THEOREM TerminalRunStays == Spec => TerminalRunIsFinal
<1>1. RunsInv /\ [Next]_vars =>
        [\A r \in Runs : Terminal(r) => runStatus'[r] = runStatus[r]]_vars
  <2> SUFFICES ASSUME RunsInv, [Next]_vars, NEW r \in Runs, Terminal(r)
               PROVE  runStatus'[r] = runStatus[r]
    OBVIOUS
  <2>1. RunStep
    BY StepOnRuns DEF RunsInv
  <2>2. /\ created \in 0 .. MaxRuns
        /\ runStatus \in [Runs -> RunStatuses]
    BY DEF RunsInv, TypeOK
  <2>3. runStatus[r] \in TerminalStatuses /\ ~ Active(r)
    BY StatusKinds DEF Terminal, Active
  <2>4. r # created + 1
    BY <2>2, <2>3, StatusKinds DEF RunsInv, RowsAreDense
  <2> QED BY <2>1, <2>2, <2>3, <2>4 DEF RunStep, Allocates, Finishes, Continues
<1> QED BY RunsInvariant, <1>1, PTL DEF Spec, TerminalRunIsFinal

-----------------------------------------------------------------------------
(* The runs implement Assignment.                                          *)

\* Every step of the store is a step of Assignment or leaves it alone.
LEMMA StepRefines == RunsInv /\ [Next]_vars => [Assignments!Next]_(Assignments!vars)
<1> SUFFICES ASSUME RunsInv, [Next]_vars
             PROVE  Assignments!Next \/ UNCHANGED Assignments!vars
  OBVIOUS
<1> DEFINE outcome == [r \in Runs |-> IF Active(r) THEN "live" ELSE runStatus[r]]
<1>1. /\ created \in 0 .. MaxRuns
      /\ runStatus \in [Runs -> RunStatuses]
      /\ runTask \in [Runs -> Tasks \cup {NoTask}]
  BY DEF RunsInv, TypeOK
<1>2. RunStep
  BY StepOnRuns DEF RunsInv
<1>3. ASSUME NEW t \in Tasks, Allocates(t) PROVE Assignments!Assign(t)
  <2>1. \A s \in Runs : outcome[s] = "live" <=> Active(s)
    BY <1>1 DEF RunStatuses, ActiveStatuses, TerminalStatuses, Active
  <2>2. \A s \in Runs : Active(s) => runTask[s] # t /\ AgentOf[runTask[s]] # AgentOf[t]
    BY <1>1, <1>3, StatusKinds
       DEF Allocates, Unclaimed, ActiveRunOf, ActiveRunOn, RunsOf, Active, Agent
  <2>3. outcome' = [outcome EXCEPT ![created + 1] = "live"]
    BY <1>1, <1>3, StatusKinds DEF Allocates, Active
  <2> QED BY <1>3, <2>1, <2>2, <2>3
          DEF Allocates, Assignments!Assign, Assignments!Available,
              Assignments!Live, Assignments!Runs
<1>4. ASSUME NEW rs \in SUBSET Runs, NEW end \in TerminalStatuses, Finishes(rs, end)
      PROVE Assignments!End(rs)
  <2>1. \A s \in rs : outcome[s] = "live"
    BY <1>4 DEF Finishes
  <2>2. outcome' = [s \in Runs |-> IF s \in rs THEN end ELSE outcome[s]]
    BY <1>1, <1>4, StatusKinds DEF Finishes, Active
  <2>3. end \in Assignments!Ends
    BY DEF TerminalStatuses, Assignments!Ends
  <2> QED BY <1>4, <2>1, <2>2, <2>3
          DEF Finishes, Assignments!End, Assignments!Live, Assignments!Runs
<1>5. CASE Continues
  <2>1. outcome' = outcome
    BY <1>1, <1>5 DEF Continues, Active
  <2> QED BY <1>5, <2>1 DEF Continues, Assignments!vars
<1> QED BY <1>2, <1>3, <1>4, <1>5 DEF RunStep, Assignments!Next, Assignments!Runs

\* The store's transactions implement the abstract assignments, with a run
\* live exactly while its status is an active one.
THEOREM StoreImplementsAssignment == Spec => ImplementsAssignment
<1>1. Init => Assignments!Init
  BY StatusKinds DEF Init, Assignments!Init, Assignments!Runs, Active
<1> QED BY RunsInvariant, StepRefines, <1>1, PTL
        DEF Spec, ImplementsAssignment, Assignments!Spec

-----------------------------------------------------------------------------
(* What the abstract assignments promise to those who rely on them.        *)

\* OneLive is inductive once joined with Dense, which keeps a new assignment
\* off a used id.
OneLiveInv == Assignments!TypeOK /\ Assignments!Dense /\ Assignments!OneLive

\* No assignment is made at the start.
LEMMA InitOneLive == Assignments!Init => OneLiveInv
BY DEF Assignments!Init, OneLiveInv, Assignments!TypeOK, Assignments!Dense,
       Assignments!OneLive, Assignments!Live, Assignments!Runs, Assignments!Ends

\* Making or ending assignments preserves the invariant.
LEMMA NextOneLive == OneLiveInv /\ [Assignments!Next]_(Assignments!vars) => OneLiveInv'
<1> SUFFICES ASSUME OneLiveInv, [Assignments!Next]_(Assignments!vars) PROVE OneLiveInv'
  OBVIOUS
<1> DEFINE outcome == [r \in Runs |-> IF Active(r) THEN "live" ELSE runStatus[r]]
           Kinds == Assignments!Ends \cup {"absent", "live"}
<1>1. /\ created \in 0 .. MaxRuns
      /\ runTask \in [Runs -> Tasks \cup {NoTask}]
      /\ outcome \in [Runs -> Kinds]
      /\ \A r \in Runs : outcome[r] = "absent" <=> r > created
      /\ \A r, s \in Runs : outcome[r] = "live" /\ outcome[s] = "live" /\ r # s =>
           runTask[r] # runTask[s] /\ AgentOf[runTask[r]] # AgentOf[runTask[s]]
  BY DEF OneLiveInv, Assignments!TypeOK, Assignments!Dense, Assignments!OneLive,
         Assignments!Live, Assignments!Runs
<1>2. SUFFICES /\ created' \in 0 .. MaxRuns
               /\ runTask' \in [Runs -> Tasks \cup {NoTask}]
               /\ outcome' \in [Runs -> Kinds]
               /\ \A r \in Runs : outcome'[r] = "absent" <=> r > created'
               /\ \A r, s \in Runs : outcome'[r] = "live" /\ outcome'[s] = "live" /\ r # s =>
                    runTask'[r] # runTask'[s] /\ AgentOf[runTask'[r]] # AgentOf[runTask'[s]]
  BY DEF OneLiveInv, Assignments!TypeOK, Assignments!Dense, Assignments!OneLive,
         Assignments!Live, Assignments!Runs
<1>3. \/ \E t \in Tasks : Assignments!Assign(t)
      \/ \E rs \in SUBSET Runs : Assignments!End(rs)
      \/ created' = created /\ runTask' = runTask /\ outcome' = outcome
  BY DEF Assignments!Next, Assignments!vars, Assignments!Runs
<1>4. ASSUME NEW t \in Tasks, Assignments!Assign(t)
      PROVE  /\ created + 1 \in Runs /\ created' = created + 1
             /\ runTask' = [runTask EXCEPT ![created + 1] = t]
             /\ outcome' = [outcome EXCEPT ![created + 1] = "live"]
             /\ \A r \in Runs : outcome[r] = "live" =>
                  runTask[r] # t /\ AgentOf[runTask[r]] # AgentOf[t]
  BY <1>4 DEF Assignments!Assign, Assignments!Available, Assignments!Live, Assignments!Runs
<1>5. ASSUME NEW rs \in SUBSET Runs, Assignments!End(rs)
      PROVE  /\ created' = created /\ runTask' = runTask
             /\ \A r \in rs : outcome[r] = "live"
             /\ \E end \in Assignments!Ends :
                  outcome' = [r \in Runs |-> IF r \in rs THEN end ELSE outcome[r]]
  BY <1>5 DEF Assignments!End, Assignments!Live, Assignments!Runs
<1>6. "live" \in Kinds /\ Assignments!Ends \subseteq Kinds \ {"absent", "live"}
  BY DEF Assignments!Ends
<1> HIDE DEF outcome, Kinds
<1>7. CASE \E t \in Tasks : Assignments!Assign(t)
  <2>1. PICK t \in Tasks : Assignments!Assign(t)
    BY <1>7
  <2>2. /\ created + 1 \in Runs /\ created' = created + 1
        /\ runTask' = [runTask EXCEPT ![created + 1] = t]
        /\ outcome' = [outcome EXCEPT ![created + 1] = "live"]
        /\ \A r \in Runs : outcome[r] = "live" =>
             runTask[r] # t /\ AgentOf[runTask[r]] # AgentOf[t]
    BY <1>4, <2>1
  <2>3. /\ created' \in 0 .. MaxRuns
        /\ runTask' \in [Runs -> Tasks \cup {NoTask}]
        /\ outcome' \in [Runs -> Kinds]
    BY <1>1, <1>6, <2>2
  <2>4. \A r \in Runs : outcome'[r] = "absent" <=> r > created'
    BY <1>1, <2>2
  <2>5. \A r, s \in Runs : outcome'[r] = "live" /\ outcome'[s] = "live" /\ r # s =>
           runTask'[r] # runTask'[s] /\ AgentOf[runTask'[r]] # AgentOf[runTask'[s]]
    BY <1>1, <2>2
  <2> QED BY <2>3, <2>4, <2>5
<1>8. CASE \E rs \in SUBSET Runs : Assignments!End(rs)
  BY <1>1, <1>5, <1>6, <1>8
<1> QED BY <1>1, <1>3, <1>7, <1>8

\* Two live assignments never share a task or an agent, for every set of
\* tasks, every assignment of agents and any number of runs.
THEOREM OneLiveHolds == Assignments!Spec => []Assignments!OneLive
<1>1. OneLiveInv => Assignments!OneLive
  BY DEF OneLiveInv
<1> QED BY InitOneLive, NextOneLive, <1>1, PTL DEF Assignments!Spec

-----------------------------------------------------------------------------
(* Runs, tasks, missions and agents.                                       *)

Worked == {"claimed", "running", "review", "awaiting_approval"}
Held == Worked \cup {"blocked", "cancelled"}

\* What an approval's expiry relies on: the task of a waiting run waits too,
\* unless the expiry of an earlier approval cancelled it.
WaitingRunAwaits ==
  \A r \in Runs : runStatus[r] = "waiting_for_approval" =>
    taskStatus[runTask[r]] \in {"awaiting_approval", "cancelled"}

\* A mission completes only together with its last task.
MissionsFollow ==
  \A m \in Missions : missionStatus'[m] = "completed" =>
    \/ missionStatus[m] = "completed"
    \/ \A t \in TasksOf(m) : taskStatus'[t] = "completed"

\* The agent of r lets go of it, or had it not as its current run.
LetsGo(r) ==
  \/ currentRun' = [currentRun EXCEPT ![Agent(r)] = NoRun]
  \/ currentRun' = currentRun /\ currentRun[Agent(r)] # r

\* A new run claims its task and its agent, in a mission that is open.
Claims(t) ==
  /\ Allocates(t)
  /\ taskStatus' = [taskStatus EXCEPT ![t] = "claimed"]
  /\ currentRun' = [currentRun EXCEPT ![AgentOf[t]] = created + 1]
  /\ missionStatus'[MissionOf[t]] # "completed"
  /\ \A m \in Missions : missionStatus'[m] = "completed" => missionStatus[m] = "completed"

\* An active run ends, and its task with it; other tasks at most become ready.
EndsRun(r, end) ==
  /\ Active(r)
  /\ runStatus' = [runStatus EXCEPT ![r] = end]
  /\ UNCHANGED <<created, runTask>>
  /\ taskStatus'[runTask[r]] \notin Worked
  /\ \A t \in Tasks \ {runTask[r]} :
       \/ taskStatus'[t] = taskStatus[t]
       \/ taskStatus[t] = "pending" /\ taskStatus'[t] = "ready"
  /\ LetsGo(r)
  /\ MissionsFollow

\* An active run goes on and moves only its own task.
WorksOn(r, status, work) ==
  /\ Active(r)
  /\ status \in ActiveStatuses
  /\ work \in Held
  /\ status = "waiting_for_approval" => work \in {"awaiting_approval", "cancelled"}
  /\ runStatus' = [runStatus EXCEPT ![r] = status]
  /\ taskStatus' = [taskStatus EXCEPT ![runTask[r]] = work]
  /\ currentRun' \in {currentRun, [currentRun EXCEPT ![Agent(r)] = NoRun]}
  /\ UNCHANGED <<created, runTask, missionStatus>>

\* An approval expires after its run went on: only the task and the agent of
\* the run are touched.
ExpiresLate(r) ==
  /\ UNCHANGED <<created, runTask, runStatus>>
  /\ CancelWaitingTask(r)
  /\ currentRun' \in {currentRun, [currentRun EXCEPT ![Agent(r)] = NoRun]}
  /\ \A m \in Missions : missionStatus'[m] = "completed" => missionStatus[m] = "completed"

\* Active runs are lost together.
LosesRuns(lost) ==
  /\ Finishes(lost, "lost")
  /\ BlockTasks(lost)
  /\ currentRun' = [a \in Agents |->
       IF \E r \in lost : Agent(r) = a THEN NoRun ELSE currentRun[a]]
  /\ \A m \in Missions : missionStatus'[m] = "completed" => missionStatus[m] = "completed"

\* No row of this part changes.
RowsStay == UNCHANGED <<created, runTask, runStatus, taskStatus, currentRun, missionStatus>>

\* The things a step can do to runs, tasks, missions and agents.
PlanStep ==
  \/ \E t \in Tasks : Claims(t)
  \/ \E r \in Runs, end \in TerminalStatuses : EndsRun(r, end)
  \/ \E r \in Runs : \E status, work : WorksOn(r, status, work)
  \/ \E r \in Runs : ExpiresLate(r)
  \/ \E lost \in SUBSET Runs : LosesRuns(lost)
  \/ RowsStay

\* The inductive invariant of these rows.
PlanInv ==
  /\ RunsInv
  /\ CurrentRunIsActive /\ WorkedTaskHasRun /\ ActiveRunHoldsTask
  /\ WaitingRunAwaits /\ CompletedMissionIsDone

\* At the start there are no runs, no accepted tasks and no completed missions.
LEMMA InitPlanInv == Init => PlanInv
<1> SUFFICES ASSUME Init PROVE PlanInv
  OBVIOUS
<1>1. \A r \in Runs : runStatus[r] = "absent"
  BY DEF Init
<1>2. CurrentRunIsActive
  BY DEF Init, CurrentRunIsActive
<1>3. WorkedTaskHasRun
  BY DEF Init, WorkedTaskHasRun
<1>4. ActiveRunHoldsTask /\ WaitingRunAwaits
  BY <1>1 DEF ActiveRunHoldsTask, WaitingRunAwaits, Active, ActiveStatuses
<1>5. CompletedMissionIsDone
  BY DEF Init, CompletedMissionIsDone
<1> QED BY InitRunsInv, <1>2, <1>3, <1>4, <1>5 DEF PlanInv

\* A step of PlanStep preserves the invariant.
LEMMA PlanStepInv ==
  ASSUME PlanInv, RunsInv', PlanStep
  PROVE  PlanInv'
<1>1. /\ created \in 0 .. MaxRuns
      /\ runStatus \in [Runs -> RunStatuses]
      /\ runTask \in [Runs -> Tasks \cup {NoTask}]
      /\ taskStatus \in [Tasks -> TaskStatuses]
      /\ missionStatus \in [Missions -> MissionStatuses]
      /\ currentRun \in [Agents -> RunRef]
  BY DEF PlanInv, RunsInv, TypeOK
<1>2. \A r \in Runs : Active(r) => runTask[r] \in Tasks /\ r <= created
  BY <1>1, StatusKinds DEF PlanInv, RunsInv, RowsAreDense, Active
<1>3. SUFFICES (/\ CurrentRunIsActive /\ WorkedTaskHasRun /\ ActiveRunHoldsTask
                /\ WaitingRunAwaits
                /\ \A m \in Missions : missionStatus[m] = "completed" =>
                     \A t \in TasksOf(m) : taskStatus[t] = "completed")'
  <2>1. ASSUME ActiveRunHoldsTask', NEW m \in Missions, NEW r \in Runs, Active(r)',
               \A t \in TasksOf(m) : taskStatus'[t] = "completed"
        PROVE  Mission(r)' # m
    <3>1. runTask'[r] \in Tasks
      BY <2>1, StatusKinds DEF RunsInv, RowsAreDense, Active
    <3>2. taskStatus'[runTask'[r]] # "completed"
      BY <2>1 DEF ActiveRunHoldsTask
    <3> QED BY <2>1, <3>1, <3>2 DEF TasksOf, Mission
  <2> QED BY <1>3, <2>1 DEF PlanInv, CompletedMissionIsDone, TasksOf
<1> DEFINE Done == \A m \in Missions : missionStatus[m] = "completed" =>
                     \A t \in TasksOf(m) : taskStatus[t] = "completed"
<1>D. \A r \in Runs : Active(r) => missionStatus[Mission(r)] # "completed"
  BY <1>2 DEF PlanInv, CompletedMissionIsDone, Mission
<1>4. ASSUME NEW t \in Tasks, Claims(t)
      PROVE  (CurrentRunIsActive /\ WorkedTaskHasRun /\ ActiveRunHoldsTask
                /\ WaitingRunAwaits /\ Done)'
  <2>1. \A s \in Runs : Active(s) => s # created + 1 /\ runTask[s] # t /\ Agent(s) # AgentOf[t]
    BY <1>1, <1>2, <1>4, StatusKinds
       DEF Claims, Allocates, Unclaimed, ActiveRunOf, ActiveRunOn, RunsOf, Agent, Active
  <2>2. \A s \in Runs : s # created + 1 =>
          /\ runStatus'[s] = runStatus[s] /\ runTask'[s] = runTask[s]
          /\ Active(s)' = Active(s)
    BY <1>1, <1>4 DEF Claims, Allocates, Active
  <2>3. /\ created + 1 \in Runs /\ runStatus'[created + 1] = "starting"
        /\ runTask'[created + 1] = t /\ \A s \in Runs : s = created + 1 => Active(s)'
    BY <1>1, <1>4, StatusKinds DEF Claims, Allocates, Active
  <2>4. \A u \in Tasks : taskStatus'[u] = IF u = t THEN "claimed" ELSE taskStatus[u]
    BY <1>1, <1>4 DEF Claims
  <2>5. CurrentRunIsActive'
    BY <1>1, <1>4, <2>1, <2>2, <2>3
       DEF Claims, CurrentRunIsActive, PlanInv, Agent, Active
  <2>6. WorkedTaskHasRun'
    <3>1. \A u \in Tasks : u # t /\ ActiveRunOf(u) => ActiveRunOf(u)'
      BY <2>1, <2>2, StatusKinds DEF ActiveRunOf, RunsOf, Active
    <3>2. ActiveRunOf(t)'
      BY <2>3, StatusKinds DEF ActiveRunOf, RunsOf
    <3> QED BY <2>4, <3>1, <3>2 DEF WorkedTaskHasRun, PlanInv
  <2>7. ActiveRunHoldsTask'
    BY <1>2, <2>1, <2>2, <2>3, <2>4 DEF ActiveRunHoldsTask, PlanInv
  <2>8. WaitingRunAwaits'
    BY <1>2, <2>1, <2>2, <2>3, <2>4 DEF WaitingRunAwaits, PlanInv, Active, ActiveStatuses
  <2>9. Done'
    BY <1>4, <2>4 DEF Claims, PlanInv, CompletedMissionIsDone, TasksOf
  <2> QED BY <2>5, <2>6, <2>7, <2>8, <2>9
<1>5. ASSUME NEW r \in Runs, NEW end \in TerminalStatuses, EndsRun(r, end)
      PROVE  (CurrentRunIsActive /\ WorkedTaskHasRun /\ ActiveRunHoldsTask
                /\ WaitingRunAwaits /\ Done)'
  <2>1. \A s \in Runs : Active(s) /\ s # r => runTask[s] # runTask[r] /\ Agent(s) # Agent(r)
    BY <1>5 DEF EndsRun, PlanInv, RunsInv, OneActiveRun
  <2>2. \A s \in Runs : s # r => runStatus'[s] = runStatus[s] /\ Active(s)' = Active(s)
    BY <1>1, <1>5 DEF EndsRun, Active
  <2>3. ~ Active(r)' /\ runStatus'[r] = end /\ runStatus'[r] # "waiting_for_approval"
    BY <1>1, <1>5 DEF EndsRun, Active, ActiveStatuses, TerminalStatuses
  <2>4. runTask' = runTask /\ runTask[r] \in Tasks
    BY <1>2, <1>5 DEF EndsRun
  <2>5. CurrentRunIsActive'
    BY <1>1, <1>5, <2>1, <2>2, <2>3, <2>4
       DEF EndsRun, LetsGo, CurrentRunIsActive, PlanInv, Agent, Active
  <2>6. WorkedTaskHasRun'
    <3>1. \A u \in Tasks : u # runTask[r] /\ ActiveRunOf(u) => ActiveRunOf(u)'
      BY <2>2, <2>4, StatusKinds DEF ActiveRunOf, RunsOf, Active
    <3> QED BY <1>5, <3>1 DEF EndsRun, Worked, WorkedTaskHasRun, PlanInv
  <2>7. ActiveRunHoldsTask'
    BY <1>2, <1>5, <2>1, <2>2, <2>3, <2>4 DEF EndsRun, ActiveRunHoldsTask, PlanInv
  <2>8. WaitingRunAwaits'
    BY <1>2, <1>5, <2>1, <2>2, <2>3, <2>4
       DEF EndsRun, WaitingRunAwaits, PlanInv, Active, ActiveStatuses
  <2>9. Done'
    BY <1>5, <1>D, <2>4
       DEF EndsRun, MissionsFollow, Mission, PlanInv, CompletedMissionIsDone, TasksOf
  <2> QED BY <2>5, <2>6, <2>7, <2>8, <2>9
<1>6. ASSUME NEW r \in Runs, NEW status, NEW work, WorksOn(r, status, work)
      PROVE  (CurrentRunIsActive /\ WorkedTaskHasRun /\ ActiveRunHoldsTask
                /\ WaitingRunAwaits /\ Done)'
  <2>1. \A s \in Runs : Active(s) /\ s # r => runTask[s] # runTask[r] /\ Agent(s) # Agent(r)
    BY <1>6 DEF WorksOn, PlanInv, RunsInv, OneActiveRun
  <2>2. \A s \in Runs : /\ s # r => runStatus'[s] = runStatus[s]
                        /\ Active(s)' = Active(s)
    BY <1>1, <1>6 DEF WorksOn, Active
  <2>3. runStatus'[r] = status
    BY <1>1, <1>6 DEF WorksOn
  <2>4. runTask' = runTask /\ runTask[r] \in Tasks
    BY <1>2, <1>6 DEF WorksOn
  <2>5. \A u \in Tasks : taskStatus'[u] = IF u = runTask[r] THEN work ELSE taskStatus[u]
    BY <1>1, <1>6 DEF WorksOn
  <2>6. CurrentRunIsActive'
    BY <1>1, <1>6, <2>2, <2>4 DEF WorksOn, CurrentRunIsActive, PlanInv, Agent
  <2>7. WorkedTaskHasRun'
    <3>1. \A u \in Tasks : ActiveRunOf(u) => ActiveRunOf(u)'
      BY <2>2, <2>4, StatusKinds DEF ActiveRunOf, RunsOf, Active
    <3>2. ActiveRunOf(runTask[r])
      BY <1>6, StatusKinds DEF WorksOn, ActiveRunOf, RunsOf, Active
    <3> QED BY <2>5, <3>1, <3>2 DEF WorkedTaskHasRun, PlanInv
  <2>8. ActiveRunHoldsTask'
    BY <1>2, <1>6, <2>1, <2>2, <2>4, <2>5
       DEF WorksOn, Held, Worked, ActiveRunHoldsTask, PlanInv
  <2>9. WaitingRunAwaits'
    BY <1>2, <1>6, <2>1, <2>2, <2>3, <2>4, <2>5
       DEF WorksOn, WaitingRunAwaits, PlanInv, Active, ActiveStatuses
  <2>10. Done'
    BY <1>6, <1>D, <2>4, <2>5
       DEF WorksOn, Mission, PlanInv, CompletedMissionIsDone, TasksOf
  <2> QED BY <2>6, <2>7, <2>8, <2>9, <2>10
<1>7. ASSUME NEW r \in Runs, ExpiresLate(r)
      PROVE  (CurrentRunIsActive /\ WorkedTaskHasRun /\ ActiveRunHoldsTask
                /\ WaitingRunAwaits /\ Done)'
  <2>1. \A u \in Tasks : \/ taskStatus'[u] = taskStatus[u]
                         \/ taskStatus[u] = "awaiting_approval" /\ taskStatus'[u] = "cancelled"
    BY <1>1, <1>7 DEF ExpiresLate, CancelWaitingTask
  <2>2. runTask' = runTask /\ runStatus' = runStatus
    BY <1>7 DEF ExpiresLate
  <2>3. \A s \in Runs : Active(s)' = Active(s)
    BY <2>2 DEF Active
  <2>4. CurrentRunIsActive'
    BY <1>1, <1>7, <2>2, <2>3 DEF ExpiresLate, CurrentRunIsActive, PlanInv, Agent
  <2>5. WorkedTaskHasRun'
    BY <2>1, <2>2, <2>3 DEF WorkedTaskHasRun, PlanInv, ActiveRunOf, RunsOf
  <2>6. ActiveRunHoldsTask'
    BY <1>2, <2>1, <2>2, <2>3 DEF ActiveRunHoldsTask, PlanInv
  <2>7. WaitingRunAwaits'
    BY <1>2, <2>1, <2>2, <2>3 DEF WaitingRunAwaits, PlanInv, Active, ActiveStatuses
  <2>8. Done'
    BY <1>7, <2>1 DEF ExpiresLate, PlanInv, CompletedMissionIsDone, TasksOf
  <2> QED BY <2>4, <2>5, <2>6, <2>7, <2>8
<1>8. ASSUME NEW lost \in SUBSET Runs, LosesRuns(lost)
      PROVE  (CurrentRunIsActive /\ WorkedTaskHasRun /\ ActiveRunHoldsTask
                /\ WaitingRunAwaits /\ Done)'
  <2>1. \A s \in Runs : /\ runStatus'[s] = IF s \in lost THEN "lost" ELSE runStatus[s]
                        /\ Active(s)' <=> (Active(s) /\ s \notin lost)
    BY <1>1, <1>8 DEF LosesRuns, Finishes, Active, ActiveStatuses
  <2>2. \A r \in lost, s \in Runs : Active(s) /\ s \notin lost =>
          runTask[s] # runTask[r] /\ Agent(s) # Agent(r)
    BY <1>8 DEF LosesRuns, Finishes, PlanInv, RunsInv, OneActiveRun
  <2>3. runTask' = runTask
    BY <1>8 DEF LosesRuns, Finishes
  <2>4. \A u \in Tasks : taskStatus'[u] =
          IF \E r \in lost : runTask[r] = u THEN "blocked" ELSE taskStatus[u]
    BY <1>8 DEF LosesRuns, BlockTasks
  <2>5. CurrentRunIsActive'
    BY <1>1, <1>8, <2>1, <2>3 DEF LosesRuns, CurrentRunIsActive, PlanInv, Agent
  <2>6. WorkedTaskHasRun'
    BY <2>1, <2>3, <2>4, StatusKinds DEF WorkedTaskHasRun, PlanInv, ActiveRunOf, RunsOf, Active
  <2>7. ActiveRunHoldsTask'
    BY <1>2, <2>1, <2>3, <2>4 DEF ActiveRunHoldsTask, PlanInv
  <2>8. WaitingRunAwaits'
    BY <1>2, <2>1, <2>2, <2>3, <2>4 DEF WaitingRunAwaits, PlanInv, Active, ActiveStatuses
  <2>9. Done'
    <3>1. \A r \in lost : Active(r)
      BY <1>8 DEF LosesRuns, Finishes
    <3> QED BY <1>8, <1>D, <2>4, <3>1
            DEF LosesRuns, Mission, PlanInv, CompletedMissionIsDone, TasksOf
  <2> QED BY <2>5, <2>6, <2>7, <2>8, <2>9
<1>9. CASE RowsStay
  BY <1>9 DEF RowsStay, PlanInv, CurrentRunIsActive, WorkedTaskHasRun, ActiveRunHoldsTask,
     WaitingRunAwaits, CompletedMissionIsDone, Active, Agent, ActiveRunOf, RunsOf, TasksOf
<1> QED BY <1>4, <1>5, <1>6, <1>7, <1>8, <1>9 DEF PlanStep


\* Every transaction is one of these steps.
LEMMA StepOnPlan == PlanInv /\ [Next]_vars => PlanStep
<1> SUFFICES ASSUME PlanInv, [Next]_vars PROVE PlanStep
  OBVIOUS
<1> USE DEF planVars, runVars, approvalVars, storeVars, serverVars
<1>T. /\ created \in 0 .. MaxRuns
      /\ runStatus \in [Runs -> RunStatuses]
      /\ runTask \in [Runs -> Tasks \cup {NoTask}]
      /\ taskStatus \in [Tasks -> TaskStatuses]
      /\ missionStatus \in [Missions -> MissionStatuses]
      /\ currentRun \in [Agents -> RunRef]
  BY DEF PlanInv, RunsInv, TypeOK
<1>A. \A r \in Runs : Active(r) =>
        /\ runTask[r] \in Tasks
        /\ taskStatus[runTask[r]] \in Held
        /\ runStatus[r] = "waiting_for_approval" =>
             taskStatus[runTask[r]] \in {"awaiting_approval", "cancelled"}
  BY StatusKinds DEF PlanInv, RunsInv, RowsAreDense, Active, ActiveRunHoldsTask,
     WaitingRunAwaits, Held, Worked
<1>S. ASSUME RowsStay PROVE PlanStep
  BY <1>S DEF PlanStep
<1>W. ASSUME NEW r \in Runs, NEW status, NEW work, WorksOn(r, status, work) PROVE PlanStep
  BY <1>W DEF PlanStep
<1>E. ASSUME NEW r \in Runs, NEW end \in TerminalStatuses, EndsRun(r, end) PROVE PlanStep
  BY <1>E DEF PlanStep
<1>F. ASSUME NEW r \in Runs, Active(r), NEW end \in TerminalStatuses, NEW done,
             SetRun(r, end), SetTask(r, done), done \notin Worked, LetsGo(r),
             UNCHANGED <<created, runTask>>,
             \A m \in Missions : missionStatus'[m] = "completed" => missionStatus[m] = "completed"
      PROVE  PlanStep
  BY <1>F, <1>A, <1>T, <1>E DEF EndsRun, SetRun, SetTask, MissionsFollow
<1>1. ASSUME NEW m \in Missions, schedulable_tasks(m) PROVE PlanStep
  BY <1>1, <1>S DEF schedulable_tasks, RowsStay
<1>2. ASSUME NEW t \in Tasks, create_task_run(t) PROVE PlanStep
  <2>1. Allocates(t)
    BY <1>2 DEF create_task_run, InsertRun, RunAllowed, Allocates
  <2>2. /\ missionStatus'[MissionOf[t]] # "completed"
        /\ \A m \in Missions : missionStatus'[m] = "completed" => missionStatus[m] = "completed"
    BY <1>2, <1>T DEF create_task_run, OpenMissionBecomes, RunAllowed, WantsRun,
       mission_allows_dispatch
  <2>3. Claims(t)
    BY <1>2, <2>1, <2>2 DEF Claims, create_task_run, InsertRun
  <2> QED BY <2>3 DEF PlanStep
<1>3. ASSUME NEW t \in Tasks, CandidateDropped(t) PROVE PlanStep
  BY <1>3, <1>S DEF CandidateDropped, RowsStay
<1>4. ASSUME NEW r \in Runs, CommandSent(r) PROVE PlanStep
  BY <1>4, <1>S DEF CommandSent, RowsStay
<1>5. ASSUME NEW r \in Runs, fail_run_before_dispatch(r) PROVE PlanStep
  <2>1. CASE DispatchFailureApplies(r)
    <3>1. Active(r)
      BY <2>1 DEF DispatchFailureApplies, Active, ActiveStatuses
    <3>2. LetsGo(r)
      BY <1>5, <2>1 DEF fail_run_before_dispatch, ReleaseAgentIfCurrent, ReleaseAgent, LetsGo
    <3>3. \A m \in Missions : missionStatus'[m] = "completed" => missionStatus[m] = "completed"
      BY <1>5, <2>1, <1>T DEF fail_run_before_dispatch
    <3>4. SetRun(r, "failed") /\ SetTask(r, "failed") /\ UNCHANGED <<created, runTask>>
      BY <1>5, <2>1 DEF fail_run_before_dispatch, SetRun, SetTask
    <3> QED BY <3>1, <3>2, <3>3, <3>4, <1>F DEF Worked, TerminalStatuses
  <2>2. CASE ~ DispatchFailureApplies(r)
    BY <1>5, <2>2, <1>S DEF fail_run_before_dispatch, RowsStay
  <2> QED BY <2>1, <2>2
<1>6. ASSUME NEW r \in Runs, create_resume_run(r) PROVE PlanStep
  <2>1. Allocates(runTask[r]) /\ runTask[r] \in Tasks
    BY <1>6 DEF create_resume_run, InsertRun, Resumable, PreservedSession, Allocates,
       PlanInv, RunsInv, RowsAreDense
  <2>2. /\ missionStatus'[MissionOf[runTask[r]]] # "completed"
        /\ \A m \in Missions : missionStatus'[m] = "completed" => missionStatus[m] = "completed"
    BY <1>6, <1>T, <2>1 DEF create_resume_run, ReopenMission
  <2>3. Claims(runTask[r])
    BY <1>6, <2>1, <2>2 DEF Claims, create_resume_run, InsertRun
  <2> QED BY <2>1, <2>3 DEF PlanStep
<1>7. ASSUME NEW r \in Runs, run_session(r) PROVE PlanStep
  BY <1>7, <1>S DEF run_session, RowsStay
<1>8. ASSUME NEW r \in Runs, run_started(r) PROVE PlanStep
  <2>1. WorksOn(r, "running", "running")
    BY <1>8 DEF run_started, MayAdvance, SetRun, SetTask, WorksOn, ActiveStatuses, Held, Worked
  <2> QED BY <2>1, <1>W
<1>9. ASSUME NEW r \in Runs, NEW status \in Reported, run_status(r, status) PROVE PlanStep
  <2>1. Active(r) /\ UNCHANGED <<created, runTask, missionStatus, currentRun>>
    BY <1>9 DEF run_status, MayAdvance
  <2>2. CASE status = "working"
    <3> DEFINE held == \E s \in {r} : approval[s] = "pending"
               heldTask == \E s \in RunsOf(runTask[r]) : approval[s] = "pending"
               run == IF runStatus[r] \in {"waiting_for_input", "waiting_for_approval"} /\ ~ held
                      THEN "running" ELSE runStatus[r]
               work == IF taskStatus[runTask[r]] = "awaiting_approval" /\ ~ heldTask
                       THEN "running" ELSE taskStatus[runTask[r]]
    <3>1. runStatus' = [runStatus EXCEPT ![r] = run]
      BY <1>9, <2>2, <1>T DEF run_status
    <3>2. taskStatus' = [taskStatus EXCEPT ![runTask[r]] = work]
      BY <1>9, <2>1, <2>2, <1>T, <1>A DEF run_status
    <3>3. r \in RunsOf(runTask[r])
      BY <2>1, StatusKinds DEF RunsOf, Active
    <3>4. held => heldTask
      BY <3>3
    <3>5. run \in ActiveStatuses /\ work \in Held
      BY <2>1, <1>A DEF Active, ActiveStatuses, Held, Worked
    <3>6. run = "waiting_for_approval" => work \in {"awaiting_approval", "cancelled"}
      BY <2>1, <3>4, <1>A
    <3>7. WorksOn(r, run, work)
      <4> HIDE DEF run, work
      <4> QED BY <2>1, <3>1, <3>2, <3>5, <3>6 DEF WorksOn
    <3> QED BY <3>7, <1>W
  <2>3. CASE status # "working"
    BY <1>9, <2>1, <2>3, <1>S DEF run_status, RowsStay
  <2> QED BY <2>2, <2>3
<1>10. ASSUME NEW r \in Runs, run_approval_requested(r) PROVE PlanStep
  <2>1. WorksOn(r, "waiting_for_approval", "awaiting_approval")
    BY <1>10 DEF run_approval_requested, MayAdvance, SetRun, SetTask, WorksOn,
       ActiveStatuses, Held, Worked
  <2> QED BY <2>1, <1>W
<1>11. ASSUME NEW r \in Runs, NEW p \in Pressures, MetricsChange(r, p) PROVE PlanStep
  BY <1>11, <1>S DEF MetricsChange, RowsStay
<1>12. ASSUME NEW r \in Runs, run_verification_started(r) PROVE PlanStep
  <2>1. WorksOn(r, "verifying", "review")
    BY <1>12 DEF run_verification_started, MayAdvance, SetRun, SetTask, WorksOn,
       ActiveStatuses, Held, Worked
  <2> QED BY <2>1, <1>W
<1>13. ASSUME NEW r \in Runs, NEW c \in Checks, NEW status \in {"passed", "failed"},
              run_verification_evidence(r, c, status)
       PROVE PlanStep
  BY <1>13, <1>S DEF run_verification_evidence, RowsStay
<1>14. ASSUME NEW r \in Runs, run_verification_passed(r) PROVE PlanStep
  BY <1>14, <1>S DEF run_verification_passed, RowsStay
<1>15. ASSUME NEW r \in Runs, run_verification_waiting(r) PROVE PlanStep
  <2>1. WorksOn(r, "waiting_for_approval", "awaiting_approval")
    BY <1>15 DEF run_verification_waiting, MayAdvance, SetRun, SetTask, WorksOn,
       ActiveStatuses, Held, Worked
  <2> QED BY <2>1, <1>W
<1>R. ASSUME NEW r \in Runs, Active(r), RejectWork(r), UNCHANGED <<created, runTask>>
      PROVE  PlanStep
  <2>1. \A m \in Missions : missionStatus'[m] = "completed" => missionStatus[m] = "completed"
    BY <1>R, <1>T DEF RejectWork, OpenMissionBecomes
  <2>2. LetsGo(r)
    BY <1>R DEF RejectWork, ReleaseAgent, LetsGo
  <2> QED BY <1>R, <1>F, <2>1, <2>2 DEF RejectWork, Worked, TerminalStatuses
<1>C. ASSUME NEW r \in Runs, Active(r), SetRun(r, "completed"), CompleteTask(runTask[r]),
             ReleaseAgent(Agent(r)), UNCHANGED <<created, runTask>>
      PROVE  PlanStep
  <2> DEFINE t == runTask[r]
             statuses == ReadyChildren([taskStatus EXCEPT ![t] = "completed"], MissionOf[t])
  <2>1. taskStatus' = statuses
    BY <1>C DEF CompleteTask
  <2>2. taskStatus'[t] = "completed"
    BY <2>1, <1>A, <1>C, <1>T DEF ReadyChildren
  <2>3. \A u \in Tasks \ {t} : \/ taskStatus'[u] = taskStatus[u]
                               \/ taskStatus[u] = "pending" /\ taskStatus'[u] = "ready"
    BY <2>1, <1>T DEF ReadyChildren
  <2>4. MissionsFollow
    <3>1. missionStatus' = [missionStatus EXCEPT ![MissionOf[t]] =
             IF @ \in {"ready", "running"}
             THEN (IF MissionComplete(statuses, MissionOf[t]) THEN "completed" ELSE "running")
             ELSE @]
      BY <1>C DEF CompleteTask, OpenMissionBecomes
    <3> QED BY <2>1, <3>1, <1>T DEF MissionsFollow, MissionComplete
  <2>5. EndsRun(r, "completed")
    BY <1>C, <2>2, <2>3, <2>4 DEF EndsRun, SetRun, LetsGo, ReleaseAgent, Worked
  <2> QED BY <2>5, <1>E DEF TerminalStatuses
<1>16. ASSUME NEW r \in Runs, run_verification_failed(r) PROVE PlanStep
  BY <1>16, <1>R DEF run_verification_failed
<1>17. ASSUME NEW r \in Runs, run_completed(r) PROVE PlanStep
  BY <1>17, <1>C DEF run_completed, MayAdvance
<1>18. ASSUME NEW r \in Runs, run_failed(r) PROVE PlanStep
  <2> DEFINE retry == should_retry_runner_failure(breaker[r].stage, runTask[r])
             done == IF retry THEN "ready" ELSE "failed"
  <2>1. \A m \in Missions : missionStatus'[m] = "completed" => missionStatus[m] = "completed"
    BY <1>18, <1>T DEF run_failed, OpenMissionBecomes
  <2>2. LetsGo(r)
    BY <1>18 DEF run_failed, release_failed_run_agent, OwnsAgent, ReleaseAgent, LetsGo
  <2>3. Active(r) /\ SetRun(r, "failed") /\ SetTask(r, done) /\ UNCHANGED <<created, runTask>>
    BY <1>18 DEF run_failed
  <2>4. done \notin Worked
    BY DEF Worked
  <2> QED BY <2>1, <2>2, <2>3, <2>4, <1>F DEF TerminalStatuses
<1>19. ASSUME NEW r \in Runs, run_cancelled(r) PROVE PlanStep
  <2>1. \A m \in Missions : missionStatus'[m] = "completed" => missionStatus[m] = "completed"
    BY <1>19, <1>T DEF run_cancelled
  <2> QED BY <1>19, <1>F, <2>1
          DEF run_cancelled, ReleaseAgent, LetsGo, Worked, TerminalStatuses
<1>20. ASSUME NEW r \in Runs, NEW kept \in Cleanups, WorkspaceReport(r, kept) PROVE PlanStep
  BY <1>20, <1>S DEF WorkspaceReport, RowsStay
<1>21. ASSUME NEW r \in Runs, run_teardown_uncertain(r) PROVE PlanStep
  BY <1>21, <1>S DEF run_teardown_uncertain, RowsStay
<1>22. ASSUME NEW r \in Runs, EventRefused(r) PROVE PlanStep
  BY <1>22, <1>S DEF EventRefused, RowsStay
<1>23. ASSUME NEW r \in Runs, prepare_artifact_upload(r) PROVE PlanStep
  BY <1>23, <1>S DEF prepare_artifact_upload, RowsStay
<1>24. ASSUME NEW r \in Runs, finalize_artifact_upload(r) PROVE PlanStep
  <2>1. CASE Active(r)
    <3>1. WorksOn(r, "verifying", "review")
      BY <1>24, <2>1 DEF finalize_artifact_upload, SetRun, SetTask, WorksOn,
         ActiveStatuses, Held, Worked
    <3> QED BY <3>1, <1>W
  <2>2. CASE ~ Active(r)
    BY <1>24, <2>2, <1>S DEF finalize_artifact_upload, RowsStay
  <2> QED BY <2>1, <2>2
<1>25. ASSUME NEW r \in Runs, NEW outcome \in {"rejected", "none"},
              DropStagedArtifact(r, outcome)
       PROVE PlanStep
  BY <1>25, <1>S DEF DropStagedArtifact, RowsStay
<1>26. ASSUME NEW r \in Runs, evaluate_circuit_breaker(r) PROVE PlanStep
  <2>1. Active(r) /\ UNCHANGED <<created, runTask, missionStatus, currentRun>>
    BY <1>26 DEF evaluate_circuit_breaker, Active
  <2>2. CASE breaker[r].pressure = "suspend"
    <3> DEFINE run == IF runStatus[r] = "running" THEN "waiting_for_input" ELSE runStatus[r]
               work == IF taskStatus[runTask[r]] = "running" THEN "blocked"
                       ELSE taskStatus[runTask[r]]
    <3>1. /\ runStatus' = [runStatus EXCEPT ![r] = run]
          /\ taskStatus' = [taskStatus EXCEPT ![runTask[r]] = work]
      BY <1>26, <2>1, <2>2, <1>T, <1>A DEF evaluate_circuit_breaker
    <3>2. run \in ActiveStatuses /\ work \in Held
      BY <2>1, <1>A DEF Active, ActiveStatuses, Held, Worked
    <3>3. run = "waiting_for_approval" => work \in {"awaiting_approval", "cancelled"}
      BY <2>1, <1>A
    <3>4. WorksOn(r, run, work)
      <4> HIDE DEF run, work
      <4> QED BY <2>1, <3>1, <3>2, <3>3 DEF WorksOn
    <3> QED BY <3>4, <1>W
  <2>3. CASE breaker[r].pressure # "suspend"
    BY <1>26, <2>1, <2>3, <1>S DEF evaluate_circuit_breaker, RowsStay
  <2> QED BY <2>2, <2>3
<1>27. ASSUME NEW r \in Runs, ApprovalDue(r) PROVE PlanStep
  BY <1>27, <1>S DEF ApprovalDue, RowsStay
<1>28. ASSUME NEW r \in Runs, expire_action_approval(r) PROVE PlanStep
  <2>1. \A m \in Missions : missionStatus'[m] = "completed" => missionStatus[m] = "completed"
    BY <1>28, <1>T DEF expire_action_approval
  <2>2. CASE runStatus[r] = "waiting_for_approval"
    <3>1. Active(r)
      BY <2>2 DEF Active, ActiveStatuses
    <3>2. SetRun(r, "cancelled") /\ UNCHANGED <<created, runTask>>
      BY <1>28, <2>2, <1>T DEF expire_action_approval, CancelWaitingRun, SetRun
    <3>3. SetTask(r, "cancelled")
      BY <1>28, <2>2, <3>1, <1>T, <1>A DEF expire_action_approval, CancelWaitingTask, SetTask
    <3>4. LetsGo(r)
      BY <1>28 DEF expire_action_approval, ReleaseAgentIfCurrent, ReleaseAgent, LetsGo
    <3> QED BY <2>1, <3>1, <3>2, <3>3, <3>4, <1>F DEF Worked, TerminalStatuses
  <2>3. CASE runStatus[r] # "waiting_for_approval"
    <3>1. runStatus' = runStatus
      BY <1>28, <2>3, <1>T DEF expire_action_approval, CancelWaitingRun
    <3>2. currentRun' \in {currentRun, [currentRun EXCEPT ![Agent(r)] = NoRun]}
      BY <1>28 DEF expire_action_approval, ReleaseAgentIfCurrent, ReleaseAgent
    <3>3. ExpiresLate(r)
      BY <1>28, <2>1, <3>1, <3>2 DEF expire_action_approval, ExpiresLate
    <3> QED BY <3>3 DEF PlanStep
  <2> QED BY <2>2, <2>3
<1>29. ASSUME NEW r \in Runs, ExpiryTimerFires(r) \/ DecideExpired(r) PROVE PlanStep
  BY <1>28, <1>29, <1>S DEF ExpiryTimerFires, DecideExpired, RowsStay
<1>30. ASSUME NEW r \in Runs, NEW verdict \in {"approved", "rejected"},
              decide_action_approval(r, verdict)
       PROVE PlanStep
  BY <1>30, <1>S DEF decide_action_approval, RowsStay
<1>31. ASSUME NEW r \in Runs, NEW approved \in BOOLEAN, decide_verification(r, approved)
       PROVE PlanStep
  <2>1. Active(r) /\ UNCHANGED <<created, runTask>>
    BY <1>31 DEF decide_verification, Active, ActiveStatuses
  <2>2. CASE approved
    BY <1>31, <2>1, <2>2, <1>C DEF decide_verification
  <2>3. CASE ~ approved
    BY <1>31, <2>1, <2>3, <1>R DEF decide_verification
  <2> QED BY <2>2, <2>3
<1>32. ASSUME NEW lost \in SUBSET Runs, mark_runner_runs_lost(lost) PROVE PlanStep
  <2>1. Finishes(lost, "lost")
    BY <1>32 DEF mark_runner_runs_lost, OnlyActiveRuns, Finishes
  <2>2. \A m \in Missions : missionStatus'[m] = "completed" => missionStatus[m] = "completed"
    BY <1>32 DEF mark_runner_runs_lost
  <2>3. LosesRuns(lost)
    BY <1>32, <2>1, <2>2 DEF mark_runner_runs_lost, LosesRuns
  <2> QED BY <2>3 DEF PlanStep
<1>33. CASE ServerRestart
  BY <1>33, <1>S DEF ServerRestart, RowsStay
<1>34. ASSUME NEW m \in Messages, queue_message(m) PROVE PlanStep
  BY <1>34, <1>S DEF queue_message, RowsStay
<1>35. CASE UNCHANGED vars
  BY <1>35, <1>S DEF vars, RowsStay
<1> QED BY <1>1, <1>2, <1>3, <1>4, <1>5, <1>6, <1>7, <1>8, <1>9, <1>10, <1>11,
           <1>12, <1>13, <1>14, <1>15, <1>16, <1>17, <1>18, <1>19, <1>20, <1>21,
           <1>22, <1>23, <1>24, <1>25, <1>26, <1>27, <1>29, <1>30, <1>31, <1>32,
           <1>33, <1>34, <1>35
        DEF Next, SchedulerStep, RunnerStep, StoreStep, HumanStep

\* Runs, tasks, missions and agents agree in every reachable state.
LEMMA PlanInvariant == Spec => []PlanInv
<1>1. PlanInv /\ [Next]_vars => PlanInv'
  BY NextRunsInv, StepOnPlan, PlanStepInv DEF PlanInv
<1> QED BY InitPlanInv, <1>1, PTL DEF Spec


-----------------------------------------------------------------------------
(* Dispatch, lineage, attempts and reserved messages.                      *)

\* How far the handler that allocated a run has come decides what its runner
\* can have said: a runner works only on a run that was sent, and a run marked
\* not started was refused before anything was sent.
DispatchOrder ==
  \A r \in Runs :
    /\ runStatus[r] = "absent" => dispatch[r] = "none"
    /\ dispatch[r] # "sent" => worker[r] = "none"
    /\ workspace[r].notStarted => dispatch[r] = "refused" /\ runStatus[r] = "failed"

\* A message is reserved by a run that exists.
ReservedRunExists ==
  \A m \in Messages : inbox[m].status = "reserved" =>
    inbox[m].run \in Runs /\ runStatus[inbox[m].run] # "absent"

FreshRuns(t) == {r \in RunsOf(t) : lineage[r].source = NoRun}

\* A new row, of a fresh run that spends an attempt or of a run that resumes
\* the newest run of a worktree.
Inserts(t, src, root) ==
  LET n == created + 1
  IN /\ n \in Runs
     /\ created' = n
     /\ runStatus' = [runStatus EXCEPT ![n] = "starting"]
     /\ runTask' = [runTask EXCEPT ![n] = t]
     /\ lineage' = [lineage EXCEPT ![n] = [source |-> src, root |-> root]]
     /\ dispatch' = [dispatch EXCEPT ![n] = "sending"]
     /\ \A r \in Runs : r # n => workspace'[r] = workspace[r]
     /\ workspace'[n].notStarted = workspace[n].notStarted
     /\ \A m \in Messages : inbox'[m] \in {inbox[m], [status |-> "reserved", run |-> n]}
     /\ UNCHANGED worker
     /\ \/ /\ src = NoRun
           /\ attempts[t] < MaxAttempts[t]
           /\ attempts' = [attempts EXCEPT ![t] = @ + 1]
        \/ /\ src \in Runs
           /\ root = lineage[src].root
           /\ latest_workspace_source(src)
           /\ UNCHANGED attempts

\* The handler fails the run it could not send.
Refuses(r) ==
  /\ Active(r)
  /\ dispatch[r] = "sending"
  /\ dispatch' = [dispatch EXCEPT ![r] = "refused"]
  /\ runStatus' = [runStatus EXCEPT ![r] = "failed"]
  /\ workspace' = [workspace EXCEPT ![r].notStarted = TRUE]
  /\ RequeueReserved({r})
  /\ UNCHANGED <<created, runTask, lineage, attempts, worker>>

\* Active runs are lost and give their messages back.
GivesBack(lost) ==
  /\ Finishes(lost, "lost")
  /\ RequeueReserved(lost)
  /\ UNCHANGED <<lineage, attempts, workspace, dispatch, worker>>

\* Everything else: a send completes or is forgotten, a runner that was started
\* reports, an active run moves, a message is queued or delivered.
Progress ==
  /\ UNCHANGED <<created, runTask, lineage, attempts>>
  /\ \A r \in Runs :
       /\ \/ dispatch'[r] = dispatch[r]
          \/ dispatch[r] = "sending" /\ dispatch'[r] # "none"
       /\ \/ worker'[r] = worker[r]
          \/ worker[r] # "none" /\ dispatch'[r] = dispatch[r]
          \/ dispatch'[r] = "sent"
       /\ \/ workspace'[r] = workspace[r]
          \/ /\ worker[r] # "none"
             /\ workspace'[r].notStarted => workspace[r].notStarted
       /\ \/ runStatus'[r] = runStatus[r]
          \/ Active(r) /\ runStatus'[r] \notin {"lost", "absent"}
  /\ \A m \in Messages : inbox'[m] = inbox[m] \/ inbox'[m].status # "reserved"

\* The things a step can do to these rows.
LedgerStep ==
  \/ \E t \in Tasks, src \in RunRef, root \in RunRef : Inserts(t, src, root)
  \/ \E r \in Runs : Refuses(r)
  \/ \E lost \in SUBSET Runs : GivesBack(lost)
  \/ Progress

\* The inductive invariant of these rows.
LedgerInv ==
  /\ RunsInv /\ DispatchOrder /\ ReservedRunExists
  /\ ReservedMessageIsOwed /\ LineageIsChain /\ AttemptsAreRuns

\* The empty tables satisfy it.
LEMMA InitLedgerInv == Init => LedgerInv
<1> SUFFICES ASSUME Init PROVE LedgerInv
  OBVIOUS
<1>1. \A r \in Runs : runStatus[r] = "absent"
  BY DEF Init
<1>2. DispatchOrder
  BY DEF Init, DispatchOrder
<1>3. ReservedRunExists /\ ReservedMessageIsOwed
  BY DEF Init, ReservedRunExists, ReservedMessageIsOwed
<1>4. LineageIsChain
  BY <1>1 DEF LineageIsChain
<1>5. AttemptsAreRuns
  <2>1. \A t \in Tasks : FreshRuns(t) = {}
    BY <1>1 DEF FreshRuns, RunsOf
  <2>2. \A t \in Tasks : attempts[t] = 0 /\ 0 <= MaxAttempts[t]
    BY DEF Init
  <2>3. \A t \in Tasks : attempts[t] = Cardinality(FreshRuns(t))
    BY <2>1, <2>2, FS_EmptySet
  <2> QED BY <2>2, <2>3 DEF AttemptsAreRuns, FreshRuns
<1> QED BY InitRunsInv, <1>2, <1>3, <1>4, <1>5 DEF LedgerInv

\* A set of runs is finite.
LEMMA RunsFinite == \A S \in SUBSET Runs : IsFiniteSet(S)
<1>1. IsFiniteSet(Runs)
  <2>1. 1 \in Int /\ MaxRuns \in Int
    OBVIOUS
  <2> QED BY <2>1, FS_Interval
<1> QED BY <1>1, FS_Subset

\* A step of LedgerStep preserves the invariant.
LEMMA LedgerStepInv ==
  ASSUME LedgerInv, RunsInv', LedgerStep
  PROVE  LedgerInv'
<1>1. /\ created \in 0 .. MaxRuns
      /\ runStatus \in [Runs -> RunStatuses]
      /\ runTask \in [Runs -> Tasks \cup {NoTask}]
      /\ lineage \in [Runs -> Lineages]
      /\ workspace \in [Runs -> Workspaces]
      /\ attempts \in [Tasks -> Nat]
      /\ inbox \in [Messages -> Notes]
      /\ dispatch \in [Runs -> {"none", "sending", "sent", "refused", "orphaned"}]
  BY DEF LedgerInv, RunsInv, TypeOK
<1>2. \A r \in Runs : runStatus[r] = "absent" <=> r > created
  BY DEF LedgerInv, RunsInv, RowsAreDense
<1> DEFINE Before(r) == lineage_run_is_pre_dispatch_failure(r)
\* The rows that were there keep their lineage, and the ones that failed before
\* dispatch keep that.
<1>K. ASSUME UNCHANGED <<lineage>>,
             \A s \in Runs : runStatus'[s] = "absent" <=> runStatus[s] = "absent",
             \A s \in Runs : Before(s) => Before(s)'
      PROVE  LineageIsChain'
  BY <1>K DEF LedgerInv, LineageIsChain, LineageOf
<1>N. ASSUME UNCHANGED <<lineage, attempts, runTask>>,
             \A s \in Runs : runStatus'[s] = "absent" <=> runStatus[s] = "absent"
      PROVE  AttemptsAreRuns'
  <2>1. \A t \in Tasks : FreshRuns(t)' = FreshRuns(t)
    BY <1>N DEF FreshRuns, RunsOf
  <2>2. \A t \in Tasks : attempts[t] <= MaxAttempts[t] /\ attempts[t] = Cardinality(FreshRuns(t))
    BY DEF LedgerInv, AttemptsAreRuns, FreshRuns
  <2>3. \A t \in Tasks : attempts'[t] <= MaxAttempts[t] /\ attempts'[t] = Cardinality(FreshRuns(t)')
    BY <1>N, <2>1, <2>2
  <2> QED BY <2>3 DEF AttemptsAreRuns, FreshRuns
<1>3. ASSUME NEW t \in Tasks, NEW src \in RunRef, NEW root \in RunRef, Inserts(t, src, root)
      PROVE  LedgerInv'
  <2> DEFINE n == created + 1
  <2>1. n \in Runs /\ runStatus[n] = "absent" /\ n > created
    BY <1>1, <1>2, <1>3 DEF Inserts
  <2>2. \A s \in Runs : s # n =>
          /\ runStatus'[s] = runStatus[s] /\ runTask'[s] = runTask[s]
          /\ lineage'[s] = lineage[s] /\ dispatch'[s] = dispatch[s]
          /\ workspace'[s] = workspace[s]
    BY <1>1, <1>3 DEF Inserts
  <2>3. /\ runStatus'[n] = "starting" /\ runTask'[n] = t /\ dispatch'[n] = "sending"
        /\ lineage'[n] = [source |-> src, root |-> root]
        /\ workspace'[n].notStarted = workspace[n].notStarted
    BY <1>1, <1>3, <2>1 DEF Inserts
  <2>4. dispatch[n] = "none" /\ worker[n] = "none" /\ ~ workspace[n].notStarted
    BY <2>1 DEF LedgerInv, DispatchOrder
  <2>5. DispatchOrder'
    <3>1. worker' = worker
      BY <1>3 DEF Inserts
    <3> QED BY <2>2, <2>3, <2>4, <3>1 DEF LedgerInv, DispatchOrder
  <2>6. ReservedRunExists'
    BY <1>3, <2>1, <2>2, <2>3 DEF Inserts, LedgerInv, ReservedRunExists
  <2>7. ReservedMessageIsOwed'
    BY <1>3, <2>1, <2>2, <2>3, <2>4 DEF Inserts, LedgerInv, ReservedRunExists, ReservedMessageIsOwed
  <2>8. \A s \in Runs : s # n => Before(s)' = Before(s)
    BY <2>2 DEF lineage_run_is_pre_dispatch_failure
  <2>9. \A s \in Runs : s # n /\ runStatus'[s] # "absent" => s < n
    BY <1>1, <1>2, <2>2
  <2>10. LineageIsChain'
    <3> SUFFICES ASSUME NEW r \in Runs, runStatus'[r] # "absent", lineage'[r].source # NoRun,
                        NEW s \in Runs, runStatus'[s] # "absent",
                        lineage'[s].root = lineage'[r].root,
                        lineage'[r].source < s, s < r
                 PROVE  Before(s)'
      BY DEF LineageIsChain, LineageOf
    <3>1. s # n
      <4>1. CASE r = n
        BY <4>1
      <4>2. CASE r # n
        BY <4>2, <2>9, <1>1
      <4> QED BY <4>1, <4>2
    <3>2. CASE r = n
      <4>1. src # NoRun /\ lineage'[r].source = src /\ lineage'[r].root = root
        BY <3>2, <2>3
      <4>2. src \in Runs /\ root = lineage[src].root /\ latest_workspace_source(src)
        BY <1>3, <4>1 DEF Inserts
      <4>3. s \in LineageOf(lineage[src].root) /\ s > src
        BY <3>1, <4>1, <4>2, <2>2 DEF LineageOf
      <4>4. Before(s)
        BY <4>2, <4>3 DEF latest_workspace_source
      <4> QED BY <3>1, <4>4, <2>8
    <3>3. CASE r # n
      <4>1. /\ runStatus[r] # "absent" /\ lineage[r].source # NoRun
            /\ runStatus[s] # "absent" /\ lineage[s].root = lineage[r].root
            /\ lineage[r].source < s
        BY <3>1, <3>3, <2>2
      <4>2. Before(s)
        BY <4>1 DEF LedgerInv, LineageIsChain, LineageOf
      <4> QED BY <3>1, <4>2, <2>8
    <3> QED BY <3>2, <3>3
  <2>11. AttemptsAreRuns'
    <3>1. \A u \in Tasks : attempts[u] <= MaxAttempts[u] /\ attempts[u] = Cardinality(FreshRuns(u))
      BY DEF LedgerInv, AttemptsAreRuns, FreshRuns
    <3>2. \A u \in Tasks : n \notin FreshRuns(u) /\ IsFiniteSet(FreshRuns(u))
      BY <2>1, RunsFinite DEF FreshRuns, RunsOf
    <3>3. \A u \in Tasks : FreshRuns(u)' =
            IF u = t /\ src = NoRun THEN FreshRuns(u) \cup {n} ELSE FreshRuns(u)
      <4>1. \A u \in Tasks, s \in Runs : s # n => (s \in FreshRuns(u)' <=> s \in FreshRuns(u))
        <5> SUFFICES ASSUME NEW u \in Tasks, NEW s \in Runs, s # n
                     PROVE  s \in FreshRuns(u)' <=> s \in FreshRuns(u)
          OBVIOUS
        <5>1. runStatus'[s] = runStatus[s] /\ runTask'[s] = runTask[s] /\ lineage'[s] = lineage[s]
          BY <2>2
        <5> QED BY <5>1 DEF FreshRuns, RunsOf
      <4>2. \A u \in Tasks : n \in FreshRuns(u)' <=> (u = t /\ src = NoRun)
        BY <2>1, <2>3 DEF FreshRuns, RunsOf
      <4>3. \A u \in Tasks : FreshRuns(u) \subseteq Runs /\ FreshRuns(u)' \subseteq Runs
        BY DEF FreshRuns, RunsOf
      <4> SUFFICES ASSUME NEW u \in Tasks
                   PROVE  FreshRuns(u)' =
                            IF u = t /\ src = NoRun THEN FreshRuns(u) \cup {n} ELSE FreshRuns(u)
        OBVIOUS
      <4> DEFINE S == FreshRuns(u)
                 T == FreshRuns(u)'
      <4>4. /\ S \subseteq Runs /\ T \subseteq Runs /\ n \in Runs /\ n \notin S
            /\ \A s \in Runs : s # n => (s \in T <=> s \in S)
            /\ n \in T <=> (u = t /\ src = NoRun)
        BY <2>1, <3>2, <4>1, <4>2, <4>3
      <4> HIDE DEF n, S, T
      <4>5. CASE u = t /\ src = NoRun
        <5>1. T = S \cup {n}
          BY <4>4, <4>5
        <5> QED BY <4>5, <5>1 DEF S, T
      <4>6. CASE ~ (u = t /\ src = NoRun)
        <5>1. T = S
          <6>1. T \subseteq S /\ S \subseteq T
            BY <4>4, <4>6
          <6> QED BY <6>1
        <5> QED BY <4>6, <5>1 DEF S, T
      <4> QED BY <4>5, <4>6
    <3>4. CASE src = NoRun
      <4>1. attempts[t] < MaxAttempts[t] /\ attempts' = [attempts EXCEPT ![t] = @ + 1]
        BY <1>3, <3>4 DEF Inserts
      <4>2. Cardinality(FreshRuns(t) \cup {n}) = Cardinality(FreshRuns(t)) + 1
        BY <3>2, FS_AddElement
      <4>3. \A u \in Tasks : attempts'[u] = IF u = t THEN attempts[u] + 1 ELSE attempts[u]
        BY <4>1, <1>1
      <4>4. \A u \in Tasks : /\ attempts'[u] <= MaxAttempts[u]
                             /\ attempts'[u] = Cardinality(FreshRuns(u)')
        <5> SUFFICES ASSUME NEW u \in Tasks
                     PROVE  attempts'[u] <= MaxAttempts[u] /\ attempts'[u] = Cardinality(FreshRuns(u)')
          OBVIOUS
        <5>1. CASE u = t
          <6>1. attempts[t] \in Nat /\ MaxAttempts[t] \in Nat
            BY <1>1
          <6>2. attempts'[t] = attempts[t] + 1 /\ attempts[t] = Cardinality(FreshRuns(t))
            BY <3>1, <4>3
          <6>3. FreshRuns(t)' = FreshRuns(t) \cup {n}
            BY <3>3, <3>4
          <6> QED BY <5>1, <4>1, <4>2, <6>1, <6>2, <6>3
        <5>2. CASE u # t
          BY <5>2, <3>1, <3>3, <4>3
        <5> QED BY <5>1, <5>2
      <4> QED BY <4>4 DEF AttemptsAreRuns, FreshRuns
    <3>5. CASE src # NoRun
      <4>1. attempts' = attempts
        BY <1>3, <3>5 DEF Inserts
      <4>2. \A u \in Tasks : /\ attempts'[u] <= MaxAttempts[u]
                             /\ attempts'[u] = Cardinality(FreshRuns(u)')
        BY <3>1, <3>3, <3>5, <4>1
      <4> QED BY <4>2 DEF AttemptsAreRuns, FreshRuns
    <3> QED BY <3>4, <3>5
  <2> QED BY <2>5, <2>6, <2>7, <2>10, <2>11 DEF LedgerInv
<1>4. ASSUME NEW r \in Runs, Refuses(r) PROVE LedgerInv'
  <2>1. \A s \in Runs : s # r =>
          /\ runStatus'[s] = runStatus[s] /\ dispatch'[s] = dispatch[s]
          /\ workspace'[s] = workspace[s]
    BY <1>1, <1>4 DEF Refuses
  <2>2. runStatus'[r] = "failed" /\ dispatch'[r] = "refused" /\ worker' = worker
    BY <1>1, <1>4 DEF Refuses
  <2>3. \A s \in Runs : runStatus'[s] = "absent" <=> runStatus[s] = "absent"
    BY <1>4, <2>1, <2>2, StatusKinds DEF Refuses, Active
  <2>4. DispatchOrder'
    BY <1>4, <2>1, <2>2 DEF Refuses, LedgerInv, DispatchOrder
  <2>5. \A m \in Messages : inbox'[m].status = "reserved" => inbox'[m] = inbox[m] /\ inbox[m].run # r
    BY <1>1, <1>4 DEF Refuses, RequeueReserved
  <2>6. ReservedRunExists' /\ ReservedMessageIsOwed'
    BY <2>1, <2>3, <2>5 DEF LedgerInv, ReservedRunExists, ReservedMessageIsOwed
  <2>7. \A s \in Runs : Before(s) => Before(s)'
    <3>1. runStatus[r] # "failed"
      BY <1>4 DEF Refuses, Active, ActiveStatuses
    <3> QED BY <2>1, <3>1 DEF lineage_run_is_pre_dispatch_failure
  <2>8. UNCHANGED <<lineage, attempts, runTask>>
    BY <1>4 DEF Refuses
  <2> QED BY <2>3, <2>4, <2>6, <2>7, <2>8, <1>K, <1>N DEF LedgerInv
<1>5. ASSUME NEW lost \in SUBSET Runs, GivesBack(lost) PROVE LedgerInv'
  <2>1. \A s \in Runs : runStatus'[s] = IF s \in lost THEN "lost" ELSE runStatus[s]
    BY <1>5 DEF GivesBack, Finishes
  <2>2. \A s \in lost : runStatus[s] \in ActiveStatuses
    BY <1>5 DEF GivesBack, Finishes, Active
  <2>3. \A s \in Runs : runStatus'[s] = "absent" <=> runStatus[s] = "absent"
    BY <2>1, <2>2, StatusKinds
  <2>4. UNCHANGED <<lineage, attempts, runTask, workspace, dispatch, worker>>
    BY <1>5 DEF GivesBack, Finishes
  <2>5. \A s \in Runs : runStatus[s] = "failed" => runStatus'[s] = "failed"
    BY <2>1, <2>2 DEF ActiveStatuses
  <2>6. DispatchOrder'
    BY <2>3, <2>4, <2>5 DEF LedgerInv, DispatchOrder
  <2>7. \A m \in Messages : inbox'[m].status = "reserved" =>
          inbox'[m] = inbox[m] /\ inbox[m].run \notin lost
    BY <1>1, <1>5 DEF GivesBack, RequeueReserved
  <2>8. ReservedRunExists' /\ ReservedMessageIsOwed'
    BY <2>1, <2>3, <2>4, <2>7 DEF LedgerInv, ReservedRunExists, ReservedMessageIsOwed
  <2>9. \A s \in Runs : Before(s) => Before(s)'
    BY <2>4, <2>5 DEF lineage_run_is_pre_dispatch_failure
  <2> QED BY <2>3, <2>4, <2>6, <2>8, <2>9, <1>K, <1>N DEF LedgerInv
<1>6. CASE Progress
  <2>1. \A s \in Runs : runStatus'[s] = "absent" <=> runStatus[s] = "absent"
    BY <1>6, StatusKinds DEF Progress, Active
  <2>2. \A s \in Runs : runStatus[s] = "failed" => runStatus'[s] = "failed"
    BY <1>6 DEF Progress, Active, ActiveStatuses
  <2>3. \A s \in Runs : workspace[s].notStarted => workspace'[s] = workspace[s]
    BY <1>6 DEF Progress, LedgerInv, DispatchOrder
  <2>4. DispatchOrder'
    BY <1>6, <2>1, <2>2, <2>3 DEF Progress, LedgerInv, DispatchOrder
  <2>5. \A s \in Runs : workspace'[s].notStarted => workspace[s].notStarted
    BY <1>6 DEF Progress
  <2>6. \A s \in Runs : runStatus'[s] = "lost" => runStatus[s] = "lost"
    BY <1>6 DEF Progress
  <2>7. ReservedRunExists' /\ ReservedMessageIsOwed'
    BY <1>6, <2>1, <2>5, <2>6 DEF Progress, LedgerInv, ReservedRunExists, ReservedMessageIsOwed
  <2>8. \A s \in Runs : Before(s) => Before(s)'
    BY <2>2, <2>3 DEF lineage_run_is_pre_dispatch_failure
  <2>9. UNCHANGED <<lineage, attempts, runTask>>
    BY <1>6 DEF Progress
  <2> QED BY <2>1, <2>4, <2>7, <2>8, <2>9, <1>K, <1>N DEF LedgerInv
<1> QED BY <1>3, <1>4, <1>5, <1>6 DEF LedgerStep


\* Every transaction is one of these steps.
LEMMA StepOnLedger == LedgerInv /\ [Next]_vars => LedgerStep
<1> SUFFICES ASSUME LedgerInv, [Next]_vars PROVE LedgerStep
  OBVIOUS
<1> USE DEF planVars, runVars, approvalVars, storeVars, serverVars
<1>T. /\ created \in 0 .. MaxRuns
      /\ runStatus \in [Runs -> RunStatuses]
      /\ runTask \in [Runs -> Tasks \cup {NoTask}]
      /\ lineage \in [Runs -> Lineages]
      /\ workspace \in [Runs -> Workspaces]
      /\ worker \in [Runs -> Alive \cup {"none", "done", "gone"}]
      /\ dispatch \in [Runs -> {"none", "sending", "sent", "refused", "orphaned"}]
      /\ inbox \in [Messages -> Notes]
  BY DEF LedgerInv, RunsInv, TypeOK
\* Only the status of one active run changes, and the runner of one run moves on.
<1>P. ASSUME UNCHANGED <<created, runTask, lineage, attempts, dispatch, workspace, inbox>>,
             \/ runStatus' = runStatus
             \/ \E r \in Runs, status \in RunStatuses \ {"lost", "absent"} :
                  Active(r) /\ SetRun(r, status),
             \/ worker' = worker
             \/ \E r \in Runs : \E to : worker[r] # "none" /\ worker' = [worker EXCEPT ![r] = to]
      PROVE  LedgerStep
  <2>1. \A r \in Runs : \/ runStatus'[r] = runStatus[r]
                        \/ Active(r) /\ runStatus'[r] \notin {"lost", "absent"}
    BY <1>P, <1>T DEF SetRun
  <2>2. \A r \in Runs : worker'[r] = worker[r] \/ worker[r] # "none"
    BY <1>P, <1>T
  <2> QED BY <1>P, <2>1, <2>2 DEF LedgerStep, Progress
\* A runner that was started reports on its worktree.
<1>V. ASSUME NEW r \in Runs, worker[r] # "none",
             UNCHANGED <<created, runTask, lineage, attempts, dispatch, inbox, runStatus>>,
             \A s \in Runs : s # r => workspace'[s] = workspace[s] /\ worker'[s] = worker[s],
             workspace'[r].notStarted => workspace[r].notStarted
      PROVE  LedgerStep
  BY <1>V DEF LedgerStep, Progress
<1>1. ASSUME NEW m \in Missions, schedulable_tasks(m) PROVE LedgerStep
  BY <1>1, <1>P DEF schedulable_tasks
<1>2. ASSUME NEW t \in Tasks, create_task_run(t) PROVE LedgerStep
  <2> DEFINE n == created + 1
  <2>1. n \in Runs /\ attempts[t] < MaxAttempts[t]
    BY <1>2 DEF create_task_run, RunAllowed, WantsRun
  <2>2. \A m \in Messages : inbox'[m] \in {inbox[m], [status |-> "reserved", run |-> n]}
    BY <1>2 DEF create_task_run, InsertRun, reserve_queued_messages
  <2>3. /\ \A r \in Runs : r # n => workspace'[r] = workspace[r]
        /\ workspace'[n].notStarted = workspace[n].notStarted
    BY <1>2, <1>T, <2>1 DEF create_task_run, InsertRun, Workspaces
  <2>4. Inserts(t, NoRun, n)
    BY <1>2, <2>1, <2>2, <2>3 DEF Inserts, create_task_run, InsertRun, CountAttempt
  <2> QED BY <2>1, <2>4 DEF LedgerStep
<1>3. ASSUME NEW t \in Tasks, CandidateDropped(t) PROVE LedgerStep
  BY <1>3, <1>P DEF CandidateDropped
<1>4. ASSUME NEW r \in Runs, CommandSent(r) PROVE LedgerStep
  <2>1. \A s \in Runs :
          /\ \/ dispatch'[s] = dispatch[s]
             \/ dispatch[s] = "sending" /\ dispatch'[s] # "none"
          /\ worker'[s] = worker[s] \/ dispatch'[s] = "sent"
    BY <1>4, <1>T DEF CommandSent
  <2> QED BY <1>4, <2>1 DEF CommandSent, LedgerStep, Progress
<1>5. ASSUME NEW r \in Runs, fail_run_before_dispatch(r) PROVE LedgerStep
  <2>1. CASE DispatchFailureApplies(r)
    <3>1. Active(r)
      BY <2>1 DEF DispatchFailureApplies, Active, ActiveStatuses
    <3>2. Refuses(r)
      BY <1>5, <2>1, <3>1 DEF fail_run_before_dispatch, Refuses
    <3> QED BY <3>2 DEF LedgerStep
  <2>2. CASE ~ DispatchFailureApplies(r)
    <3>1. \A s \in Runs :
     \/ dispatch'[s] = dispatch[s]
     \/ dispatch[s] = "sending" /\ dispatch'[s] # "none"
      BY <1>5, <1>T DEF fail_run_before_dispatch
    <3> QED BY <1>5, <2>2, <3>1 DEF fail_run_before_dispatch, LedgerStep, Progress
  <2> QED BY <2>1, <2>2
<1>6. ASSUME NEW r \in Runs, create_resume_run(r) PROVE LedgerStep
  <2> DEFINE n == created + 1
             t == runTask[r]
             root == lineage[r].root
  <2>1. n \in Runs /\ latest_workspace_source(r) /\ t \in Tasks /\ root \in RunRef
    BY <1>6, <1>T DEF create_resume_run, Resumable, PreservedSession, LedgerInv, RunsInv,
       RowsAreDense, Lineages
  <2>2. \A m \in Messages : inbox'[m] \in {inbox[m], [status |-> "reserved", run |-> n]}
    BY <1>6 DEF create_resume_run, InsertRun, reserve_queued_messages
  <2>3. /\ \A s \in Runs : s # n => workspace'[s] = workspace[s]
        /\ workspace'[n].notStarted = workspace[n].notStarted
    BY <1>6, <1>T, <2>1 DEF create_resume_run, InsertRun, Workspaces
  <2>4. Inserts(t, r, root)
    BY <1>6, <2>1, <2>2, <2>3 DEF Inserts, create_resume_run, InsertRun
  <2> QED BY <2>1, <2>4 DEF LedgerStep
<1>7. ASSUME NEW r \in Runs, run_session(r) PROVE LedgerStep
  <2>1. \A s \in Runs : s # r => workspace'[s] = workspace[s] /\ worker'[s] = worker[s]
    BY <1>7, <1>T DEF run_session
  <2>2. workspace'[r].notStarted => workspace[r].notStarted
    BY <1>7, <1>T DEF run_session, Workspaces
  <2> QED BY <1>7, <2>1, <2>2, <1>V DEF run_session
<1>8. ASSUME NEW r \in Runs, run_started(r) PROVE LedgerStep
  <2>1. \A s \in Runs : \/ runStatus'[s] = runStatus[s]
                        \/ Active(s) /\ runStatus'[s] \notin {"lost", "absent"}
    BY <1>8, <1>T DEF run_started, MayAdvance, SetRun
  <2>2. \A s \in Runs : worker'[s] = worker[s] \/ worker[s] # "none"
    BY <1>8, <1>T DEF run_started, Emits
  <2>3. \A s \in Runs : \/ workspace'[s] = workspace[s]
                        \/ worker[s] # "none" /\ ~ workspace'[s].notStarted
    BY <1>8, <1>T DEF run_started, Emits, Workspaces
  <2>4. \A m \in Messages : inbox'[m] = inbox[m] \/ inbox'[m].status # "reserved"
    BY <1>8, <1>T DEF run_started, Notes
  <2> QED BY <1>8, <2>1, <2>2, <2>3, <2>4 DEF run_started, LedgerStep, Progress
<1>9. ASSUME NEW r \in Runs, NEW status \in Reported, run_status(r, status) PROVE LedgerStep
  <2>1. Active(r) /\ runStatus[r] \notin {"lost", "absent"}
    BY <1>9 DEF run_status, MayAdvance, Active, ActiveStatuses
  <2>2. \/ runStatus' = runStatus
        \/ SetRun(r, runStatus[r])
        \/ SetRun(r, "running")
    BY <1>9 DEF run_status, SetRun
  <2> QED BY <1>9, <2>1, <2>2, <1>T, <1>P
          DEF run_status, RunStatuses, ActiveStatuses
<1>10. ASSUME NEW r \in Runs, run_approval_requested(r) PROVE LedgerStep
  BY <1>10, <1>P DEF run_approval_requested, MayAdvance, RunStatuses, ActiveStatuses
<1>11. ASSUME NEW r \in Runs, NEW p \in Pressures, MetricsChange(r, p) PROVE LedgerStep
  BY <1>11, <1>P DEF MetricsChange
<1>12. ASSUME NEW r \in Runs, run_verification_started(r) PROVE LedgerStep
  BY <1>12, <1>P DEF run_verification_started, MayAdvance, Emits, RunStatuses, ActiveStatuses
<1>13. ASSUME NEW r \in Runs, NEW c \in Checks, NEW status \in {"passed", "failed"},
              run_verification_evidence(r, c, status)
       PROVE LedgerStep
  BY <1>13, <1>P DEF run_verification_evidence
<1>14. ASSUME NEW r \in Runs, run_verification_passed(r) PROVE LedgerStep
  BY <1>14, <1>P DEF run_verification_passed, Emits
<1>15. ASSUME NEW r \in Runs, run_verification_waiting(r) PROVE LedgerStep
  BY <1>15, <1>P DEF run_verification_waiting, MayAdvance, Emits, RunStatuses, ActiveStatuses
<1>16. ASSUME NEW r \in Runs, run_verification_failed(r) PROVE LedgerStep
  BY <1>16, <1>P DEF run_verification_failed, RejectWork, Emits, RunStatuses, TerminalStatuses
<1>17. ASSUME NEW r \in Runs, run_completed(r) PROVE LedgerStep
  BY <1>17, <1>P DEF run_completed, MayAdvance, Emits, RunStatuses, TerminalStatuses
<1>18. ASSUME NEW r \in Runs, run_failed(r) PROVE LedgerStep
  BY <1>18, <1>P DEF run_failed, Emits, Alive, RunStatuses, TerminalStatuses
<1>19. ASSUME NEW r \in Runs, run_cancelled(r) PROVE LedgerStep
  BY <1>19, <1>P DEF run_cancelled, Emits, Alive, RunStatuses, TerminalStatuses
<1>20. ASSUME NEW r \in Runs, NEW kept \in Cleanups, WorkspaceReport(r, kept) PROVE LedgerStep
  <2>1. \A s \in Runs : s # r => workspace'[s] = workspace[s] /\ worker'[s] = worker[s]
    BY <1>20, <1>T DEF WorkspaceReport, Emits
  <2>2. workspace'[r].notStarted => workspace[r].notStarted
    BY <1>20, <1>T DEF WorkspaceReport, Workspaces
  <2> QED BY <1>20, <2>1, <2>2, <1>V DEF WorkspaceReport, Emits
<1>21. ASSUME NEW r \in Runs, run_teardown_uncertain(r) PROVE LedgerStep
  <2>1. \A s \in Runs : s # r => workspace'[s] = workspace[s] /\ worker'[s] = worker[s]
    BY <1>21, <1>T DEF run_teardown_uncertain
  <2>2. workspace'[r].notStarted => workspace[r].notStarted
    BY <1>21, <1>T DEF run_teardown_uncertain, Workspaces
  <2> QED BY <1>21, <2>1, <2>2, <1>V DEF run_teardown_uncertain
<1>22. ASSUME NEW r \in Runs, EventRefused(r) PROVE LedgerStep
  <2>1. worker[r] # "none" /\ \E to : worker' = [worker EXCEPT ![r] = to]
    BY <1>22 DEF EventRefused, Emits, Alive
  <2> QED BY <1>22, <2>1, <1>P DEF EventRefused
<1>23. ASSUME NEW r \in Runs, prepare_artifact_upload(r) PROVE LedgerStep
  BY <1>23, <1>P DEF prepare_artifact_upload
<1>24. ASSUME NEW r \in Runs, finalize_artifact_upload(r) PROVE LedgerStep
  BY <1>24, <1>P DEF finalize_artifact_upload, RunStatuses, ActiveStatuses
<1>25. ASSUME NEW r \in Runs, NEW outcome \in {"rejected", "none"},
              DropStagedArtifact(r, outcome)
       PROVE LedgerStep
  BY <1>25, <1>P DEF DropStagedArtifact
<1>26. ASSUME NEW r \in Runs, evaluate_circuit_breaker(r) PROVE LedgerStep
  <2>1. Active(r) /\ runStatus[r] \notin {"lost", "absent"}
    BY <1>26 DEF evaluate_circuit_breaker, Active, ActiveStatuses
  <2>2. \/ runStatus' = runStatus
        \/ SetRun(r, runStatus[r])
        \/ SetRun(r, "waiting_for_input")
    BY <1>26 DEF evaluate_circuit_breaker, SetRun
  <2> QED BY <1>26, <2>1, <2>2, <1>T, <1>P
          DEF evaluate_circuit_breaker, RunStatuses, ActiveStatuses
<1>27. ASSUME NEW r \in Runs, ApprovalDue(r) PROVE LedgerStep
  BY <1>27, <1>P DEF ApprovalDue
<1>28. ASSUME NEW r \in Runs, expire_action_approval(r) PROVE LedgerStep
  <2>1. CASE runStatus[r] = "waiting_for_approval"
    <3>1. Active(r) /\ SetRun(r, "cancelled")
      BY <1>28, <2>1 DEF expire_action_approval, CancelWaitingRun, SetRun, Active, ActiveStatuses
    <3> QED BY <1>28, <3>1, <1>P DEF expire_action_approval, RunStatuses, TerminalStatuses
  <2>2. CASE runStatus[r] # "waiting_for_approval"
    <3>1. runStatus' = runStatus
      BY <1>28, <2>2, <1>T DEF expire_action_approval, CancelWaitingRun
    <3> QED BY <1>28, <3>1, <1>P DEF expire_action_approval
  <2> QED BY <2>1, <2>2
<1>29. ASSUME NEW r \in Runs, ExpiryTimerFires(r) \/ DecideExpired(r) PROVE LedgerStep
  BY <1>28, <1>29, <1>P DEF ExpiryTimerFires, DecideExpired
<1>30. ASSUME NEW r \in Runs, NEW verdict \in {"approved", "rejected"},
              decide_action_approval(r, verdict)
       PROVE LedgerStep
  BY <1>30, <1>P DEF decide_action_approval
<1>31. ASSUME NEW r \in Runs, NEW approved \in BOOLEAN, decide_verification(r, approved)
       PROVE LedgerStep
  <2>1. Active(r)
    BY <1>31 DEF decide_verification, Active, ActiveStatuses
  <2>2. SetRun(r, "completed") \/ SetRun(r, "failed")
    BY <1>31 DEF decide_verification, RejectWork
  <2> QED BY <1>31, <2>1, <2>2, <1>P DEF decide_verification, RunStatuses, TerminalStatuses
<1>32. ASSUME NEW lost \in SUBSET Runs, mark_runner_runs_lost(lost) PROVE LedgerStep
  <2>1. GivesBack(lost)
    BY <1>32 DEF mark_runner_runs_lost, OnlyActiveRuns, Finishes, GivesBack
  <2> QED BY <2>1 DEF LedgerStep
<1>33. CASE ServerRestart
  <2>1. \A s \in Runs :
     \/ dispatch'[s] = dispatch[s]
     \/ dispatch[s] = "sending" /\ dispatch'[s] # "none"
    BY <1>33 DEF ServerRestart
  <2> QED BY <1>33, <2>1 DEF ServerRestart, LedgerStep, Progress
<1>34. ASSUME NEW m \in Messages, queue_message(m) PROVE LedgerStep
  <2>1. \A n \in Messages : inbox'[n] = inbox[n] \/ inbox'[n].status # "reserved"
    BY <1>34, <1>T DEF queue_message, Notes
  <2> QED BY <1>34, <2>1 DEF queue_message, LedgerStep, Progress
<1>35. CASE UNCHANGED vars
  BY <1>35, <1>P DEF vars
<1> QED BY <1>1, <1>2, <1>3, <1>4, <1>5, <1>6, <1>7, <1>8, <1>9, <1>10, <1>11,
           <1>12, <1>13, <1>14, <1>15, <1>16, <1>17, <1>18, <1>19, <1>20, <1>21,
           <1>22, <1>23, <1>24, <1>25, <1>26, <1>27, <1>29, <1>30, <1>31, <1>32,
           <1>33, <1>34, <1>35
        DEF Next, SchedulerStep, RunnerStep, StoreStep, HumanStep

\* Dispatch, lineage, attempts and messages agree in every reachable state.
LEMMA LedgerInvariant == Spec => []LedgerInv
<1>1. LedgerInv /\ [Next]_vars => LedgerInv'
  BY NextRunsInv, StepOnLedger, LedgerStepInv DEF LedgerInv
<1> QED BY InitLedgerInv, <1>1, PTL DEF Spec


-----------------------------------------------------------------------------
(* Approvals and the verdicts queued for the runner.                       *)

\* OneVerdictPerApproval, row by row.
VerdictQueued ==
  \A r \in Runs, k \in Verdicts : [run |-> r, kind |-> k] \in commands <=> approval[r] = k

\* Only a request, a decision or expiry, and a breaker stage touch these rows,
\* and a decision or expiry only while the approval is pending.
VerdictStep ==
  \/ UNCHANGED <<approval, commands>>
  \/ /\ \E r \in Runs : approval[r] = "none" /\ approval' = [approval EXCEPT ![r] = "pending"]
     /\ UNCHANGED commands
  \/ \E r \in Runs, k \in Verdicts :
       /\ approval[r] = "pending"
       /\ approval' = [approval EXCEPT ![r] = k]
       /\ commands' = commands \cup {[run |-> r, kind |-> k]}
  \/ \E r \in Runs, k \in Stages :
       /\ commands' = commands \cup {[run |-> r, kind |-> k]}
       /\ UNCHANGED approval

\* Every transaction is one of these steps.
LEMMA StepOnVerdicts == TypeOK /\ [Next]_vars => VerdictStep
<1> SUFFICES ASSUME TypeOK, [Next]_vars PROVE VerdictStep
  OBVIOUS
<1> USE DEF planVars, runVars, approvalVars
<1>1. CASE SchedulerStep
  BY <1>1 DEF VerdictStep, SchedulerStep, schedulable_tasks, create_task_run, InsertRun,
     CandidateDropped, CommandSent, fail_run_before_dispatch
<1>2. ASSUME NEW r \in Runs, run_approval_requested(r) PROVE VerdictStep
  BY <1>2 DEF VerdictStep, run_approval_requested
<1>3. ASSUME NEW r \in Runs, RunnerStep(r) PROVE VerdictStep
  <2>1. \/ run_approval_requested(r)
        \/ UNCHANGED <<approval, commands>>
    BY <1>3 DEF RunnerStep, run_session, run_started, run_status, MetricsChange,
       run_verification_started, run_verification_evidence, run_verification_passed,
       run_verification_waiting, run_verification_failed, run_completed, run_failed,
       run_cancelled, WorkspaceReport, run_teardown_uncertain, EventRefused
  <2> QED BY <2>1, <1>2 DEF VerdictStep
<1>4. ASSUME NEW r \in Runs, approval[r] = "pending", expire_action_approval(r) PROVE VerdictStep
  BY <1>4 DEF VerdictStep, expire_action_approval, Verdicts
<1>5. ASSUME NEW r \in Runs, evaluate_circuit_breaker(r) PROVE VerdictStep
  <2>1. breaker[r].pressure \in Stages
    BY DEF TypeOK, Breakers
  <2> QED BY <1>5, <2>1 DEF VerdictStep, evaluate_circuit_breaker
<1>6. ASSUME NEW r \in Runs, StoreStep(r) PROVE VerdictStep
  <2>1. \/ evaluate_circuit_breaker(r)
        \/ approval[r] = "pending" /\ expire_action_approval(r)
        \/ UNCHANGED <<approval, commands>>
    BY <1>6 DEF StoreStep, prepare_artifact_upload, finalize_artifact_upload,
       DropStagedArtifact, ApprovalDue, ExpiryTimerFires
  <2> QED BY <2>1, <1>4, <1>5 DEF VerdictStep
<1>7. ASSUME NEW r \in Runs, NEW verdict \in {"approved", "rejected"},
             decide_action_approval(r, verdict)
      PROVE VerdictStep
  BY <1>7 DEF VerdictStep, decide_action_approval, Decidable, Verdicts
<1>8. ASSUME NEW r \in Runs, HumanStep(r) PROVE VerdictStep
  <2>1. \/ \E verdict \in {"approved", "rejected"} : decide_action_approval(r, verdict)
        \/ approval[r] = "pending" /\ expire_action_approval(r)
        \/ UNCHANGED <<approval, commands>>
    BY <1>8 DEF HumanStep, create_resume_run, InsertRun, DecideExpired, decide_verification
  <2> QED BY <2>1, <1>4, <1>7 DEF VerdictStep
<1>9. ASSUME \/ \E lost \in SUBSET Runs : mark_runner_runs_lost(lost)
             \/ ServerRestart
             \/ \E m \in Messages : queue_message(m)
      PROVE VerdictStep
  BY <1>9 DEF VerdictStep, mark_runner_runs_lost, ServerRestart, queue_message
<1>10. CASE UNCHANGED vars
  BY <1>10 DEF VerdictStep, vars
<1> QED BY <1>1, <1>3, <1>6, <1>8, <1>9, <1>10 DEF Next

\* A verdict is queued exactly for the approvals it settles.
LEMMA VerdictInvariant == Spec => []VerdictQueued
<1>1. Init => VerdictQueued
  BY DEF Init, VerdictQueued, Verdicts
<1>2. TypeOK /\ VerdictQueued /\ [Next]_vars => VerdictQueued'
  <2> SUFFICES ASSUME TypeOK, VerdictQueued, VerdictStep,
                      NEW s \in Runs, NEW j \in Verdicts
               PROVE  [run |-> s, kind |-> j] \in commands' <=> approval'[s] = j
    BY StepOnVerdicts DEF VerdictQueued
  <2>1. approval \in [Runs -> Verdicts \cup {"none", "pending"}]
    BY DEF TypeOK
  <2>2. [run |-> s, kind |-> j] \in commands <=> approval[s] = j
    BY DEF VerdictQueued
  <2>3. CASE UNCHANGED <<approval, commands>>
    BY <2>2, <2>3
  <2>4. CASE /\ \E r \in Runs : approval[r] = "none" /\ approval' = [approval EXCEPT ![r] = "pending"]
             /\ UNCHANGED commands
    BY <2>1, <2>2, <2>4 DEF Verdicts
  <2>5. ASSUME NEW r \in Runs, NEW k \in Verdicts, approval[r] = "pending",
               approval' = [approval EXCEPT ![r] = k],
               commands' = commands \cup {[run |-> r, kind |-> k]}
        PROVE  [run |-> s, kind |-> j] \in commands' <=> approval'[s] = j
    <3>1. CASE s = r
      BY <2>1, <2>2, <2>5, <3>1 DEF Verdicts
    <3>2. CASE s # r
      BY <2>1, <2>2, <2>5, <3>2
    <3> QED BY <3>1, <3>2
  <2>6. ASSUME NEW r \in Runs, NEW k \in Stages,
               commands' = commands \cup {[run |-> r, kind |-> k]},
               approval' = approval
        PROVE  [run |-> s, kind |-> j] \in commands' <=> approval'[s] = j
    <3>1. k # j
      BY DEF Stages, Verdicts
    <3> QED BY <2>2, <2>6, <3>1
  <2> QED BY <2>3, <2>4, <2>5, <2>6 DEF VerdictStep
<1> QED BY <1>1, <1>2, TypeCorrect, PTL DEF Spec

\* The rows agree for every task graph, every set of agents and messages and any
\* number of runs, however transactions, late events, losses and restarts interleave.
THEOREM RowsAgreeHolds == Spec => []RowsAgree
<1>1. TypeOK /\ VerdictQueued => OneVerdictPerApproval
  <2> SUFFICES ASSUME TypeOK, VerdictQueued, NEW r \in Runs
               PROVE  {c.kind : c \in {d \in commands : d.run = r /\ d.kind \in Verdicts}} =
                        {approval[r]} \cap Verdicts
    BY DEF OneVerdictPerApproval
  <2>1. ASSUME NEW c \in commands, c.run = r, c.kind \in Verdicts PROVE c.kind = approval[r]
    <3>1. c \in Commands
      BY DEF TypeOK
    <3>2. c = [run |-> r, kind |-> c.kind]
      BY <2>1, <3>1 DEF Commands
    <3> QED BY <2>1, <3>2 DEF VerdictQueued
  <2>2. ASSUME approval[r] \in Verdicts
        PROVE  \E c \in {d \in commands : d.run = r /\ d.kind \in Verdicts} : approval[r] = c.kind
    <3>1. [run |-> r, kind |-> approval[r]] \in commands
      BY <2>2 DEF VerdictQueued
    <3> QED BY <2>2, <3>1
  <2> QED BY <2>1, <2>2
<1>2. PlanInv /\ LedgerInv /\ VerdictQueued => RowsAgree
  BY <1>1 DEF PlanInv, LedgerInv, RunsInv, RowsAgree
<1> QED BY PlanInvariant, LedgerInvariant, VerdictInvariant, <1>2, PTL


-----------------------------------------------------------------------------
(* Evidence-gated completion.                                              *)

\* A verdict "passed" rests on evidence that cannot be replaced afterwards.
VerifiedRunPasses ==
  \A r \in Runs : verification[r].status \in {"passed", "waiting_for_approval"} =>
    runStatus[r] # "absent" /\ VerificationPasses(r)

\* While the manual gate is open the runner has nothing left to say.
GateIsLast ==
  \A r \in Runs : verification[r].request = "pending" =>
    verification[r].status = "waiting_for_approval" /\ worker[r] \in {"done", "gone"}

\* What AcceptedTaskHasEvidence asks of the run that a task was accepted with.
AcceptedWith(r, t) ==
  /\ r \in RunsOf(t)
  /\ runStatus[r] = "completed"
  /\ verification[r].status = "passed"
  /\ AllPassed(r)
  /\ t \in NeedsArtifact => artifact[r] = "ready"
  /\ t \in Gated => verification[r].request = "approved"
  /\ ~ breaker_is_hard(breaker[r].stage)

\* The verification columns of one run: its living runner starts, reports, passes
\* or fails the verification, opens the gate, or a human closes it.
VerificationStep(r) ==
  \/ verification'[r] = verification[r]
  \/ /\ worker[r] \in Alive
     /\ verification'[r].request = verification[r].request
     /\ \/ verification'[r].status \in {"running", "failed"}
        \/ verification'[r].status = verification[r].status /\ ~ AllPassed(r)
        \/ /\ Active(r) /\ VerificationPasses(r)
           /\ verification'[r].evidence = verification[r].evidence
  \/ /\ verification[r].status = "passed"
     /\ verification'[r].status = "waiting_for_approval"
     /\ verification'[r].evidence = verification[r].evidence
     /\ worker'[r] = "done"
  \/ /\ verification[r].request = "pending"
     /\ verification'[r].request # "pending"
     /\ verification'[r].evidence = verification[r].evidence

\* A run is accepted together with its task.
Accepts(r) ==
  /\ Active(r)
  /\ runStatus'[r] = "completed"
  /\ verification[r].status = "passed" \/ verification[r].request = "pending"
  /\ verification'[r].status = "passed"
  /\ verification'[r].evidence = verification[r].evidence
  /\ runTask[r] \in Gated => verification'[r].request = "approved"
  /\ artifact' = artifact /\ breaker' = breaker
  /\ ~ breaker_is_hard(breaker[r].stage)

\* What a step can do to these rows.
EvidenceStep ==
  /\ \A r \in Runs :
       /\ VerificationStep(r)
       /\ ~ Active(r) =>
            verification'[r] = verification[r] /\ breaker'[r].stage = breaker[r].stage
       /\ artifact[r] = "ready" => artifact'[r] = "ready"
       /\ worker[r] \in {"done", "gone"} => worker'[r] \in {"done", "gone"}
  /\ \A t \in Tasks : taskStatus'[t] = "completed" =>
       taskStatus[t] = "completed" \/ \E r \in Runs : runTask[r] = t /\ Accepts(r)

\* The inductive invariant of these rows.
EvidenceInv ==
  LedgerInv /\ VerifiedRunPasses /\ GateIsLast /\ AcceptedTaskHasEvidence

\* The empty tables satisfy it.
LEMMA InitEvidenceInv == Init => EvidenceInv
<1> SUFFICES ASSUME Init PROVE EvidenceInv
  OBVIOUS
<1>1. VerifiedRunPasses /\ GateIsLast
  BY DEF Init, VerifiedRunPasses, GateIsLast
<1>2. AcceptedTaskHasEvidence
  BY DEF Init, AcceptedTaskHasEvidence
<1> QED BY <1>1, <1>2, InitLedgerInv DEF EvidenceInv

\* A step of EvidenceStep preserves the invariant.
LEMMA EvidenceStepInv ==
  ASSUME EvidenceInv, LedgerInv', RunStep, EvidenceStep
  PROVE  EvidenceInv'
<1>1. /\ created \in 0 .. MaxRuns
      /\ runStatus \in [Runs -> RunStatuses]
      /\ runTask \in [Runs -> Tasks \cup {NoTask}]
      /\ verification' \in [Runs -> Verifications]
  BY DEF EvidenceInv, LedgerInv, RunsInv, TypeOK
<1>2. \A r \in Runs : runStatus[r] = "absent" <=> r > created
  BY DEF EvidenceInv, LedgerInv, RunsInv, RowsAreDense
<1>3. \A r \in Runs : runStatus[r] # "absent" =>
        /\ runStatus'[r] # "absent"
        /\ runTask'[r] = runTask[r]
        /\ runStatus[r] = "completed" => runStatus'[r] = "completed"
  <2> SUFFICES ASSUME NEW r \in Runs, runStatus[r] # "absent"
               PROVE  /\ runStatus'[r] # "absent"
                      /\ runTask'[r] = runTask[r]
                      /\ runStatus[r] = "completed" => runStatus'[r] = "completed"
    OBVIOUS
  <2>1. r # created + 1
    BY <1>1, <1>2
  <2>2. runStatus[r] = "completed" => ~ Active(r)
    BY DEF Active, ActiveStatuses
  <2> QED BY <1>1, <2>1, <2>2, StatusKinds DEF RunStep, Allocates, Finishes, Continues
<1>4. \A r \in Runs : AllPassed(r) /\ verification'[r].evidence = verification[r].evidence
                        => AllPassed(r)'
  BY DEF AllPassed
<1>5. VerifiedRunPasses'
  <2> SUFFICES ASSUME NEW r \in Runs,
                      verification'[r].status \in {"passed", "waiting_for_approval"}
               PROVE  runStatus'[r] # "absent" /\ VerificationPasses(r)'
    BY DEF VerifiedRunPasses
  <2>1. runStatus[r] # "absent" /\ VerificationPasses(r)
        /\ verification'[r].evidence = verification[r].evidence
    <3>1. verification[r].status \in {"passed", "waiting_for_approval"} =>
            runStatus[r] # "absent" /\ VerificationPasses(r) /\ AllPassed(r)
      BY DEF EvidenceInv, VerifiedRunPasses, VerificationPasses
    <3>2. verification[r].request = "pending" => verification[r].status = "waiting_for_approval"
      BY DEF EvidenceInv, GateIsLast
    <3>3. Active(r) => runStatus[r] # "absent"
      BY StatusKinds DEF Active
    <3>4. VerificationStep(r)
      BY DEF EvidenceStep
    <3> QED BY <3>1, <3>2, <3>3, <3>4 DEF VerificationStep
  <2> QED BY <1>3, <1>4, <2>1 DEF VerificationPasses, EvidenceStep
<1>6. GateIsLast'
  <2> SUFFICES ASSUME NEW r \in Runs, verification'[r].request = "pending"
               PROVE  /\ verification'[r].status = "waiting_for_approval"
                      /\ worker'[r] \in {"done", "gone"}
    BY DEF GateIsLast
  <2>1. VerificationStep(r) /\ (worker[r] \in {"done", "gone"} => worker'[r] \in {"done", "gone"})
    BY DEF EvidenceStep
  <2>2. verification[r].request = "pending" =>
          verification[r].status = "waiting_for_approval" /\ worker[r] \in {"done", "gone"}
    BY DEF EvidenceInv, GateIsLast
  <2> QED BY <2>1, <2>2 DEF VerificationStep, Alive
<1>7. AcceptedTaskHasEvidence'
  <2> SUFFICES ASSUME NEW t \in Tasks, taskStatus'[t] = "completed"
               PROVE  \E r \in Runs : AcceptedWith(r, t)'
    BY DEF AcceptedTaskHasEvidence, AcceptedWith, RunsOf
  <2>1. CASE taskStatus[t] = "completed"
    <3>1. PICK r \in Runs : AcceptedWith(r, t)
      BY <2>1 DEF EvidenceInv, AcceptedTaskHasEvidence, AcceptedWith, RunsOf
    <3>2. runStatus[r] # "absent" /\ runTask[r] = t /\ runStatus[r] = "completed"
      BY <3>1 DEF AcceptedWith, RunsOf
    <3>3. ~ Active(r)
      BY <3>2 DEF Active, ActiveStatuses
    <3>4. verification'[r] = verification[r] /\ breaker'[r].stage = breaker[r].stage
      BY <3>3 DEF EvidenceStep
    <3>5. artifact[r] = "ready" => artifact'[r] = "ready"
      BY DEF EvidenceStep
    <3>6. AcceptedWith(r, t)'
      BY <1>3, <3>1, <3>2, <3>4, <3>5 DEF AcceptedWith, RunsOf, AllPassed
    <3> QED BY <3>6
  <2>2. CASE taskStatus[t] # "completed"
    <3>1. PICK r \in Runs : runTask[r] = t /\ Accepts(r)
      BY <2>2 DEF EvidenceStep
    <3>2. runStatus[r] # "absent"
      BY <3>1, StatusKinds DEF Accepts, Active
    <3>3. VerificationPasses(r)
      BY <3>1 DEF Accepts, EvidenceInv, VerifiedRunPasses, GateIsLast
    <3>4. AllPassed(r)'
      BY <3>1, <3>3, <1>4 DEF Accepts, VerificationPasses
    <3>5. r \in RunsOf(t)'
      BY <1>3, <3>1, <3>2 DEF RunsOf
    <3>6. AcceptedWith(r, t)'
      BY <3>1, <3>3, <3>4, <3>5 DEF Accepts, AcceptedWith, VerificationPasses
    <3> QED BY <3>6
  <2> QED BY <2>1, <2>2
<1> QED BY <1>5, <1>6, <1>7 DEF EvidenceInv


\* Every transaction is such a step.
LEMMA StepOnEvidence == EvidenceInv /\ [Next]_vars => EvidenceStep
<1> SUFFICES ASSUME EvidenceInv, [Next]_vars PROVE EvidenceStep
  OBVIOUS
<1> USE DEF planVars, runVars, approvalVars, storeVars, serverVars
<1>T. /\ runStatus \in [Runs -> RunStatuses]
      /\ taskStatus \in [Tasks -> TaskStatuses]
      /\ verification \in [Runs -> Verifications]
      /\ breaker \in [Runs -> Breakers]
      /\ artifact \in [Runs -> {"none", "staged", "ready", "rejected"}]
      /\ worker \in [Runs -> Alive \cup {"none", "done", "gone"}]
  BY DEF EvidenceInv, LedgerInv, RunsInv, TypeOK
<1> DEFINE NoneAccepted == \A t \in Tasks : taskStatus'[t] = "completed" => taskStatus[t] = "completed"
           LastWord == \A r \in Runs : worker[r] \in {"done", "gone"} => worker'[r] \in {"done", "gone"}
\* Neither the evidence nor the verdict changes.
<1>Q. ASSUME NoneAccepted, LastWord, UNCHANGED <<verification, breaker, artifact>>
      PROVE  EvidenceStep
  BY <1>Q DEF EvidenceStep, VerificationStep
\* One run's verification columns change, while the run is active.
<1>V. ASSUME NoneAccepted, LastWord, UNCHANGED <<breaker, artifact>>,
             NEW r \in Runs, Active(r), VerificationStep(r),
             \A s \in Runs : s # r => verification'[s] = verification[s]
      PROVE  EvidenceStep
  BY <1>V DEF EvidenceStep, VerificationStep
<1>A. ASSUME NEW r \in Runs, NEW status, SetTask(r, status), status # "completed"
      PROVE  NoneAccepted
  BY <1>A, <1>T DEF SetTask
<1>E. ASSUME NEW r \in Runs, NEW from, NEW to, Emits(r, from, to), "done" \notin from, "gone" \notin from
      PROVE  LastWord
  BY <1>E, <1>T DEF Emits
<1>1. ASSUME NEW m \in Missions, schedulable_tasks(m) PROVE EvidenceStep
  BY <1>1, <1>Q DEF schedulable_tasks
<1>2. ASSUME NEW t \in Tasks, create_task_run(t) PROVE EvidenceStep
  <2>1. NoneAccepted
    BY <1>2, <1>T DEF create_task_run
  <2> QED BY <1>2, <2>1, <1>Q DEF create_task_run, InsertRun
<1>3. ASSUME NEW t \in Tasks, CandidateDropped(t) PROVE EvidenceStep
  BY <1>3, <1>Q DEF CandidateDropped
<1>4. ASSUME NEW r \in Runs, CommandSent(r) PROVE EvidenceStep
  <2>1. worker[r] = "none"
    BY <1>4 DEF CommandSent, EvidenceInv, LedgerInv, DispatchOrder
  <2>2. LastWord
    BY <1>4, <1>T, <2>1 DEF CommandSent
  <2> QED BY <1>4, <2>2, <1>Q DEF CommandSent
<1>5. ASSUME NEW r \in Runs, fail_run_before_dispatch(r) PROVE EvidenceStep
  <2>1. NoneAccepted
    BY <1>5, <1>T DEF fail_run_before_dispatch
  <2> QED BY <1>5, <2>1, <1>Q DEF fail_run_before_dispatch
<1>6. ASSUME NEW r \in Runs, create_resume_run(r) PROVE EvidenceStep
  <2>1. NoneAccepted
    BY <1>6, <1>T DEF create_resume_run
  <2> QED BY <1>6, <2>1, <1>Q DEF create_resume_run, InsertRun
<1>7. ASSUME NEW r \in Runs, run_session(r) PROVE EvidenceStep
  BY <1>7, <1>Q DEF run_session
<1>8. ASSUME NEW r \in Runs, run_started(r) PROVE EvidenceStep
  BY <1>8, <1>Q, <1>A, <1>E DEF run_started
<1>9. ASSUME NEW r \in Runs, NEW status \in Reported, run_status(r, status) PROVE EvidenceStep
  <2>1. NoneAccepted
    BY <1>9, <1>T DEF run_status
  <2> QED BY <1>9, <2>1, <1>Q DEF run_status
<1>10. ASSUME NEW r \in Runs, run_approval_requested(r) PROVE EvidenceStep
  BY <1>10, <1>Q, <1>A DEF run_approval_requested
<1>11. ASSUME NEW r \in Runs, NEW p \in Pressures, MetricsChange(r, p) PROVE EvidenceStep
  <2>1. \A s \in Runs : breaker'[s].stage = breaker[s].stage
    BY <1>11, <1>T DEF MetricsChange, Breakers
  <2> QED BY <1>11, <2>1 DEF MetricsChange, EvidenceStep, VerificationStep
<1>12. ASSUME NEW r \in Runs, run_verification_started(r) PROVE EvidenceStep
  <2>1. VerificationStep(r) /\ \A s \in Runs : s # r => verification'[s] = verification[s]
    BY <1>12, <1>T DEF run_verification_started, Emits, Alive, VerificationStep, Verifications
  <2>2. NoneAccepted /\ LastWord
    BY <1>12, <1>A, <1>E DEF run_verification_started
  <2> QED BY <1>12, <2>1, <2>2, <1>V DEF run_verification_started, MayAdvance
<1>13. ASSUME NEW r \in Runs, NEW c \in Checks, NEW status \in {"passed", "failed"},
              run_verification_evidence(r, c, status)
       PROVE EvidenceStep
  <2>1. ~ AllPassed(r) /\ worker[r] \in Alive
    BY <1>13 DEF run_verification_evidence, AllPassed, Alive
  <2>2. /\ verification'[r].status = verification[r].status
        /\ verification'[r].request = verification[r].request
        /\ \A s \in Runs : s # r => verification'[s] = verification[s]
    BY <1>13, <1>T DEF run_verification_evidence, Verifications
  <2>3. NoneAccepted /\ LastWord
    BY <1>13 DEF run_verification_evidence
  <2> QED BY <1>13, <2>1, <2>2, <2>3, <1>V
          DEF run_verification_evidence, MayAdvance, VerificationStep
<1>14. ASSUME NEW r \in Runs, run_verification_passed(r) PROVE EvidenceStep
  <2>1. VerificationStep(r) /\ \A s \in Runs : s # r => verification'[s] = verification[s]
    BY <1>14, <1>T DEF run_verification_passed, MayAdvance, Emits, Alive, VerificationStep,
       Verifications
  <2>2. NoneAccepted /\ LastWord
    BY <1>14, <1>E DEF run_verification_passed
  <2> QED BY <1>14, <2>1, <2>2, <1>V DEF run_verification_passed, MayAdvance
<1>15. ASSUME NEW r \in Runs, run_verification_waiting(r) PROVE EvidenceStep
  <2>1. VerificationStep(r) /\ \A s \in Runs : s # r => verification'[s] = verification[s]
    BY <1>15, <1>T DEF run_verification_waiting, Emits, VerificationStep, Verifications
  <2>2. NoneAccepted /\ LastWord
    BY <1>15, <1>A, <1>E DEF run_verification_waiting
  <2> QED BY <1>15, <2>1, <2>2, <1>V DEF run_verification_waiting, MayAdvance
<1>16. ASSUME NEW r \in Runs, run_verification_failed(r) PROVE EvidenceStep
  <2>1. VerificationStep(r) /\ \A s \in Runs : s # r => verification'[s] = verification[s]
    BY <1>16, <1>T DEF run_verification_failed, Emits, Alive, VerificationStep, Verifications
  <2>2. NoneAccepted /\ LastWord
    BY <1>16, <1>A, <1>E DEF run_verification_failed, RejectWork
  <2> QED BY <1>16, <2>1, <2>2, <1>V DEF run_verification_failed
<1>C. ASSUME NEW r \in Runs, CompleteTask(runTask[r])
      PROVE  \A t \in Tasks : taskStatus'[t] = "completed" =>
               taskStatus[t] = "completed" \/ t = runTask[r]
  BY <1>C, <1>T DEF CompleteTask, ReadyChildren
<1>17. ASSUME NEW r \in Runs, run_completed(r) PROVE EvidenceStep
  <2>1. Accepts(r)
    BY <1>17, <1>T DEF run_completed, MayAdvance, Acceptable, SetRun, Accepts
  <2>2. LastWord
    BY <1>17, <1>E DEF run_completed
  <2> QED BY <1>17, <1>C, <2>1, <2>2 DEF run_completed, EvidenceStep, VerificationStep
<1>18. ASSUME NEW r \in Runs, run_failed(r) PROVE EvidenceStep
  <2>1. LastWord
    BY <1>18, <1>E DEF run_failed, Alive
  <2>2. NoneAccepted
    BY <1>18, <1>T DEF run_failed, SetTask
  <2> QED BY <1>18, <2>1, <2>2, <1>Q DEF run_failed
<1>19. ASSUME NEW r \in Runs, run_cancelled(r) PROVE EvidenceStep
  <2>1. LastWord
    BY <1>19, <1>E DEF run_cancelled, Alive
  <2> QED BY <1>19, <2>1, <1>A, <1>Q DEF run_cancelled
<1>20. ASSUME NEW r \in Runs, NEW kept \in Cleanups, WorkspaceReport(r, kept) PROVE EvidenceStep
  <2>1. LastWord
    BY <1>20, <1>T DEF WorkspaceReport, Emits
  <2> QED BY <1>20, <2>1, <1>Q DEF WorkspaceReport
<1>21. ASSUME NEW r \in Runs, run_teardown_uncertain(r) PROVE EvidenceStep
  BY <1>21, <1>Q DEF run_teardown_uncertain
<1>22. ASSUME NEW r \in Runs, EventRefused(r) PROVE EvidenceStep
  <2>1. \E from, to : Emits(r, from, to) /\ from \subseteq Alive
    BY <1>22 DEF EventRefused, Alive
  <2>2. LastWord
    BY <2>1, <1>E DEF Alive
  <2> QED BY <1>22, <2>2, <1>Q DEF EventRefused
<1>23. ASSUME NEW r \in Runs, UNCHANGED <<verification, breaker, worker, taskStatus>>,
              artifact[r] # "ready", NEW outcome, artifact' = [artifact EXCEPT ![r] = outcome]
       PROVE EvidenceStep
  BY <1>23, <1>T DEF EvidenceStep, VerificationStep
<1>24. ASSUME NEW r \in Runs, finalize_artifact_upload(r) PROVE EvidenceStep
  <2>1. NoneAccepted
    BY <1>24, <1>A DEF finalize_artifact_upload
  <2>2. \A s \in Runs : artifact[s] = "ready" => artifact'[s] = "ready"
    BY <1>24, <1>T DEF finalize_artifact_upload
  <2> QED BY <1>24, <2>1, <2>2 DEF finalize_artifact_upload, EvidenceStep, VerificationStep
<1>25. ASSUME NEW r \in Runs,
              \/ prepare_artifact_upload(r)
              \/ \E outcome \in {"rejected", "none"} : DropStagedArtifact(r, outcome)
       PROVE EvidenceStep
  BY <1>25, <1>23 DEF prepare_artifact_upload, DropStagedArtifact
<1>26. ASSUME NEW r \in Runs, evaluate_circuit_breaker(r) PROVE EvidenceStep
  <2>1. NoneAccepted
    BY <1>26, <1>T DEF evaluate_circuit_breaker
  <2>2. \A s \in Runs : ~ Active(s) => breaker'[s] = breaker[s]
    BY <1>26, <1>T DEF evaluate_circuit_breaker, Active
  <2> QED BY <1>26, <2>1, <2>2 DEF evaluate_circuit_breaker, EvidenceStep, VerificationStep
<1>27. ASSUME NEW r \in Runs, ApprovalDue(r) PROVE EvidenceStep
  BY <1>27, <1>Q DEF ApprovalDue
<1>28. ASSUME NEW r \in Runs, expire_action_approval(r) PROVE EvidenceStep
  <2>1. NoneAccepted
    BY <1>28, <1>T DEF expire_action_approval, CancelWaitingTask
  <2> QED BY <1>28, <2>1, <1>Q DEF expire_action_approval
<1>29. ASSUME NEW r \in Runs, ExpiryTimerFires(r) \/ DecideExpired(r) PROVE EvidenceStep
  BY <1>28, <1>29, <1>Q DEF ExpiryTimerFires, DecideExpired
<1>30. ASSUME NEW r \in Runs, NEW verdict \in {"approved", "rejected"},
              decide_action_approval(r, verdict)
       PROVE EvidenceStep
  BY <1>30, <1>Q DEF decide_action_approval
<1>31. ASSUME NEW r \in Runs, NEW approved \in BOOLEAN, decide_verification(r, approved)
       PROVE EvidenceStep
  <2>1. Active(r) /\ verification[r].request = "pending" /\ LastWord
    BY <1>31 DEF decide_verification, Active, ActiveStatuses
  <2>2. /\ verification'[r].request # "pending"
        /\ verification'[r].evidence = verification[r].evidence
        /\ \A s \in Runs : s # r => verification'[s] = verification[s]
    BY <1>31, <1>T DEF decide_verification, Verifications
  <2>3. VerificationStep(r)
    BY <2>1, <2>2 DEF VerificationStep
  <2>4. CASE approved
    <3>1. verification'[r].status = "passed" /\ verification'[r].request = "approved"
      BY <1>31, <2>4, <1>T DEF decide_verification, Verifications
    <3>2. Accepts(r)
      BY <1>31, <2>1, <2>2, <2>4, <3>1, <1>T
         DEF decide_verification, ensure_run_not_hard_blocked, SetRun, Accepts
    <3>3. \A t \in Tasks : taskStatus'[t] = "completed" =>
            taskStatus[t] = "completed" \/ t = runTask[r]
      BY <1>31, <2>4, <1>C DEF decide_verification
    <3> QED BY <1>31, <2>1, <2>2, <2>3, <3>2, <3>3
            DEF decide_verification, EvidenceStep, VerificationStep
  <2>5. CASE ~ approved
    <3>1. NoneAccepted
      BY <1>31, <2>5, <1>A DEF decide_verification, RejectWork
    <3> QED BY <1>31, <2>1, <2>2, <2>3, <3>1, <1>V DEF decide_verification
  <2> QED BY <2>4, <2>5
<1>32. ASSUME NEW lost \in SUBSET Runs, mark_runner_runs_lost(lost) PROVE EvidenceStep
  <2>1. NoneAccepted
    BY <1>32 DEF mark_runner_runs_lost, BlockTasks
  <2> QED BY <1>32, <2>1, <1>Q DEF mark_runner_runs_lost
<1>33. CASE ServerRestart
  BY <1>33, <1>Q DEF ServerRestart
<1>34. ASSUME NEW m \in Messages, queue_message(m) PROVE EvidenceStep
  BY <1>34, <1>Q DEF queue_message
<1>35. CASE UNCHANGED vars
  BY <1>35, <1>Q DEF vars
<1> QED BY <1>1, <1>2, <1>3, <1>4, <1>5, <1>6, <1>7, <1>8, <1>9, <1>10, <1>11,
           <1>12, <1>13, <1>14, <1>15, <1>16, <1>17, <1>18, <1>19, <1>20, <1>21,
           <1>22, <1>24, <1>25, <1>26, <1>27, <1>29, <1>30, <1>31, <1>32,
           <1>33, <1>34, <1>35
        DEF Next, SchedulerStep, RunnerStep, StoreStep, HumanStep

\* No interleaving of late events, uploads, breaker evaluations, gate decisions,
\* losses and restarts accepts a task without the evidence its policy asks for.
THEOREM AcceptedTaskHasEvidenceHolds == Spec => []AcceptedTaskHasEvidence
<1>1. LedgerInv /\ [Next]_vars => RunStep
  BY StepOnRuns DEF LedgerInv, RunsInv
<1>2. EvidenceInv /\ LedgerInv' /\ [Next]_vars => EvidenceInv'
  BY <1>1, StepOnEvidence, EvidenceStepInv DEF EvidenceInv
<1>3. EvidenceInv => AcceptedTaskHasEvidence
  BY DEF EvidenceInv
<1> QED BY InitEvidenceInv, LedgerInvariant, <1>2, <1>3, PTL DEF Spec

\* However old the candidate list is that a scheduling pass works from, a fresh run
\* starts only over accepted parents.
THEOREM FreshRunAfterParentsHolds == Spec => FreshRunAfterParents
<1>1. RunsInv /\ [Next]_vars =>
        [created' # created /\ lineage'[created'].source = NoRun =>
           \A p \in Deps[runTask'[created']] : taskStatus[p] = "completed"]_vars
  <2> SUFFICES ASSUME RunsInv, [Next]_vars, created' # created,
                      lineage'[created'].source = NoRun
               PROVE  \A p \in Deps[runTask'[created']] : taskStatus[p] = "completed"
    OBVIOUS
  <2>1. created \in 0 .. MaxRuns /\ runTask \in [Runs -> Tasks \cup {NoTask}]
        /\ lineage \in [Runs -> Lineages]
    BY DEF RunsInv, TypeOK
  <2>2. \/ \E t \in Tasks : create_task_run(t)
        \/ \E r \in Runs : create_resume_run(r)
    <3> USE DEF planVars, runVars, approvalVars
    <3>1. ASSUME NEW r \in Runs PROVE ~ RunnerStep(r) /\ ~ StoreStep(r)
      BY DEF RunnerStep, StoreStep, run_session, run_started, run_status,
         run_approval_requested, MetricsChange, run_verification_started,
         run_verification_evidence, run_verification_passed, run_verification_waiting,
         run_verification_failed, run_completed, run_failed, run_cancelled, WorkspaceReport,
         run_teardown_uncertain, EventRefused, prepare_artifact_upload,
         finalize_artifact_upload, DropStagedArtifact, evaluate_circuit_breaker,
         ApprovalDue, ExpiryTimerFires, expire_action_approval
    <3> QED BY <3>1 DEF Next, vars, SchedulerStep, HumanStep, schedulable_tasks,
               CandidateDropped, CommandSent, fail_run_before_dispatch,
               decide_action_approval, DecideExpired, expire_action_approval,
               decide_verification, mark_runner_runs_lost, ServerRestart, queue_message
  <2>3. ASSUME NEW t \in Tasks, create_task_run(t)
        PROVE  \A p \in Deps[runTask'[created']] : taskStatus[p] = "completed"
    <3>1. runTask'[created'] = t
      BY <2>1, <2>3 DEF create_task_run, InsertRun
    <3> QED BY <2>3, <3>1 DEF create_task_run, RunAllowed, DependenciesReady
  <2>4. ASSUME NEW r \in Runs PROVE ~ create_resume_run(r)
    BY <2>1 DEF create_resume_run, InsertRun
  <2> QED BY <2>2, <2>3, <2>4
<1> QED BY RunsInvariant, <1>1, PTL DEF Spec, FreshRunAfterParents

=============================================================================
