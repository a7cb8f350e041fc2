----------------------------- MODULE Assignment -----------------------------
(***************************************************************************)
(* What crony-store promises about runs, without saying how: a run is one  *)
(* assignment of a task to that task's agent.  An assignment is made only  *)
(* while neither the task nor the agent has a live one, is live until it   *)
(* ends, ends once, and keeps the way it ended.  RunLifecycle implements   *)
(* this specification.                                                     *)
(***************************************************************************)
EXTENDS Integers

CONSTANTS Tasks, AgentOf, MaxRuns, NoTask

Runs == 1 .. MaxRuns
Ends == {"completed", "failed", "cancelled", "lost"}

VARIABLES
  created,  \* assignments made so far; ids follow the order of creation
  task,     \* the task of each assignment
  outcome   \* "absent", "live", or how the assignment ended

vars == <<created, task, outcome>>

Live(r) == outcome[r] = "live"

Init ==
  /\ created = 0
  /\ task = [r \in Runs |-> NoTask]
  /\ outcome = [r \in Runs |-> "absent"]

\* Neither the task nor its agent has an active run.
Available(t) ==
  \A r \in Runs : Live(r) => task[r] # t /\ AgentOf[task[r]] # AgentOf[t]

\* create_task_run and create_resume_run.
Assign(t) ==
  /\ created + 1 \in Runs
  /\ Available(t)
  /\ created' = created + 1
  /\ task' = [task EXCEPT ![created + 1] = t]
  /\ outcome' = [outcome EXCEPT ![created + 1] = "live"]

\* A terminal event, an expiry, a dispatch failure or a runner loss ends
\* live assignments; several at once when a runner is lost.
End(rs) ==
  /\ rs # {}
  /\ \A r \in rs : Live(r)
  /\ \E end \in Ends :
       outcome' = [r \in Runs |-> IF r \in rs THEN end ELSE outcome[r]]
  /\ UNCHANGED <<created, task>>

Next ==
  \/ \E t \in Tasks : Assign(t)
  \/ \E rs \in SUBSET Runs : End(rs)

Spec == Init /\ [][Next]_vars

-----------------------------------------------------------------------------

\* Columns hold values of their types.
TypeOK ==
  /\ created \in 0 .. MaxRuns
  /\ task \in [Runs -> Tasks \cup {NoTask}]
  /\ outcome \in [Runs -> Ends \cup {"absent", "live"}]

\* Exactly the ids up to the counter are in use, so an assignment never
\* overwrites another one.
Dense == \A r \in Runs : outcome[r] = "absent" <=> r > created

\* Two live assignments share neither a task nor an agent.
OneLive ==
  \A r, s \in Runs : Live(r) /\ Live(s) /\ r # s =>
    task[r] # task[s] /\ AgentOf[task[r]] # AgentOf[task[s]]

=============================================================================
