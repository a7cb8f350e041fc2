--------------------------- MODULE MCRunLifecycle ---------------------------
(***************************************************************************)
(* Small instances of RunLifecycle.  Each configuration picks one of the   *)
(* task graphs below and switches on the features it is about.             *)
(***************************************************************************)
EXTENDS RunLifecycle

CONSTANTS m1, t1, t2, a1, c1, n1

OneTask == {t1}
TwoTasks == {t1, t2}
OneMission == {m1}

\* A parent and a child on one agent.
ChainMission == [t \in TwoTasks |-> m1]
ChainAgent == [t \in TwoTasks |-> a1]
ChainDeps == [t \in TwoTasks |-> IF t = t2 THEN {t1} ELSE {}]
ChainAttempts == [t \in TwoTasks |-> IF t = t1 THEN 2 ELSE 1]

\* A single task with two attempts.
SoloMission == [t \in OneTask |-> m1]
SoloAgent == [t \in OneTask |-> a1]
SoloDeps == [t \in OneTask |-> {}]
SoloAttempts == [t \in OneTask |-> 2]

NoRecipient == [m \in {} |-> a1]
NoteRecipient == [m \in {n1} |-> a1]

=============================================================================
