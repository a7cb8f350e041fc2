----------------------- MODULE ArtifactStagingProofs -----------------------
(***************************************************************************)
(* What ArtifactStaging promises of the bytes of a run, proved for every   *)
(* number of roles, tries, socket tasks and faults.                        *)
(***************************************************************************)
EXTENDS ArtifactStaging, SequenceTheorems, TLAPS

-----------------------------------------------------------------------------
(* The inductive invariant.                                                *)

HandlerPcs == {"idle", "prepare", "write", "copy", "reject", "commit", "cleanup",
               "purge", "clear", "clear_failed", "reply", "fail", "accept"}
HandlerType == [pc : HandlerPcs, id : Events \cup {0}, role : RoleSet \cup {"none"},
                row : Events \cup {0}]
RecoveryPcs == {"idle", "list", "orphans", "discard_orphan", "rows", "copy", "commit",
                "abandon", "reject", "cleanup", "clear", "discard_released"}
RecoveryType == [pc : RecoveryPcs, pending : SUBSET Events, staged : SUBSET Events,
                 keys : SUBSET Events, cur : Events \cup {0}, boot : BOOLEAN]
RunnerType == [pc : {"send", "wait", "done", "failed"}, phase : 1 .. Len(Roles),
               tries : 0 .. MaxTries]
EventType == [kind : {"upload"}, id : Events, role : RoleSet]
             \cup [kind : {"passed"}, id : {0}, role : {"none"}]

TypeInv ==
  /\ TypeOK
  /\ handler \in [Handlers -> HandlerType]
  /\ recovery \in RecoveryType
  /\ runner \in RunnerType
  /\ up \in Seq(EventType)
  /\ acks \in Seq(RoleSet \cup {"none"})

\* The largest event identifier the runner has used or passed over.
LastSent == MaxTries * (runner.phase - 1) + runner.tries

\* The server has yet to look at the upload e.
Unsent(e) == e > LastSent
OnWire(e) == \E i \in 1 .. Len(up) : up[i].id = e
AtPrepare(e) == \E h \in Handlers : handler[h].pc = "prepare" /\ handler[h].id = e
Unseen(e) == Unsent(e) \/ OnWire(e) \/ AtPrepare(e)

\* Nothing on the server refers to the upload e.
Untouched(e) ==
  /\ rows[e] = NoRow /\ staging[e] = "none"
  /\ \A h \in Handlers : handler[h].row # e
  /\ e \notin recovery.pending /\ e \notin recovery.staged /\ e \notin recovery.keys
  /\ recovery.cur # e

\* An upload is handled at most once: it is on the way or at one task only, and
\* until that task looks for its row nothing on the server is about it.
WireInv ==
  /\ \A i, j \in 1 .. Len(up) : up[i].kind = "upload" /\ up[i].id = up[j].id => i = j
  /\ \A i \in 1 .. Len(up) : up[i].id <= LastSent
TakenOnce(h) ==
  handler[h].pc = "prepare" =>
    /\ handler[h].id \in Events /\ handler[h].role \in RoleSet
    /\ handler[h].id <= LastSent
    /\ \A i \in 1 .. Len(up) : up[i].id # handler[h].id
    /\ \A g \in Handlers : handler[g].pc = "prepare" /\ handler[g].id = handler[h].id => g = h
OnceInv ==
  /\ WireInv
  /\ \A h \in Handlers : TakenOnce(h)
  /\ \A e \in Events : Unseen(e) => Untouched(e)

\* What a row says of the objects and of the run.
RowsInv ==
  /\ \A e \in Events :
        /\ rows[e].status = "none" => rows[e] = NoRow
        /\ rows[e].status # "none" => rows[e].role \in RoleSet
        /\ rows[e].status = "staged" => rows[e].key
  /\ OneRowPerContent
  /\ ReadyIsReadable
  /\ linked # 0 => rows[linked].status = "ready"
  /\ \A e \in Events :
        rows[e].status = "ready" /\ rows[e].role = "deliverable" => linked # 0

\* What a handler knows of the row it works on.
Working == {"write", "copy", "reject", "commit", "cleanup", "purge", "clear",
            "clear_failed", "reply"}
Knows(h) ==
  LET me == handler[h] IN
  /\ me.pc \in Working =>
        /\ me.row \in Events /\ me.role \in RoleSet
        /\ rows[me.row].status # "none" => rows[me.row].role = me.role
  /\ me.pc = "copy" /\ rows[me.row].status = "staged" =>
        staging[me.row] # "none" \/ final[me.role] = "good"
  /\ me.pc = "commit" => final[me.role] = "good"
  /\ me.pc \in {"cleanup", "clear", "reply"} => rows[me.row].status = "ready"
  /\ me.pc \in {"purge", "clear_failed"} => rows[me.row].status = "rejected"
HandlerInv == \A h \in Handlers : Knows(h)

\* What the recovery pass knows of the rows it read.
AtRow == {"discard_orphan", "copy", "commit", "abandon", "reject", "cleanup", "clear",
          "discard_released"}
RecoveryInv ==
  /\ recovery.pc \in AtRow => recovery.cur \in Events
  /\ \A e \in recovery.pending \ recovery.staged : rows[e].status # "staged"
  /\ recovery.pc \in {"copy", "commit", "abandon", "reject"} => recovery.cur \in aged
  /\ recovery.pc \in {"discard_orphan", "cleanup", "clear", "discard_released"}
        => rows[recovery.cur].status # "staged"
  /\ recovery.pc = "commit" /\ rows[recovery.cur].status # "none"
        => final[rows[recovery.cur].role] = "good"

\* What the runner was told.
Stored(r) == \E e \in Events : rows[e].status = "ready" /\ rows[e].role = r
AckInv ==
  /\ \A i \in 1 .. Len(acks) : Stored(acks[i])
  /\ \A p \in 1 .. runner.phase - 1 : Stored(Roles[p])
  /\ runner.pc = "done" => Stored(Roles[runner.phase])

StagingInv == OnceInv /\ RowsInv /\ HandlerInv /\ RecoveryInv /\ AckInv
-----------------------------------------------------------------------------
(* The constants.                                                          *)

\* The runner's event identifiers: those of its phases follow one another.
LEMMA SentBounds ==
  ASSUME NEW p \in 1 .. Len(Roles), NEW i \in 1 .. MaxTries
  PROVE  MaxTries * (p - 1) + i \in Events
<1>1. Len(Roles) \in Nat /\ MaxTries \in Nat \ {0}
      BY StagingAssumption
<1>2. MaxTries * (p - 1) + MaxTries <= MaxTries * Len(Roles)
  <2>1. Len(Roles) - p \in Nat /\ p - 1 \in Nat
        BY <1>1
  <2>2. MaxTries * (Len(Roles) - p) \in Nat /\ MaxTries * (p - 1) \in Nat
        BY <1>1, <2>1
  <2>3. MaxTries * Len(Roles) = MaxTries * (Len(Roles) - p) + MaxTries * (p - 1) + MaxTries
        BY <1>1
  <2>4. QED
        BY <1>1, <2>2, <2>3
<1>3. MaxTries * (p - 1) \in Nat /\ MaxTries * Len(Roles) \in Nat
      BY <1>1
<1>4. QED
      BY <1>1, <1>2, <1>3 DEF Events

\* Event identifiers are positive.
LEMMA EventNumbers == \A e \in Events : e \in Nat \ {0}
<1>1. MaxTries * Len(Roles) \in Nat
      BY StagingAssumption
<1>2. QED
      BY <1>1 DEF Events

\* What the assumption on the constants says, in the form the proofs use.
LEMMA ConstantFacts ==
  /\ Events \subseteq Nat \ {0}
  /\ Len(Roles) \in Nat \ {0}
  /\ MaxTries \in Nat \ {0}
  /\ \A p \in 1 .. Len(Roles) : Roles[p] \in RoleSet
<1>1. Len(Roles) \in Nat /\ MaxTries \in Nat \ {0}
      BY StagingAssumption
<1>2. Len(Roles) # 0
      BY StagingAssumption, EmptySeq
<1>3. Events \subseteq Nat \ {0}
      BY EventNumbers
<1>4. QED
      BY <1>1, <1>2, <1>3 DEF RoleSet

-----------------------------------------------------------------------------
(* Types.                                                                  *)

\* The initial state has the types.
LEMMA InitType == Init => TypeInv
<1> SUFFICES ASSUME Init PROVE TypeInv
    OBVIOUS
<1>1. conn \in Handlers
      BY StagingAssumption DEF Init
<1>2. TypeOK
      BY <1>1 DEF Init, TypeOK, NoRow
<1>3. handler \in [Handlers -> HandlerType]
      BY DEF Init, HandlerType, HandlerPcs, Idle
<1>4. recovery \in RecoveryType
      BY DEF Init, RecoveryType, RecoveryPcs, Resting
<1>5. runner \in RunnerType
      BY ConstantFacts DEF Init, RunnerType
<1>6. QED
      BY <1>2, <1>3, <1>4, <1>5 DEF Init, TypeInv

\* A message that arrived leaves the rest of the sequence behind it.
LEMMA Rest ==
  ASSUME NEW S, NEW q \in Seq(S), q # <<>>
  PROVE  /\ Head(q) \in S /\ Tail(q) \in Seq(S)
         /\ Len(q) \in Nat \ {0} /\ Len(Tail(q)) = Len(q) - 1
         /\ Head(q) = q[1]
         /\ \A i \in 1 .. Len(Tail(q)) : Tail(q)[i] = q[i + 1]
<1>1. Len(q) \in Nat \ {0}
      BY EmptySeq
<1>2. QED
      BY <1>1
\* The updates of the artifacts table and of the control records keep their types.
RowTable == [Events -> [status : {"none", "staged", "ready", "rejected"}, key : BOOLEAN,
                        role : RoleSet \cup {"none"}]]
HandlerTable == [Handlers -> HandlerType]

\* Every update of the artifacts table yields a table.
LEMMA RowTypes ==
  ASSUME rows \in RowTable, NEW e \in Events \cup {0}
  PROVE  /\ RejectRow(e) => rows' \in RowTable
         /\ AbandonRow(e) => rows' \in RowTable
         /\ ClearKey(e) => rows' \in RowTable
         /\ CommitRow(e) => rows' \in RowTable
<1>1. \A s \in {"none", "staged", "ready", "rejected"} :
        [rows EXCEPT ![e].status = s] \in RowTable
      BY DEF RowTable
<1>2. [rows EXCEPT ![e].key = FALSE] \in RowTable
      BY DEF RowTable
<1>3. [rows EXCEPT ![e] = NoRow] \in RowTable
      BY DEF RowTable, NoRow
<1>4. QED
      BY <1>1, <1>2, <1>3 DEF RejectRow, AbandonRow, ClearKey, CommitRow, dbVars

\* A commit links an artifact or none.
LEMMA CommitLink ==
  ASSUME linked \in Events \cup {0}, NEW e \in Events \cup {0}, CommitRow(e)
  PROVE  linked' \in Events \cup {0} /\ run' = run
BY DEF CommitRow, LinkDeliverable, dbVars

\* A task that moves on, or finishes, is a task.
LEMMA HandlerTypes ==
  ASSUME handler \in HandlerTable, NEW h \in Handlers
  PROVE  /\ Finish(h) => handler' \in HandlerTable
         /\ \A pc \in HandlerPcs : Goto(h, pc) => handler' \in HandlerTable
<1>1. Idle \in HandlerType
      BY DEF Idle, HandlerType, HandlerPcs
<1>2. \A pc \in HandlerPcs : [handler EXCEPT ![h].pc = pc] \in HandlerTable
      BY DEF HandlerTable, HandlerType
<1>3. QED
      BY <1>1, <1>2 DEF HandlerTable, Finish, Goto

\* So is the recovery pass that moves on or settles a row.
LEMMA RecoveryTypes ==
  ASSUME recovery \in RecoveryType
  PROVE  /\ \A e \in Events \cup {0} : Settle(e) \in RecoveryType
         /\ \A pc \in RecoveryPcs : [recovery EXCEPT !.pc = pc] \in RecoveryType
         /\ Resting \in RecoveryType /\ [Resting EXCEPT !.boot = TRUE] \in RecoveryType
         /\ recovery.cur \in Events \cup {0}
<1>1. \A e \in Events \cup {0} : Settle(e) \in RecoveryType
      BY DEF Settle, RecoveryType, RecoveryPcs
<1>2. \A pc \in RecoveryPcs : [recovery EXCEPT !.pc = pc] \in RecoveryType
      BY DEF RecoveryType
<1>3. Resting \in RecoveryType /\ [Resting EXCEPT !.boot = TRUE] \in RecoveryType
      BY DEF RecoveryType, RecoveryPcs, Resting
<1>4. QED
      BY <1>1, <1>2, <1>3 DEF RecoveryType

\* The types, variable by variable.
LEMMA TypeParts ==
  TypeInv <=> /\ rows \in RowTable /\ handler \in HandlerTable
              /\ recovery \in RecoveryType /\ runner \in RunnerType
              /\ up \in Seq(EventType) /\ acks \in Seq(RoleSet \cup {"none"})
              /\ aged \subseteq Events /\ linked \in Events \cup {0}
              /\ run \in {"active", "passed", "failed", "ended"}
              /\ staging \in [Events -> {"none", "good", "bad"}]
              /\ final \in [RoleSet -> {"none", "good"}]
              /\ conn \in Handlers /\ granted \in BOOLEAN
BY DEF TypeInv, TypeOK, RowTable, HandlerTable

\* Every step keeps the types.
LEMMA NextType == TypeInv /\ [Next]_vars => TypeInv'
<1> SUFFICES ASSUME TypeInv, [Next]_vars PROVE TypeInv'
    OBVIOUS
<1> DEFINE Parts == /\ rows \in RowTable /\ handler \in HandlerTable
                    /\ recovery \in RecoveryType /\ runner \in RunnerType
                    /\ up \in Seq(EventType) /\ acks \in Seq(RoleSet \cup {"none"})
                    /\ aged \subseteq Events /\ linked \in Events \cup {0}
                    /\ run \in {"active", "passed", "failed", "ended"}
                    /\ staging \in [Events -> {"none", "good", "bad"}]
                    /\ final \in [RoleSet -> {"none", "good"}]
                    /\ conn \in Handlers /\ granted \in BOOLEAN
<1>0. Parts
      BY TypeParts
<1> SUFFICES Parts'
    BY DEF TypeInv, TypeOK, RowTable, HandlerTable
<1>1. CASE SendUpload
  <2>1. runner.phase \in 1 .. Len(Roles) /\ runner.tries + 1 \in 1 .. MaxTries
        BY <1>1, <1>0, ConstantFacts DEF SendUpload, RunnerType
  <2>2. [kind |-> "upload", id |-> Sent(runner.tries + 1), role |-> Role] \in EventType
        BY <2>1, SentBounds, ConstantFacts DEF Sent, Role, EventType
  <2>3. runner' \in RunnerType
    <3>1. runner.tries + 1 \in 0 .. MaxTries
          BY <2>1, ConstantFacts
    <3>2. QED
          BY <1>1, <1>0, <3>1 DEF SendUpload, RunnerType
  <2>4. QED
        BY <1>1, <1>0, <2>2, <2>3 DEF SendUpload, dbVars, objects
<1>2. CASE AckTimeout
  <2>1. runner' \in RunnerType
        BY <1>2, <1>0 DEF AckTimeout, RunnerType
  <2>2. QED
        BY <1>2, <1>0, <2>1 DEF AckTimeout, dbVars, objects, wires
<1>3. CASE ReceiveAck
  <2>1. acks' \in Seq(RoleSet \cup {"none"})
        BY <1>3, <1>0, Rest DEF ReceiveAck
  <2>2. up' \in Seq(EventType)
    <3>1. [kind |-> "passed", id |-> 0, role |-> "none"] \in EventType
          BY DEF EventType
    <3>2. up' = up \/ up' = Append(up, [kind |-> "passed", id |-> 0, role |-> "none"])
          BY <1>3 DEF ReceiveAck
    <3>3. Append(up, [kind |-> "passed", id |-> 0, role |-> "none"]) \in Seq(EventType)
          BY <1>0, <3>1, AppendProperties
    <3>4. QED
          BY <1>0, <3>2, <3>3
  <2>3. runner' \in RunnerType
    <3>1. CASE runner' = [pc |-> "send", phase |-> runner.phase + 1, tries |-> 0]
               /\ runner.phase < Len(Roles)
      <4>1. runner.phase + 1 \in 1 .. Len(Roles) /\ 0 \in 0 .. MaxTries
            BY <1>0, <3>1, ConstantFacts DEF RunnerType
      <4>2. QED
            BY <3>1, <4>1 DEF RunnerType
    <3>2. CASE runner' = [runner EXCEPT !.pc = "done"]
          BY <1>0, <3>2 DEF RunnerType
    <3>3. QED
          BY <1>3, <1>0, <3>1, <3>2 DEF ReceiveAck
  <2>4. QED
        BY <1>3, <1>0, <2>1, <2>2, <2>3 DEF ReceiveAck, dbVars, objects
<1>4. ASSUME NEW h \in Handlers, TakeEvent(h) PROVE Parts'
  <2>1. Head(up) \in EventType /\ up' \in Seq(EventType)
        BY <1>4, <1>0, Rest DEF TakeEvent
  <2>2. [pc |-> IF Head(up).kind = "upload" THEN "prepare" ELSE "accept",
         id |-> Head(up).id, role |-> Head(up).role, row |-> 0] \in HandlerType
        BY <2>1 DEF EventType, HandlerType, HandlerPcs
  <2>3. QED
        BY <1>4, <1>0, <2>1, <2>2 DEF TakeEvent, dbVars, objects, HandlerTable
<1>5. ASSUME NEW h \in Handlers, prepare_artifact_upload(h) PROVE Parts'
  <2> DEFINE me == handler[h]
             found == Existing(me.id, me.role)
             row == IF found = {} THEN me.id ELSE CHOOSE f \in found : TRUE
  <2>1. me.id \in Events \cup {0} /\ me.role \in RoleSet \cup {"none"}
        BY <1>0 DEF HandlerTable, HandlerType
  <2>2. found \subseteq Events \cup {0}
        BY <2>1 DEF Existing
  <2>3. row \in Events \cup {0}
        BY <2>1, <2>2
  <2>4. PICK pc \in HandlerPcs : handler' = [handler EXCEPT ![h].row = row, ![h].pc = pc]
        BY <1>5 DEF prepare_artifact_upload, HandlerPcs
  <2>5. rows' = rows \/ ReserveRow(row, me.role)
        BY <1>5 DEF prepare_artifact_upload
  <2> HIDE DEF row, found
  <2>6. handler' \in HandlerTable
    <3>1. [handler[h] EXCEPT !.row = row, !.pc = pc] \in HandlerType
          BY <1>0, <2>3, <2>4 DEF HandlerTable, HandlerType
    <3>2. QED
          BY <1>0, <2>4, <3>1 DEF HandlerTable
  <2>7. rows' \in RowTable
    <3>1. CASE ReserveRow(row, me.role)
      <4>1. [status |-> "staged", key |-> TRUE, role |-> me.role]
              \in [status : {"none", "staged", "ready", "rejected"}, key : BOOLEAN,
                   role : RoleSet \cup {"none"}]
            BY <2>1
      <4>2. QED
            BY <1>0, <3>1, <4>1 DEF ReserveRow, RowTable
    <3>2. QED
          BY <1>0, <2>5, <3>1
  <2>8. QED
        BY <1>5, <1>0, <2>6, <2>7 DEF prepare_artifact_upload, objects, wires
<1>6. ASSUME NEW h \in Handlers, write_staged(h) PROVE Parts'
  <2>1. handler' \in HandlerTable
        BY <1>6, <1>0, HandlerTypes DEF write_staged, HandlerPcs
  <2>2. staging' \in [Events -> {"none", "good", "bad"}]
        BY <1>6, <1>0 DEF write_staged
  <2>3. QED
        BY <1>6, <1>0, <2>1, <2>2 DEF write_staged, dbVars, objects, wires
<1>7. ASSUME NEW h \in Handlers, finalize_staged(h) PROVE Parts'
  <2>1. handler' \in HandlerTable
        BY <1>7, <1>0, HandlerTypes DEF finalize_staged, HandlerPcs
  <2>2. final' \in [RoleSet -> {"none", "good"}]
        BY <1>7, <1>0 DEF finalize_staged
  <2>3. QED
        BY <1>7, <1>0, <2>1, <2>2 DEF finalize_staged, dbVars, objects, wires
<1>8. ASSUME NEW h \in Handlers, RejectUpload(h) PROVE Parts'
  <2>1. handler[h].row \in Events \cup {0}
        BY <1>8, <1>0 DEF RejectUpload, HandlerTable, HandlerType
  <2>2. handler' \in HandlerTable
        BY <1>8, <1>0, HandlerTypes DEF RejectUpload, HandlerPcs
  <2>3. rows' \in RowTable
        BY <1>8, <1>0, RowTypes, <2>1 DEF RejectUpload
  <2>4. QED
        BY <1>8, <1>0, <2>1, <2>2, <2>3 DEF RejectUpload, dbVars, objects, wires
<1>9. ASSUME NEW h \in Handlers, finalize_artifact_upload(h) PROVE Parts'
  <2>1. handler[h].row \in Events \cup {0}
        BY <1>9, <1>0 DEF finalize_artifact_upload, HandlerTable, HandlerType
  <2>2. handler' \in HandlerTable
        BY <1>9, <1>0, HandlerTypes DEF finalize_artifact_upload, HandlerPcs
  <2>3. rows' \in RowTable
        BY <1>9, <1>0, RowTypes, <2>1 DEF finalize_artifact_upload
  <2>4. linked' \in Events \cup {0} /\ run' = run
        BY <1>9, <1>0, CommitLink, <2>1 DEF finalize_artifact_upload
  <2>5. QED
        BY <1>9, <1>0, <2>1, <2>2, <2>3, <2>4 DEF finalize_artifact_upload, dbVars, objects, wires
<1>10. ASSUME NEW h \in Handlers, DiscardStaged(h) PROVE Parts'
  <2>1. handler' \in HandlerTable
        BY <1>10, <1>0, HandlerTypes DEF DiscardStaged, HandlerPcs
  <2>2. staging' \in [Events -> {"none", "good", "bad"}]
        BY <1>10, <1>0 DEF DiscardStaged
  <2>3. QED
        BY <1>10, <1>0, <2>1, <2>2 DEF DiscardStaged, dbVars, objects, wires
<1>11. ASSUME NEW h \in Handlers, clear_artifact_staging_key(h) PROVE Parts'
  <2>1. handler[h].row \in Events \cup {0}
        BY <1>11, <1>0 DEF clear_artifact_staging_key, HandlerTable, HandlerType
  <2>2. handler' \in HandlerTable
        BY <1>11, <1>0, HandlerTypes DEF clear_artifact_staging_key, HandlerPcs
  <2>3. rows' \in RowTable
        BY <1>11, <1>0, RowTypes, <2>1 DEF clear_artifact_staging_key
  <2>4. QED
        BY <1>11, <1>0, <2>1, <2>2, <2>3 DEF clear_artifact_staging_key, dbVars, objects, wires
<1>12. ASSUME NEW h \in Handlers, Acknowledge(h) PROVE Parts'
  <2>1. handler' \in HandlerTable
        BY <1>12, <1>0, HandlerTypes DEF Acknowledge
  <2>2. handler[h].role \in RoleSet \cup {"none"}
        BY <1>0 DEF HandlerTable, HandlerType
  <2>3. acks' \in Seq(RoleSet \cup {"none"})
    <3>1. acks' = acks \/ acks' = Append(acks, handler[h].role)
          BY <1>12 DEF Acknowledge
    <3>2. Append(acks, handler[h].role) \in Seq(RoleSet \cup {"none"})
          BY <1>0, <2>2, AppendProperties
    <3>3. QED
          BY <1>0, <3>1, <3>2
  <2>4. QED
        BY <1>12, <1>0, <2>1, <2>3 DEF Acknowledge, dbVars, objects
<1>13. ASSUME NEW h \in Handlers, FailRun(h) PROVE Parts'
  <2>1. handler' \in HandlerTable
        BY <1>13, <1>0, HandlerTypes DEF FailRun, HandlerPcs
  <2>2. QED
        BY <1>13, <1>0, <2>1 DEF FailRun, dbVars, objects, wires
<1>14. ASSUME NEW h \in Handlers, verification_passed(h) PROVE Parts'
  <2>1. handler' \in HandlerTable
        BY <1>14, <1>0, HandlerTypes DEF verification_passed, HandlerPcs
  <2>2. QED
        BY <1>14, <1>0, <2>1 DEF verification_passed, dbVars, objects, wires
<1>15. CASE StartRecovery
  <2>1. recovery' \in RecoveryType
        BY <1>15, <1>0 DEF StartRecovery, RecoveryType, RecoveryPcs
  <2>2. QED
        BY <1>15, <1>0, <2>1 DEF StartRecovery, dbVars, objects, wires
<1>16. CASE ListStaging
  <2>1. recovery' \in RecoveryType
        BY <1>16, <1>0 DEF ListStaging, RecoveryType, RecoveryPcs
  <2>2. QED
        BY <1>16, <1>0, <2>1 DEF ListStaging, dbVars, objects, wires
<1>17. CASE DiscardOrphan
  <2>1. recovery' \in RecoveryType
        BY <1>17, <1>0 DEF DiscardOrphan, RecoveryType, RecoveryPcs
  <2>2. staging' \in [Events -> {"none", "good", "bad"}]
        BY <1>17, <1>0 DEF DiscardOrphan
  <2>3. QED
        BY <1>17, <1>0, <2>1, <2>2 DEF DiscardOrphan, dbVars, objects, wires
<1>18. CASE RecoverCopy
  <2>1. recovery' \in RecoveryType
        BY <1>18, <1>0, RecoveryTypes DEF RecoverCopy, RecoveryPcs
  <2>2. final' \in [RoleSet -> {"none", "good"}]
        BY <1>18, <1>0 DEF RecoverCopy
  <2>3. QED
        BY <1>18, <1>0, <2>1, <2>2 DEF RecoverCopy, dbVars, objects, wires
<1>19. CASE RecoverAbandon
  <2>1. recovery.cur \in Events \cup {0}
        BY <1>19, <1>0 DEF RecoverAbandon, RecoveryType
  <2>2. recovery' \in RecoveryType
        BY <1>19, <1>0, RecoveryTypes DEF RecoverAbandon, RecoveryPcs
  <2>3. rows' \in RowTable
        BY <1>19, <1>0, RowTypes, <2>1 DEF RecoverAbandon
  <2>4. QED
        BY <1>19, <1>0, <2>1, <2>2, <2>3 DEF RecoverAbandon, dbVars, objects, wires
<1>20. CASE RecoverReject
  <2>1. recovery.cur \in Events \cup {0}
        BY <1>20, <1>0 DEF RecoverReject, RecoveryType
  <2>2. recovery' \in RecoveryType
        BY <1>20, <1>0, RecoveryTypes DEF RecoverReject, RecoveryPcs
  <2>3. rows' \in RowTable
        BY <1>20, <1>0, RowTypes, <2>1 DEF RecoverReject
  <2>4. QED
        BY <1>20, <1>0, <2>1, <2>2, <2>3 DEF RecoverReject, dbVars, objects, wires
<1>21. CASE RecoverCommit
  <2>1. recovery.cur \in Events \cup {0}
        BY <1>21, <1>0 DEF RecoverCommit, RecoveryType
  <2>2. recovery' \in RecoveryType
        BY <1>21, <1>0, RecoveryTypes DEF RecoverCommit, RecoveryPcs
  <2>3. rows' \in RowTable
        BY <1>21, <1>0, RowTypes, <2>1 DEF RecoverCommit
  <2>4. linked' \in Events \cup {0} /\ run' = run
        BY <1>21, <1>0, CommitLink, <2>1 DEF RecoverCommit
  <2>5. QED
        BY <1>21, <1>0, <2>1, <2>2, <2>3, <2>4 DEF RecoverCommit, dbVars, objects, wires
<1>22. CASE RecoverDiscard
  <2>1. recovery' \in RecoveryType
        BY <1>22, <1>0, RecoveryTypes DEF RecoverDiscard, RecoveryPcs
  <2>2. staging' \in [Events -> {"none", "good", "bad"}]
        BY <1>22, <1>0 DEF RecoverDiscard
  <2>3. QED
        BY <1>22, <1>0, <2>1, <2>2 DEF RecoverDiscard, dbVars, objects, wires
<1>23. CASE RecoverClear
  <2>1. recovery.cur \in Events \cup {0}
        BY <1>23, <1>0 DEF RecoverClear, RecoveryType
  <2>2. recovery' \in RecoveryType
        BY <1>23, <1>0, RecoveryTypes DEF RecoverClear, RecoveryPcs
  <2>3. rows' \in RowTable
        BY <1>23, <1>0, RowTypes, <2>1 DEF RecoverClear
  <2>4. QED
        BY <1>23, <1>0, <2>1, <2>2, <2>3 DEF RecoverClear, dbVars, objects, wires
<1>24. CASE EndRecovery
  <2>1. recovery' \in RecoveryType
        BY <1>24, <1>0, RecoveryTypes DEF EndRecovery, RecoveryPcs
  <2>2. QED
        BY <1>24, <1>0, <2>1 DEF EndRecovery, dbVars, objects, wires
<1>25. ASSUME NEW e \in Events, CheckOrphan(e) PROVE Parts'
  <2>1. recovery' \in RecoveryType
        BY <1>25, <1>0 DEF CheckOrphan, RecoveryType, RecoveryPcs
  <2>2. QED
        BY <1>25, <1>0, <2>1 DEF CheckOrphan, dbVars, objects, wires
<1>26. ASSUME NEW e \in Events, RecoverRow(e) PROVE Parts'
  <2>1. [recovery EXCEPT !.cur = e, !.pc = IF e \in recovery.staged THEN "copy" ELSE "cleanup"] \in RecoveryType
        BY <1>26, <1>0 DEF RecoverRow, RecoveryType, RecoveryPcs
  <2>2. recovery' \in RecoveryType
        BY <1>26, <1>0, RecoveryTypes, <2>1 DEF RecoverRow
  <2>3. QED
        BY <1>26, <1>0, <2>1, <2>2 DEF RecoverRow, dbVars, objects, wires
<1>27. CASE RecoveryError
  <2>1. Settle(recovery.cur) \in RecoveryType
        BY <1>27, <1>0, RecoveryTypes DEF RecoveryError
  <2>2. recovery' \in RecoveryType
        BY <1>27, <1>0, RecoveryTypes, <2>1 DEF RecoveryError, RecoveryPcs
  <2>3. QED
        BY <1>27, <1>0, <2>1, <2>2 DEF RecoveryError, dbVars, objects, wires
<1>28. CASE RunEnds
      BY <1>28, <1>0 DEF RunEnds, dbVars, objects, wires
<1>29. CASE AuthorityWithdrawn
      BY <1>29, <1>0 DEF AuthorityWithdrawn, dbVars, objects, wires
<1>30. CASE ServerCrash
  <2>1. handler' \in HandlerTable
        BY <1>30 DEF ServerCrash, HandlerTable, HandlerType, HandlerPcs, Idle
  <2>2. recovery' \in RecoveryType
        BY <1>30, <1>0, RecoveryTypes DEF ServerCrash
  <2>3. up' \in Seq(EventType) /\ acks' \in Seq(RoleSet \cup {"none"})
        BY <1>30 DEF ServerCrash
  <2>4. QED
        BY <1>30, <1>0, <2>1, <2>2, <2>3 DEF ServerCrash, dbVars, objects
<1>31. ASSUME NEW h \in Handlers, PayloadRefused(h) PROVE Parts'
  <2>1. handler' \in HandlerTable
        BY <1>31, <1>0, HandlerTypes DEF PayloadRefused, HandlerPcs
  <2>2. QED
        BY <1>31, <1>0, <2>1 DEF PayloadRefused, dbVars, objects, wires
<1>32. ASSUME NEW h \in Handlers, StorageError(h) PROVE Parts'
  <2>1. handler' \in HandlerTable
        BY <1>32, <1>0, HandlerTypes DEF StorageError, HandlerPcs
  <2>2. QED
        BY <1>32, <1>0, <2>1 DEF StorageError, dbVars, objects, wires
<1>3a. ASSUME NEW h \in Handlers, DiscardError(h) PROVE Parts'
  <2>1. handler' \in HandlerTable
        BY <1>3a, <1>0, HandlerTypes DEF DiscardError, HandlerPcs
  <2>2. QED
        BY <1>3a, <1>0, <2>1 DEF DiscardError, dbVars, objects, wires
<1>34. ASSUME NEW h \in Handlers, Reconnect(h) PROVE Parts'
  <2>1. up' \in Seq(EventType) /\ acks' \in Seq(RoleSet \cup {"none"})
        BY <1>34 DEF Reconnect
  <2>2. QED
        BY <1>34, <1>0, <2>1 DEF Reconnect, dbVars, objects
<1>35. ASSUME NEW e \in Events, StagingDamaged(e) PROVE Parts'
  <2>1. staging' \in [Events -> {"none", "good", "bad"}]
        BY <1>35, <1>0 DEF StagingDamaged
  <2>2. QED
        BY <1>35, <1>0, <2>1 DEF StagingDamaged, dbVars, objects, wires
<1>36. ASSUME NEW e \in Events, GraceEnds(e) PROVE Parts'
      BY <1>36, <1>0 DEF GraceEnds, dbVars, objects, wires
<1>37. CASE UNCHANGED vars
      BY <1>37, <1>0 DEF vars
<1> HIDE DEF Parts
<1>38. QED
      BY <1>1, <1>2, <1>3, <1>4, <1>5, <1>6, <1>7, <1>8, <1>9, <1>10, <1>11, <1>12, <1>13, <1>14, <1>15, <1>16, <1>17, <1>18, <1>19, <1>20, <1>21, <1>22, <1>23, <1>24, <1>25, <1>26, <1>27, <1>28, <1>29, <1>30, <1>31, <1>32, <1>3a, <1>34, <1>35, <1>36, <1>37 DEF Next, Upload, Recover, Faulty, Handle
-----------------------------------------------------------------------------
(* Which steps write which variable.                                       *)

HandlerFault(h) == PayloadRefused(h) \/ StorageError(h) \/ DiscardError(h)

RowsWriter ==
  \/ \E h \in Handlers : \/ prepare_artifact_upload(h) \/ RejectUpload(h)
                         \/ finalize_artifact_upload(h) \/ clear_artifact_staging_key(h)
  \/ RecoverAbandon \/ RecoverReject \/ RecoverCommit \/ RecoverClear
LinkWriter == RecoverCommit \/ \E h \in Handlers : finalize_artifact_upload(h)
FinalWriter == RecoverCopy \/ \E h \in Handlers : finalize_staged(h)
StagingWriter ==
  \/ DiscardOrphan \/ RecoverDiscard
  \/ \E h \in Handlers : write_staged(h) \/ DiscardStaged(h)
  \/ \E e \in Events : StagingDamaged(e)
AgedWriter == RecoverAbandon \/ \E e \in Events : GraceEnds(e)
HandlerWriter == ServerCrash \/ \E h \in Handlers : Handle(h) \/ HandlerFault(h)
RecoveryWriter == Recover \/ RecoveryError \/ ServerCrash
WireWriter ==
  \/ SendUpload \/ ReceiveAck \/ ServerCrash
  \/ \E h \in Handlers : TakeEvent(h) \/ Acknowledge(h) \/ Reconnect(h)

Framed ==
  /\ rows' = rows \/ RowsWriter
  /\ linked' = linked \/ LinkWriter
  /\ final' = final \/ FinalWriter
  /\ staging' = staging \/ StagingWriter
  /\ aged' = aged \/ AgedWriter
  /\ handler' = handler \/ HandlerWriter
  /\ recovery' = recovery \/ RecoveryWriter
  /\ runner' = runner \/ Upload
  /\ <<up, acks>>' = <<up, acks>> \/ WireWriter

\* A variable changes only by a step of its writers.
LEMMA Frames == [Next]_vars => Framed
<1> SUFFICES ASSUME [Next]_vars PROVE Framed
    OBVIOUS
<1> USE DEF Framed, dbVars, objects, wires
<1>1. CASE Upload
      BY <1>1 DEF Upload, SendUpload, AckTimeout, ReceiveAck, WireWriter
<1>2. CASE Recover
  <2>1. recovery' = recovery \/ RecoveryWriter
        BY <1>2 DEF RecoveryWriter
  <2> HIDE DEF Framed
  <2>2. CASE StartRecovery \/ ListStaging \/ EndRecovery
        BY <2>1, <2>2 DEF Framed, StartRecovery, ListStaging, EndRecovery
  <2>3. CASE DiscardOrphan \/ RecoverDiscard
        BY <2>1, <2>3 DEF Framed, DiscardOrphan, RecoverDiscard, StagingWriter
  <2>4. CASE RecoverCopy
        BY <2>1, <2>4 DEF Framed, RecoverCopy, FinalWriter
  <2>5. CASE RecoverAbandon \/ RecoverReject \/ RecoverClear
        BY <2>1, <2>5 DEF Framed, RecoverAbandon, RecoverReject, RecoverClear,
                          RowsWriter, AgedWriter
  <2>6. CASE RecoverCommit
        BY <2>1, <2>6 DEF Framed, RecoverCommit, RowsWriter, LinkWriter
  <2>7. CASE \E e \in Events : CheckOrphan(e) \/ RecoverRow(e)
        BY <2>1, <2>7 DEF Framed, CheckOrphan, RecoverRow
  <2>8. QED
        BY <1>2, <2>2, <2>3, <2>4, <2>5, <2>6, <2>7 DEF Recover
<1>3. CASE Faulty
  <2> HIDE DEF Framed
  <2>1. CASE RecoveryError
        BY <2>1 DEF Framed, RecoveryError, RecoveryWriter
  <2>2. CASE RunEnds \/ AuthorityWithdrawn
        BY <2>2 DEF Framed, RunEnds, AuthorityWithdrawn
  <2>3. CASE ServerCrash
        BY <2>3 DEF Framed, ServerCrash, RecoveryWriter, HandlerWriter, WireWriter
  <2>4. ASSUME NEW h \in Handlers, HandlerFault(h) PROVE Framed
    <3>1. HandlerWriter
          BY <2>4 DEF HandlerWriter
    <3>2. QED
          BY <2>4, <3>1 DEF Framed, HandlerFault, PayloadRefused, StorageError, DiscardError
  <2>5. ASSUME NEW h \in Handlers, Reconnect(h) PROVE Framed
        BY <2>5 DEF Framed, Reconnect, WireWriter
  <2>6. ASSUME NEW e \in Events, StagingDamaged(e) PROVE Framed
        BY <2>6 DEF Framed, StagingDamaged, StagingWriter
  <2>7. QED
        BY <1>3, <2>1, <2>2, <2>3, <2>4, <2>5, <2>6 DEF Faulty, HandlerFault
<1>4. ASSUME NEW h \in Handlers, Handle(h) PROVE Framed
  <2>1. HandlerWriter
        BY <1>4 DEF HandlerWriter
  <2> HIDE DEF Framed
  <2>2. CASE TakeEvent(h) \/ Acknowledge(h)
        BY <2>1, <2>2 DEF Framed, TakeEvent, Acknowledge, WireWriter
  <2>3. CASE prepare_artifact_upload(h)
        BY <2>1, <2>3 DEF Framed, prepare_artifact_upload, RowsWriter
  <2>4. CASE write_staged(h) \/ DiscardStaged(h)
        BY <2>1, <2>4 DEF Framed, write_staged, DiscardStaged, StagingWriter
  <2>5. CASE finalize_staged(h)
        BY <2>1, <2>5 DEF Framed, finalize_staged, FinalWriter
  <2>6. CASE RejectUpload(h) \/ clear_artifact_staging_key(h)
        BY <2>1, <2>6 DEF Framed, RejectUpload, clear_artifact_staging_key, RowsWriter
  <2>7. CASE finalize_artifact_upload(h)
        BY <2>1, <2>7 DEF Framed, finalize_artifact_upload, RowsWriter, LinkWriter
  <2>8. CASE FailRun(h) \/ verification_passed(h)
        BY <2>1, <2>8 DEF Framed, FailRun, verification_passed
  <2>9. QED
        BY <1>4, <2>2, <2>3, <2>4, <2>5, <2>6, <2>7, <2>8 DEF Handle
<1>5. ASSUME NEW e \in Events, GraceEnds(e) PROVE Framed
      BY <1>5 DEF GraceEnds, AgedWriter
<1>6. CASE UNCHANGED vars
      BY <1>6 DEF vars
<1>7. QED
      BY <1>1, <1>2, <1>3, <1>4, <1>5, <1>6 DEF Next
-----------------------------------------------------------------------------
(* What a step does to one row, to the objects and to the run's link.      *)

\* The outcomes of prepare_artifact_upload: the upload is refused, it is about a
\* row that exists, or a row of its own is reserved.
Refused(h, e) ==
  /\ rows' = rows
  /\ e = handler[h].id \/ rows[e].status # "none"
  /\ handler' = [handler EXCEPT ![h].row = e, ![h].pc = "fail"]
Found(h, e) ==
  /\ rows' = rows
  /\ rows[e].status # "none" /\ rows[e].role = handler[h].role
  /\ \E pc \in {"cleanup", "purge", "write"} :
        /\ handler' = [handler EXCEPT ![h].row = e, ![h].pc = pc]
        /\ pc = "cleanup" => rows[e].status = "ready"
        /\ pc = "purge" => rows[e].status = "rejected"
Reserved(h, e) ==
  /\ e = handler[h].id
  /\ rows[e] = NoRow
  /\ \A f \in Events : rows[f].status # "none" => rows[f].role # handler[h].role
  /\ ReserveRow(e, handler[h].role)
  /\ handler' = [handler EXCEPT ![h].row = e, ![h].pc = "write"]

\* prepare_artifact_upload has no other outcome, since the row of an upload
\* the server has not looked at does not exist.
LEMMA PrepareOutcomes ==
  ASSUME TypeInv, OnceInv, NEW h \in Handlers, prepare_artifact_upload(h)
  PROVE  /\ handler[h].pc = "prepare" /\ handler[h].id \in Events
         /\ handler[h].role \in RoleSet
         /\ \E e \in Events : Refused(h, e) \/ Found(h, e) \/ Reserved(h, e)
<1> DEFINE me == handler[h]
           found == Existing(me.id, me.role)
           row == IF found = {} THEN me.id ELSE CHOOSE f \in found : TRUE
           status == IF found = {} THEN "staged" ELSE rows[row].status
           refused == \/ run # "active"
                      \/ ~Authority(me.role)
                      \/ me.role = "receipt" /\ status = "rejected"
<1>1. me.pc = "prepare"
      BY DEF prepare_artifact_upload
<1>2. me.id \in Events /\ me.role \in RoleSet
      BY <1>1 DEF OnceInv, TakenOnce
<1>3. rows[me.id] = NoRow
  <2>1. AtPrepare(me.id)
        BY <1>1 DEF AtPrepare
  <2>2. QED
        BY <1>2, <2>1 DEF OnceInv, Unseen, Untouched
<1>4. found = {f \in Events : rows[f].status # "none" /\ rows[f].role = me.role}
      BY <1>3 DEF Existing, NoRow
<1>5. CASE found = {}
  <2>1. row = me.id /\ status = "staged"
        BY <1>5
  <2>2. CASE refused
        BY <1>2, <1>5, <2>1, <2>2 DEF prepare_artifact_upload, Refused
  <2>3. CASE ~refused
    <3>1. handler' = [handler EXCEPT ![h].row = me.id, ![h].pc = "write"]
          BY <1>5, <2>1, <2>3 DEF prepare_artifact_upload
    <3>2. ReserveRow(me.id, me.role)
          BY <1>5, <2>1, <2>3 DEF prepare_artifact_upload
    <3>3. \A f \in Events : rows[f].status # "none" => rows[f].role # me.role
          BY <1>4, <1>5
    <3>4. QED
          BY <1>1, <1>2, <1>3, <3>1, <3>2, <3>3 DEF Reserved
  <2>4. QED
        BY <1>1, <1>2, <2>2, <2>3
<1>6. CASE found # {}
  <2>1. row \in found /\ status = rows[row].status
        BY <1>6
  <2>2. row \in Events /\ rows[row].status # "none" /\ rows[row].role = me.role
        BY <1>4, <2>1
  <2>3. rows' = rows
        BY <1>6 DEF prepare_artifact_upload
  <2>4. CASE refused
    <3>1. handler' = [handler EXCEPT ![h].row = row, ![h].pc = "fail"]
          BY <2>4 DEF prepare_artifact_upload
    <3> HIDE DEF row, found
    <3>2. QED
          BY <1>1, <1>2, <2>2, <2>3, <3>1 DEF Refused
  <2>5. CASE ~refused
    <3>1. handler' = [handler EXCEPT ![h].row = row, ![h].pc =
                        CASE status = "ready" -> "cleanup"
                          [] status = "rejected" -> "purge"
                          [] OTHER -> "write"]
          BY <2>5 DEF prepare_artifact_upload
    <3> HIDE DEF row, found, status
    <3>2. Found(h, row)
      <4>1. CASE status = "ready"
            BY <2>1, <2>2, <2>3, <3>1, <4>1 DEF Found
      <4>2. CASE status = "rejected"
            BY <2>1, <2>2, <2>3, <3>1, <4>2 DEF Found
      <4>3. CASE status # "ready" /\ status # "rejected"
            BY <2>1, <2>2, <2>3, <3>1, <4>3 DEF Found
      <4>4. QED
            BY <4>1, <4>2, <4>3
    <3>3. QED
          BY <1>1, <1>2, <2>2, <3>2
  <2>6. QED
        BY <2>4, <2>5
<1>7. QED
      BY <1>5, <1>6
\* A row that is not reserved in a step: it is settled at most once, a settled
\* one only loses its staging key, and a ready one is in the object store.
Kept(e) ==
  /\ rows[e].status # "staged" => rows'[e].status = rows[e].status
  /\ rows[e].status = "none" \/ rows'[e].status = "staged" => rows'[e] = rows[e]
  /\ rows'[e].status = "none" => rows'[e] = NoRow
  /\ rows'[e].status # "none" => rows'[e].role = rows[e].role
  /\ rows'[e].status = "ready" => final[rows[e].role] = "good"
  /\ rows'[e].status = "ready" /\ rows[e].role = "deliverable" => linked' # 0

\* A row that does not change is kept.
LEMMA KeptWhenSame ==
  ASSUME TypeInv, RowsInv, NEW e \in Events, rows'[e] = rows[e],
         linked' = linked \/ linked' # 0
  PROVE  Kept(e)
BY DEF Kept, RowsInv, ReadyIsReadable, read_verified, NoRow

\* finalize_artifact_upload makes a staged row ready, or rejects it, and
\* links the deliverable.
LEMMA CommitKeeps ==
  ASSUME TypeInv, RowsInv, NEW e \in Events, CommitRow(e),
         rows[e].status = "staged" => final[rows[e].role] = "good"
  PROVE  /\ \A f \in Events : Kept(f)
         /\ linked' = linked \/ (linked = 0 /\ linked' = e /\ rows'[e].status = "ready")
         /\ rows[e].status = "staged" /\ Authority(rows[e].role) => rows'[e].status = "ready"
         /\ rows'[e].status # "staged"
<1> USE DEF TypeInv, TypeOK
<1>1. linked' = linked \/ (linked = 0 /\ linked' = e /\ rows'[e].status = "ready")
      BY DEF CommitRow, LinkDeliverable, dbVars
<1>2. \A f \in Events : f # e => rows'[f] = rows[f]
      BY DEF CommitRow, dbVars
<1>3. linked' = linked \/ linked' # 0
      BY <1>1, ConstantFacts
<1>4. Kept(e)
  <2>1. CASE rows[e].status = "staged" /\ ~Authority(rows[e].role)
    <3>1. rows'[e] = [rows[e] EXCEPT !.status = "rejected"]
          BY <2>1 DEF CommitRow
    <3>2. QED
          BY <2>1, <3>1 DEF Kept
  <2>2. CASE rows[e].status = "staged" /\ Authority(rows[e].role)
    <3>1. rows'[e] = [rows[e] EXCEPT !.status = "ready"] /\ LinkDeliverable(e)
          BY <2>2 DEF CommitRow
    <3>2. rows[e].role = "deliverable" => linked' # 0
          BY <3>1, ConstantFacts DEF LinkDeliverable
    <3>3. QED
          BY <2>2, <3>1, <3>2 DEF Kept
  <2>3. CASE rows[e].status # "staged"
        BY <1>3, <2>3, KeptWhenSame DEF CommitRow, dbVars
  <2>4. QED
        BY <2>1, <2>2, <2>3
<1>5. \A f \in Events : Kept(f)
      BY <1>2, <1>3, <1>4, KeptWhenSame
<1>6. rows[e].status = "staged" /\ Authority(rows[e].role) => rows'[e].status = "ready"
      BY DEF CommitRow
<1>7. rows'[e].status # "staged"
      BY DEF CommitRow, dbVars
<1>8. QED
      BY <1>1, <1>5, <1>6, <1>7

\* reject_staged_artifact settles a staged row and no other.
LEMMA RejectKeeps ==
  ASSUME TypeInv, RowsInv, NEW e \in Events, RejectRow(e), linked' = linked
  PROVE  /\ \A f \in Events : Kept(f)
         /\ rows[e].status = "staged" => rows'[e].status = "rejected"
<1> USE DEF TypeInv, TypeOK
<1>1. \A f \in Events : f # e \/ rows[e].status # "staged" => rows'[f] = rows[f]
      BY DEF RejectRow
<1>2. rows[e].status = "staged" => rows'[e] = [rows[e] EXCEPT !.status = "rejected"]
      BY DEF RejectRow
<1>3. rows[e].status = "staged" => Kept(e)
      BY <1>2 DEF Kept
<1>4. QED
      BY <1>1, <1>2, <1>3, KeptWhenSame

\* abandon_staged_artifact releases a staged row and no other.
LEMMA AbandonKeeps ==
  ASSUME TypeInv, RowsInv, NEW e \in Events, AbandonRow(e), linked' = linked
  PROVE  /\ \A f \in Events : Kept(f)
         /\ \A f \in Events : f # e => rows'[f] = rows[f]
         /\ rows'[e].status # "staged"
<1> USE DEF TypeInv, TypeOK
<1>1. \A f \in Events : f # e \/ rows[e].status # "staged" => rows'[f] = rows[f]
      BY DEF AbandonRow
<1>2. rows[e].status = "staged" => rows'[e] = NoRow
      BY DEF AbandonRow
<1>3. rows[e].status = "staged" => Kept(e)
      BY <1>2 DEF Kept, NoRow
<1>4. rows'[e].status # "staged"
      BY <1>1, <1>2 DEF NoRow
<1>5. QED
      BY <1>1, <1>3, <1>4, KeptWhenSame

\* clear_artifact_staging_key changes no status.
LEMMA ClearKeeps ==
  ASSUME TypeInv, RowsInv, NEW e \in Events, ClearKey(e), linked' = linked
  PROVE  /\ \A f \in Events : Kept(f)
         /\ \A f \in Events : rows'[f].status = rows[f].status
<1> USE DEF TypeInv, TypeOK
<1> DEFINE settled == rows[e].status \notin {"none", "staged"}
<1>1. \A f \in Events : f # e \/ ~settled => rows'[f] = rows[f]
      BY DEF ClearKey
<1>2. settled => rows'[e] = [rows[e] EXCEPT !.key = FALSE]
      BY DEF ClearKey
<1>3. settled => Kept(e)
      BY <1>2 DEF Kept, RowsInv, ReadyIsReadable, read_verified
<1>4. QED
      BY <1>1, <1>2, <1>3, KeptWhenSame

\* Every step reserves one row or keeps them all.
LEMMA StepRows ==
  ASSUME TypeInv, StagingInv, [Next]_vars
  PROVE  \/ \E h \in Handlers, e \in Events :
               /\ prepare_artifact_upload(h) /\ Reserved(h, e)
               /\ handler[h].pc = "prepare" /\ handler[h].role \in RoleSet
         \/ \A e \in Events : Kept(e)
<1> USE DEF StagingInv
<1>1. CASE rows' = rows
  <2>1. linked' = linked \/ linked' # 0
    <3>1. CASE LinkWriter
          BY <1>1, <3>1 DEF LinkWriter, finalize_artifact_upload, RecoverCommit, CommitRow,
                            LinkDeliverable, dbVars
    <3>2. QED
          BY <3>1, Frames DEF Framed
  <2>2. QED
        BY <1>1, <2>1, KeptWhenSame
<1>2. ASSUME NEW h \in Handlers, prepare_artifact_upload(h)
      PROVE  \/ rows' = rows
             \/ \E e \in Events : /\ Reserved(h, e) /\ handler[h].pc = "prepare"
                                  /\ handler[h].role \in RoleSet
      BY <1>2, PrepareOutcomes DEF Refused, Found
<1>3. ASSUME NEW h \in Handlers, RejectUpload(h) PROVE \A e \in Events : Kept(e)
      BY <1>3, RejectKeeps DEF RejectUpload, HandlerInv, Knows, Working
<1>4. ASSUME NEW h \in Handlers, finalize_artifact_upload(h) PROVE \A e \in Events : Kept(e)
      BY <1>4, CommitKeeps DEF finalize_artifact_upload, HandlerInv, Knows, Working
<1>5. ASSUME NEW h \in Handlers, clear_artifact_staging_key(h) PROVE \A e \in Events : Kept(e)
      BY <1>5, ClearKeeps DEF clear_artifact_staging_key, HandlerInv, Knows, Working
<1>6. CASE RecoverAbandon
      BY <1>6, AbandonKeeps DEF RecoverAbandon, RecoveryInv, AtRow
<1>7. CASE RecoverReject
      BY <1>7, RejectKeeps DEF RecoverReject, RecoveryInv, AtRow
<1>8. CASE RecoverCommit
      BY <1>8, CommitKeeps DEF RecoverCommit, RecoveryInv, AtRow
<1>9. CASE RecoverClear
      BY <1>9, ClearKeeps DEF RecoverClear, RecoveryInv, AtRow
<1>10. rows' = rows \/ RowsWriter
       BY Frames DEF Framed
<1>11. QED
       BY <1>1, <1>2, <1>3, <1>4, <1>5, <1>6, <1>7, <1>8, <1>9, <1>10 DEF RowsWriter

\* The deliverable of the run is linked once, when its row becomes ready.
LEMMA StepLink ==
  ASSUME TypeInv, StagingInv, [Next]_vars
  PROVE  \/ linked' = linked
         \/ linked = 0 /\ linked' \in Events /\ rows'[linked'].status = "ready"
<1> USE DEF StagingInv
<1>1. ASSUME NEW h \in Handlers, finalize_artifact_upload(h)
      PROVE  linked' = linked
             \/ (linked = 0 /\ linked' \in Events /\ rows'[linked'].status = "ready")
      BY <1>1, CommitKeeps DEF finalize_artifact_upload, HandlerInv, Knows, Working
<1>2. CASE RecoverCommit
      BY <1>2, CommitKeeps DEF RecoverCommit, RecoveryInv, AtRow
<1>3. linked' = linked \/ LinkWriter
      BY Frames DEF Framed
<1>4. QED
      BY <1>1, <1>2, <1>3 DEF LinkWriter

\* Nothing removes a content-addressed object.
LEMMA StepFinal ==
  ASSUME TypeInv, [Next]_vars, NEW r \in RoleSet, final[r] = "good"
  PROVE  final'[r] = "good"
<1> USE DEF TypeInv, TypeOK
<1>1. ASSUME NEW h \in Handlers, finalize_staged(h) PROVE final'[r] = "good"
      BY <1>1 DEF finalize_staged
<1>2. CASE RecoverCopy
      BY <1>2 DEF RecoverCopy
<1>3. final' = final \/ FinalWriter
      BY Frames DEF Framed
<1>4. QED
      BY <1>1, <1>2, <1>3 DEF FinalWriter

\* A staging object is written for a row some task works on, and is removed
\* only when its row is not, or no longer, staged.
LEMMA StepStaging ==
  ASSUME TypeInv, StagingInv, [Next]_vars, NEW e \in Events
  PROVE  /\ staging[e] = "none" /\ staging'[e] # "none"
              => \E h \in Handlers : handler[h].row = e
         /\ staging[e] # "none" /\ staging'[e] = "none"
              => rows[e].status # "staged" /\ rows' = rows
<1> USE DEF TypeInv, TypeOK, StagingInv
<1> DEFINE Goal == /\ staging[e] = "none" /\ staging'[e] # "none"
                        => \E h \in Handlers : handler[h].row = e
                   /\ staging[e] # "none" /\ staging'[e] = "none"
                        => rows[e].status # "staged" /\ rows' = rows
<1>1. ASSUME NEW h \in Handlers, write_staged(h) PROVE Goal
      BY <1>1 DEF write_staged
<1>2. ASSUME NEW h \in Handlers, DiscardStaged(h) PROVE Goal
      BY <1>2 DEF DiscardStaged, HandlerInv, Knows, Working, dbVars
<1>3. CASE DiscardOrphan
      BY <1>3 DEF DiscardOrphan, RecoveryInv, AtRow, dbVars
<1>4. CASE RecoverDiscard
      BY <1>4 DEF RecoverDiscard, RecoveryInv, AtRow, dbVars
<1>5. ASSUME NEW f \in Events, StagingDamaged(f) PROVE Goal
      BY <1>5 DEF StagingDamaged
<1>6. CASE staging' = staging
      BY <1>6
<1>7. staging' = staging \/ StagingWriter
      BY Frames DEF Framed
<1>8. QED
      BY <1>1, <1>2, <1>3, <1>4, <1>5, <1>6, <1>7 DEF StagingWriter

-----------------------------------------------------------------------------
(* The rows, the objects and the link agree.                               *)

\* Every step keeps rows, objects and link in agreement.
LEMMA NextRows ==
  ASSUME TypeInv, StagingInv, [Next]_vars
  PROVE  RowsInv'
<1> USE DEF StagingInv
<1>0. TypeInv'
      BY NextType
<1>1. linked' # 0 => rows'[linked'].status = "ready"
  <2>1. CASE linked' = linked /\ linked # 0
    <3>1. linked \in Events /\ rows[linked].status = "ready"
          BY <2>1 DEF RowsInv, TypeInv, TypeOK
    <3>2. \A h \in Handlers, e \in Events : Reserved(h, e) => rows'[linked] = rows[linked]
          BY <3>1 DEF Reserved, ReserveRow, NoRow, TypeInv, TypeOK
    <3>3. QED
          BY <2>1, <3>1, <3>2, StepRows DEF Kept
  <2>2. QED
        BY <2>1, StepLink
<1>2. ASSUME NEW h \in Handlers, NEW e \in Events, Reserved(h, e), handler[h].role \in RoleSet,
             prepare_artifact_upload(h)
      PROVE  RowsInv'
  <2>1. rows' = [rows EXCEPT ![e] = [status |-> "staged", key |-> TRUE,
                                     role |-> handler[h].role]]
        BY <1>2 DEF Reserved, ReserveRow
  <2>2. final' = final /\ linked' = linked
        BY <1>2 DEF prepare_artifact_upload, objects
  <2>3. rows'[e] = [status |-> "staged", key |-> TRUE, role |-> handler[h].role]
        BY <2>1 DEF TypeInv, TypeOK
  <2>4. \A f \in Events : f # e => rows'[f] = rows[f]
        BY <2>1 DEF TypeInv, TypeOK
  <2>5. OneRowPerContent'
    <3>1. \A f \in Events : rows[f].status # "none" => rows[f].role # handler[h].role
          BY <1>2 DEF Reserved
    <3>2. QED
          BY <2>3, <2>4, <3>1 DEF OneRowPerContent, RowsInv
  <2>6. ReadyIsReadable'
        BY <2>2, <2>3, <2>4 DEF ReadyIsReadable, RowsInv, read_verified
  <2>7. \A f \in Events : /\ rows'[f].status = "none" => rows'[f] = NoRow
                          /\ rows'[f].status # "none" => rows'[f].role \in RoleSet
                          /\ rows'[f].status = "staged" => rows'[f].key
        BY <1>2, <2>3, <2>4 DEF RowsInv
  <2>8. \A f \in Events :
           rows'[f].status = "ready" /\ rows'[f].role = "deliverable" => linked' # 0
        BY <2>2, <2>3, <2>4 DEF RowsInv
  <2>9. QED
        BY <1>1, <2>5, <2>6, <2>7, <2>8 DEF RowsInv
<1>3. ASSUME \A e \in Events : Kept(e) PROVE RowsInv'
  <2>1. ASSUME NEW f \in Events
        PROVE  /\ rows'[f].status = "none" => rows'[f] = NoRow
               /\ rows'[f].status # "none" => rows'[f].role \in RoleSet
               /\ rows'[f].status = "staged" => rows'[f].key
    <3>1. rows'[f].status # "none" => rows[f].status # "none"
          BY <1>3 DEF Kept
    <3>2. QED
          BY <1>3, <3>1 DEF Kept, RowsInv
  <2>2. OneRowPerContent'
    <3> SUFFICES ASSUME NEW e \in Events, NEW f \in Events,
                        rows'[e].status # "none", rows'[f].status # "none",
                        rows'[e].role = rows'[f].role
                 PROVE  e = f
        BY DEF OneRowPerContent
    <3>1. rows[e].status # "none" /\ rows[f].status # "none" /\ rows[e].role = rows[f].role
          BY <1>3 DEF Kept
    <3>2. QED
          BY <3>1 DEF RowsInv, OneRowPerContent
  <2>3. ReadyIsReadable'
    <3> SUFFICES ASSUME NEW f \in Events, rows'[f].status = "ready"
                 PROVE  final'[rows'[f].role] = "good"
        BY DEF ReadyIsReadable, read_verified
    <3>1. final[rows[f].role] = "good" /\ rows'[f].role = rows[f].role
          BY <1>3 DEF Kept
    <3>2. rows'[f].role \in RoleSet
          BY <2>1
    <3>3. QED
          BY <3>1, <3>2, StepFinal
  <2>4. \A f \in Events :
           rows'[f].status = "ready" /\ rows'[f].role = "deliverable" => linked' # 0
        BY <1>3 DEF Kept
  <2>5. QED
        BY <1>1, <2>1, <2>2, <2>3, <2>4 DEF RowsInv
<1>4. QED
      BY <1>2, <1>3, StepRows
-----------------------------------------------------------------------------
(* What the handlers know stays true.                                      *)

\* A row somebody on the server refers to is never reserved again.
LEMMA TouchedKept ==
  ASSUME TypeInv, StagingInv, [Next]_vars, NEW e \in Events, ~Untouched(e)
  PROVE  Kept(e)
<1>1. ASSUME NEW h \in Handlers, NEW f \in Events, prepare_artifact_upload(h),
             Reserved(h, f), handler[h].pc = "prepare"
      PROVE  Kept(e)
  <2>1. f # e
    <3>1. AtPrepare(f)
          BY <1>1 DEF Reserved, AtPrepare
    <3>2. QED
          BY <3>1 DEF StagingInv, OnceInv, Unseen
  <2>2. rows'[e] = rows[e]
        BY <1>1, <2>1 DEF Reserved, ReserveRow, TypeInv, TypeOK
  <2>3. linked' = linked
        BY <1>1 DEF prepare_artifact_upload
  <2>4. QED
        BY <2>2, <2>3, KeptWhenSame DEF StagingInv
<1>2. QED
      BY <1>1, StepRows

\* What a task that does not move knows stays true whatever the others do.
LEMMA HandlerFrame ==
  ASSUME TypeInv, StagingInv, [Next]_vars, NEW g \in Handlers, handler'[g] = handler[g]
  PROVE  Knows(g)'
<1> DEFINE me == handler[g]
<1>1. Knows(g)
      BY DEF StagingInv, HandlerInv
<1>2. CASE me.pc \in Working
  <2>1. me.row \in Events /\ me.role \in RoleSet
        BY <1>1, <1>2 DEF Knows
  <2>2. Kept(me.row)
        BY <2>1, TouchedKept DEF Untouched
  <2>3. rows'[me.row].status # "none" => rows'[me.row].role = me.role
        BY <1>1, <1>2, <2>2 DEF Kept, Knows
  <2>4. final[me.role] = "good" => final'[me.role] = "good"
        BY <2>1, StepFinal
  <2>5. rows'[me.row].status = "staged" /\ staging[me.row] # "none"
           => staging'[me.row] # "none" \/ final[me.role] = "good"
        BY <2>1, <2>2, StepStaging DEF Kept
  <2>6. me.pc = "copy" /\ rows'[me.row].status = "staged" =>
           staging'[me.row] # "none" \/ final'[me.role] = "good"
        BY <1>1, <2>2, <2>4, <2>5 DEF Kept, Knows
  <2>7. /\ me.pc \in {"cleanup", "clear", "reply"} => rows'[me.row].status = "ready"
        /\ me.pc \in {"purge", "clear_failed"} => rows'[me.row].status = "rejected"
        BY <1>1, <2>2 DEF Kept, Knows
  <2>8. me.pc = "commit" => final'[me.role] = "good"
        BY <1>1, <2>4 DEF Knows
  <2>9. QED
        BY <2>1, <2>3, <2>6, <2>7, <2>8 DEF Knows
<1>3. CASE me.pc \notin Working
      BY <1>3 DEF Knows, Working
<1>4. QED
      BY <1>2, <1>3

\* What a task that moves learns is true.
LEMMA HandlerStep ==
  ASSUME TypeInv, StagingInv, [Next]_vars, NEW h \in Handlers, Handle(h) \/ HandlerFault(h)
  PROVE  Knows(h)' /\ \A g \in Handlers \ {h} : handler'[g] = handler[g]
<1> DEFINE me == handler[h]
           Goal == Knows(h)' /\ \A g \in Handlers \ {h} : handler'[g] = handler[g]
<1>0. handler \in [Handlers -> HandlerType] /\ rows \in RowTable
      BY DEF TypeInv, TypeOK, RowTable
<1>1. Knows(h) /\ RowsInv
      BY DEF StagingInv, HandlerInv
<1>2. me.pc \in Working => Kept(me.row)
      BY <1>1, TouchedKept DEF Untouched, Knows
<1>3. CASE TakeEvent(h)
  <2>1. handler'[h].pc \in {"prepare", "accept"}
        BY <1>0, <1>3 DEF TakeEvent
  <2>2. QED
        BY <1>0, <1>3, <2>1 DEF TakeEvent, Knows, Working
<1>4. CASE prepare_artifact_upload(h)
  <2>1. me.role \in RoleSet
        BY <1>4, PrepareOutcomes DEF StagingInv
  <2>2. PICK e \in Events : Refused(h, e) \/ Found(h, e) \/ Reserved(h, e)
        BY <1>4, PrepareOutcomes DEF StagingInv
  <2>3. CASE Refused(h, e)
        BY <1>0, <2>3 DEF Refused, Knows, Working
  <2>4. CASE Found(h, e)
    <3>1. PICK pc \in {"cleanup", "purge", "write"} :
              /\ handler' = [handler EXCEPT ![h].row = e, ![h].pc = pc]
              /\ pc = "cleanup" => rows[e].status = "ready"
              /\ pc = "purge" => rows[e].status = "rejected"
          BY <2>4 DEF Found
    <3>2. handler'[h] = [me EXCEPT !.row = e, !.pc = pc]
          BY <1>0, <3>1
    <3>3. handler'[h].row = e /\ handler'[h].pc = pc /\ handler'[h].role = me.role
          BY <1>0, <3>2 DEF HandlerType
    <3>4. QED
          BY <1>0, <2>1, <2>4, <3>1, <3>3 DEF Found, Knows
  <2>5. CASE Reserved(h, e)
    <3>1. handler'[h].row = e /\ handler'[h].pc = "write" /\ handler'[h].role = me.role
          BY <1>0, <2>5 DEF Reserved, HandlerType
    <3>2. rows'[e].role = me.role
          BY <1>0, <2>5 DEF Reserved, ReserveRow, RowTable
    <3>3. \A g \in Handlers \ {h} : handler'[g] = handler[g]
          BY <1>0, <2>5 DEF Reserved
    <3>4. QED
          BY <2>1, <3>1, <3>2, <3>3 DEF Knows
  <2>6. QED
        BY <2>2, <2>3, <2>4, <2>5
<1>5. ASSUME NEW pc \in HandlerPcs, Goto(h, pc)
      PROVE  /\ \A g \in Handlers \ {h} : handler'[g] = handler[g]
             /\ handler'[h].pc = pc /\ handler'[h].row = me.row /\ handler'[h].role = me.role
      BY <1>0, <1>5 DEF Goto, HandlerType
<1>6. ASSUME Finish(h) PROVE Goal
      BY <1>0, <1>6 DEF Finish, Idle, Knows, Working
<1>7. ASSUME Goto(h, "fail") PROVE Goal
      BY <1>0, <1>7 DEF Goto, Knows, Working, HandlerType
<1>8. CASE write_staged(h)
  <2>1. Goto(h, "copy") /\ rows' = rows /\ staging'[me.row] = "good"
        BY <1>1, <1>8 DEF write_staged, dbVars, Knows, Working, TypeInv, TypeOK
  <2>2. me.pc = "write"
        BY <1>8 DEF write_staged
  <2>3. QED
        BY <1>1, <1>5, <2>1, <2>2 DEF Knows, Working, HandlerPcs
<1>9. CASE finalize_staged(h)
  <2>1. me.pc = "copy" /\ rows' = rows
        BY <1>9 DEF finalize_staged, dbVars
  <2>2. \/ Goto(h, "commit") /\ final'[me.role] = "good"
        \/ Goto(h, "reject")
        BY <1>1, <1>9, <2>1 DEF finalize_staged, Knows, Working, TypeInv, TypeOK
  <2>3. CASE Goto(h, "commit") /\ final'[me.role] = "good"
        BY <1>1, <1>5, <2>1, <2>3 DEF Knows, Working, HandlerPcs
  <2>4. CASE Goto(h, "reject")
        BY <1>1, <1>5, <2>1, <2>4 DEF Knows, Working, HandlerPcs
  <2>5. QED
        BY <2>2, <2>3, <2>4
<1>10. CASE RejectUpload(h)
  <2>1. me.pc = "reject" /\ RejectRow(me.row) /\ linked' = linked
        BY <1>10 DEF RejectUpload
  <2>2. me.row \in Events /\ me.role \in RoleSet
        BY <1>1, <2>1 DEF Knows, Working
  <2>3. CASE rows[me.row].status = "staged"
    <3>1. Goto(h, "purge")
          BY <1>10, <2>3 DEF RejectUpload
    <3>2. rows'[me.row].status = "rejected"
          BY <1>1, <2>1, <2>2, <2>3, RejectKeeps
    <3>3. rows'[me.row].role = me.role
          BY <1>1, <1>2, <2>1, <2>3, <3>2 DEF Kept, Knows, Working
    <3>4. QED
          BY <1>5, <2>2, <3>1, <3>2, <3>3 DEF Knows, HandlerPcs
  <2>4. CASE rows[me.row].status # "staged"
        BY <1>7, <1>10, <2>4 DEF RejectUpload
  <2>5. QED
        BY <2>3, <2>4
<1>11. CASE finalize_artifact_upload(h)
  <2>1. me.pc = "commit" /\ CommitRow(me.row)
        BY <1>11 DEF finalize_artifact_upload
  <2>2. me.row \in Events /\ me.role \in RoleSet
        BY <1>1, <2>1 DEF Knows, Working
  <2>3. CASE CommitSucceeds(me.row)
    <3>1. Goto(h, "cleanup")
          BY <1>11, <2>3 DEF finalize_artifact_upload
    <3>2. rows[me.row].status = "staged" => final[rows[me.row].role] = "good"
          BY <1>1, <2>1 DEF Knows, Working
    <3>3. rows'[me.row].status = "ready"
      <4>1. CASE rows[me.row].status = "staged"
            BY <1>1, <2>1, <2>2, <2>3, <3>2, <4>1, CommitKeeps DEF CommitSucceeds
      <4>2. CASE rows[me.row].status = "ready"
            BY <1>2, <2>1, <4>2 DEF Kept, Working
      <4>3. QED
            BY <2>3, <4>1, <4>2 DEF CommitSucceeds
    <3>4. rows'[me.row].role = me.role
          BY <1>1, <1>2, <2>1, <2>3, <3>3 DEF Kept, Knows, Working, CommitSucceeds
    <3>5. QED
          BY <1>5, <2>2, <3>1, <3>3, <3>4 DEF Knows, HandlerPcs
  <2>4. CASE ~CommitSucceeds(me.row)
        BY <1>7, <1>11, <2>4 DEF finalize_artifact_upload
  <2>5. QED
        BY <2>3, <2>4
<1>12. CASE DiscardStaged(h)
  <2>1. rows' = rows /\ me.pc \in {"cleanup", "purge"}
        BY <1>12 DEF DiscardStaged, dbVars
  <2>2. \/ me.pc = "cleanup" /\ Goto(h, "clear")
        \/ me.pc = "purge" /\ Goto(h, "clear_failed")
        BY <1>12 DEF DiscardStaged
  <2>3. QED
        BY <1>1, <1>5, <2>1, <2>2 DEF Knows, Working, HandlerPcs
<1>13. CASE clear_artifact_staging_key(h)
  <2>1. me.pc \in {"clear", "clear_failed"}
        BY <1>13 DEF clear_artifact_staging_key
  <2>2. CASE me.pc = "clear"
    <3>1. Goto(h, "reply")
          BY <1>13, <2>2 DEF clear_artifact_staging_key
    <3>2. rows'[me.row].status = "ready" /\ rows'[me.row].role = me.role
          BY <1>1, <1>2, <2>2 DEF Kept, Knows, Working
    <3>3. QED
          BY <1>1, <1>5, <2>2, <3>1, <3>2 DEF Knows, Working, HandlerPcs
  <2>3. CASE me.pc = "clear_failed"
        BY <1>7, <1>13, <2>3 DEF clear_artifact_staging_key
  <2>4. QED
        BY <2>1, <2>2, <2>3
<1>14. CASE Acknowledge(h) \/ FailRun(h) \/ verification_passed(h)
       BY <1>6, <1>14 DEF Acknowledge, FailRun, verification_passed
<1>15. CASE PayloadRefused(h) \/ StorageError(h)
       BY <1>6, <1>7, <1>15 DEF PayloadRefused, StorageError
<1>16. CASE DiscardError(h)
  <2>1. CASE me.pc = "cleanup"
    <3>1. Goto(h, "reply") /\ rows' = rows
          BY <1>16, <2>1 DEF DiscardError, dbVars
    <3>2. QED
          BY <1>1, <1>5, <2>1, <3>1 DEF Knows, Working, HandlerPcs
  <2>2. QED
        BY <1>7, <1>16, <2>1 DEF DiscardError
<1>17. QED
       BY <1>3, <1>4, <1>8, <1>9, <1>10, <1>11, <1>12, <1>13, <1>14, <1>15, <1>16
       DEF Handle, HandlerFault

\* Every step keeps what the tasks know true.
LEMMA NextHandlers ==
  ASSUME TypeInv, StagingInv, [Next]_vars
  PROVE  HandlerInv'
<1> SUFFICES ASSUME NEW g \in Handlers PROVE Knows(g)'
    BY DEF HandlerInv
<1>1. CASE handler' = handler
      BY <1>1, HandlerFrame
<1>2. CASE ServerCrash
      BY <1>2 DEF ServerCrash, Knows, Working, Idle
<1>3. ASSUME NEW h \in Handlers, Handle(h) \/ HandlerFault(h) PROVE Knows(g)'
      BY <1>3, HandlerStep, HandlerFrame
<1>4. handler' = handler \/ HandlerWriter
      BY Frames DEF Framed
<1>5. QED
      BY <1>1, <1>2, <1>3, <1>4 DEF HandlerWriter
-----------------------------------------------------------------------------
(* What the recovery pass knows stays true.                                *)

\* The rows a pass read as settled stay settled while it comes to them.
LEMMA SettledStay ==
  ASSUME TypeInv, StagingInv, [Next]_vars, NEW e \in recovery.pending \ recovery.staged
  PROVE  rows'[e].status # "staged"
<1>1. e \in Events
      BY DEF TypeInv, RecoveryType
<1>2. Kept(e)
      BY <1>1, TouchedKept DEF Untouched
<1>3. QED
      BY <1>2 DEF Kept, StagingInv, RecoveryInv

\* The row the pass is at is not reserved under its feet.
LEMMA CurrentKept ==
  ASSUME TypeInv, StagingInv, [Next]_vars, recovery.pc \in AtRow
  PROVE  recovery.cur \in Events /\ Kept(recovery.cur)
<1>1. recovery.cur \in Events
      BY DEF StagingInv, RecoveryInv
<1>2. QED
      BY <1>1, TouchedKept DEF Untouched

\* What a pass that does not move knows stays true whatever the tasks do.
LEMMA RecoveryFrame ==
  ASSUME TypeInv, StagingInv, [Next]_vars, recovery' = recovery
  PROVE  RecoveryInv'
<1> USE DEF StagingInv
<1>1. aged \subseteq aged'
  <2>1. ~RecoverAbandon
    <3> SUFFICES ASSUME RecoverAbandon PROVE FALSE
        OBVIOUS
    <3>1. recovery.pc = "abandon" /\ recovery'.pc \in {"discard_released", "rows"}
          BY DEF RecoverAbandon, Settle, TypeInv, RecoveryType
    <3>2. QED
          BY <3>1
  <2>2. QED
        BY <2>1, Frames DEF Framed, AgedWriter, GraceEnds
<1>2. \A e \in recovery.pending \ recovery.staged : rows'[e].status # "staged"
      BY SettledStay
<1>3. CASE recovery.pc \in AtRow
  <2>1. recovery.cur \in Events /\ Kept(recovery.cur)
        BY <1>3, CurrentKept
  <2>2. recovery.pc \in {"discard_orphan", "cleanup", "clear", "discard_released"}
           => rows'[recovery.cur].status # "staged"
        BY <2>1 DEF RecoveryInv, Kept
  <2>3. ASSUME recovery.pc = "commit", rows'[recovery.cur].status # "none"
        PROVE  final'[rows'[recovery.cur].role] = "good"
    <3>1. rows[recovery.cur].status # "none"
          BY <2>1, <2>3 DEF Kept
    <3>2. rows[recovery.cur].role \in RoleSet
          BY <2>1, <3>1 DEF RowsInv
    <3>3. final[rows[recovery.cur].role] = "good"
          BY <2>3, <3>1 DEF RecoveryInv
    <3>4. QED
          BY <2>1, <2>3, <3>2, <3>3, StepFinal DEF Kept
  <2>4. QED
        BY <1>1, <1>2, <2>1, <2>2, <2>3 DEF RecoveryInv
<1>4. CASE recovery.pc \notin AtRow
      BY <1>2, <1>4 DEF RecoveryInv, AtRow
<1>5. QED
      BY <1>3, <1>4

\* Every step keeps what the pass knows true.
LEMMA NextRecovery ==
  ASSUME TypeInv, StagingInv, [Next]_vars
  PROVE  RecoveryInv'
<1> USE DEF StagingInv
<1>0. recovery \in RecoveryType
      BY DEF TypeInv
<1>1. ASSUME recovery'.pc \notin AtRow,
             recovery'.pending \ recovery'.staged \subseteq recovery.pending \ recovery.staged
      PROVE  RecoveryInv'
  <2>1. \A e \in recovery'.pending \ recovery'.staged : rows'[e].status # "staged"
        BY <1>1, SettledStay
  <2>2. QED
        BY <1>1, <2>1 DEF RecoveryInv, AtRow
<1>2. ASSUME NEW e \in Events \cup {0}, recovery' = Settle(e) PROVE RecoveryInv'
  <2>1. /\ recovery'.pc = "rows"
        /\ recovery'.pending = recovery.pending \ {e} /\ recovery'.staged = recovery.staged \ {e}
        BY <1>0, <1>2 DEF Settle, RecoveryType
  <2>2. QED
        BY <1>1, <2>1 DEF AtRow
<1>3. ASSUME NEW pc, NEW c \in Events, pc \in AtRow,
             recovery' = [recovery EXCEPT !.pc = pc, !.cur = c]
             \/ (recovery' = [recovery EXCEPT !.pc = pc] /\ recovery.cur = c),
             pc \in {"copy", "commit", "abandon", "reject"} => c \in aged',
             pc \in {"discard_orphan", "cleanup", "clear", "discard_released"}
                => rows'[c].status # "staged",
             pc = "commit" /\ rows'[c].status # "none" => final'[rows'[c].role] = "good"
      PROVE  RecoveryInv'
  <2>1. /\ recovery'.pc = pc /\ recovery'.cur = c
        /\ recovery'.pending = recovery.pending /\ recovery'.staged = recovery.staged
        BY <1>0, <1>3 DEF RecoveryType
  <2>2. \A e \in recovery'.pending \ recovery'.staged : rows'[e].status # "staged"
        BY <2>1, SettledStay
  <2>3. QED
        BY <1>3, <2>1, <2>2 DEF RecoveryInv
<1>3a. ASSUME NEW pc \in {"discard_orphan", "cleanup", "clear", "discard_released"},
              NEW c \in Events, rows'[c].status # "staged",
              recovery' = [recovery EXCEPT !.pc = pc, !.cur = c]
              \/ (recovery' = [recovery EXCEPT !.pc = pc] /\ recovery.cur = c)
       PROVE  RecoveryInv'
  <2>1. /\ recovery'.pc = pc /\ recovery'.cur = c
        /\ recovery'.pending = recovery.pending /\ recovery'.staged = recovery.staged
        BY <1>0, <1>3a DEF RecoveryType
  <2>2. \A e \in recovery'.pending \ recovery'.staged : rows'[e].status # "staged"
        BY <2>1, SettledStay
  <2>3. QED
        BY <1>3a, <2>1, <2>2 DEF RecoveryInv
<1> DEFINE c == recovery.cur
<1>4. recovery.pc \in AtRow => c \in Events /\ Kept(c)
      BY CurrentKept
<1>5. c \in Events \cup {0}
      BY <1>0 DEF RecoveryType
<1>6. CASE StartRecovery
  <2>1. /\ recovery'.pc = "list" /\ rows' = rows
        /\ \A e \in recovery'.pending \ recovery'.staged : e \in Events /\ rows[e].status # "staged"
        BY <1>0, <1>6 DEF StartRecovery, RecoveryType, dbVars
  <2>2. QED
        BY <2>1 DEF RecoveryInv, AtRow
<1>7. CASE ListStaging
  <2>1. /\ recovery'.pc = "orphans"
        /\ recovery'.pending = recovery.pending /\ recovery'.staged = recovery.staged
        BY <1>0, <1>7 DEF ListStaging, RecoveryType
  <2>2. QED
        BY <1>1, <2>1 DEF AtRow
<1>8. CASE DiscardOrphan
  <2>1. /\ recovery'.pc = "orphans"
        /\ recovery'.pending = recovery.pending /\ recovery'.staged = recovery.staged
        BY <1>0, <1>8 DEF DiscardOrphan, RecoveryType
  <2>2. QED
        BY <1>1, <2>1 DEF AtRow
<1>9. CASE RecoverCopy
  <2>1. recovery.pc = "copy" /\ c \in Events /\ c \in aged /\ aged' = aged /\ rows' = rows
        BY <1>4, <1>9 DEF RecoverCopy, dbVars, RecoveryInv, AtRow
  <2>2. \/ recovery' = [recovery EXCEPT !.pc = "abandon"]
        \/ recovery' = [recovery EXCEPT !.pc = "reject"]
        \/ /\ recovery' = [recovery EXCEPT !.pc = "commit"]
           /\ final' = [final EXCEPT ![rows[c].role] = "good"]
        BY <1>9 DEF RecoverCopy
  <2>3. CASE recovery' = [recovery EXCEPT !.pc = "abandon"]
        BY <1>3, <2>1, <2>3 DEF AtRow
  <2>4. CASE recovery' = [recovery EXCEPT !.pc = "reject"]
        BY <1>3, <2>1, <2>4 DEF AtRow
  <2>5. CASE /\ recovery' = [recovery EXCEPT !.pc = "commit"]
             /\ final' = [final EXCEPT ![rows[c].role] = "good"]
    <3>1. rows'[c].status # "none" => final'[rows'[c].role] = "good"
          BY <2>1, <2>5 DEF RowsInv, TypeInv, TypeOK
    <3>2. QED
          BY <1>3, <2>1, <2>5, <3>1 DEF AtRow
  <2>6. QED
        BY <2>2, <2>3, <2>4, <2>5
<1>10. CASE RecoverAbandon
  <2>1. recovery.pc = "abandon" /\ AbandonRow(c) /\ linked' = linked
        BY <1>10 DEF RecoverAbandon
  <2>2. c \in Events /\ rows'[c].status # "staged"
        BY <1>4, <2>1, AbandonKeeps DEF AtRow
  <2>3. recovery' = [recovery EXCEPT !.pc = "discard_released"] \/ recovery' = Settle(c)
        BY <1>10 DEF RecoverAbandon
  <2>4. CASE recovery' = [recovery EXCEPT !.pc = "discard_released"]
        BY <1>3a, <2>2, <2>4
  <2>5. QED
        BY <1>2, <1>5, <2>3, <2>4
<1>11. CASE RecoverReject
  <2>1. recovery.pc = "reject" /\ RejectRow(c) /\ linked' = linked
        BY <1>11 DEF RecoverReject
  <2>2. c \in Events
        BY <1>4, <2>1 DEF AtRow
  <2>3. CASE rows[c].status = "staged"
    <3>1. recovery' = [recovery EXCEPT !.pc = "cleanup"]
          BY <1>11, <2>3 DEF RecoverReject
    <3>2. rows'[c].status # "staged"
          BY <2>1, <2>2, <2>3, RejectKeeps
    <3>3. QED
          BY <1>3a, <2>2, <3>1, <3>2
  <2>4. CASE rows[c].status # "staged"
        BY <1>2, <1>5, <1>11, <2>4 DEF RecoverReject
  <2>5. QED
        BY <2>3, <2>4
<1>12. CASE RecoverCommit
  <2>1. recovery.pc = "commit" /\ CommitRow(c)
        BY <1>12 DEF RecoverCommit
  <2>2. c \in Events /\ (rows[c].status = "staged" => final[rows[c].role] = "good")
        BY <1>4, <2>1 DEF RecoveryInv, AtRow
  <2>3. rows'[c].status # "staged"
        BY <2>1, <2>2, CommitKeeps
  <2>4. recovery' = [recovery EXCEPT !.pc = "cleanup"] \/ recovery' = Settle(c)
        BY <1>12 DEF RecoverCommit
  <2>5. CASE recovery' = [recovery EXCEPT !.pc = "cleanup"]
        BY <1>3a, <2>2, <2>3, <2>5
  <2>6. QED
        BY <1>2, <1>5, <2>4, <2>5
<1>13. CASE RecoverDiscard
  <2>1. CASE recovery.pc = "cleanup"
    <3>1. recovery' = [recovery EXCEPT !.pc = "clear"] /\ rows' = rows
          BY <1>13, <2>1 DEF RecoverDiscard, dbVars
    <3>2. c \in Events /\ rows[c].status # "staged"
          BY <1>4, <2>1 DEF RecoveryInv, AtRow
    <3>3. QED
          BY <1>3a, <3>1, <3>2
  <2>2. CASE recovery.pc # "cleanup"
        BY <1>2, <1>5, <1>13, <2>2 DEF RecoverDiscard
  <2>3. QED
        BY <2>1, <2>2
<1>14. CASE RecoverClear
       BY <1>2, <1>5, <1>14 DEF RecoverClear
<1>15. CASE EndRecovery
       BY <1>15 DEF EndRecovery, Resting, RecoveryInv, AtRow
<1>16. ASSUME NEW e \in Events, CheckOrphan(e) PROVE RecoveryInv'
  <2>1. rows' = rows
        BY <1>16 DEF CheckOrphan, dbVars
  <2>2. CASE rows[e].key
    <3>1. /\ recovery'.pc = "orphans"
          /\ recovery'.pending = recovery.pending /\ recovery'.staged = recovery.staged
          BY <1>0, <1>16, <2>2 DEF CheckOrphan, RecoveryType
    <3>2. QED
          BY <1>1, <3>1 DEF AtRow
  <2>3. CASE ~rows[e].key
    <3>1. recovery' = [recovery EXCEPT !.pc = "discard_orphan", !.cur = e]
          BY <1>16, <2>3 DEF CheckOrphan
    <3>2. rows[e].status # "staged"
          BY <2>3 DEF RowsInv
    <3>3. QED
          BY <1>3a, <2>1, <3>1, <3>2
  <2>4. QED
        BY <2>2, <2>3
<1>17. ASSUME NEW e \in Events, RecoverRow(e) PROVE RecoveryInv'
  <2>1. rows' = rows /\ aged' = aged /\ e \in recovery.pending
        BY <1>17 DEF RecoverRow, dbVars
  <2>2. CASE e \in recovery.staged \ aged
        BY <1>2, <1>17, <2>2 DEF RecoverRow
  <2>3. CASE e \in recovery.staged /\ e \in aged
    <3>1. recovery' = [recovery EXCEPT !.pc = "copy", !.cur = e]
          BY <1>0, <1>17, <2>3 DEF RecoverRow, RecoveryType
    <3>2. QED
          BY <1>3, <2>1, <2>3, <3>1 DEF AtRow
  <2>4. CASE e \notin recovery.staged
    <3>1. recovery' = [recovery EXCEPT !.pc = "cleanup", !.cur = e]
          BY <1>0, <1>17, <2>4 DEF RecoverRow, RecoveryType
    <3>2. rows[e].status # "staged"
          BY <2>1, <2>4 DEF RecoveryInv
    <3>3. QED
          BY <1>3a, <2>1, <3>1, <3>2
  <2>5. QED
        BY <2>2, <2>3, <2>4
<1>18. CASE RecoveryError
  <2>1. recovery' = Settle(c) \/ recovery' = [recovery EXCEPT !.pc = "orphans"]
        BY <1>18 DEF RecoveryError
  <2>2. CASE recovery' = [recovery EXCEPT !.pc = "orphans"]
    <3>1. /\ recovery'.pc = "orphans"
          /\ recovery'.pending = recovery.pending /\ recovery'.staged = recovery.staged
          BY <1>0, <2>2 DEF RecoveryType
    <3>2. QED
          BY <1>1, <3>1 DEF AtRow
  <2>3. QED
        BY <1>2, <1>5, <2>1, <2>2
<1>19. CASE ServerCrash
       BY <1>19 DEF ServerCrash, Resting, RecoveryInv, AtRow
<1>20. CASE recovery' = recovery
       BY <1>20, RecoveryFrame
<1>21. recovery' = recovery \/ RecoveryWriter
       BY Frames DEF Framed
<1>22. QED
       BY <1>6, <1>7, <1>8, <1>9, <1>10, <1>11, <1>12, <1>13, <1>14, <1>15, <1>16, <1>17,
          <1>18, <1>19, <1>20, <1>21 DEF RecoveryWriter, Recover
-----------------------------------------------------------------------------
(* What the runner was told stays true.                                    *)

StoredNext(r) == \E e \in Events : rows'[e].status = "ready" /\ rows'[e].role = r

\* What is stored stays stored.
LEMMA StoredStays ==
  ASSUME TypeInv, StagingInv, [Next]_vars
  PROVE  \A r : Stored(r) => StoredNext(r)
<1> SUFFICES ASSUME NEW r, Stored(r) PROVE StoredNext(r)
    OBVIOUS
<1>1. PICK e \in Events : rows[e].status = "ready" /\ rows[e].role = r
      BY DEF Stored
<1>2. Kept(e)
      BY <1>1, TouchedKept DEF Untouched, NoRow
<1>3. rows'[e].status = "ready" /\ rows'[e].role = r
      BY <1>1, <1>2 DEF Kept
<1>4. QED
      BY <1>3 DEF StoredNext

\* Every acknowledgement, on the way or received, is of a role that is
\* stored.
LEMMA NextAcks ==
  ASSUME TypeInv, StagingInv, [Next]_vars
  PROVE  AckInv'
<1>0. /\ \A i \in 1 .. Len(acks) : StoredNext(acks[i])
      /\ \A p \in 1 .. runner.phase - 1 : StoredNext(Roles[p])
      /\ runner.pc = "done" => StoredNext(Roles[runner.phase])
      BY StoredStays DEF StagingInv, AckInv
<1>1. acks \in Seq(RoleSet \cup {"none"}) /\ runner \in RunnerType
      BY DEF TypeInv
<1>2. \A i \in 1 .. Len(acks') : StoredNext(acks'[i])
  <2>1. CASE acks' = acks
        BY <1>0, <2>1
  <2>2. ASSUME NEW h \in Handlers, Acknowledge(h)
        PROVE  \A i \in 1 .. Len(acks') : StoredNext(acks'[i])
    <3>1. CASE acks' = Append(acks, handler[h].role) /\ Stored(handler[h].role)
      <4>1. StoredNext(handler[h].role)
            BY <3>1, StoredStays
      <4>2. /\ Len(acks) \in Nat /\ Len(acks') = Len(acks) + 1
            /\ acks'[Len(acks) + 1] = handler[h].role
            /\ \A i \in 1 .. Len(acks) : acks'[i] = acks[i]
            BY <1>1, <3>1
      <4>3. ASSUME NEW i \in 1 .. Len(acks') PROVE StoredNext(acks'[i])
        <5>1. CASE i \in 1 .. Len(acks)
              BY <1>0, <4>2, <5>1
        <5>2. CASE i = Len(acks) + 1
              BY <4>1, <4>2, <5>2
        <5>3. QED
              BY <4>2, <5>1, <5>2
      <4>4. QED
            BY <4>3
    <3>2. QED
          BY <2>1, <2>2, <3>1 DEF Acknowledge, Stored
  <2>3. CASE ReceiveAck
    <3>1. acks # <<>> /\ acks' = Tail(acks)
          BY <2>3 DEF ReceiveAck
    <3>2. /\ Len(acks) \in Nat \ {0} /\ Len(acks') = Len(acks) - 1
          /\ \A i \in 1 .. Len(acks') : acks'[i] = acks[i + 1]
          BY <1>1, <3>1, Rest
    <3>3. ASSUME NEW i \in 1 .. Len(acks') PROVE StoredNext(acks'[i])
      <4>1. i + 1 \in 1 .. Len(acks)
            BY <3>2
      <4>2. QED
            BY <1>0, <3>2, <4>1
    <3>4. QED
          BY <3>3
  <2>4. CASE acks' = <<>>
        BY <2>4
  <2>5. acks' = acks \/ acks' = <<>> \/ ReceiveAck \/ \E h \in Handlers : Acknowledge(h)
    <3>1. WireWriter => acks' = acks \/ acks' = <<>> \/ ReceiveAck
                        \/ \E h \in Handlers : Acknowledge(h)
          BY DEF WireWriter, SendUpload, ServerCrash, TakeEvent, Reconnect
    <3>2. QED
          BY <3>1, Frames DEF Framed
  <2>6. QED
        BY <2>1, <2>2, <2>3, <2>4, <2>5
<1>3. /\ \A p \in 1 .. runner'.phase - 1 : StoredNext(Roles[p])
      /\ runner'.pc = "done" => StoredNext(Roles[runner'.phase])
  <2>1. CASE runner' = runner
        BY <1>0, <2>1
  <2>2. CASE SendUpload \/ AckTimeout
    <3>1. runner'.phase = runner.phase /\ runner'.pc # "done"
          BY <1>1, <2>2 DEF SendUpload, AckTimeout, RunnerType
    <3>2. QED
          BY <1>0, <3>1
  <2>3. CASE ReceiveAck
    <3>1. ASSUME Head(acks) = Role PROVE StoredNext(Roles[runner.phase])
      <4>1. Len(acks) \in Nat \ {0} /\ Head(acks) = acks[1]
            BY <1>1, <2>3, Rest DEF ReceiveAck
      <4>2. 1 \in 1 .. Len(acks)
            BY <4>1
      <4>3. QED
            BY <1>0, <3>1, <4>1, <4>2 DEF Role
    <3>2. CASE Head(acks) = Role
               /\ runner' = [pc |-> "send", phase |-> runner.phase + 1, tries |-> 0]
      <4>1. runner.phase \in Nat /\ runner'.phase = runner.phase + 1 /\ runner'.pc # "done"
            BY <1>1, <3>2, ConstantFacts DEF RunnerType
      <4>2. ASSUME NEW p \in 1 .. runner'.phase - 1 PROVE StoredNext(Roles[p])
        <5>1. p \in 1 .. runner.phase - 1 \/ p = runner.phase
              BY <4>1
        <5>2. QED
              BY <1>0, <3>1, <3>2, <5>1
      <4>3. QED
            BY <4>1, <4>2
    <3>3. CASE Head(acks) = Role /\ runner' = [runner EXCEPT !.pc = "done"]
      <4>1. runner'.phase = runner.phase
            BY <1>1, <3>3 DEF RunnerType
      <4>2. QED
            BY <1>0, <3>1, <3>3, <4>1
    <3>4. QED
          BY <2>1, <2>3, <3>2, <3>3 DEF ReceiveAck
  <2>4. runner' = runner \/ Upload
        BY Frames DEF Framed
  <2>5. QED
        BY <2>1, <2>2, <2>3, <2>4 DEF Upload
<1>4. QED
      BY <1>2, <1>3 DEF AckInv, Stored, StoredNext
-----------------------------------------------------------------------------
(* An upload is handled at most once.                                      *)

\* The next upload has the number after the last one.
LEMMA SentNumbers ==
  ASSUME TypeInv
  PROVE  LastSent \in Nat /\ Sent(runner.tries + 1) = LastSent + 1
<1>1. runner.phase - 1 \in Nat /\ runner.tries \in Nat /\ MaxTries \in Nat
      BY ConstantFacts DEF TypeInv, RunnerType
<1>2. MaxTries * (runner.phase - 1) \in Nat
      BY <1>1
<1> DEFINE m == MaxTries * (runner.phase - 1)
<1>3. LastSent = m + runner.tries /\ Sent(runner.tries + 1) = m + (runner.tries + 1)
      BY DEF LastSent, Sent
<1> HIDE DEF m
<1>4. m \in Nat
      BY <1>2 DEF m
<1>5. QED
      BY <1>1, <1>3, <1>4

\* Identifiers only grow.
LEMMA SentGrows ==
  ASSUME TypeInv, [Next]_vars
  PROVE  LastSent' \in Nat /\ LastSent <= LastSent' /\ (SendUpload => LastSent' = LastSent + 1)
<1>1. /\ runner \in RunnerType /\ MaxTries \in Nat /\ runner.phase \in Nat \ {0}
      /\ runner.tries \in 0 .. MaxTries
      BY ConstantFacts DEF TypeInv, RunnerType
<1> DEFINE m == MaxTries * (runner.phase - 1)
<1>2. m \in Nat
      BY <1>1
<1>3. LastSent = m + runner.tries
      BY DEF LastSent
<1>7. SendUpload => runner'.phase = runner.phase /\ runner'.tries = runner.tries + 1
      BY <1>1 DEF SendUpload, RunnerType
<1>8. \/ runner'.phase = runner.phase /\ runner'.tries = runner.tries
      \/ runner'.phase = runner.phase /\ runner'.tries = runner.tries + 1
      \/ runner'.phase = runner.phase + 1 /\ runner'.tries = 0
  <2>1. runner' = runner \/ Upload
        BY Frames DEF Framed
  <2>2. CASE AckTimeout
    <3>1. PICK pc : runner' = [runner EXCEPT !.pc = pc]
          BY <2>2 DEF AckTimeout
    <3>2. QED
          BY <1>1, <3>1 DEF RunnerType
  <2>3. CASE ReceiveAck
    <3>1. \/ runner' = runner \/ runner' = [runner EXCEPT !.pc = "done"]
          \/ runner' = [pc |-> "send", phase |-> runner.phase + 1, tries |-> 0]
          BY <2>3 DEF ReceiveAck
    <3>2. QED
          BY <1>1, <3>1 DEF RunnerType
  <2>4. QED
        BY <1>7, <2>1, <2>2, <2>3 DEF Upload
<1>4. CASE runner'.phase = runner.phase /\ runner'.tries = runner.tries
  <2>1. LastSent' = LastSent
        BY <1>4 DEF LastSent
  <2>2. ~SendUpload
        BY <1>1, <1>4, <1>7
  <2> HIDE DEF m
  <2>3. QED
        BY <1>1, <1>2, <1>3, <2>1, <2>2
<1>5. CASE runner'.phase = runner.phase /\ runner'.tries = runner.tries + 1
  <2>1. LastSent' = m + (runner.tries + 1)
        BY <1>5 DEF LastSent
  <2> HIDE DEF m
  <2>2. QED
        BY <1>1, <1>2, <1>3, <2>1
<1>6. CASE runner'.phase = runner.phase + 1 /\ runner'.tries = 0
  <2> DEFINE Times(x) == MaxTries * x
  <2>1. LastSent' = Times(runner.phase) + 0
    <3>1. LastSent' = Times(runner'.phase - 1) + runner'.tries
          BY DEF LastSent
    <3>2. runner'.phase - 1 = runner.phase
          BY <1>1, <1>6
    <3> HIDE DEF Times
    <3>3. QED
          BY <1>6, <3>1, <3>2
  <2>2. Times(runner.phase) = m + MaxTries
        BY <1>1
  <2>3. ~SendUpload
        BY <1>1, <1>6, <1>7
  <2> HIDE DEF m, Times
  <2>4. LastSent' = m + MaxTries
        BY <1>1, <1>2, <2>1, <2>2
  <2>5. QED
        BY <1>1, <1>2, <1>3, <2>3, <2>4
<1>9. QED
      BY <1>4, <1>5, <1>6, <1>8

\* What a step does to the events on the way to the server.
WireStep ==
  \/ up' = up \/ up' = <<>>
  \/ SendUpload
  \/ up' = Append(up, [kind |-> "passed", id |-> 0, role |-> "none"])
  \/ \E h \in Handlers : TakeEvent(h)

\* There is no other way to change the events on the way.
LEMMA StepWire == [Next]_vars => WireStep
<1> SUFFICES ASSUME [Next]_vars PROVE WireStep
    OBVIOUS
<1>1. WireWriter => WireStep
      BY DEF WireWriter, WireStep, ReceiveAck, ServerCrash, Reconnect, Acknowledge
<1>2. QED
      BY <1>1, Frames DEF Framed, WireStep

\* Every step keeps identifiers on the way distinct.
LEMMA NextWire ==
  ASSUME TypeInv, WireInv, [Next]_vars
  PROVE  WireInv'
<1>1. up \in Seq(EventType) /\ LastSent \in Nat
      BY SentNumbers DEF TypeInv
<1>2. LastSent' \in Nat /\ LastSent <= LastSent'
      BY SentGrows
<1>3. \A i \in 1 .. Len(up) : /\ up[i].id \in Nat
                              /\ up[i].kind = "upload" => up[i].id # 0
  <2> SUFFICES ASSUME NEW i \in 1 .. Len(up)
               PROVE  up[i].id \in Nat /\ (up[i].kind = "upload" => up[i].id # 0)
      OBVIOUS
  <2>1. up[i] \in EventType
        BY <1>1
  <2>2. \/ up[i].kind = "upload" /\ up[i].id \in Events
        \/ up[i].kind = "passed" /\ up[i].id = 0
        BY <2>1 DEF EventType
  <2>3. CASE up[i].kind = "upload" /\ up[i].id \in Events
        BY <2>3, ConstantFacts
  <2>4. CASE up[i].kind = "passed" /\ up[i].id = 0
        BY <2>4
  <2>5. QED
        BY <2>2, <2>3, <2>4
<1>4. CASE up' = up
      BY <1>1, <1>2, <1>3, <1>4 DEF WireInv
<1>5. CASE up' = <<>>
      BY <1>5 DEF WireInv
<1>6. ASSUME NEW m, up' = Append(up, m), m.id \in Nat, m.id <= LastSent',
             m.kind # "upload" \/ m.id > LastSent,
             m.kind = "upload" \/ m.id = 0
      PROVE  WireInv'
  <2>1. /\ Len(up) \in Nat /\ Len(up') = Len(up) + 1 /\ up'[Len(up) + 1] = m
        /\ \A i \in 1 .. Len(up) : up'[i] = up[i]
        BY <1>1, <1>6
  <2>2. \A i \in 1 .. Len(up') : i \in 1 .. Len(up) \/ i = Len(up) + 1
        BY <2>1
  <2>3. \A i \in 1 .. Len(up') : up'[i].id <= LastSent'
        BY <1>1, <1>2, <1>3, <1>6, <2>1, <2>2 DEF WireInv
  <2>4. ASSUME NEW i \in 1 .. Len(up'), NEW j \in 1 .. Len(up'),
               up'[i].kind = "upload", up'[i].id = up'[j].id
        PROVE  i = j
    <3>1. CASE i \in 1 .. Len(up) /\ j \in 1 .. Len(up)
          BY <2>1, <2>4, <3>1 DEF WireInv
    <3>2. CASE i = Len(up) + 1 /\ j \in 1 .. Len(up)
          BY <1>1, <1>3, <1>6, <2>1, <2>4, <3>2 DEF WireInv
    <3>3. CASE i \in 1 .. Len(up) /\ j = Len(up) + 1
          BY <1>1, <1>3, <1>6, <2>1, <2>4, <3>3 DEF WireInv
    <3>4. QED
          BY <2>2, <3>1, <3>2, <3>3
  <2>5. QED
        BY <2>3, <2>4 DEF WireInv
<1>7. CASE SendUpload
  <2>1. LastSent' = LastSent + 1 /\ Sent(runner.tries + 1) = LastSent + 1
        BY <1>7, SentGrows, SentNumbers
  <2> DEFINE m == [kind |-> "upload", id |-> Sent(runner.tries + 1), role |-> Role]
  <2>2. up' = Append(up, m)
        BY <1>7 DEF SendUpload
  <2>3. m.kind = "upload" /\ m.id = LastSent + 1
        BY <2>1
  <2> HIDE DEF m
  <2>4. QED
        BY <1>1, <1>6, <2>1, <2>2, <2>3
<1>8. CASE up' = Append(up, [kind |-> "passed", id |-> 0, role |-> "none"])
  <2> DEFINE m == [kind |-> "passed", id |-> 0, role |-> "none"]
  <2>1. up' = Append(up, m) /\ m.kind = "passed" /\ m.id = 0
        BY <1>8
  <2> HIDE DEF m
  <2>2. QED
        BY <1>2, <1>6, <2>1
<1>9. ASSUME NEW h \in Handlers, TakeEvent(h) PROVE WireInv'
  <2>1. up # <<>> /\ up' = Tail(up)
        BY <1>9 DEF TakeEvent
  <2>2. /\ Len(up) \in Nat \ {0} /\ Len(up') = Len(up) - 1
        /\ \A i \in 1 .. Len(up') : up'[i] = up[i + 1]
        BY <1>1, <2>1, Rest
  <2>3. \A i \in 1 .. Len(up') : i + 1 \in 1 .. Len(up)
        BY <2>2
  <2>4. \A i \in 1 .. Len(up') : up'[i].id <= LastSent'
        BY <1>1, <1>2, <1>3, <2>2, <2>3 DEF WireInv
  <2>5. ASSUME NEW i \in 1 .. Len(up'), NEW j \in 1 .. Len(up'),
               up'[i].kind = "upload", up'[i].id = up'[j].id
        PROVE  i = j
    <3>1. i + 1 = j + 1
          BY <2>2, <2>3, <2>5 DEF WireInv
    <3>2. QED
          BY <2>2, <3>1
  <2>6. QED
        BY <2>4, <2>5 DEF WireInv
<1>10. QED
       BY <1>4, <1>5, <1>7, <1>8, <1>9, StepWire DEF WireStep

\* What a step does to one task, as far as uploads not yet looked at go.
LEMMA HandlerMoves ==
  ASSUME TypeInv, [Next]_vars, NEW g \in Handlers
  PROVE  \/ handler'[g] = handler[g]
         \/ TakeEvent(g)
         \/ prepare_artifact_upload(g)
         \/ handler'[g].pc # "prepare" /\ handler'[g].row \in {0, handler[g].row}
<1> DEFINE Goal == \/ handler'[g] = handler[g]
                   \/ TakeEvent(g)
                   \/ prepare_artifact_upload(g)
                   \/ handler'[g].pc # "prepare" /\ handler'[g].row \in {0, handler[g].row}
<1>0. handler \in [Handlers -> HandlerType]
      BY DEF TypeInv
<1>1. ASSUME NEW h \in Handlers, NEW pc, pc # "prepare", Goto(h, pc) PROVE Goal
      BY <1>0, <1>1 DEF Goto, HandlerType
<1>2. ASSUME NEW h \in Handlers, Finish(h) PROVE Goal
      BY <1>0, <1>2 DEF Finish, Idle
<1>3. ASSUME NEW h \in Handlers, TakeEvent(h) \/ prepare_artifact_upload(h) PROVE Goal
  <2>1. CASE h = g
        BY <1>3, <2>1
  <2>2. CASE h # g
    <3>1. handler'[g] = handler[g]
          BY <1>0, <1>3, <2>2 DEF TakeEvent, prepare_artifact_upload
    <3>2. QED
          BY <3>1
  <2>3. QED
        BY <2>1, <2>2
<1>4. ASSUME NEW h \in Handlers, Handle(h) \/ HandlerFault(h) PROVE Goal
  <2>1. CASE Acknowledge(h) \/ FailRun(h) \/ verification_passed(h)
        BY <1>2, <2>1 DEF Acknowledge, FailRun, verification_passed
  <2>2. CASE write_staged(h) \/ finalize_staged(h) \/ RejectUpload(h)
             \/ finalize_artifact_upload(h)
    <3>1. \E pc \in HandlerPcs \ {"prepare"} : Goto(h, pc)
          BY <2>2 DEF write_staged, finalize_staged, RejectUpload, finalize_artifact_upload,
                      HandlerPcs
    <3>2. QED
          BY <1>1, <3>1
  <2>3. CASE DiscardStaged(h) \/ clear_artifact_staging_key(h) \/ PayloadRefused(h)
             \/ DiscardError(h)
    <3>1. \E pc \in HandlerPcs \ {"prepare"} : Goto(h, pc)
          BY <2>3 DEF DiscardStaged, clear_artifact_staging_key, PayloadRefused, DiscardError,
                      HandlerPcs
    <3>2. QED
          BY <1>1, <3>1
  <2>4. CASE StorageError(h)
        BY <1>1, <1>2, <2>4 DEF StorageError
  <2>5. QED
        BY <1>3, <1>4, <2>1, <2>2, <2>3, <2>4 DEF Handle, HandlerFault
<1>5. CASE ServerCrash
      BY <1>5 DEF ServerCrash, Idle
<1>6. handler' = handler \/ HandlerWriter
      BY Frames DEF Framed
<1>7. QED
      BY <1>4, <1>5, <1>6 DEF HandlerWriter

\* The task that takes an event is the only one that has it.
LEMMA TakenFacts ==
  ASSUME TypeInv, OnceInv, NEW h \in Handlers, TakeEvent(h), handler'[h].pc = "prepare"
  PROVE  /\ handler'[h].id \in Events /\ handler'[h].role \in RoleSet
         /\ OnWire(handler'[h].id) /\ handler'[h].id <= LastSent
         /\ \A i \in 1 .. Len(up') : up'[i].id # handler'[h].id
         /\ \A g \in Handlers : g # h => handler'[g] = handler[g]
         /\ handler'[h].row = 0 /\ runner' = runner
<1>1. up \in Seq(EventType) /\ handler \in [Handlers -> HandlerType]
      BY DEF TypeInv
<1>2. up # <<>> /\ up' = Tail(up)
      BY DEF TakeEvent
<1>3. /\ Len(up) \in Nat \ {0} /\ Len(up') = Len(up) - 1 /\ Head(up) = up[1]
      /\ \A i \in 1 .. Len(up') : up'[i] = up[i + 1]
      BY <1>1, <1>2, Rest
<1>4. 1 \in 1 .. Len(up) /\ up[1] \in EventType
      BY <1>1, <1>3
<1>5. handler'[h] = [pc |-> IF up[1].kind = "upload" THEN "prepare" ELSE "accept",
                     id |-> up[1].id, role |-> up[1].role, row |-> 0]
      BY <1>1, <1>3 DEF TakeEvent
<1>6. up[1].kind = "upload" /\ handler'[h].id = up[1].id /\ handler'[h].role = up[1].role
      /\ handler'[h].row = 0
      BY <1>5
<1>7. up[1].id \in Events /\ up[1].role \in RoleSet
      BY <1>4, <1>6 DEF EventType
<1>8. ASSUME NEW i \in 1 .. Len(up') PROVE up'[i].id # up[1].id
  <2>1. i + 1 \in 1 .. Len(up) /\ i + 1 # 1
        BY <1>3
  <2>2. QED
        BY <1>3, <1>4, <1>6, <2>1 DEF OnceInv, WireInv
<1>9. up[1].id <= LastSent
      BY <1>4 DEF OnceInv, WireInv
<1>10. \A g \in Handlers : g # h => handler'[g] = handler[g]
       BY <1>1 DEF TakeEvent
<1>11. QED
       BY <1>4, <1>6, <1>7, <1>8, <1>9, <1>10 DEF OnWire, TakeEvent

\* Every step keeps an upload at one place.
LEMMA NextTaken ==
  ASSUME TypeInv, OnceInv, [Next]_vars, NEW h \in Handlers
  PROVE  TakenOnce(h)'
<1> SUFFICES ASSUME handler'[h].pc = "prepare"
             PROVE  /\ handler'[h].id \in Events /\ handler'[h].role \in RoleSet
                    /\ handler'[h].id <= LastSent'
                    /\ \A i \in 1 .. Len(up') : up'[i].id # handler'[h].id
                    /\ \A g \in Handlers :
                          handler'[g].pc = "prepare" /\ handler'[g].id = handler'[h].id => g = h
    BY DEF TakenOnce
<1>0. LastSent \in Nat /\ LastSent' \in Nat /\ LastSent <= LastSent'
      BY SentNumbers, SentGrows
<1>1. \A g \in Handlers : TakenOnce(g)
      BY DEF OnceInv
<1>2. ASSUME NEW g \in Handlers, prepare_artifact_upload(g) PROVE handler'[g].pc # "prepare"
  <2>1. PICK e \in Events : Refused(g, e) \/ Found(g, e) \/ Reserved(g, e)
        BY <1>2, PrepareOutcomes
  <2>2. QED
        BY <2>1 DEF Refused, Found, Reserved, TypeInv, HandlerType
<1>3. \A g \in Handlers : handler'[g].pc = "prepare" => handler'[g] = handler[g] \/ TakeEvent(g)
      BY <1>2, HandlerMoves
<1>4. CASE TakeEvent(h)
  <2>1. /\ handler'[h].id \in Events /\ handler'[h].role \in RoleSet
        /\ handler'[h].id <= LastSent /\ OnWire(handler'[h].id)
        /\ \A i \in 1 .. Len(up') : up'[i].id # handler'[h].id
        /\ \A g \in Handlers : g # h => handler'[g] = handler[g]
        BY <1>4, TakenFacts
  <2>2. ASSUME NEW g \in Handlers, g # h, handler[g].pc = "prepare",
               handler[g].id = handler'[h].id
        PROVE  FALSE
        BY <1>1, <2>1, <2>2 DEF TakenOnce, OnWire
  <2>3. handler'[h].id <= LastSent'
    <3>1. handler'[h].id \in Nat
          BY <2>1, EventNumbers
    <3>2. QED
          BY <1>0, <2>1, <3>1
  <2>4. QED
        BY <2>1, <2>2, <2>3
<1>5. CASE handler'[h] = handler[h]
  <2>1. /\ handler[h].id \in Events /\ handler[h].role \in RoleSet
        /\ handler[h].id <= LastSent
        /\ \A i \in 1 .. Len(up) : up[i].id # handler[h].id
        /\ \A g \in Handlers :
              handler[g].pc = "prepare" /\ handler[g].id = handler[h].id => g = h
        BY <1>1, <1>5 DEF TakenOnce
  <2>2. handler[h].id <= LastSent'
    <3>1. handler[h].id \in Nat
          BY <2>1, EventNumbers
    <3>2. QED
          BY <1>0, <2>1, <3>1
  <2>3. \A i \in 1 .. Len(up') : up'[i].id # handler[h].id
    <3>1. up \in Seq(EventType) /\ handler[h].id \in Nat \ {0}
          BY <2>1, ConstantFacts DEF TypeInv
    <3>2. ASSUME NEW m, up' = Append(up, m), m.id # handler[h].id
          PROVE  \A i \in 1 .. Len(up') : up'[i].id # handler[h].id
      <4>1. /\ Len(up) \in Nat /\ Len(up') = Len(up) + 1 /\ up'[Len(up) + 1] = m
            /\ \A i \in 1 .. Len(up) : up'[i] = up[i]
            BY <3>1, <3>2
      <4>2. \A i \in 1 .. Len(up') : i \in 1 .. Len(up) \/ i = Len(up) + 1
            BY <4>1
      <4>3. QED
            BY <2>1, <3>2, <4>1, <4>2
    <3>3. CASE SendUpload
      <4>1. Sent(runner.tries + 1) # handler[h].id
            BY <1>0, <2>1, <3>1, SentNumbers
      <4>2. QED
            BY <3>2, <3>3, <4>1 DEF SendUpload
    <3>4. CASE up' = Append(up, [kind |-> "passed", id |-> 0, role |-> "none"])
          BY <3>1, <3>2, <3>4
    <3>5. ASSUME NEW g \in Handlers, TakeEvent(g)
          PROVE  \A i \in 1 .. Len(up') : up'[i].id # handler[h].id
      <4>1. up # <<>> /\ up' = Tail(up)
            BY <3>5 DEF TakeEvent
      <4>2. /\ Len(up) \in Nat \ {0} /\ Len(up') = Len(up) - 1
            /\ \A i \in 1 .. Len(up') : up'[i] = up[i + 1]
            BY <3>1, <4>1, Rest
      <4>3. \A i \in 1 .. Len(up') : i + 1 \in 1 .. Len(up)
            BY <4>2
      <4>4. QED
            BY <2>1, <4>2, <4>3
    <3>6. CASE up' = up \/ up' = <<>>
          BY <2>1, <3>6
    <3>7. QED
          BY <3>3, <3>4, <3>5, <3>6, StepWire DEF WireStep
  <2>4. ASSUME NEW g \in Handlers, handler'[g].pc = "prepare", handler'[g].id = handler[h].id
        PROVE  g = h
    <3>1. CASE handler'[g] = handler[g]
          BY <2>1, <2>4, <3>1
    <3>2. CASE TakeEvent(g)
      <4>1. OnWire(handler'[g].id)
            BY <2>4, <3>2, TakenFacts
      <4>2. QED
            BY <2>1, <2>4, <4>1 DEF OnWire
    <3>3. QED
          BY <1>3, <2>4, <3>1, <3>2
  <2>5. QED
        BY <1>5, <2>1, <2>2, <2>3, <2>4
<1>6. QED
      BY <1>3, <1>4, <1>5

\* Once its task looked for its row, an upload is no longer to come.
LEMMA PreparedIsSeen ==
  ASSUME TypeInv, OnceInv, [Next]_vars, NEW h \in Handlers, prepare_artifact_upload(h)
  PROVE  ~Unseen(handler[h].id)'
<1>1. handler[h].pc = "prepare" /\ handler[h].id \in Events
      BY PrepareOutcomes
<1>2. PICK e \in Events : Refused(h, e) \/ Found(h, e) \/ Reserved(h, e)
      BY PrepareOutcomes
<1>3. /\ handler'[h].id = handler[h].id /\ handler'[h].pc # "prepare"
      /\ \A g \in Handlers : g # h => handler'[g] = handler[g]
      BY <1>2 DEF Refused, Found, Reserved, TypeInv, HandlerType
<1>4. up' = up /\ runner' = runner
      BY DEF prepare_artifact_upload, wires
<1>5. /\ handler[h].id <= LastSent
      /\ \A i \in 1 .. Len(up) : up[i].id # handler[h].id
      /\ \A g \in Handlers : handler[g].pc = "prepare" /\ handler[g].id = handler[h].id => g = h
      BY <1>1 DEF OnceInv, TakenOnce
<1>6. ~Unsent(handler[h].id)'
  <2>1. LastSent' = LastSent
        BY <1>4 DEF LastSent
  <2>2. handler[h].id \in Nat /\ LastSent \in Nat
        BY <1>1, SentNumbers, EventNumbers
  <2>3. QED
        BY <1>3, <1>5, <2>1, <2>2 DEF Unsent
<1>7. ~OnWire(handler[h].id)'
      BY <1>3, <1>4, <1>5 DEF OnWire
<1>8. ~AtPrepare(handler[h].id)'
      BY <1>3, <1>5 DEF AtPrepare
<1>9. QED
      BY <1>6, <1>7, <1>8 DEF Unseen

\* An upload the server has yet to look at was one before the step.
LEMMA UnseenBefore ==
  ASSUME TypeInv, OnceInv, [Next]_vars, NEW e \in Events, Unseen(e)'
  PROVE  Unseen(e)
<1>0. LastSent \in Nat /\ LastSent' \in Nat /\ LastSent <= LastSent' /\ e \in Nat \ {0}
      BY SentNumbers, SentGrows, EventNumbers
<1>1. CASE Unsent(e)'
      BY <1>0, <1>1 DEF Unsent, Unseen
<1>2. CASE OnWire(e)'
  <2>1. PICK i \in 1 .. Len(up') : up'[i].id = e
        BY <1>2 DEF OnWire
  <2>2. up \in Seq(EventType)
        BY DEF TypeInv
  <2>3. ASSUME NEW m, up' = Append(up, m), m.id # e PROVE OnWire(e)
    <3>1. /\ Len(up) \in Nat /\ Len(up') = Len(up) + 1 /\ up'[Len(up) + 1] = m
          /\ \A j \in 1 .. Len(up) : up'[j] = up[j]
          BY <2>2, <2>3
    <3>2. i \in 1 .. Len(up)
          BY <2>1, <2>3, <3>1
    <3>3. QED
          BY <2>1, <3>1, <3>2 DEF OnWire
  <2>4. CASE SendUpload
    <3>1. CASE Sent(runner.tries + 1) = e
      <4>1. e > LastSent
            BY <1>0, <3>1, SentNumbers
      <4>2. QED
            BY <4>1 DEF Unseen, Unsent
    <3>2. CASE Sent(runner.tries + 1) # e
          BY <2>3, <2>4, <3>2 DEF SendUpload, Unseen
    <3>3. QED
          BY <3>1, <3>2
  <2>5. CASE up' = Append(up, [kind |-> "passed", id |-> 0, role |-> "none"])
        BY <1>0, <2>3, <2>5 DEF Unseen
  <2>6. ASSUME NEW h \in Handlers, TakeEvent(h) PROVE OnWire(e)
    <3>1. up # <<>> /\ up' = Tail(up)
          BY <2>6 DEF TakeEvent
    <3>2. /\ Len(up) \in Nat \ {0} /\ Len(up') = Len(up) - 1
          /\ \A j \in 1 .. Len(up') : up'[j] = up[j + 1]
          BY <2>2, <3>1, Rest
    <3>3. i + 1 \in 1 .. Len(up)
          BY <3>2
    <3>4. QED
          BY <2>1, <3>2, <3>3 DEF OnWire
  <2>7. CASE up' = up
        BY <2>1, <2>7 DEF OnWire, Unseen
  <2>8. up' # <<>>
        BY <2>1
  <2>9. QED
        BY <2>4, <2>5, <2>6, <2>7, <2>8, StepWire DEF WireStep, Unseen
<1>3. CASE AtPrepare(e)'
  <2>1. PICK h \in Handlers : handler'[h].pc = "prepare" /\ handler'[h].id = e
        BY <1>3 DEF AtPrepare
  <2>2. CASE handler'[h] = handler[h]
        BY <2>1, <2>2 DEF AtPrepare, Unseen
  <2>3. CASE TakeEvent(h)
        BY <2>1, <2>3, TakenFacts DEF Unseen
  <2>4. CASE prepare_artifact_upload(h)
    <3>1. PICK f \in Events : Refused(h, f) \/ Found(h, f) \/ Reserved(h, f)
          BY <2>4, PrepareOutcomes
    <3>2. handler'[h].pc # "prepare"
          BY <3>1 DEF Refused, Found, Reserved, TypeInv, HandlerType
    <3>3. QED
          BY <2>1, <3>2
  <2>5. QED
        BY <2>1, <2>2, <2>3, <2>4, HandlerMoves
<1>4. QED
      BY <1>1, <1>2, <1>3 DEF Unseen

\* The recovery pass comes only to rows and objects that are there.
LEMMA RecoveryLeaves ==
  ASSUME TypeInv, [Next]_vars, NEW e \in Events, Untouched(e)
  PROVE  /\ e \notin recovery'.pending /\ e \notin recovery'.staged
         /\ e \notin recovery'.keys /\ recovery'.cur # e
<1> DEFINE Goal == /\ e \notin recovery'.pending /\ e \notin recovery'.staged
                   /\ e \notin recovery'.keys /\ recovery'.cur # e
<1>0. /\ recovery \in RecoveryType /\ e # 0
      /\ e \notin recovery.pending /\ e \notin recovery.staged /\ e \notin recovery.keys
      /\ recovery.cur # e /\ rows[e].status = "none" /\ ~rows[e].key /\ staging[e] = "none"
      BY EventNumbers DEF TypeInv, Untouched, NoRow
<1>1. ASSUME NEW f, recovery' = Settle(f) PROVE Goal
      BY <1>0, <1>1 DEF Settle, RecoveryType
<1>2. ASSUME NEW pc, recovery' = [recovery EXCEPT !.pc = pc] PROVE Goal
      BY <1>0, <1>2 DEF RecoveryType
<1>3. CASE StartRecovery
      BY <1>0, <1>3 DEF StartRecovery, RecoveryType
<1>4. CASE ListStaging
      BY <1>0, <1>4 DEF ListStaging, RecoveryType
<1>5. CASE DiscardOrphan
      BY <1>0, <1>5 DEF DiscardOrphan, RecoveryType
<1>6. CASE RecoverCopy
  <2>1. PICK pc : recovery' = [recovery EXCEPT !.pc = pc]
        BY <1>6 DEF RecoverCopy
  <2>2. QED
        BY <1>2, <2>1
<1>7. CASE RecoverAbandon \/ RecoverReject \/ RecoverCommit \/ RecoverDiscard \/ RecoverClear
      BY <1>1, <1>2, <1>7 DEF RecoverAbandon, RecoverReject, RecoverCommit, RecoverDiscard,
                              RecoverClear
<1>8. CASE EndRecovery \/ ServerCrash
      BY <1>0, <1>8 DEF EndRecovery, ServerCrash, Resting
<1>9. ASSUME NEW f \in Events, CheckOrphan(f) PROVE Goal
      BY <1>0, <1>9 DEF CheckOrphan, RecoveryType
<1>10. ASSUME NEW f \in Events, RecoverRow(f) PROVE Goal
  <2>1. f # e
        BY <1>0, <1>10 DEF RecoverRow
  <2>2. recovery' = Settle(f) \/ \E pc : recovery' = [recovery EXCEPT !.cur = f, !.pc = pc]
        BY <1>10 DEF RecoverRow
  <2>3. CASE \E pc : recovery' = [recovery EXCEPT !.cur = f, !.pc = pc]
        BY <1>0, <2>1, <2>3 DEF RecoveryType
  <2>4. QED
        BY <1>1, <2>2, <2>3
<1>11. CASE RecoveryError
       BY <1>1, <1>2, <1>11 DEF RecoveryError
<1>12. CASE recovery' = recovery
       BY <1>0, <1>12
<1>13. recovery' = recovery \/ RecoveryWriter
       BY Frames DEF Framed
<1>14. QED
       BY <1>3, <1>4, <1>5, <1>6, <1>7, <1>8, <1>9, <1>10, <1>11, <1>12, <1>13
       DEF RecoveryWriter, Recover

\* Every step keeps the uploads to come untouched.
LEMMA NextOnce ==
  ASSUME TypeInv, StagingInv, [Next]_vars
  PROVE  OnceInv'
<1>0. OnceInv
      BY DEF StagingInv
<1>1. WireInv' /\ \A h \in Handlers : TakenOnce(h)'
      BY <1>0, NextWire, NextTaken DEF OnceInv
<1>2. ASSUME NEW e \in Events, Unseen(e)' PROVE Untouched(e)'
  <2>1. Untouched(e)
        BY <1>0, <1>2, UnseenBefore DEF OnceInv
  <2>2. \A h \in Handlers : prepare_artifact_upload(h) => handler[h].id # e
    <3> SUFFICES ASSUME NEW h \in Handlers, prepare_artifact_upload(h), handler[h].id = e
                 PROVE  FALSE
        OBVIOUS
    <3>1. handler'[h].id = e
      <4>1. PICK f \in Events : Refused(h, f) \/ Found(h, f) \/ Reserved(h, f)
            BY <1>0, PrepareOutcomes
      <4>2. QED
            BY <4>1 DEF Refused, Found, Reserved, TypeInv, HandlerType
    <3>2. ~Unseen(handler[h].id)'
          BY <1>0, PreparedIsSeen
    <3>3. Unseen(handler[h].id)' = Unseen(e)'
          BY <3>1 DEF Unseen, Unsent, OnWire, AtPrepare
    <3>4. QED
          BY <1>2, <3>2, <3>3
  <2>3. rows'[e] = NoRow
    <3>1. CASE Kept(e)
          BY <2>1, <3>1 DEF Kept, Untouched, NoRow
    <3>2. ASSUME NEW h \in Handlers, NEW f \in Events, prepare_artifact_upload(h), Reserved(h, f)
          PROVE  rows'[e] = rows[e]
      <4>1. f # e
            BY <2>2, <3>2 DEF Reserved
      <4>2. QED
            BY <3>2, <4>1 DEF Reserved, ReserveRow, TypeInv, TypeOK
    <3>3. QED
          BY <2>1, <3>1, <3>2, StepRows DEF Untouched
  <2>4. staging'[e] = "none"
        BY <2>1, StepStaging DEF Untouched
  <2>5. ASSUME NEW h \in Handlers PROVE handler'[h].row # e
    <3>1. handler[h].row # e /\ e # 0 /\ rows[e].status = "none"
          BY <2>1, EventNumbers DEF Untouched, NoRow
    <3>2. CASE TakeEvent(h)
          BY <3>1, <3>2 DEF TakeEvent, TypeInv
    <3>3. CASE prepare_artifact_upload(h)
      <4>1. PICK f \in Events : Refused(h, f) \/ Found(h, f) \/ Reserved(h, f)
            BY <1>0, <3>3, PrepareOutcomes
      <4>2. f # e
            BY <2>2, <3>1, <3>3, <4>1 DEF Refused, Found, Reserved
      <4>3. QED
            BY <4>1, <4>2 DEF Refused, Found, Reserved, TypeInv, HandlerType
    <3>4. QED
          BY <3>1, <3>2, <3>3, HandlerMoves
  <2>6. QED
        BY <2>1, <2>3, <2>4, <2>5, RecoveryLeaves DEF Untouched
<1>3. QED
      BY <1>1, <1>2 DEF OnceInv
-----------------------------------------------------------------------------
(* The theorems.                                                           *)

\* The invariant holds before the first upload.
LEMMA InitStaging == Init => StagingInv
<1> SUFFICES ASSUME Init PROVE StagingInv
    OBVIOUS
<1>1. \A e \in Events : rows[e] = NoRow /\ staging[e] = "none" /\ e # 0
      BY EventNumbers DEF Init
<1>2. \A h \in Handlers : handler[h] = Idle
      BY DEF Init
<1>3. OnceInv
  <2>1. up = <<>>
        BY DEF Init
  <2>2. WireInv
        BY <2>1 DEF WireInv
  <2>3. \A h \in Handlers : TakenOnce(h)
        BY <1>2 DEF TakenOnce, Idle
  <2>4. \A e \in Events : Untouched(e)
        BY <1>1, <1>2 DEF Init, Untouched, Idle, Resting
  <2>5. QED
        BY <2>2, <2>3, <2>4 DEF OnceInv
<1>4. RowsInv
      BY <1>1 DEF Init, RowsInv, NoRow, OneRowPerContent, ReadyIsReadable
<1>5. HandlerInv
      BY <1>2 DEF HandlerInv, Knows, Working, Idle
<1>6. RecoveryInv
      BY DEF Init, RecoveryInv, AtRow, Resting
<1>7. AckInv
      BY DEF Init, AckInv
<1>8. QED
      BY <1>3, <1>4, <1>5, <1>6, <1>7 DEF StagingInv

\* The inductive invariant of the component.
LEMMA StagingInvariant == Spec => [](TypeInv /\ StagingInv)
<1>1. Init => TypeInv /\ StagingInv
      BY InitType, InitStaging
<1>2. TypeInv /\ StagingInv /\ [Next]_vars => TypeInv' /\ StagingInv'
  <2> SUFFICES ASSUME TypeInv, StagingInv, [Next]_vars PROVE TypeInv' /\ StagingInv'
      OBVIOUS
  <2>1. TypeInv'
        BY NextType
  <2>2. OnceInv' /\ RowsInv'
        BY NextOnce, NextRows
  <2>3. HandlerInv' /\ RecoveryInv' /\ AckInv'
        BY NextHandlers, NextRecovery, NextAcks
  <2>4. QED
        BY <2>1, <2>2, <2>3 DEF StagingInv
<1>3. QED
      BY <1>1, <1>2, PTL DEF Spec

\* Whatever crashed, was retried, duplicated or recovered between the database
\* and the object store: a ready artifact can be downloaded, what the runner was
\* told is stored is stored and linked, one content has one row, and a handler
\* that staged bytes finds them when it copies them: neither a recovery pass
\* working from an old list nor another task removed them.
THEOREM BytesAreStoredHolds == Spec => []BytesAreStored
<1>1. TypeInv /\ StagingInv => BytesAreStored
  <2> SUFFICES ASSUME TypeInv, StagingInv PROVE BytesAreStored
      OBVIOUS
  <2>1. TypeOK
        BY DEF TypeInv
  <2>2. ReadyIsReadable /\ OneRowPerContent
        BY DEF StagingInv, RowsInv
  <2>3. AcknowledgedIsStored
    <3> DEFINE last == IF runner.pc = "done" THEN runner.phase ELSE runner.phase - 1
               past == {Roles[i] : i \in 1 .. last}
    <3>1. runner.phase \in Nat \ {0}
          BY ConstantFacts DEF TypeInv, RunnerType
    <3>2. ASSUME NEW i \in 1 .. last PROVE Stored(Roles[i])
      <4>1. i \in 1 .. runner.phase - 1 \/ (runner.pc = "done" /\ i = runner.phase)
            BY <3>1
      <4>2. QED
            BY <4>1 DEF StagingInv, AckInv
    <3>3. \A r \in past : Stored(r)
          BY <3>2
    <3>4. "deliverable" \in past => linked # 0 /\ rows[linked].status = "ready"
          BY <3>3 DEF Stored, StagingInv, RowsInv
    <3>5. QED
          BY <3>3, <3>4 DEF AcknowledgedIsStored, Stored
  <2>4. StagedBytesStay
        BY DEF StagingInv, HandlerInv, Knows, StagedBytesStay
  <2>5. QED
        BY <2>1, <2>2, <2>3, <2>4 DEF BytesAreStored
<1>2. QED
      BY <1>1, StagingInvariant, PTL

\* A staged row within its grace is settled only by a task that works on it.
LEMMA GraceStep ==
  ASSUME TypeInv, StagingInv, [Next]_vars, NEW e \in Events,
         rows[e].status = "staged", e \notin aged, rows'[e] # rows[e]
  PROVE  \E h \in Handlers : handler[h].row = e /\ handler'[h] # handler[h]
<1> USE DEF StagingInv
<1>0. rows \in RowTable /\ handler \in [Handlers -> HandlerType]
      BY DEF TypeInv, TypeOK, RowTable
<1>1. ASSUME NEW h \in Handlers, prepare_artifact_upload(h) PROVE FALSE
  <2>1. PICK f \in Events : Refused(h, f) \/ Found(h, f) \/ Reserved(h, f)
        BY <1>1, PrepareOutcomes
  <2>2. QED
        BY <1>0, <2>1 DEF Refused, Found, Reserved, ReserveRow, NoRow, RowTable
<1>2. ASSUME NEW h \in Handlers, RejectUpload(h)
      PROVE  handler[h].row = e /\ handler'[h] # handler[h]
  <2>1. handler[h].row = e
        BY <1>0, <1>2 DEF RejectUpload, RejectRow, RowTable
  <2>2. handler[h].pc = "reject" /\ handler'[h].pc # "reject"
        BY <1>0, <1>2 DEF RejectUpload, Goto, HandlerType
  <2>3. QED
        BY <2>1, <2>2
<1>3. ASSUME NEW h \in Handlers, finalize_artifact_upload(h)
      PROVE  handler[h].row = e /\ handler'[h] # handler[h]
  <2>1. handler[h].row = e
        BY <1>0, <1>3 DEF finalize_artifact_upload, CommitRow, RowTable, dbVars
  <2>2. handler[h].pc = "commit" /\ handler'[h].pc # "commit"
        BY <1>0, <1>3 DEF finalize_artifact_upload, Goto, HandlerType
  <2>3. QED
        BY <2>1, <2>2
<1>4. ASSUME NEW f, ClearKey(f) PROVE FALSE
      BY <1>0, <1>4 DEF ClearKey, RowTable
<1>5. ~RecoverAbandon
  <2>1. RecoverAbandon => recovery.cur = e /\ recovery.pc = "abandon"
        BY <1>0 DEF RecoverAbandon, AbandonRow, RowTable
  <2>2. QED
        BY <2>1 DEF RecoveryInv
<1>6. ~RecoverReject
  <2>1. RecoverReject => recovery.cur = e /\ recovery.pc = "reject"
        BY <1>0 DEF RecoverReject, RejectRow, RowTable
  <2>2. QED
        BY <2>1 DEF RecoveryInv
<1>7. ~RecoverCommit
  <2>1. RecoverCommit => recovery.cur = e /\ recovery.pc = "commit"
        BY <1>0 DEF RecoverCommit, CommitRow, RowTable, dbVars
  <2>2. QED
        BY <2>1 DEF RecoveryInv
<1>8. RowsWriter
      BY Frames DEF Framed
<1>9. QED
      BY <1>1, <1>2, <1>3, <1>4, <1>5, <1>6, <1>7, <1>8
      DEF RowsWriter, clear_artifact_staging_key, RecoverClear

\* Within its grace a reservation belongs to the tasks that work on it: recovery,
\* periodic or at startup, neither settles its row nor removes its bytes.
THEOREM GraceProtectsUploadHolds == Spec => GraceProtectsUpload
<1> DEFINE Step == \A e \in Events :
                     /\ rows[e].status = "staged" /\ e \notin aged
                     /\ rows'[e] # rows[e] \/ (staging[e] # "none" /\ staging'[e] = "none")
                     => \E h \in Handlers : handler[h].row = e /\ handler'[h] # handler[h]
<1>1. TypeInv /\ StagingInv /\ [Next]_vars => [Step]_vars
      BY GraceStep, StepStaging
<1>2. QED
      BY <1>1, StagingInvariant, PTL DEF Spec, GraceProtectsUpload
=============================================================================
