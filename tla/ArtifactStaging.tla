--------------------------- MODULE ArtifactStaging ---------------------------
(***************************************************************************)
(* How the bytes of a run reach durable storage: the runner's bounded      *)
(* upload loops (the historical receipt of a collector run, then the       *)
(* source deliverable), the server handler that reserves an artifacts row, *)
(* writes a staging object, copies it to its content-addressed object and  *)
(* commits the row, the acknowledgement the runner waits for, and the      *)
(* recovery pass that runs at startup and periodically beside the live     *)
(* handlers.  The object store and the database are two systems: nothing   *)
(* commits in both at once, and the server may die between any two steps.  *)
(*                                                                         *)
(* A run uploads one content per role, so a role stands for its digest and *)
(* for its final object key; an event identifier stands for the artifact   *)
(* identifier and for its staging key, which are derived from it.          *)
(***************************************************************************)
EXTENDS Naturals, FiniteSets, Sequences

CONSTANTS
  Roles,       \* the uploads of the run, in order: "receipt", "deliverable"
  MaxTries,    \* uploads the runner sends per role (6 in the code)
  Handlers,    \* server tasks a runner socket can be served by
  MaxFaults    \* connection losses, crashes, storage errors and corruptions

ASSUME StagingAssumption ==
  /\ Roles \in Seq({"receipt", "deliverable"}) /\ Roles # <<>>
  /\ MaxTries \in Nat \ {0} /\ MaxFaults \in Nat
  /\ Handlers # {}

Events == 1 .. (MaxTries * Len(Roles))
RoleSet == {Roles[i] : i \in 1 .. Len(Roles)}
NoRow == [status |-> "none", key |-> FALSE, role |-> "none"]
Idle == [pc |-> "idle", id |-> 0, role |-> "none", row |-> 0]
Resting == [pc |-> "idle", pending |-> {}, staged |-> {}, keys |-> {}, cur |-> 0,
            boot |-> FALSE]

VARIABLES
  rows,      \* artifacts: the row of each event identifier
  aged,      \* rows whose created_at is older than the recovery grace
  run,       \* the run: "active", "passed", "failed" or "ended" by others
  linked,    \* source_deliverables.artifact_id of the run, 0 for none
  granted,   \* the receipt collection authority is still current
  staging,   \* staging objects: "none", "good" or "bad" bytes
  final,     \* content-addressed objects, by role
  handler,   \* what each server task is doing
  conn,      \* the task serving the runner's current socket
  recovery,  \* the recovery pass
  runner,    \* the runner's upload loop
  up,        \* events on the way to the server
  acks,      \* ArtifactStored messages on the way to the runner
  faults     \* faults spent

dbVars == <<rows, run, linked>>
objects == <<staging, final>>
wires == <<conn, up, acks>>
vars == <<rows, aged, run, linked, granted, staging, final, handler, conn,
          recovery, runner, up, acks, faults>>

Fault == /\ faults < MaxFaults
         /\ faults' = faults + 1

(***************************************************************************)
(* Object store.  A staging object is written whole or not at all, and     *)
(* only verified bytes are put at the content-addressed key.               *)
(***************************************************************************)
\* finalize_staged: what copying the staging object of row e comes to.
CopyOutcome(e, role) ==
  IF staging[e] = "bad" THEN "invalid"
  ELSE IF staging[e] = "good" \/ final[role] = "good" THEN "stored"
  ELSE "missing"

\* read_verified: a download returns the bytes that were uploaded.
read_verified(e) == final[rows[e].role] = "good"

(***************************************************************************)
(* The artifacts table.                                                    *)
(***************************************************************************)
\* retained_provider_receipt::current_tx: collecting the receipt of a
\* checkpoint needs an active collector run and an unchanged grant.
Authority(role) == role = "receipt" => granted /\ run = "active"

\* The row an upload is about: the one of its event, else the one that holds
\* the same content for the same run and role.
Existing(e, role) ==
  IF rows[e].status # "none" THEN {e}
  ELSE {f \in Events : rows[f].status # "none" /\ rows[f].role = role}

\* The deliverable of the run is the first one that became ready for it.
LinkDeliverable(e) ==
  linked' = IF rows[e].role = "deliverable" /\ linked = 0 THEN e ELSE linked

\* finalize_artifact_upload: the row of e becomes ready, with the run's link.
\* A receipt whose authority was withdrawn is rejected in the transaction.
CommitRow(e) ==
  LET row == rows[e] IN
  IF row.status = "staged" /\ ~Authority(row.role)
  THEN /\ rows' = [rows EXCEPT ![e].status = "rejected"]
       /\ UNCHANGED <<run, linked>>
  ELSE IF row.status = "staged"
  THEN /\ rows' = [rows EXCEPT ![e].status = "ready"]
       /\ LinkDeliverable(e)
       /\ UNCHANGED run
  ELSE UNCHANGED dbVars

CommitSucceeds(e) == /\ rows[e].status \in {"staged", "ready"}
                     /\ Authority(rows[e].role)

\* reject_staged_artifact and abandon_staged_artifact touch a row only while
\* it is still staged.
RejectRow(e) == rows' = IF rows[e].status = "staged"
                        THEN [rows EXCEPT ![e].status = "rejected"] ELSE rows
AbandonRow(e) == rows' = IF rows[e].status = "staged"
                         THEN [rows EXCEPT ![e] = NoRow] ELSE rows

\* clear_artifact_staging_key
ClearKey(e) == rows' = IF rows[e].status \notin {"none", "staged"}
                       THEN [rows EXCEPT ![e].key = FALSE] ELSE rows

(***************************************************************************)
(* The runner: send_verification_events' upload loop, and `collect' for    *)
(* the receipt of a collector run.                                         *)
(***************************************************************************)
Role == Roles[runner.phase]
Sent(i) == MaxTries * (runner.phase - 1) + i

SendUpload ==
  /\ runner.pc = "send"
  /\ runner.tries < MaxTries
  /\ up' = Append(up, [kind |-> "upload", id |-> Sent(runner.tries + 1), role |-> Role])
  /\ runner' = [runner EXCEPT !.pc = "wait", !.tries = @ + 1]
  /\ UNCHANGED <<dbVars, aged, granted, objects, handler, conn, recovery, acks, faults>>

\* Five seconds without the matching acknowledgement: the next try, or the
\* timed-out failure after the last one.
AckTimeout ==
  /\ runner.pc = "wait"
  /\ acks = <<>>
  /\ runner' = [runner EXCEPT !.pc = IF runner.tries < MaxTries THEN "send" ELSE "failed"]
  /\ UNCHANGED <<dbVars, aged, granted, objects, handler, wires, recovery, faults>>

\* An acknowledgement of another role or digest is read and passed over.
ReceiveAck ==
  /\ runner.pc # "failed"
  /\ acks # <<>>
  /\ acks' = Tail(acks)
  /\ IF runner.pc \in {"wait", "send"} /\ Head(acks) = Role
     THEN IF runner.phase < Len(Roles)
          THEN /\ runner' = [pc |-> "send", phase |-> runner.phase + 1, tries |-> 0]
               /\ UNCHANGED up
          ELSE /\ runner' = [runner EXCEPT !.pc = "done"]
               /\ up' = Append(up, [kind |-> "passed", id |-> 0, role |-> "none"])
     ELSE UNCHANGED <<runner, up>>
  /\ UNCHANGED <<dbVars, aged, granted, objects, handler, conn, recovery, faults>>

(***************************************************************************)
(* The server handler of one event: process_runner_event and what the      *)
(* socket loop does with its result.                                       *)
(***************************************************************************)
Goto(h, pc) == handler' = [handler EXCEPT ![h].pc = pc]
Finish(h) == handler' = [handler EXCEPT ![h] = Idle]

\* The socket loop takes the next event of the current connection.
TakeEvent(h) ==
  /\ h = conn
  /\ handler[h].pc = "idle"
  /\ ~recovery.boot
  /\ up # <<>>
  /\ up' = Tail(up)
  /\ handler' = [handler EXCEPT ![h] =
       [pc |-> IF Head(up).kind = "upload" THEN "prepare" ELSE "accept",
        id |-> Head(up).id, role |-> Head(up).role, row |-> 0]]
  /\ UNCHANGED <<dbVars, aged, granted, objects, conn, recovery, runner, acks, faults>>

\* prepare_staging refuses the payload: over the server's byte limit, or a
\* digest, media type, file name or metadata that does not check.
PayloadRefused(h) ==
  /\ Fault
  /\ handler[h].pc = "prepare"
  /\ Goto(h, "fail")
  /\ UNCHANGED <<dbVars, aged, granted, objects, wires, recovery, runner>>

\* artifact_context and prepare_artifact_upload: a run that was stopped, failed
\* or suspended admits no upload; otherwise the row is reserved, or the one
\* that already holds this content is found.
ReserveRow(row, role) ==
  rows' = [rows EXCEPT ![row] = [status |-> "staged", key |-> TRUE, role |-> role]]

prepare_artifact_upload(h) ==
  LET me == handler[h]
      found == Existing(me.id, me.role)
      row == IF found = {} THEN me.id ELSE CHOOSE f \in found : TRUE
      status == IF found = {} THEN "staged" ELSE rows[row].status
      \* validate_binding_tx: a collection never retries a rejected upload.
      refused == \/ run # "active"
                 \/ ~Authority(me.role)
                 \/ me.role = "receipt" /\ status = "rejected"
  IN /\ me.pc = "prepare"
     /\ IF found = {} /\ ~refused THEN ReserveRow(row, me.role) ELSE UNCHANGED rows
     /\ handler' = [handler EXCEPT ![h].row = row, ![h].pc =
          IF refused THEN "fail"
          ELSE CASE status = "ready" -> "cleanup"
                 [] status = "rejected" -> "purge"
                 [] OTHER -> "write"]
     /\ UNCHANGED <<aged, run, linked, granted, objects, wires, recovery, runner, faults>>

\* Mutant: the upload is acknowledged once its bytes are staged.
AcknowledgeStaged(h) ==
  /\ handler[h].pc = "write"
  /\ staging' = [staging EXCEPT ![handler[h].row] = "good"]
  /\ acks' = Append(acks, handler[h].role)
  /\ Goto(h, "copy")
  /\ UNCHANGED <<dbVars, aged, granted, final, conn, up, recovery, runner, faults>>

\* write_staged puts the verified bytes at the row's staging key.
write_staged(h) ==
  /\ handler[h].pc = "write"
  /\ staging' = [staging EXCEPT ![handler[h].row] = "good"]
  /\ Goto(h, "copy")
  /\ UNCHANGED <<dbVars, aged, granted, final, wires, recovery, runner, faults>>

\* finalize_staged: an absent object or bytes of another digest are permanent
\* errors here, and the row is rejected.
finalize_staged(h) ==
  LET me == handler[h]
      outcome == CopyOutcome(me.row, me.role)
  IN /\ me.pc = "copy"
     /\ final' = IF outcome = "stored" THEN [final EXCEPT ![me.role] = "good"] ELSE final
     /\ Goto(h, IF outcome = "stored" THEN "commit" ELSE "reject")
     /\ UNCHANGED <<dbVars, aged, granted, staging, wires, recovery, runner, faults>>

RejectUpload(h) ==
  /\ handler[h].pc = "reject"
  /\ RejectRow(handler[h].row)
  /\ Goto(h, IF rows[handler[h].row].status = "staged" THEN "purge" ELSE "fail")
  /\ UNCHANGED <<aged, run, linked, granted, objects, wires, recovery, runner, faults>>

\* finalize_artifact_upload fails when recovery abandoned or rejected the row
\* meanwhile, or the collection authority is gone.
finalize_artifact_upload(h) ==
  LET e == handler[h].row IN
  /\ handler[h].pc = "commit"
  /\ CommitRow(e)
  /\ Goto(h, IF CommitSucceeds(e) THEN "cleanup" ELSE "fail")
  /\ UNCHANGED <<aged, granted, objects, wires, recovery, runner, faults>>

\* cleanup_prepared_artifact: delete the staging object, then clear its key.
\* The upload then succeeds ("cleanup") or was rejected before ("purge").
DiscardStaged(h) ==
  /\ handler[h].pc \in {"cleanup", "purge"}
  /\ staging' = [staging EXCEPT ![handler[h].row] = "none"]
  /\ Goto(h, IF handler[h].pc = "cleanup" THEN "clear" ELSE "clear_failed")
  /\ UNCHANGED <<dbVars, aged, granted, final, wires, recovery, runner, faults>>

clear_artifact_staging_key(h) ==
  /\ handler[h].pc \in {"clear", "clear_failed"}
  /\ ClearKey(handler[h].row)
  /\ Goto(h, IF handler[h].pc = "clear" THEN "reply" ELSE "fail")
  /\ UNCHANGED <<aged, run, linked, granted, objects, wires, recovery, runner, faults>>

\* The socket loop acknowledges an upload that is ready, whoever made it so.
Acknowledge(h) ==
  LET me == handler[h] IN
  /\ me.pc = "reply"
  /\ acks' = IF /\ h = conn
                /\ \E f \in Events : rows[f].status = "ready" /\ rows[f].role = me.role
             THEN Append(acks, me.role) ELSE acks
  /\ Finish(h)
  /\ UNCHANGED <<dbVars, aged, granted, objects, conn, up, recovery, runner, faults>>

\* A refused upload is applied as run.failed; on a run that is no longer
\* active that event is ignored.
FailRun(h) ==
  /\ handler[h].pc = "fail"
  /\ run' = IF run = "active" THEN "failed" ELSE run
  /\ Finish(h)
  /\ UNCHANGED <<rows, linked, aged, granted, objects, wires, recovery, runner, faults>>

\* run.verification_passed needs the exact ready deliverable of the run.
verification_passed(h) ==
  /\ handler[h].pc = "accept"
  /\ run' = IF run = "active" /\ linked # 0 /\ rows[linked].status = "ready"
            THEN "passed" ELSE run
  /\ Finish(h)
  /\ UNCHANGED <<rows, linked, aged, granted, objects, wires, recovery, runner, faults>>

\* A transient error of the object store while staging or copying.  Only a
\* receipt upload is left for the runner's next try; any other fails the run.
StorageError(h) ==
  /\ Fault
  /\ handler[h].pc \in {"write", "copy"}
  /\ IF handler[h].role = "receipt" THEN Finish(h) ELSE Goto(h, "fail")
  /\ UNCHANGED <<dbVars, aged, granted, objects, wires, recovery, runner>>

\* Deleting the staging object fails: its key stays for a recovery pass.
DiscardError(h) ==
  /\ Fault
  /\ handler[h].pc \in {"cleanup", "purge"}
  /\ Goto(h, IF handler[h].pc = "cleanup" THEN "reply" ELSE "fail")
  /\ UNCHANGED <<dbVars, aged, granted, objects, wires, recovery, runner>>

(***************************************************************************)
(* recover_pending_artifacts: one pass at startup, before any socket is    *)
(* served, and one every interval beside the handlers.                     *)
(***************************************************************************)
\* Mutant: the pass forgets settled rows whose staging key is still set.
StartStagedOnly ==
  /\ recovery.pc = "idle"
  /\ recovery' = [recovery EXCEPT !.pc = "list",
       !.pending = {e \in Events : rows[e].status = "staged"},
       !.staged = {e \in Events : rows[e].status = "staged"}]
  /\ UNCHANGED <<dbVars, aged, granted, objects, handler, wires, runner, faults>>

\* pending_artifact_uploads: the rows this pass will work on.
StartRecovery ==
  /\ recovery.pc = "idle"
  /\ recovery' = [recovery EXCEPT !.pc = "list",
       !.pending = {e \in Events : rows[e].status = "staged" \/ rows[e].key},
       !.staged = {e \in Events : rows[e].status = "staged"}]
  /\ UNCHANGED <<dbVars, aged, granted, objects, handler, wires, runner, faults>>

\* staged_keys: the staging objects no row of the pass accounts for.
ListStaging ==
  /\ recovery.pc = "list"
  /\ recovery' = [recovery EXCEPT !.pc = "orphans",
                  !.keys = {e \in Events : staging[e] # "none"} \ recovery.pending]
  /\ UNCHANGED <<dbVars, aged, granted, objects, handler, wires, runner, faults>>

\* artifact_staging_key_is_reserved, asked again for each key: a row may have
\* been reserved since the pass read the table.
CheckOrphan(e) ==
  /\ recovery.pc = "orphans"
  /\ e \in recovery.keys
  /\ recovery' = IF rows[e].key
                 THEN [recovery EXCEPT !.keys = @ \ {e}]
                 ELSE [recovery EXCEPT !.pc = "discard_orphan", !.cur = e]
  /\ UNCHANGED <<dbVars, aged, granted, objects, handler, wires, runner, faults>>

DiscardOrphan ==
  /\ recovery.pc = "discard_orphan"
  /\ staging' = [staging EXCEPT ![recovery.cur] = "none"]
  /\ recovery' = [recovery EXCEPT !.pc = "orphans", !.keys = @ \ {recovery.cur}, !.cur = 0]
  /\ UNCHANGED <<dbVars, aged, granted, final, handler, wires, runner, faults>>

Settle(e) == [recovery EXCEPT !.pc = "rows", !.pending = @ \ {e},
              !.staged = @ \ {e}, !.cur = 0]

\* Mutant: the pass finalizes a staged row however young it is.
RecoverAnyRow(e) ==
  /\ recovery.pc \in {"rows", "orphans"}
  /\ recovery.keys = {}
  /\ e \in recovery.pending
  /\ recovery' = [recovery EXCEPT !.cur = e,
                    !.pc = IF e \in recovery.staged THEN "copy" ELSE "cleanup"]
  /\ UNCHANGED <<dbVars, aged, granted, objects, handler, wires, runner, faults>>

\* The next row of the pass, as the pass read it: one within its grace is left
\* to its handler, a staged one is finalized, a settled one only cleaned up.
RecoverRow(e) ==
  /\ recovery.pc \in {"rows", "orphans"}
  /\ recovery.keys = {}
  /\ e \in recovery.pending
  /\ recovery' = IF e \in recovery.staged \ aged THEN Settle(e)
                 ELSE [recovery EXCEPT !.cur = e,
                         !.pc = IF e \in recovery.staged THEN "copy" ELSE "cleanup"]
  /\ UNCHANGED <<dbVars, aged, granted, objects, handler, wires, runner, faults>>

\* finalize_staged on behalf of a handler that never came back: no bytes at
\* all release the reservation for a retry, wrong bytes reject it.
RecoverCopy ==
  LET e == recovery.cur
      outcome == CopyOutcome(e, rows[e].role)
  IN /\ recovery.pc = "copy"
     /\ final' = IF outcome = "stored" THEN [final EXCEPT ![rows[e].role] = "good"] ELSE final
     /\ recovery' = [recovery EXCEPT !.pc = CASE outcome = "stored" -> "commit"
                                              [] outcome = "missing" -> "abandon"
                                              [] OTHER -> "reject"]
     /\ UNCHANGED <<dbVars, aged, granted, staging, handler, wires, runner, faults>>

\* abandon_staged_artifact deletes the row only while it is staged.
RecoverAbandon ==
  LET e == recovery.cur IN
  /\ recovery.pc = "abandon"
  /\ AbandonRow(e)
  /\ aged' = aged \ {e}
  /\ recovery' = IF rows[e].status = "staged"
                 THEN [recovery EXCEPT !.pc = "discard_released"] ELSE Settle(e)
  /\ UNCHANGED <<run, linked, granted, objects, handler, wires, runner, faults>>

RecoverReject ==
  LET e == recovery.cur IN
  /\ recovery.pc = "reject"
  /\ RejectRow(e)
  /\ recovery' = IF rows[e].status = "staged"
                 THEN [recovery EXCEPT !.pc = "cleanup"] ELSE Settle(e)
  /\ UNCHANGED <<aged, run, linked, granted, objects, handler, wires, runner, faults>>

RecoverCommit ==
  LET e == recovery.cur IN
  /\ recovery.pc = "commit"
  /\ CommitRow(e)
  /\ recovery' = IF CommitSucceeds(e) THEN [recovery EXCEPT !.pc = "cleanup"] ELSE Settle(e)
  /\ UNCHANGED <<aged, granted, objects, handler, wires, runner, faults>>

RecoverDiscard ==
  /\ recovery.pc \in {"cleanup", "discard_released"}
  /\ staging' = [staging EXCEPT ![recovery.cur] = "none"]
  /\ recovery' = IF recovery.pc = "cleanup"
                 THEN [recovery EXCEPT !.pc = "clear"] ELSE Settle(recovery.cur)
  /\ UNCHANGED <<dbVars, aged, granted, final, handler, wires, runner, faults>>

RecoverClear ==
  /\ recovery.pc = "clear"
  /\ ClearKey(recovery.cur)
  /\ recovery' = Settle(recovery.cur)
  /\ UNCHANGED <<aged, run, linked, granted, objects, handler, wires, runner, faults>>

\* A transient object store error leaves the row, or the staging objects the
\* pass could not list, to the next pass.
RecoveryError ==
  /\ Fault
  /\ \/ /\ recovery.pc \in {"copy", "cleanup"}
        /\ recovery' = Settle(recovery.cur)
     \/ /\ recovery.pc = "list"
        /\ recovery' = [recovery EXCEPT !.pc = "orphans"]
  /\ UNCHANGED <<dbVars, aged, granted, objects, handler, wires, runner>>

EndRecovery ==
  /\ recovery.pc \in {"rows", "orphans"}
  /\ recovery.keys = {} /\ recovery.pending = {}
  /\ recovery' = Resting
  /\ UNCHANGED <<dbVars, aged, granted, objects, handler, wires, runner, faults>>

(***************************************************************************)
(* The environment: time, the run's other ends, and faults.                *)
(***************************************************************************)
\* artifact_recovery_grace_secs after the row was reserved.
GraceEnds(e) ==
  /\ rows[e].status = "staged" /\ e \notin aged
  /\ aged' = aged \cup {e}
  /\ UNCHANGED <<dbVars, granted, objects, handler, wires, recovery, runner, faults>>

\* Cancelled, suspended by the breaker or lost: no upload is admitted again.
RunEnds ==
  /\ Fault
  /\ run = "active"
  /\ run' = "ended"
  /\ UNCHANGED <<rows, linked, aged, granted, objects, handler, wires, recovery, runner>>

\* The recovery, its author, its checkpoint or its source changed.
AuthorityWithdrawn ==
  /\ Fault
  /\ granted /\ "receipt" \in RoleSet
  /\ granted' = FALSE
  /\ UNCHANGED <<dbVars, aged, objects, handler, wires, recovery, runner>>

\* The socket drops and the runner reconnects; the old task still finishes
\* what it had begun, its replies go nowhere, and what was in flight is lost.
Reconnect(h) ==
  /\ Fault
  /\ h # conn /\ handler[h].pc = "idle"
  /\ conn' = h
  /\ up' = <<>> /\ acks' = <<>>
  /\ UNCHANGED <<dbVars, aged, granted, objects, handler, recovery, runner>>

ServerCrash ==
  /\ Fault
  /\ handler' = [h \in Handlers |-> Idle]
  /\ recovery' = [Resting EXCEPT !.boot = TRUE]
  /\ up' = <<>> /\ acks' = <<>>
  /\ UNCHANGED <<dbVars, aged, granted, objects, conn, runner>>

\* The bytes at a staging key are damaged.
StagingDamaged(e) ==
  /\ Fault
  /\ staging[e] = "good"
  /\ staging' = [staging EXCEPT ![e] = "bad"]
  /\ UNCHANGED <<dbVars, aged, granted, final, handler, wires, recovery, runner>>

Init ==
  /\ rows = [e \in Events |-> NoRow]
  /\ aged = {}
  /\ run = "active" /\ linked = 0 /\ granted = TRUE
  /\ staging = [e \in Events |-> "none"]
  /\ final = [r \in RoleSet |-> "none"]
  /\ handler = [h \in Handlers |-> Idle]
  /\ conn = CHOOSE h \in Handlers : TRUE
  /\ recovery = Resting
  /\ runner = [pc |-> "send", phase |-> 1, tries |-> 0]
  /\ up = <<>> /\ acks = <<>>
  /\ faults = 0

Handle(h) ==
  \/ TakeEvent(h) \/ prepare_artifact_upload(h) \/ write_staged(h)
  \/ finalize_staged(h) \/ RejectUpload(h) \/ finalize_artifact_upload(h)
  \/ DiscardStaged(h) \/ clear_artifact_staging_key(h) \/ Acknowledge(h)
  \/ FailRun(h) \/ verification_passed(h)

Recover ==
  \/ StartRecovery \/ ListStaging \/ DiscardOrphan \/ RecoverCopy
  \/ RecoverAbandon \/ RecoverReject \/ RecoverCommit \/ RecoverDiscard
  \/ RecoverClear \/ EndRecovery
  \/ \E e \in Events : CheckOrphan(e) \/ RecoverRow(e)

Upload == SendUpload \/ AckTimeout \/ ReceiveAck

Faulty ==
  \/ RecoveryError \/ RunEnds \/ AuthorityWithdrawn \/ ServerCrash
  \/ \E h \in Handlers : PayloadRefused(h) \/ StorageError(h)
                         \/ DiscardError(h) \/ Reconnect(h)
  \/ \E e \in Events : StagingDamaged(e)

Next ==
  \/ Upload \/ Recover \/ Faulty
  \/ \E h \in Handlers : Handle(h)
  \/ \E e \in Events : GraceEnds(e)

Spec == Init /\ [][Next]_vars

\* Tasks of the server are scheduled fairly, the recovery timer ticks, time
\* passes for every reservation and the runner's loop goes on.  All but the
\* periodic pass is bounded work, so one condition covers it.
FairSpec ==
  /\ Spec
  /\ WF_vars(Recover)
  /\ WF_vars(\/ Upload
             \/ \E h \in Handlers : Handle(h)
             \/ \E e \in Events : GraceEnds(e))

(***************************************************************************)
(* Properties.                                                             *)
(***************************************************************************)
\* Rows, objects and the run have the values of their vocabularies.
TypeOK ==
  /\ rows \in [Events -> [status : {"none", "staged", "ready", "rejected"},
                          key : BOOLEAN, role : RoleSet \cup {"none"}]]
  /\ aged \subseteq Events
  /\ run \in {"active", "passed", "failed", "ended"}
  /\ linked \in Events \cup {0}
  /\ staging \in [Events -> {"none", "good", "bad"}]
  /\ final \in [RoleSet -> {"none", "good"}]
  /\ conn \in Handlers /\ granted \in BOOLEAN

\* Whoever committed the row, a ready artifact can be downloaded: its bytes
\* were at the content-addressed key first and nothing removed them.
ReadyIsReadable ==
  \A e \in Events : rows[e].status = "ready" => read_verified(e)

\* What the runner believes stored is stored: each role it went past has a
\* ready row, and the deliverable it announces is the one the run is linked to.
AcknowledgedIsStored ==
  LET past == {Roles[i] : i \in 1 .. (IF runner.pc = "done" THEN runner.phase
                                       ELSE runner.phase - 1)}
  IN /\ \A r \in past : \E e \in Events : rows[e].status = "ready" /\ rows[e].role = r
     /\ "deliverable" \in past => linked # 0 /\ rows[linked].status = "ready"

\* Every retry carries a new event identifier, and still a run has one row,
\* and one staging object in use, for one content.
OneRowPerContent ==
  \A e, f \in Events :
    rows[e].status # "none" /\ rows[f].status # "none" /\ rows[e].role = rows[f].role => e = f

\* A handler that staged the bytes of a reservation finds them there when it
\* copies them, or finds them already stored: neither a recovery pass that
\* listed the staging objects before the row existed, nor one that releases the
\* row, nor the clean-up of another task takes them away.
StagedBytesStay ==
  \A h \in Handlers :
    LET e == handler[h].row IN
    handler[h].pc = "copy" /\ rows[e].status = "staged"
      => staging[e] # "none" \/ final[handler[h].role] = "good"

\* Within its grace a reservation is its handlers': its row is settled, and its
\* staging object removed, by no step but that of a task that works on it.
GraceProtectsUpload ==
  [][\A e \in Events :
       /\ rows[e].status = "staged" /\ e \notin aged
       /\ rows'[e] # rows[e] \/ (staging[e] # "none" /\ staging'[e] = "none")
       => \E h \in Handlers : handler[h].row = e /\ handler'[h] # handler[h]]_vars

\* Whatever was lost, repeated or left half done, the upload comes to an end
\* and storage ends clean: no reservation, staging object or key is left.
StorageSettles ==
  <>[](/\ runner.pc \in {"done", "failed"}
       /\ \A e \in Events : rows[e].status # "staged" /\ ~rows[e].key /\ staging[e] = "none")

\* What the store or the runner calls stored is stored once and can be read, and
\* what a handler staged stays until it is copied, whatever crashed, was retried
\* or was recovered meanwhile.
BytesAreStored ==
  TypeOK /\ ReadyIsReadable /\ AcknowledgedIsStored /\ OneRowPerContent /\ StagedBytesStay
==============================================================================
