---------------------------- MODULE Publication -----------------------------
(***************************************************************************)
(* Publishing a verified deliverable: the pull_request_publications row with *)
(* its lease, token and version, `ecorp factory publish` processes that     *)
(* carry the publication out against GitHub, and what people do to the same *)
(* GitHub objects meanwhile.  A process may crash, or lose the answer of a   *)
(* call that was carried out, after every step; the operator runs it again. *)
(* A token is the number of the attempt it was made for.  A version is only  *)
(* ever compared with the row's, and every change of the row raises it: so a *)
(* process keeps whether the row is still as it saw it, `current`, and the   *)
(* operations recorded under keys made of the version it saw, `recorded`.    *)
(***************************************************************************)
EXTENDS Naturals, FiniteSets

CONSTANTS Procs,        \* processes that run `ecorp factory publish`
          Identities,   \* who may run which: functions of a process to actor and publisher id
          MaxAttempts,  \* bound: attempts; above MaxFaults + 1 only edits reach it
          MaxFaults,    \* bound: crashes, lost answers and leases that outrun their holder
          MaxEdits      \* bound: what people do on GitHub and to the publisher's authority

ASSUME PublicationAssumption ==
    /\ Procs # {} /\ Identities # {}
    /\ MaxFaults \in Nat /\ MaxEdits \in Nat /\ MaxAttempts \in Nat /\ MaxAttempts > MaxFaults + 1

VARIABLES ident,    \* who runs each process; fixed
          item,     \* the factory work item's state
          pub,      \* the publication row and its newest attempt
          starts,   \* the operations recorded under the start keys
          noted,    \* the operations recorded under keys made of the row's present version
          proc,     \* the processes
          gh,       \* GitHub: base, branch (none, verified, behind: at an ancestor, other),
                    \* pull requests, Project status
          revoked,  \* identities whose role or room membership is gone
          barred,   \* identities whose publisher credential was revoked or expired
          faults, edits

vars == <<ident, item, pub, starts, noted, proc, gh, revoked, barred, faults, edits>>

NoRow == [state |-> "none", attempts |-> 0, token |-> 0, owner |-> "none",
          live |-> FALSE, running |-> FALSE, pr |-> 0]
Idle == [pc |-> "off", token |-> 0, state |-> "none", pr |-> 0, current |-> FALSE,
         recorded |-> {}, answered |-> 0, found |-> 0]

publication_state_rank(s) ==
    CASE s = "none" -> 0 [] s = "publishing" -> 1 [] s = "branch_pushed" -> 2
      [] s = "pull_request_created" -> 3 [] s = "published" -> 4

-----------------------------------------------------------------------------
(* publication.rs: authority, control and idempotency.                      *)

(* The deliverable, its artifact, run, task and mission are as the gate left *)
(* them: ready, completed and passed.                                        *)
SourceAccepted == item.accepted

(* No run of the mission is stopped by a breaker except one that was resumed  *)
(* from on the way to the deliverable, and none of that lineage quarantined. *)
LineageUnblocked == ~item.blocked

(* The item awaits publication.  Its policy is a snapshot and the request is *)
(* made from it, so that what it authorizes cannot change.                   *)
PrerequisitesHold(existing) ==
    /\ item.state \in IF existing THEN {"publishing", "verified"} ELSE {"verified"}
    /\ SourceAccepted /\ LineageUnblocked

(* Every call first locks the publisher's credential, which must stand.      *)
revalidate_publication_publisher_credential(id) == id \notin barred

(* The running attempt is the actor's, whose role and room still authorize it. *)
revalidate_publication_authority(id) ==
    /\ pub.running /\ pub.owner = id /\ id \notin revoked
    /\ PrerequisitesHold(TRUE)

(* Token, publisher, version and lease must be the row's, the attempt run.   *)
ensure_active_publication_control(p) ==
    /\ revalidate_publication_publisher_credential(ident[p])
    /\ pub.state # "published"
    /\ pub.token = proc[p].token /\ pub.owner = ident[p]
    /\ proc[p].current
    /\ pub.live /\ pub.running

(* An operation: the stage its key names, who asked for it with which token. *)
Op(stage, id, token) == [stage |-> stage, id |-> id, token |-> token]

(* publication_operation of a key made of the version the process saw.       *)
publication_operation(p, stage) == {o \in proc[p].recorded : o.stage = stage}

ensure_publication_operation_matches(o, p) ==
    /\ revalidate_publication_publisher_credential(ident[p])
    /\ o.id = ident[p] /\ o.token = proc[p].token

(* The token of an operation, 0 if the row has moved out of its hands.       *)
replayable_publication_token(o) ==
    IF pub.state # "published" /\ pub.live /\ pub.token = o.token THEN o.token ELSE 0

(* The start key names the invocation, a recovery key also the row as seen.  *)
stable_start_idempotency_key(p) == {o \in starts : o.id = ident[p]}
stable_recovery_idempotency_key(p) ==
    {o \in publication_operation(p, "recover") : o.id = ident[p]}

(* A process that reads the row: what it has then, and the operations that   *)
(* go with the version.                                                      *)
Reads(r, row, ops) == [r EXCEPT !.state = row.state, !.pr = row.pr,
                                !.current = TRUE, !.recorded = ops]

(* record_publication_operation of an operation that changes the row: those  *)
(* who had seen the row as it was are left behind.                           *)
Moves(o) ==
    [p \in Procs |-> IF proc[p].current
                     THEN [proc[p] EXCEPT !.current = FALSE, !.recorded = @ \cup {o}]
                     ELSE proc[p]]

(* ... and of one that leaves the row as it is.                              *)
Notes(o) ==
    [p \in Procs |-> IF proc[p].current THEN [proc[p] EXCEPT !.recorded = @ \cup {o}] ELSE proc[p]]

-----------------------------------------------------------------------------
(* What a process makes of an answer: the row, the token granted, 0 for none, *)
(* and `procs`, the processes as the operation leaves them.  `next` is the    *)
(* step the process goes on with.                                             *)

Goes(p, next) == proc' = [proc EXCEPT ![p].pc = next]
Fails(p) == Goes(p, "failing")
Ends(p) == proc' = [proc EXCEPT ![p] = Idle]

(* An answer read, or lost although the server did what was asked.           *)
Answered(p, next, token, procs) ==
    \/ /\ proc' = [procs EXCEPT ![p] =
            [Reads(@, pub', noted') EXCEPT !.answered = token, !.pc = next]]
       /\ UNCHANGED faults
    \/ /\ faults < MaxFaults /\ faults' = faults + 1
       /\ proc' = [procs EXCEPT ![p].pc = "failing"]

(* The answer to a start: a token to work with; the row of another publisher, *)
(* to wait for; or, once, a row to be recovered.                             *)
StartAnswered(p, token, busy, procs) ==
    \/ /\ proc' = [procs EXCEPT ![p] =
            IF token # 0
            THEN [Reads(@, pub', noted') EXCEPT !.pc = "prepare", !.answered = token, !.token = token]
            ELSE IF @.pc = "start" /\ pub'.state # "published"
            THEN [Reads(@, pub', noted') EXCEPT !.pc = IF busy THEN "wait" ELSE "recover"]
            ELSE Idle]
       /\ UNCHANGED faults
    \/ faults < MaxFaults /\ faults' = faults + 1 /\ proc' = [procs EXCEPT ![p] = Idle]

(* The renewals of execute_publication and where each leads.                 *)
AfterRenewal ==
    [s \in {"prepare", "branch-push", "pull-request", "project-review-read",
            "project-review-effect", "project-review-complete"} |->
        CASE s = "prepare" -> "repository"
          [] s = "branch-push" -> "push"
          [] s = "pull-request" -> "find"
          [] s = "project-review-read" -> "reread"
          [] s = "project-review-effect" -> "edit"
          [] s = "project-review-complete" -> "published"]

(* An answer without the token ends the attempt; it is no longer this one's. *)
RenewalAnswered(p, stage, token, procs) ==
    Answered(p, IF token = proc[p].token THEN AfterRenewal[stage] ELSE "failing", token, procs)

AfterCheckpoint(stage, row) ==
    CASE stage = "branch-pushed" ->
            IF publication_state_rank(row.state) < 3 THEN "pull-request" ELSE "confirm"
      [] stage = "pull-request-created" -> IF row.state = "published" THEN "done" ELSE "status"
      [] stage = "published" -> "done"

CheckpointAnswered(p, stage, token, procs) ==
    Answered(p, AfterCheckpoint(stage, pub'), token, procs)

-----------------------------------------------------------------------------
(* start_pull_request_publication, as a process asks for it.                 *)

NewPublication(id) ==
    [NoRow EXCEPT !.state = "publishing", !.attempts = 1, !.token = 1,
                  !.owner = id, !.live = TRUE, !.running = TRUE]

(* A row whose lease is over or given up is taken over: the attempt that     *)
(* still runs is abandoned and a new one begins where the row stands.        *)
TakesOver(id) ==
    [pub EXCEPT !.attempts = @ + 1, !.token = pub.attempts + 1,
                !.owner = id, !.live = TRUE, !.running = TRUE]

IgnoresExpiry == pub.token # 0
Busy == pub.live /\ pub.token # 0

StartReplays(p, found) ==
    \E o \in found :
        LET token == replayable_publication_token(o)
        IN  /\ token # 0 => revalidate_publication_authority(ident[p])
            /\ UNCHANGED <<pub, item, starts, noted>>
            /\ StartAnswered(p, token, pub.state # "published" /\ token = 0 /\ pub.live, proc)

(* The operation goes under the start key or the recovery key asked with.    *)
Recorded(recovers, o, changed) ==
    /\ starts' = IF recovers THEN starts ELSE starts \cup {o}
    /\ noted' = IF changed THEN {} ELSE IF recovers THEN noted \cup {o} ELSE noted

StartJoins(p, recovers) ==
    LET id == ident[p]
        o(token) == Op(IF recovers THEN "recover" ELSE "start", id, token)
    IN  \/ /\ pub.state = "published"
           /\ Recorded(recovers, o(0), FALSE)
           /\ UNCHANGED <<pub, item>>
           /\ StartAnswered(p, 0, FALSE, IF recovers THEN Notes(o(0)) ELSE proc)
        \/ /\ pub.state \notin {"none", "published"}
           /\ PrerequisitesHold(TRUE) /\ id \notin revoked
           /\ Busy
           /\ UNCHANGED <<pub, item, starts, noted>>
           /\ StartAnswered(p, 0, TRUE, proc)
        \/ /\ pub.state \notin {"none", "published"}
           /\ PrerequisitesHold(TRUE) /\ id \notin revoked
           /\ ~Busy /\ pub.attempts < MaxAttempts
           /\ pub' = TakesOver(id)
           /\ Recorded(recovers, o(pub'.token), TRUE)
           /\ StartAnswered(p, pub'.token, FALSE, Moves(o(pub'.token)))
           /\ UNCHANGED item

StartCreates(p) ==
    /\ pub.state = "none" /\ PrerequisitesHold(FALSE) /\ ident[p] \notin revoked
    /\ pub' = NewPublication(ident[p])
    /\ item' = [item EXCEPT !.state = "publishing"]
    /\ Recorded(FALSE, Op("start", ident[p], 1), TRUE)
    /\ StartAnswered(p, 1, FALSE, Moves(Op("start", ident[p], 1)))

StartRefused(found, id) ==
    IF found # {}
    THEN \E o \in found : replayable_publication_token(o) # 0 /\ ~revalidate_publication_authority(id)
    ELSE /\ pub.state # "published"
         /\ id \in revoked \/ ~PrerequisitesHold(pub.state # "none")

-----------------------------------------------------------------------------
(* renew_pull_request_publication and the checkpoints, as a process asks for *)
(* them: at the version it saw and under a key made of that version.         *)

Renewed == [pub EXCEPT !.live = TRUE]

GivenUp(row) == [row EXCEPT !.owner = "none", !.token = 0, !.live = FALSE, !.running = FALSE]

(* What a checkpoint makes of the row; the last two give the lease up.       *)
Checkpointed(stage, number) ==
    CASE stage = "branch-pushed" -> [pub EXCEPT !.state = "branch_pushed"]
      [] stage = "pull-request-created" ->
            [pub EXCEPT !.state = "pull_request_created", !.pr = number]
      [] stage = "published" -> GivenUp([pub EXCEPT !.state = "published"])
      [] stage = "failed" -> GivenUp(pub)

(* The row must be one step behind, or already have what is checkpointed.    *)
CheckpointFits(stage, number) ==
    CASE stage = "branch-pushed" -> publication_state_rank(pub.state) >= 1
      [] stage = "pull-request-created" ->
            publication_state_rank(pub.state) >= 2
            /\ (publication_state_rank(pub.state) >= 3 => pub.pr = number)
      [] stage = "published" -> pub.state = "pull_request_created" /\ pub.pr # 0
      [] stage = "failed" -> TRUE

CheckpointKnown(stage) ==
    \/ stage = "branch-pushed" /\ publication_state_rank(pub.state) >= 2
    \/ stage = "pull-request-created" /\ publication_state_rank(pub.state) >= 3

Asks(p, stage) == Op(stage, ident[p], proc[p].token)

(* The replay of a renewal always revalidates the authority; the replay of a *)
(* checkpoint only when it would hand the token out again.                   *)
RenewReplayed(p, stage) ==
    {o \in publication_operation(p, stage) :
        ensure_publication_operation_matches(o, p) /\ revalidate_publication_authority(ident[p])}
CheckpointReplayed(p, stage) ==
    {o \in publication_operation(p, stage) :
        /\ ensure_publication_operation_matches(o, p)
        /\ replayable_publication_token(o) # 0 => revalidate_publication_authority(ident[p])}

RenewAdmitted(p, stage) ==
    /\ publication_operation(p, stage) = {}
    /\ ensure_active_publication_control(p)
    /\ revalidate_publication_authority(ident[p])

renew_pull_request_publication(p, stage) ==
    \/ \E o \in RenewReplayed(p, stage) :
          UNCHANGED <<pub, noted>> /\ RenewalAnswered(p, stage, replayable_publication_token(o), proc)
    \/ /\ RenewAdmitted(p, stage)
       /\ pub' = Renewed /\ noted' = {}
       /\ RenewalAnswered(p, stage, proc[p].token, Moves(Asks(p, stage)))

CheckpointAdmitted(p, stage, number) ==
    /\ publication_operation(p, stage) = {}
    /\ ensure_active_publication_control(p)
    /\ stage # "failed" => revalidate_publication_authority(ident[p])
    /\ CheckpointFits(stage, number)

record_pull_request_publication_checkpoint(p, stage, number) ==
    \/ \E o \in CheckpointReplayed(p, stage) :
          /\ UNCHANGED <<pub, item, noted>>
          /\ CheckpointAnswered(p, stage, replayable_publication_token(o), proc)
    \/ /\ CheckpointAdmitted(p, stage, number) /\ CheckpointKnown(stage)
       /\ noted' = noted \cup {Asks(p, stage)}
       /\ UNCHANGED <<pub, item>>
       /\ CheckpointAnswered(p, stage, proc[p].token, Notes(Asks(p, stage)))
    \/ /\ CheckpointAdmitted(p, stage, number) /\ ~CheckpointKnown(stage)
       /\ pub' = Checkpointed(stage, number) /\ noted' = {}
       /\ item' = IF stage = "published" THEN [item EXCEPT !.state = "published"] ELSE item
       /\ CheckpointAnswered(p, stage, IF pub'.live THEN proc[p].token ELSE 0, Moves(Asks(p, stage)))

-----------------------------------------------------------------------------
(* publish.rs: one process.                                                  *)

(* The plan is read off the item's policy snapshot and its one merge-ready   *)
(* deliverable, which an item that reached publication has and keeps: all    *)
(* that is left of it is that a process holding nothing is ready to start.   *)
publication_plan == [Idle EXCEPT !.pc = "start"]

(* run: the plan is made and the base on GitHub must be the verified commit; *)
(* a publication that is complete needs no such check.                       *)
Begin(p) ==
    /\ proc[p].pc = "off" /\ pub.state # "published"
    /\ gh.base
    /\ proc' = [proc EXCEPT ![p] = publication_plan]
    /\ UNCHANGED <<ident, item, pub, starts, noted, gh, revoked, barred, faults, edits>>

Start(p) ==
    /\ proc[p].pc \in {"start", "recover"}
    /\ LET recovers == proc[p].pc = "recover"
           found == IF recovers THEN stable_recovery_idempotency_key(p)
                    ELSE stable_start_idempotency_key(p)
           allowed == revalidate_publication_publisher_credential(ident[p])
       IN  \/ allowed /\ StartReplays(p, found)
           \/ allowed /\ found = {} /\ StartJoins(p, recovers)
           \/ allowed /\ found = {} /\ StartCreates(p)
           \/ /\ ~allowed \/ StartRefused(found, ident[p])
              /\ Ends(p)
              /\ UNCHANGED <<pub, item, starts, noted, faults>>
    /\ UNCHANGED <<ident, gh, revoked, barred, edits>>

(* wait_or_recover_publication: while busy the row is read again.            *)
Wait(p) ==
    /\ proc[p].pc = "wait"
    /\ IF Busy THEN Ends(p)
       ELSE proc' = [proc EXCEPT ![p] =
                IF pub.state = "published" THEN Idle
                ELSE [Reads(@, pub, noted) EXCEPT !.pc = "recover"]]
    /\ UNCHANGED <<ident, item, pub, starts, noted, gh, revoked, barred, faults, edits>>

Renew(p) ==
    /\ proc[p].pc \in DOMAIN AfterRenewal
    /\ LET stage == proc[p].pc
       IN  \/ renew_pull_request_publication(p, stage)
           \/ /\ ~RenewAdmitted(p, stage) /\ RenewReplayed(p, stage) = {}
              /\ Fails(p) /\ UNCHANGED <<pub, noted, faults>>
    /\ UNCHANGED <<ident, item, starts, gh, revoked, barred, edits>>

Checkpoint(p) ==
    /\ proc[p].pc \in {"branch-pushed", "pull-request-created", "published"}
    /\ LET stage == proc[p].pc
       IN  \/ record_pull_request_publication_checkpoint(p, stage, proc[p].found)
           \/ /\ ~CheckpointAdmitted(p, stage, proc[p].found) /\ CheckpointReplayed(p, stage) = {}
              /\ Fails(p) /\ UNCHANGED <<pub, item, noted, faults>>
    /\ UNCHANGED <<ident, starts, gh, revoked, barred, edits>>

(* record_failure: only for an attempt that is, as far as this process knows, *)
(* its own and not published; whether it is accepted or not, the run is over. *)
RecordFailure(p) ==
    /\ proc[p].pc = "failing"
    /\ LET mine == proc[p].state # "published" /\ proc[p].answered = proc[p].token
       IN  IF mine /\ CheckpointAdmitted(p, "failed", 0)
           THEN /\ pub' = Checkpointed("failed", 0) /\ noted' = {}
                /\ proc' = [Moves(Asks(p, "failed")) EXCEPT ![p] = Idle]
           ELSE Ends(p) /\ UNCHANGED <<pub, noted>>
    /\ UNCHANGED <<ident, item, starts, gh, revoked, barred, faults, edits>>

Done(p) ==
    /\ proc[p].pc = "done"
    /\ Ends(p)
    /\ UNCHANGED <<ident, item, pub, starts, noted, gh, revoked, barred, faults, edits>>

-----------------------------------------------------------------------------
(* publish.rs: the effects on GitHub.                                       *)

(* prepare_repository: the base must still be the verified commit.           *)
Repository(p) ==
    /\ proc[p].pc = "repository"
    /\ IF ~gh.base THEN Fails(p)
       ELSE IF publication_state_rank(proc[p].state) < 2 THEN Goes(p, "branch-push")
       ELSE IF gh.branch # "verified" THEN Fails(p)
       ELSE Goes(p, IF publication_state_rank(proc[p].state) < 3
                    THEN "pull-request" ELSE "confirm")
    /\ UNCHANGED <<ident, item, pub, starts, noted, gh, revoked, barred, faults, edits>>

(* push_or_adopt_branch asks for the branch first: at the verified commit it *)
(* is adopted, anywhere else it is refused.                                  *)
push_or_adopt_branch(p) ==
    Goes(p, CASE gh.branch = "verified" -> "branch-pushed"
              [] gh.branch = "none" -> "send"
              [] OTHER -> "failing")

(* The base is asked for once more before the branch; what people do between *)
(* the two questions could as well have been done before or after both.      *)
Push(p) ==
    /\ proc[p].pc = "push"
    /\ IF gh.base THEN push_or_adopt_branch(p) ELSE Fails(p)
    /\ UNCHANGED <<ident, item, pub, starts, noted, gh, revoked, barred, faults, edits>>

(* git push without force and without an expected value: it creates the      *)
(* branch or fast-forwards one at an ancestor, whatever was seen before, and *)
(* leaves a branch with other commits alone.                                 *)
PushForces == gh' = [gh EXCEPT !.branch = "verified"]
GitPush ==
    gh' = IF gh.branch = "other" THEN gh ELSE [gh EXCEPT !.branch = "verified"]

Send(p) ==
    /\ proc[p].pc = "send"
    /\ Goes(p, "pushed")
    /\ \/ GitPush /\ UNCHANGED faults
       \/ faults < MaxFaults /\ faults' = faults + 1 /\ UNCHANGED gh
    /\ UNCHANGED <<ident, item, pub, starts, noted, revoked, barred, edits>>

(* ensure_remote_branch: reported done or failed, the push is looked up       *)
(* before it is believed.                                                     *)
PushTrusted(p) == Goes(p, "branch-pushed")
ensure_remote_branch(p) ==
    Goes(p, IF gh.branch = "verified" THEN "branch-pushed" ELSE "failing")

Pushed(p) ==
    /\ proc[p].pc = "pushed"
    /\ ensure_remote_branch(p)
    /\ UNCHANGED <<ident, item, pub, starts, noted, gh, revoked, barred, faults, edits>>

(* find_pull_request: of the pull requests in every state, those of this     *)
(* branch with the verified head, title and body.                            *)
find_pull_request == {r \in gh.prs : r.ours}

ensure_remote_pull_request_matches(r) == r.open /\ r.ours

(* The one that exists, if it can be used; several are an error.             *)
Adopts(p, next) ==
    \E r \in find_pull_request :
        /\ find_pull_request = {r} /\ ensure_remote_pull_request_matches(r)
        /\ proc' = [proc EXCEPT ![p].found = r.n, ![p].pc = next]

CannotAdopt ==
    \/ Cardinality(find_pull_request) > 1
    \/ \E r \in find_pull_request : ~ensure_remote_pull_request_matches(r)

Find(p) ==
    /\ proc[p].pc = "find"
    /\ \/ Adopts(p, "pull-request-created")
       \/ CannotAdopt /\ Fails(p)
       \/ find_pull_request = {} /\ Goes(p, "create")
    /\ UNCHANGED <<ident, item, pub, starts, noted, gh, revoked, barred, faults, edits>>

(* gh pr create: GitHub refuses a second open pull request of a branch, and  *)
(* one of a branch with no commit of its own.                                *)
GitHubAccepts ==
    gh.branch \in {"verified", "other"} /\ ~\E r \in gh.prs : r.open
GitHubCreates ==
    gh' = [gh EXCEPT !.prs = @ \cup {[n |-> Cardinality(gh.prs) + 1, open |-> TRUE,
                                      ours |-> gh.branch = "verified"]}]

(* After the call, succeeded or not, the pull request is looked up.          *)
Create(p) ==
    /\ proc[p].pc = "create"
    /\ IF GitHubAccepts
       THEN \/ /\ GitHubCreates /\ Goes(p, "find-created") /\ UNCHANGED faults
            \/ /\ faults < MaxFaults /\ faults' = faults + 1
               /\ Goes(p, "find-created") /\ UNCHANGED gh
       ELSE Goes(p, "find-created") /\ UNCHANGED <<gh, faults>>
    /\ UNCHANGED <<ident, item, pub, starts, noted, revoked, barred, edits>>

FindCreated(p) ==
    /\ proc[p].pc = "find-created"
    /\ \/ Adopts(p, "pull-request-created")
       \/ CannotAdopt /\ Fails(p)
       \/ find_pull_request = {} /\ Fails(p)
    /\ UNCHANGED <<ident, item, pub, starts, noted, gh, revoked, barred, faults, edits>>

(* A pull request the row already has must still be there.                   *)
Confirm(p) ==
    /\ proc[p].pc = "confirm"
    /\ \/ Adopts(p, "status")
       \/ CannotAdopt /\ Fails(p)
       \/ find_pull_request = {} /\ Fails(p)
    /\ UNCHANGED <<ident, item, pub, starts, noted, gh, revoked, barred, faults, edits>>

revalidate_durable_pull_request(p) ==
    \E r \in find_pull_request :
        /\ find_pull_request = {r} /\ ensure_remote_pull_request_matches(r)
        /\ r.n = proc[p].pr

Status(p) ==
    /\ proc[p].pc = "status"
    /\ IF gh.status \in {"before", "review"} THEN Goes(p, "project-review-read") ELSE Fails(p)
    /\ UNCHANGED <<ident, item, pub, starts, noted, gh, revoked, barred, faults, edits>>

(* The status is read again under a renewed lease; only the one the policy   *)
(* expects is moved, any other must already be the review status.            *)
Reread(p) ==
    /\ proc[p].pc = "reread"
    /\ IF ~revalidate_durable_pull_request(p) THEN Fails(p)
       ELSE Goes(p, IF gh.status = "before" THEN "project-review-effect" ELSE "final")
    /\ UNCHANGED <<ident, item, pub, starts, noted, gh, revoked, barred, faults, edits>>

(* An edit reported failed is looked up; one that did not happen is an error. *)
Edit(p) ==
    /\ proc[p].pc = "edit"
    /\ \/ gh' = [gh EXCEPT !.status = "review"] /\ Goes(p, "final") /\ UNCHANGED faults
       \/ /\ faults < MaxFaults /\ faults' = faults + 1
          /\ (IF gh.status = "review" THEN Goes(p, "final") ELSE Fails(p)) /\ UNCHANGED gh
    /\ UNCHANGED <<ident, item, pub, starts, noted, revoked, barred, edits>>

Final(p) ==
    /\ proc[p].pc = "final"
    /\ IF gh.status = "review" /\ revalidate_durable_pull_request(p)
       THEN Goes(p, "project-review-complete") ELSE Fails(p)
    /\ UNCHANGED <<ident, item, pub, starts, noted, gh, revoked, barred, faults, edits>>

-----------------------------------------------------------------------------
(* Faults, time and people.                                                 *)

(* The process dies; the lease it holds stays.                               *)
Crash(p) ==
    /\ proc[p].pc # "off"
    /\ faults < MaxFaults /\ faults' = faults + 1
    /\ Ends(p)
    /\ UNCHANGED <<ident, item, pub, starts, noted, gh, revoked, barred, edits>>

(* A lease runs out.  It is renewed before every effect, so only a stalled   *)
(* process outlives it, which is a fault; a lease nobody renews always ends. *)
Held == \E p \in Procs : proc[p].pc # "off" /\ proc[p].token = pub.token
LeaseEnds ==
    /\ pub.live
    /\ IF Held THEN faults < MaxFaults /\ faults' = faults + 1 ELSE UNCHANGED faults
    /\ pub' = [pub EXCEPT !.live = FALSE]
    /\ UNCHANGED <<ident, item, starts, noted, proc, gh, revoked, barred, edits>>

People ==
    /\ edits < MaxEdits /\ edits' = edits + 1
    /\ \/ /\ \/ gh' = [gh EXCEPT !.base = FALSE]
             \/ \E b \in {"none", "behind", "other"} \ {gh.branch} : gh' = [gh EXCEPT !.branch = b]
             \/ \E s \in {"before", "review", "other"} \ {gh.status} : gh' = [gh EXCEPT !.status = s]
             \/ \E r \in gh.prs : \E c \in {[r EXCEPT !.open = FALSE], [r EXCEPT !.ours = FALSE]} :
                    c # r /\ gh' = [gh EXCEPT !.prs = (@ \ {r}) \cup {c}]
          /\ UNCHANGED <<item, revoked>>
       \/ \E p \in Procs : revoked' = revoked \cup {ident[p]} /\ UNCHANGED <<item, gh>>
       \/ /\ \/ item' = [item EXCEPT !.accepted = FALSE]
             \/ item' = [item EXCEPT !.blocked = TRUE]
          /\ UNCHANGED <<gh, revoked>>
    /\ UNCHANGED <<ident, pub, starts, noted, proc, barred, faults>>

revoke_publication_publisher_credential ==
    /\ edits < MaxEdits /\ edits' = edits + 1
    /\ \E p \in Procs : barred' = barred \cup {ident[p]}
    /\ UNCHANGED <<ident, item, pub, starts, noted, proc, gh, revoked, faults>>

Init ==
    /\ ident \in Identities
    /\ item = [state |-> "verified", accepted |-> TRUE, blocked |-> FALSE]
    /\ pub = NoRow /\ starts = {} /\ noted = {}
    /\ proc = [p \in Procs |-> Idle]
    /\ gh = [base |-> TRUE, branch |-> "none", prs |-> {}, status |-> "before"]
    /\ revoked = {} /\ barred = {} /\ faults = 0 /\ edits = 0

Work(p) ==
    \/ Begin(p) \/ Start(p) \/ Wait(p) \/ Renew(p) \/ Checkpoint(p) \/ RecordFailure(p) \/ Done(p)
    \/ Repository(p) \/ Push(p) \/ Send(p) \/ Pushed(p) \/ Find(p) \/ Create(p) \/ FindCreated(p) \/ Confirm(p)
    \/ Status(p) \/ Reread(p) \/ Edit(p) \/ Final(p)

Next ==
    \/ \E p \in Procs : Work(p) \/ Crash(p)
    \/ LeaseEnds \/ People \/ revoke_publication_publisher_credential

Spec == Init /\ [][Next]_vars
FairSpec == Spec /\ (\A p \in Procs : WF_vars(Work(p))) /\ WF_vars(LeaseEnds)

-----------------------------------------------------------------------------
(* The row never runs ahead of GitHub, however the processes interleave,     *)
(* crash and take the row over: unless a person changed something, each      *)
(* recorded stage is there, there is one pull request, the one in the row,   *)
(* and in the end the item is in review.                                     *)
RecordedIsOnGitHub ==
    edits = 0 =>
        /\ publication_state_rank(pub.state) >= 2 => gh.branch = "verified"
        /\ Cardinality(gh.prs) <= 1
        /\ publication_state_rank(pub.state) >= 3 =>
                gh.prs = {[n |-> pub.pr, open |-> TRUE, ours |-> TRUE]}
        /\ pub.state = "published" => gh.status = "review"

(* A takeover goes on where the row stands: no stage, pull request or        *)
(* attempt that was recorded is ever taken back, and published is final.     *)
StagesStand ==
    [][/\ publication_state_rank(pub'.state) >= publication_state_rank(pub.state)
       /\ pub.pr # 0 => pub'.pr = pub.pr
       /\ pub'.attempts >= pub.attempts
       /\ pub.state = "published" => pub' = pub]_vars

(* No commit of a person is lost: a publisher moves the branch only to the   *)
(* verified commit, only after it found no branch there, and never, at       *)
(* whatever moment it was made, away from commits the verified one does not  *)
(* contain.                                                                  *)
ForeignBranchStands ==
    [][gh'.branch # gh.branch /\ edits' = edits =>
          /\ gh'.branch = "verified" /\ gh.branch # "other"
          /\ \E p \in Procs : proc[p].pc = "send" /\ proc'[p].pc = "pushed"]_vars

(* While operators keep running the command the publication completes,       *)
(* whatever faults happened, unless a person intervened.  It takes different *)
(* identities: two copies under one identity are granted the same token, and *)
(* each renewal of one makes the other's version stale.                      *)
PublicationCompletes ==
    (\A p, q \in Procs : ident[p] = ident[q] => p = q)
        => <>(pub.state = "published" \/ edits > 0)

(* Nothing recorded and nothing a person did is undone by a publisher that   *)
(* takes over, retries or comes late.                                        *)
NothingIsUndone == StagesStand /\ ForeignBranchStands
=============================================================================
