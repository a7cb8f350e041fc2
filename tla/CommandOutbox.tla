---------------------------- MODULE CommandOutbox ----------------------------
(***************************************************************************)
(* Durable commands of one run: approval decisions, circuit-breaker stages *)
(* and control messages are rows of runner_commands that are sent again on *)
(* every heartbeat and reconnect until the runner's acknowledgment settles *)
(* them.  Several dispatches run at once (heartbeats, requests, the end of *)
(* a registration), each working through a page it fetched earlier.        *)
(*                                                                         *)
(* RunnerConnection is abstracted to a counter of connection epochs and to *)
(* what a reconnect does here: messages in flight are lost, and a run the  *)
(* runner no longer holds ends.  Runners without durable-control-v1 and    *)
(* the commands of factory recoveries are left out.                        *)
(***************************************************************************)
EXTENDS Naturals, Sequences, FiniteSets, SequencesExt

CONSTANTS
    Commands,     \* command ids
    Kind,         \* command_kind of each command; breaker stages suspend and
                  \* stop are the kind hard_breaker
    Dispatchers,  \* concurrent dispatch_pending_runner_commands_for_epoch calls
    PageSize,     \* LIMIT of pending_runner_commands
    MaxDrops,     \* bound on lost connections
    MaxLease,     \* bound on lease versions
    MaxInFlight   \* bound on unread messages of a socket

ASSUME OutboxConstants ==
    /\ Kind \in [Commands -> {"approval_decision", "circuit_breaker", "hard_breaker",
                             "control_message"}]
    /\ PageSize \in Nat \ {0}
    /\ MaxDrops \in Nat /\ MaxLease \in Nat \ {0} /\ MaxInFlight \in Nat

VARIABLES
    outbox,      \* runner_commands in the order of created_at
    status,      \* their status
    version,     \* lease_version in the payload of a control message
    lease,       \* control_leases: lease_version, and whether it is unexpired
    runActive,   \* the run's status on the server is active
    epoch, ready,  \* the connection in AppState.runners
    work,        \* the dispatch calls in progress
    down, up,    \* the messages of the socket
    buffered,    \* OutboundBus.pending: acknowledgments for the next socket
    assignment,  \* how far the runner is with the run
    boundary,    \* HardBoundaryControl of the run
    seen,        \* seen_commands of the runner process
    effects      \* how often a command reached the adapter

serverVars == <<outbox, status, version, lease, runActive>>
linkVars == <<epoch, ready, down, up>>
runnerVars == <<buffered, assignment, boundary, seen, effects>>
vars == <<serverVars, work, linkVars, runnerVars>>

Idle == [phase |-> "idle", epoch |-> 0, page |-> {}, full |-> FALSE, sent |-> FALSE]

Init ==
    /\ outbox = <<>> /\ status = [c \in Commands |-> "none"]
    /\ version = [c \in Commands |-> 0]
    /\ lease = [version |-> 1, live |-> TRUE]
    /\ runActive = TRUE
    /\ epoch = 1 /\ ready = TRUE /\ down = <<>> /\ up = <<>>
    /\ work = [d \in Dispatchers |-> Idle]
    /\ buffered = <<>> /\ assignment = "provider" /\ boundary = "open" /\ seen = {}
    /\ effects = [c \in Commands |-> 0]

-----------------------------------------------------------------------------
(***************************************************************************)
(* Requests.                                                               *)
(***************************************************************************)

\* decide_action_approval and expire_action_approval, the breaker evaluation,
\* and queue_message with the current lease token.  The expiry of an approval
\* enqueues its rejection when the run is already cancelled.
Enqueue(c) ==
    /\ status[c] = "none"
    /\ Kind[c] \in {"circuit_breaker", "hard_breaker"} => runActive
    /\ Kind[c] = "control_message" => runActive /\ lease.live
    /\ status' = [status EXCEPT ![c] = "pending"]
    /\ version' = [version EXCEPT ![c] = lease.version]
    /\ outbox' = Append(outbox, c)
    /\ UNCHANGED <<lease, runActive, work, linkVars, runnerVars>>

\* acquire_lease (by a new actor or as a renewal) and transfer_lease.
RotateLease ==
    /\ lease.version < MaxLease
    /\ lease' = [version |-> lease.version + 1, live |-> TRUE]
    /\ UNCHANGED <<outbox, status, version, runActive, work, linkVars, runnerVars>>

\* release_lease, or its expiry.
LoseLease ==
    /\ lease.live /\ lease' = [lease EXCEPT !.live = FALSE]
    /\ UNCHANGED <<outbox, status, version, runActive, work, linkVars, runnerVars>>

\* The run ends on the server: by its own event, an approval that expired, ...
RunEndsOnServer ==
    /\ runActive /\ runActive' = FALSE
    /\ UNCHANGED <<outbox, status, version, lease, work, linkVars, runnerVars>>

-----------------------------------------------------------------------------
(***************************************************************************)
(* dispatch_pending_runner_commands_for_epoch.                             *)
(***************************************************************************)
\* The pending rows, by their position in the order of created_at.
Pending == {i \in DOMAIN outbox : status[outbox[i]] = "pending"}

NewestPage == {i \in Pending : Cardinality({j \in Pending : i <= j}) <= PageSize}

\* pending_runner_commands: the oldest PageSize of them.
Page == {i \in Pending : Cardinality({j \in Pending : j <= i}) <= PageSize}

\* A page is worked through in its order.
IsNext(page, i) == \A j \in page : i <= j

EpochReady(e) == ready /\ epoch = e

StartDispatch(d) ==
    /\ work[d].phase = "idle" /\ ready /\ Pending # {}
    /\ Len(down) < MaxInFlight
    /\ work' = [work EXCEPT ![d] = [phase |-> "check", epoch |-> epoch, page |-> Page,
                                    full |-> Cardinality(Page) = PageSize, sent |-> FALSE]]
    /\ UNCHANGED <<serverVars, linkVars, runnerVars>>

\* control_command_lease_token finds the actor's unexpired lease at the version
\* the command was created with, the command pending and its run active.
LeaseCurrent(c) ==
    /\ lease = [version |-> version[c], live |-> TRUE]
    /\ status[c] = "pending" /\ runActive

\* acknowledge_runner_command and fail_runner_command settle a pending command;
\* the queued message becomes delivered or cancelled with it.
Settle(c, outcome) ==
    status' = [status EXCEPT ![c] = IF @ = "pending" THEN outcome ELSE @]

CheckCommand(d) ==
    /\ work[d].phase = "check"
    /\ \E i \in work[d].page :
         LET c == outbox[i] IN
         /\ IsNext(work[d].page, i)
         /\ IF ~EpochReady(work[d].epoch)
            THEN work' = [work EXCEPT ![d] = Idle] /\ UNCHANGED status
            ELSE IF Kind[c] = "control_message" /\ ~LeaseCurrent(c)
            THEN /\ Settle(c, "failed")
                 /\ work' = [work EXCEPT ![d].page = @ \ {i}]
            ELSE work' = [work EXCEPT ![d].phase = "send"] /\ UNCHANGED status
    /\ UNCHANGED <<outbox, version, lease, runActive, linkVars, runnerVars>>

\* send_command_to_current_runner.
SendCommand(d) ==
    /\ work[d].phase = "send"
    /\ IF EpochReady(work[d].epoch)
       THEN \E i \in work[d].page :
              /\ IsNext(work[d].page, i)
              /\ down' = Append(down, outbox[i])
              /\ work' = [work EXCEPT ![d].phase = "check", ![d].sent = TRUE,
                                      ![d].page = @ \ {i}]
       ELSE work' = [work EXCEPT ![d] = Idle] /\ UNCHANGED down
    /\ UNCHANGED <<serverVars, epoch, ready, up, runnerVars>>

\* The end of a page: another one is fetched only if the page was full and
\* nothing of it was sent.
EndPage(d) ==
    /\ work[d].phase = "check" /\ work[d].page = {}
    /\ work' = [work EXCEPT ![d] =
                  IF work[d].sent \/ ~work[d].full \/ Pending = {} THEN Idle
                  ELSE [@ EXCEPT !.page = Page, !.full = Cardinality(Page) = PageSize]]
    /\ UNCHANGED <<serverVars, linkVars, runnerVars>>

IgnoreNack ==
    /\ up # <<>>
    /\ up' = Tail(up)
    /\ IF Head(up).applied THEN Settle(Head(up).command, "dispatched")
       ELSE UNCHANGED status
    /\ UNCHANGED <<outbox, version, lease, runActive, work, epoch, ready, down,
                   runnerVars>>

\* CommandAck: its socket is still the one in the map.
HandleAck ==
    /\ up # <<>>
    /\ up' = Tail(up)
    /\ Settle(Head(up).command, IF Head(up).applied THEN "dispatched" ELSE "failed")
    /\ UNCHANGED <<outbox, version, lease, runActive, work, epoch, ready, down,
                   runnerVars>>

-----------------------------------------------------------------------------
(***************************************************************************)
(* The runner.                                                             *)
(***************************************************************************)

\* The run is in active_runs.
Held == assignment # "over"

\* Whether the command reaches the run: the adapter still receives controls, or,
\* for a hard breaker stage, the assignment has not begun to clean up.
Reaches(c) ==
    \/ assignment = "provider"
    \/ Held /\ Kind[c] = "hard_breaker" /\ boundary # "finalizing"

DuplicateSteer(c) == c \in seen /\ Kind[c] # "control_message"

Duplicate(c) == c \in seen

RememberedAlways(c) == seen \cup {c}

\* seen_commands: a decision is remembered before it is delivered, the other
\* kinds only when they were.
Remembered(c) ==
    IF Kind[c] = "approval_decision" \/ Reaches(c) THEN seen \cup {c} ELSE seen

ReceiveCommand ==
    /\ down # <<>> /\ Len(up) < MaxInFlight
    /\ LET c == Head(down)
           effect == ~Duplicate(c) /\ Reaches(c)
       IN /\ seen' = Remembered(c)
          /\ effects' = IF effect THEN [effects EXCEPT ![c] = @ + 1] ELSE effects
          /\ boundary' = IF effect /\ Kind[c] = "hard_breaker" /\ boundary = "open"
                         THEN "requested" ELSE boundary
          /\ up' = Append(up, [command |-> c, applied |-> Duplicate(c) \/ effect])
    /\ down' = Tail(down)
    /\ UNCHANGED <<serverVars, work, epoch, ready, buffered, assignment>>

\* The provider ends; the assignment goes on with verification ...
ProviderEnds ==
    /\ assignment = "provider" /\ assignment' = "verifying"
    /\ UNCHANGED <<serverVars, work, linkVars, buffered, boundary, seen, effects>>

\* ... then either a hard stage has been requested and the workspace is retained,
\* or finalization closes the boundary and may remove it ...
BeginFinalization ==
    /\ assignment = "verifying" /\ assignment' = "finishing"
    /\ boundary' = IF boundary = "open" THEN "finalizing" ELSE boundary
    /\ UNCHANGED <<serverVars, work, linkVars, buffered, seen, effects>>

\* ... and the run leaves active_runs when that is over.
AssignmentEnds ==
    /\ assignment = "finishing" /\ assignment' = "over"
    /\ UNCHANGED <<serverVars, work, linkVars, buffered, boundary, seen, effects>>

-----------------------------------------------------------------------------
(***************************************************************************)
(* The connection.                                                         *)
(***************************************************************************)

\* The runner leaves the socket; what it had already sent is still handled, and
\* what it said after its writer failed waits for the next socket.
DropLink ==
    /\ epoch <= MaxDrops /\ ready
    /\ ready' = FALSE /\ down' = <<>>
    /\ \E n \in 0..Len(up) : \E m \in n..Len(up) :
          /\ up' = SubSeq(up, 1, n)
          /\ buffered' = SubSeq(up, m + 1, Len(up))
    /\ UNCHANGED <<serverVars, work, epoch, assignment, boundary, seen, effects>>

\* A new registration is ready to dispatch: acknowledgments of the old socket
\* are refused, a run the runner does not claim is lost.
Reconnect ==
    /\ ~ready /\ ready' = TRUE /\ epoch' = epoch + 1
    /\ up' = buffered /\ buffered' = <<>>
    /\ runActive' = (runActive /\ Held)
    /\ UNCHANGED <<outbox, status, version, lease, work, down, assignment, boundary,
                   seen, effects>>

\* A runner that starts again has forgotten its commands and its run.
RunnerRestarts ==
    /\ ~ready
    /\ buffered' = <<>> /\ assignment' = "over" /\ boundary' = "open" /\ seen' = {}
    /\ UNCHANGED <<serverVars, work, linkVars, effects>>

-----------------------------------------------------------------------------
DispatchStep(d) == CheckCommand(d) \/ SendCommand(d) \/ EndPage(d)

Next ==
    \/ \E c \in Commands : Enqueue(c)
    \/ RotateLease \/ LoseLease \/ RunEndsOnServer
    \/ \E d \in Dispatchers : StartDispatch(d) \/ DispatchStep(d)
    \/ HandleAck \/ ReceiveCommand \/ ProviderEnds
    \/ BeginFinalization \/ AssignmentEnds
    \/ DropLink \/ Reconnect \/ RunnerRestarts

Spec == Init /\ [][Next]_vars

\* Heartbeats start dispatches again and again, and both processes go on; no
\* request, lease change or end of a run is assumed to happen.
Fairness ==
    /\ \A d \in Dispatchers : WF_vars(StartDispatch(d)) /\ WF_vars(DispatchStep(d))
    /\ WF_vars(HandleAck) /\ WF_vars(ReceiveCommand) /\ WF_vars(Reconnect)

FairSpec == Spec /\ Fairness

-----------------------------------------------------------------------------
(***************************************************************************)
(* Properties.                                                             *)
(***************************************************************************)

\* Rows, dispatches, messages and the runner's memory have the values of their
\* vocabularies.
TypeOK ==
    /\ outbox \in Seq(Commands) /\ IsInjective(outbox)
    /\ Range(outbox) = {c \in Commands : status[c] # "none"}
    /\ status \in [Commands -> {"none", "pending", "dispatched", "failed"}]
    /\ version \in [Commands -> 0..MaxLease]
    /\ lease \in [version : 0..MaxLease, live : BOOLEAN]
    /\ runActive \in BOOLEAN /\ ready \in BOOLEAN /\ epoch \in 1..(MaxDrops + 1)
    /\ work \in [Dispatchers -> [phase : {"idle", "check", "send"}, epoch : 0..(MaxDrops + 1),
                                 page : SUBSET DOMAIN outbox, full : BOOLEAN, sent : BOOLEAN]]
    /\ down \in Seq(Commands)
    /\ up \in Seq([command : Commands, applied : BOOLEAN])
    /\ buffered \in Seq([command : Commands, applied : BOOLEAN])
    /\ assignment \in {"provider", "verifying", "finishing", "over"}
    /\ boundary \in {"open", "requested", "finalizing"}
    /\ seen \subseteq Commands
    /\ effects \in [Commands -> Nat]

\* "Runner command IDs suppress duplicate process effects": however often a
\* command is fetched, sent and sent again by concurrent dispatches and over
\* reconnects, the provider sees it at most once.
AppliedAtMostOnce == \A c \in Commands : effects[c] <= 1

\* "A subsequently delivered hard directive cannot race removal": once the
\* clean-up of a run has begun, no suspend or stop that asks to retain its
\* workspace was accepted, or will be.
HardStopIsKept ==
    boundary = "finalizing" =>
        \A c \in Commands : Kind[c] = "hard_breaker" => effects[c] = 0

\* "They remain pending until the runner acknowledges application": a command
\* recorded as dispatched did reach the provider.  An approval decision is left
\* out: the runner remembers it before it is delivered, so the second copy of one
\* that arrived too late is acknowledged as applied.
AcknowledgedIsApplied ==
    \A c \in Commands :
        status[c] = "dispatched" /\ Kind[c] # "approval_decision" => effects[c] > 0

\* The rows are well-formed and tell the truth about what the runner did.
RecordIsTrue == TypeOK /\ AcknowledgedIsApplied

\* The control messages of one lease reach the provider in the order in which
\* they were accepted: once a later one was applied, an earlier one never is.
SteersKeepOrder ==
    [][\A c \in Commands :
         /\ Kind[c] = "control_message" /\ effects'[c] > effects[c]
         => \A i, j \in DOMAIN outbox :
               /\ outbox[i] = c /\ i < j /\ Kind[outbox[j]] = "control_message"
               /\ version[outbox[j]] = version[c]
               => effects[outbox[j]] = 0]_vars

\* Every committed command is settled in the end, although messages and
\* acknowledgments get lost, the lease moves on and the run ends: none of them
\* blocks the commands behind it in a page, and the outbox drains again and again.
CommandsSettle == []<>(\A c \in Commands : status[c] # "pending")
=============================================================================
