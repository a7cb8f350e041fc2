-------------------------- MODULE RunnerConnection --------------------------
(***************************************************************************)
(* The connection of one runner to the server: registration with a         *)
(* rotating credential, connection epochs, the in-memory map of live       *)
(* sockets, reconciliation of the runs the runner claims, the grace period *)
(* after a disconnect, revocation and server restarts.                     *)
(*                                                                         *)
(* The store keys every row by runner, so one runner is modelled.  The     *)
(* server handles a socket sequentially but several sockets, timers and    *)
(* spawned tasks interleave at every await; each action below is what      *)
(* happens between two awaits.  UUIDs (epochs, tokens) are fresh when no   *)
(* part of the system remembers them any more, which keeps the state       *)
(* finite without bounding the number of connections.                      *)
(*                                                                         *)
(* Left out: capabilities, runs of a factory recovery (which survive a     *)
(* reconnect without a claim), and the content of run events: a run here   *)
(* sends one event, and may be withdrawn by the server before that.        *)
(***************************************************************************)
EXTENDS Naturals, Sequences, FiniteSets, SequencesExt

CONSTANTS
    Epochs,      \* connection epochs (UUIDs)
    Tokens,      \* credential and enrollment tokens
    Runs,        \* runs the scheduler may create for this runner
    NoEpoch, NoToken,
    MaxFaults    \* bound on crashes, broken sockets, failing transactions,
                 \* expired credentials and revocations

ASSUME ConnectionConstants ==
    /\ IsFiniteSet(Epochs) /\ Epochs # {}
    /\ IsFiniteSet(Tokens) /\ Tokens # {}
    /\ NoEpoch \notin Epochs /\ NoToken \notin Tokens
    /\ MaxFaults \in Nat

VARIABLES
    node,         \* runner_nodes: status and connection_epoch
    credential,   \* runner_credentials: token_hash, and whether it still counts
    enrollment,   \* runner_enrollment_tokens: the unused token
    run,          \* runs: status, and created_at > runner_nodes.connected_at
    entry,        \* AppState.runners: epoch and dispatch_ready
    handler,      \* runner_socket of each socket: where it is, next credential
    final,        \* the spawned finalization of a registration
    graceTimers,  \* epochs for which a task sleeps until the grace expires
    lapsed,       \* epochs whose disconnect or expiry transaction failed
    pass,         \* schedule_ready_tasks, per run: selected epoch and progress
    revoking,     \* revoke_runner has committed, the map is not yet updated
    link,         \* the epoch of the socket the runner reads, or NoEpoch
    bus,          \* OutboundBus: the epoch it is attached to, or NoEpoch
    credFile, enrollFile,  \* the runner's credential and enrollment files
    held,         \* the runner's active_runs
    stopped,      \* held runs whose adapter got a Stop control
    reported,     \* held runs whose terminal event was sent
    buffer,       \* OutboundBus.pending: terminal events not yet handed over
    up, down,     \* messages of each socket, in order
    faults

storeVars == <<node, credential, enrollment, run>>
serverVars == <<entry, handler, final, graceTimers, lapsed, pass, revoking>>
runnerVars == <<link, bus, credFile, enrollFile, held, stopped, reported, buffer>>
wireVars == <<up, down>>
vars == <<storeVars, serverVars, runnerVars, wireVars, faults>>

Message == [kind : {"register", "ended", "registered", "rejected",
                    "start", "stop", "disconnect"},
            token : Tokens \cup {NoToken},
            runs : SUBSET Runs]

Msg(kind, token, rs) == [kind |-> kind, token |-> token, runs |-> rs]
Ended(r) == Msg("ended", NoToken, {r})
Disconnect == Msg("disconnect", NoToken, {})

NoEntry == [epoch |-> NoEpoch, ready |-> FALSE]
IdleHandler == [phase |-> "idle", token |-> NoToken]
NoFinal == [phase |-> "none", kept |-> {}]
NoPass == [stage |-> "idle", epoch |-> NoEpoch]

Init ==
    /\ node = [status |-> "none", epoch |-> NoEpoch]
    /\ credential = [token |-> NoToken, state |-> "none"]
    /\ \E t \in Tokens : enrollment = t /\ enrollFile = t
    /\ run = [r \in Runs |-> [status |-> "none", newer |-> FALSE]]
    /\ entry = NoEntry
    /\ handler = [e \in Epochs |-> IdleHandler]
    /\ final = [e \in Epochs |-> NoFinal]
    /\ graceTimers = {} /\ lapsed = {}
    /\ pass = [r \in Runs |-> NoPass]
    /\ revoking = FALSE
    /\ link = NoEpoch /\ bus = NoEpoch
    /\ credFile = NoToken
    /\ held = {} /\ stopped = {} /\ reported = {} /\ buffer = <<>>
    /\ up = [e \in Epochs |-> <<>>] /\ down = [e \in Epochs |-> <<>>]
    /\ faults = 0

-----------------------------------------------------------------------------
(***************************************************************************)
(* Fresh identifiers, and what reaches the other end of a socket.          *)
(***************************************************************************)
FreshEpoch(e) ==
    /\ e \notin {link, bus, node.epoch, entry.epoch}
    /\ e \notin graceTimers
    /\ handler[e].phase = "idle" /\ final[e].phase \in {"none", "done"}
    /\ \A r \in Runs : pass[r].epoch # e

InFlight(t) ==
    \E e \in Epochs : \/ handler[e].token = t
                      \/ \E i \in DOMAIN up[e] : up[e][i].token = t
                      \/ \E i \in DOMAIN down[e] : down[e][i].token = t

FreshToken(t) ==
    t \notin {credential.token, enrollment, credFile, enrollFile} /\ ~InFlight(t)

\* command_tx.send: what is sent to a socket the runner has left is lost.
Sent(channels, e, ms) ==
    IF e = link THEN [channels EXCEPT ![e] = @ \o ms] ELSE channels

Connected(e) == node = [status |-> "connected", epoch |-> e]

\* mark_runner_runs_lost_tx for the active runs in the set.
MarkLost(rs) ==
    run' = [r \in Runs |-> IF r \in rs /\ run[r].status = "active"
                           THEN [run[r] EXCEPT !.status = "lost"] ELSE run[r]]

AnotherFault == faults < MaxFaults /\ faults' = faults + 1

-----------------------------------------------------------------------------
(***************************************************************************)
(* The runner process.                                                     *)
(***************************************************************************)

\* load_runner_credential: the credential file wins over the enrollment file.
PresentedToken == IF credFile # NoToken THEN credFile ELSE enrollFile

\* run_connection up to outbound.attach: a new epoch, Register with the claims,
\* then the buffered events rebound to the new epoch.
Connect(e) ==
    /\ link = NoEpoch /\ FreshEpoch(e) /\ PresentedToken # NoToken
    /\ link' = e /\ bus' = e
    /\ up' = [up EXCEPT ![e] = <<Msg("register", PresentedToken, held)>>
                               \o [i \in DOMAIN buffer |-> Ended(buffer[i])]]
    /\ buffer' = <<>>
    /\ handler' = [handler EXCEPT ![e].phase = "reading"]
    /\ final' = [final EXCEPT ![e] = NoFinal]
    /\ lapsed' = lapsed \ {e}
    /\ UNCHANGED <<storeVars, entry, graceTimers, pass, revoking, credFile,
                   enrollFile, held, stopped, reported, down, faults>>

\* Registered: persist the rotated credential, delete the enrollment file.
ReceiveRegistered(e) ==
    /\ link = e /\ down[e] # <<>> /\ Head(down[e]).kind = "registered"
    /\ credFile' = Head(down[e]).token /\ enrollFile' = NoToken
    /\ down' = [down EXCEPT ![e] = Tail(@)]
    /\ UNCHANGED <<storeVars, serverVars, link, bus, held, stopped, reported, buffer,
                   up, faults>>

\* The server holds the Register message at the head of the socket.
MidRegistration(e) == handler[e].phase \in {"authenticated", "stored", "inserted"}

\* The events among the messages, as OutboundBus.pending keeps them: all but the
\* Register at the head.
EventsOf(ms) ==
    LET events == IF ms # <<>> /\ Head(ms).kind = "register" THEN Tail(ms) ELSE ms
    IN  [i \in DOMAIN events |-> CHOOSE r \in events[i].runs : TRUE]

\* The read loop ends.  What the writer had sent reaches the server, what it had
\* not sent yet is lost with it, and events since it failed are in the buffer.
LeaveSocket(e, newBus, newBuffer) ==
    /\ link' = NoEpoch /\ bus' = newBus
    /\ \E n \in (IF MidRegistration(e) THEN 1 ELSE 0)..Len(up[e]) :
       \E m \in n..Len(up[e]) :
          /\ up' = [up EXCEPT ![e] = SubSeq(@, 1, n)]
          /\ buffer' = newBuffer \o EventsOf(SubSeq(up[e], m + 1, Len(up[e])))
    /\ down' = [down EXCEPT ![e] = <<>>]

\* RegistrationRejected returns from run_connection without outbound.detach.
ReceiveRejected(e) ==
    /\ link = e /\ down[e] # <<>> /\ Head(down[e]).kind = "rejected"
    /\ LeaveSocket(e, bus, buffer)
    /\ UNCHANGED <<storeVars, serverVars, credFile, enrollFile, held, stopped,
                   reported, faults>>

ReceiveDisconnect(e) ==
    /\ link = e /\ down[e] # <<>> /\ Head(down[e]).kind = "disconnect"
    /\ LeaveSocket(e, NoEpoch, buffer)
    /\ UNCHANGED <<storeVars, serverVars, credFile, enrollFile, held, stopped,
                   reported, faults>>

\* StartRun: a run that is already held is a duplicate.
ReceiveStart(e) ==
    /\ link = e /\ down[e] # <<>> /\ Head(down[e]).kind = "start"
    /\ held' = held \cup Head(down[e]).runs
    /\ down' = [down EXCEPT ![e] = Tail(@)]
    /\ UNCHANGED <<storeVars, serverVars, link, bus, credFile, enrollFile,
                   stopped, reported, buffer, up, faults>>

\* StopRun: the adapter of a held run gets a Stop control.
ReceiveStop(e) ==
    /\ link = e /\ down[e] # <<>> /\ Head(down[e]).kind = "stop"
    /\ stopped' = stopped \cup (Head(down[e]).runs \cap held)
    /\ down' = [down EXCEPT ![e] = Tail(@)]
    /\ UNCHANGED <<storeVars, serverVars, link, bus, credFile, enrollFile, held,
                   reported, buffer, up, faults>>

\* OutboundBus.send: to the attached connection, or to the buffer.  A bus that
\* was never detached accepts events until its writer notices the closed socket.
SendEvent(r) ==
    \/ /\ bus # NoEpoch /\ bus = link
       /\ up' = [up EXCEPT ![bus] = Append(@, Ended(r))]
       /\ UNCHANGED buffer
    \/ /\ bus # link \/ bus = NoEpoch
       /\ buffer' = Append(buffer, r)
       /\ UNCHANGED up
    \/ /\ bus # NoEpoch /\ bus # link
       /\ UNCHANGED <<buffer, up>>

\* The supervised process has ended: its terminal event is sent, and the run stays
\* in active_runs while its worktree is finalized ...
RunEnds(r) ==
    /\ r \in held \ reported
    /\ reported' = reported \cup {r}
    /\ SendEvent(r)
    /\ UNCHANGED <<storeVars, serverVars, link, bus, credFile, enrollFile, held,
                   stopped, down, faults>>

\* ... and only then is it removed.
RunRemoved(r) ==
    /\ r \in reported
    /\ held' = held \ {r} /\ stopped' = stopped \ {r} /\ reported' = reported \ {r}
    /\ UNCHANGED <<storeVars, serverVars, link, bus, credFile, enrollFile, buffer,
                   wireVars, faults>>

SocketBreaks ==
    /\ link # NoEpoch /\ AnotherFault
    /\ LeaveSocket(link, NoEpoch, buffer)
    /\ UNCHANGED <<storeVars, serverVars, credFile, enrollFile, held, stopped,
                   reported>>

\* The runner process dies: only its files survive.
RunnerCrashes ==
    /\ AnotherFault
    /\ held' = {} /\ stopped' = {} /\ reported' = {}
    /\ bus' = NoEpoch /\ buffer' = <<>>
    /\ IF link = NoEpoch THEN UNCHANGED <<link, up, down>>
       ELSE /\ link' = NoEpoch /\ down' = [down EXCEPT ![link] = <<>>]
            /\ \E n \in (IF MidRegistration(link) THEN 1 ELSE 0)..Len(up[link]) :
                  up' = [up EXCEPT ![link] = SubSeq(@, 1, n)]
    /\ UNCHANGED <<storeVars, serverVars, credFile, enrollFile>>

-----------------------------------------------------------------------------
(***************************************************************************)
(* Registration on the server: five steps of runner_socket.                *)
(***************************************************************************)
Registering(e) ==
    /\ handler[e].phase = "reading"
    /\ up[e] # <<>> /\ Head(up[e]).kind = "register"

CredentialMatches(t) == credential.state = "valid" /\ credential.token = t

\* authenticate_and_rotate_runner: the presented token is spent.
Authenticate(e) ==
    /\ Registering(e)
    /\ LET t == Head(up[e]).token IN
       /\ CredentialMatches(t) \/ enrollment = t
       /\ enrollment' = IF CredentialMatches(t) THEN enrollment ELSE NoToken
       /\ \E next \in Tokens :
            /\ FreshToken(next)
            /\ credential' = [token |-> next, state |-> "valid"]
            /\ handler' = [handler EXCEPT
                             ![e] = [phase |-> "authenticated", token |-> next]]
    /\ UNCHANGED <<node, run, entry, final, graceTimers, lapsed, pass, revoking,
                   runnerVars, wireVars, faults>>

\* The token is unknown, spent, expired or revoked, or the transaction fails.
Reject(e) ==
    /\ Registering(e)
    /\ IF CredentialMatches(Head(up[e]).token) \/ enrollment = Head(up[e]).token
       THEN AnotherFault ELSE UNCHANGED faults
    /\ handler' = [handler EXCEPT ![e] = IdleHandler]
    /\ up' = [up EXCEPT ![e] = <<>>]
    /\ down' = Sent(down, e, <<Msg("rejected", NoToken, {})>>)
    /\ UNCHANGED <<storeVars, entry, final, graceTimers, lapsed, pass, revoking,
                   runnerVars>>

\* runner_connected: unconditional; every existing run is now older than
\* connected_at.
RunnerConnected(e) ==
    /\ handler[e].phase = "authenticated"
    /\ node' = [status |-> "connected", epoch |-> e]
    /\ run' = [r \in Runs |-> [run[r] EXCEPT !.newer = FALSE]]
    /\ handler' = [handler EXCEPT ![e].phase = "stored"]
    /\ UNCHANGED <<credential, enrollment, entry, final, graceTimers, lapsed, pass,
                   revoking, runnerVars, wireVars, faults>>

\* runner_connected fails: the socket stays open without a registration.
RunnerConnectedFails(e) ==
    /\ handler[e].phase = "authenticated" /\ AnotherFault
    /\ handler' = [handler EXCEPT ![e] = [IdleHandler EXCEPT !.phase = "unregistered"]]
    /\ up' = [up EXCEPT ![e] = Tail(@)]
    /\ UNCHANGED <<storeVars, entry, final, graceTimers, lapsed, pass, revoking,
                   runnerVars, down>>

\* The map entry replaces the previous one, and Registered is sent.
InsertEntry(e) ==
    /\ handler[e].phase = "stored"
    /\ entry' = [epoch |-> e, ready |-> FALSE]
    /\ LET told == IF entry.epoch \notin {e, NoEpoch}
                   THEN Sent(down, entry.epoch, <<Disconnect>>) ELSE down
       IN down' = Sent(told, e, <<Msg("registered", handler[e].token, {})>>)
    /\ handler' = [handler EXCEPT ![e] = [IdleHandler EXCEPT !.phase = "inserted"]]
    /\ UNCHANGED <<storeVars, final, graceTimers, lapsed, pass, revoking, runnerVars,
                   up, faults>>

AcceptedAll(claims) == claims

\* reconcile_runner_claims: a claim is kept if its run is still active.  (A run
\* keeps one assignment token for life, so the tokens of real claims match.)
Accepted(claims) == {r \in claims : run[r].status = "active"}

Reconcile(e) ==
    /\ handler[e].phase = "inserted"
    /\ LET claims == Head(up[e]).runs
           stale == claims \ Accepted(claims)
       IN \/ /\ Connected(e)
             /\ final' = [final EXCEPT ![e] = [phase |-> "waiting",
                                               kept |-> Accepted(claims)]]
             /\ down' = Sent(down, e, IF stale = {} THEN <<>>
                                      ELSE <<Msg("stop", NoToken, stale)>>)
             /\ UNCHANGED faults
          \/ /\ IF Connected(e) THEN AnotherFault ELSE UNCHANGED faults
             /\ down' = Sent(down, e, <<Disconnect>>)
             /\ UNCHANGED final
    /\ up' = [up EXCEPT ![e] = Tail(@)]
    /\ handler' = [handler EXCEPT ![e].phase = "served"]
    /\ UNCHANGED <<storeVars, entry, graceTimers, lapsed, pass, revoking, runnerVars>>

MarkNone(e) ==
    /\ final[e].phase = "waiting"
    /\ final' = [final EXCEPT ![e].phase = "marked"]
    /\ UNCHANGED <<storeVars, entry, handler, graceTimers, lapsed, pass, revoking,
                   runnerVars, wireVars, faults>>

\* A second later: mark_unclaimed_runner_runs_lost, if the epoch still counts.
MarkUnclaimed(e) ==
    /\ final[e].phase = "waiting"
    /\ IF Connected(e)
       THEN MarkLost({r \in Runs : ~run[r].newer /\ r \notin final[e].kept})
       ELSE UNCHANGED run
    /\ final' = [final EXCEPT ![e].phase = "marked"]
    /\ UNCHANGED <<node, credential, enrollment, entry, handler, graceTimers,
                   lapsed, pass, revoking, runnerVars, wireVars, faults>>

MarkUnclaimedFails(e) ==
    /\ final[e].phase = "waiting" /\ AnotherFault
    /\ final' = [final EXCEPT ![e].phase = "done"]
    /\ down' = Sent(down, e, <<Disconnect>>)
    /\ UNCHANGED <<storeVars, entry, handler, graceTimers, lapsed, pass, revoking,
                   runnerVars, up>>

EnableAny(e) ==
    /\ final[e].phase = "marked"
    /\ entry' = [entry EXCEPT !.ready = entry.epoch # NoEpoch]
    /\ final' = [final EXCEPT ![e].phase = "done"]
    /\ UNCHANGED <<storeVars, handler, graceTimers, lapsed, pass, revoking, runnerVars,
                   wireVars, faults>>

\* enable_runner_dispatch: only the epoch in the map becomes ready.
EnableDispatch(e) ==
    /\ final[e].phase = "marked"
    /\ IF entry.epoch = e
       THEN /\ entry' = [entry EXCEPT !.ready = TRUE]
            /\ final' = [final EXCEPT ![e].phase = "done"]
       ELSE final' = [final EXCEPT ![e] = NoFinal] /\ UNCHANGED entry
    /\ UNCHANGED <<storeVars, handler, graceTimers, lapsed, pass, revoking, runnerVars,
                   wireVars, faults>>

-----------------------------------------------------------------------------
(***************************************************************************)
(* A registered socket, until it ends.                                     *)
(***************************************************************************)

\* RunEvent: only from the socket the map names; a run that is no longer
\* active refuses the event.
HandleEvent(e) ==
    /\ handler[e].phase \in {"served", "unregistered"}
    /\ up[e] # <<>>
    /\ LET r == CHOOSE x \in Head(up[e]).runs : TRUE IN
       IF /\ handler[e].phase = "served" /\ entry.epoch = e
          /\ run[r].status = "active"
       THEN run' = [run EXCEPT ![r].status = "closed"]
       ELSE UNCHANGED run
    /\ up' = [up EXCEPT ![e] = Tail(@)]
    /\ UNCHANGED <<node, credential, enrollment, serverVars, runnerVars, down,
                   faults>>

\* The server ends a run the runner works on, and tells it nothing that stops it:
\* its approval expired (expire_action_approval queues a rejected decision, no
\* StopRun), or the artifact it uploads is rejected (run.failed in its name).
WithdrawRun(r) ==
    /\ r \in held /\ run[r].status = "active"
    /\ run' = [run EXCEPT ![r].status = "withdrawn"]
    /\ UNCHANGED <<node, credential, enrollment, serverVars, runnerVars, wireVars,
                   faults>>

\* Heartbeat with runner_heartbeat = false.
HeartbeatRejected(e) ==
    /\ handler[e].phase = "served" /\ link = e
    /\ ~Connected(e) /\ entry.epoch = e
    /\ entry' = NoEntry
    /\ down' = Sent(down, e, <<Disconnect>>)
    /\ UNCHANGED <<storeVars, handler, final, graceTimers, lapsed, pass, revoking,
                   runnerVars, up, faults>>

\* The task that asks for a reconnect a minute before the credential expires,
\* long after the one-second finalization of the registration.
RotateCredential(e) ==
    /\ handler[e].phase = "served" /\ link = e
    /\ final[e].phase \notin {"waiting", "marked"}
    /\ \A i \in DOMAIN down[e] : down[e][i].kind # "disconnect"
    /\ down' = Sent(down, e, <<Disconnect>>)
    /\ UNCHANGED <<storeVars, serverVars, runnerVars, up, faults>>

\* The read loop of runner_socket ends: forget the map entry if it is ours.
SocketEnds(e) ==
    /\ link # e /\ up[e] = <<>>
    /\ handler[e].phase \in {"reading", "unregistered", "served"}
    /\ IF handler[e].phase = "served"
       THEN /\ entry' = IF entry.epoch = e THEN NoEntry ELSE entry
            /\ handler' = [handler EXCEPT ![e].phase = "closing"]
       ELSE /\ handler' = [handler EXCEPT ![e] = IdleHandler]
            /\ UNCHANGED entry
    /\ UNCHANGED <<storeVars, final, graceTimers, lapsed, pass, revoking, runnerVars,
                   wireVars, faults>>

\* runner_disconnected, then a task that sleeps for the grace period.
RunnerDisconnected(e) ==
    /\ handler[e].phase = "closing"
    /\ node' = IF Connected(e) THEN [node EXCEPT !.status = "grace"] ELSE node
    /\ graceTimers' = graceTimers \cup {e}
    /\ handler' = [handler EXCEPT ![e] = IdleHandler]
    /\ UNCHANGED <<credential, enrollment, run, entry, final, lapsed, pass, revoking,
                   runnerVars, wireVars, faults>>

\* runner_disconnected fails: only a warning, and a timer that will find the row
\* connected.
RunnerDisconnectedFails(e) ==
    /\ handler[e].phase = "closing" /\ AnotherFault
    /\ lapsed' = lapsed \cup {e}
    /\ graceTimers' = graceTimers \cup {e}
    /\ handler' = [handler EXCEPT ![e] = IdleHandler]
    /\ UNCHANGED <<storeVars, entry, final, pass, revoking, runnerVars, wireVars>>

\* expire_runner_grace.  The grace period outlasts the gap between two
\* consecutive awaits of a scheduling pass.
GraceExpires(e) ==
    /\ e \in graceTimers /\ \A r \in Runs : pass[r].stage # "selected"
    /\ graceTimers' = graceTimers \ {e}
    /\ IF node = [status |-> "grace", epoch |-> e]
       THEN /\ node' = [node EXCEPT !.status = "offline"]
            /\ MarkLost(Runs)
       ELSE UNCHANGED <<node, run>>
    /\ UNCHANGED <<credential, enrollment, entry, handler, final, lapsed, pass,
                   revoking, runnerVars, wireVars, faults>>

\* expire_runner_grace fails: only a warning.
GraceExpiryFails(e) ==
    /\ e \in graceTimers /\ AnotherFault
    /\ graceTimers' = graceTimers \ {e} /\ lapsed' = lapsed \cup {e}
    /\ UNCHANGED <<storeVars, entry, handler, final, pass, revoking, runnerVars,
                   wireVars>>

-----------------------------------------------------------------------------
(***************************************************************************)
(* The scheduler's use of the connection.                                  *)
(***************************************************************************)
SelectRunner(r) ==
    /\ pass[r].stage = "idle" /\ run[r].status = "none" /\ entry.ready
    /\ pass' = [pass EXCEPT ![r] = [stage |-> "selected", epoch |-> entry.epoch]]
    /\ UNCHANGED <<storeVars, entry, handler, final, graceTimers, lapsed, revoking,
                   runnerVars, wireVars, faults>>

CreateTaskRun(r) ==
    /\ pass[r].stage = "selected"
    /\ pass' = [pass EXCEPT ![r].stage = "created"]
    /\ run' = [run EXCEPT ![r] = [status |-> "active", newer |-> TRUE]]
    /\ UNCHANGED <<node, credential, enrollment, entry, handler, final,
                   graceTimers, lapsed, revoking, runnerVars, wireVars, faults>>

\* send_command_to_current_runner: the selected epoch must still be the ready one.
SendStart(r) ==
    /\ pass[r].stage = "created"
    /\ entry = [epoch |-> pass[r].epoch, ready |-> TRUE]
    /\ down' = Sent(down, entry.epoch, <<Msg("start", NoToken, {r})>>)
    /\ pass' = [pass EXCEPT ![r] = NoPass]
    /\ UNCHANGED <<storeVars, entry, handler, final, graceTimers, lapsed, revoking,
                   runnerVars, up, faults>>

\* The connection has changed, or the prompt or its secrets cannot be prepared:
\* fail_run_before_dispatch, and a failure of that transaction is ignored.
StartFails(r) ==
    /\ pass[r].stage = "created"
    /\ pass' = [pass EXCEPT ![r] = NoPass]
    /\ \/ /\ run' = [run EXCEPT ![r].status = IF @ = "active" THEN "closed" ELSE @]
          /\ UNCHANGED faults
       \/ AnotherFault /\ UNCHANGED run
    /\ UNCHANGED <<node, credential, enrollment, entry, handler, final,
                   graceTimers, lapsed, revoking, runnerVars, wireVars>>

-----------------------------------------------------------------------------
(***************************************************************************)
(* Operators and crashes of the server.                                    *)
(***************************************************************************)

\* revoke_runner commits ...
RevokeRunner ==
    /\ AnotherFault
    /\ credential.state \in {"valid", "expired"} /\ ~revoking
    /\ credential' = [credential EXCEPT !.state = "revoked"]
    /\ MarkLost(Runs)
    /\ node' = IF node.status = "none" THEN node
               ELSE [node EXCEPT !.status = "offline"]
    /\ revoking' = TRUE
    /\ UNCHANGED <<enrollment, entry, handler, final, graceTimers, lapsed, pass,
                   runnerVars, wireVars>>

\* ... and only then forgets the live connection.
ForgetRevoked ==
    /\ revoking /\ revoking' = FALSE
    /\ entry' = NoEntry
    /\ down' = IF entry.epoch = NoEpoch THEN down
               ELSE Sent(down, entry.epoch, <<Disconnect>>)
    /\ UNCHANGED <<storeVars, handler, final, graceTimers, lapsed, pass, runnerVars, up,
                   faults>>

\* create_runner_enrollment, and the operator installs the token on a machine
\* whose runner cannot authenticate; no registration of it is in progress.
ReEnroll ==
    /\ link = NoEpoch
    /\ \A e \in Epochs : handler[e].phase # "reading" /\ ~MidRegistration(e)
    /\ ~CredentialMatches(PresentedToken) /\ enrollment # PresentedToken
    /\ \E t \in Tokens : FreshToken(t) /\ enrollment' = t /\ enrollFile' = t
    /\ credFile' = NoToken
    /\ UNCHANGED <<node, credential, run, serverVars, link, bus, held, stopped,
                   reported, buffer, wireVars, faults>>

\* The credential of a runner that stayed away expires.
CredentialExpires ==
    /\ AnotherFault
    /\ link = NoEpoch /\ credential.state = "valid"
    /\ credential' = [credential EXCEPT !.state = "expired"]
    /\ UNCHANGED <<node, enrollment, run, serverVars, runnerVars, wireVars>>

NoStartupRecovery == graceTimers' = {} /\ UNCHANGED node

\* runner_records_requiring_recovery: connected rows enter grace, and every row
\* in grace gets a timer again.
StartupRecovery ==
    /\ node' = IF node.status = "connected" THEN [node EXCEPT !.status = "grace"]
               ELSE node
    /\ graceTimers' = IF node.status \in {"connected", "grace"} THEN {node.epoch}
                      ELSE {}

\* The server process dies and starts again: its sockets, map, tasks and
\* scheduling passes are gone.
ServerRestarts ==
    /\ AnotherFault
    /\ StartupRecovery
    /\ entry' = NoEntry /\ revoking' = FALSE /\ lapsed' = {}
    /\ handler' = [e \in Epochs |-> IdleHandler]
    /\ final' = [e \in Epochs |-> NoFinal]
    /\ pass' = [r \in Runs |-> NoPass]
    /\ up' = [e \in Epochs |-> <<>>] /\ down' = [e \in Epochs |-> <<>>]
    /\ link' = NoEpoch /\ bus' = NoEpoch
    /\ UNCHANGED <<credential, enrollment, run, credFile, enrollFile, held,
                   stopped, reported, buffer>>

-----------------------------------------------------------------------------
RunnerStep(e) ==
    \/ Connect(e) \/ ReceiveRegistered(e) \/ ReceiveRejected(e)
    \/ ReceiveDisconnect(e) \/ ReceiveStart(e) \/ ReceiveStop(e)

HandlerStep(e) ==
    \/ Authenticate(e) \/ Reject(e) \/ RunnerConnected(e) \/ InsertEntry(e)
    \/ Reconcile(e) \/ HandleEvent(e) \/ HeartbeatRejected(e)
    \/ SocketEnds(e) \/ RunnerDisconnected(e)

TaskStep(e) == MarkUnclaimed(e) \/ EnableDispatch(e) \/ GraceExpires(e)

PassStep(r) == CreateTaskRun(r) \/ SendStart(r) \/ StartFails(r)

Next ==
    \/ \E e \in Epochs :
         \/ RunnerStep(e) \/ HandlerStep(e) \/ TaskStep(e) \/ RotateCredential(e)
         \/ RunnerConnectedFails(e) \/ MarkUnclaimedFails(e)
         \/ RunnerDisconnectedFails(e) \/ GraceExpiryFails(e)
    \/ \E r \in Runs : \/ RunEnds(r) \/ RunRemoved(r) \/ WithdrawRun(r)
                    \/ SelectRunner(r) \/ PassStep(r)
    \/ SocketBreaks \/ RunnerCrashes \/ ServerRestarts
    \/ RevokeRunner \/ ForgetRevoked \/ ReEnroll \/ CredentialExpires

Spec == Init /\ [][Next]_vars

\* The reconnect loop, the tokio tasks, the timers and the supervised processes
\* all make progress; nothing is assumed of operators, faults, withdrawals and the
\* scheduler's choice to start a run.
Fairness ==
    /\ \A e \in Epochs : /\ WF_vars(RunnerStep(e)) /\ WF_vars(HandlerStep(e))
                         /\ WF_vars(TaskStep(e)) /\ WF_vars(RotateCredential(e))
    /\ \A r \in Runs : /\ WF_vars(RunEnds(r)) /\ WF_vars(RunRemoved(r))
                       /\ WF_vars(PassStep(r))
    /\ WF_vars(ForgetRevoked)

FairSpec == Spec /\ Fairness

-----------------------------------------------------------------------------
(***************************************************************************)
(* Properties.                                                             *)
(***************************************************************************)

\* Rows, map entry, tasks, files and messages have the values of their
\* vocabularies.
TypeOK ==
    /\ node \in [status : {"none", "connected", "grace", "offline"},
                 epoch : Epochs \cup {NoEpoch}]
    /\ credential \in [token : Tokens \cup {NoToken},
                       state : {"none", "valid", "expired", "revoked"}]
    /\ {enrollment, credFile, enrollFile} \subseteq Tokens \cup {NoToken}
    /\ run \in [Runs -> [status : {"none", "active", "lost", "closed", "withdrawn"},
                         newer : BOOLEAN]]
    /\ entry \in [epoch : Epochs \cup {NoEpoch}, ready : BOOLEAN]
    /\ handler \in [Epochs ->
          [phase : {"idle", "reading", "authenticated", "stored", "inserted",
                    "served", "unregistered", "closing"},
           token : Tokens \cup {NoToken}]]
    /\ final \in [Epochs -> [phase : {"none", "waiting", "marked", "done"},
                             kept : SUBSET Runs]]
    /\ graceTimers \subseteq Epochs /\ lapsed \subseteq Epochs
    /\ pass \in [Runs -> [stage : {"idle", "selected", "created"},
                          epoch : Epochs \cup {NoEpoch}]]
    /\ revoking \in BOOLEAN
    /\ {link, bus} \subseteq Epochs \cup {NoEpoch}
    /\ held \subseteq Runs /\ stopped \subseteq held /\ reported \subseteq held
    /\ buffer \in Seq(Runs)
    /\ \A e \in Epochs : up[e] \in Seq(Message) /\ down[e] \in Seq(Message)
    /\ faults \in 0..MaxFaults

\* Somebody is bound to take a row out of `connected` and out of `grace`: a
\* connected row has a socket handler that will call runner_disconnected, and a
\* row in grace has a task sleeping for it, whatever crashed in between.  The
\* exception is a row whose own transaction failed; a server restart repairs it.
RowIsWatched ==
    \/ node.epoch \in lapsed
    \/ /\ node.status = "connected" =>
            handler[node.epoch].phase \in {"stored", "inserted", "served", "closing"}
       /\ node.status = "grace" => node.epoch \in graceTimers

\* Once the server dispatches to a connection, every active run that is older
\* than the connection was claimed by the runner and accepted: whatever the
\* runner forgot has been marked lost before.
ReadyMeansReconciled ==
    entry.ready /\ Connected(entry.epoch) =>
        \A r \in Runs : run[r].status = "active" =>
                           run[r].newer \/ r \in final[entry.epoch].kept

\* No zombie connection: a runner whose registration completed and whose row is
\* connected is the one in the map, so that its events are accepted and it is
\* sent commands, or it has been told to reconnect.  Registrations, revocations,
\* rejected heartbeats and ending sockets change the store and the map at
\* different moments.
ServedRunnerIsReachable ==
    \A e \in Epochs :
        handler[e].phase = "served" /\ Connected(e) /\ link = e
        => entry.epoch = e \/ Disconnect \in Range(down[e])

\* "Unknown or stale claims receive a stop command": once a connection is
\* reconciled, a run that the runner still works on and the server has given up,
\* before this connection or for want of a claim, is stopped or on its way to a
\* stop.  What the server ends under this very connection is told apart: by the
\* run's own terminal event, while the runner finalizes its worktree, or by a
\* withdrawal of a run that the connection accepted or that it started itself.
StaleWorkIsStopped ==
    \A e \in Epochs, r \in Runs :
        /\ handler[e].phase = "served" /\ link = e /\ Connected(e)
        /\ final[e].phase \in {"marked", "done"}
        /\ r \in held /\ run[r].status # "active"
        => \/ r \in stopped
           \/ \E i \in DOMAIN down[e] :
                 \/ down[e][i].kind = "stop" /\ r \in down[e][i].runs
                 \/ down[e][i].kind = "disconnect"
           \/ run[r].status = "closed" /\ r \in reported
           \/ run[r].status = "withdrawn" /\ (run[r].newer \/ r \in final[e].kept)

\* Every run ends, although a start command, a terminal event or a credential gets
\* lost, a transaction fails or a process crashes: by its own event, by the dispatch
\* failure, by reconciliation or by the end of the grace period.  (A withdrawal ends
\* it too, and is never bound to happen.)  A pass that
\* selected the runner before a revocation may create its run after it; nothing
\* then watches the runner, so the revocation of the runner is the one way out.
EveryRunEnds ==
    \A r \in Runs : run[r].status = "active" ~>
                      run[r].status # "active" \/ credential.state = "revoked"

\* What the server dispatches to is a reconciled connection, and the connection
\* a runner is served on is the one the server dispatches to.
DispatchIsSound == TypeOK /\ ReadyMeansReconciled /\ ServedRunnerIsReachable
=============================================================================
