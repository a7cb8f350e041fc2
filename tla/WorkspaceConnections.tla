------------------------ MODULE WorkspaceConnections ------------------------
(***************************************************************************)
(* One saved workspace connection: the row and the setup operations the    *)
(* store keeps for it, the server that delivers the operations to the      *)
(* runner and acknowledges its reports, and the runner's connection        *)
(* manager, whose registry file survives a restart while the native        *)
(* checks it has in flight do not.                                         *)
(*                                                                         *)
(* Every operation on the connection takes the next version of the row, so *)
(* an operation is named by the version it expects.  A snapshot of the     *)
(* runner's registry is identified by the commit it pins and by whether    *)
(* the agent answered with its models (snapshot_key): the repository, the  *)
(* agent and the account choices are fixed when the connection is created. *)
(***************************************************************************)
EXTENDS Naturals, Sequences, FiniteSets, FiniteSetsExt

CONSTANTS
    Commits,          \* the revisions the selected ref may point at
    None,
    Kinds,            \* bound: the kinds of operation people ask for, in turn
    Heads,            \* bound: where the ref may point while each one is checked
    MAX_OPERATIONS,   \* receipts the runner's registry may hold
    MaxQueue,         \* bound: messages between runner and server
    MaxFaults         \* bound: lost sockets, restarts, failed writes, repeats

MaxOps   == Len(Kinds)
Versions == 1 .. MaxOps

VARIABLES
    db,       \* the store: op (one row per version), conn, authorized
    run,      \* the run bound to the connection
    net,      \* the socket: up, cmds, inbox, reps; sent and told
              \* are the commands and receipts this socket has carried and
              \* need not carry again
    reg,      \* the runner's registry file
    flight,   \* the native checks in flight, forgotten by a restart
    world     \* expiry, faults, and the native logins that were started

vars == <<db, run, net, reg, flight, world>>

-----------------------------------------------------------------------------
(* Reports.  The wording of a report tells two failures apart, and the     *)
(* store compares whole reports.                                           *)

Reports ==
    [st : {"running", "needs_sign_in", "succeeded", "failed"},
     cs : {"connecting", "needs_sign_in", "ready", "failed"},
     src : Commits \cup {None},
     why : {"checking", "code", "browser", "expired", "unauthorized",
            "not_run", "not_saved", "superseded", "native"}]

\* What identifies a snapshot of the registry.
Snapshots == [src : Commits, ready : BOOLEAN]

ASSUME ConnectionAssumption ==
    /\ Kinds \in Seq(SUBSET {"connect", "test", "sign_in"}) /\ Kinds # <<>>
    /\ Heads \in [Versions -> SUBSET Commits]
    /\ MAX_OPERATIONS \in Nat \ {0} /\ MaxQueue \in Nat /\ MaxFaults \in Nat
    /\ None \notin Commits /\ None \notin BOOLEAN
    /\ None \notin Snapshots /\ None \notin Reports

Report(st, cs, src, why) == [st |-> st, cs |-> cs, src |-> src, why |-> why]

Running       == Report("running", "connecting", None, "checking")
Prompt        == Report("needs_sign_in", "needs_sign_in", None, "code")
Waiting       == Report("needs_sign_in", "needs_sign_in", None, "browser")
Failed(why)   == Report("failed", "failed", None, why)

\* Ready or in need of a sign-in the check succeeded; every other answer (not
\* installed, offline, incompatible) makes it a failure with a source.
readiness_report(readiness, src) ==
    Report(IF readiness = "failed" THEN "failed" ELSE "succeeded", readiness, src, "native")

Terminal(status) == status \in {"succeeded", "failed"}
IsReady(report)  == report.st = "succeeded" /\ report.cs = "ready"

-----------------------------------------------------------------------------
(* The store.                                                              *)

LastOp(d)     == Len(d.op)
Expired(o)    == o <= world.expired
OpActive(d, o) == ~Terminal(d.op[o].status)

\* A fault of the environment, or a message that is carried twice.
Fault == world.faults < MaxFaults /\ world' = [world EXCEPT !.faults = @ + 1]

fail_setup_tx(d, o, why) ==
    [d EXCEPT !.op[o].status = "failed", !.op[o].report = Failed(why),
              !.conn.status = IF o = LastOp(d) THEN "failed" ELSE @]

\* Only the newest operation can be active: begin_workspace_setup refuses
\* another one beside it.
expire_setup_tx(d) ==
    IF LastOp(d) > 0 /\ OpActive(d, LastOp(d)) /\ Expired(LastOp(d))
    THEN fail_setup_tx(d, LastOp(d), "expired") ELSE d

insert_operation_tx(d, kind) ==
    [d EXCEPT !.op = Append(@, [kind |-> kind, status |-> "queued", report |-> None]),
              !.conn.status = "connecting"]

CreateConnection ==
    /\ LastOp(db) = 0
    /\ db' = insert_operation_tx(db, "connect")
    /\ UNCHANGED <<run, net, reg, flight, world>>

begin_workspace_setup(kind) ==
    LET d == expire_setup_tx(db) IN
    /\ LastOp(db) \in 1 .. MaxOps - 1 /\ kind \in Kinds[LastOp(db) + 1]
    /\ db.authorized
    /\ kind = "sign_in" => run.st # "running"
    /\ ~OpActive(d, LastOp(d))
    /\ db' = insert_operation_tx(d, kind)
    /\ UNCHANGED <<run, net, reg, flight, world>>

\* The actor loses the role that authorized the setup, for good.
Revoke ==
    /\ db.authorized /\ Fault
    /\ db' = [db EXCEPT !.authorized = FALSE]
    /\ UNCHANGED <<run, net, reg, flight>>

pending_workspace_setup(d) ==
    IF LastOp(d) > 0 /\ OpActive(d, LastOp(d)) /\ ~d.authorized
    THEN fail_setup_tx(d, LastOp(d), "unauthorized") ELSE d

\* workspace_connections::dispatch, run after a begin, at registration and at
\* every heartbeat: whatever is still open is sent again.
dispatch ==
    /\ net.up
    /\ db' = pending_workspace_setup(expire_setup_tx(db))
    /\ LET open == {o \in 1 .. LastOp(db) : OpActive(db', o)} IN
       /\ db' # db \/ open \ net.cmds # {}
       /\ net' = [net EXCEPT !.cmds = @ \cup open, !.sent = @ \cup open]
       /\ IF open \cap net.sent = {} THEN UNCHANGED world ELSE Fault
    /\ UNCHANGED <<run, reg, flight>>

\* Readiness needs a finished check and a source, sign-in instructions an
\* operation that still lives.
validate_report(r, o) ==
    /\ r.cs = "ready" => r.st = "succeeded" /\ r.src # None
    /\ r.st = "needs_sign_in" => ~Expired(o)

\* The guards of apply_workspace_setup_report, in their order; a terminal
\* operation answers the same report again and refuses another one.
Accepts(d, o, r) ==
    /\ validate_report(r, o)
    /\ IF ~OpActive(d, o) THEN r = d.op[o].report
       ELSE /\ ~Expired(o)
            /\ r.st # "failed" => d.authorized
            /\ o = LastOp(d)

RecordReport(d, o, r) ==
    IF ~OpActive(d, o) THEN d
    ELSE [d EXCEPT !.op[o].status = r.st, !.op[o].report = r,
                   !.conn.status = r.cs,
                   !.conn.source = IF r.src = None THEN @ ELSE r.src]

Ack(o, accepted) == [o |-> o, accepted |-> accepted]

\* The server acknowledges a report it recorded as final, and one it refused.
WorkspaceSetupReport ==
    /\ net.up /\ net.reps # <<>>
    /\ LET m == Head(net.reps)
           ok == Accepts(db, m.o, m.r)
           d == RecordReport(db, m.o, m.r)
           answer == IF ~ok THEN <<Ack(m.o, FALSE)>>
                     ELSE IF OpActive(d, m.o) THEN <<>> ELSE <<Ack(m.o, TRUE)>>
       IN /\ Len(net.inbox) < MaxQueue
          /\ db' = IF ok THEN d ELSE db
          /\ net' = [net EXCEPT !.reps = Tail(@), !.inbox = @ \o answer]
    /\ UNCHANGED <<run, reg, flight, world>>

-----------------------------------------------------------------------------
(* The runner's registry.                                                  *)

NewOperation == [login |-> FALSE, report |-> None, candidate |-> None, ack |-> None]
Known(o)     == o \in DOMAIN reg.op
InFlight(o)  == flight[o].at # "none"
NoFlight     == [at |-> "none", src |-> None, recent |-> None]

\* The receipts a full registry may forget: expired, acknowledged, final, not
\* current, not in flight and without a snapshot that is still kept.
Evictable ==
    {o \in DOMAIN reg.op :
        /\ o # reg.current /\ ~InFlight(o) /\ Expired(o)
        /\ reg.op[o].ack # None /\ reg.op[o].report # None
        /\ reg.op[o].candidate \notin reg.snapshots}

HasRoom(o) == Known(o) \/ Cardinality(DOMAIN reg.op) < MAX_OPERATIONS \/ Evictable # {}

Kept == IF Cardinality(DOMAIN reg.op) < MAX_OPERATIONS THEN DOMAIN reg.op
        ELSE DOMAIN reg.op \ {Min(Evictable)}

begin_operation(o) ==
    [reg EXCEPT !.op = [p \in Kept \cup {o} |-> IF p = o THEN NewOperation ELSE reg.op[p]],
                !.current = o, !.active = None]

Admits(o) == ~Expired(o) /\ HasRoom(o) /\ (Known(o) \/ o >= reg.current)
Busy(o)   == reg.current \notin {0, o} /\ InFlight(reg.current)

Live(n, o, r) == [n EXCEPT !.reps = Append(@, [o |-> o, r |-> r])]
Room          == Len(net.reps) < MaxQueue

\* A report is bound to the socket of the moment and lost without one.
Tell(n, o, r) == IF net.up THEN Live(n, o, r) ELSE n

\* A delivered command: a kept receipt answers it, a flight adopts it; a
\* refusal, or an operation that cannot be written to the registry, is
\* reported as a failure that leaves no receipt.
execute(o) ==
    /\ net.up /\ Room /\ o \in net.cmds
    /\ LET n == [net EXCEPT !.cmds = @ \ {o}] IN
       \/ /\ Known(o) /\ reg.op[o].report # None
          /\ net' = Live(n, o, reg.op[o].report)
          /\ UNCHANGED <<reg, flight, world>>
       \/ /\ ~(Known(o) /\ reg.op[o].report # None)
          /\ \/ (Busy(o) \/ (~InFlight(o) /\ ~Admits(o))) /\ UNCHANGED world
             \/ ~Busy(o) /\ ~InFlight(o) /\ Admits(o) /\ Fault
          /\ net' = Live(n, o, Failed("not_run"))
          /\ UNCHANGED <<reg, flight>>
       \/ /\ ~(Known(o) /\ reg.op[o].report # None)
          /\ ~Busy(o) /\ InFlight(o)
          /\ net' = IF flight[o].recent = None THEN n ELSE Live(n, o, flight[o].recent)
          /\ UNCHANGED <<reg, flight, world>>
       \/ /\ ~(Known(o) /\ reg.op[o].report # None)
          /\ ~Busy(o) /\ ~InFlight(o) /\ Admits(o)
          /\ reg' = IF Known(o) THEN reg ELSE begin_operation(o)
          /\ flight' = [flight EXCEPT ![o] = [NoFlight EXCEPT !.at = "queued"]]
          /\ net' = n
          /\ UNCHANGED world
    /\ UNCHANGED <<db, run>>

\* finish: the receipt, and the snapshot it may bring, are written together;
\* a snapshot seen before keeps the decisions taken about it.
Receipt(o, r, key) ==
    [reg EXCEPT !.op[o].report = r, !.op[o].candidate = key,
                !.snapshots = IF key = None THEN @ ELSE @ \cup {key}]

finish(o, r, key) ==
    LET superseded == key # None /\ reg.current # o
        report == IF superseded THEN Failed("superseded") ELSE r
    IN /\ Room
       /\ \/ /\ reg' = Receipt(o, report, IF superseded THEN None ELSE key)
             /\ net' = Tell([net EXCEPT !.told = IF net.up THEN @ \cup {o} ELSE @], o, report)
             /\ UNCHANGED world
          \/ /\ Fault                             \* the file could not be written
             /\ net' = Tell(net, o, Failed("not_saved"))
             /\ UNCHANGED reg
       /\ flight' = [flight EXCEPT ![o] = NoFlight]
       /\ UNCHANGED <<db, run>>

\* One check of a connection at a time holds its gate.
HoldsGate(o) == \A p \in Versions \ {o} : flight[p].at \in {"none", "queued"}

\* What perform asks once it holds the gate.
perform(o)  == ~Expired(o) /\ reg.current = o
Prepared(c) == [at |-> "prepared", src |-> c, recent |-> Running]

\* perform up to the prepared source: the commit the ref points at now,
\* which others move.
prepare_source(o) ==
    /\ flight[o].at = "queued" /\ HoldsGate(o) /\ Room
    /\ IF perform(o)
       THEN /\ \E c \in Heads[o] : flight' = [flight EXCEPT ![o] = Prepared(c)]
            /\ net' = Tell(net, o, Running)
            /\ UNCHANGED <<db, run, reg, world>>
       ELSE finish(o, Failed("native"), None)

\* The repository, its account or its checkout is refused, or the login cannot
\* be claimed in the registry: no snapshot.
SourceRefused(o) ==
    /\ flight[o].at = "prepared"
    /\ finish(o, Failed("native"), None)

snapshot_key(src, ready) == [src |-> src, ready |-> ready]

\* The readiness check.  Its outcome does not depend on how often it is asked.
Observed(o) ==
    \E readiness \in {"ready", "needs_sign_in", "failed"} :
        finish(o, readiness_report(readiness, flight[o].src),
               snapshot_key(flight[o].src, readiness = "ready"))

KindOf(o) == db.op[o].kind

inspect_before(o) ==
    /\ flight[o].at = "prepared"
    /\ KindOf(o) = "sign_in" => reg.op[o].login
    /\ Observed(o)

\* Mutant: the login starts without being recorded first.
LoginUnclaimed(o) ==
    /\ flight[o].at = "prepared" /\ KindOf(o) = "sign_in" /\ ~reg.op[o].login /\ Room
    /\ flight' = [flight EXCEPT ![o].at = "prompt", ![o].recent = Prompt]
    /\ net' = Tell(net, o, Prompt)
    /\ world' = [world EXCEPT !.logins[o] = @ + 1]
    /\ UNCHANGED <<db, run, reg>>

\* The native login is claimed in the registry before the provider's process
\* starts; the process asks for the one-time code.
claim_login(o) ==
    /\ flight[o].at = "prepared" /\ KindOf(o) = "sign_in" /\ ~reg.op[o].login /\ Room
    /\ reg' = [reg EXCEPT !.op[o].login = TRUE]
    /\ flight' = [flight EXCEPT ![o].at = "prompt", ![o].recent = Prompt]
    /\ net' = Tell(net, o, Prompt)
    /\ world' = [world EXCEPT !.logins[o] = @ + 1]
    /\ UNCHANGED <<db, run>>

workspace_sign_in_operation(o) == o <= LastOp(db) /\ db.op[o].report = Prompt /\ ~Expired(o)
PromptWaits(o) == flight[o].at = "prompt" /\ reg.current = o /\ ~Expired(o)

\* A person pastes the code of the prompt the store shows; only the waiting
\* prompt of the current operation takes it, and takes it once.
submit_sign_in(o) ==
    /\ net.up /\ Room
    /\ workspace_sign_in_operation(o) /\ PromptWaits(o)
    /\ flight' = [flight EXCEPT ![o].at = "coded", ![o].recent = Waiting]
    /\ net' = Tell(net, o, Waiting)
    /\ UNCHANGED <<db, run, reg, world>>

\* The login ends by itself, with the code or at its deadline.
LoginEnds(o) ==
    /\ flight[o].at \in {"prompt", "coded"}
    /\ Observed(o)

\* Mutant: a late acknowledgement selects its source and provider as well.
AckSelectsLate(o, accepted) ==
    LET op == reg.op[o]
        grants == accepted /\ op.candidate # None
        key == op.candidate
    IN [reg EXCEPT
          !.op[o].ack = accepted,
          !.sourceAccepted = IF grants THEN @ \cup {key} ELSE @,
          !.accepted = IF grants /\ IsReady(op.report) THEN @ \cup {key} ELSE @,
          !.source = IF grants THEN key ELSE @,
          !.active = IF ~grants THEN @ ELSE IF IsReady(op.report) THEN key ELSE None]

\* The decision of the server reaches the receipt; only the current operation
\* may select the source and the provider.
acknowledge(o, accepted) ==
    LET op == reg.op[o]
        grants == accepted /\ op.candidate # None
        key == op.candidate
        selects == grants /\ reg.current = o
    IN [reg EXCEPT
          !.op[o].ack = accepted,
          !.sourceAccepted = IF grants THEN @ \cup {key} ELSE @,
          !.accepted = IF grants /\ IsReady(op.report) THEN @ \cup {key} ELSE @,
          !.source = IF selects THEN key ELSE @,
          !.active = IF ~selects THEN @ ELSE IF IsReady(op.report) THEN key ELSE None]

WorkspaceSetupAck ==
    /\ net.up /\ net.inbox # <<>>
    /\ LET m == Head(net.inbox)
           n == [net EXCEPT !.inbox = Tail(@)]
           refused == \/ ~Known(m.o)
                      \/ reg.op[m.o].report = None
                      \/ reg.op[m.o].ack \notin {None, m.accepted}
           new == ~refused /\ reg.op[m.o].ack = None
       IN \/ /\ net' = n
             /\ reg' = IF new THEN acknowledge(m.o, m.accepted) ELSE reg
             /\ UNCHANGED world
          \/ /\ new /\ Fault                      \* the file could not be written
             /\ net' = [n EXCEPT !.told = @ \ {m.o}]
             /\ UNCHANGED reg
    /\ UNCHANGED <<db, run, flight>>

\* resolve: a provider must be accepted now, and the run's own pin some time.
resolve(pin) ==
    /\ reg.active # None
    /\ \E key \in reg.accepted : key.src = pin

\* A run the store admits reaches the runner behind the acknowledgements sent
\* before it; one the runner cannot resolve fails and leaves nothing here.
Starts(pin) ==
    /\ net.up /\ net.inbox = <<>>
    /\ db.conn.status = "ready" /\ db.conn.source # None
    /\ resolve(pin)
    /\ run' = [st |-> "running", pin |-> pin]
    /\ UNCHANGED <<db, net, reg, flight, world>>

\* A fresh run is bound to today's revision, a resumed one keeps its own.
bind_new_run == run.st = "none" /\ Starts(db.conn.source)
resume_run   == run.st = "ended" /\ Starts(run.pin)

RunEnds ==
    /\ run.st = "running"
    /\ run' = [run EXCEPT !.st = "ended"]
    /\ UNCHANGED <<db, net, reg, flight, world>>

\* Every heartbeat repeats the receipts nobody has acknowledged.
pending_reports ==
    {o \in DOMAIN reg.op : reg.op[o].report # None /\ reg.op[o].ack = None}

\* Mutant: only a receipt whose operation is still open is repeated.
HeartbeatNewest(o) ==
    /\ net.up /\ Room /\ o \in pending_reports /\ o = LastOp(db) /\ OpActive(db, o)
    /\ net' = [Live(net, o, reg.op[o].report) EXCEPT !.told = @ \cup {o}]
    /\ IF o \in net.told THEN Fault ELSE UNCHANGED world
    /\ UNCHANGED <<db, run, reg, flight>>

Heartbeat(o) ==
    /\ net.up /\ Room /\ o \in pending_reports
    /\ net' = [Live(net, o, reg.op[o].report) EXCEPT !.told = @ \cup {o}]
    /\ IF o \in net.told THEN Fault ELSE UNCHANGED world
    /\ UNCHANGED <<db, run, reg, flight>>

\* What a restarted manager demands of the file it wrote.
validate_registry(r) ==
    /\ Cardinality(DOMAIN r.op) <= MAX_OPERATIONS
    /\ \A key \in r.snapshots :
         /\ key \in r.accepted =>
              \E o \in DOMAIN r.op : /\ r.op[o].ack = TRUE /\ r.op[o].candidate = key
                                     /\ IsReady(r.op[o].report) /\ r.op[o].report.src = key.src
         /\ key \in r.sourceAccepted =>
              \E o \in DOMAIN r.op : /\ r.op[o].ack = TRUE /\ r.op[o].candidate = key
                                     /\ r.op[o].report.src = key.src
    /\ r.active # None => r.active \in r.accepted
    /\ r.source # None => r.source \in r.sourceAccepted

-----------------------------------------------------------------------------
(* Faults and the passing of time.                                         *)

Cut == [net EXCEPT !.up = FALSE, !.cmds = {}, !.inbox = <<>>, !.reps = <<>>,
                  !.sent = {}, !.told = {}]

\* The socket drops: nothing in it is kept, but the checks go on.
Drop ==
    /\ net.up /\ Fault
    /\ net' = Cut
    /\ UNCHANGED <<db, run, reg, flight>>

\* The runner restarts: the registry is what it keeps.
Crash ==
    /\ Fault
    /\ net' = Cut
    /\ flight' = [o \in Versions |-> NoFlight]
    /\ run' = [run EXCEPT !.st = IF @ = "running" THEN "ended" ELSE @]
    /\ UNCHANGED <<db, reg>>

Register ==
    /\ ~net.up
    /\ net' = [net EXCEPT !.up = TRUE]
    /\ UNCHANGED <<db, run, reg, flight, world>>

Expire ==
    /\ world.expired < LastOp(db)
    /\ world' = [world EXCEPT !.expired = @ + 1]
    /\ UNCHANGED <<db, run, net, reg, flight>>

-----------------------------------------------------------------------------
Init ==
    /\ db = [op |-> <<>>, conn |-> [status |-> "connecting", source |-> None], authorized |-> TRUE]
    /\ run = [st |-> "none", pin |-> None]
    /\ net = [up |-> TRUE, cmds |-> {}, inbox |-> <<>>, reps |-> <<>>, sent |-> {}, told |-> {}]
    /\ reg = [op |-> <<>>, current |-> 0, active |-> None, source |-> None,
              snapshots |-> {}, accepted |-> {}, sourceAccepted |-> {}]
    /\ flight = [o \in Versions |-> NoFlight]
    /\ world = [expired |-> 0, faults |-> 0,
                logins |-> [o \in Versions |-> 0]]

ServerStep == WorkspaceSetupReport \/ dispatch

FlightStep(o) ==
    \/ prepare_source(o) \/ SourceRefused(o) \/ inspect_before(o)
    \/ claim_login(o) \/ LoginEnds(o)

RunnerStep ==
    \/ Register \/ WorkspaceSetupAck
    \/ \E o \in Versions : Heartbeat(o) \/ execute(o) \/ FlightStep(o)

Next ==
    \/ CreateConnection \/ Revoke \/ bind_new_run \/ resume_run \/ RunEnds
    \/ \E kind \in {"test", "sign_in"} : begin_workspace_setup(kind)
    \/ \E o \in Versions : submit_sign_in(o)
    \/ ServerStep \/ RunnerStep
    \/ Drop \/ Crash \/ Expire

Spec == Init /\ [][Next]_vars

(* The server and the runner keep working, the runner reconnects, and time *)
(* passes; nobody is obliged to begin a check, to sign in or to start a    *)
(* run.                                                                    *)
Work == Expire \/ RunnerStep \/ ServerStep

FairSpec == Spec /\ WF_vars(Work)

-----------------------------------------------------------------------------
(* Properties.                                                             *)

\* Source, run, registry and queues have the values of their vocabularies.
TypeOK ==
    /\ db.conn.source \in Commits \cup {None}
    /\ run.st \in {"none", "running", "ended"}
    /\ reg.current \in 0 .. MaxOps
    /\ reg.accepted \subseteq reg.snapshots /\ reg.sourceAccepted \subseteq reg.snapshots
    /\ Len(net.reps) <= MaxQueue /\ Len(net.inbox) <= MaxQueue

\* The registry the runner writes is one it would load: no order of late
\* acknowledgements, refreshed snapshots and forgotten receipts leaves an
\* accepted source without the receipt validate_registry asks for, which
\* would take every saved connection away at the next restart.
RegistryLoads == validate_registry(reg)

\* A sign-in operation starts the provider's login once, however
\* often its command is delivered and however often the runner restarts between
\* the claim, the login and the receipt (claim_login).
NativeLoginOnce == \A o \in Versions : world.logins[o] <= 1

\* The provider the runner would start is the one the store calls ready: when
\* both speak of the newest operation they mean the same source, and an older
\* operation's late answer selects nothing on either side.
SidesAgree ==
    /\ db.conn.status = "ready" =>
         /\ IsReady(db.op[LastOp(db)].report)
         /\ db.conn.source = db.op[LastOp(db)].report.src
    /\ reg.active # None =>
         /\ reg.op[reg.current].ack = TRUE /\ reg.op[reg.current].candidate = reg.active
         /\ (reg.current = LastOp(db) /\ db.conn.status = "ready") => reg.active.src = db.conn.source

\* A run that once started keeps an accepted snapshot of its own revision:
\* refreshing, failing or signing in again never takes the pin a resume needs.
PinsSurvive ==
    run.st \in {"running", "ended"} => \E key \in reg.accepted : key.src = run.pin

\* Every operation ends in the store, and every receipt of the runner is
\* acknowledged or forgotten, whatever was lost, repeated, refused or expired.
Settled == pending_reports = {} /\ \A o \in 1 .. LastOp(db) : ~OpActive(db, o)
SetupSettles == []<>Settled

\* A connection the store calls ready is selected by the runner, unless it is
\* checked again.
ReadyReachesRunner ==
    db.conn.status = "ready" ~>
        (db.conn.status # "ready" \/ (reg.current = LastOp(db) /\ reg.active # None))

\* The runner's registry would load after a restart, keeps the pins of the
\* runs it started, and agrees with the store on the provider it would start.
RegistryIsSound == TypeOK /\ RegistryLoads /\ PinsSurvive /\ SidesAgree

\* Setup comes to rest on both sides: operations end, receipts are settled, and
\* a ready connection is selected by the runner.
ConnectionSettles == SetupSettles /\ ReadyReachesRunner
=============================================================================
