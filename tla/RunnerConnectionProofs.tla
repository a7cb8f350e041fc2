----------------------- MODULE RunnerConnectionProofs -----------------------
(***************************************************************************)
(* Proofs about RunnerConnection, for any number of epochs, tokens, runs   *)
(* and faults, with and without revocations.                               *)
(***************************************************************************)
EXTENDS RunnerConnection, TLAPS

Phase == {"idle", "reading", "authenticated", "stored", "inserted",
          "served", "unregistered", "closing"}
HandlerRow == [phase : Phase, token : Tokens \cup {NoToken}]
NodeRow == [status : {"none", "connected", "grace", "offline"},
            epoch : Epochs \cup {NoEpoch}]

\* A handler in one of these phases still has runner_disconnected ahead of it.
Watching == {"stored", "inserted", "served", "closing"}

\* The inductive invariant: RowIsWatched, with the types it needs and the fact
\* that a row that counts has an epoch.
WatchInv ==
    /\ node \in NodeRow
    /\ handler \in [Epochs -> HandlerRow]
    /\ graceTimers \subseteq Epochs
    /\ node.status \in {"connected", "grace"} => node.epoch \in Epochs
    /\ \/ node.epoch \in lapsed
       \/ /\ node.status = "connected" => handler[node.epoch].phase \in Watching
          /\ node.status = "grace" => node.epoch \in graceTimers

\* No row is connected or in grace at the start.
LEMMA InitWatch == Init => WatchInv
BY DEF Init, WatchInv, NodeRow, HandlerRow, Phase, IdleHandler

\* The inductive invariant contains the property.
LEMMA WatchImplies == WatchInv => RowIsWatched
BY DEF WatchInv, RowIsWatched, Watching

\* A step that touches neither the row nor the handlers nor the timers.
LEMMA NothingWatched ==
    ASSUME WatchInv, UNCHANGED <<node, handler, graceTimers, lapsed>>
    PROVE  WatchInv'
BY DEF WatchInv

\* A handler moves on without leaving the watching phases, or it was not the
\* one that watches the row.
LEMMA HandlerMoves ==
    ASSUME WatchInv, NEW e \in Epochs, NEW h \in HandlerRow,
           handler' = [handler EXCEPT ![e] = h],
           UNCHANGED <<node, graceTimers, lapsed>>,
           \/ h.phase \in Watching
           \/ node.epoch # e
           \/ handler[e].phase \notin Watching
    PROVE  WatchInv'
<1>1. handler' \in [Epochs -> HandlerRow]
      BY DEF WatchInv
<1>2. ASSUME node.status = "connected", node.epoch \notin lapsed
      PROVE  handler'[node.epoch].phase \in Watching
      BY <1>2 DEF WatchInv
<1>3. QED
      BY <1>1, <1>2 DEF WatchInv

\* A handler that changes its phase alone leaves the row watched, unless it
\* held the row and stops watching it.
LEMMA PhaseMoves ==
    ASSUME WatchInv, NEW e \in Epochs, NEW p \in Phase,
           handler' = [handler EXCEPT ![e].phase = p],
           UNCHANGED <<node, graceTimers, lapsed>>,
           \/ p \in Watching
           \/ node.epoch # e
           \/ handler[e].phase \notin Watching
    PROVE  WatchInv'
<1> DEFINE h == [handler[e] EXCEPT !.phase = p]
<1>1. handler[e] \in HandlerRow
      BY DEF WatchInv
<1>2. h \in HandlerRow /\ h.phase = p
      BY <1>1 DEF HandlerRow
<1>3. handler' = [handler EXCEPT ![e] = h]
      BY DEF WatchInv
<1> HIDE DEF h
<1>4. QED
      BY <1>2, <1>3, HandlerMoves

\* A socket nobody opened has an idle handler.
LEMMA IdleIsRow == IdleHandler \in HandlerRow /\ IdleHandler.phase = "idle"
BY DEF IdleHandler, HandlerRow, Phase

\* What the runner does touches neither rows nor timers.
LEMMA RunnerStepWatched ==
    ASSUME WatchInv, NEW e \in Epochs, RunnerStep(e)
    PROVE  WatchInv'
<1>1. CASE Connect(e)
  <2>1. node.epoch # e /\ handler' = [handler EXCEPT ![e].phase = "reading"]
        BY <1>1 DEF Connect, FreshEpoch
  <2>2. UNCHANGED <<node, graceTimers>> /\ lapsed' = lapsed \ {e}
        BY <1>1 DEF Connect, storeVars
  <2>3. handler' \in [Epochs -> HandlerRow]
        BY <2>1 DEF WatchInv, HandlerRow, Phase
  <2>4. ASSUME node.status = "connected", node.epoch \notin lapsed
        PROVE  handler'[node.epoch].phase \in Watching
        BY <2>1, <2>4 DEF WatchInv
  <2>5. QED
        BY <2>1, <2>2, <2>3, <2>4 DEF WatchInv
<1>2. CASE ~Connect(e)
  <2>1. UNCHANGED <<storeVars, serverVars>>
        BY <1>2 DEF RunnerStep, ReceiveRegistered, ReceiveRejected,
                    ReceiveDisconnect, ReceiveStart, ReceiveStop
  <2>2. QED
        BY <2>1, NothingWatched DEF storeVars, serverVars
<1>3. QED
      BY <1>1, <1>2

\* Registration binds the row to the new epoch in one step with the phase
\* that watches it.
LEMMA RegistrationWatched ==
    ASSUME WatchInv, NEW e \in Epochs,
           \/ Authenticate(e) \/ Reject(e) \/ RunnerConnected(e)
           \/ RunnerConnectedFails(e) \/ InsertEntry(e) \/ Reconcile(e)
    PROVE  WatchInv'
<1>1. CASE Authenticate(e)
  <2>1. PICK next \in Tokens :
           handler' = [handler EXCEPT ![e] = [phase |-> "authenticated", token |-> next]]
        BY <1>1 DEF Authenticate
  <2>2. [phase |-> "authenticated", token |-> next] \in HandlerRow
        BY DEF HandlerRow, Phase
  <2>3. handler[e].phase \notin Watching /\ UNCHANGED <<node, graceTimers, lapsed>>
        BY <1>1 DEF Authenticate, Registering, Watching
  <2>4. QED
        BY <2>1, <2>2, <2>3, HandlerMoves
<1>2. CASE Reject(e)
  <2>1. handler' = [handler EXCEPT ![e] = IdleHandler]
        BY <1>2 DEF Reject
  <2>2. handler[e].phase \notin Watching /\ UNCHANGED <<node, graceTimers, lapsed>>
        BY <1>2 DEF Reject, Registering, Watching, storeVars
  <2>3. QED
        BY <2>1, <2>2, IdleIsRow, HandlerMoves
<1>3. CASE RunnerConnected(e)
  <2>1. /\ node' = [status |-> "connected", epoch |-> e]
        /\ UNCHANGED <<graceTimers, lapsed>>
        BY <1>3 DEF RunnerConnected
  <2>2. handler' = [handler EXCEPT ![e].phase = "stored"]
        BY <1>3 DEF RunnerConnected
  <2>3. node' \in NodeRow
        BY <2>1 DEF NodeRow
  <2>4. handler' \in [Epochs -> HandlerRow]
        BY <2>2 DEF WatchInv, HandlerRow, Phase
  <2>5. handler'[e].phase \in Watching
        BY <2>2 DEF WatchInv, HandlerRow, Watching
  <2>6. QED
        BY <2>1, <2>3, <2>4, <2>5 DEF WatchInv
<1>4. CASE RunnerConnectedFails(e)
  <2> DEFINE h == [IdleHandler EXCEPT !.phase = "unregistered"]
  <2>1. handler' = [handler EXCEPT ![e] = h]
        BY <1>4 DEF RunnerConnectedFails
  <2>2. h \in HandlerRow
        BY DEF IdleHandler, HandlerRow, Phase
  <2>3. handler[e].phase \notin Watching /\ UNCHANGED <<node, graceTimers, lapsed>>
        BY <1>4 DEF RunnerConnectedFails, Watching, storeVars
  <2> HIDE DEF h
  <2>4. QED
        BY <2>1, <2>2, <2>3, HandlerMoves
<1>5. CASE InsertEntry(e)
  <2> DEFINE h == [IdleHandler EXCEPT !.phase = "inserted"]
  <2>1. handler' = [handler EXCEPT ![e] = h] /\ UNCHANGED <<node, graceTimers, lapsed>>
        BY <1>5 DEF InsertEntry, storeVars
  <2>2. h \in HandlerRow /\ h.phase \in Watching
        BY DEF IdleHandler, HandlerRow, Phase, Watching
  <2> HIDE DEF h
  <2>3. QED
        BY <2>1, <2>2, HandlerMoves
<1>6. CASE Reconcile(e)
  <2>1. /\ handler' = [handler EXCEPT ![e].phase = "served"]
        /\ UNCHANGED <<node, graceTimers, lapsed>>
        BY <1>6 DEF Reconcile, storeVars
  <2>2. QED
        BY <2>1, PhaseMoves DEF Phase, Watching
<1>7. QED
      BY <1>1, <1>2, <1>3, <1>4, <1>5, <1>6

\* A handler whose socket ends goes on to disconnect the row it holds.
LEMMA SocketEndsWatched ==
    ASSUME WatchInv, NEW e \in Epochs, SocketEnds(e)
    PROVE  WatchInv'
<1>1. UNCHANGED <<node, graceTimers, lapsed>>
      BY DEF SocketEnds, storeVars
<1>2. CASE handler[e].phase = "served"
  <2>1. handler' = [handler EXCEPT ![e].phase = "closing"]
        BY <1>2 DEF SocketEnds
  <2>2. QED
        BY <1>1, <2>1, PhaseMoves DEF Phase, Watching
<1>3. CASE handler[e].phase # "served"
  <2>1. /\ handler' = [handler EXCEPT ![e] = IdleHandler]
        /\ handler[e].phase \notin Watching
        BY <1>3 DEF SocketEnds, Watching
  <2>2. QED
        BY <1>1, <2>1, IdleIsRow, HandlerMoves
<1>4. QED
      BY <1>2, <1>3

\* runner_disconnected leaves the watch to the timer it starts.
LEMMA DisconnectedWatched ==
    ASSUME WatchInv, NEW e \in Epochs, RunnerDisconnected(e)
    PROVE  WatchInv'
<1>1. /\ graceTimers' = graceTimers \cup {e} /\ lapsed' = lapsed
      /\ handler' = [handler EXCEPT ![e] = IdleHandler]
      BY DEF RunnerDisconnected
<1>2. handler' \in [Epochs -> HandlerRow]
      BY <1>1, IdleIsRow DEF WatchInv
<1>3. CASE Connected(e)
  <2>1. node' = [node EXCEPT !.status = "grace"]
        BY <1>3 DEF RunnerDisconnected
  <2>2. node' \in NodeRow /\ node'.status = "grace" /\ node'.epoch = e
        BY <1>3, <2>1 DEF Connected, WatchInv, NodeRow
  <2>3. QED
        BY <1>1, <1>2, <2>2 DEF WatchInv
<1>4. CASE ~Connected(e)
  <2>1. node' = node
        BY <1>4 DEF RunnerDisconnected
  <2>2. node.status = "connected" => node.epoch # e
        BY <1>4 DEF Connected, WatchInv, NodeRow
  <2>3. ASSUME node.status = "connected", node.epoch \notin lapsed
        PROVE  handler'[node.epoch].phase \in Watching
        BY <1>1, <2>2, <2>3 DEF WatchInv
  <2>4. QED
        BY <1>1, <1>2, <2>1, <2>3 DEF WatchInv
<1>5. QED
      BY <1>3, <1>4

\* A failed transaction is the one exception.
LEMMA FailuresWatched ==
    ASSUME WatchInv, NEW e \in Epochs,
           RunnerDisconnectedFails(e) \/ GraceExpiryFails(e)
    PROVE  WatchInv'
<1>1. CASE RunnerDisconnectedFails(e)
  <2>1. /\ node' = node /\ lapsed' = lapsed \cup {e}
        /\ graceTimers' = graceTimers \cup {e}
        /\ handler' = [handler EXCEPT ![e] = IdleHandler]
        BY <1>1 DEF RunnerDisconnectedFails, storeVars
  <2>2. handler' \in [Epochs -> HandlerRow]
        BY <2>1, IdleIsRow DEF WatchInv
  <2>3. ASSUME node.epoch \notin lapsed', node.status = "connected"
        PROVE  handler'[node.epoch].phase \in Watching
        BY <2>1, <2>3 DEF WatchInv
  <2>4. QED
        BY <2>1, <2>2, <2>3 DEF WatchInv
<1>2. CASE GraceExpiryFails(e)
      BY <1>2 DEF GraceExpiryFails, WatchInv, storeVars
<1>3. QED
      BY <1>1, <1>2

\* A grace timer leaves the row only once it settled it or another epoch has
\* it.
LEMMA GraceWatched ==
    ASSUME WatchInv, NEW e \in Epochs, GraceExpires(e)
    PROVE  WatchInv'
<1>1. handler' = handler /\ lapsed' = lapsed /\ graceTimers' = graceTimers \ {e}
      BY DEF GraceExpires
<1>2. CASE node = [status |-> "grace", epoch |-> e]
  <2>1. node' = [node EXCEPT !.status = "offline"]
        BY <1>2 DEF GraceExpires
  <2>2. node' \in NodeRow /\ node'.status = "offline"
        BY <2>1 DEF WatchInv, NodeRow
  <2>3. QED
        BY <1>1, <2>2 DEF WatchInv
<1>3. CASE node # [status |-> "grace", epoch |-> e]
  <2>1. node' = node
        BY <1>3 DEF GraceExpires
  <2>2. node.status = "grace" => node.epoch # e
        BY <1>3 DEF WatchInv, NodeRow
  <2>3. QED
        BY <1>1, <2>1, <2>2 DEF WatchInv
<1>4. QED
      BY <1>2, <1>3

\* After a restart no handler is left: every connected row is in grace, with a
\* timer again.
LEMMA RestartWatched ==
    ASSUME WatchInv, ServerRestarts
    PROVE  WatchInv'
<1>1. handler' = [e \in Epochs |-> IdleHandler]
      BY DEF ServerRestarts
<1>2. handler' \in [Epochs -> HandlerRow]
      BY <1>1, IdleIsRow
<1>3. CASE node.status = "connected"
  <2>1. node' = [node EXCEPT !.status = "grace"] /\ graceTimers' = {node.epoch}
        BY <1>3 DEF ServerRestarts, StartupRecovery
  <2>2. node' \in NodeRow /\ node'.status = "grace" /\ node'.epoch = node.epoch
        BY <2>1 DEF WatchInv, NodeRow
  <2>3. QED
        BY <1>2, <1>3, <2>1, <2>2 DEF WatchInv
<1>4. CASE node.status = "grace"
      BY <1>2, <1>4 DEF ServerRestarts, StartupRecovery, WatchInv
<1>5. CASE node.status \notin {"connected", "grace"}
      BY <1>2, <1>5 DEF ServerRestarts, StartupRecovery, WatchInv
<1>6. QED
      BY <1>3, <1>4, <1>5

\* A revoked row needs no watcher.
LEMMA RevokeWatched ==
    ASSUME WatchInv, RevokeRunner
    PROVE  WatchInv'
<1>1. UNCHANGED <<handler, graceTimers, lapsed>>
      BY DEF RevokeRunner
<1>2. CASE node.status = "none"
      BY <1>1, <1>2 DEF RevokeRunner, WatchInv
<1>3. CASE node.status # "none"
  <2>1. node' = [node EXCEPT !.status = "offline"]
        BY <1>3 DEF RevokeRunner
  <2>2. node' \in NodeRow /\ node'.status = "offline"
        BY <2>1 DEF WatchInv, NodeRow
  <2>3. QED
        BY <1>1, <2>2 DEF WatchInv
<1>4. QED
      BY <1>2, <1>3

\* Every step keeps each connected or disconnected row watched.
LEMMA StepWatched == WatchInv /\ [Next]_vars => WatchInv'
<1> SUFFICES ASSUME WatchInv, [Next]_vars
             PROVE  WatchInv'
    OBVIOUS
<1>1. ASSUME NEW e \in Epochs, RunnerStep(e) PROVE WatchInv'
      BY <1>1, RunnerStepWatched
<1>2. ASSUME NEW e \in Epochs, HandlerStep(e) \/ RunnerConnectedFails(e)
      PROVE  WatchInv'
  <2>1. CASE \/ Authenticate(e) \/ Reject(e) \/ RunnerConnected(e)
             \/ RunnerConnectedFails(e) \/ InsertEntry(e) \/ Reconcile(e)
        BY <2>1, RegistrationWatched
  <2>2. CASE HandleEvent(e) \/ HeartbeatRejected(e)
        BY <2>2, NothingWatched DEF HandleEvent, HeartbeatRejected, storeVars, serverVars
  <2>3. CASE SocketEnds(e)
        BY <2>3, SocketEndsWatched
  <2>4. CASE RunnerDisconnected(e)
        BY <2>4, DisconnectedWatched
  <2>5. QED
        BY <1>2, <2>1, <2>2, <2>3, <2>4 DEF HandlerStep
<1>3. ASSUME NEW e \in Epochs,
             \/ TaskStep(e) \/ RotateCredential(e) \/ MarkUnclaimedFails(e)
             \/ RunnerDisconnectedFails(e) \/ GraceExpiryFails(e)
      PROVE  WatchInv'
  <2>1. CASE GraceExpires(e)
        BY <2>1, GraceWatched
  <2>2. CASE MarkUnclaimed(e) \/ EnableDispatch(e) \/ RotateCredential(e)
             \/ MarkUnclaimedFails(e)
        BY <2>2, NothingWatched
        DEF MarkUnclaimed, EnableDispatch, RotateCredential, MarkUnclaimedFails,
            storeVars, serverVars
  <2>3. CASE RunnerDisconnectedFails(e) \/ GraceExpiryFails(e)
        BY <2>3, FailuresWatched
  <2>4. QED
        BY <1>3, <2>1, <2>2, <2>3 DEF TaskStep
<1>4. ASSUME NEW r \in Runs,
             RunEnds(r) \/ RunRemoved(r) \/ WithdrawRun(r) \/ SelectRunner(r) \/ PassStep(r)
      PROVE  WatchInv'
      BY <1>4, NothingWatched
      DEF RunEnds, RunRemoved, WithdrawRun, SelectRunner, PassStep, CreateTaskRun, SendStart,
          StartFails, storeVars, serverVars
<1>5. CASE SocketBreaks \/ RunnerCrashes \/ ForgetRevoked \/ ReEnroll \/ CredentialExpires
      BY <1>5, NothingWatched
      DEF SocketBreaks, RunnerCrashes, ForgetRevoked, ReEnroll, CredentialExpires,
          storeVars, serverVars
<1>6. CASE ServerRestarts
      BY <1>6, RestartWatched
<1>7. CASE RevokeRunner
      BY <1>7, RevokeWatched
<1>8. CASE UNCHANGED vars
      BY <1>8, NothingWatched DEF vars, storeVars, serverVars
<1>9. QED
      BY <1>1, <1>2, <1>3, <1>4, <1>5, <1>6, <1>7, <1>8 DEF Next

\* Whatever crashes, fails or races: a connected row has a socket handler that
\* will report the disconnect, and a row in grace has a timer, unless the very
\* transaction that moves the row on failed.
THEOREM RowsStayWatched == Spec => []RowIsWatched
BY InitWatch, StepWatched, WatchImplies, PTL DEF Spec

-----------------------------------------------------------------------------
(***************************************************************************)
(* Dispatch, reconciliation and stale work.  The types come first, in the  *)
(* four groups of variables, with what makes a socket's messages typed: a  *)
(* Register is at the head or nowhere, and it is there while its handler   *)
(* works on it.                                                            *)
(***************************************************************************)
RunRow == [status : {"none", "active", "lost", "closed", "withdrawn"}, newer : BOOLEAN]
CredentialRow == [token : Tokens \cup {NoToken},
                  state : {"none", "valid", "expired", "revoked"}]
StoreOK ==
    /\ node \in NodeRow /\ credential \in CredentialRow
    /\ enrollment \in Tokens \cup {NoToken}
    /\ run \in [Runs -> RunRow]

Entry == [epoch : Epochs \cup {NoEpoch}, ready : BOOLEAN]
FinalRow == [phase : {"none", "waiting", "marked", "done"}, kept : SUBSET Runs]
PassRow == [stage : {"idle", "selected", "created"}, epoch : Epochs \cup {NoEpoch}]
ServerOK ==
    /\ entry \in Entry /\ handler \in [Epochs -> HandlerRow]
    /\ final \in [Epochs -> FinalRow] /\ pass \in [Runs -> PassRow]
    /\ graceTimers \subseteq Epochs /\ lapsed \subseteq Epochs
    /\ revoking \in BOOLEAN

RunnerOK ==
    /\ link \in Epochs \cup {NoEpoch} /\ bus \in Epochs \cup {NoEpoch}
    /\ credFile \in Tokens \cup {NoToken} /\ enrollFile \in Tokens \cup {NoToken}
    /\ held \subseteq Runs /\ stopped \subseteq held /\ reported \subseteq held
    /\ buffer \in Seq(Runs)

\* An event names its run.
EventShaped(m) == m.kind = "ended" /\ \E r \in Runs : m.runs = {r}
UpShaped(ms) ==
    /\ ms \in Seq(Message)
    /\ \A i \in 1..Len(ms) : EventShaped(ms[i]) \/ (i = 1 /\ ms[i].kind = "register")

WireOK ==
    /\ up \in [Epochs -> Seq(Message)] /\ down \in [Epochs -> Seq(Message)]
    /\ \A e \in Epochs : /\ UpShaped(up[e])
                         /\ MidRegistration(e) => up[e] # <<>>

TypeInv == StoreOK /\ ServerOK /\ RunnerOK /\ WireOK /\ faults \in 0..MaxFaults

\* The typing used by the proofs contains the one the run checks.
LEMMA TypeInvImplies == TypeInv => TypeOK
<1> SUFFICES ASSUME TypeInv PROVE TypeOK
    OBVIOUS
<1>1. /\ {enrollment, credFile, enrollFile} \subseteq Tokens \cup {NoToken}
      /\ {link, bus} \subseteq Epochs \cup {NoEpoch}
      BY DEF TypeInv, StoreOK, RunnerOK
<1>2. node \in [status : {"none", "connected", "grace", "offline"},
                epoch : Epochs \cup {NoEpoch}]
      BY DEF TypeInv, StoreOK, NodeRow
<1>3. credential \in [token : Tokens \cup {NoToken},
                       state : {"none", "valid", "expired", "revoked"}]
      BY DEF TypeInv, StoreOK, CredentialRow
<1>4. run \in [Runs -> [status : {"none", "active", "lost", "closed", "withdrawn"},
                        newer : BOOLEAN]]
      BY DEF TypeInv, StoreOK, RunRow
<1>5. /\ entry \in [epoch : Epochs \cup {NoEpoch}, ready : BOOLEAN]
      /\ final \in [Epochs -> [phase : {"none", "waiting", "marked", "done"},
                               kept : SUBSET Runs]]
      /\ pass \in [Runs -> [stage : {"idle", "selected", "created"},
                            epoch : Epochs \cup {NoEpoch}]]
      BY DEF TypeInv, ServerOK, Entry, FinalRow, PassRow
<1>6. handler \in [Epochs ->
          [phase : {"idle", "reading", "authenticated", "stored", "inserted",
                    "served", "unregistered", "closing"},
           token : Tokens \cup {NoToken}]]
      BY DEF TypeInv, ServerOK, HandlerRow, Phase
<1>7. \A e \in Epochs : up[e] \in Seq(Message) /\ down[e] \in Seq(Message)
      BY DEF TypeInv, WireOK
<1>8. QED
      BY <1>1, <1>2, <1>3, <1>4, <1>5, <1>6, <1>7
      DEF TypeInv, ServerOK, RunnerOK, TypeOK

-----------------------------------------------------------------------------
(***************************************************************************)
(* Who writes which group of variables.                                    *)
(***************************************************************************)
LEMMA StoreWriters ==
    ASSUME [Next]_vars
    PROVE  \/ UNCHANGED storeVars
           \/ \E e \in Epochs :
                \/ Authenticate(e) \/ RunnerConnected(e) \/ MarkUnclaimed(e)
                \/ HandleEvent(e) \/ RunnerDisconnected(e) \/ GraceExpires(e)
           \/ \E r \in Runs : CreateTaskRun(r) \/ StartFails(r) \/ WithdrawRun(r)
           \/ RevokeRunner \/ ReEnroll \/ CredentialExpires \/ ServerRestarts
<1>1. ASSUME NEW e \in Epochs,
             \/ RunnerStep(e) \/ Reject(e) \/ InsertEntry(e) \/ Reconcile(e)
             \/ HeartbeatRejected(e) \/ SocketEnds(e) \/ EnableDispatch(e)
      PROVE  UNCHANGED storeVars
      BY <1>1 DEF RunnerStep, Connect, ReceiveRegistered, ReceiveRejected,
            ReceiveDisconnect, ReceiveStart, ReceiveStop, Reject, InsertEntry, Reconcile,
            HeartbeatRejected, SocketEnds, EnableDispatch
<1>2. ASSUME NEW e \in Epochs,
             \/ RotateCredential(e) \/ RunnerConnectedFails(e) \/ MarkUnclaimedFails(e)
             \/ RunnerDisconnectedFails(e) \/ GraceExpiryFails(e)
      PROVE  UNCHANGED storeVars
      BY <1>2 DEF RotateCredential, RunnerConnectedFails, MarkUnclaimedFails,
            RunnerDisconnectedFails, GraceExpiryFails
<1>3. ASSUME NEW r \in Runs, RunEnds(r) \/ RunRemoved(r) \/ SelectRunner(r) \/ SendStart(r)
      PROVE  UNCHANGED storeVars
      BY <1>3 DEF RunEnds, RunRemoved, SelectRunner, SendStart
<1>4. CASE SocketBreaks \/ RunnerCrashes \/ ForgetRevoked \/ UNCHANGED vars
      BY <1>4 DEF SocketBreaks, RunnerCrashes, ForgetRevoked, vars
<1>5. QED
      BY <1>1, <1>2, <1>3, <1>4 DEF Next, HandlerStep, TaskStep, PassStep

\* Which steps change the state of the server.
LEMMA ServerWriters ==
    ASSUME [Next]_vars
    PROVE  \/ UNCHANGED serverVars
           \/ \E e \in Epochs :
                \/ Connect(e) \/ Authenticate(e) \/ Reject(e) \/ RunnerConnected(e)
                \/ RunnerConnectedFails(e) \/ InsertEntry(e) \/ Reconcile(e)
                \/ MarkUnclaimed(e) \/ MarkUnclaimedFails(e) \/ EnableDispatch(e)
                \/ HeartbeatRejected(e) \/ SocketEnds(e) \/ RunnerDisconnected(e)
                \/ RunnerDisconnectedFails(e) \/ GraceExpires(e) \/ GraceExpiryFails(e)
           \/ \E r \in Runs : SelectRunner(r) \/ PassStep(r)
           \/ RevokeRunner \/ ForgetRevoked \/ ServerRestarts
<1>1. ASSUME NEW e \in Epochs,
             \/ ReceiveRegistered(e) \/ ReceiveRejected(e) \/ ReceiveDisconnect(e)
             \/ ReceiveStart(e) \/ ReceiveStop(e) \/ HandleEvent(e) \/ RotateCredential(e)
      PROVE  UNCHANGED serverVars
      BY <1>1 DEF ReceiveRegistered, ReceiveRejected, ReceiveDisconnect, ReceiveStart,
            ReceiveStop, HandleEvent, RotateCredential
<1>2. ASSUME NEW r \in Runs, RunEnds(r) \/ RunRemoved(r) \/ WithdrawRun(r)
      PROVE  UNCHANGED serverVars
      BY <1>2 DEF RunEnds, RunRemoved, WithdrawRun
<1>3. CASE SocketBreaks \/ RunnerCrashes \/ ReEnroll \/ CredentialExpires \/ UNCHANGED vars
      BY <1>3 DEF SocketBreaks, RunnerCrashes, ReEnroll, CredentialExpires, vars
<1>4. QED
      BY <1>1, <1>2, <1>3 DEF Next, RunnerStep, HandlerStep, TaskStep

\* Which steps change the state of the runner.
LEMMA RunnerWriters ==
    ASSUME [Next]_vars
    PROVE  \/ UNCHANGED runnerVars
           \/ \E e \in Epochs : RunnerStep(e)
           \/ \E r \in Runs : RunEnds(r) \/ RunRemoved(r)
           \/ SocketBreaks \/ RunnerCrashes \/ ReEnroll \/ ServerRestarts
<1>1. ASSUME NEW e \in Epochs, HandlerStep(e)
      PROVE  UNCHANGED runnerVars
      BY <1>1 DEF HandlerStep, Authenticate, Reject, RunnerConnected, InsertEntry, Reconcile,
            HandleEvent, HeartbeatRejected, SocketEnds, RunnerDisconnected
<1>2. ASSUME NEW e \in Epochs,
             \/ TaskStep(e) \/ RotateCredential(e) \/ RunnerConnectedFails(e)
             \/ MarkUnclaimedFails(e) \/ RunnerDisconnectedFails(e) \/ GraceExpiryFails(e)
      PROVE  UNCHANGED runnerVars
      BY <1>2 DEF TaskStep, MarkUnclaimed, EnableDispatch, GraceExpires, RotateCredential,
            RunnerConnectedFails, MarkUnclaimedFails, RunnerDisconnectedFails,
            GraceExpiryFails
<1>3. ASSUME NEW r \in Runs, SelectRunner(r) \/ PassStep(r) \/ WithdrawRun(r)
      PROVE  UNCHANGED runnerVars
      BY <1>3 DEF SelectRunner, PassStep, CreateTaskRun, SendStart, StartFails, WithdrawRun
<1>4. CASE RevokeRunner \/ ForgetRevoked \/ CredentialExpires \/ UNCHANGED vars
      BY <1>4 DEF RevokeRunner, ForgetRevoked, CredentialExpires, vars
<1>5. QED
      BY <1>1, <1>2, <1>3, <1>4 DEF Next

\* Which steps change what is on the wires.
LEMMA WireWriters ==
    ASSUME [Next]_vars
    PROVE  \/ UNCHANGED wireVars
           \/ \E e \in Epochs :
                \/ RunnerStep(e) \/ Reject(e) \/ RunnerConnectedFails(e) \/ InsertEntry(e)
                \/ Reconcile(e) \/ MarkUnclaimedFails(e) \/ HandleEvent(e)
                \/ HeartbeatRejected(e) \/ RotateCredential(e)
           \/ \E r \in Runs : RunEnds(r) \/ SendStart(r)
           \/ SocketBreaks \/ RunnerCrashes \/ ForgetRevoked \/ ServerRestarts
<1>1. ASSUME NEW e \in Epochs,
             \/ Authenticate(e) \/ RunnerConnected(e) \/ SocketEnds(e)
             \/ RunnerDisconnected(e) \/ TaskStep(e) \/ RunnerDisconnectedFails(e)
             \/ GraceExpiryFails(e)
      PROVE  UNCHANGED wireVars
      BY <1>1 DEF Authenticate, RunnerConnected, SocketEnds, RunnerDisconnected, TaskStep,
            MarkUnclaimed, EnableDispatch, GraceExpires, RunnerDisconnectedFails,
            GraceExpiryFails
<1>2. ASSUME NEW r \in Runs,
             \/ SelectRunner(r) \/ CreateTaskRun(r) \/ StartFails(r)
             \/ RunRemoved(r) \/ WithdrawRun(r)
      PROVE  UNCHANGED wireVars
      BY <1>2 DEF SelectRunner, CreateTaskRun, StartFails, RunRemoved, WithdrawRun
<1>3. CASE RevokeRunner \/ ReEnroll \/ CredentialExpires \/ UNCHANGED vars
      BY <1>3 DEF RevokeRunner, ReEnroll, CredentialExpires, vars
<1>4. QED
      BY <1>1, <1>2, <1>3 DEF Next, HandlerStep, PassStep

-----------------------------------------------------------------------------
(***************************************************************************)
(* Every step keeps the types, group by group.                             *)
(***************************************************************************)
LEMMA MarkLostOK ==
    ASSUME run \in [Runs -> RunRow], NEW rs, MarkLost(rs)
    PROVE  run' \in [Runs -> RunRow]
<1>1. ASSUME NEW r \in Runs
      PROVE  [run[r] EXCEPT !.status = "lost"] \in RunRow
      BY DEF RunRow
<1>2. QED
      BY <1>1 DEF MarkLost

\* A run row whose status changes is a run row.
LEMMA StatusOK ==
    ASSUME run \in [Runs -> RunRow], NEW r \in Runs,
           NEW s \in {"none", "active", "lost", "closed", "withdrawn"}
    PROVE  [run EXCEPT ![r].status = s] \in [Runs -> RunRow]
<1>1. [run[r] EXCEPT !.status = s] \in RunRow
      BY DEF RunRow
<1>2. QED
      BY <1>1

\* The rows of the store keep their types.
LEMMA StoreStep ==
    ASSUME TypeInv, [Next]_vars
    PROVE  StoreOK'
<1>1. StoreOK
      BY DEF TypeInv
<1>2. CASE UNCHANGED storeVars
      BY <1>1, <1>2 DEF StoreOK, storeVars
<1>3. ASSUME NEW e \in Epochs, Authenticate(e) PROVE StoreOK'
  <2>1. /\ UNCHANGED <<node, run>> /\ enrollment' \in {enrollment, NoToken}
        /\ \E next \in Tokens : credential' = [token |-> next, state |-> "valid"]
        BY <1>3 DEF Authenticate
  <2>2. credential' \in CredentialRow
        BY <2>1 DEF CredentialRow
  <2>3. QED
        BY <1>1, <2>1, <2>2 DEF StoreOK
<1>4. ASSUME NEW e \in Epochs, RunnerConnected(e) PROVE StoreOK'
  <2>1. /\ UNCHANGED <<credential, enrollment>>
        /\ node' = [status |-> "connected", epoch |-> e]
        /\ run' = [r \in Runs |-> [run[r] EXCEPT !.newer = FALSE]]
        BY <1>4 DEF RunnerConnected
  <2>2. \A r \in Runs : [run[r] EXCEPT !.newer = FALSE] \in RunRow
        BY <1>1 DEF StoreOK, RunRow
  <2>3. node' \in NodeRow
        BY <2>1 DEF NodeRow
  <2>4. run' \in [Runs -> RunRow]
        BY <2>1, <2>2
  <2>5. QED
        BY <1>1, <2>1, <2>3, <2>4 DEF StoreOK
<1>5. ASSUME NEW e \in Epochs, MarkUnclaimed(e) PROVE StoreOK'
  <2>1. /\ UNCHANGED <<node, credential, enrollment>>
        /\ run' = run \/ \E rs : MarkLost(rs)
        BY <1>5 DEF MarkUnclaimed
  <2>2. QED
        BY <1>1, <2>1, MarkLostOK DEF StoreOK
<1>6. ASSUME NEW e \in Epochs, HandleEvent(e) PROVE StoreOK'
  <2> DEFINE x == CHOOSE x \in Head(up[e]).runs : TRUE
  <2>1. /\ UNCHANGED <<node, credential, enrollment>>
        /\ run' = run \/ run' = [run EXCEPT ![x].status = "closed"]
        BY <1>6 DEF HandleEvent
  <2> HIDE DEF x
  <2>2. CASE x \in Runs
        BY <1>1, <2>1, <2>2, StatusOK DEF StoreOK
  <2>3. CASE x \notin Runs
        BY <1>1, <2>1, <2>3 DEF StoreOK
  <2>4. QED
        BY <2>2, <2>3
<1>7. ASSUME NEW e \in Epochs, RunnerDisconnected(e) PROVE StoreOK'
  <2>1. /\ UNCHANGED <<credential, enrollment, run>>
        /\ node' = node \/ node' = [node EXCEPT !.status = "grace"]
        BY <1>7 DEF RunnerDisconnected
  <2>2. node' \in NodeRow
        BY <1>1, <2>1 DEF StoreOK, NodeRow
  <2>3. QED
        BY <1>1, <2>1, <2>2 DEF StoreOK
<1>8. ASSUME NEW e \in Epochs, GraceExpires(e) PROVE StoreOK'
  <2>1. /\ UNCHANGED <<credential, enrollment>>
        /\ node' = node \/ node' = [node EXCEPT !.status = "offline"]
        /\ run' = run \/ MarkLost(Runs)
        BY <1>8 DEF GraceExpires
  <2>2. node' \in NodeRow
        BY <1>1, <2>1 DEF StoreOK, NodeRow
  <2>3. run' \in [Runs -> RunRow]
        BY <1>1, <2>1, MarkLostOK DEF StoreOK
  <2>4. QED
        BY <1>1, <2>1, <2>2, <2>3 DEF StoreOK
<1>9. ASSUME NEW r \in Runs, CreateTaskRun(r) PROVE StoreOK'
  <2>1. /\ UNCHANGED <<node, credential, enrollment>>
        /\ run' = [run EXCEPT ![r] = [status |-> "active", newer |-> TRUE]]
        BY <1>9 DEF CreateTaskRun
  <2>2. [status |-> "active", newer |-> TRUE] \in RunRow
        BY DEF RunRow
  <2>3. QED
        BY <1>1, <2>1, <2>2 DEF StoreOK
<1>10. ASSUME NEW r \in Runs, StartFails(r) PROVE StoreOK'
  <2> DEFINE s == IF run[r].status = "active" THEN "closed" ELSE run[r].status
  <2>1. UNCHANGED <<node, credential, enrollment>>
        BY <1>10 DEF StartFails
  <2>2. run' = run \/ run' = [run EXCEPT ![r].status = s]
        BY <1>1, <1>10 DEF StartFails, StoreOK, RunRow
  <2>3. s \in {"none", "active", "lost", "closed", "withdrawn"}
        BY <1>1 DEF StoreOK, RunRow
  <2> HIDE DEF s
  <2>4. [run EXCEPT ![r].status = s] \in [Runs -> RunRow]
        BY <1>1, <2>3, StatusOK DEF StoreOK
  <2>5. QED
        BY <1>1, <2>1, <2>2, <2>4 DEF StoreOK
<1>11. CASE RevokeRunner
  <2>1. /\ enrollment' = enrollment /\ MarkLost(Runs)
        /\ credential' = [credential EXCEPT !.state = "revoked"]
        /\ node' = node \/ node' = [node EXCEPT !.status = "offline"]
        BY <1>11 DEF RevokeRunner
  <2>2. node' \in NodeRow /\ credential' \in CredentialRow
        BY <1>1, <2>1 DEF StoreOK, NodeRow, CredentialRow
  <2>3. QED
        BY <1>1, <2>1, <2>2, MarkLostOK DEF StoreOK
<1>12. CASE ReEnroll
  <2>1. UNCHANGED <<node, credential, run>> /\ enrollment' \in Tokens
        BY <1>12 DEF ReEnroll
  <2>2. QED
        BY <1>1, <2>1 DEF StoreOK
<1>13. CASE CredentialExpires
  <2>1. /\ UNCHANGED <<node, enrollment, run>>
        /\ credential' = [credential EXCEPT !.state = "expired"]
        BY <1>13 DEF CredentialExpires
  <2>2. credential' \in CredentialRow
        BY <1>1, <2>1 DEF StoreOK, CredentialRow
  <2>3. QED
        BY <1>1, <2>1, <2>2 DEF StoreOK
<1>14. CASE ServerRestarts
  <2>1. /\ UNCHANGED <<credential, enrollment, run>>
        /\ node' = node \/ node' = [node EXCEPT !.status = "grace"]
        BY <1>14 DEF ServerRestarts, StartupRecovery
  <2>2. node' \in NodeRow
        BY <1>1, <2>1 DEF StoreOK, NodeRow
  <2>3. QED
        BY <1>1, <2>1, <2>2 DEF StoreOK
<1>15. ASSUME NEW r \in Runs, WithdrawRun(r) PROVE StoreOK'
  <2>1. /\ UNCHANGED <<node, credential, enrollment>>
        /\ run' = [run EXCEPT ![r].status = "withdrawn"]
        BY <1>15 DEF WithdrawRun
  <2>2. QED
        BY <1>1, <2>1, StatusOK DEF StoreOK
<1>16. QED
      BY <1>2, <1>3, <1>4, <1>5, <1>6, <1>7, <1>8, <1>9, <1>10, <1>11, <1>12, <1>13, <1>14,
         <1>15, StoreWriters

\* A handler whose phase changes is a handler.
LEMMA PhaseOK ==
    ASSUME handler \in [Epochs -> HandlerRow], NEW e \in Epochs, NEW p \in Phase
    PROVE  [handler EXCEPT ![e].phase = p] \in [Epochs -> HandlerRow]
<1>1. [handler[e] EXCEPT !.phase = p] \in HandlerRow
      BY DEF HandlerRow
<1>2. QED
      BY <1>1

\* A finalization whose phase changes is a finalization.
LEMMA FinalPhaseOK ==
    ASSUME final \in [Epochs -> FinalRow], NEW e \in Epochs,
           NEW p \in {"none", "waiting", "marked", "done"}
    PROVE  [final EXCEPT ![e].phase = p] \in [Epochs -> FinalRow]
<1>1. [final[e] EXCEPT !.phase = p] \in FinalRow
      BY DEF FinalRow
<1>2. QED
      BY <1>1

\* The values of an absent entry, finalization and scheduling pass.
LEMMA EmptyRows ==
    /\ NoEntry \in Entry /\ NoFinal \in FinalRow /\ NoPass \in PassRow
    /\ NoFinal.phase = "none" /\ NoFinal.kept = {}
    /\ NoEntry.ready = FALSE /\ NoEntry.epoch = NoEpoch
    /\ NoPass.stage = "idle" /\ NoPass.epoch = NoEpoch
BY DEF NoEntry, NoFinal, NoPass, Entry, FinalRow, PassRow

\* What a socket carries first is what its handler works on.
LEMMA HeadClaims ==
    ASSUME TypeInv, NEW e \in Epochs, up[e] # <<>>
    PROVE  /\ Head(up[e]) \in Message /\ Head(up[e]).runs \subseteq Runs
           /\ Head(up[e]) = up[e][1]
<1>1. up[e] \in Seq(Message)
      BY DEF TypeInv, WireOK
<1>2. Head(up[e]) \in Message /\ Head(up[e]) = up[e][1]
      BY <1>1
<1>3. QED
      BY <1>2 DEF Message

\* Registration keeps the server's types.
LEMMA RegistrationStep ==
    ASSUME TypeInv, NEW e \in Epochs,
           \/ Connect(e) \/ Authenticate(e) \/ Reject(e) \/ RunnerConnected(e)
           \/ RunnerConnectedFails(e) \/ InsertEntry(e) \/ Reconcile(e)
    PROVE  ServerOK'
<1>1. ServerOK /\ WireOK
      BY DEF TypeInv
<1>2. CASE Connect(e)
  <2>1. /\ UNCHANGED <<entry, graceTimers, pass, revoking>> /\ lapsed' = lapsed \ {e}
        /\ handler' = [handler EXCEPT ![e].phase = "reading"]
        /\ final' = [final EXCEPT ![e] = NoFinal]
        BY <1>2 DEF Connect
  <2>2. handler' \in [Epochs -> HandlerRow] /\ final' \in [Epochs -> FinalRow]
        BY <1>1, <2>1, PhaseOK, EmptyRows DEF ServerOK, Phase
  <2>3. QED
        BY <1>1, <2>1, <2>2 DEF ServerOK
<1>3. CASE Authenticate(e)
  <2>1. /\ UNCHANGED <<entry, final, graceTimers, lapsed, pass, revoking>>
        /\ \E next \in Tokens : handler' = [handler EXCEPT
                             ![e] = [phase |-> "authenticated", token |-> next]]
        BY <1>3 DEF Authenticate
  <2>2. \A next \in Tokens : [phase |-> "authenticated", token |-> next] \in HandlerRow
        BY DEF HandlerRow, Phase
  <2>3. handler' \in [Epochs -> HandlerRow]
        BY <1>1, <2>1, <2>2 DEF ServerOK
  <2>4. QED
        BY <1>1, <2>1, <2>3 DEF ServerOK
<1>4. CASE Reject(e)
  <2>1. /\ UNCHANGED <<entry, final, graceTimers, lapsed, pass, revoking>>
        /\ handler' = [handler EXCEPT ![e] = IdleHandler]
        BY <1>4 DEF Reject
  <2>2. QED
        BY <1>1, <2>1, IdleIsRow DEF ServerOK
<1>5. CASE RunnerConnected(e)
  <2>1. /\ UNCHANGED <<entry, final, graceTimers, lapsed, pass, revoking>>
        /\ handler' = [handler EXCEPT ![e].phase = "stored"]
        BY <1>5 DEF RunnerConnected
  <2>2. handler' \in [Epochs -> HandlerRow]
        BY <1>1, <2>1, PhaseOK DEF ServerOK, Phase
  <2>3. QED
        BY <1>1, <2>1, <2>2 DEF ServerOK
<1>6. CASE RunnerConnectedFails(e)
  <2>1. /\ UNCHANGED <<entry, final, graceTimers, lapsed, pass, revoking>>
        /\ handler' = [handler EXCEPT ![e] = [IdleHandler EXCEPT !.phase = "unregistered"]]
        BY <1>6 DEF RunnerConnectedFails
  <2>2. [IdleHandler EXCEPT !.phase = "unregistered"] \in HandlerRow
        BY DEF IdleHandler, HandlerRow, Phase
  <2>3. QED
        BY <1>1, <2>1, <2>2 DEF ServerOK
<1>7. CASE InsertEntry(e)
  <2>1. /\ UNCHANGED <<final, graceTimers, lapsed, pass, revoking>>
        /\ entry' = [epoch |-> e, ready |-> FALSE]
        /\ handler' = [handler EXCEPT ![e] = [IdleHandler EXCEPT !.phase = "inserted"]]
        BY <1>7 DEF InsertEntry
  <2>2. [IdleHandler EXCEPT !.phase = "inserted"] \in HandlerRow /\ entry' \in Entry
        BY <2>1 DEF IdleHandler, HandlerRow, Phase, Entry
  <2>3. QED
        BY <1>1, <2>1, <2>2 DEF ServerOK
<1>8. CASE Reconcile(e)
  <2> DEFINE claims == Head(up[e]).runs
             row == [phase |-> "waiting", kept |-> Accepted(claims)]
  <2>1. /\ UNCHANGED <<entry, graceTimers, lapsed, pass, revoking>>
        /\ final' = final \/ final' = [final EXCEPT ![e] = row]
        /\ handler' = [handler EXCEPT ![e].phase = "served"]
        /\ handler[e].phase = "inserted"
        BY <1>8 DEF Reconcile
  <2>2. up[e] # <<>>
        BY <1>1, <2>1 DEF WireOK, MidRegistration
  <2>3. claims \subseteq Runs
        BY <2>2, HeadClaims
  <2> HIDE DEF claims
  <2>4. row \in FinalRow
        BY <2>3 DEF FinalRow, Accepted
  <2> HIDE DEF row
  <2>5. handler' \in [Epochs -> HandlerRow]
        BY <1>1, <2>1, PhaseOK DEF ServerOK, Phase
  <2>6. final' \in [Epochs -> FinalRow]
        BY <1>1, <2>1, <2>4 DEF ServerOK
  <2>7. QED
        BY <1>1, <2>1, <2>5, <2>6 DEF ServerOK
<1>9. QED
      BY <1>2, <1>3, <1>4, <1>5, <1>6, <1>7, <1>8

\* So do the steps of a served connection and of its timers.
LEMMA ServedStep ==
    ASSUME TypeInv, NEW e \in Epochs,
           \/ MarkUnclaimed(e) \/ MarkUnclaimedFails(e) \/ EnableDispatch(e)
           \/ HeartbeatRejected(e) \/ SocketEnds(e) \/ RunnerDisconnected(e)
           \/ RunnerDisconnectedFails(e) \/ GraceExpires(e) \/ GraceExpiryFails(e)
    PROVE  ServerOK'
<1>1. ServerOK
      BY DEF TypeInv
<1>2. CASE MarkUnclaimed(e) \/ MarkUnclaimedFails(e)
  <2>1. /\ UNCHANGED <<entry, handler, graceTimers, lapsed, pass, revoking>>
        /\ \/ final' = [final EXCEPT ![e].phase = "marked"]
           \/ final' = [final EXCEPT ![e].phase = "done"]
        BY <1>2 DEF MarkUnclaimed, MarkUnclaimedFails
  <2>2. final' \in [Epochs -> FinalRow]
        BY <1>1, <2>1, FinalPhaseOK DEF ServerOK
  <2>3. QED
        BY <1>1, <2>1, <2>2 DEF ServerOK
<1>3. CASE EnableDispatch(e)
  <2>1. /\ UNCHANGED <<handler, graceTimers, lapsed, pass, revoking>>
        /\ entry' = entry \/ entry' = [entry EXCEPT !.ready = TRUE]
        /\ \/ final' = [final EXCEPT ![e].phase = "done"]
           \/ final' = [final EXCEPT ![e] = NoFinal]
        BY <1>3 DEF EnableDispatch
  <2>2. entry' \in Entry
        BY <1>1, <2>1 DEF ServerOK, Entry
  <2>3. [final EXCEPT ![e].phase = "done"] \in [Epochs -> FinalRow]
        BY <1>1, FinalPhaseOK DEF ServerOK
  <2>4. [final EXCEPT ![e] = NoFinal] \in [Epochs -> FinalRow]
        BY <1>1, EmptyRows DEF ServerOK
  <2>5. QED
        BY <1>1, <2>1, <2>2, <2>3, <2>4 DEF ServerOK
<1>4. CASE HeartbeatRejected(e)
      BY <1>1, <1>4, EmptyRows DEF HeartbeatRejected, ServerOK
<1>5. CASE SocketEnds(e)
  <2>1. /\ UNCHANGED <<final, graceTimers, lapsed, pass, revoking>>
        /\ entry' = entry \/ entry' = NoEntry
        /\ \/ handler' = [handler EXCEPT ![e].phase = "closing"]
           \/ handler' = [handler EXCEPT ![e] = IdleHandler]
        BY <1>5 DEF SocketEnds
  <2>2. [handler EXCEPT ![e].phase = "closing"] \in [Epochs -> HandlerRow]
        BY <1>1, PhaseOK DEF ServerOK, Phase
  <2>3. [handler EXCEPT ![e] = IdleHandler] \in [Epochs -> HandlerRow]
        BY <1>1, IdleIsRow DEF ServerOK
  <2>4. QED
        BY <1>1, <2>1, <2>2, <2>3, EmptyRows DEF ServerOK
<1>6. CASE RunnerDisconnected(e) \/ RunnerDisconnectedFails(e)
  <2>1. /\ UNCHANGED <<entry, final, pass, revoking>>
        /\ graceTimers' = graceTimers \cup {e} /\ lapsed' \subseteq lapsed \cup {e}
        /\ handler' = [handler EXCEPT ![e] = IdleHandler]
        BY <1>6 DEF RunnerDisconnected, RunnerDisconnectedFails
  <2>2. QED
        BY <1>1, <2>1, IdleIsRow DEF ServerOK
<1>7. CASE GraceExpires(e) \/ GraceExpiryFails(e)
  <2>1. /\ UNCHANGED <<entry, handler, final, pass, revoking>>
        /\ graceTimers' \subseteq graceTimers /\ lapsed' \subseteq lapsed \cup {e}
        BY <1>7 DEF GraceExpires, GraceExpiryFails
  <2>2. QED
        BY <1>1, <2>1 DEF ServerOK
<1>8. QED
      BY <1>2, <1>3, <1>4, <1>5, <1>6, <1>7

\* The server's memory keeps its types.
LEMMA ServerStep ==
    ASSUME TypeInv, WatchInv, [Next]_vars
    PROVE  ServerOK'
<1>1. ServerOK
      BY DEF TypeInv
<1>2. CASE UNCHANGED serverVars
      BY <1>1, <1>2 DEF ServerOK, serverVars
<1>3. ASSUME NEW r \in Runs, SelectRunner(r) \/ PassStep(r) PROVE ServerOK'
  <2> DEFINE selected == [stage |-> "selected", epoch |-> entry.epoch]
             created == [pass[r] EXCEPT !.stage = "created"]
  <2>1. selected \in PassRow /\ created \in PassRow
        BY <1>1 DEF ServerOK, Entry, PassRow
  <2>2. /\ UNCHANGED <<entry, handler, final, graceTimers, lapsed, revoking>>
        /\ \/ pass' = [pass EXCEPT ![r] = selected]
           \/ pass' = [pass EXCEPT ![r] = created]
           \/ pass' = [pass EXCEPT ![r] = NoPass]
        BY <1>1, <1>3 DEF SelectRunner, PassStep, CreateTaskRun, SendStart, StartFails,
                          ServerOK
  <2> HIDE DEF selected, created
  <2>3. pass' \in [Runs -> PassRow]
        BY <1>1, <2>1, <2>2, EmptyRows DEF ServerOK
  <2>4. QED
        BY <1>1, <2>2, <2>3 DEF ServerOK
<1>4. CASE RevokeRunner
      BY <1>1, <1>4 DEF RevokeRunner, ServerOK
<1>5. CASE ForgetRevoked
      BY <1>1, <1>5, EmptyRows DEF ForgetRevoked, ServerOK
<1>6. CASE ServerRestarts
  <2>1. /\ entry' = NoEntry /\ revoking' = FALSE /\ lapsed' = {}
        /\ handler' = [e \in Epochs |-> IdleHandler]
        /\ final' = [e \in Epochs |-> NoFinal] /\ pass' = [r \in Runs |-> NoPass]
        BY <1>6 DEF ServerRestarts
  <2>2. graceTimers' \subseteq Epochs
        BY <1>6 DEF ServerRestarts, StartupRecovery, WatchInv
  <2>3. QED
        BY <2>1, <2>2, IdleIsRow, EmptyRows DEF ServerOK
<1>7. QED
      BY <1>2, <1>3, <1>4, <1>5, <1>6, RegistrationStep, ServedStep, ServerWriters

\* The report of an ended run is a message and has the shape of an event.
LEMMA EndedShaped ==
    ASSUME NEW r \in Runs
    PROVE  Ended(r) \in Message /\ EventShaped(Ended(r))
BY DEF Ended, Msg, Message, EventShaped

\* The events of any rest of a socket's messages name runs.
LEMMA EventsOfRuns ==
    ASSUME NEW ms, UpShaped(ms), NEW m \in 0..Len(ms)
    PROVE  EventsOf(SubSeq(ms, m + 1, Len(ms))) \in Seq(Runs)
<1> DEFINE tail == SubSeq(ms, m + 1, Len(ms))
           events == IF tail # <<>> /\ Head(tail).kind = "register" THEN Tail(tail) ELSE tail
<1>1. ms \in Seq(Message) /\ Len(ms) \in Nat
      BY DEF UpShaped
<1>2. /\ tail \in Seq(Message) /\ Len(tail) = Len(ms) - m
      /\ \A i \in 1..Len(tail) : tail[i] = ms[m + i]
      BY <1>1
<1>3. \A i \in 1..Len(tail) : EventShaped(tail[i]) \/ (i = 1 /\ tail[i].kind = "register")
      BY <1>1, <1>2 DEF UpShaped
<1> HIDE DEF tail
<1>4. events \in Seq(Message) /\ \A i \in 1..Len(events) : EventShaped(events[i])
  <2>1. CASE tail # <<>> /\ Head(tail).kind = "register"
        BY <1>2, <1>3, <2>1
  <2>2. CASE tail # <<>> /\ Head(tail).kind # "register"
        BY <1>2, <1>3, <2>2
  <2>3. CASE tail = <<>>
        BY <2>3
  <2>4. QED
        BY <2>1, <2>2, <2>3
<1>5. EventsOf(tail) = [i \in DOMAIN events |-> CHOOSE r \in events[i].runs : TRUE]
      BY DEF EventsOf
<1> HIDE DEF events
<1>6. \A i \in 1..Len(events) : (CHOOSE r \in events[i].runs : TRUE) \in Runs
      BY <1>4 DEF EventShaped
<1>7. DOMAIN events = 1..Len(events) /\ Len(events) \in Nat
      BY <1>4
<1>8. EventsOf(tail) \in Seq(Runs)
      BY <1>5, <1>6, <1>7
<1>9. QED
      BY <1>8 DEF tail

\* What a socket that ends leaves: a prefix of what it carried.
Left(e, n) ==
    /\ n \in 0..Len(up[e]) /\ (MidRegistration(e) => n > 0)
    /\ up' = [up EXCEPT ![e] = SubSeq(up[e], 1, n)]
    /\ down' = [down EXCEPT ![e] = <<>>]

\* A runner that leaves its socket keeps the unsent events, and the socket
\* keeps a prefix of what it sent.
LEMMA LeaveSocketOK ==
    ASSUME TypeInv, NEW e \in Epochs, NEW b, LeaveSocket(e, b, buffer)
    PROVE  /\ buffer' \in Seq(Runs) /\ link' = NoEpoch /\ bus' = b
           /\ \E n \in Nat : Left(e, n)
<1>1. UpShaped(up[e]) /\ up \in [Epochs -> Seq(Message)] /\ down \in [Epochs -> Seq(Message)]
      BY DEF TypeInv, WireOK
<1>2a. PICK n \in (IF MidRegistration(e) THEN 1 ELSE 0)..Len(up[e]) :
         \E m \in n..Len(up[e]) :
           /\ up' = [up EXCEPT ![e] = SubSeq(@, 1, n)]
           /\ buffer' = buffer \o EventsOf(SubSeq(up[e], m + 1, Len(up[e])))
      BY DEF LeaveSocket
<1>2. PICK m \in n..Len(up[e]) :
        /\ up' = [up EXCEPT ![e] = SubSeq(@, 1, n)]
        /\ buffer' = buffer \o EventsOf(SubSeq(up[e], m + 1, Len(up[e])))
      BY <1>2a
<1>3. Len(up[e]) \in Nat
      BY <1>1
<1>4. n \in 0..Len(up[e]) /\ m \in 0..Len(up[e]) /\ (MidRegistration(e) => n > 0)
  <2>1. CASE MidRegistration(e)
        BY <1>2, <1>3, <2>1
  <2>2. CASE ~MidRegistration(e)
        BY <1>2, <1>3, <2>2
  <2>3. QED
        BY <2>1, <2>2
<1>5. buffer' \in Seq(Runs)
  <2>1. EventsOf(SubSeq(up[e], m + 1, Len(up[e]))) \in Seq(Runs)
        BY <1>1, <1>4, EventsOfRuns
  <2>2. buffer \in Seq(Runs)
        BY DEF TypeInv, RunnerOK
  <2>3. QED
        BY <1>2, <2>1, <2>2
<1>6. up' = [up EXCEPT ![e] = SubSeq(up[e], 1, n)]
      BY <1>2
<1>7. link' = NoEpoch /\ bus' = b /\ down' = [down EXCEPT ![e] = <<>>]
      BY DEF LeaveSocket
<1>8. n \in Nat /\ Left(e, n)
      BY <1>3, <1>4, <1>6, <1>7 DEF Left
<1>9. QED
      BY <1>5, <1>7, <1>8

\* The runner's memory keeps its types.
LEMMA RunnerStepOK ==
    ASSUME TypeInv, [Next]_vars
    PROVE  RunnerOK'
<1>1. RunnerOK /\ WireOK
      BY DEF TypeInv
<1>2. CASE UNCHANGED runnerVars
      BY <1>1, <1>2 DEF RunnerOK, runnerVars
<1>3. ASSUME NEW e \in Epochs, Connect(e) PROVE RunnerOK'
      BY <1>1, <1>3 DEF Connect, RunnerOK
<1>4. ASSUME NEW e \in Epochs, ReceiveRegistered(e) PROVE RunnerOK'
  <2>1. /\ UNCHANGED <<link, bus, held, stopped, reported, buffer>> /\ enrollFile' = NoToken
        /\ credFile' = Head(down[e]).token /\ down[e] # <<>>
        BY <1>4 DEF ReceiveRegistered
  <2>2. down[e] \in Seq(Message)
        BY <1>1 DEF WireOK
  <2>3. Head(down[e]) \in Message
        BY <2>1, <2>2
  <2>4. credFile' \in Tokens \cup {NoToken}
        BY <2>1, <2>3 DEF Message
  <2>5. QED
        BY <1>1, <2>1, <2>4 DEF RunnerOK
<1>5. ASSUME NEW e \in Epochs, ReceiveRejected(e) PROVE RunnerOK'
  <2>1. LeaveSocket(e, bus, buffer) /\ UNCHANGED <<credFile, enrollFile, held, stopped, reported>>
        BY <1>5 DEF ReceiveRejected
  <2>2. QED
        BY <1>1, <2>1, LeaveSocketOK DEF RunnerOK
<1>6. ASSUME NEW e \in Epochs, ReceiveDisconnect(e) PROVE RunnerOK'
  <2>1. LeaveSocket(e, NoEpoch, buffer) /\ UNCHANGED <<credFile, enrollFile, held, stopped, reported>>
        BY <1>6 DEF ReceiveDisconnect
  <2>2. QED
        BY <1>1, <2>1, LeaveSocketOK DEF RunnerOK
<1>7. ASSUME NEW e \in Epochs, ReceiveStart(e) PROVE RunnerOK'
  <2>1. /\ UNCHANGED <<link, bus, credFile, enrollFile, stopped, reported, buffer>>
        /\ held' = held \cup Head(down[e]).runs /\ down[e] # <<>>
        BY <1>7 DEF ReceiveStart
  <2>2. down[e] \in Seq(Message)
        BY <1>1 DEF WireOK
  <2>3. Head(down[e]) \in Message
        BY <2>1, <2>2
  <2>4. Head(down[e]).runs \subseteq Runs
        BY <2>3 DEF Message
  <2>5. QED
        BY <1>1, <2>1, <2>4 DEF RunnerOK
<1>8. ASSUME NEW e \in Epochs, ReceiveStop(e) PROVE RunnerOK'
      BY <1>1, <1>8 DEF ReceiveStop, RunnerOK
<1>9. ASSUME NEW r \in Runs, RunEnds(r) PROVE RunnerOK'
  <2>1. /\ UNCHANGED <<link, bus, credFile, enrollFile, held, stopped>>
        /\ r \in held /\ reported' = reported \cup {r}
        /\ buffer' = buffer \/ buffer' = Append(buffer, r)
        BY <1>9 DEF RunEnds, SendEvent
  <2>2. buffer' \in Seq(Runs)
        BY <1>1, <2>1 DEF RunnerOK
  <2>3. QED
        BY <1>1, <2>1, <2>2 DEF RunnerOK
<1>10. CASE SocketBreaks
  <2>1. /\ LeaveSocket(link, NoEpoch, buffer) /\ link \in Epochs
        /\ UNCHANGED <<credFile, enrollFile, held, stopped, reported>>
        BY <1>1, <1>10 DEF SocketBreaks, RunnerOK
  <2>2. QED
        BY <1>1, <2>1, LeaveSocketOK DEF RunnerOK
<1>11. CASE RunnerCrashes
  <2>1. /\ held' = {} /\ stopped' = {} /\ reported' = {} /\ bus' = NoEpoch /\ buffer' = <<>>
        /\ UNCHANGED <<credFile, enrollFile>> /\ link' \in {link, NoEpoch}
        BY <1>11 DEF RunnerCrashes
  <2>2. QED
        BY <1>1, <2>1 DEF RunnerOK
<1>12. CASE ReEnroll
  <2>1. /\ UNCHANGED <<link, bus, held, stopped, reported, buffer>> /\ credFile' = NoToken
        /\ enrollFile' \in Tokens
        BY <1>12 DEF ReEnroll
  <2>2. QED
        BY <1>1, <2>1 DEF RunnerOK
<1>13. CASE ServerRestarts
      BY <1>1, <1>13 DEF ServerRestarts, RunnerOK
<1>14. ASSUME NEW r \in Runs, RunRemoved(r) PROVE RunnerOK'
      BY <1>1, <1>14 DEF RunRemoved, RunnerOK
<1>15. QED
      BY <1>2, <1>3, <1>4, <1>5, <1>6, <1>7, <1>8, <1>9, <1>10, <1>11, <1>12, <1>13, <1>14,
         RunnerWriters DEF RunnerStep

\* Taking the first message leaves events only.
LEMMA TailShaped ==
    ASSUME NEW ms, UpShaped(ms), ms # <<>>
    PROVE  UpShaped(Tail(ms))
<1>1. ms \in Seq(Message)
      BY DEF UpShaped
<1>2. /\ Tail(ms) \in Seq(Message) /\ Len(Tail(ms)) = Len(ms) - 1
      /\ \A i \in 1..Len(Tail(ms)) : Tail(ms)[i] = ms[i + 1] /\ i + 1 \in 1..Len(ms)
      BY <1>1
<1>3. \A i \in 1..Len(Tail(ms)) : EventShaped(Tail(ms)[i])
      BY <1>1, <1>2 DEF UpShaped
<1>4. QED
      BY <1>2, <1>3 DEF UpShaped

\* A prefix of what was sent on a socket has the shape of it.
LEMMA PrefixShaped ==
    ASSUME NEW ms, UpShaped(ms), NEW n \in 0..Len(ms)
    PROVE  UpShaped(SubSeq(ms, 1, n)) /\ (n > 0 => SubSeq(ms, 1, n) # <<>>)
<1>1. ms \in Seq(Message) /\ Len(ms) \in Nat
      BY DEF UpShaped
<1>2. /\ SubSeq(ms, 1, n) \in Seq(Message) /\ Len(SubSeq(ms, 1, n)) = n
      /\ \A i \in 1..n : SubSeq(ms, 1, n)[i] = ms[i]
      BY <1>1
<1>3. QED
      BY <1>1, <1>2 DEF UpShaped

\* An event may follow whatever was sent.
LEMMA AppendShaped ==
    ASSUME NEW ms, UpShaped(ms), NEW r \in Runs
    PROVE  UpShaped(Append(ms, Ended(r))) /\ Append(ms, Ended(r)) # <<>>
<1>1. ms \in Seq(Message) /\ Len(ms) \in Nat
      BY DEF UpShaped
<1>2. Ended(r) \in Message /\ EventShaped(Ended(r))
      BY EndedShaped
<1>3. /\ Append(ms, Ended(r)) \in Seq(Message) /\ Len(Append(ms, Ended(r))) = Len(ms) + 1
      /\ \A i \in 1..Len(ms) : Append(ms, Ended(r))[i] = ms[i]
      /\ Append(ms, Ended(r))[Len(ms) + 1] = Ended(r)
      BY <1>1, <1>2
<1> DEFINE longer == Append(ms, Ended(r))
<1>4. ASSUME NEW i \in 1..Len(longer)
      PROVE  EventShaped(longer[i]) \/ (i = 1 /\ longer[i].kind = "register")
  <2>1. CASE i \in 1..Len(ms)
        BY <1>3, <2>1 DEF UpShaped
  <2>2. CASE i = Len(ms) + 1
        BY <1>2, <1>3, <2>2
  <2>3. QED
        BY <1>1, <1>3, <2>1, <2>2
<1> HIDE DEF longer
<1>5. UpShaped(longer) /\ longer # <<>>
  <2>1. longer \in Seq(Message) /\ Len(longer) = Len(ms) + 1
        BY <1>3 DEF longer
  <2>2. QED
        BY <1>1, <1>4, <2>1 DEF UpShaped
<1>6. QED
      BY <1>5 DEF longer

\* What Connect puts on the new socket.
Opening == <<Msg("register", PresentedToken, held)>> \o [i \in DOMAIN buffer |-> Ended(buffer[i])]

\* A socket opens with the registration, followed by the buffered events.
LEMMA OpeningShaped ==
    ASSUME TypeInv
    PROVE  /\ UpShaped(Opening) /\ Opening # <<>> /\ Len(Opening) = 1 + Len(buffer)
           /\ Opening[1] = Msg("register", PresentedToken, held)
           /\ \A i \in 1..Len(buffer) : Opening[i + 1] = Ended(buffer[i])
<1> DEFINE first == Msg("register", PresentedToken, held)
           rest == [i \in DOMAIN buffer |-> Ended(buffer[i])]
<1>1. buffer \in Seq(Runs) /\ Len(buffer) \in Nat /\ DOMAIN buffer = 1..Len(buffer)
      BY DEF TypeInv, RunnerOK
<1>2. first \in Message /\ first.kind = "register"
      BY DEF TypeInv, RunnerOK, PresentedToken, Msg, Message
<1>3. rest \in Seq(Message) /\ Len(rest) = Len(buffer)
      /\ \A i \in 1..Len(buffer) : rest[i] = Ended(buffer[i]) /\ EventShaped(rest[i])
      BY <1>1, EndedShaped
<1>4. Opening = <<first>> \o rest
      BY DEF Opening
<1> HIDE DEF first, rest
<1>5. /\ Opening \in Seq(Message) /\ Len(Opening) = 1 + Len(buffer) /\ Opening[1] = first
      /\ \A i \in 1..Len(buffer) : Opening[i + 1] = rest[i]
      BY <1>1, <1>2, <1>3, <1>4
<1>6. \A i \in 1..Len(Opening) : i = 1 \/ (i - 1 \in 1..Len(buffer) /\ Opening[i] = rest[i - 1])
      BY <1>1, <1>5
<1>7. UpShaped(Opening)
      BY <1>2, <1>3, <1>5, <1>6 DEF UpShaped
<1>8. QED
      BY <1>1, <1>3, <1>5, <1>7 DEF first

\* Sending to a socket appends for the runner that reads it, or does nothing.
LEMMA SentOK ==
    ASSUME NEW channels \in [Epochs -> Seq(Message)], NEW e, NEW ms \in Seq(Message)
    PROVE  /\ Sent(channels, e, ms) \in [Epochs -> Seq(Message)]
           /\ \A x \in Epochs : Sent(channels, e, ms)[x] =
                IF x = e /\ e = link THEN channels[x] \o ms ELSE channels[x]
<1>1. CASE e = link /\ e \in Epochs
  <2>1. channels[e] \in Seq(Message)
        BY <1>1
  <2>2. channels[e] \o ms \in Seq(Message)
        BY <2>1
  <2>3. Sent(channels, e, ms) = [channels EXCEPT ![e] = channels[e] \o ms]
        BY <1>1 DEF Sent
  <2>4. QED
        BY <1>1, <2>2, <2>3
<1>2. CASE e = link /\ e \notin Epochs
  <2>1. Sent(channels, e, ms) = channels
        BY <1>2 DEF Sent
  <2>2. QED
        BY <1>2, <2>1
<1>3. CASE e # link
  <2>1. Sent(channels, e, ms) = channels
        BY <1>3 DEF Sent
  <2>2. QED
        BY <1>3, <2>1
<1>4. QED
      BY <1>1, <1>2, <1>3

\* The messages the server sends are messages.
LEMMA MessagesOK ==
    /\ Disconnect \in Message /\ Disconnect.kind = "disconnect"
    /\ <<Disconnect>> \in Seq(Message)
    /\ <<Msg("rejected", NoToken, {})>> \in Seq(Message)
    /\ \A t \in Tokens \cup {NoToken} : <<Msg("registered", t, {})>> \in Seq(Message)
    /\ \A rs \in SUBSET Runs : <<Msg("stop", NoToken, rs)>> \in Seq(Message)
    /\ \A r \in Runs : <<Msg("start", NoToken, {r})>> \in Seq(Message)
<1>1. Disconnect \in Message /\ Disconnect.kind = "disconnect"
      BY DEF Disconnect, Msg, Message
<1>2. Msg("rejected", NoToken, {}) \in Message
      BY DEF Msg, Message
<1>3. \A t \in Tokens \cup {NoToken} : Msg("registered", t, {}) \in Message
      BY DEF Msg, Message
<1>4. \A rs \in SUBSET Runs : Msg("stop", NoToken, rs) \in Message
      BY DEF Msg, Message
<1>5. \A r \in Runs : Msg("start", NoToken, {r}) \in Message
      BY DEF Msg, Message
<1>6. \A m \in Message : <<m>> \in Seq(Message)
      OBVIOUS
<1>7. QED
      BY <1>1, <1>2, <1>3, <1>4, <1>5, <1>6

\* A step that writes to the runner only.
LEMMA DownOnly ==
    ASSUME TypeInv, up' = up, down' \in [Epochs -> Seq(Message)],
           \A e \in Epochs : MidRegistration(e)' => MidRegistration(e)
    PROVE  WireOK'
BY DEF TypeInv, WireOK, UpShaped

\* A step that writes one socket's messages to the server.
LEMMA UpOne ==
    ASSUME TypeInv, NEW e \in Epochs, NEW ms, UpShaped(ms), up' = [up EXCEPT ![e] = ms],
           down' \in [Epochs -> Seq(Message)],
           \A x \in Epochs \ {e} : MidRegistration(x)' => MidRegistration(x),
           MidRegistration(e)' => ms # <<>>
    PROVE  WireOK'
<1>1. ms \in Seq(Message)
      BY DEF UpShaped
<1>2. up' \in [Epochs -> Seq(Message)]
      BY <1>1 DEF TypeInv, WireOK
<1>3. ASSUME NEW x \in Epochs
      PROVE  UpShaped(up'[x]) /\ (MidRegistration(x)' => up'[x] # <<>>)
  <2>1. CASE x = e
        BY <2>1 DEF TypeInv, WireOK
  <2>2. CASE x # e
        BY <2>2 DEF TypeInv, WireOK
  <2>3. QED
        BY <2>1, <2>2
<1>5. QED
      BY <1>2, <1>3 DEF WireOK, UpShaped

\* The handlers that a step leaves alone, or takes out of a registration.
LEMMA MidKept ==
    ASSUME TypeInv, NEW e \in Epochs, NEW h, handler' = [handler EXCEPT ![e] = h]
    PROVE  /\ \A x \in Epochs \ {e} : MidRegistration(x)' <=> MidRegistration(x)
           /\ MidRegistration(e)' <=> h.phase \in {"authenticated", "stored", "inserted"}
<1>1. handler \in [Epochs -> HandlerRow]
      BY DEF TypeInv, ServerOK
<1>2. QED
      BY <1>1 DEF MidRegistration

\* Only the handler that moves enters or leaves the middle of its
\* registration.
LEMMA MidPhase ==
    ASSUME TypeInv, NEW e \in Epochs, NEW p, handler' = [handler EXCEPT ![e].phase = p]
    PROVE  /\ \A x \in Epochs \ {e} : MidRegistration(x)' <=> MidRegistration(x)
           /\ MidRegistration(e)' <=> p \in {"authenticated", "stored", "inserted"}
<1>1. handler \in [Epochs -> HandlerRow]
      BY DEF TypeInv, ServerOK
<1>2. handler' = [handler EXCEPT ![e] = [handler[e] EXCEPT !.phase = p]]
      BY <1>1
<1>3. [handler[e] EXCEPT !.phase = p].phase = p
      BY <1>1 DEF HandlerRow
<1>4. QED
      BY <1>2, <1>3, MidKept

\* A runner that leaves its socket keeps the wires typed.
LEMMA LeftOK ==
    ASSUME TypeInv, NEW e \in Epochs, NEW n \in Nat, Left(e, n), handler' = handler
    PROVE  WireOK'
<1> DEFINE ms == SubSeq(up[e], 1, n)
<1>1. UpShaped(up[e]) /\ down \in [Epochs -> Seq(Message)]
      BY DEF TypeInv, WireOK
<1>2. /\ n \in 0..Len(up[e]) /\ (MidRegistration(e) => n > 0)
      /\ up' = [up EXCEPT ![e] = ms] /\ down' = [down EXCEPT ![e] = <<>>]
      BY DEF Left
<1>3. UpShaped(ms) /\ (n > 0 => ms # <<>>)
      BY <1>1, <1>2, PrefixShaped
<1>4. \A x \in Epochs : MidRegistration(x)' <=> MidRegistration(x)
      BY DEF MidRegistration
<1> HIDE DEF ms
<1>5. down' \in [Epochs -> Seq(Message)]
      BY <1>1, <1>2
<1>6. QED
      BY <1>2, <1>3, <1>4, <1>5, UpOne

\* So does every other step of the runner.
LEMMA RunnerWireOK ==
    ASSUME TypeInv, NEW e \in Epochs, RunnerStep(e)
    PROVE  WireOK'
<1>1. WireOK
      BY DEF TypeInv
<1>2. CASE Connect(e)
  <2>1. /\ up' = [up EXCEPT ![e] = Opening] /\ down' = down
        /\ handler' = [handler EXCEPT ![e].phase = "reading"]
        BY <1>2 DEF Connect, Opening
  <2>2. UpShaped(Opening)
        BY OpeningShaped
  <2>3. ~MidRegistration(e)' /\ \A x \in Epochs \ {e} : MidRegistration(x)' => MidRegistration(x)
    <3>1. "reading" \notin {"authenticated", "stored", "inserted"}
          OBVIOUS
    <3>2. QED
          BY <2>1, <3>1, MidPhase
  <2>4. down' \in [Epochs -> Seq(Message)]
        BY <1>1, <2>1 DEF WireOK
  <2>5. QED
        BY <2>1, <2>2, <2>3, <2>4, UpOne
<1>3. CASE ReceiveRegistered(e) \/ ReceiveStart(e) \/ ReceiveStop(e)
  <2>1. /\ down' = [down EXCEPT ![e] = Tail(@)] /\ up' = up /\ down[e] # <<>>
        /\ UNCHANGED serverVars
        BY <1>3 DEF ReceiveRegistered, ReceiveStart, ReceiveStop
  <2>2. Tail(down[e]) \in Seq(Message)
        BY <1>1, <2>1 DEF WireOK
  <2>3. down' \in [Epochs -> Seq(Message)]
        BY <1>1, <2>1, <2>2 DEF WireOK
  <2>4. QED
        BY <2>1, <2>3, DownOnly DEF serverVars, MidRegistration
<1>4. CASE ReceiveRejected(e) \/ ReceiveDisconnect(e)
  <2>1. handler' = handler /\ \E b : LeaveSocket(e, b, buffer)
        BY <1>4 DEF ReceiveRejected, ReceiveDisconnect, serverVars
  <2>2. QED
        BY <2>1, LeaveSocketOK, LeftOK
<1>5. QED
      BY <1>2, <1>3, <1>4 DEF RunnerStep

\* So does every step of a connection handler.
LEMMA HandlerWireOK ==
    ASSUME TypeInv, NEW e \in Epochs,
           \/ Authenticate(e) \/ Reject(e) \/ RunnerConnected(e) \/ RunnerConnectedFails(e)
           \/ InsertEntry(e) \/ Reconcile(e) \/ HandleEvent(e) \/ SocketEnds(e)
           \/ RunnerDisconnected(e) \/ RunnerDisconnectedFails(e)
    PROVE  WireOK'
<1>1. WireOK /\ UpShaped(up[e]) /\ down \in [Epochs -> Seq(Message)]
      BY DEF TypeInv, WireOK
<1>2. CASE Authenticate(e) \/ RunnerConnected(e)
  <2>1. /\ UNCHANGED wireVars
        /\ \/ \E t \in Tokens : handler' =
                [handler EXCEPT ![e] = [phase |-> "authenticated", token |-> t]]
           \/ handler' = [handler EXCEPT ![e].phase = "stored"]
        BY <1>2 DEF Authenticate, RunnerConnected
  <2>2. up[e] # <<>>
        BY <1>1, <1>2 DEF Authenticate, Registering, RunnerConnected, WireOK, MidRegistration
  <2>3. \A x \in Epochs \ {e} : MidRegistration(x)' => MidRegistration(x)
        BY <2>1, MidKept, MidPhase
  <2>4. QED
        BY <1>1, <2>1, <2>2, <2>3 DEF WireOK, wireVars, UpShaped
<1>3. CASE Reject(e)
  <2>1. /\ handler' = [handler EXCEPT ![e] = IdleHandler] /\ up' = [up EXCEPT ![e] = <<>>]
        /\ down' = Sent(down, e, <<Msg("rejected", NoToken, {})>>)
        BY <1>3 DEF Reject
  <2>2. UpShaped(<<>>)
        BY DEF UpShaped
  <2>3. down' \in [Epochs -> Seq(Message)]
        BY <1>1, <2>1, SentOK, MessagesOK
  <2>4. QED
        BY <2>1, <2>2, <2>3, MidKept, IdleIsRow, UpOne
<1>4. CASE RunnerConnectedFails(e)
  <2> DEFINE h == [IdleHandler EXCEPT !.phase = "unregistered"]
  <2>1. /\ handler' = [handler EXCEPT ![e] = h] /\ down' = down
        /\ up' = [up EXCEPT ![e] = Tail(up[e])] /\ handler[e].phase = "authenticated"
        BY <1>4 DEF RunnerConnectedFails
  <2>2. UpShaped(Tail(up[e])) /\ h.phase = "unregistered"
        BY <1>1, <2>1, TailShaped DEF WireOK, MidRegistration, IdleHandler
  <2> HIDE DEF h
  <2>3. QED
        BY <1>1, <2>1, <2>2, MidKept, UpOne
<1>5. CASE InsertEntry(e)
  <2> DEFINE h == [IdleHandler EXCEPT !.phase = "inserted"]
             told == IF entry.epoch \notin {e, NoEpoch}
                     THEN Sent(down, entry.epoch, <<Disconnect>>) ELSE down
  <2>1. /\ handler' = [handler EXCEPT ![e] = h] /\ handler[e].phase = "stored" /\ up' = up
        /\ down' = Sent(told, e, <<Msg("registered", handler[e].token, {})>>)
        BY <1>5 DEF InsertEntry
  <2>2. told \in [Epochs -> Seq(Message)]
        BY <1>1, SentOK, MessagesOK
  <2>3. handler[e].token \in Tokens \cup {NoToken}
        BY DEF TypeInv, ServerOK, HandlerRow
  <2> HIDE DEF told, h
  <2>4. down' \in [Epochs -> Seq(Message)]
        BY <2>1, <2>2, <2>3, SentOK, MessagesOK
  <2>5. \A x \in Epochs : MidRegistration(x)' => MidRegistration(x)
        BY <2>1, MidKept DEF MidRegistration
  <2>6. QED
        BY <2>1, <2>4, <2>5, DownOnly
<1>6. CASE Reconcile(e)
  <2> DEFINE stale == Head(up[e]).runs \ Accepted(Head(up[e]).runs)
             stop == IF stale = {} THEN <<>> ELSE <<Msg("stop", NoToken, stale)>>
  <2>1. /\ up' = [up EXCEPT ![e] = Tail(up[e])] /\ handler[e].phase = "inserted"
        /\ handler' = [handler EXCEPT ![e].phase = "served"]
        /\ down' = Sent(down, e, stop) \/ down' = Sent(down, e, <<Disconnect>>)
        BY <1>6 DEF Reconcile
  <2>2. up[e] # <<>>
        BY <1>1, <2>1 DEF WireOK, MidRegistration
  <2>3. stop \in Seq(Message)
    <3>1. stale \in SUBSET Runs
          BY <2>2, HeadClaims
    <3> HIDE DEF stale
    <3>2. QED
          BY <3>1, MessagesOK
  <2> HIDE DEF stop
  <2>4. UpShaped(Tail(up[e]))
        BY <1>1, <2>2, TailShaped
  <2>5. Sent(down, e, stop) \in [Epochs -> Seq(Message)]
        BY <1>1, <2>3, SentOK
  <2>6. Sent(down, e, <<Disconnect>>) \in [Epochs -> Seq(Message)]
        BY <1>1, SentOK, MessagesOK
  <2>7. ~MidRegistration(e)' /\ \A x \in Epochs \ {e} : MidRegistration(x)' => MidRegistration(x)
    <3>1. "served" \notin {"authenticated", "stored", "inserted"}
          OBVIOUS
    <3>2. QED
          BY <2>1, <3>1, MidPhase
  <2>8. QED
        BY <2>1, <2>4, <2>5, <2>6, <2>7, UpOne
<1>7. CASE HandleEvent(e)
  <2>1. /\ up' = [up EXCEPT ![e] = Tail(up[e])] /\ handler' = handler /\ down' = down
        /\ handler[e].phase \in {"served", "unregistered"} /\ up[e] # <<>>
        BY <1>7 DEF HandleEvent, serverVars
  <2>2. UpShaped(Tail(up[e]))
        BY <1>1, <2>1, TailShaped
  <2>3. QED
        BY <1>1, <2>1, <2>2, UpOne DEF MidRegistration
<1>8. CASE SocketEnds(e) \/ RunnerDisconnected(e) \/ RunnerDisconnectedFails(e)
  <2>1. /\ UNCHANGED wireVars
        /\ \/ handler' = [handler EXCEPT ![e] = IdleHandler]
           \/ handler' = [handler EXCEPT ![e].phase = "closing"]
        BY <1>8 DEF SocketEnds, RunnerDisconnected, RunnerDisconnectedFails
  <2>2. \A x \in Epochs : MidRegistration(x)' => MidRegistration(x)
        BY <2>1, MidKept, MidPhase, IdleIsRow
  <2>3. QED
        BY <1>1, <2>1, <2>2, DownOnly DEF wireVars
<1>9. QED
      BY <1>2, <1>3, <1>4, <1>5, <1>6, <1>7, <1>8

\* The wires keep their types.
LEMMA WireStep ==
    ASSUME TypeInv, [Next]_vars
    PROVE  WireOK'
<1>1. WireOK /\ down \in [Epochs -> Seq(Message)] /\ RunnerOK
      BY DEF TypeInv, WireOK
<1>2. CASE UNCHANGED <<wireVars, handler>>
      BY <1>1, <1>2, DownOnly DEF wireVars, MidRegistration
<1>3. ASSUME NEW e \in Epochs,
             MarkUnclaimedFails(e) \/ HeartbeatRejected(e) \/ RotateCredential(e)
      PROVE  WireOK'
  <2>1. down' = Sent(down, e, <<Disconnect>>) /\ UNCHANGED <<handler, up>>
        BY <1>3 DEF MarkUnclaimedFails, HeartbeatRejected, RotateCredential, serverVars
  <2>2. QED
        BY <1>1, <2>1, SentOK, MessagesOK, DownOnly DEF MidRegistration
<1>4. ASSUME NEW r \in Runs, RunEnds(r) PROVE WireOK'
  <2>1. /\ down' = down /\ handler' = handler
        /\ up' = up \/ (bus \in Epochs /\ up' = [up EXCEPT ![bus] = Append(@, Ended(r))])
        BY <1>1, <1>4 DEF RunEnds, SendEvent, serverVars, RunnerOK
  <2>2. CASE up' = up
        BY <1>1, <2>1, <2>2, DownOnly DEF MidRegistration
  <2>3. CASE bus \in Epochs /\ up' = [up EXCEPT ![bus] = Append(@, Ended(r))]
    <3>1. UpShaped(Append(up[bus], Ended(r))) /\ Append(up[bus], Ended(r)) # <<>>
          BY <2>3, AppendShaped DEF TypeInv, WireOK
    <3>2. QED
          BY <1>1, <2>1, <2>3, <3>1, UpOne DEF MidRegistration
  <2>4. QED
        BY <2>1, <2>2, <2>3
<1>5. ASSUME NEW r \in Runs, SendStart(r) PROVE WireOK'
  <2>1. /\ down' = Sent(down, entry.epoch, <<Msg("start", NoToken, {r})>>)
        /\ UNCHANGED <<handler, up>>
        BY <1>5 DEF SendStart
  <2>2. QED
        BY <1>1, <2>1, SentOK, MessagesOK, DownOnly DEF MidRegistration
<1>6. CASE SocketBreaks
  <2>1. link \in Epochs /\ LeaveSocket(link, NoEpoch, buffer) /\ handler' = handler
        BY <1>1, <1>6 DEF SocketBreaks, RunnerOK, serverVars
  <2>2. QED
        BY <2>1, LeaveSocketOK, LeftOK
<1>7. CASE RunnerCrashes
  <2>1. handler' = handler
        BY <1>7 DEF RunnerCrashes, serverVars
  <2>2. CASE link = NoEpoch
        BY <1>1, <1>7, <2>1, <2>2, DownOnly DEF RunnerCrashes, MidRegistration
  <2>3. CASE link # NoEpoch
    <3>1. link \in Epochs /\ down' = [down EXCEPT ![link] = <<>>]
          BY <1>1, <1>7, <2>3 DEF RunnerCrashes, RunnerOK
    <3>2. PICK n \in (IF MidRegistration(link) THEN 1 ELSE 0)..Len(up[link]) :
            up' = [up EXCEPT ![link] = SubSeq(@, 1, n)]
          BY <1>7, <2>3 DEF RunnerCrashes
    <3>3. Len(up[link]) \in Nat
          BY <1>1, <3>1 DEF WireOK
    <3>4. n \in Nat /\ n \in 0..Len(up[link]) /\ (MidRegistration(link) => n > 0)
      <4>1. CASE MidRegistration(link)
            BY <3>2, <3>3, <4>1
      <4>2. CASE ~MidRegistration(link)
            BY <3>2, <3>3, <4>2
      <4>3. QED
            BY <4>1, <4>2
    <3>5. Left(link, n)
          BY <3>1, <3>2, <3>4 DEF Left
    <3>6. QED
          BY <2>1, <3>1, <3>4, <3>5, LeftOK
  <2>4. QED
        BY <2>2, <2>3
<1>8. CASE ForgetRevoked
  <2>1. /\ down' = down \/ down' = Sent(down, entry.epoch, <<Disconnect>>)
        /\ UNCHANGED <<handler, up>>
        BY <1>8 DEF ForgetRevoked
  <2>2. Sent(down, entry.epoch, <<Disconnect>>) \in [Epochs -> Seq(Message)]
        BY <1>1, SentOK, MessagesOK
  <2>3. QED
        BY <1>1, <2>1, <2>2, DownOnly DEF MidRegistration
<1>9. CASE ServerRestarts
  <2>1. /\ up' = [e \in Epochs |-> <<>>] /\ down' = [e \in Epochs |-> <<>>]
        /\ handler' = [e \in Epochs |-> IdleHandler]
        BY <1>9 DEF ServerRestarts
  <2>2. QED
        BY <2>1, IdleIsRow DEF WireOK, UpShaped, MidRegistration
<1>10. ASSUME NEW e \in Epochs,
              MarkUnclaimed(e) \/ EnableDispatch(e) \/ GraceExpires(e) \/ GraceExpiryFails(e)
       PROVE  UNCHANGED <<wireVars, handler>>
      BY <1>10 DEF MarkUnclaimed, EnableDispatch, GraceExpires, GraceExpiryFails
<1>11. ASSUME NEW r \in Runs,
              \/ SelectRunner(r) \/ CreateTaskRun(r) \/ StartFails(r)
              \/ RunRemoved(r) \/ WithdrawRun(r)
       PROVE  UNCHANGED <<wireVars, handler>>
      BY <1>11 DEF SelectRunner, CreateTaskRun, StartFails, RunRemoved, WithdrawRun, serverVars
<1>12. CASE RevokeRunner \/ ReEnroll \/ CredentialExpires \/ UNCHANGED vars
      BY <1>2, <1>12 DEF RevokeRunner, ReEnroll, CredentialExpires, vars, serverVars
<1>13. QED
      BY <1>2, <1>3, <1>4, <1>5, <1>6, <1>7, <1>8, <1>9, <1>10, <1>11, <1>12,
         RunnerWireOK, HandlerWireOK
      DEF Next, HandlerStep, TaskStep, PassStep

\* Faults are counted up to their bound.
LEMMA FaultsStep ==
    ASSUME TypeInv, [Next]_vars
    PROVE  faults' \in 0..MaxFaults
<1>1. faults \in 0..MaxFaults /\ MaxFaults \in Nat
      BY ConnectionConstants DEF TypeInv
<1>2. faults' = faults \/ AnotherFault
  <2>1. ASSUME NEW e \in Epochs, RunnerStep(e) \/ HandlerStep(e)
        PROVE  faults' = faults \/ AnotherFault
        BY <2>1 DEF RunnerStep, HandlerStep, Connect, ReceiveRegistered, ReceiveRejected,
              ReceiveDisconnect, ReceiveStart, ReceiveStop, Authenticate, Reject,
              RunnerConnected, InsertEntry, Reconcile, HandleEvent, HeartbeatRejected,
              SocketEnds, RunnerDisconnected
  <2>2. ASSUME NEW e \in Epochs,
               \/ TaskStep(e) \/ RotateCredential(e) \/ RunnerConnectedFails(e)
               \/ MarkUnclaimedFails(e) \/ RunnerDisconnectedFails(e) \/ GraceExpiryFails(e)
        PROVE  faults' = faults \/ AnotherFault
        BY <2>2 DEF TaskStep, MarkUnclaimed, EnableDispatch, GraceExpires, RotateCredential,
              RunnerConnectedFails, MarkUnclaimedFails, RunnerDisconnectedFails,
              GraceExpiryFails
  <2>3. ASSUME NEW r \in Runs,
               RunEnds(r) \/ RunRemoved(r) \/ WithdrawRun(r) \/ SelectRunner(r) \/ PassStep(r)
        PROVE  faults' = faults \/ AnotherFault
        BY <2>3 DEF RunEnds, RunRemoved, WithdrawRun, SelectRunner, PassStep, CreateTaskRun,
              SendStart, StartFails
  <2>4. CASE SocketBreaks \/ RunnerCrashes \/ ServerRestarts \/ RevokeRunner \/ ForgetRevoked
             \/ ReEnroll \/ CredentialExpires \/ UNCHANGED vars
        BY <2>4 DEF SocketBreaks, RunnerCrashes, ServerRestarts, RevokeRunner, ForgetRevoked,
              ReEnroll, CredentialExpires, vars
  <2>5. QED
        BY <2>1, <2>2, <2>3, <2>4 DEF Next
<1>3. QED
      BY <1>1, <1>2 DEF AnotherFault

\* The initial state has the types.
LEMMA InitTypes == Init => TypeInv
<1> SUFFICES ASSUME Init PROVE TypeInv
    OBVIOUS
<1>1. StoreOK
      BY DEF Init, StoreOK, NodeRow, CredentialRow, RunRow
<1>2. ServerOK
      BY EmptyRows, IdleIsRow DEF Init, ServerOK
<1>3. RunnerOK
      BY DEF Init, RunnerOK
<1>4. WireOK
      BY IdleIsRow DEF Init, WireOK, UpShaped, MidRegistration
<1>5. QED
      BY <1>1, <1>2, <1>3, <1>4, ConnectionConstants DEF Init, TypeInv

\* Every step keeps the types.
LEMMA StepTypes == TypeInv /\ WatchInv /\ [Next]_vars => TypeInv'
BY StoreStep, ServerStep, RunnerStepOK, WireStep, FaultsStep DEF TypeInv

-----------------------------------------------------------------------------
(***************************************************************************)
(* Phases.  Until its handler has reconciled the claims a socket has no    *)
(* finalization, and what is dispatched to has finished it.                *)
(***************************************************************************)
Early == {"reading", "authenticated", "stored", "inserted"}
PhaseInv ==
    /\ \A e \in Epochs : handler[e].phase \in Early => final[e].phase = "none"
    /\ entry.ready => entry.epoch \in Epochs /\ final[entry.epoch].phase = "done"
    /\ \A r \in Runs : pass[r].stage # "idle" =>
          pass[r].epoch \in Epochs /\ final[pass[r].epoch].phase = "done"

\* A handler goes on, with no finalization under way when it is early.
LEMMA HandlerPhases ==
    ASSUME TypeInv, PhaseInv, NEW e \in Epochs, NEW h,
           handler' = [handler EXCEPT ![e] = h], UNCHANGED <<final, pass>>,
           h.phase \in Early => final[e].phase = "none",
           entry' = entry \/ ~entry'.ready
    PROVE  PhaseInv'
<1>1. handler \in [Epochs -> HandlerRow]
      BY DEF TypeInv, ServerOK
<1>2. \A x \in Epochs : handler'[x].phase \in Early => final[x].phase = "none"
      BY <1>1 DEF PhaseInv
<1>3. QED
      BY <1>2 DEF PhaseInv

\* Only one epoch's finalization changes; nothing that is done is undone, unless
\* no pass and no entry uses the epoch.
LEMMA FinalPhases ==
    ASSUME TypeInv, PhaseInv, NEW e \in Epochs, NEW f, final' = [final EXCEPT ![e] = f],
           UNCHANGED pass,
           handler'[e].phase \in Early => f.phase = "none",
           \A x \in Epochs \ {e} : handler'[x] = handler[x],
           f.phase = "done" \/ (\A r \in Runs : pass[r].stage # "idle" => pass[r].epoch # e),
           entry'.ready => entry'.epoch = entry.epoch
                           /\ (entry.ready \/ (entry.epoch = e /\ f.phase = "done")),
           f.phase = "done" \/ ~entry'.ready \/ entry.epoch # e
    PROVE  PhaseInv'
<1>1. final \in [Epochs -> FinalRow] /\ pass \in [Runs -> PassRow]
      BY DEF TypeInv, ServerOK
<1>2. \A x \in Epochs : final'[x] = IF x = e THEN f ELSE final[x]
      BY <1>1
<1>3. \A x \in Epochs : handler'[x].phase \in Early => final'[x].phase = "none"
      BY <1>2 DEF PhaseInv
<1>4. entry'.ready => entry'.epoch \in Epochs /\ final'[entry'.epoch].phase = "done"
      BY <1>2 DEF PhaseInv
<1>5. \A r \in Runs : pass'[r].stage # "idle" =>
          pass'[r].epoch \in Epochs /\ final'[pass'[r].epoch].phase = "done"
      BY <1>2 DEF PhaseInv
<1>6. QED
      BY <1>3, <1>4, <1>5 DEF PhaseInv

\* Before reconciliation a handler has no finalization.
LEMMA EarlyPhases ==
    ASSUME TypeInv, PhaseInv, NEW e \in Epochs,
           \/ Connect(e) \/ Authenticate(e) \/ Reject(e) \/ RunnerConnected(e)
           \/ RunnerConnectedFails(e) \/ InsertEntry(e)
    PROVE  PhaseInv'
<1>1. handler \in [Epochs -> HandlerRow] /\ final \in [Epochs -> FinalRow]
      BY DEF TypeInv, ServerOK
<1>2. CASE Connect(e)
  <2>1. /\ UNCHANGED <<entry, pass>> /\ final' = [final EXCEPT ![e] = NoFinal]
        /\ handler' = [handler EXCEPT ![e].phase = "reading"]
        /\ entry.epoch # e /\ \A r \in Runs : pass[r].epoch # e
        BY <1>2 DEF Connect, FreshEpoch
  <2>2. \A x \in Epochs \ {e} : handler'[x] = handler[x]
        BY <1>1, <2>1
  <2>3. QED
        BY <2>1, <2>2, EmptyRows, FinalPhases DEF PhaseInv
<1>3. CASE Authenticate(e)
  <2>1. PICK t : handler' = [handler EXCEPT ![e] = [phase |-> "authenticated", token |-> t]]
        BY <1>3 DEF Authenticate
  <2>2. /\ UNCHANGED <<final, entry, pass>> /\ handler[e].phase = "reading"
        BY <1>3 DEF Authenticate, Registering
  <2>3. final[e].phase = "none"
        BY <2>2 DEF PhaseInv, Early
  <2>4. QED
        BY <2>1, <2>2, <2>3, HandlerPhases
<1>4. CASE Reject(e)
  <2>1. UNCHANGED <<final, entry, pass>> /\ handler' = [handler EXCEPT ![e] = IdleHandler]
        BY <1>4 DEF Reject
  <2>2. IdleHandler.phase \notin Early
        BY IdleIsRow DEF Early
  <2>3. QED
        BY <2>1, <2>2, HandlerPhases
<1>5. CASE RunnerConnected(e)
  <2> DEFINE h == [handler[e] EXCEPT !.phase = "stored"]
  <2>1. /\ UNCHANGED <<final, entry, pass>> /\ handler[e].phase = "authenticated"
        /\ handler' = [handler EXCEPT ![e] = h]
        BY <1>5 DEF RunnerConnected
  <2>2. final[e].phase = "none"
        BY <2>1 DEF PhaseInv, Early
  <2> HIDE DEF h
  <2>3. QED
        BY <2>1, <2>2, HandlerPhases
<1>6. CASE RunnerConnectedFails(e)
  <2> DEFINE h == [IdleHandler EXCEPT !.phase = "unregistered"]
  <2>1. /\ UNCHANGED <<final, entry, pass>> /\ handler[e].phase = "authenticated"
        /\ handler' = [handler EXCEPT ![e] = h]
        BY <1>6 DEF RunnerConnectedFails
  <2>2. final[e].phase = "none"
        BY <2>1 DEF PhaseInv, Early
  <2> HIDE DEF h
  <2>3. QED
        BY <2>1, <2>2, HandlerPhases
<1>7. CASE InsertEntry(e)
  <2> DEFINE h == [IdleHandler EXCEPT !.phase = "inserted"]
  <2>1. /\ UNCHANGED <<final, pass>> /\ handler[e].phase = "stored"
        /\ handler' = [handler EXCEPT ![e] = h] /\ ~entry'.ready
        BY <1>7 DEF InsertEntry
  <2>2. final[e].phase = "none"
        BY <2>1 DEF PhaseInv, Early
  <2> HIDE DEF h
  <2>3. QED
        BY <2>1, <2>2, HandlerPhases
<1>8. QED
      BY <1>2, <1>3, <1>4, <1>5, <1>6, <1>7

\* Nothing is dispatched to an epoch whose finalization has not ended.
LEMMA NotDone ==
    ASSUME PhaseInv, NEW e \in Epochs, final[e].phase # "done"
    PROVE  /\ ~(entry.ready /\ entry.epoch = e)
           /\ \A r \in Runs : pass[r].stage # "idle" => pass[r].epoch # e
BY DEF PhaseInv

\* Finalization starts with reconciliation and follows its phases.
LEMMA FinalizationPhases ==
    ASSUME TypeInv, PhaseInv, NEW e \in Epochs,
           Reconcile(e) \/ MarkUnclaimed(e) \/ MarkUnclaimedFails(e) \/ EnableDispatch(e)
    PROVE  PhaseInv'
<1>1. handler \in [Epochs -> HandlerRow] /\ final \in [Epochs -> FinalRow]
      BY DEF TypeInv, ServerOK
<1>2. CASE Reconcile(e)
  <2> DEFINE h == [handler[e] EXCEPT !.phase = "served"]
  <2>1. /\ UNCHANGED <<entry, pass>> /\ handler[e].phase = "inserted"
        /\ handler' = [handler EXCEPT ![e] = h]
        BY <1>2 DEF Reconcile
  <2>2. final[e].phase = "none"
        BY <2>1 DEF PhaseInv, Early
  <2>3. h.phase = "served" /\ h.phase \notin Early
        BY <1>1 DEF HandlerRow, Early
  <2> HIDE DEF h
  <2>4. CASE final' = final
        BY <2>1, <2>2, <2>4, HandlerPhases
  <2>5. CASE final' # final
    <3>1. PICK kept : final' = [final EXCEPT ![e] = [phase |-> "waiting", kept |-> kept]]
          BY <1>2, <2>5 DEF Reconcile
    <3>2. handler'[e].phase \notin Early /\ \A x \in Epochs \ {e} : handler'[x] = handler[x]
          BY <1>1, <2>1, <2>3
    <3>3. ~(entry.ready /\ entry.epoch = e)
          /\ \A r \in Runs : pass[r].stage # "idle" => pass[r].epoch # e
          BY <2>2, NotDone
    <3>4. QED
          BY <2>1, <3>1, <3>2, <3>3, FinalPhases
  <2>6. QED
        BY <2>4, <2>5
<1>3. CASE MarkUnclaimed(e) \/ MarkUnclaimedFails(e)
  <2>1. PICK p \in {"marked", "done"} : final' = [final EXCEPT ![e].phase = p]
        BY <1>3 DEF MarkUnclaimed, MarkUnclaimedFails
  <2>2. UNCHANGED <<entry, handler, pass>> /\ final[e].phase = "waiting"
        BY <1>3 DEF MarkUnclaimed, MarkUnclaimedFails
  <2> DEFINE f == [final[e] EXCEPT !.phase = p]
  <2>3. final' = [final EXCEPT ![e] = f]
        BY <2>1
  <2> HIDE DEF f
  <2>4. handler'[e].phase \notin Early
        BY <2>2 DEF PhaseInv
  <2>5. ~(entry.ready /\ entry.epoch = e)
        /\ \A r \in Runs : pass[r].stage # "idle" => pass[r].epoch # e
        BY <2>2, NotDone
  <2>6. QED
        BY <2>2, <2>3, <2>4, <2>5, FinalPhases
<1>4. CASE EnableDispatch(e)
  <2>1. UNCHANGED <<handler, pass>> /\ final[e].phase = "marked"
        BY <1>4 DEF EnableDispatch
  <2>2. handler'[e].phase \notin Early
        BY <2>1 DEF PhaseInv
  <2>3. ~(entry.ready /\ entry.epoch = e)
        /\ \A r \in Runs : pass[r].stage # "idle" => pass[r].epoch # e
        BY <2>1, NotDone
  <2>4. CASE entry.epoch = e
    <3> DEFINE f == [final[e] EXCEPT !.phase = "done"]
    <3>1. final' = [final EXCEPT ![e] = f] /\ entry' = [entry EXCEPT !.ready = TRUE]
          BY <1>4, <2>4 DEF EnableDispatch
    <3>2. f.phase = "done" /\ entry'.epoch = entry.epoch
          BY <1>1, <3>1 DEF FinalRow, TypeInv, ServerOK, Entry
    <3> HIDE DEF f
    <3>3. QED
          BY <2>1, <2>2, <2>3, <2>4, <3>1, <3>2, FinalPhases
  <2>5. CASE entry.epoch # e
    <3>1. final' = [final EXCEPT ![e] = NoFinal] /\ entry' = entry
          BY <1>4, <2>5 DEF EnableDispatch
    <3>2. QED
          BY <2>1, <2>2, <2>3, <2>5, <3>1, FinalPhases
  <2>6. QED
        BY <2>4, <2>5
<1>5. QED
      BY <1>2, <1>3, <1>4

\* Every step keeps phase and finalization of a handler in agreement.
LEMMA StepPhases ==
    ASSUME TypeInv, PhaseInv, [Next]_vars
    PROVE  PhaseInv'
<1>1. handler \in [Epochs -> HandlerRow] /\ final \in [Epochs -> FinalRow]
      /\ pass \in [Runs -> PassRow]
      BY DEF TypeInv, ServerOK
<1>2. CASE UNCHANGED serverVars
      BY <1>2 DEF PhaseInv, serverVars
<1>3. ASSUME NEW e \in Epochs, HeartbeatRejected(e) PROVE PhaseInv'
      BY <1>3, EmptyRows DEF HeartbeatRejected, PhaseInv
<1>4. ASSUME NEW e \in Epochs, SocketEnds(e) PROVE PhaseInv'
  <2> DEFINE closing == [handler[e] EXCEPT !.phase = "closing"]
  <2>1. /\ UNCHANGED <<final, pass>>
        /\ entry' = entry \/ entry' = NoEntry
        /\ \/ handler' = [handler EXCEPT ![e] = closing]
           \/ handler' = [handler EXCEPT ![e] = IdleHandler]
        BY <1>4 DEF SocketEnds
  <2>2. closing.phase \notin Early /\ IdleHandler.phase \notin Early
        BY <1>1, IdleIsRow DEF HandlerRow, Early
  <2> HIDE DEF closing
  <2>3. QED
        BY <2>1, <2>2, EmptyRows, HandlerPhases
<1>5. ASSUME NEW e \in Epochs, RunnerDisconnected(e) \/ RunnerDisconnectedFails(e)
      PROVE  PhaseInv'
  <2>1. UNCHANGED <<final, pass, entry>> /\ handler' = [handler EXCEPT ![e] = IdleHandler]
        BY <1>5 DEF RunnerDisconnected, RunnerDisconnectedFails
  <2>2. IdleHandler.phase \notin Early
        BY IdleIsRow DEF Early
  <2>3. QED
        BY <2>1, <2>2, HandlerPhases
<1>6. ASSUME NEW e \in Epochs, GraceExpires(e) \/ GraceExpiryFails(e) PROVE PhaseInv'
      BY <1>6 DEF GraceExpires, GraceExpiryFails, PhaseInv
<1>7. ASSUME NEW r \in Runs, SelectRunner(r) \/ PassStep(r) PROVE PhaseInv'
  <2>1. UNCHANGED <<handler, final, entry>>
        BY <1>7 DEF SelectRunner, PassStep, CreateTaskRun, SendStart, StartFails
  <2>2. \A x \in Runs \ {r} : pass'[x] = pass[x]
        BY <1>1, <1>7 DEF SelectRunner, PassStep, CreateTaskRun, SendStart, StartFails
  <2>3. pass'[r].stage = "idle" \/ (pass[r].stage # "idle" /\ pass'[r].epoch = pass[r].epoch)
        \/ (entry.ready /\ pass'[r].epoch = entry.epoch)
    <3>1. CASE SelectRunner(r)
          BY <1>1, <3>1 DEF SelectRunner
    <3>2. CASE CreateTaskRun(r)
          BY <1>1, <3>2 DEF CreateTaskRun, PassRow
    <3>3. CASE SendStart(r) \/ StartFails(r)
          BY <1>1, <3>3, EmptyRows DEF SendStart, StartFails
    <3>4. QED
          BY <1>7, <3>1, <3>2, <3>3 DEF PassStep
  <2>4. QED
        BY <2>1, <2>2, <2>3 DEF PhaseInv
<1>8. CASE RevokeRunner
      BY <1>8 DEF RevokeRunner, PhaseInv
<1>9. CASE ForgetRevoked
      BY <1>9, EmptyRows DEF ForgetRevoked, PhaseInv
<1>10. CASE ServerRestarts
      BY <1>10, EmptyRows, IdleIsRow DEF ServerRestarts, PhaseInv, Early
<1>11. QED
      BY <1>2, <1>3, <1>4, <1>5, <1>6, <1>7, <1>8, <1>9, <1>10, EarlyPhases,
         FinalizationPhases, ServerWriters

-----------------------------------------------------------------------------
(***************************************************************************)
(* What is dispatched to is reconciled.                                    *)
(***************************************************************************)
Claimed(e) ==
    \A r \in Runs : run[r].status = "active" => run[r].newer \/ r \in final[e].kept

\* Its runs are reconciled, or about to be dispatched to, or dispatched to.
Reconciled(e) == final[e].phase = "marked" \/ (entry.ready /\ entry.epoch = e)
ReadyInv == \A e \in Epochs : Reconciled(e) /\ Connected(e) => Claimed(e)

\* Nobody connects, and runs only end or start anew.
RunsSettle ==
    \A r \in Runs : run'[r].status = "active" =>
                       run'[r].newer \/ (run[r].status = "active" /\ run'[r] = run[r])

\* A finalization that does not change still covers the runs it covered.
LEMMA ClaimedKept ==
    ASSUME NEW e, RunsSettle, Claimed(e), final'[e] = final[e]
    PROVE  Claimed(e)'
BY DEF RunsSettle, Claimed

\* A reconciled connection stays so when nobody connects, no finalization
\* changes and runs only settle.
LEMMA ReadyKept ==
    ASSUME ReadyInv, RunsSettle, final' = final,
           \A e \in Epochs : Connected(e)' => Connected(e),
           entry' = entry \/ ~entry'.ready
    PROVE  ReadyInv'
<1>1. ASSUME NEW e \in Epochs, Reconciled(e)', Connected(e)'
      PROVE  Claimed(e)'
  <2>1. Reconciled(e) /\ Connected(e)
        BY <1>1 DEF Reconciled
  <2>2. QED
        BY <2>1, ClaimedKept DEF ReadyInv
<1>2. QED
      BY <1>1 DEF ReadyInv

\* Marking runs lost only settles active runs, and leaves none of the named
\* ones active.
LEMMA LostSettles ==
    ASSUME TypeInv, NEW rs, MarkLost(rs)
    PROVE  /\ RunsSettle
           /\ \A r \in Runs : run'[r].status = "active" =>
                                 run[r].status = "active" /\ r \notin rs
           /\ \A r \in Runs : run'[r] = run[r]
                              \/ (run[r].status = "active" /\ run'[r].status = "lost")
<1>1. run \in [Runs -> RunRow]
      BY DEF TypeInv, StoreOK
<1>2. QED
      BY <1>1 DEF MarkLost, RunsSettle, RunRow

\* The steps of a finalization itself.
LEMMA FinalizationReady ==
    ASSUME TypeInv, PhaseInv, ReadyInv, NEW e \in Epochs,
           Connect(e) \/ Reconcile(e) \/ MarkUnclaimed(e) \/ MarkUnclaimedFails(e)
           \/ EnableDispatch(e)
    PROVE  ReadyInv'
<1>1. final \in [Epochs -> FinalRow] /\ entry \in Entry /\ node \in NodeRow
      /\ run \in [Runs -> RunRow]
      BY DEF TypeInv, ServerOK, StoreOK
<1>2. /\ \A x \in Epochs \ {e} : final'[x] = final[x]
      /\ node' = node
      BY <1>1 DEF Connect, Reconcile, MarkUnclaimed, MarkUnclaimedFails, EnableDispatch, storeVars
<1>3. RunsSettle
  <2>1. CASE run' = run
        BY <2>1 DEF RunsSettle
  <2>2. CASE run' # run
    <3>1. \E rs : MarkLost(rs)
          BY <2>2 DEF Connect, Reconcile, MarkUnclaimed, MarkUnclaimedFails, EnableDispatch,
                      storeVars
    <3>2. QED
          BY <3>1, LostSettles
  <2>3. QED
        BY <2>1, <2>2
<1>4. /\ entry'.epoch = entry.epoch
      /\ entry'.ready => entry.ready \/ entry.epoch = e
      BY <1>1 DEF Connect, Reconcile, MarkUnclaimed, MarkUnclaimedFails, EnableDispatch, Entry
<1>5. ASSUME NEW x \in Epochs \ {e}, Reconciled(x)', Connected(x)'
      PROVE  Claimed(x)'
  <2>1. Reconciled(x) /\ Connected(x)
        BY <1>2, <1>4, <1>5 DEF Reconciled, Connected
  <2>2. QED
        BY <1>2, <1>3, <2>1, ClaimedKept DEF ReadyInv
<1>6. ASSUME Reconciled(e)', Connected(e)'
      PROVE  Claimed(e)'
  <2>1. Connected(e)
        BY <1>2, <1>6 DEF Connected
  <2>2. CASE Connect(e)
    <3>1. final'[e].phase = "none" /\ entry.epoch # e /\ entry' = entry
          BY <1>1, <2>2, EmptyRows DEF Connect, FreshEpoch
    <3>2. QED
          BY <1>6, <3>1 DEF Reconciled
  <2>3. CASE Reconcile(e)
    <3>1. final[e].phase = "none" /\ entry' = entry /\ final'[e].phase # "marked"
          BY <1>1, <2>3 DEF Reconcile, PhaseInv, Early
    <3>2. QED
          BY <1>6, <3>1, NotDone DEF Reconciled
  <2>4. CASE MarkUnclaimed(e)
    <3>1. /\ MarkLost({r \in Runs : ~run[r].newer /\ r \notin final[e].kept})
          /\ final' = [final EXCEPT ![e].phase = "marked"]
          BY <2>1, <2>4 DEF MarkUnclaimed
    <3>2. final'[e].kept = final[e].kept
          BY <1>1, <3>1 DEF FinalRow
    <3>3. ASSUME NEW r \in Runs, run'[r].status = "active"
          PROVE  run'[r].newer \/ r \in final'[e].kept
      <4> DEFINE lost == {q \in Runs : ~run[q].newer /\ q \notin final[e].kept}
      <4>1. run'[r] = run[r] /\ r \notin lost
        <5> HIDE DEF lost
        <5>1. MarkLost(lost)
              BY <3>1 DEF lost
        <5>2. QED
              BY <3>3, <5>1, LostSettles
      <4>2. QED
            BY <3>2, <4>1
    <3>4. QED
          BY <3>3 DEF Claimed
  <2>5. CASE MarkUnclaimedFails(e)
    <3>1. final[e].phase = "waiting" /\ entry' = entry /\ final'[e].phase = "done"
          BY <1>1, <2>5 DEF MarkUnclaimedFails, FinalRow
    <3>2. QED
          BY <1>6, <3>1, NotDone DEF Reconciled
  <2>6. CASE EnableDispatch(e)
    <3>1. final[e].phase = "marked" /\ run' = run
          BY <2>6 DEF EnableDispatch, storeVars
    <3>2. Claimed(e)
          BY <2>1, <3>1 DEF ReadyInv, Reconciled
    <3>3. CASE entry.epoch = e
      <4>1. final'[e].kept = final[e].kept
            BY <1>1, <2>6, <3>3 DEF EnableDispatch, FinalRow
      <4>2. QED
            BY <3>1, <3>2, <4>1 DEF Claimed
    <3>4. CASE entry.epoch # e
      <4>1. final'[e].phase = "none"
            BY <1>1, <2>6, <3>4, EmptyRows DEF EnableDispatch
      <4>2. QED
            BY <1>4, <1>6, <3>4, <4>1 DEF Reconciled
    <3>5. QED
          BY <3>3, <3>4
  <2>7. QED
        BY <2>2, <2>3, <2>4, <2>5, <2>6
<1>7. QED
      BY <1>5, <1>6 DEF ReadyInv

\* Every step keeps each active run of a reconciled, connected runner
\* claimed or newer than it.
LEMMA StepReady ==
    ASSUME TypeInv, PhaseInv, ReadyInv, [Next]_vars
    PROVE  ReadyInv'
<1>1. final \in [Epochs -> FinalRow] /\ entry \in Entry /\ node \in NodeRow
      /\ run \in [Runs -> RunRow]
      BY DEF TypeInv, ServerOK, StoreOK
<1>2. CASE UNCHANGED <<final, entry, run, node>>
      BY <1>2, ReadyKept DEF RunsSettle, Connected
<1>3. ASSUME NEW e \in Epochs, RunnerConnected(e) PROVE ReadyInv'
  <2>1. /\ node' = [status |-> "connected", epoch |-> e] /\ UNCHANGED <<final, entry>>
        /\ handler[e].phase = "authenticated"
        BY <1>3 DEF RunnerConnected
  <2>2. \A x \in Epochs : Connected(x)' => x = e
        BY <2>1 DEF Connected
  <2>3. final[e].phase = "none"
        BY <2>1 DEF PhaseInv, Early
  <2>4. ~Reconciled(e)'
        BY <2>1, <2>3, NotDone DEF Reconciled
  <2>5. QED
        BY <2>2, <2>4 DEF ReadyInv
<1>4. ASSUME NEW e \in Epochs, InsertEntry(e) \/ HeartbeatRejected(e) \/ SocketEnds(e)
      PROVE  ReadyInv'
  <2>1. /\ UNCHANGED <<final, run, node>>
        /\ entry' = entry \/ ~entry'.ready
        BY <1>4, EmptyRows DEF InsertEntry, HeartbeatRejected, SocketEnds, storeVars
  <2>2. QED
        BY <2>1, ReadyKept DEF RunsSettle, Connected
<1>5. ASSUME NEW e \in Epochs, HandleEvent(e) PROVE ReadyInv'
  <2>1. UNCHANGED <<final, entry, node>>
        BY <1>5 DEF HandleEvent, serverVars
  <2>2. RunsSettle
    <3> DEFINE r == CHOOSE x \in Head(up[e]).runs : TRUE
    <3>1. run' = run \/ run' = [run EXCEPT ![r].status = "closed"]
          BY <1>5 DEF HandleEvent
    <3> HIDE DEF r
    <3>2. QED
          BY <1>1, <3>1 DEF RunsSettle, RunRow
  <2>3. QED
        BY <2>1, <2>2, ReadyKept DEF Connected
<1>6. ASSUME NEW e \in Epochs, RunnerDisconnected(e) PROVE ReadyInv'
  <2>1. UNCHANGED <<final, entry, run>>
        BY <1>6 DEF RunnerDisconnected
  <2>2. node' = node \/ node' = [node EXCEPT !.status = "grace"]
        BY <1>6 DEF RunnerDisconnected
  <2>3. \A x \in Epochs : Connected(x)' => Connected(x)
        BY <1>1, <2>2 DEF Connected, NodeRow
  <2>4. QED
        BY <2>1, <2>3, ReadyKept DEF RunsSettle
<1>7. ASSUME NEW e \in Epochs, GraceExpires(e) PROVE ReadyInv'
  <2>1. UNCHANGED <<final, entry>>
        /\ (run' = run \/ MarkLost(Runs))
        /\ (node' = node \/ node' = [node EXCEPT !.status = "offline"])
        BY <1>7 DEF GraceExpires
  <2>2. \A x \in Epochs : Connected(x)' => Connected(x)
        BY <1>1, <2>1 DEF Connected, NodeRow
  <2>3. RunsSettle
        BY <2>1, LostSettles DEF RunsSettle
  <2>4. QED
        BY <2>1, <2>2, <2>3, ReadyKept
<1>8. ASSUME NEW r \in Runs, CreateTaskRun(r) PROVE ReadyInv'
  <2>1. /\ UNCHANGED <<final, entry, node>>
        /\ run' = [run EXCEPT ![r] = [status |-> "active", newer |-> TRUE]]
        BY <1>8 DEF CreateTaskRun
  <2>2. RunsSettle
        BY <1>1, <2>1 DEF RunsSettle
  <2>3. QED
        BY <2>1, <2>2, ReadyKept DEF Connected
<1>9. ASSUME NEW r \in Runs, StartFails(r) PROVE ReadyInv'
  <2> DEFINE s == IF run[r].status = "active" THEN "closed" ELSE run[r].status
  <2>1. UNCHANGED <<final, entry, node>>
        BY <1>9 DEF StartFails
  <2>2. run' = run \/ run' = [run EXCEPT ![r].status = s]
        BY <1>1, <1>9 DEF StartFails, RunRow
  <2>3. s # "active"
        OBVIOUS
  <2> HIDE DEF s
  <2>4. RunsSettle
        BY <1>1, <2>2, <2>3 DEF RunsSettle, RunRow
  <2>5. QED
        BY <2>1, <2>4, ReadyKept DEF Connected
<1>10. CASE RevokeRunner
  <2>1. UNCHANGED <<final, entry>> /\ MarkLost(Runs)
        /\ (node' = node \/ node' = [node EXCEPT !.status = "offline"])
        BY <1>10 DEF RevokeRunner
  <2>2. \A x \in Epochs : Connected(x)' => Connected(x)
        BY <1>1, <2>1 DEF Connected, NodeRow
  <2>3. QED
        BY <2>1, <2>2, LostSettles, ReadyKept
<1>11. CASE ForgetRevoked
  <2>1. UNCHANGED <<final, run, node>> /\ ~entry'.ready
        BY <1>11, EmptyRows DEF ForgetRevoked, storeVars
  <2>2. QED
        BY <2>1, ReadyKept DEF RunsSettle, Connected
<1>12. CASE ServerRestarts
  <2>1. entry' = NoEntry /\ final' = [e \in Epochs |-> NoFinal]
        BY <1>12 DEF ServerRestarts
  <2>2. \A e \in Epochs : ~Reconciled(e)'
        BY <2>1, EmptyRows DEF Reconciled
  <2>3. QED
        BY <2>2 DEF ReadyInv
<1>13. ASSUME NEW e \in Epochs,
              \/ ReceiveRegistered(e) \/ ReceiveRejected(e) \/ ReceiveDisconnect(e)
              \/ ReceiveStart(e) \/ ReceiveStop(e) \/ Authenticate(e) \/ Reject(e)
              \/ RotateCredential(e) \/ RunnerConnectedFails(e)
              \/ RunnerDisconnectedFails(e) \/ GraceExpiryFails(e)
       PROVE  UNCHANGED <<final, entry, run, node>>
      BY <1>13 DEF ReceiveRegistered, ReceiveRejected, ReceiveDisconnect, ReceiveStart,
            ReceiveStop, Authenticate, Reject, RotateCredential, RunnerConnectedFails,
            RunnerDisconnectedFails, GraceExpiryFails, storeVars, serverVars
<1>14. ASSUME NEW r \in Runs, RunEnds(r) \/ RunRemoved(r) \/ SelectRunner(r) \/ SendStart(r)
       PROVE  UNCHANGED <<final, entry, run, node>>
      BY <1>14 DEF RunEnds, RunRemoved, SelectRunner, SendStart, storeVars, serverVars
<1>15. CASE SocketBreaks \/ RunnerCrashes \/ ReEnroll \/ CredentialExpires \/ UNCHANGED vars
      BY <1>2, <1>15 DEF SocketBreaks, RunnerCrashes, ReEnroll, CredentialExpires, vars,
                         storeVars, serverVars
<1>16. ASSUME NEW r \in Runs, WithdrawRun(r) PROVE ReadyInv'
  <2>1. UNCHANGED <<final, entry, node>> /\ run' = [run EXCEPT ![r].status = "withdrawn"]
        BY <1>16 DEF WithdrawRun, serverVars
  <2>2. RunsSettle
        BY <2>1 DEF RunsSettle, TypeInv, StoreOK, RunRow
  <2>3. QED
        BY <2>1, <2>2, ReadyKept DEF Connected
<1>17. QED
      BY <1>2, <1>3, <1>4, <1>5, <1>6, <1>7, <1>8, <1>9, <1>10, <1>11, <1>12, <1>13, <1>14,
         <1>15, <1>16, FinalizationReady
      DEF Next, RunnerStep, HandlerStep, TaskStep, PassStep

-----------------------------------------------------------------------------
(***************************************************************************)
(* A registered socket is the one in the map, or was told to reconnect.    *)
(***************************************************************************)
Told(e) == \E i \in 1..Len(down[e]) : down[e][i] = Disconnect

ReachInv ==
    \A e \in Epochs :
        /\ e # link => down[e] = <<>>
        /\ handler[e].phase \in {"inserted", "served"} /\ link = e =>
             entry.epoch = e \/ Told(e)

\* A runner that was told to reconnect still is when more is sent to it.
LEMMA GrownTold ==
    ASSUME TypeInv, NEW e \in Epochs, NEW ms \in Seq(Message), down'[e] = down[e] \o ms,
           Told(e) \/ Disconnect \in {ms[i] : i \in 1..Len(ms)}
    PROVE  Told(e)'
<1>1. down[e] \in Seq(Message) /\ Len(down[e]) \in Nat /\ Len(ms) \in Nat
      BY DEF TypeInv, WireOK
<1>2. /\ Len(down'[e]) = Len(down[e]) + Len(ms)
      /\ \A i \in 1..Len(down[e]) : down'[e][i] = down[e][i]
      /\ \A i \in 1..Len(ms) : down'[e][Len(down[e]) + i] = ms[i]
      BY <1>1
<1>3. CASE Told(e)
      BY <1>1, <1>2, <1>3 DEF Told
<1>4. CASE Disconnect \in {ms[i] : i \in 1..Len(ms)}
  <2>1. PICK i \in 1..Len(ms) : ms[i] = Disconnect
        BY <1>4
  <2>2. Len(down[e]) + i \in 1..Len(down'[e]) /\ down'[e][Len(down[e]) + i] = Disconnect
        BY <1>1, <1>2, <2>1
  <2>3. QED
        BY <2>2 DEF Told
<1>5. QED
      BY <1>3, <1>4

\* Only the socket that the runner reads gets messages, at its end.
Grown ==
    \A x \in Epochs : /\ x # link => down'[x] = down[x]
                      /\ \E ms \in Seq(Message) : down'[x] = down[x] \o ms

\* What is sent to the runner only grows: nothing was sent.
LEMMA SameGrown ==
    ASSUME TypeInv, down' = down
    PROVE  Grown
<1>1. \A x \in Epochs : down[x] \in Seq(Message) /\ down[x] = down[x] \o <<>>
      BY DEF TypeInv, WireOK
<1>2. <<>> \in Seq(Message)
      OBVIOUS
<1>3. QED
      BY <1>1, <1>2 DEF Grown

\* What is sent to the runner only grows: a message was sent.
LEMMA SentGrown ==
    ASSUME TypeInv, NEW e, NEW ms \in Seq(Message), down' = Sent(down, e, ms)
    PROVE  Grown /\ (e = link /\ e \in Epochs => down'[e] = down[e] \o ms)
<1>1. down \in [Epochs -> Seq(Message)]
      BY DEF TypeInv, WireOK
<1>2. \A x \in Epochs : down'[x] = IF x = e /\ e = link THEN down[x] \o ms ELSE down[x]
      BY <1>1, SentOK
<1>3. \A x \in Epochs : down[x] = down[x] \o <<>> /\ <<>> \in Seq(Message)
      BY <1>1
<1>4. QED
      BY <1>2, <1>3 DEF Grown

\* Messages are only added; whoever leaves the map was told.
LEMMA GrownReach ==
    ASSUME TypeInv, ReachInv, Grown, link' = link,
           \A x \in Epochs : handler'[x].phase \in {"inserted", "served"} =>
                \/ handler[x].phase \in {"inserted", "served"}
                \/ entry'.epoch = x,
           \A x \in Epochs : link = x /\ entry.epoch = x => entry'.epoch = x \/ Told(x)'
    PROVE  ReachInv'
<1>1. ASSUME NEW x \in Epochs, x # link
      PROVE  down'[x] = <<>>
      BY <1>1 DEF Grown, ReachInv
<1>2. ASSUME NEW x \in Epochs, Told(x)
      PROVE  Told(x)'
  <2>1. PICK ms \in Seq(Message) : down'[x] = down[x] \o ms
        BY DEF Grown
  <2>2. QED
        BY <1>2, <2>1, GrownTold
<1>3. ASSUME NEW x \in Epochs, handler'[x].phase \in {"inserted", "served"}, link = x
      PROVE  entry'.epoch = x \/ Told(x)'
      BY <1>2, <1>3 DEF ReachInv
<1>4. QED
      BY <1>1, <1>3 DEF ReachInv

\* The runner leaves its socket: nothing is on its way to it.
LEMMA LeftReach ==
    ASSUME TypeInv, ReachInv, link' = NoEpoch,
           \A x \in Epochs : x # link => down'[x] = down[x],
           link \in Epochs => down'[link] = <<>>
    PROVE  ReachInv'
<1>1. \A x \in Epochs : down'[x] = <<>>
      BY DEF ReachInv
<1>2. \A x \in Epochs : link' # x
      BY ConnectionConstants
<1>3. QED
      BY <1>1, <1>2 DEF ReachInv

\* The runner reads a message that is not a disconnect.
LEMMA ReadReach ==
    ASSUME TypeInv, ReachInv, NEW e \in Epochs, link = e, down[e] # <<>>,
           Head(down[e]).kind # "disconnect", down' = [down EXCEPT ![e] = Tail(down[e])],
           UNCHANGED <<link, handler, entry>>
    PROVE  ReachInv'
<1>1. down \in [Epochs -> Seq(Message)] /\ down[e] \in Seq(Message)
      BY DEF TypeInv, WireOK
<1>2. /\ Len(Tail(down[e])) = Len(down[e]) - 1 /\ Len(down[e]) \in Nat
      /\ \A i \in 1..Len(Tail(down[e])) : Tail(down[e])[i] = down[e][i + 1]
      /\ Head(down[e]) = down[e][1]
      BY <1>1
<1>3. down'[e] = Tail(down[e]) /\ \A x \in Epochs : x # e => down'[x] = down[x]
      BY <1>1
<1>4. ASSUME Told(e) PROVE Told(e)'
  <2>1. PICK i \in 1..Len(down[e]) : down[e][i] = Disconnect
        BY <1>4 DEF Told
  <2>2. i # 1
        BY <1>2, <2>1, MessagesOK
  <2>3. i - 1 \in 1..Len(down'[e]) /\ down'[e][i - 1] = Disconnect
    <3>1. i - 1 \in 1..Len(Tail(down[e])) /\ (i - 1) + 1 = i
          BY <1>2, <2>1, <2>2
    <3>2. Tail(down[e])[i - 1] = down[e][(i - 1) + 1]
          BY <1>2, <3>1
    <3>3. QED
          BY <1>3, <2>1, <3>1, <3>2
  <2>4. QED
        BY <2>3 DEF Told
<1>5. QED
      BY <1>3, <1>4 DEF ReachInv

\* The runner's steps keep it reachable through its entry or told to
\* reconnect.
LEMMA RunnerReach ==
    ASSUME TypeInv, ReachInv, NEW e \in Epochs, RunnerStep(e)
    PROVE  ReachInv'
<1>1. /\ down \in [Epochs -> Seq(Message)] /\ link \in Epochs \cup {NoEpoch}
      /\ handler \in [Epochs -> HandlerRow]
      BY DEF TypeInv, WireOK, RunnerOK, ServerOK
<1>2. CASE Connect(e)
  <2>1. /\ link = NoEpoch /\ link' = e /\ down' = down
        /\ handler' = [handler EXCEPT ![e].phase = "reading"]
        BY <1>2 DEF Connect
  <2>2. handler'[e].phase = "reading"
        BY <1>1, <2>1 DEF HandlerRow
  <2>3. QED
        BY <2>1, <2>2, ConnectionConstants DEF ReachInv
<1>3. CASE ReceiveRegistered(e) \/ ReceiveStart(e) \/ ReceiveStop(e)
  <2>1. /\ link = e /\ down[e] # <<>> /\ Head(down[e]).kind # "disconnect"
        /\ down' = [down EXCEPT ![e] = Tail(down[e])] /\ UNCHANGED <<link, handler, entry>>
        BY <1>3 DEF ReceiveRegistered, ReceiveStart, ReceiveStop, serverVars
  <2>2. QED
        BY <2>1, ReadReach
<1>4. CASE ReceiveRejected(e) \/ ReceiveDisconnect(e)
  <2>1. link = e /\ link' = NoEpoch /\ down' = [down EXCEPT ![e] = <<>>]
        BY <1>4 DEF ReceiveRejected, ReceiveDisconnect, LeaveSocket
  <2>2. QED
        BY <1>1, <2>1, LeftReach
<1>5. QED
      BY <1>2, <1>3, <1>4 DEF RunnerStep

\* Where a disconnect goes.
LEMMA SentDisconnect ==
    ASSUME TypeInv, NEW e
    PROVE  /\ Sent(down, e, <<Disconnect>>) \in [Epochs -> Seq(Message)]
           /\ \A x \in Epochs : Sent(down, e, <<Disconnect>>)[x] =
                IF x = e /\ e = link THEN down[x] \o <<Disconnect>> ELSE down[x]
<1> DEFINE ms == <<Disconnect>>
<1>1. down \in [Epochs -> Seq(Message)] /\ ms \in Seq(Message)
      BY MessagesOK DEF TypeInv, WireOK
<1> HIDE DEF ms
<1>2. /\ Sent(down, e, ms) \in [Epochs -> Seq(Message)]
      /\ \A x \in Epochs : Sent(down, e, ms)[x] =
           IF x = e /\ e = link THEN down[x] \o ms ELSE down[x]
      BY <1>1, SentOK
<1>3. QED
      BY <1>2 DEF ms

\* What inserting an entry sends: the acknowledgment on the new socket and a
\* disconnect on the one it replaces.
LEMMA InsertDown ==
    ASSUME TypeInv, NEW e \in Epochs, InsertEntry(e)
    PROVE  /\ entry'.epoch = e
           /\ <<Msg("registered", handler[e].token, {})>> \in Seq(Message)
           /\ \A x \in Epochs : down'[x] =
                IF x = e /\ e = link THEN down[x] \o <<Msg("registered", handler[e].token, {})>>
                ELSE IF x = entry.epoch /\ entry.epoch = link /\ entry.epoch \notin {e, NoEpoch}
                THEN down[x] \o <<Disconnect>> ELSE down[x]
<1> DEFINE old == entry.epoch
           told == IF old \notin {e, NoEpoch} THEN Sent(down, old, <<Disconnect>>) ELSE down
           hello == <<Msg("registered", handler[e].token, {})>>
<1>1. entry'.epoch = e /\ down' = Sent(told, e, hello)
      BY DEF InsertEntry
<1>2. hello \in Seq(Message)
      BY MessagesOK DEF HandlerRow, TypeInv, ServerOK
<1>3. down \in [Epochs -> Seq(Message)]
      BY DEF TypeInv, WireOK
<1>4. /\ told \in [Epochs -> Seq(Message)]
      /\ \A x \in Epochs : told[x] =
           IF x = old /\ old = link /\ old \notin {e, NoEpoch}
           THEN down[x] \o <<Disconnect>> ELSE down[x]
  <2> DEFINE sent == Sent(down, old, <<Disconnect>>)
  <2>1. /\ sent \in [Epochs -> Seq(Message)]
        /\ \A x \in Epochs : sent[x] =
             IF x = old /\ old = link THEN down[x] \o <<Disconnect>> ELSE down[x]
        BY SentDisconnect
  <2>2. told = IF old \notin {e, NoEpoch} THEN sent ELSE down
        OBVIOUS
  <2> HIDE DEF sent, told, old
  <2>3. CASE old \notin {e, NoEpoch}
        BY <2>1, <2>2, <2>3
  <2>4. CASE old \in {e, NoEpoch}
        BY <1>3, <2>2, <2>4
  <2>5. QED
        BY <2>3, <2>4
<1> HIDE DEF told, hello
<1>5. \A x \in Epochs : down'[x] = IF x = e /\ e = link THEN told[x] \o hello ELSE told[x]
      BY <1>1, <1>2, <1>4, SentOK
<1>6. \A x \in Epochs : down'[x] =
         IF x = e /\ e = link THEN down[x] \o hello
         ELSE IF x = old /\ old = link /\ old \notin {e, NoEpoch}
         THEN down[x] \o <<Disconnect>> ELSE down[x]
      BY <1>4, <1>5
<1>7. QED
      BY <1>1, <1>2, <1>6 DEF hello

\* Registration keeps every served runner reachable or told.
LEMMA RegistrationReach ==
    ASSUME TypeInv, ReachInv, NEW e \in Epochs,
           \/ Authenticate(e) \/ Reject(e) \/ RunnerConnected(e) \/ RunnerConnectedFails(e)
           \/ InsertEntry(e) \/ Reconcile(e)
    PROVE  ReachInv'
<1>1. handler \in [Epochs -> HandlerRow] /\ \A x \in Epochs \ {e} : handler'[x] = handler[x]
      BY DEF TypeInv, ServerOK, Authenticate, Reject, RunnerConnected, RunnerConnectedFails,
             InsertEntry, Reconcile
<1>2. link' = link
      BY DEF Authenticate, Reject, RunnerConnected, RunnerConnectedFails, InsertEntry,
             Reconcile, runnerVars
<1>3. CASE ~InsertEntry(e)
  <2>1. entry' = entry
        BY <1>3 DEF Authenticate, Reject, RunnerConnected, RunnerConnectedFails, Reconcile
  <2>2. Grown
    <3>1. CASE down' = down
          BY <3>1, SameGrown
    <3>2. CASE Reject(e)
          BY <3>2, SentGrown, MessagesOK DEF Reject
    <3>3. CASE Reconcile(e)
      <4> DEFINE stale == Head(up[e]).runs \ Accepted(Head(up[e]).runs)
                 stop == IF stale = {} THEN <<>> ELSE <<Msg("stop", NoToken, stale)>>
      <4>1. /\ handler[e].phase = "inserted"
            /\ down' = Sent(down, e, stop) \/ down' = Sent(down, e, <<Disconnect>>)
            BY <3>3 DEF Reconcile
      <4>2. up[e] # <<>>
            BY <4>1 DEF TypeInv, WireOK, MidRegistration
      <4>3. stale \in SUBSET Runs
            BY <4>2, HeadClaims
      <4> HIDE DEF stale
      <4>4. stop \in Seq(Message)
            BY <4>3, MessagesOK
      <4> HIDE DEF stop
      <4>5. CASE down' = Sent(down, e, stop)
            BY <4>4, <4>5, SentGrown
      <4>6. CASE down' = Sent(down, e, <<Disconnect>>)
            BY <4>6, SentGrown, MessagesOK
      <4>7. QED
            BY <4>1, <4>5, <4>6
    <3>4. QED
          BY <1>3, <3>1, <3>2, <3>3
          DEF Authenticate, RunnerConnected, RunnerConnectedFails, wireVars
  <2>3. handler'[e].phase \in {"inserted", "served"} => handler[e].phase = "inserted"
    <3>1. CASE Authenticate(e)
          BY <1>1, <3>1 DEF Authenticate
    <3>2. CASE Reject(e)
          BY <1>1, <3>2, IdleIsRow DEF Reject
    <3>3. CASE RunnerConnected(e)
          BY <1>1, <3>3 DEF RunnerConnected, HandlerRow
    <3>4. CASE RunnerConnectedFails(e)
          BY <1>1, <3>4 DEF RunnerConnectedFails, IdleHandler
    <3>5. CASE Reconcile(e)
          BY <3>5 DEF Reconcile
    <3>6. QED
          BY <1>3, <3>1, <3>2, <3>3, <3>4, <3>5
  <2>4. QED
        BY <1>1, <1>2, <2>1, <2>2, <2>3, GrownReach
<1>4. CASE InsertEntry(e)
  <2> DEFINE old == entry.epoch
             hello == <<Msg("registered", handler[e].token, {})>>
  <2>1. entry'.epoch = e /\ hello \in Seq(Message)
        BY <1>4, InsertDown
  <2>2. \A x \in Epochs : down'[x] =
           IF x = e /\ e = link THEN down[x] \o hello
           ELSE IF x = old /\ old = link /\ old \notin {e, NoEpoch}
           THEN down[x] \o <<Disconnect>> ELSE down[x]
        BY <1>4, InsertDown
  <2> HIDE DEF hello
  <2>3. \A x \in Epochs : down[x] = down[x] \o <<>> /\ <<>> \in Seq(Message)
        BY DEF TypeInv, WireOK
  <2>4. Grown
    <3> HIDE DEF old
    <3>1. \A x \in Epochs : x # link => down'[x] = down[x]
          BY <2>2
    <3>2. ASSUME NEW x \in Epochs
          PROVE  \E ms \in Seq(Message) : down'[x] = down[x] \o ms
      <4>1. \/ down'[x] = down[x] \o hello \/ down'[x] = down[x] \o <<Disconnect>>
            \/ down'[x] = down[x] \o <<>>
            BY <2>2, <2>3
      <4>2. QED
            BY <2>1, <2>3, <4>1, MessagesOK
    <3>3. QED
          BY <3>1, <3>2 DEF Grown
  <2>5. ASSUME NEW x \in Epochs, link = x, entry.epoch = x, x # e
        PROVE  Told(x)'
    <3>1. down'[x] = down[x] \o <<Disconnect>>
          BY <2>2, <2>5, ConnectionConstants
    <3>2. Disconnect \in {<<Disconnect>>[i] : i \in 1..Len(<<Disconnect>>)}
          OBVIOUS
    <3>3. QED
          BY <3>1, <3>2, MessagesOK, GrownTold
  <2>6. QED
        BY <1>1, <1>2, <2>1, <2>4, <2>5, GrownReach
<1>5. QED
      BY <1>3, <1>4

\* Every step keeps every served runner reachable or told.
LEMMA StepReach ==
    ASSUME TypeInv, ReachInv, [Next]_vars
    PROVE  ReachInv'
<1>1. /\ handler \in [Epochs -> HandlerRow] /\ down \in [Epochs -> Seq(Message)]
      /\ link \in Epochs \cup {NoEpoch} /\ entry \in Entry
      BY DEF TypeInv, ServerOK, WireOK, RunnerOK
<1>2. <<Disconnect>> \in Seq(Message)
      /\ Disconnect \in {<<Disconnect>>[i] : i \in 1..Len(<<Disconnect>>)}
      BY MessagesOK
<1>3. CASE UNCHANGED <<down, link, handler, entry>>
      BY <1>3 DEF ReachInv, Told
<1>4. ASSUME NEW e \in Epochs, MarkUnclaimedFails(e) \/ RotateCredential(e) PROVE ReachInv'
  <2>1. down' = Sent(down, e, <<Disconnect>>) /\ UNCHANGED <<link, handler, entry>>
        BY <1>4 DEF MarkUnclaimedFails, RotateCredential, runnerVars, serverVars
  <2>2. QED
        BY <1>2, <2>1, SentGrown, GrownReach
<1>5. ASSUME NEW e \in Epochs, EnableDispatch(e) PROVE ReachInv'
  <2>1. UNCHANGED <<down, link, handler>> /\ entry'.epoch = entry.epoch
        BY <1>1, <1>5 DEF EnableDispatch, runnerVars, wireVars, Entry
  <2>2. QED
        BY <2>1 DEF ReachInv, Told
<1>6. ASSUME NEW e \in Epochs, HeartbeatRejected(e) PROVE ReachInv'
  <2>1. /\ down' = Sent(down, e, <<Disconnect>>) /\ UNCHANGED <<link, handler>>
        /\ link = e /\ entry.epoch = e
        BY <1>6 DEF HeartbeatRejected, runnerVars
  <2>2. Grown /\ down'[e] = down[e] \o <<Disconnect>>
        BY <1>2, <2>1, SentGrown
  <2>3. Told(e)'
        BY <1>2, <2>2, GrownTold
  <2>4. QED
        BY <2>1, <2>2, <2>3, GrownReach
<1>7. ASSUME NEW e \in Epochs,
             SocketEnds(e) \/ RunnerDisconnected(e) \/ RunnerDisconnectedFails(e)
      PROVE  ReachInv'
  <2>1. UNCHANGED <<down, link>>
        BY <1>7 DEF SocketEnds, RunnerDisconnected, RunnerDisconnectedFails, runnerVars,
                    wireVars
  <2>2. /\ \A x \in Epochs \ {e} : handler'[x] = handler[x]
        /\ handler'[e].phase \in {"idle", "closing"}
        BY <1>1, <1>7, IdleIsRow DEF SocketEnds, RunnerDisconnected,
           RunnerDisconnectedFails, HandlerRow
  <2>3. entry' = entry \/ (entry.epoch = e /\ link # e)
        BY <1>7 DEF SocketEnds, RunnerDisconnected, RunnerDisconnectedFails
  <2>4. ASSUME NEW x \in Epochs, handler'[x].phase \in {"inserted", "served"}, link = x
        PROVE  entry'.epoch = x \/ Told(x)
    <3>1. x # e /\ handler[x].phase \in {"inserted", "served"}
          BY <2>2, <2>4
    <3>2. QED
          BY <2>3, <2>4, <3>1 DEF ReachInv
  <2>5. QED
        BY <2>1, <2>4 DEF ReachInv, Told
<1>8. ASSUME NEW r \in Runs, SendStart(r) PROVE ReachInv'
  <2>1. /\ down' = Sent(down, entry.epoch, <<Msg("start", NoToken, {r})>>)
        /\ UNCHANGED <<link, handler, entry>>
        BY <1>8 DEF SendStart, runnerVars
  <2>2. QED
        BY <2>1, MessagesOK, SentGrown, GrownReach
<1>9. CASE SocketBreaks
  <2>1. link # NoEpoch /\ link' = NoEpoch /\ down' = [down EXCEPT ![link] = <<>>]
        BY <1>9 DEF SocketBreaks, LeaveSocket
  <2>2. QED
        BY <1>1, <2>1, LeftReach
<1>10. CASE RunnerCrashes
  <2>1. CASE link = NoEpoch
        BY <1>10, <2>1, LeftReach, ConnectionConstants DEF RunnerCrashes
  <2>2. CASE link # NoEpoch
        BY <1>1, <1>10, <2>2, LeftReach DEF RunnerCrashes
  <2>3. QED
        BY <2>1, <2>2
<1>11. CASE ForgetRevoked
  <2>1. /\ UNCHANGED <<link, handler>> /\ entry.epoch \in Epochs \cup {NoEpoch}
        /\ down' = IF entry.epoch = NoEpoch THEN down
                   ELSE Sent(down, entry.epoch, <<Disconnect>>)
        BY <1>1, <1>11 DEF ForgetRevoked, runnerVars, Entry
  <2>2. Grown
        BY <1>2, <2>1, SameGrown, SentGrown
  <2>3. ASSUME NEW x \in Epochs, link = x, entry.epoch = x PROVE Told(x)'
    <3>1. down' = Sent(down, x, <<Disconnect>>)
          BY <2>1, <2>3, ConnectionConstants
    <3>2. down'[x] = down[x] \o <<Disconnect>>
          BY <1>2, <2>3, <3>1, SentGrown
    <3>3. QED
          BY <1>2, <3>2, GrownTold
  <2>4. QED
        BY <2>1, <2>2, <2>3, GrownReach
<1>12. CASE ServerRestarts
      BY <1>12, IdleIsRow, ConnectionConstants DEF ServerRestarts, ReachInv
<1>13. ASSUME NEW e \in Epochs,
              HandleEvent(e) \/ MarkUnclaimed(e) \/ GraceExpires(e) \/ GraceExpiryFails(e)
       PROVE  UNCHANGED <<down, link, handler, entry>>
      BY <1>13 DEF HandleEvent, MarkUnclaimed, GraceExpires, GraceExpiryFails,
                   serverVars, runnerVars, wireVars
<1>14. ASSUME NEW r \in Runs,
              \/ RunEnds(r) \/ RunRemoved(r) \/ WithdrawRun(r) \/ SelectRunner(r)
              \/ CreateTaskRun(r) \/ StartFails(r)
       PROVE  UNCHANGED <<down, link, handler, entry>>
      BY <1>14 DEF RunEnds, RunRemoved, WithdrawRun, SelectRunner, CreateTaskRun, StartFails,
                   serverVars, runnerVars, wireVars
<1>15. CASE RevokeRunner \/ ReEnroll \/ CredentialExpires \/ UNCHANGED vars
      BY <1>3, <1>15 DEF RevokeRunner, ReEnroll, CredentialExpires, vars, serverVars,
                         runnerVars, wireVars
<1>16. QED
      BY <1>3, <1>4, <1>5, <1>6, <1>7, <1>8, <1>9, <1>10, <1>11, <1>12, <1>13, <1>14, <1>15,
         RunnerReach, RegistrationReach
      DEF Next, HandlerStep, TaskStep, PassStep

\* Nothing is connected, ready or served at the start.
LEMMA InitDispatch == Init => PhaseInv /\ ReadyInv /\ ReachInv
<1> SUFFICES ASSUME Init PROVE PhaseInv /\ ReadyInv /\ ReachInv
    OBVIOUS
<1>1. PhaseInv
      BY EmptyRows, IdleIsRow DEF Init, PhaseInv, Early
<1>2. ReadyInv
      BY EmptyRows DEF Init, ReadyInv, Reconciled
<1>3. ReachInv
      BY IdleIsRow DEF Init, ReachInv
<1>4. QED
      BY <1>1, <1>2, <1>3

\* The three invariants contain the property.
LEMMA DispatchFollows ==
    TypeInv /\ PhaseInv /\ ReadyInv /\ ReachInv => DispatchIsSound
<1> SUFFICES ASSUME TypeInv, PhaseInv, ReadyInv, ReachInv
             PROVE  DispatchIsSound
    OBVIOUS
<1>1. ReadyMeansReconciled
  <2>1. SUFFICES ASSUME entry.ready, Connected(entry.epoch)
                 PROVE  Claimed(entry.epoch)
        BY DEF ReadyMeansReconciled, Claimed
  <2>2. entry.epoch \in Epochs
        BY <2>1 DEF PhaseInv
  <2>3. QED
        BY <2>1, <2>2 DEF ReadyInv, Reconciled
<1>2. ServedRunnerIsReachable
  <2>1. ASSUME NEW e \in Epochs, handler[e].phase = "served", link = e
        PROVE  entry.epoch = e \/ Disconnect \in Range(down[e])
    <3>1. entry.epoch = e \/ Told(e)
          BY <2>1 DEF ReachInv
    <3>2. DOMAIN down[e] = 1..Len(down[e])
          BY DEF TypeInv, WireOK
    <3>3. QED
          BY <3>1, <3>2 DEF Told, Range
  <2>2. QED
        BY <2>1 DEF ServedRunnerIsReachable
<1>3. QED
      BY <1>1, <1>2, TypeInvImplies DEF DispatchIsSound

\* The server dispatches only to a connection whose older active runs the runner
\* claimed, and the socket a runner is served on is the one in the map or was told
\* to reconnect, whatever the interleaving of sockets, timers, revocations and
\* restarts.
THEOREM DispatchIsSoundHolds == Spec => []DispatchIsSound
<1> DEFINE Inv == TypeInv /\ WatchInv /\ PhaseInv /\ ReadyInv /\ ReachInv
<1>1. Init => Inv
      BY InitTypes, InitWatch, InitDispatch
<1>2. Inv /\ [Next]_vars => Inv'
      BY StepTypes, StepWatched, StepPhases, StepReady, StepReach
<1>3. Inv => DispatchIsSound
      BY DispatchFollows
<1>4. QED
      BY <1>1, <1>2, <1>3, PTL DEF Spec

-----------------------------------------------------------------------------
(***************************************************************************)
(* Stale work.  First, what a step does to the commands on their way to    *)
(* the runner: commands other than a start are added at the end, the       *)
(* runner reads the first one, all are lost with the socket, or the        *)
(* scheduler sends a start.                                                *)
(***************************************************************************)
Quiet(ms) == \A i \in 1..Len(ms) : ms[i].kind # "start"
QuietGrown ==
    \A x \in Epochs : \E ms \in Seq(Message) : Quiet(ms) /\ down'[x] = down[x] \o ms

Reads(e) == ReceiveRegistered(e) \/ ReceiveStart(e) \/ ReceiveStop(e)

\* Messages other than starts start nothing.
LEMMA QuietMessages ==
    /\ Quiet(<<>>) /\ Quiet(<<Disconnect>>) /\ Quiet(<<Msg("rejected", NoToken, {})>>)
    /\ \A t : Quiet(<<Msg("registered", t, {})>>)
    /\ \A rs : Quiet(<<Msg("stop", NoToken, rs)>>)
<1>1. ASSUME NEW m, m.kind # "start" PROVE Quiet(<<m>>)
      BY <1>1 DEF Quiet
<1>2. Disconnect.kind # "start" /\ Msg("rejected", NoToken, {}).kind # "start"
      BY DEF Disconnect, Msg
<1>3. ASSUME NEW t PROVE Msg("registered", t, {}).kind # "start"
      BY DEF Msg
<1>4. ASSUME NEW rs PROVE Msg("stop", NoToken, rs).kind # "start"
      BY DEF Msg
<1>5. Quiet(<<>>)
      BY DEF Quiet
<1>6. QED
      BY <1>1, <1>2, <1>3, <1>4, <1>5

\* A step that sends nothing starts nothing.
LEMMA SameQuiet ==
    ASSUME TypeInv, down' = down
    PROVE  QuietGrown
<1>1. \A x \in Epochs : down[x] \in Seq(Message) /\ down[x] = down[x] \o <<>>
      BY DEF TypeInv, WireOK
<1>2. <<>> \in Seq(Message)
      OBVIOUS
<1>3. QED
      BY <1>1, <1>2, QuietMessages DEF QuietGrown

\* A step that sends such a message starts nothing.
LEMMA SentQuiet ==
    ASSUME TypeInv, NEW e, NEW ms \in Seq(Message), Quiet(ms), down' = Sent(down, e, ms)
    PROVE  QuietGrown
<1>1. down \in [Epochs -> Seq(Message)]
      BY DEF TypeInv, WireOK
<1>2. \A x \in Epochs : down'[x] = IF x = e /\ e = link THEN down[x] \o ms ELSE down[x]
      BY <1>1, SentOK
<1>3. \A x \in Epochs : down[x] = down[x] \o <<>> /\ <<>> \in Seq(Message)
      BY <1>1
<1>4. QED
      BY <1>2, <1>3, QuietMessages DEF QuietGrown

\* Inserting an entry starts nothing.
LEMMA InsertQuiet ==
    ASSUME TypeInv, NEW e \in Epochs, InsertEntry(e)
    PROVE  QuietGrown
<1> DEFINE hello == <<Msg("registered", handler[e].token, {})>>
<1>1. hello \in Seq(Message) /\ Quiet(hello)
      BY InsertDown, QuietMessages
<1>2. \A x \in Epochs : down'[x] = IF x = e /\ e = link THEN down[x] \o hello
        ELSE IF x = entry.epoch /\ entry.epoch = link /\ entry.epoch \notin {e, NoEpoch}
        THEN down[x] \o <<Disconnect>> ELSE down[x]
      BY InsertDown
<1> HIDE DEF hello
<1>3. \A x \in Epochs : down[x] = down[x] \o <<>> /\ <<>> \in Seq(Message)
      BY DEF TypeInv, WireOK
<1>4. ASSUME NEW x \in Epochs
      PROVE  \E ms \in Seq(Message) : Quiet(ms) /\ down'[x] = down[x] \o ms
  <2>1. \/ down'[x] = down[x] \o hello \/ down'[x] = down[x] \o <<Disconnect>>
        \/ down'[x] = down[x] \o <<>>
        BY <1>2, <1>3
  <2>2. QED
        BY <1>1, <1>3, <2>1, MessagesOK, QuietMessages
<1>5. QED
      BY <1>4 DEF QuietGrown

\* Reconciliation starts nothing.
LEMMA ReconcileQuiet ==
    ASSUME TypeInv, NEW e \in Epochs, Reconcile(e)
    PROVE  QuietGrown
<1> DEFINE stale == Head(up[e]).runs \ Accepted(Head(up[e]).runs)
           stop == IF stale = {} THEN <<>> ELSE <<Msg("stop", NoToken, stale)>>
<1>1. /\ handler[e].phase = "inserted"
      /\ down' = Sent(down, e, stop) \/ down' = Sent(down, e, <<Disconnect>>)
      BY DEF Reconcile
<1>2. up[e] # <<>>
      BY <1>1 DEF TypeInv, WireOK, MidRegistration
<1>3. stale \in SUBSET Runs
      BY <1>2, HeadClaims
<1> HIDE DEF stale
<1>4. stop \in Seq(Message) /\ Quiet(stop)
      BY <1>3, MessagesOK, QuietMessages
<1> HIDE DEF stop
<1>5. CASE down' = Sent(down, e, stop)
      BY <1>4, <1>5, SentQuiet
<1>6. CASE down' = Sent(down, e, <<Disconnect>>)
      BY <1>6, SentQuiet, MessagesOK, QuietMessages
<1>7. QED
      BY <1>1, <1>5, <1>6

\* The messages to the runner only change by quiet ones, by one read, by the
\* loss of the socket and by a start.
LEMMA DownWriters ==
    ASSUME TypeInv, ReachInv, [Next]_vars
    PROVE  \/ QuietGrown
           \/ \E e \in Epochs : Reads(e)
           \/ link' = NoEpoch /\ \A x \in Epochs : down'[x] = <<>>
           \/ \E r \in Runs : SendStart(r)
<1>1. CASE UNCHANGED wireVars
      BY <1>1, SameQuiet DEF wireVars
<1>2. ASSUME NEW e \in Epochs,
             \/ Connect(e) \/ RunnerConnectedFails(e) \/ HandleEvent(e)
      PROVE  QuietGrown
      BY <1>2, SameQuiet DEF Connect, RunnerConnectedFails, HandleEvent
<1>3. ASSUME NEW e \in Epochs,
             MarkUnclaimedFails(e) \/ HeartbeatRejected(e) \/ RotateCredential(e)
      PROVE  QuietGrown
  <2>1. down' = Sent(down, e, <<Disconnect>>)
        BY <1>3 DEF MarkUnclaimedFails, HeartbeatRejected, RotateCredential
  <2>2. QED
        BY <2>1, SentQuiet, MessagesOK, QuietMessages
<1>4. ASSUME NEW e \in Epochs, Reject(e) PROVE QuietGrown
      BY <1>4, SentQuiet, MessagesOK, QuietMessages DEF Reject
<1>5. ASSUME NEW r \in Runs, RunEnds(r) PROVE QuietGrown
      BY <1>5, SameQuiet DEF RunEnds
<1>6. CASE ForgetRevoked
  <2>1. down' = down \/ down' = Sent(down, entry.epoch, <<Disconnect>>)
        BY <1>6 DEF ForgetRevoked
  <2>2. QED
        BY <2>1, SameQuiet, SentQuiet, MessagesOK, QuietMessages
<1>7. ASSUME NEW e \in Epochs, e = link, link' = NoEpoch, down' = [down EXCEPT ![e] = <<>>]
      PROVE  link' = NoEpoch /\ \A x \in Epochs : down'[x] = <<>>
      BY <1>7 DEF ReachInv, TypeInv, WireOK
<1>8. ASSUME NEW e \in Epochs, ReceiveRejected(e) \/ ReceiveDisconnect(e)
      PROVE  link' = NoEpoch /\ \A x \in Epochs : down'[x] = <<>>
      BY <1>7, <1>8 DEF ReceiveRejected, ReceiveDisconnect, LeaveSocket
<1>9. ASSUME SocketBreaks
      PROVE  link' = NoEpoch /\ \A x \in Epochs : down'[x] = <<>>
  <2>1. link \in Epochs
        BY <1>9 DEF SocketBreaks, TypeInv, RunnerOK
  <2>2. QED
        BY <1>7, <1>9, <2>1 DEF SocketBreaks, LeaveSocket
<1>10. ASSUME RunnerCrashes
       PROVE  link' = NoEpoch /\ \A x \in Epochs : down'[x] = <<>>
  <2>1. CASE link = NoEpoch
        BY <1>10, <2>1, ConnectionConstants DEF RunnerCrashes, ReachInv
  <2>2. CASE link \in Epochs
    <3>1. link' = NoEpoch /\ down' = [down EXCEPT ![link] = <<>>]
          BY <1>10, <2>2, ConnectionConstants DEF RunnerCrashes
    <3>2. QED
          BY <1>7, <2>2, <3>1
  <2>3. QED
        BY <2>1, <2>2 DEF TypeInv, RunnerOK
<1>11. ASSUME ServerRestarts
       PROVE  link' = NoEpoch /\ \A x \in Epochs : down'[x] = <<>>
      BY <1>11 DEF ServerRestarts
<1>12. ASSUME NEW e \in Epochs, RunnerStep(e)
       PROVE  \/ QuietGrown \/ Reads(e)
              \/ link' = NoEpoch /\ \A x \in Epochs : down'[x] = <<>>
      BY <1>2, <1>8, <1>12 DEF RunnerStep, Reads
<1>13. QED
      BY <1>1, <1>2, <1>3, <1>4, <1>5, <1>6, <1>9, <1>10, <1>11, <1>12, WireWriters,
         InsertQuiet, ReconcileQuiet

\* The starts of a run among the commands on a socket.
StartOf(m, r) == m.kind = "start" /\ r \in m.runs
HasStart(ms, r) == \E i \in 1..Len(ms) : StartOf(ms[i], r)
OneStart(ms, r) ==
    \A i, j \in 1..Len(ms) : StartOf(ms[i], r) /\ StartOf(ms[j], r) => i = j

\* Positions in two sequences put together.
LEMMA JoinedSeq ==
    ASSUME NEW ms \in Seq(Message), NEW ns \in Seq(Message)
    PROVE  /\ ms \o ns \in Seq(Message) /\ Len(ms \o ns) = Len(ms) + Len(ns)
           /\ Len(ms) \in Nat /\ Len(ns) \in Nat
           /\ \A i \in 1..Len(ms) : (ms \o ns)[i] = ms[i]
           /\ \A i \in 1..Len(ns) : (ms \o ns)[Len(ms) + i] = ns[i]
           /\ \A i \in 1..Len(ms \o ns) :
                i \in 1..Len(ms) \/ (i - Len(ms) \in 1..Len(ns) /\ (ms \o ns)[i] = ns[i - Len(ms)])
OBVIOUS

\* Positions in the rest of a sequence.
LEMMA TailSeq ==
    ASSUME NEW ms \in Seq(Message), ms # <<>>
    PROVE  /\ Tail(ms) \in Seq(Message) /\ Len(ms) \in Nat /\ Len(Tail(ms)) = Len(ms) - 1
           /\ Head(ms) = ms[1] /\ 1 \in 1..Len(ms)
           /\ \A i \in 1..Len(Tail(ms)) : Tail(ms)[i] = ms[i + 1] /\ i + 1 \in 1..Len(ms)
           /\ \A i \in 1..Len(ms) :
                i = 1 \/ (i - 1 \in 1..Len(Tail(ms)) /\ Tail(ms)[i - 1] = ms[i])
OBVIOUS

\* Quiet messages add no start.
LEMMA QuietStarts ==
    ASSUME NEW ms \in Seq(Message), NEW ns \in Seq(Message), Quiet(ns), NEW r
    PROVE  /\ HasStart(ms \o ns, r) => HasStart(ms, r)
           /\ OneStart(ms, r) => OneStart(ms \o ns, r)
<1> DEFINE all == ms \o ns
<1>1. \A i \in 1..Len(all) : StartOf(all[i], r) => i \in 1..Len(ms) /\ StartOf(ms[i], r)
      BY JoinedSeq DEF Quiet, StartOf
<1> HIDE DEF all
<1>2. /\ HasStart(all, r) => HasStart(ms, r)
      /\ OneStart(ms, r) => OneStart(all, r)
      BY <1>1 DEF HasStart, OneStart
<1>3. QED
      BY <1>2 DEF all

\* Reading a message adds no start, and reading a start takes away the only
\* one.
LEMMA TailStarts ==
    ASSUME NEW ms \in Seq(Message), ms # <<>>, NEW r
    PROVE  /\ HasStart(Tail(ms), r) => HasStart(ms, r)
           /\ OneStart(ms, r) => OneStart(Tail(ms), r)
           /\ OneStart(ms, r) /\ StartOf(Head(ms), r) => ~HasStart(Tail(ms), r)
<1> DEFINE rest == Tail(ms)
<1>1. /\ \A i \in 1..Len(rest) : rest[i] = ms[i + 1] /\ i + 1 \in 1..Len(ms)
      /\ Head(ms) = ms[1] /\ 1 \in 1..Len(ms) /\ Len(rest) \in Nat
      BY TailSeq
<1> HIDE DEF rest
<1>2. HasStart(rest, r) => HasStart(ms, r)
      BY <1>1 DEF HasStart
<1>3. ASSUME OneStart(ms, r) PROVE OneStart(rest, r)
  <2>1. ASSUME NEW i \in 1..Len(rest), NEW j \in 1..Len(rest),
               StartOf(rest[i], r), StartOf(rest[j], r)
        PROVE  i = j
    <3>1. i + 1 = j + 1
          BY <1>1, <1>3, <2>1 DEF OneStart
    <3>2. QED
          BY <1>1, <3>1
  <2>2. QED
        BY <2>1 DEF OneStart
<1>4. ASSUME OneStart(ms, r), StartOf(Head(ms), r) PROVE ~HasStart(rest, r)
  <2>1. ASSUME NEW i \in 1..Len(rest), StartOf(rest[i], r) PROVE FALSE
    <3>1. i + 1 = 1
          BY <1>1, <1>4, <2>1 DEF OneStart
    <3>2. QED
          BY <1>1, <3>1
  <2>2. QED
        BY <2>1 DEF HasStart
<1>5. QED
      BY <1>2, <1>3, <1>4 DEF rest

\* Nothing is started by no message.
LEMMA NoStarts ==
    ASSUME NEW r
    PROVE  ~HasStart(<<>>, r) /\ OneStart(<<>>, r)
BY DEF HasStart, OneStart

\* A start adds one start of its run and none of another.
LEMMA StartAdded ==
    ASSUME NEW ms \in Seq(Message), NEW q \in Runs, NEW r
    PROVE  LET new == ms \o <<Msg("start", NoToken, {q})>> IN
           /\ HasStart(new, r) => HasStart(ms, r) \/ r = q
           /\ r # q /\ OneStart(ms, r) => OneStart(new, r)
           /\ ~HasStart(ms, r) => OneStart(new, r)
<1> DEFINE m == Msg("start", NoToken, {q})
           ns == <<m>>
           all == ms \o ns
<1>1. ns \in Seq(Message) /\ Len(ns) = 1 /\ ns[1] = m
      BY MessagesOK
<1>2. StartOf(m, r) => r = q
      BY DEF StartOf, Msg
<1> HIDE DEF m
<1>3. Len(ms) \in Nat
      OBVIOUS
<1> HIDE DEF ns
<1>4. \A i \in 1..Len(all) : \/ i \in 1..Len(ms) /\ all[i] = ms[i]
                             \/ i = Len(ms) + 1 /\ all[i] = m
  <2>1. /\ \A i \in 1..Len(ms) : all[i] = ms[i]
        /\ \A i \in 1..Len(all) :
             i \in 1..Len(ms) \/ (i - Len(ms) \in 1..Len(ns) /\ all[i] = ns[i - Len(ms)])
        /\ Len(all) = Len(ms) + Len(ns)
        BY <1>1, JoinedSeq
  <2> HIDE DEF all
  <2>2. ASSUME NEW i \in 1..Len(all), i \notin 1..Len(ms)
        PROVE  i = Len(ms) + 1 /\ all[i] = m
    <3>1. i - Len(ms) \in 1..Len(ns) /\ all[i] = ns[i - Len(ms)]
          BY <2>1, <2>2
    <3>2. i - Len(ms) = 1 /\ i \in Nat
          BY <1>1, <2>2, <3>1
    <3>3. QED
          BY <1>1, <1>3, <3>1, <3>2
  <2>3. QED
        BY <2>1, <2>2
<1> HIDE DEF all
<1>5. HasStart(all, r) => HasStart(ms, r) \/ r = q
      BY <1>2, <1>4 DEF HasStart
<1>6. r # q /\ OneStart(ms, r) => OneStart(all, r)
      BY <1>2, <1>4 DEF OneStart
<1>7. ~HasStart(ms, r) => OneStart(all, r)
      BY <1>4 DEF OneStart, HasStart
<1>8. QED
      BY <1>5, <1>6, <1>7 DEF all, ns, m

\* What sending a start adds, socket by socket.
LEMMA SentStart ==
    ASSUME TypeInv, NEW q \in Runs, SendStart(q), NEW r, NEW e \in Epochs
    PROVE  /\ HasStart(down'[e], r) => HasStart(down[e], r) \/ (r = q /\ e = entry.epoch)
           /\ r # q /\ OneStart(down[e], r) => OneStart(down'[e], r)
           /\ ~HasStart(down[e], r) => OneStart(down'[e], r)
<1> DEFINE ms == <<Msg("start", NoToken, {q})>>
<1>1. down \in [Epochs -> Seq(Message)] /\ ms \in Seq(Message)
      BY MessagesOK DEF TypeInv, WireOK
<1>2. down' = Sent(down, entry.epoch, ms)
      BY DEF SendStart
<1> HIDE DEF ms
<1>3. down'[e] = IF e = entry.epoch /\ entry.epoch = link THEN down[e] \o ms ELSE down[e]
      BY <1>1, <1>2, SentOK
<1>4. CASE e = entry.epoch /\ entry.epoch = link
  <2>1. down'[e] = down[e] \o ms /\ down[e] \in Seq(Message)
        BY <1>1, <1>3, <1>4
  <2>2. /\ HasStart(down[e] \o ms, r) => HasStart(down[e], r) \/ r = q
        /\ r # q /\ OneStart(down[e], r) => OneStart(down[e] \o ms, r)
        /\ ~HasStart(down[e], r) => OneStart(down[e] \o ms, r)
        BY <2>1, StartAdded, Zenon DEF ms
  <2>3. QED
        BY <1>4, <2>1, <2>2
<1>5. CASE down'[e] = down[e]
      BY <1>5 DEF HasStart, OneStart
<1>6. QED
      BY <1>3, <1>4, <1>5

\* Starts of a run are added only by sending one.
LEMMA StartsStep ==
    ASSUME TypeInv, ReachInv, [Next]_vars, NEW r \in Runs
    PROVE  \/ SendStart(r)
           \/ \A e \in Epochs : /\ HasStart(down'[e], r) => HasStart(down[e], r)
                                /\ OneStart(down[e], r) => OneStart(down'[e], r)
<1>0. down \in [Epochs -> Seq(Message)]
      BY DEF TypeInv, WireOK
<1>1. CASE QuietGrown
  <2>1. ASSUME NEW e \in Epochs
        PROVE  /\ HasStart(down'[e], r) => HasStart(down[e], r)
               /\ OneStart(down[e], r) => OneStart(down'[e], r)
    <3>1. PICK ms \in Seq(Message) : Quiet(ms) /\ down'[e] = down[e] \o ms
          BY <1>1 DEF QuietGrown
    <3>2. down[e] \in Seq(Message)
          BY <1>0
    <3>3. QED
          BY <3>1, <3>2, QuietStarts
  <2>2. QED
        BY <2>1
<1>2. ASSUME NEW x \in Epochs, Reads(x), NEW e \in Epochs
      PROVE  /\ HasStart(down'[e], r) => HasStart(down[e], r)
             /\ OneStart(down[e], r) => OneStart(down'[e], r)
  <2>1. down[x] # <<>> /\ down' = [down EXCEPT ![x] = Tail(down[x])]
        BY <1>2 DEF Reads, ReceiveRegistered, ReceiveStart, ReceiveStop
  <2>2. CASE e = x
    <3>1. down'[e] = Tail(down[e]) /\ down[e] \in Seq(Message) /\ down[e] # <<>>
          BY <1>0, <2>1, <2>2
    <3>2. QED
          BY <3>1, TailStarts
  <2>3. CASE e # x
    <3>1. down'[e] = down[e]
          BY <1>0, <2>1, <2>3
    <3>2. QED
          BY <3>1 DEF HasStart, OneStart
  <2>4. QED
        BY <2>2, <2>3
<1>3. CASE \A x \in Epochs : down'[x] = <<>>
      BY <1>3, NoStarts
<1>4. ASSUME NEW q \in Runs, SendStart(q), q # r, NEW e \in Epochs
      PROVE  /\ HasStart(down'[e], r) => HasStart(down[e], r)
             /\ OneStart(down[e], r) => OneStart(down'[e], r)
      BY <1>4, SentStart
<1>5. QED
      BY <1>1, <1>2, <1>3, <1>4, DownWriters

\* The terminal event of a run, on a socket or in the buffer of the bus.
EndOf(m, r) == m.kind = "ended" /\ r \in m.runs
HasEnd(ms, r) == \E i \in 1..Len(ms) : EndOf(ms[i], r)
Buffered(r) == \E i \in 1..Len(buffer) : buffer[i] = r
Ending(r) == Buffered(r) \/ \E e \in Epochs : HasEnd(up[e], r)

\* Fewer messages hold no more reports of an ended run.
LEMMA ShorterEnds ==
    ASSUME NEW ms \in Seq(Message), NEW r
    PROVE  /\ ~HasEnd(<<>>, r)
           /\ ms # <<>> /\ HasEnd(Tail(ms), r) => HasEnd(ms, r)
           /\ \A n \in 0..Len(ms) : HasEnd(SubSeq(ms, 1, n), r) => HasEnd(ms, r)
<1>1. ~HasEnd(<<>>, r)
      BY DEF HasEnd
<1>2. ASSUME ms # <<>>, HasEnd(Tail(ms), r) PROVE HasEnd(ms, r)
  <2>1. \A i \in 1..Len(Tail(ms)) : Tail(ms)[i] = ms[i + 1] /\ i + 1 \in 1..Len(ms)
        BY <1>2, TailSeq
  <2>2. QED
        BY <1>2, <2>1 DEF HasEnd
<1>3. ASSUME NEW n \in 0..Len(ms), HasEnd(SubSeq(ms, 1, n), r) PROVE HasEnd(ms, r)
  <2>1. /\ Len(SubSeq(ms, 1, n)) = n /\ Len(ms) \in Nat
        /\ \A i \in 1..n : SubSeq(ms, 1, n)[i] = ms[i] /\ i \in 1..Len(ms)
        OBVIOUS
  <2>2. QED
        BY <1>3, <2>1 DEF HasEnd
<1>4. QED
      BY <1>1, <1>2, <1>3

\* What the bus keeps of a socket that ended was on that socket.
LEMMA EventsOfEnds ==
    ASSUME NEW ms, UpShaped(ms), NEW m \in 0..Len(ms)
    PROVE  LET kept == EventsOf(SubSeq(ms, m + 1, Len(ms)))
           IN  \A i \in 1..Len(kept) : HasEnd(ms, kept[i])
<1> DEFINE tail == SubSeq(ms, m + 1, Len(ms))
           events == IF tail # <<>> /\ Head(tail).kind = "register" THEN Tail(tail) ELSE tail
<1>1. ms \in Seq(Message) /\ Len(ms) \in Nat
      BY DEF UpShaped
<1>2. /\ tail \in Seq(Message) /\ Len(tail) = Len(ms) - m
      /\ \A i \in 1..Len(tail) : tail[i] = ms[m + i] /\ m + i \in 1..Len(ms)
      BY <1>1
<1>3. \A i \in 1..Len(tail) : EventShaped(tail[i]) \/ (i = 1 /\ tail[i].kind = "register")
      BY <1>1, <1>2 DEF UpShaped
<1> HIDE DEF tail
<1>4. /\ events \in Seq(Message)
      /\ \A i \in 1..Len(events) : /\ EventShaped(events[i])
                                   /\ \E j \in 1..Len(tail) : events[i] = tail[j]
  <2>1. CASE tail # <<>> /\ Head(tail).kind = "register"
    <3>1. events = Tail(tail) /\ Len(tail) \in Nat
          BY <1>2, <2>1
    <3>2. /\ Tail(tail) \in Seq(Message) /\ Len(Tail(tail)) \in Nat
          /\ \A i \in 1..Len(Tail(tail)) :
               Tail(tail)[i] = tail[i + 1] /\ i + 1 \in 1..Len(tail) /\ i + 1 # 1
          BY <1>2, <2>1, TailSeq
    <3>3. QED
          BY <1>3, <3>1, <3>2
  <2>2. CASE tail # <<>> /\ Head(tail).kind # "register"
    <3>1. events = tail /\ Head(tail) = tail[1]
          BY <1>2, <2>2, TailSeq
    <3>2. QED
          BY <1>2, <1>3, <2>2, <3>1
  <2>3. CASE tail = <<>>
        BY <2>3
  <2>4. QED
        BY <2>1, <2>2, <2>3
<1>5. EventsOf(tail) = [i \in DOMAIN events |-> CHOOSE r \in events[i].runs : TRUE]
      BY DEF EventsOf
<1> HIDE DEF events
<1>6. DOMAIN events = 1..Len(events) /\ Len(events) \in Nat
      BY <1>4
<1>7. EventsOf(tail) \in Seq(Runs) /\ DOMAIN EventsOf(tail) = 1..Len(EventsOf(tail))
  <2>1. EventsOf(tail) \in Seq(Runs)
        BY EventsOfRuns DEF tail
  <2>2. QED
        BY <2>1
<1>8. DOMAIN EventsOf(tail) = 1..Len(events)
      BY <1>5, <1>6
<1>9. ASSUME NEW i \in 1..Len(events) PROVE HasEnd(ms, EventsOf(tail)[i])
  <2>1. EventsOf(tail)[i] = CHOOSE r \in events[i].runs : TRUE
        BY <1>5, <1>6
  <2>2. PICK q \in Runs : events[i].runs = {q} /\ events[i].kind = "ended"
        BY <1>4 DEF EventShaped
  <2>3. EventsOf(tail)[i] \in events[i].runs
        BY <2>1, <2>2
  <2>4. PICK j \in 1..Len(tail) : events[i] = tail[j]
        BY <1>4
  <2>5. m + j \in 1..Len(ms) /\ events[i] = ms[m + j]
        BY <1>2, <2>4
  <2>6. EndOf(ms[m + j], EventsOf(tail)[i])
        BY <2>2, <2>3, <2>5 DEF EndOf
  <2>7. QED
        BY <2>5, <2>6 DEF HasEnd
<1>10. \A i \in 1..Len(EventsOf(tail)) : HasEnd(ms, EventsOf(tail)[i])
      BY <1>7, <1>8, <1>9
<1>11. QED
      BY <1>10 DEF tail

\* Leaving a socket creates no report of an ended run.
LEMMA LeaveEnds ==
    ASSUME TypeInv, NEW e \in Epochs, NEW b, LeaveSocket(e, b, buffer), NEW r, Ending(r)'
    PROVE  Ending(r)
<1>1. UpShaped(up[e]) /\ up \in [Epochs -> Seq(Message)] /\ buffer \in Seq(Runs)
      BY DEF TypeInv, WireOK, RunnerOK
<1>2. PICK n \in Nat : Left(e, n)
      BY LeaveSocketOK
<1>3. /\ \A x \in Epochs \ {e} : up'[x] = up[x]
      /\ up'[e] = SubSeq(up[e], 1, n) /\ n \in 0..Len(up[e]) /\ up[e] \in Seq(Message)
      BY <1>1, <1>2 DEF Left
<1>4. ASSUME NEW x \in Epochs, HasEnd(up'[x], r) PROVE HasEnd(up[x], r)
  <2>1. CASE x = e
        BY <1>3, <1>4, <2>1, ShorterEnds
  <2>2. CASE x # e
        BY <1>3, <1>4, <2>2
  <2>3. QED
        BY <2>1, <2>2
<1>5. ASSUME Buffered(r)' PROVE Ending(r)
  <2>1a. PICK k \in (IF MidRegistration(e) THEN 1 ELSE 0)..Len(up[e]) :
           \E m \in k..Len(up[e]) :
             buffer' = buffer \o EventsOf(SubSeq(up[e], m + 1, Len(up[e])))
        BY DEF LeaveSocket
  <2>1. PICK m \in k..Len(up[e]) :
          buffer' = buffer \o EventsOf(SubSeq(up[e], m + 1, Len(up[e])))
        BY <2>1a
  <2> DEFINE kept == EventsOf(SubSeq(up[e], m + 1, Len(up[e])))
  <2>2. Len(up[e]) \in Nat
        BY <1>1 DEF UpShaped
  <2>3. m \in 0..Len(up[e])
        BY <2>1, <2>2
  <2>4. kept \in Seq(Runs)
        BY <1>1, <2>3, EventsOfRuns
  <2>5. \A i \in 1..Len(kept) : HasEnd(up[e], kept[i])
        BY <1>1, <2>3, EventsOfEnds
  <2>6. buffer' = buffer \o kept
        BY <2>1
  <2> HIDE DEF kept
  <2>7. PICK i \in 1..Len(buffer') : buffer'[i] = r
        BY <1>5 DEF Buffered
  <2>8. \/ i \in 1..Len(buffer) /\ buffer'[i] = buffer[i]
        \/ i - Len(buffer) \in 1..Len(kept) /\ buffer'[i] = kept[i - Len(buffer)]
        BY <1>1, <2>4, <2>6, <2>7
  <2>9. QED
        BY <2>5, <2>7, <2>8 DEF Ending, Buffered
<1>6. QED
      BY <1>4, <1>5 DEF Ending

\* Messages of one socket that get fewer name no new ending.
LEMMA FewerEnds ==
    ASSUME TypeInv, NEW e \in Epochs, NEW r,
           \/ up' = up \/ up' = [up EXCEPT ![e] = <<>>]
           \/ up[e] # <<>> /\ up' = [up EXCEPT ![e] = Tail(up[e])]
           \/ \E n \in 0..Len(up[e]) : up' = [up EXCEPT ![e] = SubSeq(up[e], 1, n)],
           NEW x \in Epochs, HasEnd(up'[x], r)
    PROVE  HasEnd(up[x], r)
<1>1. up \in [Epochs -> Seq(Message)] /\ up[e] \in Seq(Message)
      BY DEF TypeInv, WireOK
<1>2. CASE x # e
  <2>1. up'[x] = up[x]
        BY <1>1, <1>2
  <2>2. QED
        BY <2>1
<1>3. CASE x = e
  <2>1. \/ up'[e] = up[e] \/ up'[e] = <<>>
        \/ up[e] # <<>> /\ up'[e] = Tail(up[e])
        \/ \E n \in 0..Len(up[e]) : up'[e] = SubSeq(up[e], 1, n)
        BY <1>1
  <2>2. QED
        BY <1>1, <1>3, <2>1, ShorterEnds
<1>4. QED
      BY <1>2, <1>3

\* A run that ends creates a report of itself only.
LEMMA RunEndsEnds ==
    ASSUME TypeInv, NEW q \in Runs, RunEnds(q), NEW r, Ending(r)'
    PROVE  Ending(r) \/ r = q
<1>1. /\ up \in [Epochs -> Seq(Message)] /\ buffer \in Seq(Runs)
      /\ bus \in Epochs \cup {NoEpoch}
      BY DEF TypeInv, WireOK, RunnerOK
<1>2. Ended(q) \in Message /\ (EndOf(Ended(q), r) => r = q)
      BY EndedShaped DEF EndOf, Ended, Msg
<1>3. CASE bus # NoEpoch /\ up' = [up EXCEPT ![bus] = Append(up[bus], Ended(q))] /\ buffer' = buffer
  <2>1. bus \in Epochs /\ up[bus] \in Seq(Message)
        BY <1>1, <1>3
  <2>2. up'[bus] = Append(up[bus], Ended(q)) /\ \A x \in Epochs \ {bus} : up'[x] = up[x]
        BY <1>1, <1>3, <2>1
  <2>3. /\ Len(Append(up[bus], Ended(q))) = Len(up[bus]) + 1 /\ Len(up[bus]) \in Nat
        /\ \A i \in 1..Len(up[bus]) : Append(up[bus], Ended(q))[i] = up[bus][i]
        /\ Append(up[bus], Ended(q))[Len(up[bus]) + 1] = Ended(q)
        BY <1>2, <2>1
  <2>4. \A i \in 1..Len(up'[bus]) : i \in 1..Len(up[bus]) \/ i = Len(up[bus]) + 1
        BY <2>2, <2>3
  <2>5. HasEnd(up'[bus], r) => HasEnd(up[bus], r) \/ r = q
        BY <1>2, <2>2, <2>3, <2>4 DEF HasEnd
  <2>6. QED
        BY <1>3, <2>1, <2>2, <2>5 DEF Ending, Buffered
<1>4. CASE up' = up /\ buffer' = Append(buffer, q)
  <2>1. \A i \in 1..Len(buffer') :
          buffer'[i] = q \/ (i \in 1..Len(buffer) /\ buffer'[i] = buffer[i])
        BY <1>1, <1>4
  <2>2. QED
        BY <1>4, <2>1 DEF Ending, Buffered
<1>5. CASE up' = up /\ buffer' = buffer
      BY <1>5 DEF Ending, Buffered
<1>6. QED
      BY <1>3, <1>4, <1>5 DEF RunEnds, SendEvent

\* Opening a socket sends the buffered reports and no other.
LEMMA ConnectEnds ==
    ASSUME TypeInv, NEW e \in Epochs, Connect(e), NEW r, Ending(r)'
    PROVE  Ending(r)
<1>1. up' = [up EXCEPT ![e] = Opening] /\ buffer' = <<>>
      BY DEF Connect, Opening
<1>2. up \in [Epochs -> Seq(Message)] /\ buffer \in Seq(Runs) /\ Len(buffer) \in Nat
      BY DEF TypeInv, WireOK, RunnerOK
<1>3. up'[e] = Opening /\ \A x \in Epochs \ {e} : up'[x] = up[x]
      BY <1>1, <1>2
<1>4. ~Buffered(r)'
      BY <1>1 DEF Buffered
<1>5. ASSUME HasEnd(Opening, r) PROVE Buffered(r)
  <2>1. PICK i \in 1..Len(Opening) : EndOf(Opening[i], r)
        BY <1>5 DEF HasEnd
  <2>2. /\ Len(Opening) = 1 + Len(buffer) /\ Opening[1] = Msg("register", PresentedToken, held)
        /\ \A j \in 1..Len(buffer) : Opening[j + 1] = Ended(buffer[j])
        BY OpeningShaped
  <2>3. i # 1
        BY <2>1, <2>2 DEF EndOf, Msg
  <2>4. i - 1 \in 1..Len(buffer) /\ (i - 1) + 1 = i
        BY <1>2, <2>1, <2>2, <2>3
  <2>5. EndOf(Ended(buffer[i - 1]), r)
        BY <2>1, <2>2, <2>4
  <2>6. buffer[i - 1] = r
        BY <2>5 DEF EndOf, Ended, Msg
  <2>7. QED
        BY <2>4, <2>6 DEF Buffered
<1>6. QED
      BY <1>3, <1>4, <1>5 DEF Ending

\* A report of an ended run appears only when the runner lets go of it.
LEMMA EndsStep ==
    ASSUME TypeInv, [Next]_vars, NEW r \in Runs, Ending(r)'
    PROVE  Ending(r) \/ (r \in held /\ r \in reported')
<1>0. link \in Epochs \cup {NoEpoch} /\ up \in [Epochs -> Seq(Message)]
      BY DEF TypeInv, RunnerOK, WireOK
<1>1. ASSUME up' = up, buffer' = buffer PROVE Ending(r)
      BY <1>1 DEF Ending, Buffered
<1>2. ASSUME NEW e \in Epochs, RunnerStep(e) PROVE Ending(r)
      BY <1>1, <1>2, ConnectEnds, LeaveEnds
      DEF RunnerStep, ReceiveRegistered, ReceiveRejected, ReceiveDisconnect, ReceiveStart,
          ReceiveStop
<1>3. ASSUME NEW q \in Runs, RunEnds(q) PROVE Ending(r) \/ (r \in held /\ r \in reported')
      BY <1>3, RunEndsEnds DEF RunEnds
<1>4. ASSUME SocketBreaks PROVE Ending(r)
  <2>1. link \in Epochs /\ LeaveSocket(link, NoEpoch, buffer)
        BY <1>0, <1>4 DEF SocketBreaks
  <2>2. QED
        BY <2>1, LeaveEnds
<1>5. ASSUME NEW e \in Epochs, buffer' = buffer \/ buffer' = <<>>,
             \/ up' = up \/ up' = [up EXCEPT ![e] = <<>>]
             \/ up[e] # <<>> /\ up' = [up EXCEPT ![e] = Tail(up[e])]
             \/ \E n \in 0..Len(up[e]) : up' = [up EXCEPT ![e] = SubSeq(up[e], 1, n)]
      PROVE  Ending(r)
  <2>1. Buffered(r)' => Buffered(r)
        BY <1>5 DEF Buffered
  <2>2. \A x \in Epochs : HasEnd(up'[x], r) => HasEnd(up[x], r)
        BY <1>5, FewerEnds
  <2>3. QED
        BY <2>1, <2>2 DEF Ending
<1>6. ASSUME RunnerCrashes PROVE Ending(r)
  <2>1. CASE link = NoEpoch
    <3>1. up' = up /\ buffer' = <<>>
          BY <1>6, <2>1 DEF RunnerCrashes
    <3>2. ~Buffered(r)'
          BY <3>1 DEF Buffered
    <3>3. QED
          BY <3>1, <3>2 DEF Ending
  <2>2. CASE link \in Epochs
    <3>1. PICK n \in (IF MidRegistration(link) THEN 1 ELSE 0)..Len(up[link]) :
            up' = [up EXCEPT ![link] = SubSeq(up[link], 1, n)]
          BY <1>6, <2>2, ConnectionConstants DEF RunnerCrashes
    <3>2. n \in 0..Len(up[link])
          BY <1>0, <2>2, <3>1
    <3>3. buffer' = <<>>
          BY <1>6 DEF RunnerCrashes
    <3>4. QED
          BY <1>5, <2>2, <3>1, <3>2, <3>3
  <2>3. QED
        BY <1>0, <2>1, <2>2
<1>7. ASSUME ServerRestarts PROVE Ending(r)
      BY <1>7, ShorterEnds DEF ServerRestarts, Ending, Buffered, HasEnd
<1>8. ASSUME NEW e \in Epochs,
             Reject(e) \/ RunnerConnectedFails(e) \/ Reconcile(e) \/ HandleEvent(e)
      PROVE  Ending(r)
  <2>1. buffer' = buffer
        BY <1>8 DEF Reject, RunnerConnectedFails, Reconcile, HandleEvent, runnerVars
  <2>2. up[e] # <<>>
        BY <1>8 DEF Reject, Registering, RunnerConnectedFails, Reconcile, HandleEvent,
           TypeInv, WireOK, MidRegistration
  <2>3. up' = [up EXCEPT ![e] = <<>>] \/ up' = [up EXCEPT ![e] = Tail(up[e])]
        BY <1>8 DEF Reject, RunnerConnectedFails, Reconcile, HandleEvent
  <2>4. QED
        BY <1>5, <2>1, <2>2, <2>3
<1>9. ASSUME NEW e \in Epochs,
             \/ InsertEntry(e) \/ MarkUnclaimedFails(e) \/ HeartbeatRejected(e)
             \/ RotateCredential(e)
      PROVE  Ending(r)
      BY <1>1, <1>9 DEF InsertEntry, MarkUnclaimedFails, HeartbeatRejected,
                        RotateCredential, runnerVars
<1>10. ASSUME (\E q \in Runs : SendStart(q)) \/ ForgetRevoked PROVE Ending(r)
      BY <1>1, <1>10 DEF SendStart, ForgetRevoked, runnerVars
<1>11. ASSUME UNCHANGED wireVars,
              UNCHANGED runnerVars \/ ReEnroll \/ \E q \in Runs : RunRemoved(q)
       PROVE  Ending(r)
      BY <1>1, <1>11 DEF wireVars, runnerVars, ReEnroll, RunRemoved
<1>12. QED
      BY <1>2, <1>3, <1>4, <1>6, <1>7, <1>8, <1>9, <1>10, <1>11, WireWriters, RunnerWriters

(***************************************************************************)
(* The life of a run, seen from the runner: before its start is sent       *)
(* nobody knows of it, then its one start is on the way, then the runner   *)
(* works on it, then its terminal event is on the way, while the runner    *)
(* finalizes and forgets it.  A run is at one of these places at a time.   *)
(***************************************************************************)
Fresh(r) == run[r].status = "none" \/ pass[r].stage # "idle"
Starting(r) == \E e \in Epochs : HasStart(down[e], r)

LifeInv ==
    \A r \in Runs :
        /\ Fresh(r) => r \notin held /\ ~Starting(r) /\ ~Ending(r)
        /\ Starting(r) => r \notin held /\ ~Ending(r)
        /\ Ending(r) => r \notin held \ reported
        /\ \A e \in Epochs : OneStart(down[e], r)
        /\ pass[r].stage = "created" => run[r].status # "none"

\* No step makes a run that exists unknown to the store.
LEMMA RunsAge ==
    ASSUME TypeInv, [Next]_vars, NEW r \in Runs, run'[r].status = "none"
    PROVE  run[r].status = "none"
<1>1. run \in [Runs -> RunRow]
      BY DEF TypeInv, StoreOK
<1>2. CASE run' = run
      BY <1>2
<1>3. ASSUME NEW rs, MarkLost(rs) PROVE run[r].status = "none"
      BY <1>3, LostSettles
<1>4. ASSUME NEW e \in Epochs, RunnerConnected(e) PROVE run[r].status = "none"
      BY <1>1, <1>4 DEF RunnerConnected, RunRow
<1>5. ASSUME NEW q, NEW s, s # "none", run' = [run EXCEPT ![q].status = s]
      PROVE  run[r].status = "none"
      BY <1>1, <1>5 DEF RunRow
<1>6. ASSUME NEW e \in Epochs, HandleEvent(e) PROVE run[r].status = "none"
  <2> DEFINE q == CHOOSE x \in Head(up[e]).runs : TRUE
  <2>1. run' = run \/ run' = [run EXCEPT ![q].status = "closed"]
        BY <1>6 DEF HandleEvent
  <2> HIDE DEF q
  <2>2. QED
        BY <1>2, <1>5, <2>1
<1>7. ASSUME NEW q \in Runs, CreateTaskRun(q) PROVE run[r].status = "none"
      BY <1>1, <1>7 DEF CreateTaskRun
<1>8. ASSUME NEW q \in Runs, StartFails(q) PROVE run[r].status = "none"
  <2>1. \/ run' = run
        \/ run' = [run EXCEPT ![q].status = IF @ = "active" THEN "closed" ELSE @]
        BY <1>8 DEF StartFails
  <2>2. QED
        BY <1>1, <1>2, <2>1 DEF RunRow
<1>9. ASSUME NEW e \in Epochs, MarkUnclaimed(e) \/ GraceExpires(e)
      PROVE  run[r].status = "none"
      BY <1>2, <1>3, <1>9 DEF MarkUnclaimed, GraceExpires
<1>10. ASSUME RevokeRunner PROVE run[r].status = "none"
      BY <1>3, <1>10 DEF RevokeRunner
<1>11. ASSUME NEW q \in Runs, WithdrawRun(q) PROVE run[r].status = "none"
      BY <1>5, <1>11 DEF WithdrawRun
<1>12. QED
      BY <1>2, <1>4, <1>6, <1>7, <1>8, <1>9, <1>10, <1>11, StoreWriters
      DEF storeVars, Authenticate, RunnerDisconnected, ReEnroll, CredentialExpires,
          ServerRestarts

\* What a step does to the scheduling pass of a run.
LEMMA PassMoves ==
    ASSUME TypeInv, [Next]_vars, NEW r \in Runs
    PROVE  pass'[r] = pass[r] \/ pass'[r].stage = "idle" \/ SelectRunner(r) \/ CreateTaskRun(r)
<1>1. pass \in [Runs -> PassRow]
      BY DEF TypeInv, ServerOK
<1>2. CASE pass' = pass
      BY <1>2
<1>3. ASSUME NEW q \in Runs, SelectRunner(q) \/ CreateTaskRun(q), q # r
      PROVE  pass'[r] = pass[r]
      BY <1>1, <1>3 DEF SelectRunner, CreateTaskRun
<1>4. ASSUME NEW q \in Runs, SendStart(q) \/ StartFails(q)
      PROVE  pass'[r] = pass[r] \/ pass'[r].stage = "idle"
      BY <1>1, <1>4, EmptyRows DEF SendStart, StartFails
<1>5. CASE ServerRestarts
      BY <1>5, EmptyRows DEF ServerRestarts
<1>6. ASSUME NEW e \in Epochs,
             \/ Connect(e) \/ Authenticate(e) \/ Reject(e) \/ RunnerConnected(e)
             \/ RunnerConnectedFails(e) \/ InsertEntry(e) \/ Reconcile(e)
      PROVE  pass' = pass
      BY <1>6 DEF Connect, Authenticate, Reject, RunnerConnected, RunnerConnectedFails,
                  InsertEntry, Reconcile
<1>7. ASSUME NEW e \in Epochs,
             \/ MarkUnclaimed(e) \/ MarkUnclaimedFails(e) \/ EnableDispatch(e)
             \/ HeartbeatRejected(e) \/ SocketEnds(e) \/ RunnerDisconnected(e)
             \/ RunnerDisconnectedFails(e) \/ GraceExpires(e) \/ GraceExpiryFails(e)
      PROVE  pass' = pass
      BY <1>7 DEF MarkUnclaimed, MarkUnclaimedFails, EnableDispatch, HeartbeatRejected,
                  SocketEnds, RunnerDisconnected, RunnerDisconnectedFails, GraceExpires,
                  GraceExpiryFails
<1>8. ASSUME UNCHANGED serverVars \/ RevokeRunner \/ ForgetRevoked PROVE pass' = pass
      BY <1>8 DEF serverVars, RevokeRunner, ForgetRevoked
<1>9. QED
      BY <1>2, <1>3, <1>4, <1>5, <1>6, <1>7, <1>8, ServerWriters DEF PassStep

\* A run is never fresh again, and its start is sent when it is fresh.
LEMMA FreshStep ==
    ASSUME TypeInv, LifeInv, [Next]_vars, NEW r \in Runs
    PROVE  /\ Fresh(r)' => Fresh(r)
           /\ pass'[r].stage = "created" => run'[r].status # "none"
           /\ SendStart(r) => Fresh(r) /\ ~Fresh(r)'
<1>1. pass \in [Runs -> PassRow] /\ run \in [Runs -> RunRow]
      BY DEF TypeInv, StoreOK, ServerOK
<1>2. SelectRunner(r) => run[r].status = "none" /\ pass'[r].stage = "selected"
      BY <1>1 DEF SelectRunner
<1>3. CreateTaskRun(r) => pass[r].stage = "selected" /\ run'[r].status # "none"
      BY <1>1 DEF CreateTaskRun
<1>4. Fresh(r)' => Fresh(r)
      BY <1>2, <1>3, RunsAge, PassMoves DEF Fresh
<1>5. pass'[r].stage = "created" => run'[r].status # "none"
      BY <1>2, <1>3, RunsAge, PassMoves DEF LifeInv
<1>6. ASSUME SendStart(r) PROVE Fresh(r) /\ ~Fresh(r)'
  <2>1. pass[r].stage = "created" /\ pass'[r].stage = "idle" /\ run' = run
        BY <1>1, <1>6, EmptyRows DEF SendStart, storeVars
  <2>2. run[r].status # "none"
        BY <2>1 DEF LifeInv
  <2>3. QED
        BY <2>1, <2>2 DEF Fresh
<1>7. QED
      BY <1>4, <1>5, <1>6

\* The runner takes hold of a run only by reading its start.
LEMMA HeldStep ==
    ASSUME TypeInv, ReachInv, LifeInv, [Next]_vars, NEW r \in Runs, r \in held'
    PROVE  \/ r \in held /\ (r \in reported => r \in reported')
           \/ Starting(r) /\ ~Starting(r)'
<1>1. ASSUME NEW e \in Epochs, ReceiveStart(e), r \notin held
      PROVE  Starting(r) /\ ~Starting(r)'
  <2>1. /\ link = e /\ down[e] # <<>> /\ Head(down[e]).kind = "start"
        /\ down' = [down EXCEPT ![e] = Tail(down[e])] /\ r \in Head(down[e]).runs
        BY <1>1 DEF ReceiveStart
  <2>2. down \in [Epochs -> Seq(Message)] /\ down[e] \in Seq(Message)
        BY DEF TypeInv, WireOK
  <2>3. StartOf(Head(down[e]), r)
        BY <2>1 DEF StartOf
  <2>4. HasStart(down[e], r)
    <3>1. Head(down[e]) = down[e][1] /\ 1 \in 1..Len(down[e])
          BY <2>1, <2>2, TailSeq
    <3>2. QED
          BY <2>3, <3>1 DEF HasStart
  <2>5. OneStart(down[e], r)
        BY DEF LifeInv
  <2>6. down'[e] = Tail(down[e]) /\ ~HasStart(down'[e], r)
        BY <2>1, <2>2, <2>3, <2>5, TailStarts
  <2>7. \A x \in Epochs : x # e => down'[x] = <<>>
        BY <2>1, <2>2 DEF ReachInv
  <2>8. QED
        BY <2>4, <2>6, <2>7, NoStarts DEF Starting
<1>2. ASSUME NEW e \in Epochs, RunnerStep(e), ~ReceiveStart(e)
      PROVE  held' = held /\ reported' = reported
      BY <1>2 DEF RunnerStep, Connect, ReceiveRegistered, ReceiveRejected,
                  ReceiveDisconnect, ReceiveStop
<1>3. ASSUME NEW q \in Runs, RunEnds(q) \/ RunRemoved(q)
      PROVE  r \in held /\ (r \in reported => r \in reported')
      BY <1>3 DEF RunEnds, RunRemoved
<1>4. CASE SocketBreaks \/ RunnerCrashes \/ ReEnroll \/ ServerRestarts \/ UNCHANGED runnerVars
      BY <1>4 DEF SocketBreaks, RunnerCrashes, ReEnroll, ServerRestarts, runnerVars
<1>5. ASSUME NEW e \in Epochs, ReceiveStart(e) PROVE reported' = reported
      BY <1>5 DEF ReceiveStart
<1>6. QED
      BY <1>1, <1>2, <1>3, <1>4, <1>5, RunnerWriters

\* Every step keeps a run at one place at a time.
LEMMA StepLife ==
    ASSUME TypeInv, ReachInv, LifeInv, [Next]_vars
    PROVE  LifeInv'
<1> SUFFICES ASSUME NEW r \in Runs
             PROVE  /\ Fresh(r)' => r \notin held' /\ ~Starting(r)' /\ ~Ending(r)'
                    /\ Starting(r)' => r \notin held' /\ ~Ending(r)'
                    /\ Ending(r)' => r \notin held' \ reported'
                    /\ \A e \in Epochs : OneStart(down'[e], r)
                    /\ pass'[r].stage = "created" => run'[r].status # "none"
    BY DEF LifeInv
<1>1. /\ Fresh(r)' => Fresh(r)
      /\ pass'[r].stage = "created" => run'[r].status # "none"
      /\ SendStart(r) => Fresh(r) /\ ~Fresh(r)'
      BY FreshStep
<1>2. Starting(r)' => Starting(r) \/ (Fresh(r) /\ ~Fresh(r)')
      BY <1>1, StartsStep DEF Starting
<1>3. r \in held' => \/ r \in held /\ (r \in reported => r \in reported')
                     \/ Starting(r) /\ ~Starting(r)'
      BY HeldStep
<1>4. Ending(r)' => Ending(r) \/ (r \in held /\ r \in reported')
      BY EndsStep
<1>5. /\ Fresh(r) => r \notin held /\ ~Starting(r) /\ ~Ending(r)
      /\ Starting(r) => r \notin held /\ ~Ending(r)
      /\ Ending(r) => r \notin held \ reported
      /\ \A e \in Epochs : OneStart(down[e], r)
      BY DEF LifeInv
<1>6. \A e \in Epochs : OneStart(down'[e], r)
  <2>1. CASE SendStart(r)
    <3>1. \A e \in Epochs : ~HasStart(down[e], r)
          BY <1>1, <1>5, <2>1 DEF Starting
    <3>2. QED
          BY <2>1, <3>1, SentStart
  <2>2. CASE ~SendStart(r)
        BY <1>5, <2>2, StartsStep
  <2>3. QED
        BY <2>1, <2>2
<1>7. QED
      BY <1>1, <1>2, <1>3, <1>4, <1>5, <1>6

(***************************************************************************)
(* What the socket carries towards the server: as long as the registration *)
(* is under way its first message claims everything the runner holds, and  *)
(* afterwards there are only terminal events.                              *)
(***************************************************************************)
ClaimsInv ==
    \A e \in Epochs : link = e /\ handler[e].phase \in Early =>
        up[e] # <<>> /\ held \subseteq up[e][1].runs

Registered == {"served", "unregistered"}
EventsInv ==
    \A e \in Epochs : handler[e].phase \in Registered =>
        \A i \in 1..Len(up[e]) : EventShaped(up[e][i])

\* How one handler's phase may change in a step, and who else moves then.
LEMMA PhaseChanges ==
    ASSUME TypeInv, [Next]_vars, NEW e \in Epochs
    PROVE  \/ handler'[e].phase = handler[e].phase
           \/ Connect(e) /\ handler'[e].phase = "reading"
           \/ /\ handler[e].phase \in Early /\ handler'[e].phase \in Early
              /\ up' = up /\ UNCHANGED runnerVars
           \/ RunnerConnectedFails(e) /\ handler'[e].phase = "unregistered"
           \/ Reconcile(e) /\ handler'[e].phase = "served"
           \/ handler'[e].phase \in {"idle", "closing"}
<1>1. handler \in [Epochs -> HandlerRow] /\ handler[e] \in HandlerRow
      BY DEF TypeInv, ServerOK
<1>2. CASE handler' = handler
      BY <1>2
<1>3. ASSUME NEW x \in Epochs, x # e,
             \/ Connect(x) \/ Authenticate(x) \/ Reject(x) \/ RunnerConnected(x)
             \/ RunnerConnectedFails(x) \/ InsertEntry(x) \/ Reconcile(x)
             \/ SocketEnds(x) \/ RunnerDisconnected(x) \/ RunnerDisconnectedFails(x)
      PROVE  handler'[e] = handler[e]
      BY <1>1, <1>3 DEF Connect, Authenticate, Reject, RunnerConnected,
         RunnerConnectedFails, InsertEntry, Reconcile, SocketEnds, RunnerDisconnected,
         RunnerDisconnectedFails
<1>4. ASSUME Connect(e) PROVE handler'[e].phase = "reading"
      BY <1>1, <1>4 DEF Connect, HandlerRow
<1>5. ASSUME Authenticate(e) \/ RunnerConnected(e) \/ InsertEntry(e)
      PROVE  /\ handler[e].phase \in Early /\ handler'[e].phase \in Early
             /\ up' = up /\ UNCHANGED runnerVars
  <2>1. CASE Authenticate(e)
        BY <1>1, <2>1 DEF Authenticate, Registering, Early, wireVars
  <2>2. CASE RunnerConnected(e)
        BY <1>1, <2>2 DEF RunnerConnected, Early, HandlerRow, wireVars
  <2>3. CASE InsertEntry(e)
        BY <1>1, <2>3 DEF InsertEntry, Early, IdleHandler
  <2>4. QED
        BY <1>5, <2>1, <2>2, <2>3
<1>6. ASSUME RunnerConnectedFails(e) PROVE handler'[e].phase = "unregistered"
      BY <1>1, <1>6 DEF RunnerConnectedFails, IdleHandler
<1>7. ASSUME Reconcile(e) PROVE handler'[e].phase = "served"
      BY <1>1, <1>7 DEF Reconcile, HandlerRow
<1>8. ASSUME Reject(e) \/ SocketEnds(e) \/ RunnerDisconnected(e) \/ RunnerDisconnectedFails(e)
      PROVE  handler'[e].phase \in {"idle", "closing"}
      BY <1>1, <1>8, IdleIsRow DEF Reject, SocketEnds, RunnerDisconnected,
         RunnerDisconnectedFails, HandlerRow
<1>9. ASSUME ServerRestarts PROVE handler'[e].phase = "idle"
      BY <1>9, IdleIsRow DEF ServerRestarts
<1>10. ASSUME NEW x \in Epochs,
              \/ MarkUnclaimed(x) \/ MarkUnclaimedFails(x) \/ EnableDispatch(x)
              \/ HeartbeatRejected(x) \/ GraceExpires(x) \/ GraceExpiryFails(x)
       PROVE  handler' = handler
      BY <1>10 DEF MarkUnclaimed, MarkUnclaimedFails, EnableDispatch, HeartbeatRejected,
         GraceExpires, GraceExpiryFails
<1>11. ASSUME NEW r \in Runs, SelectRunner(r) \/ PassStep(r) PROVE handler' = handler
      BY <1>11 DEF SelectRunner, PassStep, CreateTaskRun, SendStart, StartFails
<1>12. ASSUME UNCHANGED serverVars \/ RevokeRunner \/ ForgetRevoked PROVE handler' = handler
      BY <1>12 DEF serverVars, RevokeRunner, ForgetRevoked
<1>13. QED
      BY <1>2, <1>3, <1>4, <1>5, <1>6, <1>7, <1>8, <1>9, <1>10, <1>11, <1>12, ServerWriters

\* How the messages of one socket to the server may change in a step.
LEMMA UpStep ==
    ASSUME TypeInv, [Next]_vars, NEW e \in Epochs
    PROVE  \/ up'[e] = up[e]
           \/ Connect(e) /\ up'[e] = Opening
           \/ \E q \in Runs : up'[e] = Append(up[e], Ended(q))
           \/ link' = NoEpoch /\ \E n \in 0..Len(up[e]) : up'[e] = SubSeq(up[e], 1, n)
           \/ Reject(e) /\ up'[e] = <<>>
           \/ /\ RunnerConnectedFails(e) \/ Reconcile(e) \/ HandleEvent(e)
              /\ up[e] # <<>> /\ up'[e] = Tail(up[e])
<1> DEFINE Goal ==
           \/ up'[e] = up[e]
           \/ Connect(e) /\ up'[e] = Opening
           \/ \E q \in Runs : up'[e] = Append(up[e], Ended(q))
           \/ link' = NoEpoch /\ \E n \in 0..Len(up[e]) : up'[e] = SubSeq(up[e], 1, n)
           \/ Reject(e) /\ up'[e] = <<>>
           \/ /\ RunnerConnectedFails(e) \/ Reconcile(e) \/ HandleEvent(e)
              /\ up[e] # <<>> /\ up'[e] = Tail(up[e])
<1>0. up \in [Epochs -> Seq(Message)] /\ link \in Epochs \cup {NoEpoch}
      /\ bus \in Epochs \cup {NoEpoch}
      BY DEF TypeInv, WireOK, RunnerOK
<1>1. ASSUME up' = up PROVE Goal
      BY <1>1
<1>2. ASSUME NEW x \in Epochs, NEW b, LeaveSocket(x, b, buffer) PROVE Goal
  <2>1. link' = NoEpoch
        BY <1>2 DEF LeaveSocket
  <2>2. PICK n \in Nat : Left(x, n)
        BY <1>2, LeaveSocketOK
  <2>3. CASE x = e
        BY <1>0, <2>1, <2>2, <2>3 DEF Left
  <2>4. CASE x # e
        BY <1>0, <2>2, <2>4 DEF Left
  <2>5. QED
        BY <2>3, <2>4
<1>3. ASSUME NEW x \in Epochs, Connect(x) PROVE Goal
  <2>1. up' = [up EXCEPT ![x] = Opening]
        BY <1>3 DEF Connect, Opening
  <2>2. CASE x = e
    <3>1. Connect(e) /\ up'[e] = Opening
          BY <1>0, <1>3, <2>1, <2>2
    <3>2. QED
          BY <3>1
  <2>3. CASE x # e
        BY <1>0, <2>1, <2>3
  <2>4. QED
        BY <2>2, <2>3
<1>4. ASSUME NEW x \in Epochs, RunnerStep(x) PROVE Goal
  <2> HIDE DEF Goal
  <2>1. QED
        BY <1>1, <1>2, <1>3, <1>4
        DEF RunnerStep, ReceiveRegistered, ReceiveRejected, ReceiveDisconnect,
            ReceiveStart, ReceiveStop
<1>5. ASSUME NEW q \in Runs, RunEnds(q) PROVE Goal
  <2>1. up' = up \/ (bus # NoEpoch /\ up' = [up EXCEPT ![bus] = Append(up[bus], Ended(q))])
        BY <1>5 DEF RunEnds, SendEvent
  <2>2. up'[e] = up[e] \/ up'[e] = Append(up[e], Ended(q))
        BY <1>0, <2>1
  <2>3. QED
        BY <2>2
<1>6. ASSUME SocketBreaks PROVE Goal
  <2>1. link \in Epochs /\ LeaveSocket(link, NoEpoch, buffer)
        BY <1>0, <1>6 DEF SocketBreaks
  <2> HIDE DEF Goal
  <2>2. QED
        BY <1>2, <2>1
<1>7. ASSUME RunnerCrashes PROVE Goal
  <2>1. CASE link # e
        BY <1>0, <1>7, <2>1 DEF RunnerCrashes
  <2>2. CASE link = e
    <3>1. link' = NoEpoch
          BY <1>7, <2>2, ConnectionConstants DEF RunnerCrashes
    <3>2. PICK n \in (IF MidRegistration(e) THEN 1 ELSE 0)..Len(up[e]) :
            up' = [up EXCEPT ![e] = SubSeq(up[e], 1, n)]
          BY <1>7, <2>2, ConnectionConstants DEF RunnerCrashes
    <3>3. n \in 0..Len(up[e]) /\ up'[e] = SubSeq(up[e], 1, n)
          BY <1>0, <3>2
    <3>4. QED
          BY <3>1, <3>3
  <2>3. QED
        BY <2>1, <2>2
<1>8. ASSUME ServerRestarts PROVE Goal
  <2>1. link' = NoEpoch /\ up'[e] = <<>>
        BY <1>8 DEF ServerRestarts
  <2>2. 0 \in 0..Len(up[e]) /\ SubSeq(up[e], 1, 0) = <<>>
        BY <1>0
  <2>3. QED
        BY <2>1, <2>2
<1>9. ASSUME NEW x \in Epochs, Reject(x) PROVE Goal
  <2>1. up' = [up EXCEPT ![x] = <<>>]
        BY <1>9 DEF Reject
  <2>2. CASE x = e
    <3>1. Reject(e) /\ up'[e] = <<>>
          BY <1>0, <1>9, <2>1, <2>2
    <3>2. QED
          BY <3>1
  <2>3. CASE x # e
        BY <1>0, <2>1, <2>3
  <2>4. QED
        BY <2>2, <2>3
<1>10. ASSUME NEW x \in Epochs, RunnerConnectedFails(x) \/ Reconcile(x) \/ HandleEvent(x)
       PROVE  Goal
  <2>1. up[x] # <<>>
        BY <1>10 DEF RunnerConnectedFails, Reconcile, HandleEvent, TypeInv, WireOK,
                     MidRegistration
  <2>2. up' = [up EXCEPT ![x] = Tail(up[x])]
        BY <1>10 DEF RunnerConnectedFails, Reconcile, HandleEvent
  <2>3. CASE x = e
    <3>1. up[e] # <<>> /\ up'[e] = Tail(up[e])
          BY <1>0, <2>1, <2>2, <2>3
    <3>2. QED
          BY <1>10, <2>3, <3>1
  <2>4. CASE x # e
        BY <1>0, <2>2, <2>4
  <2>5. QED
        BY <2>3, <2>4
<1>11. ASSUME NEW x \in Epochs,
              \/ InsertEntry(x) \/ MarkUnclaimedFails(x) \/ HeartbeatRejected(x)
              \/ RotateCredential(x)
       PROVE  up' = up
      BY <1>11 DEF InsertEntry, MarkUnclaimedFails, HeartbeatRejected, RotateCredential
<1>12. ASSUME (\E q \in Runs : SendStart(q)) \/ ForgetRevoked \/ UNCHANGED wireVars
       PROVE  up' = up
      BY <1>12 DEF SendStart, ForgetRevoked, wireVars
<1> HIDE DEF Goal
<1>13. Goal
      BY <1>1, <1>4, <1>5, <1>6, <1>7, <1>8, <1>9, <1>10, <1>11, <1>12, WireWriters
<1>14. QED
      BY <1>13 DEF Goal

\* After its first message a socket carries events only.
LEMMA TailEvents ==
    ASSUME NEW ms, UpShaped(ms), ms # <<>>
    PROVE  \A i \in 1..Len(Tail(ms)) : EventShaped(Tail(ms)[i])
<1>1. ms \in Seq(Message)
      BY DEF UpShaped
<1>2. \A i \in 1..Len(Tail(ms)) : Tail(ms)[i] = ms[i + 1] /\ i + 1 \in 1..Len(ms) /\ i + 1 # 1
      BY <1>1, TailSeq
<1>3. QED
      BY <1>2 DEF UpShaped

\* Every step leaves only events on the way to a handler past its
\* registration.
LEMMA StepEvents ==
    ASSUME TypeInv, EventsInv, [Next]_vars
    PROVE  EventsInv'
<1> SUFFICES ASSUME NEW e \in Epochs, handler'[e].phase \in Registered
             PROVE  \A i \in 1..Len(up'[e]) : EventShaped(up'[e][i])
    BY DEF EventsInv
<1>1. up[e] \in Seq(Message) /\ UpShaped(up[e]) /\ Len(up[e]) \in Nat
      BY DEF TypeInv, WireOK
<1>2. CASE up[e] # <<>> /\ up'[e] = Tail(up[e])
      BY <1>1, <1>2, TailEvents
<1>3. CASE up'[e] = <<>>
      BY <1>3
<1>4. handler'[e].phase \notin {"reading", "idle", "closing"} /\ handler'[e].phase \notin Early
      BY DEF Registered, Early
<1>5. ~Connect(e)
  <2>1. handler \in [Epochs -> HandlerRow]
        BY DEF TypeInv, ServerOK
  <2>2. Connect(e) => handler'[e].phase = "reading"
        BY <2>1 DEF Connect, HandlerRow
  <2>3. QED
        BY <1>4, <2>2
<1>6. CASE handler'[e].phase = handler[e].phase
  <2>1. \A i \in 1..Len(up[e]) : EventShaped(up[e][i])
        BY <1>6 DEF EventsInv
  <2>2. CASE up'[e] = up[e]
        BY <2>1, <2>2
  <2>3. ASSUME NEW q \in Runs, up'[e] = Append(up[e], Ended(q))
        PROVE  \A i \in 1..Len(up'[e]) : EventShaped(up'[e][i])
    <3>1. \A i \in 1..Len(up'[e]) : up'[e][i] = Ended(q) \/ (i \in 1..Len(up[e]) /\ up'[e][i] = up[e][i])
          BY <1>1, <2>3, EndedShaped
    <3>2. QED
          BY <2>1, <3>1, EndedShaped
  <2>4. ASSUME NEW n \in 0..Len(up[e]), up'[e] = SubSeq(up[e], 1, n)
        PROVE  \A i \in 1..Len(up'[e]) : EventShaped(up'[e][i])
    <3>1. \A i \in 1..Len(up'[e]) : i \in 1..Len(up[e]) /\ up'[e][i] = up[e][i]
          BY <1>1, <2>4
    <3>2. QED
          BY <2>1, <3>1
  <2>5. QED
        BY <1>2, <1>3, <1>5, <2>2, <2>3, <2>4, UpStep
<1>7. CASE RunnerConnectedFails(e) \/ Reconcile(e)
  <2>1. up[e] # <<>>
        BY <1>7 DEF RunnerConnectedFails, Reconcile, TypeInv, WireOK, MidRegistration
  <2>2. up' = [up EXCEPT ![e] = Tail(up[e])]
        BY <1>7 DEF RunnerConnectedFails, Reconcile
  <2>3. up'[e] = Tail(up[e])
        BY <2>2 DEF TypeInv, WireOK
  <2>4. QED
        BY <1>2, <2>1, <2>3
<1>8. QED
      BY <1>4, <1>6, <1>7, PhaseChanges

(***************************************************************************)
(* A start that is on its way, or about to be sent, is for an active run   *)
(* as long as its connection lasts, and for one the connection knows: it   *)
(* accepted its claim, or the run was created under it.                    *)
(***************************************************************************)
Known(e, r) == run[r].newer \/ r \in final[e].kept

StartsInv ==
    \A r \in Runs, e \in Epochs :
        /\ HasStart(down[e], r) =>
             /\ final[e].phase = "done"
             /\ Connected(e) => run[r].status = "active" /\ Known(e, r)
        /\ pass[r].stage = "created" /\ pass[r].epoch = e /\ Connected(e) =>
             run[r].status = "active"

\* A row becomes connected to an epoch only by its registration.
LEMMA ConnectedStep ==
    ASSUME TypeInv, [Next]_vars, NEW e \in Epochs, Connected(e)'
    PROVE  Connected(e) \/ RunnerConnected(e)
<1>1. node \in NodeRow /\ node'.status = "connected" /\ node'.epoch = e
      BY DEF TypeInv, StoreOK, Connected
<1>2. ASSUME node' = node PROVE Connected(e)
      BY <1>2 DEF Connected
<1>3. ASSUME NEW x \in Epochs, RunnerConnected(x) PROVE RunnerConnected(e)
  <2>1. node'.epoch = x
        BY <1>3 DEF RunnerConnected
  <2>2. QED
        BY <1>1, <1>3, <2>1
<1>4. ASSUME NEW x \in Epochs, RunnerDisconnected(x) \/ GraceExpires(x) PROVE Connected(e)
  <2>1. node' = node \/ node'.status = "grace" \/ node'.status = "offline"
        BY <1>1, <1>4 DEF RunnerDisconnected, GraceExpires, NodeRow
  <2>2. QED
        BY <1>1, <1>2, <2>1
<1>5. ASSUME RevokeRunner PROVE Connected(e)
  <2>1. node' = node \/ node'.status = "offline"
        BY <1>1, <1>5 DEF RevokeRunner, NodeRow
  <2>2. QED
        BY <1>1, <1>2, <2>1
<1>6. ASSUME ServerRestarts PROVE Connected(e)
  <2>1. node' = node \/ node'.status = "grace"
        BY <1>1, <1>6 DEF ServerRestarts, StartupRecovery, NodeRow
  <2>2. QED
        BY <1>1, <1>2, <2>1
<1>7. QED
      BY <1>2, <1>3, <1>4, <1>5, <1>6, StoreWriters
      DEF storeVars, Authenticate, MarkUnclaimed, HandleEvent, CreateTaskRun, StartFails,
          WithdrawRun, ReEnroll, CredentialExpires

\* A run stops being active while its connection lasts only because it was not
\* claimed, because of its own event, because its start could not be sent, or
\* because it was withdrawn.
LEMMA RunGoes ==
    ASSUME TypeInv, EventsInv, [Next]_vars, NEW r \in Runs,
           run[r].status = "active", run'[r].status # "active"
    PROVE  \/ \E e \in Epochs : /\ final[e].phase = "waiting" /\ Connected(e)
                                /\ ~Known(e, r)
           \/ Ending(r) /\ run'[r].status = "closed"
           \/ StartFails(r)
           \/ WithdrawRun(r)
           \/ \A e \in Epochs : ~Connected(e)'
<1>1. run \in [Runs -> RunRow] /\ node \in NodeRow
      BY DEF TypeInv, StoreOK
<1>2. run' # run
      OBVIOUS
<1>3. ASSUME NEW e \in Epochs, RunnerConnected(e) PROVE FALSE
      BY <1>1, <1>3 DEF RunnerConnected, RunRow
<1>4. ASSUME NEW e \in Epochs, MarkUnclaimed(e)
      PROVE  final[e].phase = "waiting" /\ Connected(e) /\ ~Known(e, r)
  <2>1. /\ final[e].phase = "waiting" /\ Connected(e)
        /\ MarkLost({q \in Runs : ~run[q].newer /\ q \notin final[e].kept})
        BY <1>2, <1>4 DEF MarkUnclaimed
  <2>2. r \in {q \in Runs : ~run[q].newer /\ q \notin final[e].kept}
        BY <2>1 DEF MarkLost
  <2>3. QED
        BY <2>1, <2>2 DEF Known
<1>5. ASSUME NEW e \in Epochs, HandleEvent(e) PROVE Ending(r) /\ run'[r].status = "closed"
  <2> DEFINE q == CHOOSE x \in Head(up[e]).runs : TRUE
  <2>1. /\ handler[e].phase \in Registered /\ up[e] # <<>>
        /\ run' = [run EXCEPT ![q].status = "closed"]
        BY <1>2, <1>5 DEF HandleEvent, Registered
  <2>2. Head(up[e]) = up[e][1] /\ 1 \in 1..Len(up[e])
    <3>1. up[e] \in Seq(Message)
          BY DEF TypeInv, WireOK
    <3>2. QED
          BY <2>1, <3>1, TailSeq
  <2>3. EventShaped(up[e][1])
        BY <2>1, <2>2 DEF EventsInv
  <2>4. q \in up[e][1].runs /\ up[e][1].kind = "ended"
        BY <2>2, <2>3 DEF EventShaped
  <2> HIDE DEF q
  <2>5. q = r
        BY <1>1, <2>1
  <2>6. EndOf(up[e][1], r)
        BY <2>4, <2>5 DEF EndOf
  <2>7. run'[r].status = "closed"
        BY <1>1, <2>1, <2>5 DEF RunRow
  <2>8. QED
        BY <2>2, <2>6, <2>7 DEF Ending, HasEnd
<1>6. ASSUME NEW e \in Epochs, GraceExpires(e) PROVE \A x \in Epochs : ~Connected(x)'
  <2>1. node'.status = "offline"
        BY <1>1, <1>2, <1>6 DEF GraceExpires, NodeRow
  <2>2. QED
        BY <2>1 DEF Connected
<1>7. ASSUME NEW q \in Runs, CreateTaskRun(q) PROVE FALSE
      BY <1>1, <1>7 DEF CreateTaskRun
<1>8. ASSUME NEW q \in Runs, StartFails(q) PROVE StartFails(r)
  <2>1. q = r
        BY <1>1, <1>2, <1>8 DEF StartFails
  <2>2. QED
        BY <1>8, <2>1
<1>9. ASSUME RevokeRunner PROVE \A x \in Epochs : ~Connected(x)'
  <2>1. node'.status # "connected"
        BY <1>1, <1>9 DEF RevokeRunner, NodeRow
  <2>2. QED
        BY <2>1 DEF Connected
<1>10. ASSUME NEW q \in Runs, WithdrawRun(q) PROVE WithdrawRun(r)
  <2>1. q = r
        BY <1>1, <1>2, <1>10 DEF WithdrawRun
  <2>2. QED
        BY <1>10, <2>1
<1>11. QED
      BY <1>2, <1>3, <1>4, <1>5, <1>6, <1>7, <1>8, <1>9, <1>10, StoreWriters
      DEF storeVars, Authenticate, RunnerDisconnected, ReEnroll, CredentialExpires,
          ServerRestarts

\* A run that has ended keeps its row as long as nobody connects.
LEMMA EndedStays ==
    ASSUME TypeInv, LifeInv, [Next]_vars, NEW r \in Runs, ~Fresh(r),
           \A e \in Epochs : ~RunnerConnected(e)
    PROVE  run'[r].newer = run[r].newer /\ (run[r].status # "active" => run'[r] = run[r])
<1>1. run \in [Runs -> RunRow]
      BY DEF TypeInv, StoreOK
<1>2. CASE run' = run
      BY <1>2
<1>3. ASSUME NEW rs, MarkLost(rs)
      PROVE  run'[r].newer = run[r].newer /\ (run[r].status # "active" => run'[r] = run[r])
      BY <1>1, <1>3 DEF MarkLost, RunRow
<1>4. ASSUME NEW q, NEW s, run[q].status = "active", run' = [run EXCEPT ![q].status = s]
      PROVE  run'[r].newer = run[r].newer /\ (run[r].status # "active" => run'[r] = run[r])
      BY <1>1, <1>4 DEF RunRow
<1>5. ASSUME NEW e \in Epochs, HandleEvent(e), run' # run
      PROVE  run'[r].newer = run[r].newer /\ (run[r].status # "active" => run'[r] = run[r])
  <2> DEFINE q == CHOOSE x \in Head(up[e]).runs : TRUE
  <2>1. run[q].status = "active" /\ run' = [run EXCEPT ![q].status = "closed"]
        BY <1>5 DEF HandleEvent
  <2> HIDE DEF q
  <2>2. QED
        BY <1>4, <2>1
<1>6. ASSUME NEW q \in Runs, CreateTaskRun(q) PROVE run'[r] = run[r]
  <2>1. q # r
        BY <1>6 DEF CreateTaskRun, Fresh
  <2>2. QED
        BY <1>1, <1>6, <2>1 DEF CreateTaskRun
<1>7. ASSUME NEW q \in Runs, StartFails(q) PROVE run'[r] = run[r]
  <2>1. q # r
        BY <1>7 DEF StartFails, Fresh
  <2>2. QED
        BY <1>1, <1>7, <2>1 DEF StartFails
<1>8. ASSUME NEW q \in Runs, WithdrawRun(q)
      PROVE  run'[r].newer = run[r].newer /\ (run[r].status # "active" => run'[r] = run[r])
      BY <1>4, <1>8 DEF WithdrawRun
<1>9. ASSUME NEW e \in Epochs, MarkUnclaimed(e) \/ GraceExpires(e), run' # run
      PROVE  run'[r].newer = run[r].newer /\ (run[r].status # "active" => run'[r] = run[r])
      BY <1>3, <1>9 DEF MarkUnclaimed, GraceExpires
<1>10. CASE RevokeRunner
      BY <1>3, <1>10 DEF RevokeRunner
<1>11. QED
      BY <1>2, <1>5, <1>6, <1>7, <1>8, <1>9, <1>10, StoreWriters
      DEF storeVars, Authenticate, RunnerDisconnected, ReEnroll, CredentialExpires,
          ServerRestarts

\* How one finalization may change in a step.
LEMMA FinalStep ==
    ASSUME TypeInv, [Next]_vars, NEW e \in Epochs
    PROVE  \/ final'[e] = final[e]
           \/ Connect(e) \/ Reconcile(e) \/ ServerRestarts
           \/ /\ final[e].phase = "waiting" /\ final'[e].phase \in {"marked", "done"}
              /\ final'[e].kept = final[e].kept
           \/ /\ final[e].phase = "marked" /\ final'[e].phase \in {"none", "done"}
              /\ final'[e].phase = "done" => final'[e].kept = final[e].kept
<1>1. final \in [Epochs -> FinalRow]
      BY DEF TypeInv, ServerOK
<1>2. ASSUME NEW x \in Epochs, x # e,
             \/ Connect(x) \/ Reconcile(x) \/ MarkUnclaimed(x) \/ MarkUnclaimedFails(x)
             \/ EnableDispatch(x)
      PROVE  final'[e] = final[e]
      BY <1>1, <1>2 DEF Connect, Reconcile, MarkUnclaimed, MarkUnclaimedFails,
         EnableDispatch
<1>3. ASSUME MarkUnclaimed(e) \/ MarkUnclaimedFails(e)
      PROVE  /\ final[e].phase = "waiting" /\ final'[e].phase \in {"marked", "done"}
             /\ final'[e].kept = final[e].kept
      BY <1>1, <1>3 DEF MarkUnclaimed, MarkUnclaimedFails, FinalRow
<1>4. ASSUME EnableDispatch(e)
      PROVE  /\ final[e].phase = "marked" /\ final'[e].phase \in {"none", "done"}
             /\ final'[e].phase = "done" => final'[e].kept = final[e].kept
  <2>1. CASE entry.epoch = e
        BY <1>1, <1>4, <2>1 DEF EnableDispatch, FinalRow
  <2>2. CASE entry.epoch # e
    <3>1. final[e].phase = "marked" /\ final' = [final EXCEPT ![e] = NoFinal]
          BY <1>4, <2>2 DEF EnableDispatch
    <3>2. QED
          BY <1>1, <3>1, EmptyRows
  <2>3. QED
        BY <2>1, <2>2
<1>5. ASSUME NEW x \in Epochs,
             \/ Authenticate(x) \/ Reject(x) \/ RunnerConnected(x)
             \/ RunnerConnectedFails(x) \/ InsertEntry(x) \/ HeartbeatRejected(x)
             \/ SocketEnds(x) \/ RunnerDisconnected(x) \/ RunnerDisconnectedFails(x)
             \/ GraceExpires(x) \/ GraceExpiryFails(x)
      PROVE  final' = final
      BY <1>5 DEF Authenticate, Reject, RunnerConnected, RunnerConnectedFails, InsertEntry,
         HeartbeatRejected, SocketEnds, RunnerDisconnected, RunnerDisconnectedFails,
         GraceExpires, GraceExpiryFails
<1>6. ASSUME NEW q \in Runs, SelectRunner(q) \/ PassStep(q) PROVE final' = final
      BY <1>6 DEF SelectRunner, PassStep, CreateTaskRun, SendStart, StartFails
<1>7. ASSUME UNCHANGED serverVars \/ RevokeRunner \/ ForgetRevoked PROVE final' = final
      BY <1>7 DEF serverVars, RevokeRunner, ForgetRevoked
<1>8. QED
      BY <1>2, <1>3, <1>4, <1>5, <1>6, <1>7, ServerWriters

\* Every step keeps starts, sent or being sent, for active runs on
\* reconciled connections.
LEMMA StepStarts ==
    ASSUME TypeInv, PhaseInv, ReadyInv, ReachInv, LifeInv, EventsInv, StartsInv, [Next]_vars
    PROVE  StartsInv'
<1>0. pass \in [Runs -> PassRow] /\ run \in [Runs -> RunRow]
      BY DEF TypeInv, ServerOK, StoreOK
<1>1. ASSUME NEW e \in Epochs, final[e].phase = "done", Connected(e)'
      PROVE  Connected(e)
  <2>1. ~RunnerConnected(e)
        BY <1>1 DEF RunnerConnected, PhaseInv, Early
  <2>2. QED
        BY <1>1, <2>1, ConnectedStep
<1>2. ASSUME NEW e \in Epochs, NEW r \in Runs, final[e].phase = "done", Connected(e)',
             run[r].status = "active", Fresh(r) \/ Starting(r), ~StartFails(r)
      PROVE  run'[r].status = "active"
  <2>1. Connected(e)
        BY <1>1, <1>2
  <2>2. ~Ending(r) /\ ~WithdrawRun(r)
        BY <1>2 DEF LifeInv, WithdrawRun
  <2>3. ASSUME NEW x \in Epochs, Connected(x) PROVE x = e
        BY <2>1, <2>3 DEF Connected
  <2>4. SUFFICES ASSUME run'[r].status # "active" PROVE FALSE
        OBVIOUS
  <2>5. PICK x \in Epochs : final[x].phase = "waiting" /\ Connected(x)
        BY <1>2, <2>2, <2>4, RunGoes
  <2>6. QED
        BY <1>2, <2>3, <2>5
<1>3. ASSUME NEW r \in Runs, NEW e \in Epochs, HasStart(down'[e], r)
      PROVE  /\ final'[e].phase = "done"
             /\ Connected(e)' => run'[r].status = "active" /\ Known(e, r)'
  <2>1. CASE SendStart(r) /\ e = entry.epoch
    <3>1. /\ pass[r].stage = "created" /\ pass[r].epoch = e /\ entry.ready
          /\ final' = final /\ run' = run /\ node' = node
          BY <2>1 DEF SendStart, storeVars
    <3>2. final[e].phase = "done"
          BY <2>1, <3>1 DEF PhaseInv
    <3>3. Connected(e)' => Connected(e)
          BY <3>1 DEF Connected
    <3>4. Connected(e) => run[r].status = "active" /\ Known(e, r)
      <4>1. ASSUME Connected(e) PROVE Claimed(e)
            BY <2>1, <3>1, <4>1 DEF ReadyInv, Reconciled
      <4>2. QED
            BY <3>1, <4>1 DEF StartsInv, Claimed, Known
    <3>5. QED
          BY <3>1, <3>2, <3>3, <3>4 DEF Known
  <2>2. CASE HasStart(down[e], r)
    <3>1. /\ final[e].phase = "done" /\ Starting(r)
          /\ Connected(e) => run[r].status = "active" /\ Known(e, r)
          BY <2>2 DEF StartsInv, Starting
    <3>2. ~Fresh(r)
          BY <3>1 DEF LifeInv
    <3>3. ~StartFails(r)
          BY <3>2 DEF Fresh, StartFails
    <3>4. down[e] # <<>> /\ down'[e] # <<>>
          BY <1>3, <2>2, NoStarts
    <3>5. link = e
          BY <3>4 DEF ReachInv
    <3>6. ~Connect(e) /\ ~ServerRestarts
          BY <3>4, <3>5, ConnectionConstants DEF Connect, ServerRestarts
    <3>7. ~Reconcile(e)
          BY <3>1 DEF Reconcile, PhaseInv, Early
    <3>8. final'[e] = final[e]
          BY <3>1, <3>6, <3>7, FinalStep
    <3>9. ASSUME Connected(e)' PROVE Known(e, r)'
      <4>1. ASSUME NEW x \in Epochs, RunnerConnected(x) PROVE FALSE
        <5>1. node'.epoch = x /\ node'.epoch = e
              BY <3>9, <4>1 DEF RunnerConnected, Connected
        <5>2. QED
              BY <3>1, <4>1, <5>1 DEF RunnerConnected, PhaseInv, Early
      <4>2. Connected(e)
            BY <3>9, <4>1, ConnectedStep
      <4>3. run'[r].newer = run[r].newer
            BY <3>2, <4>1, EndedStays
      <4>4. QED
            BY <3>1, <3>8, <4>2, <4>3 DEF Known
    <3>10. QED
          BY <1>1, <1>2, <3>1, <3>3, <3>8, <3>9
  <2>3. QED
        BY <1>3, <2>1, <2>2, StartsStep, SentStart
<1>4. ASSUME NEW r \in Runs, NEW e \in Epochs, pass'[r].stage = "created",
             pass'[r].epoch = e, Connected(e)'
      PROVE  run'[r].status = "active"
  <2>1. CASE CreateTaskRun(r)
        BY <1>0, <2>1 DEF CreateTaskRun
  <2>2. CASE pass'[r] = pass[r]
    <3>1. pass[r].stage = "created" /\ pass[r].epoch = e /\ Fresh(r)
          BY <1>4, <2>2 DEF Fresh
    <3>2. final[e].phase = "done"
          BY <3>1 DEF PhaseInv
    <3>3. Connected(e)
          BY <1>1, <1>4, <3>2
    <3>4. ~StartFails(r)
          BY <1>0, <1>4, EmptyRows DEF StartFails
    <3>5. run[r].status = "active"
          BY <3>1, <3>3 DEF StartsInv
    <3>6. QED
          BY <1>2, <1>4, <3>1, <3>2, <3>4, <3>5
  <2>3. ~SelectRunner(r)
        BY <1>0, <1>4 DEF SelectRunner
  <2>4. QED
        BY <1>4, <2>1, <2>2, <2>3, PassMoves
<1>5. QED
      BY <1>3, <1>4 DEF StartsInv

\* The runner stays on its socket, leaves it, or opens another one.
LEMMA LinkStep ==
    ASSUME TypeInv, [Next]_vars, NEW e \in Epochs, link' = e
    PROVE  link = e \/ Connect(e)
<1>1. e # NoEpoch
      BY ConnectionConstants
<1>2. ASSUME NEW x \in Epochs, RunnerStep(x) PROVE link = e \/ Connect(e)
      BY <1>1, <1>2 DEF RunnerStep, Connect, ReceiveRegistered, ReceiveRejected,
         ReceiveDisconnect, ReceiveStart, ReceiveStop, LeaveSocket
<1>3. ASSUME NEW q \in Runs, RunEnds(q) \/ RunRemoved(q) PROVE link = e
      BY <1>3 DEF RunEnds, RunRemoved
<1>4. CASE SocketBreaks \/ RunnerCrashes \/ ReEnroll \/ ServerRestarts \/ UNCHANGED runnerVars
      BY <1>1, <1>4 DEF SocketBreaks, LeaveSocket, RunnerCrashes, ReEnroll, ServerRestarts,
                        runnerVars
<1>5. QED
      BY <1>2, <1>3, <1>4, RunnerWriters

\* What the runner newly holds was at the head of the socket it reads.
LEMMA HeldGrows ==
    ASSUME TypeInv, [Next]_vars, NEW r \in Runs, r \in held', r \notin held
    PROVE  \E e \in Epochs : ReceiveStart(e) /\ link = e /\ HasStart(down[e], r)
<1>1. ASSUME NEW e \in Epochs, ReceiveStart(e)
      PROVE  link = e /\ HasStart(down[e], r)
  <2>1. /\ link = e /\ down[e] # <<>> /\ Head(down[e]).kind = "start"
        /\ r \in Head(down[e]).runs
        BY <1>1 DEF ReceiveStart
  <2>2. down[e] \in Seq(Message)
        BY DEF TypeInv, WireOK
  <2>3. Head(down[e]) = down[e][1] /\ 1 \in 1..Len(down[e])
        BY <2>1, <2>2, TailSeq
  <2>4. QED
        BY <2>1, <2>3 DEF HasStart, StartOf
<1>2. ASSUME NEW e \in Epochs, RunnerStep(e), ~ReceiveStart(e) PROVE FALSE
      BY <1>2 DEF RunnerStep, Connect, ReceiveRegistered, ReceiveRejected,
                  ReceiveDisconnect, ReceiveStop
<1>3. ASSUME NEW q \in Runs, RunEnds(q) \/ RunRemoved(q) PROVE FALSE
      BY <1>3 DEF RunEnds, RunRemoved
<1>4. CASE SocketBreaks \/ RunnerCrashes \/ ReEnroll \/ ServerRestarts \/ UNCHANGED runnerVars
      BY <1>4 DEF SocketBreaks, RunnerCrashes, ReEnroll, ServerRestarts, runnerVars
<1>5. QED
      BY <1>1, <1>2, <1>3, <1>4, RunnerWriters

\* Every step keeps the runs the runner holds in a registration that is
\* still to be read.
LEMMA StepClaims ==
    ASSUME TypeInv, PhaseInv, StartsInv, ClaimsInv, [Next]_vars
    PROVE  ClaimsInv'
<1> SUFFICES ASSUME NEW e \in Epochs, link' = e, handler'[e].phase \in Early
             PROVE  up'[e] # <<>> /\ held' \subseteq up'[e][1].runs
    BY DEF ClaimsInv
<1>1. handler \in [Epochs -> HandlerRow] /\ up[e] \in Seq(Message) /\ held \subseteq Runs
      /\ link' # NoEpoch
      BY ConnectionConstants DEF TypeInv, ServerOK, WireOK, RunnerOK
<1>2. CASE Connect(e)
  <2>1. up'[e] = Opening /\ held' = held
        BY <1>2 DEF Connect, Opening, TypeInv, WireOK
  <2>2. Opening # <<>> /\ Opening[1] = Msg("register", PresentedToken, held)
        BY OpeningShaped
  <2>3. QED
        BY <2>1, <2>2 DEF Msg
<1>3. CASE ~Connect(e)
  <2>1. link = e
        BY <1>3, LinkStep
  <2>2. /\ handler'[e].phase \notin {"unregistered", "served", "idle", "closing"}
        BY DEF Early
  <2>3. CASE up' = up /\ UNCHANGED runnerVars /\ handler[e].phase \in Early
        BY <2>1, <2>3 DEF ClaimsInv, runnerVars
  <2>4. CASE handler'[e].phase = handler[e].phase
    <3>1. up[e] # <<>> /\ held \subseteq up[e][1].runs
          BY <2>1, <2>4 DEF ClaimsInv
    <3>2. held' \subseteq held
      <4>1. ASSUME NEW r \in held', r \notin held PROVE FALSE
        <5>1. r \in Runs
              BY RunnerStepOK DEF RunnerOK
        <5>2. HasStart(down[e], r)
              BY <2>1, <4>1, <5>1, HeldGrows
        <5>3. final[e].phase = "done"
              BY <5>1, <5>2 DEF StartsInv
        <5>4. QED
              BY <2>4, <5>3 DEF PhaseInv
      <4>2. QED
            BY <4>1
    <3>3. up'[e] = up[e] \/ \E q \in Runs : up'[e] = Append(up[e], Ended(q))
      <4>1. ~Reject(e)
        <5>1. Reject(e) => handler'[e].phase = "idle"
              BY <1>1, IdleIsRow DEF Reject
        <5>2. QED
              BY <2>2, <5>1
      <4>2. ~RunnerConnectedFails(e) /\ ~Reconcile(e)
        <5>1. RunnerConnectedFails(e) => handler'[e].phase = "unregistered"
              BY <1>1 DEF RunnerConnectedFails, IdleHandler
        <5>2. Reconcile(e) => handler'[e].phase = "served"
              BY <1>1 DEF Reconcile, HandlerRow
        <5>3. QED
              BY <2>2, <5>1, <5>2
      <4>3. ~HandleEvent(e)
            BY <2>2, <2>4 DEF HandleEvent
      <4>4. QED
            BY <1>1, <1>3, <4>1, <4>2, <4>3, UpStep
    <3>4. up'[e] # <<>> /\ up'[e][1] = up[e][1]
      <4>1. CASE up'[e] = up[e]
            BY <3>1, <4>1
      <4>2. ASSUME NEW q \in Runs, up'[e] = Append(up[e], Ended(q))
            PROVE  up'[e] # <<>> /\ up'[e][1] = up[e][1]
        <5>1. Ended(q) \in Message
              BY EndedShaped
        <5>2. QED
              BY <1>1, <3>1, <4>2, <5>1
      <4>3. QED
            BY <3>3, <4>1, <4>2
    <3>5. QED
          BY <3>1, <3>2, <3>4
  <2>5. QED
        BY <1>3, <2>2, <2>3, <2>4, PhaseChanges
<1>4. QED
      BY <1>2, <1>3

(***************************************************************************)
(* The commands that end a run on the runner, and what the runner holds    *)
(* once its claims were reconciled.                                        *)
(***************************************************************************)
HaltOf(m, r) == (m.kind = "stop" /\ r \in m.runs) \/ m.kind = "disconnect"
HasHalt(ms, r) == \E i \in 1..Len(ms) : HaltOf(ms[i], r)
Halting(e, r) == r \in stopped \/ HasHalt(down[e], r)

\* Ended by the server under this very connection.
Spared(e, r) ==
    \/ run[r].status = "closed" /\ r \in reported
    \/ run[r].status = "withdrawn" /\ Known(e, r)

HeldInv ==
    \A e \in Epochs :
        handler[e].phase = "served" /\ link = e /\ Connected(e) /\ final[e].phase # "none"
        => \A r \in held : \/ Halting(e, r) \/ Spared(e, r)
                           \/ run[r].status = "active" /\ Known(e, r)

\* An order to stop stays when more is sent.
LEMMA JoinedHalts ==
    ASSUME NEW ms \in Seq(Message), NEW ns \in Seq(Message), NEW r,
           HasHalt(ms, r) \/ HasHalt(ns, r)
    PROVE  HasHalt(ms \o ns, r)
<1> DEFINE all == ms \o ns
<1>1. /\ Len(all) = Len(ms) + Len(ns) /\ Len(ms) \in Nat /\ Len(ns) \in Nat
      /\ \A i \in 1..Len(ms) : all[i] = ms[i]
      /\ \A i \in 1..Len(ns) : all[Len(ms) + i] = ns[i]
      BY JoinedSeq
<1> HIDE DEF all
<1>2. CASE HasHalt(ms, r)
  <2>1. PICK i \in 1..Len(ms) : HaltOf(ms[i], r)
        BY <1>2 DEF HasHalt
  <2>2. i \in 1..Len(all) /\ all[i] = ms[i]
        BY <1>1
  <2>3. QED
        BY <2>1, <2>2 DEF HasHalt, all
<1>3. CASE HasHalt(ns, r)
  <2>1. PICK i \in 1..Len(ns) : HaltOf(ns[i], r)
        BY <1>3 DEF HasHalt
  <2>2. Len(ms) + i \in 1..Len(all) /\ all[Len(ms) + i] = ns[i]
        BY <1>1
  <2>3. QED
        BY <2>1, <2>2 DEF HasHalt, all
<1>4. QED
      BY <1>2, <1>3

\* An order to stop stays until it is read.
LEMMA TailHalts ==
    ASSUME NEW ms \in Seq(Message), ms # <<>>, NEW r, HasHalt(ms, r), ~HaltOf(Head(ms), r)
    PROVE  HasHalt(Tail(ms), r)
<1> DEFINE rest == Tail(ms)
<1>1. /\ Head(ms) = ms[1]
      /\ \A i \in 1..Len(ms) : i = 1 \/ (i - 1 \in 1..Len(rest) /\ rest[i - 1] = ms[i])
      BY TailSeq
<1> HIDE DEF rest
<1>2. PICK i \in 1..Len(ms) : HaltOf(ms[i], r)
      BY DEF HasHalt
<1>3. i - 1 \in 1..Len(rest) /\ HaltOf(rest[i - 1], r)
      BY <1>1, <1>2
<1>4. HasHalt(rest, r)
      BY <1>3 DEF HasHalt
<1>5. QED
      BY <1>4 DEF rest

\* A run that is to end stays so until the runner has ended it.
LEMMA HaltKept ==
    ASSUME TypeInv, ReachInv, [Next]_vars, NEW e \in Epochs, link = e, link' = e,
           NEW r \in Runs, r \in held, r \in held', Halting(e, r)
    PROVE  Halting(e, r)'
<1>0. down \in [Epochs -> Seq(Message)] /\ down[e] \in Seq(Message) /\ e # NoEpoch
      BY ConnectionConstants DEF TypeInv, WireOK
<1>1. ASSUME r \in stopped PROVE r \in stopped'
  <2>1. ASSUME NEW x \in Epochs, RunnerStep(x) PROVE r \in stopped'
        BY <1>1, <2>1 DEF RunnerStep, Connect, ReceiveRegistered, ReceiveRejected,
           ReceiveDisconnect, ReceiveStart, ReceiveStop
  <2>2. ASSUME NEW q \in Runs, RunEnds(q) \/ RunRemoved(q) PROVE r \in stopped'
        BY <1>1, <2>2 DEF RunEnds, RunRemoved
  <2>3. ASSUME SocketBreaks \/ RunnerCrashes \/ ReEnroll \/ ServerRestarts
               \/ UNCHANGED runnerVars
        PROVE  r \in stopped'
        BY <1>1, <2>3 DEF SocketBreaks, RunnerCrashes, ReEnroll, ServerRestarts, runnerVars
  <2>4. QED
        BY <2>1, <2>2, <2>3, RunnerWriters
<1>2. ASSUME HasHalt(down[e], r) PROVE HasHalt(down'[e], r) \/ r \in stopped'
  <2>1. CASE QuietGrown
    <3>1. PICK ms \in Seq(Message) : down'[e] = down[e] \o ms
          BY <2>1 DEF QuietGrown
    <3>2. QED
          BY <1>0, <1>2, <3>1, JoinedHalts
  <2>2. ASSUME NEW q \in Runs, SendStart(q) PROVE HasHalt(down'[e], r)
    <3> DEFINE ms == <<Msg("start", NoToken, {q})>>
    <3>1. ms \in Seq(Message)
          BY MessagesOK
    <3>2. down' = Sent(down, entry.epoch, ms)
          BY <2>2 DEF SendStart
    <3> HIDE DEF ms
    <3>3. down'[e] = down[e] \o ms \/ down'[e] = down[e]
      <4>1. Sent(down, entry.epoch, ms)[e] =
              IF e = entry.epoch /\ entry.epoch = link THEN down[e] \o ms ELSE down[e]
            BY <1>0, <3>1, SentOK
      <4>2. QED
            BY <3>2, <4>1
    <3>4. QED
          BY <1>0, <1>2, <3>1, <3>3, JoinedHalts
  <2>3. ASSUME NEW x \in Epochs, Reads(x) PROVE HasHalt(down'[e], r) \/ r \in stopped'
    <3>1. /\ x = e /\ down[e] # <<>> /\ down' = [down EXCEPT ![e] = Tail(down[e])]
          /\ Head(down[e]).kind \in {"registered", "start", "stop"}
          BY <2>3 DEF Reads, ReceiveRegistered, ReceiveStart, ReceiveStop
    <3>2. down'[e] = Tail(down[e])
          BY <1>0, <3>1
    <3>3. CASE HaltOf(Head(down[e]), r)
      <4>1. Head(down[e]).kind = "stop" /\ r \in Head(down[e]).runs
            BY <3>1, <3>3 DEF HaltOf
      <4>2. stopped' = stopped \cup (Head(down[e]).runs \cap held)
            BY <2>3, <3>1, <4>1 DEF Reads, ReceiveRegistered, ReceiveStart, ReceiveStop
      <4>3. QED
            BY <4>1, <4>2
    <3>4. CASE ~HaltOf(Head(down[e]), r)
          BY <1>0, <1>2, <3>1, <3>2, <3>4, TailHalts
    <3>5. QED
          BY <3>3, <3>4
  <2>4. QED
        BY <1>0, <2>1, <2>2, <2>3, DownWriters
<1>3. QED
      BY <1>1, <1>2 DEF Halting

\* Reconciliation keeps the claims of active runs and stops the others.
LEMMA ReconcileHeld ==
    ASSUME TypeInv, PhaseInv, ClaimsInv, NEW e \in Epochs, Reconcile(e), link = e,
           final'[e].phase # "none", NEW r \in held
    PROVE  \/ Halting(e, r)'
           \/ run'[r].status = "active" /\ Known(e, r)'
<1> DEFINE claims == Head(up[e]).runs
           stale == claims \ Accepted(claims)
           stop == IF stale = {} THEN <<>> ELSE <<Msg("stop", NoToken, stale)>>
<1>1. handler[e].phase = "inserted" /\ UNCHANGED <<run, held, stopped>>
      BY DEF Reconcile, storeVars, runnerVars
<1>2. up[e] # <<>> /\ final[e].phase = "none"
      BY <1>1 DEF TypeInv, WireOK, MidRegistration, PhaseInv, Early
<1>3. claims \subseteq Runs /\ Head(up[e]) = up[e][1]
      BY <1>2, HeadClaims
<1>4. r \in claims
      BY <1>1, <1>3 DEF ClaimsInv, Early
<1>5. /\ final' = [final EXCEPT ![e] = [phase |-> "waiting", kept |-> Accepted(claims)]]
      /\ down' = Sent(down, e, stop)
  <2>1. \/ /\ final' = [final EXCEPT ![e] = [phase |-> "waiting", kept |-> Accepted(claims)]]
           /\ down' = Sent(down, e, stop)
        \/ final' = final
        BY DEF Reconcile
  <2>2. QED
        BY <1>2, <2>1
<1>6. CASE r \in Accepted(claims)
  <2>1. final'[e].kept = Accepted(claims)
        BY <1>5 DEF TypeInv, ServerOK
  <2>2. QED
        BY <1>1, <1>6, <2>1 DEF Accepted, Known
<1>7. CASE r \notin Accepted(claims)
  <2>1. r \in stale /\ stale \in SUBSET Runs
        BY <1>3, <1>4, <1>7
  <2> HIDE DEF stale
  <2> DEFINE m == Msg("stop", NoToken, stale)
  <2>2. stop = <<m>> /\ stop \in Seq(Message) /\ HaltOf(m, r)
    <3>1. stop = <<m>>
          BY <2>1
    <3>2. HaltOf(m, r)
          BY <2>1 DEF HaltOf, Msg
    <3>3. <<m>> \in Seq(Message)
          BY <2>1, MessagesOK
    <3>4. QED
          BY <3>1, <3>2, <3>3
  <2> HIDE DEF stop, m
  <2>3. HasHalt(stop, r)
        BY <2>2 DEF HasHalt
  <2>4. down \in [Epochs -> Seq(Message)] /\ down[e] \in Seq(Message)
        BY DEF TypeInv, WireOK
  <2>5. down'[e] = down[e] \o stop
        BY <1>5, <2>2, <2>4, SentOK
  <2>6. QED
        BY <2>2, <2>3, <2>4, <2>5, JoinedHalts DEF Halting
<1>8. QED
      BY <1>6, <1>7

\* Every step keeps an order on the way for each settled run the runner
\* holds.
LEMMA StepHeld ==
    ASSUME TypeInv, PhaseInv, ReachInv, LifeInv, EventsInv, StartsInv, ClaimsInv, HeldInv,
           [Next]_vars
    PROVE  HeldInv'
<1> SUFFICES ASSUME NEW e \in Epochs, handler'[e].phase = "served", link' = e,
                    Connected(e)', final'[e].phase # "none", NEW r \in held'
             PROVE  \/ Halting(e, r)' \/ Spared(e, r)'
                    \/ run'[r].status = "active" /\ Known(e, r)'
    BY DEF HeldInv
<1>1. r \in Runs /\ link' # NoEpoch
      BY RunnerStepOK, ConnectionConstants DEF RunnerOK
<1>2. ~Connect(e)
  <2>1. Connect(e) => handler'[e].phase = "reading"
        BY DEF Connect, TypeInv, ServerOK, HandlerRow
  <2>2. QED
        BY <2>1
<1>3. link = e
      BY <1>2, LinkStep
<1>4. CASE Reconcile(e)
  <2>1. held' = held
        BY <1>4 DEF Reconcile, runnerVars
  <2>2. QED
        BY <1>3, <1>4, <2>1, ReconcileHeld
<1>5. CASE ~Reconcile(e)
  <2>1. handler[e].phase = "served"
        BY <1>2, <1>5, PhaseChanges DEF Early
  <2>2. Connected(e)
    <3>1. ~RunnerConnected(e)
          BY <2>1 DEF RunnerConnected
    <3>2. QED
          BY <3>1, ConnectedStep
  <2>3. ~ServerRestarts
        BY <1>1 DEF ServerRestarts
  <2>4. final[e].phase # "none" /\ final'[e].kept = final[e].kept
        BY <1>2, <1>5, <2>3, FinalStep
  <2>5. CASE r \notin held
    <3>1. PICK x \in Epochs : ReceiveStart(x) /\ link = x /\ HasStart(down[x], r)
          BY <1>1, <2>5, HeldGrows
    <3>2. x = e /\ run[r].status = "active" /\ Known(e, r)
          BY <1>1, <1>3, <2>2, <3>1 DEF StartsInv
    <3>3. run' = run /\ final' = final
          BY <3>1 DEF ReceiveStart, storeVars, serverVars
    <3>4. QED
          BY <3>2, <3>3 DEF Known
  <2>6. CASE r \in held /\ Halting(e, r)
        BY <1>1, <1>3, <2>6, HaltKept
  <2>7. CASE r \in held /\ ~Halting(e, r)
    <3>1. Spared(e, r) \/ (run[r].status = "active" /\ Known(e, r))
          BY <1>3, <2>1, <2>2, <2>4, <2>7 DEF HeldInv
    <3>2. ~Fresh(r) /\ ~Starting(r) /\ (Ending(r) => r \in reported)
          BY <1>1, <2>7 DEF LifeInv
    <3>3. ~StartFails(r)
          BY <3>2 DEF Fresh, StartFails
    <3>4. r \in reported => r \in reported'
          BY <1>1, <3>2, HeldStep
    <3>5. ASSUME NEW x \in Epochs, RunnerConnected(x) PROVE FALSE
      <4>1. node'.epoch = x /\ node'.epoch = e
            BY <3>5 DEF RunnerConnected, Connected
      <4>2. QED
            BY <2>1, <3>5, <4>1 DEF RunnerConnected
    <3>6. run'[r].newer = run[r].newer /\ (run[r].status # "active" => run'[r] = run[r])
          BY <1>1, <3>2, <3>5, EndedStays
    <3>7. Known(e, r) => Known(e, r)'
          BY <2>4, <3>6 DEF Known
    <3>8. CASE Spared(e, r)
          BY <3>4, <3>6, <3>7, <3>8 DEF Spared
    <3>9. CASE run[r].status = "active" /\ Known(e, r) /\ run'[r].status # "active"
      <4>1. \/ \E x \in Epochs : final[x].phase = "waiting" /\ Connected(x) /\ ~Known(x, r)
            \/ Ending(r) /\ run'[r].status = "closed"
            \/ WithdrawRun(r)
            BY <1>1, <3>3, <3>9, RunGoes
      <4>2. ASSUME NEW x \in Epochs, Connected(x) PROVE x = e
            BY <2>2, <4>2 DEF Connected
      <4>3. CASE Ending(r) /\ run'[r].status = "closed"
            BY <3>2, <3>4, <4>3 DEF Spared
      <4>4. CASE WithdrawRun(r)
        <5>1. run'[r].status = "withdrawn"
              BY <1>1, <4>4 DEF WithdrawRun, TypeInv, StoreOK, RunRow
        <5>2. QED
              BY <3>7, <3>9, <5>1 DEF Spared
      <4>5. QED
            BY <3>9, <4>1, <4>2, <4>3, <4>4
    <3>10. QED
          BY <3>1, <3>7, <3>8, <3>9
  <2>8. QED
        BY <2>5, <2>6, <2>7
<1>6. QED
      BY <1>4, <1>5

\* Nothing was started, claimed or held at the start.
LEMMA InitStale == Init => LifeInv /\ EventsInv /\ StartsInv /\ ClaimsInv /\ HeldInv
<1> SUFFICES ASSUME Init PROVE LifeInv /\ EventsInv /\ StartsInv /\ ClaimsInv /\ HeldInv
    OBVIOUS
<1>1. /\ \A e \in Epochs : down[e] = <<>> /\ up[e] = <<>> /\ handler[e].phase = "idle"
      /\ \A r \in Runs : pass[r].stage = "idle"
      /\ held = {} /\ buffer = <<>>
      BY EmptyRows, IdleIsRow DEF Init
<1>2. \A r \in Runs : ~Starting(r) /\ ~Ending(r) /\ \A e \in Epochs : OneStart(down[e], r)
      BY <1>1, NoStarts DEF Starting, Ending, Buffered, HasEnd
<1>3. LifeInv
      BY <1>1, <1>2 DEF LifeInv
<1>4. EventsInv /\ ClaimsInv /\ HeldInv
      BY <1>1 DEF EventsInv, ClaimsInv, HeldInv, Registered, Early
<1>5. StartsInv
      BY <1>1, NoStarts DEF StartsInv
<1>6. QED
      BY <1>3, <1>4, <1>5

\* The last invariant contains the property.
LEMMA StaleFollows == TypeInv /\ HeldInv => StaleWorkIsStopped
<1> SUFFICES ASSUME TypeInv, HeldInv, NEW e \in Epochs, NEW r \in Runs,
                    handler[e].phase = "served", link = e, Connected(e),
                    final[e].phase \in {"marked", "done"}, r \in held,
                    run[r].status # "active"
             PROVE  \/ r \in stopped
                    \/ \E i \in DOMAIN down[e] :
                          \/ down[e][i].kind = "stop" /\ r \in down[e][i].runs
                          \/ down[e][i].kind = "disconnect"
                    \/ run[r].status = "closed" /\ r \in reported
                    \/ run[r].status = "withdrawn" /\ (run[r].newer \/ r \in final[e].kept)
    BY DEF StaleWorkIsStopped
<1>1. Halting(e, r) \/ Spared(e, r)
      BY DEF HeldInv
<1>2. DOMAIN down[e] = 1..Len(down[e])
      BY DEF TypeInv, WireOK
<1>3. QED
      BY <1>1, <1>2 DEF Halting, HasHalt, HaltOf, Spared, Known

\* "Unknown or stale claims receive a stop command": whatever the interleaving of
\* sockets, late events, lost messages, failing transactions, withdrawals and
\* scheduling passes, a run that a reconciled runner still works on although the
\* server gave it up is stopped or on its way to a stop, unless the server ended it
\* under this very connection.
THEOREM StaleWorkIsStoppedHolds == Spec => []StaleWorkIsStopped
<1> DEFINE Inv == /\ TypeInv /\ WatchInv /\ PhaseInv /\ ReadyInv /\ ReachInv
                  /\ LifeInv /\ EventsInv /\ StartsInv /\ ClaimsInv /\ HeldInv
<1>1. Init => Inv
      BY InitTypes, InitWatch, InitDispatch, InitStale
<1>2. Inv /\ [Next]_vars => Inv'
      BY StepTypes, StepWatched, StepPhases, StepReady, StepReach, StepLife, StepEvents,
         StepStarts, StepClaims, StepHeld
<1>3. Inv => StaleWorkIsStopped
      BY StaleFollows
<1>4. QED
      BY <1>1, <1>2, <1>3, PTL DEF Spec
=============================================================================
