------------------------ MODULE CommandOutboxProofs ------------------------
(***************************************************************************)
(* Proofs about CommandOutbox, for any number of commands and dispatches   *)
(* and any number of lost connections.                                     *)
(***************************************************************************)
EXTENDS CommandOutbox, FiniteSetTheorems, TLAPS

\* A command that reached the provider is remembered by the runner process, or
\* the run it was for is over: a restart forgets both together.
AppliedIsKnown ==
    /\ effects \in [Commands -> Nat]
    /\ \A c \in Commands :
          \/ effects[c] = 0
          \/ effects[c] = 1 /\ (c \in seen \/ ~Held)

\* No command has an effect at the start.
LEMMA InitApplied == Init => AppliedIsKnown
BY DEF Init, AppliedIsKnown

\* Only the runner's own steps change what it remembers and applies.
LEMMA RunnerUntouched ==
    ASSUME AppliedIsKnown, UNCHANGED <<assignment, seen, effects>>
    PROVE  AppliedIsKnown'
BY DEF AppliedIsKnown, Held

\* Applying a command counts its effects.
LEMMA EffectsTyped ==
    ASSUME effects \in [Commands -> Nat], ReceiveCommand
    PROVE  effects' \in [Commands -> Nat]
<1> DEFINE c == Head(down)
<1>1. CASE effects' = effects
      BY <1>1
<1>2. CASE effects' = [effects EXCEPT ![c] = @ + 1]
  <2> HIDE DEF c
  <2>1. CASE c \in Commands
        BY <1>2, <2>1
  <2>2. CASE c \notin Commands
    <3>1. effects' = effects
          BY <1>2, <2>2
    <3>2. QED
          BY <3>1
  <2>3. QED
        BY <2>1, <2>2
<1>3. QED
      BY <1>1, <1>2 DEF ReceiveCommand

\* The runner applies a command only when its journal does not know it, and
\* journals it with the effect.
LEMMA ReceiveKeepsApplied ==
    ASSUME AppliedIsKnown, ReceiveCommand
    PROVE  AppliedIsKnown'
<1> DEFINE c == Head(down)
<1>1. /\ seen \subseteq seen'
      /\ Held' = Held
      BY DEF ReceiveCommand, Remembered, Held
<1>2. CASE ~Duplicate(c) /\ Reaches(c)
  <2>1. effects' = [effects EXCEPT ![c] = @ + 1]
        BY <1>2 DEF ReceiveCommand
  <2>2. c \notin seen /\ Held /\ c \in seen'
        BY <1>2 DEF ReceiveCommand, Remembered, Duplicate, Reaches, Held
  <2> HIDE DEF c
  <2>3. effects \in [Commands -> Nat] /\ effects' \in [Commands -> Nat]
        BY EffectsTyped DEF AppliedIsKnown
  <2>4. ASSUME NEW x \in Commands, x = c
        PROVE  effects'[x] = 1 /\ x \in seen'
        BY <2>1, <2>2, <2>3, <2>4 DEF AppliedIsKnown
  <2>5. ASSUME NEW x \in Commands, x # c
        PROVE  effects'[x] = effects[x]
        BY <2>1, <2>3, <2>5
  <2>6. QED
        BY <1>1, <2>3, <2>4, <2>5 DEF AppliedIsKnown
<1>3. CASE ~(~Duplicate(c) /\ Reaches(c))
  <2>1. effects' = effects
        BY <1>3 DEF ReceiveCommand
  <2>2. QED
        BY <1>1, <2>1 DEF AppliedIsKnown
<1>4. QED
      BY <1>2, <1>3

\* Every step keeps each effect in the journal.
LEMMA StepKeepsApplied == AppliedIsKnown /\ [Next]_vars => AppliedIsKnown'
<1> SUFFICES ASSUME AppliedIsKnown, [Next]_vars
             PROVE  AppliedIsKnown'
    OBVIOUS
<1>1. CASE \E c \in Commands : Enqueue(c)
      BY <1>1, RunnerUntouched DEF Enqueue, runnerVars
<1>2. CASE RotateLease \/ LoseLease \/ RunEndsOnServer
      BY <1>2, RunnerUntouched DEF RotateLease, LoseLease, RunEndsOnServer, runnerVars
<1>3. CASE \E d \in Dispatchers : StartDispatch(d) \/ DispatchStep(d)
      BY <1>3, RunnerUntouched
      DEF StartDispatch, DispatchStep, CheckCommand, SendCommand, EndPage, runnerVars
<1>4. CASE HandleAck
      BY <1>4, RunnerUntouched DEF HandleAck, runnerVars
<1>5. CASE ReceiveCommand
      BY <1>5, ReceiveKeepsApplied
<1>6. CASE ProviderEnds \/ BeginFinalization
  <2>1. UNCHANGED <<seen, effects>> /\ Held' = Held
        BY <1>6 DEF ProviderEnds, BeginFinalization, Held
  <2>2. QED
        BY <2>1 DEF AppliedIsKnown
<1>7. CASE AssignmentEnds
      BY <1>7 DEF AssignmentEnds, AppliedIsKnown, Held
<1>8. CASE DropLink \/ Reconnect
      BY <1>8, RunnerUntouched DEF DropLink, Reconnect
<1>9. CASE RunnerRestarts
      BY <1>9 DEF RunnerRestarts, AppliedIsKnown, Held
<1>10. CASE UNCHANGED vars
      BY <1>10, RunnerUntouched DEF vars, runnerVars
<1>11. QED
      BY <1>1, <1>2, <1>3, <1>4, <1>5, <1>6, <1>7, <1>8, <1>9, <1>10 DEF Next

\* No interleaving of dispatches, redeliveries, reconnects and runner restarts
\* makes the provider see a command twice.
THEOREM AppliedOnce == Spec => []AppliedAtMostOnce
<1>1. AppliedIsKnown => AppliedAtMostOnce
      BY DEF AppliedIsKnown, AppliedAtMostOnce
<1>2. QED
      BY <1>1, InitApplied, StepKeepsApplied, PTL DEF Spec

-----------------------------------------------------------------------------
\* A hard stage that was accepted has taken the boundary, for as long as the
\* assignment lives; a new runner process finds no assignment.
HardInv ==
    /\ effects \in [Commands -> Nat]
    /\ boundary \in {"open", "requested", "finalizing"}
    /\ boundary = "finalizing" => assignment \in {"finishing", "over"}
    /\ \A c \in Commands : Kind[c] = "hard_breaker" =>
          \/ effects[c] = 0
          \/ boundary = "requested"
          \/ assignment = "over" /\ boundary # "finalizing"

\* No hard stage was accepted at the start.
LEMMA InitHard == Init => HardInv
BY DEF Init, HardInv

\* Steps that leave the run's boundary and the effects alone keep the
\* invariant.
LEMMA HardUntouched ==
    ASSUME HardInv, UNCHANGED <<assignment, boundary, effects>>
    PROVE  HardInv'
BY DEF HardInv

\* A hard stage is accepted only together with the boundary.
LEMMA ReceiveKeepsHard ==
    ASSUME HardInv, ReceiveCommand
    PROVE  HardInv'
<1> DEFINE c == Head(down)
<1>1. assignment' = assignment /\ effects \in [Commands -> Nat]
      BY DEF ReceiveCommand, HardInv
<1>2. effects' \in [Commands -> Nat]
      BY <1>1, EffectsTyped
<1>3. boundary' = boundary \/ boundary' = "requested"
      BY DEF ReceiveCommand
<1>4. ASSUME NEW x \in Commands, Kind[x] = "hard_breaker", x # c
      PROVE  effects'[x] = effects[x]
      BY <1>1, <1>4 DEF ReceiveCommand
<1>5. ASSUME NEW x \in Commands, Kind[x] = "hard_breaker", x = c
      PROVE  effects'[x] = effects[x] \/ boundary' = "requested"
  <2>1. CASE ~Duplicate(c) /\ Reaches(c)
    <3>1. boundary \in {"open", "requested"}
          BY <1>5, <2>1 DEF HardInv, Reaches
    <3>2. QED
          BY <1>5, <2>1, <3>1 DEF ReceiveCommand
  <2>2. CASE ~(~Duplicate(c) /\ Reaches(c))
        BY <1>5, <2>2 DEF ReceiveCommand
  <2>3. QED
        BY <2>1, <2>2
<1> HIDE DEF c
<1>6. ASSUME NEW x \in Commands, Kind[x] = "hard_breaker"
      PROVE  effects'[x] = effects[x] \/ boundary' = "requested"
      BY <1>4, <1>5, <1>6
<1>7. QED
      BY <1>1, <1>2, <1>3, <1>6 DEF HardInv

\* Every step keeps the boundary respected.
LEMMA StepKeepsHard == HardInv /\ [Next]_vars => HardInv'
<1> SUFFICES ASSUME HardInv, [Next]_vars
             PROVE  HardInv'
    OBVIOUS
<1>1. CASE \E c \in Commands : Enqueue(c)
      BY <1>1, HardUntouched DEF Enqueue, runnerVars
<1>2. CASE RotateLease \/ LoseLease \/ RunEndsOnServer
      BY <1>2, HardUntouched DEF RotateLease, LoseLease, RunEndsOnServer, runnerVars
<1>3. CASE \E d \in Dispatchers : StartDispatch(d) \/ DispatchStep(d)
      BY <1>3, HardUntouched
      DEF StartDispatch, DispatchStep, CheckCommand, SendCommand, EndPage, runnerVars
<1>4. CASE HandleAck
      BY <1>4, HardUntouched DEF HandleAck, runnerVars
<1>5. CASE ReceiveCommand
      BY <1>5, ReceiveKeepsHard
<1>6. CASE ProviderEnds
      BY <1>6 DEF ProviderEnds, HardInv
<1>7. CASE BeginFinalization
  <2>1. CASE boundary = "open"
        BY <1>7, <2>1 DEF BeginFinalization, HardInv
  <2>2. CASE boundary # "open"
        BY <1>7, <2>2 DEF BeginFinalization, HardInv
  <2>3. QED
        BY <2>1, <2>2
<1>8. CASE AssignmentEnds
      BY <1>8 DEF AssignmentEnds, HardInv
<1>9. CASE DropLink \/ Reconnect
      BY <1>9, HardUntouched DEF DropLink, Reconnect
<1>10. CASE RunnerRestarts
      BY <1>10 DEF RunnerRestarts, HardInv
<1>11. CASE UNCHANGED vars
      BY <1>11, HardUntouched DEF vars, runnerVars
<1>12. QED
      BY <1>1, <1>2, <1>3, <1>4, <1>5, <1>6, <1>7, <1>8, <1>9, <1>10, <1>11 DEF Next

\* The compare-and-exchange between a hard stage and the clean-up decides once:
\* whatever the order of delivery, redelivery and restart, a run whose clean-up
\* began accepted no suspend or stop.
THEOREM HardStopKept == Spec => []HardStopIsKept
<1>1. HardInv => HardStopIsKept
      BY DEF HardInv, HardStopIsKept
<1>2. QED
      BY <1>1, InitHard, StepKeepsHard, PTL DEF Spec

-----------------------------------------------------------------------------
(* The record of what was delivered.                                       *)

Acks == [command : Commands, applied : BOOLEAN]
Calls(rows) ==
    [phase : {"idle", "check", "send"}, epoch : 0..(MaxDrops + 1),
     page : SUBSET rows, full : BOOLEAN, sent : BOOLEAN]

\* Command c, unless it is a decision, is one of those that e counts as applied.
Confirms(c, e) == Kind[c] # "approval_decision" => e[c] > 0

Truthful(acks, e) == \A i \in DOMAIN acks : acks[i].applied => Confirms(acks[i].command, e)

\* What the runner says and remembers about a command is true of the provider; a
\* registration without a ready connection has a reconnect left.
RecordInv ==
    /\ TypeOK
    /\ ~ready => epoch <= MaxDrops
    /\ Truthful(up, effects) /\ Truthful(buffered, effects)
    /\ \A c \in seen : Confirms(c, effects)
    /\ AcknowledgedIsApplied

\* Nothing is recorded as applied at the start.
LEMMA InitRecord == Init => RecordInv
<1> SUFFICES ASSUME Init PROVE RecordInv
    OBVIOUS
<1> USE OutboxConstants
<1>1. outbox = <<>> /\ up = <<>> /\ buffered = <<>> /\ down = <<>>
      BY DEF Init
<1>2. /\ outbox \in Seq(Commands) /\ IsInjective(outbox)
      /\ Range(outbox) = {c \in Commands : status[c] # "none"}
      BY <1>1 DEF Init, IsInjective, Range
<1>3. Idle \in Calls(DOMAIN outbox)
      BY DEF Idle, Calls
<1>4. work \in [Dispatchers -> Calls(DOMAIN outbox)]
      BY <1>3 DEF Init
<1>5. TypeOK
      BY <1>1, <1>2, <1>4 DEF Init, TypeOK, Calls
<1>6. QED
      BY <1>1, <1>5 DEF Init, RecordInv, AcknowledgedIsApplied, Truthful

\* A new row is the last one, and its command was in no row.
LEMMA EnqueueTyped ==
    ASSUME TypeOK, NEW c \in Commands, Enqueue(c)
    PROVE  TypeOK'
<1>1. /\ outbox \in Seq(Commands) /\ IsInjective(outbox)
      /\ Range(outbox) = {x \in Commands : status[x] # "none"}
      /\ status \in [Commands -> {"none", "pending", "dispatched", "failed"}]
      /\ status[c] = "none" /\ outbox' = Append(outbox, c)
      /\ status' = [status EXCEPT ![c] = "pending"]
      BY DEF TypeOK, Enqueue
<1>2. /\ outbox' \in Seq(Commands) /\ DOMAIN outbox = 1..Len(outbox)
      /\ DOMAIN outbox' = 1..(Len(outbox) + 1) /\ Len(outbox) \in Nat
      /\ \A i \in 1..Len(outbox) : outbox'[i] = outbox[i]
      /\ outbox'[Len(outbox) + 1] = c
      BY <1>1
<1>3. \A i \in 1..Len(outbox) : outbox[i] # c
      BY <1>1, <1>2 DEF Range
<1>4. IsInjective(outbox')
      BY <1>1, <1>2, <1>3 DEF IsInjective
<1>5. Range(outbox') = Range(outbox) \cup {c}
  <2>1. \A x : x \in Range(outbox') <=> (x \in Range(outbox) \/ x = c)
        BY <1>2 DEF Range
  <2>2. QED
        BY <2>1
<1>6. {x \in Commands : status'[x] # "none"} = {x \in Commands : status[x] # "none"} \cup {c}
      BY <1>1
<1>7. work \in [Dispatchers -> Calls(DOMAIN outbox')]
  <2>1. DOMAIN outbox \subseteq DOMAIN outbox'
        BY <1>2
  <2>2. Calls(DOMAIN outbox) \subseteq Calls(DOMAIN outbox')
        BY <2>1 DEF Calls
  <2>3. work \in [Dispatchers -> Calls(DOMAIN outbox)]
        BY DEF TypeOK, Calls
  <2>4. QED
        BY <2>2, <2>3
<1>8. version' \in [Commands -> 0..MaxLease] /\ status' \in [Commands -> {"none", "pending", "dispatched", "failed"}]
      BY <1>1 DEF TypeOK, Enqueue
<1>9. QED
      BY <1>1, <1>2, <1>4, <1>5, <1>6, <1>7, <1>8
      DEF TypeOK, Enqueue, Calls, linkVars, runnerVars

\* The rows keep their order and their commands when only statuses are settled.
LEMMA SettleTyped ==
    ASSUME TypeOK, NEW c \in Commands, NEW outcome \in {"dispatched", "failed"},
           Settle(c, outcome), UNCHANGED outbox
    PROVE  /\ status' \in [Commands -> {"none", "pending", "dispatched", "failed"}]
           /\ Range(outbox)' = {x \in Commands : status'[x] # "none"}
<1>1. status \in [Commands -> {"none", "pending", "dispatched", "failed"}]
      BY DEF TypeOK
<1>2. \A x \in Commands : status'[x] # "none" <=> status[x] # "none"
      BY <1>1 DEF Settle
<1>3. {x \in Commands : status'[x] # "none"} = {x \in Commands : status[x] # "none"}
      BY <1>2
<1>4. QED
      BY <1>1, <1>3 DEF TypeOK, Settle

\* The dispatchers keep the types.
LEMMA DispatchTyped ==
    ASSUME TypeOK, NEW d \in Dispatchers, StartDispatch(d) \/ DispatchStep(d)
    PROVE  TypeOK'
<1> USE OutboxConstants
<1> DEFINE Rows == DOMAIN outbox
<1>1. /\ outbox \in Seq(Commands) /\ work \in [Dispatchers -> Calls(Rows)]
      /\ epoch \in 1..(MaxDrops + 1) /\ down \in Seq(Commands)
      BY DEF TypeOK, Calls
<1>2. Idle \in Calls(Rows) /\ Page \subseteq Rows /\ \A i \in Rows : outbox[i] \in Commands
      BY <1>1 DEF Idle, Calls, Page, Pending
<1>3. UNCHANGED <<outbox, version, lease, runActive, epoch, ready, up, runnerVars>>
      BY DEF StartDispatch, DispatchStep, CheckCommand, SendCommand, EndPage, serverVars, linkVars
<1>4. work[d] \in Calls(Rows)
      BY <1>1
<1>5. ASSUME NEW call \in Calls(Rows), work' = [work EXCEPT ![d] = call]
      PROVE  work' \in [Dispatchers -> Calls(Rows)]
      BY <1>1, <1>5
<1> HIDE DEF Rows
<1>6. CASE StartDispatch(d)
  <2>1. work' \in [Dispatchers -> Calls(Rows)]
        BY <1>1, <1>2, <1>6 DEF StartDispatch, Calls
  <2>2. UNCHANGED <<status, down>>
        BY <1>6 DEF StartDispatch, serverVars, linkVars
  <2>3. QED
        BY <1>3, <2>1, <2>2 DEF TypeOK, Calls, runnerVars, Rows
<1>7. CASE CheckCommand(d)
  <2>1. PICK i \in work[d].page :
          \/ work' = [work EXCEPT ![d] = Idle] /\ UNCHANGED status
          \/ Settle(outbox[i], "failed") /\ work' = [work EXCEPT ![d].page = @ \ {i}]
          \/ work' = [work EXCEPT ![d].phase = "send"] /\ UNCHANGED status
        BY <1>7 DEF CheckCommand
  <2>2. work' \in [Dispatchers -> Calls(Rows)]
    <3>1. [work[d] EXCEPT !.page = @ \ {i}] \in Calls(Rows)
          BY <1>4 DEF Calls
    <3>2. [work[d] EXCEPT !.phase = "send"] \in Calls(Rows)
          BY <1>4 DEF Calls
    <3>3. QED
          BY <2>1, <3>1, <3>2, <1>1, <1>2
  <2>3. i \in Rows
        BY <1>4, <2>1 DEF Calls
  <2>4. outbox[i] \in Commands
        BY <1>2, <2>3
  <2>5. /\ status' \in [Commands -> {"none", "pending", "dispatched", "failed"}]
        /\ Range(outbox)' = {x \in Commands : status'[x] # "none"}
        BY <1>3, <2>1, <2>4, SettleTyped DEF TypeOK
  <2>6. down' = down
        BY <1>7 DEF CheckCommand, linkVars
  <2>7. QED
        BY <1>3, <2>2, <2>5, <2>6 DEF TypeOK, Calls, runnerVars, Rows
<1>8. CASE SendCommand(d)
  <2>1. \/ work' = [work EXCEPT ![d] = Idle] /\ UNCHANGED down
        \/ \E i \in work[d].page :
              /\ down' = Append(down, outbox[i])
              /\ work' = [work EXCEPT ![d].phase = "check", ![d].sent = TRUE, ![d].page = @ \ {i}]
        BY <1>8 DEF SendCommand
  <2>2. ASSUME NEW i \in work[d].page
        PROVE  /\ [work[d] EXCEPT !.phase = "check", !.sent = TRUE, !.page = @ \ {i}] \in Calls(Rows)
               /\ outbox[i] \in Commands
        BY <1>2, <1>4 DEF Calls
  <2>3. work' \in [Dispatchers -> Calls(Rows)] /\ down' \in Seq(Commands)
    <3>1. CASE work' = [work EXCEPT ![d] = Idle] /\ UNCHANGED down
          BY <1>1, <1>2, <3>1
    <3>2. ASSUME NEW i \in work[d].page, down' = Append(down, outbox[i]),
                 work' = [work EXCEPT ![d].phase = "check", ![d].sent = TRUE,
                                      ![d].page = @ \ {i}]
          PROVE  work' \in [Dispatchers -> Calls(Rows)] /\ down' \in Seq(Commands)
      <4>1. outbox[i] \in Commands
            BY <2>2
      <4>2. down' \in Seq(Commands)
            BY <1>1, <3>2, <4>1
      <4>3. work' = [work EXCEPT ![d] = [work[d] EXCEPT !.phase = "check", !.sent = TRUE,
                                                        !.page = @ \ {i}]]
            BY <1>1, <3>2
      <4>4. work' \in [Dispatchers -> Calls(Rows)]
            BY <1>1, <2>2, <4>3
      <4>5. QED
            BY <4>2, <4>4
    <3>3. QED
          BY <2>1, <3>1, <3>2
  <2>4. status' = status
        BY <1>8 DEF SendCommand, serverVars
  <2>5. QED
        BY <1>3, <2>3, <2>4 DEF TypeOK, Calls, runnerVars, Rows
<1>9. CASE EndPage(d)
  <2>1. [work[d] EXCEPT !.page = Page, !.full = Cardinality(Page) = PageSize] \in Calls(Rows)
        BY <1>2, <1>4 DEF Calls
  <2>2. work' \in [Dispatchers -> Calls(Rows)]
        BY <1>1, <1>2, <1>9, <2>1 DEF EndPage
  <2>3. UNCHANGED <<status, down>>
        BY <1>9 DEF EndPage, serverVars, linkVars
  <2>4. QED
        BY <1>3, <2>2, <2>3 DEF TypeOK, Calls, runnerVars, Rows
<1>10. QED
      BY <1>6, <1>7, <1>8, <1>9 DEF DispatchStep

\* Reading, cutting and appending keep acknowledgments well-formed and true.
LEMMA AcksRead ==
    ASSUME NEW q \in Seq(Acks), NEW e, Truthful(q, e), q # <<>>
    PROVE  /\ Head(q) \in Acks /\ Tail(q) \in Seq(Acks) /\ Truthful(Tail(q), e)
           /\ Head(q).applied => Confirms(Head(q).command, e)
<1>1. /\ Head(q) = q[1] /\ 1 \in DOMAIN q /\ Tail(q) \in Seq(Acks)
      /\ \A i \in DOMAIN Tail(q) : i + 1 \in DOMAIN q /\ Tail(q)[i] = q[i + 1]
      OBVIOUS
<1>2. QED
      BY <1>1 DEF Truthful

\* A part of a truthful sequence of acknowledgments is truthful.
LEMMA AcksCut ==
    ASSUME NEW q \in Seq(Acks), NEW e, Truthful(q, e),
           NEW m \in 0..Len(q), NEW n \in 0..Len(q)
    PROVE  SubSeq(q, m + 1, n) \in Seq(Acks) /\ Truthful(SubSeq(q, m + 1, n), e)
<1> DEFINE cut == SubSeq(q, m + 1, n)
<1>1. \A i \in (m + 1)..n : q[i] \in Acks
      OBVIOUS
<1>2. cut \in Seq(Acks)
      BY <1>1
<1>3. \A i \in DOMAIN cut : i + m \in DOMAIN q /\ cut[i] = q[i + m]
      OBVIOUS
<1>4. QED
      BY <1>2, <1>3 DEF Truthful

\* So is one extended by a true acknowledgment.
LEMMA AcksAppended ==
    ASSUME NEW q \in Seq(Acks), NEW e, Truthful(q, e), NEW a \in Acks,
           a.applied => Confirms(a.command, e)
    PROVE  Append(q, a) \in Seq(Acks) /\ Truthful(Append(q, a), e)
<1>1. /\ Append(q, a) \in Seq(Acks) /\ DOMAIN Append(q, a) = 1..(Len(q) + 1)
      /\ \A i \in 1..Len(q) : Append(q, a)[i] = q[i]
      /\ Append(q, a)[Len(q) + 1] = a /\ Len(q) \in Nat /\ DOMAIN q = 1..Len(q)
      OBVIOUS
<1>2. QED
      BY <1>1 DEF Truthful

\* What was said stays true: a command that was applied remains applied.
LEMMA TruthKept ==
    ASSUME NEW e \in [Commands -> Nat], NEW f \in [Commands -> Nat],
           \A c \in Commands : e[c] <= f[c]
    PROVE  /\ \A c \in Commands : Confirms(c, e) => Confirms(c, f)
           /\ \A q \in Seq(Acks) : Truthful(q, e) => Truthful(q, f)
<1>1. \A c \in Commands : Confirms(c, e) => Confirms(c, f)
      BY DEF Confirms
<1>2. ASSUME NEW q \in Seq(Acks), Truthful(q, e)
      PROVE  Truthful(q, f)
  <2>1. \A i \in DOMAIN q : q[i].command \in Commands
    <3>1. \A i \in DOMAIN q : q[i] \in Acks
          OBVIOUS
    <3>2. QED
          BY <3>1 DEF Acks
  <2>2. QED
        BY <1>1, <1>2, <2>1 DEF Truthful
<1>3. QED
      BY <1>1, <1>2

\* The store records what a truthful acknowledgment says.
LEMMA AckKeepsRecord ==
    ASSUME RecordInv, HandleAck
    PROVE  RecordInv'
<1> DEFINE a == Head(up)
<1>1. up \in Seq(Acks) /\ Truthful(up, effects) /\ up # <<>> /\ up' = Tail(up)
      BY DEF RecordInv, TypeOK, HandleAck, Acks
<1>2. /\ a \in Acks /\ up' \in Seq(Acks) /\ Truthful(up', effects)
      /\ a.applied => Confirms(a.command, effects)
      BY <1>1, AcksRead
<1>3. UNCHANGED <<outbox, version, lease, runActive, work, epoch, ready, down, buffered,
                  assignment, boundary, seen, effects>>
      BY DEF HandleAck, runnerVars
<1>4. Settle(a.command, IF a.applied THEN "dispatched" ELSE "failed")
      BY DEF HandleAck
<1> HIDE DEF a
<1>5. a.command \in Commands /\ a.applied \in BOOLEAN
      BY <1>2 DEF Acks
<1>6. status \in [Commands -> {"none", "pending", "dispatched", "failed"}]
      BY DEF RecordInv, TypeOK
<1>7. /\ status' \in [Commands -> {"none", "pending", "dispatched", "failed"}]
      /\ Range(outbox)' = {x \in Commands : status'[x] # "none"}
      BY <1>3, <1>4, <1>5, SettleTyped DEF RecordInv
<1>8. TypeOK'
      BY <1>2, <1>3, <1>7 DEF RecordInv, TypeOK, Acks
<1>9. AcknowledgedIsApplied'
  <2>1. ASSUME NEW c \in Commands, status'[c] = "dispatched"
        PROVE  status[c] = "dispatched" \/ Confirms(c, effects)
        BY <1>2, <1>4, <1>5, <1>6, <2>1 DEF Settle
  <2>2. QED
        BY <1>3, <2>1 DEF AcknowledgedIsApplied, RecordInv, Confirms
<1>10. QED
      BY <1>2, <1>3, <1>8, <1>9 DEF RecordInv

\* What the runner acknowledges as applied has been applied.
LEMMA ReceiveKeepsRecord ==
    ASSUME RecordInv, ReceiveCommand
    PROVE  RecordInv'
<1> DEFINE c == Head(down)
           effect == ~Duplicate(c) /\ Reaches(c)
           a == [command |-> c, applied |-> Duplicate(c) \/ effect]
<1>1. /\ up \in Seq(Acks) /\ buffered \in Seq(Acks) /\ down \in Seq(Commands) /\ down # <<>>
      /\ effects \in [Commands -> Nat] /\ seen \subseteq Commands
      /\ boundary \in {"open", "requested", "finalizing"}
      BY DEF RecordInv, TypeOK, ReceiveCommand, Acks
<1>2. c \in Commands /\ down' = Tail(down) /\ down' \in Seq(Commands)
      BY <1>1 DEF ReceiveCommand
<1>3. /\ effects' = IF effect THEN [effects EXCEPT ![c] = @ + 1] ELSE effects
      /\ seen' = Remembered(c) /\ up' = Append(up, a)
      BY DEF ReceiveCommand
<1>4. boundary' \in {"open", "requested", "finalizing"}
      BY <1>1 DEF ReceiveCommand
<1>5. UNCHANGED <<outbox, status, version, lease, runActive, work, epoch, ready, buffered, assignment>>
      BY DEF ReceiveCommand, serverVars
<1>6. seen' \subseteq seen \cup {c} /\ (c \in seen' => \/ Kind[c] = "approval_decision"
                                                      \/ Reaches(c) \/ c \in seen)
      BY <1>3 DEF Remembered
<1> HIDE DEF c
<1>7. /\ effects' \in [Commands -> Nat] /\ \A x \in Commands : effects[x] <= effects'[x]
      /\ effect => effects'[c] > 0
  <2>1. CASE effect
        BY <1>1, <1>2, <1>3, <2>1
  <2>2. CASE ~effect
        BY <1>1, <1>3, <2>2
  <2>3. QED
        BY <2>1, <2>2
<1>8. /\ \A x \in seen : Confirms(x, effects')
      /\ Truthful(up, effects') /\ Truthful(buffered, effects')
  <2>1. /\ \A x \in Commands : Confirms(x, effects) => Confirms(x, effects')
        /\ \A q \in Seq(Acks) : Truthful(q, effects) => Truthful(q, effects')
        BY <1>1, <1>7, TruthKept
  <2>2. QED
        BY <1>1, <2>1 DEF RecordInv
<1>9. Duplicate(c) \/ effect => Confirms(c, effects')
      BY <1>7, <1>8 DEF Duplicate, Confirms
<1>10. \A x \in seen' : Confirms(x, effects')
  <2>1. c \in seen' => Confirms(c, effects')
        BY <1>6, <1>8, <1>9 DEF Confirms, Duplicate
  <2>2. QED
        BY <1>6, <1>8, <2>1
<1>11. up' \in Seq(Acks) /\ Truthful(up', effects')
  <2>1. a \in Acks /\ a.applied = (Duplicate(c) \/ effect) /\ a.command = c
        BY <1>2 DEF Acks, Duplicate, Reaches
  <2> HIDE DEF a
  <2>2. QED
        BY <1>1, <1>3, <1>8, <1>9, <2>1, AcksAppended
<1>12. TypeOK'
      BY <1>1, <1>2, <1>4, <1>5, <1>6, <1>7, <1>11 DEF RecordInv, TypeOK, Acks
<1>13. AcknowledgedIsApplied'
      BY <1>1, <1>5, <1>7 DEF RecordInv, AcknowledgedIsApplied
<1>14. QED
      BY <1>5, <1>8, <1>10, <1>11, <1>12, <1>13 DEF RecordInv

\* The acknowledgments a lost link delivers or leaves behind are truthful.
LEMMA DropKeepsRecord ==
    ASSUME RecordInv, DropLink
    PROVE  RecordInv'
<1>1. up \in Seq(Acks) /\ Truthful(up, effects)
      BY DEF RecordInv, TypeOK, Acks
<1>2. PICK n \in 0..Len(up), m \in 0..Len(up) :
         up' = SubSeq(up, 1, n) /\ buffered' = SubSeq(up, m + 1, Len(up))
  <2>1. Len(up) \in Nat
        BY <1>1
  <2>2. QED
        BY <2>1 DEF DropLink
<1>3. up' \in Seq(Acks) /\ Truthful(up', effects)
  <2>1. 0 \in 0..Len(up)
        BY <1>1
  <2>2. SubSeq(up, 0 + 1, n) \in Seq(Acks) /\ Truthful(SubSeq(up, 0 + 1, n), effects)
        BY <1>1, <2>1, AcksCut
  <2>3. QED
        BY <1>2, <2>2
<1>4. buffered' \in Seq(Acks) /\ Truthful(buffered', effects)
  <2>1. Len(up) \in 0..Len(up)
        BY <1>1
  <2>2. QED
        BY <1>1, <1>2, <2>1, AcksCut
<1>5. /\ UNCHANGED <<outbox, status, version, lease, runActive, work, epoch, assignment,
                     boundary, seen, effects>>
      /\ ready' = FALSE /\ down' = <<>> /\ epoch <= MaxDrops
      BY DEF DropLink, serverVars
<1>6. TypeOK'
  <2>1. TypeOK
        BY DEF RecordInv
  <2>2. <<>> \in Seq(Commands)
        OBVIOUS
  <2>3. down' \in Seq(Commands)
        BY <1>5, <2>2
  <2>4. QED
        BY <1>3, <1>4, <1>5, <2>1, <2>3 DEF TypeOK, Acks
<1>7. QED
      BY <1>3, <1>4, <1>5, <1>6 DEF RecordInv, AcknowledgedIsApplied

\* Steps that touch no acknowledgment, journal or effect keep the record
\* true.
LEMMA RecordUntouched ==
    ASSUME RecordInv, TypeOK', UNCHANGED <<ready, epoch, up, buffered, seen, effects>>,
           \A c \in Commands : status'[c] = "dispatched" => status[c] = "dispatched"
    PROVE  RecordInv'
BY DEF RecordInv, AcknowledgedIsApplied

\* Every step keeps the record true.
LEMMA StepKeepsRecord == RecordInv /\ [Next]_vars => RecordInv'
<1> SUFFICES ASSUME RecordInv, [Next]_vars
             PROVE  RecordInv'
    OBVIOUS
<1> USE OutboxConstants
<1>0. TypeOK /\ status \in [Commands -> {"none", "pending", "dispatched", "failed"}]
      BY DEF RecordInv, TypeOK
<1>1. ASSUME NEW c \in Commands, Enqueue(c)
      PROVE  RecordInv'
  <2>1. TypeOK'
        BY <1>0, <1>1, EnqueueTyped
  <2>2. /\ UNCHANGED <<ready, epoch, up, buffered, seen, effects>>
        /\ status' = [status EXCEPT ![c] = "pending"]
        BY <1>1 DEF Enqueue, linkVars, runnerVars
  <2>3. QED
        BY <1>0, <2>1, <2>2, RecordUntouched
<1>2. CASE RotateLease \/ LoseLease
  <2>1. lease' \in [version : 0..MaxLease, live : BOOLEAN]
    <3>1. lease \in [version : 0..MaxLease, live : BOOLEAN]
          BY <1>0 DEF TypeOK
    <3>2. CASE RotateLease
      <4>1. lease.version \in 0..MaxLease /\ lease.version < MaxLease
            BY <3>1, <3>2 DEF RotateLease
      <4>2. lease.version + 1 \in 0..MaxLease
            BY <4>1
      <4>3. QED
            BY <3>2, <4>2 DEF RotateLease
    <3>3. CASE LoseLease
          BY <3>1, <3>3 DEF LoseLease
    <3>4. QED
          BY <1>2, <3>2, <3>3
  <2>2. UNCHANGED <<outbox, status, version, runActive, work, linkVars, runnerVars>>
        BY <1>2 DEF RotateLease, LoseLease
  <2>3. TypeOK'
        BY <1>0, <2>1, <2>2 DEF TypeOK, linkVars, runnerVars
  <2>4. QED
        BY <2>2, <2>3, RecordUntouched DEF linkVars, runnerVars
<1>3. CASE RunEndsOnServer
  <2>1. TypeOK'
        BY <1>0, <1>3 DEF RunEndsOnServer, TypeOK, linkVars, runnerVars
  <2>2. QED
        BY <1>3, <2>1, RecordUntouched DEF RunEndsOnServer, linkVars, runnerVars
<1>4. ASSUME NEW d \in Dispatchers, StartDispatch(d) \/ DispatchStep(d)
      PROVE  RecordInv'
  <2>1. TypeOK'
        BY <1>0, <1>4, DispatchTyped
  <2>2. UNCHANGED <<ready, epoch, up, buffered, seen, effects>>
        BY <1>4 DEF StartDispatch, DispatchStep, CheckCommand, SendCommand, EndPage, linkVars,
                    runnerVars
  <2>3. UNCHANGED status \/ \E i : Settle(outbox[i], "failed")
        BY <1>4 DEF StartDispatch, DispatchStep, CheckCommand, SendCommand, EndPage, serverVars
  <2>4. \A c \in Commands : status'[c] = "dispatched" => status[c] = "dispatched"
        BY <1>0, <2>3 DEF Settle
  <2>5. QED
        BY <2>1, <2>2, <2>4, RecordUntouched
<1>5. CASE HandleAck
      BY <1>5, AckKeepsRecord
<1>6. CASE ReceiveCommand
      BY <1>6, ReceiveKeepsRecord
<1>7. CASE ProviderEnds \/ BeginFinalization \/ AssignmentEnds
  <2>1. /\ UNCHANGED <<serverVars, work, linkVars, buffered, seen, effects>>
        /\ assignment' \in {"provider", "verifying", "finishing", "over"}
        /\ boundary' \in {boundary, "finalizing"}
        BY <1>7 DEF ProviderEnds, BeginFinalization, AssignmentEnds
  <2>2. TypeOK'
        BY <1>0, <2>1 DEF TypeOK, serverVars, linkVars
  <2>3. QED
        BY <2>1, <2>2, RecordUntouched DEF serverVars, linkVars
<1>8. CASE DropLink
      BY <1>8, DropKeepsRecord
<1>9. CASE Reconnect
  <2>1. /\ UNCHANGED <<outbox, status, version, lease, work, down, assignment, boundary, seen, effects>>
        /\ ~ready /\ ready' = TRUE /\ epoch' = epoch + 1 /\ up' = buffered /\ buffered' = <<>>
        /\ runActive' \in BOOLEAN
        BY <1>9 DEF Reconnect
  <2>2. epoch' \in 1..(MaxDrops + 1)
        BY <2>1 DEF RecordInv, TypeOK
  <2>3. TypeOK'
        BY <1>0, <2>1, <2>2 DEF TypeOK
  <2>4. QED
        BY <2>1, <2>3 DEF RecordInv, Truthful, AcknowledgedIsApplied
<1>10. CASE RunnerRestarts
  <2>1. /\ UNCHANGED <<serverVars, work, linkVars, effects>>
        /\ buffered' = <<>> /\ assignment' = "over" /\ boundary' = "open" /\ seen' = {}
        BY <1>10 DEF RunnerRestarts
  <2>2. TypeOK'
        BY <1>0, <2>1 DEF TypeOK, serverVars, linkVars
  <2>3. QED
        BY <2>1, <2>2 DEF RecordInv, Truthful, AcknowledgedIsApplied, serverVars, linkVars
<1>11. CASE UNCHANGED vars
  <2>1. UNCHANGED <<serverVars, work, linkVars, runnerVars>>
        BY <1>11 DEF vars
  <2>2. TypeOK'
        BY <1>0, <2>1 DEF TypeOK, serverVars, linkVars, runnerVars
  <2>3. QED
        BY <2>1, <2>2, RecordUntouched DEF serverVars, linkVars, runnerVars
<1>12. QED
      BY <1>1, <1>2, <1>3, <1>4, <1>5, <1>6, <1>7, <1>8, <1>9, <1>10, <1>11 DEF Next

\* A command is recorded as dispatched only when the provider received it, whatever
\* acknowledgments are lost, carried over to a new socket or repeated, and the rows,
\* dispatches and messages keep their form.
THEOREM RecordIsTrueHolds == Spec => []RecordIsTrue
<1>1. RecordInv => RecordIsTrue
      BY DEF RecordInv, RecordIsTrue
<1>2. QED
      BY <1>1, InitRecord, StepKeepsRecord, PTL DEF Spec
-----------------------------------------------------------------------------
(* The order of the control messages of one lease.                         *)

(* Rows i and j hold control messages of one lease, and i is the older.    *)
Pair(i, j) ==
    /\ i \in DOMAIN outbox /\ j \in DOMAIN outbox /\ i < j
    /\ Kind[outbox[i]] = "control_message" /\ Kind[outbox[j]] = "control_message"
    /\ version[outbox[i]] = version[outbox[j]]

(* Nothing a command does can come later: it has had its effect, or the    *)
(* provider takes no more; and a lease version that is not the live one of *)
(* an active run will never be that again.                                 *)
Reached(c) == effects[c] > 0 \/ assignment # "provider"
Gone(v)    == lease # [version |-> v, live |-> TRUE] \/ ~runActive
Queued(c)  == \E l \in DOMAIN down : down[l] = c
Handled(c) == Reached(c) \/ Queued(c)

VersionsPast == \A i \in DOMAIN outbox : version[outbox[i]] <= lease.version
EpochsPast   == \A d \in Dispatchers : work[d].epoch <= epoch

(* A control message is refused only when the provider has ended, and has  *)
(* failed only then or when its lease has gone.                            *)
Refuses(acks) ==
    \A k \in DOMAIN acks : ~acks[k].applied /\ Kind[acks[k].command] = "control_message"
                                => assignment # "provider"
FailedIsLate ==
    \A i \in DOMAIN outbox :
        Kind[outbox[i]] = "control_message" /\ status[outbox[i]] = "failed"
            => Gone(version[outbox[i]]) \/ assignment # "provider"

(* The older of two is ahead of the younger in the socket and in effect.   *)
DownInOrder ==
    \A i, j \in DOMAIN outbox : Pair(i, j) =>
        \A k \in DOMAIN down : down[k] = outbox[j] =>
            Reached(outbox[i]) \/ \E l \in DOMAIN down : l < k /\ down[l] = outbox[i]
EffectsInOrder ==
    \A i, j \in DOMAIN outbox : Pair(i, j) =>
        (effects[outbox[j]] > 0 => Reached(outbox[i]))

(* A dispatch of this connection that has the younger still before it, and *)
(* the older not, has sent the older, or neither can be sent any more; one *)
(* that is about to send the younger has sent the older.                   *)
PageInOrder(d) ==
    \A i, j \in DOMAIN outbox :
        Pair(i, j) /\ j \in work[d].page /\ i \notin work[d].page
            => Handled(outbox[i]) \/ Gone(version[outbox[i]])
SendInOrder(d) ==
    work[d].phase = "send" =>
        \A i, j \in DOMAIN outbox :
            Pair(i, j) /\ j \in work[d].page /\ IsNext(work[d].page, j) => Handled(outbox[i])

(* Only a row is ever sent or applied.                                     *)
RowsOnly ==
    /\ \A k \in DOMAIN down : status[down[k]] # "none"
    /\ \A c \in Commands : effects[c] > 0 => status[c] # "none"

OrderInv ==
    /\ VersionsPast /\ EpochsPast /\ RowsOnly /\ Refuses(up) /\ Refuses(buffered) /\ FailedIsLate
    /\ DownInOrder /\ EffectsInOrder
    /\ \A d \in Dispatchers : EpochReady(work[d].epoch) => PageInOrder(d) /\ SendInOrder(d)

(* What the record and the runner's memory already give.                   *)
Known == RecordInv /\ AppliedIsKnown

\* Commands, pages and queues are what they should be.
LEMMA OrderTypes ==
    ASSUME Known
    PROVE  /\ outbox \in Seq(Commands) /\ DOMAIN outbox \subseteq Nat
           /\ \A i \in DOMAIN outbox : outbox[i] \in Commands
           /\ \A i, j \in DOMAIN outbox : outbox[i] = outbox[j] => i = j
           /\ \A i \in DOMAIN outbox : status[outbox[i]] \in {"pending", "dispatched", "failed"}
           /\ status \in [Commands -> {"none", "pending", "dispatched", "failed"}]
           /\ version \in [Commands -> Nat] /\ effects \in [Commands -> Nat]
           /\ lease \in [version : Nat, live : BOOLEAN] /\ runActive \in BOOLEAN
           /\ work \in [Dispatchers -> Calls(DOMAIN outbox)]
           /\ up \in Seq(Acks) /\ buffered \in Seq(Acks) /\ down \in Seq(Commands)
           /\ epoch \in Nat /\ ready \in BOOLEAN
<1>1. TypeOK
      BY DEF Known, RecordInv
<1>2. outbox \in Seq(Commands) /\ DOMAIN outbox = 1..Len(outbox) /\ Len(outbox) \in Nat
      BY <1>1 DEF TypeOK
<1>3. \A i \in DOMAIN outbox : outbox[i] \in Commands /\ i \in Nat
      BY <1>2
<1>4. \A i, j \in DOMAIN outbox : outbox[i] = outbox[j] => i = j
      BY <1>1 DEF TypeOK, IsInjective
<1>5. \A i \in DOMAIN outbox : status[outbox[i]] \in {"pending", "dispatched", "failed"}
  <2> TAKE i \in DOMAIN outbox
  <2>1. outbox[i] \in Range(outbox)
        BY DEF Range
  <2>2. status[outbox[i]] # "none"
        BY <1>1, <2>1 DEF TypeOK
  <2>3. QED
        BY <1>1, <1>3, <2>2 DEF TypeOK
<1>6. version \in [Commands -> 0..MaxLease] /\ lease \in [version : 0..MaxLease, live : BOOLEAN]
      BY <1>1 DEF TypeOK
<1>7. version \in [Commands -> Nat] /\ lease \in [version : Nat, live : BOOLEAN]
      BY <1>6
<1>8. epoch \in Nat
      BY <1>1, OutboxConstants DEF TypeOK
<1>9. QED
      BY <1>1, <1>2, <1>3, <1>4, <1>5, <1>7, <1>8 DEF TypeOK, Calls, Acks

\* A settled control message cannot take effect any more, or has done so.
LEMMA SettledIsHandled ==
    ASSUME Known, OrderInv, NEW i \in DOMAIN outbox,
           Kind[outbox[i]] = "control_message", status[outbox[i]] # "pending"
    PROVE  Reached(outbox[i]) \/ Gone(version[outbox[i]])
<1>1. CASE status[outbox[i]] = "failed"
      BY <1>1 DEF OrderInv, FailedIsLate, Reached
<1>2. CASE status[outbox[i]] = "dispatched"
  <2>1. outbox[i] \in Commands
        BY OrderTypes
  <2>2. effects[outbox[i]] > 0
        BY <1>2, <2>1 DEF Known, RecordInv, AcknowledgedIsApplied
  <2>3. QED
        BY <2>2 DEF Reached
<1>3. QED
      BY <1>1, <1>2, OrderTypes

\* A lease version that has gone does not come back.
LEMMA GoneStays ==
    ASSUME Known, NEW v \in Nat, v <= lease.version, Gone(v),
           UNCHANGED <<lease, runActive>> \/ RotateLease \/ LoseLease \/ RunEndsOnServer \/ Reconnect
    PROVE  Gone(v)'
<1>1. lease \in [version : Nat, live : BOOLEAN]
      BY OrderTypes
<1>2. CASE RotateLease
  <2>1. lease'.version = lease.version + 1 /\ lease.version \in Nat
        BY <1>1, <1>2 DEF RotateLease
  <2>2. lease'.version # v
        BY <2>1
  <2>3. QED
        BY <2>2 DEF Gone
<1>3. CASE LoseLease
  <2>1. lease'.live = FALSE
        BY <1>1, <1>3 DEF LoseLease
  <2>2. QED
        BY <2>1 DEF Gone
<1>4. CASE RunEndsOnServer \/ Reconnect \/ UNCHANGED <<lease, runActive>>
      BY <1>4 DEF Gone, RunEndsOnServer, Reconnect
<1>5. QED
      BY <1>2, <1>3, <1>4

(* A step that leaves rows, socket and effects alone.                      *)
Still == UNCHANGED <<outbox, version, status, work, down, up, buffered, effects, epoch, ready>>

\* Leases that move on, and runs that end, only make things later.
LEMMA LaterKeepsOrder ==
    ASSUME Known, OrderInv, Still,
           \/ UNCHANGED <<lease, runActive>> \/ RotateLease \/ LoseLease \/ RunEndsOnServer,
           assignment' = assignment \/ assignment' # "provider"
    PROVE  OrderInv'
<1>1. /\ \A c : Reached(c) => Reached(c)'
      /\ \A c : Handled(c) => Handled(c)'
      /\ assignment # "provider" => assignment' # "provider"
      BY DEF Still, Reached, Handled, Queued
<1>2. \A i \in DOMAIN outbox : Gone(version[outbox[i]]) => Gone(version[outbox[i]])'
  <2> SUFFICES ASSUME NEW i \in DOMAIN outbox, Gone(version[outbox[i]])
               PROVE  Gone(version[outbox[i]])'
      OBVIOUS
  <2>1. version[outbox[i]] \in Nat /\ version[outbox[i]] <= lease.version
        BY OrderTypes DEF OrderInv, VersionsPast
  <2>2. QED
        BY <2>1, GoneStays DEF Still, Gone
<1>3. \A i, j : Pair(i, j)' <=> Pair(i, j)
      BY DEF Still, Pair
<1>4. VersionsPast'
  <2>1. lease.version \in Nat /\ lease'.version >= lease.version
        BY OrderTypes DEF RotateLease, LoseLease, RunEndsOnServer
  <2>2. \A i \in DOMAIN outbox : version[outbox[i]] \in Nat
        BY OrderTypes
  <2>3. lease'.version \in Nat
        BY <2>1, OrderTypes DEF RotateLease, LoseLease, RunEndsOnServer
  <2>4. QED
        BY <2>1, <2>2, <2>3 DEF OrderInv, VersionsPast, Still
<1>5. EpochsPast' /\ RowsOnly' /\ Refuses(up)' /\ Refuses(buffered)' /\ FailedIsLate'
      BY <1>1, <1>2 DEF OrderInv, EpochsPast, RowsOnly, Refuses, FailedIsLate, Still
<1>6. DownInOrder' /\ EffectsInOrder'
      BY <1>1, <1>3 DEF OrderInv, DownInOrder, EffectsInOrder, Still
<1>7. ASSUME NEW d \in Dispatchers, EpochReady(work[d].epoch)'
      PROVE  PageInOrder(d)' /\ SendInOrder(d)'
  <2>1. PageInOrder(d) /\ SendInOrder(d)
        BY <1>7 DEF OrderInv, EpochReady, Still
  <2>2. QED
        BY <1>1, <1>2, <1>3, <2>1 DEF PageInOrder, SendInOrder, Still, IsNext
<1>8. QED
      BY <1>4, <1>5, <1>6, <1>7 DEF OrderInv

\* A new row is the youngest and nothing of it is on its way.
LEMMA EnqueueKeepsOrder ==
    ASSUME Known, OrderInv, NEW x \in Commands, Enqueue(x)
    PROVE  OrderInv'
<1> DEFINE n == Len(outbox) + 1
<1>1. /\ status[x] = "none" /\ outbox' = Append(outbox, x)
      /\ status' = [status EXCEPT ![x] = "pending"]
      /\ version' = [version EXCEPT ![x] = lease.version]
      /\ UNCHANGED <<lease, runActive, work, down, up, buffered, effects, assignment, epoch, ready>>
      BY DEF Enqueue, linkVars, runnerVars
<1>2. /\ DOMAIN outbox = 1..Len(outbox) /\ Len(outbox) \in Nat /\ DOMAIN outbox' = 1..n
      /\ outbox'[n] = x /\ \A i \in DOMAIN outbox : outbox'[i] = outbox[i]
  <2>1. outbox \in Seq(Commands)
        BY OrderTypes
  <2>2. QED
        BY <1>1, <2>1
<1>3. \A i \in DOMAIN outbox : /\ outbox[i] # x /\ outbox[i] \in Commands
                               /\ version'[outbox[i]] = version[outbox[i]]
                               /\ status'[outbox[i]] = status[outbox[i]]
  <2> TAKE i \in DOMAIN outbox
  <2>1. outbox[i] \in Commands /\ outbox[i] # x
        BY <1>1, OrderTypes
  <2>2. QED
        BY <1>1, <2>1, OrderTypes
<1>4. version'[x] = lease.version /\ status'[x] = "pending"
      BY <1>1, OrderTypes
<1>5. \A i, j : Pair(i, j)' => i \in DOMAIN outbox /\ (Pair(i, j) \/ j = n)
  <2> SUFFICES ASSUME NEW i, NEW j, Pair(i, j)'
               PROVE  i \in DOMAIN outbox /\ (Pair(i, j) \/ j = n)
      OBVIOUS
  <2>1. i \in 1..n /\ j \in 1..n /\ i < j
        BY <1>2 DEF Pair
  <2>2. i \in DOMAIN outbox /\ (j \in DOMAIN outbox \/ j = n)
        BY <1>2, <2>1
  <2>3. QED
        BY <1>2, <1>3, <2>1, <2>2 DEF Pair
<1>6. effects[x] = 0 /\ \A k \in DOMAIN down : down[k] # x
  <2>1. ~(effects[x] > 0) /\ effects[x] \in Nat
        BY <1>1, OrderTypes DEF OrderInv, RowsOnly
  <2>2. QED
        BY <1>1, <2>1 DEF OrderInv, RowsOnly
<1>7. VersionsPast'
  <2>1. lease.version \in Nat
        BY OrderTypes
  <2>2. QED
        BY <1>1, <1>2, <1>3, <1>4, <2>1 DEF OrderInv, VersionsPast
<1>8. EpochsPast' /\ Refuses(up)' /\ Refuses(buffered)'
      BY <1>1 DEF OrderInv, EpochsPast, Refuses
<1>9. RowsOnly'
  <2>1. \A c \in Commands : status[c] # "none" => status'[c] # "none"
        BY <1>1, OrderTypes
  <2>2. \A k \in DOMAIN down : down[k] \in Commands
        BY OrderTypes
  <2>3. QED
        BY <1>1, <2>1, <2>2 DEF OrderInv, RowsOnly
<1>10. FailedIsLate'
      BY <1>1, <1>2, <1>3, <1>4 DEF OrderInv, FailedIsLate, Gone
<1>11. DownInOrder' /\ EffectsInOrder'
  <2> SUFFICES ASSUME NEW i, NEW j, Pair(i, j)'
               PROVE  /\ \A k \in DOMAIN down : down[k] = outbox'[j] =>
                            Reached(outbox[i]) \/ \E l \in DOMAIN down : l < k /\ down[l] = outbox[i]
                      /\ effects[outbox'[j]] > 0 => Reached(outbox[i])
      BY <1>1, <1>2, <1>5 DEF DownInOrder, EffectsInOrder, Reached
  <2>1. CASE Pair(i, j)
    <3>1. i \in DOMAIN outbox /\ j \in DOMAIN outbox /\ outbox'[j] = outbox[j]
          BY <1>2, <2>1 DEF Pair
    <3>2. QED
          BY <2>1, <3>1 DEF OrderInv, DownInOrder, EffectsInOrder
  <2>2. CASE j = n
        BY <1>2, <1>6, <2>2
  <2>3. QED
        BY <1>5, <2>1, <2>2
<1>12. ASSUME NEW d \in Dispatchers, EpochReady(work[d].epoch)'
       PROVE  PageInOrder(d)' /\ SendInOrder(d)'
  <2>1. PageInOrder(d) /\ SendInOrder(d)
        BY <1>1, <1>12 DEF OrderInv, EpochReady
  <2>2. work[d].page \subseteq DOMAIN outbox
    <3>1. work[d] \in Calls(DOMAIN outbox)
          BY OrderTypes
    <3>2. QED
          BY <3>1 DEF Calls
  <2>3. ASSUME NEW i, NEW j, Pair(i, j)', j \in work[d].page
        PROVE  /\ Pair(i, j) /\ i \in DOMAIN outbox /\ j \in DOMAIN outbox
               /\ outbox'[i] = outbox[i] /\ version'[outbox[i]] = version[outbox[i]]
    <3>1. j # n
          BY <1>2, <2>2, <2>3
    <3>2. QED
          BY <1>2, <1>3, <1>5, <2>2, <2>3, <3>1
  <2>4. \A c : Handled(c)' <=> Handled(c)
        BY <1>1 DEF Handled, Reached, Queued
  <2>5. \A v : Gone(v)' <=> Gone(v)
        BY <1>1 DEF Gone
  <2>6. PageInOrder(d)'
    <3> SUFFICES ASSUME NEW i, NEW j, Pair(i, j)', j \in work[d].page, i \notin work[d].page
                 PROVE  Handled(outbox[i]) \/ Gone(version[outbox[i]])
        BY <1>1, <2>3, <2>4, <2>5 DEF PageInOrder, Gone
    <3>1. QED
          BY <2>1, <2>3 DEF PageInOrder
  <2>7. SendInOrder(d)'
    <3> SUFFICES ASSUME work[d].phase = "send", NEW i, NEW j, Pair(i, j)', j \in work[d].page,
                        IsNext(work[d].page, j)
                 PROVE  Handled(outbox[i])
        BY <1>1, <2>3, <2>4 DEF SendInOrder, IsNext
    <3>1. QED
          BY <2>1, <2>3 DEF SendInOrder
  <2>8. QED
        BY <2>6, <2>7
<1>13. QED
      BY <1>7, <1>8, <1>9, <1>10, <1>11, <1>12 DEF OrderInv

\* A page holds the oldest pending rows.
LEMMA PageIsOldest ==
    ASSUME Known, NEW i \in DOMAIN outbox, NEW j \in Page, i < j, i \notin Page
    PROVE  status[outbox[i]] # "pending"
<1> SUFFICES ASSUME i \in Pending
             PROVE  FALSE
    BY DEF Pending
<1> DEFINE A == {k \in Pending : k <= i}
           B == {k \in Pending : k <= j}
<1>1. IsFiniteSet(DOMAIN outbox) /\ DOMAIN outbox \subseteq Nat
  <2>1. outbox \in Seq(Commands)
        BY OrderTypes
  <2>2. DOMAIN outbox = 1..Len(outbox) /\ Len(outbox) \in Nat
        BY <2>1
  <2>3. IsFiniteSet(1..Len(outbox))
        BY <2>2, FS_Interval
  <2>4. QED
        BY <2>2, <2>3
<1>2. Pending \subseteq DOMAIN outbox /\ j \in Pending /\ Cardinality(B) <= PageSize
      BY DEF Pending, Page
<1>3. A \subseteq B /\ B \subseteq DOMAIN outbox
  <2>1. \A k \in Pending : k \in Nat
        BY <1>1, <1>2
  <2>2. i \in Nat /\ j \in Nat
        BY <1>1, <1>2
  <2>3. QED
        BY <1>2, <2>1, <2>2
<1>4. IsFiniteSet(B)
      BY <1>1, <1>3, FS_Subset
<1>5. IsFiniteSet(A) /\ Cardinality(A) <= Cardinality(B)
      BY <1>3, <1>4, FS_Subset
<1>6. Cardinality(A) \in Nat /\ Cardinality(B) \in Nat
      BY <1>4, <1>5, FS_CardinalityType
<1>7. Cardinality(A) <= PageSize
      BY <1>2, <1>5, <1>6, OutboxConstants
<1>8. QED
      BY <1>7 DEF Page

\* A step of dispatch d keeps the order if d itself does.
LEMMA DispatchKeepsOrder ==
    ASSUME Known, OrderInv, NEW d \in Dispatchers,
           UNCHANGED <<outbox, version, lease, runActive, effects, assignment, up, buffered,
                       epoch, ready>>,
           \A e \in Dispatchers \ {d} : work'[e] = work[e],
           \A l \in DOMAIN down : l \in DOMAIN down' /\ down'[l] = down[l],
           FailedIsLate', DownInOrder', RowsOnly', work'[d].epoch <= epoch,
           EpochReady(work'[d].epoch) => PageInOrder(d)' /\ SendInOrder(d)'
    PROVE  OrderInv'
<1>1. VersionsPast' /\ Refuses(up)' /\ Refuses(buffered)'
      BY DEF OrderInv, VersionsPast, Refuses
<1>2. EpochsPast'
      BY DEF OrderInv, EpochsPast
<1>3. \A i, j : Pair(i, j)' <=> Pair(i, j)
      BY DEF Pair
<1>4. EffectsInOrder'
      BY <1>3 DEF OrderInv, EffectsInOrder, Reached
<1>5. \A c : Handled(c) => Handled(c)'
      BY DEF Handled, Reached, Queued
<1>6. ASSUME NEW e \in Dispatchers, EpochReady(work[e].epoch)'
      PROVE  PageInOrder(e)' /\ SendInOrder(e)'
  <2>1. CASE e = d
        BY <1>6, <2>1 DEF EpochReady
  <2>2. CASE e # d
    <3>1. work'[e] = work[e] /\ PageInOrder(e) /\ SendInOrder(e)
          BY <1>6, <2>2 DEF OrderInv, EpochReady
    <3>2. QED
          BY <1>3, <1>5, <3>1 DEF PageInOrder, SendInOrder, Gone, IsNext
  <2>3. QED
        BY <2>1, <2>2
<1>7. QED
      BY <1>1, <1>2, <1>4, <1>6 DEF OrderInv

\* A dispatch that ends, or that fetches a page, keeps the order: what is older
\* than a row of the page and not in it has been settled.
LEMMA FetchKeepsOrder ==
    ASSUME Known, OrderInv, NEW d \in Dispatchers,
           UNCHANGED <<outbox, version, status, lease, runActive, effects, assignment, up, buffered,
                       down, epoch, ready>>,
           NEW call, work' = [work EXCEPT ![d] = call],
           call.epoch <= epoch, call.phase # "send", call.page \in {{}, Page}
    PROVE  OrderInv'
<1>1. work'[d] = call /\ \A e \in Dispatchers \ {d} : work'[e] = work[e]
      BY OrderTypes
<1>2. FailedIsLate' /\ RowsOnly'
      BY DEF OrderInv, FailedIsLate, RowsOnly, Gone
<1>3. DownInOrder'
      BY DEF OrderInv, DownInOrder, Pair, Reached
<1>4. SendInOrder(d)'
      BY <1>1 DEF SendInOrder
<1>5. PageInOrder(d)'
  <2> SUFFICES ASSUME NEW i, NEW j, Pair(i, j), j \in call.page, i \notin call.page
               PROVE  Handled(outbox[i]) \/ Gone(version[outbox[i]])
      BY <1>1 DEF PageInOrder, Pair, Handled, Reached, Queued, Gone
  <2>1. /\ call.page = Page /\ i \in DOMAIN outbox /\ j \in Page /\ i < j /\ i \notin Page
        /\ Kind[outbox[i]] = "control_message"
        BY DEF Pair
  <2>2. status[outbox[i]] # "pending"
        BY <2>1, PageIsOldest
  <2>3. QED
        BY <2>1, <2>2, SettledIsHandled DEF Handled
<1>6. \A l \in DOMAIN down : l \in DOMAIN down' /\ down'[l] = down[l]
      OBVIOUS
<1>7. QED
      BY <1>1, <1>2, <1>3, <1>4, <1>5, <1>6, DispatchKeepsOrder

\* A control message is settled as failed by a dispatch only when its lease has
\* gone, and sent only when it has not: then everything older of the lease has
\* been sent.
LEMMA CheckKeepsOrder ==
    ASSUME Known, OrderInv, NEW d \in Dispatchers, CheckCommand(d)
    PROVE  OrderInv'
<1>1. /\ work[d].phase = "check"
      /\ UNCHANGED <<outbox, version, lease, runActive, effects, assignment, up, buffered, down,
                     epoch, ready>>
      BY DEF CheckCommand, linkVars, runnerVars
<1>2. PICK p \in work[d].page :
        /\ IsNext(work[d].page, p)
        /\ IF ~EpochReady(work[d].epoch)
           THEN work' = [work EXCEPT ![d] = Idle] /\ UNCHANGED status
           ELSE IF Kind[outbox[p]] = "control_message" /\ ~LeaseCurrent(outbox[p])
           THEN /\ Settle(outbox[p], "failed")
                /\ work' = [work EXCEPT ![d].page = @ \ {p}]
           ELSE work' = [work EXCEPT ![d].phase = "send"] /\ UNCHANGED status
      BY DEF CheckCommand
<1>3. work[d] \in Calls(DOMAIN outbox)
      BY OrderTypes
<1>4. /\ p \in DOMAIN outbox /\ work[d].page \subseteq DOMAIN outbox
      /\ work[d].epoch <= epoch /\ outbox[p] \in Commands
  <2>1. work[d].page \subseteq DOMAIN outbox
        BY <1>3 DEF Calls
  <2>2. work[d].epoch <= epoch
        BY DEF OrderInv, EpochsPast
  <2>3. QED
        BY <1>2, <2>1, <2>2, OrderTypes
<1>5. \A l \in DOMAIN down : l \in DOMAIN down' /\ down'[l] = down[l]
      BY <1>1
<1>6. DownInOrder'
      BY <1>1 DEF OrderInv, DownInOrder, Pair, Reached
<1>7. CASE ~EpochReady(work[d].epoch)
  <2>1. /\ work' = [work EXCEPT ![d] = Idle] /\ status' = status
        /\ Idle.epoch <= epoch /\ Idle.phase # "send" /\ Idle.page \in {{}, Page}
    <3>1. epoch \in Nat
          BY OrderTypes
    <3>2. QED
          BY <1>2, <1>7, <3>1 DEF Idle
  <2>2. QED
        BY <1>1, <2>1, FetchKeepsOrder
<1>8. CASE EpochReady(work[d].epoch) /\ Kind[outbox[p]] = "control_message" /\ ~LeaseCurrent(outbox[p])
  <2>1. Settle(outbox[p], "failed") /\ work' = [work EXCEPT ![d].page = @ \ {p}]
        BY <1>2, <1>8
  <2>2. PageInOrder(d)
        BY <1>8 DEF OrderInv
  <2>3. /\ work'[d] = [work[d] EXCEPT !.page = @ \ {p}]
        /\ \A e \in Dispatchers \ {d} : work'[e] = work[e]
        BY <2>1, OrderTypes
  <2>4. work'[d].page = work[d].page \ {p} /\ work'[d].phase = "check" /\ work'[d].epoch = work[d].epoch
        BY <1>1, <1>3, <2>3 DEF Calls
  <2>5. status[outbox[p]] = "pending" => Gone(version[outbox[p]])
        BY <1>8 DEF LeaseCurrent, Gone
  <2>6. \A c \in Commands : status'[c] = IF c = outbox[p] /\ status[c] = "pending" THEN "failed"
                                         ELSE status[c]
        BY <2>1, OrderTypes DEF Settle
  <2>7. RowsOnly'
    <3>1. \A k \in DOMAIN down : down[k] \in Commands
          BY OrderTypes
    <3>2. \A c \in Commands : status'[c] # "none" <=> status[c] # "none"
          BY <2>6
    <3>3. QED
          BY <1>1, <3>1, <3>2 DEF OrderInv, RowsOnly
  <2>8. FailedIsLate'
    <3> SUFFICES ASSUME NEW i \in DOMAIN outbox, Kind[outbox[i]] = "control_message",
                        status'[outbox[i]] = "failed"
                 PROVE  Gone(version[outbox[i]]) \/ assignment # "provider"
        BY <1>1 DEF FailedIsLate, Gone
    <3>1. outbox[i] \in Commands
          BY OrderTypes
    <3>2. CASE status[outbox[i]] = "failed"
          BY <3>2 DEF OrderInv, FailedIsLate
    <3>3. CASE status[outbox[i]] # "failed"
          BY <2>5, <2>6, <3>1, <3>3
    <3>4. QED
          BY <3>2, <3>3
  <2>9. Handled(outbox[p]) \/ Gone(version[outbox[p]])
        BY <1>4, <1>8, <2>5, SettledIsHandled DEF Handled
  <2>10. PageInOrder(d)'
    <3> SUFFICES ASSUME NEW i, NEW j, Pair(i, j), j \in work[d].page, i \notin work[d].page \/ i = p
                 PROVE  Handled(outbox[i]) \/ Gone(version[outbox[i]])
        BY <1>1, <2>4 DEF PageInOrder, Pair, Handled, Reached, Queued, Gone
    <3>1. QED
          BY <2>2, <2>9 DEF PageInOrder, Pair
  <2>11. SendInOrder(d)'
        BY <2>4 DEF SendInOrder
  <2>12. work'[d].epoch <= epoch
        BY <1>4, <2>4
  <2>13. QED
        BY <1>1, <1>5, <1>6, <2>3, <2>7, <2>8, <2>10, <2>11, <2>12, DispatchKeepsOrder
<1>9. CASE EpochReady(work[d].epoch) /\ ~(Kind[outbox[p]] = "control_message" /\ ~LeaseCurrent(outbox[p]))
  <2>1. work' = [work EXCEPT ![d].phase = "send"] /\ status' = status
        BY <1>2, <1>9
  <2>2. PageInOrder(d)
        BY <1>9 DEF OrderInv
  <2>3. /\ work'[d] = [work[d] EXCEPT !.phase = "send"]
        /\ \A e \in Dispatchers \ {d} : work'[e] = work[e]
        BY <2>1, OrderTypes
  <2>4. work'[d].page = work[d].page /\ work'[d].epoch = work[d].epoch
        BY <1>3, <2>3 DEF Calls
  <2>5. FailedIsLate' /\ RowsOnly'
        BY <1>1, <2>1 DEF OrderInv, FailedIsLate, RowsOnly, Gone
  <2>6. PageInOrder(d)'
        BY <1>1, <2>2, <2>4 DEF PageInOrder, Pair, Handled, Reached, Queued, Gone
  <2>7. SendInOrder(d)'
    <3> SUFFICES ASSUME NEW i, NEW j, Pair(i, j), j \in work[d].page, IsNext(work[d].page, j)
                 PROVE  Handled(outbox[i])
        BY <1>1, <2>4 DEF SendInOrder, Pair, Handled, Reached, Queued, IsNext
    <3>1. j = p
      <4>1. j \in Nat /\ p \in Nat /\ j <= p /\ p <= j
            BY <1>2, <1>4, OrderTypes DEF IsNext
      <4>2. QED
            BY <4>1
    <3>2. i \notin work[d].page
      <4>1. i \in Nat /\ j \in Nat /\ i < j
            BY OrderTypes DEF Pair
      <4>2. QED
            BY <4>1 DEF IsNext
    <3>3. ~Gone(version[outbox[i]])
          BY <1>9, <3>1 DEF LeaseCurrent, Gone, Pair
    <3>4. QED
          BY <2>2, <3>2, <3>3 DEF PageInOrder, Pair
  <2>8. work'[d].epoch <= epoch
        BY <1>4, <2>4
  <2>9. QED
        BY <1>1, <1>5, <1>6, <2>3, <2>5, <2>6, <2>7, <2>8, DispatchKeepsOrder
<1>10. QED
      BY <1>7, <1>8, <1>9

\* A command goes to the end of the socket, behind everything older of its lease.
LEMMA SendKeepsOrder ==
    ASSUME Known, OrderInv, NEW d \in Dispatchers, SendCommand(d)
    PROVE  OrderInv'
<1>1. /\ work[d].phase = "send"
      /\ UNCHANGED <<outbox, version, status, lease, runActive, effects, assignment, up, buffered,
                     epoch, ready>>
      BY DEF SendCommand, serverVars, runnerVars
<1>2. work[d] \in Calls(DOMAIN outbox) /\ work[d].epoch <= epoch
      BY OrderTypes DEF OrderInv, EpochsPast
<1>3. CASE ~EpochReady(work[d].epoch)
  <2>1. /\ work' = [work EXCEPT ![d] = Idle] /\ down' = down
        /\ Idle.epoch <= epoch /\ Idle.phase # "send" /\ Idle.page \in {{}, Page}
    <3>1. epoch \in Nat
          BY OrderTypes
    <3>2. QED
          BY <1>3, <3>1 DEF Idle, SendCommand
  <2>2. QED
        BY <1>1, <2>1, FetchKeepsOrder
<1>4. CASE EpochReady(work[d].epoch)
  <2>1. PICK p \in work[d].page :
          /\ IsNext(work[d].page, p) /\ down' = Append(down, outbox[p])
          /\ work' = [work EXCEPT ![d].phase = "check", ![d].sent = TRUE, ![d].page = @ \ {p}]
        BY <1>4 DEF SendCommand
  <2>2. p \in DOMAIN outbox /\ outbox[p] \in Commands
    <3>1. p \in DOMAIN outbox
          BY <1>2 DEF Calls
    <3>2. QED
          BY <3>1, OrderTypes
  <2>3. /\ Len(down) \in Nat /\ DOMAIN down = 1..Len(down) /\ DOMAIN down' = 1..(Len(down) + 1)
        /\ \A l \in DOMAIN down : down'[l] = down[l]
        /\ down'[Len(down) + 1] = outbox[p]
    <3>1. down \in Seq(Commands)
          BY OrderTypes
    <3>2. QED
          BY <2>1, <2>2, <3>1
  <2>4. /\ work'[d] = [work[d] EXCEPT !.phase = "check", !.sent = TRUE, !.page = @ \ {p}]
        /\ \A e \in Dispatchers \ {d} : work'[e] = work[e]
        BY <2>1, OrderTypes
  <2>5. work'[d].page = work[d].page \ {p} /\ work'[d].phase = "check" /\ work'[d].epoch = work[d].epoch
        BY <1>2, <2>4 DEF Calls
  <2>6. PageInOrder(d) /\ SendInOrder(d)
        BY <1>4 DEF OrderInv
  <2>7. \A l \in DOMAIN down : l \in DOMAIN down' /\ down'[l] = down[l]
        BY <2>3
  <2>8. \A c : Handled(c) => Handled(c)'
        BY <1>1, <2>7 DEF Handled, Reached, Queued
  <2>9. FailedIsLate' /\ RowsOnly'
    <3>1. status[outbox[p]] # "none"
          BY <2>2, OrderTypes
    <3>2. \A l \in DOMAIN down' : l \in DOMAIN down \/ l = Len(down) + 1
          BY <2>3
    <3>3. QED
          BY <1>1, <2>3, <3>1, <3>2 DEF OrderInv, FailedIsLate, RowsOnly, Gone
  <2>10. DownInOrder'
    <3> SUFFICES ASSUME NEW i, NEW j, Pair(i, j), NEW k \in DOMAIN down', down'[k] = outbox[j]
                 PROVE  Reached(outbox[i]) \/ \E l \in DOMAIN down' : l < k /\ down'[l] = outbox[i]
        BY <1>1 DEF DownInOrder, Pair, Reached
    <3>1. CASE k \in DOMAIN down
      <4>1. Reached(outbox[i]) \/ \E l \in DOMAIN down : l < k /\ down[l] = outbox[i]
            BY <2>3, <3>1 DEF OrderInv, DownInOrder, Pair
      <4>2. QED
            BY <2>7, <4>1
    <3>2. CASE k = Len(down) + 1
      <4>1. j = p
            BY <2>2, <2>3, <3>2, OrderTypes DEF Pair
      <4>2. Handled(outbox[i])
            BY <1>1, <2>1, <2>6, <4>1 DEF SendInOrder, Pair
      <4>3. CASE Queued(outbox[i])
        <5>1. PICK l \in DOMAIN down : down[l] = outbox[i]
              BY <4>3 DEF Queued
        <5>2. l < k /\ l \in DOMAIN down' /\ down'[l] = outbox[i]
              BY <2>3, <3>2, <5>1
        <5>3. QED
              BY <5>2
      <4>4. QED
            BY <4>2, <4>3 DEF Handled
    <3>3. QED
          BY <2>3, <3>1, <3>2
  <2>11. PageInOrder(d)'
    <3>1. Handled(outbox[p])'
      <4>1. Len(down) + 1 \in DOMAIN down'
            BY <2>3
      <4>2. QED
            BY <1>1, <2>3, <4>1 DEF Handled, Queued
    <3> SUFFICES ASSUME NEW i, NEW j, Pair(i, j), j \in work[d].page, i \notin work[d].page \/ i = p
                 PROVE  Handled(outbox[i])' \/ Gone(version[outbox[i]])
        BY <1>1, <2>5 DEF PageInOrder, Pair, Gone
    <3>2. CASE i = p
          BY <1>1, <3>1, <3>2
    <3>3. CASE i \notin work[d].page
      <4>1. Handled(outbox[i]) \/ Gone(version[outbox[i]])
            BY <2>6, <3>3 DEF PageInOrder, Pair
      <4>2. QED
            BY <1>1, <2>8, <4>1
    <3>4. QED
          BY <3>2, <3>3
  <2>12. SendInOrder(d)'
        BY <2>5 DEF SendInOrder
  <2>13. work'[d].epoch <= epoch
        BY <1>2, <2>5
  <2>14. QED
        BY <1>1, <2>4, <2>7, <2>9, <2>10, <2>11, <2>12, <2>13, DispatchKeepsOrder
<1>5. QED
      BY <1>3, <1>4

\* An acknowledgment fails a control message only when the provider has ended.
LEMMA AckKeepsOrder ==
    ASSUME Known, OrderInv, HandleAck
    PROVE  OrderInv'
<1> DEFINE a == Head(up)
<1>1. /\ up # <<>> /\ up' = Tail(up)
      /\ Settle(a.command, IF a.applied THEN "dispatched" ELSE "failed")
      /\ UNCHANGED <<outbox, version, lease, runActive, work, epoch, ready, down, buffered,
                     assignment, effects>>
      BY DEF HandleAck, runnerVars
<1>2. /\ a = up[1] /\ 1 \in DOMAIN up
      /\ \A k \in DOMAIN Tail(up) : k + 1 \in DOMAIN up /\ Tail(up)[k] = up[k + 1]
  <2>1. up \in Seq(Acks)
        BY OrderTypes
  <2>2. QED
        BY <1>1, <2>1
<1> HIDE DEF a
<1>3. Refuses(up)' /\ Refuses(buffered)'
      BY <1>1, <1>2 DEF OrderInv, Refuses
<1>4. \A c \in Commands :
         \/ status'[c] = status[c]
         \/ /\ status'[c] # "none" /\ status[c] # "none"
            /\ status'[c] = "failed" => c = a.command /\ ~a.applied
      BY <1>1, OrderTypes DEF Settle
<1>5. RowsOnly'
  <2>1. \A k \in DOMAIN down : down[k] \in Commands
        BY OrderTypes
  <2>2. \A c \in Commands : status[c] # "none" => status'[c] # "none"
        BY <1>4
  <2>3. QED
        BY <1>1, <2>1, <2>2 DEF OrderInv, RowsOnly
<1>6. FailedIsLate'
  <2> SUFFICES ASSUME NEW i \in DOMAIN outbox, Kind[outbox[i]] = "control_message",
                      status'[outbox[i]] = "failed"
               PROVE  Gone(version[outbox[i]]) \/ assignment # "provider"
      BY <1>1 DEF FailedIsLate, Gone
  <2>1. outbox[i] \in Commands
        BY OrderTypes
  <2>2. CASE status[outbox[i]] = "failed"
        BY <2>2 DEF OrderInv, FailedIsLate
  <2>3. CASE status[outbox[i]] # "failed"
    <3>1. outbox[i] = a.command /\ ~a.applied
          BY <1>4, <2>1, <2>3
    <3>2. QED
          BY <1>2, <3>1 DEF OrderInv, Refuses
  <2>4. QED
        BY <2>2, <2>3
<1>7. VersionsPast' /\ EpochsPast' /\ DownInOrder' /\ EffectsInOrder'
      BY <1>1 DEF OrderInv, VersionsPast, EpochsPast, DownInOrder, EffectsInOrder, Pair, Reached
<1>8. ASSUME NEW d \in Dispatchers, EpochReady(work[d].epoch)'
      PROVE  PageInOrder(d)' /\ SendInOrder(d)'
  <2>1. PageInOrder(d) /\ SendInOrder(d)
        BY <1>1, <1>8 DEF OrderInv, EpochReady
  <2>2. QED
        BY <1>1, <2>1 DEF PageInOrder, SendInOrder, Pair, Handled, Reached, Queued, Gone, IsNext
<1>9. QED
      BY <1>3, <1>5, <1>6, <1>7, <1>8 DEF OrderInv

\* What the runner's step does to the command it reads: only its effects grow, and
\* a control message has then had its effect or comes too late for one.
LEMMA ReceivedIsReached ==
    ASSUME Known, ReceiveCommand
    PROVE  /\ Head(down) = down[1] /\ 1 \in DOMAIN down /\ Head(down) \in Commands
           /\ \A k \in DOMAIN down' : k + 1 \in DOMAIN down /\ down'[k] = down[k + 1]
           /\ \A k \in DOMAIN down : k = 1 \/ (k - 1 \in DOMAIN down' /\ down'[k - 1] = down[k])
           /\ \A x \in Commands : effects'[x] >= effects[x]
           /\ \A x \in Commands \ {Head(down)} : effects'[x] = effects[x]
           /\ Kind[Head(down)] = "control_message" =>
                 effects'[Head(down)] > 0 \/ assignment' # "provider"
           /\ effects'[Head(down)] > effects[Head(down)] =>
                 /\ effects[Head(down)] = 0
                 /\ Kind[Head(down)] = "control_message" => assignment = "provider"
<1> DEFINE c == Head(down)
<1>1. down \in Seq(Commands) /\ effects \in [Commands -> Nat] /\ down # <<>> /\ down' = Tail(down)
      BY OrderTypes DEF ReceiveCommand
<1>2. c = down[1] /\ 1 \in DOMAIN down /\ c \in Commands
      BY <1>1
<1>3. /\ \A k \in DOMAIN down' : k + 1 \in DOMAIN down /\ down'[k] = down[k + 1]
      /\ \A k \in DOMAIN down : k = 1 \/ (k - 1 \in DOMAIN down' /\ down'[k - 1] = down[k])
      BY <1>1
<1>4. /\ effects' = IF ~Duplicate(c) /\ Reaches(c) THEN [effects EXCEPT ![c] = @ + 1] ELSE effects
      /\ assignment' = assignment
      BY DEF ReceiveCommand
<1>5. Duplicate(c) /\ Kind[c] = "control_message" => effects[c] > 0
      BY DEF Duplicate, Known, RecordInv, Confirms
<1>6. Kind[c] = "control_message" => (Reaches(c) <=> assignment = "provider")
      BY DEF Reaches
<1>7. ~Duplicate(c) /\ Reaches(c) => effects[c] = 0
      BY <1>2 DEF Known, AppliedIsKnown, Duplicate, Reaches, Held
<1> HIDE DEF c
<1>8. CASE ~Duplicate(c) /\ Reaches(c)
  <2>1. effects' = [effects EXCEPT ![c] = @ + 1]
        BY <1>4, <1>8
  <2>2. /\ effects'[c] = effects[c] + 1 /\ effects[c] \in Nat
        /\ \A x \in Commands \ {c} : effects'[x] = effects[x]
        BY <1>1, <1>2, <2>1
  <2>3. /\ \A x \in Commands : effects'[x] >= effects[x]
        /\ effects'[c] > 0
    <3>1. effects'[c] >= effects[c] /\ effects'[c] > 0
          BY <2>2
    <3>2. \A x \in Commands \ {c} : effects'[x] >= effects[x]
          BY <1>1, <2>2
    <3>3. QED
          BY <3>1, <3>2
  <2>4. QED
        BY <1>2, <1>3, <1>6, <1>7, <1>8, <2>2, <2>3 DEF c
<1>9. CASE ~(~Duplicate(c) /\ Reaches(c))
  <2>1. effects' = effects
        BY <1>4, <1>9
  <2>2. /\ \A x \in Commands : effects'[x] >= effects[x]
        /\ ~(effects'[c] > effects[c])
        BY <1>1, <1>2, <2>1
  <2>3. Kind[c] = "control_message" => effects'[c] > 0 \/ assignment' # "provider"
        BY <1>4, <1>5, <1>6, <1>9, <2>1
  <2>4. QED
        BY <1>2, <1>3, <2>1, <2>2, <2>3 DEF c
<1>10. QED
      BY <1>8, <1>9

\* The runner reads the socket from its front, where nothing older is behind.
LEMMA ReceiveKeepsOrder ==
    ASSUME Known, OrderInv, ReceiveCommand
    PROVE  OrderInv'
<1> DEFINE c == Head(down)
<1>1. /\ up' = Append(up, [command |-> c, applied |-> Duplicate(c) \/ (~Duplicate(c) /\ Reaches(c))])
      /\ UNCHANGED <<outbox, status, version, lease, runActive, work, epoch, ready, buffered, assignment>>
      BY DEF ReceiveCommand, serverVars
<1>2. Kind[c] = "control_message" => (Reaches(c) <=> assignment = "provider")
      BY DEF Reaches
<1>3. /\ c = down[1] /\ 1 \in DOMAIN down /\ c \in Commands
      /\ \A k \in DOMAIN down' : k + 1 \in DOMAIN down /\ down'[k] = down[k + 1]
      /\ \A k \in DOMAIN down : k = 1 \/ (k - 1 \in DOMAIN down' /\ down'[k - 1] = down[k])
      /\ \A x \in Commands : effects'[x] >= effects[x]
      /\ \A x \in Commands \ {c} : effects'[x] = effects[x]
      /\ Kind[c] = "control_message" => effects'[c] > 0 \/ assignment' # "provider"
      BY ReceivedIsReached
<1> HIDE DEF c
<1>4. /\ DOMAIN down \subseteq Nat /\ DOMAIN down' \subseteq Nat
      /\ effects \in [Commands -> Nat] /\ effects' \in [Commands -> Nat]
  <2>1. down \in Seq(Commands) /\ effects \in [Commands -> Nat] /\ down # <<>> /\ down' = Tail(down)
        BY OrderTypes DEF ReceiveCommand
  <2>2. effects' \in [Commands -> Nat]
        BY <2>1, EffectsTyped
  <2>3. QED
        BY <2>1, <2>2
<1>5. \A x \in Commands : Reached(x) => Reached(x)'
      BY <1>1, <1>3, <1>4 DEF Reached
<1>6. \A x \in Commands : Kind[x] = "control_message" /\ Handled(x) => Handled(x)'
  <2> SUFFICES ASSUME NEW x \in Commands, Kind[x] = "control_message", Queued(x)
               PROVE  Handled(x)'
      BY <1>5 DEF Handled
  <2>1. PICK l \in DOMAIN down : down[l] = x
        BY DEF Queued
  <2>2. CASE l = 1
        BY <1>3, <2>1, <2>2 DEF Handled, Reached
  <2>3. CASE l # 1
        BY <1>3, <2>1, <2>3 DEF Handled, Queued
  <2>4. QED
        BY <2>2, <2>3
<1>7. \A i, j : Pair(i, j)' <=> Pair(i, j)
      BY <1>1 DEF Pair
<1>8. \A i \in DOMAIN outbox : outbox[i] \in Commands
      BY OrderTypes
<1>9. VersionsPast' /\ EpochsPast' /\ FailedIsLate' /\ Refuses(buffered)'
      BY <1>1 DEF OrderInv, VersionsPast, EpochsPast, FailedIsLate, Refuses, Gone
<1>10. Refuses(up)'
  <2> DEFINE b == [command |-> c, applied |-> Duplicate(c) \/ (~Duplicate(c) /\ Reaches(c))]
  <2>1. b.command = c /\ (~b.applied => ~Reaches(c))
        OBVIOUS
  <2>2. b \in Acks
        BY <1>3 DEF Acks, Duplicate, Reaches
  <2> HIDE DEF b
  <2>3. \A k \in DOMAIN up' : (k \in DOMAIN up /\ up'[k] = up[k]) \/ up'[k] = b
    <3>1. up \in Seq(Acks) /\ up' = Append(up, b)
          BY <1>1, OrderTypes DEF b
    <3>2. QED
          BY <2>2, <3>1
  <2>4. QED
        BY <1>1, <1>2, <2>1, <2>3 DEF OrderInv, Refuses
<1>11. RowsOnly'
  <2>1. \A k \in DOMAIN down' : status[down'[k]] # "none"
        BY <1>3 DEF OrderInv, RowsOnly
  <2>2. status[c] # "none"
        BY <1>3 DEF OrderInv, RowsOnly
  <2>3. \A x \in Commands : effects'[x] > 0 => status[x] # "none"
        BY <1>3, <2>2 DEF OrderInv, RowsOnly
  <2>4. QED
        BY <1>1, <2>1, <2>3 DEF RowsOnly
<1>12. DownInOrder'
  <2> SUFFICES ASSUME NEW i, NEW j, Pair(i, j), NEW k \in DOMAIN down', down'[k] = outbox[j]
               PROVE  Reached(outbox[i])' \/ \E l \in DOMAIN down' : l < k /\ down'[l] = outbox[i]
      BY <1>1, <1>7 DEF DownInOrder
  <2>1. k + 1 \in DOMAIN down /\ down[k + 1] = outbox[j] /\ k \in Nat
        BY <1>3, <1>4
  <2>2. outbox[i] \in Commands /\ Kind[outbox[i]] = "control_message"
        BY <1>8 DEF Pair
  <2>3. CASE Reached(outbox[i])
        BY <1>1, <1>5, <2>2, <2>3
  <2>4. CASE \E l \in DOMAIN down : l < k + 1 /\ down[l] = outbox[i]
    <3>1. PICK l \in DOMAIN down : l < k + 1 /\ down[l] = outbox[i]
          BY <2>4
    <3>2. CASE l = 1
          BY <1>1, <1>3, <2>2, <3>1, <3>2 DEF Reached
    <3>3. CASE l # 1
      <4>1. l - 1 \in DOMAIN down' /\ down'[l - 1] = outbox[i] /\ l - 1 < k
            BY <1>3, <1>4, <2>1, <3>1, <3>3
      <4>2. QED
            BY <4>1
    <3>4. QED
          BY <3>2, <3>3
  <2>5. QED
        BY <2>1, <2>3, <2>4 DEF OrderInv, DownInOrder, Pair
<1>13. EffectsInOrder'
  <2> SUFFICES ASSUME NEW i, NEW j, Pair(i, j), effects'[outbox[j]] > 0
               PROVE  Reached(outbox[i])'
      BY <1>1, <1>7 DEF EffectsInOrder
  <2>1. outbox[i] \in Commands /\ outbox[j] \in Commands
        BY <1>8 DEF Pair
  <2>2. Reached(outbox[i])
    <3>1. CASE effects[outbox[j]] > 0
          BY <3>1 DEF OrderInv, EffectsInOrder, Pair
    <3>2. CASE ~(effects[outbox[j]] > 0)
      <4>1. down[1] = outbox[j]
            BY <1>3, <2>1, <3>2
      <4>2. Reached(outbox[i]) \/ \E l \in DOMAIN down : l < 1 /\ down[l] = outbox[i]
            BY <1>3, <4>1 DEF OrderInv, DownInOrder, Pair
      <4>3. \A l \in DOMAIN down : ~(l < 1)
        <5>1. down \in Seq(Commands)
              BY OrderTypes
        <5>2. QED
              BY <5>1
      <4>4. QED
            BY <4>2, <4>3
    <3>3. QED
          BY <3>1, <3>2
  <2>3. QED
        BY <1>1, <1>5, <2>1, <2>2
<1>14. ASSUME NEW d \in Dispatchers, EpochReady(work[d].epoch)'
       PROVE  PageInOrder(d)' /\ SendInOrder(d)'
  <2>1. PageInOrder(d) /\ SendInOrder(d)
        BY <1>1, <1>14 DEF OrderInv, EpochReady
  <2>2. \A i, j : Pair(i, j) => /\ outbox[i] \in Commands /\ Kind[outbox[i]] = "control_message"
                                /\ i \in DOMAIN outbox /\ j \in DOMAIN outbox
        BY <1>8 DEF Pair
  <2>3. PageInOrder(d)'
        BY <1>1, <1>6, <1>7, <2>1, <2>2 DEF PageInOrder, Gone
  <2>4. SendInOrder(d)'
        BY <1>1, <1>6, <1>7, <2>1, <2>2 DEF SendInOrder, IsNext
  <2>5. QED
        BY <2>3, <2>4
<1>15. QED
      BY <1>9, <1>10, <1>11, <1>12, <1>13, <1>14 DEF OrderInv

\* A connection that is lost takes its messages with it, and a dispatch of it can
\* send nothing over the next one.
LEMMA LinkKeepsOrder ==
    ASSUME Known, OrderInv, DropLink \/ Reconnect
    PROVE  OrderInv'
<1>1. UNCHANGED <<outbox, version, status, lease, work, assignment, effects>>
      BY DEF DropLink, Reconnect, serverVars
<1>2. \A i \in DOMAIN outbox : Gone(version[outbox[i]]) => Gone(version[outbox[i]])'
      BY <1>1 DEF Gone, DropLink, Reconnect, serverVars
<1>3. up \in Seq(Acks) /\ buffered \in Seq(Acks) /\ epoch \in Nat /\ down \in Seq(Commands)
      BY OrderTypes
<1>4. Refuses(up)' /\ Refuses(buffered)'
  <2>1. CASE DropLink
    <3>1. PICK n \in 0..Len(up), m \in 0..Len(up) :
             up' = SubSeq(up, 1, n) /\ buffered' = SubSeq(up, m + 1, Len(up))
      <4>1. Len(up) \in Nat
            BY <1>3
      <4>2. QED
            BY <2>1, <4>1 DEF DropLink
    <3>2. \A k \in DOMAIN up' : k \in DOMAIN up /\ up'[k] = up[k]
          BY <1>3, <3>1
    <3>3. \A k \in DOMAIN buffered' : k + m \in DOMAIN up /\ buffered'[k] = up[k + m]
          BY <1>3, <3>1
    <3>4. QED
          BY <1>1, <3>2, <3>3 DEF OrderInv, Refuses
  <2>2. CASE Reconnect
        BY <1>1, <2>2 DEF OrderInv, Refuses, Reconnect
  <2>3. QED
        BY <2>1, <2>2
<1>5. down' = <<>> \/ down' = down
      BY DEF DropLink, Reconnect
<1>6. VersionsPast' /\ FailedIsLate' /\ EffectsInOrder'
      BY <1>1, <1>2 DEF OrderInv, VersionsPast, FailedIsLate, EffectsInOrder, Pair, Reached
<1>7. RowsOnly' /\ DownInOrder'
  <2>1. CASE down' = <<>>
        BY <1>1, <2>1 DEF OrderInv, RowsOnly, DownInOrder
  <2>2. CASE down' = down
        BY <1>1, <2>2 DEF OrderInv, RowsOnly, DownInOrder, Pair, Reached
  <2>3. QED
        BY <1>5, <2>1, <2>2
<1>8. \A d \in Dispatchers : work[d].epoch \in Nat /\ work[d].epoch <= epoch
  <2>1. work \in [Dispatchers -> Calls(DOMAIN outbox)]
        BY OrderTypes
  <2>2. \A d \in Dispatchers : work[d].epoch \in 0..(MaxDrops + 1)
        BY <2>1 DEF Calls
  <2>3. QED
        BY <2>2 DEF OrderInv, EpochsPast
<1>9. EpochsPast' /\ \A d \in Dispatchers : ~EpochReady(work[d].epoch)'
      BY <1>1, <1>3, <1>8 DEF EpochsPast, EpochReady, DropLink, Reconnect
<1>10. QED
      BY <1>4, <1>6, <1>7, <1>9 DEF OrderInv

\* A runner that starts again takes no control message for the old run.
LEMMA RestartKeepsOrder ==
    ASSUME Known, OrderInv, RunnerRestarts
    PROVE  OrderInv'
<1>1. /\ UNCHANGED <<outbox, version, status, lease, runActive, work, epoch, ready, down, up, effects>>
      /\ assignment' = "over" /\ ~ready
      BY DEF RunnerRestarts, serverVars, linkVars
<1>2. VersionsPast' /\ EpochsPast' /\ RowsOnly'
      BY <1>1 DEF OrderInv, VersionsPast, EpochsPast, RowsOnly
<1>3. Refuses(up)' /\ Refuses(buffered)' /\ FailedIsLate' /\ DownInOrder' /\ EffectsInOrder'
      BY <1>1 DEF Refuses, FailedIsLate, DownInOrder, EffectsInOrder, Reached
<1>4. QED
      BY <1>1, <1>2, <1>3 DEF OrderInv, EpochReady

\* Nothing is enqueued at the start.
LEMMA InitOrder == Init => OrderInv
<1> SUFFICES ASSUME Init PROVE OrderInv
    OBVIOUS
<1>1. DOMAIN outbox = {} /\ DOMAIN up = {} /\ DOMAIN buffered = {} /\ DOMAIN down = {}
      BY DEF Init
<1>2. EpochsPast /\ RowsOnly
      BY <1>1 DEF Init, EpochsPast, RowsOnly, Idle
<1>3. QED
      BY <1>1, <1>2 DEF OrderInv, VersionsPast, Refuses, FailedIsLate, DownInOrder, EffectsInOrder,
                        PageInOrder, SendInOrder

\* Every step keeps the order.
LEMMA StepKeepsOrder == Known /\ OrderInv /\ [Next]_vars => OrderInv'
<1> SUFFICES ASSUME Known, OrderInv, [Next]_vars
             PROVE  OrderInv'
    OBVIOUS
<1>1. CASE \E c \in Commands : Enqueue(c)
      BY <1>1, EnqueueKeepsOrder
<1>2. CASE RotateLease \/ LoseLease \/ RunEndsOnServer
  <2>1. Still /\ assignment' = assignment
        BY <1>2 DEF RotateLease, LoseLease, RunEndsOnServer, Still, linkVars, runnerVars
  <2>2. QED
        BY <1>2, <2>1, LaterKeepsOrder
<1>3. ASSUME NEW d \in Dispatchers, StartDispatch(d)
      PROVE  OrderInv'
  <2> DEFINE call == [phase |-> "check", epoch |-> epoch, page |-> Page,
                      full |-> Cardinality(Page) = PageSize, sent |-> FALSE]
  <2>1. work' = [work EXCEPT ![d] = call]
        BY <1>3 DEF StartDispatch
  <2>2. call.epoch <= epoch /\ call.phase # "send" /\ call.page \in {{}, Page}
        BY OrderTypes
  <2>3. UNCHANGED <<outbox, version, status, lease, runActive, effects, assignment, up, buffered,
                    down, epoch, ready>>
        BY <1>3 DEF StartDispatch, serverVars, linkVars, runnerVars
  <2> HIDE DEF call
  <2>4. QED
        BY <2>1, <2>2, <2>3, FetchKeepsOrder
<1>4. ASSUME NEW d \in Dispatchers, EndPage(d)
      PROVE  OrderInv'
  <2> DEFINE more == [work[d] EXCEPT !.page = Page, !.full = Cardinality(Page) = PageSize]
             call == IF work[d].sent \/ ~work[d].full \/ Pending = {} THEN Idle ELSE more
  <2>1. work \in [Dispatchers -> Calls(DOMAIN outbox)] /\ work[d].phase = "check"
        BY <1>4, OrderTypes DEF EndPage
  <2>2. work' = [work EXCEPT ![d] = call]
        BY <1>4, <2>1 DEF EndPage
  <2>3. more.epoch <= epoch /\ more.phase # "send" /\ more.page = Page
    <3>1. work[d] \in Calls(DOMAIN outbox) /\ work[d].epoch <= epoch
          BY <2>1 DEF OrderInv, EpochsPast
    <3>2. QED
          BY <2>1, <3>1 DEF Calls
  <2>4. Idle.epoch <= epoch /\ Idle.phase # "send" /\ Idle.page = {}
    <3>1. epoch \in Nat
          BY OrderTypes
    <3>2. QED
          BY <3>1 DEF Idle
  <2> HIDE DEF more
  <2>5. call.epoch <= epoch /\ call.phase # "send" /\ call.page \in {{}, Page}
        BY <2>3, <2>4
  <2>6. UNCHANGED <<outbox, version, status, lease, runActive, effects, assignment, up, buffered,
                    down, epoch, ready>>
        BY <1>4 DEF EndPage, serverVars, linkVars, runnerVars
  <2> HIDE DEF call
  <2>7. QED
        BY <2>2, <2>5, <2>6, FetchKeepsOrder
<1>5. CASE \E d \in Dispatchers : CheckCommand(d) \/ SendCommand(d)
      BY <1>5, CheckKeepsOrder, SendKeepsOrder
<1>6. CASE HandleAck
      BY <1>6, AckKeepsOrder
<1>7. CASE ReceiveCommand
      BY <1>7, ReceiveKeepsOrder
<1>8. CASE ProviderEnds \/ BeginFinalization \/ AssignmentEnds
  <2>1. Still /\ UNCHANGED <<lease, runActive>> /\ assignment' # "provider"
        BY <1>8 DEF ProviderEnds, BeginFinalization, AssignmentEnds, Still, serverVars, linkVars
  <2>2. QED
        BY <2>1, LaterKeepsOrder
<1>9. CASE DropLink \/ Reconnect
      BY <1>9, LinkKeepsOrder
<1>10. CASE RunnerRestarts
      BY <1>10, RestartKeepsOrder
<1>11. CASE UNCHANGED vars
  <2>1. Still /\ UNCHANGED <<lease, runActive, assignment>>
        BY <1>11 DEF vars, Still, serverVars, linkVars, runnerVars
  <2>2. QED
        BY <2>1, LaterKeepsOrder
<1>12. QED
      BY <1>1, <1>2, <1>3, <1>4, <1>5, <1>6, <1>7, <1>8, <1>9, <1>10, <1>11 DEF Next, DispatchStep

(* What SteersKeepOrder says of one step.                                  *)
InOrder ==
    \A c \in Commands :
        /\ Kind[c] = "control_message" /\ effects'[c] > effects[c]
        => \A i, j \in DOMAIN outbox :
              /\ outbox[i] = c /\ i < j /\ Kind[outbox[j]] = "control_message"
              /\ version[outbox[j]] = version[c]
              => effects[outbox[j]] = 0

\* Only the runner's step applies a command, and one it applies now had no effect
\* before: nothing younger of its lease can have had one.
LEMMA StepIsInOrder == Known /\ OrderInv /\ [Next]_vars => InOrder
<1> SUFFICES ASSUME Known, OrderInv, [Next]_vars,
                    NEW c \in Commands, Kind[c] = "control_message", effects'[c] > effects[c],
                    NEW i \in DOMAIN outbox, NEW j \in DOMAIN outbox,
                    outbox[i] = c, i < j, Kind[outbox[j]] = "control_message",
                    version[outbox[j]] = version[c]
             PROVE  effects[outbox[j]] = 0
    BY DEF InOrder
<1>1. effects \in [Commands -> Nat] /\ outbox[j] \in Commands
      BY OrderTypes
<1>2. effects' # effects
      BY <1>1
<1>3. ReceiveCommand
      BY <1>2 DEF Next, Enqueue, RotateLease, LoseLease, RunEndsOnServer, StartDispatch, DispatchStep,
                  CheckCommand, SendCommand, EndPage, HandleAck, ProviderEnds, BeginFinalization,
                  AssignmentEnds, DropLink, Reconnect, RunnerRestarts, vars, runnerVars
<1>4. c = Head(down)
      BY <1>1, <1>3, ReceivedIsReached
<1>5. effects[c] = 0 /\ assignment = "provider"
      BY <1>3, <1>4, ReceivedIsReached
<1>6. ~(effects[outbox[j]] > 0)
      BY <1>5 DEF OrderInv, EffectsInOrder, Pair, Reached
<1>7. QED
      BY <1>1, <1>6

\* The control messages of one lease reach the provider in the order in which they
\* were accepted, for any number of concurrent dispatches, pages, lost
\* connections and redeliveries: a later one is never applied before an earlier
\* one that still will be.
THEOREM SteersKeepOrderHolds == Spec => SteersKeepOrder
<1>1. RecordInv /\ AppliedIsKnown /\ OrderInv /\ [Next]_vars => [InOrder]_vars
      BY StepIsInOrder DEF Known
<1>2. RecordInv /\ AppliedIsKnown /\ OrderInv /\ [Next]_vars => OrderInv'
      BY StepKeepsOrder DEF Known
<1>3. Spec => [][InOrder]_vars
      BY <1>1, <1>2, InitRecord, StepKeepsRecord, InitApplied, StepKeepsApplied, InitOrder, PTL
      DEF Spec
<1>4. QED
      BY <1>3 DEF SteersKeepOrder, InOrder
=============================================================================
