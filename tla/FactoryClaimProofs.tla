------------------------- MODULE FactoryClaimProofs -------------------------
(***************************************************************************)
(* Proofs about FactoryClaim, for any number of drivers and actors and any *)
(* number of cycles, crashes, lost answers and edits.                      *)
(***************************************************************************)
EXTENDS FactoryClaim, TLAPS

(* The vocabularies of the row, the mission, GitHub and a driver's cycle.  *)
Owners == {"none"} \cup {ActorOf[p] : p \in Drivers}
ItemStates == States \cup {"none"}

Items == [state : ItemStates, version : Nat, owner : Owners, token : Nat, rev : Nat,
          pinned : BOOLEAN, linked : BOOLEAN, origin : BOOLEAN]

Missions == [status : {"none", "ready", "running", "completed", "failed", "cancelled"},
             runs : BOOLEAN, vfail : BOOLEAN, awaiting : BOOLEAN, clean : BOOLEAN,
             kept : BOOLEAN, by : Owners]

Issues == [rev : Nat, status : {"Todo", "In Progress", "Done"}, ready : BOOLEAN, moved : BOOLEAN]

Cycles == [pc : Pcs, token : Nat, ver : Nat, st : ItemStates, rev : Nat, req : Nat,
           pinned : BOOLEAN, gen : Nat, was : {"Todo", "In Progress", "Done"},
           aim : ItemStates, ckpt : BOOLEAN]

Typed ==
    /\ item \in Items /\ live \in BOOLEAN /\ mission \in Missions /\ made \in Nat
    /\ gh \in Issues /\ drv \in [Drivers -> Cycles]

(* A step of a cycle says how far the item has come: no token before the   *)
(* claim, a pinned source from the mission on, a moved Project at launch.  *)
Unclaimed == {"idle", "reopen", "refresh", "claim", "reclaim"}
Prepared == {"materialize", "project-status", "project-status-ready", "project",
             "mission-launch", "mission-launch-ready", "launch"}
Launching == {"mission-launch", "mission-launch-ready", "launch"}

Fits(d, r, g) ==
    /\ d.pc \in Unclaimed => d.token = 0
    /\ d.pc \in Prepared => r.pinned
    /\ d.pc \in Launching => g.moved

(* What a row without a mission can be.                                    *)
Bare == {"none", "claimed", "blocked", "failed", "cancelled"}

(* The row of an item nobody claimed is empty; a row without a mission has *)
(* only the states of a claim, and no mission exists for it; the record of *)
(* an upgrade means that the source is pinned.                             *)
ClaimInv ==
    /\ Typed
    /\ item.state = "none" => item = Absent /\ ~live
    /\ OneMission
    /\ ~item.linked => mission.status = "none" /\ item.state \in Bare
    /\ VerifiedIsComplete
    /\ \A o \in ops : o.op = "upgrade" => item.pinned
    /\ \A p \in Drivers : Fits(drv[p], item, gh)

-----------------------------------------------------------------------------
(* What a step may do to the row: keep it, hand it to a new owner, move it, *)
(* give it its mission, or take a cancellation back.                        *)
Kept == item' = item /\ made' = made /\ (live' => live \/ item.state # "none")

TakenOver ==
    /\ item.state \notin Terminal /\ made' = made
    /\ item'.version = item.version + 1 /\ item'.token = item.token + 1
    /\ item'.linked = item.linked /\ item'.pinned = item.pinned
    /\ item'.state = IF item.linked THEN item.state ELSE "claimed"
    /\ item'.state # "none"

Advanced ==
    /\ item.state \in States \ Terminal /\ made' = made
    /\ item'.version = item.version + 1 /\ item'.token = item.token
    /\ item'.linked = item.linked /\ (item.pinned => item'.pinned)
    /\ item'.state \in States
    /\ ~item.linked => item'.state \in Bare
    /\ item'.state = "verified" => item.state = "verified" \/ mission'.status = "completed"

GivenMission ==
    /\ item.state = "claimed" /\ ~item.linked /\ made' = made + 1
    /\ item'.version = item.version + 1 /\ item'.token = item.token
    /\ item'.linked /\ item'.pinned = item.pinned /\ item'.state = "mission_created"

TakenBack ==
    /\ item.state = "cancelled" /\ item.linked /\ made' = made
    /\ item'.version = item.version + 1 /\ item'.token = item.token
    /\ item'.linked = item.linked /\ item'.pinned = item.pinned /\ item'.state = "running"

RowStep == Kept \/ TakenOver \/ Advanced \/ GivenMission \/ TakenBack

(* A mission appears with the row's link, and a completed one stays so.     *)
MissionStep ==
    /\ mission.status = "none" => mission'.status = "none" \/ GivenMission
    /\ mission.status = "completed" => mission'.status = "completed" \/ GivenMission

(* A driver's step leads its own cycle on, and changes the row only with the *)
(* token that fences it.                                                     *)
Driven(p) ==
    /\ \E d \in Cycles : drv' = [drv EXCEPT ![p] = d] /\ Fits(d, item', gh')
    /\ item' = item \/ drv[p].token = 0 \/ drv[p].token = item.token

Unblocks == item.state = "blocked" /\ item'.state = "running"

ItemStep ==
    /\ item' \in Items /\ live' \in BOOLEAN /\ mission' \in Missions /\ gh' \in Issues
    /\ RowStep /\ MissionStep
    /\ gh.moved => gh'.moved
    /\ \A o \in ops' : o.op = "upgrade" => o \in ops \/ item'.pinned
    /\ drv' = drv \/ \E p \in Drivers : Driven(p)
    /\ Unblocks => item.origin \/ drv' # drv

\* The values of an item no row stands for.
LEMMA EmptyRow ==
    /\ Absent \in Items /\ Absent.version = 0 /\ Absent.token = 0 /\ Absent.state = "none"
    /\ Absent.pinned = TRUE /\ Absent.linked = FALSE
BY DEF Absent, Items, Owners, ItemStates

(* A row stays a row when one of its columns is written.                     *)
LEMMA RowUpdates ==
    ASSUME NEW r \in Items, NEW a \in Owners, NEW s \in ItemStates, NEW b \in BOOLEAN
    PROVE  /\ [r EXCEPT !.owner = a] \in Items /\ [r EXCEPT !.state = s] \in Items
           /\ [r EXCEPT !.token = @ + 1] \in Items /\ [r EXCEPT !.version = @ + 1] \in Items
           /\ [r EXCEPT !.origin = b] \in Items /\ [r EXCEPT !.pinned = b] \in Items
           /\ [r EXCEPT !.linked = b] \in Items
BY DEF Items

\* What a write of a row changes beside its own fields.
LEMMA MovedRow ==
    ASSUME NEW r \in Items
    PROVE  /\ Moved(r) \in Items /\ Moved(r).version = r.version + 1
           /\ Moved(r).token = r.token /\ Moved(r).linked = r.linked
           /\ Moved(r).pinned = r.pinned /\ Moved(r).state = r.state
<1> DEFINE s == [r EXCEPT !.version = @ + 1]
<1>1. s \in Items
      BY DEF Items
<1>2. Moved(r) = [s EXCEPT !.origin = FALSE]
      BY DEF Moved
<1>3. /\ Moved(r).version = r.version + 1 /\ Moved(r).token = r.token
      /\ Moved(r).linked = r.linked /\ Moved(r).pinned = r.pinned /\ Moved(r).state = r.state
      BY DEF Moved, Items
<1> HIDE DEF s
<1>4. QED
      BY <1>1, <1>2, <1>3 DEF Items

\* A driver between two cycles owes nothing to the row.
LEMMA IdleCycle == Idle \in Cycles /\ \A r, g : Fits(Idle, r, g)
BY DEF Idle, Cycles, Pcs, ItemStates, Fits, Unclaimed, Prepared, Launching

(* The answer to a request, or its loss, moves the driver that made it.      *)
LEMMA ReplyDrives ==
    ASSUME NEW p \in Drivers, NEW next \in Cycles, NEW new, Reply(p, next, new),
           Fits(next, item', gh'),
           item' = item \/ drv[p].token = 0 \/ drv[p].token = item.token,
           \A o \in new : o.op = "upgrade" => item'.pinned
    PROVE  /\ Driven(p)
           /\ \A o \in ops' : o.op = "upgrade" => o \in ops \/ item'.pinned
<1>1. \E d \in Cycles : drv' = [drv EXCEPT ![p] = d] /\ Fits(d, item', gh')
      BY IdleCycle DEF Reply
<1>2. ops' \subseteq ops \cup new
      BY DEF Reply, Remember
<1>3. QED
      BY <1>1, <1>2 DEF Driven

\* A driver that gives up its cycle touches its own state only.
LEMMA BailDrives ==
    ASSUME NEW p \in Drivers, Bail(p)
    PROVE  /\ Driven(p) /\ item' = item /\ live' = live
           /\ \A o \in ops' : o.op = "upgrade" => o \in ops
<1>1. ops' \subseteq ops
      BY DEF Bail, Remember
<1>2. item' = item /\ live' = live /\ drv' = [drv EXCEPT ![p] = Idle]
      BY DEF Bail
<1>3. QED
      BY <1>1, <1>2, IdleCycle DEF Driven

(* A driver's step that only reads, or only changes its own cycle.           *)
LEMMA DrivenKeeps ==
    ASSUME ClaimInv, NEW p \in Drivers, Driven(p), item' = item, live' = live,
           UNCHANGED <<mission, made, gh>>,
           \A o \in ops' : o.op = "upgrade" => o \in ops \/ item'.pinned
    PROVE  ItemStep
<1>1. Kept
      BY DEF Kept
<1>2. item' \in Items /\ live' \in BOOLEAN /\ mission' \in Missions /\ gh' \in Issues
      BY DEF ClaimInv, Typed
<1>3. RowStep /\ MissionStep /\ ~Unblocks
      BY <1>1 DEF RowStep, MissionStep, Unblocks
<1>4. QED
      BY <1>2, <1>3 DEF ItemStep

\* And so keeps the invariant.
LEMMA BailKeeps ==
    ASSUME ClaimInv, NEW p \in Drivers, Bail(p), UNCHANGED <<mission, made, gh>>
    PROVE  ItemStep
BY BailDrives, DrivenKeeps

-----------------------------------------------------------------------------
(* The claim: a new row, the held one, or an expired one under a new fence. *)
LEMMA ClaimedFits ==
    ASSUME NEW p \in Drivers, drv[p] \in Cycles, NEW t \in Nat, NEW r \in Items, NEW g,
           drv[p].pinned => r.pinned
    PROVE  Claimed(p, t, r) \in Cycles /\ Fits(Claimed(p, t, r), r, g)
<1> DEFINE c == Claimed(p, t, r)
<1>1. /\ r.version \in Nat /\ r.state \in ItemStates
      BY DEF Items
<1>2. c \in Cycles
      BY <1>1 DEF Claimed, Cycles, Pcs
<1>3. c.pc \in {"upgrade", "project-status", "materialize"} /\ (c.pc # "upgrade" => drv[p].pinned)
      BY DEF Claimed, Cycles
<1> HIDE DEF c
<1>4. Fits(c, r, g)
      BY <1>3 DEF Fits, Unclaimed, Prepared, Launching
<1>5. QED
      BY <1>2, <1>4 DEF c

\* A claim takes a free or lapsed item under a new token, or repeats its
\* first answer.
LEMMA ClaimWithStep ==
    ASSUME ClaimInv, NEW p \in Drivers, NEW key, NEW at, ClaimWith(p, key, at),
           drv[p].pc \in {"claim", "reclaim"}, UNCHANGED <<mission, made, gh>>
    PROVE  ItemStep
<1> DEFINE a == ActorOf[p]
           d == drv[p]
<1>1. /\ item \in Items /\ live \in BOOLEAN /\ d \in Cycles /\ d.token = 0 /\ gh' \in Issues
      /\ mission' \in Missions /\ drv \in [Drivers -> Cycles]
      BY DEF ClaimInv, Typed, Fits, Unclaimed
<1>2. MissionStep
      BY DEF MissionStep
<1>3. ASSUME NEW r \in Items, item' = r, RowStep, live' = TRUE, d.pinned => r.pinned,
             r.state # "running" \/ r.state = item.state,
             Reply(p, Claimed(p, r.token, r), RecordedClaim(p, key, at, r))
      PROVE  ItemStep
  <2>1. r.token \in Nat
        BY DEF Items
  <2>2. Claimed(p, r.token, r) \in Cycles /\ Fits(Claimed(p, r.token, r), r, gh')
        BY <1>1, <1>3, <2>1, ClaimedFits
  <2>3. \A o \in RecordedClaim(p, key, at, r) : o.op = "claim"
        BY DEF RecordedClaim, Op
  <2>4. Driven(p) /\ \A o \in ops' : o.op = "upgrade" => o \in ops \/ item'.pinned
        BY <1>1, <1>3, <2>2, <2>3, ReplyDrives
  <2>5. QED
        BY <1>1, <1>2, <1>3, <2>4 DEF ItemStep, Unblocks
<1>4. CASE /\ Used(key) /\ UNCHANGED <<item, live>>
           /\ ensure_factory_operation_matches(key, "claim", a, 0, d.req) /\ SourceMatches(d)
           /\ \E o \in factory_operation(key) :
                 LET t == replayable_factory_claim_token(o)
                 IN  IF t # 0 THEN Reply(p, Claimed(p, t, item), {})
                     ELSE IF d.pc = "claim"
                     THEN Reply(p, [d EXCEPT !.pc = "reclaim", !.ver = item.version], {})
                     ELSE Bail(p)
  <2>1. PICK o \in factory_operation(key) :
             LET t == replayable_factory_claim_token(o)
             IN  IF t # 0 THEN Reply(p, Claimed(p, t, item), {})
                 ELSE IF d.pc = "claim"
                 THEN Reply(p, [d EXCEPT !.pc = "reclaim", !.ver = item.version], {})
                 ELSE Bail(p)
        BY <1>4
  <2> DEFINE t == replayable_factory_claim_token(o)
             again == [d EXCEPT !.pc = "reclaim", !.ver = item.version]
  <2>2. t \in Nat
        BY <1>1 DEF replayable_factory_claim_token, Items
  <2>3. d.pinned => item.pinned
        BY <1>4 DEF SourceMatches
  <2> HIDE DEF t
  <2>4. CASE Reply(p, Claimed(p, t, item), {})
    <3>1. Claimed(p, t, item) \in Cycles /\ Fits(Claimed(p, t, item), item, gh)
          BY <1>1, <2>2, <2>3, ClaimedFits
    <3>2. Driven(p) /\ \A x \in ops' : x.op = "upgrade" => x \in ops \/ item'.pinned
          BY <1>1, <1>4, <2>4, <3>1, ReplyDrives
    <3>3. QED
          BY <1>4, <3>2, DrivenKeeps
  <2>5. CASE Reply(p, again, {})
    <3>1. again \in Cycles /\ again.pc = "reclaim" /\ again.token = 0
          BY <1>1 DEF Cycles, Pcs, Items
    <3>2. Fits(again, item, gh)
          BY <3>1 DEF Fits, Prepared, Launching
    <3> HIDE DEF again
    <3>3. Driven(p) /\ \A x \in ops' : x.op = "upgrade" => x \in ops \/ item'.pinned
          BY <1>1, <1>4, <2>5, <3>1, <3>2, ReplyDrives
    <3>4. QED
          BY <1>4, <3>3, DrivenKeeps
  <2>6. CASE Bail(p)
        BY <2>6, BailKeeps
  <2>7. QED
        BY <2>1, <2>4, <2>5, <2>6 DEF t
<1>5. CASE /\ ClaimFresh(a, d) /\ item' = NewClaim(a, d) /\ live' = TRUE
           /\ Reply(p, Claimed(p, 1, item'), RecordedClaim(p, key, at, item'))
  <2> DEFINE r == NewClaim(a, d)
  <2>1. r \in Items /\ r.token = 1 /\ r.version = 1 /\ r.pinned /\ ~r.linked /\ r.state = "claimed"
    <3>1. d.req \in Nat /\ a \in Owners /\ "claimed" \in ItemStates
          BY <1>1 DEF Cycles, ItemStates, States, Owners
    <3> HIDE DEF a, d
    <3>2. QED
          BY <3>1, EmptyRow DEF Items, NewClaim
  <2>2. item.state = "none" /\ item = Absent
        BY <1>5 DEF ClaimFresh, ClaimInv
  <2>3. /\ item.version = 0 /\ item.token = 0 /\ ~item.linked /\ item.pinned
        /\ item.linked = FALSE /\ item.pinned = TRUE /\ r.linked = FALSE /\ r.pinned = TRUE
        BY <2>1, <2>2, EmptyRow DEF Items
  <2>4. item' = r
        BY <1>5
  <2> HIDE DEF r
  <2>5. TakenOver
    <3>1. item.state \notin Terminal
          BY <2>2 DEF Terminal
    <3>2. made' = made
          OBVIOUS
    <3>3. /\ item'.version = item.version + 1 /\ item'.token = item.token + 1
          BY <2>1, <2>3, <2>4
    <3>6. item'.linked = item.linked /\ item'.pinned = item.pinned
          BY <2>3, <2>4, Zenon
    <3>4. item'.state = "claimed" /\ ~item.linked
          BY <2>1, <2>3, <2>4
    <3>5. QED
          BY <3>1, <3>2, <3>3, <3>4, <3>6 DEF TakenOver
  <2>6. QED
        BY <1>3, <1>5, <2>1, <2>4, <2>5 DEF RowStep
<1>6. CASE /\ ClaimHeld(a, d) /\ UNCHANGED <<item, live>>
           /\ Reply(p, Claimed(p, item.token, item), RecordedClaim(p, key, at, item))
  <2>1. live /\ (d.pinned => item.pinned)
        BY <1>6 DEF ClaimHeld, SourceMatches
  <2>2. Kept
        BY <1>6 DEF Kept
  <2>3. QED
        BY <1>1, <1>3, <1>6, <2>1, <2>2 DEF RowStep
<1>7. CASE /\ ClaimExpired(a, d) /\ item' = Reclaimed(a) /\ live' = TRUE
           /\ Reply(p, Claimed(p, item'.token, item'), RecordedClaim(p, key, at, item'))
  <2> DEFINE r == Reclaimed(a)
  <2>1. item.state \notin Terminal /\ item.state # "none" /\ (d.pinned => item.pinned)
        BY <1>7 DEF ClaimExpired, factory_state_is_terminal, SourceMatches
  <2>2. /\ r \in Items /\ r.version = item.version + 1 /\ r.token = item.token + 1
        /\ r.linked = item.linked /\ r.pinned = item.pinned
        /\ r.state = IF item.linked THEN item.state ELSE "claimed"
    <3>1. a \in Owners /\ "claimed" \in ItemStates
          BY DEF Owners, ItemStates, States
    <3> HIDE DEF a
    <3>2. /\ Moved(item) \in Items /\ Moved(item).version = item.version + 1
          /\ Moved(item).token = item.token /\ Moved(item).linked = item.linked
          /\ Moved(item).pinned = item.pinned /\ Moved(item).state = item.state
          BY <1>1, MovedRow
    <3> DEFINE m == Moved(item)
               to == IF item.linked THEN m.state ELSE "claimed"
               m1 == [m EXCEPT !.owner = a]
               m2 == [m1 EXCEPT !.token = @ + 1]
    <3>3. r = [m2 EXCEPT !.state = to] /\ to \in ItemStates
          BY <1>1, <3>1, <3>2 DEF Reclaimed, Items
    <3> HIDE DEF m, to
    <3>4. m1 \in Items /\ m1.token = m.token /\ m1.version = m.version /\ m1.linked = m.linked
          /\ m1.pinned = m.pinned
          BY <3>1, <3>2 DEF Items, m
    <3> HIDE DEF m1
    <3>5. m2 \in Items /\ m2.token = m1.token + 1 /\ m2.version = m1.version /\ m2.linked = m1.linked
          /\ m2.pinned = m1.pinned
          BY <3>4 DEF Items
    <3> HIDE DEF m2, r
    <3>6. r \in Items /\ r.token = m2.token /\ r.version = m2.version /\ r.linked = m2.linked
          /\ r.pinned = m2.pinned /\ r.state = to
          BY <3>3, <3>5 DEF Items
    <3>7. QED
          BY <3>2, <3>4, <3>5, <3>6 DEF m, to
  <2>3. item' = r
        BY <1>7
  <2> HIDE DEF r
  <2>4. TakenOver
        BY <2>1, <2>2, <2>3 DEF TakenOver
  <2>5. r.state # "running" \/ r.state = item.state
        BY <2>2
  <2>6. Reply(p, Claimed(p, r.token, r), RecordedClaim(p, key, at, r))
        BY <1>7, <2>3
  <2>7. QED
        BY <1>3, <1>7, <2>1, <2>2, <2>3, <2>4, <2>5, <2>6 DEF RowStep
<1>8. CASE Bail(p)
      BY <1>8, BailKeeps
<1>9. QED
      BY <1>4, <1>5, <1>6, <1>7, <1>8 DEF ClaimWith

\* A driver that has picked an item holds no token yet.
LEMMA PickedCycle ==
    ASSUME ClaimInv, NEW pc \in {"claim", "reopen"}, NEW ckpt \in BOOLEAN
    PROVE  Picked(pc, ckpt) \in Cycles /\ \A r, g : Fits(Picked(pc, ckpt), r, g)
<1> DEFINE d == Picked(pc, ckpt)
           req == IF item.state = "none" THEN gh.rev ELSE item.rev
           d1 == [Idle EXCEPT !.pc = pc, !.rev = gh.rev, !.gen = item.version]
<1>1. item \in Items /\ gh \in Issues
      BY DEF ClaimInv, Typed
<1>2. /\ gh.rev \in Nat /\ item.rev \in Nat /\ item.version \in Nat /\ item.pinned \in BOOLEAN
      /\ gh.status \in {"Todo", "In Progress", "Done"} /\ pc \in Pcs
      BY <1>1 DEF Items, Issues, Pcs
<1>3. Idle \in Cycles /\ Idle.token = 0
      BY IdleCycle DEF Idle
<1>4. d1 \in Cycles /\ d1.pc = pc /\ d1.token = 0
      BY <1>2, <1>3 DEF Cycles
<1>5. d = [d1 EXCEPT !.req = req, !.pinned = item.pinned, !.was = gh.status, !.ckpt = ckpt]
      BY DEF Picked
<1>6. req \in Nat
      BY <1>2
<1> HIDE DEF d1, d, req
<1>7. d \in Cycles /\ d.pc = pc /\ d.token = 0
      BY <1>2, <1>4, <1>5, <1>6 DEF Cycles
<1>8. \A r, g : Fits(d, r, g)
      BY <1>7 DEF Fits, Prepared, Launching
<1>9. QED
      BY <1>7, <1>8 DEF d

\* Selecting an issue begins a cycle and writes no row.
LEMMA SelectStep ==
    ASSUME ClaimInv, NEW p \in Drivers, Select(p)
    PROVE  ItemStep
<1>1. PICK pc \in {"claim", "reopen"}, ckpt \in BOOLEAN : drv' = [drv EXCEPT ![p] = Picked(pc, ckpt)]
  <2>1. \/ drv' = [drv EXCEPT ![p] = Picked("claim", FALSE)]
        \/ drv' = [drv EXCEPT ![p] = Picked("claim", TRUE)]
        \/ drv' = [drv EXCEPT ![p] = Picked("reopen", TRUE)]
        BY DEF Select
  <2>2. QED
        BY <2>1
<1>2. Picked(pc, ckpt) \in Cycles /\ \A r, g : Fits(Picked(pc, ckpt), r, g)
      BY PickedCycle
<1>3. UNCHANGED <<row, mission, made, gh>>
      BY DEF Select
<1>4. Driven(p) /\ item' = item /\ live' = live /\ ops' = ops
      BY <1>1, <1>2, <1>3 DEF Driven, row
<1>5. QED
      BY <1>3, <1>4, DrivenKeeps

\* The second reading of the item after it was reopened writes no row either.
LEMMA RefreshStep ==
    ASSUME ClaimInv, NEW p \in Drivers, Refresh(p)
    PROVE  ItemStep
<1>1. Picked("claim", TRUE) \in Cycles /\ \A r, g : Fits(Picked("claim", TRUE), r, g)
      BY PickedCycle
<1>2. \E d \in Cycles : drv' = [drv EXCEPT ![p] = d] /\ Fits(d, item', gh')
      BY <1>1, IdleCycle DEF Refresh
<1>3. item' = item /\ live' = live /\ ops' \subseteq ops /\ UNCHANGED <<mission, made, gh>>
      BY DEF Refresh, Remember
<1>4. Driven(p) /\ \A o \in ops' : o.op = "upgrade" => o \in ops \/ item'.pinned
      BY <1>2, <1>3 DEF Driven
<1>5. QED
      BY <1>3, <1>4, DrivenKeeps

\* The claim of a cycle and the one that continues it.
LEMMA ClaimStep ==
    ASSUME ClaimInv, NEW p \in Drivers, Claim(p) \/ Reclaim(p)
    PROVE  ItemStep
<1>1. drv[p].pc \in {"claim", "reclaim"} /\ UNCHANGED <<mission, made, gh>>
      BY DEF Claim, Reclaim
<1>2. \E key, at : ClaimWith(p, key, at)
      BY DEF Claim, Reclaim
<1>3. QED
      BY <1>1, <1>2, ClaimWithStep

-----------------------------------------------------------------------------
(* Requests made under the fence.                                           *)
LEMMA AnsweredCycle ==
    ASSUME NEW p \in Drivers, drv[p] \in Cycles, NEW r \in Items, NEW pc \in Pcs
    PROVE  /\ Answered(p, r, pc) \in Cycles /\ Answered(p, r, pc).pc = pc
           /\ Answered(p, r, pc).token = drv[p].token
<1>1. r.state \in ItemStates /\ r.version \in Nat
      BY DEF Items
<1>2. QED
      BY <1>1 DEF Answered, Cycles

\* A driver on its way to block the item is a driver, and owes nothing to
\* the row.
LEMMA BlockedCycle ==
    ASSUME NEW d \in Cycles, NEW st \in ItemStates,
           NEW where \in {"block:status", "block:project", "block:launch", "block:mission"}
    PROVE  /\ BlockAt(d, st, where) \in Cycles
           /\ \A r, g : Fits(BlockAt(d, st, where), r, g)
<1>1. CASE st = "blocked"
      BY <1>1, IdleCycle DEF BlockAt
<1>2. CASE st # "blocked"
  <2> DEFINE b == [d EXCEPT !.st = st, !.pc = where, !.aim = "blocked"]
  <2>1. where \in Pcs /\ "blocked" \in ItemStates
        BY DEF Pcs, ItemStates, States
  <2>2. b \in Cycles /\ b.pc = where
        BY <2>1 DEF Cycles
  <2>3. BlockAt(d, st, where) = b
        BY <1>2 DEF BlockAt
  <2> HIDE DEF b
  <2>4. b.pc \notin Unclaimed /\ b.pc \notin Prepared /\ b.pc \notin Launching
        BY <2>2 DEF Unclaimed, Prepared, Launching
  <2>5. QED
        BY <2>2, <2>3, <2>4 DEF Fits
<1>3. QED
      BY <1>1, <1>2

(* Where a fenced request leads fits the row it leaves behind.              *)
LEMMA ThenFits ==
    ASSUME ClaimInv, NEW p \in Drivers, NEW r \in Items,
           item.pinned => r.pinned, drv[p].pc = "upgrade" => r.pinned
    PROVE  Then(p, r) \in Cycles /\ Fits(Then(p, r), r, gh)
<1>1. drv[p] \in Cycles /\ Fits(drv[p], item, gh)
      BY DEF ClaimInv, Typed
<1>2. r.state \in ItemStates /\ r.version \in Nat /\ r.linked \in BOOLEAN
      BY DEF Items
<1>3. [drv[p] EXCEPT !.ver = r.version] \in Cycles
      BY <1>1, <1>2 DEF Cycles
<1>4. ASSUME NEW pc \in Pcs \ Unclaimed, pc \in Prepared => r.pinned, pc \in Launching => gh.moved
      PROVE  Answered(p, r, pc) \in Cycles /\ Fits(Answered(p, r, pc), r, gh)
      BY <1>1, <1>4, AnsweredCycle DEF Fits
<1>5. ASSUME NEW ok, NEW pc \in Pcs \ Unclaimed, pc \in Prepared => r.pinned,
             pc \in Launching => gh.moved, NEW where \in {"block:status", "block:launch"}
      PROVE  Checked(p, r, ok, pc, where) \in Cycles /\ Fits(Checked(p, r, ok, pc, where), r, gh)
  <2>1. CASE ok
        BY <1>4, <1>5, <2>1 DEF Checked
  <2>2. CASE ~ok
        BY <1>2, <1>3, <2>2, BlockedCycle DEF Checked
  <2>3. QED
        BY <2>1, <2>2
<1>6. CASE drv[p].pc = "project-status"
  <2>1. r.pinned /\ "project-status-ready" \in (Pcs \ Unclaimed) \ Launching
        BY <1>1, <1>6 DEF Fits, Prepared, Pcs, Unclaimed, Launching
  <2>2. Then(p, r) = Checked(p, r, revalidate_selected_for_effect(p, drv[p].was),
                             "project-status-ready", "block:status")
        BY <1>6 DEF Then
  <2>3. QED
        BY <1>5, <2>1, <2>2
<1>7. CASE drv[p].pc = "project-status-ready"
  <2>1. r.pinned /\ "project" \in (Pcs \ Unclaimed) \ Launching
        BY <1>1, <1>7 DEF Fits, Prepared, Pcs, Unclaimed, Launching
  <2>2. Then(p, r) = Answered(p, r, "project")
        BY <1>7 DEF Then
  <2>3. QED
        BY <1>4, <2>1, <2>2
<1>8. CASE drv[p].pc = "mission-launch"
  <2>1. r.pinned /\ gh.moved /\ "mission-launch-ready" \in Pcs \ Unclaimed
        BY <1>1, <1>8 DEF Fits, Prepared, Pcs, Unclaimed, Launching
  <2>2. Then(p, r) = Checked(p, r, revalidate_selected_for_effect(p, "In Progress"),
                             "mission-launch-ready", "block:launch")
        BY <1>8 DEF Then
  <2>3. QED
        BY <1>5, <2>1, <2>2
<1>9. CASE drv[p].pc = "mission-launch-ready"
  <2>1. r.pinned /\ gh.moved /\ "launch" \in Pcs \ Unclaimed
        BY <1>1, <1>9 DEF Fits, Prepared, Pcs, Unclaimed, Launching
  <2>2. Then(p, r) = Answered(p, r, "launch")
        BY <1>9 DEF Then
  <2>3. QED
        BY <1>4, <2>1, <2>2
<1>10. CASE drv[p].pc = "upgrade"
  <2>1. r.pinned /\ {"project-status", "materialize"} \subseteq (Pcs \ Unclaimed) \ Launching
        BY <1>10 DEF Pcs, Unclaimed, Launching
  <2>2. Then(p, r) \in {Answered(p, r, "project-status"), Answered(p, r, "materialize")}
        BY <1>10 DEF Then
  <2>3. QED
        BY <1>4, <2>1, <2>2
<1>11. CASE drv[p].pc \notin {"project-status", "project-status-ready", "mission-launch",
                              "mission-launch-ready", "upgrade"}
      BY <1>11, IdleCycle DEF Then
<1>12. QED
      BY <1>6, <1>7, <1>8, <1>9, <1>10, <1>11

(* What a fenced request makes of the row.                                   *)
Moves(r) ==
    /\ r.version = item.version + 1 /\ r.token = item.token /\ r.linked = item.linked
    /\ item.pinned => r.pinned
    /\ r.state \in States /\ (~item.linked => r.state \in Bare)
    /\ r.state = "verified" => item.state = "verified" \/ mission.status = "completed"

(* A row under an active fence exists and is open.                           *)
LEMMA ActiveRow ==
    ASSUME ClaimInv, NEW a, NEW t, NEW v, ensure_active_factory_control(a, t, v)
    PROVE  item.state \in States \ Terminal /\ item.token = t /\ live
<1>1. live /\ item.state \notin Terminal /\ item.token = t
      BY DEF ensure_active_factory_control, factory_state_is_terminal
<1>2. item.state # "none" /\ item.state \in ItemStates
      BY <1>1 DEF ClaimInv, Typed, Items
<1>3. QED
      BY <1>1, <1>2 DEF ItemStates

\* An operation under a fence writes only for the current token and version,
\* or repeats its first answer.
LEMMA FencedStep ==
    ASSUME ClaimInv, NEW p \in Drivers, NEW key, NEW op, NEW request, NEW allowed,
           NEW changed \in Items, NEW lease \in BOOLEAN,
           Fenced(p, key, op, request, allowed, changed, lease),
           UNCHANGED <<mission, made, gh>>,
           ensure_active_factory_control(ActorOf[p], drv[p].token, drv[p].ver) /\ allowed
               => Moves(changed),
           op = "upgrade" => changed.pinned, drv[p].pc = "upgrade" => op = "upgrade",
           changed.state = item.state \/ drv' # drv
    PROVE  ItemStep
<1> DEFINE a == ActorOf[p]
           d == drv[p]
<1>1. item \in Items /\ gh' \in Issues /\ mission' \in Missions /\ d \in Cycles
      BY DEF ClaimInv, Typed
<1>2. CASE Bail(p)
      BY <1>2, BailKeeps
<1>3. CASE /\ UNCHANGED <<item, live>> /\ Reply(p, Then(p, item), {})
           /\ ensure_factory_operation_matches(key, op, a, d.token, request)
  <2>1. d.pc = "upgrade" => item.pinned
        BY <1>3 DEF ensure_factory_operation_matches, factory_operation, ClaimInv
  <2>2. Then(p, item) \in Cycles /\ Fits(Then(p, item), item, gh)
        BY <1>1, <2>1, ThenFits
  <2>3. Driven(p) /\ \A o \in ops' : o.op = "upgrade" => o \in ops \/ item'.pinned
        BY <1>3, <2>2, ReplyDrives
  <2>4. QED
        BY <1>3, <2>3, DrivenKeeps
<1>4. CASE /\ ensure_active_factory_control(a, d.token, d.ver) /\ allowed
           /\ item' = changed /\ live' = lease
           /\ Reply(p, Then(p, changed), {Op(key, d.ver, op, a, d.token, changed.version, request)})
  <2> DEFINE new == {Op(key, d.ver, op, a, d.token, changed.version, request)}
  <2>1. Moves(changed) /\ item.state \in States \ Terminal /\ item.token = d.token
        BY <1>4, ActiveRow
  <2>2. Then(p, changed) \in Cycles /\ Fits(Then(p, changed), changed, gh)
        BY <2>1, ThenFits DEF Moves
  <2>3. \A o \in new : o.op = op
        BY DEF Op
  <2>4. Reply(p, Then(p, changed), new)
        BY <1>4
  <2> HIDE DEF new
  <2>5. Driven(p) /\ \A o \in ops' : o.op = "upgrade" => o \in ops \/ item'.pinned
        BY <1>4, <2>1, <2>2, <2>3, <2>4, ReplyDrives
  <2>6. Advanced
        BY <1>4, <2>1 DEF Advanced, Moves
  <2>7. MissionStep
        BY DEF MissionStep
  <2>8. QED
        BY <1>1, <1>4, <2>5, <2>6, <2>7 DEF ItemStep, RowStep, Unblocks
<1>5. QED
      BY <1>2, <1>3, <1>4 DEF Fenced

\* A row whose state changes is a row.
LEMMA StateRow ==
    ASSUME NEW r \in Items, NEW s \in ItemStates
    PROVE  LET n == [Moved(r) EXCEPT !.state = s]
           IN  /\ n \in Items /\ n.version = r.version + 1 /\ n.token = r.token
               /\ n.linked = r.linked /\ n.pinned = r.pinned /\ n.state = s
<1> DEFINE m == Moved(r)
<1>1. /\ m \in Items /\ m.version = r.version + 1 /\ m.token = r.token
      /\ m.linked = r.linked /\ m.pinned = r.pinned
      BY MovedRow
<1> HIDE DEF m
<1>2. LET n == [m EXCEPT !.state = s]
      IN  /\ n \in Items /\ n.version = m.version /\ n.token = m.token
          /\ n.linked = m.linked /\ n.pinned = m.pinned /\ n.state = s
      BY <1>1 DEF Items
<1>3. QED
      BY <1>1, <1>2 DEF m

\* Taking a cancellation back, or a verification's admission, sets the row
\* running and keeps its fence.
LEMMA ReopenedRow ==
    ASSUME ClaimInv
    PROVE  /\ Reopened \in Items /\ Reopened.version = item.version + 1
           /\ Reopened.token = item.token /\ Reopened.linked = item.linked
           /\ Reopened.pinned = item.pinned /\ Reopened.state = "running"
<1>1. item \in Items /\ "running" \in ItemStates
      BY DEF ClaimInv, Typed, ItemStates, States
<1>2. QED
      BY <1>1, StateRow DEF Reopened

\* The store takes back only the cancellation of an item that has a mission.
LEMMA ReopenStep ==
    ASSUME ClaimInv, NEW p \in Drivers, Reopen(p)
    PROVE  ItemStep
<1> DEFINE d == drv[p]
           again == [d EXCEPT !.pc = "refresh"]
           new == {Op(ReopenKey(p), d.gen, "transition", ActorOf[p], 0, item'.version, 0)}
<1>1. /\ d \in Cycles /\ d.pc = "reopen" /\ d.token = 0 /\ UNCHANGED <<mission, made, gh>>
      /\ mission' \in Missions /\ gh' \in Issues /\ live \in BOOLEAN
      BY DEF ClaimInv, Typed, Reopen, Fits, Unclaimed
<1>2. again \in Cycles /\ again.pc = "refresh" /\ again.token = 0
      BY <1>1 DEF Cycles, Pcs
<1>3. \A o \in new : o.op = "transition"
      BY DEF Op
<1>4. \/ Bail(p)
      \/ UNCHANGED <<item, live>> /\ Reply(p, again, {})
      \/ /\ ReopenAllowed(ActorOf[p], d.gen) /\ item' = Reopened /\ UNCHANGED live
         /\ Reply(p, again, new)
      BY DEF Reopen
<1> HIDE DEF again, new
<1>5. \A x, g : Fits(again, x, g)
      BY <1>2 DEF Fits, Prepared, Launching
<1>6. CASE Bail(p)
      BY <1>1, <1>6, BailKeeps
<1>7. CASE UNCHANGED <<item, live>> /\ Reply(p, again, {})
  <2>1. Driven(p) /\ \A o \in ops' : o.op = "upgrade" => o \in ops \/ item'.pinned
        BY <1>2, <1>5, <1>7, ReplyDrives
  <2>2. QED
        BY <1>1, <1>7, <2>1, DrivenKeeps
<1>8. CASE /\ ReopenAllowed(ActorOf[p], d.gen) /\ item' = Reopened /\ UNCHANGED live
           /\ Reply(p, again, new)
  <2>1. item.state = "cancelled" /\ item.linked
        BY <1>8 DEF ReopenAllowed, cancellation_event_tx
  <2>2. TakenBack /\ item' \in Items
        BY <1>1, <1>8, <2>1, ReopenedRow DEF TakenBack
  <2>3. \A o \in new : o.op = "upgrade" => item'.pinned
        BY <1>3
  <2>4. Driven(p) /\ \A o \in ops' : o.op = "upgrade" => o \in ops \/ item'.pinned
        BY <1>1, <1>2, <1>5, <1>8, <2>3, ReplyDrives
  <2>5. MissionStep /\ ~Unblocks
        BY <1>1, <2>1 DEF MissionStep, Unblocks
  <2>6. QED
        BY <1>1, <1>8, <2>2, <2>4, <2>5 DEF ItemStep, RowStep
<1>9. QED
      BY <1>4, <1>6, <1>7, <1>8

\* A renewal extends the lease of the fence's owner.
LEMMA RenewStep ==
    ASSUME ClaimInv, NEW p \in Drivers, Renew(p)
    PROVE  ItemStep
<1>1. item \in Items /\ drv[p].pc # "upgrade" /\ UNCHANGED <<mission, made, gh>>
      BY DEF Renew, ClaimInv, Typed
<1>2. /\ Renewed \in Items /\ Renewed.version = item.version + 1 /\ Renewed.token = item.token
      /\ Renewed.linked = item.linked /\ Renewed.pinned = item.pinned
      /\ Renewed.state = item.state
      BY <1>1 DEF Renewed, Items
<1>3. ASSUME ensure_active_factory_control(ActorOf[p], drv[p].token, drv[p].ver)
      PROVE  Moves(Renewed)
  <2>1. item.state \in States
        BY <1>3, ActiveRow
  <2>2. QED
        BY <1>2, <2>1 DEF Moves, ClaimInv
<1>4. PICK lease \in BOOLEAN : \E key, request, allowed :
         Fenced(p, key, "renew", request, allowed, Renewed, lease)
  <2>1. Fenced(p, <<"renew", drv[p].rev, drv[p].pc, drv[p].ver>>, "renew", drv[p].ver, TRUE,
               Renewed, TRUE)
        BY DEF Renew
  <2>2. QED
        BY <2>1, Zenon
<1>5. PICK key, request, allowed : Fenced(p, key, "renew", request, allowed, Renewed, lease)
      BY <1>4
<1>6. QED
      BY <1>1, <1>2, <1>3, <1>5, FencedStep

\* An upgrade pins the item's source, under the fence.
LEMMA UpgradeStep ==
    ASSUME ClaimInv, NEW p \in Drivers, Upgrade(p)
    PROVE  ItemStep
<1>1. item \in Items /\ UNCHANGED <<mission, made, gh>> /\ live \in BOOLEAN
      BY DEF Upgrade, ClaimInv, Typed
<1>2. /\ Upgraded \in Items /\ Upgraded.version = item.version + 1 /\ Upgraded.token = item.token
      /\ Upgraded.linked = item.linked /\ Upgraded.pinned /\ Upgraded.state = item.state
  <2> DEFINE m == Moved(item)
  <2>1. /\ m \in Items /\ m.version = item.version + 1 /\ m.token = item.token
        /\ m.linked = item.linked /\ m.state = item.state
        BY <1>1, MovedRow
  <2>2. Upgraded = [m EXCEPT !.pinned = TRUE]
        BY DEF Upgraded
  <2> HIDE DEF m
  <2>3. QED
        BY <2>1, <2>2 DEF Items
<1>3. ASSUME ensure_active_factory_control(ActorOf[p], drv[p].token, drv[p].ver)
      PROVE  Moves(Upgraded)
  <2>1. item.state \in States
        BY <1>3, ActiveRow
  <2>2. QED
        BY <1>2, <2>1 DEF Moves, ClaimInv
<1>4. Fenced(p, <<"upgrade", drv[p].rev>>, "upgrade", drv[p].ver, UpgradeAllowed, Upgraded, live)
      BY DEF Upgrade
<1>5. /\ ensure_active_factory_control(ActorOf[p], drv[p].token, drv[p].ver) /\ UpgradeAllowed
            => Moves(Upgraded)
      /\ Upgraded \in Items /\ Upgraded.pinned /\ Upgraded.state = item.state
      BY <1>2, <1>3
<1>6. QED
      BY <1>1, <1>4, <1>5, FencedStep, Zenon

\* A transition follows the table of states.
LEMMA TransitionStep ==
    ASSUME ClaimInv, NEW p \in Drivers, Transition(p)
    PROVE  ItemStep
<1> DEFINE d == drv[p]
           lease == live /\ (item.linked \/ d.aim # "blocked")
<1>1. /\ item \in Items /\ UNCHANGED <<mission, made, gh>> /\ d \in Cycles /\ lease \in BOOLEAN
      /\ drv \in [Drivers -> Cycles]
      /\ d.pc \in {"settle", "block:status", "block:project", "block:launch", "block:mission"}
      BY DEF Transition, ClaimInv, Typed
<1>2. d.aim \in ItemStates
      BY <1>1 DEF Cycles
<1>3. LET r == Transitioned(d.aim)
      IN  /\ r \in Items /\ r.version = item.version + 1 /\ r.token = item.token
          /\ r.linked = item.linked /\ r.pinned = item.pinned /\ r.state = d.aim
  <2> DEFINE n == [Moved(item) EXCEPT !.state = d.aim]
             o == (item.state = "running" /\ d.aim = "cancelled")
  <2>1. /\ n \in Items /\ n.version = item.version + 1 /\ n.token = item.token
        /\ n.linked = item.linked /\ n.pinned = item.pinned /\ n.state = d.aim
        BY <1>1, <1>2, StateRow
  <2>2. Transitioned(d.aim) = [n EXCEPT !.origin = o] /\ o \in BOOLEAN
        BY DEF Transitioned
  <2> HIDE DEF n, o
  <2>3. QED
        BY <2>1, <2>2 DEF Items
<1>4. ASSUME TransitionAllowed(d.aim)
      PROVE  Moves(Transitioned(d.aim))
  <2>1. factory_transition_allowed(item.state, d.aim)
        BY <1>4 DEF TransitionAllowed
  <2>2. d.aim \in States
        BY <2>1 DEF factory_transition_allowed, States, Terminal
  <2>3. QED
        BY <1>3, <1>4, <2>2 DEF Moves, TransitionAllowed, Bare
<1>5. PICK key, request :
         Fenced(p, key, "transition", request, TransitionAllowed(d.aim), Transitioned(d.aim), lease)
      BY DEF Transition
<1>6. drv' = [drv EXCEPT ![p] = Idle]
  <2>1. \A r : Then(p, r) = Idle
        BY <1>1 DEF Then
  <2>2. QED
        BY <1>5, <2>1 DEF Fenced, Reply, Bail
<1>7. drv' # drv
      BY <1>1, <1>6 DEF Idle
<1> HIDE DEF d, lease
<1>8. drv[p].pc # "upgrade"
      BY <1>1 DEF d
<1>9. QED
      BY <1>1, <1>3, <1>4, <1>5, <1>7, <1>8, FencedStep

-----------------------------------------------------------------------------
(* Materialization and its refusal.                                         *)
LEMMA MaterializeStep ==
    ASSUME ClaimInv, NEW p \in Drivers, Materialize(p)
    PROVE  ItemStep
<1>1. /\ item \in Items /\ drv[p] \in Cycles /\ gh' = gh /\ gh \in Issues /\ live \in BOOLEAN
      /\ drv[p].pc = "materialize" /\ item.pinned /\ mission \in Missions
      BY DEF ClaimInv, Typed, Materialize, Fits, Prepared
<1>2. ASSUME NEW r \in Items, r.pinned
      PROVE  /\ Answered(p, r, "project-status") \in Cycles
             /\ Fits(Answered(p, r, "project-status"), r, gh)
  <2>1. "project-status" \in (Pcs \ Unclaimed) \ Launching
        BY DEF Pcs, Unclaimed, Launching
  <2>2. QED
        BY <1>1, <1>2, <2>1, AnsweredCycle DEF Fits
<1>3. CASE MaterializeReplayed(p)
  <2>1. UNCHANGED <<item, live, mission, made>> /\ Reply(p, Answered(p, item, "project-status"), {})
        BY <1>3 DEF MaterializeReplayed
  <2>2. Driven(p) /\ \A o \in ops' : o.op = "upgrade" => o \in ops \/ item'.pinned
        BY <1>1, <1>2, <2>1, ReplyDrives
  <2>3. QED
        BY <1>1, <2>1, <2>2, DrivenKeeps
<1>4. CASE MaterializeCreates(p)
  <2> DEFINE new == {Op(MaterializeKey(p), drv[p].ver, "materialize", ActorOf[p], drv[p].token,
                        item'.version, 0)}
  <2>1. /\ ensure_active_factory_control(ActorOf[p], drv[p].token, drv[p].ver)
        /\ item.state = "claimed" /\ ~item.linked
        /\ item' = Materialized /\ mission' = NewMission /\ made' = made + 1 /\ live' = live
        /\ Reply(p, Answered(p, item', "project-status"), new)
        BY <1>4 DEF MaterializeCreates, ensure_materializable_factory_claim
  <2>2. /\ Materialized \in Items /\ Materialized.version = item.version + 1
        /\ Materialized.token = item.token /\ Materialized.linked
        /\ Materialized.pinned = item.pinned /\ Materialized.state = "mission_created"
    <3> DEFINE m == [Moved(item) EXCEPT !.state = "mission_created"]
    <3>1. "mission_created" \in ItemStates
          BY DEF ItemStates, States
    <3>2. /\ m \in Items /\ m.version = item.version + 1 /\ m.token = item.token
          /\ m.pinned = item.pinned /\ m.state = "mission_created"
          BY <1>1, <3>1, StateRow
    <3>3. Materialized = [m EXCEPT !.linked = TRUE]
          BY DEF Materialized
    <3> HIDE DEF m
    <3>4. QED
          BY <3>2, <3>3 DEF Items
  <2>3. NewMission \in Missions /\ ~NewMission.runs
        BY DEF NewMission, Missions, Owners
  <2>4. item.token = drv[p].token
        BY <2>1, ActiveRow
  <2>5. \A o \in new : o.op = "materialize"
        BY DEF Op
  <2> HIDE DEF new
  <2>6. Driven(p) /\ \A o \in ops' : o.op = "upgrade" => o \in ops \/ item'.pinned
    <3>1. item' \in Items /\ item'.pinned
          BY <1>1, <2>1, <2>2
    <3>2. /\ Answered(p, item', "project-status") \in Cycles
          /\ Fits(Answered(p, item', "project-status"), item', gh')
          BY <1>1, <1>2, <3>1
    <3>3. QED
          BY <2>1, <2>4, <2>5, <3>2, ReplyDrives
  <2>7. GivenMission
        BY <2>1, <2>2 DEF GivenMission
  <2>8. MissionStep /\ ~Unblocks
        BY <2>1, <2>3, <2>7 DEF MissionStep, Unblocks
  <2>9. QED
        BY <1>1, <2>1, <2>2, <2>3, <2>6, <2>7, <2>8 DEF ItemStep, RowStep
<1>5. CASE UNCHANGED <<mission, made>> /\ Bail(p)
      BY <1>1, <1>5, BailKeeps
<1>6. QED
      BY <1>3, <1>4, <1>5 DEF Materialize

\* A refused materialization parks a claimed item, under the fence.
LEMMA RejectStep ==
    ASSUME ClaimInv, NEW p \in Drivers, RejectMaterialization(p)
    PROVE  ItemStep
<1> DEFINE key == <<"rejected", drv[p].ver, drv[p].rev, drv[p].token>>
           new == {Op(key, drv[p].ver, "materialize_rejected", ActorOf[p], drv[p].token,
                      item'.version, drv[p].ver)}
<1>1. item \in Items /\ live \in BOOLEAN /\ UNCHANGED <<mission, made, gh>>
      /\ mission \in Missions /\ gh \in Issues
      BY DEF ClaimInv, Typed, RejectMaterialization
<1>2. CASE Bail(p)
      BY <1>1, <1>2, BailKeeps
<1>3. CASE /\ RejectAllowed(p)
           /\ item' = IF item.state = "claimed" THEN Parked ELSE item
           /\ live' = (live /\ item.state # "claimed")
           /\ drv' = [drv EXCEPT ![p] = Idle] /\ Remember(new)
  <2>1. item.token = drv[p].token /\ ~item.linked /\ item.state \in {"claimed", "blocked"}
        BY <1>3 DEF RejectAllowed
  <2>2. /\ Parked \in Items /\ Parked.version = item.version + 1
        /\ Parked.token = item.token /\ Parked.linked = item.linked
        /\ Parked.pinned = item.pinned /\ Parked.state = "blocked"
    <3>1. "blocked" \in ItemStates
          BY DEF ItemStates, States
    <3>2. QED
          BY <1>1, <3>1, StateRow DEF Parked
  <2>3. item' \in Items /\ live' \in BOOLEAN /\ ~Unblocks
        BY <1>1, <1>3, <2>2 DEF Unblocks
  <2>4. \A o \in new : o.op = "materialize_rejected"
        BY DEF Op
  <2> HIDE DEF new
  <2>5. \A o \in ops' : o.op = "upgrade" => o \in ops \/ item'.pinned
        BY <1>3, <2>4 DEF Remember
  <2>6. Driven(p)
        BY <1>3, <2>1, IdleCycle DEF Driven
  <2>7. RowStep
    <3>1. CASE item.state = "claimed"
      <4>1. item' = Parked
            BY <1>3, <3>1
      <4>2. Advanced
            BY <1>1, <2>1, <2>2, <3>1, <4>1 DEF Advanced, States, Terminal, Bare
      <4>3. QED
            BY <4>2 DEF RowStep
    <3>2. CASE item.state # "claimed"
          BY <1>1, <1>3, <3>2 DEF Kept, RowStep
    <3>3. QED
          BY <3>1, <3>2
  <2>8. MissionStep
        BY <1>1 DEF MissionStep
  <2>9. QED
        BY <1>1, <2>3, <2>5, <2>6, <2>7, <2>8 DEF ItemStep
<1>4. QED
      BY <1>2, <1>3 DEF RejectMaterialization

-----------------------------------------------------------------------------
(* Effects outside the store.                                                *)

(* A driver's step that leaves the row alone.                                *)
LEMMA DrivenOutside ==
    ASSUME ClaimInv, NEW p \in Drivers, Driven(p), UNCHANGED <<item, live, made>>,
           mission' \in Missions, MissionStep, gh' \in Issues, gh.moved => gh'.moved,
           \A o \in ops' : o.op = "upgrade" => o \in ops \/ item'.pinned
    PROVE  ItemStep
<1>1. RowStep /\ ~Unblocks
      BY DEF RowStep, Kept, Unblocks
<1>2. item' \in Items /\ live' \in BOOLEAN
      BY DEF ClaimInv, Typed
<1>3. QED
      BY <1>1, <1>2 DEF ItemStep

\* Moving the issue on the project board writes no row.
LEMMA ProjectStep ==
    ASSUME ClaimInv, NEW p \in Drivers, set_project_in_progress(p)
    PROVE  ItemStep
<1> DEFINE done == [gh EXCEPT !.status = IF drv[p].was = "In Progress" THEN @ ELSE "In Progress",
                              !.moved = TRUE]
           on == [drv[p] EXCEPT !.pc = "mission-launch", !.was = "Todo"]
           parked == BlockAt(drv[p], drv[p].st, "block:project")
<1>1. /\ drv[p] \in Cycles /\ gh \in Issues /\ mission \in Missions /\ item.pinned
      /\ UNCHANGED <<item, live, made, mission>>
      BY DEF ClaimInv, Typed, set_project_in_progress, Fits, Prepared
<1>2. done \in Issues /\ done.moved
      BY <1>1 DEF Issues
<1>3. gh' \in {gh, done} /\ ((gh' = done /\ Reply(p, on, {})) \/ Reply(p, parked, {}))
      BY DEF set_project_in_progress
<1>4. on \in Cycles /\ on.pc = "mission-launch"
      BY <1>1 DEF Cycles, Pcs
<1>5. parked \in Cycles /\ \A r, g : Fits(parked, r, g)
  <2>1. drv[p].st \in ItemStates
        BY <1>1 DEF Cycles
  <2>2. QED
        BY <1>1, <2>1, BlockedCycle
<1> HIDE DEF done, on, parked
<1>6. gh' = done => Fits(on, item', gh')
      BY <1>1, <1>2, <1>4 DEF Fits, Unclaimed
<1>7. Driven(p) /\ \A o \in ops' : o.op = "upgrade" => o \in ops \/ item'.pinned
  <2>1. CASE gh' = done /\ Reply(p, on, {})
        BY <1>1, <1>4, <1>6, <2>1, ReplyDrives
  <2>2. CASE Reply(p, parked, {})
        BY <1>1, <1>5, <2>2, ReplyDrives
  <2>3. QED
        BY <1>3, <2>1, <2>2
<1>8. gh' \in Issues /\ (gh.moved => gh'.moved)
      BY <1>1, <1>2, <1>3
<1>9. MissionStep /\ mission' \in Missions
      BY <1>1 DEF MissionStep
<1>10. QED
      BY <1>1, <1>7, <1>8, <1>9, DrivenOutside

\* What a driver does after a launch answers to the mission it found.
LEMMA AfterLaunchFits ==
    ASSUME NEW d \in Cycles, NEW m \in Missions
    PROVE  AfterLaunch(d, m) \in Cycles /\ \A r, g : Fits(AfterLaunch(d, m), r, g)
<1> DEFINE aim == Settled(m, d.st)
           on == [d EXCEPT !.pc = "settle", !.aim = aim]
<1>1. aim \in ItemStates
  <2>1. m.status \in {"failed", "cancelled"} =>
           aim \in {"verification_failed", "failed", "cancelled", "none"}
    <3>1. CASE m.status = "failed"
          BY <3>1 DEF Settled, factory_completion_is_ready
    <3>2. CASE m.status = "cancelled"
          BY <3>2 DEF Settled, factory_completion_is_ready
    <3>3. QED
          BY <3>1, <3>2
  <2>2. m.status \notin {"failed", "cancelled"} =>
           aim \in {"awaiting_approval", "running", "verified", "none"}
        BY DEF Settled, factory_completion_is_ready
  <2>3. QED
        BY <2>1, <2>2 DEF ItemStates, States, Terminal
<1> HIDE DEF aim
<1>2. on \in Cycles /\ on.pc = "settle"
      BY <1>1 DEF Cycles, Pcs
<1>3. AfterLaunch(d, m) \in {Idle, on}
      BY DEF AfterLaunch, aim
<1> HIDE DEF on
<1>4. \A r, g : Fits(on, r, g)
      BY <1>2 DEF Fits, Unclaimed, Prepared, Launching
<1>5. QED
      BY <1>2, <1>3, <1>4, IdleCycle

\* A launch runs the mission or reports it, and leaves the row alone.
LEMMA LaunchStep ==
    ASSUME ClaimInv, NEW p \in Drivers, Launch(p)
    PROVE  ItemStep
<1>1. /\ drv[p] \in Cycles /\ gh \in Issues /\ mission \in Missions /\ item.pinned /\ gh.moved
      /\ UNCHANGED <<item, live, made, gh>>
      BY DEF ClaimInv, Typed, Launch, Fits, Prepared, Launching
<1>2. CASE mission' = mission
  <2>1. \E n \in Cycles : Reply(p, n, {}) /\ Fits(n, item', gh')
    <3>1. drv[p].st \in ItemStates
          BY <1>1 DEF Cycles
    <3>2. /\ AfterLaunch(drv[p], mission) \in Cycles
          /\ \A r, g : Fits(AfterLaunch(drv[p], mission), r, g)
          BY <1>1, AfterLaunchFits
    <3>3. /\ AfterLaunch(drv[p], mission') \in Cycles
          /\ \A r, g : Fits(AfterLaunch(drv[p], mission'), r, g)
          BY <1>2, <3>2
    <3>4. /\ BlockAt(drv[p], drv[p].st, "block:mission") \in Cycles
          /\ \A r, g : Fits(BlockAt(drv[p], drv[p].st, "block:mission"), r, g)
          BY <1>1, <3>1, BlockedCycle
    <3>5. QED
          BY <3>2, <3>3, <3>4 DEF Launch
  <2>2. Driven(p) /\ \A o \in ops' : o.op = "upgrade" => o \in ops \/ item'.pinned
        BY <1>1, <2>1, ReplyDrives
  <2>3. QED
        BY <1>1, <1>2, <2>2, DrivenOutside DEF MissionStep
<1>3. CASE /\ ~mission.runs /\ mission.status = "ready"
           /\ mission' = [mission EXCEPT !.status = "running", !.runs = TRUE]
           /\ Reply(p, AfterLaunch(drv[p], mission'), {})
  <2>1. mission' \in Missions
        BY <1>1, <1>3 DEF Missions
  <2>2. AfterLaunch(drv[p], mission') \in Cycles /\ \A r, g : Fits(AfterLaunch(drv[p], mission'), r, g)
        BY <1>1, <2>1, AfterLaunchFits
  <2>3. Driven(p) /\ \A o \in ops' : o.op = "upgrade" => o \in ops \/ item'.pinned
        BY <1>1, <1>3, <2>2, ReplyDrives
  <2>4. MissionStep
        BY <1>1, <1>3 DEF MissionStep
  <2>5. QED
        BY <1>1, <2>1, <2>3, <2>4, DrivenOutside
<1>4. QED
      BY <1>2, <1>3 DEF Launch

\* A verification of a checkpoint is admitted under the fence.
LEMMA RecoverStep ==
    ASSUME ClaimInv, NEW p \in Drivers, RecoverCheckpoint(p)
    PROVE  ItemStep
<1> DEFINE a == ActorOf[p]
           d == drv[p]
<1>1. /\ d \in Cycles /\ gh \in Issues /\ mission \in Missions /\ item \in Items
      /\ live \in BOOLEAN /\ UNCHANGED <<made, gh>> /\ a \in Owners
      /\ drv \in [Drivers -> Cycles] /\ d.pc = "launch"
      BY DEF ClaimInv, Typed, RecoverCheckpoint, Owners
<1>2. ASSUME NEW x \in Items, NEW m \in Missions
      PROVE  /\ Recovered(p, x, m) \in Cycles /\ \A r, g : Fits(Recovered(p, x, m), r, g)
  <2> DEFINE e == [d EXCEPT !.st = x.state, !.ver = x.version]
  <2>1. e \in Cycles
        BY <1>1 DEF Cycles, Items
  <2>2. Recovered(p, x, m) = AfterLaunch(e, m)
        BY DEF Recovered
  <2> HIDE DEF e
  <2>3. QED
        BY <2>1, <2>2, AfterLaunchFits
<1>3. CASE /\ UNCHANGED <<item, live, mission>>
           /\ Reply(p, Recovered(p, item, [mission EXCEPT !.awaiting = FALSE]), {})
  <2> DEFINE m == [mission EXCEPT !.awaiting = FALSE]
  <2>1. m \in Missions
        BY <1>1 DEF Missions
  <2>2. Reply(p, Recovered(p, item, m), {})
        BY <1>3
  <2> HIDE DEF m
  <2>3. Driven(p) /\ \A o \in ops' : o.op = "upgrade" => o \in ops \/ item'.pinned
        BY <1>1, <1>2, <1>3, <2>1, <2>2, ReplyDrives
  <2>4. QED
        BY <1>1, <1>3, <2>3, DrivenKeeps
<1>4. CASE /\ AdmitAllowed(a, d.token, d.ver)
           /\ item' = Reopened /\ mission' = Admitted(a) /\ UNCHANGED live
           /\ Reply(p, Recovered(p, item', mission'), {})
  <2>1. /\ item.state \in States \ Terminal /\ item.token = d.token
        BY <1>4, ActiveRow DEF AdmitAllowed
  <2>2. /\ mission.status \in {"failed", "cancelled"}
        /\ item.state \in {"running", "verification_failed"} \/ item.origin
        BY <1>4 DEF AdmitAllowed
  <2>3. mission' \in Missions /\ mission'.status = "running"
        BY <1>1, <1>4 DEF Admitted, Missions
  <2>4. /\ item' \in Items /\ item'.version = item.version + 1 /\ item'.token = item.token
        /\ item'.linked = item.linked /\ item'.pinned = item.pinned /\ item'.state = "running"
        BY <1>4, ReopenedRow
  <2>5. item.linked
        BY <2>2 DEF ClaimInv
  <2>6. Advanced
        BY <1>1, <2>1, <2>4, <2>5 DEF Advanced, States
  <2>7. MissionStep
        BY <2>2 DEF MissionStep
  <2>8. Driven(p) /\ \A o \in ops' : o.op = "upgrade" => o \in ops \/ item'.pinned
    <3>1. Recovered(p, item', mission') \in Cycles
          /\ \A r, g : Fits(Recovered(p, item', mission'), r, g)
          BY <1>2, <2>3, <2>4
    <3>2. QED
          BY <1>4, <2>1, <3>1, ReplyDrives
  <2>9. Unblocks => item.origin
        BY <2>2 DEF Unblocks
  <2>10. QED
        BY <1>1, <1>4, <2>3, <2>4, <2>6, <2>7, <2>8, <2>9 DEF ItemStep, RowStep
<1>5. CASE UNCHANGED mission /\ Bail(p)
      BY <1>1, <1>5, BailKeeps
<1>6. QED
      BY <1>3, <1>4, <1>5 DEF RecoverCheckpoint

-----------------------------------------------------------------------------
(* The mission's own end, time and people.                                   *)
LEMMA OutcomeStep ==
    ASSUME ClaimInv, NEW m \in Missions, NEW r \in Items, Outcome(m, r),
           mission.status \notin {"none", "completed"} \/ m.status = mission.status,
           \/ r = item
           \/ /\ item.state \in States \ Terminal /\ item.linked
              /\ r.version = item.version + 1 /\ r.token = item.token /\ r.linked = item.linked
              /\ r.pinned = item.pinned /\ r.state \in States
              /\ r.state = "verified" => m.status = "completed",
           item.state = "blocked" /\ r.state = "running" => item.origin
    PROVE  ItemStep
<1>1. /\ mission' = m /\ item' = r /\ UNCHANGED <<live, ops, made, gh, drv>>
      BY DEF Outcome
<1>2. live' \in BOOLEAN /\ gh' \in Issues
      BY <1>1 DEF ClaimInv, Typed
<1>3. RowStep
  <2>1. CASE r = item
        BY <1>1, <2>1 DEF RowStep, Kept
  <2>2. CASE r # item
        BY <1>1, <2>2 DEF RowStep, Advanced
  <2>3. QED
        BY <2>1, <2>2
<1>4. MissionStep
      BY <1>1 DEF MissionStep
<1>5. QED
      BY <1>1, <1>2, <1>3, <1>4 DEF ItemStep, Unblocks

\* What becomes of the mission and of its workspace keeps the row in step
\* with it.
LEMMA OutcomeSteps ==
    ASSUME ClaimInv,
           \/ MissionAwaits \/ MissionCompletes \/ MissionRejected \/ MissionFails
           \/ MissionResumes \/ MissionCancelled \/ CheckpointKept \/ WorkspaceFinalized
    PROVE  ItemStep
<1>1. item \in Items /\ mission \in Missions /\ item.state \in ItemStates
      BY DEF ClaimInv, Typed, Items
<1>2. mission.status # "none" => item.linked
      BY DEF ClaimInv
<1>3. ASSUME NEW s \in States
      PROVE  LET r == [Moved(item) EXCEPT !.state = s]
             IN  /\ r \in Items /\ r.version = item.version + 1 /\ r.token = item.token
                 /\ r.linked = item.linked /\ r.pinned = item.pinned /\ r.state = s
  <2>1. s \in ItemStates
        BY DEF ItemStates
  <2>2. QED
        BY <1>1, <2>1, StateRow
<1>4. {"verified", "verification_failed", "awaiting_approval", "blocked", "running"} \subseteq States
      BY DEF States
<1>5. \A s \in {"claimed", "mission_created", "running", "awaiting_approval", "blocked"} :
         s \in States \ Terminal
      BY DEF States, Terminal
<1>6. CASE MissionAwaits
  <2> DEFINE m == [mission EXCEPT !.awaiting = TRUE]
             r == reconcile_factory_awaiting_approval_tx
  <2>1. m \in Missions /\ m.status = mission.status
        BY <1>1 DEF Missions
  <2>2. Outcome(m, r) /\ r # Absent /\ mission.status = "running"
        BY <1>6 DEF MissionAwaits, Outcome
  <2>3. \/ r = item
        \/ item.state \in {"mission_created", "running"} /\ r = [Moved(item) EXCEPT !.state = "awaiting_approval"]
        BY <2>2 DEF reconcile_factory_awaiting_approval_tx
  <2> HIDE DEF m, r
  <2>4. QED
        BY <1>1, <1>2, <1>3, <1>4, <1>5, <2>1, <2>2, <2>3, OutcomeStep
<1>7. CASE MissionCompletes
  <2> DEFINE m == [mission EXCEPT !.status = "completed", !.awaiting = FALSE, !.clean = FALSE]
             r == reconcile_factory_verified_tx
  <2>1. m \in Missions /\ m.status = "completed"
        BY <1>1 DEF Missions
  <2>2. Outcome(m, r) /\ r # Absent /\ mission.status = "running"
        BY <1>7 DEF MissionCompletes, Outcome
  <2>3. \/ r = item
        \/ item.state \in {"mission_created", "running", "awaiting_approval"}
             /\ r = [Moved(item) EXCEPT !.state = "verified"]
        BY <2>2 DEF reconcile_factory_verified_tx
  <2> HIDE DEF m, r
  <2>4. QED
        BY <1>1, <1>2, <1>3, <1>4, <1>5, <2>1, <2>2, <2>3, OutcomeStep
<1>8. CASE MissionRejected
  <2> DEFINE m == [mission EXCEPT !.status = "failed", !.vfail = TRUE, !.awaiting = FALSE]
             r == reconcile_factory_verification_failure_tx
  <2>1. m \in Missions /\ m.status = "failed"
        BY <1>1 DEF Missions
  <2>2. Outcome(m, r) /\ r # Absent /\ mission.status = "running"
        BY <1>8 DEF MissionRejected, Outcome
  <2>3. \/ r = item
        \/ item.state \in {"mission_created", "running", "awaiting_approval"}
             /\ r = [Moved(item) EXCEPT !.state = "verification_failed"]
        BY <2>2 DEF reconcile_factory_verification_failure_tx
  <2> HIDE DEF m, r
  <2>4. QED
        BY <1>1, <1>2, <1>3, <1>4, <1>5, <2>1, <2>2, <2>3, OutcomeStep
<1>9. CASE MissionFails
  <2> DEFINE m == [mission EXCEPT !.status = "failed", !.by = "none"]
             r == reconcile_run_failure_tx
             n == [Moved(item) EXCEPT !.state = "blocked"]
  <2>1. m \in Missions /\ m.status = "failed"
        BY <1>1 DEF Missions, Owners
  <2>2. Outcome(m, r) /\ r # Absent /\ mission.status = "running"
        BY <1>9 DEF MissionFails, Outcome
  <2>3. \/ r = item
        \/ item.state \in {"claimed", "mission_created", "running", "awaiting_approval"}
             /\ r = [n EXCEPT !.origin = TRUE]
        BY <2>2 DEF reconcile_run_failure_tx
  <2>4. /\ n \in Items /\ n.version = item.version + 1 /\ n.token = item.token
        /\ n.linked = item.linked /\ n.pinned = item.pinned /\ n.state = "blocked"
        BY <1>3, <1>4
  <2> HIDE DEF m, r, n
  <2>5. LET b == [n EXCEPT !.origin = TRUE]
        IN  /\ b \in Items /\ b.version = item.version + 1 /\ b.token = item.token
            /\ b.linked = item.linked /\ b.pinned = item.pinned /\ b.state = "blocked"
        BY <2>4 DEF Items
  <2>6. QED
        BY <1>1, <1>2, <1>4, <1>5, <2>1, <2>2, <2>3, <2>5, OutcomeStep
<1>10. CASE MissionResumes
  <2> DEFINE m == [mission EXCEPT !.status = "running"]
             r == resume_tx
  <2>1. m \in Missions /\ m.status = "running"
        BY <1>1 DEF Missions
  <2>2. Outcome(m, r) /\ r # Absent /\ mission.status = "failed"
        BY <1>10 DEF MissionResumes, Outcome
  <2>3. \/ r = item
        \/ item.state = "blocked" /\ item.origin /\ r = [Moved(item) EXCEPT !.state = "running"]
        BY <2>2 DEF resume_tx
  <2> HIDE DEF m, r
  <2>4. CASE r = item
        BY <1>1, <2>1, <2>2, <2>4, OutcomeStep
  <2>5. CASE r # item
    <3>1. /\ r \in Items /\ r.version = item.version + 1 /\ r.token = item.token
          /\ r.linked = item.linked /\ r.pinned = item.pinned /\ r.state = "running"
      <4>1. r = [Moved(item) EXCEPT !.state = "running"] /\ "running" \in States
            BY <1>4, <2>3, <2>5
      <4>2. QED
            BY <1>3, <4>1
    <3>2. item.origin /\ item.state \in States \ Terminal /\ item.linked
          BY <1>2, <1>5, <2>2, <2>3, <2>5
    <3>3. QED
          BY <1>4, <2>1, <2>2, <3>1, <3>2, OutcomeStep
  <2>6. QED
        BY <2>4, <2>5
<1>11. CASE MissionCancelled
  <2> DEFINE m == [mission EXCEPT !.status = "cancelled", !.awaiting = FALSE, !.kept = FALSE,
                                  !.by = "none"]
  <2>1. m \in Missions /\ m.status = "cancelled"
        BY <1>1 DEF Missions, Owners
  <2>2. Outcome(m, item) /\ mission.status \in {"ready", "running"}
        BY <1>11 DEF MissionCancelled
  <2> HIDE DEF m
  <2>3. QED
        BY <1>1, <2>1, <2>2, OutcomeStep
<1>12. CASE WorkspaceFinalized
  <2> DEFINE m == [mission EXCEPT !.clean = TRUE]
  <2>1. m \in Missions /\ m.status = mission.status
        BY <1>1 DEF Missions
  <2>2. Outcome(m, item)
        BY <1>12 DEF WorkspaceFinalized
  <2> HIDE DEF m
  <2>3. QED
        BY <1>1, <2>1, <2>2, OutcomeStep
<1>13. CASE CheckpointKept
  <2> DEFINE m == [mission EXCEPT !.kept = TRUE]
  <2>1. m \in Missions /\ m.status = mission.status
        BY <1>1 DEF Missions
  <2>2. Outcome(m, item)
        BY <1>13 DEF CheckpointKept
  <2> HIDE DEF m
  <2>3. QED
        BY <1>1, <2>1, <2>2, OutcomeStep
<1>14. QED
      BY <1>6, <1>7, <1>8, <1>9, <1>10, <1>11, <1>12, <1>13

\* An operator's launch touches the mission alone.
LEMMA OperatorStep ==
    ASSUME ClaimInv, OperatorLaunch
    PROVE  ItemStep
<1>1. /\ UNCHANGED <<item, live, ops, made, gh, drv>> /\ mission.status = "ready"
      /\ mission' = [mission EXCEPT !.status = "running", !.runs = TRUE]
      BY DEF OperatorLaunch, row
<1>2. /\ item' \in Items /\ live' \in BOOLEAN /\ mission' \in Missions /\ gh' \in Issues
      BY <1>1 DEF ClaimInv, Typed, Missions
<1>3. RowStep /\ MissionStep /\ ~Unblocks
      BY <1>1 DEF RowStep, Kept, MissionStep, Unblocks
<1>4. QED
      BY <1>1, <1>2, <1>3 DEF ItemStep

\* A lease that lapses and an issue that changes move no row.
LEMMA QuietStep ==
    ASSUME ClaimInv, UNCHANGED <<item, ops, mission, made, drv>>, live' \in BOOLEAN,
           live' => live, gh' \in Issues, gh'.moved = gh.moved
    PROVE  ItemStep
<1>1. item' \in Items /\ mission' \in Missions
      BY DEF ClaimInv, Typed
<1>2. RowStep /\ MissionStep /\ ~Unblocks
      BY DEF RowStep, Kept, MissionStep, Unblocks
<1>3. QED
      BY <1>1, <1>2 DEF ItemStep

(* Every step of the system is one of the steps of the row.                  *)
LEMMA StepShape == ClaimInv /\ [Next]_vars => ItemStep
<1> SUFFICES ASSUME ClaimInv, [Next]_vars
             PROVE  ItemStep
    OBVIOUS
<1>0. live \in BOOLEAN /\ gh \in Issues
      BY DEF ClaimInv, Typed
<1>1. ASSUME NEW p \in Drivers, Drive(p)
      PROVE  ItemStep
      BY <1>1, SelectStep, ReopenStep, RefreshStep, ClaimStep, UpgradeStep, MaterializeStep,
         RejectStep, RenewStep, ProjectStep, LaunchStep, RecoverStep, TransitionStep
      DEF Drive
<1>2. ASSUME NEW p \in Drivers, Crash(p)
      PROVE  ItemStep
  <2>1. UNCHANGED <<item, live, ops, mission, made, gh>> /\ drv' = [drv EXCEPT ![p] = Idle]
        BY <1>2 DEF Crash, row
  <2>2. Driven(p)
        BY <2>1, IdleCycle DEF Driven
  <2>3. QED
        BY <2>1, <2>2, DrivenKeeps
<1>3. CASE \/ MissionAwaits \/ MissionCompletes \/ MissionRejected \/ MissionFails
           \/ MissionResumes \/ MissionCancelled \/ CheckpointKept \/ WorkspaceFinalized
      BY <1>3, OutcomeSteps
<1>4. CASE LeaseExpires
      BY <1>0, <1>4, QuietStep DEF LeaseExpires
<1>5. CASE EditIssue
  <2>1. UNCHANGED <<item, live, ops, mission, made, drv>>
        BY <1>5 DEF EditIssue, row
  <2>2. gh' \in Issues /\ gh'.moved = gh.moved
    <3>1. CASE gh' = [gh EXCEPT !.rev = @ + 1]
      <4> DEFINE n == gh.rev + 1
      <4>1. gh.rev \in Nat
            BY <1>0 DEF Issues
      <4>2. n \in Nat
            BY <4>1
      <4>3. gh' = [gh EXCEPT !.rev = n]
            BY <3>1
      <4> HIDE DEF n
      <4>4. gh' \in Issues
            BY <1>0, <4>2, <4>3 DEF Issues
      <4>5. gh'.moved = gh.moved
            BY <1>0, <3>1 DEF Issues
      <4>6. QED
            BY <4>4, <4>5
    <3>2. CASE \E s \in {"Todo", "Done"} : gh' = [gh EXCEPT !.status = s]
          BY <1>0, <3>2 DEF Issues
    <3>3. CASE gh' = [gh EXCEPT !.ready = ~@]
          BY <1>0, <3>3 DEF Issues
    <3>4. QED
          BY <1>5, <3>1, <3>2, <3>3 DEF EditIssue
  <2>3. QED
        BY <1>0, <2>1, <2>2, QuietStep
<1>6. CASE UNCHANGED vars
      BY <1>0, <1>6, QuietStep DEF vars
<1>7. CASE OperatorLaunch
      BY <1>7, OperatorStep
<1>8. QED
      BY <1>1, <1>2, <1>3, <1>4, <1>5, <1>6, <1>7 DEF Next

-----------------------------------------------------------------------------
\* The invariant holds before the first claim.
LEMMA InitClaim == Init => ClaimInv
<1> SUFFICES ASSUME Init PROVE ClaimInv
    OBVIOUS
<1>1. ASSUME NEW p \in Drivers
      PROVE  /\ Legacy(ActorOf[p]) \in Items /\ Legacy(ActorOf[p]).state = "claimed"
             /\ Legacy(ActorOf[p]).linked = FALSE
  <2> DEFINE l == [Absent EXCEPT !.state = "claimed", !.version = 1, !.owner = ActorOf[p],
                                 !.token = 1, !.rev = 1]
  <2>1. "claimed" \in ItemStates /\ ActorOf[p] \in Owners
        BY DEF ItemStates, States, Owners
  <2>2. l \in Items /\ l.state = "claimed" /\ l.linked = FALSE
        BY <2>1, EmptyRow DEF Items
  <2>3. Legacy(ActorOf[p]) = [l EXCEPT !.pinned = FALSE]
        BY DEF Legacy
  <2> HIDE DEF l
  <2>4. QED
        BY <2>2, <2>3 DEF Items
<1>2. ASSUME NEW p \in Drivers
      PROVE  /\ Left(ActorOf[p]) \in Items /\ Left(ActorOf[p]).state = "cancelled"
             /\ Left(ActorOf[p]).linked = TRUE /\ Left(ActorOf[p]).pinned = TRUE
  <2> DEFINE l == [Absent EXCEPT !.state = "cancelled", !.version = 4, !.owner = ActorOf[p],
                                 !.token = 1, !.rev = 1]
  <2>1. "cancelled" \in ItemStates /\ ActorOf[p] \in Owners
        BY DEF ItemStates, States, Terminal, Owners
  <2>2. l \in Items /\ l.state = "cancelled" /\ l.pinned = TRUE
        BY <2>1, EmptyRow DEF Items
  <2>3. Left(ActorOf[p]) = [l EXCEPT !.linked = TRUE, !.origin = TRUE]
        BY DEF Left
  <2> HIDE DEF l
  <2>4. QED
        BY <2>2, <2>3 DEF Items
<1>3. /\ live = FALSE /\ drv \in [Drivers -> Cycles] /\ \A p \in Drivers : drv[p] = Idle
      BY IdleCycle DEF Init
<1>4. CASE InitNew
  <2>1. item \in Items /\ item.linked = FALSE /\ item.state \in {"none", "claimed"}
        /\ (item.state = "none" => item = Absent)
        BY <1>1, <1>4, EmptyRow DEF InitNew
  <2>2. mission \in Missions /\ mission.status = "none"
        BY <1>4 DEF InitNew, NewMission, Missions, Owners
  <2>3. gh \in Issues /\ made = 0 /\ ops = {}
        BY <1>4 DEF InitNew, Issues
  <2>4. Typed
        BY <1>3, <2>1, <2>2, <2>3 DEF Typed
  <2>5. QED
        BY <1>3, <2>1, <2>2, <2>3, <2>4, IdleCycle
        DEF ClaimInv, OneMission, VerifiedIsComplete, Bare
<1>5. CASE InitLeft
  <2>1. item \in Items /\ item.linked = TRUE /\ item.state = "cancelled" /\ item.pinned
        BY <1>2, <1>5 DEF InitLeft
  <2>2. mission \in Missions
        BY <1>5 DEF InitLeft, NewMission, Missions, Owners
  <2>3. gh \in Issues /\ made = 1
        BY <1>5 DEF InitLeft, Issues
  <2>4. Typed
        BY <1>3, <2>1, <2>2, <2>3 DEF Typed
  <2>5. QED
        BY <1>3, <2>1, <2>2, <2>3, <2>4, IdleCycle
        DEF ClaimInv, OneMission, VerifiedIsComplete, Bare
<1>6. QED
      BY <1>4, <1>5 DEF Init

\* Every summarised step keeps the invariant.
LEMMA StepKeepsClaim == ClaimInv /\ ItemStep => ClaimInv'
<1> SUFFICES ASSUME ClaimInv, ItemStep
             PROVE  ClaimInv'
    OBVIOUS
<1>1. /\ item \in Items /\ item' \in Items /\ made \in Nat /\ made <= 1
      /\ item.linked \in BOOLEAN /\ item'.linked \in BOOLEAN /\ (item.linked <=> made = 1)
      /\ drv \in [Drivers -> Cycles]
      BY DEF ClaimInv, Typed, ItemStep, Items, OneMission
<1>2. item.pinned => item'.pinned
      BY DEF ItemStep, RowStep, Kept, TakenOver, Advanced, GivenMission, TakenBack
<1>3. gh.moved => gh'.moved
      BY DEF ItemStep
<1>4. made' \in Nat /\ OneMission'
  <2>1. \/ made' = made /\ item'.linked = item.linked
        \/ made' = made + 1 /\ item'.linked /\ ~item.linked
        BY DEF ItemStep, RowStep, Kept, TakenOver, Advanced, GivenMission, TakenBack
  <2>2. QED
        BY <1>1, <2>1 DEF OneMission
<1>5. /\ drv' \in [Drivers -> Cycles]
      /\ \A q \in Drivers : Fits(drv'[q], item', gh')
  <2>1. \A q \in Drivers : Fits(drv[q], item', gh')
        BY <1>2, <1>3 DEF ClaimInv, Fits
  <2>2. CASE drv' = drv
        BY <1>1, <2>1, <2>2
  <2>3. ASSUME NEW p \in Drivers, Driven(p)
        PROVE  /\ drv' \in [Drivers -> Cycles]
               /\ \A q \in Drivers : Fits(drv'[q], item', gh')
    <3>1. PICK d \in Cycles : drv' = [drv EXCEPT ![p] = d] /\ Fits(d, item', gh')
          BY <2>3 DEF Driven
    <3>2. QED
          BY <1>1, <2>1, <3>1
  <2>4. QED
        BY <2>2, <2>3 DEF ItemStep
<1>6. Typed'
      BY <1>4, <1>5 DEF ItemStep, Typed
<1>7. (item.state = "none" => item = Absent /\ ~live)'
  <2>1. CASE Kept
        BY <2>1 DEF Kept, ClaimInv
  <2>2. CASE TakenOver \/ GivenMission \/ TakenBack
        BY <2>2 DEF TakenOver, GivenMission, TakenBack
  <2>3. CASE Advanced
        BY <2>3 DEF Advanced, States, Terminal
  <2>4. QED
        BY <2>1, <2>2, <2>3 DEF ItemStep, RowStep
<1>8. (~item.linked => mission.status = "none" /\ item.state \in Bare)'
  <2>1. SUFFICES ASSUME ~item'.linked PROVE mission'.status = "none" /\ item'.state \in Bare
        OBVIOUS
  <2>2. ~GivenMission
        BY <2>1 DEF GivenMission
  <2>3. ~item.linked
        BY <2>1, <2>2 DEF ItemStep, RowStep, Kept, TakenOver, Advanced, TakenBack
  <2>4. mission'.status = "none"
        BY <2>2, <2>3 DEF ClaimInv, ItemStep, MissionStep
  <2>5. item'.state \in Bare
    <3>1. CASE Kept
          BY <2>3, <3>1 DEF Kept, ClaimInv
    <3>2. CASE TakenOver
          BY <2>3, <3>2 DEF TakenOver, Bare
    <3>3. CASE Advanced
          BY <2>3, <3>3 DEF Advanced
    <3>4. ~TakenBack
          BY <2>3 DEF TakenBack
    <3>5. QED
          BY <2>2, <3>1, <3>2, <3>3, <3>4 DEF ItemStep, RowStep
  <2>6. QED
        BY <2>4, <2>5
<1>9. VerifiedIsComplete'
  <2>1. SUFFICES ASSUME item'.state = "verified" PROVE mission'.status = "completed"
        BY DEF VerifiedIsComplete
  <2>2. ~GivenMission
        BY <2>1 DEF GivenMission
  <2>3. item.state = "verified" \/ mission'.status = "completed"
        BY <2>1, <2>2 DEF ItemStep, RowStep, Kept, TakenOver, Advanced, TakenBack
  <2>4. QED
        BY <2>2, <2>3 DEF ClaimInv, VerifiedIsComplete, ItemStep, MissionStep
<1>10. (\A o \in ops : o.op = "upgrade" => item.pinned)'
      BY <1>2 DEF ClaimInv, ItemStep
<1>11. QED
      BY <1>4, <1>5, <1>6, <1>7, <1>8, <1>9, <1>10 DEF ClaimInv

\* The inductive invariant of the component.
LEMMA ClaimInvariant == Spec => []ClaimInv
<1>1. ClaimInv /\ [Next]_vars => ClaimInv'
      BY StepShape, StepKeepsClaim
<1>2. QED
      BY <1>1, InitClaim, PTL DEF Spec

(* The row's state is backed by its mission: one mission however many drivers *)
(* materialize it, which a driver launches only after the Project was moved   *)
(* and with a pinned source, and verified only when it had completed.         *)
THEOREM ItemIsBackedHolds == Spec => []ItemIsBacked
<1>1. ClaimInv => ItemIsBacked
  <2>1. ASSUME ClaimInv PROVE TypeOK
    <3>1. /\ item \in Items /\ mission \in Missions /\ live \in BOOLEAN /\ made \in Nat
          /\ drv \in [Drivers -> Cycles]
          BY <2>1 DEF ClaimInv, Typed
    <3>2. /\ item.state \in ItemStates /\ item.version \in Nat /\ item.token \in Nat
          /\ item.owner \in Owners /\ item.linked \in BOOLEAN /\ item.origin \in BOOLEAN
          BY <3>1 DEF Items
    <3>3. mission.status \in {"none", "ready", "running", "completed", "failed", "cancelled"}
          BY <3>1 DEF Missions
    <3>4. \A p \in Drivers : drv[p].pc \in Pcs /\ drv[p].aim \in ItemStates
          BY <3>1 DEF Cycles
    <3>5. QED
          BY <3>1, <3>2, <3>3, <3>4 DEF TypeOK, ItemStates, Owners
  <2>2. ASSUME ClaimInv PROVE LaunchedIsReady
        BY <2>2 DEF ClaimInv, Fits, Prepared, Launching, LaunchedIsReady
  <2>3. QED
        BY <2>1, <2>2 DEF ClaimInv, ItemIsBacked
<1>2. QED
      BY <1>1, ClaimInvariant, PTL

(* Only the current owner moves the item: a request under an older token       *)
(* changes nothing, and the resumption of a run lifts only its own block.      *)
THEOREM OwnerDecidesHolds == Spec => OwnerDecides
<1> DEFINE Fence == \A p \in Drivers :
                       (drv[p].pc # "idle" /\ drv[p].token # 0 /\ drv[p].token < item.token
                          /\ drv'[p] # drv[p]) => item' = item
           Block == (item.state = "blocked" /\ item'.state = "running" /\ drv' = drv) => item.origin
<1>1. ClaimInv /\ [Next]_vars => [Fence]_vars
  <2>1. SUFFICES ASSUME ClaimInv, [Next]_vars, NEW q \in Drivers, drv[q].token # 0,
                        drv[q].token < item.token, drv'[q] # drv[q]
                 PROVE  item' = item
        OBVIOUS
  <2>2. ItemStep /\ drv \in [Drivers -> Cycles] /\ item \in Items
        BY <2>1, StepShape DEF ClaimInv, Typed
  <2>3. PICK p \in Drivers : Driven(p)
        BY <2>1, <2>2 DEF ItemStep
  <2>4. p = q
        BY <2>1, <2>2, <2>3 DEF Driven
  <2>5. item.token \in Nat /\ drv[q].token \in Nat
        BY <2>2 DEF Items, Cycles
  <2>6. QED
        BY <2>1, <2>3, <2>4, <2>5 DEF Driven
<1>2. ClaimInv /\ [Next]_vars => [Block]_vars
      BY StepShape DEF ItemStep, Unblocks
<1>3. Spec => [][Fence]_vars /\ [][Block]_vars
      BY <1>1, <1>2, ClaimInvariant, PTL DEF Spec
<1>4. QED
      BY <1>3 DEF OwnerDecides, FencedOut, PolicyBlockStands

(* Every step is a step of the abstract item, or none.                         *)
LEMMA StepRefines == ClaimInv /\ ItemStep => [Item!Next]_(Item!vars)
<1> SUFFICES ASSUME ClaimInv, ItemStep
             PROVE  [Item!Next]_(Item!vars)
    OBVIOUS
<1> DEFINE Free == {"claimed", "blocked"}
           Backed == {"mission_created", "running", "awaiting_approval", "verification_failed",
                      "verified"}
           Over == {"published", "failed", "cancelled"}
<1>1. (item.linked <=> made = 1) /\ made <= 1 /\ made \in Nat
      BY DEF ClaimInv, OneMission, Typed
<1>2. (made = 0 /\ ~item.linked) \/ (made = 1 /\ item.linked)
      BY <1>1
<1>3. CASE Kept
      BY <1>3 DEF Kept, Item!vars
<1>4. CASE TakenOver
  <2>1. /\ item.state \notin Over /\ item'.token = item.token + 1 /\ made' = made
        /\ item'.version = item.version + 1
        BY <1>4 DEF TakenOver, Terminal
  <2>2. IF made = 0 THEN item'.state \in Free ELSE item'.state = item.state
        BY <1>2, <1>4 DEF TakenOver
  <2>3. Item!TakeOver
        BY <2>1, <2>2 DEF Item!TakeOver
  <2>4. QED
        BY <2>3 DEF Item!Next
<1>5. CASE Advanced
  <2>1. item.state \in States \ Terminal /\ item'.state \in States /\ made' = made
        /\ item'.token = item.token /\ item'.version = item.version + 1
        /\ (~item.linked => item'.state \in Bare)
        BY <1>5 DEF Advanced
  <2>2. item.state \in (Free \cup Backed \cup Over) \ Over
        BY <2>1 DEF States, Terminal
  <2>3. \/ made = 0 /\ made' = 0 /\ item'.state \in Free \cup Over
        \/ made = 1 /\ made' = 1 /\ item'.state \in Backed \cup Free \cup Over
        BY <1>2, <2>1 DEF States, Terminal, Bare
  <2>4. Item!Advance
        BY <2>1, <2>2, <2>3 DEF Item!Advance, Item!States
  <2>5. QED
        BY <2>4 DEF Item!Next
<1>6. CASE GivenMission
  <2>1. Item!Link
        BY <1>2, <1>6 DEF GivenMission, Item!Link
  <2>2. QED
        BY <2>1 DEF Item!Next
<1>7. CASE TakenBack
  <2>1. Item!Reopen
        BY <1>2, <1>7 DEF TakenBack, Item!Reopen
  <2>2. QED
        BY <2>1 DEF Item!Next
<1>8. QED
      BY <1>3, <1>4, <1>5, <1>6, <1>7 DEF ItemStep, RowStep

(* The store and the drivers implement the abstract item: a fence that only    *)
(* grows, a version that every change consumes, one mission; published and     *)
(* failed are final, and cancelled is left only for the mission the item has.  *)
THEOREM StoreImplementsItem == Spec => ImplementsItem
<1>1. Init => Item!Init
  <2>1. ASSUME Init PROVE Item!Init
    <3>1. item \in Items
          BY <2>1, InitClaim DEF ClaimInv, Typed
    <3>2. item.version \in Nat /\ item.token \in Nat
          BY <3>1 DEF Items
    <3>3. /\ Absent.state = "none" /\ \A a : Legacy(a).state = "claimed"
          /\ \A a : Left(a).state = "cancelled"
          BY DEF Absent, Legacy, Left
    <3>4. CASE InitNew
          BY <3>2, <3>3, <3>4 DEF InitNew, Item!Init
    <3>5. CASE InitLeft
          BY <3>2, <3>3, <3>5 DEF InitLeft, Item!Init
    <3>6. QED
          BY <2>1, <3>4, <3>5 DEF Init
  <2>2. QED
        BY <2>1
<1>2. ClaimInv /\ [Next]_vars => [Item!Next]_(Item!vars)
      BY StepShape, StepRefines
<1>3. QED
      BY <1>1, <1>2, ClaimInvariant, PTL DEF Spec, ImplementsItem, Item!Spec
=============================================================================
