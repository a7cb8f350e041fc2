------------------------- MODULE FactoryWatchProofs -------------------------
(***************************************************************************)
(* Proofs about FactoryWatch, for any number of processes, operator        *)
(* requests, throttled answers and faults.                                 *)
(***************************************************************************)
EXTENDS FactoryWatch, TLAPS

(* The row and a process, whatever their request budgets are.              *)
IsController(c) ==
    c \in [epoch : Nat, desired : {"running", "paused"}, gen : Nat, done : Nat,
           polling : {c.polling}]

Processes(budget, why) ==
    [pc : {"off", "tick", "heartbeat"}, budget : {budget},
     cycle : {"none", "running", "succeeded", "failed", "throttled"},
     began : Nat, cgen : Nat, why : {why}, last : {"none", "succeeded", "failed"},
     pend : Nat, comp : Nat]
IsWatcher(v) == v \in Processes(v.budget, v.why)

(* What a process may report is covered: the generation that forced a cycle *)
(* is not newer than the one the cycle saw when it began, and once the cycle *)
(* is collected it counts as reconciled; what the process read of the row    *)
(* before is not newer than the row.                                         *)
Covered(v, gen, upTo) ==
    /\ v.began <= gen /\ v.pend <= gen /\ v.comp <= upTo
    /\ v.cycle # "none" => v.cgen <= v.began
    /\ Reports(v) => v.cgen <= upTo

WatchInv ==
    /\ IsController(ctl) /\ reconciled \in Nat
    /\ w = [p \in Watchers |-> w[p]]
    /\ ctl.done <= reconciled
    /\ \A p \in Watchers : IsWatcher(w[p]) /\ Covered(w[p], ctl.gen, reconciled)

(* A step of the loop moves the row and the reconciled generation forward.   *)
Forward == ctl.gen <= ctl'.gen /\ reconciled <= reconciled'

\* A watcher that is not running relies on nothing.
LEMMA OffCovered ==
    ASSUME NEW gen \in Nat, NEW upTo \in Nat
    PROVE  IsWatcher(Off) /\ Covered(Off, gen, upTo)
BY DEF Off, IsWatcher, Processes, Covered, Reports

\* What a watcher relies on stays true as generations and reconciliations
\* advance.
LEMMA CoveredLonger ==
    ASSUME NEW v, IsWatcher(v), NEW g \in Nat, NEW h \in Nat, NEW r \in Nat, NEW s \in Nat,
           Covered(v, g, r), g <= h, r <= s
    PROVE  Covered(v, h, s)
BY DEF IsWatcher, Processes, Covered

(* A step of the loop writes some fields of a process.                       *)
LEMMA LoopFields ==
    ASSUME NEW v, IsWatcher(v), NEW b, NEW y, NEW pc \in {"off", "tick", "heartbeat"},
           NEW cycle \in {"none", "running", "succeeded", "failed", "throttled"},
           NEW last \in {"none", "succeeded", "failed"}, NEW n \in Nat
    PROVE  /\ IsWatcher([v EXCEPT !.pc = pc]) /\ IsWatcher([v EXCEPT !.cycle = cycle])
           /\ IsWatcher([v EXCEPT !.began = n]) /\ IsWatcher([v EXCEPT !.cgen = n])
           /\ IsWatcher([v EXCEPT !.pend = n]) /\ IsWatcher([v EXCEPT !.comp = n])
           /\ IsWatcher([v EXCEPT !.last = last]) /\ IsWatcher([v EXCEPT !.budget = b])
           /\ IsWatcher([v EXCEPT !.why = y])
BY DEF IsWatcher, Processes

(* The steps of one process that keep the row's generation.                  *)
LEMMA OneMoves ==
    ASSUME WatchInv, NEW p \in Watchers, NEW v, w' = [w EXCEPT ![p] = v], IsWatcher(v),
           IsController(ctl'), reconciled' \in Nat, Forward, ctl'.done <= reconciled',
           Covered(v, ctl'.gen, reconciled')
    PROVE  WatchInv'
<1>1. ctl.gen \in Nat /\ ctl'.gen \in Nat /\ reconciled \in Nat
      BY DEF WatchInv, IsController
<1>2. w' = [q \in Watchers |-> IF q = p THEN v ELSE w[q]]
      BY DEF WatchInv
<1>3. ASSUME NEW q \in Watchers
      PROVE  IsWatcher(w'[q]) /\ Covered(w'[q], ctl'.gen, reconciled')
  <2>1. CASE q = p
        BY <1>2, <2>1
  <2>2. CASE q # p
    <3>1. w'[q] = w[q] /\ IsWatcher(w[q]) /\ Covered(w[q], ctl.gen, reconciled)
          BY <1>2, <2>2 DEF WatchInv
    <3>2. QED
          BY <1>1, <3>1, CoveredLonger DEF Forward
  <2>3. QED
        BY <2>1, <2>2
<1>4. w' = [q \in Watchers |-> w'[q]]
      BY <1>2
<1>5. QED
      BY <1>3, <1>4 DEF WatchInv

(* A change of the budget, or of what the loop does not report.              *)
LEMMA BudgetOnly ==
    ASSUME NEW v, IsWatcher(v), NEW b, NEW g, NEW r, Covered(v, g, r)
    PROVE  /\ IsWatcher([v EXCEPT !.budget = b]) /\ Covered([v EXCEPT !.budget = b], g, r)
BY DEF IsWatcher, Processes, Covered, Reports

\* A watcher that starts relies on nothing, and supersedes the others.
LEMMA StartKeeps ==
    ASSUME WatchInv, NEW p \in Watchers, Start(p)
    PROVE  WatchInv'
<1> DEFINE others == [q \in Watchers |-> Superseded(w[q])]
           fresh == [Off EXCEPT !.pc = "tick", !.budget = restore(ctl.polling)]
<1>1. ctl.gen \in Nat /\ reconciled \in Nat /\ reconciled' = reconciled
      BY DEF WatchInv, IsController, Start
<1>2. IsController(ctl') /\ ctl'.gen = ctl.gen /\ ctl'.done = ctl.done
      BY DEF Start, configure_factory_controller, WatchInv, IsController
<1>3. \A q \in Watchers : Superseded(w[q]) = w[q] \/ Superseded(w[q]) = Off
      BY DEF Superseded
<1>4. IsWatcher(fresh) /\ Covered(fresh, ctl.gen, reconciled)
  <2> DEFINE f == [Off EXCEPT !.pc = "tick"]
  <2>1. /\ IsWatcher(f) /\ Covered(f, ctl.gen, reconciled)
        BY <1>1 DEF Off, IsWatcher, Processes, Covered, Reports
  <2>2. fresh = [f EXCEPT !.budget = restore(ctl.polling)]
        BY DEF Off
  <2> HIDE DEF f, fresh
  <2>3. QED
        BY <2>1, <2>2, BudgetOnly
<1>5. w' = others \/ w' = [others EXCEPT ![p] = fresh]
      BY DEF Start
<1> HIDE DEF fresh
<1>6. ASSUME NEW q \in Watchers
      PROVE  w'[q] = w[q] \/ w'[q] = Off \/ w'[q] = fresh
      BY <1>3, <1>5
<1>7. w' = [q \in Watchers |-> w'[q]]
      BY <1>5
<1>8. \A q \in Watchers : IsWatcher(w'[q]) /\ Covered(w'[q], ctl.gen, reconciled)
      BY <1>1, <1>4, <1>6, OffCovered DEF WatchInv
<1>9. QED
      BY <1>1, <1>2, <1>7, <1>8 DEF WatchInv

(* Collecting a cycle makes its generation reconciled before it is reported. *)
LEMMA TickKeeps ==
    ASSUME WatchInv, NEW p \in Watchers, Tick(p)
    PROVE  WatchInv'
<1> DEFINE v == Collected(w[p])
           seen == [v EXCEPT !.pc = "heartbeat", !.pend = ctl.gen, !.comp = ctl.done]
<1>1. /\ ctl' = ctl /\ IsController(ctl) /\ reconciled \in Nat /\ ctl.done <= reconciled
      /\ IsWatcher(w[p]) /\ Covered(w[p], ctl.gen, reconciled)
      BY DEF WatchInv, Tick
<1>2. reconciled' \in Nat /\ reconciled <= reconciled'
      BY <1>1 DEF Tick, Larger, IsWatcher, Processes
<1>3. w[p].cycle \in {"succeeded", "failed", "throttled"} => w[p].began <= reconciled'
      BY <1>1, <1>2 DEF Tick, Larger, IsWatcher, Processes
<1>4. IsWatcher(v) /\ Covered(v, ctl.gen, reconciled')
  <2>1. CASE w[p].cycle \in {"none", "running"}
    <3>1. v = w[p]
          BY <2>1 DEF Collected
    <3>2. QED
          BY <1>1, <1>2, <3>1, CoveredLonger DEF IsController
  <2>2. CASE w[p].cycle \notin {"none", "running"}
    <3>1. /\ w[p].cycle \in {"succeeded", "failed", "throttled"}
          /\ w[p].cgen <= reconciled'
          BY <1>1, <1>2, <1>3, <2>2 DEF IsWatcher, Processes, Covered
    <3>2. PICK b : v = [w[p] EXCEPT !.cycle = "none", !.began = 0,
                          !.last = IF w[p].cycle = "succeeded" THEN "succeeded" ELSE "failed",
                          !.budget = b, !.why = "none"]
          BY <2>2 DEF Collected
    <3> DEFINE last == IF w[p].cycle = "succeeded" THEN "succeeded" ELSE "failed"
               v1 == [w[p] EXCEPT !.cycle = "none"]
               v2 == [v1 EXCEPT !.began = 0]
               v3 == [v2 EXCEPT !.last = last]
               v4 == [v3 EXCEPT !.budget = b]
    <3>3. v = [v4 EXCEPT !.why = "none"] /\ last \in {"succeeded", "failed"}
          BY <3>2
    <3> HIDE DEF v, v1, v2, v3, v4, last
    <3>4. IsWatcher(v1) /\ v1.cycle = "none" /\ v1.cgen = w[p].cgen /\ v1.pend = w[p].pend
          /\ v1.comp = w[p].comp
      <4>1. IsWatcher(v1)
            BY <1>1, LoopFields DEF v1
      <4>2. QED
            BY <4>1, <1>1 DEF v1, IsWatcher, Processes
    <3>5. IsWatcher(v2) /\ v2.cycle = "none" /\ v2.cgen = w[p].cgen /\ v2.pend = w[p].pend
          /\ v2.comp = w[p].comp /\ v2.began = 0
      <4>1. IsWatcher(v2)
            BY <3>4, LoopFields DEF v2
      <4>2. QED
            BY <4>1, <3>4 DEF v2, IsWatcher, Processes
    <3>6. IsWatcher(v3) /\ v3.cycle = "none" /\ v3.cgen = w[p].cgen /\ v3.pend = w[p].pend
          /\ v3.comp = w[p].comp /\ v3.began = 0
      <4>1. IsWatcher(v3)
            BY <3>3, <3>5, LoopFields DEF v3
      <4>2. QED
            BY <4>1, <3>3, <3>5 DEF v3, IsWatcher, Processes
    <3>7. IsWatcher(v4) /\ v4.cycle = "none" /\ v4.cgen = w[p].cgen /\ v4.pend = w[p].pend
          /\ v4.comp = w[p].comp /\ v4.began = 0
      <4>1. IsWatcher(v4)
            BY <3>6, LoopFields DEF v4
      <4>2. QED
            BY <4>1, <3>6 DEF v4, IsWatcher, Processes
    <3>8. IsWatcher(v) /\ v.cycle = "none" /\ v.cgen = w[p].cgen /\ v.pend = w[p].pend
          /\ v.comp = w[p].comp /\ v.began = 0
      <4>1. IsWatcher(v)
            BY <3>3, <3>7, LoopFields
      <4>2. QED
            BY <4>1, <3>3, <3>7 DEF IsWatcher, Processes
    <3>9. QED
          BY <1>1, <1>2, <3>1, <3>8 DEF IsWatcher, Processes, Covered, IsController
  <2>3. QED
        BY <2>1, <2>2
<1> HIDE DEF v
<1>5. IsWatcher(seen) /\ Covered(seen, ctl.gen, reconciled')
  <2> DEFINE s1 == [v EXCEPT !.pc = "heartbeat"]
             s2 == [s1 EXCEPT !.pend = ctl.gen]
  <2>1. seen = [s2 EXCEPT !.comp = ctl.done] /\ ctl.gen \in Nat /\ ctl.done \in Nat
        BY <1>1 DEF IsController
  <2> HIDE DEF s1, s2, seen
  <2>2. IsWatcher(s1) /\ s1.cycle = v.cycle /\ s1.cgen = v.cgen /\ s1.began = v.began
        /\ s1.last = v.last
    <3>1. IsWatcher(s1)
          BY <1>4, LoopFields DEF s1
    <3>2. QED
          BY <3>1, <1>4 DEF s1, IsWatcher, Processes
  <2>3. IsWatcher(s2) /\ s2.cycle = v.cycle /\ s2.cgen = v.cgen /\ s2.began = v.began
        /\ s2.last = v.last /\ s2.pend = ctl.gen
    <3>1. IsWatcher(s2)
          BY <2>1, <2>2, LoopFields DEF s2
    <3>2. QED
          BY <3>1, <2>1, <2>2 DEF s2, IsWatcher, Processes
  <2>4. IsWatcher(seen) /\ seen.cycle = v.cycle /\ seen.cgen = v.cgen /\ seen.began = v.began
        /\ seen.last = v.last /\ seen.pend = ctl.gen /\ seen.comp = ctl.done
    <3>1. IsWatcher(seen)
          BY <2>1, <2>3, LoopFields
    <3>2. QED
          BY <3>1, <2>1, <2>3 DEF IsWatcher, Processes
  <2>5. QED
        BY <1>1, <1>2, <1>4, <2>1, <2>4 DEF Covered, Reports
<1>6. w' = [w EXCEPT ![p] = seen] \/ w' = [w EXCEPT ![p] = v]
      BY DEF Tick, v
<1>7. Forward /\ ctl'.done <= reconciled'
      BY <1>1, <1>2 DEF Forward, IsController
<1> HIDE DEF seen
<1>8. QED
      BY <1>1, <1>2, <1>4, <1>5, <1>6, <1>7, OneMoves

(* The end of an iteration forgets the snapshot.                             *)
LEMMA BackToTick ==
    ASSUME NEW v, IsWatcher(v), NEW g \in Nat, NEW r \in Nat, Covered(v, g, r)
    PROVE  LET u == [v EXCEPT !.pc = "tick", !.pend = 0, !.comp = 0]
           IN  IsWatcher(u) /\ Covered(u, g, r)
<1> DEFINE u1 == [v EXCEPT !.pc = "tick"]
           u2 == [u1 EXCEPT !.pend = 0]
           u == [u2 EXCEPT !.comp = 0]
<1>1. u = [v EXCEPT !.pc = "tick", !.pend = 0, !.comp = 0]
      OBVIOUS
<1> HIDE DEF u, u1, u2
<1>2. IsWatcher(u1) /\ Covered(u1, g, r)
  <2>1. IsWatcher(u1)
        BY LoopFields DEF u1
  <2>2. QED
        BY <2>1 DEF u1, IsWatcher, Processes, Covered, Reports
<1>3. IsWatcher(u2) /\ Covered(u2, g, r)
  <2>1. IsWatcher(u2)
        BY <1>2, LoopFields DEF u2
  <2>2. QED
        BY <1>2, <2>1 DEF u2, IsWatcher, Processes, Covered, Reports
<1>4. IsWatcher(u) /\ Covered(u, g, r)
  <2>1. IsWatcher(u)
        BY <1>3, LoopFields DEF u
  <2>2. QED
        BY <1>3, <2>1 DEF u, IsWatcher, Processes, Covered, Reports
<1>5. QED
      BY <1>1, <1>4

(* A heartbeat that was accepted forgets what it reported.                   *)
LEMMA ReportForgotten ==
    ASSUME NEW v, IsWatcher(v), NEW g \in Nat, NEW r \in Nat, Covered(v, g, r)
    PROVE  LET u == [v EXCEPT !.cgen = 0, !.last = "none"]
           IN  /\ IsWatcher(u) /\ u.pend = v.pend
               /\ Reports(v) => Covered(u, g, r)
<1> DEFINE u1 == [v EXCEPT !.cgen = 0]
           u == [u1 EXCEPT !.last = "none"]
<1>1. u = [v EXCEPT !.cgen = 0, !.last = "none"]
      OBVIOUS
<1> HIDE DEF u, u1
<1>2. IsWatcher(u1)
      BY LoopFields DEF u1
<1>3. Covered(u1, g, r) /\ u1.pend = v.pend
      BY <1>2 DEF u1, IsWatcher, Processes, Covered, Reports
<1>4. IsWatcher(u)
      BY <1>2, LoopFields DEF u
<1>5. Covered(u, g, r) /\ u.pend = v.pend
      BY <1>2, <1>3, <1>4 DEF u, IsWatcher, Processes, Covered, Reports
<1>6. QED
      BY <1>1, <1>4, <1>5

(* A cycle begins with the generation that forced it, which the row has.     *)
LEMMA SpawnCovered ==
    ASSUME NEW v, IsWatcher(v), NEW g \in Nat, NEW r \in Nat, NEW n \in Nat, n <= g,
           Covered(v, g, r)
    PROVE  LET u == [v EXCEPT !.cycle = "running", !.began = g, !.cgen = n]
           IN  IsWatcher(u) /\ Covered(u, g, r)
<1> DEFINE u1 == [v EXCEPT !.cycle = "running"]
           u2 == [u1 EXCEPT !.began = g]
           u == [u2 EXCEPT !.cgen = n]
<1>1. u = [v EXCEPT !.cycle = "running", !.began = g, !.cgen = n]
      OBVIOUS
<1> HIDE DEF u, u1, u2
<1>2. IsWatcher(u1) /\ u1.cycle = "running" /\ u1.pend = v.pend /\ u1.comp = v.comp
  <2>1. IsWatcher(u1)
        BY LoopFields DEF u1
  <2>2. QED
        BY <2>1 DEF u1, IsWatcher, Processes
<1>3. /\ IsWatcher(u2) /\ u2.cycle = "running" /\ u2.pend = v.pend /\ u2.comp = v.comp
      /\ u2.began = g
  <2>1. IsWatcher(u2)
        BY <1>2, LoopFields DEF u2
  <2>2. QED
        BY <1>2, <2>1 DEF u2, IsWatcher, Processes
<1>4. /\ IsWatcher(u) /\ u.cycle = "running" /\ u.pend = v.pend /\ u.comp = v.comp
      /\ u.began = g /\ u.cgen = n
  <2>1. IsWatcher(u)
        BY <1>3, LoopFields DEF u
  <2>2. QED
        BY <1>3, <2>1 DEF u, IsWatcher, Processes
<1>5. Covered(u, g, r)
      BY <1>4 DEF Covered, Reports
<1>6. QED
      BY <1>1, <1>4, <1>5

\* Deciding what to do next relies on nothing new.
LEMMA DecidedCovered ==
    ASSUME WatchInv, NEW v, IsWatcher(v), Covered(v, ctl.gen, reconciled),
           NEW paused, NEW due
    PROVE  LET u == Decided(v, paused, due)
           IN  IsWatcher(u) /\ Covered(u, ctl.gen, reconciled)
<1> DEFINE back == [v EXCEPT !.pc = "tick", !.pend = 0, !.comp = 0]
           idle == [back EXCEPT !.budget = check(v.budget)]
           n == IF v.pend > v.comp THEN v.pend ELSE 0
           run == [idle EXCEPT !.cycle = "running", !.began = ctl.gen, !.cgen = n]
<1>1. ctl.gen \in Nat /\ reconciled \in Nat /\ n \in Nat /\ n <= ctl.gen
      BY DEF WatchInv, IsController, IsWatcher, Processes, Covered
<1>2. IsWatcher(back) /\ Covered(back, ctl.gen, reconciled)
      BY <1>1, BackToTick
<1>3. Decided(v, paused, due) = idle \/ Decided(v, paused, due) = run
  <2>1. idle = [v EXCEPT !.pc = "tick", !.pend = 0, !.comp = 0, !.budget = check(@)]
        BY DEF IsWatcher, Processes
  <2>2. QED
        BY <2>1 DEF Decided
<1> HIDE DEF back
<1>4. IsWatcher(idle) /\ Covered(idle, ctl.gen, reconciled)
      BY <1>1, <1>2, BudgetOnly
<1> HIDE DEF idle, n
<1>5. IsWatcher(run) /\ Covered(run, ctl.gen, reconciled)
      BY <1>1, <1>4, SpawnCovered
<1> HIDE DEF run
<1>6. QED
      BY <1>3, <1>4, <1>5

(* A generation is reported complete only when it is reconciled.             *)
LEMMA FinishedIsReconciled ==
    ASSUME WatchInv, NEW p \in Watchers
    PROVE  Finished(w[p]) \in Nat /\ Finished(w[p]) <= reconciled
<1>1. /\ IsController(ctl) /\ reconciled \in Nat /\ ctl.done <= reconciled
      /\ IsWatcher(w[p]) /\ Covered(w[p], ctl.gen, reconciled)
      BY DEF WatchInv
<1>2. QED
      BY <1>1 DEF Finished, Covered, IsWatcher, Processes, IsController

\* A heartbeat records no more than what the watcher's cycles reconciled.
LEMMA HeartbeatKeeps ==
    ASSUME WatchInv, NEW p \in Watchers, Heartbeat(p)
    PROVE  WatchInv'
<1> DEFINE v == w[p]
           done == IF Reports(v) THEN [v EXCEPT !.cgen = 0, !.last = "none"] ELSE v
           idle == [v EXCEPT !.pc = "tick", !.pend = 0, !.comp = 0]
<1>1. /\ IsController(ctl) /\ reconciled \in Nat /\ ctl.done <= reconciled
      /\ IsWatcher(v) /\ Covered(v, ctl.gen, reconciled) /\ reconciled' = reconciled
      /\ ctl.gen \in Nat
      BY DEF WatchInv, Heartbeat, IsController
<1>2. IsController(ctl') /\ ctl'.gen = ctl.gen /\ ctl'.done <= reconciled
  <2>1. \/ ctl' = ctl
        \/ ctl' = heartbeat_factory_controller(Finished(v), v.budget)
        BY DEF Heartbeat
  <2>2. CASE ctl' = heartbeat_factory_controller(Finished(v), v.budget)
    <3> DEFINE c == [ctl EXCEPT !.done = Finished(v)]
    <3>1. Finished(v) \in Nat /\ Finished(v) <= reconciled
          BY FinishedIsReconciled
    <3>2. IsController(c) /\ c.gen = ctl.gen /\ c.done <= reconciled
          BY <1>1, <3>1 DEF IsController
    <3>3. ctl' = [c EXCEPT !.polling = v.budget]
          BY <2>2 DEF heartbeat_factory_controller
    <3> HIDE DEF c
    <3>4. QED
          BY <3>2, <3>3 DEF IsController
  <2>3. QED
        BY <1>1, <2>1, <2>2
<1>3. IsWatcher(done) /\ Covered(done, ctl.gen, reconciled)
      BY <1>1, ReportForgotten
<1>4. IsWatcher(idle) /\ Covered(idle, ctl.gen, reconciled)
      BY <1>1, BackToTick
<1>5. \/ \E due \in BOOLEAN :
           w' = [w EXCEPT ![p] = Decided(done, ctl.desired = "paused", due)]
      \/ w' = [w EXCEPT ![p] = Refusal(p, v)]
      BY DEF Heartbeat
<1> HIDE DEF done
<1>6. PICK u : w' = [w EXCEPT ![p] = u] /\ IsWatcher(u) /\ Covered(u, ctl.gen, reconciled)
  <2>1. CASE \E due \in BOOLEAN :
               w' = [w EXCEPT ![p] = Decided(done, ctl.desired = "paused", due)]
    <3>1. PICK due \in BOOLEAN :
               w' = [w EXCEPT ![p] = Decided(done, ctl.desired = "paused", due)]
          BY <2>1
    <3>2. PICK paused : w' = [w EXCEPT ![p] = Decided(done, paused, due)]
          BY <3>1
    <3>3. QED
          BY <1>3, <3>2, DecidedCovered
  <2>2. CASE w' = [w EXCEPT ![p] = Refusal(p, v)]
    <3>1. Refusal(p, v) = Off \/ Refusal(p, v) = idle
          BY DEF Refusal
    <3> HIDE DEF idle, v
    <3>2. QED
          BY <1>1, <1>4, <2>2, <3>1, OffCovered
  <2>3. QED
        BY <1>5, <2>1, <2>2
<1>7. Forward
      BY <1>1, <1>2 DEF Forward
<1>8. QED
      BY <1>1, <1>2, <1>6, <1>7, OneMoves

(* A running cycle ends: its generation is still covered by its start.       *)
LEMMA CycleEndsCovered ==
    ASSUME NEW v, IsWatcher(v), NEW g, NEW r, Covered(v, g, r), v.cycle = "running",
           NEW cycle \in {"succeeded", "failed", "throttled"}
    PROVE  LET u == [v EXCEPT !.cycle = cycle] IN IsWatcher(u) /\ Covered(u, g, r)
<1> DEFINE u == [v EXCEPT !.cycle = cycle]
<1>1. IsWatcher(u)
      BY LoopFields
<1>2. u.cycle = cycle /\ u.cgen = v.cgen /\ u.began = v.began /\ u.pend = v.pend
      /\ u.comp = v.comp
      BY <1>1 DEF IsWatcher, Processes
<1>3. QED
      BY <1>1, <1>2 DEF Covered, Reports

\* The reason a watcher keeps is not relied upon.
LEMMA WhyCovered ==
    ASSUME NEW v, IsWatcher(v), NEW g, NEW r, Covered(v, g, r), NEW y
    PROVE  LET u == [v EXCEPT !.why = y] IN IsWatcher(u) /\ Covered(u, g, r)
BY DEF IsWatcher, Processes, Covered, Reports

\* A cycle reconciles the generation it began with.
LEMMA CycleKeeps ==
    ASSUME WatchInv, NEW p \in Watchers, Cycle(p)
    PROVE  WatchInv'
<1> DEFINE v == w[p]
<1>1. /\ IsController(ctl) /\ reconciled \in Nat /\ ctl.done <= reconciled /\ ctl.gen \in Nat
      /\ IsWatcher(v) /\ Covered(v, ctl.gen, reconciled)
      /\ w = [q \in Watchers |-> w[q]]
      BY DEF WatchInv, IsController
<1>2. /\ ctl' = ctl /\ reconciled' = reconciled /\ v.cycle = "running"
      BY DEF Cycle, Requested, Refused, CycleEnds, Send
<1>3. \/ \E b : w' = [w EXCEPT ![p].budget = b]
      \/ \E c \in {"succeeded", "failed"} : w' = [w EXCEPT ![p].cycle = c]
      \/ \E b, y : w' = [w EXCEPT ![p].budget = b, ![p].cycle = "throttled", ![p].why = y]
  <2>1. CASE Requested(p)
    <3>1. \/ \E q \in {q \in Quotas : valid_counters(q)} :
               w' = [w EXCEPT ![p].budget = observe_json(@, q)]
          \/ \E f \in classify_failure :
               w' = [w EXCEPT ![p].budget = failure(@, f.reason, f.hint),
                              ![p].cycle = "throttled", ![p].why = f.reason]
          \/ w' = [w EXCEPT ![p].cycle = "failed"]
          BY <2>1 DEF Requested
    <3>2. QED
          BY <3>1
  <2>2. CASE Refused(p)
    <3>1. w' = [w EXCEPT ![p].cycle = "throttled", ![p].why = check(w[p].budget).reason,
                         ![p].budget = check(@)]
          BY <2>2 DEF Refused
    <3>2. w' = [w EXCEPT ![p].budget = check(w[p].budget), ![p].cycle = "throttled",
                         ![p].why = check(w[p].budget).reason]
          BY <1>1, <3>1 DEF IsWatcher, Processes
    <3>3. QED
          BY <3>2
  <2>3. CASE CycleEnds(p)
        BY <2>3 DEF CycleEnds
  <2>4. QED
        BY <2>1, <2>2, <2>3 DEF Cycle
<1>4. PICK u : w' = [w EXCEPT ![p] = u] /\ IsWatcher(u) /\ Covered(u, ctl.gen, reconciled)
  <2>1. CASE \E b : w' = [w EXCEPT ![p].budget = b]
    <3>1. PICK b : w' = [w EXCEPT ![p].budget = b]
          BY <2>1
    <3>2. w' = [w EXCEPT ![p] = [v EXCEPT !.budget = b]]
          BY <3>1
    <3> HIDE DEF v
    <3>3. QED
          BY <1>1, <3>2, BudgetOnly
  <2>2. CASE \E c \in {"succeeded", "failed"} : w' = [w EXCEPT ![p].cycle = c]
    <3>1. PICK c \in {"succeeded", "failed"} : w' = [w EXCEPT ![p].cycle = c]
          BY <2>2
    <3>2. w' = [w EXCEPT ![p] = [v EXCEPT !.cycle = c]]
          BY <3>1
    <3> HIDE DEF v
    <3>3. QED
          BY <1>1, <1>2, <3>2, CycleEndsCovered
  <2>3. CASE \E b, y : w' = [w EXCEPT ![p].budget = b, ![p].cycle = "throttled",
                                      ![p].why = y]
    <3>1. PICK b, y : w' = [w EXCEPT ![p].budget = b, ![p].cycle = "throttled", ![p].why = y]
          BY <2>3
    <3> DEFINE u1 == [v EXCEPT !.budget = b]
               u2 == [u1 EXCEPT !.cycle = "throttled"]
               u == [u2 EXCEPT !.why = y]
    <3>2. w' = [w EXCEPT ![p] = u]
          BY <1>1, <3>1 DEF IsWatcher, Processes
    <3>3. u1.cycle = "running"
          BY <1>1, <1>2 DEF IsWatcher, Processes
    <3> HIDE DEF v, u
    <3>4. IsWatcher(u1) /\ Covered(u1, ctl.gen, reconciled)
          BY <1>1, BudgetOnly
    <3> HIDE DEF u1
    <3>5. IsWatcher(u2) /\ Covered(u2, ctl.gen, reconciled)
          BY <3>3, <3>4, CycleEndsCovered
    <3> HIDE DEF u2
    <3>6. IsWatcher(u) /\ Covered(u, ctl.gen, reconciled)
          BY <3>5, WhyCovered DEF u
    <3>7. QED
          BY <3>2, <3>6
  <2>4. QED
        BY <1>3, <2>1, <2>2, <2>3
<1>5. Forward
      BY <1>1, <1>2 DEF Forward
<1>6. QED
      BY <1>1, <1>2, <1>4, <1>5, OneMoves

\* A crash forgets what the watcher relied on.
LEMMA CrashKeeps ==
    ASSUME WatchInv, NEW p \in Watchers, Crash(p)
    PROVE  WatchInv'
<1>1. /\ IsController(ctl) /\ reconciled \in Nat /\ ctl.done <= reconciled /\ ctl.gen \in Nat
      /\ ctl' = ctl /\ reconciled' = reconciled /\ w' = [w EXCEPT ![p] = Off]
      BY DEF WatchInv, IsController, Crash
<1>2. Forward
      BY <1>1 DEF Forward
<1>3. QED
      BY <1>1, <1>2, OffCovered, OneMoves

(* A request makes the row's generation newer; nothing covered is lost.      *)
LEMMA ControlKeeps ==
    ASSUME WatchInv, NEW action \in {"pause", "resume", "reconcile"}, Control(action)
    PROVE  WatchInv'
<1>1. /\ IsController(ctl) /\ reconciled \in Nat /\ ctl.done <= reconciled
      /\ w' = w /\ reconciled' = reconciled
      /\ ctl.gen \in Nat
      BY DEF WatchInv, IsController, Control
<1>2. PICK desired \in {"running", "paused"}, gen \in Nat :
        /\ ctl' = [ctl EXCEPT !.desired = desired, !.gen = gen] /\ ctl.gen <= gen
  <2> DEFINE d == CASE action = "pause" -> "paused" [] action = "resume" -> "running"
                    [] OTHER -> ctl.desired
             g == IF action = "pause" THEN ctl.gen ELSE ctl.gen + 1
  <2>1. ctl' = [ctl EXCEPT !.desired = d, !.gen = g]
        BY <1>1 DEF Control, control_factory_controller, IsController
  <2>2. ctl.desired \in {"running", "paused"}
        BY <1>1 DEF IsController
  <2>3. d \in {"running", "paused"} /\ g \in Nat /\ ctl.gen <= g
        BY <1>1, <2>2
  <2> HIDE DEF d, g
  <2>4. QED
        BY <2>1, <2>3
<1>3. IsController(ctl') /\ ctl'.gen = gen /\ ctl'.done = ctl.done
      BY <1>1, <1>2 DEF IsController
<1>4. \A q \in Watchers : IsWatcher(w[q]) /\ Covered(w[q], gen, reconciled)
      BY <1>1, <1>2, CoveredLonger DEF WatchInv
<1>5. QED
      BY <1>1, <1>3, <1>4 DEF WatchInv

\* Time changes nothing a watcher relies on.
LEMMA TimeKeeps ==
    ASSUME WatchInv, Time
    PROVE  WatchInv'
<1>1. /\ IsController(ctl) /\ reconciled' = reconciled /\ ctl.done <= reconciled
      BY DEF WatchInv, Time
<1>2. PICK b : ctl' = [ctl EXCEPT !.polling = b]
      BY DEF Time
<1>3. IsController(ctl') /\ ctl'.gen = ctl.gen /\ ctl'.done = ctl.done
      BY <1>1, <1>2 DEF IsController
<1>4. w' = [q \in Watchers |-> [w[q] EXCEPT !.budget = Elapse(w[q].budget)]]
      BY DEF Time, WatchInv, IsWatcher, Processes
<1>5. ASSUME NEW q \in Watchers
      PROVE  IsWatcher(w'[q]) /\ Covered(w'[q], ctl.gen, reconciled)
  <2>1. IsWatcher(w[q]) /\ Covered(w[q], ctl.gen, reconciled)
        BY DEF WatchInv
  <2>2. w'[q] = [w[q] EXCEPT !.budget = Elapse(w[q].budget)]
        BY <1>4
  <2>3. QED
        BY <2>1, <2>2, BudgetOnly
<1>6. QED
      BY <1>1, <1>3, <1>4, <1>5 DEF WatchInv

\* No watcher runs at the start.
LEMMA InitWatch == Init => WatchInv
<1> SUFFICES ASSUME Init PROVE WatchInv
    OBVIOUS
<1>1. IsController(ctl) /\ ctl.gen = 0 /\ ctl.done = 0 /\ reconciled = 0
      BY DEF Init, IsController
<1>2. \A p \in Watchers : w[p] = Off
      BY DEF Init
<1>3. w = [p \in Watchers |-> w[p]]
      BY DEF Init
<1>4. QED
      BY <1>1, <1>2, <1>3, OffCovered DEF WatchInv

\* Every step keeps the invariant.
LEMMA StepKeepsWatch == WatchInv /\ [Next]_vars => WatchInv'
<1> SUFFICES ASSUME WatchInv, [Next]_vars PROVE WatchInv'
    OBVIOUS
<1>1. CASE UNCHANGED vars
      BY <1>1 DEF vars, WatchInv
<1>2. ASSUME NEW p \in Watchers, Start(p) \/ Loop(p) \/ Cycle(p) \/ Crash(p)
      PROVE  WatchInv'
      BY <1>2, StartKeeps, TickKeeps, HeartbeatKeeps, CycleKeeps, CrashKeeps DEF Loop
<1>3. ASSUME NEW action \in {"pause", "resume", "reconcile"}, Control(action)
      PROVE  WatchInv'
      BY <1>3, ControlKeeps
<1>4. QED
      BY <1>1, <1>2, <1>3, TimeKeeps DEF Next

(* A generation of factory_controllers is reported complete only if a cycle  *)
(* that began after it was requested has ended, over any number of processes *)
(* that take the row over, lost heartbeats, pauses and crashes.              *)
THEOREM DoneMeansReconciledHolds == Spec => []DoneMeansReconciled
<1>1. WatchInv => DoneMeansReconciled
      BY DEF WatchInv, DoneMeansReconciled
<1>2. QED
      BY <1>1, InitWatch, StepKeepsWatch, PTL DEF Spec

-----------------------------------------------------------------------------
(* The request budget.                                                      *)

Reasons == {"none", "primary", "secondary", "quota", "unavailable"}
QuotaData == [limit : Nat, remaining : Nat, cost : Nat, until : 0..Never]

(* A deadline has a reason, and the reserve of a known quota window is not   *)
(* touched before the window ends.                                           *)
IsPolling(b) ==
    /\ b \in [wait : 0..Never, reason : Reasons, fails : Nat, quota : QuotaData]
    /\ b.reason = "none" => b.wait = 0
Low(q) == q # NoQuota /\ q.remaining < required(q)
IsBudget(b) == IsPolling(b) /\ (Low(b.quota) => b.quota.until <= b.wait)

\* A backoff is a number of ticks below the deadline that never passes.
LEMMA BackoffIsFinite ==
    ASSUME NEW fails \in Nat
    PROVE  backoff(fails) \in 0..Never
<1> DEFINE k == Smaller(IF fails = 0 THEN 0 ELSE fails - 1, 4)
<1>1. k \in 0..4
      BY DEF Smaller
<1>2. backoff(fails) = Smaller(BaseBackoff * <<1, 2, 4, 8, 16>>[k + 1], MaxBackoff)
      BY DEF backoff
<1> HIDE DEF k
<1>3. <<1, 2, 4, 8, 16>>[k + 1] \in {1, 2, 4, 8, 16}
      BY <1>1
<1> DEFINE m == <<1, 2, 4, 8, 16>>[k + 1]
<1> HIDE DEF m
<1>4. BaseBackoff * m \in Nat
      BY <1>3, WatchAssumption DEF m
<1>5. QED
      BY <1>2, <1>4, WatchAssumption DEF Smaller, m

\* A wait is only ever extended.
LEMMA ExtendKeeps ==
    ASSUME NEW b, IsPolling(b), NEW reason \in Reasons \ {"none"}, NEW deadline \in 0..Never
    PROVE  LET e == extend_wait(b, reason, deadline)
           IN  /\ IsPolling(e) /\ e.wait >= b.wait /\ e.wait >= deadline
               /\ e.quota = b.quota /\ e.fails = b.fails
<1> DEFINE e == [b EXCEPT !.wait = deadline, !.reason = reason]
<1>1. /\ e.wait = deadline /\ e.reason = reason /\ e.quota = b.quota /\ e.fails = b.fails
      /\ IsPolling(e)
      BY DEF IsPolling, Reasons
<1>2. b.wait \in 0..Never /\ (b.reason = "none" => b.wait = 0)
      BY DEF IsPolling
<1> HIDE DEF e
<1>3. \/ extend_wait(b, reason, deadline) = e /\ deadline >= b.wait
      \/ extend_wait(b, reason, deadline) = b /\ b.wait >= deadline
      BY <1>2, WatchAssumption DEF extend_wait, e
<1>4. QED
      BY <1>1, <1>2, <1>3, WatchAssumption

\* What a low quota asks for is in the wait from then on.
LEMMA RetainKeeps ==
    ASSUME NEW b, IsPolling(b)
    PROVE  /\ IsBudget(retain_quota_wait(b)) /\ retain_quota_wait(b).wait >= b.wait
           /\ retain_quota_wait(b).quota = b.quota
<1>1. b.quota.until \in 0..Never /\ b.wait \in 0..Never
      BY DEF IsPolling, QuotaData
<1>2. CASE Low(b.quota) /\ outstanding(b.quota.until)
  <2>1. retain_quota_wait(b) = extend_wait(b, "quota", b.quota.until)
        BY <1>2 DEF retain_quota_wait, Low
  <2>2. QED
        BY <1>1, <2>1, ExtendKeeps DEF IsBudget, Reasons
<1>3. CASE ~(Low(b.quota) /\ outstanding(b.quota.until))
  <2>1. retain_quota_wait(b) = b
        BY <1>3 DEF retain_quota_wait, Low
  <2>2. Low(b.quota) => b.quota.until <= b.wait
        BY <1>1, <1>3, WatchAssumption DEF outstanding
  <2>3. QED
        BY <1>1, <2>1, <2>2, WatchAssumption DEF IsBudget
<1>4. QED
      BY <1>2, <1>3

\* So a check has nothing to add, and admits a request exactly when no wait is left.
LEMMA CheckKeeps ==
    ASSUME NEW b, IsBudget(b)
    PROVE  /\ IsBudget(check(b)) /\ check(b).wait = b.wait /\ b.wait \in 0..Never
           /\ check(b).reason = b.reason /\ (Admits(b) <=> b.wait = 0)
<1>1. /\ b.quota.until \in 0..Never /\ b.wait \in 0..Never
      /\ b.reason = "none" => b.wait = 0
      BY DEF IsBudget, IsPolling, QuotaData
<1>2. retain_quota_wait(b) = b
      BY <1>1, WatchAssumption DEF IsBudget, Low, retain_quota_wait, extend_wait, outstanding
<1>3. QED
      BY <1>1, <1>2, WatchAssumption DEF check, Admits, outstanding

\* A typed failure waits for the deadline it asked for, and forgets none.
LEMMA FailureKeeps ==
    ASSUME NEW b, IsBudget(b), NEW reason \in Reasons \ {"none"}, NEW hint \in 0..Never
    PROVE  /\ IsBudget(failure(b, reason, hint))
           /\ failure(b, reason, hint).wait >= b.wait
           /\ failure(b, reason, hint).wait >= hint
<1> DEFINE fails == IF reason # "quota" THEN Smaller(b.fails + 1, MaxFailures) ELSE b.fails
           counted == [b EXCEPT !.fails = fails]
           local == IF reason # "quota" THEN Larger(hint, backoff(fails)) ELSE hint
           deadline == IF reason = "primary" /\ b.quota # NoQuota
                       THEN Larger(local, b.quota.until) ELSE local
           e == extend_wait(counted, reason, deadline)
<1>1. b.fails \in Nat /\ b.wait \in 0..Never /\ b.quota.until \in 0..Never /\ IsPolling(b)
      BY DEF IsBudget, IsPolling, QuotaData
<1>2. fails \in Nat
      BY <1>1, WatchAssumption DEF Smaller
<1>3. failure(b, reason, hint) = retain_quota_wait(e)
      BY DEF failure
<1> HIDE DEF fails
<1>4. IsPolling(counted) /\ counted.wait = b.wait
      BY <1>1, <1>2 DEF IsPolling
<1>5. local \in 0..Never /\ hint <= local
      BY <1>2, BackoffIsFinite, WatchAssumption DEF Larger
<1> HIDE DEF local, counted
<1>6. deadline \in 0..Never /\ hint <= deadline
      BY <1>1, <1>5, WatchAssumption DEF Larger
<1> HIDE DEF deadline
<1>7. IsPolling(e) /\ e.wait >= b.wait /\ e.wait >= deadline
      BY <1>4, <1>6, ExtendKeeps
<1> HIDE DEF e
<1>8. /\ IsBudget(retain_quota_wait(e)) /\ retain_quota_wait(e).wait >= e.wait
      BY <1>7, RetainKeeps
<1>9. e.wait \in 0..Never /\ retain_quota_wait(e).wait \in 0..Never
      BY <1>7, <1>8 DEF IsBudget, IsPolling
<1>10. QED
      BY <1>1, <1>3, <1>6, <1>7, <1>8, <1>9, WatchAssumption

\* A successful cycle ends no wait that is still running.
LEMMA SuccessKeeps ==
    ASSUME NEW b, IsBudget(b)
    PROVE  IsBudget(success(b)) /\ success(b).wait >= b.wait
<1> DEFINE clear == [b EXCEPT !.wait = 0, !.reason = "none", !.fails = 0]
           quiet == [b EXCEPT !.fails = 0]
<1>1. b.wait \in 0..Never /\ IsPolling(b)
      BY DEF IsBudget, IsPolling
<1>2. IsPolling(clear) /\ clear.wait = 0
  <2> DEFINE c == [b EXCEPT !.wait = 0]
             d == [c EXCEPT !.reason = "none"]
  <2>1. /\ c \in [wait : 0..Never, reason : Reasons, fails : Nat, quota : QuotaData]
        /\ c.wait = 0
        BY <1>1, WatchAssumption DEF IsPolling
  <2>2. clear = [d EXCEPT !.fails = 0]
        OBVIOUS
  <2> HIDE DEF c
  <2>3. /\ d \in [wait : 0..Never, reason : Reasons, fails : Nat, quota : QuotaData]
        /\ d.wait = 0
        BY <2>1 DEF Reasons
  <2> HIDE DEF d, clear
  <2>4. QED
        BY <2>2, <2>3 DEF IsPolling
<1>5. IsPolling(quiet) /\ quiet.wait = b.wait
      BY <1>1 DEF IsPolling
<1>3. \/ b.wait = 0 /\ success(b) = retain_quota_wait(clear)
      \/ success(b) = retain_quota_wait(quiet)
      \/ success(b) = retain_quota_wait(b)
      BY <1>1, WatchAssumption DEF success, outstanding
<1> HIDE DEF clear, quiet
<1>4. QED
      BY <1>1, <1>2, <1>5, <1>3, RetainKeeps

\* Quota data ends no wait either, and what is low and not stale is waited for.
LEMMA ObserveKeeps ==
    ASSUME NEW b, IsBudget(b), NEW q \in QuotaData, valid_counters(q)
    PROVE  /\ IsBudget(observe_json(b, q)) /\ observe_json(b, q).wait >= b.wait
           /\ q.remaining < required(q) /\ ~Stale(b, q) => observe_json(b, q).wait >= q.until
<1>1. b.wait \in 0..Never /\ IsPolling(b) /\ q.until \in 0..Never
      BY DEF IsBudget, IsPolling, QuotaData
<1>2. CASE ~outstanding(q.until)
      BY <1>1, <1>2, WatchAssumption DEF observe_json, outstanding
<1>3. CASE outstanding(q.until)
  <2> DEFINE m == merge_quota(b, q)
             e == retain_quota_wait(m)
  <2>1. observe_json(b, q) = e
        BY <1>3 DEF observe_json
  <2>2. IsPolling(m) /\ m.wait = b.wait /\ (~Stale(b, q) => m.quota = q)
        BY <1>1 DEF merge_quota, IsPolling
  <2> HIDE DEF m
  <2>3. IsBudget(e) /\ e.wait >= m.wait /\ e.quota = m.quota
        BY <2>2, RetainKeeps
  <2>4. q # NoQuota
        BY DEF valid_counters, NoQuota
  <2> HIDE DEF e
  <2>5. ASSUME q.remaining < required(q), ~Stale(b, q)
        PROVE  q.until <= e.wait
        BY <2>2, <2>3, <2>4, <2>5 DEF IsBudget, Low
  <2>6. e.wait \in 0..Never
        BY <2>3 DEF IsBudget, IsPolling
  <2>7. QED
        BY <1>1, <2>1, <2>2, <2>3, <2>5, <2>6, WatchAssumption
<1>4. QED
      BY <1>2, <1>3

\* A process that starts waits at least as long as the row says.
LEMMA RestoreKeeps ==
    ASSUME NEW p, IsBudget(p)
    PROVE  IsBudget(restore(p)) /\ restore(p).wait >= p.wait
<1> DEFINE b == [Polling EXCEPT !.fails = Smaller(p.fails, MaxFailures)]
           waited == IF p.reason # "none" THEN extend_wait(b, p.reason, p.wait)
                     ELSE IF p.fails > 0 THEN repair_wait(b) ELSE b
           merged == IF p.quota = NoQuota THEN waited ELSE merge_quota(waited, p.quota)
<1>1. /\ p.wait \in 0..Never /\ p.fails \in Nat /\ p.quota \in QuotaData /\ p.reason \in Reasons
      /\ p.reason = "none" => p.wait = 0
      BY DEF IsBudget, IsPolling
<1>2. restore(p) = retain_quota_wait(merged)
      BY DEF restore
<1>3. IsPolling(b) /\ b.wait = 0 /\ b.fails \in Nat
  <2>1. Smaller(p.fails, MaxFailures) \in Nat
        BY <1>1, WatchAssumption DEF Smaller
  <2>2. NoQuota \in QuotaData
        BY WatchAssumption DEF NoQuota, QuotaData
  <2> HIDE DEF NoQuota
  <2>3. QED
        BY <2>1, <2>2, WatchAssumption DEF Polling, IsPolling, Reasons
<1> HIDE DEF b
<1>4. IsPolling(repair_wait(b))
  <2> DEFINE fails == Smaller(Larger(b.fails, 1), MaxFailures)
             c == [b EXCEPT !.fails = fails]
  <2>1. fails \in Nat
        BY <1>3, WatchAssumption DEF Smaller, Larger
  <2>2. repair_wait(b) = extend_wait(c, "unavailable", backoff(fails))
        BY DEF repair_wait
  <2> HIDE DEF fails
  <2>3. IsPolling(c) /\ backoff(fails) \in 0..Never
        BY <1>3, <2>1, BackoffIsFinite DEF IsPolling
  <2> HIDE DEF c
  <2>4. QED
        BY <2>2, <2>3, ExtendKeeps DEF Reasons
<1>5. IsPolling(waited) /\ waited.wait >= p.wait
  <2>1. CASE p.reason # "none"
        BY <1>1, <1>3, <2>1, ExtendKeeps
  <2>2. CASE p.reason = "none"
    <3>1. p.wait = 0 /\ IsPolling(waited)
          BY <1>1, <1>3, <1>4, <2>2
    <3>2. waited.wait \in 0..Never
          BY <3>1 DEF IsPolling
    <3>3. QED
          BY <3>1, <3>2
  <2>3. QED
        BY <2>1, <2>2
<1> HIDE DEF waited
<1>6. IsPolling(merged) /\ merged.wait = waited.wait
      BY <1>1, <1>5 DEF merge_quota, IsPolling
<1> HIDE DEF merged
<1>7. IsBudget(retain_quota_wait(merged)) /\ retain_quota_wait(merged).wait >= merged.wait
      BY <1>6, RetainKeeps
<1>8. waited.wait \in 0..Never /\ retain_quota_wait(merged).wait \in 0..Never
      BY <1>5, <1>7 DEF IsBudget, IsPolling
<1>9. QED
      BY <1>1, <1>2, <1>5, <1>6, <1>7, <1>8, WatchAssumption

\* Time shortens a wait by what it shortens the deadline behind it.
LEMMA ElapseKeeps ==
    ASSUME NEW b, IsBudget(b)
    PROVE  /\ IsBudget(Elapse(b))
           /\ \A o \in 0..Never : o <= b.wait => Pass(o) <= Elapse(b).wait
<1> DEFINE wait == Pass(b.wait)
           until == IF b.quota.until = 0 THEN 0 ELSE b.quota.until - 1
           q == [b.quota EXCEPT !.until = until]
           e == [b EXCEPT !.wait = wait, !.quota = q]
<1>1. /\ b.wait \in 0..Never /\ b.quota \in QuotaData /\ b.quota.until \in 0..Never
      /\ b.reason = "none" => b.wait = 0
      BY DEF IsBudget, IsPolling, QuotaData
<1>2. Elapse(b) = e
  <2>1. Elapse(b) = [[b EXCEPT !.wait = wait] EXCEPT !.quota.until = IF @ = 0 THEN 0 ELSE @ - 1]
        BY DEF Elapse
  <2> DEFINE c == [b EXCEPT !.wait = wait]
  <2>2. c.quota = b.quota /\ e = [c EXCEPT !.quota = q]
        BY DEF IsBudget, IsPolling
  <2> HIDE DEF c, wait, e
  <2>3. [c EXCEPT !.quota.until = IF @ = 0 THEN 0 ELSE @ - 1]
          = [c EXCEPT !.quota = [c.quota EXCEPT !.until = IF c.quota.until = 0 THEN 0 ELSE c.quota.until - 1]]
        OBVIOUS
  <2>4. QED
        BY <2>1, <2>2, <2>3 DEF c
<1>3. wait \in 0..Never /\ (b.wait = 0 => wait = 0)
      BY <1>1, WatchAssumption DEF Pass
<1>4. q \in QuotaData /\ q.until = until /\ until \in 0..Never
      BY <1>1, WatchAssumption DEF QuotaData
<1>5. Low(q) => Low(b.quota)
  <2>1. q.limit = b.quota.limit /\ q.remaining = b.quota.remaining /\ q.cost = b.quota.cost
        BY <1>1 DEF QuotaData
  <2>2. b.quota = NoQuota => q = NoQuota
    <3>1. ASSUME b.quota = NoQuota PROVE q = NoQuota
          BY <3>1 DEF NoQuota
    <3>2. QED
          BY <3>1
  <2> HIDE DEF q
  <2>3. QED
        BY <2>1, <2>2 DEF Low, required
<1>6. \A o \in 0..Never : o <= b.wait => Pass(o) <= wait
      BY <1>1, WatchAssumption DEF Pass
<1>7. Low(q) => q.until <= wait
  <2>1. Low(b.quota) => until <= wait
        BY <1>1, WatchAssumption DEF IsBudget, Pass
  <2> HIDE DEF until, wait, q
  <2>2. QED
        BY <1>4, <1>5, <2>1
<1> HIDE DEF wait, q, until
<1>8. /\ IsPolling(e) /\ e.wait = wait /\ e.quota = q
      BY <1>1, <1>3, <1>4 DEF IsBudget, IsPolling
<1> HIDE DEF e
<1>9. QED
      BY <1>2, <1>6, <1>7, <1>8 DEF IsBudget

(* What GitHub asked for is in the budget of the process in office; a cycle  *)
(* that was refused knows why, and an epoch that has not come has no process. *)
WaitInv ==
    /\ owed \in 0..Never /\ IsBudget(ctl.polling)
    /\ \A p \in Watchers :
         /\ IsBudget(w[p].budget)
         /\ w[p].cycle = "throttled" => w[p].why \in Reasons \ {"none"}
         /\ ctl.epoch < p => w[p] = Off
         /\ p = ctl.epoch /\ w[p] # Off => owed <= w[p].budget.wait

\* A fresh budget asks for nothing.
LEMMA OffBudget == IsBudget(Off.budget) /\ Off.cycle = "none" /\ Off.pc = "off" /\ IsBudget(Polling)
<1>1. NoQuota \in QuotaData
      BY WatchAssumption DEF NoQuota, QuotaData
<1>2. ~Low(NoQuota)
      BY DEF Low
<1> HIDE DEF NoQuota
<1>3. IsBudget(Polling)
      BY <1>1, <1>2, WatchAssumption DEF Polling, IsBudget, IsPolling, Reasons
<1>4. QED
      BY <1>3 DEF Off

\* A step of one process keeps the waits if its own budget and the row do.
LEMMA OneWaits ==
    ASSUME WatchInv, WaitInv, NEW p \in Watchers, NEW v, w' = [w EXCEPT ![p] = v], w[p] # Off,
           IsBudget(v.budget), v.cycle = "throttled" => v.why \in Reasons \ {"none"},
           ctl'.epoch = ctl.epoch, IsBudget(ctl'.polling), owed' \in 0..Never,
           p # ctl.epoch => owed' = owed,
           p = ctl.epoch => v = Off \/ owed' <= v.budget.wait
    PROVE  WaitInv'
<1>1. w' = [q \in Watchers |-> IF q = p THEN v ELSE w[q]]
      BY DEF WatchInv
<1>2. ~(ctl.epoch < p)
      BY DEF WaitInv
<1>3. ASSUME NEW q \in Watchers
      PROVE  /\ IsBudget(w'[q].budget)
             /\ w'[q].cycle = "throttled" => w'[q].why \in Reasons \ {"none"}
             /\ ctl'.epoch < q => w'[q] = Off
             /\ q = ctl'.epoch /\ w'[q] # Off => owed' <= w'[q].budget.wait
  <2>1. CASE q = p
        BY <1>1, <1>2, <2>1
  <2>2. CASE q # p
    <3>1. w'[q] = w[q]
          BY <1>1, <2>2
    <3>2. QED
          BY <2>2, <3>1 DEF WaitInv
  <2>3. QED
        BY <2>1, <2>2
<1>4. QED
      BY <1>3 DEF WaitInv

\* What a process holds before its step.
LEMMA ProcessWaits ==
    ASSUME WatchInv, WaitInv, NEW p \in Watchers, w[p] # Off
    PROVE  /\ IsBudget(w[p].budget) /\ w[p].budget.wait \in 0..Never /\ owed \in 0..Never
           /\ p = ctl.epoch => owed <= w[p].budget.wait
<1>1. IsBudget(w[p].budget) /\ owed \in 0..Never /\ (p = ctl.epoch => owed <= w[p].budget.wait)
      BY DEF WaitInv
<1>2. QED
      BY <1>1, CheckKeeps

\* A step that changes nothing but one process, and shortens none of its waits.
LEMMA LongerWaits ==
    ASSUME WatchInv, WaitInv, NEW p \in Watchers, NEW v, w' = [w EXCEPT ![p] = v], w[p] # Off,
           UNCHANGED <<ctl, owed>>, IsBudget(v.budget), v.budget.wait >= w[p].budget.wait,
           v.cycle = "throttled" => v.why \in Reasons \ {"none"}
    PROVE  WaitInv'
<1>1. /\ w[p].budget.wait \in 0..Never /\ owed \in 0..Never /\ v.budget.wait \in 0..Never
      /\ p = ctl.epoch => owed <= w[p].budget.wait
      BY ProcessWaits, CheckKeeps
<1>2. p = ctl.epoch => owed' <= v.budget.wait
      BY <1>1, WatchAssumption
<1>3. IsBudget(ctl'.polling)
      BY DEF WaitInv
<1>4. QED
      BY <1>1, <1>2, <1>3, OneWaits

\* A takeover inherits what the row persisted.
LEMMA StartWaits ==
    ASSUME WatchInv, WaitInv, NEW p \in Watchers, Start(p)
    PROVE  WaitInv'
<1> DEFINE others == [q \in Watchers |-> Superseded(w[q])]
           fresh == [Off EXCEPT !.pc = "tick", !.budget = restore(ctl.polling)]
<1>1. /\ p = ctl.epoch + 1 /\ ctl.epoch \in Nat /\ ctl'.epoch = p /\ ctl'.polling = ctl.polling
      /\ owed' = ctl.polling.wait /\ p \in Nat
      BY DEF Start, configure_factory_controller, WatchInv, IsController, Watchers
<1>2. IsBudget(ctl.polling) /\ owed' \in 0..Never
      BY <1>1, CheckKeeps DEF WaitInv
<1>3. fresh.budget = restore(ctl.polling) /\ fresh.cycle = "none"
      BY DEF Off
<1>4. IsBudget(fresh.budget) /\ owed' <= fresh.budget.wait
  <2>1. IsBudget(restore(ctl.polling)) /\ restore(ctl.polling).wait >= ctl.polling.wait
        BY <1>2, RestoreKeeps
  <2>2. restore(ctl.polling).wait \in 0..Never
        BY <2>1, CheckKeeps
  <2>3. QED
        BY <1>1, <1>2, <1>3, <2>1, <2>2, WatchAssumption
<1>5. w' = others \/ w' = [others EXCEPT ![p] = fresh]
      BY DEF Start
<1>6. \A q \in Watchers : Superseded(w[q]) = w[q] \/ Superseded(w[q]) = Off
      BY DEF Superseded
<1>7. \A q \in Watchers : ctl.epoch < q => w[q] = Off /\ q \in Nat
      BY DEF WaitInv, Watchers
<1>8. Superseded(Off) = Off
      BY DEF Superseded
<1> HIDE DEF fresh
<1>9. ASSUME NEW q \in Watchers
      PROVE  /\ IsBudget(w'[q].budget)
             /\ w'[q].cycle = "throttled" => w'[q].why \in Reasons \ {"none"}
             /\ ctl'.epoch < q => w'[q] = Off
             /\ q = ctl'.epoch /\ w'[q] # Off => owed' <= w'[q].budget.wait
  <2>1. CASE q = p
    <3>1. w'[q] = Off \/ w'[q] = fresh
      <4>1. Superseded(w[p]) = Off
            BY <1>1, <1>7, <1>8
      <4>2. QED
            BY <1>5, <2>1, <4>1
    <3>2. QED
          BY <1>1, <1>3, <1>4, <2>1, <3>1, OffBudget
  <2>2. CASE q # p
    <3>1. w'[q] = Superseded(w[q])
          BY <1>5, <2>2
    <3>2. w'[q] = w[q] \/ w'[q] = Off
          BY <1>6, <3>1
    <3>3. ctl'.epoch < q => w'[q] = Off
          BY <1>1, <1>7, <1>8, <3>1 DEF Watchers
    <3>4. QED
          BY <1>1, <2>2, <3>2, <3>3, OffBudget DEF WaitInv
  <2>3. QED
        BY <2>1, <2>2
<1>10. QED
      BY <1>1, <1>2, <1>9 DEF WaitInv

\* Collecting a cycle shortens no wait.
LEMMA CollectedWaits ==
    ASSUME WatchInv, WaitInv, NEW p \in Watchers, w[p] # Off
    PROVE  LET v == Collected(w[p])
           IN  /\ IsBudget(v.budget) /\ v.budget.wait >= w[p].budget.wait
               /\ v.cycle # "throttled" /\ IsWatcher(v)
<1> DEFINE x == w[p]
<1>1. IsWatcher(x) /\ IsBudget(x.budget) /\ x.budget.wait \in 0..Never
      BY ProcessWaits DEF WatchInv
<1>2. CASE x.cycle \in {"none", "running"}
  <2>1. Collected(x) = x
        BY <1>2 DEF Collected
  <2>2. QED
        BY <1>1, <1>2, <2>1
<1>3. CASE x.cycle \notin {"none", "running"}
  <2> DEFINE b == CASE x.cycle = "succeeded" -> success(x.budget)
                    [] x.cycle = "throttled" /\ ~outstanding(x.budget.wait) ->
                          failure(x.budget, x.why, 0)
                    [] OTHER -> x.budget
             last == IF x.cycle = "succeeded" THEN "succeeded" ELSE "failed"
             x1 == [x EXCEPT !.cycle = "none"]
             x2 == [x1 EXCEPT !.began = 0]
             x3 == [x2 EXCEPT !.last = last]
             x4 == [x3 EXCEPT !.budget = b]
             v == [x4 EXCEPT !.why = "none"]
  <2>1. Collected(x) = v
    <3>1. Collected(x) = [x EXCEPT !.cycle = "none", !.began = 0, !.last = last, !.budget = b,
                                   !.why = "none"]
      <4>1. x = [x EXCEPT !.cycle = x.cycle]
            BY <1>1 DEF IsWatcher, Processes
      <4>2. QED
            BY <1>1, <1>3 DEF Collected, IsWatcher, Processes
    <3>2. QED
          BY <3>1
  <2>2. IsBudget(b) /\ b.wait >= x.budget.wait
    <3>1. CASE x.cycle = "succeeded"
          BY <1>1, <3>1, SuccessKeeps
    <3>2. CASE x.cycle = "throttled" /\ ~outstanding(x.budget.wait)
      <4>1. x.why \in Reasons \ {"none"} /\ 0 \in 0..Never
            BY <3>2, WatchAssumption DEF WaitInv
      <4>2. QED
            BY <1>1, <3>2, <4>1, FailureKeeps
    <3>3. CASE x.cycle # "succeeded" /\ ~(x.cycle = "throttled" /\ ~outstanding(x.budget.wait))
          BY <1>1, <3>3
    <3>4. QED
          BY <3>1, <3>2, <3>3
  <2>3. last \in {"none", "succeeded", "failed"}
        OBVIOUS
  <2> HIDE DEF b, last, x1, x2, x3, x4, v
  <2>4. IsWatcher(x1) /\ x1.cycle = "none"
    <3>1. IsWatcher(x1)
          BY <1>1, LoopFields DEF x1
    <3>2. QED
          BY <1>1, <3>1 DEF x1, IsWatcher, Processes
  <2>5. IsWatcher(x2) /\ x2.cycle = "none"
    <3>1. IsWatcher(x2)
          BY <2>4, LoopFields DEF x2
    <3>2. QED
          BY <2>4, <3>1 DEF x2, IsWatcher, Processes
  <2>6. IsWatcher(x3) /\ x3.cycle = "none"
    <3>1. IsWatcher(x3)
          BY <2>3, <2>5, LoopFields DEF x3
    <3>2. QED
          BY <2>5, <3>1 DEF x3, IsWatcher, Processes
  <2>7. IsWatcher(x4) /\ x4.cycle = "none" /\ x4.budget = b
    <3>1. IsWatcher(x4)
          BY <2>6, LoopFields DEF x4
    <3>2. QED
          BY <2>6, <3>1 DEF x4, IsWatcher, Processes
  <2>8. IsWatcher(v) /\ v.cycle = "none" /\ v.budget = b
    <3>1. IsWatcher(v)
          BY <2>7, LoopFields DEF v
    <3>2. QED
          BY <2>7, <3>1 DEF v, IsWatcher, Processes
  <2>9. QED
        BY <2>1, <2>2, <2>8
<1>4. QED
      BY <1>2, <1>3

\* A tick collects the cycle and reads the row.
LEMMA TickWaits ==
    ASSUME WatchInv, WaitInv, NEW p \in Watchers, Tick(p)
    PROVE  WaitInv'
<1> DEFINE v == Collected(w[p])
           seen == [v EXCEPT !.pc = "heartbeat", !.pend = ctl.gen, !.comp = ctl.done]
<1>1. w[p] # Off /\ UNCHANGED <<ctl, owed>>
      BY OffBudget DEF Tick
<1>2. /\ IsBudget(v.budget) /\ v.budget.wait >= w[p].budget.wait
      /\ v.cycle # "throttled" /\ IsWatcher(v)
      BY <1>1, CollectedWaits
<1>3. w' = [w EXCEPT ![p] = seen] \/ w' = [w EXCEPT ![p] = v]
      BY DEF Tick
<1> HIDE DEF v
<1>4. seen.budget = v.budget /\ seen.cycle = v.cycle
      BY <1>2 DEF IsWatcher, Processes
<1> HIDE DEF seen
<1>5. QED
      BY <1>1, <1>2, <1>3, <1>4, LongerWaits

\* A heartbeat persists the budget and keeps it.
LEMMA HeartbeatWaits ==
    ASSUME WatchInv, WaitInv, NEW p \in Watchers, Heartbeat(p)
    PROVE  WaitInv'
<1> DEFINE v == w[p]
           done == IF Reports(v) THEN [v EXCEPT !.cgen = 0, !.last = "none"] ELSE v
           idle == [done EXCEPT !.pc = "tick", !.pend = 0, !.comp = 0, !.budget = check(@)]
           back == [v EXCEPT !.pc = "tick", !.pend = 0, !.comp = 0]
<1>1. v # Off /\ owed' = owed /\ v.pc = "heartbeat"
      BY OffBudget DEF Heartbeat
<1>2. /\ IsWatcher(v) /\ IsBudget(v.budget) /\ v.budget.wait \in 0..Never /\ owed \in 0..Never
      /\ p = ctl.epoch => owed <= v.budget.wait
      /\ v.cycle = "throttled" => v.why \in Reasons \ {"none"}
      BY <1>1, ProcessWaits DEF WatchInv, WaitInv
<1>3. ctl'.epoch = ctl.epoch /\ IsBudget(ctl'.polling)
  <2>1. ctl' = ctl \/ ctl' = heartbeat_factory_controller(Finished(v), v.budget)
        BY DEF Heartbeat
  <2>2. IsController(ctl) /\ IsBudget(ctl.polling)
        BY DEF WatchInv, WaitInv
  <2>3. CASE ctl' = heartbeat_factory_controller(Finished(v), v.budget)
    <3>1. ctl'.epoch = ctl.epoch /\ ctl'.polling = v.budget
          BY <2>2, <2>3 DEF heartbeat_factory_controller, IsController
    <3>2. QED
          BY <1>2, <3>1
  <2>4. QED
        BY <2>1, <2>2, <2>3
<1>4. IsWatcher(done) /\ done.budget = v.budget /\ done.cycle = v.cycle /\ done.why = v.why
  <2> DEFINE u == [v EXCEPT !.cgen = 0]
  <2>1. IsWatcher(u) /\ u.budget = v.budget /\ u.cycle = v.cycle /\ u.why = v.why
    <3>1. IsWatcher(u)
          BY <1>2, LoopFields
    <3>2. QED
          BY <1>2, <3>1 DEF IsWatcher, Processes
  <2>2. [v EXCEPT !.cgen = 0, !.last = "none"] = [u EXCEPT !.last = "none"]
        OBVIOUS
  <2> HIDE DEF u
  <2>3. LET x == [u EXCEPT !.last = "none"]
        IN  IsWatcher(x) /\ x.budget = u.budget /\ x.cycle = u.cycle /\ x.why = u.why
    <3> DEFINE x == [u EXCEPT !.last = "none"]
    <3>1. IsWatcher(x)
          BY <2>1, LoopFields
    <3>2. QED
          BY <2>1, <3>1 DEF IsWatcher, Processes
  <2>4. QED
        BY <1>2, <2>1, <2>2, <2>3
<1> HIDE DEF done
<1>5. /\ idle.budget = check(v.budget) /\ idle.cycle = v.cycle /\ idle.why = v.why
      BY <1>4 DEF IsWatcher, Processes
<1>6. back.budget = v.budget /\ back.cycle = v.cycle /\ back.why = v.why
      BY <1>2 DEF IsWatcher, Processes
<1>7. IsBudget(check(v.budget)) /\ check(v.budget).wait = v.budget.wait
      BY <1>2, CheckKeeps
<1>8. PICK u :
         /\ w' = [w EXCEPT ![p] = u]
         /\ \/ u = Off
            \/ /\ u.budget \in {check(v.budget), v.budget}
               /\ u.cycle = "throttled" => v.cycle = "throttled" /\ u.why = v.why
  <2>1. \/ \E due \in BOOLEAN :
             w' = [w EXCEPT ![p] = Decided(done, ctl.desired = "paused", due)]
        \/ w' = [w EXCEPT ![p] = Refusal(p, v)]
        BY DEF Heartbeat, done
  <2>2. CASE w' = [w EXCEPT ![p] = Refusal(p, v)]
    <3>1. Refusal(p, v) = Off \/ Refusal(p, v) = back
          BY DEF Refusal
    <3> HIDE DEF back
    <3>2. QED
          BY <1>6, <2>2, <3>1
  <2>3. ASSUME NEW due \in BOOLEAN,
               w' = [w EXCEPT ![p] = Decided(done, ctl.desired = "paused", due)]
        PROVE  \E u : /\ w' = [w EXCEPT ![p] = u]
                      /\ u.budget = check(v.budget)
                      /\ u.cycle = "throttled" => v.cycle = "throttled" /\ u.why = v.why
    <3> DEFINE d == Decided(done, ctl.desired = "paused", due)
    <3>1. PICK n : d = idle \/ d = [idle EXCEPT !.cycle = "running", !.began = ctl.gen, !.cgen = n]
          BY DEF Decided
    <3>2. d.budget = check(v.budget) /\ (d.cycle = "throttled" => v.cycle = "throttled" /\ d.why = v.why)
      <4>1. CASE d = idle
        <5> HIDE DEF d, idle
        <5>1. QED
              BY <1>5, <4>1
      <4>2. CASE d = [idle EXCEPT !.cycle = "running", !.began = ctl.gen, !.cgen = n]
        <5> HIDE DEF d
        <5>1. idle \in [pc : {"tick"}, budget : {check(v.budget)}, cycle : {done.cycle},
                        began : {done.began}, cgen : {done.cgen}, why : {done.why},
                        last : {done.last}, pend : {0}, comp : {0}]
              BY <1>4 DEF IsWatcher, Processes
        <5> HIDE DEF idle
        <5>2. d.budget = check(v.budget) /\ d.cycle = "running"
              BY <4>2, <5>1
        <5>3. QED
              BY <5>2
      <4>3. QED
            BY <3>1, <4>1, <4>2
    <3>3. QED
          BY <2>3, <3>2
  <2>4. QED
        BY <2>1, <2>2, <2>3
<1>9. CASE u = Off
      BY <1>1, <1>2, <1>3, <1>8, <1>9, OffBudget, OneWaits
<1>10. CASE u # Off
  <2>1. IsBudget(u.budget) /\ u.budget.wait = v.budget.wait
        BY <1>2, <1>7, <1>8, <1>10
  <2>2. u.cycle = "throttled" => u.why \in Reasons \ {"none"}
        BY <1>2, <1>8, <1>10
  <2> HIDE DEF v, back, idle
  <2>3. p = ctl.epoch => owed' <= u.budget.wait
        BY <1>1, <1>2, <2>1
  <2>4. w[p] # Off
        BY <1>1 DEF v
  <2>5. QED
        BY <1>1, <1>2, <1>3, <1>8, <2>1, <2>2, <2>3, <2>4, OneWaits
<1>11. QED
      BY <1>9, <1>10

\* An answer of GitHub that asks for a wait puts it into the budget at once.
LEMMA RequestedWaits ==
    ASSUME WatchInv, WaitInv, NEW p \in Watchers, Requested(p)
    PROVE  WaitInv'
<1> DEFINE v == w[p]
<1>1. v # Off /\ ctl' = ctl /\ v.cycle = "running"
      BY OffBudget DEF Requested, Send
<1>2. /\ IsWatcher(v) /\ IsBudget(v.budget) /\ v.budget.wait \in 0..Never /\ owed \in 0..Never
      /\ p = ctl.epoch => owed <= v.budget.wait
      BY <1>1, ProcessWaits DEF WatchInv
<1>3. IsBudget(ctl'.polling) /\ ctl'.epoch = ctl.epoch /\ w = [q \in Watchers |-> w[q]]
      BY <1>1 DEF WaitInv, WatchInv
<1>4. ASSUME NEW q \in Quotas, valid_counters(q),
             w' = [w EXCEPT ![p].budget = observe_json(@, q)],
             owed' = IF /\ p = ctl.epoch /\ q.remaining < required(q)
                        /\ ~Stale(w[p].budget, q)
                     THEN Larger(owed, q.until) ELSE owed
      PROVE  WaitInv'
  <2> DEFINE b == observe_json(v.budget, q)
             u == [v EXCEPT !.budget = b]
  <2>1. q \in QuotaData /\ q.until \in 0..Never
        BY WatchAssumption DEF QuotaData
  <2>2. /\ IsBudget(b) /\ b.wait >= v.budget.wait
        /\ q.remaining < required(q) /\ ~Stale(v.budget, q) => b.wait >= q.until
        BY <1>2, <1>4, <2>1, ObserveKeeps
  <2>3. w' = [w EXCEPT ![p] = u]
        BY <1>4
  <2>4. u.budget = b /\ u.cycle = "running"
        BY <1>1, <1>2 DEF IsWatcher, Processes
  <2>5. b.wait \in 0..Never
        BY <2>2, CheckKeeps
  <2> HIDE DEF b, u
  <2>6. owed' \in 0..Never /\ (p # ctl.epoch => owed' = owed)
        BY <1>2, <1>4, <2>1 DEF Larger
  <2>7. p = ctl.epoch => owed' <= b.wait
        BY <1>2, <1>4, <2>1, <2>2, <2>5, WatchAssumption DEF Larger
  <2>8. w[p] # Off
        BY <1>1
  <2> HIDE DEF v
  <2>9. QED
        BY <1>3, <2>2, <2>3, <2>4, <2>6, <2>7, <2>8, OneWaits
<1>5. ASSUME NEW f \in classify_failure,
             w' = [w EXCEPT ![p].budget = failure(@, f.reason, f.hint),
                            ![p].cycle = "throttled", ![p].why = f.reason],
             owed' = IF p = ctl.epoch THEN Larger(owed, f.hint) ELSE owed
      PROVE  WaitInv'
  <2> DEFINE b == failure(v.budget, f.reason, f.hint)
             u1 == [v EXCEPT !.budget = b]
             u2 == [u1 EXCEPT !.cycle = "throttled"]
             u == [u2 EXCEPT !.why = f.reason]
  <2>1. f.reason \in {"primary", "secondary"} /\ f.hint \in 0..Never
    <3>1. BaseBackoff \in 0..Never
          BY WatchAssumption
    <3>2. f \in [reason : {"primary", "secondary"}, hint : 0..Never]
          BY <3>1, WatchAssumption DEF classify_failure
    <3>3. QED
          BY <3>2
  <2>2. f.reason \in Reasons \ {"none"}
        BY <2>1 DEF Reasons
  <2>3. IsBudget(b) /\ b.wait >= v.budget.wait /\ b.wait >= f.hint
        BY <1>2, <2>1, <2>2, FailureKeeps
  <2>4. w' = [w EXCEPT ![p] = u]
        BY <1>2, <1>3, <1>5 DEF IsWatcher, Processes
  <2>5. b.wait \in 0..Never
        BY <2>3, CheckKeeps
  <2> HIDE DEF b
  <2>6. u.budget = b /\ u.why = f.reason
        BY <1>2 DEF IsWatcher, Processes
  <2> HIDE DEF u
  <2>7. owed' \in 0..Never /\ (p # ctl.epoch => owed' = owed)
        BY <1>2, <1>5, <2>1 DEF Larger
  <2>8. p = ctl.epoch => owed' <= b.wait
        BY <1>2, <1>5, <2>1, <2>3, <2>5, WatchAssumption DEF Larger
  <2>9. w[p] # Off
        BY <1>1
  <2> HIDE DEF v
  <2>10. QED
        BY <1>3, <2>2, <2>3, <2>4, <2>6, <2>7, <2>8, <2>9, OneWaits
<1>6. CASE owed' = owed /\ w' = [w EXCEPT ![p].cycle = "failed"]
  <2> DEFINE u == [v EXCEPT !.cycle = "failed"]
  <2>1. w' = [w EXCEPT ![p] = u]
        BY <1>6
  <2>2. u.budget = v.budget /\ u.cycle = "failed"
        BY <1>2 DEF IsWatcher, Processes
  <2>3. w[p] # Off
        BY <1>1
  <2> HIDE DEF u
  <2>4. IsBudget(u.budget) /\ u.budget.wait >= w[p].budget.wait
        BY <1>2, <2>2
  <2>5. QED
        BY <1>1, <1>6, <2>1, <2>2, <2>3, <2>4, LongerWaits
<1>7. \/ \E q \in {q \in Quotas : valid_counters(q)} :
           /\ w' = [w EXCEPT ![p].budget = observe_json(@, q)]
           /\ owed' = IF /\ p = ctl.epoch /\ q.remaining < required(q)
                         /\ ~Stale(w[p].budget, q)
                      THEN Larger(owed, q.until) ELSE owed
      \/ \E f \in classify_failure :
           /\ w' = [w EXCEPT ![p].budget = failure(@, f.reason, f.hint),
                             ![p].cycle = "throttled", ![p].why = f.reason]
           /\ owed' = IF p = ctl.epoch THEN Larger(owed, f.hint) ELSE owed
      \/ owed' = owed /\ w' = [w EXCEPT ![p].cycle = "failed"]
      BY DEF Requested
<1>8. QED
      BY <1>4, <1>5, <1>6, <1>7

\* A refused request and the end of a cycle change no wait.
LEMMA CycleWaits ==
    ASSUME WatchInv, WaitInv, NEW p \in Watchers, Refused(p) \/ CycleEnds(p)
    PROVE  WaitInv'
<1> DEFINE v == w[p]
           b == check(v.budget)
<1>1. v # Off /\ UNCHANGED <<ctl, owed>> /\ v.cycle = "running"
      BY OffBudget DEF Refused, CycleEnds
<1>2. /\ IsWatcher(v) /\ IsBudget(v.budget) /\ v.budget.wait \in 0..Never
      /\ w = [q \in Watchers |-> w[q]]
      BY <1>1, ProcessWaits DEF WatchInv
<1>3. /\ IsBudget(b) /\ b.wait = v.budget.wait /\ b.reason = v.budget.reason
      /\ Admits(v.budget) <=> v.budget.wait = 0
      BY <1>2, CheckKeeps
<1>4. CASE Refused(p)
  <2> DEFINE u1 == [v EXCEPT !.cycle = "throttled"]
             u2 == [u1 EXCEPT !.why = b.reason]
             u == [u2 EXCEPT !.budget = b]
  <2>1. b.reason \in Reasons \ {"none"}
    <3>1. v.budget.wait # 0
          BY <1>3, <1>4 DEF Refused
    <3>2. QED
          BY <1>2, <1>3, <3>1 DEF IsBudget, IsPolling
  <2>2. w' = [w EXCEPT ![p] = u]
        BY <1>2, <1>4 DEF Refused, IsWatcher, Processes
  <2> HIDE DEF b
  <2>3. u.budget = b /\ u.why = b.reason
        BY <1>2 DEF IsWatcher, Processes
  <2> HIDE DEF u
  <2>4. IsBudget(u.budget) /\ u.budget.wait >= w[p].budget.wait
        BY <1>2, <1>3, <2>3
  <2>5. w[p] # Off
        BY <1>1
  <2>6. QED
        BY <1>1, <2>1, <2>2, <2>3, <2>4, <2>5, LongerWaits
<1>5. CASE CycleEnds(p)
  <2> DEFINE u == [v EXCEPT !.cycle = "succeeded"]
  <2>1. w' = [w EXCEPT ![p] = u]
        BY <1>5 DEF CycleEnds
  <2>2. u.budget = v.budget /\ u.cycle = "succeeded"
        BY <1>2 DEF IsWatcher, Processes
  <2>3. w[p] # Off
        BY <1>1
  <2> HIDE DEF u
  <2>4. IsBudget(u.budget) /\ u.budget.wait >= w[p].budget.wait
        BY <1>2, <2>2
  <2>5. QED
        BY <1>1, <2>1, <2>2, <2>3, <2>4, LongerWaits
<1>6. QED
      BY <1>4, <1>5

\* A crash leaves the office empty.
LEMMA CrashWaits ==
    ASSUME WatchInv, WaitInv, NEW p \in Watchers, Crash(p)
    PROVE  WaitInv'
<1>1. /\ w[p] # Off /\ UNCHANGED <<ctl, owed>> /\ w' = [w EXCEPT ![p] = Off]
      BY OffBudget DEF Crash
<1>2. IsBudget(ctl'.polling) /\ owed' \in 0..Never
      BY <1>1 DEF WaitInv
<1>3. QED
      BY <1>1, <1>2, OffBudget, OneWaits

\* An operator's request leaves the budgets alone.
LEMMA ControlWaits ==
    ASSUME WatchInv, WaitInv, NEW action \in {"pause", "resume", "reconcile"}, Control(action)
    PROVE  WaitInv'
<1>1. w' = w /\ owed' = owed /\ IsController(ctl)
      BY DEF Control, WatchInv
<1>2. PICK desired, gen : ctl' = [ctl EXCEPT !.desired = desired, !.gen = gen]
      BY DEF Control, control_factory_controller
<1>3. ctl'.epoch = ctl.epoch /\ ctl'.polling = ctl.polling
      BY <1>1, <1>2 DEF IsController
<1>4. QED
      BY <1>1, <1>3 DEF WaitInv

\* Time passes for the budgets and for what is owed alike.
LEMMA TimeWaits ==
    ASSUME WatchInv, WaitInv, Time
    PROVE  WaitInv'
<1>1. /\ owed \in 0..Never /\ IsBudget(ctl.polling) /\ IsController(ctl)
      BY DEF WatchInv, WaitInv
<1>2. ctl'.epoch = ctl.epoch /\ ctl'.polling = Elapse(ctl.polling) /\ owed' = Pass(owed)
      BY <1>1 DEF Time, IsController
<1>3. IsBudget(ctl'.polling)
      BY <1>1, <1>2, ElapseKeeps
<1>4. owed' \in 0..Never
      BY <1>1, <1>2, WatchAssumption DEF Pass
<1>5. ASSUME NEW q \in Watchers
      PROVE  /\ IsBudget(w'[q].budget)
             /\ w'[q].cycle = "throttled" => w'[q].why \in Reasons \ {"none"}
             /\ ctl'.epoch < q => w'[q] = Off
             /\ q = ctl'.epoch /\ w'[q] # Off => owed' <= w'[q].budget.wait
  <2>1. IsWatcher(w[q]) /\ IsBudget(w[q].budget)
        BY DEF WatchInv, WaitInv
  <2>2. w'[q] = [w[q] EXCEPT !.budget = Elapse(w[q].budget)]
        BY DEF Time
  <2>3. w'[q].budget = Elapse(w[q].budget) /\ w'[q].cycle = w[q].cycle /\ w'[q].why = w[q].why
        BY <2>1, <2>2 DEF IsWatcher, Processes
  <2>4. IsBudget(w'[q].budget) /\ (owed <= w[q].budget.wait => owed' <= w'[q].budget.wait)
        BY <1>1, <1>2, <2>1, <2>3, ElapseKeeps
  <2>5. w[q] = Off => w'[q] = Off
    <3>1. ASSUME w[q] = Off PROVE w'[q] = Off
      <4>1. Elapse(Polling) = Polling
        <5> DEFINE c == [Polling EXCEPT !.wait = Pass(Polling.wait)]
        <5>1. c = Polling /\ c.quota = NoQuota
              BY DEF Polling, NoQuota, Pass
        <5>2. NoQuota.until = 0 /\ [NoQuota EXCEPT !.until = 0] = NoQuota
              BY DEF NoQuota
        <5>3. Elapse(Polling) = [c EXCEPT !.quota.until = IF @ = 0 THEN 0 ELSE @ - 1]
              BY DEF Elapse
        <5> HIDE DEF c
        <5>4. [c EXCEPT !.quota.until = IF @ = 0 THEN 0 ELSE @ - 1]
                = [c EXCEPT !.quota = [c.quota EXCEPT !.until = IF c.quota.until = 0 THEN 0
                                                                ELSE c.quota.until - 1]]
              OBVIOUS
        <5>5. Elapse(Polling) = [Polling EXCEPT !.quota = NoQuota]
              BY <5>1, <5>2, <5>3, <5>4
        <5>6. QED
              BY <5>5 DEF Polling
      <4>2. QED
            BY <2>2, <3>1, <4>1 DEF Off
    <3>2. QED
          BY <3>1
  <2>6. QED
        BY <1>2, <2>3, <2>4, <2>5 DEF WaitInv
<1>6. QED
      BY <1>3, <1>4, <1>5 DEF WaitInv

\* Nothing is owed at the start.
LEMMA InitWait == Init => WaitInv
<1> SUFFICES ASSUME Init PROVE WaitInv
    OBVIOUS
<1>1. owed = 0 /\ ctl.polling = Polling /\ \A p \in Watchers : w[p] = Off
      BY DEF Init
<1>2. QED
      BY <1>1, OffBudget, WatchAssumption DEF WaitInv

\* Every step keeps the waits.
LEMMA StepKeepsWait == WatchInv /\ WaitInv /\ [Next]_vars => WaitInv'
<1> SUFFICES ASSUME WatchInv, WaitInv, [Next]_vars PROVE WaitInv'
    OBVIOUS
<1>1. CASE UNCHANGED vars
      BY <1>1 DEF vars, WaitInv
<1>2. ASSUME NEW p \in Watchers, Start(p) \/ Loop(p) \/ Cycle(p) \/ Crash(p)
      PROVE  WaitInv'
      BY <1>2, StartWaits, TickWaits, HeartbeatWaits, RequestedWaits, CycleWaits, CrashWaits
      DEF Loop, Cycle
<1>3. ASSUME NEW action \in {"pause", "resume", "reconcile"}, Control(action)
      PROVE  WaitInv'
      BY <1>3, ControlWaits
<1>4. QED
      BY <1>1, <1>2, <1>3, TimeWaits DEF Next

\* The controller in office sends GitHub no request before the longest deadline
\* that an answer gave it or that its predecessors persisted has passed, for any
\* hints, quota windows, takeovers, failed and successful cycles and faults.
THEOREM WaitIsServedHolds == Spec => WaitIsServed
<1> DEFINE Served == \A p \in Watchers : (Requested(p) /\ p = ctl.epoch) => owed = 0
<1>1. WatchInv /\ WaitInv => Served
  <2> SUFFICES ASSUME WatchInv, WaitInv, NEW p \in Watchers, Requested(p), p = ctl.epoch
               PROVE  owed = 0
      OBVIOUS
  <2>1. w[p] # Off /\ Admits(w[p].budget)
        BY OffBudget DEF Requested, Send
  <2>2. owed \in 0..Never /\ IsBudget(w[p].budget) /\ owed <= w[p].budget.wait
        BY <2>1, ProcessWaits
  <2>3. w[p].budget.wait = 0
        BY <2>1, <2>2, CheckKeeps
  <2>4. QED
        BY <2>2, <2>3
<1>2. WatchInv /\ WaitInv => [Served]_vars
      BY <1>1
<1>3. Spec => [][Served]_vars
      BY <1>2, InitWatch, StepKeepsWatch, InitWait, StepKeepsWait, PTL DEF Spec
<1>4. QED
      BY <1>3 DEF WaitIsServed
=============================================================================
