--------------------- MODULE WorkspaceConnectionsProofs ---------------------
(***************************************************************************)
(* Proofs about WorkspaceConnections, for any sequence of operations, any  *)
(* capacity of the registry, and any number of messages and faults.        *)
(***************************************************************************)
EXTENDS WorkspaceConnections, FiniteSetTheorems, WellFoundedInduction, TLAPS

-----------------------------------------------------------------------------
(* The inductive invariant.                                                *)

(* The store.  A ready connection is what its newest operation reported.   *)
StoreOperations ==
    [kind : {"connect", "test", "sign_in"},
     status : {"queued", "running", "needs_sign_in", "succeeded", "failed"},
     report : Reports \cup {None}]

StoreShape(d) ==
    /\ d \in [op : Seq(StoreOperations), authorized : BOOLEAN,
              conn : [status : {"connecting", "needs_sign_in", "ready", "failed"},
                      source : Commits \cup {None}]]
    /\ LastOp(d) <= MaxOps

ReadyIsReported(d) ==
    d.conn.status = "ready" =>
        /\ LastOp(d) > 0
        /\ d.op[LastOp(d)].status = "succeeded" /\ d.op[LastOp(d)].report # None
        /\ IsReady(d.op[LastOp(d)].report)
        /\ d.conn.source = d.op[LastOp(d)].report.src

StoreInv(d) == StoreShape(d) /\ ReadyIsReported(d)

(* The socket carries messages about operations the store has.             *)
Messages == [o : Versions, r : Reports]
Carried(n) == {n.reps[i] : i \in 1 .. Len(n.reps)}

NetInv(n, last) ==
    /\ n \in [up : BOOLEAN, cmds : SUBSET (1 .. last),
              inbox : Seq([o : Versions, accepted : BOOLEAN]),
              reps : Seq(Messages), sent : {n.sent}, told : {n.told}]
    /\ Len(n.reps) <= MaxQueue /\ Len(n.inbox) <= MaxQueue
    /\ \A m \in Carried(n) : m.o \in 1 .. last

(* The registry.  A receipt is final before it is acknowledged, and brings *)
(* its snapshot with it.                                                   *)
Receipts == [login : BOOLEAN, report : Reports \cup {None}, candidate : Snapshots \cup {None},
             ack : BOOLEAN \cup {None}]

RegShape(r, last) ==
    /\ r \in [op : {r.op}, current : 0 .. MaxOps, active : Snapshots \cup {None},
              source : Snapshots \cup {None}, snapshots : SUBSET Snapshots,
              accepted : SUBSET Snapshots, sourceAccepted : SUBSET Snapshots]
    /\ r.op = [o \in DOMAIN r.op |-> r.op[o]]
    /\ DOMAIN r.op \subseteq 1 .. last
    /\ Cardinality(DOMAIN r.op) <= MAX_OPERATIONS
    /\ \A o \in DOMAIN r.op : r.op[o] \in Receipts
    /\ r.accepted \subseteq r.snapshots /\ r.sourceAccepted \subseteq r.snapshots

ReceiptInv(r, o) ==
    /\ o <= r.current
    /\ r.op[o].candidate # None =>
         /\ r.op[o].report # None /\ r.op[o].report.src = r.op[o].candidate.src
         /\ r.op[o].candidate \in r.snapshots
    /\ r.op[o].ack # None => r.op[o].report # None

(* Every decision the registry holds is backed by an acknowledged receipt. *)
AckedFor(r, o, key) == r.op[o].ack = TRUE /\ r.op[o].candidate = key

Backed(r) ==
    /\ \A key \in r.accepted :
         \E o \in DOMAIN r.op : AckedFor(r, o, key) /\ IsReady(r.op[o].report)
    /\ \A key \in r.sourceAccepted : \E o \in DOMAIN r.op : AckedFor(r, o, key)
    /\ r.source # None => r.source \in r.sourceAccepted
    /\ r.active # None => /\ r.active \in r.accepted /\ r.current \in DOMAIN r.op
                          /\ AckedFor(r, r.current, r.active)

RegInv(r, last) ==
    /\ RegShape(r, last)
    /\ r.current = 0 \/ r.current \in DOMAIN r.op
    /\ \A o \in DOMAIN r.op : ReceiptInv(r, o)
    /\ Backed(r)

(* A check in flight has a receipt that is still open.                     *)
Flights == [at : {"none", "queued", "prepared", "prompt", "coded"},
            src : Commits \cup {None}, recent : {None, Running, Prompt, Waiting}]

FlightInv(f, r) ==
    /\ f \in [Versions -> Flights]
    /\ \A o \in Versions :
         /\ f[o].at \notin {"none", "queued"} => f[o].src \in Commits
         /\ f[o].at # "none" => o \in DOMAIN r.op /\ r.op[o].report = None

(* A login that was started is marked in its receipt, or the receipt was   *)
(* forgotten and the operation can never be admitted again.                *)
Claimed(w, r, o) ==
    IF o \in DOMAIN r.op THEN r.op[o].login ELSE o <= w.expired

WorldInv(w, r) ==
    /\ w \in [expired : Nat, faults : Nat, logins : [Versions -> {0, 1}]]
    /\ \A o \in Versions : w.logins[o] = 1 => Claimed(w, r, o)

(* What the store or the socket says to be ready is what the receipt says, *)
(* unless a newer operation has taken over.                                *)
Matches(r, o, report) ==
    \/ o \in DOMAIN r.op /\ r.op[o].report = report
    \/ o < r.current

AgreeInv(d, n, r) ==
    /\ \A o \in 1 .. LastOp(d) :
         d.op[o].report # None /\ IsReady(d.op[o].report) => Matches(r, o, d.op[o].report)
    /\ \A m \in Carried(n) : IsReady(m.r) => Matches(r, m.o, m.r)

RunInv(u, r) ==
    /\ u \in [st : {"none", "running", "ended"}, pin : Commits \cup {None}]
    /\ u.st # "none" => \E key \in r.accepted : key.src = u.pin

ConnectionInv ==
    /\ StoreInv(db) /\ NetInv(net, LastOp(db)) /\ RegInv(reg, LastOp(db))
    /\ FlightInv(flight, reg) /\ WorldInv(world, reg)
    /\ AgreeInv(db, net, reg) /\ RunInv(run, reg)

-----------------------------------------------------------------------------
(* The vocabulary.                                                         *)

\* A report, and a snapshot, is something; the bounds are numbers.
LEMMA Somethings ==
    /\ None \notin Reports /\ None \notin Snapshots /\ TRUE # None /\ FALSE # None
    /\ MaxOps \in Nat \ {0} /\ Versions \subseteq Nat /\ MaxQueue \in Nat
    /\ MAX_OPERATIONS \in Nat \ {0}
<1>1. None \notin Reports
      BY ConnectionAssumption
<1>2. None \notin Snapshots /\ TRUE # None /\ FALSE # None
      BY ConnectionAssumption
<1>3. Len(Kinds) \in Nat /\ Len(Kinds) # 0
      BY ConnectionAssumption
<1>4. MaxOps \in Nat \ {0} /\ Versions \subseteq Nat
      BY <1>3 DEF MaxOps, Versions
<1>5. QED
      BY <1>1, <1>2, <1>4, ConnectionAssumption

\* What the runner and the store say before a check ends is not ready.
LEMMA PlainReports ==
    /\ {Running, Prompt, Waiting} \subseteq Reports
    /\ \A r \in {Running, Prompt, Waiting} : ~IsReady(r)
    /\ \A why \in {"expired", "unauthorized", "not_run", "not_saved", "superseded", "native"} :
         /\ Failed(why) \in Reports /\ ~IsReady(Failed(why)) /\ Failed(why).src = None
         /\ Failed(why).st = "failed"
  BY DEF Running, Prompt, Waiting, Failed, Report, Reports, IsReady

\* The outcome of a check names the revision that was checked.
LEMMA NativeReports ==
    ASSUME NEW c \in Commits, NEW readiness \in {"ready", "needs_sign_in", "failed"}
    PROVE  /\ readiness_report(readiness, c) \in Reports
           /\ readiness_report(readiness, c).src = c
           /\ snapshot_key(c, readiness = "ready") \in Snapshots
           /\ snapshot_key(c, readiness = "ready").src = c
  BY DEF readiness_report, Report, Reports, snapshot_key, Snapshots

\* A nonempty set of versions has a least one.
LEMMA MinIsIn ==
    ASSUME NEW S, S \subseteq Nat, S # {}
    PROVE  Min(S) \in S
<1> DEFINE Below == {ss \in Nat \X Nat : ss[1] < ss[2]}
<1>1. IsWellFoundedOn(Below, Nat)
      BY NatLessThanWellFounded DEF OpToRel
<1>2. PICK x \in S : \A y \in S : ~(<<y, x>> \in Below)
  <2> HIDE DEF Below
  <2> QED
      BY <1>1, WFMin
<1>3. ASSUME NEW y \in S
      PROVE  x <= y
  <2>1. x \in Nat /\ y \in Nat
        OBVIOUS
  <2>2. <<y, x>> \in Nat \X Nat
        BY <2>1
  <2>3. ~(<<y, x>>[1] < <<y, x>>[2])
        BY <1>2, <2>2
  <2>4. QED
        BY <2>1, <2>3
<1>4. QED
      BY <1>3 DEF Min

-----------------------------------------------------------------------------
(* The socket.                                                             *)

\* A report that is appended is the only new message.
LEMMA NetTells ==
    ASSUME NEW n, NEW last \in 0 .. MaxOps, NetInv(n, last), Len(n.reps) < MaxQueue,
           NEW o \in 1 .. last, NEW r \in Reports
    PROVE  /\ NetInv(Live(n, o, r), last)
           /\ Carried(Live(n, o, r)) \subseteq Carried(n) \cup {[o |-> o, r |-> r]}
           /\ Live(n, o, r).up = n.up
<1> DEFINE m == [o |-> o, r |-> r]
           l == Live(n, o, r)
<1>1. m \in Messages
      BY Somethings DEF Messages, Versions
<1>2. n.reps \in Seq(Messages) /\ Len(n.reps) \in Nat
      BY DEF NetInv
<1>3. l = [n EXCEPT !.reps = Append(n.reps, m)]
      BY DEF Live
<1>4. l.reps = Append(n.reps, m)
      BY <1>3 DEF NetInv
<1>5. Append(n.reps, m) \in Seq(Messages) /\ Len(Append(n.reps, m)) = Len(n.reps) + 1
      BY <1>1, <1>2
<1>6. \A i \in 1 .. Len(n.reps) + 1 :
         Append(n.reps, m)[i] = IF i = Len(n.reps) + 1 THEN m ELSE n.reps[i]
      BY <1>1, <1>2
<1>7. Carried(l) \subseteq Carried(n) \cup {m}
      BY <1>2, <1>4, <1>5, <1>6 DEF Carried
<1>8. NetInv(l, last)
  <2>1. l \in [up : BOOLEAN, cmds : SUBSET (1 .. last),
               inbox : Seq([o : Versions, accepted : BOOLEAN]),
               reps : Seq(Messages), sent : {l.sent}, told : {l.told}]
        BY <1>3, <1>5 DEF NetInv
  <2>2. Len(l.reps) <= MaxQueue /\ Len(l.inbox) <= MaxQueue
        BY <1>2, <1>3, <1>4, <1>5, Somethings DEF NetInv
  <2>3. \A x \in Carried(l) : x.o \in 1 .. last
        BY <1>7 DEF NetInv
  <2>4. QED
        BY <2>1, <2>2, <2>3 DEF NetInv
<1>9. QED
      BY <1>3, <1>7, <1>8 DEF NetInv

\* A report needs a socket.
LEMMA NetMayTell ==
    ASSUME NEW n, NEW last \in 0 .. MaxOps, NetInv(n, last), Len(n.reps) < MaxQueue,
           NEW o \in 1 .. last, NEW r \in Reports
    PROVE  /\ NetInv(Tell(n, o, r), last)
           /\ Carried(Tell(n, o, r)) \subseteq Carried(n) \cup {[o |-> o, r |-> r]}
  BY NetTells DEF Tell

\* A socket with the same queues carries the same messages.
LEMMA NetAlike ==
    ASSUME NEW n, NEW last, NetInv(n, last), NEW m,
           m \in [up : BOOLEAN, cmds : SUBSET (1 .. last), inbox : {n.inbox}, reps : {n.reps},
                  sent : {m.sent}, told : {m.told}]
    PROVE  NetInv(m, last) /\ Carried(m) = Carried(n) /\ m.reps = n.reps
<1>1. m.reps = n.reps /\ m.inbox = n.inbox
      OBVIOUS
<1>2. Carried(m) = Carried(n)
      BY <1>1 DEF Carried
<1>3. m \in [up : BOOLEAN, cmds : SUBSET (1 .. last),
             inbox : Seq([o : Versions, accepted : BOOLEAN]),
             reps : Seq(Messages), sent : {m.sent}, told : {m.told}]
      BY DEF NetInv
<1>4. QED
      BY <1>1, <1>2, <1>3 DEF NetInv

\* A report leaves the queue, and its answer may enter the other one.
LEMMA NetAnswers ==
    ASSUME NEW n, NEW last, NetInv(n, last), n.reps # <<>>, Len(n.inbox) < MaxQueue,
           NEW answer \in Seq([o : Versions, accepted : BOOLEAN]), Len(answer) <= 1
    PROVE  LET m == [n EXCEPT !.reps = Tail(@), !.inbox = @ \o answer] IN
           NetInv(m, last) /\ Carried(m) \subseteq Carried(n) /\ Head(n.reps) \in Carried(n)
<1> DEFINE m == [n EXCEPT !.reps = Tail(@), !.inbox = @ \o answer]
           Acks == [o : Versions, accepted : BOOLEAN]
<1>1. n.reps \in Seq(Messages) /\ n.inbox \in Seq(Acks) /\ Len(n.reps) <= MaxQueue
      BY DEF NetInv
<1>2. /\ Tail(n.reps) \in Seq(Messages) /\ Len(Tail(n.reps)) = Len(n.reps) - 1
      /\ \A i \in 1 .. Len(n.reps) - 1 : Tail(n.reps)[i] = n.reps[i + 1]
      /\ Len(n.reps) \in Nat \ {0} /\ Head(n.reps) = n.reps[1]
      BY <1>1
<1>3. m.reps = Tail(n.reps) /\ m.inbox = n.inbox \o answer
      BY DEF NetInv
<1>4. n.inbox \o answer \in Seq(Acks) /\ Len(n.inbox \o answer) = Len(n.inbox) + Len(answer)
      BY <1>1
<1>5. Carried(m) \subseteq Carried(n)
  <2> SUFFICES ASSUME NEW i \in 1 .. Len(n.reps) - 1
               PROVE  Tail(n.reps)[i] \in Carried(n)
      BY <1>2, <1>3 DEF Carried
  <2>1. i + 1 \in 1 .. Len(n.reps)
        BY <1>2
  <2>2. QED
        BY <1>2, <2>1 DEF Carried
<1>6. Head(n.reps) \in Carried(n)
      BY <1>2 DEF Carried
<1>7. m \in [up : BOOLEAN, cmds : SUBSET (1 .. last), inbox : Seq(Acks),
             reps : Seq(Messages), sent : {m.sent}, told : {m.told}]
      BY <1>2, <1>4 DEF NetInv
<1>8. Len(m.reps) <= MaxQueue /\ Len(m.inbox) <= MaxQueue
  <2>1. Len(n.inbox) \in Nat /\ Len(answer) \in Nat
        BY <1>1
  <2>2. QED
        BY <1>1, <1>2, <1>3, <1>4, <2>1, Somethings
<1>9. QED
      BY <1>5, <1>6, <1>7, <1>8 DEF NetInv

\* A decision is taken from the queue.
LEMMA NetDecides ==
    ASSUME NEW n, NEW last, NetInv(n, last), n.inbox # <<>>
    PROVE  LET m == [n EXCEPT !.inbox = Tail(@)] IN
           NetInv(m, last) /\ Carried(m) = Carried(n)
           /\ Head(n.inbox) \in [o : Versions, accepted : BOOLEAN]
<1> DEFINE m == [n EXCEPT !.inbox = Tail(@)]
           Acks == [o : Versions, accepted : BOOLEAN]
<1>1. n.inbox \in Seq(Acks) /\ Len(n.inbox) <= MaxQueue
      BY DEF NetInv
<1>2. /\ Tail(n.inbox) \in Seq(Acks) /\ Len(Tail(n.inbox)) = Len(n.inbox) - 1
      /\ Len(n.inbox) \in Nat \ {0} /\ Head(n.inbox) \in Acks
  <2> HIDE DEF Acks
  <2>1. /\ Len(n.inbox) \in Nat \ {0} /\ Head(n.inbox) = n.inbox[1]
        /\ Tail(n.inbox) \in Seq(Acks) /\ Len(Tail(n.inbox)) = Len(n.inbox) - 1
        BY <1>1
  <2>2. n.inbox[1] \in Acks
        BY <1>1, <2>1
  <2>3. QED
        BY <2>1, <2>2
<1>3. m.reps = n.reps /\ m.inbox = Tail(n.inbox)
      BY DEF NetInv
<1>4. Carried(m) = Carried(n)
      BY <1>3 DEF Carried
<1>5. m \in [up : BOOLEAN, cmds : SUBSET (1 .. last), inbox : Seq(Acks),
             reps : Seq(Messages), sent : {m.sent}, told : {m.told}]
      BY <1>2 DEF NetInv
<1>6. Len(m.inbox) <= MaxQueue
      BY <1>1, <1>2, <1>3, Somethings
<1>7. QED
      BY <1>2, <1>3, <1>4, <1>5, <1>6 DEF NetInv

\* A socket that was lost carries nothing.
LEMMA NetCut ==
    ASSUME NEW last \in 0 .. MaxOps, NetInv(net, last)
    PROVE  NetInv(Cut, last) /\ Carried(Cut) = {}
<1>1. Cut.reps = <<>> /\ Cut.inbox = <<>>
      BY DEF Cut, NetInv
<1>2. Carried(Cut) = {}
      BY <1>1 DEF Carried
<1>3. Cut \in [up : BOOLEAN, cmds : SUBSET (1 .. last),
             inbox : Seq([o : Versions, accepted : BOOLEAN]),
             reps : Seq(Messages), sent : {Cut.sent}, told : {Cut.told}]
  <2>1. <<>> \in Seq(Messages) /\ <<>> \in Seq([o : Versions, accepted : BOOLEAN])
        OBVIOUS
  <2>2. QED
        BY <2>1 DEF NetInv, Cut
<1>4. Len(Cut.reps) = 0 /\ Len(Cut.inbox) = 0
      BY <1>1
<1>5. QED
      BY <1>2, <1>3, <1>4, Somethings DEF NetInv

-----------------------------------------------------------------------------
(* The registry.                                                           *)

(* What a step that touches the receipt of o does to the registry: it only *)
(* grows, a receipt that says something keeps saying it, and one that is   *)
(* forgotten belongs to an expired operation that is not current and not   *)
(* in flight.                                                              *)
OtherKept(p) ==
    IF p \in DOMAIN reg.op
    THEN \/ p \in DOMAIN reg'.op /\ reg'.op[p] = reg.op[p]
         \/ p \notin DOMAIN reg'.op /\ p < reg'.current /\ Expired(p) /\ ~InFlight(p)
    ELSE p \notin DOMAIN reg'.op

OwnKept(o) ==
    IF o \in DOMAIN reg.op
    THEN /\ o \in DOMAIN reg'.op
         /\ reg.op[o].login => reg'.op[o].login
         /\ reg.op[o].report # None => reg'.op[o].report = reg.op[o].report
    ELSE o \in DOMAIN reg'.op => ~Expired(o)

RegStep(o) ==
    /\ RegInv(reg', LastOp(db))
    /\ reg.current <= reg'.current /\ reg.accepted \subseteq reg'.accepted
    /\ OwnKept(o) /\ \A p \in Versions \ {o} : OtherKept(p)

\* A step that leaves the registry alone.
LEMMA RegistryStays ==
    ASSUME ConnectionInv, reg' = reg, NEW o \in Versions
    PROVE  RegStep(o)
<1>1. RegInv(reg', LastOp(db))
      BY DEF ConnectionInv
<1>2. reg.current \in Nat
      BY Somethings DEF ConnectionInv, RegInv, RegShape
<1>3. QED
      BY <1>1, <1>2 DEF RegStep, OwnKept, OtherKept

\* The receipts are finitely many.
LEMMA RegistryIsFinite ==
    ASSUME ConnectionInv
    PROVE  /\ LastOp(db) \in 0 .. MaxOps
           /\ IsFiniteSet(DOMAIN reg.op) /\ Cardinality(DOMAIN reg.op) \in Nat
<1>1. LastOp(db) \in 0 .. MaxOps
      BY Somethings DEF ConnectionInv, StoreInv, StoreShape, LastOp
<1>2. IsFiniteSet(1 .. LastOp(db))
      BY <1>1, FS_Interval
<1>3. IsFiniteSet(DOMAIN reg.op)
      BY <1>2, FS_Subset DEF ConnectionInv, RegInv, RegShape
<1>4. QED
      BY <1>1, <1>3, FS_CardinalityType

\* Making room forgets at most one receipt, one that may be forgotten.
LEMMA RoomIsMade ==
    ASSUME ConnectionInv, NEW o \in Versions, ~Known(o), HasRoom(o)
    PROVE  /\ Kept \subseteq DOMAIN reg.op
           /\ DOMAIN reg.op \ Kept \subseteq Evictable
           /\ Cardinality(Kept \cup {o}) <= MAX_OPERATIONS
<1> DEFINE D == DOMAIN reg.op
<1>1. IsFiniteSet(D) /\ Cardinality(D) \in Nat /\ o \notin D
      BY RegistryIsFinite DEF Known
<1>2. Cardinality(D) <= MAX_OPERATIONS /\ D \subseteq Nat
      BY RegistryIsFinite, Somethings DEF ConnectionInv, RegInv, RegShape
<1>3. CASE Cardinality(D) < MAX_OPERATIONS
  <2>1. Kept = D
        BY <1>3 DEF Kept
  <2>2. Cardinality(D \cup {o}) = Cardinality(D) + 1
        BY <1>1, FS_AddElement
  <2>3. QED
        BY <1>1, <1>3, <2>1, <2>2, Somethings
<1>4. CASE ~(Cardinality(D) < MAX_OPERATIONS)
  <2> DEFINE m == Min(Evictable)
  <2>1. Evictable # {} /\ Evictable \subseteq D
        BY <1>4 DEF HasRoom, Evictable
  <2>2. m \in Evictable
        BY <1>2, <2>1, MinIsIn
  <2>3. Kept = D \ {m}
        BY <1>4 DEF Kept
  <2>4. IsFiniteSet(Kept) /\ Cardinality(Kept) = Cardinality(D) - 1
        BY <1>1, <2>1, <2>2, <2>3, FS_RemoveElement
  <2>5. Cardinality(Kept \cup {o}) = Cardinality(Kept) + 1
        BY <1>1, <2>3, <2>4, FS_AddElement
  <2>6. QED
        BY <1>1, <1>2, <2>1, <2>2, <2>3, <2>4, <2>5, Somethings
<1>5. QED
      BY <1>3, <1>4

\* A new receipt: the operation becomes the current one and selects nothing.
LEMMA RegistryBegins ==
    ASSUME ConnectionInv, NEW o \in 1 .. LastOp(db), ~Known(o), Admits(o),
           reg' = begin_operation(o)
    PROVE  RegStep(o) /\ o \in DOMAIN reg'.op /\ reg'.op[o].report = None
<1> DEFINE D == DOMAIN reg.op
           E == Kept \cup {o}
<1>1. o \in Versions /\ LastOp(db) \in 0 .. MaxOps /\ o \in Nat
      BY RegistryIsFinite, Somethings DEF Versions
<1>2. Kept \subseteq D /\ D \ Kept \subseteq Evictable /\ Cardinality(E) <= MAX_OPERATIONS
      BY <1>1, RoomIsMade DEF Admits
<1>3. RegShape(reg, LastOp(db)) /\ reg.current \in Nat /\ D \subseteq 1 .. LastOp(db)
      BY Somethings DEF ConnectionInv, RegInv, RegShape
<1>4. /\ DOMAIN reg'.op = E /\ reg'.op = [p \in E |-> reg'.op[p]]
      /\ reg'.current = o /\ reg'.active = None /\ reg'.source = reg.source
      /\ reg'.snapshots = reg.snapshots /\ reg'.accepted = reg.accepted
      /\ reg'.sourceAccepted = reg.sourceAccepted
      /\ reg'.op[o] = NewOperation /\ \A p \in E \ {o} : reg'.op[p] = reg.op[p]
      BY <1>3 DEF begin_operation, RegShape
<1>5. NewOperation \in Receipts
      BY DEF NewOperation, Receipts
<1>6. reg.current < o
      BY <1>1, <1>3 DEF Admits, Known, ConnectionInv, RegInv
<1>7. \A p \in D : ReceiptInv(reg, p)
      BY DEF ConnectionInv, RegInv
<1>8. \A p \in D \ Kept : reg.op[p].candidate = None
      BY <1>2, <1>7 DEF Evictable, ReceiptInv
<1>9. RegShape(reg', LastOp(db))
  <2>1. reg' \in [op : {reg'.op}, current : 0 .. MaxOps, active : Snapshots \cup {None},
                  source : Snapshots \cup {None}, snapshots : SUBSET Snapshots,
                  accepted : SUBSET Snapshots, sourceAccepted : SUBSET Snapshots]
    <3>1. o \in 0 .. MaxOps
          BY <1>1, Somethings
    <3>2. reg' = [reg EXCEPT !.op = reg'.op, !.current = o, !.active = None]
          BY <1>3 DEF begin_operation, RegShape
    <3>3. QED
          BY <1>3, <3>1, <3>2 DEF RegShape
  <2>2. \A p \in E : reg'.op[p] \in Receipts
        BY <1>2, <1>3, <1>4, <1>5 DEF RegShape
  <2>3. E \subseteq 1 .. LastOp(db)
        BY <1>2, <1>3
  <2>4. QED
        BY <1>2, <1>3, <1>4, <2>1, <2>2, <2>3 DEF RegShape
<1>10. \A p \in E : ReceiptInv(reg', p)
  <2>1. ReceiptInv(reg', o)
        BY <1>1, <1>4 DEF ReceiptInv, NewOperation
  <2>2. ASSUME NEW p \in E \ {o}
        PROVE  ReceiptInv(reg', p)
    <3>1. p \in D /\ p <= reg.current /\ p \in Nat
          BY <1>2, <1>3, <1>7 DEF ReceiptInv
    <3>2. p <= o
          BY <1>1, <1>3, <1>6, <3>1
    <3>3. QED
          BY <1>4, <1>7, <3>1, <3>2 DEF ReceiptInv
  <2>3. QED
        BY <2>1, <2>2
<1>11. Backed(reg')
  <2>1. Backed(reg)
        BY DEF ConnectionInv, RegInv
  <2>2. ASSUME NEW p \in D, NEW key \in Snapshots, AckedFor(reg, p, key)
        PROVE  p \in E /\ AckedFor(reg', p, key) /\ reg'.op[p] = reg.op[p]
    <3>1. p \in Kept /\ p # o
          BY <1>8, <2>2, Somethings DEF AckedFor, Known
    <3>2. QED
          BY <1>4, <2>2, <3>1 DEF AckedFor
  <2>3. reg.accepted \subseteq Snapshots /\ reg.sourceAccepted \subseteq Snapshots
        BY <1>3 DEF RegShape
  <2>4. \A key \in reg.accepted :
          \E p \in E : AckedFor(reg', p, key) /\ IsReady(reg'.op[p].report)
        BY <2>1, <2>2, <2>3 DEF Backed
  <2>5. \A key \in reg.sourceAccepted : \E p \in E : AckedFor(reg', p, key)
        BY <2>1, <2>2, <2>3 DEF Backed
  <2>6. QED
        BY <1>4, <2>1, <2>4, <2>5 DEF Backed
<1>12. RegInv(reg', LastOp(db))
      BY <1>4, <1>9, <1>10, <1>11 DEF RegInv
<1>13. OwnKept(o)
      BY DEF OwnKept, Known, Admits
<1>14. ASSUME NEW p \in Versions \ {o}
       PROVE  OtherKept(p)
  <2>1. CASE p \in Kept
        BY <1>2, <1>4, <2>1 DEF OtherKept
  <2>2. CASE p \in D \ Kept
    <3>1. p \in Evictable /\ p <= reg.current
          BY <1>2, <1>7, <2>2 DEF ReceiptInv
    <3>2. p \in Nat /\ p < o
          BY <1>1, <1>3, <1>6, <3>1, Somethings
    <3>3. QED
          BY <1>4, <2>2, <3>1, <3>2 DEF OtherKept, Evictable
  <2>3. CASE p \notin D
        BY <1>2, <1>4, <2>3 DEF OtherKept
  <2>4. QED
        BY <2>1, <2>2, <2>3
<1>15. QED
      BY <1>1, <1>3, <1>4, <1>6, <1>12, <1>13, <1>14 DEF RegStep, NewOperation

(* The registry with the receipt of o written anew.                        *)
Rewritten(o, x) ==
    /\ x \in Receipts
    /\ reg' \in [op : {reg'.op}, current : {reg.current}, active : Snapshots \cup {None},
                 source : Snapshots \cup {None}, snapshots : SUBSET Snapshots,
                 accepted : SUBSET Snapshots, sourceAccepted : SUBSET Snapshots]
    /\ reg'.op = [reg.op EXCEPT ![o] = x]
    /\ reg.snapshots \subseteq reg'.snapshots /\ reg.accepted \subseteq reg'.accepted
    /\ reg'.accepted \subseteq reg'.snapshots /\ reg'.sourceAccepted \subseteq reg'.snapshots
    /\ reg.op[o].login => x.login
    /\ reg.op[o].report # None => x.report = reg.op[o].report

\* Writing one receipt anew is a step of it, if what is written is sound.
LEMMA RegistryWrites ==
    ASSUME ConnectionInv, NEW o \in DOMAIN reg.op, NEW x, Rewritten(o, x),
           ReceiptInv(reg', o), Backed(reg')
    PROVE  RegStep(o) /\ DOMAIN reg'.op = DOMAIN reg.op /\ reg'.op[o] = x
<1> DEFINE D == DOMAIN reg.op
<1>1. RegShape(reg, LastOp(db)) /\ reg.current \in 0 .. MaxOps
      BY DEF ConnectionInv, RegInv, RegShape
<1>2. /\ DOMAIN reg'.op = D /\ reg'.op[o] = x
      /\ \A p \in D \ {o} : reg'.op[p] = reg.op[p]
      /\ reg'.op = [p \in D |-> reg'.op[p]]
      BY <1>1 DEF Rewritten, RegShape
<1>3. reg'.current = reg.current
      BY DEF Rewritten
<1>4. RegShape(reg', LastOp(db))
  <2>1. reg' \in [op : {reg'.op}, current : 0 .. MaxOps, active : Snapshots \cup {None},
                  source : Snapshots \cup {None}, snapshots : SUBSET Snapshots,
                  accepted : SUBSET Snapshots, sourceAccepted : SUBSET Snapshots]
        BY <1>1 DEF Rewritten
  <2>2. \A p \in D : reg'.op[p] \in Receipts
        BY <1>1, <1>2 DEF RegShape, Rewritten
  <2>3. QED
        BY <1>1, <1>2, <2>1, <2>2 DEF RegShape, Rewritten
<1>5. \A p \in D : ReceiptInv(reg, p)
      BY DEF ConnectionInv, RegInv
<1>6. \A p \in D : ReceiptInv(reg', p)
      BY <1>2, <1>3, <1>5 DEF ReceiptInv, Rewritten
<1>7. RegInv(reg', LastOp(db))
      BY <1>2, <1>3, <1>4, <1>6 DEF RegInv, ConnectionInv
<1>8. OwnKept(o)
      BY <1>2 DEF OwnKept, Rewritten
<1>9. \A p \in Versions \ {o} : OtherKept(p)
      BY <1>2 DEF OtherKept
<1>10. reg.current <= reg'.current /\ reg.accepted \subseteq reg'.accepted
      BY <1>1, <1>3, Somethings DEF Rewritten
<1>11. QED
      BY <1>2, <1>7, <1>8, <1>9, <1>10 DEF RegStep

(* The receipts that were acknowledged are as they were.                   *)
AcksStand ==
    \A p \in DOMAIN reg.op, key \in Snapshots :
        AckedFor(reg, p, key) =>
            /\ AckedFor(reg', p, key) /\ reg'.op[p].report = reg.op[p].report

\* Then what was backed before still is.
LEMMA StillBacked ==
    ASSUME ConnectionInv, NEW o \in DOMAIN reg.op, NEW x, Rewritten(o, x), AcksStand
    PROVE  /\ \A key \in reg.accepted :
                 \E p \in DOMAIN reg'.op : AckedFor(reg', p, key) /\ IsReady(reg'.op[p].report)
           /\ \A key \in reg.sourceAccepted : \E p \in DOMAIN reg'.op : AckedFor(reg', p, key)
           /\ reg.active # None =>
                 /\ reg.active \in reg'.accepted /\ reg'.current \in DOMAIN reg'.op
                 /\ AckedFor(reg', reg'.current, reg.active)
<1>1. Backed(reg) /\ reg.accepted \subseteq Snapshots /\ reg.sourceAccepted \subseteq Snapshots
      BY DEF ConnectionInv, RegInv, RegShape
<1>2. DOMAIN reg'.op = DOMAIN reg.op /\ reg'.current = reg.current
      BY DEF ConnectionInv, RegInv, RegShape, Rewritten
<1>3. \A key \in reg.accepted :
         \E p \in DOMAIN reg'.op : AckedFor(reg', p, key) /\ IsReady(reg'.op[p].report)
  <2> TAKE key \in reg.accepted
  <2>1. PICK p \in DOMAIN reg.op : AckedFor(reg, p, key) /\ IsReady(reg.op[p].report)
        BY <1>1 DEF Backed
  <2>2. QED
        BY <1>1, <1>2, <2>1 DEF AcksStand
<1>4. \A key \in reg.sourceAccepted : \E p \in DOMAIN reg'.op : AckedFor(reg', p, key)
      BY <1>1, <1>2 DEF Backed, AcksStand
<1>5. reg.active # None =>
         /\ reg.active \in reg'.accepted /\ reg'.current \in DOMAIN reg'.op
         /\ AckedFor(reg', reg'.current, reg.active)
  <2>1. reg.active # None => reg.active \in Snapshots
        BY <1>1 DEF Backed
  <2>2. QED
        BY <1>1, <1>2, <2>1 DEF Backed, AcksStand, Rewritten
<1>6. QED
      BY <1>3, <1>4, <1>5

\* The receipt of a check in flight is written, with the snapshot it brings.
LEMMA RegistryReceives ==
    ASSUME ConnectionInv, NEW o \in Versions, InFlight(o), NEW r \in Reports,
           NEW key \in Snapshots \cup {None}, key # None => r.src = key.src,
           reg' = Receipt(o, r, key)
    PROVE  RegStep(o) /\ o \in DOMAIN reg'.op /\ reg'.op[o].report = r
<1> DEFINE x == [reg.op[o] EXCEPT !.report = r, !.candidate = key]
<1>1. o \in DOMAIN reg.op /\ reg.op[o].report = None
      BY DEF ConnectionInv, FlightInv, InFlight
<1>2. RegShape(reg, LastOp(db)) /\ reg.op[o] \in Receipts
      BY <1>1 DEF ConnectionInv, RegInv, RegShape
<1>3. reg.op[o].ack = None /\ reg.op[o].candidate = None /\ o <= reg.current
      BY <1>1 DEF ConnectionInv, RegInv, ReceiptInv
<1>4. /\ x \in Receipts /\ x.report = r /\ x.candidate = key
      /\ x.ack = None /\ x.login = reg.op[o].login
      BY <1>2, <1>3 DEF Receipts
<1>5. reg' = [reg EXCEPT !.op = [reg.op EXCEPT ![o] = x],
                         !.snapshots = IF key = None THEN @ ELSE @ \cup {key}]
  <2> DEFINE y == [reg.op[o] EXCEPT !.report = r]
             a == [reg EXCEPT !.op = [reg.op EXCEPT ![o] = y]]
  <2>1. [y EXCEPT !.candidate = key] = x
        BY <1>2 DEF Receipts
  <2>2. reg.op = [p \in DOMAIN reg.op |-> reg.op[p]]
        BY <1>2 DEF RegShape
  <2>3. a.op = [reg.op EXCEPT ![o] = y] /\ a.op[o] = y
        BY <1>1, <1>2, <2>2 DEF RegShape
  <2>4. [a.op EXCEPT ![o] = x] = [reg.op EXCEPT ![o] = x]
        BY <1>1, <2>2, <2>3
  <2>5. reg' = [a EXCEPT !.op = [a.op EXCEPT ![o] = [a.op[o] EXCEPT !.candidate = key]],
                         !.snapshots = IF key = None THEN @ ELSE @ \cup {key}]
        BY <1>2 DEF Receipt, RegShape
  <2>6. QED
        BY <1>2, <2>1, <2>3, <2>4, <2>5 DEF RegShape
<1>6. /\ reg'.op = [reg.op EXCEPT ![o] = x] /\ reg'.current = reg.current
      /\ reg'.active = reg.active /\ reg'.source = reg.source
      /\ reg'.accepted = reg.accepted /\ reg'.sourceAccepted = reg.sourceAccepted
      /\ reg'.snapshots = IF key = None THEN reg.snapshots ELSE reg.snapshots \cup {key}
      BY <1>2, <1>5 DEF RegShape
<1>7. /\ DOMAIN reg'.op = DOMAIN reg.op /\ reg'.op[o] = x
      /\ \A p \in DOMAIN reg.op \ {o} : reg'.op[p] = reg.op[p]
      BY <1>1, <1>2, <1>6 DEF RegShape
<1>8. Rewritten(o, x)
  <2>1. reg' \in [op : {reg'.op}, current : {reg.current}, active : Snapshots \cup {None},
                  source : Snapshots \cup {None}, snapshots : SUBSET Snapshots,
                  accepted : SUBSET Snapshots, sourceAccepted : SUBSET Snapshots]
    <3>1. reg' = [op |-> reg'.op, current |-> reg'.current, active |-> reg'.active,
                  source |-> reg'.source, snapshots |-> reg'.snapshots,
                  accepted |-> reg'.accepted, sourceAccepted |-> reg'.sourceAccepted]
          BY <1>2, <1>5 DEF RegShape
    <3>2. reg'.snapshots \in SUBSET Snapshots
          BY <1>2, <1>6 DEF RegShape
    <3>3. QED
          BY <1>2, <1>6, <3>1, <3>2 DEF RegShape
  <2>2. QED
        BY <1>1, <1>2, <1>4, <1>6, <2>1 DEF Rewritten, RegShape
<1>9. ReceiptInv(reg', o)
      BY <1>3, <1>4, <1>6, <1>7, Somethings DEF ReceiptInv
<1>10. AcksStand
      BY <1>3, <1>7, Somethings DEF AcksStand, AckedFor
<1>11. Backed(reg')
  <2>1. reg.source # None => reg.source \in reg.sourceAccepted
        BY DEF ConnectionInv, RegInv, Backed
  <2>2. QED
        BY <1>1, <1>6, <1>8, <1>10, <2>1, StillBacked DEF Backed
<1>12. QED
      BY <1>1, <1>4, <1>7, <1>8, <1>9, <1>11, RegistryWrites

\* A login is claimed before it starts.
LEMMA RegistryClaims ==
    ASSUME ConnectionInv, NEW o \in Versions, InFlight(o),
           reg' = [reg EXCEPT !.op[o].login = TRUE]
    PROVE  /\ RegStep(o) /\ o \in DOMAIN reg.op /\ o \in DOMAIN reg'.op
           /\ reg'.op[o].report = None /\ reg'.op[o].login
<1> DEFINE x == [reg.op[o] EXCEPT !.login = TRUE]
<1>1. o \in DOMAIN reg.op /\ reg.op[o].report = None
      BY DEF ConnectionInv, FlightInv, InFlight
<1>2. RegShape(reg, LastOp(db)) /\ reg.op[o] \in Receipts
      BY <1>1 DEF ConnectionInv, RegInv, RegShape
<1>3. ReceiptInv(reg, o)
      BY <1>1 DEF ConnectionInv, RegInv
<1>4. /\ x \in Receipts /\ x.report = reg.op[o].report /\ x.candidate = reg.op[o].candidate
      /\ x.ack = reg.op[o].ack /\ x.login
      BY <1>2 DEF Receipts
<1>5. reg' = [reg EXCEPT !.op = [reg.op EXCEPT ![o] = x]]
      BY <1>1, <1>2 DEF RegShape
<1>6. /\ reg'.op = [reg.op EXCEPT ![o] = x] /\ reg'.current = reg.current
      /\ reg'.active = reg.active /\ reg'.source = reg.source
      /\ reg'.accepted = reg.accepted /\ reg'.sourceAccepted = reg.sourceAccepted
      /\ reg'.snapshots = reg.snapshots
      BY <1>2, <1>5 DEF RegShape
<1>7. /\ DOMAIN reg'.op = DOMAIN reg.op /\ reg'.op[o] = x
      /\ \A p \in DOMAIN reg.op \ {o} : reg'.op[p] = reg.op[p]
      BY <1>1, <1>2, <1>6 DEF RegShape
<1>8. Rewritten(o, x)
  <2>1. reg' \in [op : {reg'.op}, current : {reg.current}, active : Snapshots \cup {None},
                  source : Snapshots \cup {None}, snapshots : SUBSET Snapshots,
                  accepted : SUBSET Snapshots, sourceAccepted : SUBSET Snapshots]
        BY <1>2, <1>5 DEF RegShape
  <2>2. QED
        BY <1>2, <1>4, <1>6, <2>1 DEF Rewritten, RegShape
<1>9. ReceiptInv(reg', o)
      BY <1>3, <1>4, <1>6, <1>7 DEF ReceiptInv
<1>10. AcksStand
      BY <1>4, <1>7 DEF AcksStand, AckedFor
<1>11. Backed(reg')
  <2>1. reg.source # None => reg.source \in reg.sourceAccepted
        BY DEF ConnectionInv, RegInv, Backed
  <2>2. QED
        BY <1>1, <1>6, <1>8, <1>10, <2>1, StillBacked DEF Backed
<1>12. QED
      BY <1>1, <1>4, <1>7, <1>8, <1>9, <1>11, RegistryWrites

\* The decision of the server is written once, and backs what it grants.
LEMMA RegistryAcks ==
    ASSUME ConnectionInv, NEW o \in DOMAIN reg.op, NEW accepted \in BOOLEAN,
           reg.op[o].report # None, reg.op[o].ack = None, reg' = acknowledge(o, accepted)
    PROVE  RegStep(o)
<1> DEFINE x == [reg.op[o] EXCEPT !.ack = accepted]
           key == reg.op[o].candidate
           grants == accepted /\ key # None
           ready == IsReady(reg.op[o].report)
           selects == grants /\ reg.current = o
<1>1. RegShape(reg, LastOp(db)) /\ reg.op[o] \in Receipts
      BY DEF ConnectionInv, RegInv, RegShape
<1>2. ReceiptInv(reg, o)
      BY DEF ConnectionInv, RegInv
<1>3. /\ x \in Receipts /\ x.report = reg.op[o].report /\ x.candidate = key
      /\ x.ack = accepted /\ x.login = reg.op[o].login
      BY <1>1 DEF Receipts
<1>4. key \in Snapshots \cup {None} /\ (key # None => key \in reg.snapshots)
      BY <1>1, <1>2 DEF Receipts, ReceiptInv
<1>5. reg' = [reg EXCEPT !.op = [reg.op EXCEPT ![o] = x],
                !.sourceAccepted = IF grants THEN @ \cup {key} ELSE @,
                !.accepted = IF grants /\ ready THEN @ \cup {key} ELSE @,
                !.source = IF selects THEN key ELSE @,
                !.active = IF ~selects THEN @ ELSE IF ready THEN key ELSE None]
      BY <1>1 DEF acknowledge, RegShape
<1> HIDE DEF grants, ready, selects
<1>6. /\ reg'.op = [reg.op EXCEPT ![o] = x] /\ reg'.current = reg.current
      /\ reg'.snapshots = reg.snapshots
      /\ reg'.sourceAccepted = IF grants THEN reg.sourceAccepted \cup {key} ELSE reg.sourceAccepted
      /\ reg'.accepted = IF grants /\ ready THEN reg.accepted \cup {key} ELSE reg.accepted
      /\ reg'.source = IF selects THEN key ELSE reg.source
      /\ reg'.active = IF ~selects THEN reg.active ELSE IF ready THEN key ELSE None
      BY <1>1, <1>5 DEF RegShape
<1>7. /\ DOMAIN reg'.op = DOMAIN reg.op /\ reg'.op[o] = x
      /\ \A p \in DOMAIN reg.op \ {o} : reg'.op[p] = reg.op[p]
      BY <1>1, <1>6 DEF RegShape
<1>8. Rewritten(o, x)
  <2>1. grants => key \in Snapshots /\ key \in reg.snapshots
        BY <1>4 DEF grants
  <2>2. selects => grants
        BY DEF selects
  <2>3. /\ reg'.active \in Snapshots \cup {None} /\ reg'.source \in Snapshots \cup {None}
        /\ reg'.accepted \in SUBSET Snapshots /\ reg'.sourceAccepted \in SUBSET Snapshots
        /\ reg'.accepted \subseteq reg'.snapshots /\ reg'.sourceAccepted \subseteq reg'.snapshots
        /\ reg'.snapshots \in SUBSET Snapshots /\ reg.accepted \subseteq reg'.accepted
        BY <1>1, <1>6, <2>1, <2>2 DEF RegShape
  <2>4. reg' = [op |-> reg'.op, current |-> reg'.current, active |-> reg'.active,
                source |-> reg'.source, snapshots |-> reg'.snapshots,
                accepted |-> reg'.accepted, sourceAccepted |-> reg'.sourceAccepted]
        BY <1>1, <1>5 DEF RegShape
  <2>5. reg' \in [op : {reg'.op}, current : {reg.current}, active : Snapshots \cup {None},
                  source : Snapshots \cup {None}, snapshots : SUBSET Snapshots,
                  accepted : SUBSET Snapshots, sourceAccepted : SUBSET Snapshots]
        BY <1>6, <2>3, <2>4
  <2>6. QED
        BY <1>3, <1>6, <2>3, <2>5 DEF Rewritten
<1>9. ReceiptInv(reg', o)
      BY <1>2, <1>3, <1>6, <1>7 DEF ReceiptInv
<1>10. AcksStand
      BY <1>7, Somethings DEF AcksStand, AckedFor
<1>11. grants => AckedFor(reg', o, key) /\ reg'.op[o].report = reg.op[o].report
      BY <1>3, <1>7 DEF AckedFor, grants
<1>12. Backed(reg')
  <2>1. \A k \in reg'.accepted :
          \E p \in DOMAIN reg'.op : AckedFor(reg', p, k) /\ IsReady(reg'.op[p].report)
        BY <1>6, <1>7, <1>8, <1>10, <1>11, StillBacked DEF ready
  <2>2. \A k \in reg'.sourceAccepted : \E p \in DOMAIN reg'.op : AckedFor(reg', p, k)
        BY <1>6, <1>7, <1>8, <1>10, <1>11, StillBacked
  <2>3. reg'.source # None => reg'.source \in reg'.sourceAccepted
    <3>1. reg.source # None => reg.source \in reg.sourceAccepted
          BY DEF ConnectionInv, RegInv, Backed
    <3>2. selects => grants
          BY DEF selects
    <3>3. QED
          BY <1>6, <3>1, <3>2
  <2>4. reg'.active # None => /\ reg'.active \in reg'.accepted /\ reg'.current \in DOMAIN reg'.op
                              /\ AckedFor(reg', reg'.current, reg'.active)
    <3>1. CASE selects
      <4>1. grants /\ reg.current = o
            BY <3>1 DEF selects
      <4>2. QED
            BY <1>6, <1>7, <1>11, <3>1, <4>1
    <3>2. CASE ~selects
          BY <1>6, <1>8, <1>10, <3>2, StillBacked
    <3>3. QED
          BY <3>1, <3>2
  <2>5. QED
        BY <2>1, <2>2, <2>3, <2>4 DEF Backed
<1>13. QED
      BY <1>8, <1>9, <1>12, RegistryWrites

-----------------------------------------------------------------------------
(* What a step does to the other parts, and why the invariant survives.    *)

(* The store takes no ready report but one that the socket brings.         *)
StoreStep ==
    /\ StoreInv(db') /\ LastOp(db) <= LastOp(db')
    /\ \A p \in 1 .. LastOp(db') :
         db'.op[p].report # None /\ IsReady(db'.op[p].report) =>
            \/ p \in 1 .. LastOp(db) /\ db'.op[p].report = db.op[p].report
            \/ [o |-> p, r |-> db'.op[p].report] \in Carried(net)

(* A new ready message repeats a receipt.                                  *)
NetStep(S) ==
    /\ NetInv(net', LastOp(db')) /\ Carried(net') \subseteq Carried(net) \cup S
    /\ \A m \in S : IsReady(m.r) => m.o \in DOMAIN reg'.op /\ reg'.op[m.o].report = m.r

FlightMoves(o) ==
    /\ flight' \in [Versions -> Flights]
    /\ \A p \in Versions :
         /\ flight'[p].at \notin {"none", "queued"} => flight'[p].src \in Commits
         /\ flight'[p].at # "none" =>
              IF p = o THEN o \in DOMAIN reg'.op /\ reg'.op[o].report = None ELSE InFlight(p)

WorldMoves(o) ==
    /\ world' \in [expired : Nat, faults : Nat, logins : [Versions -> {0, 1}]]
    /\ world.expired <= world'.expired
    /\ \A p \in Versions \ {o} : world'.logins[p] = world.logins[p]
    /\ world'.logins[o] = 1 =>
         world.logins[o] = 1 \/ (o \in DOMAIN reg'.op /\ reg'.op[o].login)

\* What the receipts say is not contradicted later.
LEMMA MatchesStay ==
    ASSUME ConnectionInv, NEW o \in Versions, RegStep(o), NEW p \in Versions, NEW r,
           r # None, Matches(reg, p, r)
    PROVE  Matches(reg', p, r)
<1>1. CASE p < reg.current
  <2>1. reg.current \in Nat /\ reg'.current \in Nat /\ p \in Nat
        BY Somethings DEF ConnectionInv, RegStep, RegInv, RegShape
  <2>2. QED
        BY <1>1, <2>1 DEF RegStep, Matches
<1>2. CASE p \in DOMAIN reg.op /\ reg.op[p].report = r
  <2>1. CASE p = o
        BY <1>2, <2>1 DEF RegStep, OwnKept, Matches
  <2>2. CASE p # o
    <3>1. OtherKept(p)
          BY <2>2 DEF RegStep
    <3>2. QED
          BY <1>2, <3>1 DEF OtherKept, Matches
  <2>3. QED
        BY <2>1, <2>2
<1>3. QED
      BY <1>1, <1>2 DEF Matches

\* The parts together.
LEMMA Combined ==
    ASSUME ConnectionInv, NEW o \in Versions, NEW S, StoreStep, RegStep(o), NetStep(S),
           FlightMoves(o), WorldMoves(o), RunInv(run', reg)
    PROVE  ConnectionInv'
<1>1. /\ LastOp(db) \in 0 .. MaxOps /\ LastOp(db') \in 0 .. MaxOps
      /\ LastOp(db) <= LastOp(db') /\ MaxOps \in Nat
  <2>1. LastOp(db') \in Nat /\ LastOp(db') <= MaxOps
        BY DEF StoreStep, StoreInv, StoreShape, LastOp
  <2>2. QED
        BY <2>1, RegistryIsFinite, Somethings DEF StoreStep
<1>2. RegInv(reg', LastOp(db'))
      BY <1>1 DEF RegStep, RegInv, RegShape
<1>3. \A p \in Versions \ {o} : OtherKept(p)
      BY DEF RegStep
<1>4. FlightInv(flight', reg')
  <2>1. ASSUME NEW p \in Versions, flight'[p].at # "none"
        PROVE  p \in DOMAIN reg'.op /\ reg'.op[p].report = None
    <3>1. CASE p = o
          BY <2>1, <3>1 DEF FlightMoves
    <3>2. CASE p # o
      <4>1. InFlight(p)
            BY <2>1, <3>2 DEF FlightMoves
      <4>2. p \in DOMAIN reg.op /\ reg.op[p].report = None
            BY <4>1 DEF ConnectionInv, FlightInv, InFlight
      <4>3. OtherKept(p)
            BY <1>3, <3>2
      <4>4. QED
            BY <4>1, <4>2, <4>3 DEF OtherKept
    <3>3. QED
          BY <3>1, <3>2
  <2>2. QED
        BY <2>1 DEF FlightInv, FlightMoves
<1>5. WorldInv(world', reg')
  <2>1. ASSUME NEW p \in Versions, world'.logins[p] = 1
        PROVE  Claimed(world', reg', p)
    <3>1. /\ world.expired \in Nat /\ world'.expired \in Nat /\ p \in Nat
          /\ world.expired <= world'.expired
          BY Somethings DEF ConnectionInv, WorldInv, WorldMoves
    <3>2. CASE p = o
      <4>1. CASE o \in DOMAIN reg'.op /\ reg'.op[o].login
            BY <3>2, <4>1 DEF Claimed
      <4>2. CASE world.logins[o] = 1
        <5>1. Claimed(world, reg, o) /\ OwnKept(o)
              BY <4>2 DEF ConnectionInv, WorldInv, RegStep
        <5>2. QED
              BY <3>1, <3>2, <5>1 DEF Claimed, OwnKept, Expired
      <4>3. QED
            BY <2>1, <3>2, <4>1, <4>2 DEF WorldMoves
    <3>3. CASE p # o
      <4>1. Claimed(world, reg, p) /\ OtherKept(p)
            BY <1>3, <2>1, <3>3 DEF ConnectionInv, WorldInv, WorldMoves
      <4>2. QED
            BY <3>1, <4>1 DEF Claimed, OtherKept, Expired
    <3>4. QED
          BY <3>2, <3>3
  <2>2. QED
        BY <2>1 DEF WorldInv, WorldMoves
<1>6. \A m \in Carried(net) : m \in Messages /\ (IsReady(m.r) => Matches(reg, m.o, m.r))
  <2>1. net.reps \in Seq(Messages)
        BY DEF ConnectionInv, NetInv
  <2>2. Carried(net) \subseteq Messages
        BY <2>1 DEF Carried
  <2>3. QED
        BY <2>2 DEF ConnectionInv, AgreeInv
<1>7. \A m \in Carried(net) : IsReady(m.r) => Matches(reg', m.o, m.r)
  <2>1. \A m \in Messages : m.o \in Versions /\ m.r # None
        BY Somethings DEF Messages
  <2>2. QED
        BY <1>6, <2>1, MatchesStay
<1>8. AgreeInv(db', net', reg')
  <2>1. ASSUME NEW p \in 1 .. LastOp(db'), db'.op[p].report # None, IsReady(db'.op[p].report)
        PROVE  Matches(reg', p, db'.op[p].report)
    <3>1. CASE p \in 1 .. LastOp(db) /\ db'.op[p].report = db.op[p].report
      <4>1. Matches(reg, p, db'.op[p].report) /\ p \in Versions
            BY <1>1, <2>1, <3>1 DEF ConnectionInv, AgreeInv, Versions
      <4>2. QED
            BY <2>1, <4>1, MatchesStay
    <3>2. CASE [o |-> p, r |-> db'.op[p].report] \in Carried(net)
          BY <1>7, <2>1, <3>2
    <3>3. QED
          BY <2>1, <3>1, <3>2 DEF StoreStep
  <2>2. ASSUME NEW m \in Carried(net'), IsReady(m.r)
        PROVE  Matches(reg', m.o, m.r)
    <3>1. m \in Carried(net) \/ m \in S
          BY DEF NetStep
    <3>2. QED
          BY <1>7, <2>2, <3>1 DEF NetStep, Matches
  <2>3. QED
        BY <2>1, <2>2 DEF AgreeInv
<1>9. RunInv(run', reg')
      BY DEF RunInv, RegStep
<1>10. QED
      BY <1>2, <1>4, <1>5, <1>8, <1>9 DEF ConnectionInv, StoreStep, NetStep

\* What is left alone is as it should be.
LEMMA StoreStays ==
    ASSUME ConnectionInv, db' = db
    PROVE  StoreStep
<1>1. LastOp(db) \in Nat
      BY RegistryIsFinite, Somethings
<1>2. QED
      BY <1>1 DEF StoreStep, ConnectionInv

\* A socket that is left alone is sound for a store that grew.
LEMMA NetStays ==
    ASSUME ConnectionInv, net' = net, LastOp(db') \in Nat, LastOp(db) <= LastOp(db')
    PROVE  NetStep({})
<1>1. LastOp(db) \in Nat
      BY RegistryIsFinite, Somethings
<1>2. 1 .. LastOp(db) \subseteq 1 .. LastOp(db')
      BY <1>1
<1>3. NetInv(net, LastOp(db))
      BY DEF ConnectionInv
<1>4. NetInv(net, LastOp(db'))
      BY <1>2, <1>3 DEF NetInv
<1>5. QED
      BY <1>4 DEF NetStep

\* Checks that are left alone keep their open receipts.
LEMMA FlightStays ==
    ASSUME ConnectionInv, flight' = flight, NEW o \in Versions, reg' = reg \/ ~InFlight(o)
    PROVE  FlightMoves(o)
  BY DEF FlightMoves, ConnectionInv, FlightInv, InFlight

\* A fault changes no expiry and no login.
LEMMA WorldStays ==
    ASSUME ConnectionInv, NEW o \in Versions, UNCHANGED world \/ Fault
    PROVE  WorldMoves(o)
<1>1. world \in [expired : Nat, faults : Nat, logins : [Versions -> {0, 1}]]
      BY DEF ConnectionInv, WorldInv
<1>2. CASE UNCHANGED world
      BY <1>1, <1>2 DEF WorldMoves
<1>3. CASE Fault
  <2>1. world' = [world EXCEPT !.faults = world.faults + 1]
        BY <1>3 DEF Fault
  <2>2. world.faults + 1 \in Nat
        BY <1>1
  <2>3. world' \in [expired : Nat, faults : Nat, logins : [Versions -> {0, 1}]]
        BY <1>1, <2>1, <2>2
  <2>4. world'.expired = world.expired /\ world'.logins = world.logins /\ world.expired \in Nat
        BY <1>1, <2>1
  <2>5. QED
        BY <2>3, <2>4 DEF WorldMoves
<1>4. QED
      BY <1>2, <1>3

\* A run that is left alone keeps its pin.
LEMMA RunStays ==
    ASSUME ConnectionInv, run' = run
    PROVE  RunInv(run', reg)
  BY DEF ConnectionInv

-----------------------------------------------------------------------------
(* The steps of the store and of the server.                               *)

(* A store e that follows d without any new ready report.                  *)
Quiet(d, e) ==
    /\ StoreInv(e) /\ LastOp(e) = LastOp(d)
    /\ \A p \in 1 .. LastOp(d) :
         e.op[p].report # None /\ IsReady(e.op[p].report) => e.op[p].report = d.op[p].report

\* Writing one operation leaves the others.
LEMMA OperationWritten ==
    ASSUME NEW d, StoreShape(d), NEW o \in 1 .. LastOp(d), NEW x \in StoreOperations
    PROVE  /\ [d.op EXCEPT ![o] = x] \in Seq(StoreOperations)
           /\ Len([d.op EXCEPT ![o] = x]) = LastOp(d)
           /\ [d.op EXCEPT ![o] = x][o] = x
           /\ \A p \in 1 .. LastOp(d) : p # o => [d.op EXCEPT ![o] = x][p] = d.op[p]
  BY DEF StoreShape, LastOp

\* An operation the store fails by itself was not ready.
LEMMA SetupFails ==
    ASSUME NEW d, StoreInv(d), LastOp(d) > 0,
           NEW why \in {"expired", "unauthorized"}
    PROVE  Quiet(d, fail_setup_tx(d, LastOp(d), why))
<1> DEFINE o == LastOp(d)
           e == fail_setup_tx(d, o, why)
           y == [d.op[o] EXCEPT !.status = "failed"]
           x == [d.op[o] EXCEPT !.status = "failed", !.report = Failed(why)]
           a == [d EXCEPT !.op = [d.op EXCEPT ![o] = y]]
<1>1. StoreShape(d) /\ o \in Nat /\ o \in 1 .. LastOp(d) /\ o = Len(d.op)
      BY DEF StoreInv, StoreShape, LastOp
<1>2. d.op \in Seq(StoreOperations) /\ d.op[o] \in StoreOperations
      BY <1>1 DEF StoreShape, LastOp
<1>3. y \in StoreOperations /\ x \in StoreOperations /\ x.report = Failed(why)
      /\ x = [y EXCEPT !.report = Failed(why)]
      BY <1>2, PlainReports DEF StoreOperations
<1>4. a.op = [d.op EXCEPT ![o] = y] /\ a.op[o] = y
      BY <1>1, <1>3, OperationWritten DEF StoreShape
<1>5. [a.op EXCEPT ![o] = x] = [d.op EXCEPT ![o] = x]
      BY <1>2, <1>4
<1>6. e = [a EXCEPT !.op = [a.op EXCEPT ![o] = [a.op[o] EXCEPT !.report = Failed(why)]],
                    !.conn = [d.conn EXCEPT !.status = "failed"]]
      BY <1>1 DEF fail_setup_tx, StoreShape
<1>7. e = [d EXCEPT !.op = [d.op EXCEPT ![o] = x], !.conn = [d.conn EXCEPT !.status = "failed"]]
      BY <1>1, <1>3, <1>4, <1>5, <1>6 DEF StoreShape
<1>8. /\ e.op = [d.op EXCEPT ![o] = x] /\ e.conn.status = "failed"
      BY <1>1, <1>7 DEF StoreShape
<1>9. e \in [op : Seq(StoreOperations), authorized : BOOLEAN,
             conn : [status : {"connecting", "needs_sign_in", "ready", "failed"},
                     source : Commits \cup {None}]]
  <2>1. [d.op EXCEPT ![o] = x] \in Seq(StoreOperations)
        BY <1>1, <1>3, OperationWritten
  <2>2. QED
        BY <1>1, <1>7, <2>1 DEF StoreShape
<1>10. LastOp(e) = LastOp(d)
      BY <1>1, <1>3, <1>8, OperationWritten DEF LastOp
<1>11. StoreInv(e)
      BY <1>1, <1>8, <1>9, <1>10 DEF StoreInv, StoreShape, ReadyIsReported
<1>12. \A p \in 1 .. LastOp(d) :
         e.op[p].report # None /\ IsReady(e.op[p].report) => e.op[p].report = d.op[p].report
      BY <1>1, <1>3, <1>8, OperationWritten, PlainReports
<1>13. QED
      BY <1>10, <1>11, <1>12 DEF Quiet

\* Expiry and lost authority only ever fail the newest operation.
LEMMA SetupExpires ==
    ASSUME NEW d, StoreInv(d)
    PROVE  Quiet(d, expire_setup_tx(d)) /\ Quiet(d, pending_workspace_setup(d))
<1>1. Quiet(d, d)
      BY DEF Quiet
<1>2. QED
      BY <1>1, SetupFails DEF expire_setup_tx, pending_workspace_setup

\* Quiet changes follow each other.
LEMMA QuietTwice ==
    ASSUME NEW d, NEW e, NEW f, Quiet(d, e), Quiet(e, f)
    PROVE  Quiet(d, f)
  BY DEF Quiet

\* A quiet change is a step of the store.
LEMMA QuietStep ==
    ASSUME ConnectionInv, Quiet(db, db')
    PROVE  StoreStep
<1>1. LastOp(db) \in Nat
      BY RegistryIsFinite, Somethings
<1>2. QED
      BY <1>1 DEF StoreStep, Quiet

\* A new operation is not reported yet.
LEMMA OperationInserted ==
    ASSUME ConnectionInv, NEW d, Quiet(db, d), LastOp(d) < MaxOps,
           NEW kind \in {"connect", "test", "sign_in"}, db' = insert_operation_tx(d, kind)
    PROVE  StoreStep /\ LastOp(db') = LastOp(db) + 1
<1> DEFINE x == [kind |-> kind, status |-> "queued", report |-> None]
<1>1. StoreShape(d) /\ LastOp(d) \in Nat /\ LastOp(d) = LastOp(db) /\ d.op \in Seq(StoreOperations)
      BY DEF Quiet, StoreInv, StoreShape, LastOp
<1>2. x \in StoreOperations
      BY DEF StoreOperations
<1>3. db' = [d EXCEPT !.op = Append(d.op, x), !.conn = [d.conn EXCEPT !.status = "connecting"]]
      BY <1>1 DEF insert_operation_tx, StoreShape
<1>4. /\ Append(d.op, x) \in Seq(StoreOperations) /\ Len(Append(d.op, x)) = LastOp(d) + 1
      /\ \A p \in 1 .. LastOp(d) : Append(d.op, x)[p] = d.op[p]
      /\ Append(d.op, x)[LastOp(d) + 1] = x
      BY <1>1, <1>2 DEF LastOp
<1>5. db'.op = Append(d.op, x) /\ db'.conn.status = "connecting"
      BY <1>1, <1>3 DEF StoreShape
<1>6. db' \in [op : Seq(StoreOperations), authorized : BOOLEAN,
               conn : [status : {"connecting", "needs_sign_in", "ready", "failed"},
                       source : Commits \cup {None}]]
      BY <1>1, <1>3, <1>4 DEF StoreShape
<1>7. LastOp(db') = LastOp(d) + 1
      BY <1>4, <1>5 DEF LastOp
<1>8. StoreInv(db')
      BY <1>1, <1>5, <1>6, <1>7, Somethings DEF StoreInv, StoreShape, ReadyIsReported
<1>9. ASSUME NEW p \in 1 .. LastOp(db'), db'.op[p].report # None, IsReady(db'.op[p].report)
      PROVE  p \in 1 .. LastOp(db) /\ db'.op[p].report = db.op[p].report
  <2>1. p # LastOp(d) + 1
        BY <1>4, <1>5, <1>9
  <2>2. p \in 1 .. LastOp(d)
        BY <1>1, <1>7, <2>1
  <2>3. QED
        BY <1>1, <1>4, <1>5, <1>9, <2>2 DEF Quiet
<1>10. QED
      BY <1>1, <1>7, <1>8, <1>9 DEF StoreStep

\* Recording a report that was accepted.
LEMMA ReportRecorded ==
    ASSUME ConnectionInv, NEW m \in Carried(net), Accepts(db, m.o, m.r),
           db' = RecordReport(db, m.o, m.r)
    PROVE  StoreStep /\ LastOp(db') = LastOp(db)
<1>1. CASE ~OpActive(db, m.o)
  <2>1. db' = db
        BY <1>1 DEF RecordReport
  <2>2. QED
        BY <2>1, StoreStays
<1>2. CASE OpActive(db, m.o)
  <2> DEFINE o == m.o
             r == m.r
             y == [db.op[o] EXCEPT !.status = r.st]
             x == [db.op[o] EXCEPT !.status = r.st, !.report = r]
             a == [db EXCEPT !.op = [db.op EXCEPT ![o] = y]]
             c == [db.conn EXCEPT !.status = r.cs, !.source = IF r.src = None THEN @ ELSE r.src]
  <2>1. m \in Messages /\ o \in 1 .. LastOp(db)
    <3>1. net.reps \in Seq(Messages) /\ \A z \in Carried(net) : z.o \in 1 .. LastOp(db)
          BY DEF ConnectionInv, NetInv
    <3>2. QED
          BY <3>1 DEF Carried
  <2>2. r \in Reports
        BY <2>1 DEF Messages
  <2>3. /\ StoreShape(db) /\ db.op \in Seq(StoreOperations) /\ db.op[o] \in StoreOperations
        /\ LastOp(db) \in Nat
        BY <2>1 DEF ConnectionInv, StoreInv, StoreShape, LastOp
  <2>4. o = LastOp(db) /\ (r.cs = "ready" => r.st = "succeeded" /\ r.src # None)
        BY <1>2 DEF Accepts, validate_report
  <2>5. /\ y \in StoreOperations /\ x \in StoreOperations
        /\ x = [y EXCEPT !.report = r] /\ x.status = r.st /\ x.report = r
        BY <2>2, <2>3 DEF StoreOperations, Reports
  <2>6. a.op = [db.op EXCEPT ![o] = y] /\ a.op[o] = y
        BY <2>1, <2>3, <2>5, OperationWritten DEF StoreShape
  <2>7. [a.op EXCEPT ![o] = x] = [db.op EXCEPT ![o] = x]
        BY <2>3, <2>6
  <2>8. db' = [a EXCEPT !.op = [a.op EXCEPT ![o] = [a.op[o] EXCEPT !.report = r]], !.conn = c]
    <3> DEFINE s == [db.conn EXCEPT !.status = r.cs]
               b == [a EXCEPT !.op = [a.op EXCEPT ![o] = [a.op[o] EXCEPT !.report = r]],
                              !.conn = s]
    <3>1. b.conn = s /\ a.conn = db.conn
          BY <2>3 DEF StoreShape
    <3>2. c = [s EXCEPT !.source = IF r.src = None THEN @ ELSE r.src]
          BY <2>3 DEF StoreShape
    <3>3. db' = [b EXCEPT !.conn = [b.conn EXCEPT !.source = IF r.src = None THEN @ ELSE r.src]]
          BY <1>2, <2>3, <3>1 DEF RecordReport, StoreShape
    <3>4. db' = [b EXCEPT !.conn = c]
          BY <3>1, <3>2, <3>3
    <3>5. QED
          BY <2>3, <3>4 DEF StoreShape
  <2>9. db' = [db EXCEPT !.op = [db.op EXCEPT ![o] = x], !.conn = c]
        BY <2>3, <2>5, <2>6, <2>7, <2>8 DEF StoreShape
  <2>10. /\ c.status = r.cs /\ (r.src # None => c.source = r.src)
         /\ c \in [status : {"connecting", "needs_sign_in", "ready", "failed"},
                   source : Commits \cup {None}]
        BY <2>2, <2>3 DEF StoreShape, Reports
  <2> HIDE DEF c
  <2>11. db'.op = [db.op EXCEPT ![o] = x] /\ db'.conn = c
        BY <2>3, <2>9 DEF StoreShape
  <2>12. /\ db'.op \in Seq(StoreOperations) /\ LastOp(db') = LastOp(db)
         /\ db'.op[o] = x /\ \A p \in 1 .. LastOp(db) : p # o => db'.op[p] = db.op[p]
        BY <2>1, <2>3, <2>5, <2>11, OperationWritten DEF LastOp
  <2>13. StoreShape(db')
        BY <2>3, <2>9, <2>10, <2>11, <2>12 DEF StoreShape
  <2>14. ReadyIsReported(db')
    <3>1. SUFFICES ASSUME r.cs = "ready"
                   PROVE  ReadyIsReported(db')
          BY <2>10, <2>11 DEF ReadyIsReported
    <3>2. LastOp(db') = o /\ LastOp(db') > 0
          BY <2>1, <2>3, <2>4, <2>12
    <3>3. r # None
          BY <2>2, Somethings
    <3>4. x.status = "succeeded" /\ x.report = r /\ IsReady(r) /\ c.source = r.src
          BY <2>4, <2>5, <2>10, <3>1 DEF IsReady
    <3>5. QED
          BY <2>11, <2>12, <3>2, <3>3, <3>4 DEF ReadyIsReported
  <2>15. [o |-> o, r |-> r] = m
        BY <2>1 DEF Messages
  <2>16. \A p \in 1 .. LastOp(db') :
            \/ p \in 1 .. LastOp(db) /\ db'.op[p].report = db.op[p].report
            \/ [o |-> p, r |-> db'.op[p].report] \in Carried(net)
        BY <2>5, <2>12, <2>15
  <2>17. QED
        BY <2>3, <2>12, <2>13, <2>14, <2>16 DEF StoreStep, StoreInv
<1>3. QED
      BY <1>1, <1>2

\* A step of the store that leaves the runner and the socket alone.
LEMMA StoreOnly ==
    ASSUME ConnectionInv, StoreStep, UNCHANGED <<run, net, reg, flight>>,
           UNCHANGED world \/ Fault
    PROVE  ConnectionInv'
<1>1. 1 \in Versions /\ LastOp(db') \in Nat
      BY Somethings DEF Versions, StoreStep, StoreInv, StoreShape, LastOp
<1>2. NetStep({}) /\ RegStep(1) /\ FlightMoves(1) /\ WorldMoves(1) /\ RunInv(run', reg)
      BY <1>1, NetStays, RegistryStays, FlightStays, WorldStays, RunStays DEF StoreStep
<1>3. QED
      BY <1>1, <1>2, Combined

\* The connection is created with its first operation.
LEMMA CreateStep ==
    ASSUME ConnectionInv, CreateConnection
    PROVE  ConnectionInv'
<1>1. Quiet(db, db)
      BY DEF Quiet, ConnectionInv
<1>2. LastOp(db) < MaxOps
      BY Somethings DEF CreateConnection
<1>3. QED
      BY <1>1, <1>2, OperationInserted, StoreOnly DEF CreateConnection

\* A check or a sign-in is begun when the one before it has ended.
LEMMA BeginStep ==
    ASSUME ConnectionInv, NEW kind \in {"test", "sign_in"}, begin_workspace_setup(kind)
    PROVE  ConnectionInv'
<1>1. Quiet(db, expire_setup_tx(db))
      BY SetupExpires DEF ConnectionInv
<1>2. LastOp(expire_setup_tx(db)) < MaxOps
  <2>1. LastOp(db) \in 1 .. MaxOps - 1
        BY DEF begin_workspace_setup
  <2>2. QED
        BY <1>1, <2>1, Somethings DEF Quiet
<1>3. QED
      BY <1>1, <1>2, OperationInserted, StoreOnly DEF begin_workspace_setup

\* Lost authority changes no operation by itself.
LEMMA RevokeStep ==
    ASSUME ConnectionInv, Revoke
    PROVE  ConnectionInv'
<1>1. StoreInv(db) /\ StoreShape(db)
      BY DEF ConnectionInv, StoreInv
<1>2. db' = [db EXCEPT !.authorized = FALSE]
      BY DEF Revoke
<1>3. db'.op = db.op /\ db'.conn = db.conn
      BY <1>1, <1>2 DEF StoreShape
<1>4. StoreShape(db')
      BY <1>1, <1>2 DEF StoreShape, LastOp
<1>5. Quiet(db, db')
      BY <1>1, <1>3, <1>4 DEF Quiet, StoreInv, ReadyIsReported, LastOp
<1>6. QED
      BY <1>5, QuietStep, StoreOnly DEF Revoke

\* What is still open is sent again.
LEMMA DispatchStep ==
    ASSUME ConnectionInv, dispatch
    PROVE  ConnectionInv'
<1> DEFINE open == {o \in 1 .. LastOp(db) : OpActive(db', o)}
           d == expire_setup_tx(db)
<1>1. Quiet(db, d)
      BY SetupExpires DEF ConnectionInv
<1>2. Quiet(d, pending_workspace_setup(d))
      BY <1>1, SetupExpires DEF Quiet
<1>3. Quiet(db, db')
      BY <1>1, <1>2, QuietTwice DEF dispatch
<1>4. StoreStep /\ LastOp(db') = LastOp(db)
      BY <1>3, QuietStep DEF Quiet
<1>5. net' = [net EXCEPT !.cmds = net.cmds \cup open, !.sent = net.sent \cup open]
      BY DEF dispatch
<1>6. NetInv(net, LastOp(db))
      BY DEF ConnectionInv
<1>7. net' \in [up : BOOLEAN, cmds : SUBSET (1 .. LastOp(db)), inbox : {net.inbox},
                reps : {net.reps}, sent : {net'.sent}, told : {net'.told}]
      BY <1>5, <1>6 DEF NetInv
<1>8. NetStep({})
      BY <1>4, <1>6, <1>7, NetAlike DEF NetStep
<1>9. 1 \in Versions
      BY Somethings DEF Versions
<1>10. UNCHANGED <<run, reg, flight>> /\ (UNCHANGED world \/ Fault)
      BY DEF dispatch
<1>11. RegStep(1) /\ FlightMoves(1) /\ WorldMoves(1) /\ RunInv(run', reg)
      BY <1>9, <1>10, RegistryStays, FlightStays, WorldStays, RunStays
<1>12. QED
      BY <1>4, <1>8, <1>9, <1>11, Combined

\* A report is recorded or refused, and answered.
LEMMA ReportStep ==
    ASSUME ConnectionInv, WorkspaceSetupReport
    PROVE  ConnectionInv'
<1> DEFINE m == Head(net.reps)
           ok == Accepts(db, m.o, m.r)
           d == RecordReport(db, m.o, m.r)
           answer == IF ~ok THEN <<Ack(m.o, FALSE)>>
                     ELSE IF OpActive(d, m.o) THEN <<>> ELSE <<Ack(m.o, TRUE)>>
<1>1. /\ net.reps # <<>> /\ Len(net.inbox) < MaxQueue /\ db' = IF ok THEN d ELSE db
      /\ net' = [net EXCEPT !.reps = Tail(@), !.inbox = @ \o answer]
      /\ UNCHANGED <<run, reg, flight, world>>
      BY DEF WorkspaceSetupReport
<1>2. NetInv(net, LastOp(db)) /\ net.reps \in Seq(Messages)
      BY DEF ConnectionInv, NetInv
<1>3. m.o \in Versions
  <2>1. Len(net.reps) \in Nat \ {0} /\ m = net.reps[1]
        BY <1>1, <1>2
  <2>2. m \in Messages
        BY <1>2, <2>1
  <2>3. QED
        BY <2>2 DEF Messages
<1>4. answer \in Seq([o : Versions, accepted : BOOLEAN]) /\ Len(answer) <= 1
  <2> HIDE DEF ok, d
  <2>1. Ack(m.o, FALSE) \in [o : Versions, accepted : BOOLEAN]
        /\ Ack(m.o, TRUE) \in [o : Versions, accepted : BOOLEAN]
        BY <1>3 DEF Ack
  <2> DEFINE Acks == [o : Versions, accepted : BOOLEAN]
             no == Ack(m.o, FALSE)
             yes == Ack(m.o, TRUE)
  <2>2. no \in Acks /\ yes \in Acks
        BY <2>1
  <2> HIDE DEF Acks, no, yes
  <2>3. <<no>> \in Seq(Acks) /\ <<yes>> \in Seq(Acks) /\ <<>> \in Seq(Acks)
        BY <2>2
  <2>4. Len(<<no>>) <= 1 /\ Len(<<yes>>) <= 1 /\ Len(<<>>) <= 1
        OBVIOUS
  <2>5. answer = <<no>> \/ answer = <<yes>> \/ answer = <<>>
        BY DEF no, yes
  <2> HIDE DEF answer
  <2>6. answer \in Seq(Acks) /\ Len(answer) <= 1
        BY <2>3, <2>4, <2>5
  <2>7. QED
        BY <2>6 DEF Acks
<1> HIDE DEF answer
<1>5. /\ NetInv(net', LastOp(db)) /\ Carried(net') \subseteq Carried(net) /\ m \in Carried(net)
      BY <1>1, <1>2, <1>4, NetAnswers
<1>6. StoreStep /\ LastOp(db') = LastOp(db)
  <2>1. CASE ok
        BY <1>1, <1>5, <2>1, ReportRecorded
  <2>2. CASE ~ok
        BY <1>1, <2>2, StoreStays
  <2>3. QED
        BY <2>1, <2>2
<1>7. NetStep({})
      BY <1>5, <1>6 DEF NetStep
<1>8. 1 \in Versions
      BY Somethings DEF Versions
<1>9. RegStep(1) /\ FlightMoves(1) /\ WorldMoves(1) /\ RunInv(run', reg)
      BY <1>1, <1>8, RegistryStays, FlightStays, WorldStays, RunStays
<1>10. QED
      BY <1>6, <1>7, <1>8, <1>9, Combined

-----------------------------------------------------------------------------
(* The steps of the runner.                                                *)

\* A message about a known operation that repeats a receipt, or is not ready.
LEMMA TellStep ==
    ASSUME ConnectionInv, db' = db, NEW n, NetInv(n, LastOp(db)), Carried(n) = Carried(net),
           Len(n.reps) < MaxQueue, NEW o \in 1 .. LastOp(db), NEW r \in Reports,
           IsReady(r) => o \in DOMAIN reg'.op /\ reg'.op[o].report = r,
           net' = Live(n, o, r) \/ net' = Tell(n, o, r)
    PROVE  NetStep({[o |-> o, r |-> r]})
<1>1. LastOp(db) \in 0 .. MaxOps
      BY RegistryIsFinite
<1>2. NetInv(net', LastOp(db)) /\ Carried(net') \subseteq Carried(n) \cup {[o |-> o, r |-> r]}
      BY <1>1, NetTells, NetMayTell
<1>3. QED
      BY <1>2 DEF NetStep

\* A step that only moves messages.
LEMMA SocketOnly ==
    ASSUME ConnectionInv, NEW S, NetStep(S), UNCHANGED <<db, run, reg, flight>>,
           UNCHANGED world \/ Fault
    PROVE  ConnectionInv'
<1>1. 1 \in Versions
      BY Somethings DEF Versions
<1>2. StoreStep /\ RegStep(1) /\ FlightMoves(1) /\ WorldMoves(1) /\ RunInv(run', reg)
      BY <1>1, StoreStays, RegistryStays, FlightStays, WorldStays, RunStays
<1>3. QED
      BY <1>1, <1>2, Combined

\* What a check in flight is, and what its receipt is.
LEMMA FlightOf ==
    ASSUME ConnectionInv, NEW o \in Versions, InFlight(o)
    PROVE  /\ flight[o] \in Flights /\ o \in 1 .. LastOp(db)
           /\ o \in DOMAIN reg.op /\ reg.op[o].report = None
           /\ flight[o].at # "queued" => flight[o].src \in Commits
<1>1. /\ flight[o] \in Flights /\ o \in DOMAIN reg.op /\ reg.op[o].report = None
      /\ flight[o].at # "queued" => flight[o].src \in Commits
      BY DEF ConnectionInv, FlightInv, InFlight
<1>2. QED
      BY <1>1 DEF ConnectionInv, RegInv, RegShape

\* A check in flight moves on, or one is put in flight.
LEMMA FlightSet ==
    ASSUME ConnectionInv, NEW o \in Versions, NEW f \in Flights,
           flight' = [flight EXCEPT ![o] = f],
           f.at \notin {"none", "queued"} => f.src \in Commits,
           f.at # "none" => o \in DOMAIN reg'.op /\ reg'.op[o].report = None
    PROVE  FlightMoves(o)
<1>1. flight \in [Versions -> Flights]
      BY DEF ConnectionInv, FlightInv
<1>2. /\ flight' \in [Versions -> Flights] /\ flight'[o] = f
      /\ \A p \in Versions \ {o} : flight'[p] = flight[p]
      BY <1>1
<1>3. QED
      BY <1>2 DEF FlightMoves, ConnectionInv, FlightInv, InFlight

\* Nothing in flight is a flight.
LEMMA FlightNone ==
    NoFlight \in Flights /\ NoFlight.at = "none"
  BY DEF NoFlight, Flights

\* The end of a check, with or without a snapshot.
LEMMA FinishStep ==
    ASSUME ConnectionInv, NEW o \in Versions, InFlight(o), NEW r \in Reports,
           NEW key \in Snapshots \cup {None}, key # None => r.src = key.src,
           finish(o, r, key)
    PROVE  ConnectionInv'
<1> DEFINE superseded == key # None /\ reg.current # o
           report == IF superseded THEN Failed("superseded") ELSE r
           k == IF superseded THEN None ELSE key
           n == [net EXCEPT !.told = IF net.up THEN @ \cup {o} ELSE @]
<1>1. /\ Len(net.reps) < MaxQueue /\ flight' = [flight EXCEPT ![o] = NoFlight]
      /\ db' = db /\ run' = run
      BY DEF finish, Room
<1>2. o \in 1 .. LastOp(db)
      BY FlightOf
<1>3. report \in Reports /\ k \in Snapshots \cup {None} /\ (k # None => report.src = k.src)
      BY PlainReports
<1>4. FlightMoves(o)
      BY <1>1, FlightSet, FlightNone
<1>5. StoreStep /\ RunInv(run', reg)
      BY <1>1, StoreStays, RunStays
<1>6. NetInv(net, LastOp(db))
      BY DEF ConnectionInv
<1>7. CASE /\ reg' = Receipt(o, report, k) /\ net' = Tell(n, o, report) /\ UNCHANGED world
  <2>1. RegStep(o) /\ o \in DOMAIN reg'.op /\ reg'.op[o].report = report
        BY <1>3, <1>7, RegistryReceives
  <2>2. n \in [up : BOOLEAN, cmds : SUBSET (1 .. LastOp(db)), inbox : {net.inbox},
               reps : {net.reps}, sent : {n.sent}, told : {n.told}]
        BY <1>6 DEF NetInv
  <2>3. NetInv(n, LastOp(db)) /\ Carried(n) = Carried(net) /\ n.reps = net.reps
        BY <1>6, <2>2, NetAlike
  <2> HIDE DEF n, report
  <2>4. NetStep({[o |-> o, r |-> report]})
        BY <1>1, <1>2, <1>3, <1>7, <2>1, <2>3, TellStep
  <2>5. WorldMoves(o)
        BY <1>7, WorldStays
  <2>6. QED
        BY <1>4, <1>5, <2>1, <2>4, <2>5, Combined
<1>8. CASE /\ Fault /\ net' = Tell(net, o, Failed("not_saved")) /\ UNCHANGED reg
  <2>1. RegStep(o) /\ WorldMoves(o)
        BY <1>8, RegistryStays, WorldStays
  <2>2. NetStep({[o |-> o, r |-> Failed("not_saved")]})
        BY <1>1, <1>2, <1>6, <1>8, PlainReports, TellStep
  <2>3. QED
        BY <1>4, <1>5, <2>1, <2>2, Combined
<1>9. QED
      BY <1>7, <1>8 DEF finish

\* A delivered command.
LEMMA ExecuteStep ==
    ASSUME ConnectionInv, NEW o \in Versions, execute(o)
    PROVE  ConnectionInv'
<1> DEFINE n == [net EXCEPT !.cmds = @ \ {o}]
           done == Known(o) /\ reg.op[o].report # None
<1>1. /\ Len(net.reps) < MaxQueue /\ o \in net.cmds /\ db' = db /\ run' = run
      /\ UNCHANGED world \/ Fault
      BY DEF execute, Room
<1>2. NetInv(net, LastOp(db)) /\ o \in 1 .. LastOp(db)
      BY <1>1 DEF ConnectionInv, NetInv
<1>3. n \in [up : BOOLEAN, cmds : SUBSET (1 .. LastOp(db)), inbox : {net.inbox},
             reps : {net.reps}, sent : {n.sent}, told : {n.told}]
      BY <1>2 DEF NetInv
<1>4. NetInv(n, LastOp(db)) /\ Carried(n) = Carried(net) /\ n.reps = net.reps
      BY <1>2, <1>3, NetAlike
<1>5. Len(n.reps) < MaxQueue
      BY <1>1, <1>4
<1> HIDE DEF n
<1>6. CASE done /\ net' = Live(n, o, reg.op[o].report) /\ UNCHANGED <<reg, flight>>
  <2>1. reg.op[o].report \in Reports
        BY <1>6 DEF Known, ConnectionInv, RegInv, RegShape, Receipts
  <2>2. NetStep({[o |-> o, r |-> reg.op[o].report]})
        BY <1>1, <1>2, <1>4, <1>5, <1>6, <2>1, TellStep DEF Known
  <2>3. QED
        BY <1>1, <1>6, <2>2, SocketOnly
<1>7. CASE net' = Live(n, o, Failed("not_run")) /\ UNCHANGED <<reg, flight>>
  <2>1. NetStep({[o |-> o, r |-> Failed("not_run")]})
        BY <1>1, <1>2, <1>4, <1>5, <1>7, PlainReports, TellStep
  <2>2. QED
        BY <1>1, <1>7, <2>1, SocketOnly
<1>8. CASE /\ InFlight(o)
           /\ net' = IF flight[o].recent = None THEN n ELSE Live(n, o, flight[o].recent)
           /\ UNCHANGED <<reg, flight>>
  <2>1. CASE flight[o].recent = None
    <3>1. NetStep({})
          BY <1>1, <1>4, <1>8, <2>1 DEF NetStep
    <3>2. QED
          BY <1>1, <1>8, <3>1, SocketOnly
  <2>2. CASE flight[o].recent # None
    <3>1. flight[o].recent \in {Running, Prompt, Waiting}
          BY <1>8, <2>2, FlightOf DEF Flights
    <3>2. flight[o].recent \in Reports /\ ~IsReady(flight[o].recent)
          BY <3>1, PlainReports
    <3>3. NetStep({[o |-> o, r |-> flight[o].recent]})
          BY <1>1, <1>2, <1>4, <1>5, <1>8, <2>2, <3>2, TellStep
    <3>4. QED
          BY <1>1, <1>8, <3>3, SocketOnly
  <2>3. QED
        BY <2>1, <2>2
<1>9. CASE /\ ~done /\ Admits(o) /\ reg' = IF Known(o) THEN reg ELSE begin_operation(o)
           /\ flight' = [flight EXCEPT ![o] = [NoFlight EXCEPT !.at = "queued"]]
           /\ net' = n
  <2>1. RegStep(o) /\ o \in DOMAIN reg'.op /\ reg'.op[o].report = None
    <3>1. CASE Known(o)
          BY <1>9, <3>1, RegistryStays DEF Known
    <3>2. CASE ~Known(o)
          BY <1>2, <1>9, <3>2, RegistryBegins
    <3>3. QED
          BY <3>1, <3>2
  <2>2. /\ [NoFlight EXCEPT !.at = "queued"] \in Flights
        /\ [NoFlight EXCEPT !.at = "queued"].at = "queued"
        BY DEF NoFlight, Flights
  <2>3. FlightMoves(o)
        BY <1>9, <2>1, <2>2, FlightSet
  <2>4. NetStep({})
        BY <1>1, <1>4, <1>9 DEF NetStep
  <2>5. StoreStep /\ WorldMoves(o) /\ RunInv(run', reg)
        BY <1>1, StoreStays, WorldStays, RunStays
  <2>6. QED
        BY <2>1, <2>3, <2>4, <2>5, Combined
<1>10. QED
      BY <1>6, <1>7, <1>8, <1>9 DEF execute, n

\* A step of a check that tells its progress and leaves the receipt open.
LEMMA ProgressStep ==
    ASSUME ConnectionInv, NEW o \in Versions, InFlight(o), Room,
           NEW f \in Flights, flight' = [flight EXCEPT ![o] = f], f.src \in Commits,
           NEW r \in {Running, Prompt, Waiting}, net' = Tell(net, o, r),
           UNCHANGED <<db, run>>, RegStep(o), WorldMoves(o),
           o \in DOMAIN reg'.op, reg'.op[o].report = None
    PROVE  ConnectionInv'
<1>1. r \in Reports /\ ~IsReady(r)
      BY PlainReports
<1>2. o \in 1 .. LastOp(db) /\ NetInv(net, LastOp(db))
      BY FlightOf DEF ConnectionInv
<1>3. NetStep({[o |-> o, r |-> r]})
      BY <1>1, <1>2, TellStep DEF Room
<1>4. StoreStep /\ RunInv(run', reg) /\ FlightMoves(o)
      BY StoreStays, RunStays, FlightSet
<1>5. QED
      BY <1>3, <1>4, Combined

\* The source of a check is prepared, or the check is refused.
LEMMA PrepareStep ==
    ASSUME ConnectionInv, NEW o \in Versions, prepare_source(o)
    PROVE  ConnectionInv'
<1>1. InFlight(o) /\ Room
      BY DEF prepare_source, InFlight
<1>2. CASE perform(o)
  <2>1. PICK c \in Heads[o] : flight' = [flight EXCEPT ![o] = Prepared(c)]
        BY <1>2 DEF prepare_source
  <2>6. c \in Commits
        BY ConnectionAssumption
  <2>2. net' = Tell(net, o, Running) /\ UNCHANGED <<db, run, reg, world>>
        BY <1>2 DEF prepare_source
  <2>3. Prepared(c) \in Flights /\ Prepared(c).src \in Commits
        BY <2>6 DEF Prepared, Flights
  <2>4. RegStep(o) /\ WorldMoves(o) /\ o \in DOMAIN reg'.op /\ reg'.op[o].report = None
        BY <1>1, <2>2, RegistryStays, WorldStays, FlightOf
  <2>5. QED
        BY <1>1, <2>1, <2>2, <2>3, <2>4, <2>6, ProgressStep
<1>3. CASE ~perform(o)
  <2>1. finish(o, Failed("native"), None)
        BY <1>3 DEF prepare_source
  <2>2. QED
        BY <1>1, <2>1, PlainReports, FinishStep
<1>4. QED
      BY <1>2, <1>3

\* A refused source ends the check without a snapshot.
LEMMA RefusedStep ==
    ASSUME ConnectionInv, NEW o \in Versions, SourceRefused(o)
    PROVE  ConnectionInv'
  BY PlainReports, FinishStep DEF SourceRefused, InFlight

\* The readiness check of a prepared source ends the operation.
LEMMA ObservedStep ==
    ASSUME ConnectionInv, NEW o \in Versions, InFlight(o), flight[o].at # "queued", Observed(o)
    PROVE  ConnectionInv'
<1>1. flight[o].src \in Commits
      BY FlightOf
<1>2. PICK readiness \in {"ready", "needs_sign_in", "failed"} :
         finish(o, readiness_report(readiness, flight[o].src),
                snapshot_key(flight[o].src, readiness = "ready"))
      BY DEF Observed
<1>3. QED
      BY <1>1, <1>2, NativeReports, FinishStep

\* The login is recorded before it starts, so it cannot start again.
LEMMA ClaimStep ==
    ASSUME ConnectionInv, NEW o \in Versions, claim_login(o)
    PROVE  ConnectionInv'
<1> DEFINE f == [flight[o] EXCEPT !.at = "prompt", !.recent = Prompt]
<1>1. InFlight(o) /\ Room /\ flight[o].at = "prepared" /\ ~reg.op[o].login
      BY DEF claim_login, InFlight
<1>2. flight[o] \in Flights /\ flight[o].src \in Commits
      BY <1>1, FlightOf
<1>3. flight' = [flight EXCEPT ![o] = f]
  <2>1. flight \in [Versions -> Flights]
        BY DEF ConnectionInv, FlightInv
  <2>2. flight' = [flight EXCEPT ![o].at = "prompt", ![o].recent = Prompt]
        BY DEF claim_login
  <2>3. QED
        BY <2>1, <2>2 DEF Flights
<1>4. f \in Flights /\ f.src \in Commits
      BY <1>2 DEF Flights
<1>5. /\ RegStep(o) /\ o \in DOMAIN reg.op /\ o \in DOMAIN reg'.op
      /\ reg'.op[o].report = None /\ reg'.op[o].login
      BY <1>1, RegistryClaims DEF claim_login
<1>6. world \in [expired : Nat, faults : Nat, logins : [Versions -> {0, 1}]]
      /\ world.logins[o] = 0
  <2>1. world \in [expired : Nat, faults : Nat, logins : [Versions -> {0, 1}]]
        BY DEF ConnectionInv, WorldInv
  <2>2. world.logins[o] # 1
        BY <1>1, <1>5 DEF ConnectionInv, WorldInv, Claimed
  <2>3. QED
        BY <2>1, <2>2
<1>7. WorldMoves(o)
  <2>1. world' = [world EXCEPT !.logins = [world.logins EXCEPT ![o] = world.logins[o] + 1]]
        BY <1>6 DEF claim_login
  <2>2. [world.logins EXCEPT ![o] = world.logins[o] + 1] = [world.logins EXCEPT ![o] = 1]
        BY <1>6
  <2>3. /\ world' \in [expired : Nat, faults : Nat, logins : [Versions -> {0, 1}]]
        /\ world'.expired = world.expired /\ world'.logins = [world.logins EXCEPT ![o] = 1]
        BY <1>6, <2>1, <2>2
  <2>4. QED
        BY <1>5, <1>6, <2>3 DEF WorldMoves
<1>8. net' = Tell(net, o, Prompt) /\ UNCHANGED <<db, run>>
      BY DEF claim_login
<1> HIDE DEF f
<1>9. QED
      BY <1>1, <1>3, <1>4, <1>5, <1>7, <1>8, ProgressStep

\* The code of the prompt reaches the waiting login.
LEMMA SubmitStep ==
    ASSUME ConnectionInv, NEW o \in Versions, submit_sign_in(o)
    PROVE  ConnectionInv'
<1> DEFINE f == [flight[o] EXCEPT !.at = "coded", !.recent = Waiting]
<1>1. InFlight(o) /\ Room /\ flight[o].at = "prompt"
      BY DEF submit_sign_in, PromptWaits, InFlight
<1>2. flight[o] \in Flights /\ flight[o].src \in Commits
      BY <1>1, FlightOf
<1>3. flight' = [flight EXCEPT ![o] = f]
  <2>1. flight \in [Versions -> Flights]
        BY DEF ConnectionInv, FlightInv
  <2>2. flight' = [flight EXCEPT ![o].at = "coded", ![o].recent = Waiting]
        BY DEF submit_sign_in
  <2>3. QED
        BY <2>1, <2>2 DEF Flights
<1>4. f \in Flights /\ f.src \in Commits
      BY <1>2 DEF Flights
<1>5. net' = Tell(net, o, Waiting) /\ UNCHANGED <<db, run, reg, world>>
      BY DEF submit_sign_in
<1>6. RegStep(o) /\ WorldMoves(o) /\ o \in DOMAIN reg'.op /\ reg'.op[o].report = None
      BY <1>1, <1>5, RegistryStays, WorldStays, FlightOf
<1> HIDE DEF f
<1>7. QED
      BY <1>1, <1>3, <1>4, <1>5, <1>6, ProgressStep

\* Every step of a check in flight.
LEMMA FlightStepKeeps ==
    ASSUME ConnectionInv, NEW o \in Versions, FlightStep(o)
    PROVE  ConnectionInv'
<1>1. CASE prepare_source(o)
      BY <1>1, PrepareStep
<1>2. CASE SourceRefused(o)
      BY <1>2, RefusedStep
<1>3. CASE inspect_before(o)
      BY <1>3, ObservedStep DEF inspect_before, InFlight
<1>4. CASE claim_login(o)
      BY <1>4, ClaimStep
<1>5. CASE LoginEnds(o)
      BY <1>5, ObservedStep DEF LoginEnds, InFlight
<1>6. QED
      BY <1>1, <1>2, <1>3, <1>4, <1>5 DEF FlightStep

\* The decision of the server arrives.
LEMMA AckStep ==
    ASSUME ConnectionInv, WorkspaceSetupAck
    PROVE  ConnectionInv'
<1> DEFINE m == Head(net.inbox)
           refused == \/ ~Known(m.o)
                      \/ reg.op[m.o].report = None
                      \/ reg.op[m.o].ack \notin {None, m.accepted}
           n == [net EXCEPT !.inbox = Tail(@)]
           new == ~refused /\ reg.op[m.o].ack = None
<1>1. /\ net.inbox # <<>> /\ UNCHANGED <<db, run, flight>> /\ (UNCHANGED world \/ Fault)
      /\ net' = n \/ net' = [n EXCEPT !.told = @ \ {m.o}]
      /\ reg' = reg \/ (new /\ reg' = acknowledge(m.o, m.accepted))
      BY DEF WorkspaceSetupAck
<1>2. NetInv(net, LastOp(db))
      BY DEF ConnectionInv
<1>3. /\ NetInv(n, LastOp(db)) /\ Carried(n) = Carried(net)
      /\ m \in [o : Versions, accepted : BOOLEAN]
      BY <1>1, <1>2, NetDecides
<1>4. m.o \in Versions /\ m.accepted \in BOOLEAN
      BY <1>3
<1>5. NetStep({})
  <2> HIDE DEF n, m
  <2>1. net' \in [up : BOOLEAN, cmds : SUBSET (1 .. LastOp(db)), inbox : {n.inbox},
                  reps : {n.reps}, sent : {net'.sent}, told : {net'.told}]
        BY <1>1, <1>3 DEF NetInv
  <2>2. NetInv(net', LastOp(db)) /\ Carried(net') = Carried(n)
        BY <1>3, <2>1, NetAlike
  <2>3. QED
        BY <1>1, <1>3, <2>2 DEF NetStep
<1>6. CASE reg' = reg
      BY <1>1, <1>5, <1>6, SocketOnly
<1>7. CASE new /\ reg' = acknowledge(m.o, m.accepted)
  <2>1. m.o \in DOMAIN reg.op /\ reg.op[m.o].report # None
        BY <1>7 DEF Known
  <2>2. RegStep(m.o)
        BY <1>4, <1>7, <2>1, RegistryAcks
  <2>3. ~InFlight(m.o)
        BY <1>4, <2>1 DEF ConnectionInv, FlightInv, InFlight
  <2>4. StoreStep /\ FlightMoves(m.o) /\ WorldMoves(m.o) /\ RunInv(run', reg)
        BY <1>1, <1>4, <2>3, StoreStays, FlightStays, WorldStays, RunStays
  <2>5. QED
        BY <1>4, <1>5, <2>2, <2>4, Combined
<1>8. QED
      BY <1>1, <1>6, <1>7

\* An unacknowledged receipt is repeated.
LEMMA HeartbeatStep ==
    ASSUME ConnectionInv, NEW o \in Versions, Heartbeat(o)
    PROVE  ConnectionInv'
<1> DEFINE l == Live(net, o, reg.op[o].report)
<1>1. /\ Len(net.reps) < MaxQueue /\ o \in DOMAIN reg.op /\ reg.op[o].report # None
      /\ net' = [l EXCEPT !.told = @ \cup {o}]
      /\ UNCHANGED <<db, run, reg, flight>> /\ (UNCHANGED world \/ Fault)
      BY DEF Heartbeat, Room, pending_reports
<1>2. /\ reg.op[o].report \in Reports /\ o \in 1 .. LastOp(db)
      /\ LastOp(db) \in 0 .. MaxOps /\ NetInv(net, LastOp(db))
      BY <1>1, RegistryIsFinite DEF ConnectionInv, RegInv, RegShape, Receipts
<1>3. /\ NetInv(l, LastOp(db))
      /\ Carried(l) \subseteq Carried(net) \cup {[o |-> o, r |-> reg.op[o].report]}
      BY <1>1, <1>2, NetTells
<1> HIDE DEF l
<1>4. net' \in [up : BOOLEAN, cmds : SUBSET (1 .. LastOp(db)), inbox : {l.inbox},
                reps : {l.reps}, sent : {net'.sent}, told : {net'.told}]
      BY <1>1, <1>3 DEF NetInv
<1>5. NetInv(net', LastOp(db)) /\ Carried(net') = Carried(l)
      BY <1>3, <1>4, NetAlike
<1>6. NetStep({[o |-> o, r |-> reg.op[o].report]})
  <2> DEFINE m == [o |-> o, r |-> reg.op[o].report]
  <2>1. m.o \in DOMAIN reg'.op /\ reg'.op[m.o].report = m.r
        BY <1>1
  <2>2. NetInv(net', LastOp(db')) /\ Carried(net') \subseteq Carried(net) \cup {m}
        BY <1>1, <1>3, <1>5
  <2> HIDE DEF m
  <2>3. NetStep({m})
        BY <2>1, <2>2 DEF NetStep
  <2>4. QED
        BY <2>3 DEF m
<1>7. QED
      BY <1>1, <1>6, SocketOnly

-----------------------------------------------------------------------------
(* Runs, faults and the passing of time.                                   *)

\* A run is bound only to an accepted revision.
LEMMA RunStep ==
    ASSUME ConnectionInv, bind_new_run \/ resume_run \/ RunEnds
    PROVE  ConnectionInv'
<1>1. UNCHANGED <<db, net, reg, flight, world>>
      BY DEF bind_new_run, resume_run, RunEnds, Starts
<1>2. RunInv(run', reg)
  <2>1. ASSUME NEW pin, Starts(pin)
        PROVE  RunInv(run', reg)
    <3>1. PICK key \in reg.accepted : key.src = pin
          BY <2>1 DEF Starts, resolve
    <3>2. key \in Snapshots
          BY DEF ConnectionInv, RegInv, RegShape
    <3>3. pin \in Commits /\ run' = [st |-> "running", pin |-> pin]
          BY <2>1, <3>1, <3>2 DEF Snapshots, Starts
    <3>4. QED
          BY <3>1, <3>3 DEF RunInv
  <2>2. CASE bind_new_run \/ resume_run
        BY <2>1, <2>2 DEF bind_new_run, resume_run
  <2>3. CASE RunEnds
        BY <2>3 DEF RunEnds, ConnectionInv, RunInv
  <2>4. QED
        BY <2>2, <2>3
<1>3. 1 \in Versions /\ LastOp(db) \in Nat
      BY RegistryIsFinite, Somethings DEF Versions
<1>4. StoreStep /\ NetStep({}) /\ RegStep(1) /\ FlightMoves(1) /\ WorldMoves(1)
      BY <1>1, <1>3, StoreStays, NetStays, RegistryStays, FlightStays, WorldStays
<1>5. QED
      BY <1>2, <1>3, <1>4, Combined

\* The socket is lost, or the runner registers again.
LEMMA SocketFaults ==
    ASSUME ConnectionInv, Drop \/ Register
    PROVE  ConnectionInv'
<1>1. NetInv(net, LastOp(db)) /\ LastOp(db) \in 0 .. MaxOps
      BY RegistryIsFinite DEF ConnectionInv
<1>2. UNCHANGED <<db, run, reg, flight>> /\ (UNCHANGED world \/ Fault)
      BY DEF Drop, Register
<1>3. NetStep({})
  <2>1. CASE Drop
        BY <1>1, <1>2, <2>1, NetCut DEF Drop, NetStep
  <2>2. CASE Register
    <3>1. net' \in [up : BOOLEAN, cmds : SUBSET (1 .. LastOp(db)), inbox : {net.inbox},
                    reps : {net.reps}, sent : {net'.sent}, told : {net'.told}]
          BY <1>1, <2>2 DEF NetInv, Register
    <3>2. QED
          BY <1>1, <1>2, <3>1, NetAlike DEF NetStep
  <2>3. QED
        BY <2>1, <2>2
<1>4. QED
      BY <1>2, <1>3, SocketOnly

\* A restart forgets the checks and keeps the registry.
LEMMA CrashStep ==
    ASSUME ConnectionInv, Crash
    PROVE  ConnectionInv'
<1>1. /\ Fault /\ net' = Cut /\ flight' = [p \in Versions |-> NoFlight]
      /\ db' = db /\ reg' = reg
      /\ run' = [run EXCEPT !.st = IF @ = "running" THEN "ended" ELSE @]
      BY DEF Crash
<1>2. 1 \in Versions /\ NetInv(net, LastOp(db)) /\ LastOp(db) \in 0 .. MaxOps
      BY RegistryIsFinite, Somethings DEF Versions, ConnectionInv
<1>3. NetStep({})
      BY <1>1, <1>2, NetCut DEF NetStep
<1>4. FlightMoves(1)
      BY <1>1, FlightNone DEF FlightMoves
<1>5. RunInv(run', reg)
      BY <1>1 DEF ConnectionInv, RunInv
<1>6. StoreStep /\ RegStep(1) /\ WorldMoves(1)
      BY <1>1, <1>2, StoreStays, RegistryStays, WorldStays
<1>7. QED
      BY <1>2, <1>3, <1>4, <1>5, <1>6, Combined

\* An operation expires.
LEMMA ExpireStep ==
    ASSUME ConnectionInv, Expire
    PROVE  ConnectionInv'
<1>1. /\ UNCHANGED <<db, run, net, reg, flight>>
      /\ world' = [world EXCEPT !.expired = world.expired + 1]
      BY DEF Expire
<1>2. world \in [expired : Nat, faults : Nat, logins : [Versions -> {0, 1}]]
      BY DEF ConnectionInv, WorldInv
<1>3. /\ world' \in [expired : Nat, faults : Nat, logins : [Versions -> {0, 1}]]
      /\ world'.expired = world.expired + 1 /\ world'.logins = world.logins
      BY <1>1, <1>2
<1>4. WorldMoves(1)
      BY <1>2, <1>3 DEF WorldMoves
<1>5. 1 \in Versions /\ LastOp(db) \in Nat
      BY RegistryIsFinite, Somethings DEF Versions
<1>6. StoreStep /\ NetStep({}) /\ RegStep(1) /\ FlightMoves(1) /\ RunInv(run', reg)
      BY <1>1, <1>5, StoreStays, NetStays, RegistryStays, FlightStays, RunStays
<1>7. QED
      BY <1>4, <1>5, <1>6, Combined

-----------------------------------------------------------------------------
(* The theorems.                                                           *)

\* Nothing is there at the start.
LEMMA InitConnection == Init => ConnectionInv
<1> SUFFICES ASSUME Init
             PROVE  ConnectionInv
    OBVIOUS
<1>1. db.op = <<>> /\ LastOp(db) = 0 /\ db.conn.status = "connecting"
      BY DEF Init, LastOp
<1>2. StoreInv(db)
  <2>1. <<>> \in Seq(StoreOperations)
        OBVIOUS
  <2>2. QED
        BY <1>1, <2>1, Somethings DEF Init, StoreInv, StoreShape, ReadyIsReported
<1>3. NetInv(net, LastOp(db)) /\ Carried(net) = {}
  <2>1. <<>> \in Seq(Messages) /\ <<>> \in Seq([o : Versions, accepted : BOOLEAN])
        OBVIOUS
  <2>2. net.reps = <<>> /\ net.inbox = <<>> /\ Len(<<>>) = 0
        BY DEF Init
  <2>3. Carried(net) = {}
        BY <2>2 DEF Carried
  <2>4. net \in [up : BOOLEAN, cmds : SUBSET (1 .. LastOp(db)),
                 inbox : Seq([o : Versions, accepted : BOOLEAN]),
                 reps : Seq(Messages), sent : {net.sent}, told : {net.told}]
        BY <2>1 DEF Init
  <2>5. QED
        BY <2>2, <2>3, <2>4, Somethings DEF NetInv
<1>4. RegInv(reg, LastOp(db))
  <2>1. reg.op = <<>> /\ DOMAIN reg.op = {}
        BY DEF Init
  <2>2. reg.op = [p \in DOMAIN reg.op |-> reg.op[p]]
        BY <2>1
  <2>3. Cardinality(DOMAIN reg.op) <= MAX_OPERATIONS
        BY <2>1, FS_EmptySet, Somethings
  <2>4. reg \in [op : {reg.op}, current : 0 .. MaxOps, active : Snapshots \cup {None},
                 source : Snapshots \cup {None}, snapshots : SUBSET Snapshots,
                 accepted : SUBSET Snapshots, sourceAccepted : SUBSET Snapshots]
        BY Somethings DEF Init
  <2>5. RegShape(reg, LastOp(db))
        BY <2>1, <2>2, <2>3, <2>4 DEF Init, RegShape
  <2>6. QED
        BY <2>1, <2>5 DEF Init, RegInv, Backed
<1>5. FlightInv(flight, reg)
      BY FlightNone DEF Init, FlightInv
<1>6. WorldInv(world, reg)
      BY DEF Init, WorldInv
<1>7. AgreeInv(db, net, reg)
      BY <1>1, <1>3 DEF AgreeInv
<1>8. RunInv(run, reg)
      BY DEF Init, RunInv
<1>9. QED
      BY <1>2, <1>3, <1>4, <1>5, <1>6, <1>7, <1>8 DEF ConnectionInv

\* Every step preserves the invariant.
LEMMA NextConnection == ConnectionInv /\ [Next]_vars => ConnectionInv'
<1> SUFFICES ASSUME ConnectionInv, [Next]_vars
             PROVE  ConnectionInv'
    OBVIOUS
<1>1. CASE CreateConnection \/ Revoke
      BY <1>1, CreateStep, RevokeStep
<1>2. CASE bind_new_run \/ resume_run \/ RunEnds
      BY <1>2, RunStep
<1>3. CASE \E kind \in {"test", "sign_in"} : begin_workspace_setup(kind)
      BY <1>3, BeginStep
<1>4. CASE \E o \in Versions : submit_sign_in(o)
      BY <1>4, SubmitStep
<1>5. CASE ServerStep
      BY <1>5, ReportStep, DispatchStep DEF ServerStep
<1>6. CASE RunnerStep
      BY <1>6, SocketFaults, AckStep, HeartbeatStep, ExecuteStep, FlightStepKeeps DEF RunnerStep
<1>7. CASE Drop \/ Crash \/ Expire
      BY <1>7, SocketFaults, CrashStep, ExpireStep
<1>8. CASE UNCHANGED vars
      BY <1>8 DEF vars, ConnectionInv, InFlight, Known
<1>9. QED
      BY <1>1, <1>2, <1>3, <1>4, <1>5, <1>6, <1>7, <1>8 DEF Next

\* The invariant holds in every state.
LEMMA ConnectionAlways == Spec => []ConnectionInv
  BY InitConnection, NextConnection, PTL DEF Spec

\* What the registry says is loadable, keeps the pins and agrees with the store.
LEMMA SoundFromInvariant == ConnectionInv => RegistryIsSound
<1> SUFFICES ASSUME ConnectionInv
             PROVE  RegistryIsSound
    OBVIOUS
<1>1. /\ StoreInv(db) /\ StoreShape(db) /\ RegShape(reg, LastOp(db)) /\ Backed(reg)
      /\ \A o \in DOMAIN reg.op : ReceiptInv(reg, o)
      BY DEF ConnectionInv, StoreInv, RegInv
<1>2. TypeOK
      BY <1>1 DEF TypeOK, ConnectionInv, StoreShape, NetInv, RegShape, RunInv
<1>3. \A o \in DOMAIN reg.op, key \in Snapshots :
         AckedFor(reg, o, key) => /\ reg.op[o].ack = TRUE /\ reg.op[o].candidate = key
                                  /\ reg.op[o].report.src = key.src
      BY <1>1, Somethings DEF AckedFor, ReceiptInv
<1>4. RegistryLoads
  <2>1. ASSUME NEW key \in reg.snapshots, key \in reg.accepted
        PROVE  \E o \in DOMAIN reg.op : /\ reg.op[o].ack = TRUE /\ reg.op[o].candidate = key
                                        /\ IsReady(reg.op[o].report)
                                        /\ reg.op[o].report.src = key.src
    <3>1. PICK o \in DOMAIN reg.op : AckedFor(reg, o, key) /\ IsReady(reg.op[o].report)
          BY <1>1, <2>1 DEF Backed
    <3>2. key \in Snapshots
          BY <1>1 DEF RegShape
    <3>3. QED
          BY <1>3, <3>1, <3>2
  <2>2. ASSUME NEW key \in reg.snapshots, key \in reg.sourceAccepted
        PROVE  \E o \in DOMAIN reg.op : /\ reg.op[o].ack = TRUE /\ reg.op[o].candidate = key
                                        /\ reg.op[o].report.src = key.src
    <3>1. PICK o \in DOMAIN reg.op : AckedFor(reg, o, key)
          BY <1>1, <2>2 DEF Backed
    <3>2. key \in Snapshots
          BY <1>1 DEF RegShape
    <3>3. QED
          BY <1>3, <3>1, <3>2
  <2>3. QED
        BY <1>1, <2>1, <2>2 DEF RegistryLoads, validate_registry, RegShape, Backed
<1>5. PinsSurvive
      BY DEF PinsSurvive, ConnectionInv, RunInv
<1>6. SidesAgree
  <2>1. db.conn.status = "ready" => /\ IsReady(db.op[LastOp(db)].report)
                                    /\ db.conn.source = db.op[LastOp(db)].report.src
        BY <1>1 DEF StoreInv, ReadyIsReported
  <2>2. ASSUME reg.active # None
        PROVE  reg.op[reg.current].ack = TRUE /\ reg.op[reg.current].candidate = reg.active
        BY <1>1, <2>2 DEF Backed, AckedFor
  <2>3. ASSUME reg.active # None, reg.current = LastOp(db), db.conn.status = "ready"
        PROVE  reg.active.src = db.conn.source
    <3>1. /\ LastOp(db) \in Nat /\ LastOp(db) > 0
          /\ db.op[LastOp(db)].report # None /\ IsReady(db.op[LastOp(db)].report)
          /\ db.conn.source = db.op[LastOp(db)].report.src
          BY <1>1, <2>3, RegistryIsFinite, Somethings DEF StoreInv, ReadyIsReported
    <3>2. Matches(reg, LastOp(db), db.op[LastOp(db)].report)
          BY <3>1 DEF ConnectionInv, AgreeInv
    <3>3. reg.op[reg.current].report = db.op[LastOp(db)].report
          BY <2>3, <3>1, <3>2 DEF Matches
    <3>4. reg.active \in Snapshots /\ reg.current \in DOMAIN reg.op
          /\ AckedFor(reg, reg.current, reg.active)
          BY <1>1, <2>3 DEF Backed, RegShape
    <3>5. QED
          BY <1>3, <3>1, <3>3, <3>4
  <2>4. QED
        BY <2>1, <2>2, <2>3 DEF SidesAgree
<1>7. QED
      BY <1>2, <1>4, <1>5, <1>6 DEF RegistryIsSound

(* Whatever is lost, repeated, refused, expired or forgotten, and however    *)
(* often the runner restarts, the registry it writes is one it would load    *)
(* (validate_registry), it keeps the pin of the run that started, and the    *)
(* provider it would start is the one the store calls ready.                 *)
THEOREM RegistryIsSoundHolds == Spec => []RegistryIsSound
  BY ConnectionAlways, SoundFromInvariant, PTL

(* A sign-in operation starts the provider's login at most once, across      *)
(* repeated commands, restarts and receipts the registry has forgotten       *)
(* (claim_login, reserve_operation).                                         *)
THEOREM NativeLoginOnceHolds == Spec => []NativeLoginOnce
<1>1. ConnectionInv => NativeLoginOnce
  <2>1. SUFFICES ASSUME ConnectionInv, NEW o \in Versions
                 PROVE  world.logins[o] <= 1
        BY DEF NativeLoginOnce
  <2>2. world \in [expired : Nat, faults : Nat, logins : [Versions -> {0, 1}]]
        BY <2>1 DEF ConnectionInv, WorldInv
  <2>3. world.logins[o] \in {0, 1}
        BY <2>2
  <2>4. QED
        BY <2>3
<1>2. QED
      BY <1>1, ConnectionAlways, PTL
=============================================================================
